------------------------------ MODULE PostSale ------------------------------
(***************************************************************************)
(* What follows a sale: the customer is sent a survey by a queue job, as   *)
(* often as the salesperson asks for it; the customer answers through the  *)
(* mailed link; the salesperson may record the feedback by hand; and a     *)
(* daily job reminds of cases nobody has asked about.  All of them write   *)
(* the same two rows, PostSaleCase and FeedbackSurvey, from what they read *)
(* earlier.  Times are represented by who wrote them.                      *)
(***************************************************************************)
EXTENDS Naturals, Sequences

CONSTANTS Sends,       \* the salesperson's requests to send a survey
          BySale,      \* the job that the sale itself queued
          Submissions, \* the customer's answers
          Marks,       \* the feedback recorded by hand
          None,        \* no date
          MaxCrashes   \* how often a job or request dies half way

ASSUME PostSaleAssumption ==
  /\ BySale \notin Sends
  /\ None \notin Submissions \union Marks
  /\ MaxCrashes \in Nat

VARIABLES
  feedbackReceivedAt,  \* PostSaleCase: who gave the feedback
  reminderAt,          \* PostSaleCase: whether reminderAt has passed
  reminderSentAt,      \* PostSaleCase: whether the reminder is recorded
  survey,       \* the FeedbackSurvey row; responseToken 0 when there is none
  responses,    \* SurveyResponse: who answered through which link
  queue,        \* the waiting jobs of the post-sale-survey queue
  worker,       \* the job it works on
  tokens,       \* tokens generated so far
  mailed,       \* links in the customer's mailbox
  send,         \* what became of each request to send
  submit, mark, \* the submissions and the marks
  scan,         \* the daily job
  salesRep,     \* whether the salesperson is an active user
  notices,      \* reminders in the salesperson's inbox
  crashes

case  == <<feedbackReceivedAt, reminderAt, reminderSentAt>>
job   == <<queue, worker, tokens, mailed, send>>
daily == <<scan, salesRep, notices>>
caseVars == <<case, survey, responses, job, submit, mark, daily, crashes>>
-----------------------------------------------------------------------------
Jobs  == Sends \union {BySale}
Dates == Submissions \union Marks \union {None}

Idle    == [pc |-> "idle", send |-> BySale, runs |-> 0, token |-> 0]
Unread  == [pc |-> "idle", token |-> 0]
NoMark  == [pc |-> "idle", feedback |-> None, sent |-> FALSE,
            responded |-> None]

(* The case has just been opened by a sale, which queued a survey for it   *)
(* when it has a contact person.                                           *)
CaseInit ==
  /\ feedbackReceivedAt = None /\ reminderAt = FALSE /\ reminderSentAt = FALSE
  /\ survey = [responseToken |-> 0, send |-> BySale, respondedAt |-> None]
  /\ responses = {}
  /\ queue \in {<< >>, <<[send |-> BySale, runs |-> 0]>>}
  /\ worker = Idle
  /\ tokens = 0
  /\ mailed = {}
  /\ send = [s \in Jobs |-> IF s = BySale /\ queue # << >>
                               THEN "queued" ELSE "idle"]
  /\ submit = [c \in Submissions |-> Unread]
  /\ mark = [m \in Marks |-> NoMark]
  /\ scan = "idle" /\ salesRep = TRUE /\ notices = 0
  /\ crashes = 0

(* sendSurvey has checked the template and the recipient.                  *)
SendSurvey(s) ==
  /\ send[s] = "idle"
  /\ queue' = Append(queue, [send |-> s, runs |-> 0])
  /\ send' = [send EXCEPT ![s] = "queued"]
  /\ UNCHANGED <<case, survey, responses, worker, tokens, mailed, submit,
                 mark, daily, crashes>>

TakeJob ==
  /\ worker.pc = "idle" /\ queue # << >>
  /\ worker' = [pc |-> "taken", send |-> Head(queue).send,
                runs |-> Head(queue).runs, token |-> 0]
  /\ queue' = Tail(queue)
  /\ UNCHANGED <<case, survey, responses, tokens, mailed, send, submit,
                 mark, daily, crashes>>

(* The jobs that a sale queues name no survey and no recipient: Prisma     *)
(* refuses the upsert, and a job that throws is not tried again.           *)
RefuseUpsert ==
  /\ worker.pc = "taken" /\ worker.send = BySale
  /\ worker' = Idle
  /\ send' = [send EXCEPT ![BySale] = "failed"]
  /\ UNCHANGED <<case, survey, responses, queue, tokens, mailed, submit,
                 mark, daily, crashes>>

(* Mutant of Upsert. *)
UpsertKeepsToken ==
  /\ worker.pc = "taken" /\ worker.send # BySale
  /\ tokens' = tokens + 1
  /\ survey' = [responseToken |-> IF survey.responseToken = 0 THEN tokens'
                                  ELSE survey.responseToken,
                send |-> worker.send, respondedAt |-> None]
  /\ worker' = [worker EXCEPT !.pc = "mailing", !.token = tokens']
  /\ UNCHANGED <<case, responses, queue, mailed, send, submit, mark, daily,
                 crashes>>

Upsert ==
  /\ worker.pc = "taken" /\ worker.send # BySale
  /\ tokens' = tokens + 1
  /\ survey' = [responseToken |-> tokens', send |-> worker.send,
                respondedAt |-> None]
  /\ worker' = [worker EXCEPT !.pc = "mailing", !.token = tokens']
  /\ UNCHANGED <<case, responses, queue, mailed, send, submit, mark, daily,
                 crashes>>

Mail ==
  /\ worker.pc = "mailing"
  /\ mailed' = mailed \union {worker.token}
  /\ worker' = [worker EXCEPT !.pc = "mailed"]
  /\ UNCHANGED <<case, survey, responses, queue, tokens, send, submit, mark,
                 daily, crashes>>

MailFails ==
  /\ worker.pc = "mailing"
  /\ worker' = Idle
  /\ send' = [send EXCEPT ![worker.send] = "failed"]
  /\ UNCHANGED <<case, survey, responses, queue, tokens, mailed, submit,
                 mark, daily, crashes>>

EndJob ==
  /\ worker.pc = "mailed"
  /\ worker' = Idle
  /\ send' = [send EXCEPT ![worker.send] = "mailed"]
  /\ UNCHANGED <<case, survey, responses, queue, tokens, mailed, submit,
                 mark, daily, crashes>>

(* The process dies under the job.  BullMQ finds it stalled and puts it    *)
(* first in the queue again, once.                                         *)
JobStalls ==
  /\ worker.pc # "idle" /\ crashes < MaxCrashes
  /\ crashes' = crashes + 1
  /\ worker' = Idle
  /\ \/ /\ worker.runs = 0
        /\ queue' = <<[send |-> worker.send, runs |-> 1]>> \o queue
        /\ UNCHANGED send
     \/ /\ worker.runs = 1
        /\ send' = [send EXCEPT ![worker.send] = "failed"]
        /\ UNCHANGED queue
  /\ UNCHANGED <<case, survey, responses, tokens, mailed, submit, mark, daily>>
-----------------------------------------------------------------------------
(* submit: the link is looked up and the survey checked first (a link that *)
(* was replaced or answered is refused, which changes nothing) ...         *)
OpenLink(c) ==
  /\ submit[c].pc = "idle" /\ survey.responseToken \in mailed
  /\ survey.respondedAt = None
  /\ submit' = [submit EXCEPT ![c] =
                  [pc |-> "checked", token |-> survey.responseToken]]
  /\ UNCHANGED <<case, survey, responses, job, mark, daily, crashes>>

(* ... the answers and both dates are written in one transaction, to the   *)
(* survey's row, whatever its token is by now.                             *)
StoreAnswers(c) ==
  /\ submit[c].pc = "checked"
  /\ responses' = responses \union {[link |-> submit[c].token, by |-> c]}
  /\ survey' = [survey EXCEPT !.respondedAt = c]
  /\ feedbackReceivedAt' = c
  /\ submit' = [submit EXCEPT ![c] = [pc |-> "done", token |-> 0]]
  /\ UNCHANGED <<reminderAt, reminderSentAt, job, mark, daily, crashes>>

(* markFeedback: getById ...                                               *)
ReadCase(m) ==
  /\ mark[m].pc = "idle"
  /\ mark' = [mark EXCEPT ![m] =
       [pc |-> "case", feedback |-> feedbackReceivedAt,
        sent |-> survey.responseToken # 0, responded |-> survey.respondedAt]]
  /\ UNCHANGED <<case, survey, responses, job, submit, daily, crashes>>

\* ... the earlier date, or now ...
DateOf(m) == IF mark[m].feedback = None THEN m ELSE mark[m].feedback

(* Mutant of MarkCase. *)
MarkCaseLast(m) ==
  /\ mark[m].pc = "case" /\ mark[m].sent
  /\ survey' = [survey EXCEPT !.respondedAt = m]
  /\ mark' = [mark EXCEPT ![m].pc = "survey"]
  /\ UNCHANGED <<case, responses, job, submit, daily, crashes>>

MarkCase(m) ==
  /\ mark[m].pc = "case"
  /\ feedbackReceivedAt' = DateOf(m)
  /\ mark' = [mark EXCEPT ![m] =
       IF mark[m].sent THEN [@ EXCEPT !.pc = "survey"]
                       ELSE [NoMark EXCEPT !.pc = "done"]]
  /\ UNCHANGED <<reminderAt, reminderSentAt, survey, responses, job, submit,
                 daily, crashes>>

(* ... and in a statement of its own the survey, if there was one.         *)
MarkSurvey(m) ==
  /\ mark[m].pc = "survey"
  /\ survey' = [survey EXCEPT !.respondedAt =
       IF mark[m].responded = None THEN DateOf(m) ELSE mark[m].responded]
  /\ mark' = [mark EXCEPT ![m] = [NoMark EXCEPT !.pc = "done"]]
  /\ UNCHANGED <<case, responses, job, submit, daily, crashes>>

MarkDies(m) ==
  /\ mark[m].pc \in {"case", "survey"} /\ crashes < MaxCrashes
  /\ crashes' = crashes + 1
  /\ mark' = [mark EXCEPT ![m] = [NoMark EXCEPT !.pc = "failed"]]
  /\ UNCHANGED <<case, survey, responses, job, submit, daily>>
-----------------------------------------------------------------------------
(* Days pass, and a user may be deactivated.                               *)
BecomeDue ==
  /\ ~reminderAt
  /\ reminderAt' = TRUE
  /\ UNCHANGED <<feedbackReceivedAt, reminderSentAt, survey, responses, job,
                 submit, mark, daily, crashes>>

SalesRepLeaves ==
  /\ salesRep
  /\ salesRep' = FALSE
  /\ UNCHANGED <<case, survey, responses, job, submit, mark, scan, notices,
                 crashes>>

(* Mutant of FindDueCase. *)
FindDueCaseUnanswered ==
  /\ scan = "idle" /\ reminderAt /\ ~reminderSentAt
  /\ feedbackReceivedAt = None
  /\ scan' = "notify"
  /\ UNCHANGED <<case, survey, responses, job, submit, mark, salesRep,
                 notices, crashes>>

FindDueCase ==
  /\ scan = "idle" /\ reminderAt /\ ~reminderSentAt
  /\ scan' = "notify"
  /\ UNCHANGED <<case, survey, responses, job, submit, mark, salesRep,
                 notices, crashes>>

(* A case without an active salesperson is passed over, today.             *)
Notify ==
  /\ scan = "notify"
  /\ IF salesRep THEN scan' = "record" /\ notices' = notices + 1
                 ELSE scan' = "idle" /\ UNCHANGED notices
  /\ UNCHANGED <<case, survey, responses, job, submit, mark, salesRep, crashes>>

RecordReminder ==
  /\ scan = "record"
  /\ reminderSentAt' = TRUE
  /\ scan' = "idle"
  /\ UNCHANGED <<feedbackReceivedAt, reminderAt, survey, responses, job,
                 submit, mark, salesRep, notices, crashes>>

ScanDies ==
  /\ scan # "idle" /\ crashes < MaxCrashes
  /\ crashes' = crashes + 1
  /\ scan' = "idle"
  /\ UNCHANGED <<case, survey, responses, job, submit, mark, salesRep, notices>>
-----------------------------------------------------------------------------
WorkerStep == TakeJob \/ RefuseUpsert \/ Upsert \/ Mail \/ MailFails \/ EndJob
DailyStep  == FindDueCase \/ Notify \/ RecordReminder

CaseNext ==
  \/ \E s \in Sends : SendSurvey(s)
  \/ WorkerStep \/ JobStalls
  \/ \E c \in Submissions : OpenLink(c) \/ StoreAnswers(c)
  \/ \E m \in Marks : ReadCase(m) \/ MarkCase(m) \/ MarkSurvey(m) \/ MarkDies(m)
  \/ BecomeDue \/ SalesRepLeaves
  \/ DailyStep \/ ScanDies

(* The queue's worker goes on, and the scheduler starts the scan daily.    *)
CaseSpec == CaseInit /\ [][CaseNext]_caseVars
            /\ WF_caseVars(WorkerStep) /\ WF_caseVars(DailyStep)
-----------------------------------------------------------------------------
CaseTypeOK ==
  /\ feedbackReceivedAt \in Dates
  /\ reminderAt \in BOOLEAN /\ reminderSentAt \in BOOLEAN
  /\ survey \in [responseToken : Nat, send : Jobs, respondedAt : Dates]
  /\ responses \subseteq [link : Nat, by : Submissions]
  /\ queue \in Seq([send : Jobs, runs : {0, 1}])
  /\ worker \in [pc : {"idle", "taken", "mailing", "mailed"}, send : Jobs,
                 runs : {0, 1}, token : 0 .. tokens]
  /\ tokens \in Nat /\ mailed \subseteq 0 .. tokens
  /\ send \in [Jobs -> {"idle", "queued", "mailed", "failed"}]
  /\ submit \in [Submissions ->
       [pc : {"idle", "checked", "done"}, token : Nat]]
  /\ mark \in [Marks -> [pc : {"idle", "case", "survey", "done", "failed"},
                         feedback : Dates, sent : BOOLEAN, responded : Dates]]
  /\ scan \in {"idle", "notify", "record"} /\ salesRep \in BOOLEAN
  /\ notices \in Nat /\ crashes \in 0 .. MaxCrashes

(* A survey that counts as answered belongs to a case whose feedback is    *)
(* recorded: the two rows never tell different stories, although a mark    *)
(* writes them one after the other, may die in between, and the survey may *)
(* be sent again at any time.                                              *)
AnswerMeansFeedback == survey.respondedAt # None => feedbackReceivedAt # None

(* When the queue has come to rest, the link that works is one the         *)
(* customer has, unless the job that made it failed: no crash and no       *)
(* second send leaves the customer with dead links only.                   *)
LiveLinkMailed ==
  (worker.pc = "idle" /\ queue = << >> /\ survey.responseToken # 0) =>
     survey.responseToken \in mailed \/ send[survey.send] = "failed"

(* The reminder that is recorded was sent, and it was sent once, but for   *)
(* runs that died before they could record it.                             *)
RemindedOnce == /\ reminderSentAt => notices > 0
                /\ notices <= 1 + crashes

(* Every due case of an active salesperson is reminded of.                 *)
DueCaseReminded == reminderAt ~> (reminderSentAt \/ ~salesRep)
=============================================================================
