--------------------------- MODULE FulfilmentProofs --------------------------
(***************************************************************************)
(* Theorems about what follows an accepted quote: the case of PostSale and *)
(* the orders of OrderFulfilment.                                          *)
(*                                                                         *)
(* Of PostSale, for any number of sends, submissions, marks and crashes:   *)
(* the types; that an answered survey has its feedback; that the customer  *)
(* has the link that works; that a case is reminded of once.               *)
(*                                                                         *)
(* Of OrderFulfilment, for any number of requests, items and quantities:   *)
(* its types, that the order keeps items, and that a request which runs    *)
(* alone leaves a status that fits the items.                              *)
(***************************************************************************)
EXTENDS PostSale, OrderFulfilment, TLAPS

LEMMA QueueFacts ==
  ASSUME NEW S, NEW q \in Seq(S)
  PROVE  /\ \A x \in S : /\ Append(q, x) \in Seq(S)
                         /\ <<x>> \o q \in Seq(S)
         /\ q # << >> => Head(q) \in S /\ Tail(q) \in Seq(S)
  OBVIOUS

LEMMA DatesOfMarks ==
  ASSUME CaseTypeOK, NEW m \in Marks
  PROVE  DateOf(m) \in Dates /\ DateOf(m) # None
  BY PostSaleAssumption DEF DateOf, CaseTypeOK, Dates, PostSaleAssumption

(***************************************************************************)
(* The type invariant.                                                     *)
(***************************************************************************)
THEOREM PostSaleTypes == CaseSpec => []CaseTypeOK
<1>1. CaseInit => CaseTypeOK
  <2> SUFFICES ASSUME CaseInit PROVE CaseTypeOK
    OBVIOUS
  <2>1. BySale \in Jobs /\ None \in Dates
    BY DEF Jobs, Dates
  <2>2. queue \in Seq([send : Jobs, runs : {0, 1}])
    <3>1. [send |-> BySale, runs |-> 0] \in [send : Jobs, runs : {0, 1}]
      BY <2>1
    <3>2. \A S : << >> \in Seq(S) /\ \A x \in S : <<x>> \in Seq(S)
      OBVIOUS
    <3>3. queue = << >> \/ queue = <<[send |-> BySale, runs |-> 0]>>
      BY DEF CaseInit
    <3>4. QED
      BY <3>1, <3>2, <3>3
  <2>3. 0 \in 0 .. tokens /\ mailed \subseteq 0 .. tokens /\ crashes \in 0 .. MaxCrashes
    BY PostSaleAssumption DEF CaseInit, PostSaleAssumption
  <2>4. /\ worker \in [pc : {"idle", "taken", "mailing", "mailed"}, send : Jobs,
                       runs : {0, 1}, token : 0 .. tokens]
        /\ survey \in [responseToken : Nat, send : Jobs, respondedAt : Dates]
        /\ send \in [Jobs -> {"idle", "queued", "mailed", "failed"}]
    BY <2>1, <2>3 DEF CaseInit, Idle
  <2>5. /\ submit \in [Submissions ->
              [pc : {"idle", "checked", "done"}, token : Nat]]
        /\ mark \in [Marks -> [pc : {"idle", "case", "survey", "done", "failed"},
                               feedback : Dates, sent : BOOLEAN, responded : Dates]]
    BY <2>1 DEF CaseInit, Unread, NoMark
  <2>6. /\ feedbackReceivedAt \in Dates /\ tokens \in Nat /\ notices \in Nat
        /\ responses \subseteq [link : Nat, by : Submissions]
        /\ scan \in {"idle", "notify", "record"} /\ salesRep \in BOOLEAN
        /\ reminderAt \in BOOLEAN /\ reminderSentAt \in BOOLEAN
    BY <2>1 DEF CaseInit
  <2>7. QED
    BY <2>2, <2>3, <2>4, <2>5, <2>6 DEF CaseTypeOK
<1>2. CaseTypeOK /\ [CaseNext]_caseVars => CaseTypeOK'
  <2> SUFFICES ASSUME CaseTypeOK, [CaseNext]_caseVars PROVE CaseTypeOK'
    OBVIOUS
  <2> DEFINE Waiting == [send : Jobs, runs : {0, 1}]
  <2>0. /\ Sends \subseteq Jobs /\ BySale \in Jobs /\ None \in Dates
        /\ Submissions \subseteq Dates /\ Marks \subseteq Dates
        /\ MaxCrashes \in Nat
    BY PostSaleAssumption DEF Jobs, Dates, PostSaleAssumption
  <2>1. ASSUME NEW s \in Sends, SendSurvey(s) PROVE CaseTypeOK'
    <3>1. [send |-> s, runs |-> 0] \in Waiting
      BY <2>0
    <3>2. queue' \in Seq(Waiting)
      BY <2>1, <3>1, QueueFacts DEF SendSurvey, CaseTypeOK
    <3>3. QED
      BY <2>1, <3>2 DEF SendSurvey, CaseTypeOK, case, daily
  <2>2. CASE TakeJob
    <3>1. Head(queue) \in Waiting /\ queue' \in Seq(Waiting)
      BY <2>2, QueueFacts DEF TakeJob, CaseTypeOK
    <3>2. worker' \in [pc : {"idle", "taken", "mailing", "mailed"}, send : Jobs,
                       runs : {0, 1}, token : Nat]
      BY <2>2, <3>1 DEF TakeJob
    <3>3. QED
      BY <2>2, <3>1, <3>2 DEF TakeJob, CaseTypeOK, case, daily
  <2>3. CASE RefuseUpsert
    BY <2>0, <2>3 DEF RefuseUpsert, CaseTypeOK, Idle, case, daily
  <2>4. CASE Upsert
    <3>1. tokens' \in Nat /\ tokens' \in 0 .. tokens' /\ mailed' \subseteq 0 .. tokens'
      BY <2>4 DEF Upsert, CaseTypeOK
    <3>2. survey' \in [responseToken : Nat, send : Jobs, respondedAt : Dates]
      BY <2>0, <2>4, <3>1 DEF Upsert, CaseTypeOK
    <3>3. worker' \in [pc : {"idle", "taken", "mailing", "mailed"}, send : Jobs,
                       runs : {0, 1}, token : 0 .. tokens']
      BY <2>4, <3>1 DEF Upsert, CaseTypeOK
    <3>4. QED
      BY <2>4, <3>1, <3>2, <3>3 DEF Upsert, CaseTypeOK, case, daily
  <2>5. CASE Mail
    <3>1. worker.token \in 0 .. tokens
      BY DEF CaseTypeOK
    <3>2. mailed' \subseteq 0 .. tokens
      BY <2>5, <3>1 DEF Mail, CaseTypeOK
    <3>3. QED
      BY <2>5, <3>2 DEF Mail, CaseTypeOK, case, daily
  <2>6. CASE MailFails
    BY <2>0, <2>6 DEF MailFails, CaseTypeOK, Idle, case, daily
  <2>7. CASE EndJob
    BY <2>0, <2>7 DEF EndJob, CaseTypeOK, Idle, case, daily
  <2>8. CASE JobStalls
    <3>1. [send |-> worker.send, runs |-> 1] \in Waiting
      BY DEF CaseTypeOK
    <3>2. queue' \in Seq(Waiting)
      <4>1. queue \in Seq(Waiting)
        BY DEF CaseTypeOK
      <4>2. <<[send |-> worker.send, runs |-> 1]>> \o queue \in Seq(Waiting)
        BY <3>1, <4>1, QueueFacts
      <4>3. QED
        BY <2>8, <4>1, <4>2 DEF JobStalls
    <3>3. crashes' \in 0 .. MaxCrashes
      BY <2>0, <2>8 DEF JobStalls, CaseTypeOK
    <3>4. QED
      BY <2>0, <2>8, <3>2, <3>3 DEF JobStalls, CaseTypeOK, Idle, case, daily
  <2>9. ASSUME NEW c \in Submissions, OpenLink(c) PROVE CaseTypeOK'
    <3>1. survey.responseToken \in Nat
      BY DEF CaseTypeOK
    <3>2. QED
      BY <2>9, <3>1 DEF OpenLink, CaseTypeOK, case, job, daily
  <2>10. ASSUME NEW c \in Submissions, StoreAnswers(c) PROVE CaseTypeOK'
    <3>1. responses' \subseteq [link : Nat, by : Submissions]
      BY <2>10 DEF StoreAnswers, CaseTypeOK
    <3>2. survey' \in [responseToken : Nat, send : Jobs, respondedAt : Dates]
      BY <2>0, <2>10 DEF StoreAnswers, CaseTypeOK
    <3>3. submit' \in [Submissions ->
            [pc : {"idle", "checked", "done"}, token : Nat]]
      BY <2>10 DEF StoreAnswers, CaseTypeOK
    <3>4. QED
      BY <2>0, <2>10, <3>1, <3>2, <3>3 DEF StoreAnswers, CaseTypeOK, job, daily
  <2>11. ASSUME NEW m \in Marks, ReadCase(m) PROVE CaseTypeOK'
    BY <2>11 DEF ReadCase, CaseTypeOK, case, job, daily
  <2>12. ASSUME NEW m \in Marks, MarkCase(m) PROVE CaseTypeOK'
    <3> DEFINE MarkRecords == [pc : {"idle", "case", "survey", "done", "failed"},
                               feedback : Dates, sent : BOOLEAN, responded : Dates]
    <3>a. mark[m] \in MarkRecords
      BY DEF CaseTypeOK
    <3>b. /\ [mark[m] EXCEPT !.pc = "survey"] \in MarkRecords
          /\ [NoMark EXCEPT !.pc = "done"] \in MarkRecords
      BY <2>0, <3>a DEF NoMark
    <3>c. \E r \in MarkRecords : mark' = [mark EXCEPT ![m] = r]
      BY <2>12, <3>b DEF MarkCase
    <3>1. mark' \in [Marks -> MarkRecords]
      BY <3>c DEF CaseTypeOK
    <3>2. QED
      BY <2>12, <3>1, DatesOfMarks DEF MarkCase, CaseTypeOK, job, daily
  <2>13. ASSUME NEW m \in Marks, MarkSurvey(m) PROVE CaseTypeOK'
    <3>1. survey' \in [responseToken : Nat, send : Jobs, respondedAt : Dates]
      BY <2>13, DatesOfMarks DEF MarkSurvey, CaseTypeOK
    <3>2. mark' \in [Marks -> [pc : {"idle", "case", "survey", "done", "failed"},
                             feedback : Dates, sent : BOOLEAN, responded : Dates]]
      BY <2>0, <2>13 DEF MarkSurvey, NoMark, CaseTypeOK
    <3>3. QED
      BY <2>13, <3>1, <3>2 DEF MarkSurvey, CaseTypeOK, case, job, daily
  <2>14. ASSUME NEW m \in Marks, MarkDies(m) PROVE CaseTypeOK'
    <3>1. crashes' \in 0 .. MaxCrashes
      BY <2>0, <2>14 DEF MarkDies, CaseTypeOK
    <3>2. QED
      BY <2>0, <2>14, <3>1 DEF MarkDies, NoMark, CaseTypeOK, case, job, daily
  <2>15. CASE BecomeDue
    BY <2>15 DEF BecomeDue, CaseTypeOK, job, daily
  <2>16. CASE SalesRepLeaves
    BY <2>16 DEF SalesRepLeaves, CaseTypeOK, case, job
  <2>17. CASE FindDueCase
    BY <2>17 DEF FindDueCase, CaseTypeOK, case, job
  <2>18. CASE Notify
    BY <2>18 DEF Notify, CaseTypeOK, case, job
  <2>19. CASE RecordReminder
    BY <2>19 DEF RecordReminder, CaseTypeOK, job
  <2>20. CASE ScanDies
    <3>1. crashes' \in 0 .. MaxCrashes
      BY <2>0, <2>20 DEF ScanDies, CaseTypeOK
    <3>2. QED
      BY <2>20, <3>1 DEF ScanDies, CaseTypeOK, case, job
  <2>21. CASE UNCHANGED caseVars
    BY <2>21 DEF CaseTypeOK, caseVars, case, job, daily
  <2>22. QED
    BY <2>1, <2>2, <2>3, <2>4, <2>5, <2>6, <2>7, <2>8, <2>9, <2>10, <2>11,
       <2>12, <2>13, <2>14, <2>15, <2>16, <2>17, <2>18, <2>19, <2>20, <2>21
    DEF CaseNext, WorkerStep, DailyStep
<1>3. QED
  BY <1>1, <1>2, PTL DEF CaseSpec

(***************************************************************************)
(* A mark that goes on to the survey has dated the case.                   *)
(***************************************************************************)
FeedbackFirst ==
  /\ AnswerMeansFeedback
  /\ \A m \in Marks : mark[m].pc = "survey" => feedbackReceivedAt # None

(***************************************************************************)
(* The two rows agree: whatever marks, submissions and sends overlap or    *)
(* die, a survey that counts as answered has its case's feedback recorded. *)
(***************************************************************************)
THEOREM AnswersHaveFeedback == CaseSpec => []AnswerMeansFeedback
<1>1. CaseInit => FeedbackFirst
  BY DEF CaseInit, FeedbackFirst, AnswerMeansFeedback, NoMark
<1>2. CaseTypeOK /\ FeedbackFirst /\ [CaseNext]_caseVars => FeedbackFirst'
  <2> SUFFICES ASSUME CaseTypeOK, FeedbackFirst, [CaseNext]_caseVars PROVE FeedbackFirst'
    OBVIOUS
  <2> USE DEF FeedbackFirst, AnswerMeansFeedback
  <2>1. ASSUME UNCHANGED <<feedbackReceivedAt, mark>>,
               survey'.respondedAt \in {None, survey.respondedAt}
        PROVE  FeedbackFirst'
    BY <2>1
  <2>2. ASSUME UNCHANGED <<case, survey, mark>> PROVE FeedbackFirst'
    BY <2>2 DEF case
  <2>3. CASE Upsert
    BY <2>1, <2>3 DEF Upsert, case
  <2>4. ASSUME NEW c \in Submissions, StoreAnswers(c) PROVE FeedbackFirst'
    BY <2>4, PostSaleAssumption DEF StoreAnswers, PostSaleAssumption
  <2>5. ASSUME NEW m \in Marks, ReadCase(m) PROVE FeedbackFirst'
    BY <2>5 DEF ReadCase, CaseTypeOK, case
  <2>6. ASSUME NEW m \in Marks, MarkCase(m) PROVE FeedbackFirst'
    BY <2>6, DatesOfMarks DEF MarkCase, NoMark, CaseTypeOK
  <2>7. ASSUME NEW m \in Marks, MarkSurvey(m) PROVE FeedbackFirst'
    BY <2>7, DatesOfMarks DEF MarkSurvey, NoMark, CaseTypeOK, case
  <2>8. ASSUME NEW m \in Marks, MarkDies(m) PROVE FeedbackFirst'
    BY <2>8 DEF MarkDies, NoMark, CaseTypeOK, case
  <2>9. CASE BecomeDue \/ RecordReminder
    BY <2>9 DEF BecomeDue, RecordReminder
  <2>10. QED
    BY <2>2, <2>3, <2>4, <2>5, <2>6, <2>7, <2>8, <2>9
    DEF CaseNext, WorkerStep, DailyStep, SendSurvey, TakeJob, RefuseUpsert, Mail, MailFails,
        EndJob, JobStalls, OpenLink, SalesRepLeaves, FindDueCase, Notify, ScanDies, caseVars
<1>3. FeedbackFirst => AnswerMeansFeedback
  BY DEF FeedbackFirst
<1>4. QED
  BY <1>1, <1>2, <1>3, PostSaleTypes, PTL DEF CaseSpec

(***************************************************************************)
(* What the daily job owes: a run that has found the case has not          *)
(* recorded it, and each further notice had a death before it.             *)
(***************************************************************************)
NoticesCounted ==
  /\ RemindedOnce
  /\ scan # "idle" => ~reminderSentAt
  /\ scan = "record" => notices > 0
  /\ scan # "record" /\ ~reminderSentAt => notices <= crashes

(***************************************************************************)
(* The salesperson is reminded of a case once, and once more at most for   *)
(* every death between a notice and its record.                            *)
(***************************************************************************)
THEOREM CasesRemindedOnce == CaseSpec => []RemindedOnce
<1>1. CaseInit => NoticesCounted
  BY DEF CaseInit, NoticesCounted, RemindedOnce
<1>2. CaseTypeOK /\ NoticesCounted /\ [CaseNext]_caseVars => NoticesCounted'
  <2> SUFFICES ASSUME CaseTypeOK, NoticesCounted, [CaseNext]_caseVars PROVE NoticesCounted'
    OBVIOUS
  <2> USE DEF NoticesCounted, RemindedOnce
  <2>0. notices \in Nat /\ crashes \in Nat
    BY PostSaleAssumption DEF CaseTypeOK, PostSaleAssumption
  <2>1. ASSUME UNCHANGED <<reminderSentAt, scan, notices>>, crashes' \in {crashes, crashes + 1}
        PROVE  NoticesCounted'
    <3>1. /\ reminderSentAt' = reminderSentAt /\ scan' = scan /\ notices' = notices
          /\ crashes' = crashes \/ crashes' = crashes + 1
      BY <2>1
    <3>2. \A n \in Nat : n <= crashes => n <= crashes'
      BY <2>0, <3>1
    <3>3. \A n \in Nat : n <= 1 + crashes => n <= 1 + crashes'
      BY <2>0, <3>1
    <3>4. QED
      BY <2>0, <3>1, <3>2, <3>3
  <2>2. CASE FindDueCase
    BY <2>2 DEF FindDueCase, case
  <2>3. CASE Notify
    BY <2>0, <2>3 DEF Notify, case
  <2>4. CASE RecordReminder
    BY <2>4 DEF RecordReminder
  <2>5. CASE ScanDies
    BY <2>0, <2>5 DEF ScanDies, case
  <2>6. CASE \E s \in Sends : SendSurvey(s)
    BY <2>1, <2>6 DEF SendSurvey, case, daily
  <2>7. CASE WorkerStep \/ JobStalls
    BY <2>1, <2>7
    DEF WorkerStep, TakeJob, RefuseUpsert, Upsert, Mail, MailFails, EndJob, JobStalls, case, daily
  <2>8. CASE \E c \in Submissions : StoreAnswers(c) \/ OpenLink(c)
    BY <2>1, <2>8 DEF StoreAnswers, OpenLink, case, daily
  <2>9. CASE \E m \in Marks : ReadCase(m) \/ MarkCase(m) \/ MarkSurvey(m) \/ MarkDies(m)
    BY <2>1, <2>9 DEF ReadCase, MarkCase, MarkSurvey, MarkDies, case, daily
  <2>10. CASE BecomeDue \/ SalesRepLeaves
    BY <2>1, <2>10 DEF BecomeDue, SalesRepLeaves, case, daily
  <2>11. CASE UNCHANGED caseVars
    BY <2>1, <2>11 DEF caseVars, case, daily
  <2>12. QED
    BY <2>2, <2>3, <2>4, <2>5, <2>6, <2>7, <2>8, <2>9, <2>10, <2>11 DEF CaseNext, DailyStep
<1>3. NoticesCounted => RemindedOnce
  BY DEF NoticesCounted
<1>4. QED
  BY <1>1, <1>2, <1>3, PostSaleTypes, PTL DEF CaseSpec

(***************************************************************************)
(* Where the survey's link is: with the customer, given up, or with a job  *)
(* that is under way or first in the queue again.                          *)
(***************************************************************************)
LinkUnderWay ==
  \/ survey.responseToken \in mailed
  \/ send[survey.send] = "failed"
  \/ worker.pc = "mailing"
  \/ worker.pc = "taken" /\ worker.send = survey.send
  \/ worker.pc = "idle" /\ queue # << >> /\ Head(queue).send = survey.send

LinkKept ==
  /\ survey.responseToken # 0 => survey.send # BySale /\ LinkUnderWay
  /\ worker.pc \in {"mailing", "mailed"} =>
       worker.token = survey.responseToken /\ worker.send = survey.send
  /\ worker.pc = "mailed" => worker.token \in mailed

LEMMA QueueHeads ==
  ASSUME NEW S, NEW q \in Seq(S), NEW x \in S
  PROVE  /\ q # << >> => Append(q, x) # << >> /\ Head(Append(q, x)) = Head(q)
         /\ <<x>> \o q # << >> /\ Head(<<x>> \o q) = x
  OBVIOUS

(***************************************************************************)
(* However often the survey is sent and the job dies, the customer is not  *)
(* left with dead links only, unless a job was given up.                   *)
(***************************************************************************)
THEOREM CustomerHasLiveLink == CaseSpec => []LiveLinkMailed
<1>1. CaseInit => LinkKept
  BY DEF CaseInit, LinkKept, Idle
<1>2. CaseTypeOK /\ LinkKept /\ [CaseNext]_caseVars => LinkKept'
  <2> SUFFICES ASSUME CaseTypeOK, LinkKept, [CaseNext]_caseVars PROVE LinkKept'
    OBVIOUS
  <2> DEFINE Waiting == [send : Jobs, runs : {0, 1}]
  <2>0. /\ queue \in Seq(Waiting) /\ survey.send \in Jobs /\ tokens \in Nat
        /\ worker \in [pc : {"idle", "taken", "mailing", "mailed"}, send : Jobs,
                       runs : {0, 1}, token : 0 .. tokens]
        /\ send \in [Jobs -> {"idle", "queued", "mailed", "failed"}]
        /\ BySale \in Jobs /\ Sends \subseteq Jobs
    BY DEF CaseTypeOK, Jobs
  <2> USE DEF LinkKept, LinkUnderWay
  <2>1. ASSUME UNCHANGED <<job, survey.responseToken, survey.send>> PROVE LinkKept'
    BY <2>1 DEF job
  <2>2. ASSUME NEW s \in Sends, SendSurvey(s) PROVE LinkKept'
    <3>1. [send |-> s, runs |-> 0] \in Waiting
      BY <2>0
    <3>2. queue # << >> => queue' # << >> /\ Head(queue') = Head(queue)
      BY <2>0, <2>2, <3>1, QueueHeads DEF SendSurvey
    <3>3. send[survey.send] = "failed" => send'[survey.send] = "failed"
      BY <2>0, <2>2 DEF SendSurvey
    <3>4. UNCHANGED <<survey, worker, mailed>>
      BY <2>2 DEF SendSurvey
    <3>5. QED
      BY <3>2, <3>3, <3>4
  <2>3. CASE TakeJob
    BY <2>3 DEF TakeJob
  <2>4. CASE RefuseUpsert
    BY <2>0, <2>4 DEF RefuseUpsert, Idle
  <2>5. CASE Upsert
    BY <2>0, <2>5 DEF Upsert
  <2>6. CASE Mail
    BY <2>0, <2>6 DEF Mail
  <2>7. CASE MailFails
    BY <2>0, <2>7 DEF MailFails, Idle
  <2>8. CASE EndJob
    BY <2>0, <2>8 DEF EndJob, Idle
  <2>9. CASE JobStalls
    <3>1. worker'.pc = "idle" /\ UNCHANGED <<survey, mailed>>
      BY <2>9 DEF JobStalls, Idle
    <3>2. CASE worker.runs = 0
      <4>1. [send |-> worker.send, runs |-> 1] \in Waiting
        BY <2>0
      <4>2. queue' # << >> /\ Head(queue').send = worker.send /\ send' = send
        BY <2>0, <2>9, <3>2, <4>1, QueueHeads DEF JobStalls
      <4>3. QED
        BY <2>9, <3>1, <4>2 DEF JobStalls
    <3>3. CASE worker.runs = 1
      <4>1. send' = [send EXCEPT ![worker.send] = "failed"] /\ worker.pc # "idle"
        BY <2>9, <3>3 DEF JobStalls
      <4>2. QED
        BY <2>0, <3>1, <4>1
    <3>4. QED
      BY <2>0, <3>2, <3>3
  <2>10. ASSUME NEW c \in Submissions, StoreAnswers(c) PROVE LinkKept'
    BY <2>1, <2>10 DEF StoreAnswers, CaseTypeOK
  <2>11. ASSUME NEW m \in Marks, MarkSurvey(m) PROVE LinkKept'
    BY <2>1, <2>11 DEF MarkSurvey, CaseTypeOK
  <2>12. ASSUME UNCHANGED <<job, survey>> PROVE LinkKept'
    BY <2>1, <2>12
  <2>13. QED
    BY <2>2, <2>3, <2>4, <2>5, <2>6, <2>7, <2>8, <2>9, <2>10, <2>11, <2>12
    DEF CaseNext, WorkerStep, DailyStep, OpenLink, ReadCase, MarkCase, MarkDies, BecomeDue,
        SalesRepLeaves, FindDueCase, Notify, RecordReminder, ScanDies, caseVars
<1>3. LinkKept => LiveLinkMailed
  BY DEF LinkKept, LinkUnderWay, LiveLinkMailed
<1>4. QED
  BY <1>1, <1>2, <1>3, PostSaleTypes, PTL DEF CaseSpec
-----------------------------------------------------------------------------
(***************************************************************************)
(* The orders.                                                             *)
(***************************************************************************)

(* The names of items that a request may yet add are not in use.           *)
Fresh ==
  \A r \in Requests :
    req[r].pc \in {"idle", "title", "look", "delete", "insert"} =>
      /\ r \notin DOMAIN items
      /\ \A o \in Requests : req[o].pc = "write" => req[o].item # r

(* A quantity that was checked still fits its item, and a status that is   *)
(* about to be written is one of the order's.                              *)
ChangeFits ==
  \A r \in Requests :
    /\ (req[r].pc = "write" /\ req[r].kind = "quantity"
          /\ req[r].item \in DOMAIN items)
       => req[r].value <= items[req[r].item].quantity
    /\ req[r].pc \in {"set", "status"} => req[r].to \in Statuses
    /\ req[r].pc = "write" => req[r].item \in Ids
    /\ req[r].pc \in {"title", "look", "delete", "insert"} => req[r].value \in Quantities

TypeInv == TypeOK /\ Fresh /\ ChangeFits

USE FulfilmentAssumption
-----------------------------------------------------------------------------
(* The status computed from the items is always one of the order's.        *)
LEMMA AutoStatusType ==
  ASSUME NEW rows, order \in Orders
  PROVE AutoStatus(rows) \in Statuses
  BY DEF AutoStatus, Full, Begun, Partial, Statuses, SalesStatuses, PurchaseStatuses, Final

(* What a row keeps when another of its fields is set.                     *)
SameBut(new, old) ==
  /\ new.pc = old.pc /\ new.kind = old.kind /\ new.item = old.item
  /\ new.value = old.value /\ new.to = old.to /\ new.rows = old.rows

LEMMA AloneTypes ==
  ASSUME NEW row \in RequestRows, NEW b \in BOOLEAN
  PROVE  /\ [row EXCEPT !.alone = b] \in RequestRows
         /\ SameBut([row EXCEPT !.alone = b], row)
         /\ [row EXCEPT !.alone = b].alone = b
  BY DEF RequestRows, SameBut

(* Entering sets the request's row and touches no other's but to say that  *)
(* it is not alone.                                                        *)
LEMMA EnterTypes ==
  ASSUME req \in [Requests -> RequestRows], NEW r \in Requests,
         NEW fields \in RequestRows, Enter(r, fields)
  PROVE  /\ req' \in [Requests -> RequestRows]
         /\ SameBut(req'[r], fields)
         /\ req'[r].alone => \A o \in Requests : ~Open(o)
         /\ \A s \in Requests \ {r} :
              SameBut(req'[s], req[s]) /\ (req'[s].alone => ~Open(s))
<1>1. PICK b \in BOOLEAN : /\ b <=> ~\E o \in Requests : Open(o)
                          /\ req'[r] = [fields EXCEPT !.alone = b]
  BY DEF Enter
<1>2. ASSUME NEW s \in Requests \ {r}
      PROVE  /\ req'[s] \in RequestRows /\ SameBut(req'[s], req[s])
             /\ req'[s].alone => ~Open(s)
  <2>1. PICK c \in BOOLEAN : /\ c <=> req[s].alone /\ ~Open(s)
                            /\ req'[s] = [req[s] EXCEPT !.alone = c]
    BY DEF Enter
  <2>2. req[s] \in RequestRows
    OBVIOUS
  <2> QED BY <2>1, <2>2, AloneTypes
<1>3. req'[r] \in RequestRows /\ SameBut(req'[r], fields)
  BY <1>1, AloneTypes
<1>4. req'[r].alone => \A o \in Requests : ~Open(o)
  BY <1>1, AloneTypes
<1>5. req' = [s \in Requests |-> req'[s]]
  BY DEF Enter
<1>6. \A s \in Requests : req'[s] \in RequestRows
  BY <1>2, <1>3
<1> QED BY <1>2, <1>3, <1>4, <1>5, <1>6
Pcs == {"idle", "write", "sync", "set", "status", "reread", "mark", "title",
        "look", "delete", "insert", "remove"} \union Ended

LEMMA GoesFacts ==
  ASSUME req \in [Requests -> RequestRows], NEW r \in Requests,
         NEW pc \in Pcs, Goes(r, pc)
  PROVE  /\ req' \in [Requests -> RequestRows]
         /\ req'[r].pc = pc /\ req'[r].to = req[r].to /\ req'[r].rows = req[r].rows
         /\ req'[r].alone = req[r].alone /\ req'[r].value = req[r].value
         /\ \A s \in Requests \ {r} : req'[s] = req[s]
  BY DEF Goes, RequestRows, Pcs

LEMMA EndsFacts ==
  ASSUME req \in [Requests -> RequestRows], NEW r \in Requests,
         NEW pc \in Ended, Ends(r, pc)
  PROVE  /\ req' \in [Requests -> RequestRows]
         /\ req'[r].pc = pc
         /\ \A s \in Requests \ {r} : req'[s] = req[s]
<1>1. [Blank EXCEPT !.pc = pc] \in RequestRows
  BY DEF Blank, RequestRows, Final, SalesStatuses, PurchaseStatuses, Ids
<1>2. [Blank EXCEPT !.pc = pc].pc = pc
  BY DEF Blank
<1> QED BY <1>1, <1>2 DEF Ends

(* The row a request has before it arrives, and the one of a change.       *)
LEMMA BlankTypes == Blank \in RequestRows
  BY DEF Blank, RequestRows, Final, SalesStatuses, PurchaseStatuses, Ids

ChangeRow(kind, item, value, pc) ==
  [Blank EXCEPT !.kind = kind, !.item = item, !.value = value, !.pc = pc]

LEMMA ChangeRows ==
  ASSUME NEW kind \in {"quantity", "cancel"}, NEW item \in Ids \union {NoId},
         NEW value \in Nat, NEW pc \in Pcs
  PROVE  /\ ChangeRow(kind, item, value, pc) \in RequestRows
         /\ ChangeRow(kind, item, value, pc).kind = kind
         /\ ChangeRow(kind, item, value, pc).item = item
         /\ ChangeRow(kind, item, value, pc).value = value
         /\ ChangeRow(kind, item, value, pc).pc = pc
  BY BlankTypes DEF ChangeRow, Blank, RequestRows, Pcs, Final, SalesStatuses, PurchaseStatuses

-----------------------------------------------------------------------------
(* What every step but an arrival and an insertion does to the items and   *)
(* to the requests ...                                                     *)
Orderly(r) ==
  /\ order' = order /\ DOMAIN items' \subseteq DOMAIN items
  /\ \A i \in DOMAIN items' : items'[i].quantity = items[i].quantity
  /\ req' \in [Requests -> RequestRows]
  /\ \A s \in Requests \ {r} : req'[s] = req[s]
  /\ req'[r].pc \notin {"idle", "write", "status", "title"}
  /\ req'[r].pc \in {"look", "delete", "insert"}
       => req[r].pc \in {"title", "look", "delete"} /\ req'[r].value = req[r].value
  /\ req'[r].pc = "set" => req'[r].to \in Statuses

(* ... which keeps what is fresh fresh and what fits fitting.              *)
LEMMA OrderlySteps ==
  ASSUME TypeInv, NEW r \in Requests, Orderly(r)
  PROVE  Fresh' /\ ChangeFits'
<1>1. Fresh'
  BY DEF TypeInv, Fresh, Orderly
<1>2. ASSUME NEW s \in Requests PROVE
        /\ (req'[s].pc = "write" /\ req'[s].kind = "quantity"
              /\ req'[s].item \in DOMAIN items')
           => req'[s].value <= items'[req'[s].item].quantity
        /\ req'[s].pc \in {"set", "status"} => req'[s].to \in Statuses'
        /\ req'[s].pc = "write" => req'[s].item \in Ids
        /\ req'[s].pc \in {"title", "look", "delete", "insert"}
             => req'[s].value \in Quantities
  <2>1. Statuses' = Statuses
    BY DEF Orderly, Statuses
  <2>2. CASE s = r
    BY <2>1, <2>2 DEF Orderly, TypeInv, ChangeFits
  <2>3. CASE s # r
    <3>1. req'[s] = req[s] /\ DOMAIN items' \subseteq DOMAIN items
      BY <2>3 DEF Orderly
    <3> QED BY <2>1, <3>1 DEF TypeInv, ChangeFits, Orderly
  <2> QED BY <2>2, <2>3
<1> QED BY <1>1, <1>2 DEF ChangeFits

(* The row with which a request arrives.                                   *)
Arriving(row) ==
  /\ row \in RequestRows
  /\ row.pc \in {"write", "failed", "status", "title", "look", "remove"}
  /\ row.pc = "write" => /\ row.item \in DOMAIN items
                         /\ row.kind = "quantity" => row.value <= items[row.item].quantity
  /\ row.pc = "status" => /\ row.to \in Statuses
                          /\ row.to = Full => row.rows = Active(items)
  /\ row.pc \in {"title", "look"} => row.value \in Quantities

Arrives(r, fields) ==
  /\ req[r].pc = "idle" /\ Enter(r, fields) /\ Arriving(fields)
  /\ UNCHANGED <<order, status, deleted, items, rowLock>>

LEMMA Arrivals ==
  ASSUME TypeInv, NEW r \in Requests, NEW fields, Arrives(r, fields)
  PROVE  TypeInv'
<1> USE DEF Arrives, Arriving
<1>1. /\ req' \in [Requests -> RequestRows]
      /\ SameBut(req'[r], fields)
      /\ \A s \in Requests \ {r} : SameBut(req'[s], req[s])
  BY EnterTypes DEF TypeInv, TypeOK
<1>2. TypeOK'
  BY <1>1 DEF TypeInv, TypeOK, Statuses
<1>3. Fresh'
  <2> SUFFICES ASSUME NEW s \in Requests,
                      req'[s].pc \in {"idle", "title", "look", "delete", "insert"}
               PROVE  /\ s \notin DOMAIN items
                      /\ \A o \in Requests : req'[o].pc = "write" => req'[o].item # s
    BY DEF Fresh
  <2>1. req[s].pc \in {"idle", "title", "look", "delete", "insert"}
    BY <1>1 DEF SameBut
  <2> QED BY <1>1, <2>1 DEF TypeInv, Fresh, SameBut
<1>4. ChangeFits'
  BY <1>1 DEF TypeInv, TypeOK, ChangeFits, SameBut, Statuses
<1> QED BY <1>2, <1>3, <1>4 DEF TypeInv
-----------------------------------------------------------------------------
(* Every beginning is such an arrival.                                     *)
LEMMA BeginArrives ==
  ASSUME TypeInv, NEW r \in Requests, Begin(r)
  PROVE  \E fields : Arrives(r, fields)
<1>0. /\ req \in [Requests -> RequestRows] /\ Blank \in RequestRows
      /\ Requests \subseteq Ids
  BY BlankTypes DEF TypeInv, TypeOK, Ids
<1>1. CASE BeginItemChange(r)
  <2>1. CASE \E i \in DOMAIN items : \E n \in 0 .. items[i].quantity + 1 :
          Enter(r, [Blank EXCEPT !.kind = "quantity", !.item = i, !.value = n,
                      !.pc = IF n <= items[i].quantity THEN "write" ELSE "failed"])
    <3>0. PICK i \in DOMAIN items : \E n \in 0 .. items[i].quantity + 1 :
            Enter(r, [Blank EXCEPT !.kind = "quantity", !.item = i, !.value = n,
                      !.pc = IF n <= items[i].quantity THEN "write" ELSE "failed"])
      BY <2>1
    <3>1. PICK n \in 0 .. items[i].quantity + 1 :
            Enter(r, [Blank EXCEPT !.kind = "quantity", !.item = i, !.value = n,
                      !.pc = IF n <= items[i].quantity THEN "write" ELSE "failed"])
      BY <3>0
    <3> DEFINE pc == IF n <= items[i].quantity THEN "write" ELSE "failed"
               fields == ChangeRow("quantity", i, n, pc)
    <3>2. i \in Ids \union {NoId} /\ n \in Nat
      BY DEF TypeInv, TypeOK, ItemRows
    <3>3. /\ fields \in RequestRows
          /\ fields.item = i /\ fields.value = n
          /\ fields.pc = "write" => n <= items[i].quantity
          /\ fields.pc \in {"write", "failed"}
      <4>1. pc \in Pcs
        BY DEF Pcs, Ended
      <4> HIDE DEF pc
      <4>2. /\ fields \in RequestRows /\ fields.item = i
            /\ fields.value = n /\ fields.pc = pc
        BY <3>2, <4>1, ChangeRows
      <4>3. pc \in {"write", "failed"} /\ (pc = "write" => n <= items[i].quantity)
        BY DEF pc
      <4> QED BY <4>2, <4>3
    <3>4. Enter(r, fields)
      BY <3>1 DEF ChangeRow
    <3> HIDE DEF fields
    <3> QED BY <1>1, <3>3, <3>4 DEF Arrives, Arriving, BeginItemChange
  <2>2. CASE \E i \in DOMAIN items, n \in {0, 1} :
          Enter(r, [Blank EXCEPT !.kind = "cancel", !.item = i, !.value = n, !.pc = "write"])
    <3>1. PICK i \in DOMAIN items, n \in {0, 1} :
            Enter(r, [Blank EXCEPT !.kind = "cancel", !.item = i, !.value = n, !.pc = "write"])
      BY <2>2
    <3> DEFINE fields == ChangeRow("cancel", i, n, "write")
    <3>2. i \in Ids \union {NoId} /\ n \in Nat
      BY DEF TypeInv, TypeOK
    <3>3. /\ fields \in RequestRows /\ fields.item = i
          /\ fields.kind = "cancel" /\ fields.pc = "write"
      <4>1. "write" \in Pcs
        BY DEF Pcs
      <4> QED BY <3>2, <4>1, ChangeRows
    <3>4. Enter(r, fields)
      BY <3>1 DEF ChangeRow
    <3> HIDE DEF fields
    <3> QED BY <1>1, <3>3, <3>4 DEF Arrives, Arriving, BeginItemChange
  <2> QED BY <1>1, <2>1, <2>2 DEF BeginItemChange
<1>2. CASE BeginStatus(r)
  <2>1. PICK t \in Targets \intersect Statuses :
          Enter(r, [Blank EXCEPT !.pc = "status", !.to = t,
                      !.rows = IF t = Full THEN Active(items) ELSE {}])
    BY <1>2 DEF BeginStatus
  <2> DEFINE fields == [Blank EXCEPT !.pc = "status", !.to = t,
                          !.rows = IF t = Full THEN Active(items) ELSE {}]
  <2>2. Active(items) \subseteq Ids
    BY DEF TypeInv, TypeOK, Active
  <2>3. /\ fields \in RequestRows /\ fields.pc = "status" /\ fields.to = t
        /\ t = Full => fields.rows = Active(items)
    BY <1>0, <2>2 DEF RequestRows
  <2> HIDE DEF fields
  <2>4. Enter(r, fields)
    BY <2>1 DEF fields
  <2> QED BY <1>2, <2>3, <2>4 DEF Arrives, Arriving, BeginStatus
<1>3. CASE BeginReplace(r)
  <2>1. PICK titled \in BOOLEAN, q \in Quantities :
          Enter(r, [Blank EXCEPT !.value = q, !.pc = IF titled THEN "title" ELSE "look"])
    BY <1>3 DEF BeginReplace
  <2> DEFINE fields == [Blank EXCEPT !.value = q, !.pc = IF titled THEN "title" ELSE "look"]
  <2>2. fields \in RequestRows /\ fields.pc \in {"title", "look"}
        /\ fields.value = q
    BY <1>0 DEF RequestRows
  <2> HIDE DEF fields
  <2>3. Enter(r, fields)
    BY <2>1 DEF fields
  <2> QED BY <1>3, <2>2, <2>3 DEF Arrives, Arriving, BeginReplace
<1>4. CASE BeginRemove(r)
  <2>1. [Blank EXCEPT !.pc = "remove"] \in RequestRows
        /\ [Blank EXCEPT !.pc = "remove"].pc = "remove"
    BY <1>0 DEF RequestRows
  <2> QED BY <1>4, <2>1 DEF Arrives, Arriving, BeginRemove
<1> QED BY <1>1, <1>2, <1>3, <1>4 DEF Begin

LEMMA TypeInvStep == TypeInv /\ [Next]_vars => TypeInv'
<1> SUFFICES ASSUME TypeInv, [Next]_vars PROVE TypeInv'
  OBVIOUS
<1>0. /\ req \in [Requests -> RequestRows] /\ Blank \in RequestRows
      /\ Requests \subseteq Ids
  BY BlankTypes DEF TypeInv, TypeOK, Ids
<1>1. ASSUME NEW r \in Requests, Begin(r) PROVE TypeInv'
  BY <1>1, BeginArrives, Arrivals
<1>2. ASSUME NEW r \in Requests, WriteItem(r) PROVE TypeInv'
  <2>1. CASE req[r].item \in DOMAIN items
    <3> DEFINE i == req[r].item
    <3>1. /\ items' = [items EXCEPT ![i] = Changed(items[i], req[r])]
          /\ Goes(r, "sync") /\ req[r].pc = "write"
          /\ UNCHANGED <<order, status, deleted, rowLock>>
      BY <1>2, <2>1 DEF WriteItem
    <3>2. /\ Changed(items[i], req[r]) \in ItemRows
          /\ Changed(items[i], req[r]).quantity = items[i].quantity
          /\ Changed(items[i], req[r]).fulfilled <= items[i].quantity
      <4>1. items[i] \in ItemRows /\ items[i].fulfilled <= items[i].quantity
            /\ items[i].quantity \in Nat
        BY <2>1 DEF TypeInv, TypeOK, ItemRows
      <4>2. req[r].value \in Nat /\ req[r].kind \in {"none", "quantity", "cancel"}
        BY <1>0 DEF RequestRows
      <4>3. req[r].kind = "quantity" => req[r].value <= items[i].quantity
        BY <2>1, <3>1 DEF TypeInv, ChangeFits
      <4>4. CASE req[r].kind = "quantity"
        BY <4>1, <4>2, <4>3, <4>4 DEF Changed, ItemRows
      <4>5. CASE req[r].kind # "quantity"
        <5>1. PICK b \in BOOLEAN :
                Changed(items[i], req[r]) = [items[i] EXCEPT !.isCancelled = b]
          BY <4>5 DEF Changed
        <5>2. /\ [items[i] EXCEPT !.isCancelled = b] \in ItemRows
              /\ [items[i] EXCEPT !.isCancelled = b].quantity = items[i].quantity
              /\ [items[i] EXCEPT !.isCancelled = b].fulfilled = items[i].fulfilled
          BY <4>1 DEF ItemRows
        <5> QED BY <4>1, <5>1, <5>2
      <4> QED BY <4>4, <4>5
    <3>3. /\ DOMAIN items' = DOMAIN items /\ items' \in [DOMAIN items' -> ItemRows]
          /\ \A j \in DOMAIN items' : /\ items'[j].fulfilled <= items'[j].quantity
                                     /\ items'[j].quantity = items[j].quantity
      BY <2>1, <3>1, <3>2 DEF TypeInv, TypeOK
    <3>4. Orderly(r)
      BY <1>0, <3>1, <3>3, GoesFacts DEF Orderly, Pcs
    <3> QED BY <3>1, <3>3, <3>4, OrderlySteps DEF TypeInv, TypeOK, Orderly, Statuses
  <2>2. CASE req[r].item \notin DOMAIN items
    <3>1. Ends(r, "failed") /\ UNCHANGED <<order, status, deleted, items, rowLock>>
      BY <1>2, <2>2 DEF WriteItem
    <3>2. Orderly(r)
      BY <1>0, <3>1, EndsFacts DEF Orderly, Ended
    <3> QED BY <3>1, <3>2, OrderlySteps DEF TypeInv, TypeOK, Orderly, Statuses
  <2> QED BY <2>1, <2>2
<1>3. ASSUME NEW r \in Requests, NEW i \in Ids, MarkItem(r, i) PROVE TypeInv'
  <2>1. /\ DOMAIN items' = DOMAIN items
        /\ \A j \in DOMAIN items' : /\ items'[j] \in ItemRows
                                   /\ items'[j].quantity = items[j].quantity
                                   /\ items'[j].fulfilled <= items'[j].quantity
    <3>1. ASSUME NEW row \in ItemRows
          PROVE  /\ [row EXCEPT !.fulfilled = row.quantity] \in ItemRows
                 /\ [row EXCEPT !.fulfilled = row.quantity].quantity = row.quantity
                 /\ [row EXCEPT !.fulfilled = row.quantity].fulfilled = row.quantity
                 /\ row.quantity <= row.quantity
      BY DEF ItemRows
    <3> QED BY <1>3, <3>1 DEF MarkItem, TypeInv, TypeOK
  <2>2. items' \in [DOMAIN items' -> ItemRows]
    BY <1>3, <2>1 DEF MarkItem
  <2>3. /\ req' \in [Requests -> RequestRows] /\ req'[r].pc = "mark"
        /\ \A s \in Requests \ {r} : req'[s] = req[s]
    BY <1>0, <1>3 DEF MarkItem, RequestRows
  <2>4. Orderly(r)
    BY <1>3, <2>1, <2>3 DEF Orderly, MarkItem
  <2> QED BY <1>3, <2>1, <2>2, <2>4, OrderlySteps
          DEF MarkItem, TypeInv, TypeOK, Orderly, Statuses
<1>4. ASSUME NEW r \in Requests, InsertItems(r) PROVE TypeInv'
  <2>1. r \in Ids /\ req[r].value \in Nat
    BY <1>0 DEF RequestRows
  <2>2. /\ req' \in [Requests -> RequestRows] /\ req'[r].pc = "sync"
        /\ \A s \in Requests \ {r} : req'[s] = req[s]
    BY <1>0, <1>4 DEF InsertItems, RequestRows
  <2>3. req[r].pc = "insert" /\ req[r].value \in Quantities
    BY <1>4 DEF InsertItems, TypeInv, ChangeFits
  <2> DEFINE row == [quantity |-> req[r].value, fulfilled |-> 0, isCancelled |-> FALSE]
  <2>4. row \in ItemRows /\ row.fulfilled <= row.quantity
    BY <2>1, <2>3 DEF ItemRows
  <2>5. /\ DOMAIN items' = (DOMAIN items \ req[r].rows) \union {r}
        /\ \A i \in DOMAIN items' : items'[i] = IF i = r THEN row ELSE items[i]
        /\ items' = [i \in DOMAIN items' |-> items'[i]]
    BY <1>4 DEF InsertItems
  <2> HIDE DEF row
  <2>6. TypeOK'
    <3>1. \A i \in DOMAIN items' : /\ items'[i] \in ItemRows
                                  /\ items'[i].fulfilled <= items'[i].quantity
      BY <2>4, <2>5 DEF TypeInv, TypeOK
    <3>2. DOMAIN items' \subseteq Ids /\ items' \in [DOMAIN items' -> ItemRows]
      BY <2>1, <2>5, <3>1 DEF TypeInv, TypeOK
    <3> QED BY <1>4, <2>2, <3>1, <3>2 DEF InsertItems, TypeInv, TypeOK, Statuses, Unlocked
  <2>7. Fresh'
    BY <2>2, <2>3, <2>5 DEF TypeInv, Fresh
  <2>8. ChangeFits'
    <3> SUFFICES ASSUME NEW s \in Requests PROVE
        /\ (req'[s].pc = "write" /\ req'[s].kind = "quantity"
              /\ req'[s].item \in DOMAIN items')
           => req'[s].value <= items'[req'[s].item].quantity
        /\ req'[s].pc \in {"set", "status"} => req'[s].to \in Statuses'
        /\ req'[s].pc = "write" => req'[s].item \in Ids
        /\ req'[s].pc \in {"title", "look", "delete", "insert"}
             => req'[s].value \in Quantities
      BY DEF ChangeFits
    <3>1. Statuses' = Statuses
      BY <1>4 DEF InsertItems, Statuses
    <3>2. CASE s = r
      BY <2>2, <3>2
    <3>3. CASE s # r
      <4>1. req'[s] = req[s]
        BY <2>2, <3>3
      <4>2. req[s].pc = "write" => req[s].item # r
        BY <2>3 DEF TypeInv, Fresh
      <4> QED BY <2>5, <3>1, <4>1, <4>2 DEF TypeInv, ChangeFits
    <3> QED BY <3>2, <3>3
  <2> QED BY <2>6, <2>7, <2>8 DEF TypeInv
<1>5. ASSUME NEW r \in Requests, ReadBack(r) PROVE TypeInv'
  <2>1. Orderly(r)
    <3>1. CASE req' = [req EXCEPT ![r].pc = "set", ![r].to = AutoStatus(items)]
      <4>1. AutoStatus(items) \in Statuses /\ "set" \in Pcs
        BY AutoStatusType DEF TypeInv, TypeOK, Pcs
      <4>2. AutoStatus(items) \in SalesStatuses \union PurchaseStatuses
        BY <4>1 DEF Statuses
      <4>3. /\ req' \in [Requests -> RequestRows]
            /\ req'[r].pc = "set" /\ req'[r].to = AutoStatus(items)
            /\ \A s \in Requests \ {r} : req'[s] = req[s]
        BY <1>0, <3>1, <4>1, <4>2 DEF RequestRows, Pcs
      <4> QED BY <1>5, <4>1, <4>3 DEF ReadBack, Orderly
    <3>2. CASE Ends(r, "failed") \/ Ends(r, "done")
      BY <1>5, <1>0, <3>2, EndsFacts DEF ReadBack, Orderly, Ended
    <3> QED BY <1>5, <3>1, <3>2 DEF ReadBack
  <2> QED BY <1>5, <2>1, OrderlySteps DEF ReadBack, TypeInv, TypeOK, Orderly, Statuses, Unlocked, ChangeFits
<1>6. ASSUME NEW r \in Requests, WriteAutoStatus(r) PROVE TypeInv'
  <2>1. Orderly(r)
    BY <1>0, <1>6, GoesFacts, EndsFacts, AutoStatusType
       DEF WriteAutoStatus, Orderly, TypeInv, TypeOK, ChangeFits, Pcs, Ended, Unlocked
  <2> QED BY <1>6, <2>1, OrderlySteps DEF WriteAutoStatus, TypeInv, TypeOK, Orderly, Statuses, Unlocked, ChangeFits
<1>7. ASSUME NEW r \in Requests, WriteStatus(r) PROVE TypeInv'
  <2>1. Orderly(r)
    BY <1>0, <1>7, GoesFacts, EndsFacts, AutoStatusType
       DEF WriteStatus, Orderly, TypeInv, TypeOK, ChangeFits, Pcs, Ended, Unlocked
  <2> QED BY <1>7, <2>1, OrderlySteps DEF WriteStatus, TypeInv, TypeOK, Orderly, Statuses, Unlocked, ChangeFits
<1>8. ASSUME NEW r \in Requests, ReadActive(r) PROVE TypeInv'
  <2>1. Orderly(r)
    <3>1. CASE req' = [req EXCEPT ![r].pc = "mark", ![r].rows = Active(items)]
      <4>1. Active(items) \in SUBSET Ids
        BY DEF TypeInv, TypeOK, Active
      <4>2. /\ req' \in [Requests -> RequestRows] /\ req'[r].pc = "mark"
            /\ \A s \in Requests \ {r} : req'[s] = req[s]
        BY <1>0, <3>1, <4>1 DEF RequestRows
      <4> QED BY <1>8, <4>2 DEF ReadActive, Orderly
    <3>2. CASE Ends(r, "failed")
      BY <1>8, <1>0, <3>2, EndsFacts DEF ReadActive, Orderly, Ended
    <3> QED BY <1>8, <3>1, <3>2 DEF ReadActive
  <2> QED BY <1>8, <2>1, OrderlySteps DEF ReadActive, TypeInv, TypeOK, Orderly, Statuses, Unlocked, ChangeFits
<1>9. ASSUME NEW r \in Requests, EndMark(r) PROVE TypeInv'
  <2>1. Orderly(r)
    BY <1>0, <1>9, GoesFacts, EndsFacts, AutoStatusType
       DEF EndMark, Orderly, TypeInv, TypeOK, ChangeFits, Pcs, Ended, Unlocked
  <2> QED BY <1>9, <2>1, OrderlySteps DEF EndMark, TypeInv, TypeOK, Orderly, Statuses, Unlocked, ChangeFits
<1>10. ASSUME NEW r \in Requests, WriteTitle(r) PROVE TypeInv'
  <2>1. Orderly(r)
    BY <1>0, <1>10, GoesFacts, EndsFacts, AutoStatusType
       DEF WriteTitle, Orderly, TypeInv, TypeOK, ChangeFits, Pcs, Ended, Unlocked
  <2> QED BY <1>10, <2>1, OrderlySteps DEF WriteTitle, TypeInv, TypeOK, Orderly, Statuses, Unlocked, ChangeFits
<1>11. ASSUME NEW r \in Requests, FindItems(r) PROVE TypeInv'
  <2>1. Orderly(r)
    <3>1. DOMAIN items \in SUBSET Ids
      BY DEF TypeInv, TypeOK
    <3>2. /\ req' \in [Requests -> RequestRows] /\ req'[r].pc = "delete"
          /\ req'[r].value = req[r].value
          /\ \A s \in Requests \ {r} : req'[s] = req[s]
      BY <1>11, <1>0, <3>1 DEF FindItems, RequestRows
    <3> QED BY <1>11, <3>2 DEF FindItems, Orderly
  <2> QED BY <1>11, <2>1, OrderlySteps DEF FindItems, TypeInv, TypeOK, Orderly, Statuses, Unlocked, ChangeFits
<1>12. ASSUME NEW r \in Requests, DeleteItems(r) PROVE TypeInv'
  <2>1. Orderly(r)
    <3>1. req[r].rows \intersect DOMAIN items \in SUBSET Ids
      BY DEF TypeInv, TypeOK
    <3>2. /\ req' \in [Requests -> RequestRows] /\ req'[r].pc = "insert"
          /\ req'[r].value = req[r].value
          /\ \A s \in Requests \ {r} : req'[s] = req[s]
      BY <1>12, <1>0, <3>1 DEF DeleteItems, RequestRows
    <3> QED BY <1>12, <3>2 DEF DeleteItems, Orderly
  <2> QED BY <1>12, <2>1, OrderlySteps DEF DeleteItems, TypeInv, TypeOK, Orderly, Statuses, Unlocked, ChangeFits
<1>13. ASSUME NEW r \in Requests, WriteDeleted(r) PROVE TypeInv'
  <2>1. Orderly(r)
    BY <1>0, <1>13, GoesFacts, EndsFacts, AutoStatusType
       DEF WriteDeleted, Orderly, TypeInv, TypeOK, ChangeFits, Pcs, Ended, Unlocked
  <2> QED BY <1>13, <2>1, OrderlySteps DEF WriteDeleted, TypeInv, TypeOK, Orderly, Statuses, Unlocked, ChangeFits
<1>14. ASSUME NEW r \in Requests, Die(r) PROVE TypeInv'
  <2>1. Orderly(r)
    BY <1>0, <1>14, GoesFacts, EndsFacts, AutoStatusType
       DEF Die, Orderly, TypeInv, TypeOK, ChangeFits, Pcs, Ended, Unlocked
  <2> QED BY <1>14, <2>1, OrderlySteps DEF Die, TypeInv, TypeOK, Orderly, Statuses, Unlocked, ChangeFits
<1>15. CASE UNCHANGED vars
  BY <1>15 DEF TypeInv, TypeOK, Fresh, ChangeFits, Statuses, vars
<1> QED
  BY <1>1, <1>2, <1>3, <1>4, <1>5, <1>6, <1>7, <1>8, <1>9, <1>10, <1>11, <1>12, <1>13, <1>14, <1>15
     DEF Next, Proceed

LEMMA TypeInvStart == Init => TypeInv
<1> SUFFICES ASSUME Init PROVE TypeInv
  OBVIOUS
<1>1. req \in [Requests -> RequestRows] /\ \A r \in Requests : req[r].pc = "idle"
  <2>1. Blank.pc = "idle"
    BY DEF Blank
  <2> QED BY <2>1, BlankTypes DEF Init
<1>2. /\ DOMAIN items = FirstItems /\ items \in [FirstItems -> ItemRows]
      /\ \A i \in FirstItems : items[i].fulfilled <= items[i].quantity
  <2>1. items \in [FirstItems -> {[quantity |-> q, fulfilled |-> 0,
                                  isCancelled |-> FALSE] : q \in Quantities}]
    BY DEF Init
  <2>2. ASSUME NEW row \in {[quantity |-> q, fulfilled |-> 0,
                            isCancelled |-> FALSE] : q \in Quantities}
        PROVE  row \in ItemRows /\ row.fulfilled <= row.quantity
    <3>1. PICK q \in Quantities : row = [quantity |-> q, fulfilled |-> 0,
                                        isCancelled |-> FALSE]
      OBVIOUS
    <3>2. q \in Nat /\ 0 <= q
      OBVIOUS
    <3> QED BY <3>1, <3>2 DEF ItemRows
  <2>3. ASSUME NEW i \in FirstItems
        PROVE  items[i] \in ItemRows /\ items[i].fulfilled <= items[i].quantity
    BY <2>1, <2>2
  <2> QED BY <2>1, <2>3
<1>3. status \in Statuses
  BY DEF Init, Statuses, SalesStatuses, PurchaseStatuses
<1>4. TypeOK
  BY <1>1, <1>2, <1>3 DEF Init, TypeOK, Ids
<1> QED BY <1>1, <1>2, <1>4 DEF TypeInv, Fresh, ChangeFits

(* The types of the order, its items and its requests; in particular no    *)
(* item is ever delivered or received beyond what was ordered of it, also  *)
(* by a request that checked the quantity before the items were replaced.  *)
THEOREM OrderTypes == Spec => []TypeOK
<1>1. TypeInv => TypeOK
  BY DEF TypeInv
<1> QED BY <1>1, TypeInvStart, TypeInvStep, PTL DEF Spec
-----------------------------------------------------------------------------
(* A replacement deletes and inserts in one transaction, so the order never *)
(* is without items, whoever else replaces them or dies.                    *)
THEOREM OrderKeepsItems == Spec => []OrderHasItems
<1>1. Init => OrderHasItems
  BY DEF Init, OrderHasItems
<1>2. OrderHasItems /\ [Next]_vars => OrderHasItems'
  <2> SUFFICES ASSUME OrderHasItems, [Next]_vars PROVE OrderHasItems'
    OBVIOUS
  <2>1. ASSUME NEW r \in Requests, InsertItems(r) PROVE OrderHasItems'
    BY <2>1 DEF InsertItems, OrderHasItems
  <2>2. ASSUME NEW r \in Requests, WriteItem(r) PROVE OrderHasItems'
    BY <2>2 DEF WriteItem, OrderHasItems
  <2>3. ASSUME NEW r \in Requests, NEW i \in Ids, MarkItem(r, i) PROVE OrderHasItems'
    BY <2>3 DEF MarkItem, OrderHasItems
  <2>4. CASE UNCHANGED items
    BY <2>4 DEF OrderHasItems
  <2>5. ASSUME NEW r \in Requests, Begin(r) PROVE UNCHANGED items
    BY <2>5 DEF Begin, BeginItemChange, BeginStatus, BeginReplace, BeginRemove
  <2>6. ASSUME NEW r \in Requests,
               \/ ReadBack(r) \/ WriteAutoStatus(r) \/ WriteStatus(r) \/ ReadActive(r)
               \/ EndMark(r) \/ WriteTitle(r) \/ FindItems(r) \/ DeleteItems(r)
               \/ WriteDeleted(r) \/ Die(r)
        PROVE  UNCHANGED items
    BY <2>6 DEF ReadBack, WriteAutoStatus, WriteStatus, ReadActive, EndMark, WriteTitle,
                FindItems, DeleteItems, WriteDeleted, Die
  <2> QED BY <2>1, <2>2, <2>3, <2>4, <2>5, <2>6 DEF Next, Proceed, vars
<1> QED BY <1>1, <1>2, PTL DEF Spec
-----------------------------------------------------------------------------
(* What a request that has run alone so far knows of the order.            *)
Knows(r) ==
  /\ req[r].pc = "set" => req[r].to = AutoStatus(items) /\ status \notin Final
  /\ (req[r].pc = "status" /\ req[r].to = Full) => req[r].rows = Active(items)
  /\ req[r].pc \in {"reread", "mark"} => status = Full
  /\ req[r].pc = "mark" =>
       \A i \in Active(items) \ req[r].rows : items[i].fulfilled >= items[i].quantity

LoneInv ==
  /\ \A r, o \in Requests : req[r].alone /\ Open(r) /\ Open(o) => r = o
  /\ \A r \in Requests : req[r].alone => Knows(r)

(* A request begins only where no row of its own is open, and each of its  *)
(* further steps is its own.                                               *)
LEMMA ArrivalsKnow ==
  ASSUME TypeInv, LoneInv, NEW r \in Requests, NEW fields, Arrives(r, fields)
  PROVE  LoneInv' /\ \A s \in Requests \ {r} : req'[s].pc = req[s].pc
<1>1. /\ SameBut(req'[r], fields)
      /\ req'[r].alone => \A o \in Requests : ~Open(o)
      /\ \A s \in Requests \ {r} :
           SameBut(req'[s], req[s]) /\ (req'[s].alone => ~Open(s))
  BY EnterTypes DEF TypeInv, TypeOK, Arrives, Arriving
<1>2. \A s \in Requests \ {r} : Open(s)' <=> Open(s)
  BY <1>1 DEF Open, SameBut
<1>3. ASSUME NEW s, NEW o \in Requests, s \in Requests, req'[s].alone, Open(s)', Open(o)'
      PROVE  s = o
  BY <1>1, <1>2, <1>3
<1>4. ASSUME NEW s \in Requests, req'[s].alone PROVE Knows(s)'
  <2>1. CASE s = r
    <3>1. /\ req'[r].pc \in {"write", "failed", "status", "title", "look", "remove"}
          /\ (req'[r].pc = "status" /\ req'[r].to = Full) => req'[r].rows = Active(items)
      BY <1>1 DEF SameBut, Arrives, Arriving
    <3>2. Full' = Full /\ Active(items)' = Active(items)
      BY DEF Full, Active, Arrives
    <3> QED BY <2>1, <3>1, <3>2 DEF Knows
  <2>2. CASE s # r
    <3>1. ~Open(s) /\ req'[s].pc = req[s].pc
      BY <1>1, <1>4, <2>2 DEF SameBut
    <3> QED BY <3>1 DEF Knows, Open, Ended
  <2> QED BY <2>1, <2>2
<1> QED BY <1>1, <1>3, <1>4 DEF LoneInv, SameBut

(* A step of a request that is under way leaves the other rows, and if it  *)
(* ran alone it is the only one that is under way.                         *)
LEMMA OwnSteps ==
  ASSUME LoneInv, NEW r \in Requests, Open(r),
         \A s \in Requests \ {r} : req'[s] = req[s],
         Open(r)' => req'[r].alone = req[r].alone,
         (req'[r].alone /\ (req[r].alone \/ ~Open(r)')) => Knows(r)'
  PROVE  LoneInv'
<1>1. \A s \in Requests \ {r} : Open(s)' <=> Open(s)
  BY DEF Open
<1>2. ASSUME NEW s \in Requests, NEW o \in Requests, req'[s].alone, Open(s)', Open(o)'
      PROVE  s = o
  BY <1>1, <1>2 DEF LoneInv
<1>3. ASSUME NEW s \in Requests, req'[s].alone PROVE Knows(s)'
  <2>1. CASE s = r
    BY <1>3, <2>1
  <2>2. CASE s # r
    <3>1. req'[s] = req[s] /\ ~Open(s)
      BY <1>3, <2>2 DEF LoneInv
    <3> QED BY <3>1 DEF Knows, Open, Ended
  <2> QED BY <2>1, <2>2
<1> QED BY <1>2, <1>3 DEF LoneInv

(* How a lone change and a lone full delivery end.                         *)
EndsWell(r) ==
  /\ (req[r].alone /\ req[r].pc \in {"sync", "set"} /\ req'[r].pc = "done")
       => Fits(status', items')
  /\ (req[r].alone /\ req[r].pc = "mark" /\ req'[r].pc = "done")
       => status' = Full /\ AllDone(items')

LoneStep(r) ==
  LoneInv' /\ EndsWell(r) /\ \A s \in Requests \ {r} : req'[s].pc = req[s].pc

LEMMA AutoStatusFits ==
  ASSUME NEW rows, order \in Orders
  PROVE  /\ Fits(AutoStatus(rows), rows)
         /\ \A s : (s \in Final \/ Active(rows) = {} \/ AutoStatus(rows) = s) => Fits(s, rows)
  BY DEF AutoStatus, Fits, Begun, Partial, Full, Final

(* A step that ends its request or moves it to where nothing is known.     *)
LEMMA PlainSteps ==
  ASSUME TypeInv, LoneInv, NEW r \in Requests,
         req[r].pc \in {"write", "title", "look", "delete", "insert", "remove"} \/ req'[r].pc = "failed",
         Open(r),
         \A s \in Requests \ {r} : req'[s] = req[s],
         req'[r].pc \in {"sync", "look", "delete", "insert", "done", "failed"},
         Open(r)' => req'[r].alone = req[r].alone
  PROVE  LoneStep(r)
<1>1. Knows(r)' /\ EndsWell(r)
  BY DEF Knows, EndsWell
<1> QED BY <1>1, OwnSteps DEF LoneStep

LEMMA EveryStep ==
  ASSUME TypeInv, LoneInv, NEW r \in Requests, Begin(r) \/ Proceed(r) \/ Die(r)
  PROVE  LoneStep(r)
<1>0. req \in [Requests -> RequestRows] /\ order \in Orders
  BY DEF TypeInv, TypeOK
<1>1. CASE Begin(r)
  <2>1. PICK fields : Arrives(r, fields)
    BY <1>1, BeginArrives
  <2>2. req[r].pc = "idle"
    BY <2>1 DEF Arrives
  <2> QED BY <2>1, <2>2, ArrivalsKnow DEF LoneStep, EndsWell
<1>2. CASE WriteItem(r)
  <2>1. req[r].pc = "write" /\ (Goes(r, "sync") \/ Ends(r, "failed"))
    BY <1>2 DEF WriteItem
  <2> QED BY <1>0, <2>1, GoesFacts, EndsFacts, PlainSteps DEF Pcs, Ended, Open
<1>3. CASE ReadBack(r)
  <2>1. CASE Ends(r, "failed")
    BY <1>0, <1>3, <2>1, EndsFacts, PlainSteps DEF ReadBack, Ended, Open
  <2>2. CASE /\ Ends(r, "done")
             /\ status \in Final \/ Active(items) = {} \/ AutoStatus(items) = status
    <3>1. req'[r].pc = "done" /\ \A s \in Requests \ {r} : req'[s] = req[s]
      BY <1>0, <2>2, EndsFacts DEF Ended
    <3>2. Fits(status, items)
      BY <1>0, <2>2, AutoStatusFits
    <3>3. status' = status /\ items' = items /\ req[r].pc = "sync"
      BY <1>3 DEF ReadBack
    <3>4. LoneInv'
      BY <3>1, <3>3, OwnSteps DEF Knows, Open, Ended
    <3> QED BY <3>1, <3>2, <3>3, <3>4 DEF LoneStep, EndsWell
  <2>3. CASE /\ req' = [req EXCEPT ![r].pc = "set", ![r].to = AutoStatus(items)]
             /\ ~(status \in Final \/ Active(items) = {} \/ AutoStatus(items) = status)
    <3>1. /\ req'[r].pc = "set" /\ req'[r].to = AutoStatus(items)
          /\ req'[r].alone = req[r].alone
          /\ \A s \in Requests \ {r} : req'[s] = req[s]
      BY <1>0, <2>3 DEF RequestRows
    <3>2. AutoStatus(items)' = AutoStatus(items)
      BY <1>3 DEF ReadBack, AutoStatus, AllDone, NoneDone, Active, Full, Begun, Partial
    <3>3. req[r].pc = "sync" /\ status' = status
      BY <1>3 DEF ReadBack
    <3>4. Knows(r)'
      BY <2>3, <3>1, <3>2, <3>3 DEF Knows
    <3>5. LoneInv'
      BY <3>1, <3>3, <3>4, OwnSteps DEF Open, Ended
    <3> QED BY <3>1, <3>5 DEF LoneStep, EndsWell
  <2> QED BY <1>3, <2>1, <2>2, <2>3 DEF ReadBack
<1>4. CASE WriteAutoStatus(r)
  <2>1. req'[r].pc = "done" /\ \A s \in Requests \ {r} : req'[s] = req[s]
    BY <1>0, <1>4, EndsFacts DEF WriteAutoStatus, Ended
  <2>2. req[r].pc = "set" /\ status' = req[r].to /\ items' = items
    BY <1>4 DEF WriteAutoStatus
  <2>3. req[r].alone => Fits(status', items')
    BY <1>0, <2>2, AutoStatusFits DEF LoneInv, Knows
  <2>4. LoneInv'
    BY <2>1, <2>2, OwnSteps DEF Knows, Open, Ended
  <2> QED BY <2>1, <2>2, <2>3, <2>4 DEF LoneStep, EndsWell
<1>5. CASE WriteStatus(r)
  <2>1. /\ \A s \in Requests \ {r} : req'[s] = req[s]
        /\ \/ req'[r].pc = "done"
           \/ /\ req'[r].pc \in {"mark", "reread"} /\ req[r].to = Full
              /\ req'[r].alone = req[r].alone /\ req'[r].rows = req[r].rows
    BY <1>0, <1>5, GoesFacts, EndsFacts DEF WriteStatus, Pcs, Ended
  <2>2. /\ req[r].pc = "status" /\ status' = req[r].to
        /\ UNCHANGED <<order, items>>
    BY <1>5 DEF WriteStatus
  <2>3. Full' = Full /\ Active(items)' = Active(items)
    BY <2>2 DEF Full, Active
  <2>4. (req'[r].pc # "done" /\ req[r].alone) => Knows(r)'
    BY <2>1, <2>2, <2>3 DEF LoneInv, Knows
  <2>5. req'[r].pc = "done" => Knows(r)'
    BY DEF Knows
  <2>6. LoneInv'
    BY <2>1, <2>2, <2>4, <2>5, OwnSteps DEF Open, Ended
  <2> QED BY <2>1, <2>2, <2>6 DEF LoneStep, EndsWell
<1>6. CASE ReadActive(r)
  <2>1. CASE Ends(r, "failed")
    BY <1>0, <1>6, <2>1, EndsFacts, PlainSteps DEF ReadActive, Ended, Open
  <2>2. CASE req' = [req EXCEPT ![r].pc = "mark", ![r].rows = Active(items)]
    <3>1. /\ req'[r].pc = "mark" /\ req'[r].rows = Active(items)
          /\ req'[r].alone = req[r].alone
          /\ \A s \in Requests \ {r} : req'[s] = req[s]
      BY <1>0, <2>2 DEF RequestRows
    <3>2. Active(items)' = Active(items) /\ Full' = Full
      BY <1>6 DEF ReadActive, Active, Full
    <3>3. req[r].pc = "reread" /\ status' = status
      BY <1>6 DEF ReadActive
    <3>4. req[r].alone => Knows(r)'
      BY <3>1, <3>2, <3>3 DEF LoneInv, Knows
    <3>5. LoneInv'
      BY <3>1, <3>3, <3>4, OwnSteps DEF Open, Ended
    <3> QED BY <3>1, <3>3, <3>5 DEF LoneStep, EndsWell
  <2> QED BY <1>6, <2>1, <2>2 DEF ReadActive
<1>7. ASSUME NEW i \in Ids, MarkItem(r, i) PROVE LoneStep(r)
  <2>1. /\ req[r].pc = "mark" /\ req'[r].pc = "mark"
        /\ req'[r].rows = req[r].rows \ {i} /\ req'[r].alone = req[r].alone
        /\ \A s \in Requests \ {r} : req'[s] = req[s]
    BY <1>0, <1>7 DEF MarkItem, RequestRows
  <2>2. /\ DOMAIN items' = DOMAIN items /\ UNCHANGED <<order, status>>
        /\ \A j \in DOMAIN items :
             /\ items'[j].isCancelled = items[j].isCancelled
             /\ items'[j].quantity = items[j].quantity
             /\ items'[j].fulfilled = IF j = i THEN items[j].quantity ELSE items[j].fulfilled
             /\ items[j].quantity >= items[j].quantity
    BY <1>7 DEF MarkItem, TypeInv, TypeOK, ItemRows
  <2>3. Active(items') = Active(items) /\ Full' = Full
    BY <2>2 DEF Active, Full
  <2>4. req[r].alone => Knows(r)'
    <3>1. SUFFICES ASSUME req[r].alone
                   PROVE  /\ status = Full
                          /\ \A j \in Active(items') \ req'[r].rows :
                               items'[j].fulfilled >= items'[j].quantity
      BY <2>1, <2>2, <2>3 DEF Knows
    <3>2. /\ status = Full
          /\ \A j \in Active(items) \ req[r].rows : items[j].fulfilled >= items[j].quantity
      BY <2>1, <3>1 DEF LoneInv, Knows
    <3>3. Active(items) \subseteq DOMAIN items
      BY DEF Active
    <3> QED BY <2>1, <2>2, <2>3, <3>2, <3>3
  <2>5. LoneInv'
    BY <2>1, <2>4, OwnSteps DEF Open, Ended
  <2> QED BY <2>1, <2>5 DEF LoneStep, EndsWell
<1>8. CASE EndMark(r)
  <2>1. req'[r].pc = "done" /\ \A s \in Requests \ {r} : req'[s] = req[s]
    BY <1>0, <1>8, EndsFacts DEF EndMark, Ended
  <2>2. /\ req[r].pc = "mark" /\ req[r].rows = {} /\ UNCHANGED <<order, status, items>>
    BY <1>8 DEF EndMark
  <2>3. req[r].alone => status' = Full /\ AllDone(items')
    BY <2>2 DEF LoneInv, Knows, AllDone
  <2>4. LoneInv'
    BY <2>1, <2>2, OwnSteps DEF Knows, Open, Ended
  <2> QED BY <2>1, <2>2, <2>3, <2>4 DEF LoneStep, EndsWell
<1>9. CASE WriteTitle(r) \/ WriteDeleted(r)
  <2>1. /\ req[r].pc \in {"title", "remove"} /\ Open(r)
        /\ Goes(r, "look") \/ Ends(r, "done")
    BY <1>9 DEF WriteTitle, WriteDeleted, Open, Ended
  <2> QED BY <1>0, <2>1, GoesFacts, EndsFacts, PlainSteps DEF Pcs, Ended, Open
<1>10. CASE FindItems(r) \/ DeleteItems(r) \/ InsertItems(r)
  <2>1. /\ req[r].pc \in {"look", "delete", "insert"}
        /\ req'[r].pc \in {"delete", "insert", "sync"}
        /\ req'[r].alone = req[r].alone
        /\ \A s \in Requests \ {r} : req'[s] = req[s]
    BY <1>0, <1>10 DEF FindItems, DeleteItems, InsertItems, RequestRows
  <2> QED BY <2>1, PlainSteps DEF Open, Ended
<1>11. CASE Die(r)
  <2>1. Open(r) /\ Ends(r, "failed")
    BY <1>11 DEF Die
  <2> QED BY <1>0, <2>1, EndsFacts, PlainSteps DEF Ended, Open
<1> QED BY <1>1, <1>2, <1>3, <1>4, <1>5, <1>6, <1>7, <1>8, <1>9, <1>10, <1>11 DEF Proceed

LEMMA LoneInvStep ==
  ASSUME TypeInv, LoneInv, [Next]_vars
  PROVE  LoneInv' /\ \A r \in Requests : EndsWell(r)
<1>1. ASSUME NEW r \in Requests, Begin(r) \/ Proceed(r) \/ Die(r)
      PROVE  LoneInv' /\ \A s \in Requests : EndsWell(s)
  <2>1. LoneStep(r)
    BY <1>1, EveryStep
  <2> QED BY <2>1 DEF LoneStep, EndsWell
<1>2. CASE UNCHANGED vars
  <2>1. LoneInv'
    BY <1>2 DEF LoneInv, Knows, vars, Open, AutoStatus, AllDone, NoneDone, Active,
                Full, Begun, Partial
  <2> QED BY <1>2, <2>1 DEF EndsWell, vars
<1> QED BY <1>1, <1>2 DEF Next

LEMMA LoneInvStart == Init => LoneInv
<1>1. Init => \A r \in Requests : req[r].pc = "idle"
  BY DEF Init, Blank
<1> QED BY <1>1 DEF LoneInv, Knows, Open

(* TypeInv and LoneInv hold of every run.                                  *)
LEMMA AlwaysKnown == Spec => [](TypeInv /\ LoneInv)
<1>1. Init => TypeInv
  BY TypeInvStart
<1>2. TypeInv /\ LoneInv /\ [Next]_vars => (TypeInv /\ LoneInv)'
  BY TypeInvStep, LoneInvStep
<1> QED BY <1>1, <1>2, LoneInvStart, PTL DEF Spec

(* A change of the items that nobody overlaps leaves the status that the   *)
(* items amount to, whatever others left behind before it.                 *)
THEOREM LoneChangesFit == Spec => LoneChangeFits
<1>1. TypeInv /\ LoneInv /\ [Next]_vars =>
        [\A r \in Requests :
          (req[r].alone /\ req[r].pc \in {"sync", "set"} /\ req'[r].pc = "done")
            => Fits(status', items')]_vars
  BY LoneInvStep DEF EndsWell
<1> QED BY <1>1, AlwaysKnown, PTL DEF Spec, LoneChangeFits

(* A lone request that sets the order to delivered or received leaves no   *)
(* item short, although it marks them one by one.                          *)
THEOREM LoneFullsComplete == Spec => LoneFullCompletes
<1>1. TypeInv /\ LoneInv /\ [Next]_vars =>
        [\A r \in Requests :
          (req[r].alone /\ req[r].pc = "mark" /\ req'[r].pc = "done")
            => status' = Full /\ AllDone(items')]_vars
  BY LoneInvStep DEF EndsWell
<1> QED BY <1>1, AlwaysKnown, PTL DEF Spec, LoneFullCompletes
=============================================================================
