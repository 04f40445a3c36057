--------------------------- MODULE TeamworkProofs ---------------------------
(***************************************************************************)
(* Proofs about the Agenda and its Messages.  First what a step does to    *)
(* the requests: it begins one, moves one on, or kills them all; one lemma *)
(* per action says what that action does to its request, and the proofs    *)
(* below cite it instead of the action.  Then one invariant after another: *)
(*   Types             what the state and the requests' fields hold        *)
(*   Fresh             events before they are made, and after              *)
(*   MarksSeen         what a request marks was there before it            *)
(*   NobodyForgotten   a notice is sent, still owed, or its sender died    *)
(*   Alone             what a request without company has read still holds *)
(*   OneRunEach        one run of each job                                 *)
(*   Checked           the check of contacts, its alert and its stamp      *)
(*   DigestOnce        digests are for users without one                   *)
(*   MailedOnce        a seat is mailed, then stamped, before all others   *)
(*   Orderly           a note, its reminder and the requests at it         *)
(***************************************************************************)
EXTENDS Messages, TLAPS
-----------------------------------------------------------------------------
(* The requests.  A request's record has the fields of Idle, whatever they *)
(* hold; a step of the system begins one of them, moves one of them on, or *)
(* leaves them alone, unless the server dies.                              *)
Fields == {"pc", "n", "by", "e", "x", "set", "day", "was", "rows", "tell", "also", "lone"}
Shape == DOMAIN req = Requests /\ \A r \in Requests : DOMAIN req[r] = Fields

\* Nothing about o but perhaps that it is alone changes.
Keeps(o) == \A f \in Fields \ {"lone"} : req'[o][f] = req[o][f]

Begins(r) ==
  /\ ~Open(r) /\ begun' = begun + 1 /\ lost' = lost
  /\ req'[r].n = begun + 1
  /\ req'[r].lone => \A o \in Requests \ {r} : ~Open(o)
  /\ \A o \in Requests \ {r} : Keeps(o) /\ (Open(o) => ~req'[o].lone)

Goes(r) ==
  /\ Open(r) /\ UNCHANGED <<begun, lost>>
  /\ \A o \in Requests \ {r} : req'[o] = req[o]
  /\ req'[r].pc # "idle" => /\ req'[r].n = req[r].n /\ req'[r].lone = req[r].lone

\* Who is told of a new event.
CreateTells(u, e, us, day) ==
  To("CALENDAR_EVENT_INVITE", us \ {u}, e)
    \union (IF u \in us /\ day = now THEN To("due today", {u}, now) ELSE {})

LEMMA CreateTurn ==
  ASSUME Shape, NEW r \in Requests, NEW u, NEW e, NEW us, NEW day, Create(r, u, e, us, day)
  PROVE  /\ Shape' /\ Begins(r)
         /\ UNCHANGED <<now, offer, grants, talk, note, contact, notice, ran, mail>>
         /\ \/ req'[r].pc = "idle" /\ CreateTells(u, e, us, day) = {}
            \/ req'[r].pc = "tell" /\ req'[r].tell = CreateTells(u, e, us, day)
<1>. DEFINE tell == CreateTells(u, e, us, day)
<1>0. UNCHANGED <<now, offer, grants, talk, note, contact, notice, ran, mail>>
  BY DEF Create
<1>1. Enter(r, [Idle EXCEPT !.pc = IF tell = {} THEN "idle" ELSE "tell", !.tell = tell])
      /\ UNCHANGED lost
  BY DEF Create, CreateTells
<1>. HIDE DEF tell
<1>2. Shape' /\ Begins(r)
  BY <1>1 DEF Enter, Idle, Shape, Fields, Begins, Keeps, Open
<1>3. req'[r].pc = (IF tell = {} THEN "idle" ELSE "tell") /\ req'[r].tell = tell
  BY <1>1 DEF Enter, Idle
<1>. QED
  BY <1>0, <1>2, <1>3 DEF tell

LEMMA BeginUpdateTurn ==
  ASSUME Shape, NEW r \in Requests, NEW u, NEW e, NEW us, NEW day, NEW also,
         BeginUpdate(r, u, e, us, day, also)
  PROVE  /\ Shape' /\ Begins(r)
         /\ UNCHANGED <<now, offer, plans, grants, talk, note, contact, notice, ran, mail>>
         /\ req'[r].pc = "update" /\ req'[r].by = u /\ req'[r].e = e
         /\ req'[r].set = us /\ req'[r].day = day /\ req'[r].rows = seat[e]
  BY DEF BeginUpdate, Enter, Idle, Shape, Fields, Begins, Keeps, Open

LEMMA BeginRespondTurn ==
  ASSUME Shape, NEW r \in Requests, NEW u, NEW e, NEW status, BeginRespond(r, u, e, status)
  PROVE  /\ Shape' /\ Begins(r)
         /\ UNCHANGED <<now, offer, plans, grants, talk, note, contact, notice, ran, mail>>
         /\ req'[r].pc = "respond" /\ req'[r].by = u /\ req'[r].e = e
         /\ req'[r].set = {status} /\ req'[r].rows = seat[e]
  BY DEF BeginRespond, Enter, Idle, Shape, Fields, Begins, Keeps, Open

LEMMA RemoveTurn ==
  ASSUME Shape, NEW r \in Requests, NEW e, Remove(r, e)
  PROVE  /\ Shape' /\ Begins(r)
         /\ UNCHANGED <<now, offer, seat, grants, talk, note, contact, notice, ran, mail>>
         /\ req'[r].pc = "idle"
  BY DEF Remove, Enter, Idle, Shape, Fields, Begins, Keeps, Open

LEMMA BeginGrantsTurn ==
  ASSUME Shape, NEW r \in Requests, NEW u, NEW us, BeginGrants(r, u, us)
  PROVE  /\ Shape' /\ Begins(r)
         /\ UNCHANGED <<now, offer, plans, grants, talk, note, contact, notice, ran, mail>>
         /\ req'[r].pc = "grant" /\ req'[r].by = u
         /\ req'[r].set = us \ {u} /\ req'[r].rows = grants[u]
  BY DEF BeginGrants, Enter, Idle, Shape, Fields, Begins, Keeps, Open

LEMMA BeginTalkTurn ==
  ASSUME Shape, NEW r \in Requests, NEW u, NEW t, NEW c, NEW day, NEW e, NEW us,
         BeginTalk(r, u, t, c, day, e, us)
  PROVE  /\ Shape' /\ Begins(r)
         /\ UNCHANGED <<now, offer, plans, grants, talk, note, contact, notice, ran, mail>>
         /\ req'[r].pc = "talk" /\ req'[r].by = u /\ req'[r].x = t
         /\ req'[r].e = e /\ req'[r].set = us /\ req'[r].day = day
         /\ req'[r].rows = c /\ req'[r].was = contact[c].last
  BY DEF BeginTalk, Enter, Idle, Shape, Fields, Begins, Keeps, Open

LEMMA CloseTalkTurn ==
  ASSUME Shape, NEW r \in Requests, NEW t, CloseTalk(r, t)
  PROVE  /\ Shape' /\ Begins(r)
         /\ UNCHANGED <<now, offer, plans, grants, note, contact, notice, ran, mail>>
         /\ req'[r].pc = "idle"
  BY DEF CloseTalk, Enter, Idle, Shape, Fields, Begins, Keeps, Open

LEMMA SetContactTurn ==
  ASSUME Shape, NEW r \in Requests, NEW c, NEW day, SetContact(r, c, day)
  PROVE  /\ Shape' /\ Begins(r)
         /\ UNCHANGED <<now, offer, plans, grants, talk, note, notice, ran, mail>>
         /\ req'[r].pc = "idle"
  BY DEF SetContact, Enter, Idle, Shape, Fields, Begins, Keeps, Open

LEMMA CreateNoteTurn ==
  ASSUME Shape, NEW r \in Requests, NEW u, NEW x, NEW e, CreateNote(r, u, x, e)
  PROVE  /\ Shape' /\ Begins(r)
         /\ UNCHANGED <<now, offer, grants, talk, contact, notice, ran, mail>>
         /\ req'[r].pc = "idle"
  BY DEF CreateNote, Enter, Idle, Shape, Fields, Begins, Keeps, Open

LEMMA BeginNoteTurn ==
  ASSUME Shape, NEW r \in Requests, NEW u, NEW x, NEW e, NEW on, NEW also,
         BeginNote(r, u, x, e, on, also)
  PROVE  /\ Shape' /\ Begins(r)
         /\ UNCHANGED <<now, offer, plans, grants, talk, contact, notice, ran, mail>>
         /\ req'[r].pc = "find" /\ req'[r].by = u /\ req'[r].x = x
         /\ req'[r].e = e /\ req'[r].also = also
  BY DEF BeginNote, Enter, Idle, Shape, Fields, Begins, Keeps, Open

LEMMA BeginRemoveNoteTurn ==
  ASSUME Shape, NEW r \in Requests, NEW x, BeginRemoveNote(r, x)
  PROVE  /\ Shape' /\ Begins(r)
         /\ UNCHANGED <<now, offer, plans, grants, talk, contact, notice, ran, mail>>
         /\ req'[r].pc = "remove note" /\ req'[r].x = x
         /\ req'[r].rows = Reminders(x) /\ req'[r].also = FALSE
  BY DEF BeginRemoveNote, Enter, Idle, Shape, Fields, Begins, Keeps, Open

LEMMA BeginDigestTurn ==
  ASSUME Shape, NEW r \in Requests, BeginDigest(r)
  PROVE  /\ Shape' /\ Begins(r)
         /\ UNCHANGED <<now, offer, plans, grants, talk, note, contact, notice, ran, mail>>
         /\ req'[r].pc = "digest" /\ req'[r].by = "digest"
         /\ req'[r].set \subseteq Users
  BY DEF BeginDigest, Enter, Idle, Shape, Fields, Begins, Keeps, Open, BeginJob

LEMMA BeginMailTurn ==
  ASSUME Shape, NEW r \in Requests, BeginMail(r)
  PROVE  /\ Shape' /\ Begins(r)
         /\ UNCHANGED <<now, offer, plans, grants, talk, note, contact, notice, ran, mail>>
         /\ req'[r].pc = "mail" /\ req'[r].by = "mail"
         /\ req'[r].set = {<<at[1], at[2], seat[at[1]][at[2]].made, Others(at[1], at[2])>> :
                       at \in {at \in Events \X Users : Unmailed(at[1], at[2])}}
  BY DEF BeginMail, Enter, Idle, Shape, Fields, Begins, Keeps, Open, BeginJob

\* The contacts a check of now has to alert to.
Silent == {c \in Contacts : Stale(contact[c]) /\ ~Alerted(contact[c])}

LEMMA BeginCheckTurn ==
  ASSUME Shape, NEW r \in Requests, BeginCheck(r)
  PROVE  /\ Shape' /\ Begins(r)
         /\ UNCHANGED <<now, offer, plans, grants, talk, note, contact, notice, mail>>
         /\ req'[r].pc = IF Silent = {} THEN "idle" ELSE "alert"
         /\ req'[r].by = "check" /\ req'[r].set = Silent
  BY DEF BeginCheck, Silent, Enter, Idle, Shape, Fields, Begins, Keeps, Open, BeginJob

LEMMA BeginWriteTurn ==
  ASSUME Shape, NEW r \in Requests, NEW u, NEW to, NEW cc, NEW report,
         BeginWrite(r, u, to, cc, report)
  PROVE  /\ Shape' /\ Begins(r)
         /\ UNCHANGED <<now, offer, plans, grants, talk, note, contact, notice, ran, mail>>
         /\ req'[r].pc = "write" /\ req'[r].by = u
         /\ req'[r].set = to /\ req'[r].e = report
  BY DEF BeginWrite, Enter, Idle, Shape, Fields, Begins, Keeps, Open

LEMMA BeginMarkTurn ==
  ASSUME Shape, NEW r \in Requests, NEW u, NEW flag, NEW on, NEW box, BeginMark(r, u, flag, on, box)
  PROVE  /\ Shape' /\ Begins(r)
         /\ UNCHANGED <<now, offer, plans, grants, talk, note, contact, notice, ran, mail>>
         /\ req'[r].pc = "mark" /\ req'[r].by = u /\ req'[r].x = flag
         /\ req'[r].rows = Visible(u) /\ req'[r].set = SidesOf(box)
  BY DEF BeginMark, Enter, Idle, Shape, Fields, Begins, Keeps, Open

\* Who is told of a message.
LetterTells(r, m) ==
  IF req[r].e = None THEN {} ELSE To("MEETING_REPORT_SENT", req[r].set \ {req[r].by}, m)

LEMMA TellTurn ==
  ASSUME Shape, NEW r \in Requests, NEW t, Tell(r, t)
  PROVE  /\ Shape' /\ Goes(r)
         /\ UNCHANGED <<now, offer, plans, grants, talk, note, contact, ran, mail>>
         /\ req[r].pc = "tell" /\ t \in req[r].tell
         /\ \/ req'[r].pc = "idle" /\ req[r].tell = {t}
            \/ req'[r].pc = "tell" /\ req'[r].tell = req[r].tell \ {t}
  BY DEF Tell, ThenTell, Idle, Shape, Fields, Goes, Open

\* After a commit a request ends, or tells.
Ends(r) == req' = [req EXCEPT ![r] = Idle]

LEMMA EndsOrTells ==
  ASSUME Shape, NEW r \in Requests, Open(r), UNCHANGED <<begun, lost>>, NEW tells,
         Ends(r) \/ req' = [req EXCEPT ![r] = [req[r] EXCEPT !.pc = "tell", !.tell = tells]]
  PROVE  /\ Shape' /\ Goes(r)
         /\ Ends(r) => req'[r].pc = "idle"
         /\ ~Ends(r) => req'[r].pc = "tell" /\ req'[r].tell = tells
<1>1. CASE Ends(r)
  BY <1>1 DEF Ends, Idle, Shape, Fields, Goes, Open
<1>2. CASE req' = [req EXCEPT ![r] = [req[r] EXCEPT !.pc = "tell", !.tell = tells]]
  BY <1>2 DEF Ends, Idle, Shape, Fields, Goes, Open
<1>. QED
  BY <1>1, <1>2

\* An update fails, or commits and tells.
Asks(r) == req[r].set \ Before(r)

LEMMA UpdateTurn ==
  ASSUME Shape, NEW r \in Requests, Update(r)
  PROVE  /\ Shape' /\ Goes(r) /\ req[r].pc = "update"
         /\ UNCHANGED <<now, offer, grants, talk, note, contact, notice, ran, mail>>
         /\ \/ req'[r].pc = "idle" /\ (UNCHANGED plans \/ UpdateNotices(r, Asks(r)) = {})
            \/ req'[r].pc = "tell" /\ req'[r].tell = UpdateNotices(r, Asks(r))
<1>. DEFINE tells == UpdateNotices(r, Asks(r))
<1>0. UNCHANGED <<now, offer, grants, talk, note, contact, notice, ran, mail>>
  BY DEF Update
<1>1. \/ Ends(r) /\ (UNCHANGED plans \/ tells = {})
      \/ ~Ends(r) /\ req' = [req EXCEPT ![r] = [req[r] EXCEPT !.pc = "tell", !.tell = tells]]
  <2>1. CASE UNCHANGED plans /\ Answer(r)
    BY <2>1 DEF Answer, Ends
  <2>2. CASE ThenTell(r, tells)
    <3>1. CASE tells = {}
      BY <2>2, <3>1 DEF ThenTell, Ends
    <3>2. CASE tells # {}
      <4>1. req' = [req EXCEPT ![r] = [req[r] EXCEPT !.pc = "tell", !.tell = tells]]
        BY <2>2, <3>2 DEF ThenTell
      <4>2. req'[r].pc = "tell"
        BY <4>1 DEF Shape, Fields
      <4>3. ~Ends(r)
        BY <4>2 DEF Ends, Idle, Shape
      <4>. QED
        BY <4>1, <4>3
    <3>. QED
      BY <3>1, <3>2
  <2>. QED
    BY <2>1, <2>2 DEF Update, Asks
<1>2. req[r].pc = "update" /\ UNCHANGED <<begun, lost>>
  BY DEF Update, Answer, ThenTell
<1>. HIDE DEF tells
<1>3. Shape' /\ Goes(r)
  BY <1>1, <1>2, EndsOrTells DEF Open
<1>4. \/ req'[r].pc = "idle" /\ (UNCHANGED plans \/ tells = {})
      \/ req'[r].pc = "tell" /\ req'[r].tell = tells
  BY <1>1, <1>2, EndsOrTells DEF Open
<1>. QED
  BY <1>0, <1>2, <1>3, <1>4 DEF tells

LEMMA RespondTurn ==
  ASSUME Shape, NEW r \in Requests, Respond(r)
  PROVE  /\ Shape' /\ Goes(r)
         /\ UNCHANGED <<now, offer, event, grants, talk, note, contact, notice, ran, mail>>
         /\ req[r].pc = "respond" /\ req'[r].pc \in {"idle", "tell"}
         /\ req'[r].pc = "tell" =>
              req'[r].tell = To("CALENDAR_EVENT_RESPONSE", {event[req[r].e].by}, req[r].e)
<1>. DEFINE tells == To("CALENDAR_EVENT_RESPONSE", {event[req[r].e].by}, req[r].e)
<1>0. UNCHANGED <<now, offer, event, grants, talk, note, contact, notice, ran, mail>>
  BY DEF Respond
<1>1. \/ Ends(r)
      \/ req' = [req EXCEPT ![r] = [req[r] EXCEPT !.pc = "tell", !.tell = tells]]
  <2>1. CASE Answer(r)
    BY <2>1 DEF Answer, Ends
  <2>2. CASE ThenTell(r, tells)
    BY <2>2 DEF ThenTell, Ends
  <2>. QED
    BY <2>1, <2>2 DEF Respond
<1>2. req[r].pc = "respond" /\ UNCHANGED <<begun, lost>>
  BY DEF Respond, Answer, ThenTell
<1>. HIDE DEF tells
<1>. QED
  BY <1>0, <1>1, <1>2, EndsOrTells DEF Open, tells

LEMMA GrantTurn ==
  ASSUME Shape, NEW r \in Requests, Grant(r)
  PROVE  /\ Shape' /\ Goes(r)
         /\ UNCHANGED <<now, offer, plans, talk, note, contact, notice, ran, mail>>
         /\ req[r].pc = "grant" /\ req'[r].pc = "idle"
  BY DEF Grant, Answer, Idle, Shape, Fields, Goes, Open

LEMMA TalkTurn ==
  ASSUME Shape, NEW r \in Requests, Talk(r)
  PROVE  /\ Shape' /\ Goes(r)
         /\ UNCHANGED <<now, offer, grants, note, notice, ran, mail>>
         /\ req[r].pc = "talk"
         /\ \/ req'[r].pc = "idle" /\ Invitations(r) = {}
            \/ req'[r].pc = "tell" /\ req'[r].tell = Invitations(r)
  BY DEF Talk, Record, ThenTell, Idle, Shape, Fields, Goes, Open

LEMMA FindReminderTurn ==
  ASSUME Shape, NEW r \in Requests, FindReminder(r)
  PROVE  /\ Shape' /\ Goes(r)
         /\ UNCHANGED <<now, offer, plans, grants, talk, note, contact, notice, ran, mail>>
         /\ req[r].pc = "find" /\ req'[r].pc = "note"
         /\ req'[r].rows = Reminders(req[r].x)
         /\ \A f \in Fields \ {"pc", "rows"} : req'[r][f] = req[r][f]
  BY DEF FindReminder, Idle, Shape, Fields, Goes, Open

LEMMA SetReminderTurn ==
  ASSUME Shape, NEW r \in Requests, SetReminder(r)
  PROVE  /\ Shape' /\ Goes(r)
         /\ UNCHANGED <<now, offer, grants, talk, note, contact, notice, ran, mail>>
         /\ req[r].pc = "note" /\ req'[r].pc = "idle"
  BY DEF SetReminder, Answer, Idle, Shape, Fields, Goes, Open

LEMMA RemoveNoteTurn ==
  ASSUME Shape, NEW r \in Requests, RemoveNote(r)
  PROVE  /\ Shape' /\ Goes(r)
         /\ UNCHANGED <<now, offer, plans, grants, talk, contact, notice, ran, mail>>
         /\ req[r].pc = "remove note"
         /\ \/ req'[r].pc = "idle" /\ req[r].rows = {}
            \/ /\ req'[r].pc = "its reminder"
               /\ \A f \in Fields \ {"pc"} : req'[r][f] = req[r][f]
  BY DEF RemoveNote, Idle, Shape, Fields, Goes, Open

LEMMA RemoveReminderTurn ==
  ASSUME Shape, NEW r \in Requests, RemoveReminder(r)
  PROVE  /\ Shape' /\ Goes(r)
         /\ UNCHANGED <<now, offer, seat, grants, talk, note, contact, notice, ran, mail>>
         /\ req[r].pc = "its reminder" /\ req'[r].pc = "idle"
  BY DEF RemoveReminder, Answer, Idle, Shape, Fields, Goes, Open

LEMMA LookTurn ==
  ASSUME Shape, NEW r \in Requests, NEW u, Look(r, u)
  PROVE  /\ Shape' /\ Goes(r)
         /\ UNCHANGED <<now, offer, plans, grants, talk, note, contact, notice, ran, mail>>
         /\ req[r].pc = "digest" /\ u \in req[r].set
         /\ req'[r].by = req[r].by
         /\ \/ Noticed(u) /\ req'[r].pc = "digest" /\ req'[r].set = req[r].set \ {u}
            \/ ~Noticed(u) /\ req'[r].pc = "insert" /\ req'[r].set = req[r].set /\ req'[r].x = u
  BY DEF Look, Idle, Shape, Fields, Goes, Open

LEMMA InsertTurn ==
  ASSUME Shape, NEW r \in Requests, Insert(r)
  PROVE  /\ Shape' /\ Goes(r)
         /\ UNCHANGED <<now, offer, plans, grants, talk, note, contact, ran, mail>>
         /\ req[r].pc = "insert" /\ req'[r].pc = "digest"
         /\ req'[r].by = req[r].by /\ req'[r].set = req[r].set \ {req[r].x}
  BY DEF Insert, Idle, Shape, Fields, Goes, Open

LEMMA PickTurn ==
  ASSUME Shape, NEW r \in Requests, NEW row, Pick(r, row)
  PROVE  /\ Shape' /\ Goes(r)
         /\ UNCHANGED <<now, offer, plans, grants, talk, note, contact, notice, ran, mail>>
         /\ req[r].pc = "mail" /\ row \in req[r].set
         /\ req'[r].by = req[r].by /\ req'[r].set = req[r].set \ {row}
         /\ req'[r].pc = "mail" \/ (req'[r].pc = "send" /\ req'[r].rows = row)
  BY DEF Pick, Idle, Shape, Fields, Goes, Open

LEMMA SendTurn ==
  ASSUME Shape, NEW r \in Requests, Send(r)
  PROVE  /\ Shape' /\ Goes(r)
         /\ UNCHANGED <<now, offer, event, grants, talk, note, contact, notice, ran, mail>>
         /\ req[r].pc = "send" /\ req'[r].pc \in {"mail", "mailed"}
         /\ \A f \in Fields \ {"pc"} : req'[r][f] = req[r][f]
  BY DEF Send, Idle, Shape, Fields, Goes, Open

LEMMA StampSeatTurn ==
  ASSUME Shape, NEW r \in Requests, StampSeat(r)
  PROVE  /\ Shape' /\ Goes(r)
         /\ UNCHANGED <<now, offer, event, grants, talk, note, contact, notice, ran, mail>>
         /\ req[r].pc = "mailed" /\ req'[r].pc = "mail"
         /\ \A f \in Fields \ {"pc"} : req'[r][f] = req[r][f]
  BY DEF StampSeat, Idle, Shape, Fields, Goes, Open

LEMMA EndJobTurn ==
  ASSUME Shape, NEW r \in Requests, EndJob(r)
  PROVE  /\ Shape' /\ Goes(r)
         /\ UNCHANGED <<now, offer, plans, grants, talk, note, contact, notice, mail>>
         /\ req[r].pc \in {"digest", "mail"} /\ req'[r].pc = "idle"
  BY DEF EndJob, Done, Answer, Idle, Shape, Fields, Goes, Open

LEMMA AlertTurn ==
  ASSUME Shape, NEW r \in Requests, NEW c, Alert(r, c)
  PROVE  /\ Shape' /\ Goes(r)
         /\ UNCHANGED <<now, offer, plans, grants, talk, note, ran, mail>>
         /\ req[r].pc = "alert" /\ c \in req[r].set
         /\ req'[r].pc = "stamp" /\ req'[r].x = c
         /\ req'[r].by = req[r].by /\ req'[r].set = req[r].set
  BY DEF Alert, Idle, Shape, Fields, Goes, Open

LEMMA AlertFailsTurn ==
  ASSUME Shape, NEW r \in Requests, NEW c, AlertFails(r, c)
  PROVE  /\ Shape' /\ Goes(r)
         /\ UNCHANGED <<now, offer, plans, grants, talk, note, mail>>
         /\ req[r].pc = "alert" /\ c \in req[r].set /\ req'[r].pc = "idle"
  BY DEF AlertFails, Done, Answer, Idle, Shape, Fields, Goes, Open

LEMMA StampTurn ==
  ASSUME Shape, NEW r \in Requests, Stamp(r)
  PROVE  /\ Shape' /\ Goes(r)
         /\ UNCHANGED <<now, offer, plans, grants, talk, note, notice, mail>>
         /\ req[r].pc = "stamp" /\ req'[r].pc \in {"idle", "alert"}
         /\ req'[r].pc = "idle" <=> req[r].set \ {req[r].x} = {}
         /\ req'[r].pc = "alert" => /\ req'[r].by = req[r].by /\ ran' = ran
                                    /\ req'[r].set = req[r].set \ {req[r].x}
  BY DEF Stamp, Done, Answer, Idle, Shape, Fields, Goes, Open

LEMMA StampFailsTurn ==
  ASSUME Shape, NEW r \in Requests, StampFails(r)
  PROVE  /\ Shape' /\ Goes(r)
         /\ UNCHANGED <<now, offer, plans, grants, talk, note, notice, mail>>
         /\ req[r].pc = "stamp" /\ req'[r].pc = "idle"
  BY DEF StampFails, Done, Answer, Idle, Shape, Fields, Goes, Open

\* The two outcomes of each.
Alerting(r) == \E c \in Contacts : Alert(r, c) \/ AlertFails(r, c)
Stamping(r) == Stamp(r) \/ StampFails(r)

LEMMA AlertingTurn ==
  ASSUME Shape, NEW r \in Requests, Alerting(r)
  PROVE  /\ Shape' /\ Goes(r)
         /\ UNCHANGED <<now, offer, plans, grants, talk, note, mail>>
         /\ req[r].pc = "alert" /\ req'[r].pc \in {"idle", "stamp"}
         /\ req'[r].pc = "stamp" => req'[r].by = req[r].by
  BY AlertTurn, AlertFailsTurn DEF Alerting

LEMMA StampingTurn ==
  ASSUME Shape, NEW r \in Requests, Stamping(r)
  PROVE  /\ Shape' /\ Goes(r)
         /\ UNCHANGED <<now, offer, plans, grants, talk, note, notice, mail>>
         /\ req[r].pc = "stamp" /\ req'[r].pc \in {"idle", "alert"}
         /\ req'[r].pc = "alert" => req'[r].by = req[r].by
  BY StampTurn, StampFailsTurn DEF Stamping

LEMMA WriteTurn ==
  ASSUME Shape, NEW r \in Requests, NEW m, Write(r, m)
  PROVE  /\ Shape' /\ Goes(r)
         /\ UNCHANGED <<now, offer, plans, grants, talk, note, contact, notice, ran, mark, star>>
         /\ req[r].pc = "write"
         /\ \/ req'[r].pc = "idle" /\ LetterTells(r, m) = {}
            \/ req'[r].pc = "tell" /\ req'[r].tell = LetterTells(r, m)
  BY DEF Write, ThenTell, LetterTells, Idle, Shape, Fields, Goes, Open

LEMMA MarkSeenTurn ==
  ASSUME Shape, NEW r \in Requests, MarkSeen(r)
  PROVE  /\ Shape' /\ Goes(r)
         /\ UNCHANGED <<now, offer, plans, grants, talk, note, contact, notice, ran, letter>>
         /\ req[r].pc = "mark" /\ req'[r].pc = "idle"
  BY DEF MarkSeen, Answer, Idle, Shape, Fields, Goes, Open
-----------------------------------------------------------------------------
\* The steps of a request, of either module.
Opens(r) ==
  \/ BeginAgenda(r)
  \/ \E u \in offer.by, to \in offer.asks, cc \in offer.asks \union {{}},
        report \in {None} \union Events : BeginWrite(r, u, to, cc, report)
  \/ \E u \in offer.by, flag \in Flags \union {"star"}, on \in BOOLEAN,
        box \in Sides \union {"all"} : BeginMark(r, u, flag, on, box)
Works(r) == StepAgenda(r) \/ (\E m \in Messages : Write(r, m)) \/ MarkSeen(r)

LEMMA Opening ==
  ASSUME Shape, NEW r \in Requests, Opens(r)
  PROVE  Shape' /\ Begins(r)
<1>. DEFINE Goal == Shape' /\ Begins(r)
<1>. SUFFICES Goal
  OBVIOUS
<1>1. CASE BeginAgenda(r)
  BY <1>1, CreateTurn, BeginUpdateTurn, BeginTalkTurn, BeginRespondTurn, CreateNoteTurn,
     BeginNoteTurn, RemoveTurn, BeginGrantsTurn, CloseTalkTurn, SetContactTurn,
     BeginRemoveNoteTurn, BeginDigestTurn, BeginMailTurn, BeginCheckTurn DEF BeginAgenda
<1>2. ASSUME NEW u, NEW to, NEW cc, NEW report, BeginWrite(r, u, to, cc, report) PROVE Goal
  BY <1>2, BeginWriteTurn
<1>3. ASSUME NEW u, NEW flag, NEW on, NEW box, BeginMark(r, u, flag, on, box) PROVE Goal
  BY <1>3, BeginMarkTurn
<1>. HIDE DEF Goal
<1>. QED
  BY <1>1, <1>2, <1>3 DEF Opens

LEMMA Working ==
  ASSUME Shape, NEW r \in Requests, Works(r)
  PROVE  Shape' /\ Goes(r)
<1>. DEFINE Goal == Shape' /\ Goes(r)
<1>. SUFFICES Goal
  OBVIOUS
<1>1. ASSUME NEW t, Tell(r, t) PROVE Goal
  BY <1>1, TellTurn
<1>2. ASSUME NEW u, Look(r, u) PROVE Goal
  BY <1>2, LookTurn
<1>3. ASSUME NEW row, Pick(r, row) PROVE Goal
  BY <1>3, PickTurn
<1>4. CASE Update(r) \/ Respond(r) \/ Grant(r) \/ Talk(r)
  BY <1>4, UpdateTurn, RespondTurn, GrantTurn, TalkTurn
<1>5. CASE FindReminder(r) \/ SetReminder(r) \/ RemoveNote(r) \/ RemoveReminder(r)
  BY <1>5, FindReminderTurn, SetReminderTurn, RemoveNoteTurn, RemoveReminderTurn
<1>6. CASE Insert(r) \/ Send(r) \/ StampSeat(r) \/ EndJob(r) \/ Alerting(r) \/ Stamping(r)
  BY <1>6, InsertTurn, SendTurn, StampSeatTurn, EndJobTurn, AlertingTurn, StampingTurn
<1>7. ASSUME NEW m, Write(r, m) PROVE Goal
  BY <1>7, WriteTurn
<1>8. CASE MarkSeen(r)
  BY <1>8, MarkSeenTurn
<1>. HIDE DEF Goal
<1>. QED
  BY <1>1, <1>2, <1>3, <1>4, <1>5, <1>6, <1>7, <1>8 DEF Works, StepAgenda, Alerting, Stamping

LEMMA Steps ==
  ASSUME [Next]_vars
  PROVE  \/ Crash \/ Tick \/ UNCHANGED vars
         \/ \E r \in Requests : Opens(r) \/ Works(r)
BY DEF Next, Opens, Works

LEMMA ShapeStep ==
  ASSUME Shape, [Next]_vars
  PROVE  Shape'
<1>1. CASE Crash
  BY <1>1 DEF Crash, Shape, Fields, Idle
<1>2. CASE Tick
  BY <1>2 DEF Tick, Shape
<1>3. CASE UNCHANGED vars
  BY <1>3 DEF vars, Shape
<1>. QED
  BY <1>1, <1>2, <1>3, Steps, Opening, Working

(* The requests' numbers: each its own, and the number of one that died is *)
(* not used again.                                                         *)
Numbers ==
  /\ begun \in Nat /\ 0 \in lost
  /\ \A n \in lost : n \in 0 .. begun
  /\ \A r \in Requests : Open(r) => req[r].n \in 1 .. begun /\ req[r].n \notin lost

LEMMA NumbersStep == Shape /\ Numbers /\ [Next]_vars => Numbers'
<1>. SUFFICES ASSUME Shape, Numbers, [Next]_vars PROVE Numbers'
  OBVIOUS
<1>1. ASSUME NEW r \in Requests, Begins(r) PROVE Numbers'
  <2>1. \A o \in Requests \ {r} : req'[o].pc = req[o].pc /\ req'[o].n = req[o].n
    BY <1>1 DEF Begins, Keeps, Fields
  <2>. QED
    BY <1>1, <2>1 DEF Begins, Numbers, Open
<1>2. ASSUME NEW r \in Requests, Goes(r) PROVE Numbers'
  BY <1>2 DEF Goes, Numbers, Open
<1>3. CASE Crash
  <2>1. \A r \in Requests : ~Open(r)'
    BY <1>3 DEF Crash, Open, Idle
  <2>2. /\ begun' = begun
        /\ lost' = lost \union {req[r].n : r \in {o \in Requests : Open(o)}}
    BY <1>3 DEF Crash
  <2>3. \A n \in lost' : n \in 0 .. begun
    BY <2>2 DEF Numbers
  <2>. QED
    BY <2>1, <2>2, <2>3 DEF Numbers
<1>4. CASE Tick \/ UNCHANGED vars
  <2>1. UNCHANGED <<req, begun, lost>>
    BY <1>4 DEF Tick, vars
  <2>. QED
    BY <2>1 DEF Numbers, Open
<1>. QED
  BY <1>1, <1>2, <1>3, <1>4, Steps, Opening, Working

\* What dies is remembered: without a death, nothing is lost.
LEMMA CrashLoses ==
  ASSUME Shape, Numbers, Crash
  PROVE  /\ lost' # lost /\ lost' # {0} /\ lost \subseteq lost'
         /\ \A r \in Requests : req'[r] = Idle
<1>1. PICK r \in Requests : Open(r)
  BY DEF Crash
<1>2. req[r].n \in lost' /\ req[r].n \notin lost /\ req[r].n # 0
  BY <1>1 DEF Crash, Numbers
<1>. QED
  BY <1>2 DEF Crash
-----------------------------------------------------------------------------
(* Types.                                                                  *)
EventRecords == [there : BOOLEAN, live : BOOLEAN, by : Users \union {None},
                 day : Int, of : Talks \union Notes \union {None}]
Statuses == Answers \union {"PENDING", None}
SeatRecords == [made : Int, status : Statuses, mails : [Users -> Nat], stamped : BOOLEAN,
                failed : Nat]
Viewings == [to : Users, n : Nat]
NoteRecords == [there : BOOLEAN, live : BOOLEAN, torn : BOOLEAN]
ContactRecords == [last : Int, stamp : Int, alerts : [Users -> Nat], failed : Nat,
                   crossed : BOOLEAN]
MailRows == Events \X Users \X Int \X SUBSET Users

NoticesMade == \A y \in notice : DOMAIN y = {"kind", "to", "of", "n"}
LettersMade == DOMAIN letter = Messages /\ \A m \in Messages : letter[m].made \in 0 .. begun

StateTypes ==
  /\ now \in Nat /\ offer \in Offers
  /\ event \in [Events -> EventRecords]
  /\ seat \in [Events -> [Users -> SeatRecords]]
  /\ grants \in [Users -> SUBSET Viewings]
  /\ note \in [Notes -> NoteRecords]
  /\ contact \in [Contacts -> ContactRecords] /\ \A c \in Contacts : contact[c].last <= now
  /\ NoticesMade /\ LettersMade

\* What a request's fields hold while it is at work.
PlanTyped(q) ==
  /\ q.pc \in {"update", "respond"} => /\ q.by \in Users /\ q.e \in Events
                                       /\ q.rows \in [Users -> SeatRecords]
  /\ q.pc = "update" => q.set \subseteq Users /\ q.day \in Int
  /\ q.pc = "respond" => \E answer \in Answers : q.set = {answer}
  /\ q.pc = "grant" => q.by \in Users /\ q.set \subseteq Users /\ q.rows \subseteq Viewings
TalkTyped(q, today) ==
  q.pc = "talk" => /\ q.by \in Users /\ q.x \in Talks /\ q.e \in Events \union {None}
                   /\ q.set \subseteq Users /\ q.day \in 0 .. today
                   /\ q.rows \in Contacts /\ q.was \in Int
NoteTyped(q) ==
  /\ q.pc \in {"find", "note"} => q.by \in Users /\ q.x \in Notes /\ q.e \in Events
  /\ q.pc \in {"note", "remove note", "its reminder"} => q.rows \subseteq Events
  /\ q.pc \in {"remove note", "its reminder"} => q.x \in Notes /\ ~q.also
JobTyped(q) ==
  /\ q.pc \in {"digest", "insert"} => q.set \subseteq Users /\ q.by = "digest"
  /\ q.pc = "insert" => q.x \in Users
  /\ q.pc \in {"mail", "send", "mailed"} => q.set \subseteq MailRows /\ q.by = "mail"
  /\ q.pc \in {"send", "mailed"} => q.rows \in MailRows
  /\ q.pc \in {"alert", "stamp"} => q.set \subseteq Contacts /\ q.by = "check"
  /\ q.pc = "stamp" => q.x \in q.set
LetterTyped(q) ==
  /\ q.pc = "write" => /\ q.by \in Users /\ q.set \subseteq Users
                       /\ q.e \in Events \union {None}
  /\ q.pc = "mark" => q.by \in Users /\ q.rows \subseteq Messages
Typed(q, today) ==
  PlanTyped(q) /\ TalkTyped(q, today) /\ NoteTyped(q) /\ JobTyped(q) /\ LetterTyped(q)

Types == Shape /\ Numbers /\ StateTypes /\ \A r \in Requests : Typed(req[r], now)

LEMMA OfferTypes ==
  ASSUME offer \in Offers
  PROVE  /\ offer.by \subseteq Users /\ offer.asks \subseteq SUBSET Users
         /\ offer.meets \subseteq Contacts
BY OffersAssumption

LEMMA CountingType ==
  ASSUME NEW counts \in [Users -> Nat], NEW us
  PROVE  /\ Counting(counts, us) \in [Users -> Nat]
         /\ \A u \in Users : Counting(counts, us)[u] = IF u \in us THEN counts[u] + 1 ELSE counts[u]
BY DEF Counting

LEMMA NoneYetType == NoneYet \in [Users -> Nat] /\ \A u \in Users : NoneYet[u] = 0
BY DEF NoneYet

LEMMA NewSeatType ==
  ASSUME NEW n \in Int, NEW u, NEW by
  PROVE  NewSeat(n, u, by) \in SeatRecords
BY NoneYetType DEF NewSeat, NoSeat, SeatRecords, Statuses, Answers, None

LEMMA NoSeatType == NoSeat \in SeatRecords
BY NoneYetType DEF NoSeat, SeatRecords, Statuses

LEMMA NewSeatsType ==
  ASSUME NEW n \in Int, NEW by, NEW us
  PROVE  NewSeats(n, by, us) \in [Users -> SeatRecords]
BY NewSeatType, NoSeatType DEF NewSeats

LEMMA TypesInit == Init => Types
<1>. SUFFICES ASSUME Init PROVE Types
  OBVIOUS
<1>1. Shape /\ Numbers /\ \A r \in Requests : Typed(req[r], now)
  <2>1. req = [r \in Requests |-> Idle] /\ lost = {0} /\ begun = 0
    BY DEF Init
  <2>2. Shape
    BY <2>1 DEF Shape, Fields, Idle
  <2>3. \A r \in Requests : req[r].pc = "idle"
    BY <2>1 DEF Idle
  <2>4. Numbers
    BY <2>1, <2>3 DEF Numbers, Open
  <2>. QED
    BY <2>2, <2>3, <2>4 DEF Typed, PlanTyped, TalkTyped, NoteTyped, JobTyped, LetterTyped
<1>2. PICK start \in offer.starts :
       /\ event = [e \in Events |-> IF start[e] = <<>> THEN NoEvent
            ELSE [there |-> TRUE, live |-> TRUE, by |-> start[e].by, day |-> start[e].day,
                  of |-> start[e].of]]
       /\ seat = [e \in Events |-> [u \in Users |->
            IF start[e] = <<>> \/ u \notin DOMAIN start[e].seats THEN NoSeat
            ELSE [NoSeat EXCEPT !.made = 0, !.status = start[e].seats[u]]]]
  BY DEF Init
<1>3. offer \in Offers
  BY DEF Init
<1>4. event \in [Events -> EventRecords]
  <2>1. ASSUME NEW e \in Events PROVE event[e] \in EventRecords
    <3>1. CASE start[e] = <<>>
      <4>1. event[e] = NoEvent
        BY <1>2, <3>1
      <4>. QED
        BY <4>1 DEF NoEvent, EventRecords
    <3>2. CASE start[e] # <<>>
      <4>1. start[e].by \in Users /\ start[e].day \in Nat /\ start[e].of \in Talks \union {None}
        BY <1>3, <3>2, OffersAssumption
      <4>2. event[e] = [there |-> TRUE, live |-> TRUE, by |-> start[e].by,
                        day |-> start[e].day, of |-> start[e].of]
        BY <1>2, <3>2
      <4>. QED
        BY <4>1, <4>2 DEF EventRecords
    <3>. QED
      BY <3>1, <3>2
  <2>. QED
    BY <1>2, <2>1
<1>5. seat \in [Events -> [Users -> SeatRecords]]
  <2>1. ASSUME NEW e \in Events, NEW u \in Users PROVE seat[e][u] \in SeatRecords
    <3>1. CASE start[e] = <<>> \/ u \notin DOMAIN start[e].seats
      <4>1. seat[e][u] = NoSeat
        BY <1>2, <3>1
      <4>. QED
        BY <4>1, NoSeatType
    <3>2. CASE ~(start[e] = <<>> \/ u \notin DOMAIN start[e].seats)
      <4>1. start[e].seats[u] \in Answers \union {"PENDING"}
        BY <1>3, <3>2, OffersAssumption
      <4>2. seat[e][u] = [NoSeat EXCEPT !.made = 0, !.status = start[e].seats[u]]
        BY <1>2, <3>2
      <4>3. seat[e][u] = [made |-> 0, status |-> start[e].seats[u], mails |-> NoneYet,
                            stamped |-> FALSE, failed |-> 0]
        BY <4>2 DEF NoSeat
      <4>. QED
        BY <4>1, <4>3, NoneYetType DEF SeatRecords, Statuses
    <3>. QED
      BY <3>1, <3>2
  <2>. QED
    BY <1>2, <2>1
<1>6. note \in [Notes -> NoteRecords]
  BY DEF Init, NoteRecords, NoNote, NewNote
<1>7. /\ contact \in [Contacts -> ContactRecords] /\ now \in Nat
      /\ \A c \in Contacts : contact[c].last <= now
  <2>1. contact = [c \in Contacts |-> [last |-> NoDay, stamp |-> NoDay, alerts |-> NoneYet,
                                      failed |-> 0, crossed |-> FALSE]]
        /\ now = 0
    BY DEF Init
  <2>. QED
    BY <2>1, NoneYetType DEF ContactRecords, NoDay
<1>8. grants \in [Users -> SUBSET Viewings] /\ notice = {}
  BY DEF Init
<1>9. DOMAIN letter = Messages /\ \A m \in Messages : letter[m].made \in 0 .. begun
  <2>1. begun = 0
    BY DEF Init
  <2>2. letter = [m \in Messages |->
          [there |-> Has("mailbox") /\ m = CHOOSE first \in Messages : TRUE,
           from |-> CHOOSE u \in Users : TRUE, to |-> Users, cc |-> {}, report |-> None,
           made |-> 0]]
    BY DEF Init
  <2>. QED
    BY <2>1, <2>2
<1>. QED
  BY <1>1, <1>3, <1>4, <1>5, <1>6, <1>7, <1>8, <1>9 DEF Types, StateTypes, NoticesMade, LettersMade

LEMMA OthersTyped ==
  ASSUME Shape, NEW r \in Requests, Begins(r) \/ Goes(r), now' = now,
         NEW o \in Requests \ {r}, Typed(req[o], now)
  PROVE  Typed(req'[o], now')
<1>1. Keeps(o)
  BY DEF Begins, Goes, Keeps
<1>2. /\ req'[o].pc = req[o].pc /\ req'[o].by = req[o].by /\ req'[o].e = req[o].e
      /\ req'[o].x = req[o].x /\ req'[o].set = req[o].set /\ req'[o].day = req[o].day
      /\ req'[o].rows = req[o].rows /\ req'[o].also = req[o].also /\ req'[o].was = req[o].was
  BY <1>1 DEF Keeps, Fields
<1>3. PlanTyped(req'[o])
  BY <1>2 DEF Typed, PlanTyped
<1>4. TalkTyped(req'[o], now)
  BY <1>2 DEF Typed, TalkTyped
<1>5. NoteTyped(req'[o])
  BY <1>2 DEF Typed, NoteTyped
<1>6. JobTyped(req'[o])
  BY <1>2 DEF Typed, JobTyped
<1>7. LetterTyped(req'[o])
  BY <1>2 DEF Typed, LetterTyped
<1>. QED
  BY <1>3, <1>4, <1>5, <1>6, <1>7 DEF Typed

\* A request is at one thing at a time.
LEMMA TypedByPart ==
  ASSUME NEW q, NEW today,
         \/ q.pc \in {"idle", "tell"}
         \/ q.pc \in {"update", "respond", "grant"} /\ PlanTyped(q)
         \/ q.pc = "talk" /\ TalkTyped(q, today)
         \/ q.pc \in {"find", "note", "remove note", "its reminder"} /\ NoteTyped(q)
         \/ /\ q.pc \in {"digest", "insert", "mail", "send", "mailed", "alert", "stamp"}
            /\ JobTyped(q)
         \/ q.pc \in {"write", "mark"} /\ LetterTyped(q)
  PROVE  Typed(q, today)
BY DEF Typed, PlanTyped, TalkTyped, NoteTyped, JobTyped, LetterTyped

LEMMA LettersStay ==
  ASSUME Types, NEW r \in Requests, Begins(r) \/ Goes(r), letter' = letter
  PROVE  LettersMade'
BY DEF Types, StateTypes, Numbers, LettersMade, Begins, Goes

\* What a step leaves alone keeps its type.
LEMMA QuietTypes ==
  ASSUME Types, NEW r \in Requests, Begins(r) \/ Goes(r),
         UNCHANGED <<now, offer, plans, grants, note, contact, notice, letter>>
  PROVE  StateTypes'
BY LettersStay DEF Types, StateTypes, NoticesMade, plans

\* A change of one contact.
LEMMA OneContact ==
  ASSUME StateTypes, NEW c \in Contacts, NEW new \in ContactRecords, new.last <= now,
         now' = now, contact' = [contact EXCEPT ![c] = new]
  PROVE  /\ contact' \in [Contacts -> ContactRecords]
         /\ \A d \in Contacts : contact'[d].last <= now'
<1>1. contact \in [Contacts -> ContactRecords] /\ \A d \in Contacts : contact[d].last <= now
  BY DEF StateTypes
<1>. QED
  BY <1>1

LEMMA RecordFields ==
  ASSUME NEW S, NEW counts \in S, NEW times \in Nat,
         NEW one \in [last : Int, stamp : Int, alerts : S, failed : Nat, crossed : BOOLEAN]
  PROVE  [one EXCEPT !.alerts = counts, !.failed = times]
           \in [last : Int, stamp : Int, alerts : S, failed : Nat, crossed : BOOLEAN]
OBVIOUS

LEMMA ContactFields ==
  ASSUME NEW one \in ContactRecords, NEW counts \in [Users -> Nat]
  PROVE  [one EXCEPT !.alerts = counts, !.failed = one.failed + 1] \in ContactRecords
<1>1. one.failed + 1 \in Nat
  BY DEF ContactRecords
<1>2. PICK S : S = [Users -> Nat]
  OBVIOUS
<1>. QED
  BY <1>1, <1>2, RecordFields DEF ContactRecords

LEMMA ContactedTypes ==
  ASSUME StateTypes, NEW c \in Contacts, NEW day \in 0 .. now, now' = now,
         Contacted(c, day, NoDay)
  PROVE  /\ contact' \in [Contacts -> ContactRecords]
         /\ \A d \in Contacts : contact'[d].last <= now'
<1>. DEFINE new == [last |-> day, stamp |-> NoDay, alerts |-> NoneYet, failed |-> 0,
                    crossed |-> Checking]
<1>1. contact' = [contact EXCEPT ![c] = new]
  BY DEF Contacted
<1>2. Checking \in BOOLEAN /\ NoDay \in Int /\ now \in Nat
  BY DEF Checking, NoDay, StateTypes
<1>3. new \in ContactRecords /\ new.last <= now
  BY <1>2, NoneYetType DEF ContactRecords
<1>. HIDE DEF new
<1>. QED
  BY <1>1, <1>3, OneContact

LEMMA BeginTypes ==
  ASSUME Types, NEW r \in Requests, BeginAgenda(r)
  PROVE  StateTypes' /\ Typed(req'[r], now) /\ now' = now
<1>. DEFINE Goal == StateTypes' /\ Typed(req'[r], now) /\ now' = now
<1>. SUFFICES Goal
  OBVIOUS
<1>0. Shape /\ Types /\ StateTypes /\ offer.by \subseteq Users /\ offer.asks \subseteq SUBSET Users
      /\ offer.meets \subseteq Contacts /\ begun \in Nat /\ now \in Nat
  BY OfferTypes DEF Types, StateTypes, Numbers
<1>s. /\ \A e \in Events : event[e] \in EventRecords /\ seat[e] \in [Users -> SeatRecords]
      /\ \A u \in Users : grants[u] \subseteq Viewings
      /\ \A c \in Contacts : contact[c] \in ContactRecords
  BY <1>0 DEF StateTypes
<1>1. ASSUME NEW u \in Users, NEW e \in Events, NEW us \in SUBSET Users, NEW day \in Days,
             Create(r, u, e, us, day)
      PROVE  Goal
  <2>1. /\ Begins(r) /\ UNCHANGED <<now, offer, grants, note, contact, notice, letter>>
        /\ req'[r].pc \in {"idle", "tell"}
    BY <1>0, <1>1, CreateTurn DEF mail
  <2>2. /\ event' = [event EXCEPT ![e] = [there |-> TRUE, live |-> TRUE, by |-> u, day |-> day,
                                          of |-> None]]
        /\ seat' = [seat EXCEPT ![e] = NewSeats(begun + 1, u, us)]
    BY <1>1 DEF Create
  <2>3. event' \in [Events -> EventRecords]
    BY <1>0, <2>2 DEF StateTypes, EventRecords, Days
  <2>4. seat' \in [Events -> [Users -> SeatRecords]]
    BY <1>0, <2>2, NewSeatsType DEF StateTypes
  <2>. QED
    BY <1>0, <2>1, <2>3, <2>4, LettersStay, TypedByPart DEF StateTypes, NoticesMade
<1>2. ASSUME NEW u \in Users, NEW e \in Events, NEW us \in SUBSET Users,
             NEW day \in {NoDay, now + 1}, NEW also, BeginUpdate(r, u, e, us, day, also)
      PROVE  Goal
  <2>1. StateTypes' /\ now' = now
    BY <1>0, <1>2, BeginUpdateTurn, QuietTypes DEF mail
  <2>2. Typed(req'[r], now)
    <3>1. PlanTyped(req'[r])
      BY <1>0, <1>s, <1>2, BeginUpdateTurn DEF PlanTyped, NoDay
    <3>2. req'[r].pc = "update"
      BY <1>0, <1>2, BeginUpdateTurn
    <3>. QED
      BY <3>1, <3>2, TypedByPart
  <2>. QED
    BY <2>1, <2>2
<1>3. ASSUME NEW u \in Users, NEW e \in Events, NEW status \in Answers,
             BeginRespond(r, u, e, status)
      PROVE  Goal
  <2>1. StateTypes' /\ now' = now
    BY <1>0, <1>3, BeginRespondTurn, QuietTypes DEF mail
  <2>2. Typed(req'[r], now)
    <3>1. PlanTyped(req'[r])
      BY <1>0, <1>s, <1>3, BeginRespondTurn DEF PlanTyped
    <3>2. req'[r].pc = "respond"
      BY <1>0, <1>3, BeginRespondTurn
    <3>. QED
      BY <3>1, <3>2, TypedByPart
  <2>. QED
    BY <2>1, <2>2
<1>4. ASSUME NEW e \in Events, Remove(r, e) PROVE Goal
  <2>1. /\ Begins(r) /\ UNCHANGED <<now, offer, seat, grants, note, contact, notice, letter>>
        /\ req'[r].pc = "idle"
    BY <1>0, <1>4, RemoveTurn DEF mail
  <2>2. event' = [event EXCEPT ![e].live = FALSE]
    BY <1>4 DEF Remove
  <2>3. event' \in [Events -> EventRecords]
    <3>1. [event[e] EXCEPT !.live = FALSE] \in EventRecords
      BY <1>s DEF EventRecords
    <3>. QED
      BY <1>0, <2>2, <3>1 DEF StateTypes
  <2>. QED
    BY <1>0, <2>1, <2>3, LettersStay, TypedByPart DEF StateTypes, NoticesMade
<1>5. ASSUME NEW u \in Users, NEW us \in SUBSET Users, BeginGrants(r, u, us) PROVE Goal
  <2>1. StateTypes' /\ now' = now
    BY <1>0, <1>5, BeginGrantsTurn, QuietTypes DEF mail
  <2>2. PlanTyped(req'[r]) /\ req'[r].pc = "grant"
    BY <1>0, <1>s, <1>5, BeginGrantsTurn DEF PlanTyped
  <2>. QED
    BY <2>1, <2>2, TypedByPart
<1>6. ASSUME NEW u \in Users, NEW t \in Talks, NEW c \in Contacts, NEW day \in 0 .. now,
             NEW e \in Events \union {None}, NEW us \in SUBSET Users,
             BeginTalk(r, u, t, c, day, e, us)
      PROVE  Goal
  <2>1. StateTypes' /\ now' = now
    BY <1>0, <1>6, BeginTalkTurn, QuietTypes DEF mail
  <2>2. Typed(req'[r], now)
    <3>1. TalkTyped(req'[r], now)
      BY <1>0, <1>s, <1>6, BeginTalkTurn DEF TalkTyped, ContactRecords
    <3>2. req'[r].pc = "talk"
      BY <1>0, <1>6, BeginTalkTurn
    <3>. QED
      BY <3>1, <3>2, TypedByPart
  <2>. QED
    BY <2>1, <2>2
<1>7. ASSUME NEW t \in Talks, CloseTalk(r, t) PROVE Goal
  <2>1. StateTypes' /\ now' = now
    BY <1>0, <1>7, CloseTalkTurn, QuietTypes DEF mail
  <2>2. Typed(req'[r], now)
    BY <1>0, <1>7, CloseTalkTurn, TypedByPart
  <2>. QED
    BY <2>1, <2>2
<1>8. ASSUME NEW c \in Contacts, NEW day \in 0 .. now, SetContact(r, c, day) PROVE Goal
  <2>1. /\ Begins(r) /\ UNCHANGED <<now, offer, plans, grants, note, notice, letter>>
        /\ req'[r].pc = "idle"
    BY <1>0, <1>8, SetContactTurn DEF mail
  <2>2. Contacted(c, day, NoDay) /\ now' = now
    BY <1>8 DEF SetContact
  <2>4. contact' \in [Contacts -> ContactRecords] /\ \A d \in Contacts : contact'[d].last <= now'
    BY <1>0, <2>2, ContactedTypes
  <2>. QED
    BY <1>0, <2>1, <2>4, LettersStay, TypedByPart DEF StateTypes, NoticesMade, plans
<1>9. ASSUME NEW u \in Users, NEW x \in Notes, NEW e \in Events, CreateNote(r, u, x, e)
      PROVE  Goal
  <2>1. /\ Begins(r) /\ UNCHANGED <<now, offer, grants, contact, notice, letter>>
        /\ req'[r].pc = "idle"
    BY <1>0, <1>9, CreateNoteTurn DEF mail
  <2>2. note' \in [Notes -> NoteRecords]
    BY <1>0, <1>9 DEF CreateNote, NewNote, NoteRecords, StateTypes
  <2>3. UNCHANGED plans
        \/ /\ event' = [event EXCEPT ![e] = [there |-> TRUE, live |-> TRUE, by |-> u,
                                              day |-> now, of |-> x]]
           /\ seat' = [seat EXCEPT ![e] = NewSeats(begun + 1, u, {u})]
    BY <1>9 DEF CreateNote, NoteEvent
  <2>4. event' \in [Events -> EventRecords]
    <3>1. [there |-> TRUE, live |-> TRUE, by |-> u, day |-> now, of |-> x] \in EventRecords
      BY <1>0 DEF EventRecords
    <3>. QED
      BY <1>0, <2>3, <3>1 DEF StateTypes, plans
  <2>5. seat' \in [Events -> [Users -> SeatRecords]]
    BY <1>0, <2>3, NewSeatsType DEF StateTypes, plans
  <2>. QED
    BY <1>0, <2>1, <2>2, <2>4, <2>5, LettersStay, TypedByPart DEF StateTypes, NoticesMade
<1>10. ASSUME NEW u \in Users, NEW x \in Notes, NEW e \in Events, NEW on, NEW also,
              BeginNote(r, u, x, e, on, also)
       PROVE  Goal
  <2>1. /\ Begins(r) /\ UNCHANGED <<now, offer, plans, grants, contact, notice, letter>>
    BY <1>0, <1>10, BeginNoteTurn DEF mail
  <2>t. NoteTyped(req'[r]) /\ req'[r].pc = "find"
    BY <1>0, <1>10, BeginNoteTurn DEF NoteTyped
  <2>2. note' \in [Notes -> NoteRecords]
    BY <1>0, <1>10 DEF BeginNote, Tear, NoteRecords, StateTypes
  <2>. QED
    BY <1>0, <2>1, <2>2, <2>t, LettersStay, TypedByPart DEF StateTypes, NoticesMade, plans
<1>11. ASSUME NEW x \in Notes, BeginRemoveNote(r, x) PROVE Goal
  <2>1. /\ Begins(r) /\ UNCHANGED <<now, offer, plans, grants, contact, notice, letter>>
    BY <1>0, <1>11, BeginRemoveNoteTurn DEF mail
  <2>t. NoteTyped(req'[r]) /\ req'[r].pc = "remove note"
    BY <1>0, <1>11, BeginRemoveNoteTurn DEF NoteTyped, Reminders
  <2>2. note' \in [Notes -> NoteRecords]
    BY <1>0, <1>11 DEF BeginRemoveNote, Tear, NoteRecords, StateTypes
  <2>. QED
    BY <1>0, <2>1, <2>2, <2>t, LettersStay, TypedByPart DEF StateTypes, NoticesMade, plans
<1>12. CASE BeginDigest(r)
  <2>1. StateTypes' /\ now' = now
    BY <1>0, <1>12, BeginDigestTurn, QuietTypes DEF mail
  <2>2. Typed(req'[r], now)
    BY <1>0, <1>12, BeginDigestTurn, TypedByPart DEF JobTyped
  <2>. QED
    BY <2>1, <2>2
<1>13. CASE BeginMail(r)
  <2>1. ASSUME NEW at \in Events \X Users
        PROVE  <<at[1], at[2], seat[at[1]][at[2]].made, Others(at[1], at[2])>> \in MailRows
    BY <1>0 DEF StateTypes, SeatRecords, MailRows, Others
  <2>2. {<<at[1], at[2], seat[at[1]][at[2]].made, Others(at[1], at[2])>> :
           at \in {at \in Events \X Users : Unmailed(at[1], at[2])}} \subseteq MailRows
    BY <2>1
  <2>. QED
    BY <1>0, <1>13, <2>2, BeginMailTurn, QuietTypes, TypedByPart DEF JobTyped, mail
<1>14. CASE BeginCheck(r)
  <2>1. StateTypes' /\ now' = now
    BY <1>0, <1>14, BeginCheckTurn, QuietTypes DEF mail
  <2>2. Typed(req'[r], now)
    BY <1>0, <1>14, BeginCheckTurn, TypedByPart DEF JobTyped, Silent
  <2>. QED
    BY <2>1, <2>2
<1>. HIDE DEF Goal
<1>u. /\ \A u \in offer.by : u \in Users
      /\ \A us \in offer.asks : us \in SUBSET Users
      /\ \A c \in offer.meets : c \in Contacts
  BY <1>0
<1>15. ASSUME NEW u \in offer.by, NEW e \in Events, NEW us \in offer.asks,
              \/ \E day \in Days : Create(r, u, e, us, day)
              \/ \E day \in {NoDay, now + 1}, also \in BOOLEAN :
                   BeginUpdate(r, u, e, us, day, also)
              \/ \E t \in Talks, c \in offer.meets, day \in 0 .. now :
                   BeginTalk(r, u, t, c, day, e, us)
       PROVE  Goal
  <2>1. u \in Users /\ us \in SUBSET Users /\ e \in Events \union {None}
        /\ \A c \in offer.meets : c \in Contacts
    BY <1>u
  <2>. QED
    BY <1>1, <1>2, <1>6, <1>15, <2>1
<1>16. ASSUME NEW u \in offer.by, NEW t \in Talks, NEW c \in offer.meets, NEW day \in 0 .. now,
              BeginTalk(r, u, t, c, day, None, {})
       PROVE  Goal
  BY <1>u, <1>6, <1>16
<1>17. ASSUME NEW u \in offer.by, NEW e \in Events,
              \/ \E status \in Answers : BeginRespond(r, u, e, status)
              \/ \E x \in Notes : CreateNote(r, u, x, e)
              \/ \E x \in Notes, on, also \in BOOLEAN : BeginNote(r, u, x, e, on, also)
       PROVE  Goal
  BY <1>u, <1>3, <1>9, <1>10, <1>17
<1>18. ASSUME NEW u \in offer.by, NEW us \in SUBSET Users, BeginGrants(r, u, us) PROVE Goal
  BY <1>u, <1>5, <1>18
<1>19. ASSUME NEW c \in offer.meets, NEW day \in 0 .. now, SetContact(r, c, day) PROVE Goal
  BY <1>u, <1>8, <1>19
<1>. QED
  BY <1>4, <1>7, <1>11, <1>12, <1>13, <1>14, <1>15, <1>16, <1>17, <1>18, <1>19 DEF BeginAgenda

LEMMA SeatsStay ==
  ASSUME seat \in [Events -> [Users -> SeatRecords]], NEW e \in Events, NEW u \in Users,
         NEW new \in SeatRecords, seat' = [seat EXCEPT ![e] = [seat[e] EXCEPT ![u] = new]]
  PROVE  seat' \in [Events -> [Users -> SeatRecords]]
<1>1. [seat[e] EXCEPT ![u] = new] \in [Users -> SeatRecords]
  OBVIOUS
<1>. QED
  BY <1>1

\* A seat with a field changed is a seat.
LEMMA SeatFields ==
  ASSUME NEW one \in SeatRecords
  PROVE  /\ \A status \in Statuses : [one EXCEPT !.status = status] \in SeatRecords
         /\ \A us : [one EXCEPT !.mails = Counting(one.mails, us)] \in SeatRecords
         /\ [one EXCEPT !.stamped = TRUE] \in SeatRecords
         /\ [one EXCEPT !.failed = one.failed + 1] \in SeatRecords
<1>1. ASSUME NEW status \in Statuses PROVE [one EXCEPT !.status = status] \in SeatRecords
  BY DEF SeatRecords
<1>2. ASSUME NEW us PROVE [one EXCEPT !.mails = Counting(one.mails, us)] \in SeatRecords
  BY CountingType DEF SeatRecords
<1>3. [one EXCEPT !.stamped = TRUE] \in SeatRecords
  BY DEF SeatRecords
<1>4. [one EXCEPT !.failed = one.failed + 1] \in SeatRecords
  BY DEF SeatRecords
<1>. QED
  BY <1>1, <1>2, <1>3, <1>4

LEMMA StepTypes ==
  ASSUME Types, NEW r \in Requests, StepAgenda(r)
  PROVE  StateTypes' /\ Typed(req'[r], now) /\ now' = now
<1>. DEFINE Goal == StateTypes' /\ Typed(req'[r], now) /\ now' = now
<1>. SUFFICES Goal
  OBVIOUS
<1>0. /\ Shape /\ Types /\ StateTypes /\ now \in Nat /\ begun \in Nat
      /\ Typed(req[r], now)
      /\ Open(r) => req[r].n \in Nat
  BY DEF Types, StateTypes, Numbers
<1>s. /\ \A e \in Events : event[e] \in EventRecords /\ seat[e] \in [Users -> SeatRecords]
      /\ \A e \in Events, u \in Users : seat[e][u] \in SeatRecords
      /\ \A u \in Users : grants[u] \subseteq Viewings
      /\ \A c \in Contacts : contact[c] \in ContactRecords
      /\ event \in [Events -> EventRecords] /\ seat \in [Events -> [Users -> SeatRecords]]
      /\ grants \in [Users -> SUBSET Viewings]
  BY <1>0 DEF StateTypes
<1>1. ASSUME NEW t, Tell(r, t) PROVE Goal
  <2>1. /\ Goes(r) /\ UNCHANGED <<now, offer, plans, grants, note, contact, letter>>
        /\ req'[r].pc \in {"idle", "tell"}
    BY <1>0, <1>1, TellTurn DEF mail
  <2>2. notice' = notice \union {[kind |-> t.kind, to |-> t.to, of |-> t.of, n |-> req[r].n]}
    BY <1>1 DEF Tell
  <2>3. NoticesMade'
    BY <1>0, <2>2 DEF StateTypes, NoticesMade
  <2>. QED
    BY <1>0, <2>1, <2>3, LettersStay, TypedByPart DEF StateTypes, plans
<1>2. CASE Update(r)
  <2>1. /\ Goes(r) /\ UNCHANGED <<now, offer, grants, note, contact, notice, letter>>
        /\ req[r].pc = "update" /\ req'[r].pc \in {"idle", "tell"}
    BY <1>0, <1>2, UpdateTurn DEF mail
  <2>2. /\ req[r].e \in Events /\ req[r].rows \in [Users -> SeatRecords] /\ req[r].n \in Nat
        /\ req[r].day \in Int
    BY <1>0, <2>1 DEF Typed, PlanTyped, Open
  <2>. DEFINE e == req[r].e
              gone(u) == seat[e][u].made # req[r].rows[u].made
  <2>3. \/ UNCHANGED plans
        \/ /\ event' = [event EXCEPT ![e].day = IF req[r].day = NoDay THEN @ ELSE req[r].day]
           /\ seat' = [seat EXCEPT ![e] = [u \in Users |->
                IF u \in Asks(r) THEN NewSeat(req[r].n, u, event[e].by)
                ELSE IF u \in Before(r) \ req[r].set /\ ~gone(u) THEN NoSeat
                ELSE @[u]]]
    BY <1>2 DEF Update, Asks
  <2>. HIDE DEF gone
  <2>4. event' \in [Events -> EventRecords]
    <3>1. [event[e] EXCEPT !.day = IF req[r].day = NoDay THEN event[e].day ELSE req[r].day]
            \in EventRecords
      BY <1>s, <2>2 DEF EventRecords
    <3>. QED
      BY <1>s, <2>2, <2>3, <3>1 DEF plans
  <2>5. seat' \in [Events -> [Users -> SeatRecords]]
    <3>. DEFINE new == [u \in Users |->
                          IF u \in Asks(r) THEN NewSeat(req[r].n, u, event[e].by)
                          ELSE IF u \in Before(r) \ req[r].set /\ ~gone(u) THEN NoSeat
                          ELSE seat[e][u]]
    <3>1. new \in [Users -> SeatRecords]
      BY <1>s, <2>2, NewSeatType, NoSeatType
    <3>2. UNCHANGED seat \/ seat' = [seat EXCEPT ![e] = new]
      BY <1>s, <2>2, <2>3 DEF plans
    <3>. HIDE DEF new
    <3>. QED
      BY <1>s, <2>2, <3>1, <3>2
  <2>. QED
    BY <1>0, <2>1, <2>4, <2>5, LettersStay, TypedByPart DEF StateTypes, NoticesMade
<1>3. CASE Respond(r)
  <2>1. /\ Goes(r) /\ UNCHANGED <<now, offer, event, grants, note, contact, notice, letter>>
        /\ req[r].pc = "respond" /\ req'[r].pc \in {"idle", "tell"}
    BY <1>0, <1>3, RespondTurn DEF mail
  <2>2. /\ req[r].e \in Events /\ req[r].by \in Users
        /\ (CHOOSE s \in req[r].set : TRUE) \in Answers
    BY <1>0, <2>1 DEF Typed, PlanTyped
  <2>3. \/ UNCHANGED seat
        \/ seat' = [seat EXCEPT ![req[r].e][req[r].by].status = CHOOSE s \in req[r].set : TRUE]
    BY <1>3 DEF Respond
  <2>4. \A answer \in Answers :
           [seat[req[r].e][req[r].by] EXCEPT !.status = answer] \in SeatRecords
    BY <1>s, <2>2, SeatFields DEF Statuses
  <2>5. seat' \in [Events -> [Users -> SeatRecords]]
    BY <1>s, <2>2, <2>3, <2>4, SeatsStay
  <2>. QED
    BY <1>0, <2>1, <2>5, LettersStay, TypedByPart DEF StateTypes, NoticesMade
<1>4. CASE Grant(r)
  <2>1. /\ Goes(r) /\ UNCHANGED <<now, offer, plans, note, contact, notice, letter>>
        /\ req[r].pc = "grant" /\ req'[r].pc = "idle"
    BY <1>0, <1>4, GrantTurn DEF mail
  <2>2. /\ req[r].by \in Users /\ req[r].set \subseteq Users /\ req[r].n \in Nat
    BY <1>0, <2>1 DEF Typed, PlanTyped, Open
  <2>3. \/ grants' = grants
        \/ grants' = [grants EXCEPT ![req[r].by] = (grants[req[r].by] \ req[r].rows)
                                       \union {[to |-> u, n |-> req[r].n] : u \in req[r].set}]
    BY <1>4 DEF Grant
  <2>4. (grants[req[r].by] \ req[r].rows) \union {[to |-> u, n |-> req[r].n] : u \in req[r].set}
          \in SUBSET Viewings
    BY <1>s, <2>2 DEF Viewings
  <2>5. grants' \in [Users -> SUBSET Viewings]
    BY <1>s, <2>2, <2>3, <2>4
  <2>. QED
    BY <1>0, <2>1, <2>5, LettersStay, TypedByPart DEF StateTypes, NoticesMade, plans
<1>5. CASE Talk(r)
  <2>1. /\ Goes(r) /\ UNCHANGED <<now, offer, grants, note, notice, letter>>
        /\ req[r].pc = "talk" /\ req'[r].pc \in {"idle", "tell"}
    BY <1>0, <1>5, TalkTurn DEF mail
  <2>2. /\ req[r].by \in Users /\ req[r].x \in Talks /\ req[r].e \in Events \union {None}
        /\ req[r].day \in 0 .. now /\ req[r].n \in Nat
    BY <1>0, <2>1 DEF Typed, TalkTyped, Open
  <2>3. \/ UNCHANGED plans
        \/ /\ req[r].e \in Events
           /\ event' = [event EXCEPT ![req[r].e] = [there |-> TRUE, live |-> TRUE,
                          by |-> req[r].by, day |-> now, of |-> req[r].x]]
           /\ seat' = [seat EXCEPT ![req[r].e] = NewSeats(req[r].n, req[r].by, req[r].set)]
    BY <1>5, <2>2 DEF Talk, Record
  <2>4. event' \in [Events -> EventRecords]
    <3>1. [there |-> TRUE, live |-> TRUE, by |-> req[r].by, day |-> now, of |-> req[r].x]
             \in EventRecords
      BY <1>0, <2>2 DEF EventRecords
    <3>. QED
      BY <1>s, <2>3, <3>1 DEF plans
  <2>5. seat' \in [Events -> [Users -> SeatRecords]]
    BY <1>s, <2>2, <2>3, NewSeatsType DEF plans
  <2>6. contact' \in [Contacts -> ContactRecords] /\ \A d \in Contacts : contact'[d].last <= now'
    <3>1. \/ UNCHANGED contact
          \/ Contacted(req[r].rows, req[r].day, NoDay)
      BY <1>5 DEF Talk, Follow
    <3>2. req[r].rows \in Contacts /\ req[r].day \in 0 .. now /\ now' = now
      BY <1>0, <2>1 DEF Typed, TalkTyped
    <3>3. contact \in [Contacts -> ContactRecords] /\ \A d \in Contacts : contact[d].last <= now
      BY <1>0 DEF StateTypes
    <3>. QED
      BY <1>0, <3>1, <3>2, <3>3, ContactedTypes
  <2>. QED
    BY <1>0, <2>1, <2>4, <2>5, <2>6, LettersStay, TypedByPart DEF StateTypes, NoticesMade
<1>6. CASE FindReminder(r)
  <2>1. StateTypes' /\ now' = now
    BY <1>0, <1>6, FindReminderTurn, QuietTypes DEF mail
  <2>2. req[r].pc = "find" /\ req'[r].pc = "note" /\ req'[r].rows = Reminders(req[r].x)
        /\ req'[r].by = req[r].by /\ req'[r].x = req[r].x /\ req'[r].e = req[r].e
    BY <1>0, <1>6, FindReminderTurn DEF Fields
  <2>3. NoteTyped(req'[r])
    BY <1>0, <2>2 DEF Typed, NoteTyped, Reminders
  <2>. QED
    BY <2>1, <2>2, <2>3, TypedByPart
<1>7. CASE SetReminder(r)
  <2>1. /\ Goes(r) /\ UNCHANGED <<now, offer, grants, note, contact, notice, letter>>
        /\ req[r].pc = "note" /\ req'[r].pc = "idle"
    BY <1>0, <1>7, SetReminderTurn DEF mail
  <2>2. /\ req[r].by \in Users /\ req[r].x \in Notes /\ req[r].e \in Events
        /\ req[r].rows \subseteq Events /\ req[r].n \in Nat
    BY <1>0, <2>1 DEF Typed, NoteTyped, Open
  <2>3. \/ UNCHANGED plans
        \/ /\ event' = [event EXCEPT ![req[r].e] = [there |-> TRUE, live |-> TRUE,
                          by |-> req[r].by, day |-> now, of |-> req[r].x]]
           /\ seat' = [seat EXCEPT ![req[r].e] = NewSeats(req[r].n, req[r].by, {req[r].by})]
        \/ /\ UNCHANGED seat
           /\ \E e \in req[r].rows, live \in BOOLEAN, day \in Int : event' = [event EXCEPT ![e] =
                            [event[e] EXCEPT !.live = live, !.day = day]]
    <3>1. CASE req[r].rows = {}
      BY <1>7, <3>1 DEF SetReminder, NoteEvent
    <3>2. ASSUME NEW e \in req[r].rows, UNCHANGED seat, NEW on \in BOOLEAN,
             event' = [event EXCEPT ![e].live = @ /\ on, ![e].day = IF on THEN now ELSE @]
          PROVE  \E live \in BOOLEAN, day \in Int : event' = [event EXCEPT ![e] =
                            [event[e] EXCEPT !.live = live, !.day = day]]
      <4>1. e \in Events
        BY <2>2
      <4>2. event[e] \in EventRecords
        BY <1>s, <4>1
      <4>3. (event[e].live /\ on) \in BOOLEAN /\ (IF on THEN now ELSE event[e].day) \in Int
        BY <1>0, <4>2 DEF EventRecords
      <4>. QED
        BY <3>2, <4>1, <4>2, <4>3, <1>s DEF EventRecords
    <3>. QED
      BY <1>7, <3>1, <3>2 DEF SetReminder
  <2>4. event' \in [Events -> EventRecords]
    <3>1. [there |-> TRUE, live |-> TRUE, by |-> req[r].by, day |-> now, of |-> req[r].x]
             \in EventRecords
      BY <1>0, <2>2 DEF EventRecords
    <3>2. \A e \in Events, live \in BOOLEAN, day \in Int :
             [event[e] EXCEPT !.live = live, !.day = day] \in EventRecords
      BY <1>s DEF EventRecords
    <3>3. ASSUME NEW e \in req[r].rows, NEW live \in BOOLEAN, NEW day \in Int,
                 event' = [event EXCEPT ![e] = [event[e] EXCEPT !.live = live, !.day = day]]
          PROVE  event' \in [Events -> EventRecords]
      BY <1>s, <2>2, <3>2, <3>3
    <3>. QED
      BY <1>s, <2>2, <2>3, <3>1, <3>3 DEF plans
  <2>5. seat' \in [Events -> [Users -> SeatRecords]]
    <3>1. \/ UNCHANGED seat
          \/ seat' = [seat EXCEPT ![req[r].e] = NewSeats(req[r].n, req[r].by, {req[r].by})]
      BY <2>3 DEF plans
    <3>. QED
      BY <1>s, <2>2, <3>1, NewSeatsType
  <2>. QED
    BY <1>0, <2>1, <2>4, <2>5, LettersStay, TypedByPart DEF StateTypes, NoticesMade
<1>8. CASE RemoveNote(r)
  <2>1. /\ Goes(r) /\ UNCHANGED <<now, offer, plans, grants, contact, notice, letter>>
        /\ req[r].pc = "remove note"
        /\ \/ req'[r].pc = "idle"
           \/ /\ req'[r].pc = "its reminder" /\ req'[r].x = req[r].x
              /\ req'[r].rows = req[r].rows /\ req'[r].also = req[r].also
    BY <1>0, <1>8, RemoveNoteTurn DEF mail, Fields
  <2>2. Typed(req'[r], now)
    <3>1. CASE req'[r].pc = "idle"
      BY <3>1, TypedByPart
    <3>2. CASE req'[r].pc = "its reminder"
      <4>1. NoteTyped(req'[r])
        BY <1>0, <2>1, <3>2 DEF Typed, NoteTyped
      <4>. QED
        BY <3>2, <4>1, TypedByPart
    <3>. QED
      BY <2>1, <3>1, <3>2
  <2>3. note' \in [Notes -> NoteRecords]
    <3>1. req[r].x \in Notes
      BY <1>0, <2>1 DEF Typed, NoteTyped
    <3>2. note' = [note EXCEPT ![req[r].x].live = FALSE]
      BY <1>8 DEF RemoveNote
    <3>3. [note[req[r].x] EXCEPT !.live = FALSE] \in NoteRecords
      BY <1>0, <3>1 DEF StateTypes, NoteRecords
    <3>. QED
      BY <1>0, <3>1, <3>2, <3>3 DEF StateTypes
  <2>. QED
    BY <1>0, <2>1, <2>2, <2>3, LettersStay DEF StateTypes, NoticesMade, plans
<1>9. CASE RemoveReminder(r)
  <2>1. /\ Goes(r) /\ UNCHANGED <<now, offer, seat, grants, note, contact, notice, letter>>
        /\ req[r].pc = "its reminder" /\ req'[r].pc = "idle"
    BY <1>0, <1>9, RemoveReminderTurn DEF mail
  <2>2. PICK e \in req[r].rows : event' = [event EXCEPT ![e].live = FALSE]
    BY <1>9 DEF RemoveReminder
  <2>3. e \in Events
    BY <1>0, <2>1 DEF Typed, NoteTyped
  <2>4. [event[e] EXCEPT !.live = FALSE] \in EventRecords
    BY <1>s, <2>3 DEF EventRecords
  <2>5. event' \in [Events -> EventRecords]
    BY <1>s, <2>2, <2>3, <2>4
  <2>. QED
    BY <1>0, <2>1, <2>5, LettersStay, TypedByPart DEF StateTypes, NoticesMade
<1>10. ASSUME NEW u \in Users, Look(r, u) PROVE Goal
  <2>1. StateTypes' /\ now' = now
    BY <1>0, <1>10, LookTurn, QuietTypes DEF mail
  <2>2. JobTyped(req'[r]) /\ req'[r].pc \in {"digest", "insert"}
    BY <1>0, <1>10, LookTurn DEF Typed, JobTyped
  <2>. QED
    BY <2>1, <2>2, TypedByPart
<1>11. ASSUME NEW row, Pick(r, row) PROVE Goal
  <2>1. StateTypes' /\ now' = now
    BY <1>0, <1>11, PickTurn, QuietTypes DEF mail
  <2>2. JobTyped(req'[r]) /\ req'[r].pc \in {"mail", "send"}
    BY <1>0, <1>11, PickTurn DEF Typed, JobTyped
  <2>. QED
    BY <2>1, <2>2, TypedByPart
<1>12. CASE Insert(r)
  <2>1. /\ Goes(r) /\ UNCHANGED <<now, offer, plans, grants, note, contact, letter>>
        /\ req[r].pc = "insert"
    BY <1>0, <1>12, InsertTurn DEF mail
  <2>2. JobTyped(req'[r]) /\ req'[r].pc = "digest"
    BY <1>0, <1>12, InsertTurn DEF Typed, JobTyped
  <2>3. notice' = notice \/ notice' = notice \union
          {[kind |-> "digest", to |-> req[r].x, of |-> now, n |-> req[r].n]}
    BY <1>12 DEF Insert
  <2>4. NoticesMade'
    BY <1>0, <2>3 DEF StateTypes, NoticesMade
  <2>. QED
    BY <1>0, <2>1, <2>2, <2>4, LettersStay, TypedByPart DEF StateTypes, plans
<1>13. ASSUME Send(r) \/ StampSeat(r) PROVE Goal
  <2>1. /\ Goes(r) /\ UNCHANGED <<now, offer, event, grants, note, contact, notice, letter>>
        /\ req[r].pc \in {"send", "mailed"} /\ req'[r].pc \in {"mail", "mailed"}
        /\ req'[r].set = req[r].set /\ req'[r].rows = req[r].rows /\ req'[r].by = req[r].by
    BY <1>0, <1>13, SendTurn, StampSeatTurn DEF mail, Fields
  <2>2. JobTyped(req'[r])
    BY <1>0, <2>1 DEF Typed, JobTyped
  <2>. DEFINE row == req[r].rows  s == seat[row[1]][row[2]]
  <2>3. row[1] \in Events /\ row[2] \in Users
    BY <1>0, <2>1 DEF Typed, JobTyped, MailRows
  <2>4. \/ UNCHANGED seat
        \/ seat' = [seat EXCEPT ![row[1]][row[2]].mails = Counting(@, Receivers(row))]
        \/ seat' = [seat EXCEPT ![row[1]][row[2]].stamped = TRUE]
        \/ seat' = [seat EXCEPT ![row[1]][row[2]].failed = @ + 1]
    BY <1>13 DEF Send, StampSeat
  <2>. HIDE DEF row
  <2>6. seat' \in [Events -> [Users -> SeatRecords]]
    BY <1>s, <2>3, <2>4, SeatFields, SeatsStay
  <2>. QED
    BY <1>0, <2>1, <2>2, <2>6, LettersStay, TypedByPart DEF StateTypes, NoticesMade
<1>14. CASE EndJob(r)
  BY <1>0, <1>14, EndJobTurn, QuietTypes, TypedByPart DEF mail
<1>c. NoticesMade => \A c, us : (notice' = notice \union AlertOf(r, c, us)) => NoticesMade'
  BY DEF NoticesMade, AlertOf
<1>15. ASSUME NEW c, Alert(r, c) PROVE Goal
  <2>1. /\ Goes(r) /\ UNCHANGED <<now, offer, plans, grants, note, letter>>
        /\ req[r].pc = "alert" /\ c \in req[r].set
    BY <1>0, <1>15, AlertTurn DEF mail
  <2>2. JobTyped(req'[r]) /\ req'[r].pc = "stamp" /\ c \in Contacts
    BY <1>0, <1>15, AlertTurn DEF Typed, JobTyped
  <2>4. NoticesMade'
    BY <1>0, <1>15, <1>c DEF Alert, StateTypes
  <2>. DEFINE new == [contact[c] EXCEPT !.alerts = Counting(contact[c].alerts, Users)]
  <2>5. contact' = [contact EXCEPT ![c] = new]
    BY <1>15 DEF Alert
  <2>6. new \in ContactRecords /\ new.last = contact[c].last
    BY <1>s, <2>2, CountingType DEF ContactRecords
  <2>8. new.last <= now /\ now' = now
    BY <1>0, <2>1, <2>2, <2>6 DEF StateTypes
  <2>. HIDE DEF new
  <2>7. contact' \in [Contacts -> ContactRecords] /\ \A d \in Contacts : contact'[d].last <= now'
    BY <1>0, <2>2, <2>5, <2>6, <2>8, OneContact
  <2>. QED
    BY <1>0, <2>1, <2>2, <2>4, <2>7, LettersStay, TypedByPart DEF StateTypes, plans
<1>17. ASSUME NEW c, AlertFails(r, c) PROVE Goal
  <2>1. /\ Goes(r) /\ UNCHANGED <<now, offer, plans, grants, note, letter>>
        /\ req[r].pc = "alert" /\ c \in req[r].set /\ req'[r].pc = "idle"
    BY <1>0, <1>17, AlertFailsTurn DEF mail
  <2>2. c \in Contacts
    BY <1>0, <2>1 DEF Typed, JobTyped
  <2>3. PICK some \in SUBSET Users \ {Users} :
          /\ notice' = notice \union AlertOf(r, c, some)
          /\ contact' = [contact EXCEPT ![c].alerts = Counting(@, some), ![c].failed = @ + 1]
    BY <1>17 DEF AlertFails
  <2>4. NoticesMade'
    BY <1>0, <2>3, <1>c DEF StateTypes
  <2>. DEFINE new == [contact[c] EXCEPT !.alerts = Counting(contact[c].alerts, some),
                                        !.failed = contact[c].failed + 1]
  <2>5. contact' = [contact EXCEPT ![c] = new]
    BY <1>0, <2>2, <2>3 DEF StateTypes
  <2>9. Counting(contact[c].alerts, some) \in [Users -> Nat]
    BY <1>s, <2>2, CountingType DEF ContactRecords
  <2>6. new \in ContactRecords /\ new.last = contact[c].last
    <3>1. PICK counts \in [Users -> Nat] : counts = Counting(contact[c].alerts, some)
      BY <2>9
    <3>2. new = [contact[c] EXCEPT !.alerts = counts, !.failed = contact[c].failed + 1]
      BY <3>1
    <3>3. contact[c] \in ContactRecords
      BY <1>s, <2>2
    <3>4. [contact[c] EXCEPT !.alerts = counts, !.failed = contact[c].failed + 1].last
             = contact[c].last
      BY <3>3 DEF ContactRecords
    <3>. HIDE DEF new
    <3>. QED
      BY <3>2, <3>3, <3>4, ContactFields
  <2>8. new.last <= now /\ now' = now
    BY <1>0, <2>1, <2>2, <2>6 DEF StateTypes
  <2>. HIDE DEF new
  <2>7. contact' \in [Contacts -> ContactRecords] /\ \A d \in Contacts : contact'[d].last <= now'
    BY <1>0, <2>2, <2>5, <2>6, <2>8, OneContact
  <2>. QED
    BY <1>0, <2>1, <2>4, <2>7, LettersStay, TypedByPart DEF StateTypes, plans
<1>16. ASSUME Stamp(r) \/ StampFails(r) PROVE Goal
  <2>. DEFINE c == req[r].x
  <2>1. /\ Goes(r) /\ UNCHANGED <<now, offer, plans, grants, note, notice, letter>>
        /\ req[r].pc = "stamp" /\ req'[r].pc \in {"idle", "alert"}
        /\ req'[r].pc = "alert" => /\ req'[r].by = req[r].by
                                   /\ req'[r].set = req[r].set \ {c}
    BY <1>0, <1>16, StampTurn, StampFailsTurn DEF mail
  <2>2. c \in Contacts /\ Typed(req'[r], now)
    BY <1>0, <2>1, TypedByPart DEF Typed, JobTyped
  <2>3. PICK new : /\ contact' = [contact EXCEPT ![c] = new]
                   /\ \/ new = [contact[c] EXCEPT !.stamp = now]
                      \/ new = [contact[c] EXCEPT !.failed = contact[c].failed + 1]
    BY <1>16 DEF Stamp, StampFails
  <2>4. new \in ContactRecords /\ new.last = contact[c].last
    BY <1>0, <1>s, <2>2, <2>3 DEF ContactRecords
  <2>. HIDE DEF c
  <2>6. new.last <= now /\ now' = now
    BY <1>0, <2>1, <2>2, <2>4 DEF StateTypes
  <2>5. contact' \in [Contacts -> ContactRecords] /\ \A d \in Contacts : contact'[d].last <= now'
    BY <1>0, <2>2, <2>3, <2>4, <2>6, OneContact
  <2>. QED
    BY <1>0, <2>1, <2>2, <2>5, LettersStay DEF StateTypes, NoticesMade, plans
<1>. HIDE DEF Goal
<1>. QED
  BY <1>1, <1>2, <1>3, <1>4, <1>5, <1>6, <1>7, <1>8, <1>9, <1>10, <1>11, <1>12, <1>13, <1>14,
     <1>15, <1>16, <1>17 DEF StepAgenda

LEMMA LetterTypes ==
  ASSUME Types, NEW r \in Requests,
         \/ \E u \in offer.by, to \in offer.asks, cc \in offer.asks \union {{}},
               report \in {None} \union Events : BeginWrite(r, u, to, cc, report)
         \/ \E m \in Messages : Write(r, m)
         \/ \E u \in offer.by, flag \in Flags \union {"star"}, on \in BOOLEAN,
               box \in Sides \union {"all"} : BeginMark(r, u, flag, on, box)
         \/ MarkSeen(r)
  PROVE  StateTypes' /\ Typed(req'[r], now) /\ now' = now
<1>. DEFINE Goal == StateTypes' /\ Typed(req'[r], now) /\ now' = now
<1>. SUFFICES Goal
  OBVIOUS
<1>0. Shape /\ StateTypes /\ offer.by \subseteq Users /\ offer.asks \subseteq SUBSET Users
  BY OfferTypes DEF Types, StateTypes
<1>1. ASSUME NEW u \in offer.by, NEW to \in offer.asks, NEW cc,
             NEW report \in {None} \union Events, BeginWrite(r, u, to, cc, report)
      PROVE  Goal
  <2>1. StateTypes' /\ now' = now
    BY <1>0, <1>1, BeginWriteTurn, QuietTypes DEF mail
  <2>2. LetterTyped(req'[r]) /\ req'[r].pc = "write"
    BY <1>0, <1>1, BeginWriteTurn DEF LetterTyped
  <2>. QED
    BY <2>1, <2>2, TypedByPart
<1>2. ASSUME NEW u \in offer.by, NEW flag, NEW on, NEW box, BeginMark(r, u, flag, on, box)
      PROVE  Goal
  <2>1. StateTypes' /\ now' = now
    BY <1>0, <1>2, BeginMarkTurn, QuietTypes DEF mail
  <2>2. LetterTyped(req'[r]) /\ req'[r].pc = "mark"
    BY <1>0, <1>2, BeginMarkTurn DEF LetterTyped, Visible
  <2>. QED
    BY <2>1, <2>2, TypedByPart
<1>3. ASSUME NEW m \in Messages, Write(r, m) PROVE Goal
  <2>1. /\ Goes(r) /\ UNCHANGED <<now, offer, plans, grants, note, contact, notice>>
        /\ req[r].pc = "write" /\ req'[r].pc \in {"idle", "tell"}
    BY <1>0, <1>3, WriteTurn
  <2>2. letter' = [letter EXCEPT ![m] = [there |-> TRUE, from |-> req[r].by, to |-> req[r].set,
                                         cc |-> req[r].rows, report |-> req[r].e,
                                         made |-> req[r].n]]
    BY <1>3 DEF Write
  <2>3. req[r].n \in 0 .. begun /\ begun' = begun
    BY <2>1 DEF Types, Numbers, Goes
  <2>4. LettersMade'
    BY <1>0, <2>2, <2>3 DEF StateTypes, LettersMade
  <2>. QED
    BY <1>0, <2>1, <2>4, TypedByPart DEF StateTypes, NoticesMade, plans
<1>4. CASE MarkSeen(r)
  BY <1>0, <1>4, MarkSeenTurn, QuietTypes, TypedByPart
<1>. HIDE DEF Goal
<1>. QED
  BY <1>1, <1>2, <1>3, <1>4

LEMMA TypesStep == Types /\ [Next]_vars => Types'
<1>. SUFFICES ASSUME Types, [Next]_vars PROVE Types'
  OBVIOUS
<1>0. Shape' /\ Numbers'
  BY ShapeStep, NumbersStep DEF Types
<1>1. ASSUME NEW r \in Requests, Opens(r) \/ Works(r) PROVE Types'
  <2>1. StateTypes' /\ Typed(req'[r], now) /\ now' = now
    BY <1>1, BeginTypes, StepTypes, LetterTypes DEF Opens, Works
  <2>2. Begins(r) \/ Goes(r)
    BY <1>1, Opening, Working DEF Types
  <2>3. \A o \in Requests \ {r} : Typed(req'[o], now')
    BY <2>1, <2>2, OthersTyped DEF Types
  <2>. QED
    BY <1>0, <2>1, <2>3 DEF Types
<1>2. CASE Crash
  <2>1. \A r \in Requests : req'[r].pc = "idle"
    BY <1>2 DEF Crash, Idle
  <2>2. UNCHANGED <<now, offer, plans, grants, note, contact, notice, letter, begun>>
    BY <1>2 DEF Crash, mail
  <2>. QED
    BY <1>0, <2>1, <2>2, TypedByPart DEF Types, StateTypes, NoticesMade, LettersMade, plans
<1>3. CASE Tick
  <2>1. \A r \in Requests : req'[r].pc = "idle"
    BY <1>3 DEF Tick, Open
  <2>2. UNCHANGED <<offer, plans, grants, note, contact, notice, letter, begun>> /\ now' = now + 1
    BY <1>3 DEF Tick, mail
  <2>3. StateTypes'
    BY <2>2 DEF Types, StateTypes, NoticesMade, LettersMade, plans, ContactRecords
  <2>. QED
    BY <1>0, <2>1, <2>3, TypedByPart DEF Types
<1>4. CASE UNCHANGED vars
  <2>1. UNCHANGED <<now, offer, plans, grants, note, contact, notice, letter, begun, req>>
    BY <1>4 DEF vars, mail
  <2>. QED
    BY <1>0, <2>1 DEF Types, StateTypes, NoticesMade, LettersMade, plans
<1>. QED
  BY <1>1, <1>2, <1>3, <1>4, Steps

(* What the tables hold and what each request carries along is always of   *)
(* its type: whatever CalendarEventsService, InteractionsService,          *)
(* NotesService, MessagesService and the nightly jobs read before their    *)
(* writes is a row that can be there, under a number of its own.           *)
THEOREM TypesInvariant == Spec => []Types
<1>. QED
  BY TypesInit, TypesStep, PTL DEF Spec
-----------------------------------------------------------------------------
(* Events.  Before it is made an event has no attendees; the id of one     *)
(* that is to be made belongs to one request; and what requests are at     *)
(* has been made.                                                          *)
Pending == {"talk", "find", "note"}
Reserved(r) == req[r].pc \in Pending /\ req[r].e # None
Made(e) == event[e].there
Target(r) ==
  /\ req[r].pc \in {"update", "respond"} => Made(req[r].e)
  /\ req[r].pc \in {"mail", "send", "mailed"} => \A row \in req[r].set : Made(row[1])
  /\ req[r].pc \in {"send", "mailed"} => Made(req[r].rows[1])

Fresh ==
  /\ \A e \in Events : ~Made(e) => ~event[e].live /\ \A u \in Users : seat[e][u] = NoSeat
  /\ \A r \in Requests : Reserved(r) =>
       /\ ~Made(req[r].e)
       /\ \A o \in Requests \ {r} : Reserved(o) => req[o].e # req[r].e
  /\ \A r \in Requests : Target(r)

\* The others stay at what they were at.
LEMMA OthersAt ==
  ASSUME NEW r \in Requests, Begins(r) \/ Goes(r), NEW o \in Requests \ {r}
  PROVE  /\ req'[o].pc = req[o].pc /\ req'[o].e = req[o].e /\ req'[o].set = req[o].set
         /\ req'[o].rows = req[o].rows /\ req'[o].n = req[o].n /\ req'[o].by = req[o].by
         /\ req'[o].x = req[o].x /\ req'[o].tell = req[o].tell /\ req'[o].also = req[o].also
BY DEF Begins, Goes, Keeps, Fields

LEMMA TargetTypes ==
  ASSUME Types, NEW r \in Requests
  PROVE  /\ Reserved(r) => req[r].e \in Events
         /\ req[r].pc \in {"update", "respond"} => req[r].e \in Events
         /\ req[r].pc \in {"mail", "send", "mailed"} => \A row \in req[r].set : row[1] \in Events
         /\ req[r].pc \in {"send", "mailed"} => req[r].rows[1] \in Events
<1>. Typed(req[r], now)
  BY DEF Types
<1>1. Reserved(r) => req[r].e \in Events
  BY DEF Typed, TalkTyped, NoteTyped, Reserved, Pending
<1>2. req[r].pc \in {"update", "respond"} => req[r].e \in Events
  BY DEF Typed, PlanTyped
<1>3. /\ req[r].pc \in {"mail", "send", "mailed"} => \A row \in req[r].set : row[1] \in Events
      /\ req[r].pc \in {"send", "mailed"} => req[r].rows[1] \in Events
  BY DEF Typed, JobTyped, MailRows
<1>. QED
  BY <1>1, <1>2, <1>3

\* Nothing is made, no seat changes.
LEMMA FreshQuiet ==
  ASSUME Types, Fresh, NEW r \in Requests, Begins(r) \/ Goes(r), UNCHANGED seat,
         \A e \in Events : Made(e)' = Made(e) /\ (event'[e].live => event[e].live),
         Reserved(r)' => \/ Reserved(r) /\ req'[r].e = req[r].e
                         \/ req'[r].e \in Events /\ Free(req'[r].e),
         Target(r)'
  PROVE  Fresh'
<1>1. \A o \in Requests \ {r} : Reserved(o)' = Reserved(o) /\ req'[o].e = req[o].e
  BY OthersAt DEF Reserved
<1>2. \A o \in Requests \ {r} : Target(o)'
  BY OthersAt, TargetTypes DEF Fresh, Target
<1>3. \A o \in Requests : Reserved(o) => Open(o) /\ req[o].e \in Events
  BY TargetTypes DEF Reserved, Pending, Open
<1>4. \A e \in Events : ~Made(e)' => ~event'[e].live /\ \A u \in Users : seat'[e][u] = NoSeat
  BY DEF Fresh
<1>5. ASSUME NEW o \in Requests, Reserved(o)' PROVE ~Made(req[o].e)'
  BY <1>1, <1>3, <1>5 DEF Fresh, Free, Made
<1>6. ASSUME NEW o \in Requests, NEW p \in Requests \ {o}, Reserved(o)', Reserved(p)'
      PROVE  req'[p].e # req'[o].e
  BY <1>1, <1>3, <1>6 DEF Fresh, Free
<1>. QED
  BY <1>2, <1>4, <1>5, <1>6 DEF Fresh

\* An event is made.
LEMMA FreshMade ==
  ASSUME Types, Fresh, NEW r \in Requests, Begins(r) \/ Goes(r), NEW e \in Events,
         \A f \in Events \ {e} : event'[f] = event[f] /\ seat'[f] = seat[f], Made(e)',
         (Begins(r) /\ Free(e)) \/ (Reserved(r) /\ req[r].e = e),
         req'[r].pc \in {"idle", "tell"}
  PROVE  Fresh'
<1>1. \A o \in Requests \ {r} : Reserved(o)' = Reserved(o) /\ req'[o].e = req[o].e
  BY OthersAt DEF Reserved
<1>2. \A o \in Requests : ~(o = r) => (Reserved(o) => req[o].e \in Events \ {e})
  BY TargetTypes DEF Fresh, Free, Reserved, Open, Pending
<1>3. \A f \in Events : Made(f) => Made(f)'
  BY DEF Made
<1>4. \A o \in Requests \ {r} : Target(o)'
  BY <1>3, OthersAt, TargetTypes DEF Fresh, Target
<1>5. Target(r)' /\ ~Reserved(r)'
  BY DEF Target, Reserved, Pending
<1>6. \A f \in Events : ~Made(f)' => ~event'[f].live /\ \A u \in Users : seat'[f][u] = NoSeat
  BY DEF Fresh, Made
<1>7. ASSUME NEW o \in Requests, Reserved(o)' PROVE ~Made(req[o].e)'
  BY <1>1, <1>2, <1>5, <1>7 DEF Fresh, Made
<1>8. ASSUME NEW o \in Requests, NEW p \in Requests \ {o}, Reserved(o)', Reserved(p)'
      PROVE  req'[p].e # req'[o].e
  BY <1>1, <1>5, <1>8 DEF Fresh
<1>. QED
  BY <1>4, <1>5, <1>6, <1>7, <1>8 DEF Fresh

\* Seats of an event change.
LEMMA FreshSeats ==
  ASSUME Types, Fresh, NEW r \in Requests, Goes(r), NEW e \in Events, Made(e), Made(e)',
         \A f \in Events \ {e} : event'[f] = event[f] /\ seat'[f] = seat[f],
         Target(r)', req'[r].pc \notin Pending
  PROVE  Fresh'
<1>1. \A o \in Requests \ {r} : Reserved(o)' = Reserved(o) /\ req'[o].e = req[o].e
  BY OthersAt DEF Reserved
<1>2. \A o \in Requests : Reserved(o) => req[o].e \in Events \ {e}
  BY TargetTypes DEF Fresh
<1>3. \A f \in Events : Made(f) => Made(f)'
  BY DEF Made
<1>4. \A o \in Requests \ {r} : Target(o)'
  BY <1>3, OthersAt, TargetTypes DEF Fresh, Target
<1>6. \A f \in Events : ~Made(f)' => ~event'[f].live /\ \A u \in Users : seat'[f][u] = NoSeat
  BY DEF Fresh, Made
<1>7. ASSUME NEW o \in Requests, Reserved(o)' PROVE ~Made(req[o].e)'
  BY <1>1, <1>2, <1>7 DEF Fresh, Made, Reserved
<1>8. ASSUME NEW o \in Requests, NEW p \in Requests \ {o}, Reserved(o)', Reserved(p)'
      PROVE  req'[p].e # req'[o].e
  BY <1>1, <1>8 DEF Fresh, Reserved
<1>. QED
  BY <1>4, <1>6, <1>7, <1>8 DEF Fresh

LEMMA TypesNow ==
  ASSUME Types
  PROVE  /\ Shape /\ Numbers /\ now \in Nat /\ offer \in Offers
         /\ event \in [Events -> EventRecords] /\ seat \in [Events -> [Users -> SeatRecords]]
         /\ \A r \in Requests : Typed(req[r], now)
BY DEF Types, StateTypes

LEMMA MoreTypes ==
  ASSUME Types
  PROVE  /\ offer.by \subseteq Users /\ offer.asks \subseteq SUBSET Users
         /\ offer.meets \subseteq Contacts
         /\ note \in [Notes -> NoteRecords] /\ contact \in [Contacts -> ContactRecords]
         /\ \A c \in Contacts : contact[c] \in ContactRecords /\ contact[c].last <= now
         /\ NoticesMade /\ LettersMade
         /\ \A e \in Events : event[e] \in EventRecords
         /\ \A e \in Events, u \in Users : seat[e][u] \in SeatRecords
         /\ \A r \in Requests : Open(r) => req[r].n \in Nat
BY OfferTypes DEF Types, StateTypes, Numbers

LEMMA FreshOpens ==
  ASSUME Types, Fresh, NEW r \in Requests, Opens(r)
  PROVE  Fresh'
<1>0. Shape /\ Begins(r) /\ event \in [Events -> EventRecords]
      /\ seat \in [Events -> [Users -> SeatRecords]]
  BY Opening, TypesNow
<1>n. NoEvent.there = FALSE
  BY DEF NoEvent
<1>1. ASSUME NEW u, NEW e \in Events, NEW us, NEW day, Create(r, u, e, us, day) PROVE Fresh'
  <2>1. Free(e) /\ event' = [event EXCEPT ![e] = [there |-> TRUE, live |-> TRUE, by |-> u,
                                                 day |-> day, of |-> None]]
        /\ seat' = [seat EXCEPT ![e] = NewSeats(begun + 1, u, us)]
    BY <1>1 DEF Create
  <2>2. req'[r].pc \in {"idle", "tell"}
    BY <1>0, <1>1, CreateTurn
  <2>3. Made(e)' /\ \A f \in Events \ {e} : event'[f] = event[f] /\ seat'[f] = seat[f]
    BY <1>0, <2>1 DEF Made
  <2>. QED
    <3>1. Begins(r) \/ Goes(r)
      BY <1>0
    <3>2. (Begins(r) /\ Free(e)) \/ (Reserved(r) /\ req[r].e = e)
      BY <1>0, <2>1
    <3>. QED
      BY <2>2, <2>3, <3>1, <3>2, FreshMade
<1>2. ASSUME NEW u, NEW x, NEW e \in Events, CreateNote(r, u, x, e) PROVE Fresh'
  <2>1. req'[r].pc = "idle"
    BY <1>0, <1>2, CreateNoteTurn
  <2>2. CASE UNCHANGED plans
    BY <1>0, <2>1, <2>2, FreshQuiet DEF plans, Made, Target, Reserved, Pending
  <2>3. CASE NoteEvent(e, u, x, begun + 1)
    <3>1. Made(e)' /\ \A f \in Events \ {e} : event'[f] = event[f] /\ seat'[f] = seat[f]
      BY <1>0, <2>3 DEF NoteEvent, Made
    <3>2. Free(e)
      BY <1>2 DEF CreateNote
    <3>. QED
      <4>1. Begins(r) \/ Goes(r)
        BY <1>0
      <4>2. (Begins(r) /\ Free(e)) \/ (Reserved(r) /\ req[r].e = e)
        BY <1>0, <3>2
      <4>. QED
        BY <2>1, <3>1, <4>1, <4>2, FreshMade
  <2>. QED
    BY <1>2, <2>2, <2>3 DEF CreateNote
<1>3. ASSUME NEW e \in Events, Remove(r, e) PROVE Fresh'
  <2>1. req'[r].pc = "idle" /\ UNCHANGED seat
    BY <1>0, <1>3, RemoveTurn
  <2>2. event' = [event EXCEPT ![e].live = FALSE]
    BY <1>3 DEF Remove
  <2>3. \A f \in Events : Made(f)' = Made(f) /\ (event'[f].live => event[f].live)
    BY <1>0, <2>2, MoreTypes DEF Made, EventRecords
  <2>. QED
    BY <1>0, <2>1, <2>3, FreshQuiet DEF Target, Reserved, Pending
<1>4. ASSUME UNCHANGED plans, req'[r].pc \notin Pending, Target(r)' PROVE Fresh'
  BY <1>0, <1>4, FreshQuiet DEF plans, Made, Reserved
<1>5. ASSUME NEW u, NEW t, NEW c, NEW day, NEW e \in Events, NEW us,
             BeginTalk(r, u, t, c, day, e, us)
      PROVE  Fresh'
  <2>1. req'[r].pc = "talk" /\ req'[r].e = e /\ UNCHANGED plans
    BY <1>0, <1>5, BeginTalkTurn
  <2>2. e # None => Free(e)
    BY <1>5 DEF BeginTalk
  <2>. QED
    BY <1>0, <2>1, <2>2, FreshQuiet DEF plans, Made, Target, Reserved
<1>6. ASSUME NEW u, NEW t, NEW c, NEW day, BeginTalk(r, u, t, c, day, None, {}) PROVE Fresh'
  <2>1. req'[r].pc = "talk" /\ req'[r].e = None /\ UNCHANGED plans
    BY <1>0, <1>6, BeginTalkTurn
  <2>. QED
    BY <1>0, <2>1, FreshQuiet DEF plans, Made, Target, Reserved
<1>7. ASSUME NEW u, NEW x, NEW e \in Events, NEW on, NEW also, BeginNote(r, u, x, e, on, also)
      PROVE  Fresh'
  <2>1. req'[r].pc = "find" /\ req'[r].e = e /\ UNCHANGED plans
    BY <1>0, <1>7, BeginNoteTurn
  <2>2. Free(e)
    BY <1>7 DEF BeginNote
  <2>. QED
    BY <1>0, <2>1, <2>2, FreshQuiet DEF plans, Made, Target, Reserved
<1>8. ASSUME NEW u, NEW e \in Events, NEW us, NEW day, NEW also,
             BeginUpdate(r, u, e, us, day, also)
      PROVE  Fresh'
  <2>1. req'[r].pc = "update" /\ req'[r].e = e /\ UNCHANGED plans
    BY <1>0, <1>8, BeginUpdateTurn
  <2>2. Made(e)
    BY <1>8 DEF BeginUpdate, Fresh
  <2>. QED
    BY <1>4, <2>1, <2>2 DEF Pending, Target, Made, plans
<1>9. ASSUME NEW u, NEW e \in Events, NEW status, BeginRespond(r, u, e, status) PROVE Fresh'
  <2>1. req'[r].pc = "respond" /\ req'[r].e = e /\ UNCHANGED plans
    BY <1>0, <1>9, BeginRespondTurn
  <2>2. Made(e)
    BY <1>9 DEF BeginRespond, Fresh
  <2>. QED
    BY <1>4, <2>1, <2>2 DEF Pending, Target, Made, plans
<1>10. ASSUME BeginMail(r) PROVE Fresh'
  <2>1. req'[r].pc = "mail" /\ UNCHANGED plans
        /\ req'[r].set = {<<at[1], at[2], seat[at[1]][at[2]].made, Others(at[1], at[2])>> :
                            at \in {at \in Events \X Users : Unmailed(at[1], at[2])}}
    BY <1>0, <1>10, BeginMailTurn
  <2>2. ASSUME NEW at \in Events \X Users, Unmailed(at[1], at[2]) PROVE Made(at[1])
    BY <2>2 DEF Unmailed, Accepted, Fresh
  <2>3. \A row \in req'[r].set : Made(row[1])
    BY <2>1, <2>2
  <2>. QED
    BY <1>4, <2>1, <2>3 DEF Pending, Target, Made, plans
<1>11. ASSUME req'[r].pc \in {"grant", "remove note", "digest", "alert", "idle", "write", "mark"},
              UNCHANGED plans
       PROVE  Fresh'
  BY <1>4, <1>11 DEF Target, Pending
<1>12. ASSUME NEW u, NEW us, BeginGrants(r, u, us) PROVE Fresh'
  BY <1>0, <1>11, <1>12, BeginGrantsTurn
<1>13. ASSUME NEW t, CloseTalk(r, t) PROVE Fresh'
  BY <1>0, <1>11, <1>13, CloseTalkTurn
<1>14. ASSUME NEW c, NEW day, SetContact(r, c, day) PROVE Fresh'
  BY <1>0, <1>11, <1>14, SetContactTurn
<1>15. ASSUME NEW x, BeginRemoveNote(r, x) PROVE Fresh'
  BY <1>0, <1>11, <1>15, BeginRemoveNoteTurn
<1>16. ASSUME BeginDigest(r) \/ BeginCheck(r) PROVE Fresh'
  BY <1>0, <1>11, <1>16, BeginDigestTurn, BeginCheckTurn
<1>17. ASSUME NEW u, NEW to, NEW cc, NEW report, BeginWrite(r, u, to, cc, report) PROVE Fresh'
  BY <1>0, <1>11, <1>17, BeginWriteTurn
<1>18. ASSUME NEW u, NEW flag, NEW on, NEW box, BeginMark(r, u, flag, on, box) PROVE Fresh'
  BY <1>0, <1>11, <1>18, BeginMarkTurn
<1>. QED
  BY <1>1, <1>2, <1>3, <1>5, <1>6, <1>7, <1>8, <1>9, <1>10, <1>12, <1>13, <1>14, <1>15, <1>16,
     <1>17, <1>18 DEF Opens, BeginAgenda

LEMMA FreshWorks ==
  ASSUME Types, Fresh, NEW r \in Requests, Works(r)
  PROVE  Fresh'
<1>0. Shape /\ Goes(r) /\ event \in [Events -> EventRecords]
      /\ seat \in [Events -> [Users -> SeatRecords]]
  BY Working, TypesNow
<1>1. ASSUME NEW e \in Events, Made(e)',
             \A f \in Events \ {e} : event'[f] = event[f] /\ seat'[f] = seat[f],
             Reserved(r), req[r].e = e, req'[r].pc \in {"idle", "tell"}
      PROVE  Fresh'
  BY <1>0, <1>1, FreshMade
<1>2. ASSUME UNCHANGED seat, req'[r].pc \notin Pending, Target(r)',
             \A e \in Events : Made(e)' = Made(e) /\ (event'[e].live => event[e].live)
      PROVE  Fresh'
  BY <1>0, <1>2, FreshQuiet DEF Reserved
<1>3. ASSUME req'[r].pc \in {"idle", "tell", "its reminder", "digest", "insert", "alert", "stamp"},
             UNCHANGED plans
      PROVE  Fresh'
  BY <1>2, <1>3 DEF plans, Target, Pending, Made
<1>4. ASSUME NEW t, Tell(r, t) PROVE Fresh'
  BY <1>0, <1>3, <1>4, TellTurn
<1>5. CASE Update(r)
  <2>1. req[r].pc = "update" /\ req'[r].pc \in {"idle", "tell"}
    BY <1>0, <1>5, UpdateTurn
  <2>2. PICK e \in Events : e = req[r].e /\ Made(e)
    BY <2>1, TargetTypes DEF Fresh, Target
  <2>3. \/ UNCHANGED plans
        \/ \E day, seats : /\ event' = [event EXCEPT ![req[r].e].day = day]
                           /\ seat' = [seat EXCEPT ![req[r].e] = seats]
    BY <1>5 DEF Update
  <2>4. CASE UNCHANGED plans
    BY <1>3, <2>1, <2>4
  <2>5. ASSUME NEW day, NEW seats, event' = [event EXCEPT ![req[r].e].day = day],
               seat' = [seat EXCEPT ![req[r].e] = seats]
        PROVE  Fresh'
    <3>1. Made(e)'
      BY <1>0, <2>2, <2>5, MoreTypes DEF Made, EventRecords
    <3>2. \A f \in Events \ {e} : event'[f] = event[f] /\ seat'[f] = seat[f]
      BY <1>0, <2>2, <2>5
    <3>3. Target(r)' /\ req'[r].pc \notin Pending
      BY <2>1 DEF Target, Pending
    <3>. QED
      BY <1>0, <2>2, <3>1, <3>2, <3>3, FreshSeats
  <2>. QED
    BY <2>3, <2>4, <2>5
<1>6. CASE Respond(r)
  <2>1. req[r].pc = "respond" /\ req'[r].pc \in {"idle", "tell"} /\ UNCHANGED event
    BY <1>0, <1>6, RespondTurn
  <2>2. PICK e \in Events : e = req[r].e /\ Made(e) /\ Made(e)'
    BY <2>1, TargetTypes DEF Fresh, Target, Made
  <2>3. \A f \in Events \ {e} : seat'[f] = seat[f]
    BY <1>0, <1>6, <2>2 DEF Respond
  <2>4. Target(r)' /\ req'[r].pc \notin Pending
    BY <2>1 DEF Target, Pending
  <2>. QED
    BY <1>0, <2>1, <2>2, <2>3, <2>4, FreshSeats
<1>7. CASE Grant(r)
  BY <1>0, <1>3, <1>7, GrantTurn
<1>8. CASE Talk(r)
  <2>1. req[r].pc = "talk" /\ req'[r].pc \in {"idle", "tell"}
    BY <1>0, <1>8, TalkTurn
  <2>2. CASE req[r].e = None
    BY <1>3, <1>8, <2>1, <2>2 DEF Talk, Record
  <2>3. CASE req[r].e # None
    <3>1. Reserved(r)
      BY <2>1, <2>3 DEF Reserved, Pending
    <3>e. PICK e \in Events : e = req[r].e
      BY <3>1, TargetTypes
    <3>2. /\ event' = [event EXCEPT ![req[r].e] = [there |-> TRUE, live |-> TRUE,
                           by |-> req[r].by, day |-> now, of |-> req[r].x]]
          /\ seat' = [seat EXCEPT ![req[r].e] = NewSeats(req[r].n, req[r].by, req[r].set)]
      BY <1>8, <2>3 DEF Talk, Record
    <3>3. /\ Made(e)'
          /\ \A f \in Events \ {e} : event'[f] = event[f] /\ seat'[f] = seat[f]
      BY <1>0, <3>e, <3>2 DEF Made
    <3>. QED
      BY <1>1, <2>1, <3>1, <3>e, <3>3
  <2>. QED
    BY <2>2, <2>3
<1>9. CASE FindReminder(r)
  <2>1. req[r].pc = "find" /\ req'[r].pc = "note" /\ req'[r].e = req[r].e /\ UNCHANGED plans
    BY <1>0, <1>9, FindReminderTurn DEF Fields
  <2>2. Target(r)'
    BY <2>1 DEF Target
  <2>. QED
    BY <1>0, <2>1, <2>2, FreshQuiet DEF plans, Made, Reserved, Pending
<1>10. CASE SetReminder(r)
  <2>1. req[r].pc = "note" /\ req'[r].pc = "idle"
    BY <1>0, <1>10, SetReminderTurn
  <2>2. CASE UNCHANGED plans
    BY <1>3, <2>1, <2>2
  <2>3. CASE NoteEvent(req[r].e, req[r].by, req[r].x, req[r].n)
    <3>1. PICK e \in Events : e = req[r].e
      BY <2>1, TypesNow DEF Typed, NoteTyped
    <3>2. Reserved(r)
      BY <2>1, <3>1, AgendaAssumption DEF Reserved, Pending
    <3>3. /\ Made(e)'
          /\ \A f \in Events \ {e} : event'[f] = event[f] /\ seat'[f] = seat[f]
      BY <1>0, <2>3, <3>1 DEF Made, NoteEvent
    <3>. QED
      BY <1>1, <2>1, <3>1, <3>2, <3>3
  <2>4. ASSUME NEW e \in req[r].rows, NEW on, UNCHANGED seat,
               event' = [event EXCEPT ![e].live = @ /\ on, ![e].day = IF on THEN now ELSE @]
        PROVE  Fresh'
    <3>1. e \in Events
      BY <2>1, TypesNow DEF Typed, NoteTyped
    <3>2. \A f \in Events : Made(f)' = Made(f) /\ (event'[f].live => event[f].live)
      BY <1>0, <2>4, <3>1, MoreTypes DEF Made, EventRecords
    <3>3. Target(r)' /\ req'[r].pc \notin Pending
      BY <2>1 DEF Target, Pending
    <3>. QED
      BY <1>2, <2>4, <3>2, <3>3
  <2>. QED
    BY <1>10, <2>2, <2>3, <2>4 DEF SetReminder
<1>11. CASE RemoveNote(r)
  BY <1>0, <1>3, <1>11, RemoveNoteTurn
<1>12. CASE RemoveReminder(r)
  <2>1. req[r].pc = "its reminder" /\ req'[r].pc = "idle" /\ UNCHANGED seat
    BY <1>0, <1>12, RemoveReminderTurn
  <2>2. PICK e \in req[r].rows : event' = [event EXCEPT ![e].live = FALSE]
    BY <1>12 DEF RemoveReminder
  <2>3. e \in Events
    BY <2>1, TypesNow DEF Typed, NoteTyped
  <2>4. \A f \in Events : Made(f)' = Made(f) /\ (event'[f].live => event[f].live)
    BY <1>0, <2>2, <2>3, MoreTypes DEF Made, EventRecords
  <2>5. Target(r)' /\ req'[r].pc \notin Pending
    BY <2>1 DEF Target, Pending
  <2>. QED
    BY <1>2, <2>1, <2>4, <2>5
<1>13. ASSUME NEW u, Look(r, u) PROVE Fresh'
  BY <1>0, <1>3, <1>13, LookTurn
<1>14. ASSUME NEW row, Pick(r, row) PROVE Fresh'
  <2>1. /\ req[r].pc = "mail" /\ row \in req[r].set /\ req'[r].set \subseteq req[r].set
        /\ req'[r].pc = "mail" \/ (req'[r].pc = "send" /\ req'[r].rows = row)
        /\ UNCHANGED plans
    BY <1>0, <1>14, PickTurn
  <2>2. Target(r)'
    BY <2>1 DEF Fresh, Target, plans, Made
  <2>. QED
    BY <1>2, <2>1, <2>2 DEF plans, Pending, Made
<1>15. CASE Insert(r)
  BY <1>0, <1>3, <1>15, InsertTurn
<1>16. CASE Send(r) \/ StampSeat(r)
  <2>1. /\ req[r].pc \in {"send", "mailed"} /\ req'[r].pc \in {"mail", "mailed"}
        /\ req'[r].set = req[r].set /\ req'[r].rows = req[r].rows /\ UNCHANGED event
    BY <1>0, <1>16, SendTurn, StampSeatTurn DEF Fields
  <2>. DEFINE row == req[r].rows
  <2>2. row[1] \in Events /\ Made(row[1]) /\ Made(row[1])'
    BY <2>1, TargetTypes DEF Fresh, Target, Made
  <2>3. \/ UNCHANGED seat
        \/ seat' = [seat EXCEPT ![row[1]][row[2]].mails = Counting(@, Receivers(row))]
        \/ seat' = [seat EXCEPT ![row[1]][row[2]].stamped = TRUE]
        \/ seat' = [seat EXCEPT ![row[1]][row[2]].failed = @ + 1]
    BY <1>16 DEF Send, StampSeat
  <2>4. \A f \in Events \ {row[1]} : seat'[f] = seat[f]
    BY <1>0, <2>2, <2>3
  <2>5. Target(r)' /\ req'[r].pc \notin Pending
    BY <2>1 DEF Fresh, Target, Made, Pending
  <2>. QED
    BY <1>0, <2>1, <2>2, <2>4, <2>5, FreshSeats
<1>17. CASE EndJob(r) \/ Alerting(r) \/ Stamping(r)
  BY <1>0, <1>3, <1>17, EndJobTurn, AlertingTurn, StampingTurn
<1>18. ASSUME NEW m, Write(r, m) PROVE Fresh'
  BY <1>0, <1>3, <1>18, WriteTurn
<1>19. CASE MarkSeen(r)
  BY <1>0, <1>3, <1>19, MarkSeenTurn
<1>. QED
  BY <1>4, <1>5, <1>6, <1>7, <1>8, <1>9, <1>10, <1>11, <1>12, <1>13, <1>14, <1>15, <1>16,
     <1>17, <1>18, <1>19 DEF Works, StepAgenda, Alerting, Stamping

LEMMA FreshInit == Init => Fresh
<1>. SUFFICES ASSUME Init PROVE Fresh
  OBVIOUS
<1>1. PICK start \in offer.starts :
       /\ event = [e \in Events |-> IF start[e] = <<>> THEN NoEvent
            ELSE [there |-> TRUE, live |-> TRUE, by |-> start[e].by, day |-> start[e].day,
                  of |-> start[e].of]]
       /\ seat = [e \in Events |-> [u \in Users |->
            IF start[e] = <<>> \/ u \notin DOMAIN start[e].seats THEN NoSeat
            ELSE [NoSeat EXCEPT !.made = 0, !.status = start[e].seats[u]]]]
  BY DEF Init
<1>2. \A e \in Events : ~Made(e) => ~event[e].live /\ \A u \in Users : seat[e][u] = NoSeat
  <2>. SUFFICES ASSUME NEW e \in Events, ~Made(e)
                PROVE  ~event[e].live /\ \A u \in Users : seat[e][u] = NoSeat
    OBVIOUS
  <2>1. start[e] = <<>>
    BY <1>1 DEF Made
  <2>2. event[e] = NoEvent /\ \A u \in Users : seat[e][u] = NoSeat
    BY <1>1, <2>1
  <2>. QED
    BY <2>2 DEF NoEvent
<1>3. \A r \in Requests : req[r].pc = "idle"
  BY DEF Init, Idle
<1>. QED
  BY <1>2, <1>3 DEF Fresh, Reserved, Pending, Target

LEMMA FreshStep == Types /\ Fresh /\ [Next]_vars => Fresh'
<1>. SUFFICES ASSUME Types, Fresh, [Next]_vars PROVE Fresh'
  OBVIOUS
<1>1. CASE Crash \/ Tick
  <2>1. UNCHANGED plans /\ \A r \in Requests : req'[r].pc = "idle"
    BY <1>1 DEF Crash, Tick, Idle, Open
  <2>. QED
    BY <2>1 DEF Fresh, plans, Made, Reserved, Pending, Target
<1>2. CASE UNCHANGED vars
  BY <1>2 DEF vars, plans, Fresh, Made, Reserved, Target
<1>. QED
  BY <1>1, <1>2, Steps, FreshOpens, FreshWorks

LEMMA FreshInvariant == Spec => []Fresh
<1>. QED
  BY FreshInit, FreshStep, TypesInvariant, PTL DEF Spec
-----------------------------------------------------------------------------
(* What becomes of a seat in a step.                                       *)
Invite(e, u) == [kind |-> "CALENDAR_EVENT_INVITE", to |-> u, of |-> e]
Asked(r, e, u) ==     \* is asked, by r
  /\ seat[e][u] = NoSeat /\ seat'[e][u].mails = NoneYet /\ ~seat'[e][u].stamped
  /\ seat'[e][u].failed = 0
  /\ seat'[e][u].status = "PENDING"
     => req'[r].pc = "tell" /\ req'[r].n = seat'[e][u].made /\ Invite(e, u) \in req'[r].tell
Responds(r, e, u) ==
  /\ req[r].pc = "respond" /\ req[r].by = u
  /\ \E answer \in Answers : seat'[e][u] = [seat[e][u] EXCEPT !.status = answer]
Mails(r, e, u) ==
  /\ req[r].pc = "send" /\ req'[r].pc = "mailed"
  /\ req[r].rows[1] = e /\ req[r].rows[2] = u /\ Same(req[r].rows)
  /\ seat'[e][u] = [seat[e][u] EXCEPT !.mails = Counting(@, Receivers(req[r].rows))]
Stamps(r, e, u) ==
  /\ req[r].pc = "mailed"
  /\ req[r].rows[1] = e /\ req[r].rows[2] = u
  /\ seat'[e][u] \in {[seat[e][u] EXCEPT !.stamped = TRUE],
                      [seat[e][u] EXCEPT !.failed = @ + 1]}
SeatStep(r, e, u) ==
  \/ seat'[e][u] \in {seat[e][u], NoSeat}
  \/ Asked(r, e, u) \/ Responds(r, e, u) \/ Mails(r, e, u) \/ Stamps(r, e, u)

LEMMA NewSeatFacts ==
  ASSUME NEW n, NEW u, NEW by
  PROVE  /\ NewSeat(n, u, by).made = n /\ NewSeat(n, u, by).mails = NoneYet
         /\ ~NewSeat(n, u, by).stamped /\ NewSeat(n, u, by).failed = 0
         /\ NewSeat(n, u, by).status = "PENDING" => u # by
BY DEF NewSeat, NoSeat

LEMMA MadeSeats ==
  ASSUME Types, Fresh, NEW r \in Requests, NEW e \in Events, ~Made(e),
         NEW n, NEW by, NEW us, seat' = [seat EXCEPT ![e] = NewSeats(n, by, us)],
         \A u \in us : u # by => req'[r].pc = "tell" /\ req'[r].n = n
                                 /\ Invite(e, u) \in req'[r].tell
  PROVE  \A f \in Events, u \in Users : SeatStep(r, f, u)
<1>. SUFFICES ASSUME NEW f \in Events, NEW u \in Users PROVE SeatStep(r, f, u)
  OBVIOUS
<1>1. CASE f # e
  BY <1>1, TypesNow DEF SeatStep
<1>2. CASE f = e
  <2>1. seat'[e][u] = IF u \in us THEN NewSeat(n, u, by) ELSE NoSeat
    BY TypesNow DEF NewSeats
  <2>2. seat[e][u] = NoSeat
    BY DEF Fresh
  <2>3. CASE u \in us
    BY <1>2, <2>1, <2>2, <2>3, NewSeatFacts DEF SeatStep, Asked
  <2>. QED
    BY <1>2, <2>1, <2>3 DEF SeatStep
<1>. QED
  BY <1>1, <1>2

LEMMA OwnSeat ==
  ASSUME Types, Fresh, NEW r \in Requests, NEW e \in Events, ~Made(e),
         NEW n, NEW by, seat' = [seat EXCEPT ![e] = NewSeats(n, by, {by})]
  PROVE  \A f \in Events, u \in Users : SeatStep(r, f, u)
<1>. PICK us : us = {by}
  OBVIOUS
<1>1. \A u \in us : ~(u # by)
  OBVIOUS
<1>2. seat' = [seat EXCEPT ![e] = NewSeats(n, by, us)]
  OBVIOUS
<1>3. \A u \in us : u # by => req'[r].pc = "tell" /\ req'[r].n = n
                              /\ Invite(e, u) \in req'[r].tell
  BY <1>1
<1>. QED
  BY <1>2, <1>3, MadeSeats

LEMMA SeatOpens ==
  ASSUME Types, Fresh, NEW r \in Requests, Opens(r), NEW f \in Events, NEW v \in Users
  PROVE  SeatStep(r, f, v)
<1>0. Shape /\ Begins(r)
  BY Opening, TypesNow
<1>. DEFINE Quiet == SeatStep(r, f, v)
<1>. SUFFICES Quiet
  OBVIOUS
<1>1. ASSUME NEW u, NEW e \in Events, NEW us, NEW day, Create(r, u, e, us, day) PROVE Quiet
  <2>1. ~Made(e) /\ seat' = [seat EXCEPT ![e] = NewSeats(begun + 1, u, us)]
    BY <1>1 DEF Create, Free, Made
  <2>2. ASSUME NEW w \in us, w # u
        PROVE  /\ req'[r].pc = "tell" /\ req'[r].n = begun + 1
               /\ Invite(e, w) \in req'[r].tell
    <3>1. Invite(e, w) \in CreateTells(u, e, us, day)
      BY <2>2 DEF Invite, CreateTells, To
    <3>2. req'[r].pc = "tell" /\ req'[r].tell = CreateTells(u, e, us, day)
      BY <1>0, <1>1, <3>1, CreateTurn
    <3>. QED
      BY <1>0, <3>1, <3>2 DEF Begins
  <2>. QED
    BY <2>1, <2>2, MadeSeats
<1>2. ASSUME NEW u, NEW x, NEW e \in Events, CreateNote(r, u, x, e) PROVE Quiet
  <2>1. CASE UNCHANGED plans
    BY <2>1 DEF plans, SeatStep
  <2>2. CASE NoteEvent(e, u, x, begun + 1)
    <3>1. ~Made(e) /\ seat' = [seat EXCEPT ![e] = NewSeats(begun + 1, u, {u})]
      BY <1>2, <2>2 DEF CreateNote, NoteEvent, Free, Made
    <3>. QED
      BY <3>1, OwnSeat
  <2>. QED
    BY <1>2, <2>1, <2>2 DEF CreateNote
<1>3. ASSUME UNCHANGED seat PROVE Quiet
  BY <1>3 DEF SeatStep
<1>4. ASSUME NEW u, NEW e, NEW us, NEW day, NEW also, BeginUpdate(r, u, e, us, day, also)
      PROVE  UNCHANGED seat
  BY <1>0, <1>4, BeginUpdateTurn DEF plans
<1>5. ASSUME NEW u, NEW t, NEW c, NEW day, NEW e, NEW us,
             BeginTalk(r, u, t, c, day, e, us)
      PROVE  UNCHANGED seat
  BY <1>0, <1>5, BeginTalkTurn DEF plans
<1>6. ASSUME NEW u, NEW e, NEW status, BeginRespond(r, u, e, status) PROVE UNCHANGED seat
  BY <1>0, <1>6, BeginRespondTurn DEF plans
<1>7. ASSUME NEW u, NEW x, NEW e, NEW on, NEW also, BeginNote(r, u, x, e, on, also)
      PROVE  UNCHANGED seat
  BY <1>0, <1>7, BeginNoteTurn DEF plans
<1>8. ASSUME NEW e, Remove(r, e) PROVE UNCHANGED seat
  BY <1>0, <1>8, RemoveTurn
<1>9. ASSUME NEW u, NEW us, BeginGrants(r, u, us) PROVE UNCHANGED seat
  BY <1>0, <1>9, BeginGrantsTurn DEF plans
<1>10. ASSUME NEW t, CloseTalk(r, t) PROVE UNCHANGED seat
  BY <1>0, <1>10, CloseTalkTurn DEF plans
<1>11. ASSUME NEW c, NEW day, SetContact(r, c, day) PROVE UNCHANGED seat
  BY <1>0, <1>11, SetContactTurn DEF plans
<1>12. ASSUME NEW x, BeginRemoveNote(r, x) PROVE UNCHANGED seat
  BY <1>0, <1>12, BeginRemoveNoteTurn DEF plans
<1>13. ASSUME BeginDigest(r) \/ BeginMail(r) \/ BeginCheck(r) PROVE UNCHANGED seat
  BY <1>0, <1>13, BeginDigestTurn, BeginMailTurn, BeginCheckTurn DEF plans
<1>14. ASSUME NEW u, NEW to, NEW cc, NEW report, BeginWrite(r, u, to, cc, report) PROVE UNCHANGED seat
  BY <1>0, <1>14, BeginWriteTurn DEF plans
<1>15. ASSUME NEW u, NEW flag, NEW on, NEW box, BeginMark(r, u, flag, on, box)
       PROVE  UNCHANGED seat
  BY <1>0, <1>15, BeginMarkTurn DEF plans
<1>. HIDE DEF Quiet
<1>. QED
  BY <1>1, <1>2, <1>3, <1>4, <1>5, <1>6, <1>7, <1>8, <1>9, <1>10, <1>11, <1>12, <1>13, <1>14,
     <1>15 DEF Opens, BeginAgenda

LEMMA SeatWorks ==
  ASSUME Types, Fresh, NEW r \in Requests, Works(r), NEW f \in Events, NEW v \in Users
  PROVE  SeatStep(r, f, v)
<1>0. Shape /\ Goes(r) /\ seat \in [Events -> [Users -> SeatRecords]]
  BY Working, TypesNow
<1>. DEFINE Goal == SeatStep(r, f, v)
<1>. SUFFICES Goal
  OBVIOUS
<1>1. CASE UNCHANGED seat
  BY <1>1 DEF SeatStep
<1>2. CASE Update(r)
  <2>1. req[r].pc = "update"
    BY <1>0, <1>2, UpdateTurn
  <2>2. PICK e \in Events : e = req[r].e
    BY <2>1, TargetTypes
  <2>. DEFINE gone(u) == seat[e][u].made # req[r].rows[u].made
  <2>3. CASE UNCHANGED plans
    BY <1>1, <2>3 DEF plans
  <2>4. CASE ~UNCHANGED plans
    <3>1. /\ \A u \in Asks(r) : seat[e][u] = NoSeat
          /\ seat' = [seat EXCEPT ![e] = [u \in Users |->
               IF u \in Asks(r) THEN NewSeat(req[r].n, u, event[e].by)
               ELSE IF u \in Before(r) \ req[r].set /\ ~gone(u) THEN NoSeat
               ELSE @[u]]]
          /\ ThenTell(r, UpdateNotices(r, Asks(r)))
      BY <1>2, <2>2, <2>4 DEF Update, Asks
    <3>. HIDE DEF gone
    <3>2. CASE f # e
      BY <1>0, <2>2, <3>1, <3>2 DEF SeatStep
    <3>3. CASE f = e /\ v \notin Asks(r)
      BY <1>0, <2>2, <3>1, <3>3 DEF SeatStep
    <3>4. CASE f = e /\ v \in Asks(r)
      <4>1. seat[e][v] = NoSeat /\ seat'[e][v] = NewSeat(req[r].n, v, event[e].by)
        BY <1>0, <2>2, <3>1, <3>4
      <4>2. ASSUME v # event[e].by
            PROVE  /\ req'[r].pc = "tell" /\ req'[r].n = req[r].n
                   /\ Invite(e, v) \in req'[r].tell
        <5>1. Invite(e, v) \in UpdateNotices(r, Asks(r))
          BY <2>2, <3>4, <4>2 DEF Invite, UpdateNotices, To
        <5>2. req'[r].pc = "tell" /\ req'[r].tell = UpdateNotices(r, Asks(r))
          BY <1>0, <1>2, <2>4, <5>1, UpdateTurn
        <5>. QED
          BY <1>0, <5>1, <5>2 DEF Goes
      <4>. QED
        BY <3>4, <4>1, <4>2, NewSeatFacts DEF SeatStep, Asked
    <3>. QED
      BY <3>2, <3>3, <3>4
  <2>. QED
    BY <2>3, <2>4
<1>3. CASE Respond(r)
  <2>1. req[r].pc = "respond"
    BY <1>0, <1>3, RespondTurn
  <2>2. PICK e \in Events, u \in Users : e = req[r].e /\ u = req[r].by
    BY <2>1, TypesNow DEF Typed, PlanTyped
  <2>3. PICK answer \in Answers : answer = CHOOSE s \in req[r].set : TRUE
    BY <2>1, TypesNow DEF Typed, PlanTyped
  <2>4. UNCHANGED seat \/ seat' = [seat EXCEPT ![e][u].status = answer]
    BY <1>3, <2>2, <2>3 DEF Respond
  <2>5. CASE seat' = [seat EXCEPT ![e][u].status = answer]
    <3>1. CASE f = e /\ v = u
      BY <1>0, <2>1, <2>2, <2>5, <3>1 DEF SeatStep, Responds
    <3>2. CASE ~(f = e /\ v = u)
      BY <1>0, <2>5, <3>2 DEF SeatStep
    <3>. QED
      BY <3>1, <3>2
  <2>. QED
    BY <1>1, <2>4, <2>5
<1>4. CASE Talk(r)
  <2>1. req[r].pc = "talk"
    BY <1>0, <1>4, TalkTurn
  <2>2. CASE req[r].e = None
    BY <1>1, <1>4, <2>2 DEF Talk, Record, plans
  <2>3. CASE req[r].e # None
    <3>1. PICK e \in Events : e = req[r].e /\ ~Made(e)
      BY <2>1, <2>3, TargetTypes DEF Fresh, Reserved, Pending
    <3>2. seat' = [seat EXCEPT ![e] = NewSeats(req[r].n, req[r].by, req[r].set)]
      BY <1>4, <2>3, <3>1 DEF Talk, Record
    <3>3. ASSUME NEW w \in req[r].set, w # req[r].by
          PROVE  /\ req'[r].pc = "tell" /\ req'[r].n = req[r].n
                 /\ Invite(e, w) \in req'[r].tell
      <4>1. Invite(e, w) \in Invitations(r)
        BY <2>3, <3>1, <3>3 DEF Invite, Invitations, To
      <4>2. req'[r].pc = "tell" /\ req'[r].tell = Invitations(r)
        BY <1>0, <1>4, <4>1, TalkTurn
      <4>. QED
        BY <1>0, <4>1, <4>2 DEF Goes
    <3>4. PICK n, by, us : n = req[r].n /\ by = req[r].by /\ us = req[r].set
      OBVIOUS
    <3>. QED
      BY <3>1, <3>2, <3>3, <3>4, MadeSeats
  <2>. QED
    BY <2>2, <2>3
<1>5. CASE SetReminder(r)
  <2>1. req[r].pc = "note"
    BY <1>0, <1>5, SetReminderTurn
  <2>2. CASE NoteEvent(req[r].e, req[r].by, req[r].x, req[r].n)
    <3>1. PICK e \in Events : e = req[r].e
      BY <2>1, TypesNow DEF Typed, NoteTyped
    <3>2. ~Made(e)
      BY <2>1, <3>1, AgendaAssumption DEF Fresh, Reserved, Pending
    <3>3. PICK n, by : n = req[r].n /\ by = req[r].by
      OBVIOUS
    <3>4. seat' = [seat EXCEPT ![e] = NewSeats(n, by, {by})]
      BY <2>2, <3>1, <3>3 DEF NoteEvent
    <3>. QED
      BY <3>2, <3>4, OwnSeat
  <2>3. UNCHANGED seat \/ NoteEvent(req[r].e, req[r].by, req[r].x, req[r].n)
    BY <1>5 DEF SetReminder, plans
  <2>. QED
    BY <1>1, <2>2, <2>3
<1>6. CASE Send(r) \/ StampSeat(r)
  <2>1. req[r].pc \in {"send", "mailed"}
    BY <1>0, <1>6, SendTurn, StampSeatTurn
  <2>2. PICK e \in Events, u \in Users : e = req[r].rows[1] /\ u = req[r].rows[2]
    BY <2>1, TypesNow DEF Typed, JobTyped, MailRows
  <2>. DEFINE counts == Counting(seat[e][u].mails, Receivers(req[r].rows))
  <2>3. \/ UNCHANGED seat
        \/ /\ req[r].pc = "send" /\ req' = [req EXCEPT ![r].pc = "mailed"] /\ Same(req[r].rows)
           /\ seat' = [seat EXCEPT ![e] = [seat[e] EXCEPT ![u] =
                                             [seat[e][u] EXCEPT !.mails = counts]]]
        \/ /\ req[r].pc = "mailed"
           /\ \/ seat' = [seat EXCEPT ![e][u].stamped = TRUE]
              \/ seat' = [seat EXCEPT ![e][u].failed = @ + 1]
    BY <1>6, <2>2 DEF Send, StampSeat
  <2>4. CASE req[r].pc = "send" /\ req' = [req EXCEPT ![r].pc = "mailed"] /\ Same(req[r].rows)
             /\ seat' = [seat EXCEPT ![e] = [seat[e] EXCEPT ![u] =
                                               [seat[e][u] EXCEPT !.mails = counts]]]
    <3>. HIDE DEF counts
    <3>1. CASE f = e /\ v = u
      <4>1. seat'[e][u] = [seat[e][u] EXCEPT !.mails = counts]
        BY <1>0, <2>4
      <4>2. req'[r].pc = "mailed"
        BY <1>0, <2>4 DEF Shape, Fields
      <4>3. Mails(r, e, u)
        BY <2>2, <2>4, <4>1, <4>2 DEF Mails, counts
      <4>. QED
        BY <3>1, <4>3 DEF SeatStep
    <3>2. CASE ~(f = e /\ v = u)
      BY <1>0, <2>4, <3>2 DEF SeatStep
    <3>. QED
      BY <3>1, <3>2
  <2>5. CASE /\ req[r].pc = "mailed"
             /\ \/ seat' = [seat EXCEPT ![e][u].stamped = TRUE]
                \/ seat' = [seat EXCEPT ![e][u].failed = @ + 1]
    <3>1. CASE f = e /\ v = u
      <4>1. seat'[e][u] \in {[seat[e][u] EXCEPT !.stamped = TRUE],
                             [seat[e][u] EXCEPT !.failed = @ + 1]}
        BY <1>0, <2>5
      <4>. QED
        BY <2>2, <2>5, <3>1, <4>1 DEF SeatStep, Stamps
    <3>2. CASE ~(f = e /\ v = u)
      BY <1>0, <2>5, <3>2 DEF SeatStep
    <3>. QED
      BY <3>1, <3>2
  <2>. QED
    BY <1>1, <2>3, <2>4, <2>5
<1>7. ASSUME NEW t, Tell(r, t) PROVE UNCHANGED seat
  BY <1>0, <1>7, TellTurn DEF plans
<1>8. ASSUME NEW u, Look(r, u) PROVE UNCHANGED seat
  BY <1>0, <1>8, LookTurn DEF plans
<1>9. ASSUME NEW row, Pick(r, row) PROVE UNCHANGED seat
  BY <1>0, <1>9, PickTurn DEF plans
<1>10. ASSUME Grant(r) \/ FindReminder(r) \/ RemoveNote(r) \/ RemoveReminder(r)
       PROVE  UNCHANGED seat
  BY <1>0, <1>10, GrantTurn, FindReminderTurn, RemoveNoteTurn, RemoveReminderTurn DEF plans
<1>11. ASSUME Insert(r) \/ EndJob(r) \/ Alerting(r) \/ Stamping(r) \/ MarkSeen(r)
       PROVE  UNCHANGED seat
  BY <1>0, <1>11, InsertTurn, EndJobTurn, AlertingTurn, StampingTurn, MarkSeenTurn DEF plans
<1>12. ASSUME NEW m, Write(r, m) PROVE UNCHANGED seat
  BY <1>0, <1>12, WriteTurn DEF plans
<1>. HIDE DEF Goal
<1>. QED
  BY <1>1, <1>2, <1>3, <1>4, <1>5, <1>6, <1>7, <1>8, <1>9, <1>10, <1>11, <1>12
     DEF Works, StepAgenda, Alerting, Stamping

\* Without a request's step no seat changes.
LEMMA SeatSteps ==
  ASSUME Types, Fresh, [Next]_vars, NEW e \in Events, NEW u \in Users
  PROVE  UNCHANGED seat \/ \E r \in Requests : SeatStep(r, e, u) /\ (Opens(r) \/ Works(r))
<1>1. Crash \/ Tick \/ UNCHANGED vars => UNCHANGED seat
  BY DEF Crash, Tick, vars, plans
<1>. QED
  BY <1>1, Steps, SeatOpens, SeatWorks

(* CalendarEventsService.update removes who is no longer asked and adds    *)
(* who is new, by the rows it has read: the answer of an attendee who      *)
(* stays changes in his own respond alone, whatever runs beside it.        *)
THEOREM OthersKeepAnswers == Spec => AnswersKept
<1>1. ASSUME Types, Fresh, [Next]_vars, NEW e \in Events, NEW u \in Users,
             seat[e][u].status \in Answers, seat'[e][u] # NoSeat
      PROVE  \/ seat'[e][u].status = seat[e][u].status
             \/ \E r \in Requests : req[r].pc = "respond" /\ req[r].by = u
  <2>1. seat[e][u] # NoSeat /\ seat[e][u] \in SeatRecords
    BY <1>1, MoreTypes DEF NoSeat, Answers, None
  <2>2. CASE UNCHANGED seat
    BY <2>2
  <2>3. ASSUME NEW r \in Requests, SeatStep(r, e, u)
        PROVE  \/ seat'[e][u].status = seat[e][u].status
               \/ req[r].pc = "respond" /\ req[r].by = u
    BY <1>1, <2>1, <2>3 DEF SeatStep, Asked, Responds, Mails, Stamps, SeatRecords
  <2>. QED
    BY <1>1, <2>2, <2>3, SeatSteps
<1>2. Types /\ Fresh /\ [Next]_vars =>
        [\A e \in Events, u \in Users :
           /\ seat[e][u].status \in Answers
           /\ seat'[e][u] # NoSeat
           => \/ seat'[e][u].status = seat[e][u].status
              \/ \E r \in Requests : req[r].pc = "respond" /\ req[r].by = u]_vars
  BY <1>1
<1>. QED
  BY <1>2, TypesInvariant, FreshInvariant, PTL DEF Spec, AnswersKept
-----------------------------------------------------------------------------
(* Messages.  What a request marks was there before it began.              *)
MarksSeen == \A r \in Requests : req[r].pc = "mark" =>
               \A m \in req[r].rows : letter[m].there /\ letter[m].made < req[r].n

LEMMA AgendaKeepsMail ==
  ASSUME Shape, NEW r \in Requests, BeginAgenda(r) \/ StepAgenda(r)
  PROVE  UNCHANGED mail /\ req'[r].pc # "mark"
<1>. DEFINE Goal == UNCHANGED mail /\ req'[r].pc # "mark"
<1>. SUFFICES Goal
  OBVIOUS
<1>1. CASE BeginAgenda(r)
  <2>1. ASSUME NEW u, NEW e, NEW us, NEW day, Create(r, u, e, us, day) PROVE Goal
    BY <2>1, CreateTurn
  <2>2. ASSUME NEW u, NEW t, NEW c, NEW day, NEW e, NEW us,
             BeginTalk(r, u, t, c, day, e, us) PROVE Goal
    BY <2>2, BeginTalkTurn
  <2>3. ASSUME NEW u, NEW e, NEW us, NEW day, NEW also, BeginUpdate(r, u, e, us, day, also)
        PROVE  Goal
    BY <2>3, BeginUpdateTurn
  <2>4. ASSUME NEW u, NEW x, NEW e, NEW on, NEW also, BeginNote(r, u, x, e, on, also)
        PROVE  Goal
    BY <2>4, BeginNoteTurn
  <2>5. CASE BeginDigest(r) \/ BeginMail(r) \/ BeginCheck(r)
    BY <2>5, BeginDigestTurn, BeginMailTurn, BeginCheckTurn
  <2>6. ASSUME NEW x, NEW c, CloseTalk(r, x) \/ SetContact(r, c, x) \/ Remove(r, x) \/ BeginRemoveNote(r, x)
        PROVE  Goal
    BY <2>6, CloseTalkTurn, SetContactTurn, RemoveTurn, BeginRemoveNoteTurn
  <2>7. ASSUME NEW u, NEW e, NEW x, BeginRespond(r, u, e, x) \/ CreateNote(r, u, x, e) PROVE Goal
    BY <2>7, BeginRespondTurn, CreateNoteTurn
  <2>8. ASSUME NEW u, NEW us, BeginGrants(r, u, us) PROVE Goal
    BY <2>8, BeginGrantsTurn
  <2>. HIDE DEF Goal
  <2>. QED
    BY <1>1, <2>1, <2>2, <2>3, <2>4, <2>5, <2>6, <2>7, <2>8 DEF BeginAgenda
<1>2. CASE StepAgenda(r)
  <2>1. ASSUME NEW t, Tell(r, t) PROVE Goal
    BY <2>1, TellTurn
  <2>2. ASSUME NEW u, Look(r, u) PROVE Goal
    BY <2>2, LookTurn
  <2>3. ASSUME NEW row, Pick(r, row) PROVE Goal
    BY <2>3, PickTurn
  <2>4. CASE Update(r) \/ Respond(r) \/ Grant(r) \/ Talk(r)
    BY <2>4, UpdateTurn, RespondTurn, GrantTurn, TalkTurn
  <2>5. CASE FindReminder(r) \/ SetReminder(r) \/ RemoveNote(r) \/ RemoveReminder(r)
    BY <2>5, FindReminderTurn, SetReminderTurn, RemoveNoteTurn, RemoveReminderTurn
  <2>6. CASE Insert(r) \/ Send(r) \/ StampSeat(r) \/ EndJob(r) \/ Alerting(r) \/ Stamping(r)
    BY <2>6, InsertTurn, SendTurn, StampSeatTurn, EndJobTurn, AlertingTurn, StampingTurn
  <2>. HIDE DEF Goal
  <2>. QED
    BY <1>2, <2>1, <2>2, <2>3, <2>4, <2>5, <2>6 DEF StepAgenda, Alerting, Stamping
<1>. QED
  BY <1>1, <1>2

\* A step's effect on the messages and their marks.
LEMMA MailSteps ==
  ASSUME Types, [Next]_vars
  PROVE  \/ UNCHANGED mail /\ \A r \in Requests : req'[r].pc = "mark" =>
                                 /\ req[r].pc = "mark" /\ req'[r].rows = req[r].rows
                                  /\ req'[r].n = req[r].n
         \/ \E r \in Requests, u \in Users :
              /\ UNCHANGED mail /\ Begins(r) /\ req'[r].rows = Visible(u)
         \/ \E r \in Requests, m \in Messages : Write(r, m)
         \/ \E r \in Requests : MarkSeen(r)
<1>0. Shape /\ offer.by \subseteq Users
  BY TypesNow, MoreTypes
<1>1. ASSUME Crash \/ Tick
      PROVE  UNCHANGED mail /\ \A r \in Requests : req'[r].pc # "mark"
  BY <1>1 DEF Crash, Tick, mail, Idle, Open
<1>2. CASE UNCHANGED vars
  BY <1>2 DEF vars
<1>3. ASSUME NEW r \in Requests, Opens(r) \/ Works(r), UNCHANGED mail, req'[r].pc # "mark",
             NEW o \in Requests, req'[o].pc = "mark"
      PROVE  req[o].pc = "mark" /\ req'[o].rows = req[o].rows /\ req'[o].n = req[o].n
  BY <1>0, <1>3, Opening, Working, OthersAt
<1>4. ASSUME NEW r \in Requests, NEW u, NEW to, NEW cc, NEW report, BeginWrite(r, u, to, cc, report)
      PROVE  UNCHANGED mail /\ req'[r].pc # "mark"
  BY <1>0, <1>4, BeginWriteTurn
<1>5. ASSUME NEW r \in Requests, NEW u \in offer.by, NEW flag, NEW on, NEW box,
             BeginMark(r, u, flag, on, box)
      PROVE  u \in Users /\ UNCHANGED mail /\ Begins(r) /\ req'[r].rows = Visible(u)
  BY <1>0, <1>5, BeginMarkTurn
<1>6. ASSUME NEW r \in Requests, Opens(r)
      PROVE  \/ UNCHANGED mail /\ req'[r].pc # "mark"
             \/ \E u \in Users : UNCHANGED mail /\ Begins(r) /\ req'[r].rows = Visible(u)
  BY <1>0, <1>4, <1>5, <1>6, AgendaKeepsMail DEF Opens
<1>7. ASSUME NEW r \in Requests, Works(r)
      PROVE  \/ UNCHANGED mail /\ req'[r].pc # "mark"
             \/ \E m \in Messages : Write(r, m)
             \/ MarkSeen(r)
  BY <1>0, <1>7, AgendaKeepsMail DEF Works
<1>8. ASSUME NEW r \in Requests, Opens(r) \/ Works(r), UNCHANGED mail, req'[r].pc # "mark"
      PROVE  \A o \in Requests : req'[o].pc = "mark" =>
                   req[o].pc = "mark" /\ req'[o].rows = req[o].rows /\ req'[o].n = req[o].n
  BY <1>3, <1>8
<1>. QED
  BY <1>1, <1>2, <1>6, <1>7, <1>8, Steps

LEMMA WriteEffect ==
  ASSUME Types, NEW r \in Requests, NEW m \in Messages, Write(r, m)
  PROVE  /\ ~letter[m].there /\ \A k \in Messages \ {m} : letter'[k] = letter[k]
         /\ UNCHANGED <<mark, star>>
BY MoreTypes DEF Write, LettersMade

LEMMA MarksStep == Types /\ MarksSeen /\ [Next]_vars => MarksSeen'
<1>. SUFFICES ASSUME Types, MarksSeen, [Next]_vars PROVE MarksSeen'
  OBVIOUS
<1>0. Shape /\ DOMAIN letter = Messages /\ begun \in Nat
      /\ \A m \in Messages : letter[m].made \in 0 .. begun
      /\ \A r \in Requests : req[r].pc = "mark" => req[r].rows \subseteq Messages
  BY TypesNow, MoreTypes DEF LettersMade, Typed, LetterTyped, Numbers
<1>1. ASSUME UNCHANGED mail, \A r \in Requests : req'[r].pc = "mark" =>
               req[r].pc = "mark" /\ req'[r].rows = req[r].rows /\ req'[r].n = req[r].n
      PROVE  MarksSeen'
  BY <1>1 DEF MarksSeen, mail
<1>2. ASSUME NEW r \in Requests, NEW u \in Users, UNCHANGED mail, Begins(r),
             req'[r].rows = Visible(u)
      PROVE  MarksSeen'
  <2>1. \A o \in Requests \ {r} : req'[o].pc = req[o].pc /\ req'[o].rows = req[o].rows
                                  /\ req'[o].n = req[o].n
    BY <1>2, OthersAt
  <2>2. req'[r].n = begun + 1 /\ \A m \in Visible(u) : m \in Messages /\ letter[m].there
    BY <1>2 DEF Begins, Visible, On
  <2>3. \A m \in Visible(u) : letter[m].made < req'[r].n
    BY <1>0, <2>2
  <2>. QED
    BY <1>2, <2>1, <2>2, <2>3 DEF MarksSeen, mail
<1>3. ASSUME NEW r \in Requests, NEW m \in Messages, Write(r, m) PROVE MarksSeen'
  <2>1. \A o \in Requests \ {r} : req'[o].pc = req[o].pc /\ req'[o].rows = req[o].rows
                                  /\ req'[o].n = req[o].n
    BY <1>0, <1>3, WriteTurn, OthersAt
  <2>2. req'[r].pc # "mark"
    BY <1>0, <1>3, WriteTurn
  <2>3. \A k \in Messages : letter[k].there => letter'[k] = letter[k]
    BY <1>3, WriteEffect
  <2>. QED
    BY <1>0, <2>1, <2>2, <2>3 DEF MarksSeen
<1>4. ASSUME NEW r \in Requests, MarkSeen(r) PROVE MarksSeen'
  <2>1. \A o \in Requests \ {r} : req'[o].pc = req[o].pc /\ req'[o].rows = req[o].rows
                                  /\ req'[o].n = req[o].n
    BY <1>0, <1>4, MarkSeenTurn, OthersAt
  <2>2. req'[r].pc # "mark" /\ UNCHANGED letter
    BY <1>0, <1>4, MarkSeenTurn
  <2>. QED
    BY <2>1, <2>2 DEF MarksSeen
<1>. QED
  BY <1>1, <1>2, <1>3, <1>4, MailSteps

(* The mailbox operations of MessagesService mark the messages they have   *)
(* read before: one that arrives meanwhile stays unread in the inbox of    *)
(* its recipient, until a later request of his own takes it out.           *)
THEOREM NewMailKept == Spec => NewMailStaysNew
<1>1. Init => MarksSeen
  <2>1. ASSUME Init PROVE \A r \in Requests : req[r].pc = "idle"
    BY <2>1 DEF Init, Idle
  <2>. QED
    BY <2>1 DEF MarksSeen
<1>2. Spec => []MarksSeen
  BY <1>1, MarksStep, TypesInvariant, PTL DEF Spec
<1>3. ASSUME Types, MarksSeen, [Next]_vars, NEW u \in Users, NEW m \in Unread(u)
      PROVE  \/ m \in Unread(u)'
             \/ \E r \in Requests :
                  req[r].pc = "mark" /\ req[r].by = u /\ req[r].n > letter[m].made
  <2>0. /\ m \in Messages /\ letter[m].there /\ On(u, m, "inbox") /\ Shape
        /\ Mark(u, m, "inbox", "gone") \notin mark /\ Mark(u, m, "inbox", "filed") \notin mark
        /\ Mark(u, m, "inbox", "read") \notin mark
    BY <1>3, TypesNow DEF Unread, Inbox, Is, On
  <2>1. ASSUME letter'[m] = letter[m], \A flag : Is(u, m, "inbox", flag)' => Is(u, m, "inbox", flag)
        PROVE  m \in Unread(u)'
    BY <2>0, <2>1 DEF Unread, Inbox, On, Is
  <2>2. CASE UNCHANGED mail
    BY <2>1, <2>2 DEF mail, Is
  <2>3. ASSUME NEW r \in Requests, NEW k \in Messages, Write(r, k) PROVE m \in Unread(u)'
    <3>1. letter'[m] = letter[m] /\ UNCHANGED mark
      BY <1>3, <2>0, <2>3, WriteEffect
    <3>. QED
      BY <2>1, <3>1 DEF Is
  <2>4. ASSUME NEW r \in Requests, MarkSeen(r)
        PROVE  \/ m \in Unread(u)'
               \/ req[r].pc = "mark" /\ req[r].by = u /\ req[r].n > letter[m].made
    <3>1. req[r].pc = "mark" /\ UNCHANGED letter
      BY <2>0, <2>4, MarkSeenTurn
    <3>2. mark' = mark \/ mark' = Changed(r, req[r].rows)
      BY <2>4 DEF MarkSeen
    <3>3. CASE req[r].by = u /\ m \in req[r].rows
      <4>1. letter[m].made < req[r].n /\ letter[m].made \in Nat /\ req[r].n \in Nat
        BY <1>3, <2>0, <3>1, <3>3, MoreTypes DEF MarksSeen, LettersMade, Open
      <4>. QED
        BY <3>1, <3>3, <4>1
    <3>4. CASE ~(req[r].by = u /\ m \in req[r].rows)
      <4>1. \A k \in Changed(r, req[r].rows) :
                k \in mark \/ (k.by = req[r].by /\ k.of \in req[r].rows)
        BY DEF Changed, Mark
      <4>2. \A flag : Mark(u, m, "inbox", flag).by = u /\ Mark(u, m, "inbox", flag).of = m
        BY DEF Mark
      <4>3. \A flag : Is(u, m, "inbox", flag)' => Is(u, m, "inbox", flag)
        BY <3>2, <3>4, <4>1, <4>2 DEF Is, Mark
      <4>. QED
        BY <2>1, <3>1, <4>3
    <3>. QED
      BY <3>3, <3>4
  <2>. QED
    BY <1>3, <2>2, <2>3, <2>4, MailSteps
<1>4. Types /\ MarksSeen /\ [Next]_vars =>
        [\A u \in Users : \A m \in Unread(u) :
           \/ m \in Unread(u)'
           \/ \E r \in Requests :
                req[r].pc = "mark" /\ req[r].by = u /\ req[r].n > letter[m].made]_vars
  BY <1>3
<1>. QED
  BY <1>2, <1>4, TypesInvariant, PTL DEF Spec, NewMailStaysNew
-----------------------------------------------------------------------------
(* Notices.  One is owed until it is sent, or its request has died.        *)
Owed(kind, u, of, n) ==
  \/ Told(kind, u, of, n)
  \/ n \in lost
  \/ \E r \in Requests : /\ req[r].pc = "tell" /\ req[r].n = n
                         /\ [kind |-> kind, to |-> u, of |-> of] \in req[r].tell

NobodyForgotten ==
  /\ \A e \in Events, u \in Users :
       seat[e][u].status = "PENDING"
       => Owed("CALENDAR_EVENT_INVITE", u, e, seat[e][u].made)
  /\ \A m \in Messages : letter[m].there /\ letter[m].report # None =>
       \A u \in letter[m].to \ {letter[m].from} :
         Owed("MEETING_REPORT_SENT", u, m, letter[m].made)

LEMMA OpensKeepNotices ==
  ASSUME Shape, NEW r \in Requests, Opens(r)
  PROVE  UNCHANGED notice
<1>1. ASSUME NEW u, NEW e, NEW us, NEW day, Create(r, u, e, us, day) PROVE UNCHANGED notice
  BY <1>1, CreateTurn
<1>2. ASSUME NEW u, NEW t, NEW c, NEW day, NEW e, NEW us,
             BeginTalk(r, u, t, c, day, e, us)
      PROVE  UNCHANGED notice
  BY <1>2, BeginTalkTurn
<1>3. ASSUME NEW u, NEW e, NEW us, NEW day, NEW also, BeginUpdate(r, u, e, us, day, also)
      PROVE  UNCHANGED notice
  BY <1>3, BeginUpdateTurn
<1>4. ASSUME NEW u, NEW x, NEW e, NEW on, NEW also, BeginNote(r, u, x, e, on, also)
      PROVE  UNCHANGED notice
  BY <1>4, BeginNoteTurn
<1>5. ASSUME BeginDigest(r) \/ BeginMail(r) \/ BeginCheck(r) PROVE UNCHANGED notice
  BY <1>5, BeginDigestTurn, BeginMailTurn, BeginCheckTurn
<1>6. ASSUME NEW x, NEW c, CloseTalk(r, x) \/ SetContact(r, c, x) \/ Remove(r, x) \/ BeginRemoveNote(r, x)
      PROVE  UNCHANGED notice
  BY <1>6, CloseTalkTurn, SetContactTurn, RemoveTurn, BeginRemoveNoteTurn
<1>7. ASSUME NEW u, NEW e, NEW x, BeginRespond(r, u, e, x) \/ CreateNote(r, u, x, e)
      PROVE  UNCHANGED notice
  BY <1>7, BeginRespondTurn, CreateNoteTurn
<1>8. ASSUME NEW u, NEW us, BeginGrants(r, u, us) PROVE UNCHANGED notice
  BY <1>8, BeginGrantsTurn
<1>9. ASSUME NEW u, NEW to, NEW cc, NEW report, BeginWrite(r, u, to, cc, report) PROVE UNCHANGED notice
  BY <1>9, BeginWriteTurn
<1>10. ASSUME NEW u, NEW flag, NEW on, NEW box, BeginMark(r, u, flag, on, box)
       PROVE  UNCHANGED notice
  BY <1>10, BeginMarkTurn
<1>. QED
  BY <1>1, <1>2, <1>3, <1>4, <1>5, <1>6, <1>7, <1>8, <1>9, <1>10 DEF Opens, BeginAgenda

LEMMA WorksNotices ==
  ASSUME Shape, NEW r \in Requests, Works(r)
  PROVE  \/ \E t \in req[r].tell : Tell(r, t)
         \/ req[r].pc # "tell" /\ notice \subseteq notice'
<1>. DEFINE Goal == req[r].pc # "tell" /\ notice \subseteq notice'
<1>2. ASSUME NEW u, Look(r, u) PROVE Goal
  BY <1>2, LookTurn
<1>3. ASSUME NEW row, Pick(r, row) PROVE Goal
  BY <1>3, PickTurn
<1>4. ASSUME Update(r) \/ Respond(r) \/ Grant(r) \/ Talk(r) PROVE Goal
  BY <1>4, UpdateTurn, RespondTurn, GrantTurn, TalkTurn
<1>5. ASSUME FindReminder(r) \/ SetReminder(r) \/ RemoveNote(r) \/ RemoveReminder(r) PROVE Goal
  BY <1>5, FindReminderTurn, SetReminderTurn, RemoveNoteTurn, RemoveReminderTurn
<1>6. ASSUME Send(r) \/ StampSeat(r) \/ EndJob(r) \/ Stamping(r) PROVE Goal
  BY <1>6, SendTurn, StampSeatTurn, EndJobTurn, StampingTurn
<1>7. ASSUME NEW m, Write(r, m) PROVE Goal
  BY <1>7, WriteTurn
<1>8. ASSUME MarkSeen(r) PROVE Goal
  BY <1>8, MarkSeenTurn
<1>9. ASSUME Insert(r) PROVE Goal
  BY <1>9 DEF Insert
<1>10. ASSUME Alerting(r) PROVE Goal
  BY <1>10 DEF Alerting, Alert, AlertFails
<1>. HIDE DEF Goal
<1>11. (\E t \in req[r].tell : Tell(r, t)) \/ Goal
  BY <1>2, <1>3, <1>4, <1>5, <1>6, <1>7, <1>8, <1>9, <1>10 DEF Works, StepAgenda, Alerting, Stamping
<1>. QED
  BY <1>11 DEF Goal

LEMMA OwedStays ==
  ASSUME Types, [Next]_vars, NEW kind, NEW u, NEW of, NEW n, Owed(kind, u, of, n)
  PROVE  Owed(kind, u, of, n)'
<1>0. Shape /\ Numbers
  BY TypesNow
<1>. DEFINE it == [kind |-> kind, to |-> u, of |-> of]
<1>1. CASE Crash
  <2>1. notice' = notice /\ lost' = lost \union {req[r].n : r \in {o \in Requests : Open(o)}}
    BY <1>1 DEF Crash
  <2>. QED
    BY <2>1 DEF Owed, Told, Open
<1>2. CASE Tick \/ UNCHANGED vars
  <2>1. UNCHANGED <<notice, lost, req>>
    BY <1>2 DEF Tick, vars
  <2>. QED
    BY <2>1 DEF Owed, Told
<1>3. ASSUME NEW r \in Requests, Begins(r) \/ Goes(r), notice \subseteq notice',
             req[r].pc # "tell"
      PROVE  Owed(kind, u, of, n)'
  <2>1. lost' = lost
    BY <1>3 DEF Begins, Goes
  <2>2. CASE Told(kind, u, of, n) \/ n \in lost
    BY <1>3, <2>1, <2>2 DEF Owed, Told
  <2>3. ASSUME NEW o \in Requests, req[o].pc = "tell", req[o].n = n, it \in req[o].tell
        PROVE  Owed(kind, u, of, n)'
    <3>1. o # r
      BY <1>3, <2>3
    <3>2. req'[o].pc = "tell" /\ req'[o].n = n /\ it \in req'[o].tell
      BY <1>3, <2>3, <3>1, OthersAt
    <3>. QED
      BY <3>2 DEF Owed
  <2>. QED
    BY <2>2, <2>3 DEF Owed
<1>4. ASSUME NEW r \in Requests, NEW t, Tell(r, t) PROVE Owed(kind, u, of, n)'
  <2>1. /\ Goes(r) /\ req[r].pc = "tell" /\ t \in req[r].tell
        /\ \/ req'[r].pc = "idle" /\ req[r].tell = {t}
           \/ req'[r].pc = "tell" /\ req'[r].tell = req[r].tell \ {t}
    BY <1>0, <1>4, TellTurn
  <2>2. notice' = notice \union {[kind |-> t.kind, to |-> t.to, of |-> t.of, n |-> req[r].n]}
    BY <1>4 DEF Tell
  <2>3. CASE Told(kind, u, of, n) \/ n \in lost
    BY <2>1, <2>2, <2>3 DEF Owed, Told, Goes
  <2>4. ASSUME NEW o \in Requests, req[o].pc = "tell", req[o].n = n, it \in req[o].tell
        PROVE  Owed(kind, u, of, n)'
    <3>1. CASE o # r
      <4>1. req'[o].pc = "tell" /\ req'[o].n = n /\ it \in req'[o].tell
        BY <2>1, <2>4, <3>1, OthersAt
      <4>. QED
        BY <4>1 DEF Owed
    <3>2. CASE o = r /\ it = t
      BY <2>2, <2>4, <3>2 DEF Owed, Told
    <3>3. CASE o = r /\ it # t
      <4>1. req'[o].pc = "tell" /\ req'[o].n = n /\ it \in req'[o].tell
        BY <2>1, <2>4, <3>3 DEF Goes
      <4>. QED
        BY <4>1 DEF Owed
    <3>. QED
      BY <3>1, <3>2, <3>3
  <2>. QED
    BY <2>3, <2>4 DEF Owed
<1>5. ASSUME NEW r \in Requests, Opens(r) PROVE Owed(kind, u, of, n)'
  <2>1. Begins(r) /\ UNCHANGED notice /\ req[r].pc # "tell"
    BY <1>0, <1>5, Opening, OpensKeepNotices DEF Begins, Open
  <2>. QED
    BY <1>3, <2>1
<1>6. ASSUME NEW r \in Requests, Works(r) PROVE Owed(kind, u, of, n)'
  <2>1. Goes(r)
    BY <1>0, <1>6, Working
  <2>. QED
    BY <1>0, <1>3, <1>4, <1>6, <2>1, WorksNotices
<1>. QED
  BY <1>1, <1>2, <1>5, <1>6, Steps

LEMMA NobodyForgottenInit == Init => NobodyForgotten
<1>. SUFFICES ASSUME Init PROVE NobodyForgotten
  OBVIOUS
<1>1. PICK start \in offer.starts :
       /\ seat = [e \in Events |-> [u \in Users |->
            IF start[e] = <<>> \/ u \notin DOMAIN start[e].seats THEN NoSeat
            ELSE [NoSeat EXCEPT !.made = 0, !.status = start[e].seats[u]]]]
  BY DEF Init
<1>2. ASSUME NEW e \in Events, NEW u \in Users, seat[e][u].status = "PENDING"
      PROVE  seat[e][u].made = 0
  <2>1. \/ seat[e][u] = NoSeat
        \/ seat[e][u] = [NoSeat EXCEPT !.made = 0, !.status = start[e].seats[u]]
    BY <1>1
  <2>2. seat[e][u] # NoSeat
    BY <1>2 DEF NoSeat, None
  <2>. QED
    BY <2>1, <2>2 DEF NoSeat
<1>3. 0 \in lost
  BY DEF Init
<1>4. \A m \in Messages : letter[m].report = None
  BY DEF Init
<1>. QED
  BY <1>2, <1>3, <1>4 DEF NobodyForgotten, Owed

LEMMA NobodyForgottenStep == Types /\ Fresh /\ NobodyForgotten /\ [Next]_vars => NobodyForgotten'
<1>. SUFFICES ASSUME Types, Fresh, NobodyForgotten, [Next]_vars PROVE NobodyForgotten'
  OBVIOUS
<1>0. Shape
  BY TypesNow
<1>1. ASSUME NEW e \in Events, NEW u \in Users, seat'[e][u].status = "PENDING"
      PROVE  Owed("CALENDAR_EVENT_INVITE", u, e, seat[e][u].made)'
  <2>. DEFINE kind == "CALENDAR_EVENT_INVITE"
  <2>1. CASE seat[e][u].status = "PENDING" /\ seat'[e][u].made = seat[e][u].made
    <3>1. PICK n : n = seat[e][u].made
      OBVIOUS
    <3>2. Owed(kind, u, e, n)
      BY <2>1, <3>1 DEF NobodyForgotten
    <3>3. Owed(kind, u, e, n)'
      BY <3>2, OwedStays
    <3>. QED
      BY <2>1, <3>1, <3>3 DEF Owed, Told
  <2>2. ASSUME NEW r \in Requests, Asked(r, e, u)
        PROVE  Owed(kind, u, e, seat[e][u].made)'
    BY <1>1, <2>2 DEF Asked, Invite, Owed
  <2>3. ASSUME NEW r \in Requests, SeatStep(r, e, u)
        PROVE  \/ seat[e][u].status = "PENDING" /\ seat'[e][u].made = seat[e][u].made
               \/ Asked(r, e, u)
    <3>1. seat'[e][u] # NoSeat /\ seat[e][u] \in SeatRecords
      BY <1>1, MoreTypes DEF NoSeat, None
    <3>2. ~Responds(r, e, u)
      BY <1>1, <3>1 DEF Responds, Answers, SeatRecords
    <3>3. CASE Mails(r, e, u) \/ Stamps(r, e, u)
      BY <1>1, <3>1, <3>3 DEF Mails, Stamps, SeatRecords
    <3>. QED
      BY <1>1, <2>3, <3>1, <3>2, <3>3 DEF SeatStep
  <2>4. CASE UNCHANGED seat
    BY <1>1, <2>1, <2>4
  <2>. QED
    BY <2>1, <2>2, <2>3, <2>4, SeatSteps
<1>2. ASSUME NEW m \in Messages, letter'[m].there, letter'[m].report # None,
             NEW u \in letter'[m].to, u # letter'[m].from
      PROVE  Owed("MEETING_REPORT_SENT", u, m, letter[m].made)'
  <2>. DEFINE kind == "MEETING_REPORT_SENT"
  <2>1. CASE letter'[m] = letter[m]
    <3>1. PICK n : n = letter[m].made
      OBVIOUS
    <3>2. Owed(kind, u, m, n)
      BY <1>2, <2>1, <3>1 DEF NobodyForgotten
    <3>3. Owed(kind, u, m, n)'
      BY <3>2, OwedStays
    <3>. QED
      BY <2>1, <3>1, <3>3 DEF Owed, Told
  <2>2. ASSUME NEW r \in Requests, NEW k \in Messages, Write(r, k)
        PROVE  Owed(kind, u, m, letter[m].made)'
    <3>1. CASE k # m
      BY <2>1, <2>2, <3>1, WriteEffect
    <3>2. CASE k = m
      <4>1. letter'[m] = [there |-> TRUE, from |-> req[r].by, to |-> req[r].set,
                          cc |-> req[r].rows, report |-> req[r].e, made |-> req[r].n]
        BY <2>2, <3>2, MoreTypes DEF Write, LettersMade
      <4>2. [kind |-> kind, to |-> u, of |-> m] \in LetterTells(r, m)
        BY <1>2, <4>1 DEF LetterTells, To
      <4>3. req'[r].pc = "tell" /\ req'[r].tell = LetterTells(r, m) /\ req'[r].n = req[r].n
        BY <1>0, <2>2, <3>2, <4>2, WriteTurn DEF Goes
      <4>. QED
        BY <4>1, <4>2, <4>3 DEF Owed
    <3>. QED
      BY <3>1, <3>2
  <2>3. ASSUME UNCHANGED mail PROVE letter'[m] = letter[m]
    BY <2>3 DEF mail
  <2>4. ASSUME NEW r \in Requests, MarkSeen(r) PROVE letter'[m] = letter[m]
    BY <1>0, <2>4, MarkSeenTurn
  <2>. QED
    BY <2>1, <2>2, <2>3, <2>4, MailSteps
<1>. QED
  BY <1>1, <1>2 DEF NobodyForgotten

(* The services send their notices after their commits, one by one: who    *)
(* is asked to an event, by create, update or an interaction's reminder,   *)
(* or is one of those a meeting's report is addressed to (not in copy),    *)
(* has his notice, unless the request that owes it still runs or has died. *)
THEOREM EveryoneIsTold == Spec => []EveryoneTold
<1>1. Spec => []NobodyForgotten
  BY NobodyForgottenInit, NobodyForgottenStep, TypesInvariant, FreshInvariant, PTL DEF Spec
<1>2. ASSUME NEW kind, NEW u, NEW of, NEW n, Owed(kind, u, of, n)
      PROVE  Told(kind, u, of, n) \/ Telling(n)
  BY <1>2 DEF Owed, Telling, Open
<1>3. NobodyForgotten => EveryoneTold
  BY <1>2 DEF NobodyForgotten, EveryoneTold, InviteesTold
<1>. QED
  BY <1>1, <1>3, PTL
-----------------------------------------------------------------------------
(* Requests that run alone.  What such a request has read is still so.     *)
UpToDate(r) ==
  /\ req[r].pc = "update" => req[r].rows = seat[req[r].e]
  /\ req[r].pc = "grant" => req[r].rows = grants[req[r].by]
  /\ req[r].pc = "talk" => req[r].was = contact[req[r].rows].last
Alone == \A r \in Requests : req[r].lone /\ Open(r) =>
           UpToDate(r) /\ \A o \in Requests \ {r} : ~Open(o)

LEMMA OpensUpToDate ==
  ASSUME Shape, NEW r \in Requests, Opens(r)
  PROVE  UpToDate(r)'
<1>. DEFINE Goal == UpToDate(r)'
<1>. SUFFICES Goal
  OBVIOUS
<1>0. ASSUME req'[r].pc \notin {"update", "grant", "talk"} PROVE Goal
  BY <1>0 DEF UpToDate
<1>1. ASSUME NEW u, NEW e, NEW us, NEW day, Create(r, u, e, us, day) PROVE Goal
  BY <1>0, <1>1, CreateTurn
<1>2. ASSUME NEW u, NEW t, NEW c, NEW day, NEW e, NEW us,
             BeginTalk(r, u, t, c, day, e, us) PROVE Goal
  <2>1. /\ req'[r].pc = "talk" /\ req'[r].rows = c /\ req'[r].was = contact[c].last
        /\ UNCHANGED contact
    BY <1>2, BeginTalkTurn
  <2>. QED
    BY <2>1 DEF UpToDate
<1>3. ASSUME NEW u, NEW e, NEW us, NEW day, NEW also, BeginUpdate(r, u, e, us, day, also)
      PROVE  Goal
  <2>1. /\ req'[r].pc = "update" /\ req'[r].rows = seat[e] /\ req'[r].e = e
        /\ UNCHANGED plans
    BY <1>3, BeginUpdateTurn
  <2>. QED
    BY <2>1 DEF UpToDate, plans
<1>4. ASSUME NEW u, NEW x, NEW e, NEW on, NEW also, BeginNote(r, u, x, e, on, also) PROVE Goal
  BY <1>0, <1>4, BeginNoteTurn
<1>5. ASSUME BeginDigest(r) \/ BeginMail(r) \/ BeginCheck(r) PROVE Goal
  BY <1>0, <1>5, BeginDigestTurn, BeginMailTurn, BeginCheckTurn
<1>6. ASSUME NEW x, NEW c, CloseTalk(r, x) \/ SetContact(r, c, x) \/ Remove(r, x) \/ BeginRemoveNote(r, x)
      PROVE  Goal
  BY <1>0, <1>6, CloseTalkTurn, SetContactTurn, RemoveTurn, BeginRemoveNoteTurn
<1>7. ASSUME NEW u, NEW e, NEW x, BeginRespond(r, u, e, x) \/ CreateNote(r, u, x, e) PROVE Goal
  BY <1>0, <1>7, BeginRespondTurn, CreateNoteTurn
<1>8. ASSUME NEW u, NEW us, BeginGrants(r, u, us) PROVE Goal
  <2>1. /\ req'[r].pc = "grant" /\ req'[r].rows = grants[u] /\ req'[r].by = u
        /\ UNCHANGED grants
    BY <1>8, BeginGrantsTurn
  <2>. QED
    BY <2>1 DEF UpToDate
<1>9. ASSUME NEW u, NEW to, NEW cc, NEW report, BeginWrite(r, u, to, cc, report) PROVE Goal
  BY <1>0, <1>9, BeginWriteTurn
<1>10. ASSUME NEW u, NEW flag, NEW on, NEW box, BeginMark(r, u, flag, on, box) PROVE Goal
  BY <1>0, <1>10, BeginMarkTurn
<1>. HIDE DEF Goal
<1>. QED
  BY <1>1, <1>2, <1>3, <1>4, <1>5, <1>6, <1>7, <1>8, <1>9, <1>10 DEF Opens, BeginAgenda

\* A request reads at its beginning, and what it does then depends on what it is.
LEMMA WorksKinds ==
  ASSUME Shape, NEW r \in Requests, Works(r)
  PROVE  /\ req'[r].pc \notin {"update", "grant", "talk"}
         /\ req[r].pc = "update" => Update(r)
         /\ req[r].pc = "grant" => Grant(r)
         /\ req[r].pc = "talk" => Talk(r)
<1>. DEFINE Other == req'[r].pc \notin {"update", "grant", "talk"}
                     /\ req[r].pc \notin {"update", "grant", "talk"}
<1>1. ASSUME NEW t, Tell(r, t) PROVE Other
  BY <1>1, TellTurn
<1>2. ASSUME NEW u, Look(r, u) PROVE Other
  BY <1>2, LookTurn
<1>3. ASSUME NEW row, Pick(r, row) PROVE Other
  BY <1>3, PickTurn
<1>4. ASSUME Respond(r) PROVE Other
  BY <1>4, RespondTurn
<1>5. ASSUME FindReminder(r) \/ SetReminder(r) \/ RemoveNote(r) \/ RemoveReminder(r) PROVE Other
  BY <1>5, FindReminderTurn, SetReminderTurn, RemoveNoteTurn, RemoveReminderTurn
<1>6. ASSUME Insert(r) \/ Send(r) \/ StampSeat(r) \/ EndJob(r) \/ Alerting(r) \/ Stamping(r)
      PROVE  Other
  BY <1>6, InsertTurn, SendTurn, StampSeatTurn, EndJobTurn, AlertingTurn, StampingTurn
<1>7. ASSUME NEW m, Write(r, m) PROVE Other
  BY <1>7, WriteTurn
<1>8. ASSUME MarkSeen(r) PROVE Other
  BY <1>8, MarkSeenTurn
<1>9. CASE Update(r)
  BY <1>9, UpdateTurn
<1>10. CASE Grant(r)
  BY <1>10, GrantTurn
<1>11. CASE Talk(r)
  BY <1>11, TalkTurn
<1>. HIDE DEF Other
<1>12. Other \/ Update(r) \/ Grant(r) \/ Talk(r)
  BY <1>1, <1>2, <1>3, <1>4, <1>5, <1>6, <1>7, <1>8 DEF Works, StepAgenda, Alerting, Stamping
<1>. QED
  BY <1>9, <1>10, <1>11, <1>12 DEF Other

LEMMA AloneStep == Types /\ Alone /\ [Next]_vars => Alone'
<1>. SUFFICES ASSUME Types, Alone, [Next]_vars PROVE Alone'
  OBVIOUS
<1>0. Shape
  BY TypesNow
<1>1. ASSUME Crash \/ Tick PROVE Alone'
  <2>1. \A r \in Requests : ~Open(r)'
    BY <1>1 DEF Crash, Tick, Idle, Open
  <2>. QED
    BY <2>1 DEF Alone
<1>2. CASE UNCHANGED vars
  BY <1>2 DEF vars, plans, Alone, UpToDate, Open
<1>3. ASSUME NEW r \in Requests, Opens(r) PROVE Alone'
  <2>1. Begins(r) /\ UpToDate(r)'
    BY <1>0, <1>3, Opening, OpensUpToDate
  <2>2. ASSUME NEW o \in Requests \ {r} PROVE Open(o)' = Open(o)
    BY <2>1, OthersAt DEF Open
  <2>. QED
    BY <2>1, <2>2 DEF Alone, Begins
<1>4. ASSUME NEW r \in Requests, Works(r) PROVE Alone'
  <2>1. Goes(r) /\ req'[r].pc \notin {"update", "grant", "talk"}
    BY <1>0, <1>4, Working, WorksKinds
  <2>2. ASSUME NEW o \in Requests \ {r}
        PROVE  Open(o)' = Open(o) /\ req'[o].lone = req[o].lone
    BY <2>1 DEF Goes, Open
  <2>3. UpToDate(r)'
    BY <2>1 DEF UpToDate
  <2>4. ASSUME NEW o \in Requests, req'[o].lone, Open(o)'
        PROVE  o = r /\ req[r].lone
    BY <2>1, <2>2, <2>4 DEF Alone, Goes, Open
  <2>. QED
    BY <2>1, <2>2, <2>3, <2>4 DEF Alone, Goes
<1>. QED
  BY <1>1, <1>2, <1>3, <1>4, Steps

LEMMA ViewersOfAll ==
  ASSUME NEW S, NEW k PROVE Viewers({[to |-> v, n |-> k] : v \in S}) = S
<1>. DEFINE all == {[to |-> v, n |-> k] : v \in S}
<1>1. Viewers(all) \subseteq S
  <2>1. ASSUME NEW x \in all PROVE x.to \in S
    OBVIOUS
  <2>. HIDE DEF all
  <2>. QED
    BY <2>1 DEF Viewers
<1>2. ASSUME NEW v \in S PROVE v \in Viewers(all)
  <2>1. [to |-> v, n |-> k] \in all /\ [to |-> v, n |-> k].to = v
    OBVIOUS
  <2>. HIDE DEF all
  <2>. QED
    BY <2>1 DEF Viewers
<1>. QED
  BY <1>1, <1>2

(* A request that has no company commits what it was asked: the attendees  *)
(* of CalendarEventsService.update, the viewers of setGrants, the latest   *)
(* contact of InteractionsService.create.                                  *)
THEOREM LoneChangesCommit == Spec => LoneChangesExact
<1>. DEFINE Exact(r) ==
       LET q == req[r] IN
       q.lone /\ req'[r].pc # q.pc /\ lost' = lost
       => /\ q.pc = "update" => {u \in Users : seat'[q.e][u] # NoSeat} = q.set
          /\ q.pc = "grant"  => Viewers(grants'[q.by]) = q.set
          /\ q.pc = "talk"   => LET c == q.rows IN
               contact'[c].last >= q.day /\ contact'[c].last >= contact[c].last
<1>1. Init => Alone
  <2>1. ASSUME Init PROVE \A r \in Requests : req[r].pc = "idle"
    BY <2>1 DEF Init, Idle
  <2>. QED
    BY <2>1 DEF Alone, Open
<1>2. Spec => []Alone
  BY <1>1, AloneStep, TypesInvariant, PTL DEF Spec
<1>3. ASSUME Types, Alone, [Next]_vars, NEW r \in Requests, req[r].lone,
             req'[r].pc # req[r].pc, lost' = lost,
             req[r].pc \in {"update", "grant", "talk"}
      PROVE  Works(r) /\ UpToDate(r)
  <2>0. Shape /\ Numbers /\ Open(r)
    BY <1>3, TypesNow DEF Open
  <2>1. ~Crash
    BY <1>3, <2>0, CrashLoses
  <2>2. ~Tick /\ ~UNCHANGED vars
    BY <1>3 DEF Tick, vars
  <2>3. ASSUME NEW o \in Requests, Opens(o) PROVE FALSE
    <3>1. Begins(o)
      BY <2>0, <2>3, Opening
    <3>2. o # r
      BY <2>0, <3>1 DEF Begins
    <3>. QED
      BY <1>3, <3>1, <3>2, OthersAt
  <2>4. ASSUME NEW o \in Requests \ {r}, Works(o) PROVE FALSE
    <3>1. Goes(o)
      BY <2>0, <2>4, Working
    <3>. QED
      BY <1>3, <3>1, OthersAt
  <2>5. UpToDate(r)
    BY <1>3, <2>0 DEF Alone
  <2>. QED
    BY <1>3, <2>1, <2>2, <2>3, <2>4, <2>5, Steps
<1>4. ASSUME Types, NEW r \in Requests, Update(r), UpToDate(r)
      PROVE  {u \in Users : seat'[req[r].e][u] # NoSeat} = req[r].set
  <2>1. req[r].pc = "update" /\ Typed(req[r], now) /\ req[r].n \in 1 .. begun /\ begun \in Nat
    BY <1>4, TypesNow, UpdateTurn DEF Numbers, Open
  <2>2. PICK e \in Events : e = req[r].e
    BY <2>1, TargetTypes, <1>4
  <2>3. req[r].set \subseteq Users /\ req[r].rows = seat[e]
        /\ seat \in [Events -> [Users -> SeatRecords]]
    BY <1>4, <2>1, <2>2, TypesNow DEF Typed, PlanTyped, UpToDate
  <2>. DEFINE gone(u) == seat[e][u].made # req[r].rows[u].made
  <2>4. \A u \in Users : u \in Before(r) <=> seat[e][u] # NoSeat
    BY <2>3 DEF Before
  <2>5. \A u \in Asks(r) : seat[e][u] = NoSeat
    BY <2>3, <2>4 DEF Asks
  <2>6. \A u \in Users : ~gone(u)
    BY <2>3
  <2>7. seat' = [seat EXCEPT ![e] = [u \in Users |->
               IF u \in Asks(r) THEN NewSeat(req[r].n, u, event[e].by)
               ELSE IF u \in Before(r) \ req[r].set /\ ~gone(u) THEN NoSeat
               ELSE @[u]]]
    <3>1. ~(\/ \E u \in Asks(r) : seat[e][u] # NoSeat
            \/ req[r].also /\ \E u \in req[r].set \intersect Before(r) : gone(u))
      BY <2>3, <2>5, <2>6
    <3>. QED
      BY <1>4, <2>2, <3>1 DEF Update, Asks
  <2>. HIDE DEF gone
  <2>8. \A u \in Users : NewSeat(req[r].n, u, event[e].by) # NoSeat
    BY <2>1, NewSeatFacts DEF NoSeat
  <2>9. ASSUME NEW u \in Users PROVE seat'[e][u] # NoSeat <=> u \in req[r].set
    <3>1. seat'[e][u] = IF u \in Asks(r) THEN NewSeat(req[r].n, u, event[e].by)
                        ELSE IF u \in Before(r) \ req[r].set /\ ~gone(u) THEN NoSeat
                        ELSE seat[e][u]
      BY <2>3, <2>7
    <3>. QED
      BY <2>4, <2>6, <2>8, <3>1 DEF Asks
  <2>. QED
    BY <2>2, <2>3, <2>9
<1>5. ASSUME Types, NEW r \in Requests, Grant(r), UpToDate(r)
      PROVE  Viewers(grants'[req[r].by]) = req[r].set
  <2>1. req[r].pc = "grant" /\ Typed(req[r], now)
    BY <1>5, TypesNow, GrantTurn
  <2>2. PICK u \in Users : u = req[r].by
    BY <2>1 DEF Typed, PlanTyped
  <2>3. grants[u] \ req[r].rows = {}
    BY <1>5, <2>1, <2>2 DEF UpToDate
  <2>4. grants'[u] = {[to |-> v, n |-> req[r].n] : v \in req[r].set}
    <3>1. Viewers({}) \intersect req[r].set = {}
      BY DEF Viewers
    <3>2. grants' = [grants EXCEPT ![u] = {} \union {[to |-> v, n |-> req[r].n] : v \in req[r].set}]
      BY <1>5, <2>2, <2>3, <3>1 DEF Grant
    <3>3. grants \in [Users -> SUBSET Viewings]
      BY <1>5 DEF Types, StateTypes
    <3>. QED
      BY <3>2, <3>3
  <2>5. Viewers({[to |-> v, n |-> req[r].n] : v \in req[r].set}) = req[r].set
    BY ViewersOfAll
  <2>6. Viewers(grants'[u]) = Viewers({[to |-> v, n |-> req[r].n] : v \in req[r].set})
    BY <2>4, Zenon
  <2>. QED
    BY <2>2, <2>5, <2>6, Zenon
<1>6. ASSUME Types, NEW r \in Requests, Talk(r), UpToDate(r),
             NEW c, c = req[r].rows
      PROVE  contact'[c].last >= req[r].day /\ contact'[c].last >= contact[c].last
  <2>1. req[r].pc = "talk" /\ Typed(req[r], now) /\ now \in Nat
    BY <1>6, TypesNow, TalkTurn
  <2>2. /\ c \in Contacts /\ contact \in [Contacts -> ContactRecords]
        /\ req[r].was = contact[c].last /\ req[r].day \in Int /\ contact[c].last \in Int
    BY <1>6, <2>1, MoreTypes DEF Typed, TalkTyped, UpToDate, ContactRecords
  <2>3. CASE Later(r)
    <3>1. PICK new : /\ new.last = req[r].day
                     /\ contact' = [contact EXCEPT ![c] = new]
      <4>1. Contacted(c, req[r].day, NoDay)
        BY <1>6, <2>3 DEF Talk, Follow
      <4>. QED
        BY <4>1 DEF Contacted
    <3>2. contact'[c] = new
      BY <2>2, <3>1
    <3>. QED
      BY <2>2, <2>3, <3>1, <3>2 DEF Later
  <2>4. CASE ~Later(r)
    <3>1. UNCHANGED contact
      BY <1>6, <2>4 DEF Talk
    <3>. QED
      BY <2>2, <2>4, <3>1 DEF Later
  <2>. QED
    BY <2>3, <2>4
<1>7. ASSUME Types, Alone, [Next]_vars, NEW r \in Requests PROVE Exact(r)
  BY <1>3, <1>4, <1>5, <1>6, <1>7, TypesNow, WorksKinds
<1>8. Types /\ Alone /\ [Next]_vars => [\A r \in Requests : Exact(r)]_vars
  BY <1>7
<1>. QED
  BY <1>2, <1>8, TypesInvariant, PTL DEF Spec, LoneChangesExact
-----------------------------------------------------------------------------
(* The nightly jobs.                                                       *)
InJob == {"digest", "insert", "mail", "send", "mailed", "alert", "stamp"}
OneRunEach == \A r, o \in Requests :
                req[r].pc \in InJob /\ req[o].pc \in InJob /\ req[r].by = req[o].by => r = o

\* The steps that are no job's and leave its state alone.
Elsewhere(r) == UNCHANGED <<now, contact, ran>> /\ {req[r].pc, req'[r].pc} \intersect InJob = {}
JobWork(r) ==
  \/ \E u : Look(r, u)
  \/ \E row \in req[r].set : Pick(r, row)
  \/ Insert(r) \/ Send(r) \/ StampSeat(r) \/ EndJob(r) \/ Alerting(r) \/ Stamping(r)

LEMMA JobOpens ==
  ASSUME Shape, NEW r \in Requests, Opens(r)
  PROVE  BeginDigest(r) \/ BeginMail(r) \/ BeginCheck(r) \/ Elsewhere(r)
         \/ \E c \in offer.meets : \E day : SetContact(r, c, day)
<1>. DEFINE Goal == Elsewhere(r)
<1>0. ASSUME req'[r].pc \notin InJob, UNCHANGED <<now, contact, ran>> PROVE Goal
  <2>1. Begins(r)
    BY Opening
  <2>. QED
    BY <1>0, <2>1 DEF Begins, Open, InJob, Elsewhere
<1>1. ASSUME NEW u, NEW e, NEW us, NEW day, Create(r, u, e, us, day) PROVE Goal
  BY <1>0, <1>1, CreateTurn DEF InJob
<1>2. ASSUME NEW u, NEW t, NEW c, NEW day, NEW e, NEW us,
             BeginTalk(r, u, t, c, day, e, us) PROVE Goal
  BY <1>0, <1>2, BeginTalkTurn DEF InJob
<1>3. ASSUME NEW u, NEW e, NEW us, NEW day, NEW also, BeginUpdate(r, u, e, us, day, also)
      PROVE  Goal
  BY <1>0, <1>3, BeginUpdateTurn DEF InJob
<1>4. ASSUME NEW u, NEW x, NEW e, NEW on, NEW also, BeginNote(r, u, x, e, on, also) PROVE Goal
  BY <1>0, <1>4, BeginNoteTurn DEF InJob
<1>5. ASSUME NEW x, CloseTalk(r, x) \/ Remove(r, x) \/ BeginRemoveNote(r, x) PROVE Goal
  BY <1>0, <1>5, CloseTalkTurn, RemoveTurn, BeginRemoveNoteTurn DEF InJob
<1>6. ASSUME NEW u, NEW e, NEW x, BeginRespond(r, u, e, x) \/ CreateNote(r, u, x, e) PROVE Goal
  BY <1>0, <1>6, BeginRespondTurn, CreateNoteTurn DEF InJob
<1>7. ASSUME NEW u, NEW us, BeginGrants(r, u, us) PROVE Goal
  BY <1>0, <1>7, BeginGrantsTurn DEF InJob
<1>8. ASSUME NEW u, NEW to, NEW cc, NEW report, BeginWrite(r, u, to, cc, report) PROVE Goal
  BY <1>0, <1>8, BeginWriteTurn DEF InJob
<1>9. ASSUME NEW u, NEW flag, NEW on, NEW box, BeginMark(r, u, flag, on, box) PROVE Goal
  BY <1>0, <1>9, BeginMarkTurn DEF InJob
<1>. HIDE DEF Goal
<1>10. BeginDigest(r) \/ BeginMail(r) \/ BeginCheck(r) \/ Goal
       \/ \E c \in offer.meets : \E day : SetContact(r, c, day)
  BY <1>1, <1>2, <1>3, <1>4, <1>5, <1>6, <1>7, <1>8, <1>9 DEF Opens, BeginAgenda
<1>. QED
  BY <1>10 DEF Goal

LEMMA JobWorks ==
  ASSUME Shape, NEW r \in Requests, Works(r)
  PROVE  JobWork(r) \/ Talk(r) \/ Elsewhere(r)
<1>. DEFINE Goal == Elsewhere(r)
<1>1. ASSUME NEW t, Tell(r, t) PROVE Goal
  BY <1>1, TellTurn DEF InJob, Elsewhere
<1>2. ASSUME Update(r) \/ Respond(r) \/ Grant(r) PROVE Goal
  BY <1>2, UpdateTurn, RespondTurn, GrantTurn DEF InJob, Elsewhere
<1>3. ASSUME FindReminder(r) \/ SetReminder(r) \/ RemoveNote(r) \/ RemoveReminder(r) PROVE Goal
  BY <1>3, FindReminderTurn, SetReminderTurn, RemoveNoteTurn, RemoveReminderTurn
     DEF InJob, Elsewhere
<1>4. ASSUME NEW m, Write(r, m) PROVE Goal
  BY <1>4, WriteTurn DEF InJob, Elsewhere
<1>5. ASSUME MarkSeen(r) PROVE Goal
  BY <1>5, MarkSeenTurn DEF InJob, Elsewhere
<1>. HIDE DEF Goal
<1>6. JobWork(r) \/ Talk(r) \/ Goal
  BY <1>1, <1>2, <1>3, <1>4, <1>5 DEF Works, StepAgenda, Alerting, Stamping, JobWork
<1>. QED
  BY <1>6 DEF Goal

LEMMA AloneAtItsJob ==
  ASSUME NEW r \in Requests, Shape, BeginDigest(r) \/ BeginMail(r) \/ BeginCheck(r)
  PROVE  \A o \in Requests : Open(o) => req[o].by # req'[r].by
<1>1. PICK job \in Jobs : /\ \A o \in Requests : Open(o) => req[o].by # job
                          /\ req'[r].by = job
  BY BeginDigestTurn, BeginMailTurn, BeginCheckTurn
     DEF BeginDigest, BeginMail, BeginCheck, BeginJob, Jobs
<1>. QED
  BY <1>1

LEMMA StaysInJob ==
  ASSUME Shape, NEW r \in Requests, JobWork(r)
  PROVE  req[r].pc \in InJob /\ (req'[r].pc \in InJob => req'[r].by = req[r].by)
<1>. DEFINE Goal == req[r].pc \in InJob /\ (req'[r].pc \in InJob => req'[r].by = req[r].by)
<1>. SUFFICES Goal
  OBVIOUS
<1>1. ASSUME NEW u, Look(r, u) PROVE Goal
  BY <1>1, LookTurn DEF InJob
<1>2. ASSUME NEW row, Pick(r, row) PROVE Goal
  BY <1>2, PickTurn DEF InJob
<1>3. ASSUME Insert(r) \/ Send(r) \/ StampSeat(r) PROVE Goal
  BY <1>3, InsertTurn, SendTurn, StampSeatTurn DEF InJob, Fields
<1>4. ASSUME EndJob(r) \/ Alerting(r) \/ Stamping(r) PROVE Goal
  BY <1>4, EndJobTurn, AlertingTurn, StampingTurn DEF InJob
<1>. HIDE DEF Goal
<1>. QED
  BY <1>1, <1>2, <1>3, <1>4 DEF JobWork

\* A step of r leaves one run of each job, if it does not begin a second.
LEMMA OneRunEachStep == Types /\ OneRunEach /\ [Next]_vars => OneRunEach'
<1>. SUFFICES ASSUME Types, OneRunEach, [Next]_vars PROVE OneRunEach'
  OBVIOUS
<1>0. Shape
  BY TypesNow
<1>1. ASSUME NEW r \in Requests, Begins(r) \/ Goes(r),
             req'[r].pc \in InJob =>
               \/ \A o \in Requests : Open(o) => req[o].by # req'[r].by
               \/ req[r].pc \in InJob /\ req'[r].by = req[r].by
      PROVE  OneRunEach'
  <2>1. \A o \in Requests \ {r} : req'[o].pc = req[o].pc /\ req'[o].by = req[o].by
    BY <1>1, OthersAt
  <2>2. \A o \in Requests : req[o].pc \in InJob => Open(o)
    BY DEF InJob, Open
  <2>. QED
    BY <1>1, <2>1, <2>2 DEF OneRunEach
<1>2. ASSUME NEW r \in Requests, Opens(r) PROVE OneRunEach'
  <2>1. Begins(r)
    BY <1>0, <1>2, Opening
  <2>2. CASE BeginDigest(r) \/ BeginMail(r) \/ BeginCheck(r)
    BY <1>0, <1>1, <2>1, <2>2, AloneAtItsJob
  <2>3. ASSUME NEW c, NEW day, SetContact(r, c, day) PROVE OneRunEach'
    BY <1>0, <1>1, <2>1, <2>3, SetContactTurn DEF InJob
  <2>4. CASE Elsewhere(r)
    BY <1>1, <2>1, <2>4 DEF Elsewhere
  <2>. QED
    BY <1>0, <1>2, <2>2, <2>3, <2>4, JobOpens
<1>3. ASSUME NEW r \in Requests, Works(r) PROVE OneRunEach'
  <2>1. Goes(r)
    BY <1>0, <1>3, Working
  <2>2. CASE JobWork(r)
    BY <1>0, <1>1, <2>1, <2>2, StaysInJob
  <2>3. CASE Talk(r)
    BY <1>0, <1>1, <2>1, <2>3, TalkTurn DEF InJob
  <2>4. CASE Elsewhere(r)
    BY <1>1, <2>1, <2>4 DEF Elsewhere
  <2>. QED
    BY <1>0, <1>3, <2>2, <2>3, <2>4, JobWorks
<1>4. CASE Crash \/ Tick
  <2>1. \A r \in Requests : req'[r].pc = "idle"
    BY <1>4 DEF Crash, Tick, Open, Idle
  <2>. QED
    BY <2>1 DEF OneRunEach, InJob
<1>5. CASE UNCHANGED vars
  BY <1>5 DEF vars, OneRunEach
<1>. QED
  BY <1>2, <1>3, <1>4, <1>5, Steps

LEMMA OneRun == Spec => []OneRunEach
<1>1. Init => OneRunEach
  <2>1. ASSUME Init PROVE \A r \in Requests : req[r].pc = "idle"
    BY <2>1 DEF Init, Idle
  <2>. QED
    BY <2>1 DEF OneRunEach, InJob
<1>. QED
  BY <1>1, OneRunEachStep, TypesInvariant, PTL DEF Spec
-----------------------------------------------------------------------------
(* The check of contacts.  Without a death or a failure a silent contact   *)
(* is alerted once: a second alert would need the first one's stamp to be  *)
(* missing while its run is gone.  And unless a new contact crossed a      *)
(* check, a stamp means an alert to everybody, and so does a stale contact *)
(* that a check has not before it any more.                                *)
InCheck(r)  == req[r].pc \in {"alert", "stamp"}
Unstamped(c)  == \E r \in Requests : req[r].pc = "stamp" /\ req[r].x = c
Everyone(c) == \A u \in Users : contact[c].alerts[u] >= 1
Bounded(c) ==
  \A u \in Users :
    /\ contact[c].alerts[u] <= 1 + contact[c].failed
    /\ ~Alerted(contact[c]) /\ ~Unstamped(c) => contact[c].alerts[u] <= contact[c].failed
Vouched(c)  == ~contact[c].crossed => (Alerted(contact[c]) \/ Unstamped(c) => Everyone(c))
Ahead(r, c)  == c \in req[r].set => ~Alerted(contact[c])
Behind(r, c) == c \notin req[r].set /\ ~contact[c].crossed /\ Stale(contact[c]) => Everyone(c)
Checked ==
  /\ DOMAIN ran = Jobs
  /\ lost = {0} => \A c \in Contacts : Bounded(c)
  /\ \A c \in Contacts : Vouched(c)
  /\ \A r \in Requests, c \in Contacts : InCheck(r) => Ahead(r, c) /\ Behind(r, c)

\* A contact that stays as it is, with what is said of it.
LEMMA SameContact ==
  ASSUME NEW c \in Contacts, contact'[c] = contact[c], now' = now, Unstamped(c)' <=> Unstamped(c)
  PROVE  /\ Bounded(c) => Bounded(c)'
         /\ Vouched(c) => Vouched(c)'
         /\ Everyone(c)' <=> Everyone(c)
         /\ Stale(contact[c])' <=> Stale(contact[c])
         /\ Alerted(contact[c])' <=> Alerted(contact[c])
<1>1. Everyone(c)' <=> Everyone(c)
  BY DEF Everyone
<1>2. Stale(contact[c])' <=> Stale(contact[c])
  BY DEF Stale
<1>3. Alerted(contact[c])' <=> Alerted(contact[c])
  BY DEF Alerted
<1>. QED
  BY <1>1, <1>2, <1>3 DEF Bounded, Vouched

\* A contact that is contacted; no check has it behind it then.
LEMMA NewContact ==
  ASSUME StateTypes, NEW c \in Contacts, NEW day, Contacted(c, day, NoDay),
         Unstamped(c)' => Checking
  PROVE  /\ Bounded(c)' /\ Vouched(c)' /\ ~Alerted(contact[c])'
         /\ contact'[c].crossed = Checking
         /\ \A d \in Contacts \ {c} : contact'[d] = contact[d]
<1>1. PICK new : /\ new = [last |-> day, stamp |-> NoDay, alerts |-> NoneYet, failed |-> 0,
                           crossed |-> Checking]
                 /\ contact' = [contact EXCEPT ![c] = new]
  BY DEF Contacted
<1>2. contact \in [Contacts -> ContactRecords]
  BY DEF StateTypes
<1>3. contact'[c] = new /\ \A d \in Contacts \ {c} : contact'[d] = contact[d]
  BY <1>1, <1>2
<1>4. ~Alerted(new) /\ new.failed = 0 /\ new.crossed = Checking /\ new.alerts = NoneYet
  BY <1>1 DEF Alerted
<1>5. \A u \in Users : new.alerts[u] = 0
  BY <1>4, NoneYetType
<1>6. ~Alerted(contact'[c])
  BY <1>3, <1>4
<1>7. Bounded(c)'
  BY <1>3, <1>4, <1>5 DEF Bounded
<1>8. Vouched(c)'
  BY <1>3, <1>4, <1>6 DEF Vouched
<1>. QED
  BY <1>3, <1>4, <1>6, <1>7, <1>8

\* No check begins or moves, and the contacts stay or one is contacted.
LEMMA ContactStays ==
  ASSUME Types, Checked, NEW r \in Requests, Begins(r) \/ Goes(r), lost' = lost, now' = now,
         {req[r].pc, req'[r].pc} \intersect {"alert", "stamp"} = {},
         DOMAIN ran' = Jobs,
         \/ UNCHANGED contact
         \/ \E c \in Contacts : \E day : Contacted(c, day, NoDay)
  PROVE  Checked'
<1>0. StateTypes
  BY DEF Types
<1>1. \A o \in Requests \ {r} : req'[o].pc = req[o].pc /\ req'[o].x = req[o].x
                                /\ req'[o].set = req[o].set
  BY OthersAt
<1>2. \A o \in Requests : /\ InCheck(o)' <=> InCheck(o)
                          /\ InCheck(o) => req'[o].set = req[o].set
  BY <1>1 DEF InCheck
<1>3. ASSUME NEW c PROVE Unstamped(c)' <=> Unstamped(c)
  BY <1>1 DEF Unstamped
<1>4. ASSUME NEW c \in Contacts, contact'[c] = contact[c]
      PROVE  /\ Bounded(c) => Bounded(c)'
             /\ Vouched(c)'
             /\ \A o \in Requests : InCheck(o)' => Ahead(o, c)' /\ Behind(o, c)'
  <2>1. /\ Bounded(c) => Bounded(c)'
        /\ Vouched(c) => Vouched(c)'
        /\ Everyone(c)' <=> Everyone(c)
        /\ Stale(contact[c])' <=> Stale(contact[c])
        /\ Alerted(contact[c])' <=> Alerted(contact[c])
    BY <1>3, <1>4, SameContact
  <2>2. ASSUME NEW o \in Requests, InCheck(o)' PROVE Ahead(o, c)' /\ Behind(o, c)'
    <3>1. Ahead(o, c) /\ Behind(o, c) /\ req'[o].set = req[o].set
      BY <1>2, <2>2 DEF Checked
    <3>. QED
      BY <1>4, <2>1, <3>1 DEF Ahead, Behind
  <2>. QED
    BY <2>1, <2>2 DEF Checked
<1>5. CASE UNCHANGED contact
  BY <1>4, <1>5 DEF Checked
<1>6. ASSUME NEW c \in Contacts, NEW day, Contacted(c, day, NoDay) PROVE Checked'
  <2>1. Unstamped(c)' => Checking
    BY <1>3 DEF Unstamped, Checking
  <2>2. /\ Bounded(c)' /\ Vouched(c)' /\ ~Alerted(contact[c])'
        /\ contact'[c].crossed = Checking
        /\ \A d \in Contacts \ {c} : contact'[d] = contact[d]
    BY <1>0, <1>6, <2>1, NewContact
  <2>3. ASSUME NEW o \in Requests, InCheck(o)' PROVE Ahead(o, c)' /\ Behind(o, c)'
    <3>1. Checking
      BY <1>2, <2>3 DEF InCheck, Checking
    <3>. QED
      BY <2>2, <3>1 DEF Ahead, Behind
  <2>. QED
    BY <1>4, <2>2, <2>3 DEF Checked
<1>. QED
  BY <1>5, <1>6

\* What each step of a check does to its contact.
LEMMA AlertDoes ==
  ASSUME Types, NEW r \in Requests, NEW c \in Contacts, Alert(r, c)
  PROVE  /\ \A d \in Contacts \ {c} : contact'[d] = contact[d]
         /\ Alerted(contact'[c]) <=> Alerted(contact[c])
         /\ contact'[c].crossed = contact[c].crossed
         /\ contact'[c].failed = contact[c].failed
         /\ \A u \in Users : contact'[c].alerts[u] = contact[c].alerts[u] + 1
<1>1. contact[c] \in ContactRecords /\ contact \in [Contacts -> ContactRecords]
  BY MoreTypes
<1>2. PICK old \in ContactRecords : old = contact[c]
  BY <1>1
<1>3. old.alerts \in [Users -> Nat]
  BY DEF ContactRecords
<1>4. PICK counts : counts = Counting(old.alerts, Users)
  OBVIOUS
<1>5. counts \in [Users -> Nat] /\ \A u \in Users : counts[u] = old.alerts[u] + 1
  BY <1>3, <1>4, CountingType
<1>6. contact' = [contact EXCEPT ![c] = [old EXCEPT !.alerts = counts]]
  BY <1>2, <1>4 DEF Alert
<1>7. contact'[c] = [old EXCEPT !.alerts = counts]
  BY <1>1, <1>6
<1>8. /\ contact'[c].last = old.last /\ contact'[c].stamp = old.stamp
      /\ contact'[c].alerts = counts /\ contact'[c].failed = old.failed
      /\ contact'[c].crossed = old.crossed
  BY <1>7 DEF ContactRecords
<1>. QED
  BY <1>1, <1>2, <1>5, <1>6, <1>8 DEF Alerted, LastContact

LEMMA FailureDoes ==
  ASSUME Types, NEW c \in Contacts, NEW us \in SUBSET Users,
         \/ contact' = [contact EXCEPT ![c].alerts = Counting(@, us), ![c].failed = @ + 1]
         \/ contact' = [contact EXCEPT ![c].failed = @ + 1]
  PROVE  /\ \A d \in Contacts \ {c} : contact'[d] = contact[d]
         /\ Alerted(contact'[c]) <=> Alerted(contact[c])
         /\ contact'[c].crossed = contact[c].crossed
         /\ contact'[c].failed = contact[c].failed + 1
         /\ \A u \in Users : /\ contact[c].alerts[u] \in Nat /\ contact'[c].alerts[u] \in Nat
                             /\ contact'[c].alerts[u] >= contact[c].alerts[u]
                             /\ contact'[c].alerts[u] <= contact[c].alerts[u] + 1
<1>1. contact[c] \in ContactRecords /\ contact \in [Contacts -> ContactRecords]
  BY MoreTypes
<1>2. PICK old \in ContactRecords : old = contact[c]
  BY <1>1
<1>3. old.alerts \in [Users -> Nat] /\ old.failed \in Nat
  BY DEF ContactRecords
<1>4. PICK counts : counts = Counting(old.alerts, us)
  OBVIOUS
<1>5. counts \in [Users -> Nat]
      /\ \A u \in Users : counts[u] >= old.alerts[u] /\ counts[u] <= old.alerts[u] + 1
  BY <1>3, <1>4, CountingType
<1>6. PICK times : times = old.failed + 1
  OBVIOUS
<1>7. PICK new \in [Users -> Nat] :
        /\ \A u \in Users : new[u] >= old.alerts[u] /\ new[u] <= old.alerts[u] + 1
        /\ contact' = [contact EXCEPT ![c] = [[old EXCEPT !.alerts = new] EXCEPT !.failed = times]]
  <2>1. CASE contact' = [contact EXCEPT ![c].alerts = Counting(@, us), ![c].failed = @ + 1]
    <3>1. contact' = [contact EXCEPT ![c] = [old EXCEPT !.alerts = counts, !.failed = times]]
      BY <1>1, <1>2, <1>4, <1>6, <2>1
    <3>2. [old EXCEPT !.alerts = counts, !.failed = times]
            = [[old EXCEPT !.alerts = counts] EXCEPT !.failed = times]
      OBVIOUS
    <3>3. contact' = [contact EXCEPT ![c] = [[old EXCEPT !.alerts = counts] EXCEPT !.failed = times]]
      BY <3>1, <3>2
    <3>. QED
      BY <1>5, <3>3
  <2>2. CASE contact' = [contact EXCEPT ![c].failed = @ + 1]
    <3>1. contact' = [contact EXCEPT ![c] = [old EXCEPT !.failed = times]]
      BY <1>2, <1>6, <2>2
    <3>2. PICK was \in [Users -> Nat] : was = old.alerts
      BY <1>3
    <3>3. [old EXCEPT !.alerts = was] = old
      BY <3>2 DEF ContactRecords
    <3>4. \A u \in Users : was[u] >= old.alerts[u] /\ was[u] <= old.alerts[u] + 1
      BY <3>2
    <3>. QED
      BY <3>1, <3>2, <3>3, <3>4
  <2>. QED
    BY <2>1, <2>2
<1>8. contact'[c] = [[old EXCEPT !.alerts = new] EXCEPT !.failed = times]
  BY <1>1, <1>7
<1>9. /\ contact'[c].last = old.last /\ contact'[c].stamp = old.stamp
      /\ contact'[c].alerts = new /\ contact'[c].failed = times
      /\ contact'[c].crossed = old.crossed
  BY <1>8 DEF ContactRecords
<1>10. \A d \in Contacts \ {c} : contact'[d] = contact[d]
  BY <1>1, <1>7
<1>11. Alerted(contact'[c]) <=> Alerted(contact[c])
  BY <1>2, <1>9 DEF Alerted, LastContact
<1>12. ASSUME NEW u \in Users
       PROVE  /\ contact[c].alerts[u] \in Nat /\ contact'[c].alerts[u] \in Nat
              /\ contact'[c].alerts[u] >= contact[c].alerts[u]
              /\ contact'[c].alerts[u] <= contact[c].alerts[u] + 1
  BY <1>2, <1>3, <1>7, <1>9
<1>. QED
  BY <1>2, <1>6, <1>9, <1>10, <1>11, <1>12

LEMMA StampDoes ==
  ASSUME Types, NEW c \in Contacts, contact' = [contact EXCEPT ![c].stamp = now]
  PROVE  /\ \A d \in Contacts \ {c} : contact'[d] = contact[d]
         /\ Alerted(contact'[c])
         /\ contact'[c].crossed = contact[c].crossed
         /\ contact'[c].failed = contact[c].failed
         /\ contact'[c].alerts = contact[c].alerts
<1>1. /\ contact[c] \in ContactRecords /\ contact \in [Contacts -> ContactRecords]
      /\ contact[c].last <= now /\ now \in Nat
  BY MoreTypes, TypesNow
<1>2. contact'[c] = [contact[c] EXCEPT !.stamp = now]
  BY <1>1
<1>3. /\ contact'[c].last = contact[c].last /\ contact'[c].stamp = now
      /\ contact'[c].alerts = contact[c].alerts /\ contact'[c].failed = contact[c].failed
      /\ contact'[c].crossed = contact[c].crossed /\ contact[c].last \in Int
  BY <1>1, <1>2 DEF ContactRecords
<1>. QED
  BY <1>1, <1>3 DEF Alerted, LastContact, NoDay

\* A check at work is the only one.
LEMMA OneCheck ==
  ASSUME Types, OneRunEach, NEW r \in Requests, InCheck(r)
  PROVE  \A o \in Requests \ {r} : ~InCheck(o)
<1>1. \A o \in Requests : InCheck(o) => req[o].by = "check" /\ req[o].pc \in InJob
  BY TypesNow DEF Typed, JobTyped, InCheck, InJob
<1>. QED
  BY <1>1 DEF OneRunEach

\* What is left of Checked once the others are out of the way.
LEMMA CheckMoves ==
  ASSUME Types, OneRunEach, Checked, NEW r \in Requests, Begins(r) \/ Goes(r),
         InCheck(r), lost' = lost, now' = now, DOMAIN ran' = Jobs, NEW c \in Contacts,
         \A d \in Contacts \ {c} : contact'[d] = contact[d],
         req'[r].pc = "stamp" => req'[r].x = c,
         req[r].pc = "stamp" => req[r].x = c,
         \/ ~InCheck(r)'
         \/ InCheck(r)' /\ req'[r].set \subseteq req[r].set
            /\ \A d \in req[r].set : d \in req'[r].set \/ d = c,
         lost = {0} => Bounded(c)', Vouched(c)',
         InCheck(r)' => Ahead(r, c)' /\ Behind(r, c)'
  PROVE  Checked'
<1>1. \A o \in Requests \ {r} : ~InCheck(o) /\ ~InCheck(o)'
  BY OneCheck, OthersAt DEF InCheck
<1>2. ASSUME NEW d \in Contacts \ {c}
      PROVE  /\ Bounded(d) => Bounded(d)'
             /\ Vouched(d)'
             /\ InCheck(r)' => Ahead(r, d)' /\ Behind(r, d)'
  <2>1. Unstamped(d)' <=> Unstamped(d)
    BY <1>1 DEF Unstamped, InCheck
  <2>2. /\ Bounded(d) => Bounded(d)'
        /\ Vouched(d) => Vouched(d)'
        /\ Everyone(d)' <=> Everyone(d)
        /\ Stale(contact[d])' <=> Stale(contact[d])
        /\ Alerted(contact[d])' <=> Alerted(contact[d])
    BY <2>1, SameContact
  <2>3. ASSUME InCheck(r)' PROVE Ahead(r, d)' /\ Behind(r, d)'
    <3>1. Ahead(r, d) /\ Behind(r, d) /\ (d \in req'[r].set <=> d \in req[r].set)
      BY <2>3 DEF Checked
    <3>. QED
      BY <2>2, <3>1 DEF Ahead, Behind
  <2>. QED
    BY <2>2, <2>3 DEF Checked
<1>. QED
  BY <1>1, <1>2 DEF Checked

LEMMA CheckedAlert ==
  ASSUME Types, OneRunEach, Checked, NEW r \in Requests, NEW c \in Contacts,
         Alert(r, c), Goes(r), lost' = lost
  PROVE  Checked'
<1>1. /\ req[r].pc = "alert" /\ c \in req[r].set /\ req'[r].pc = "stamp" /\ req'[r].x = c
      /\ req'[r].set = req[r].set /\ UNCHANGED <<now, ran>>
  BY TypesNow, AlertTurn
<1>2. /\ \A d \in Contacts \ {c} : contact'[d] = contact[d]
      /\ Alerted(contact'[c]) <=> Alerted(contact[c])
      /\ contact'[c].crossed = contact[c].crossed
      /\ contact'[c].failed = contact[c].failed
      /\ \A u \in Users : contact'[c].alerts[u] = contact[c].alerts[u] + 1
  BY AlertDoes
<1>3. \A u \in Users : contact[c].alerts[u] \in Nat /\ contact[c].failed \in Nat
  BY MoreTypes DEF ContactRecords
<1>4. InCheck(r) /\ InCheck(r)'
  BY <1>1 DEF InCheck
<1>5. ~Alerted(contact[c])
  BY <1>1, <1>4 DEF Checked, Ahead
<1>6. ~Unstamped(c)
  BY <1>1, <1>4, OneCheck DEF Unstamped, InCheck
<1>7. Unstamped(c)'
  BY <1>1 DEF Unstamped
<1>8. Everyone(c)'
  BY <1>2, <1>3 DEF Everyone
<1>9. lost = {0} => Bounded(c)'
  <2>1. lost = {0} => \A u \in Users : contact[c].alerts[u] <= contact[c].failed
    BY <1>5, <1>6 DEF Checked, Bounded
  <2>. QED
    BY <1>2, <1>3, <1>7, <2>1 DEF Bounded
<1>10. Vouched(c)'
  BY <1>8 DEF Vouched
<1>11. Ahead(r, c)' /\ Behind(r, c)'
  BY <1>2, <1>5, <1>8 DEF Ahead, Behind
<1>12. DOMAIN ran' = Jobs
  BY <1>1 DEF Checked
<1>. QED
  BY <1>1, <1>2, <1>4, <1>9, <1>10, <1>11, <1>12, CheckMoves

LEMMA CheckedStamp ==
  ASSUME Types, OneRunEach, Checked, NEW r \in Requests, Stamp(r), Goes(r), lost' = lost
  PROVE  Checked'
<1>1. /\ req[r].pc = "stamp" /\ req'[r].pc \in {"idle", "alert"} /\ UNCHANGED now
      /\ req'[r].pc = "alert" => req'[r].set = req[r].set \ {req[r].x}
  BY TypesNow, StampTurn
<1>2. PICK c \in Contacts : c = req[r].x /\ c \in req[r].set
  BY <1>1, TypesNow DEF Typed, JobTyped
<1>3. contact' = [contact EXCEPT ![c].stamp = now]
  BY <1>2 DEF Stamp
<1>4. /\ \A d \in Contacts \ {c} : contact'[d] = contact[d]
      /\ Alerted(contact'[c])
      /\ contact'[c].crossed = contact[c].crossed
      /\ contact'[c].failed = contact[c].failed
      /\ contact'[c].alerts = contact[c].alerts
  BY <1>3, StampDoes
<1>5. InCheck(r) /\ Unstamped(c)
  BY <1>1, <1>2 DEF InCheck, Unstamped
<1>6. ~contact[c].crossed => Everyone(c)
  BY <1>5 DEF Checked, Vouched
<1>7. ~contact'[c].crossed => Everyone(c)'
  BY <1>4, <1>6 DEF Everyone
<1>8. lost = {0} => Bounded(c)'
  BY <1>4 DEF Checked, Bounded
<1>9. Vouched(c)'
  BY <1>7 DEF Vouched
<1>10. InCheck(r)' => req'[r].set = req[r].set \ {c}
  BY <1>1, <1>2 DEF InCheck
<1>11. InCheck(r)' => Ahead(r, c)' /\ Behind(r, c)'
  BY <1>7, <1>10 DEF Ahead, Behind
<1>12. DOMAIN ran' = Jobs
  BY DEF Checked, Stamp, Done
<1>13. \/ ~InCheck(r)'
       \/ InCheck(r)' /\ req'[r].set \subseteq req[r].set
          /\ \A d \in req[r].set : d \in req'[r].set \/ d = c
  BY <1>10
<1>. QED
  BY <1>1, <1>2, <1>4, <1>5, <1>8, <1>9, <1>11, <1>12, <1>13, CheckMoves

LEMMA CheckedFails ==
  ASSUME Types, OneRunEach, Checked, NEW r \in Requests, NEW c \in Contacts,
         AlertFails(r, c) \/ (StampFails(r) /\ req[r].x = c), Goes(r), lost' = lost
  PROVE  Checked'
<1>1. /\ InCheck(r) /\ c \in req[r].set /\ req'[r].pc = "idle" /\ UNCHANGED now
      /\ req[r].pc = "stamp" => req[r].x = c
  BY TypesNow, AlertFailsTurn, StampFailsTurn DEF Typed, JobTyped, InCheck
<1>2. PICK us \in SUBSET Users :
         \/ contact' = [contact EXCEPT ![c].alerts = Counting(@, us), ![c].failed = @ + 1]
         \/ contact' = [contact EXCEPT ![c].failed = @ + 1]
  <2>1. CASE AlertFails(r, c)
    BY <2>1 DEF AlertFails
  <2>2. CASE StampFails(r) /\ req[r].x = c
    BY <2>2 DEF StampFails
  <2>. QED
    BY <2>1, <2>2
<1>3. /\ \A d \in Contacts \ {c} : contact'[d] = contact[d]
      /\ Alerted(contact'[c]) <=> Alerted(contact[c])
      /\ contact'[c].crossed = contact[c].crossed
      /\ contact'[c].failed = contact[c].failed + 1
      /\ \A u \in Users : /\ contact[c].alerts[u] \in Nat /\ contact'[c].alerts[u] \in Nat
                          /\ contact'[c].alerts[u] >= contact[c].alerts[u]
                          /\ contact'[c].alerts[u] <= contact[c].alerts[u] + 1
  BY <1>2, FailureDoes
<1>4. contact[c].failed \in Nat /\ contact[c] \in ContactRecords
      /\ contact \in [Contacts -> ContactRecords]
  BY MoreTypes DEF ContactRecords
<1>5. ~Alerted(contact[c])
  BY <1>1 DEF Checked, Ahead
<1>6. ~InCheck(r)'
  BY <1>1 DEF InCheck
<1>7. \A o \in Requests : ~InCheck(o)'
  BY <1>1, <1>6, OneCheck, OthersAt DEF InCheck
<1>8. ~Unstamped(c)'
  BY <1>7 DEF Unstamped, InCheck
<1>9. Vouched(c)'
  BY <1>3, <1>5, <1>8 DEF Vouched
<1>10. lost = {0} => Bounded(c)'
  <2>1. ASSUME lost = {0}, NEW u \in Users
        PROVE  /\ contact'[c].alerts[u] <= contact'[c].failed
               /\ contact'[c].alerts[u] <= 1 + contact'[c].failed
    <3>1. /\ contact[c].alerts[u] <= 1 + contact[c].failed
          /\ ~Unstamped(c) => contact[c].alerts[u] <= contact[c].failed
      BY <1>5, <2>1 DEF Checked, Bounded
    <3>2. CASE AlertFails(r, c)
      <4>1. req[r].pc = "alert"
        BY <3>2, TypesNow, AlertFailsTurn
      <4>2. ~Unstamped(c)
        BY <1>1, <4>1, OneCheck DEF Unstamped, InCheck
      <4>. QED
        BY <1>3, <1>4, <2>1, <3>1, <4>2
    <3>3. CASE StampFails(r) /\ req[r].x = c
      <4>1. contact' = [contact EXCEPT ![c].failed = @ + 1]
        BY <3>3 DEF StampFails
      <4>2. contact'[c].alerts = contact[c].alerts
        BY <1>4, <4>1 DEF ContactRecords
      <4>. QED
        BY <1>3, <1>4, <2>1, <3>1, <4>2
    <3>. QED
      BY <3>2, <3>3
  <2>. QED
    BY <2>1 DEF Bounded
<1>11. DOMAIN ran' = Jobs
  BY DEF Checked, AlertFails, StampFails, Done
<1>. QED
  BY <1>1, <1>3, <1>6, <1>9, <1>10, <1>11, CheckMoves

LEMMA CheckedStep == Types /\ OneRunEach /\ Checked /\ [Next]_vars => Checked'
<1>. SUFFICES ASSUME Types, OneRunEach, Checked, [Next]_vars PROVE Checked'
  OBVIOUS
<1>0. Shape /\ Numbers /\ offer.meets \subseteq Contacts
  BY TypesNow, MoreTypes
<1>a. DOMAIN ran = Jobs
  BY DEF Checked
<1>1. ASSUME NEW r \in Requests, Opens(r) PROVE Checked'
  <2>1. Begins(r) /\ lost' = lost /\ req[r].pc = "idle"
    BY <1>0, <1>1, Opening DEF Begins, Open
  <2>2. CASE BeginDigest(r) \/ BeginMail(r)
    BY <1>0, <1>a, <2>1, <2>2, ContactStays, BeginDigestTurn, BeginMailTurn
  <2>3. CASE BeginCheck(r)
    <3>1. /\ UNCHANGED <<contact, now>>
          /\ req'[r].pc = IF Silent = {} THEN "idle" ELSE "alert"
          /\ req'[r].by = "check" /\ req'[r].set = Silent
      BY <1>0, <2>3, BeginCheckTurn
    <3>2. DOMAIN ran' = Jobs
      BY <1>a, <2>3 DEF BeginCheck
    <3>3. CASE req'[r].pc = "idle"
      BY <2>1, <3>1, <3>2, <3>3, ContactStays
    <3>4. CASE req'[r].pc = "alert"
      <4>1. ASSUME NEW o \in Requests PROVE ~InCheck(o)
        <5>1. Open(o) => req[o].by # "check"
          BY <1>0, <2>3, <3>1, AloneAtItsJob
        <5>2. InCheck(o) => req[o].by = "check"
          BY TypesNow DEF Typed, JobTyped, InCheck
        <5>. QED
          BY <5>1, <5>2 DEF Open, InCheck
      <4>2. \A o \in Requests \ {r} : ~InCheck(o)'
        BY <2>1, <4>1, OthersAt DEF InCheck
      <4>3. ASSUME NEW c \in Contacts
            PROVE  /\ Bounded(c) => Bounded(c)'
                   /\ Vouched(c)'
                   /\ Ahead(r, c)' /\ Behind(r, c)'
        <5>1. contact'[c] = contact[c] /\ ~Unstamped(c) /\ ~Unstamped(c)'
          BY <3>1, <3>4, <4>1, <4>2 DEF Unstamped, InCheck
        <5>2. /\ Bounded(c) => Bounded(c)'
              /\ Vouched(c) => Vouched(c)'
              /\ Everyone(c)' <=> Everyone(c)
              /\ Stale(contact[c])' <=> Stale(contact[c])
              /\ Alerted(contact[c])' <=> Alerted(contact[c])
          BY <3>1, <5>1, SameContact
        <5>3. c \in req'[r].set <=> Stale(contact[c]) /\ ~Alerted(contact[c])
          BY <3>1 DEF Silent
        <5>4. Vouched(c)
          BY DEF Checked
        <5>5. Ahead(r, c)'
          BY <5>2, <5>3 DEF Ahead
        <5>6. Behind(r, c)'
          BY <5>1, <5>2, <5>3, <5>4 DEF Behind, Vouched
        <5>. QED
          BY <5>2, <5>4, <5>5, <5>6
      <4>. QED
        BY <2>1, <3>2, <4>2, <4>3 DEF Checked
    <3>. QED
      BY <3>1, <3>3, <3>4
  <2>4. ASSUME NEW c \in Contacts, NEW day, SetContact(r, c, day) PROVE Checked'
    <3>1. Contacted(c, day, NoDay)
      BY <2>4 DEF SetContact
    <3>. QED
      BY <1>0, <1>a, <2>1, <2>4, <3>1, ContactStays, SetContactTurn
  <2>5. CASE Elsewhere(r)
    BY <1>a, <2>1, <2>5, ContactStays DEF Elsewhere, InJob
  <2>6. BeginDigest(r) \/ BeginMail(r) \/ BeginCheck(r) \/ Elsewhere(r)
        \/ \E c \in Contacts : \E day : SetContact(r, c, day)
    BY <1>0, <1>1, JobOpens
  <2>. QED
    BY <2>2, <2>3, <2>4, <2>5, <2>6
<1>2. ASSUME NEW r \in Requests, Works(r) PROVE Checked'
  <2>1. Goes(r) /\ lost' = lost /\ Typed(req[r], now)
    BY <1>0, <1>2, Working, TypesNow DEF Goes
  <2>2. ASSUME NEW u, Look(r, u) PROVE Checked'
    BY <1>0, <1>a, <2>1, <2>2, ContactStays, LookTurn
  <2>3. ASSUME NEW row, Pick(r, row) PROVE Checked'
    BY <1>0, <1>a, <2>1, <2>3, ContactStays, PickTurn
  <2>4. CASE Insert(r) \/ Send(r) \/ StampSeat(r)
    BY <1>0, <1>a, <2>1, <2>4, ContactStays, InsertTurn, SendTurn, StampSeatTurn
  <2>5. CASE EndJob(r)
    <3>1. DOMAIN ran' = Jobs
      BY <1>a, <2>5 DEF EndJob, Done
    <3>. QED
      BY <1>0, <2>1, <2>5, <3>1, ContactStays, EndJobTurn
  <2>6. CASE Talk(r)
    <3>1. req[r].pc = "talk" /\ UNCHANGED <<now, ran>>
          /\ req'[r].pc \notin {"alert", "stamp"}
      BY <1>0, <2>6, TalkTurn
    <3>2. PICK c \in Contacts : c = req[r].rows
      BY <2>1, <3>1 DEF Typed, TalkTyped
    <3>3. UNCHANGED contact \/ Contacted(c, req[r].day, NoDay)
      BY <2>6, <3>2 DEF Talk, Follow
    <3>. QED
      BY <1>a, <2>1, <3>1, <3>3, ContactStays
  <2>7. CASE Elsewhere(r)
    BY <1>a, <2>1, <2>7, ContactStays DEF Elsewhere, InJob
  <2>8. ASSUME NEW c \in Contacts, Alert(r, c) PROVE Checked'
    BY <2>1, <2>8, CheckedAlert
  <2>9. ASSUME NEW c \in Contacts, AlertFails(r, c) PROVE Checked'
    <3>1. AlertFails(r, c) \/ (StampFails(r) /\ req[r].x = c)
      BY <2>9, Zenon
    <3>. QED
      BY <2>1, <3>1, CheckedFails
  <2>10. CASE Stamp(r)
    BY <2>1, <2>10, CheckedStamp
  <2>11. CASE StampFails(r)
    <3>1. req[r].x \in Contacts
      BY <1>0, <2>1, <2>11, StampFailsTurn DEF Typed, JobTyped
    <3>. QED
      BY <2>1, <2>11, <3>1, CheckedFails
  <2>. QED
    BY <1>0, <1>2, <2>2, <2>3, <2>4, <2>5, <2>6, <2>7, <2>8, <2>9, <2>10, <2>11, JobWorks
       DEF JobWork, Alerting, Stamping
<1>3. CASE Crash
  <2>1. /\ lost' # {0} /\ UNCHANGED <<contact, ran, now>>
        /\ \A r \in Requests : req'[r].pc = "idle"
    BY <1>0, <1>3, CrashLoses DEF Crash, Idle
  <2>2. ASSUME NEW c \in Contacts PROVE Vouched(c)'
    <3>1. ~Unstamped(c)'
      BY <2>1 DEF Unstamped
    <3>2. Vouched(c)
      BY DEF Checked
    <3>. QED
      BY <2>1, <3>1, <3>2 DEF Vouched, Alerted, Everyone
  <2>. QED
    BY <1>a, <2>1, <2>2 DEF Checked, InCheck
<1>4. CASE Tick
  <2>1. UNCHANGED <<contact, ran, req, lost>> /\ \A r \in Requests : ~InCheck(r)'
    BY <1>4 DEF Tick, Open, InCheck
  <2>. QED
    BY <2>1 DEF Checked, Bounded, Vouched, Unstamped, Everyone
<1>5. CASE UNCHANGED vars
  <2>1. UNCHANGED <<contact, ran, req, lost, now>>
    BY <1>5 DEF vars
  <2>. QED
    BY <2>1 DEF Checked, Bounded, Vouched, Unstamped, Everyone, InCheck, Ahead, Behind, Stale
<1>. QED
  BY <1>1, <1>2, <1>3, <1>4, <1>5, Steps

LEMMA CheckInvariant == Spec => []Checked
<1>1. ASSUME Init PROVE Checked
  <2>1. /\ \A r \in Requests : req[r].pc = "idle"
        /\ contact = [c \in Contacts |-> [last |-> NoDay, stamp |-> NoDay, alerts |-> NoneYet,
                                          failed |-> 0, crossed |-> FALSE]]
        /\ DOMAIN ran = Jobs
    BY <1>1 DEF Init, Idle
  <2>2. ASSUME NEW c \in Contacts PROVE Bounded(c) /\ Vouched(c)
    <3>1. /\ contact[c].alerts = NoneYet /\ contact[c].failed = 0 /\ contact[c].stamp = NoDay
      BY <2>1
    <3>2. ~Alerted(contact[c]) /\ ~Unstamped(c)
      BY <2>1, <3>1 DEF Alerted, Unstamped
    <3>. QED
      BY <3>1, <3>2, NoneYetType DEF Bounded, Vouched
  <2>. QED
    BY <2>1, <2>2 DEF Checked, InCheck
<1>. QED
  BY <1>1, CheckedStep, TypesInvariant, OneRun, PTL DEF Spec

(* When check-contact-inactivity has run, everybody has been alerted to    *)
(* each contact that was silent for too long, since its last contact: the  *)
(* run skips it only if its stamp is as young as the contact, and a stamp  *)
(* follows an alert, unless a new contact crossed the check.  A run that   *)
(* an alert or a stamp that failed has ended leaves out that contact and   *)
(* those that were still before it, and only those.                        *)
THEOREM SilenceIsAlerted == Spec => StaleContactsAlerted
<1>. DEFINE Reached(c, u) ==
         \/ contact'[c].alerts[u] >= 1
         \/ \E r \in Requests, d \in Contacts :
              c \in req[r].set /\ contact'[d].failed > contact[d].failed
     Reaches == ran'["check"] # ran["check"] =>
       \A c \in Contacts, u \in Users : Stale(contact[c]) /\ ~contact[c].crossed => Reached(c, u)
<1>1. ASSUME Types, Checked, [Next]_vars PROVE Reaches
  <2>. SUFFICES ASSUME ran'["check"] # ran["check"], NEW c \in Contacts, NEW u \in Users,
                       Stale(contact[c]), ~contact[c].crossed
                PROVE  Reached(c, u)
    OBVIOUS
  <2>0. Shape /\ DOMAIN ran = Jobs
    BY <1>1, TypesNow DEF Checked
  <2>1. ~Crash /\ ~Tick /\ ~UNCHANGED vars
    BY DEF Crash, Tick, vars
  <2>a. ASSUME Everyone(c), contact'[c] = contact[c] PROVE Reached(c, u)
    BY <2>a DEF Everyone
  <2>2. ASSUME NEW r \in Requests, Opens(r) PROVE Reached(c, u)
    <3>1. UNCHANGED ran \/ BeginCheck(r)
      <4>1. BeginDigest(r) \/ BeginMail(r) => UNCHANGED ran
        BY <2>0, BeginDigestTurn, BeginMailTurn
      <4>2. ASSUME NEW d, NEW day, SetContact(r, d, day) PROVE UNCHANGED ran
        BY <2>0, <4>2, SetContactTurn
      <4>. QED
        BY <2>0, <2>2, <4>1, <4>2, JobOpens DEF Elsewhere
    <3>2. BeginCheck(r)
      BY <3>1
    <3>3. Silent = {}
      BY <3>2 DEF BeginCheck, Silent
    <3>4. Alerted(contact[c]) /\ UNCHANGED contact
      BY <2>0, <3>2, <3>3, BeginCheckTurn DEF Silent
    <3>5. Everyone(c)
      BY <1>1, <3>4 DEF Checked, Vouched
    <3>. QED
      BY <2>a, <3>4, <3>5
  <2>3. ASSUME NEW r \in Requests, Works(r) PROVE Reached(c, u)
    <3>0. Typed(req[r], now)
      BY <1>1, TypesNow
    <3>1. CASE EndJob(r)
      <4>1. req[r].by \in {"digest", "mail"}
        BY <2>0, <3>0, <3>1, EndJobTurn DEF Typed, JobTyped
      <4>2. ran' = [ran EXCEPT ![req[r].by] = now]
        BY <3>1 DEF EndJob, Done
      <4>3. ran'["check"] = ran["check"]
        BY <2>0, <4>1, <4>2 DEF Jobs
      <4>. QED
        BY <4>3
    <3>2. CASE Stamp(r)
      <4>1. req[r].pc = "stamp" /\ InCheck(r)
        BY <2>0, <3>2, StampTurn DEF InCheck
      <4>2. PICK d \in Contacts : d = req[r].x /\ d \in req[r].set
        BY <3>0, <4>1 DEF Typed, JobTyped
      <4>3. contact' = [contact EXCEPT ![d].stamp = now]
        BY <3>2, <4>2 DEF Stamp
      <4>4. req[r].set \ {d} = {}
        BY <3>2, <4>2 DEF Stamp
      <4>5. /\ \A other \in Contacts \ {d} : contact'[other] = contact[other]
            /\ contact'[d].alerts = contact[d].alerts
        BY <1>1, <4>3, StampDoes
      <4>6. Everyone(c)
        <5>1. CASE c = d
          BY <1>1, <4>1, <4>2, <5>1 DEF Checked, Vouched, Unstamped
        <5>2. CASE c # d
          BY <1>1, <4>1, <4>4, <5>2 DEF Checked, Behind
        <5>. QED
          BY <5>1, <5>2
      <4>. QED
        BY <4>5, <4>6 DEF Everyone
    <3>3. ASSUME NEW d \in Contacts, NEW us \in SUBSET Users, InCheck(r), d \in req[r].set,
                 \/ contact' = [contact EXCEPT ![d].alerts = Counting(@, us), ![d].failed = @ + 1]
                 \/ contact' = [contact EXCEPT ![d].failed = @ + 1]
          PROVE  Reached(c, u)
      <4>1. /\ \A other \in Contacts \ {d} : contact'[other] = contact[other]
            /\ contact'[d].failed = contact[d].failed + 1 /\ contact[d].failed \in Nat
        BY <1>1, <3>3, FailureDoes, MoreTypes DEF ContactRecords
      <4>2. CASE c \in req[r].set
        BY <4>1, <4>2
      <4>3. CASE c \notin req[r].set
        <5>1. Everyone(c)
          BY <1>1, <3>3, <4>3 DEF Checked, Behind
        <5>. QED
          BY <2>a, <3>3, <4>1, <4>3, <5>1
      <4>. QED
        BY <4>2, <4>3
    <3>4. ASSUME NEW d \in Contacts, AlertFails(r, d) PROVE Reached(c, u)
      <4>1. InCheck(r) /\ d \in req[r].set
        BY <2>0, <3>4, AlertFailsTurn DEF InCheck
      <4>2. PICK us \in SUBSET Users :
              contact' = [contact EXCEPT ![d].alerts = Counting(@, us), ![d].failed = @ + 1]
        BY <3>4 DEF AlertFails
      <4>. QED
        BY <3>3, <4>1, <4>2
    <3>5. CASE StampFails(r)
      <4>1. req[r].pc = "stamp" /\ InCheck(r)
        BY <2>0, <3>5, StampFailsTurn DEF InCheck
      <4>2. PICK d \in Contacts : d = req[r].x /\ d \in req[r].set
        BY <3>0, <4>1 DEF Typed, JobTyped
      <4>3. contact' = [contact EXCEPT ![d].failed = @ + 1]
        BY <3>5, <4>2 DEF StampFails
      <4>4. {} \in SUBSET Users
        OBVIOUS
      <4>. QED
        BY <3>3, <4>1, <4>2, <4>3, <4>4
    <3>6. ASSUME UNCHANGED ran PROVE Reached(c, u)
      BY <3>6
    <3>7. ASSUME NEW v, Look(r, v) PROVE UNCHANGED ran
      BY <2>0, <3>7, LookTurn
    <3>8. ASSUME NEW row, Pick(r, row) PROVE UNCHANGED ran
      BY <2>0, <3>8, PickTurn
    <3>9. ASSUME Insert(r) \/ Send(r) \/ StampSeat(r) \/ Talk(r) PROVE UNCHANGED ran
      BY <2>0, <3>9, InsertTurn, SendTurn, StampSeatTurn, TalkTurn
    <3>10. ASSUME NEW d \in Contacts, Alert(r, d) PROVE UNCHANGED ran
      BY <2>0, <3>10, AlertTurn
    <3>. HIDE DEF Reached
    <3>. QED
      BY <2>0, <2>3, <3>1, <3>2, <3>4, <3>5, <3>6, <3>7, <3>8, <3>9, <3>10, JobWorks
         DEF JobWork, Elsewhere, Alerting, Stamping
  <2>. HIDE DEF Reached
  <2>. QED
    BY <1>1, <2>1, <2>2, <2>3, Steps
<1>2. Types /\ Checked /\ [Next]_vars => [Reaches]_vars
  BY <1>1
<1>. QED
  BY <1>2, TypesInvariant, CheckInvariant, PTL DEF Spec, StaleContactsAlerted
-----------------------------------------------------------------------------
(* The digest.  Only its job inserts digests, for users it has looked at.  *)
OtherNews == \A r \in Requests : req[r].pc = "tell" => \A t \in req[r].tell : t.kind # "digest"
NoDigestYet(u) == \A y \in notice : ~(y.kind = "digest" /\ y.to = u /\ y.of = now)
DigestsApart == \A x, y \in notice :
                  x.kind = "digest" /\ y.kind = "digest" /\ x.to = y.to /\ x.of = y.of => x = y
DigestOnce ==
  /\ OtherNews /\ DigestsApart
  /\ \A r \in Requests : req[r].pc = "insert" => NoDigestYet(req[r].x)

LEMMA SameDay ==
  ASSUME Types, NEW r \in Requests, Opens(r) \/ Works(r) PROVE now' = now
<1>1. ASSUME NEW u, NEW to, NEW cc, NEW report, BeginWrite(r, u, to, cc, report) PROVE now' = now
  BY <1>1, TypesNow, BeginWriteTurn
<1>2. ASSUME NEW u, NEW flag, NEW on, NEW box, BeginMark(r, u, flag, on, box) PROVE now' = now
  BY <1>2, TypesNow, BeginMarkTurn
<1>3. ASSUME NEW m, Write(r, m) PROVE now' = now
  BY <1>3, TypesNow, WriteTurn
<1>4. ASSUME MarkSeen(r) PROVE now' = now
  BY <1>4, TypesNow, MarkSeenTurn
<1>. QED
  BY <1>1, <1>2, <1>3, <1>4, BeginTypes, StepTypes DEF Opens, Works

LEMMA KindTo ==
  ASSUME NEW kind, NEW us, NEW of, NEW t \in To(kind, us, of) PROVE t.kind = kind
BY DEF To

LEMMA NewsOpens ==
  ASSUME Types, NEW r \in Requests, Opens(r)
  PROVE  req'[r].pc # "insert" /\ (req'[r].pc = "tell" => \A t \in req'[r].tell : t.kind # "digest")
<1>. DEFINE Goal == req'[r].pc # "insert"
                    /\ (req'[r].pc = "tell" => \A t \in req'[r].tell : t.kind # "digest")
<1>. SUFFICES Goal
  OBVIOUS
<1>0. Shape
  BY TypesNow
<1>1. ASSUME NEW u, NEW e, NEW us, NEW day, Create(r, u, e, us, day) PROVE Goal
  <2>1. ASSUME NEW t \in CreateTells(u, e, us, day) PROVE t.kind # "digest"
    BY <2>1, KindTo DEF CreateTells
  <2>. QED
    BY <1>0, <1>1, <2>1, CreateTurn
<1>2. ASSUME NEW u, NEW t, NEW c, NEW day, NEW e, NEW us,
             BeginTalk(r, u, t, c, day, e, us) PROVE Goal
  BY <1>0, <1>2, BeginTalkTurn
<1>3. ASSUME NEW u, NEW e, NEW us, NEW day, NEW also, BeginUpdate(r, u, e, us, day, also)
      PROVE  Goal
  BY <1>0, <1>3, BeginUpdateTurn
<1>4. ASSUME NEW u, NEW x, NEW e, NEW on, NEW also, BeginNote(r, u, x, e, on, also) PROVE Goal
  BY <1>0, <1>4, BeginNoteTurn
<1>5. ASSUME BeginDigest(r) \/ BeginMail(r) \/ BeginCheck(r) PROVE Goal
  BY <1>0, <1>5, BeginDigestTurn, BeginMailTurn, BeginCheckTurn
<1>6. ASSUME NEW x, NEW c, CloseTalk(r, x) \/ SetContact(r, c, x) \/ Remove(r, x) \/ BeginRemoveNote(r, x)
      PROVE  Goal
  BY <1>0, <1>6, CloseTalkTurn, SetContactTurn, RemoveTurn, BeginRemoveNoteTurn
<1>7. ASSUME NEW u, NEW e, NEW x, BeginRespond(r, u, e, x) \/ CreateNote(r, u, x, e) PROVE Goal
  BY <1>0, <1>7, BeginRespondTurn, CreateNoteTurn
<1>8. ASSUME NEW u, NEW us, BeginGrants(r, u, us) PROVE Goal
  BY <1>0, <1>8, BeginGrantsTurn
<1>9. ASSUME NEW u, NEW to, NEW cc, NEW report, BeginWrite(r, u, to, cc, report) PROVE Goal
  BY <1>0, <1>9, BeginWriteTurn
<1>10. ASSUME NEW u, NEW flag, NEW on, NEW box, BeginMark(r, u, flag, on, box) PROVE Goal
  BY <1>0, <1>10, BeginMarkTurn
<1>. HIDE DEF Goal
<1>. QED
  BY <1>1, <1>2, <1>3, <1>4, <1>5, <1>6, <1>7, <1>8, <1>9, <1>10 DEF Opens, BeginAgenda

LEMMA NewsWorks ==
  ASSUME Types, OtherNews, NEW r \in Requests, Works(r)
  PROVE  /\ req'[r].pc = "tell" => \A t \in req'[r].tell : t.kind # "digest"
         /\ \/ Insert(r)
            \/ \A y \in notice' \ notice : y.kind # "digest"
         /\ req'[r].pc = "insert" => NoDigestYet(req'[r].x) /\ UNCHANGED <<notice, now>>
<1>. DEFINE Goal ==
         /\ req'[r].pc = "tell" => \A t \in req'[r].tell : t.kind # "digest"
         /\ Insert(r) \/ \A y \in notice' \ notice : y.kind # "digest"
         /\ req'[r].pc = "insert" => NoDigestYet(req'[r].x) /\ UNCHANGED <<notice, now>>
<1>. SUFFICES Goal
  OBVIOUS
<1>0. Shape
  BY TypesNow
<1>1. ASSUME NEW t \in req[r].tell, Tell(r, t) PROVE Goal
  <2>1. notice' = notice \union {[kind |-> t.kind, to |-> t.to, of |-> t.of, n |-> req[r].n]}
    BY <1>1 DEF Tell
  <2>2. req[r].pc = "tell" /\ t.kind # "digest"
    BY <1>1 DEF Tell, OtherNews
  <2>3. \A y \in notice' \ notice : y.kind # "digest"
    BY <2>1, <2>2
  <2>. QED
    BY <1>0, <1>1, <2>2, <2>3, TellTurn DEF OtherNews
<1>2. ASSUME NEW u, Look(r, u) PROVE Goal
  <2>1. ~Noticed(u) => NoDigestYet(u)
    BY DEF Noticed, NoDigestYet
  <2>. QED
    BY <1>0, <1>2, <2>1, LookTurn
<1>3. ASSUME NEW row, Pick(r, row) PROVE Goal
  BY <1>0, <1>3, PickTurn
<1>4. ASSUME Update(r) PROVE Goal
  <2>1. \A t \in UpdateNotices(r, Asks(r)) : t.kind # "digest"
    BY KindTo DEF UpdateNotices
  <2>. QED
    BY <1>0, <1>4, <2>1, UpdateTurn
<1>5. ASSUME Respond(r) PROVE Goal
  <2>1. \A t \in To("CALENDAR_EVENT_RESPONSE", {event[req[r].e].by}, req[r].e) :
          t.kind # "digest"
    BY KindTo
  <2>. QED
    BY <1>0, <1>5, <2>1, RespondTurn
<1>6. ASSUME Talk(r) PROVE Goal
  <2>1. \A t \in Invitations(r) : t.kind # "digest"
    BY KindTo DEF Invitations
  <2>. QED
    BY <1>0, <1>6, <2>1, TalkTurn
<1>7. ASSUME Grant(r) PROVE Goal
  BY <1>0, <1>7, GrantTurn
<1>8. ASSUME FindReminder(r) \/ SetReminder(r) \/ RemoveNote(r) \/ RemoveReminder(r) PROVE Goal
  BY <1>0, <1>8, FindReminderTurn, SetReminderTurn, RemoveNoteTurn, RemoveReminderTurn
<1>9. ASSUME Send(r) \/ StampSeat(r) \/ EndJob(r) \/ Stamping(r) PROVE Goal
  BY <1>0, <1>9, SendTurn, StampSeatTurn, EndJobTurn, StampingTurn
<1>10. ASSUME Insert(r) PROVE Goal
  BY <1>0, <1>10, InsertTurn
<1>11. ASSUME Alerting(r) PROVE Goal
  <2>1. PICK c, us : notice' \subseteq notice \union AlertOf(r, c, us)
    BY <1>11 DEF Alerting, Alert, AlertFails
  <2>2. \A y \in notice' \ notice : y.kind # "digest"
    BY <2>1 DEF AlertOf
  <2>. QED
    BY <1>0, <1>11, <2>2, AlertingTurn
<1>12. ASSUME NEW m, Write(r, m) PROVE Goal
  <2>1. \A t \in LetterTells(r, m) : t.kind # "digest"
    BY KindTo DEF LetterTells
  <2>. QED
    BY <1>0, <1>12, <2>1, WriteTurn
<1>13. ASSUME MarkSeen(r) PROVE Goal
  BY <1>0, <1>13, MarkSeenTurn
<1>. HIDE DEF Goal
<1>. QED
  BY <1>1, <1>2, <1>3, <1>4, <1>5, <1>6, <1>7, <1>8, <1>9, <1>10, <1>11, <1>12, <1>13
     DEF Works, StepAgenda, Alerting, Stamping

LEMMA DigestOnceStep == Types /\ OneRunEach /\ DigestOnce /\ [Next]_vars => DigestOnce'
<1>. SUFFICES ASSUME Types, OneRunEach, DigestOnce, [Next]_vars PROVE DigestOnce'
  OBVIOUS
<1>0. Shape /\ OtherNews
  BY TypesNow DEF DigestOnce
<1>1. ASSUME NEW r \in Requests, Opens(r) PROVE DigestOnce'
  <2>1. Begins(r) /\ UNCHANGED notice
    BY <1>0, <1>1, Opening, OpensKeepNotices
  <2>2. now' = now
    BY <1>1, <1>0, SameDay
  <2>. QED
    BY <1>1, <2>1, <2>2, NewsOpens, OthersAt DEF DigestOnce, OtherNews, DigestsApart, NoDigestYet
<1>2. ASSUME NEW r \in Requests, Works(r) PROVE DigestOnce'
  <2>1. Goes(r) /\ now' = now
    BY <1>0, <1>2, Working, SameDay
  <2>2. OtherNews'
    BY <1>0, <1>2, <2>1, NewsWorks, OthersAt DEF OtherNews
  <2>3. CASE \A y \in notice' \ notice : y.kind # "digest"
    <3>1. DigestsApart'
      BY <2>3 DEF DigestOnce, DigestsApart
    <3>2. ASSUME NEW o \in Requests, req'[o].pc = "insert"
          PROVE  \A y \in notice' : ~(y.kind = "digest" /\ y.to = req'[o].x /\ y.of = now')
      <4>1. CASE o = r
        BY <1>0, <1>2, <2>1, <3>2, <4>1, NewsWorks DEF NoDigestYet
      <4>2. CASE o # r
        <5>1. req[o].pc = "insert" /\ req'[o].x = req[o].x
          BY <2>1, <3>2, <4>2, OthersAt
        <5>2. NoDigestYet(req[o].x)
          BY <5>1 DEF DigestOnce
        <5>. QED
          BY <2>1, <2>3, <5>1, <5>2 DEF NoDigestYet
      <4>. QED
        BY <4>1, <4>2
    <3>3. \A o \in Requests : (req[o].pc = "insert" => NoDigestYet(req[o].x))'
      BY <3>2 DEF NoDigestYet
    <3>. QED
      BY <2>2, <3>1, <3>3 DEF DigestOnce
  <2>4. CASE Insert(r)
    <3>1. /\ req[r].pc = "insert" /\ req'[r].pc = "digest"
          /\ \/ UNCHANGED notice
             \/ notice' = notice \union
                  {[kind |-> "digest", to |-> req[r].x, of |-> now, n |-> req[r].n]}
      BY <1>0, <2>4, InsertTurn DEF Insert
    <3>2. \A o \in Requests : req'[o].pc # "insert"
      <4>1. \A o \in Requests : req[o].pc = "insert" => req[o].by = "digest"
        BY TypesNow DEF Typed, JobTyped
      <4>2. \A o \in Requests \ {r} : req[o].pc # "insert"
        BY <3>1, <4>1 DEF OneRunEach, InJob
      <4>. QED
        BY <2>1, <3>1, <4>2, OthersAt
    <3>3. NoDigestYet(req[r].x)
      BY <3>1 DEF DigestOnce
    <3>4. DigestsApart'
      BY <3>1, <3>3 DEF DigestOnce, DigestsApart, NoDigestYet
    <3>. QED
      BY <2>2, <3>2, <3>4 DEF DigestOnce
  <2>. QED
    BY <1>0, <1>2, <2>3, <2>4, NewsWorks
<1>3. CASE Crash \/ Tick
  <2>1. UNCHANGED notice /\ \A r \in Requests : req'[r].pc = "idle"
    BY <1>3 DEF Crash, Tick, Open, Idle
  <2>. QED
    BY <2>1 DEF DigestOnce, OtherNews, DigestsApart
<1>4. CASE UNCHANGED vars
  BY <1>4 DEF vars, DigestOnce, OtherNews, DigestsApart, NoDigestYet
<1>. QED
  BY <1>1, <1>2, <1>3, <1>4, Steps

LEMMA DigestInvariant == Spec => []DigestOnce
<1>1. ASSUME Init PROVE DigestOnce
  <2>1. notice = {} /\ \A r \in Requests : req[r].pc = "idle"
    BY <1>1 DEF Init, Idle
  <2>. QED
    BY <2>1 DEF DigestOnce, OtherNews, DigestsApart
<1>. QED
  BY <1>1, DigestOnceStep, TypesInvariant, OneRun, PTL DEF Spec
-----------------------------------------------------------------------------
(* The reminders by mail.  Without a death a seat with a mail beyond those *)
(* whose stamp failed is stamped, or its run is about to; what the run has *)
(* still before it has none beyond those, and each seat is before it once. *)
SameSeat(a, b) == a[1] = b[1] /\ a[2] = b[2]
Paid(e, u)  == \A v \in Users : seat[e][u].mails[v] <= seat[e][u].failed
Unsent(row) == Same(row) => Paid(row[1], row[2])
Sits(row, e, u, made) == row[1] = e /\ row[2] = u /\ row[3] = made
Settled(e, u) ==
  /\ \A v \in Users : seat[e][u].mails[v] <= 1 + seat[e][u].failed
  /\ ~Paid(e, u) /\ ~seat[e][u].stamped
     => \E r \in Requests : req[r].pc = "mailed" /\ Sits(req[r].rows, e, u, seat[e][u].made)
ToMail(r) ==
  /\ req[r].pc \in {"mail", "send", "mailed"} => \A row \in req[r].set : Unsent(row)
  /\ req[r].pc = "send" => Unsent(req[r].rows)
  /\ req[r].pc \in {"mail", "send", "mailed"} =>
       \A a, b \in req[r].set : SameSeat(a, b) => a = b
  /\ req[r].pc \in {"send", "mailed"} => \A row \in req[r].set : ~SameSeat(row, req[r].rows)
MailedOnce == lost = {0} => /\ \A e \in Events, u \in Users : Settled(e, u)
                            /\ \A r \in Requests : ToMail(r)

\* A seat of which no mail is sent: the same seat, answered or stamped
\* perhaps, or one without a mail.
KeepsMails(e, u) ==
  /\ seat'[e][u].failed \in Nat
  /\ \/ seat'[e][u].mails = NoneYet
     \/ /\ seat'[e][u].mails = seat[e][u].mails /\ seat'[e][u].made = seat[e][u].made
        /\ seat[e][u].failed <= seat'[e][u].failed
        /\ seat[e][u].stamped => seat'[e][u].stamped

LEMMA SeatsKeepMails ==
  ASSUME Types, Fresh, [Next]_vars, NEW e \in Events, NEW u \in Users,
         ~\E r \in Requests : Mails(r, e, u)
  PROVE  KeepsMails(e, u)
<1>1. seat[e][u] \in SeatRecords
  BY MoreTypes
<1>2. ASSUME NEW r \in Requests, SeatStep(r, e, u), ~Mails(r, e, u) PROVE KeepsMails(e, u)
  <2>1. CASE seat'[e][u] = seat[e][u]
    BY <1>1, <2>1 DEF KeepsMails, SeatRecords
  <2>a. CASE seat'[e][u] = NoSeat
    BY <2>a DEF KeepsMails, NoSeat
  <2>2. CASE Asked(r, e, u)
    BY <2>2 DEF KeepsMails, Asked
  <2>3. CASE Responds(r, e, u)
    BY <1>1, <2>3 DEF KeepsMails, Responds, SeatRecords
  <2>4. CASE Stamps(r, e, u)
    BY <1>1, <2>4 DEF KeepsMails, Stamps, SeatRecords
  <2>. QED
    BY <1>2, <2>1, <2>a, <2>2, <2>3, <2>4 DEF SeatStep
<1>3. UNCHANGED seat => KeepsMails(e, u)
  BY <1>1 DEF KeepsMails, SeatRecords
<1>4. Crash \/ Tick \/ UNCHANGED vars => UNCHANGED seat
  BY DEF Crash, Tick, vars, plans
<1>. QED
  BY <1>2, <1>3, <1>4, Steps, SeatOpens, SeatWorks

LEMMA PaidStays ==
  ASSUME Types, NEW e \in Events, NEW u \in Users, KeepsMails(e, u),
         Paid(e, u) \/ seat'[e][u].mails = NoneYet
  PROVE  \A v \in Users : seat'[e][u].mails[v] <= seat'[e][u].failed
<1>1. seat[e][u].failed \in Nat /\ seat[e][u].mails \in [Users -> Nat]
  BY MoreTypes DEF SeatRecords
<1>2. CASE seat'[e][u].mails = NoneYet
  BY <1>2, NoneYetType DEF KeepsMails
<1>3. CASE /\ seat'[e][u].mails = seat[e][u].mails
           /\ seat[e][u].failed <= seat'[e][u].failed
           /\ Paid(e, u)
  BY <1>1, <1>3 DEF KeepsMails, Paid
<1>. QED
  BY <1>2, <1>3 DEF KeepsMails

LEMMA UnsentStays ==
  ASSUME Types, NEW row \in MailRows, KeepsMails(row[1], row[2]), Unsent(row)
  PROVE  Unsent(row)'
<1>1. row[1] \in Events /\ row[2] \in Users
  BY DEF MailRows
<1>2. Same(row)' => Paid(row[1], row[2]) \/ seat'[row[1]][row[2]].mails = NoneYet
  BY DEF KeepsMails, Unsent, Same
<1>. QED
  BY <1>1, <1>2, PaidStays DEF Unsent, Paid

\* No mail is sent, and r is not about to stamp one.
LEMMA MailQuiet ==
  ASSUME Types, MailedOnce, NEW r \in Requests, Begins(r) \/ Goes(r), lost' = lost,
         \A e \in Events, u \in Users : KeepsMails(e, u),
         req[r].pc # "mailed", lost = {0} => ToMail(r)'
  PROVE  MailedOnce'
<1>. SUFFICES ASSUME lost = {0}
              PROVE  /\ \A e \in Events, u \in Users : Settled(e, u)'
                     /\ \A o \in Requests : ToMail(o)'
  BY DEF MailedOnce
<1>1. ASSUME NEW e \in Events, NEW u \in Users PROVE Settled(e, u)'
  <2>1. Settled(e, u) /\ KeepsMails(e, u)
    BY DEF MailedOnce
  <2>a. /\ seat[e][u].failed \in Nat /\ seat[e][u].mails \in [Users -> Nat]
        /\ seat'[e][u].failed \in Nat
    BY <2>1, MoreTypes DEF SeatRecords, KeepsMails
  <2>2. CASE seat'[e][u].mails = NoneYet
    BY <2>2, <2>a, NoneYetType DEF Settled, Paid
  <2>3. CASE /\ seat'[e][u].mails = seat[e][u].mails /\ seat'[e][u].made = seat[e][u].made
             /\ seat[e][u].failed <= seat'[e][u].failed
             /\ seat[e][u].stamped => seat'[e][u].stamped
    <3>1. ASSUME ~Paid(e, u), ~seat[e][u].stamped
          PROVE  \E o \in Requests : /\ req'[o].pc = "mailed"
                                     /\ Sits(req'[o].rows, e, u, seat[e][u].made)
      <4>1. PICK o \in Requests : /\ req[o].pc = "mailed"
                                 /\ Sits(req[o].rows, e, u, seat[e][u].made)
        BY <2>1, <3>1 DEF Settled
      <4>2. o # r
        BY <4>1
      <4>. QED
        BY <4>1, <4>2, OthersAt
    <3>2. \A v \in Users : seat'[e][u].mails[v] <= 1 + seat'[e][u].failed
      BY <2>1, <2>3, <2>a DEF Settled
    <3>3. Paid(e, u) => Paid(e, u)'
      BY <2>3, <2>a DEF Paid
    <3>. QED
      BY <2>3, <3>1, <3>2, <3>3 DEF Settled
  <2>. QED
    BY <2>1, <2>2, <2>3 DEF KeepsMails
<1>2. ASSUME NEW o \in Requests \ {r} PROVE ToMail(o)'
  <2>1. req'[o].pc = req[o].pc /\ req'[o].rows = req[o].rows /\ req'[o].set = req[o].set
    BY OthersAt
  <2>2. ToMail(o) /\ Typed(req[o], now)
    BY TypesNow DEF MailedOnce
  <2>3. \A row \in MailRows : KeepsMails(row[1], row[2])
    BY DEF MailRows
  <2>4. ASSUME req[o].pc \in {"mail", "send", "mailed"}, NEW row \in req[o].set
        PROVE  Unsent(row)'
    <3>1. row \in MailRows /\ Unsent(row)
      BY <2>2, <2>4 DEF ToMail, Typed, JobTyped
    <3>. QED
      BY <2>3, <3>1, UnsentStays
  <2>5. ASSUME req[o].pc = "send"
        PROVE  \A row : row = req[o].rows => Unsent(row)'
    <3>1. req[o].rows \in MailRows /\ Unsent(req[o].rows)
      BY <2>2, <2>5 DEF ToMail, Typed, JobTyped
    <3>. QED
      BY <2>3, <3>1, UnsentStays
  <2>6. /\ req[o].pc \in {"mail", "send", "mailed"} =>
             \A a, b \in req[o].set : SameSeat(a, b) => a = b
        /\ req[o].pc \in {"send", "mailed"} =>
             \A row \in req[o].set : ~SameSeat(row, req[o].rows)
    BY <2>2 DEF ToMail
  <2>7. req[o].pc = "send" =>
          \A row : row = req[o].rows => (seat'[row[1]][row[2]].made = row[3] =>
            \A v \in Users : seat'[row[1]][row[2]].mails[v] <= seat'[row[1]][row[2]].failed)
    BY <2>5 DEF Unsent, Same, Paid
  <2>8. req[o].pc \in {"mail", "send", "mailed"} => \A row \in req[o].set :
          seat'[row[1]][row[2]].made = row[3] =>
            \A v \in Users : seat'[row[1]][row[2]].mails[v] <= seat'[row[1]][row[2]].failed
    BY <2>4 DEF Unsent, Same, Paid
  <2>. QED
    BY <2>1, <2>6, <2>7, <2>8 DEF ToMail, Unsent, Same, SameSeat, Paid
<1>. QED
  BY <1>1, <1>2

\* Only the mail job sends.
LEMMA NobodyMails ==
  ASSUME Types, NEW r \in Requests, Begins(r) \/ Goes(r),
         ~(req[r].pc = "send" /\ req'[r].pc = "mailed"), NEW e, NEW u
  PROVE  ~\E o \in Requests : Mails(o, e, u)
BY OthersAt DEF Mails

LEMMA MailOpens ==
  ASSUME Types, Fresh, OneRunEach, MailedOnce, [Next]_vars, NEW r \in Requests, Opens(r)
  PROVE  MailedOnce'
<1>1. Shape /\ Begins(r) /\ lost' = lost /\ req[r].pc = "idle"
  BY TypesNow, Opening DEF Begins, Open
<1>2. \A e \in Events, u \in Users : KeepsMails(e, u)
  BY <1>1, NobodyMails, SeatsKeepMails
<1>3. ASSUME req'[r].pc \notin {"mail", "send", "mailed"} PROVE MailedOnce'
  <2>1. ToMail(r)'
    BY <1>3 DEF ToMail
  <2>. QED
    BY <1>1, <1>2, <2>1, MailQuiet
<1>4. CASE BeginMail(r)
  <2>1. /\ UNCHANGED plans /\ req'[r].pc = "mail" /\ req'[r].by = "mail"
        /\ req'[r].set = {<<at[1], at[2], seat[at[1]][at[2]].made, Others(at[1], at[2])>> :
                            at \in {at \in Events \X Users : Unmailed(at[1], at[2])}}
    BY <1>1, <1>4, BeginMailTurn
  <2>2. ASSUME lost = {0}, NEW e \in Events, NEW u \in Users, Unmailed(e, u)
        PROVE  Paid(e, u)
    <3>1. ~seat[e][u].stamped /\ Settled(e, u)
      BY <2>2 DEF Unmailed, MailedOnce
    <3>2. ASSUME NEW o \in Requests, req[o].pc = "mailed" PROVE FALSE
      <4>1. req[o].by = "mail" /\ Open(o)
        BY <3>2, TypesNow DEF Typed, JobTyped, Open
      <4>. QED
        BY <1>1, <1>4, <2>1, <4>1, AloneAtItsJob
    <3>. QED
      BY <3>1, <3>2 DEF Settled
  <2>3. ASSUME lost = {0}, NEW row \in req'[r].set
        PROVE  \A v \in Users : seat'[row[1]][row[2]].mails[v] <= seat'[row[1]][row[2]].failed
    <3>1. PICK at \in Events \X Users : /\ Unmailed(at[1], at[2])
                                        /\ row = <<at[1], at[2], seat[at[1]][at[2]].made, Others(at[1], at[2])>>
      BY <2>1, <2>3
    <3>2. at[1] \in Events /\ at[2] \in Users /\ row[1] = at[1] /\ row[2] = at[2]
      BY <3>1
    <3>3. Paid(row[1], row[2])
      BY <2>2, <2>3, <3>1, <3>2
    <3>. QED
      BY <2>1, <3>3 DEF plans, Paid
  <2>4. ASSUME NEW a \in req'[r].set, NEW b \in req'[r].set, SameSeat(a, b) PROVE a = b
    <3>1. PICK x \in Events \X Users :
            a = <<x[1], x[2], seat[x[1]][x[2]].made, Others(x[1], x[2])>>
      BY <2>1, <2>4
    <3>2. PICK y \in Events \X Users :
            b = <<y[1], y[2], seat[y[1]][y[2]].made, Others(y[1], y[2])>>
      BY <2>1, <2>4
    <3>3. x[1] = y[1] /\ x[2] = y[2]
      BY <2>4, <3>1, <3>2 DEF SameSeat
    <3>. QED
      BY <3>1, <3>2, <3>3
  <2>5. lost = {0} => ToMail(r)'
    BY <2>1, <2>3, <2>4 DEF ToMail, Unsent, SameSeat, Paid
  <2>. QED
    BY <1>1, <1>2, <2>5, MailQuiet
<1>5. CASE BeginDigest(r) \/ BeginCheck(r)
  BY <1>1, <1>3, <1>5, BeginDigestTurn, BeginCheckTurn
<1>6. ASSUME NEW c, NEW day, SetContact(r, c, day) PROVE MailedOnce'
  BY <1>1, <1>3, <1>6, SetContactTurn
<1>7. CASE Elsewhere(r)
  BY <1>3, <1>7 DEF Elsewhere, InJob
<1>. QED
  BY <1>1, <1>4, <1>5, <1>6, <1>7, JobOpens

\* Only one request is at the mail job.
LEMMA OneMailer ==
  ASSUME Types, OneRunEach, NEW r \in Requests, NEW o \in Requests,
         req[r].pc \in {"mail", "send", "mailed"}, req[o].pc \in {"mail", "send", "mailed"}
  PROVE  o = r
<1>1. req[r].by = "mail" /\ req[o].by = "mail"
  BY TypesNow DEF Typed, JobTyped
<1>. QED
  BY <1>1 DEF OneRunEach, InJob

LEMMA MailSent ==
  ASSUME Types, OneRunEach, MailedOnce, NEW r \in Requests, Goes(r), Send(r),
         req'[r].pc = "mailed", Same(req[r].rows)
  PROVE  MailedOnce'
<1>. SUFFICES ASSUME lost = {0}
              PROVE  /\ \A e \in Events, u \in Users : Settled(e, u)'
                     /\ \A o \in Requests : ToMail(o)'
  BY DEF MailedOnce, Goes
<1>1. /\ Shape /\ req[r].pc = "send" /\ ToMail(r)
      /\ \A f \in Fields \ {"pc"} : req'[r][f] = req[r][f]
  BY TypesNow, SendTurn DEF MailedOnce
<1>2. req[r].rows \in MailRows /\ req[r].set \subseteq MailRows
  BY <1>1, TypesNow DEF Typed, JobTyped
<1>3. PICK e \in Events, u \in Users, k \in Int :
        req[r].rows[1] = e /\ req[r].rows[2] = u /\ req[r].rows[3] = k
  BY <1>2 DEF MailRows
<1>4. seat \in [Events -> [Users -> SeatRecords]] /\ seat[e][u] \in SeatRecords
  BY TypesNow
<1>6. Paid(e, u) /\ seat[e][u].made = k /\ seat[e][u].failed \in Nat
  BY <1>1, <1>3, <1>4 DEF ToMail, Unsent, Same, SeatRecords
<1>a. PICK counts : counts = Counting(seat[e][u].mails, Receivers(req[r].rows))
  OBVIOUS
<1>b. counts \in [Users -> Nat] /\ \A v \in Users : counts[v] <= 1 + seat[e][u].failed
  BY <1>4, <1>6, <1>a, CountingType DEF SeatRecords, Counting, Paid
<1>5. seat' = [seat EXCEPT ![e] = [seat[e] EXCEPT ![u] = [seat[e][u] EXCEPT !.mails = counts]]]
  <2>1. ~(req' = [req EXCEPT ![r].pc = "mail"])
    BY <1>1 DEF Shape, Fields
  <2>2. seat' = [seat EXCEPT ![e][u].mails = Counting(@, Receivers(req[r].rows))]
    BY <1>3, <2>1 DEF Send
  <2>. QED
    BY <1>4, <1>6, <1>a, <2>2
<1>7. /\ seat'[e][u].mails = counts /\ seat'[e][u].made = k
      /\ seat'[e][u].failed = seat[e][u].failed
  <2>1. seat'[e][u] = [seat[e][u] EXCEPT !.mails = counts]
    BY <1>4, <1>5
  <2>. QED
    BY <1>4, <1>6, <2>1 DEF SeatRecords
<1>8. \A f \in Events, v \in Users : ~(f = e /\ v = u) => seat'[f][v] = seat[f][v]
  BY <1>4, <1>5
<1>9. req'[r].set = req[r].set /\ req'[r].rows = req[r].rows
  BY <1>1, <1>3 DEF Fields
<1>10. \A o \in Requests \ {r} : req[o].pc \notin {"mail", "send", "mailed"}
  BY <1>1, OneMailer
<1>11. \A o \in Requests \ {r} : req'[o].pc \notin {"mail", "send", "mailed"}
  BY <1>10, OthersAt
<1>12. ASSUME NEW f \in Events, NEW v \in Users PROVE Settled(f, v)'
  <2>1. CASE f = e /\ v = u
    <3>1. \E o \in Requests : req'[o].pc = "mailed" /\ Sits(req'[o].rows, e, u, k)
      BY <1>3, <1>9 DEF Sits
    <3>. QED
      BY <1>7, <1>b, <2>1, <3>1 DEF Settled, Sits
  <2>2. CASE ~(f = e /\ v = u)
    <3>1. seat'[f][v] = seat[f][v] /\ Settled(f, v)
      BY <1>8, <2>2 DEF MailedOnce
    <3>2. \A o \in Requests : req[o].pc # "mailed"
      BY <1>1, <1>10
    <3>. QED
      BY <3>1, <3>2 DEF Settled, Paid
  <2>. QED
    BY <2>1, <2>2
<1>13. ASSUME NEW row \in req[r].set, seat'[row[1]][row[2]].made = row[3]
       PROVE  \A v \in Users : seat'[row[1]][row[2]].mails[v] <= seat'[row[1]][row[2]].failed
  <2>1. row \in MailRows /\ row[1] \in Events /\ row[2] \in Users /\ Unsent(row)
    BY <1>1, <1>2 DEF ToMail, MailRows
  <2>2. CASE row[1] = e /\ row[2] = u
    BY <1>1, <1>3, <2>2 DEF ToMail, SameSeat
  <2>3. CASE ~(row[1] = e /\ row[2] = u)
    BY <1>8, <1>13, <2>1, <2>3 DEF Unsent, Same, Paid
  <2>. QED
    BY <2>2, <2>3
<1>14. /\ \A row \in req[r].set : ~SameSeat(row, req[r].rows)
       /\ \A a, b \in req[r].set : SameSeat(a, b) => a = b
  BY <1>1 DEF ToMail
<1>15. ToMail(r)'
  BY <1>9, <1>13, <1>14 DEF ToMail, Unsent, Same, SameSeat, Paid
<1>16. \A o \in Requests \ {r} : ToMail(o)'
  BY <1>11 DEF ToMail
<1>. QED
  BY <1>12, <1>15, <1>16

LEMMA MailStamped ==
  ASSUME Types, OneRunEach, MailedOnce, NEW r \in Requests, Goes(r), StampSeat(r),
         \A e \in Events, u \in Users : KeepsMails(e, u)
  PROVE  MailedOnce'
<1>. SUFFICES ASSUME lost = {0}
              PROVE  /\ \A e \in Events, u \in Users : Settled(e, u)'
                     /\ \A o \in Requests : ToMail(o)'
  BY DEF MailedOnce, Goes
<1>1. /\ Shape /\ req[r].pc = "mailed" /\ req'[r].pc = "mail" /\ ToMail(r)
      /\ \A f \in Fields \ {"pc"} : req'[r][f] = req[r][f]
  BY TypesNow, StampSeatTurn DEF MailedOnce
<1>2. req[r].set \subseteq MailRows /\ seat \in [Events -> [Users -> SeatRecords]]
  BY <1>1, TypesNow DEF Typed, JobTyped
<1>3. \A o \in Requests \ {r} : req[o].pc \notin {"mail", "send", "mailed"}
  BY <1>1, OneMailer
<1>4. \A o \in Requests \ {r} : req'[o].pc \notin {"mail", "send", "mailed"}
  BY <1>3, OthersAt
<1>5. \A o \in Requests \ {r} : ToMail(o)'
  BY <1>4 DEF ToMail
<1>6. ToMail(r)'
  <2>1. ASSUME NEW row \in req[r].set
        PROVE  seat'[row[1]][row[2]].made = row[3] =>
               \A v \in Users : seat'[row[1]][row[2]].mails[v] <= seat'[row[1]][row[2]].failed
    <3>1. row \in MailRows /\ KeepsMails(row[1], row[2]) /\ Unsent(row)
      BY <1>1, <1>2 DEF ToMail, MailRows
    <3>. QED
      BY <3>1, UnsentStays DEF Unsent, Same, Paid
  <2>2. req'[r].set = req[r].set
    BY <1>1 DEF Fields
  <2>. QED
    BY <1>1, <2>1, <2>2 DEF ToMail, Unsent, Same, SameSeat, Paid
<1>7. ASSUME NEW e \in Events, NEW u \in Users PROVE Settled(e, u)'
  <2>1. Settled(e, u) /\ KeepsMails(e, u)
    BY DEF MailedOnce
  <2>a. /\ seat[e][u].failed \in Nat /\ seat[e][u].mails \in [Users -> Nat]
        /\ seat'[e][u].failed \in Nat
    BY <2>1, <1>2 DEF SeatRecords, KeepsMails
  <2>2. CASE seat'[e][u].mails = NoneYet
    BY <2>2, <2>a, NoneYetType DEF Settled, Paid
  <2>3. CASE /\ seat'[e][u].mails = seat[e][u].mails /\ seat'[e][u].made = seat[e][u].made
             /\ seat[e][u].failed <= seat'[e][u].failed
             /\ seat[e][u].stamped => seat'[e][u].stamped
    <3>1. ASSUME ~Paid(e, u)', ~seat'[e][u].stamped PROVE FALSE
      <4>a. ~Paid(e, u)
        BY <2>3, <2>a, <3>1 DEF Paid
      <4>1. PICK o \in Requests : /\ req[o].pc = "mailed"
                                 /\ Sits(req[o].rows, e, u, seat[e][u].made)
        BY <2>1, <2>3, <3>1, <4>a DEF Settled
      <4>2. Sits(req[r].rows, e, u, seat[e][u].made)
        BY <1>3, <4>1
      <4>3. Same(req[r].rows)
        BY <4>2 DEF Same, Sits
      <4>4. req[r].rows[1] = e /\ req[r].rows[2] = u
        BY <4>2 DEF Sits
      <4>5. \/ seat' = [seat EXCEPT ![e][u].stamped = TRUE]
            \/ seat' = [seat EXCEPT ![e][u].failed = @ + 1]
        BY <4>3, <4>4 DEF StampSeat
      <4>6. seat[e][u] \in SeatRecords
        BY <1>2
      <4>7. seat'[e][u].failed = seat[e][u].failed + 1
        BY <1>2, <3>1, <4>5, <4>6 DEF SeatRecords
      <4>. QED
        BY <2>1, <2>3, <2>a, <3>1, <4>7 DEF Settled, Paid
    <3>2. \A v \in Users : seat'[e][u].mails[v] <= 1 + seat'[e][u].failed
      BY <2>1, <2>3, <2>a DEF Settled
    <3>. QED
      BY <3>1, <3>2 DEF Settled
  <2>. QED
    BY <2>1, <2>2, <2>3 DEF KeepsMails
<1>. QED
  BY <1>5, <1>6, <1>7

LEMMA MailWorks ==
  ASSUME Types, Fresh, OneRunEach, MailedOnce, [Next]_vars, NEW r \in Requests, Works(r)
  PROVE  MailedOnce'
<1>1. Shape /\ Goes(r) /\ lost' = lost
  BY TypesNow, Working DEF Goes
<1>2. ASSUME ~(req[r].pc = "send" /\ req'[r].pc = "mailed")
      PROVE  \A e \in Events, u \in Users : KeepsMails(e, u)
  BY <1>1, <1>2, NobodyMails, SeatsKeepMails
<1>3. ASSUME req[r].pc \notin {"send", "mailed"}, lost = {0} => ToMail(r)' PROVE MailedOnce'
  BY <1>1, <1>2, <1>3, MailQuiet
<1>4. ASSUME req[r].pc \notin {"send", "mailed"}, req'[r].pc \notin {"mail", "send", "mailed"}
      PROVE  MailedOnce'
  <2>1. ToMail(r)'
    BY <1>4 DEF ToMail
  <2>. QED
    BY <1>3, <1>4, <2>1
<1>5. ASSUME NEW u, Look(r, u) PROVE MailedOnce'
  BY <1>1, <1>4, <1>5, LookTurn
<1>6. CASE Insert(r) \/ EndJob(r) \/ Alerting(r) \/ Stamping(r)
  BY <1>1, <1>4, <1>6, InsertTurn, EndJobTurn, AlertingTurn, StampingTurn
<1>7. CASE Talk(r)
  BY <1>1, <1>4, <1>7, TalkTurn
<1>8. CASE Elsewhere(r)
  BY <1>4, <1>8 DEF Elsewhere, InJob
<1>9. ASSUME NEW row \in req[r].set, Pick(r, row) PROVE MailedOnce'
  <2>1. /\ UNCHANGED plans /\ req[r].pc = "mail" /\ req'[r].set = req[r].set \ {row}
        /\ req'[r].pc = "mail" \/ (req'[r].pc = "send" /\ req'[r].rows = row)
    BY <1>1, <1>9, PickTurn
  <2>2. lost = {0} => \A w \in req[r].set : seat'[w[1]][w[2]].made = w[3] =>
          \A v \in Users : seat'[w[1]][w[2]].mails[v] <= seat'[w[1]][w[2]].failed
    BY <2>1 DEF MailedOnce, ToMail, Unsent, Same, Paid, plans
  <2>3. lost = {0} => \A a, b \in req[r].set : SameSeat(a, b) => a = b
    BY <2>1 DEF MailedOnce, ToMail
  <2>4. lost = {0} => ToMail(r)'
    BY <1>9, <2>1, <2>2, <2>3 DEF ToMail, Unsent, Same, SameSeat, Paid
  <2>. QED
    BY <1>3, <2>1, <2>4
<1>10. CASE Send(r)
  <2>1. /\ req[r].pc = "send" /\ req'[r].pc \in {"mail", "mailed"}
        /\ \A f \in Fields \ {"pc"} : req'[r][f] = req[r][f]
    BY <1>1, <1>10, SendTurn
  <2>2. CASE req'[r].pc = "mailed" /\ Same(req[r].rows)
    BY <1>1, <1>10, <2>2, MailSent
  <2>3. CASE ~(req'[r].pc = "mailed" /\ Same(req[r].rows))
    <3>1. UNCHANGED seat
      <4>1. req' = [req EXCEPT ![r].pc = "mailed"] => req'[r].pc = "mailed"
        BY <1>1 DEF Shape, Fields
      <4>. QED
        BY <1>10, <2>3, <4>1 DEF Send
    <3>2. \A e \in Events, u \in Users : KeepsMails(e, u)
      BY <3>1, TypesNow DEF KeepsMails, SeatRecords
    <3>3. lost = {0} => \A w \in req[r].set : seat'[w[1]][w[2]].made = w[3] =>
            \A v \in Users : seat'[w[1]][w[2]].mails[v] <= seat'[w[1]][w[2]].failed
      BY <2>1, <3>1 DEF MailedOnce, ToMail, Unsent, Same, Paid
    <3>4. lost = {0} => /\ \A row \in req[r].set : ~SameSeat(row, req[r].rows)
                        /\ \A a, b \in req[r].set : SameSeat(a, b) => a = b
      BY <2>1 DEF MailedOnce, ToMail
    <3>5. req'[r].set = req[r].set /\ req'[r].rows = req[r].rows
      BY <2>1 DEF Fields
    <3>6. lost = {0} => ToMail(r)'
      BY <2>1, <3>3, <3>4, <3>5 DEF ToMail, Unsent, Same, SameSeat, Paid
    <3>. QED
      BY <1>1, <2>1, <3>2, <3>6, MailQuiet
  <2>. QED
    BY <2>2, <2>3
<1>11. CASE StampSeat(r)
  BY <1>1, <1>2, <1>11, MailStamped, StampSeatTurn
<1>. QED
  BY <1>1, <1>5, <1>6, <1>7, <1>8, <1>9, <1>10, <1>11, JobWorks DEF JobWork

LEMMA MailInvariant == Spec => []MailedOnce
<1>1. ASSUME Init PROVE MailedOnce
  <2>1. \A r \in Requests : req[r].pc = "idle"
    BY <1>1 DEF Init, Idle
  <2>2. \A e \in Events, u \in Users : seat[e][u].mails = NoneYet /\ seat[e][u].failed = 0
    <3>. SUFFICES ASSUME NEW e \in Events, NEW u \in Users
                  PROVE  seat[e][u].mails = NoneYet /\ seat[e][u].failed = 0
      OBVIOUS
    <3>1. PICK start \in offer.starts : seat = [f \in Events |-> [v \in Users |->
              IF start[f] = <<>> \/ v \notin DOMAIN start[f].seats THEN NoSeat
              ELSE [NoSeat EXCEPT !.made = 0, !.status = start[f].seats[v]]]]
      BY <1>1 DEF Init
    <3>2. CASE start[e] = <<>> \/ u \notin DOMAIN start[e].seats
      <4>1. seat[e][u] = NoSeat
        BY <3>1, <3>2
      <4>. QED
        BY <4>1 DEF NoSeat
    <3>3. CASE ~(start[e] = <<>> \/ u \notin DOMAIN start[e].seats)
      <4>1. seat[e][u] = [NoSeat EXCEPT !.made = 0, !.status = start[e].seats[u]]
        BY <3>1, <3>3
      <4>. QED
        BY <4>1 DEF NoSeat
    <3>. QED
      BY <3>2, <3>3
  <2>. QED
    BY <2>1, <2>2, NoneYetType DEF MailedOnce, Settled, ToMail, Paid
<1>2. Types /\ Fresh /\ OneRunEach /\ MailedOnce /\ [Next]_vars => MailedOnce'
  <2>. SUFFICES ASSUME Types, Fresh, OneRunEach, MailedOnce, [Next]_vars PROVE MailedOnce'
    OBVIOUS
  <2>1. CASE Crash
    <3>1. lost' # {0}
      BY <2>1, TypesNow, CrashLoses
    <3>. QED
      BY <3>1 DEF MailedOnce
  <2>2. CASE Tick \/ UNCHANGED vars
    <3>1. UNCHANGED <<seat, req, lost>>
      BY <2>2 DEF Tick, vars, plans
    <3>. QED
      BY <3>1 DEF MailedOnce, Settled, ToMail, Unsent, Same, SameSeat, Paid
  <2>. QED
    BY <2>1, <2>2, Steps, MailOpens, MailWorks
<1>. QED
  BY <1>1, <1>2, TypesInvariant, FreshInvariant, OneRun, PTL DEF Spec

(* The jobs remind once, whatever runs again: check-todays-reminders looks *)
(* before it inserts a digest; send-interaction-reminders and              *)
(* check-contact-inactivity stamp after they have sent.  So only a death   *)
(* between the two lets them send again, to those with a copy too; and a   *)
(* stamp or an alert that failed is followed by one more mail or alert.    *)
THEOREM RemindersOnce == Spec => []RemindedOnce
<1>1. Types /\ Checked /\ DigestOnce /\ MailedOnce => RemindedOnce
  <2>. SUFFICES ASSUME Types, Checked, DigestOnce, MailedOnce PROVE RemindedOnce
    OBVIOUS
  <2>1. ASSUME NEW x \in notice, NEW y \in notice, x.kind = "digest", [x EXCEPT !.n = y.n] = y
        PROVE  x = y
    <3>1. DOMAIN x = {"kind", "to", "of", "n"}
      BY MoreTypes DEF NoticesMade
    <3>2. y.kind = x.kind /\ y.to = x.to /\ y.of = x.of
      BY <2>1, <3>1
    <3>. QED
      BY <2>1, <3>2 DEF DigestOnce, DigestsApart
  <2>2. lost = {0} => \A c \in Contacts, u \in Users :
                        contact[c].alerts[u] <= 1 + contact[c].failed
    BY DEF Checked, Bounded
  <2>3. lost = {0} => \A e \in Events, u, v \in Users :
                        seat[e][u].mails[v] <= 1 + seat[e][u].failed
    BY DEF MailedOnce, Settled
  <2>. QED
    BY <2>1, <2>2, <2>3 DEF RemindedOnce
<1>. QED
  BY <1>1, TypesInvariant, CheckInvariant, DigestInvariant, MailInvariant, PTL
-----------------------------------------------------------------------------
(* Notes.  While nothing crossed that takes no lock, a note has at most    *)
(* one reminder; two requests at it both write the note itself, so that    *)
(* only one of them is past the lock; what that one has read is the note's *)
(* reminder still; and a removed note has its remover, or no reminder.     *)
AtNote == {"find", "note", "remove note", "its reminder"}
At(r, x) == req[r].x = x /\ req[r].pc \in AtNote

Untorn(x) ==
  /\ \A a, b \in Reminders(x) : a = b
  /\ \A r, o \in Requests : r # o /\ At(r, x) /\ At(o, x) =>
       req[r].also /\ ~(req[r].pc = "note" /\ req[o].pc = "note")
  /\ \A r \in Requests : At(r, x) /\ req[r].pc # "find" =>
       Reminders(x) \subseteq req[r].rows /\ \A a, b \in req[r].rows : a = b
  /\ ~note[x].live =>
       /\ \A r \in Requests : At(r, x) => req[r].pc = "its reminder"
       /\ lost = {0} => Reminders(x) = {} \/ \E r \in Requests : At(r, x)
Orderly(x) ==
  /\ note[x].live => note[x].there
  /\ ~note[x].there => Reminders(x) = {} /\ \A r \in Requests : ~At(r, x)
  /\ note[x].there /\ ~note[x].torn => Untorn(x)

LEMMA OthersAtNotes ==
  ASSUME NEW r \in Requests, Begins(r) \/ Goes(r), NEW x, NEW o \in Requests \ {r}
  PROVE  /\ (At(o, x)' <=> At(o, x)) /\ req'[o].pc = req[o].pc /\ req'[o].rows = req[o].rows
         /\ req'[o].also = req[o].also /\ req'[o].x = req[o].x
BY OthersAt DEF At

\* The same requests are at x, as they were, and it gets no reminder.
LEMMA OrderlySame ==
  ASSUME NEW x \in Notes, Orderly(x), note'[x] = note[x], lost' = lost,
         \A o \in Requests : At(o, x)' <=> At(o, x),
         \A o \in Requests : At(o, x) => req'[o].pc = req[o].pc /\ req'[o].rows = req[o].rows
                                         /\ req'[o].also = req[o].also,
         Reminders(x)' \subseteq Reminders(x)
  PROVE  Orderly(x)'
<1>1. Untorn(x) => Untorn(x)'
  <2>. SUFFICES ASSUME Untorn(x) PROVE Untorn(x)'
    OBVIOUS
  <2>1. \A a, b \in Reminders(x)' : a = b
    BY DEF Untorn
  <2>2. ASSUME NEW q \in Requests, NEW o \in Requests, q # o, At(q, x)', At(o, x)'
        PROVE  req'[q].also /\ ~(req'[q].pc = "note" /\ req'[o].pc = "note")
    <3>1. req[q].also /\ ~(req[q].pc = "note" /\ req[o].pc = "note") /\ At(q, x) /\ At(o, x)
      BY <2>2 DEF Untorn
    <3>. QED
      BY <3>1
  <2>3. ASSUME NEW q \in Requests, At(q, x)', req'[q].pc # "find"
        PROVE  Reminders(x)' \subseteq req'[q].rows /\ \A a, b \in req'[q].rows : a = b
    <3>1. At(q, x) /\ req'[q].pc = req[q].pc /\ req'[q].rows = req[q].rows
      BY <2>3
    <3>2. Reminders(x) \subseteq req[q].rows /\ \A a, b \in req[q].rows : a = b
      BY <2>3, <3>1 DEF Untorn
    <3>. QED
      BY <3>1, <3>2
  <2>4. ~note'[x].live =>
          /\ \A q \in Requests : At(q, x)' => req'[q].pc = "its reminder"
          /\ lost' = {0} => Reminders(x)' = {} \/ \E q \in Requests : At(q, x)'
    BY DEF Untorn
  <2>. QED
    BY <2>1, <2>2, <2>3, <2>4 DEF Untorn
<1>. QED
  BY <1>1 DEF Orderly

\* A step that is not about x.
LEMMA OrderlyStays ==
  ASSUME NEW r \in Requests, Begins(r) \/ Goes(r), lost' = lost, NEW x \in Notes, Orderly(x),
         note'[x] = note[x], ~At(r, x), ~At(r, x)', Reminders(x)' \subseteq Reminders(x)
  PROVE  Orderly(x)'
<1>1. \A o \in Requests : At(o, x)' <=> At(o, x)
  BY OthersAtNotes
<1>2. \A o \in Requests : At(o, x) => req'[o].pc = req[o].pc /\ req'[o].rows = req[o].rows
                                      /\ req'[o].also = req[o].also
  BY OthersAtNotes
<1>. QED
  BY <1>1, <1>2, OrderlySame

\* Reminders come from live events; a new event's is the note it is made for.
LEMMA RemindersShrink ==
  ASSUME NEW x, \A e \in Events : event'[e].live /\ event'[e].of = x =>
                                    event[e].live /\ event[e].of = x
  PROVE  Reminders(x)' \subseteq Reminders(x)
BY DEF Reminders

\* The steps that are about no note.
OffNotes(r) ==
  /\ UNCHANGED note /\ {req[r].pc, req'[r].pc} \intersect AtNote = {}
  /\ \A x \in Notes : Reminders(x)' \subseteq Reminders(x)

LEMMA NoteOpens ==
  ASSUME Types, Fresh, NEW r \in Requests, Opens(r)
  PROVE  \/ OffNotes(r)
         \/ \E u : \E x \in Notes, e \in Events : CreateNote(r, u, x, e)
         \/ \E u, on, also : \E x \in Notes, e \in Events : BeginNote(r, u, x, e, on, also)
         \/ \E x \in Notes : BeginRemoveNote(r, x)
<1>. DEFINE Off == OffNotes(r)
<1>0. Shape /\ event \in [Events -> EventRecords] /\ req[r].pc = "idle"
  BY TypesNow, Opening DEF Begins, Open
<1>1. ASSUME UNCHANGED <<note, event>>, req'[r].pc \notin AtNote PROVE Off
  BY <1>0, <1>1 DEF OffNotes, AtNote, Reminders
<1>2. ASSUME NEW u, NEW e \in Events, NEW us, NEW day, Create(r, u, e, us, day) PROVE Off
  <2>1. event' = [event EXCEPT ![e] = [there |-> TRUE, live |-> TRUE, by |-> u, day |-> day,
                                       of |-> None]]
    BY <1>2 DEF Create
  <2>2. ASSUME NEW x \in Notes PROVE Reminders(x)' \subseteq Reminders(x)
    BY <1>0, <2>1, AgendaAssumption, RemindersShrink
  <2>3. UNCHANGED note /\ req'[r].pc \in {"idle", "tell"}
    BY <1>0, <1>2, CreateTurn
  <2>. QED
    BY <1>0, <2>2, <2>3 DEF OffNotes, AtNote
<1>3. ASSUME NEW e \in Events, Remove(r, e) PROVE Off
  <2>1. event' = [event EXCEPT ![e].live = FALSE]
    BY <1>3 DEF Remove
  <2>2. ASSUME NEW x \in Notes PROVE Reminders(x)' \subseteq Reminders(x)
    BY <1>0, <2>1, RemindersShrink DEF EventRecords
  <2>. QED
    BY <1>0, <1>3, <2>2, RemoveTurn DEF OffNotes, AtNote
<1>4. ASSUME NEW u, NEW e, NEW us, NEW day, NEW also, BeginUpdate(r, u, e, us, day, also)
      PROVE  Off
  BY <1>0, <1>1, <1>4, BeginUpdateTurn DEF AtNote, plans
<1>5. ASSUME NEW u, NEW t, NEW c, NEW day, NEW e, NEW us,
             BeginTalk(r, u, t, c, day, e, us) PROVE Off
  BY <1>0, <1>1, <1>5, BeginTalkTurn DEF AtNote, plans
<1>6. ASSUME NEW u, NEW e, NEW status, BeginRespond(r, u, e, status) PROVE Off
  BY <1>0, <1>1, <1>6, BeginRespondTurn DEF AtNote, plans
<1>7. ASSUME NEW u, NEW us, BeginGrants(r, u, us) PROVE Off
  BY <1>0, <1>1, <1>7, BeginGrantsTurn DEF AtNote, plans
<1>8. ASSUME NEW x, NEW c, CloseTalk(r, x) \/ SetContact(r, c, x) PROVE Off
  BY <1>0, <1>1, <1>8, CloseTalkTurn, SetContactTurn DEF AtNote, plans
<1>9. ASSUME BeginDigest(r) \/ BeginMail(r) \/ BeginCheck(r) PROVE Off
  BY <1>0, <1>1, <1>9, BeginDigestTurn, BeginMailTurn, BeginCheckTurn DEF AtNote, plans
<1>10. ASSUME NEW u, NEW to, NEW cc, NEW report, BeginWrite(r, u, to, cc, report) PROVE Off
  BY <1>0, <1>1, <1>10, BeginWriteTurn DEF AtNote, plans
<1>11. ASSUME NEW u, NEW flag, NEW on, NEW box, BeginMark(r, u, flag, on, box) PROVE Off
  BY <1>0, <1>1, <1>11, BeginMarkTurn DEF AtNote, plans
<1>. HIDE DEF Off
<1>12. \/ Off
       \/ \E u : \E x \in Notes, e \in Events : CreateNote(r, u, x, e)
       \/ \E u, on, also : \E x \in Notes, e \in Events : BeginNote(r, u, x, e, on, also)
       \/ \E x \in Notes : BeginRemoveNote(r, x)
  BY <1>2, <1>3, <1>4, <1>5, <1>6, <1>7, <1>8, <1>9, <1>10, <1>11 DEF Opens, BeginAgenda
<1>. QED
  BY <1>12 DEF Off

LEMMA NoteWorks ==
  ASSUME Types, Fresh, NEW r \in Requests, Works(r)
  PROVE  \/ FindReminder(r) \/ SetReminder(r) \/ RemoveNote(r) \/ RemoveReminder(r)
         \/ OffNotes(r)
<1>. DEFINE Off == OffNotes(r)
<1>0. Shape /\ event \in [Events -> EventRecords]
  BY TypesNow
<1>1. ASSUME UNCHANGED <<note, event>>, {req[r].pc, req'[r].pc} \intersect AtNote = {} PROVE Off
  BY <1>1 DEF OffNotes, Reminders
<1>2. ASSUME Update(r) PROVE Off
  <2>1. UNCHANGED note /\ req[r].pc = "update" /\ req'[r].pc \in {"idle", "tell"}
    BY <1>0, <1>2, UpdateTurn
  <2>2. PICK e \in Events : e = req[r].e
    BY <2>1, TargetTypes
  <2>3. UNCHANGED event
        \/ event' = [event EXCEPT ![e].day = IF req[r].day = NoDay THEN @ ELSE req[r].day]
    BY <1>2, <2>2 DEF Update, plans
  <2>4. ASSUME NEW x \in Notes PROVE Reminders(x)' \subseteq Reminders(x)
    <3>1. ASSUME NEW f \in Events PROVE event'[f].live = event[f].live /\ event'[f].of = event[f].of
      BY <1>0, <2>3 DEF EventRecords
    <3>. QED
      BY <3>1, RemindersShrink
  <2>. QED
    BY <2>1, <2>4 DEF OffNotes, AtNote
<1>3. ASSUME Talk(r) PROVE Off
  <2>1. UNCHANGED note /\ req[r].pc = "talk" /\ req'[r].pc \in {"idle", "tell"}
    BY <1>0, <1>3, TalkTurn
  <2>2. req[r].x \in Talks
    BY <2>1, TypesNow DEF Typed, TalkTyped
  <2>3. UNCHANGED event
        \/ event' = [event EXCEPT ![req[r].e] = [there |-> TRUE, live |-> TRUE, by |-> req[r].by,
                                                 day |-> now, of |-> req[r].x]]
    BY <1>3 DEF Talk, Record, plans
  <2>4. ASSUME NEW x \in Notes PROVE Reminders(x)' \subseteq Reminders(x)
    BY <1>0, <2>2, <2>3, AgendaAssumption, RemindersShrink
  <2>. QED
    BY <2>1, <2>4 DEF OffNotes, AtNote
<1>4. ASSUME NEW t, Tell(r, t) PROVE Off
  BY <1>0, <1>1, <1>4, TellTurn DEF AtNote, plans
<1>5. ASSUME Respond(r) \/ Grant(r) PROVE Off
  BY <1>0, <1>1, <1>5, RespondTurn, GrantTurn DEF AtNote, plans
<1>6. ASSUME NEW u, Look(r, u) PROVE Off
  BY <1>0, <1>1, <1>6, LookTurn DEF AtNote, plans
<1>7. ASSUME NEW row, Pick(r, row) PROVE Off
  BY <1>0, <1>1, <1>7, PickTurn DEF AtNote, plans
<1>8. ASSUME Insert(r) \/ Send(r) \/ StampSeat(r) PROVE Off
  BY <1>0, <1>1, <1>8, InsertTurn, SendTurn, StampSeatTurn DEF AtNote, plans
<1>9. ASSUME EndJob(r) \/ Alerting(r) \/ Stamping(r) PROVE Off
  BY <1>0, <1>1, <1>9, EndJobTurn, AlertingTurn, StampingTurn DEF AtNote, plans
<1>10. ASSUME NEW m, Write(r, m) PROVE Off
  BY <1>0, <1>1, <1>10, WriteTurn DEF AtNote, plans
<1>11. ASSUME MarkSeen(r) PROVE Off
  BY <1>0, <1>1, <1>11, MarkSeenTurn DEF AtNote, plans
<1>. HIDE DEF Off
<1>12. FindReminder(r) \/ SetReminder(r) \/ RemoveNote(r) \/ RemoveReminder(r) \/ Off
  BY <1>2, <1>3, <1>4, <1>5, <1>6, <1>7, <1>8, <1>9, <1>10, <1>11 DEF Works, StepAgenda, Alerting, Stamping
<1>. QED
  BY <1>12 DEF Off

\* Only whether it is torn changes of a note.
LEMMA TornStays ==
  ASSUME Types, NEW x \in Notes, NEW torn, note' = [note EXCEPT ![x].torn = torn]
  PROVE  /\ note'[x].live = note[x].live /\ note'[x].there = note[x].there
         /\ note'[x].torn = torn
         /\ \A y \in Notes \ {x} : note'[y] = note[y]
BY MoreTypes DEF NoteRecords

LEMMA OrderlyCreate ==
  ASSUME Types, Fresh, NEW r \in Requests, Begins(r), NEW u, NEW x \in Notes, NEW e \in Events,
         CreateNote(r, u, x, e), \A y \in Notes : Orderly(y), NEW y \in Notes
  PROVE  Orderly(y)'
<1>1. /\ ~note[x].there /\ ~event[e].there /\ ~event[e].live
      /\ note' = [note EXCEPT ![x] = NewNote] /\ req'[r].pc = "idle"
      /\ event \in [Events -> EventRecords]
  BY TypesNow, CreateNoteTurn DEF CreateNote, Free, Fresh, Made
<1>2. UNCHANGED event \/ event' = [event EXCEPT ![e] = [there |-> TRUE, live |-> TRUE, by |-> u,
                                                        day |-> now, of |-> x]]
  BY DEF CreateNote, NoteEvent, plans
<1>3. note \in [Notes -> NoteRecords] /\ lost' = lost /\ ~At(r, y) /\ ~At(r, y)'
  BY <1>1, MoreTypes DEF Begins, Open, At, AtNote
<1>4. CASE y # x
  <2>1. Reminders(y)' \subseteq Reminders(y)
    BY <1>1, <1>2, <1>4, RemindersShrink
  <2>. QED
    BY <1>1, <1>3, <1>4, <2>1, OrderlyStays
<1>5. CASE y = x
  <2>1. Reminders(x) = {} /\ \A o \in Requests : ~At(o, x)
    BY <1>1 DEF Orderly
  <2>2. \A o \in Requests : ~At(o, x)'
    BY <1>3, <1>5, <2>1, OthersAtNotes
  <2>3. \A a, b \in Reminders(x)' : a = b
    BY <1>1, <1>2, <2>1 DEF Reminders
  <2>4. note'[x].live /\ note'[x].there
    BY <1>1, <1>3 DEF NewNote
  <2>. QED
    BY <1>5, <2>2, <2>3, <2>4 DEF Orderly, Untorn
<1>. QED
  BY <1>4, <1>5

LEMMA OrderlyBegin ==
  ASSUME Types, NEW r \in Requests, Begins(r), NEW u, NEW x \in Notes, NEW e \in Events,
         NEW on, NEW also, BeginNote(r, u, x, e, on, also), \A y \in Notes : Orderly(y),
         NEW y \in Notes
  PROVE  Orderly(y)'
<1>1. /\ UNCHANGED plans /\ note[x].live /\ Tear(r, x, also)
      /\ req'[r].pc = "find" /\ req'[r].x = x /\ req'[r].also = also
  <2>1. note[x].live /\ Tear(r, x, also)
    BY DEF BeginNote
  <2>2. /\ UNCHANGED plans /\ req'[r].pc = "find" /\ req'[r].x = x /\ req'[r].also = also
    BY TypesNow, BeginNoteTurn
  <2>. QED
    BY <2>1, <2>2
<1>2. lost' = lost /\ ~At(r, y) /\ \A z \in Notes : Reminders(z)' = Reminders(z)
  BY <1>1 DEF Begins, Open, At, AtNote, Reminders, plans
<1>3. /\ note'[x].live = note[x].live /\ note'[x].there = note[x].there
      /\ \A z \in Notes \ {x} : note'[z] = note[z]
      /\ ~note'[x].torn => ~note[x].torn
              /\ \A o \in Requests \ {r} : req[o].x = x => also /\ req[o].also
  <2>1. PICK torn : /\ note' = [note EXCEPT ![x].torn = torn]
                    /\ torn <=> note[x].torn \/ \E o \in Requests \ {r} :
                                   req[o].x = x /\ ~(also /\ req[o].also)
    BY <1>1 DEF Tear
  <2>. QED
    BY <2>1, TornStays
<1>4. CASE y # x
  <2>1. ~At(r, y)'
    BY <1>1, <1>4 DEF At
  <2>. QED
    BY <1>2, <1>3, <1>4, <2>1, OrderlyStays
<1>5. CASE y = x
  <2>1. note[x].there
    BY <1>1 DEF Orderly
  <2>2. ASSUME ~note'[x].torn PROVE Untorn(x)'
    <3>1. Untorn(x)
      BY <1>3, <2>1, <2>2 DEF Orderly
    <3>2. \A o \in Requests \ {r} : At(o, x) => also /\ req[o].also
      BY <1>3, <2>2 DEF At
    <3>3. ASSUME NEW q \in Requests, NEW o \in Requests, q # o, At(q, x)', At(o, x)'
          PROVE  req'[q].also /\ ~(req'[q].pc = "note" /\ req'[o].pc = "note")
      <4>1. CASE q = r
        BY <1>1, <3>2, <3>3, <4>1, OthersAtNotes
      <4>2. CASE o = r
        BY <1>1, <3>2, <3>3, <4>2, OthersAtNotes
      <4>3. CASE q # r /\ o # r
        <5>1. At(q, x) /\ At(o, x) /\ req'[q].pc = req[q].pc /\ req'[o].pc = req[o].pc
              /\ req'[q].also = req[q].also
          BY <3>3, <4>3, OthersAtNotes
        <5>2. req[q].also /\ ~(req[q].pc = "note" /\ req[o].pc = "note")
          BY <3>1, <3>3, <5>1 DEF Untorn
        <5>. QED
          BY <5>1, <5>2
      <4>. QED
        BY <4>1, <4>2, <4>3
    <3>4. ASSUME NEW q \in Requests, At(q, x)', req'[q].pc # "find"
          PROVE  Reminders(x)' \subseteq req'[q].rows /\ \A a, b \in req'[q].rows : a = b
      <4>1. At(q, x) /\ req'[q].pc = req[q].pc /\ req'[q].rows = req[q].rows
        BY <1>1, <3>4, OthersAtNotes
      <4>2. Reminders(x) \subseteq req[q].rows /\ \A a, b \in req[q].rows : a = b
        BY <3>1, <3>4, <4>1 DEF Untorn
      <4>. QED
        BY <1>2, <4>1, <4>2
    <3>5. \A a, b \in Reminders(x)' : a = b
      BY <1>2, <3>1 DEF Untorn
    <3>. QED
      BY <1>1, <1>3, <3>3, <3>4, <3>5 DEF Untorn
  <2>. QED
    BY <1>1, <1>3, <1>5, <2>1, <2>2 DEF Orderly
<1>. QED
  BY <1>4, <1>5

LEMMA OrderlyBeginRemove ==
  ASSUME Types, NEW r \in Requests, Begins(r), NEW x \in Notes, BeginRemoveNote(r, x),
         \A y \in Notes : Orderly(y), NEW y \in Notes
  PROVE  Orderly(y)'
<1>1. /\ UNCHANGED plans /\ note[x].live /\ Tear(r, x, FALSE)
      /\ req'[r].pc = "remove note" /\ req'[r].x = x /\ req'[r].rows = Reminders(x)
  BY TypesNow, BeginRemoveNoteTurn DEF BeginRemoveNote
<1>2. lost' = lost /\ ~At(r, y) /\ \A z \in Notes : Reminders(z)' = Reminders(z)
  BY <1>1 DEF Begins, Open, At, AtNote, Reminders, plans
<1>3. /\ note'[x].live = note[x].live /\ note'[x].there = note[x].there
      /\ \A z \in Notes \ {x} : note'[z] = note[z]
      /\ ~note'[x].torn => ~note[x].torn /\ \A o \in Requests \ {r} : req[o].x # x
  <2>1. PICK torn : /\ note' = [note EXCEPT ![x].torn = torn]
                    /\ torn <=> note[x].torn \/ \E o \in Requests \ {r} : req[o].x = x
    BY <1>1 DEF Tear
  <2>. QED
    BY <2>1, TornStays
<1>4. CASE y # x
  <2>1. ~At(r, y)'
    BY <1>1, <1>4 DEF At
  <2>. QED
    BY <1>2, <1>3, <1>4, <2>1, OrderlyStays
<1>5. CASE y = x
  <2>1. note[x].there
    BY <1>1 DEF Orderly
  <2>2. ASSUME ~note'[x].torn PROVE Untorn(x)'
    <3>1. Untorn(x)
      BY <1>3, <2>1, <2>2 DEF Orderly
    <3>2. \A o \in Requests \ {r} : ~At(o, x)'
      BY <1>3, <2>2, OthersAtNotes DEF At
    <3>3. \A a, b \in Reminders(x) : a = b
      BY <3>1 DEF Untorn
    <3>4. \A a, b \in Reminders(x)' : a = b
      BY <1>2, <3>3
    <3>5. Reminders(x)' \subseteq req'[r].rows /\ \A a, b \in req'[r].rows : a = b
      BY <1>1, <1>2, <3>3
    <3>. QED
      BY <1>1, <1>3, <3>2, <3>4, <3>5 DEF Untorn
  <2>. QED
    BY <1>1, <1>3, <1>5, <2>1, <2>2 DEF Orderly
<1>. QED
  BY <1>4, <1>5

LEMMA AtANote ==
  ASSUME Types, NEW r \in Requests, req[r].pc \in AtNote
  PROVE  /\ req[r].x \in Notes
         /\ req[r].pc \in {"remove note", "its reminder"} => ~req[r].also
         /\ req[r].pc # "find" => req[r].rows \subseteq Events
         /\ req[r].pc \in {"find", "note"} => req[r].e \in Events
BY TypesNow DEF Typed, NoteTyped, AtNote

\* A request that removes an untorn note is alone at it.
LEMMA RemoverAlone ==
  ASSUME Types, NEW x \in Notes, Untorn(x), NEW r \in Requests, At(r, x),
         req[r].pc \in {"remove note", "its reminder"}
  PROVE  \A o \in Requests \ {r} : ~At(o, x)
BY AtANote DEF Untorn, At

LEMMA OrderlyFind ==
  ASSUME Types, NEW r \in Requests, Goes(r), FindReminder(r), \A y \in Notes : Orderly(y),
         NEW y \in Notes
  PROVE  Orderly(y)'
<1>1. /\ UNCHANGED <<plans, note>> /\ req[r].pc = "find" /\ req'[r].pc = "note"
      /\ req'[r].rows = Reminders(req[r].x)
      /\ \A f \in Fields \ {"pc", "rows"} : req'[r][f] = req[r][f]
  BY TypesNow, FindReminderTurn
<1>2. PICK x \in Notes : x = req[r].x
  BY <1>1, AtANote DEF AtNote
<1>3. /\ lost' = lost /\ \A z \in Notes : Reminders(z)' = Reminders(z)
      /\ req'[r].x = x /\ req'[r].also = req[r].also /\ note' = note
  BY <1>1, <1>2 DEF Goes, Reminders, plans, Fields
<1>4. CASE y # x
  <2>1. ~At(r, y) /\ ~At(r, y)'
    BY <1>2, <1>3, <1>4 DEF At
  <2>. QED
    BY <1>3, <2>1, OrderlyStays
<1>5. CASE y = x
  <2>1. At(r, x) /\ note[x].there
    BY <1>1, <1>2 DEF At, AtNote, Orderly
  <2>2. ASSUME ~note[x].torn PROVE Untorn(x)'
    <3>1. Untorn(x)
      BY <2>1, <2>2 DEF Orderly
    <3>2. ASSUME NEW o \in Requests \ {r}, At(o, x)
          PROVE  req[r].also /\ req[o].also /\ req[o].pc # "note"
      <4>1. req[r].also /\ req[o].also
        BY <2>1, <3>1, <3>2 DEF Untorn
      <4>2. ~(req[r].also /\ req[o].x = req[r].x /\ req[o].pc = "note" /\ req[o].also)
        BY DEF FindReminder
      <4>. QED
        BY <1>2, <3>2, <4>1, <4>2 DEF At
    <3>3. ASSUME NEW q \in Requests, NEW o \in Requests, q # o, At(q, x)', At(o, x)'
          PROVE  req'[q].also /\ ~(req'[q].pc = "note" /\ req'[o].pc = "note")
      <4>1. CASE q = r
        BY <1>3, <3>2, <3>3, <4>1, OthersAtNotes
      <4>2. CASE o = r
        BY <1>3, <3>2, <3>3, <4>2, OthersAtNotes
      <4>3. CASE q # r /\ o # r
        <5>1. At(q, x) /\ At(o, x) /\ req'[q].pc = req[q].pc /\ req'[o].pc = req[o].pc
              /\ req'[q].also = req[q].also
          BY <3>3, <4>3, OthersAtNotes
        <5>2. req[q].also /\ ~(req[q].pc = "note" /\ req[o].pc = "note")
          BY <3>1, <3>3, <5>1 DEF Untorn
        <5>. QED
          BY <5>1, <5>2
      <4>. QED
        BY <4>1, <4>2, <4>3
    <3>4. \A a, b \in Reminders(x) : a = b
      BY <3>1 DEF Untorn
    <3>5. ASSUME NEW q \in Requests, At(q, x)', req'[q].pc # "find"
          PROVE  Reminders(x)' \subseteq req'[q].rows /\ \A a, b \in req'[q].rows : a = b
      <4>1. CASE q = r
        BY <1>1, <1>2, <1>3, <3>4, <4>1
      <4>2. CASE q # r
        <5>1. At(q, x) /\ req'[q].pc = req[q].pc /\ req'[q].rows = req[q].rows
          BY <3>5, <4>2, OthersAtNotes
        <5>2. Reminders(x) \subseteq req[q].rows /\ \A a, b \in req[q].rows : a = b
          BY <3>1, <3>5, <5>1 DEF Untorn
        <5>. QED
          BY <1>3, <5>1, <5>2
      <4>. QED
        BY <4>1, <4>2
    <3>6. \A a, b \in Reminders(x)' : a = b
      BY <1>3, <3>4
    <3>7. note'[x].live
      BY <1>1, <1>3, <2>1, <3>1 DEF Untorn
    <3>. QED
      BY <3>3, <3>5, <3>6, <3>7 DEF Untorn
  <2>. QED
    BY <1>3, <1>5, <2>1, <2>2 DEF Orderly
<1>. QED
  BY <1>4, <1>5

LEMMA OrderlySet ==
  ASSUME Types, Fresh, NEW r \in Requests, Goes(r), SetReminder(r),
         \A y \in Notes : Orderly(y), NEW y \in Notes
  PROVE  Orderly(y)'
<1>1. UNCHANGED note /\ req[r].pc = "note" /\ req'[r].pc = "idle"
  BY TypesNow, SetReminderTurn
<1>2. PICK x \in Notes, e \in Events : x = req[r].x /\ e = req[r].e
  BY <1>1, AtANote DEF AtNote
<1>3. /\ lost' = lost /\ ~At(r, y)' /\ event \in [Events -> EventRecords] /\ note' = note
      /\ req[r].rows \subseteq Events
  BY <1>1, TypesNow, AtANote DEF Goes, At, AtNote
<1>4. At(r, x) /\ note[x].there
  BY <1>1, <1>2 DEF At, AtNote, Orderly
<1>5. ~event[e].live
  BY <1>1, <1>2, AgendaAssumption DEF Fresh, Reserved, Pending, Made
\* It makes a reminder only if it has found none.
<1>6. \/ /\ req[r].rows = {}
         /\ event' = [event EXCEPT ![e] = [there |-> TRUE, live |-> TRUE, by |-> req[r].by,
                                           day |-> now, of |-> x]]
      \/ \A z \in Notes : Reminders(z)' \subseteq Reminders(z)
  <2>1. CASE UNCHANGED event
    BY <2>1 DEF Reminders
  <2>2. CASE req[r].rows = {}
    BY <1>2, <2>1, <2>2 DEF SetReminder, NoteEvent, plans
  <2>3. CASE req[r].rows # {}
    <3>1. PICK f \in req[r].rows : event' = [event EXCEPT
             ![f].live = @ /\ (req[r].set # {}), ![f].day = IF req[r].set # {} THEN now ELSE @]
      BY <2>3 DEF SetReminder
    <3>2. ASSUME NEW z \in Notes PROVE Reminders(z)' \subseteq Reminders(z)
      <4>1. ASSUME NEW g \in Events
            PROVE  /\ event'[g].live => event[g].live
                   /\ event'[g].of = event[g].of
        BY <1>3, <3>1 DEF EventRecords
      <4>. QED
        BY <4>1, RemindersShrink
    <3>. QED
      BY <3>2
  <2>. QED
    BY <2>2, <2>3
<1>7. CASE y # x
  <2>1. ~At(r, y)
    BY <1>2, <1>7 DEF At
  <2>2. Reminders(y)' \subseteq Reminders(y)
    BY <1>3, <1>5, <1>6, <1>7, RemindersShrink
  <2>. QED
    BY <1>3, <2>1, <2>2, OrderlyStays
<1>8. CASE y = x
  <2>1. ASSUME ~note[x].torn PROVE Untorn(x)'
    <3>1. Untorn(x)
      BY <1>4, <2>1 DEF Orderly
    <3>2. note'[x].live
      BY <1>1, <1>3, <1>4, <3>1 DEF Untorn
    <3>3. ASSUME NEW o \in Requests, At(o, x)'
          PROVE  o # r /\ At(o, x) /\ req'[o].pc = "find" /\ req'[o].also
      <4>1. /\ o # r /\ At(o, x) /\ req'[o].pc = req[o].pc /\ req'[o].also = req[o].also
        BY <1>3, <1>8, <3>3, OthersAtNotes
      <4>2. req[r].also /\ req[o].also /\ req[o].pc # "note"
        BY <1>1, <1>4, <3>1, <4>1 DEF Untorn
      <4>3. req[o].pc \notin {"remove note", "its reminder"}
        BY <4>1, <4>2, AtANote DEF At
      <4>. QED
        BY <4>1, <4>2, <4>3 DEF At, AtNote
    <3>4. \A a, b \in Reminders(x)' : a = b
      <4>1. CASE Reminders(x)' \subseteq Reminders(x)
        BY <3>1, <4>1 DEF Untorn
      <4>2. CASE req[r].rows = {} /\ event' = [event EXCEPT ![e] =
                   [there |-> TRUE, live |-> TRUE, by |-> req[r].by, day |-> now, of |-> x]]
        <5>1. Reminders(x) = {}
          BY <1>1, <1>4, <3>1, <4>2 DEF Untorn
        <5>2. Reminders(x)' \subseteq {e}
          BY <1>3, <4>2, <5>1 DEF Reminders
        <5>. QED
          BY <5>2
      <4>. QED
        BY <1>6, <4>1, <4>2
    <3>. QED
      BY <3>2, <3>3, <3>4 DEF Untorn
  <2>. QED
    BY <1>3, <1>4, <1>8, <2>1 DEF Orderly
<1>. QED
  BY <1>7, <1>8

LEMMA OrderlyRemove ==
  ASSUME Types, NEW r \in Requests, Goes(r), RemoveNote(r), \A y \in Notes : Orderly(y),
         NEW y \in Notes
  PROVE  Orderly(y)'
<1>1. /\ UNCHANGED plans /\ req[r].pc = "remove note"
      /\ \/ req'[r].pc = "idle" /\ req[r].rows = {}
         \/ /\ req'[r].pc = "its reminder"
            /\ \A f \in Fields \ {"pc"} : req'[r][f] = req[r][f]
  BY TypesNow, RemoveNoteTurn
<1>2. PICK x \in Notes : x = req[r].x
  BY <1>1, AtANote DEF AtNote
<1>3. /\ lost' = lost /\ \A z \in Notes : Reminders(z)' = Reminders(z)
      /\ note' = [note EXCEPT ![x].live = FALSE] /\ note \in [Notes -> NoteRecords]
  BY <1>1, <1>2, MoreTypes DEF Goes, Reminders, plans, RemoveNote
<1>4. /\ ~note'[x].live /\ note'[x].there = note[x].there /\ note'[x].torn = note[x].torn
      /\ \A z \in Notes \ {x} : note'[z] = note[z]
  BY <1>3 DEF NoteRecords
<1>5. CASE y # x
  <2>1. ~At(r, y) /\ ~At(r, y)'
    BY <1>1, <1>2, <1>5 DEF At, AtNote, Fields
  <2>. QED
    BY <1>3, <1>4, <1>5, <2>1, OrderlyStays
<1>6. CASE y = x
  <2>1. At(r, x) /\ note[x].there
    BY <1>1, <1>2 DEF At, AtNote, Orderly
  <2>2. ASSUME ~note'[x].torn PROVE Untorn(x)'
    <3>1. Untorn(x)
      BY <1>4, <2>1, <2>2 DEF Orderly
    <3>2. \A o \in Requests \ {r} : ~At(o, x)'
      BY <1>1, <2>1, <3>1, RemoverAlone, OthersAtNotes
    <3>3. Reminders(x) \subseteq req[r].rows /\ \A a, b \in req[r].rows : a = b
      BY <1>1, <2>1, <3>1 DEF Untorn
    <3>4. \A a, b \in Reminders(x)' : a = b
      BY <1>3, <3>3
    <3>5. CASE req'[r].pc = "idle" /\ req[r].rows = {}
      <4>1. Reminders(x)' = {} /\ ~At(r, x)'
        BY <1>3, <3>3, <3>5 DEF At, AtNote
      <4>. QED
        BY <3>2, <3>4, <4>1 DEF Untorn
    <3>6. CASE /\ req'[r].pc = "its reminder"
               /\ \A f \in Fields \ {"pc"} : req'[r][f] = req[r][f]
      <4>1. At(r, x)' /\ req'[r].rows = req[r].rows
        BY <1>2, <3>6 DEF At, AtNote, Fields
      <4>2. Reminders(x)' \subseteq req'[r].rows /\ \A a, b \in req'[r].rows : a = b
        BY <1>3, <3>3, <4>1
      <4>. QED
        BY <3>2, <3>4, <3>6, <4>1, <4>2 DEF Untorn
    <3>. QED
      BY <1>1, <3>5, <3>6
  <2>. QED
    BY <1>4, <1>6, <2>1, <2>2 DEF Orderly
<1>. QED
  BY <1>5, <1>6

LEMMA OrderlyRemoved ==
  ASSUME Types, NEW r \in Requests, Goes(r), RemoveReminder(r), \A y \in Notes : Orderly(y),
         NEW y \in Notes
  PROVE  Orderly(y)'
<1>1. UNCHANGED note /\ req[r].pc = "its reminder" /\ req'[r].pc = "idle"
  BY TypesNow, RemoveReminderTurn
<1>2. PICK x \in Notes : x = req[r].x /\ req[r].rows \subseteq Events
  BY <1>1, AtANote DEF AtNote
<1>3. PICK e \in req[r].rows : event' = [event EXCEPT ![e].live = FALSE]
  BY DEF RemoveReminder
<1>4. /\ lost' = lost /\ note' = note /\ ~At(r, y)' /\ event \in [Events -> EventRecords]
  BY <1>1, TypesNow DEF Goes, At, AtNote
<1>5. \A f \in Events : /\ event'[f].live => event[f].live
                        /\ event'[f].of = event[f].of
  BY <1>2, <1>3, <1>4 DEF EventRecords
<1>6. \A z \in Notes : Reminders(z)' \subseteq Reminders(z)
  BY <1>5, RemindersShrink
<1>7. CASE y # x
  <2>1. ~At(r, y)
    BY <1>2, <1>7 DEF At
  <2>. QED
    BY <1>4, <1>6, <2>1, OrderlyStays
<1>8. CASE y = x
  <2>1. At(r, x) /\ note[x].there
    BY <1>1, <1>2 DEF At, AtNote, Orderly
  <2>2. ASSUME ~note[x].torn PROVE Untorn(x)'
    <3>1. Untorn(x)
      BY <2>1, <2>2 DEF Orderly
    <3>2. \A o \in Requests : ~At(o, x)'
      BY <1>1, <1>4, <1>8, <2>1, <3>1, RemoverAlone, OthersAtNotes
    <3>3. Reminders(x) \subseteq req[r].rows /\ \A a, b \in req[r].rows : a = b
      BY <1>1, <2>1, <3>1 DEF Untorn
    <3>4. Reminders(x) \subseteq {e}
      BY <3>3
    <3>5. ~event'[e].live
      BY <1>2, <1>3, <1>4 DEF EventRecords
    <3>6. Reminders(x)' = {}
      BY <1>6, <3>4, <3>5 DEF Reminders
    <3>. QED
      BY <3>2, <3>6 DEF Untorn
  <2>. QED
    BY <1>4, <1>8, <2>1, <2>2 DEF Orderly
<1>. QED
  BY <1>7, <1>8

LEMMA OrderlyStep ==
  Types /\ Fresh /\ (\A x \in Notes : Orderly(x)) /\ [Next]_vars => \A x \in Notes : Orderly(x)'
<1>. SUFFICES ASSUME Types, Fresh, \A x \in Notes : Orderly(x), [Next]_vars, NEW y \in Notes
              PROVE  Orderly(y)'
  OBVIOUS
<1>0. Shape /\ Numbers
  BY TypesNow
<1>1. ASSUME NEW r \in Requests, Begins(r) \/ Goes(r), OffNotes(r) PROVE Orderly(y)'
  <2>1. ~At(r, y) /\ ~At(r, y)' /\ note' = note /\ Reminders(y)' \subseteq Reminders(y)
    BY <1>1 DEF OffNotes, At
  <2>2. lost' = lost
    BY <1>1 DEF Begins, Goes
  <2>. QED
    BY <1>1, <2>1, <2>2, OrderlyStays
<1>2. ASSUME NEW r \in Requests, Opens(r) PROVE Orderly(y)'
  BY <1>0, <1>1, <1>2, Opening, NoteOpens, OrderlyCreate, OrderlyBegin, OrderlyBeginRemove
<1>3. ASSUME NEW r \in Requests, Works(r) PROVE Orderly(y)'
  BY <1>0, <1>1, <1>3, Working, NoteWorks, OrderlyFind, OrderlySet, OrderlyRemove,
     OrderlyRemoved
<1>4. CASE Crash
  <2>1. lost' # {0} /\ \A r \in Requests : req'[r].pc = "idle"
    BY <1>0, <1>4, CrashLoses DEF Idle
  <2>2. note' = note /\ Reminders(y)' = Reminders(y)
    BY <1>4 DEF Crash, plans, Reminders
  <2>3. \A r \in Requests : ~At(r, y)'
    BY <2>1 DEF At, AtNote
  <2>4. Untorn(y) => Untorn(y)'
    <3>1. \A a, b \in Reminders(y) : Untorn(y) => a = b
      BY DEF Untorn
    <3>2. Untorn(y) => \A a, b \in Reminders(y)' : a = b
      BY <2>2, <3>1
    <3>. QED
      BY <2>1, <2>3, <3>2 DEF Untorn
  <2>. QED
    BY <2>2, <2>3, <2>4 DEF Orderly
<1>5. CASE Tick \/ UNCHANGED vars
  <2>1. UNCHANGED <<event, note, req, lost>>
    BY <1>5 DEF Tick, vars, plans
  <2>2. \A r \in Requests : At(r, y)' <=> At(r, y)
    BY <2>1 DEF At
  <2>3. Reminders(y)' \subseteq Reminders(y)
    BY <2>1 DEF Reminders
  <2>. QED
    BY <2>1, <2>2, <2>3, OrderlySame
<1>. QED
  BY <1>2, <1>3, <1>4, <1>5, Steps

LEMMA NotesOrderly == Spec => [](\A x \in Notes : Orderly(x))
<1>1. ASSUME Init PROVE \A x \in Notes : Orderly(x)
  <2>1. \A r \in Requests : req[r].pc = "idle"
    BY <1>1 DEF Init, Idle
  <2>2. PICK start \in offer.starts :
          event = [e \in Events |-> IF start[e] = <<>> THEN NoEvent
            ELSE [there |-> TRUE, live |-> TRUE, by |-> start[e].by, day |-> start[e].day,
                  of |-> start[e].of]]
    BY <1>1 DEF Init
  <2>3. ASSUME NEW x \in Notes, NEW e \in Events PROVE ~(event[e].live /\ event[e].of = x)
    <3>1. offer \in Offers
      BY <1>1 DEF Init
    <3>2. CASE start[e] = <<>>
      BY <2>2, <3>2 DEF NoEvent
    <3>3. CASE start[e] # <<>>
      <4>1. start[e].of \in Talks \union {None}
        BY <2>2, <3>1, <3>3, OffersAssumption
      <4>. QED
        BY <2>2, <3>3, <4>1, AgendaAssumption
    <3>. QED
      BY <3>2, <3>3
  <2>4. \A x \in Notes : Reminders(x) = {}
    BY <2>3 DEF Reminders
  <2>5. \A x \in Notes : note[x] \in {NoNote, NewNote}
    BY <1>1 DEF Init
  <2>6. \A x \in Notes, r \in Requests : ~At(r, x)
    BY <2>1 DEF At, AtNote
  <2>7. \A x \in Notes : Untorn(x)
    BY <2>4, <2>6 DEF Untorn
  <2>. QED
    BY <2>4, <2>5, <2>6, <2>7 DEF Orderly, NoNote, NewNote
<1>2. (\A x \in Notes : Orderly(x)) /\ Types /\ Fresh /\ [Next]_vars
      => (\A x \in Notes : Orderly(x))'
  BY OrderlyStep
<1>. QED
  BY <1>1, <1>2, TypesInvariant, FreshInvariant, PTL DEF Spec

(* NotesService looks for a note's reminder and makes one if there is      *)
(* none: the lock of the note's row keeps two updates that write it apart, *)
(* so that it has one reminder at most; and remove, which deletes note and *)
(* reminder one after the other, leaves none unless the server dies        *)
(* between.                                                                *)
THEOREM NotesKeepOneReminder == Spec => []OneReminderPerNote
<1>1. Types /\ (\A x \in Notes : Orderly(x)) => OneReminderPerNote
  <2>. SUFFICES ASSUME Types, NEW x \in Notes, Orderly(x), note[x].there, ~note[x].torn
                PROVE  /\ \A a, b \in Reminders(x) : a = b
                       /\ ~note[x].live /\ lost = {0}
                          => \/ Reminders(x) = {}
                             \/ \E r \in Requests : req[r].pc = "its reminder" /\ req[r].x = x
    BY DEF OneReminderPerNote
  <2>. QED
    BY DEF Orderly, Untorn, At
<1>. QED
  BY <1>1, TypesInvariant, NotesOrderly, PTL
=============================================================================
