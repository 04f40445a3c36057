------------------------------- MODULE Agenda -------------------------------
(***************************************************************************)
(* What a team plans and is told of: calendar events and their attendees,  *)
(* who may look at whose calendar, the reminders of interactions and       *)
(* notes, the last contact with a contact person, and the nightly jobs     *)
(* that mail, digest and alert.  Requests read before their transactions;  *)
(* notices are sent after them, one by one.  A day is long: no request     *)
(* lasts over midnight.                                                    *)
(***************************************************************************)
EXTENDS Integers, FiniteSets

CONSTANTS Requests, Users, Events, Talks, Notes, Contacts,
          Messages,     \* of one conversation, see Messages
          Threshold,    \* days without contact until a contact is stale
          Offers        \* a behaviour's operations (ops), who acts (by), whom
                        \* he asks (asks), which contacts he meets (meets), the
                        \* events at the beginning (starts), the last day (last)
                        \* and the number of requests (most)

None == "none"
NoDay == -1
Answers == {"ACCEPTED", "DECLINED"}

ASSUME AgendaAssumption ==
  /\ Threshold \in Nat
  /\ Talks \intersect Notes = {}
  /\ None \notin Talks \union Notes \union Users \union Events
ASSUME OffersAssumption ==
  \A o \in Offers :
    /\ o.by \subseteq Users /\ o.asks \subseteq SUBSET Users /\ o.meets \subseteq Contacts
    /\ o.last \in Nat /\ o.most \in Nat
    /\ \A start \in o.starts, e \in Events : start[e] # <<>> =>
         /\ start[e].by \in Users /\ start[e].day \in Nat
         /\ start[e].of \in Talks \union {None}
         /\ \A u \in DOMAIN start[e].seats :
              start[e].seats[u] \in Answers \union {"PENDING"}

VARIABLES now, offer,
          event,     \* CalendarEvent: its creator, day, and what it is of
          seat,      \* CalendarEventAttendee, per event and user
          grants,    \* CalendarShare, per owner
          talk,      \* Interaction
          note,      \* Note; torn: changes crossed that take no lock
          contact,   \* Contact; alerts: those each user had since its last
                     \* contact, failed: how often alerting it failed since
          notice,    \* Notification: kind, recipient, subject, request
          ran,       \* per job the day of its last complete run
          letter, mark, star,   \* see Messages
          req, begun,
          lost       \* the requests that died

plans == <<event, seat>>
mail  == <<letter, mark, star>>
vars  == <<now, offer, plans, grants, talk, note, contact, notice, ran, mail,
           req, begun, lost>>

NoEvent == [there |-> FALSE, live |-> FALSE, by |-> None, day |-> 0, of |-> None]
NoneYet == [u \in Users |-> 0]
Counting(counts, us) == [u \in Users |-> counts[u] + IF u \in us THEN 1 ELSE 0]

\* mails: how often each user got the mail of this seat; failed: how often
\* its stamp failed.
NoSeat  == [made |-> -1, status |-> None, mails |-> NoneYet, stamped |-> FALSE, failed |-> 0]
NoTalk  == [there |-> FALSE, open |-> FALSE]
NewNote == [there |-> TRUE, live |-> TRUE, torn |-> FALSE]
NoNote  == [there |-> FALSE, live |-> FALSE, torn |-> FALSE]
Jobs    == {"digest", "mail", "check"}

\* n: the request's number; by, e, x: who, which event, which talk, note or
\* messages; set: what it asks for; tell: the notices still to be sent.
Idle == [pc |-> "idle", n |-> 0, by |-> None, e |-> None, x |-> None, set |-> {},
         day |-> NoDay, was |-> NoDay, rows |-> <<>>, tell |-> {}, also |-> FALSE,
         lone |-> TRUE]
Open(r) == req[r].pc # "idle"

Before(r)  == {u \in Users : req[r].rows[u] # NoSeat}
Reminders(x) == {e \in Events : event[e].live /\ event[e].of = x}
Has(op)    == op \in offer.ops

\* The id of an event that is still to be made.
Free(e) == ~event[e].there /\ \A o \in Requests : Open(o) => req[o].e # e

Init ==
  /\ now = 0
  /\ offer \in Offers
  /\ \E start \in offer.starts :
       /\ event = [e \in Events |-> IF start[e] = <<>> THEN NoEvent
            ELSE [there |-> TRUE, live |-> TRUE, by |-> start[e].by, day |-> start[e].day,
                  of |-> start[e].of]]
       /\ seat = [e \in Events |-> [u \in Users |->
            IF start[e] = <<>> \/ u \notin DOMAIN start[e].seats THEN NoSeat
            ELSE [NoSeat EXCEPT !.made = 0, !.status = start[e].seats[u]]]]
       /\ talk = [t \in Talks |-> IF \E e \in Events : event[e].of = t
                                  THEN [there |-> TRUE, open |-> TRUE] ELSE NoTalk]
  /\ lost = {0}     \* those who were invited before have been told before
  /\ grants = [u \in Users |-> {}]
  /\ note = [x \in Notes |-> IF Has("new note") THEN NoNote ELSE NewNote]
  /\ contact = [c \in Contacts |-> [last |-> NoDay, stamp |-> NoDay, alerts |-> NoneYet,
                                    failed |-> 0, crossed |-> FALSE]]
  /\ notice = {}
  /\ ran = [j \in Jobs |-> NoDay]
  /\ letter = [m \in Messages |->
       [there |-> Has("mailbox") /\ m = CHOOSE first \in Messages : TRUE,
        from |-> CHOOSE u \in Users : TRUE, to |-> Users, cc |-> {}, report |-> None, made |-> 0]]
  /\ mark = {} /\ star = {}
  /\ req = [r \in Requests |-> Idle]
  /\ begun = 0

(* A request begins; lone: no other request was under way while it was.    *)
Enter(r, new) ==
  /\ ~Open(r) /\ begun < offer.most
  /\ begun' = begun + 1
  /\ LET others == {o \in Requests \ {r} : Open(o)} IN
     req' = [o \in Requests |->
               IF o = r THEN [new EXCEPT !.n = begun + 1, !.lone = (others = {})]
               ELSE IF o \in others THEN [req[o] EXCEPT !.lone = FALSE]
               ELSE req[o]]

Answer(r) == req' = [req EXCEPT ![r] = Idle] /\ UNCHANGED begun

\* After the commit: the notices, if any.
ThenTell(r, tell) ==
  /\ req' = [req EXCEPT ![r] = IF tell = {} THEN Idle
                               ELSE [@ EXCEPT !.pc = "tell", !.tell = tell]]
  /\ UNCHANGED begun

(* NotificationsService.create, for one recipient; and again.              *)
Tell(r, t) ==
  /\ req[r].pc = "tell" /\ t \in req[r].tell
  /\ notice' = notice \union {[kind |-> t.kind, to |-> t.to, of |-> t.of, n |-> req[r].n]}
  /\ ThenTell(r, req[r].tell \ {t})
  /\ UNCHANGED <<now, offer, plans, grants, talk, note, contact, ran, mail, lost>>

To(kind, us, of) == {[kind |-> kind, to |-> u, of |-> of] : u \in us}
-----------------------------------------------------------------------------
(* Calendar events.  The creator has accepted, the others are asked.       *)
NewSeat(n, u, by) ==
  [NoSeat EXCEPT !.made = n, !.status = IF u = by THEN "ACCEPTED" ELSE "PENDING"]
NewSeats(n, by, us) == [u \in Users |-> IF u \in us THEN NewSeat(n, u, by) ELSE NoSeat]

(* create: one insert; the invitations, and a notice of today.             *)
Create(r, u, e, us, day) ==
  /\ Has("create") /\ Free(e)
  /\ LET tell == To("CALENDAR_EVENT_INVITE", us \ {u}, e)
                 \union (IF u \in us /\ day = now THEN To("due today", {u}, now) ELSE {}) IN
     Enter(r, [Idle EXCEPT !.pc = IF tell = {} THEN "idle" ELSE "tell", !.tell = tell])
  /\ event' = [event EXCEPT ![e] = [there |-> TRUE, live |-> TRUE, by |-> u, day |-> day,
                                    of |-> None]]
  /\ seat' = [seat EXCEPT ![e] = NewSeats(begun + 1, u, us)]
  /\ UNCHANGED <<now, offer, grants, talk, note, contact, notice, ran, mail, lost>>

(* update, by any user: reads the event and its attendees; day: the new    *)
(* one, or NoDay; also: a note of those that stay is changed.              *)
BeginUpdate(r, u, e, us, day, also) ==
  /\ Has("update") /\ event[e].live
  /\ Enter(r, [Idle EXCEPT !.pc = "update", !.by = u, !.e = e, !.set = us, !.day = day,
                           !.was = event[e].day, !.rows = seat[e], !.also = also])
  /\ UNCHANGED <<now, offer, plans, grants, talk, note, contact, notice, ran, mail, lost>>

\* The notices: to those newly asked, and, if the day changed, to those who
\* had accepted.
UpdateNotices(r, asked) ==
  LET q == req[r]  e == q.e IN
  To("CALENDAR_EVENT_INVITE", asked \ {event[e].by}, e)
    \union (IF q.day \notin {NoDay, q.was}
            THEN To("CALENDAR_EVENT_UPDATED",
                    {u \in Users \ {q.by} : seat'[e][u].status = "ACCEPTED"}, e)
            ELSE {})

(* Mutant of Update: removes all attendees and makes them anew.            *)
UpdateAll(r) ==
  LET q == req[r]  e == q.e IN
  /\ q.pc = "update"
  /\ event' = [event EXCEPT ![e].day = IF q.day = NoDay THEN @ ELSE q.day]
  /\ seat' = [seat EXCEPT ![e] = NewSeats(q.n, event[e].by, q.set)]
  /\ ThenTell(r, UpdateNotices(r, q.set))
  /\ UNCHANGED <<now, offer, grants, talk, note, contact, notice, ran, mail, lost>>

(* The transaction: those no longer asked are removed, by the rows as they *)
(* were read; those who were not there are added.  It fails on a seat that *)
(* is there already, and on a changed note of a row that has gone.         *)
Update(r) ==
  LET q == req[r]  e == q.e  new == q.set \ Before(r)
      gone(u) == seat[e][u].made # q.rows[u].made IN
  /\ q.pc = "update"
  /\ IF \/ \E u \in new : seat[e][u] # NoSeat
        \/ q.also /\ \E u \in q.set \intersect Before(r) : gone(u)
     THEN Answer(r) /\ UNCHANGED plans
     ELSE /\ event' = [event EXCEPT ![e].day = IF q.day = NoDay THEN @ ELSE q.day]
          /\ seat' = [seat EXCEPT ![e] = [u \in Users |->
               IF u \in new THEN NewSeat(q.n, u, event[e].by)
               ELSE IF u \in Before(r) \ q.set /\ ~gone(u) THEN NoSeat
               ELSE @[u]]]
          /\ ThenTell(r, UpdateNotices(r, new))
  /\ UNCHANGED <<now, offer, grants, talk, note, contact, notice, ran, mail, lost>>

(* respond: the own row is read, then updated by its id.                   *)
BeginRespond(r, u, e, status) ==
  /\ Has("respond") /\ event[e].live /\ seat[e][u] # NoSeat /\ u # event[e].by
  /\ Enter(r, [Idle EXCEPT !.pc = "respond", !.by = u, !.e = e, !.set = {status},
                           !.rows = seat[e]])
  /\ UNCHANGED <<now, offer, plans, grants, talk, note, contact, notice, ran, mail, lost>>

Respond(r) ==
  LET q == req[r]  e == q.e  u == q.by IN
  /\ q.pc = "respond"
  /\ IF seat[e][u].made # q.rows[u].made THEN Answer(r) /\ UNCHANGED seat
     ELSE /\ seat' = [seat EXCEPT ![e][u].status = CHOOSE s \in q.set : TRUE]
          /\ ThenTell(r, To("CALENDAR_EVENT_RESPONSE", {event[e].by}, e))
  /\ UNCHANGED <<now, offer, event, grants, talk, note, contact, notice, ran, mail, lost>>

(* remove: by its creator.                                                 *)
Remove(r, e) ==
  /\ Has("remove") /\ event[e].live
  /\ Enter(r, Idle)
  /\ event' = [event EXCEPT ![e].live = FALSE]
  /\ UNCHANGED <<now, offer, seat, grants, talk, note, contact, notice, ran, mail, lost>>
-----------------------------------------------------------------------------
(* CalendarSharesService.setGrants: deleteMany, then createMany; what an   *)
(* overlapping request inserts is not seen by the first, and met by the    *)
(* second.                                                                 *)
BeginGrants(r, u, us) ==
  /\ Has("grants")
  /\ Enter(r, [Idle EXCEPT !.pc = "grant", !.by = u, !.set = us \ {u}, !.rows = grants[u]])
  /\ UNCHANGED <<now, offer, plans, grants, talk, note, contact, notice, ran, mail, lost>>

Viewers(rows) == {row.to : row \in rows}

Grant(r) ==
  LET q == req[r]  left == grants[q.by] \ q.rows IN
  /\ q.pc = "grant"
  /\ grants' = IF Viewers(left) \intersect q.set = {}
               THEN [grants EXCEPT ![q.by] = left \union {[to |-> u, n |-> q.n] : u \in q.set}]
               ELSE grants
  /\ Answer(r)
  /\ UNCHANGED <<now, offer, plans, talk, note, contact, notice, ran, mail, lost>>
-----------------------------------------------------------------------------
(* Interactions: create reads its contact c in its transaction; e: the     *)
(* reminder's event, or None; us: its assignees.                           *)
BeginTalk(r, u, t, c, day, e, us) ==
  /\ Has("talk") /\ ~talk[t].there
  /\ \A o \in Requests : Open(o) => req[o].x # t
  /\ e # None => Free(e)
  /\ Enter(r, [Idle EXCEPT !.pc = "talk", !.by = u, !.x = t, !.e = e, !.set = us,
                           !.day = day, !.rows = c, !.was = contact[c].last])
  /\ UNCHANGED <<now, offer, plans, grants, talk, note, contact, notice, ran, mail, lost>>

\* A change of the last contact forgets the alert, with it or after it.
Checking == \E r \in Requests : req[r].pc \in {"alert", "stamp"}
Contacted(c, day, stamp) ==
  contact' = [contact EXCEPT ![c] = [last |-> day, stamp |-> stamp, alerts |-> NoneYet,
                                     failed |-> 0, crossed |-> Checking]]

\* The rest of create, once it is decided what becomes of the contact.
Record(r) ==
  LET q == req[r] IN
  /\ q.pc = "talk"
  /\ talk' = [talk EXCEPT ![q.x] = [there |-> TRUE, open |-> TRUE]]
  /\ IF q.e = None THEN UNCHANGED plans
     ELSE /\ event' = [event EXCEPT ![q.e] = [there |-> TRUE, live |-> TRUE, by |-> q.by,
                                              day |-> now, of |-> q.x]]
          /\ seat' = [seat EXCEPT ![q.e] = NewSeats(q.n, q.by, q.set)]
  /\ UNCHANGED <<now, offer, grants, note, notice, ran, mail, lost>>

Invitations(r) == IF req[r].e = None THEN {}
                  ELSE To("CALENDAR_EVENT_INVITE", req[r].set \ {req[r].by}, req[r].e)

\* Whether the last contact that was read is before this one.
Later(r) == req[r].was < req[r].day
Follow(r, stamp) == Contacted(req[r].rows, req[r].day, stamp)

(* Mutants of Talk: nobody is invited; the contact always follows; the     *)
(* alert is not forgotten.                                                 *)
TalkSilently(r) ==
  /\ Record(r) /\ Answer(r)
  /\ IF Later(r) THEN Follow(r, NoDay) ELSE UNCHANGED contact
TalkFollows(r) ==
  /\ Record(r) /\ ThenTell(r, Invitations(r)) /\ Follow(r, NoDay)
TalkKeepsStamp(r) ==
  /\ Record(r) /\ ThenTell(r, Invitations(r))
  /\ IF Later(r) THEN Follow(r, contact[req[r].rows].stamp) ELSE UNCHANGED contact

(* It commits: the interaction, the contact's last contact if the contact  *)
(* that was read had an earlier one, the reminder; then the invitations.   *)
Talk(r) ==
  /\ Record(r) /\ ThenTell(r, Invitations(r))
  /\ IF Later(r) THEN Follow(r, NoDay) ELSE UNCHANGED contact

(* update and remove of an interaction.                                    *)
CloseTalk(r, t) ==
  /\ Has("close") /\ talk[t].there
  /\ Enter(r, Idle)
  /\ talk' = [talk EXCEPT ![t].open = FALSE]
  /\ UNCHANGED <<now, offer, plans, grants, note, contact, notice, ran, mail, lost>>

(* ContactsService.update with a last contact.                             *)
SetContact(r, c, day) ==
  /\ Has("contact")
  /\ Enter(r, Idle)
  /\ Contacted(c, day, NoDay)
  /\ UNCHANGED <<now, offer, plans, grants, talk, note, notice, ran, mail, lost>>
-----------------------------------------------------------------------------
(* Notes and their one reminder.                                           *)
NoteEvent(e, u, x, n) ==
  /\ event' = [event EXCEPT ![e] = [there |-> TRUE, live |-> TRUE, by |-> u, day |-> now,
                                    of |-> x]]
  /\ seat' = [seat EXCEPT ![e] = NewSeats(n, u, {u})]

CreateNote(r, u, x, e) ==
  /\ Has("new note") /\ ~note[x].there /\ Free(e)
  /\ Enter(r, Idle)
  /\ note' = [note EXCEPT ![x] = NewNote]
  /\ UNCHANGED plans \/ NoteEvent(e, u, x, begun + 1)
  /\ UNCHANGED <<now, offer, grants, talk, contact, notice, ran, mail, lost>>

\* Beside another change of the note; both may be held apart by its lock.
Tear(r, x, locks) ==
  note' = [note EXCEPT ![x].torn = @ \/ \E o \in Requests \ {r} :
                                            req[o].x = x /\ ~(locks /\ req[o].also)]

(* update with a reminder (on) or with null; also: the note's own columns  *)
(* are written too, which locks its row until the commit.                  *)
BeginNote(r, u, x, e, on, also) ==
  /\ Has("note") /\ note[x].live /\ Free(e)
  /\ Enter(r, [Idle EXCEPT !.pc = "find", !.by = u, !.x = x, !.e = e, !.also = also,
                           !.set = IF on THEN {x} ELSE {}])
  /\ Tear(r, x, also)
  /\ UNCHANGED <<now, offer, plans, grants, talk, contact, notice, ran, mail, lost>>

(* Mutant of FindReminder: does not look.                                  *)
FindNothing(r) ==
  /\ req[r].pc = "find"
  /\ req' = [req EXCEPT ![r].pc = "note", ![r].rows = {}]
  /\ UNCHANGED <<now, offer, plans, grants, talk, note, contact, notice, ran, mail, begun, lost>>

FindReminder(r) ==
  /\ req[r].pc = "find"
  /\ \A o \in Requests :
       ~(req[r].also /\ req[o].x = req[r].x /\ req[o].pc = "note" /\ req[o].also)
  /\ req' = [req EXCEPT ![r].pc = "note", ![r].rows = Reminders(req[r].x)]
  /\ UNCHANGED <<now, offer, plans, grants, talk, note, contact, notice, ran, mail, begun, lost>>

SetReminder(r) ==
  LET q == req[r]  on == q.set # {} IN
  /\ q.pc = "note"
  /\ IF q.rows = {}
     THEN IF on THEN NoteEvent(q.e, q.by, q.x, q.n) ELSE UNCHANGED plans
     ELSE \E e \in q.rows :
            /\ event' = [event EXCEPT ![e].live = @ /\ on, ![e].day = IF on THEN now ELSE @]
            /\ UNCHANGED seat
  /\ Answer(r)
  /\ UNCHANGED <<now, offer, grants, talk, note, contact, notice, ran, mail, lost>>

(* remove: reads the reminder before the transaction.                      *)
BeginRemoveNote(r, x) ==
  /\ Has("remove note") /\ note[x].live
  /\ Enter(r, [Idle EXCEPT !.pc = "remove note", !.x = x, !.rows = Reminders(x)])
  /\ Tear(r, x, FALSE)
  /\ UNCHANGED <<now, offer, plans, grants, talk, contact, notice, ran, mail, lost>>

(* The two deletions are soft ones, which the client extension sends past   *)
(* the transaction: each commits by itself.                                *)
RemoveNote(r) ==
  LET q == req[r] IN
  /\ q.pc = "remove note"
  /\ \A o \in Requests : ~(req[o].x = q.x /\ req[o].pc = "note" /\ req[o].also)
  /\ note' = [note EXCEPT ![q.x].live = FALSE]
  /\ req' = [req EXCEPT ![r] = IF q.rows = {} THEN Idle ELSE [q EXCEPT !.pc = "its reminder"]]
  /\ UNCHANGED <<now, offer, plans, grants, talk, contact, notice, ran, mail, begun, lost>>

RemoveReminder(r) ==
  /\ req[r].pc = "its reminder"
  /\ \E e \in req[r].rows : event' = [event EXCEPT ![e].live = FALSE]
  /\ Answer(r)
  /\ UNCHANGED <<now, offer, seat, grants, talk, note, contact, notice, ran, mail, lost>>
-----------------------------------------------------------------------------
(* The nightly jobs; one run of each at a time, again if it died.          *)
BeginJob(r, job, new) ==
  /\ Has(job) /\ ran[job] # now
  /\ \A o \in Requests : Open(o) => req[o].by # job
  /\ Enter(r, [new EXCEPT !.by = job])
Done(r) == ran' = [ran EXCEPT ![req[r].by] = now] /\ Answer(r)

Accepted(e, u) == event[e].live /\ event[e].day = now /\ seat[e][u].status = "ACCEPTED"

(* check-todays-reminders: everybody who has accepted something of today.  *)
BeginDigest(r) ==
  /\ BeginJob(r, "digest", [Idle EXCEPT !.pc = "digest",
       !.set = {u \in Users : \E e \in Events : Accepted(e, u)}])
  /\ UNCHANGED <<now, offer, plans, grants, talk, note, contact, notice, ran, mail, lost>>

Noticed(u) == \E x \in notice : x.kind \in {"due today", "digest"} /\ x.to = u /\ x.of = now

(* Mutant of Look: takes nobody for noticed.                               *)
LookAtNobody(r, u) ==
  /\ req[r].pc = "digest" /\ u \in req[r].set
  /\ req' = [req EXCEPT ![r].pc = "insert", ![r].x = u]
  /\ UNCHANGED <<now, offer, plans, grants, talk, note, contact, notice, ran, mail, begun, lost>>

Look(r, u) ==
  /\ req[r].pc = "digest" /\ u \in req[r].set
  /\ req' = IF Noticed(u) THEN [req EXCEPT ![r].set = @ \ {u}]
            ELSE [req EXCEPT ![r].pc = "insert", ![r].x = u]
  /\ UNCHANGED <<now, offer, plans, grants, talk, note, contact, notice, ran, mail, begun, lost>>

(* A failure is logged, and the next user's turn.                          *)
Insert(r) ==
  /\ req[r].pc = "insert"
  /\ \/ UNCHANGED notice
     \/ notice' = notice \union
          {[kind |-> "digest", to |-> req[r].x, of |-> now, n |-> req[r].n]}
  /\ req' = [req EXCEPT ![r].pc = "digest", ![r].set = @ \ {req[r].x}]
  /\ UNCHANGED <<now, offer, plans, grants, talk, note, contact, ran, mail, begun, lost>>

(* send-interaction-reminders: the accepted seats of reminders of today    *)
(* that have not been mailed, each with the others who have accepted.      *)
Unmailed(e, u) == Accepted(e, u) /\ ~seat[e][u].stamped /\ event[e].of \in Talks
Others(e, u)   == {v \in Users \ {u} : seat[e][v].status = "ACCEPTED"}

BeginMail(r) ==
  /\ BeginJob(r, "mail", [Idle EXCEPT !.pc = "mail",
       !.set = {<<at[1], at[2], seat[at[1]][at[2]].made, Others(at[1], at[2])>> :
                  at \in {at \in Events \X Users : Unmailed(at[1], at[2])}}])
  /\ UNCHANGED <<now, offer, plans, grants, talk, note, contact, notice, ran, mail, lost>>

(* Not for an interaction that is closed.                                  *)
Pick(r, row) ==
  /\ req[r].pc = "mail" /\ row \in req[r].set
  /\ req' = IF talk[event[row[1]].of].open
            THEN [req EXCEPT ![r].pc = "send", ![r].rows = row, ![r].set = @ \ {row}]
            ELSE [req EXCEPT ![r].set = @ \ {row}]
  /\ UNCHANGED <<now, offer, plans, grants, talk, note, contact, notice, ran, mail, begun, lost>>

Same(row) == seat[row[1]][row[2]].made = row[3]
Receivers(row) == {row[2]} \union row[4]

(* The mail is sent, with its copies, or not; if it is, the row is stamped *)
(* next.  A mail or a stamp that fails is logged, and the next row's turn. *)
Send(r) ==
  LET row == req[r].rows IN
  /\ req[r].pc = "send"
  /\ \/ req' = [req EXCEPT ![r].pc = "mail"] /\ UNCHANGED seat
     \/ /\ req' = [req EXCEPT ![r].pc = "mailed"]
        /\ seat' = IF Same(row)
                   THEN [seat EXCEPT ![row[1]][row[2]].mails = Counting(@, Receivers(row))]
                   ELSE seat
  /\ UNCHANGED <<now, offer, event, grants, talk, note, contact, notice, ran, mail, begun, lost>>

StampSeat(r) ==
  LET row == req[r].rows IN
  /\ req[r].pc = "mailed"
  /\ req' = [req EXCEPT ![r].pc = "mail"]
  /\ \/ seat' = IF Same(row) THEN [seat EXCEPT ![row[1]][row[2]].stamped = TRUE] ELSE seat
     \/ /\ Same(row)
        /\ seat' = [seat EXCEPT ![row[1]][row[2]].failed = @ + 1]
  /\ UNCHANGED <<now, offer, event, grants, talk, note, contact, notice, ran, mail, begun, lost>>

EndJob(r) ==
  /\ req[r].pc \in {"digest", "mail"} /\ req[r].set = {}
  /\ Done(r)
  /\ UNCHANGED <<now, offer, plans, grants, talk, note, contact, notice, mail, lost>>

(* check-contact-inactivity: a contact without a last contact counts from  *)
(* its creation, on day 0.                                                 *)
LastContact(c) == IF c.last = NoDay THEN 0 ELSE c.last
Stale(c)   == LastContact(c) < now - Threshold
Alerted(c) == c.stamp # NoDay /\ c.stamp >= LastContact(c)

BeginCheck(r) ==
  LET silent == {c \in Contacts : Stale(contact[c]) /\ ~Alerted(contact[c])} IN
  /\ BeginJob(r, "check", [Idle EXCEPT !.set = silent,
       !.pc = IF silent = {} THEN "idle" ELSE "alert"])
  /\ ran' = IF silent = {} THEN [ran EXCEPT !["check"] = now] ELSE ran
  /\ UNCHANGED <<now, offer, plans, grants, talk, note, contact, notice, mail, lost>>

AlertOf(r, c, us) == {[kind |-> "CONTACT_INACTIVITY_ALERT", to |-> u, of |-> c,
                       n |-> req[r].n] : u \in us}

(* The next contact: a notice for every active user, then its stamp.       *)
Alert(r, c) ==
  /\ req[r].pc = "alert" /\ c \in req[r].set
  /\ notice' = notice \union AlertOf(r, c, Users)
  /\ contact' = [contact EXCEPT ![c].alerts = Counting(@, Users)]
  /\ req' = [req EXCEPT ![r].pc = "stamp", ![r].x = c]
  /\ UNCHANGED <<now, offer, plans, grants, talk, note, ran, mail, begun, lost>>

(* Some of the notices are sent and one fails, which ends the run: this    *)
(* contact and those after it are left for tomorrow.                       *)
AlertFails(r, c) ==
  /\ req[r].pc = "alert" /\ c \in req[r].set
  /\ \E some \in SUBSET Users \ {Users} :
       /\ notice' = notice \union AlertOf(r, c, some)
       /\ contact' = [contact EXCEPT ![c].alerts = Counting(@, some), ![c].failed = @ + 1]
  /\ Done(r)
  /\ UNCHANGED <<now, offer, plans, grants, talk, note, mail, lost>>

Stamp(r) ==
  LET left == req[r].set \ {req[r].x} IN
  /\ req[r].pc = "stamp"
  /\ contact' = [contact EXCEPT ![req[r].x].stamp = now]
  /\ IF left = {} THEN Done(r)
     ELSE req' = [req EXCEPT ![r].pc = "alert", ![r].set = left] /\ UNCHANGED <<ran, begun>>
  /\ UNCHANGED <<now, offer, plans, grants, talk, note, notice, mail, lost>>

(* The stamp fails, which ends the run in the same way.                    *)
StampFails(r) ==
  /\ req[r].pc = "stamp"
  /\ contact' = [contact EXCEPT ![req[r].x].failed = @ + 1]
  /\ Done(r)
  /\ UNCHANGED <<now, offer, plans, grants, talk, note, notice, mail, lost>>
-----------------------------------------------------------------------------
(* The server dies with all its requests; the day goes by.                 *)
Crash ==
  /\ Has("crash") /\ \E r \in Requests : Open(r)
  /\ lost' = lost \union {req[r].n : r \in {o \in Requests : Open(o)}}
  /\ req' = [r \in Requests |-> Idle]
  /\ UNCHANGED <<now, offer, plans, grants, talk, note, contact, notice, ran, mail, begun>>

Tick ==
  /\ now < offer.last
  /\ \A r \in Requests : ~Open(r)
  /\ now' = now + 1
  /\ UNCHANGED <<offer, plans, grants, talk, note, contact, notice, ran, mail, req, begun, lost>>

Days == {now, now + 1}

BeginAgenda(r) ==
  \/ \E u \in offer.by, e \in Events, us \in offer.asks :
       \/ \E day \in Days : Create(r, u, e, us, day)
       \/ \E day \in {NoDay, now + 1}, also \in BOOLEAN : BeginUpdate(r, u, e, us, day, also)
       \/ \E t \in Talks, c \in offer.meets, day \in 0 .. now : BeginTalk(r, u, t, c, day, e, us)
  \/ \E u \in offer.by, t \in Talks, c \in offer.meets, day \in 0 .. now :
       BeginTalk(r, u, t, c, day, None, {})
  \/ \E u \in offer.by, e \in Events :
       \/ \E status \in Answers : BeginRespond(r, u, e, status)
       \/ \E x \in Notes : CreateNote(r, u, x, e)
       \/ \E x \in Notes, on, also \in BOOLEAN : BeginNote(r, u, x, e, on, also)
  \/ \E e \in Events : Remove(r, e)
  \/ \E u \in offer.by, us \in SUBSET Users : BeginGrants(r, u, us)
  \/ \E t \in Talks : CloseTalk(r, t)
  \/ \E c \in offer.meets, day \in 0 .. now : SetContact(r, c, day)
  \/ \E x \in Notes : BeginRemoveNote(r, x)
  \/ BeginDigest(r) \/ BeginMail(r) \/ BeginCheck(r)

StepAgenda(r) ==
  \/ \E t \in req[r].tell : Tell(r, t)
  \/ Update(r) \/ Respond(r) \/ Grant(r) \/ Talk(r)
  \/ FindReminder(r) \/ SetReminder(r) \/ RemoveNote(r) \/ RemoveReminder(r)
  \/ \E u \in Users : Look(r, u)
  \/ \E row \in req[r].set : Pick(r, row)
  \/ Insert(r) \/ Send(r) \/ StampSeat(r) \/ EndJob(r)
  \/ \E c \in Contacts : Alert(r, c) \/ AlertFails(r, c)
  \/ Stamp(r) \/ StampFails(r)
-----------------------------------------------------------------------------
Told(kind, u, of, n) == [kind |-> kind, to |-> u, of |-> of, n |-> n] \in notice
Telling(n) == n \in lost \/ \E r \in Requests : Open(r) /\ req[r].n = n

\* Every seat without an answer has its invitation.
InviteesTold ==
  \A e \in Events, u \in Users :
    seat[e][u].status = "PENDING"
    => Told("CALENDAR_EVENT_INVITE", u, e, seat[e][u].made) \/ Telling(seat[e][u].made)

(* Editing an event keeps the answers of those who stay: nobody but the    *)
(* attendee changes an answer, whatever crosses.                           *)
AnswersKept ==
  [][\A e \in Events, u \in Users :
       /\ seat[e][u].status \in Answers
       /\ seat'[e][u] # NoSeat
       => \/ seat'[e][u].status = seat[e][u].status
          \/ \E r \in Requests : req[r].pc = "respond" /\ req[r].by = u]_vars

(* What commits while nothing else runs is what was asked: the attendees,  *)
(* the viewers of a calendar, the latest contact.  (Beside another request *)
(* attendees and viewers add up or the later one fails, and an older       *)
(* contact may win.)                                                       *)
LoneChangesExact ==
  [][\A r \in Requests :
       LET q == req[r] IN
       q.lone /\ req'[r].pc # q.pc /\ lost' = lost
       => /\ q.pc = "update" => {u \in Users : seat'[q.e][u] # NoSeat} = q.set
          /\ q.pc = "grant"  => Viewers(grants'[q.by]) = q.set
          /\ q.pc = "talk"   => LET c == q.rows IN
               contact'[c].last >= q.day /\ contact'[c].last >= contact[c].last]_vars

(* A note has at most one reminder, and a note that was removed has none   *)
(* left when its remover ends, unless changes crossed that write nothing   *)
(* but the reminder (the lock of the note's row is what keeps two          *)
(* reminders apart) or the server died between the remover's statements.   *)
OneReminderPerNote ==
  \A x \in Notes : note[x].there /\ ~note[x].torn =>
    /\ \A e1, e2 \in Reminders(x) : e1 = e2
    /\ ~note[x].live /\ lost = {0}
       => \/ Reminders(x) = {}
          \/ \E r \in Requests : req[r].pc = "its reminder" /\ req[r].x = x

(* Nobody is reminded twice, whatever runs again: a user gets one digest a *)
(* day, the mail of each seat once (his own seat's, and a copy of that of  *)
(* every other attendee who accepted), and one alert for a silent contact. *)
(* A run that died after the mail or the alert and before its stamp        *)
(* repeats it.  So does one whose stamp failed, and an alert that failed   *)
(* is made again, also to those it reached: a user gets at most one more   *)
(* than have failed.                                                       *)
RemindedOnce ==
  /\ \A x, y \in notice : x.kind = "digest" /\ [x EXCEPT !.n = y.n] = y => x = y
  /\ lost = {0} =>
       /\ \A e \in Events, u, v \in Users : seat[e][u].mails[v] <= 1 + seat[e][u].failed
       /\ \A c \in Contacts, u \in Users : contact[c].alerts[u] <= 1 + contact[c].failed

(* When a check ends, everybody has been alerted to every contact that is  *)
(* silent for too long, since its last contact; unless that contact        *)
(* crossed a check, whose stamp then hides the next silence, or the check  *)
(* ends because an alert or its stamp failed before this contact was done. *)
StaleContactsAlerted ==
  [][ran'["check"] # ran["check"] =>
       \A c \in Contacts, u \in Users :
         Stale(contact[c]) /\ ~contact[c].crossed =>
           \/ contact'[c].alerts[u] >= 1
           \/ \E r \in Requests, d \in Contacts :
                c \in req[r].set /\ contact'[d].failed > contact[d].failed]_vars
=============================================================================
