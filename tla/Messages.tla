------------------------------ MODULE Messages ------------------------------
(***************************************************************************)
(* The messages of one conversation: who sent what to whom, and what each  *)
(* participant has put away, thrown away, read and starred.  A request     *)
(* about the conversation reads the messages its user can see, and then    *)
(* marks those.  A message may be the report of a meeting in the Agenda.   *)
(***************************************************************************)
EXTENDS Agenda

\* A mark is of one user and message, on his side of it: as its sender or as
\* one of its recipients.
Sides == {"sent", "inbox"}
Flags == {"gone", "filed", "read"}
Mark(u, m, side, flag) == [by |-> u, of |-> m, side |-> side, flag |-> flag]

On(u, m, side) == letter[m].there /\ IF side = "sent" THEN letter[m].from = u
                                     ELSE u \in letter[m].to \union letter[m].cc
Visible(u) == {m \in Messages : \E side \in Sides : On(u, m, side)}

Is(u, m, side, flag) == Mark(u, m, side, flag) \in mark
SidesOf(box) == IF box = "all" THEN Sides ELSE {box}

(* buildBoxCondition for the inbox.                                        *)
Inbox(u) == {m \in Messages : /\ On(u, m, "inbox")
                              /\ ~Is(u, m, "inbox", "gone") /\ ~Is(u, m, "inbox", "filed")}
Unread(u) == {m \in Inbox(u) : ~Is(u, m, "inbox", "read")}

(* create: a reply needs a message one can see, a report a live event; the *)
(* report's recipients are told afterwards, those in copy are not.         *)
BeginWrite(r, u, to, cc, report) ==
  /\ Has("write")
  /\ Visible(u) # {} \/ \A m \in Messages : ~letter[m].there
  /\ report # None => event[report].live
  /\ Enter(r, [Idle EXCEPT !.pc = "write", !.by = u, !.set = to, !.rows = cc, !.e = report])
  /\ UNCHANGED <<now, offer, plans, grants, talk, note, contact, notice, ran, mail, lost>>

Write(r, m) ==
  LET q == req[r] IN
  /\ q.pc = "write" /\ ~letter[m].there
  /\ letter' = [letter EXCEPT ![m] = [there |-> TRUE, from |-> q.by, to |-> q.set,
                                      cc |-> q.rows, report |-> q.e, made |-> q.n]]
  /\ ThenTell(r, IF q.e = None THEN {}
                 ELSE To("MEETING_REPORT_SENT", q.set \ {q.by}, m))
  /\ UNCHANGED <<now, offer, plans, grants, talk, note, contact, notice, ran, mark, star, lost>>

(* archive, trash and restore, read and star, each with its way back: the  *)
(* messages that can be seen are read first.                               *)
BeginMark(r, u, flag, on, box) ==
  /\ Has("mailbox") /\ Visible(u) # {}
  /\ flag \in {"read", "star"} => box = "all"
  /\ flag = "gone" /\ ~on => box = "all"
  /\ Enter(r, [Idle EXCEPT !.pc = "mark", !.by = u, !.x = flag, !.rows = Visible(u),
                           !.set = SidesOf(box), !.also = on])
  /\ UNCHANGED <<now, offer, plans, grants, talk, note, contact, notice, ran, mail, lost>>

Changed(r, ms) ==
  LET q == req[r]
      own == {Mark(q.by, m, side, q.x) : m \in ms,
                side \in IF q.x = "read" THEN {"inbox"} ELSE q.set}
      marks == {k \in own : On(k.by, k.of, k.side)} IN
  IF q.also THEN mark \union marks ELSE mark \ marks

(* Mutant of MarkSeen: marks the conversation.                             *)
MarkAll(r) ==
  /\ req[r].pc = "mark"
  /\ mark' = Changed(r, Messages) /\ UNCHANGED star
  /\ Answer(r)
  /\ UNCHANGED <<now, offer, plans, grants, talk, note, contact, notice, ran, letter, lost>>

MarkSeen(r) ==
  LET q == req[r] IN
  /\ q.pc = "mark"
  /\ IF q.x = "star"
     THEN star' = (IF q.also THEN star \union {q.by} ELSE star \ {q.by}) /\ UNCHANGED mark
     ELSE mark' = Changed(r, q.rows) /\ UNCHANGED star
  /\ Answer(r)
  /\ UNCHANGED <<now, offer, plans, grants, talk, note, contact, notice, ran, letter, lost>>

Next ==
  \/ Crash \/ Tick
  \/ \E r \in Requests :
       \/ BeginAgenda(r) \/ StepAgenda(r)
       \/ \E u \in offer.by, to \in offer.asks, cc \in offer.asks \union {{}},
             report \in {None} \union Events : BeginWrite(r, u, to, cc, report)
       \/ \E m \in Messages : Write(r, m)
       \/ \E u \in offer.by, flag \in Flags \union {"star"}, on \in BOOLEAN,
             box \in Sides \union {"all"} : BeginMark(r, u, flag, on, box)
       \/ MarkSeen(r)

Spec == Init /\ [][Next]_vars
-----------------------------------------------------------------------------
(* A message that arrives while its recipient puts the conversation away,  *)
(* throws it away or marks it read stays what it is: unread, in his inbox. *)
(* Nobody but himself takes it out of there.                               *)
NewMailStaysNew ==
  [][\A u \in Users : \A m \in Unread(u) :
       \/ m \in Unread(u)'
       \/ \E r \in Requests :
            req[r].pc = "mark" /\ req[r].by = u /\ req[r].n > letter[m].made]_vars

(* Whoever is asked to an event, by whichever of the three requests, and   *)
(* whoever the report of a meeting is addressed to, is told: the notices   *)
(* follow the commits, and are missing only while the request still runs   *)
(* or if it died.  Who gets the report in copy finds it in his inbox.      *)
EveryoneTold ==
  /\ InviteesTold
  /\ \A m \in Messages : letter[m].there /\ letter[m].report # None =>
       \A u \in letter[m].to \ {letter[m].from} :
         Told("MEETING_REPORT_SENT", u, m, letter[m].made) \/ Telling(letter[m].made)
=============================================================================
