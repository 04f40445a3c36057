--------------------------- MODULE QuoteLifecycle ---------------------------
(***************************************************************************)
(* The life of one quote (QuotesService update, approve, reject, remove)   *)
(* under concurrent requests.  Every request first reads the quote and     *)
(* checks its status, outside any transaction; what it then writes rests   *)
(* on what it has read.  The writes of update and approve form one READ    *)
(* COMMITTED transaction, in which the lock of the quote's row comes last  *)
(* of the contended ones, so the part from that lock to the commit is one  *)
(* step.  reject makes two separate statements.                            *)
(***************************************************************************)
EXTENDS Naturals, Sequences, FiniteSets

CONSTANTS Requests,      \* the requests that reach this quote
          FirstItems,    \* the item list the quote was created with
          InitStatuses,  \* the statuses it may be in when they arrive
          Targets,       \* the statuses an update may ask for
          Kinds,         \* the endpoints that are called
          MaxOpen,       \* how many requests are handled at a time
          HasContact,    \* whether the quote has a contact person
          MayCrash       \* whether a request may die between two steps

Statuses == {"DRAFT", "SENT", "PENDING_APPROVAL", "APPROVED", "REJECTED",
             "REVIZE", "UNSPECIFIED"}
Settled == {"APPROVED", "REJECTED"}

ASSUME QuoteAssumption ==
  /\ InitStatuses \subseteq Statuses \ Settled
  /\ Targets \subseteq Statuses
  /\ Kinds \subseteq {"update", "approve", "reject", "remove"}
  /\ IsFiniteSet(Requests) /\ FirstItems \notin Requests
  /\ HasContact \in BOOLEAN /\ MayCrash \in BOOLEAN
  /\ MaxOpen \in Nat

VARIABLES status, deleted, revisionCount,  \* the quote's row
          items,     \* its item lists, each named after who inserted it
          history,   \* QuoteStatusHistory: the statuses, oldest first
          sold,      \* per sale taken from stock, the item lists it sold
          order,     \* whether its SalesOrder (and PostSaleCase) exists
          surveys,   \* survey jobs queued for that case
          notices,   \* revision notices sent to the users
          req        \* the requests

quote == <<status, deleted, revisionCount, items, history, sold, order>>
vars == <<quote, surveys, notices, req>>
-----------------------------------------------------------------------------
Keep == "keep"   \* an update that names no status

(* UpdateQuoteSchema and the other endpoints, as far as the lifecycle      *)
(* goes: the status asked for, whether a new item list comes along, and    *)
(* whether a revision note does.                                           *)
Dtos == {d \in [kind : Kinds \intersect {"update"}, to : Targets \union {Keep},
                items : BOOLEAN, note : BOOLEAN] : d.note => d.items}
        \union
        [kind : Kinds \ {"update"}, to : {Keep},
         items : {FALSE}, note : {FALSE}]

NoDto == [kind |-> "none", to |-> Keep, items |-> FALSE, note |-> FALSE]
Blank == [pc |-> "idle", dto |-> NoDto, seen |-> "DRAFT", seenItems |-> {},
          seenRevisions |-> 0, taken |-> {}, survey |-> FALSE]

Answers == {"done", "refused", "failed"}
Open(r) == req[r].pc \notin {"idle"} \union Answers

(* A request may also arrive at a quote that create and an earlier update  *)
(* have brought to an open status.                                         *)
Init ==
  /\ status \in InitStatuses
  /\ history = IF status \in {"DRAFT", "UNSPECIFIED"}
               THEN <<status>> ELSE <<"DRAFT", status>>
  /\ deleted = FALSE
  /\ revisionCount = 0
  /\ items = {FirstItems}
  /\ sold = << >>
  /\ order = FALSE
  /\ surveys = 0
  /\ notices = 0
  /\ req = [r \in Requests |-> Blank]

IsRevisionSave(q) == q.seen = "REVIZE" /\ q.dto.items
Wanted(q) == IF q.dto.to = Keep THEN q.seen ELSE q.dto.to

(* Mutant of Allowed. *)
AllowedEditRejected(q) ==
  CASE q.dto.kind = "update" -> /\ q.seen # "APPROVED"
                                /\ IsRevisionSave(q) => q.dto.note
    [] q.dto.kind \in {"approve", "reject"} -> q.seen = "PENDING_APPROVAL"
    [] OTHER -> TRUE

(* The checks of update, and assertPendingApproval.                        *)
Allowed(q) ==
  CASE q.dto.kind = "update" -> /\ q.seen \notin Settled
                                /\ IsRevisionSave(q) => q.dto.note
    [] q.dto.kind \in {"approve", "reject"} -> q.seen = "PENDING_APPROVAL"
    [] OTHER -> TRUE
-----------------------------------------------------------------------------
(* getById: the quote's row in one query ...                               *)
ReadQuote(r, dto) ==
  /\ req[r].pc = "idle"
  /\ Cardinality({o \in Requests : Open(o)}) < MaxOpen
  /\ req' = [req EXCEPT ![r] =
       [Blank EXCEPT !.pc = IF deleted THEN "refused" ELSE "reading",
                     !.dto = dto, !.seen = status,
                     !.seenRevisions = revisionCount]]
  /\ UNCHANGED <<quote, surveys, notices>>

(* ... its items in the next, and then the checks on what was read.        *)
ReadItems(r) ==
  /\ req[r].pc = "reading"
  /\ req' = [req EXCEPT ![r].seenItems = items,
                        ![r].pc = IF ~Allowed(req[r]) THEN "refused"
                                  ELSE IF req[r].dto.items THEN "delete"
                                  ELSE "write"]
  /\ UNCHANGED <<quote, surveys, notices>>

(* Mutant of FindItems. *)
FindNoItems(r) ==
  /\ req[r].pc = "delete"
  /\ req' = [req EXCEPT ![r].pc = "insert"]
  /\ UNCHANGED <<quote, surveys, notices>>

(* update: deleteMany on the items finds the rows committed by now ...     *)
FindItems(r) ==
  /\ req[r].pc = "delete"
  /\ req' = [req EXCEPT ![r].pc = "insert", ![r].taken = items]
  /\ UNCHANGED <<quote, surveys, notices>>

(* Mutant of ReplaceItems. *)
ReplaceItemsOutside(r) ==
  /\ req[r].pc = "insert"
  /\ \A o \in Requests \ {r} :
       req[o].pc = "write" =>
         req[o].taken \intersect req[r].taken \intersect items = {}
  /\ req' = [req EXCEPT ![r].pc = "write",
                        ![r].taken = @ \intersect items]
  /\ items' = items \union {r}
  /\ UNCHANGED <<status, deleted, revisionCount, history, sold, order,
                 surveys, notices>>

(* Mutant of ReplaceItems. *)
ReplaceItemsCircular(r) ==
  /\ req[r].pc = "insert"
  /\ \A o \in Requests \ {r} :
       req[o].pc \in {"insert", "write"} =>
         req[o].taken \intersect req[r].taken \intersect items = {}
  /\ req' = [req EXCEPT ![r].pc = "write",
                        ![r].taken = @ \intersect items]
  /\ UNCHANGED <<quote, surveys, notices>>

(* ... waits for the transactions that have deleted one of them, passes    *)
(* over those that are gone, and createMany adds the new list.             *)
ReplaceItems(r) ==
  /\ req[r].pc = "insert"
  /\ \A o \in Requests \ {r} :
       req[o].pc = "write" =>
         req[o].taken \intersect req[r].taken \intersect items = {}
  /\ req' = [req EXCEPT ![r].pc = "write",
                        ![r].taken = @ \intersect items]
  /\ UNCHANGED <<quote, surveys, notices>>

(* Mutant of Sell. *)
SellAgain(list) == Append(sold, list)

(* ensureStockDecreaseForQuote: only if no QUOTE_SALE movement exists.     *)
Sell(list) == IF sold = << >> THEN Append(sold, list) ELSE sold

(* update, from the quote's row to the commit.  Only a status that differs *)
(* from the one read is written and recorded.                              *)
WriteUpdate(r) ==
  LET q == req[r]
      next == Wanted(q)
      approves == next # q.seen /\ next = "APPROVED"
  IN /\ q.pc = "write" /\ q.dto.kind = "update"
     /\ status' = IF next # q.seen THEN next ELSE status
     /\ revisionCount' = IF IsRevisionSave(q) THEN q.seenRevisions + 1
                                              ELSE revisionCount
     /\ items' = IF q.dto.items THEN (items \ q.taken) \union {r} ELSE items
     /\ history' = IF next # q.seen THEN Append(history, next)
                   ELSE IF IsRevisionSave(q) THEN Append(history, "REVIZE")
                   ELSE history
     /\ sold' = IF approves THEN Sell(q.seenItems) ELSE sold
     /\ order' = (order \/ approves)
     /\ req' = [req EXCEPT ![r].pc = "committed", ![r].survey = approves]
     /\ UNCHANGED <<deleted, surveys, notices>>

(* Mutant of WriteApproval. *)
WriteApprovalUnrecorded(r) ==
  /\ req[r].pc = "write" /\ req[r].dto.kind = "approve"
  /\ status' = "APPROVED"
  /\ sold' = Sell(req[r].seenItems)
  /\ order' = TRUE
  /\ req' = [req EXCEPT ![r].pc = "committed", ![r].survey = TRUE]
  /\ UNCHANGED <<deleted, revisionCount, items, history, surveys, notices>>

(* approve, from the quote's row to the commit.                            *)
WriteApproval(r) ==
  /\ req[r].pc = "write" /\ req[r].dto.kind = "approve"
  /\ status' = "APPROVED"
  /\ sold' = Sell(req[r].seenItems)
  /\ history' = Append(history, "APPROVED")
  /\ order' = TRUE
  /\ req' = [req EXCEPT ![r].pc = "committed", ![r].survey = TRUE]
  /\ UNCHANGED <<deleted, revisionCount, items, surveys, notices>>

(* reject: the status and the history row are committed separately.        *)
RejectStatus(r) ==
  /\ req[r].pc = "write" /\ req[r].dto.kind = "reject"
  /\ status' = "REJECTED"
  /\ req' = [req EXCEPT ![r].pc = "record"]
  /\ UNCHANGED <<deleted, revisionCount, items, history, sold, order,
                 surveys, notices>>

RejectHistory(r) ==
  /\ req[r].pc = "record"
  /\ history' = Append(history, "REJECTED")
  /\ req' = [req EXCEPT ![r].pc = "done"]
  /\ UNCHANGED <<status, deleted, revisionCount, items, sold, order,
                 surveys, notices>>

(* remove: a soft delete of whatever the row has become.                   *)
Remove(r) ==
  /\ req[r].pc = "write" /\ req[r].dto.kind = "remove"
  /\ deleted' = TRUE
  /\ req' = [req EXCEPT ![r].pc = "done"]
  /\ UNCHANGED <<status, revisionCount, items, history, sold, order,
                 surveys, notices>>

EntersRevision(q) == q.dto.to = "REVIZE" /\ q.seen # "REVIZE"

(* update and approve after the commit: queue the survey of the case that  *)
(* was opened or found, notify of a revision, answer.                      *)
Afterwards(r) ==
  /\ req[r].pc = "committed"
  /\ surveys' = surveys + IF req[r].survey /\ HasContact THEN 1 ELSE 0
  /\ notices' = notices + IF EntersRevision(req[r]) THEN 1 ELSE 0
  /\ req' = [req EXCEPT ![r].pc = "done"]
  /\ UNCHANGED quote

(* The transaction fails: the database refuses a statement (an order       *)
(* number taken meanwhile), a limit of its duration is reached ...         *)
Rollback(r) ==
  /\ req[r].dto.kind \in {"update", "approve"}
  /\ req[r].pc \in {"delete", "insert", "write"}
  /\ req' = [req EXCEPT ![r].pc = "failed", ![r].taken = {}]
  /\ UNCHANGED <<quote, surveys, notices>>

(* ... or the process dies with something left to do.                      *)
Crash(r) ==
  /\ MayCrash
  /\ req[r].pc \in {"record", "committed"}
  /\ req' = [req EXCEPT ![r].pc = "failed"]
  /\ UNCHANGED <<quote, surveys, notices>>

Proceed(r) == \/ ReadItems(r) \/ FindItems(r) \/ ReplaceItems(r)
              \/ WriteUpdate(r) \/ WriteApproval(r)
              \/ RejectStatus(r) \/ RejectHistory(r) \/ Remove(r)
              \/ Afterwards(r)

Next == \E r \in Requests :
          \/ \E dto \in Dtos : ReadQuote(r, dto)
          \/ Proceed(r)
          \/ Rollback(r)
          \/ Crash(r)

Spec == Init /\ [][Next]_vars
FairSpec == Spec /\ \A r \in Requests : WF_vars(Proceed(r))
-----------------------------------------------------------------------------
Requested == [pc : {"idle", "reading", "delete", "insert", "write", "record",
                    "committed"} \union Answers,
              dto : Dtos \union {NoDto}, seen : Statuses,
              seenItems : SUBSET (Requests \union {FirstItems}),
              seenRevisions : Nat,
              taken : SUBSET (Requests \union {FirstItems}),
              survey : BOOLEAN]

TypeOK ==
  /\ status \in Statuses
  /\ deleted \in BOOLEAN /\ order \in BOOLEAN
  /\ revisionCount \in Nat /\ surveys \in Nat /\ notices \in Nat
  /\ items \subseteq Requests \union {FirstItems}
  /\ history \in Seq(Statuses)
  /\ sold \in Seq(SUBSET (Requests \union {FirstItems}))
  /\ req \in [Requests -> Requested]

(* A quote's items leave the stock once, however many approvals of it race *)
(* past the status check: the row lock orders them and the second finds    *)
(* the first one's movements.                                              *)
SoldAtMostOnce == Len(sold) <= 1

(* A sales order exists exactly where the stock was decreased, and every   *)
(* approved quote has one: approve and the status menu do all three or     *)
(* nothing, also when they fail half way.                                  *)
OrderMeansSold == /\ order <=> sold # << >>
                  /\ status = "APPROVED" => order

(* Together: a quote is sold once, and it is sold exactly where its order  *)
(* says so, however its approvals overlap, roll back or die.               *)
OneSale == SoldAtMostOnce /\ OrderMeansSold

(* The quote never loses its last item list to concurrent updates, and no  *)
(* list stays behind from an update that was rolled back.                  *)
ItemsAreCommitted ==
  /\ items # {}
  /\ \A r \in items \ {FirstItems} :
       /\ req[r].dto.items
       /\ req[r].pc \in {"committed"} \union Answers

(* Every status the quote reaches is in its history, but for a rejection.  *)
StatusRecorded ==
  status = "REJECTED" \/ \E i \in 1 .. Len(history) : history[i] = status

(* Every request is answered: updates that wait for each other's items do  *)
(* not wait in a circle, because all lock the items before the quote.      *)
EveryRequestAnswered ==
  \A r \in Requests : Open(r) ~> req[r].pc \in Answers
-----------------------------------------------------------------------------
(* What holds when the requests come one at a time.                        *)
(* An update replaces the item list, it does not add a second one.         *)
OneItemList == Cardinality(items) = 1

(* The requests act like the steps of the workflow: an open quote is       *)
(* edited until it is approved, and sold then and there, or rejected.      *)
Workflow == INSTANCE QuoteWorkflow WITH
              Lists <- Requests \union {FirstItems}
FollowsWorkflow == Workflow!Spec
-----------------------------------------------------------------------------
(* What the code's own words promise, and concurrency or a crash breaks.   *)

(* "Onaylanmis veya reddedilmis teklifler duzenlenemez": an approved or    *)
(* rejected quote keeps its status.                                        *)
SettledStaysSettled == [][(status \in Settled) => status' = status]_vars
=============================================================================
