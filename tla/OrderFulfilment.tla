-------------------------- MODULE OrderFulfilment ---------------------------
(***************************************************************************)
(* One order, a sales order being delivered or a purchase order being      *)
(* received: its items, and the status that is computed from them.  A      *)
(* change of an item is one statement, the new status another, computed    *)
(* from a read between the two; a status set by hand works the other way   *)
(* and completes the items.  The items of a purchase order may also be     *)
(* replaced as a whole, in a READ COMMITTED transaction.  Requests overlap *)
(* freely and any of them may die between two statements.                  *)
(***************************************************************************)
EXTENDS Integers, FiniteSets

CONSTANTS
  MaxRequests,    \* requests to the order's endpoints
  Orders,         \* the kinds of order, "sales" and "purchase"
  MaxOpen,        \* how many are under way at once
  FirstItems,     \* the items the order has at first
  Quantities,     \* quantities an item may be ordered in
  Targets,        \* statuses that are set by hand
  NoId,           \* no item, no request
  MayCrash        \* whether requests may die

Final == {"COMPLETED", "CANCELLED"}

SalesStatuses    == {"PENDING", "PROCESSING", "READY_FOR_SHIPMENT", "SHIPPED",
                     "PARTIALLY_DELIVERED", "DELIVERED"} \union Final
PurchaseStatuses == {"DRAFT", "CONFIRMED", "PARTIALLY_RECEIVED",
                     "FULLY_RECEIVED"} \union Final

(* Requests are numbered as they arrive.                                   *)
Requests == 1 .. MaxRequests

ASSUME FulfilmentAssumption ==
  /\ MaxRequests \in Nat /\ MaxOpen \in Nat
  /\ Orders \subseteq {"sales", "purchase"}
  /\ FirstItems # {} /\ FirstItems \intersect Requests = {}
  /\ NoId \notin FirstItems \union Requests
  /\ Quantities \subseteq Nat
  /\ Targets \subseteq SalesStatuses \union PurchaseStatuses
  /\ MayCrash \in BOOLEAN

VARIABLES
  order,            \* which kind of order it is
  status, deleted,  \* the order's row
  items,            \* its items' rows; one that a replacement adds is named
                    \* after the request
  rowLock,          \* the replacement that has locked the order's row
  req               \* the requests

vars == <<order, status, deleted, items, rowLock, req>>
-----------------------------------------------------------------------------
Ids   == FirstItems \union Requests
Ended == {"done", "failed"}

Statuses == IF order = "sales" THEN SalesStatuses ELSE PurchaseStatuses

(* What each order is called when nothing, something and everything of it  *)
(* is delivered or received.                                               *)
Begun   == IF order = "sales" THEN "PROCESSING" ELSE "CONFIRMED"
Partial == IF order = "sales" THEN "PARTIALLY_DELIVERED" ELSE "PARTIALLY_RECEIVED"
Full    == IF order = "sales" THEN "DELIVERED" ELSE "FULLY_RECEIVED"

Active(rows)   == {i \in DOMAIN rows : ~rows[i].isCancelled}
AllDone(rows)  == \A i \in Active(rows) : rows[i].fulfilled >= rows[i].quantity
NoneDone(rows) == \A i \in Active(rows) : rows[i].fulfilled <= 0

(* Mutant of AutoStatus. *)
AutoStatusOfAll(rows) ==
  IF \A i \in DOMAIN rows : rows[i].fulfilled >= rows[i].quantity THEN Full
  ELSE IF \A i \in DOMAIN rows : rows[i].fulfilled <= 0 THEN Begun ELSE Partial

(* The status the items amount to.                                         *)
AutoStatus(rows) == IF AllDone(rows) THEN Full
                    ELSE IF NoneDone(rows) THEN Begun ELSE Partial

Blank == [pc |-> "idle", kind |-> "none", item |-> NoId, value |-> 0,
          to |-> "CANCELLED", rows |-> {}, alone |-> TRUE]

Init ==
  /\ items \in [FirstItems -> {[quantity |-> q, fulfilled |-> 0,
                                isCancelled |-> FALSE] : q \in Quantities}]
  /\ order \in Orders
  /\ status = (IF order = "sales" THEN "PENDING" ELSE "DRAFT")
  /\ deleted = FALSE
  /\ rowLock = NoId
  /\ req = [r \in Requests |-> Blank]

Open(r) == req[r].pc \notin {"idle"} \union Ended
Goes(r, pc) == req' = [req EXCEPT ![r].pc = pc]
Ends(r, pc) == req' = [req EXCEPT ![r] = [Blank EXCEPT !.pc = pc]]

(* A request arrives: whoever is under way is no longer alone.             *)
Enter(r, fields) ==
  /\ \A s \in 1 .. r - 1 : req[s].pc # "idle"
  /\ Cardinality({s \in Requests : Open(s)}) < MaxOpen
  /\ req' = [s \in Requests |->
               IF s = r THEN [fields EXCEPT !.alone = ~\E o \in Requests : Open(o)]
               ELSE [req[s] EXCEPT !.alone = @ /\ ~Open(s)]]

(* Rows that an uncommitted replacement has deleted are locked, and still  *)
(* visible to everyone else.                                               *)
Taken(r) == IF req[r].pc = "insert" THEN req[r].rows ELSE {}
ItemLocked(i) == \E o \in Requests : i \in Taken(o)
-----------------------------------------------------------------------------
(* setItemDeliveredQuantity, setItemReceivedQuantity, setItemCancelled:    *)
(* the order is read and the quantity checked ...                          *)
BeginItemChange(r) ==
  /\ req[r].pc = "idle" /\ ~deleted
  /\ \E i \in DOMAIN items :
       \/ \E n \in 0 .. items[i].quantity + 1 :
            Enter(r, [Blank EXCEPT !.kind = "quantity", !.item = i, !.value = n,
                        !.pc = IF n <= items[i].quantity THEN "write" ELSE "failed"])
       \/ \E n \in {0, 1} :
            Enter(r, [Blank EXCEPT !.kind = "cancel", !.item = i, !.value = n,
                        !.pc = "write"])
  /\ UNCHANGED <<order, status, deleted, items, rowLock>>

Changed(row, change) ==
  IF change.kind = "quantity" THEN [row EXCEPT !.fulfilled = change.value]
                              ELSE [row EXCEPT !.isCancelled = change.value = 1]

(* ... the item is written, unless it is gone ...                          *)
WriteItem(r) ==
  /\ req[r].pc = "write" /\ ~ItemLocked(req[r].item)
  /\ IF req[r].item \in DOMAIN items
     THEN /\ items' = [items EXCEPT ![req[r].item] = Changed(@, req[r])]
          /\ Goes(r, "sync")
     ELSE Ends(r, "failed") /\ UNCHANGED items
  /\ UNCHANGED <<order, status, deleted, rowLock>>

(* ... syncStatusWith...State reads the order again; a final status, and   *)
(* one of an order that has only cancelled items, stays as it is ...       *)
ReadBack(r) ==
  /\ req[r].pc = "sync"
  /\ IF deleted THEN Ends(r, "failed")
     ELSE IF status \in Final \/ Active(items) = {} \/ AutoStatus(items) = status
     THEN Ends(r, "done")
     ELSE req' = [req EXCEPT ![r].pc = "set", ![r].to = AutoStatus(items)]
  /\ UNCHANGED <<order, status, deleted, items, rowLock>>

(* ... and writes the status it computed.                                  *)
WriteAutoStatus(r) ==
  /\ req[r].pc = "set" /\ rowLock = NoId
  /\ status' = req[r].to
  /\ Ends(r, "done")
  /\ UNCHANGED <<order, deleted, items, rowLock>>
-----------------------------------------------------------------------------
(* updateStatus, and update of a purchase order's status.                  *)
BeginStatus(r) ==
  /\ req[r].pc = "idle" /\ ~deleted
  /\ \E s \in Targets \intersect Statuses :
       Enter(r, [Blank EXCEPT !.pc = "status", !.to = s,
                              !.rows = IF s = Full THEN Active(items) ELSE {}])
  /\ UNCHANGED <<order, status, deleted, items, rowLock>>

WriteStatus(r) ==
  /\ req[r].pc = "status" /\ rowLock = NoId
  /\ status' = req[r].to
  /\ IF req[r].to # Full THEN Ends(r, "done")
     ELSE Goes(r, IF order = "sales" THEN "mark" ELSE "reread")
  /\ UNCHANGED <<order, deleted, items, rowLock>>

(* A purchase order is read again before its items are marked; a sales     *)
(* order's are those that were read first.                                 *)
ReadActive(r) ==
  /\ req[r].pc = "reread"
  /\ IF deleted THEN Ends(r, "failed")
     ELSE req' = [req EXCEPT ![r].pc = "mark", ![r].rows = Active(items)]
  /\ UNCHANGED <<order, status, deleted, items, rowLock>>

(* Mutant of MarkItem. *)
MarkOneMore(r, i) ==
  /\ req[r].pc = "mark" /\ i \in req[r].rows /\ ~ItemLocked(i)
  /\ items' = [j \in DOMAIN items |->
                 IF j = i THEN [items[j] EXCEPT
                   !.fulfilled = IF @ < items[j].quantity THEN @ + 1 ELSE @]
                 ELSE items[j]]
  /\ req' = [req EXCEPT ![r].rows = @ \ {i}]
  /\ UNCHANGED <<order, status, deleted, rowLock>>

(* The items are marked by one statement each, in any order; one that is   *)
(* gone makes the request fail but not the other statements.               *)
MarkItem(r, i) ==
  /\ req[r].pc = "mark" /\ i \in req[r].rows /\ ~ItemLocked(i)
  /\ items' = [j \in DOMAIN items |->
                 IF j = i THEN [items[j] EXCEPT !.fulfilled = items[j].quantity]
                 ELSE items[j]]
  /\ req' = [req EXCEPT ![r].rows = @ \ {i}]
  /\ UNCHANGED <<order, status, deleted, rowLock>>

EndMark(r) ==
  /\ req[r].pc = "mark" /\ req[r].rows = {}
  /\ Ends(r, "done")
  /\ UNCHANGED <<order, status, deleted, items, rowLock>>
-----------------------------------------------------------------------------
(* update with items: a title or a quote in the same request is written    *)
(* first, which locks the order's row.  A status does not come with items: *)
(* the code says so of its callers.                                        *)
BeginReplace(r) ==
  /\ req[r].pc = "idle" /\ ~deleted /\ order = "purchase"
  /\ \E titled \in BOOLEAN, q \in Quantities :
       Enter(r, [Blank EXCEPT !.value = q, !.pc = IF titled THEN "title" ELSE "look"])
  /\ UNCHANGED <<order, status, deleted, items, rowLock>>

WriteTitle(r) ==
  /\ req[r].pc = "title" /\ rowLock = NoId
  /\ rowLock' = r
  /\ Goes(r, "look")
  /\ UNCHANGED <<order, status, deleted, items>>

(* deleteMany finds the items there are, waits for those another       *)
(* replacement holds, and deletes what is left of them ...                 *)
FindItems(r) ==
  /\ req[r].pc = "look"
  /\ req' = [req EXCEPT ![r].pc = "delete", ![r].rows = DOMAIN items]
  /\ UNCHANGED <<order, status, deleted, items, rowLock>>

DeleteItems(r) ==
  /\ req[r].pc = "delete" /\ ~\E i \in req[r].rows : ItemLocked(i)
  /\ req' = [req EXCEPT ![r].pc = "insert", ![r].rows = @ \intersect DOMAIN items]
  /\ UNCHANGED <<order, status, deleted, items, rowLock>>

Unlocked(r) == IF rowLock = r THEN NoId ELSE rowLock

(* ... and createMany and the commit follow.                               *)
InsertItems(r) ==
  /\ req[r].pc = "insert"
  /\ items' = [i \in (DOMAIN items \ req[r].rows) \union {r} |->
                 IF i = r THEN [quantity |-> req[r].value, fulfilled |-> 0,
                                isCancelled |-> FALSE]
                 ELSE items[i]]
  /\ rowLock' = Unlocked(r)
  /\ req' = [req EXCEPT ![r].pc = "sync", ![r].rows = {}]
  /\ UNCHANGED <<order, status, deleted>>

(* remove of a purchase order.                                             *)
BeginRemove(r) ==
  /\ req[r].pc = "idle" /\ ~deleted /\ order = "purchase"
  /\ Enter(r, [Blank EXCEPT !.pc = "remove"])
  /\ UNCHANGED <<order, status, deleted, items, rowLock>>

WriteDeleted(r) ==
  /\ req[r].pc = "remove" /\ rowLock = NoId
  /\ deleted' = TRUE
  /\ Ends(r, "done")
  /\ UNCHANGED <<order, status, items, rowLock>>

(* The process dies; an open transaction is rolled back.                   *)
Die(r) ==
  /\ MayCrash /\ Open(r)
  /\ Ends(r, "failed")
  /\ rowLock' = Unlocked(r)
  /\ UNCHANGED <<order, status, deleted, items>>
-----------------------------------------------------------------------------
Begin(r) == BeginItemChange(r) \/ BeginStatus(r) \/ BeginReplace(r) \/ BeginRemove(r)

Proceed(r) ==
  \/ WriteItem(r) \/ ReadBack(r) \/ WriteAutoStatus(r)
  \/ WriteStatus(r) \/ ReadActive(r) \/ EndMark(r)
  \/ \E i \in Ids : MarkItem(r, i)
  \/ WriteTitle(r) \/ FindItems(r) \/ DeleteItems(r) \/ InsertItems(r)
  \/ WriteDeleted(r)

Next == \E r \in Requests : Begin(r) \/ Proceed(r) \/ Die(r)

Spec == Init /\ [][Next]_vars
-----------------------------------------------------------------------------
ItemRows == [quantity : Quantities, fulfilled : Nat, isCancelled : BOOLEAN]

RequestRows ==
  [pc : {"idle", "write", "sync", "set", "status", "reread", "mark", "title",
         "look", "delete", "insert", "remove"} \union Ended,
   kind : {"none", "quantity", "cancel"}, item : Ids \union {NoId},
   value : Nat, to : SalesStatuses \union PurchaseStatuses,
   rows : SUBSET Ids, alone : BOOLEAN]

(* Types, and that no item is delivered or received beyond what was        *)
(* ordered of it.                                                          *)
TypeOK ==
  /\ order \in Orders /\ status \in Statuses /\ deleted \in BOOLEAN
  /\ DOMAIN items \subseteq Ids /\ items \in [DOMAIN items -> ItemRows]
  /\ \A i \in DOMAIN items : items[i].fulfilled <= items[i].quantity
  /\ rowLock \in Requests \union {NoId}
  /\ req \in [Requests -> RequestRows]

(* However many replacements of its items overlap, roll back or die, the   *)
(* order never loses its last item.                                        *)
OrderHasItems == DOMAIN items # {}

(* A status says what is delivered or received of the items that are not   *)
(* cancelled, unless it is final or there are none.                        *)
Fits(s, rows) ==
  \/ s \in Final \/ Active(rows) = {}
  \/ /\ s \in {Begun, Partial, Full}
     /\ s = Full <=> AllDone(rows)
     /\ s = Begun => NoneDone(rows)
     /\ s = Partial => ~NoneDone(rows)

(* A change of the items that overlaps no other request leaves the order   *)
(* with the status its items amount to, whatever overlapping or dying      *)
(* requests left behind before it.                                         *)
LoneChangeFits ==
  [][\A r \in Requests :
       (req[r].alone /\ req[r].pc \in {"sync", "set"} /\ req'[r].pc = "done")
         => Fits(status', items')]_vars

(* Likewise a lone request that sets the order to delivered or received    *)
(* leaves no item short.                                                   *)
LoneFullCompletes ==
  [][\A r \in Requests :
       (req[r].alone /\ req[r].pc = "mark" /\ req'[r].pc = "done")
         => status' = Full /\ AllDone(items')]_vars
=============================================================================
