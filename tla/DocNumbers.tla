----------------------------- MODULE DocNumbers -----------------------------
(***************************************************************************)
(* The numbers of the documents created on one day: quotes, projects,      *)
(* sales orders and purchase orders are numbered by counting the day's     *)
(* documents and adding one, outside any lock.  A unique index refuses the *)
(* second document with a number; each kind of create answers that in its  *)
(* own way.  An approval ("approval") creates a sales order too, inside    *)
(* its own transaction.                                                    *)
(***************************************************************************)
EXTENDS Naturals, FiniteSets, FiniteSetsExt

CONSTANTS Requests,     \* the create requests of the day
          Kinds,        \* the creates they may be
          Keys,         \* clientRequestIds of purchase orders, quotes of
                        \* sales orders: at most one document each
          NoKey,
          MaxAttempts,  \* *_NUMBER_CREATE_RETRIES of each kind
          MayCrash,     \* whether a request may die between two statements
          MayRemove     \* whether documents are removed during the day

AllKinds == {"quote", "project", "salesOrder", "approval", "purchaseOrder"}
Tables == AllKinds \ {"approval"}

ASSUME NumbersAssumption ==
  /\ IsFiniteSet(Requests)
  /\ Kinds \subseteq AllKinds
  /\ NoKey \notin Keys
  /\ MaxAttempts \in [AllKinds -> Nat \ {0}]
  /\ MaxAttempts["approval"] = 1
  /\ MayCrash \in BOOLEAN /\ MayRemove \in BOOLEAN

VARIABLES docs,   \* the day's rows, with the request that inserted each
          req     \* the create requests

vars == <<docs, req>>
-----------------------------------------------------------------------------
Table(kind) == IF kind = "approval" THEN "salesOrder" ELSE kind
Rows(t) == {d \in docs : d.table = t}

(* Mutant of Counted. *)
CountedLive(kind) == {d \in Rows(Table(kind)) : d.live}

(* Quotes and projects are counted in SQL, removed ones included; sales    *)
(* orders are never removed; purchase orders are counted through the       *)
(* client that hides the removed ones.                                     *)
Counted(kind) ==
  IF kind = "purchaseOrder" THEN {d \in Rows("purchaseOrder") : d.live}
                            ELSE Rows(Table(kind))

(* Only sales orders and purchase orders are created under a key.          *)
KeysOf(kind) == CASE kind \in {"quote", "project"} -> {NoKey}
                  [] kind = "approval" -> Keys
                  [] OTHER -> Keys \union {NoKey}

(* What the create still has to write in a statement of its own: the       *)
(* PostSaleCase of a sales order, the responsible users of a project.      *)
HasFollowUp(kind) == kind \in {"salesOrder", "project"}

KeyTaken(t, key) == key # NoKey /\ \E d \in Rows(t) : d.key = key
Findable(t, key) == key # NoKey /\ \E d \in Rows(t) : d.key = key /\ d.live

Answers == {"done", "found", "failed"}
Open(r) == req[r].pc \notin {"idle"} \union Answers

Init ==
  /\ docs = {}
  /\ req = [r \in Requests |-> [pc |-> "idle", kind |-> "quote",
                                key |-> NoKey, attempt |-> 1, count |-> 0,
                                rivals |-> {}]]

(* The request arrives; a document that its key already has answers it:    *)
(* the purchase order itself, ensureSalesOrder's existing order, or        *)
(* SALES_ORDER_ALREADY_EXISTS.                                             *)
Begin(r, kind, key) ==
  /\ req[r].pc = "idle"
  /\ req' = [req EXCEPT ![r] =
       [pc |-> IF Findable(Table(kind), key) THEN "found" ELSE "count",
        kind |-> kind, key |-> key, attempt |-> 1, count |-> 0,
        rivals |-> {}]]
  /\ UNCHANGED docs

Count(r) ==
  /\ req[r].pc = "count"
  /\ req' = [req EXCEPT ![r].pc = "insert",
                        ![r].count = Cardinality(Counted(req[r].kind))]
  /\ UNCHANGED docs

(* The index of the number was created before the one of the key, so it is *)
(* the one Postgres reports when both refuse.                              *)
Collides(q) ==
  IF \E d \in Rows(Table(q.kind)) : d.number = q.count + 1 THEN "number"
  ELSE IF KeyTaken(Table(q.kind), q.key) THEN "key"
  ELSE "none"

Insert(r) ==
  LET q == req[r] IN
  /\ q.pc = "insert" /\ Collides(q) = "none"
  /\ docs' = docs \union
       {[table |-> Table(q.kind), number |-> q.count + 1, key |-> q.key,
         live |-> TRUE, whole |-> ~HasFollowUp(q.kind), by |-> r,
         attributes |-> {}]}
  /\ req' = [o \in Requests |->
       IF o = r THEN [q EXCEPT !.pc = IF HasFollowUp(q.kind) THEN "follow"
                                                             ELSE "done"]
       ELSE IF Open(o) /\ Table(req[o].kind) = Table(q.kind)
       THEN [req[o] EXCEPT !.rivals = @ \union {r}]
       ELSE req[o]]

(* P2002 (quote, project, sales order): count again in a fresh statement   *)
(* or transaction, for a number and for a key alike.                       *)
Retry(r) ==
  LET q == req[r] IN
  /\ q.pc = "insert" /\ Collides(q) # "none"
  /\ q.kind # "purchaseOrder"
  /\ req' = [req EXCEPT ![r] =
       IF q.attempt = MaxAttempts[q.kind]
       THEN [q EXCEPT !.pc = "failed"]
       ELSE [q EXCEPT !.pc = "count", !.attempt = q.attempt + 1]]
  /\ UNCHANGED docs

(* Mutant of Recover. *)
RecoverAny(r) ==
  LET q == req[r] IN
  /\ q.pc = "insert" /\ Collides(q) # "none"
  /\ q.kind = "purchaseOrder"
  /\ req' = [req EXCEPT ![r].pc = IF q.key # NoKey THEN "found" ELSE "failed"]
  /\ UNCHANGED docs

(* P2002 (purchase order).  A number: the loop counts again in the same    *)
(* transaction, which Postgres has aborted (25P02), and the create fails.  *)
(* A key: the order that has it is the answer, unless it was removed.      *)
Recover(r) ==
  LET q == req[r] IN
  /\ q.pc = "insert" /\ Collides(q) # "none"
  /\ q.kind = "purchaseOrder"
  /\ req' = [req EXCEPT ![r].pc =
       IF Collides(q) = "key" /\ Findable("purchaseOrder", q.key)
       THEN "found" ELSE "failed"]
  /\ UNCHANGED docs

FollowUp(r) ==
  /\ req[r].pc = "follow"
  /\ docs' = {IF d.by = r THEN [d EXCEPT !.whole = TRUE] ELSE d : d \in docs}
  /\ req' = [req EXCEPT ![r].pc = "done"]

Crash(r) ==
  /\ MayCrash
  /\ req[r].pc = "follow"
  /\ req' = [req EXCEPT ![r].pc = "failed"]
  /\ UNCHANGED docs

(* remove: a soft delete; sales orders have none.                          *)
Remove(d) ==
  /\ MayRemove
  /\ d.live /\ d.table # "salesOrder"
  /\ docs' = (docs \ {d}) \union {[d EXCEPT !.live = FALSE]}
  /\ UNCHANGED req

Proceed(r) == Count(r) \/ Insert(r) \/ Retry(r) \/ Recover(r) \/ FollowUp(r)

Next == \/ \E r \in Requests :
             \/ \E kind \in Kinds : \E key \in KeysOf(kind) :
                  Begin(r, kind, key)
             \/ Proceed(r)
             \/ Crash(r)
        \/ \E d \in docs : Remove(d)

Spec == Init /\ [][Next]_vars
-----------------------------------------------------------------------------
(* A create under no key fails for want of a number only on a crowded day: *)
(* as many other documents as it had attempts appeared while it ran.  A    *)
(* purchase order, whose loop cannot count again, fails beside a single    *)
(* other one, or after a removal that its count no longer sees; a quote,   *)
(* for good, once an import has brought in a number ahead of the count.    *)
FailsOnlyWhenCrowded ==
  \A r \in Requests :
    (req[r].pc = "failed" /\ req[r].key = NoKey /\ ~\E d \in docs : d.by = r)
      => IF req[r].kind = "purchaseOrder"
         THEN \/ req[r].rivals # {}
              \/ \E d \in Rows("purchaseOrder") : ~d.live
         ELSE \/ Cardinality(req[r].rivals) >= MaxAttempts[req[r].kind]
              \/ \E d \in Rows(Table(req[r].kind)) : d.by \notin Requests

(* Each create inserts at most one document, however often it retries, and *)
(* one that it reports as created or found exists.                         *)
AnsweredWithOneDocument ==
  \A r \in Requests :
    /\ Cardinality({d \in docs : d.by = r}) <= 1
    /\ req[r].pc = "done" => \E d \in docs : d.by = r /\ d.whole
    /\ req[r].pc = "found" => \E d \in Rows(Table(req[r].kind)) :
                                d.key = req[r].key
=============================================================================
