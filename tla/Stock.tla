------------------------------- MODULE Stock -------------------------------
(***************************************************************************)
(* Stock rows, the average cost and the movement ledger of one product     *)
(* under concurrent requests.  Three kinds of writer share those rows:     *)
(*                                                                         *)
(*  - the stock endpoints (increase, decrease, transfer), each in a        *)
(*    SERIALIZABLE transaction retried on a write conflict;                *)
(*  - the sale a quote approval makes, inside the approval's own           *)
(*    READ COMMITTED transaction, one line after the other;                *)
(*  - the nightly holding-cost job, two plain statements.                  *)
(*                                                                         *)
(* Every writer computes an absolute value from what it has read, so a     *)
(* value read too early overwrites what was written in between.            *)
(***************************************************************************)
EXTENDS StockOps, Sequences

CONSTANTS Requests,      \* requests to the stock endpoints
          Sales,         \* quote approvals that take their items from stock
          SaleLines,     \* the line quantities an approval may carry
          InitQuantity,  \* stock at the start, all of it in the ledger
          InitCost,      \* Product.avgCost at the start, 0 when null
          MaxRetries,    \* STOCK_WRITE_MAX_RETRIES
          JobRuns,       \* how often the holding-cost job runs
          DailyNum, DailyDen   \* one day's holding-cost factor

ASSUME StockAssumption ==
  /\ Warehouses # {}
  /\ InitQuantity \in [Warehouses -> Int]
  /\ InitCost \in Nat /\ JobRuns \in Nat
  /\ MaxRetries \in Nat \ {0}
  /\ DailyNum \in Nat /\ DailyDen \in Nat \ {0} /\ DailyNum >= DailyDen
  /\ SaleLines \subseteq Seq(Nat \ {0})

VARIABLES quantity,   \* StockItem.quantity, 0 where there is no row yet
          rows,       \* the warehouses that have a StockItem row
          avgCost,    \* Product.avgCost
          ledger,     \* per row, newQuantity - previousQuantity summed over
                      \* the committed StockMovement rows
          tx,         \* the stock endpoints' requests
          costRead,   \* the avgCost each of their transactions has read
          sale,       \* the approvals' sales
          job         \* the holding-cost job

vars == <<quantity, rows, avgCost, ledger, tx, costRead, sale, job>>
-----------------------------------------------------------------------------
NoOp == [type |-> "NONE"]

Init ==
  /\ quantity = InitQuantity
  /\ rows = {w \in Warehouses : InitQuantity[w] # 0}
  /\ avgCost = InitCost
  /\ ledger = InitQuantity
  /\ tx = [r \in Requests |->
             [pc |-> "idle", op |-> NoOp, attempt |-> 0, snap |-> InitQuantity,
              changed |-> {}, changedSer |-> {}]]
  /\ costRead = [r \in Requests |-> InitCost]
  /\ sale = [q \in Sales |->
               [pc |-> "idle", at |-> CHOOSE w \in Warehouses : TRUE,
                lines |-> << >>, next |-> 1, read |-> 0, found |-> FALSE,
                held |-> FALSE, pending |-> 0, delta |-> 0]]
  /\ job = [pc |-> "idle", runs |-> 0, cost |-> 0, total |-> 0]

(* Other requests' open transactions after objs were committed: a later    *)
(* write to one of them fails (first updater wins); a SERIALIZABLE commit  *)
(* also invalidates what they have read.                                   *)
Tell(t, objs, serializable) ==
  IF t.pc # "open" THEN t
  ELSE [t EXCEPT !.changed = @ \union objs,
                 !.changedSer = IF serializable THEN @ \union objs ELSE @]

Closed(t, answer) ==
  [t EXCEPT !.pc = answer, !.changed = {}, !.changedSer = {}]

(* A row an approval has written and not yet committed is locked.          *)
Locked(w) == \E q \in Sales : sale[q].held /\ sale[q].at = w

(* Mutant of Conflict. *)
ConflictReadCommitted(t) == FALSE

(* Mutant of Conflict. *)
ConflictRepeatableRead(t) == Writes(t.op) \intersect t.changed # {}

(* Postgres refuses the commit with a serialization failure (P2034).       *)
Conflict(t) == \/ Writes(t.op) \intersect t.changed # {}
               \/ Reads(t.op) \intersect t.changedSer # {}

Insufficient(t) == /\ t.op.type = "TRANSFER"
                   /\ t.op.qty > t.snap[t.op.from]
-----------------------------------------------------------------------------
(* The stock endpoints.  All of a transaction's reads see the snapshot     *)
(* taken when it began.                                                    *)
Begin(r, op) ==
  /\ tx[r].pc = "idle"
  /\ tx' = [tx EXCEPT ![r] = [pc |-> "open", op |-> op, attempt |-> 1,
                              snap |-> quantity,
                              changed |-> {}, changedSer |-> {}]]
  /\ costRead' = [costRead EXCEPT ![r] = avgCost]
  /\ UNCHANGED <<quantity, rows, avgCost, ledger, sale, job>>

(* increaseStockTx, decreaseStockTx, transferStockTx and the commit.       *)
Commit(r) ==
  LET t == tx[r]
      targets == StockRows(t.op)
  IN /\ t.pc = "open"
     /\ ~Insufficient(t)
     /\ ~Conflict(t)
     /\ \A w \in targets : ~Locked(w)
     /\ quantity' = [w \in Warehouses |->
                       IF w \in targets THEN t.snap[w] + Effect(t.op, w)
                                        ELSE quantity[w]]
     /\ rows' = rows \union targets
     /\ ledger' = [w \in Warehouses |-> ledger[w] + Effect(t.op, w)]
     /\ avgCost' = IF t.op.type = "INCREASE"
                   THEN Wac(Total(t.snap), costRead[r],
                            t.op.qty, t.op.unitCost)
                   ELSE avgCost
     /\ tx' = [o \in Requests |-> IF o = r THEN Closed(t, "ok")
                                  ELSE Tell(tx[o], Writes(t.op), TRUE)]
     /\ UNCHANGED <<costRead, sale, job>>

(* Mutant of Refuse. *)
RefuseRetried(r) ==
  /\ tx[r].pc = "open" /\ Insufficient(tx[r])
  /\ tx' = [tx EXCEPT ![r].snap = quantity]
  /\ UNCHANGED <<quantity, rows, avgCost, ledger, costRead, sale, job>>

(* INSUFFICIENT_STOCK: not a conflict, so never retried.                   *)
Refuse(r) ==
  /\ tx[r].pc = "open" /\ Insufficient(tx[r])
  /\ tx' = [tx EXCEPT ![r] = Closed(@, "failed")]
  /\ UNCHANGED <<quantity, rows, avgCost, ledger, costRead, sale, job>>

(* P2034: run again from a new snapshot, at most MaxRetries times in all.  *)
Rerun(r) ==
  LET t == tx[r] IN
  /\ tx' = [tx EXCEPT ![r] =
              IF t.attempt = MaxRetries THEN Closed(t, "failed")
              ELSE [t EXCEPT !.attempt = t.attempt + 1, !.snap = quantity,
                             !.changed = {}, !.changedSer = {}]]
  /\ costRead' = [costRead EXCEPT ![r] = avgCost]
  /\ UNCHANGED <<quantity, rows, avgCost, ledger, sale, job>>

Retry(r) == tx[r].pc = "open" /\ ~Insufficient(tx[r]) /\ Conflict(tx[r])
            /\ Rerun(r)

(* Postgres may also refuse where no row was overwritten: the victim of a  *)
(* deadlock, or a false positive of its page-grained conflict detection.   *)
Unlucky(r) == /\ tx[r].pc = "open" /\ ~Conflict(tx[r])
              /\ \E o \in Requests \ {r} : tx[o].pc # "idle"
              /\ Rerun(r)
-----------------------------------------------------------------------------
(* The sale of an approved quote (ensureStockDecreaseForQuote).  It runs   *)
(* under the lock of its own quote row, so each quote sells once; nothing  *)
(* orders it against other quotes or the stock endpoints.                  *)
BeginSale(q, w, lines) ==
  /\ sale[q].pc = "idle"
  /\ sale' = [sale EXCEPT ![q].pc = "read", ![q].at = w, ![q].lines = lines]
  /\ UNCHANGED <<quantity, rows, avgCost, ledger, tx, costRead, job>>

(* decreaseStockTx, its findFirst: the row as committed now, or as this    *)
(* transaction has already written it.                                     *)
SaleRead(q) ==
  LET s == sale[q] IN
  /\ s.pc = "read" /\ s.next <= Len(s.lines)
  /\ sale' = [sale EXCEPT
       ![q].pc = "write",
       ![q].read = IF s.held THEN s.pending ELSE quantity[s.at],
       ![q].found = s.held \/ s.at \in rows]
  /\ UNCHANGED <<quantity, rows, avgCost, ledger, tx, costRead, job>>

(* decreaseStockTx, its update or create and the QUOTE_SALE movement.  The *)
(* row stays locked; creating a row that exists by now violates the unique *)
(* index and rolls the approval back.                                      *)
SaleWrite(q) ==
  LET s == sale[q] IN
  /\ s.pc = "write"
  /\ s.held \/ ~Locked(s.at)
  /\ sale' = [sale EXCEPT ![q] =
       IF ~s.found /\ s.at \in rows
       THEN [s EXCEPT !.pc = "failed"]
       ELSE [s EXCEPT !.pc = "read", !.next = s.next + 1, !.held = TRUE,
                      !.pending = s.read - s.lines[s.next],
                      !.delta = s.delta - s.lines[s.next]]]
  /\ UNCHANGED <<quantity, rows, avgCost, ledger, tx, costRead, job>>

(* Mutant of SaleCommit. *)
SaleCommitUnseen(q) ==
  LET s == sale[q] IN
  /\ s.pc = "read" /\ s.next > Len(s.lines)
  /\ sale' = [sale EXCEPT ![q].pc = "ok", ![q].held = FALSE]
  /\ IF s.held
     THEN /\ quantity' = [quantity EXCEPT ![s.at] = s.pending]
          /\ ledger' = [ledger EXCEPT ![s.at] = @ + s.delta]
          /\ rows' = rows \union {s.at}
     ELSE UNCHANGED <<quantity, ledger, rows>>
  /\ UNCHANGED <<avgCost, tx, costRead, job>>

SaleCommit(q) ==
  LET s == sale[q] IN
  /\ s.pc = "read" /\ s.next > Len(s.lines)
  /\ sale' = [sale EXCEPT ![q].pc = "ok", ![q].held = FALSE]
  /\ IF s.held
     THEN /\ quantity' = [quantity EXCEPT ![s.at] = s.pending]
          /\ ledger' = [ledger EXCEPT ![s.at] = @ + s.delta]
          /\ rows' = rows \union {s.at}
          /\ tx' = [r \in Requests |-> Tell(tx[r], {s.at}, FALSE)]
     ELSE UNCHANGED <<quantity, ledger, rows, tx>>
  /\ UNCHANGED <<avgCost, costRead, job>>

(* A later step of the approval fails, or the server dies.                 *)
SaleRollback(q) ==
  /\ sale[q].pc \in {"read", "write"}
  /\ sale' = [sale EXCEPT ![q].pc = "failed", ![q].held = FALSE]
  /\ UNCHANGED <<quantity, rows, avgCost, ledger, tx, costRead, job>>
-----------------------------------------------------------------------------
(* The holding-cost job: read product and stock, then write the new cost.  *)
Compound(cost) == RoundDiv(cost * DailyNum, DailyDen)

JobRead ==
  /\ job.pc = "idle" /\ job.runs < JobRuns
  /\ job' = [pc |-> "write", runs |-> job.runs + 1,
             cost |-> avgCost, total |-> Total(quantity)]
  /\ UNCHANGED <<quantity, rows, avgCost, ledger, tx, costRead, sale>>

JobWrite ==
  /\ job.pc = "write"
  /\ job' = [job EXCEPT !.pc = "idle"]
  /\ IF job.total > 0 /\ job.cost > 0
     THEN /\ avgCost' = Compound(job.cost)
          /\ tx' = [r \in Requests |-> Tell(tx[r], {ProductRow}, FALSE)]
     ELSE UNCHANGED <<avgCost, tx>>
  /\ UNCHANGED <<quantity, rows, ledger, costRead, sale>>
-----------------------------------------------------------------------------
RequestStep(r) == Commit(r) \/ Refuse(r) \/ Retry(r)
SaleStep(q) == SaleRead(q) \/ SaleWrite(q) \/ SaleCommit(q)

Next ==
  \/ \E r \in Requests : \/ \E op \in Operations : Begin(r, op)
                         \/ RequestStep(r)
                         \/ Unlucky(r)
  \/ \E q \in Sales : \/ \E w \in Warehouses, l \in SaleLines : BeginSale(q, w, l)
                      \/ SaleStep(q)
                      \/ SaleRollback(q)
  \/ JobRead
  \/ JobWrite

Spec == Init /\ [][Next]_vars

(* The server drives every request and sale it has begun, the worker every *)
(* job it has taken; nothing makes clients send requests.                  *)
Fairness == /\ \A r \in Requests : WF_vars(RequestStep(r))
            /\ \A q \in Sales : WF_vars(SaleStep(q))
            /\ WF_vars(JobWrite)
FairSpec == Spec /\ Fairness
-----------------------------------------------------------------------------
(* Types, and that no transaction runs more often than                     *)
(* STOCK_WRITE_MAX_RETRIES allows.                                         *)
TxTypeOK ==
  /\ tx \in [Requests ->
       [pc : {"idle", "open", "ok", "failed"}, op : Operations \union {NoOp},
        attempt : 0..MaxRetries, snap : [Warehouses -> Int],
        changed : SUBSET (Warehouses \union {ProductRow}),
        changedSer : SUBSET (Warehouses \union {ProductRow})]]
  /\ \A r \in Requests : tx[r].pc # "idle" => tx[r].op \in Operations

SaleTypeOK ==
  /\ sale \in [Sales ->
       [pc : {"idle", "read", "write", "ok", "failed"}, at : Warehouses,
        lines : Seq(Nat \ {0}), next : Nat \ {0}, read : Int, found : BOOLEAN,
        held : BOOLEAN, pending : Int, delta : Int]]
  /\ \A q \in Sales : sale[q].pc = "write" => sale[q].next <= Len(sale[q].lines)

LedgerTypeOK ==
  /\ quantity \in [Warehouses -> Int]
  /\ rows \subseteq Warehouses
  /\ ledger \in [Warehouses -> Int]
  /\ TxTypeOK
  /\ SaleTypeOK

CostTypeOK ==
  /\ avgCost \in Int
  /\ costRead \in [Requests -> Int]
  /\ job \in [pc : {"idle", "write"}, runs : 0..JobRuns, cost : Int, total : Int]

TypeOK == LedgerTypeOK /\ CostTypeOK

(* What the movement table says a row holds is what the row holds.         *)
Reconciled(w) == quantity[w] = ledger[w]

(* The stock history adds up: every StockItem row equals the sum of its    *)
(* StockMovement rows (schema.prisma calls the table the ledger).          *)
LedgerReconciles == \A w \in Warehouses : Reconciled(w)

(* With quote approvals running, the rows no quote has sold from still add *)
(* up: the SERIALIZABLE endpoints never lose one another's update, and a   *)
(* sale disturbs its own warehouse only.                                   *)
UnsoldRowsReconcile ==
  \A w \in Warehouses :
    (\A q \in Sales : sale[q].at = w => sale[q].pc # "ok") => Reconciled(w)

(* Why: what an open transaction has read is still what is stored, except  *)
(* where it has been told of a commit.                                     *)
SnapshotsFresh ==
  \A r \in Requests : tx[r].pc = "open" =>
    \A w \in Warehouses \ tx[r].changed : tx[r].snap[w] = quantity[w]

(* The inductive invariant of the two.                                     *)
StockInv == LedgerTypeOK /\ SnapshotsFresh /\ UnsoldRowsReconcile

Answers(r) == tx[r].pc = "open" /\ tx'[r].pc = "ok"

(* Buying stock preserves value: total stock times average cost grows by   *)
(* what the batch cost, up to the rounding of the average.  The total and  *)
(* the average are those in the database when the increase commits, not    *)
(* those it read.                                                          *)
IncreaseAddsItsCost ==
  [][\A r \in Requests :
       Answers(r) /\ tx[r].op.type = "INCREASE" /\ Total(quantity') # 0 =>
         LET paid  == tx[r].op.qty * tx[r].op.unitCost
             error == Total(quantity') * avgCost'
                      - (Total(quantity) * avgCost + paid)
             size  == IF Total(quantity') < 0 THEN -Total(quantity')
                                              ELSE Total(quantity')
         IN 2 * error <= size /\ -2 * error <= size]_vars

(* A transfer moves stock and neither makes nor destroys any, and it never *)
(* takes its source row below zero, whatever ran between its reads and its *)
(* commit (transferStockTx, INSUFFICIENT_STOCK).                           *)
TransferMovesStock ==
  [][\A r \in Requests :
       Answers(r) /\ tx[r].op.type = "TRANSFER" =>
         /\ quantity'[tx[r].op.from] >= 0
         /\ quantity'[tx[r].op.from] + quantity'[tx[r].op.to]
              = quantity[tx[r].op.from] + quantity[tx[r].op.to]]_vars

(* The stock endpoints are atomic: seen from outside, each request acts in *)
(* one step on the current stock and cost (StockAtomic).                   *)
Atomic == INSTANCE StockAtomic WITH
  answered <- [r \in Requests |->
                 IF tx[r].pc \in {"ok", "failed"} THEN tx[r].pc ELSE "no"]
EndpointsAreAtomic == Atomic!Spec

(* Every request and every sale is answered: a retry limit, not a livelock *)
(* ends a conflict, and no request waits for a row lock for ever.          *)
EveryRequestAnswered ==
  /\ \A r \in Requests : tx[r].pc = "open" ~> tx[r].pc \in {"ok", "failed"}
  /\ \A q \in Sales : sale[q].pc = "read" ~> sale[q].pc \in {"ok", "failed"}
=============================================================================
