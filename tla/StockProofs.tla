---------------------------- MODULE StockProofs ----------------------------
(***************************************************************************)
(* Proofs about Stock, for any number of warehouses, requests and sales.   *)
(***************************************************************************)
EXTENDS Stock, FiniteSetTheorems, TLAPS

(* What a request adds is an integer, and it adds to its own rows only.    *)
LEMMA EffectLemma ==
  ASSUME NEW op \in Operations, NEW w \in Warehouses
  PROVE  /\ Effect(op, w) \in Int
         /\ w \notin StockRows(op) => Effect(op, w) = 0
         /\ StockRows(op) \subseteq Warehouses
         /\ StockRows(op) \subseteq Writes(op)
         /\ Writes(op) \subseteq Warehouses \union {ProductRow}
<1>1. Quantities \subseteq Int
  BY DtoAssumption
<1>2. CASE op \in Increases
  BY <1>1, <1>2 DEF Increases, Effect, StockRows, Writes
<1>3. CASE op \in Decreases
  BY <1>1, <1>3 DEF Decreases, Effect, StockRows, Writes
<1>4. CASE op \in Transfers
  BY <1>1, <1>4 DEF Transfers, Effect, StockRows, Writes
<1>. QED
  BY <1>2, <1>3, <1>4 DEF Operations

LEMMA TransferFields ==
  ASSUME NEW op \in Transfers
  PROVE  /\ op.from \in Warehouses /\ op.to \in Warehouses /\ op.from # op.to
         /\ op.qty \in Int
<1>1. op.qty \in Quantities
  BY DEF Transfers
<1>2. Quantities \subseteq Int
  BY DtoAssumption
<1>3. op.qty \in Int
  BY <1>1, <1>2
<1>. QED
  BY <1>3 DEF Transfers

-----------------------------------------------------------------------------
(* Total is a fold over the set of warehouses.  What it computes is shown  *)
(* by induction on that set: a claim that fails for some set of warehouses *)
(* fails for a minimal one.                                                *)
Pick(s) == CHOOSE x \in s : TRUE

\* The sum over s, given the sums over its subsets.
NextSum(f, g, s) == IF s = {} THEN 0 ELSE f[Pick(s)] + g[s \ {Pick(s)}]

Adds(f, g, T) == \A s \in SUBSET T : g[s] = NextSum(f, g, s)

Sums(f) == CHOOSE g : g = [s \in SUBSET Warehouses |-> NextSum(f, g, s)]

LEMMA TotalIsSum == ASSUME NEW f PROVE Total(f) = Sums(f)[Warehouses]
  BY DEF Total, MapThenSumSet, MapThenFoldSet, Sums, NextSum, Pick

LEMMA PickLemma == ASSUME NEW s, s # {} PROVE Pick(s) \in s
  BY DEF Pick

LEMMA MinimalSet ==
  ASSUME NEW B \in SUBSET SUBSET Warehouses, B # {}
  PROVE  \E T \in B : \A U \in B : U \subseteq T => U = T
<1>1. B \subseteq FiniteSubsetsOf(Warehouses)
  BY WarehousesAssumption, FS_Subset DEF FiniteSubsetsOf
<1>2. IsWellFoundedOn(StrictSubsetOrdering(Warehouses), FiniteSubsetsOf(Warehouses))
  BY FS_StrictSubsetOrderingWellFounded
<1>3. PICK T \in B : \A U \in B : <<U, T>> \notin StrictSubsetOrdering(Warehouses)
  BY <1>1, <1>2, WFMin
<1> QED
  BY <1>3 DEF StrictSubsetOrdering

LEMMA SumsAgree ==
  ASSUME NEW f, NEW T \in SUBSET Warehouses, NEW U \in SUBSET Warehouses, U \subseteq T,
         NEW g, Adds(f, g, T), NEW h, Adds(f, h, U)
  PROVE  \A s \in SUBSET U : g[s] = h[s]
<1> SUFFICES ASSUME {s \in SUBSET U : g[s] # h[s]} # {} PROVE FALSE
  OBVIOUS
<1>1. PICK s \in SUBSET U : /\ g[s] # h[s]
                            /\ \A u \in SUBSET U : g[u] # h[u] /\ u \subseteq s => u = s
  <2> DEFINE B == {s \in SUBSET U : g[s] # h[s]}
  <2>1. B \in SUBSET SUBSET Warehouses /\ B # {}
    OBVIOUS
  <2>2. \E s \in B : \A u \in B : u \subseteq s => u = s
    <3> HIDE DEF B
    <3> QED BY <2>1, MinimalSet
  <2> QED
    BY <2>2
<1>2. g[s] = NextSum(f, g, s) /\ h[s] = NextSum(f, h, s)
  BY DEF Adds
<1>3. s # {}
  BY <1>1, <1>2 DEF NextSum
<1>4. g[s \ {Pick(s)}] = h[s \ {Pick(s)}]
  BY <1>1, <1>3, PickLemma
<1> QED
  BY <1>1, <1>2, <1>3, <1>4 DEF NextSum

LEMMA SumsExist ==
  ASSUME NEW f \in [Warehouses -> Int]
  PROVE  \A T \in SUBSET Warehouses : \E g : g \in [SUBSET T -> Int] /\ Adds(f, g, T)
<1> DEFINE Good(T) == \E g : g \in [SUBSET T -> Int] /\ Adds(f, g, T)
           B == {T \in SUBSET Warehouses : ~Good(T)}
<1> SUFFICES ASSUME B # {} PROVE FALSE
  OBVIOUS
<1>1. PICK T \in SUBSET Warehouses :
         /\ ~Good(T)
         /\ \A U \in SUBSET Warehouses : ~Good(U) /\ U \subseteq T => U = T
  <2>1. B \in SUBSET SUBSET Warehouses
    OBVIOUS
  <2>2. \E s \in B : \A u \in B : u \subseteq s => u = s
    <3> HIDE DEF B
    <3> QED BY <2>1, MinimalSet
  <2> QED
    BY <2>2
<1> DEFINE G(U) == CHOOSE g : g \in [SUBSET U -> Int] /\ Adds(f, g, U)
           Rest(s) == s \ {Pick(s)}
           h == [s \in SUBSET T |-> IF s = {} THEN 0 ELSE f[Pick(s)] + G(Rest(s))[Rest(s)]]
<1>2. \A U \in SUBSET T : U # T => G(U) \in [SUBSET U -> Int] /\ Adds(f, G(U), U)
  BY <1>1
<1>3. \A s \in SUBSET T : s # {} =>
         /\ Pick(s) \in Warehouses
         /\ Rest(s) \in SUBSET T /\ Rest(s) \subseteq s /\ Rest(s) # T
  BY PickLemma
<1>4. h \in [SUBSET T -> Int]
  <2> SUFFICES ASSUME NEW s \in SUBSET T
               PROVE  (IF s = {} THEN 0 ELSE f[Pick(s)] + G(Rest(s))[Rest(s)]) \in Int
    OBVIOUS
  <2>1. CASE s # {}
    <3> HIDE DEF G, Rest
    <3>1. G(Rest(s)) \in [SUBSET Rest(s) -> Int]
      BY <1>2, <1>3, <2>1
    <3>2. G(Rest(s))[Rest(s)] \in Int /\ f[Pick(s)] \in Int
      BY <3>1, <1>3, <2>1
    <3> QED
      BY <3>2, <2>1
  <2> QED
    BY <2>1
<1>5. Adds(f, h, T)
  <2> SUFFICES ASSUME NEW s \in SUBSET T PROVE h[s] = NextSum(f, h, s)
    BY DEF Adds
  <2>1. CASE s = {}
    BY <2>1 DEF NextSum
  <2>2. CASE s # {}
    <3> DEFINE u == Rest(s)
    <3>1. h[s] = f[Pick(s)] + G(u)[u]
      BY <2>2
    <3>2. u \in SUBSET T /\ u # T
      BY <1>3, <2>2
    <3>a. u \in SUBSET Warehouses
      BY <3>2
    <3>3. G(u)[u] = NextSum(f, G(u), u)
      <4>1. Adds(f, G(u), u)
        BY <1>2, <3>2
      <4> HIDE DEF G, u
      <4> QED
        BY <4>1 DEF Adds
    <3>4. h[u] = G(u)[u]
      <4>1. CASE u = {}
        BY <3>2, <3>3, <4>1 DEF NextSum
      <4>2. CASE u # {}
        <5> DEFINE v == Rest(u)
        <5>1. h[u] = f[Pick(u)] + G(v)[v]
          BY <3>2, <4>2
        <5>2. G(u)[u] = f[Pick(u)] + G(u)[v]
          BY <3>3, <4>2 DEF NextSum
        <5>3. v \in SUBSET T /\ v \subseteq u /\ v # T
          BY <1>3, <3>2, <4>2
        <5>4. Adds(f, G(u), u) /\ Adds(f, G(v), v)
          BY <1>2, <3>2, <5>3
        <5>5. G(u)[v] = G(v)[v]
          <6>1. v \in SUBSET Warehouses /\ v \in SUBSET v
            BY <5>3
          <6> HIDE DEF G, u, v
          <6> QED
            BY <3>a, <5>3, <5>4, <6>1, SumsAgree
        <5> QED
          BY <5>1, <5>2, <5>5
      <4> QED
        BY <4>1, <4>2
    <3> QED
      BY <3>1, <3>4, <2>2 DEF NextSum
  <2> QED
    BY <2>1, <2>2
<1> QED
  BY <1>1, <1>4, <1>5

LEMMA SumsLemma ==
  ASSUME NEW f \in [Warehouses -> Int]
  PROVE  /\ Adds(f, Sums(f), Warehouses)
         /\ \A s \in SUBSET Warehouses : Sums(f)[s] \in Int
<1>1. PICK g : g \in [SUBSET Warehouses -> Int] /\ Adds(f, g, Warehouses)
  BY SumsExist
<1>2. g = [s \in SUBSET Warehouses |-> NextSum(f, g, s)]
  BY <1>1 DEF Adds
<1>3. Sums(f) = [s \in SUBSET Warehouses |-> NextSum(f, Sums(f), s)]
  BY <1>2 DEF Sums
<1>4. Adds(f, Sums(f), Warehouses)
  BY <1>3 DEF Adds
<1>5. \A s \in SUBSET Warehouses : Sums(f)[s] = g[s]
  BY <1>1, <1>4, SumsAgree
<1> QED
  BY <1>1, <1>4, <1>5

LEMMA TotalType == ASSUME NEW f \in [Warehouses -> Int] PROVE Total(f) \in Int
  BY TotalIsSum, SumsLemma

LEMMA TotalAdds ==
  ASSUME NEW f \in [Warehouses -> Int], NEW h \in [Warehouses -> Int],
         NEW w \in Warehouses, NEW d \in Int, h[w] = f[w] + d,
         \A v \in Warehouses \ {w} : h[v] = f[v]
  PROVE  Total(h) = Total(f) + d
<1> DEFINE More(s) == IF w \in s THEN d ELSE 0
           B == {s \in SUBSET Warehouses : Sums(h)[s] # Sums(f)[s] + More(s)}
<1>1. CASE B # {}
  <2>1. B \in SUBSET SUBSET Warehouses
    OBVIOUS
  <2>2. PICK s \in B : \A u \in B : u \subseteq s => u = s
    <3> HIDE DEF B
    <3> QED BY <1>1, <2>1, MinimalSet
  <2>3. s \in SUBSET Warehouses /\ Sums(h)[s] # Sums(f)[s] + More(s)
    BY <2>2
  <2>4. Sums(h)[s] = NextSum(h, Sums(h), s) /\ Sums(f)[s] = NextSum(f, Sums(f), s)
    BY <2>3, SumsLemma DEF Adds
  <2>5. s # {}
    BY <2>3, <2>4 DEF NextSum
  <2> DEFINE p == Pick(s)  u == s \ {p}
  <2>6. p \in s /\ p \in Warehouses
    BY <2>3, <2>5, PickLemma
  <2>7. u \in SUBSET Warehouses /\ u \subseteq s /\ u # s
    BY <2>3, <2>6
  <2>8. Sums(h)[u] = Sums(f)[u] + More(u)
    BY <2>2, <2>7
  <2>9. Sums(h)[s] = h[p] + Sums(h)[u] /\ Sums(f)[s] = f[p] + Sums(f)[u]
    BY <2>4, <2>5 DEF NextSum
  <2>10. Sums(f)[u] \in Int /\ f[p] \in Int
    BY <2>6, <2>7, SumsLemma
  <2>11. CASE p = w
    <3>1. More(s) = d /\ More(u) = 0 /\ h[p] = f[p] + d
      BY <2>6, <2>11
    <3> HIDE DEF More, u, p
    <3> QED
      BY <2>3, <2>8, <2>9, <2>10, <3>1
  <2>12. CASE p # w
    <3>1. More(s) = More(u) /\ h[p] = f[p] /\ More(u) \in Int
      BY <2>6, <2>12
    <3> HIDE DEF More, u, p
    <3> QED
      BY <2>3, <2>8, <2>9, <2>10, <3>1
  <2> QED
    BY <2>11, <2>12
<1>2. CASE B = {}
  BY <1>2, TotalIsSum
<1> QED
  BY <1>1, <1>2

LEMMA Rounds ==
  ASSUME NEW a \in Nat, NEW b \in Nat \ {0}, NEW q \in Int,
         q = (2 * a + b) \div (2 * b)
  PROVE  /\ 2 * (b * q) <= 2 * a + b
         /\ 2 * a + b < 2 * (b * q) + 2 * b
  OBVIOUS

\* Rounding is off by half a unit at most.
LEMMA RoundDivLemma ==
  ASSUME NEW n \in Int, NEW d \in Int \ {0}
  PROVE  /\ RoundDiv(n, d) \in Int
         /\ 2 * (d * RoundDiv(n, d) - n) <= (IF d < 0 THEN -d ELSE d)
         /\ -2 * (d * RoundDiv(n, d) - n) <= (IF d < 0 THEN -d ELSE d)
<1> DEFINE a == IF n < 0 THEN -n ELSE n
           b == IF d < 0 THEN -d ELSE d
           q == (2 * a + b) \div (2 * b)
<1>1. a \in Nat /\ b \in Nat \ {0}
  OBVIOUS
<1>2. q \in Int
  <2> HIDE DEF a, b
  <2> QED
    BY <1>1
<1>3. 2 * (b * q) <= 2 * a + b /\ 2 * a + b < 2 * (b * q) + 2 * b
  <2> HIDE DEF a, b
  <2> QED
    BY <1>1, <1>2, Rounds
<1>4. RoundDiv(n, d) = IF (n < 0) = (d < 0) THEN q ELSE -q
  BY DEF RoundDiv
<1>5. d * RoundDiv(n, d) - n = IF n < 0 THEN -(b * q - a) ELSE b * q - a
  <2> HIDE DEF q
  <2>1. CASE n < 0 /\ d < 0
    BY <1>2, <1>4, <2>1
  <2>2. CASE n < 0 /\ ~(d < 0)
    BY <1>2, <1>4, <2>2
  <2>3. CASE ~(n < 0) /\ d < 0
    BY <1>2, <1>4, <2>3
  <2>4. CASE ~(n < 0) /\ ~(d < 0)
    BY <1>2, <1>4, <2>4
  <2> QED
    BY <2>1, <2>2, <2>3, <2>4
<1> HIDE DEF q, a
<1>6. 2 * (b * q - a) <= b /\ -2 * (b * q - a) <= b
  <2> DEFINE p == b * q
  <2>1. p \in Int
    BY <1>1, <1>2
  <2> HIDE DEF p, b
  <2>2. 2 * p <= 2 * a + b /\ 2 * a + b < 2 * p + 2 * b
    BY <1>3 DEF p
  <2>3. 2 * (p - a) <= b /\ -2 * (p - a) <= b
    BY <2>1, <2>2, <1>1
  <2> QED
    BY <2>3 DEF p
<1>7. b * q - a \in Int /\ b \in Int
  BY <1>1, <1>2
<1>8. RoundDiv(n, d) \in Int
  BY <1>2, <1>4
<1> QED
  <2> DEFINE e == b * q - a
  <2>1. e \in Int /\ 2 * e <= b /\ -2 * e <= b
    BY <1>6, <1>7
  <2>2. d * RoundDiv(n, d) - n = IF n < 0 THEN -e ELSE e
    BY <1>5
  <2> HIDE DEF e
  <2> QED
    BY <1>8, <2>1, <2>2

(* The new average times the new total is the old value plus what was      *)
(* paid, but for the rounding.                                             *)
LEMMA WacLemma ==
  ASSUME NEW total \in Int, NEW cost \in Int, NEW qty \in Int, NEW paid \in Int
  PROVE  /\ Wac(total, cost, qty, paid) \in Int
         /\ total + qty # 0 =>
              LET error == (total + qty) * Wac(total, cost, qty, paid)
                           - (total * cost + qty * paid)
                  size  == IF total + qty < 0 THEN -(total + qty) ELSE total + qty
              IN  2 * error <= size /\ -2 * error <= size
<1>1. CASE total + qty = 0
  BY <1>1 DEF Wac
<1>2. CASE total + qty # 0
  <2> DEFINE n == total * cost + qty * paid
             d == total + qty
  <2>1. n \in Int /\ d \in Int \ {0}
    BY <1>2
  <2>2. Wac(total, cost, qty, paid) = RoundDiv(n, d)
    BY <1>2 DEF Wac
  <2> HIDE DEF n, d
  <2>3. /\ RoundDiv(n, d) \in Int
        /\ 2 * (d * RoundDiv(n, d) - n) <= (IF d < 0 THEN -d ELSE d)
        /\ -2 * (d * RoundDiv(n, d) - n) <= (IF d < 0 THEN -d ELSE d)
    BY <2>1, RoundDivLemma
  <2> QED
    BY <2>2, <2>3 DEF n, d
<1> QED
  BY <1>1, <1>2
-----------------------------------------------------------------------------
(* The set a transaction's type invariant ranges over.                     *)
TxRecords == [pc : {"idle", "open", "ok", "failed"},
              op : Operations \union {NoOp},
              attempt : 0..MaxRetries, snap : [Warehouses -> Int],
              changed : SUBSET (Warehouses \union {ProductRow}),
              changedSer : SUBSET (Warehouses \union {ProductRow})]

SaleRecords == [pc : {"idle", "read", "write", "ok", "failed"}, at : Warehouses,
                lines : Seq(Nat \ {0}), next : Nat \ {0}, read : Int,
                found : BOOLEAN, held : BOOLEAN, pending : Int, delta : Int]

(* Being told of somebody's commit changes nothing but the record of what  *)
(* has changed.                                                            *)
LEMMA TellLemma ==
  ASSUME NEW t \in TxRecords, NEW ser \in BOOLEAN,
         NEW objs \in SUBSET (Warehouses \union {ProductRow})
  PROVE  /\ Tell(t, objs, ser) \in TxRecords
         /\ Tell(t, objs, ser).pc = t.pc
         /\ Tell(t, objs, ser).op = t.op
         /\ Tell(t, objs, ser).snap = t.snap
         /\ t.pc = "open" => Tell(t, objs, ser).changed = t.changed \union objs
  BY DEF Tell, TxRecords

LEMMA ClosedLemma ==
  ASSUME NEW t \in TxRecords, NEW answer \in {"ok", "failed"}
  PROVE  /\ Closed(t, answer) \in TxRecords
         /\ Closed(t, answer).pc = answer
         /\ Closed(t, answer).op = t.op
  BY DEF Closed, TxRecords

(* Replacing one request's or one sale's record, or telling every request, *)
(* by well-typed values keeps the type invariant.                          *)
LEMMA TxUpdate ==
  ASSUME TxTypeOK, NEW r \in Requests, NEW new \in TxRecords,
         new.pc # "idle" => new.op \in Operations,
         tx' = [tx EXCEPT ![r] = new]
  PROVE  TxTypeOK'
<1>1. tx \in [Requests -> TxRecords]
  BY DEF TxTypeOK, TxRecords
<1>2. tx' \in [Requests -> TxRecords]
  BY <1>1
<1>3. \A o \in Requests : tx'[o].pc # "idle" => tx'[o].op \in Operations
  BY <1>1 DEF TxTypeOK
<1>. QED
  BY <1>2, <1>3 DEF TxTypeOK, TxRecords

LEMMA TxTold ==
  ASSUME TxTypeOK, NEW ser \in BOOLEAN,
         NEW objs \in SUBSET (Warehouses \union {ProductRow}),
         tx' = [o \in Requests |-> Tell(tx[o], objs, ser)]
  PROVE  TxTypeOK'
<1>1. tx \in [Requests -> TxRecords]
  BY DEF TxTypeOK, TxRecords
<1>2. ASSUME NEW o \in Requests
      PROVE  /\ tx'[o] \in TxRecords
             /\ tx'[o].pc # "idle" => tx'[o].op \in Operations
  <2>1. tx[o] \in TxRecords /\ tx'[o] = Tell(tx[o], objs, ser)
    BY <1>1
  <2>2. /\ Tell(tx[o], objs, ser) \in TxRecords
        /\ Tell(tx[o], objs, ser).pc = tx[o].pc
        /\ Tell(tx[o], objs, ser).op = tx[o].op
    BY <2>1, TellLemma
  <2>. QED
    BY <2>1, <2>2 DEF TxTypeOK
<1>3. tx' \in [Requests -> TxRecords]
  BY <1>2
<1>. QED
  BY <1>2, <1>3 DEF TxTypeOK, TxRecords

LEMMA SaleUpdate ==
  ASSUME SaleTypeOK, NEW q \in Sales, NEW new \in SaleRecords,
         new.pc = "write" => new.next <= Len(new.lines),
         sale' = [sale EXCEPT ![q] = new]
  PROVE  SaleTypeOK'
<1>1. sale \in [Sales -> SaleRecords]
  BY DEF SaleTypeOK, SaleRecords
<1>2. sale' \in [Sales -> SaleRecords]
  BY <1>1
<1>3. \A p \in Sales : sale'[p].pc = "write" => sale'[p].next <= Len(sale'[p].lines)
  BY <1>1 DEF SaleTypeOK
<1>. QED
  BY <1>2, <1>3 DEF SaleTypeOK, SaleRecords

(* The rows initially: an empty sale at some warehouse, idle requests.     *)
LEMMA InitTypes == Init => LedgerTypeOK
<1>. SUFFICES ASSUME Init PROVE LedgerTypeOK
  OBVIOUS
<1>1. (CHOOSE w \in Warehouses : TRUE) \in Warehouses
  BY StockAssumption
<1>2. << >> \in Seq(Nat \ {0})
  OBVIOUS
<1>3. SaleTypeOK
  BY <1>1, <1>2 DEF Init, SaleTypeOK
<1>4. TxTypeOK
  BY StockAssumption DEF Init, TxTypeOK
<1>. QED
  BY <1>3, <1>4, StockAssumption DEF Init, LedgerTypeOK

(* Each action keeps the types.                                            *)
LEMMA TypesStep == LedgerTypeOK /\ [Next]_vars => LedgerTypeOK'
<1>. SUFFICES ASSUME LedgerTypeOK, [Next]_vars PROVE LedgerTypeOK'
  OBVIOUS
<1>. USE DEF LedgerTypeOK
<1>tx. /\ tx \in [Requests -> TxRecords]
       /\ \A r \in Requests : tx[r].pc # "idle" => tx[r].op \in Operations
  BY DEF TxTypeOK, TxRecords
<1>sale. /\ sale \in [Sales -> SaleRecords]
         /\ \A q \in Sales : sale[q].pc = "write"
                               => sale[q].next <= Len(sale[q].lines)
  BY DEF SaleTypeOK, SaleRecords
<1>1. ASSUME NEW r \in Requests, NEW op \in Operations, Begin(r, op)
      PROVE  LedgerTypeOK'
  <2>1. 1 \in 0..MaxRetries
    BY StockAssumption
  <2>2. TxTypeOK'
    BY <1>1, <1>tx, <2>1 DEF Begin, TxTypeOK, TxRecords
  <2>. QED
    BY <1>1, <2>2 DEF Begin, SaleTypeOK
<1>2. ASSUME NEW r \in Requests, Commit(r) PROVE LedgerTypeOK'
  <2>1. tx[r].op \in Operations /\ tx[r] \in TxRecords
    BY <1>2, <1>tx DEF Commit
  <2>2. /\ \A w \in Warehouses : Effect(tx[r].op, w) \in Int
        /\ StockRows(tx[r].op) \subseteq Warehouses
        /\ Writes(tx[r].op) \in SUBSET (Warehouses \union {ProductRow})
    BY <2>1, EffectLemma, StockAssumption
  <2>3. tx[r].snap \in [Warehouses -> Int]
    BY <2>1 DEF TxRecords
  <2>4. quantity' \in [Warehouses -> Int] /\ ledger' \in [Warehouses -> Int]
    BY <1>2, <2>2, <2>3 DEF Commit
  <2>5. TxTypeOK'
    <3>1. ASSUME NEW o \in Requests
          PROVE  /\ tx'[o] \in TxRecords
                 /\ tx'[o].pc # "idle" => tx'[o].op \in Operations
      <4>1. CASE o = r
        BY <1>2, <2>1, <4>1, ClosedLemma DEF Commit
      <4>2. CASE o # r
        <5>1. tx'[o] = Tell(tx[o], Writes(tx[r].op), TRUE) /\ tx[o] \in TxRecords
          BY <1>2, <1>tx, <4>2 DEF Commit
        <5>2. /\ Tell(tx[o], Writes(tx[r].op), TRUE) \in TxRecords
              /\ Tell(tx[o], Writes(tx[r].op), TRUE).pc = tx[o].pc
              /\ Tell(tx[o], Writes(tx[r].op), TRUE).op = tx[o].op
          BY <2>2, <5>1, TellLemma
        <5>. QED
          BY <1>tx, <5>1, <5>2
      <4>. QED
        BY <4>1, <4>2
    <3>2. tx' = [o \in Requests |-> tx'[o]]
      BY <1>2 DEF Commit
    <3>. QED
      BY <3>1, <3>2 DEF TxTypeOK, TxRecords
  <2>6. rows' \subseteq Warehouses /\ SaleTypeOK'
    BY <1>2, <2>2 DEF Commit, SaleTypeOK
  <2>. QED
    BY <2>4, <2>5, <2>6
<1>3. ASSUME NEW r \in Requests, Refuse(r) PROVE LedgerTypeOK'
  <2>1. TxTypeOK'
    BY <1>3, <1>tx, ClosedLemma DEF Refuse, TxTypeOK, TxRecords
  <2>. QED
    BY <1>3, <2>1 DEF Refuse, SaleTypeOK
<1>4. ASSUME NEW r \in Requests, tx[r].pc = "open", Rerun(r)
      PROVE  LedgerTypeOK'
  <2>1. tx[r] \in TxRecords /\ tx[r].op \in Operations
    BY <1>4, <1>tx
  <2>2. CASE tx[r].attempt = MaxRetries
    <3>1. tx' = [tx EXCEPT ![r] = Closed(tx[r], "failed")]
      BY <1>4, <2>2 DEF Rerun
    <3>2. TxTypeOK'
      BY <1>tx, <2>1, <3>1, ClosedLemma DEF TxTypeOK, TxRecords
    <3>. QED
      BY <1>4, <3>2 DEF Rerun, SaleTypeOK
  <2>3. CASE tx[r].attempt # MaxRetries
    <3>. DEFINE new == [tx[r] EXCEPT !.attempt = tx[r].attempt + 1,
                                    !.snap = quantity, !.changed = {}, !.changedSer = {}]
    <3>1. tx' = [tx EXCEPT ![r] = new]
      BY <1>4, <2>3 DEF Rerun
    <3>2. tx[r].attempt + 1 \in 0..MaxRetries
      BY <2>1, <2>3, StockAssumption DEF TxRecords
    <3>3. new \in TxRecords /\ new.op \in Operations
      <4>1. quantity \in [Warehouses -> Int]
        OBVIOUS
      <4>2. {} \in SUBSET (Warehouses \union {ProductRow})
        OBVIOUS
      <4>. QED
        BY <2>1, <3>2, <4>1, <4>2 DEF TxRecords
    <3>. HIDE DEF new
    <3>4. TxTypeOK'
      BY <3>1, <3>3, TxUpdate
    <3>. QED
      BY <1>4, <3>4 DEF Rerun, SaleTypeOK
  <2>. QED
    BY <2>2, <2>3
<1>5. ASSUME NEW q \in Sales, NEW w \in Warehouses, NEW l \in SaleLines,
             BeginSale(q, w, l)
      PROVE  LedgerTypeOK'
  <2>1. l \in Seq(Nat \ {0})
    BY StockAssumption
  <2>. DEFINE new == [sale[q] EXCEPT !.pc = "read", !.at = w, !.lines = l]
  <2>3. sale' = [sale EXCEPT ![q] = new]
    BY <1>5, <1>sale DEF BeginSale, SaleRecords
  <2>4. new \in SaleRecords /\ new.pc = "read"
    BY <1>sale, <2>1 DEF SaleRecords
  <2>2. SaleTypeOK'
    <3>. HIDE DEF new
    <3>. QED
      BY <2>3, <2>4, SaleUpdate
  <2>. QED
    BY <1>5, <2>2 DEF BeginSale, TxTypeOK
<1>6. ASSUME NEW q \in Sales, SaleRead(q) PROVE LedgerTypeOK'
  <2>. DEFINE s == sale[q]
              new == [s EXCEPT !.pc = "write",
                        !.read = IF s.held THEN s.pending ELSE quantity[s.at],
                        !.found = s.held \/ s.at \in rows]
  <2>2. sale' = [sale EXCEPT ![q] = new]
    BY <1>6, <1>sale DEF SaleRead, SaleRecords
  <2>3. new \in SaleRecords
    BY <1>sale DEF SaleRecords
  <2>4. new.next <= Len(new.lines)
    BY <1>6, <1>sale DEF SaleRead, SaleRecords
  <2>1. SaleTypeOK'
    <3>. HIDE DEF new
    <3>. QED
      BY <2>2, <2>3, <2>4, SaleUpdate
  <2>. QED
    BY <1>6, <2>1 DEF SaleRead, TxTypeOK
<1>7. ASSUME NEW q \in Sales, SaleWrite(q) PROVE LedgerTypeOK'
  <2>1. sale[q] \in SaleRecords /\ sale[q].next \in 1..Len(sale[q].lines)
    BY <1>7, <1>sale DEF SaleWrite, SaleRecords
  <2>2. sale[q].lines[sale[q].next] \in Nat
    BY <2>1 DEF SaleRecords
  <2>3. SaleTypeOK'
    <3>1. CASE ~sale[q].found /\ sale[q].at \in rows
      <4>. DEFINE new == [sale[q] EXCEPT !.pc = "failed"]
      <4>1. sale' = [sale EXCEPT ![q] = new]
        BY <1>7, <3>1 DEF SaleWrite
      <4>2. new \in SaleRecords /\ new.pc = "failed"
        BY <2>1 DEF SaleRecords
      <4>. HIDE DEF new
      <4>. QED
        BY <4>1, <4>2, SaleUpdate
    <3>2. CASE ~(~sale[q].found /\ sale[q].at \in rows)
      <4>. DEFINE s == sale[q]
                  new == [s EXCEPT !.pc = "read", !.next = s.next + 1, !.held = TRUE,
                            !.pending = s.read - s.lines[s.next],
                            !.delta = s.delta - s.lines[s.next]]
      <4>1. sale' = [sale EXCEPT ![q] = new]
        BY <1>7, <3>2 DEF SaleWrite
      <4>2. new \in SaleRecords /\ new.pc = "read"
        <5>. DEFINE n == s.lines[s.next]
        <5>1. n \in Int
          BY <2>2
        <5>. HIDE DEF n
        <5>4. s.read \in Int /\ s.delta \in Int /\ s.next \in Nat \ {0}
          BY <2>1 DEF SaleRecords
        <5>2. /\ s.read - n \in Int /\ s.delta - n \in Int
              /\ s.next + 1 \in Nat \ {0}
          <6>. HIDE DEF s, new
          <6>. QED
            BY <5>1, <5>4
        <5>3. new = [s EXCEPT !.pc = "read", !.next = s.next + 1, !.held = TRUE,
                       !.pending = s.read - n, !.delta = s.delta - n]
          BY DEF n
        <5>. HIDE DEF new
        <5>. QED
          BY <2>1, <5>2, <5>3 DEF SaleRecords
      <4>. HIDE DEF new
      <4>. QED
        BY <4>1, <4>2, SaleUpdate
    <3>. QED
      BY <3>1, <3>2
  <2>. QED
    BY <1>7, <2>3 DEF SaleWrite, TxTypeOK
<1>8. ASSUME NEW q \in Sales, SaleCommit(q) PROVE LedgerTypeOK'
  <2>. DEFINE new == [sale[q] EXCEPT !.pc = "ok", !.held = FALSE]
  <2>4. sale' = [sale EXCEPT ![q] = new]
    BY <1>8, <1>sale DEF SaleCommit, SaleRecords
  <2>5. new \in SaleRecords /\ new.pc = "ok"
    BY <1>sale DEF SaleRecords
  <2>1. SaleTypeOK'
    <3>. HIDE DEF new
    <3>. QED
      BY <2>4, <2>5, SaleUpdate
  <2>2. CASE ~sale[q].held
    BY <1>8, <2>1, <2>2 DEF SaleCommit, TxTypeOK
  <2>3. CASE sale[q].held
    <3>1. sale[q].at \in Warehouses /\ sale[q].pending \in Int
          /\ sale[q].delta \in Int
      BY <1>sale DEF SaleRecords
    <3>2. {sale[q].at} \in SUBSET (Warehouses \union {ProductRow})
      BY <3>1
    <3>3. tx' = [r \in Requests |-> Tell(tx[r], {sale[q].at}, FALSE)]
      BY <1>8, <2>3 DEF SaleCommit
    <3>4. TxTypeOK'
      BY <3>2, <3>3, TxTold
    <3>. QED
      BY <1>8, <2>1, <2>3, <3>1, <3>4 DEF SaleCommit
  <2>. QED
    BY <2>2, <2>3
<1>9. ASSUME NEW q \in Sales, SaleRollback(q) PROVE LedgerTypeOK'
  <2>. DEFINE new == [sale[q] EXCEPT !.pc = "failed", !.held = FALSE]
  <2>2. sale' = [sale EXCEPT ![q] = new]
    BY <1>9, <1>sale DEF SaleRollback, SaleRecords
  <2>3. new \in SaleRecords /\ new.pc = "failed"
    BY <1>sale DEF SaleRecords
  <2>1. SaleTypeOK'
    <3>. HIDE DEF new
    <3>. QED
      BY <2>2, <2>3, SaleUpdate
  <2>. QED
    BY <1>9, <2>1 DEF SaleRollback, TxTypeOK
<1>10. CASE JobRead
  BY <1>10 DEF JobRead, TxTypeOK, SaleTypeOK
<1>11. CASE JobWrite
  <2>1. {ProductRow} \in SUBSET (Warehouses \union {ProductRow})
    OBVIOUS
  <2>2. TxTypeOK'
    <3>1. CASE job.total > 0 /\ job.cost > 0
      BY <1>11, <2>1, <3>1, TxTold DEF JobWrite
    <3>2. CASE ~(job.total > 0 /\ job.cost > 0)
      BY <1>11, <3>2 DEF JobWrite, TxTypeOK
    <3>. QED
      BY <3>1, <3>2
  <2>. QED
    BY <1>11, <2>2 DEF JobWrite, SaleTypeOK
<1>12. CASE UNCHANGED vars
  BY <1>12 DEF vars, TxTypeOK, SaleTypeOK
<1>. QED
  BY <1>1, <1>2, <1>3, <1>4, <1>5, <1>6, <1>7, <1>8, <1>9, <1>10, <1>11, <1>12
  DEF Next, RequestStep, Retry, Unlucky, SaleStep

(* The average cost stays a number: what is averaged are sums and rounded  *)
(* quotients with a denominator.                                           *)
LEMMA CompoundLemma == ASSUME NEW cost \in Int PROVE Compound(cost) \in Int
<1>1. cost * DailyNum \in Int /\ DailyDen \in Int \ {0}
  BY StockAssumption
<1>. QED
  BY <1>1, RoundDivLemma DEF Compound

LEMMA IncreaseFields ==
  ASSUME NEW op \in Operations, op.type = "INCREASE"
  PROVE  /\ op.at \in Warehouses /\ op.qty \in Nat \ {0} /\ op.unitCost \in Nat \ {0}
         /\ Effect(op, op.at) = op.qty
         /\ \A w \in Warehouses \ {op.at} : Effect(op, w) = 0
<1>1. op \in Increases
  BY DEF Operations, Decreases, Transfers
<1>2. op.at \in Warehouses /\ op.qty \in Quantities /\ op.unitCost \in UnitCosts
  BY <1>1 DEF Increases
<1>3. op.qty \in Nat \ {0} /\ op.unitCost \in Nat \ {0}
  BY <1>2, DtoAssumption
<1>. QED
  BY <1>2, <1>3 DEF Effect

LEMMA CostTypesStep == LedgerTypeOK /\ CostTypeOK /\ [Next]_vars => CostTypeOK'
<1>. SUFFICES ASSUME LedgerTypeOK, CostTypeOK, [Next]_vars PROVE CostTypeOK'
  OBVIOUS
<1>. USE DEF CostTypeOK
<1>1. ASSUME NEW r \in Requests, Commit(r) PROVE CostTypeOK'
  <2>1. CASE tx[r].op.type # "INCREASE"
    BY <1>1, <2>1 DEF Commit
  <2>2. CASE tx[r].op.type = "INCREASE"
    <3>1. tx[r].op \in Operations /\ tx[r].snap \in [Warehouses -> Int]
      BY <1>1 DEF Commit, LedgerTypeOK, TxTypeOK
    <3>2. Total(tx[r].snap) \in Int
      BY <3>1, TotalType
    <3>3. tx[r].op.qty \in Int /\ tx[r].op.unitCost \in Int
      BY <2>2, <3>1, IncreaseFields
    <3>4. Wac(Total(tx[r].snap), costRead[r], tx[r].op.qty, tx[r].op.unitCost) \in Int
      BY <3>2, <3>3, WacLemma
    <3>. QED
      BY <1>1, <2>2, <3>4 DEF Commit
  <2>. QED
    BY <2>1, <2>2
<1>2. ASSUME NEW r \in Requests, NEW op \in Operations, Begin(r, op) PROVE CostTypeOK'
  BY <1>2 DEF Begin
<1>3. ASSUME NEW r \in Requests, Rerun(r) PROVE CostTypeOK'
  BY <1>3 DEF Rerun
<1>4. CASE JobRead
  <2>1. Total(quantity) \in Int
    BY TotalType DEF LedgerTypeOK
  <2>2. job.runs + 1 \in 0..JobRuns
    BY <1>4, StockAssumption DEF JobRead
  <2>. QED
    BY <1>4, <2>1, <2>2 DEF JobRead
<1>5. CASE JobWrite
  <2>1. Compound(job.cost) \in Int
    BY CompoundLemma
  <2>2. job' \in [pc : {"idle", "write"}, runs : 0..JobRuns, cost : Int, total : Int]
    BY <1>5 DEF JobWrite
  <2>3. avgCost' \in Int /\ costRead' = costRead
    BY <1>5, <2>1 DEF JobWrite
  <2>. QED
    BY <2>2, <2>3
<1>6. CASE UNCHANGED <<avgCost, costRead, job>>
  BY <1>6
<1>7. CASE UNCHANGED vars
  BY <1>6, <1>7 DEF vars
<1>. QED
  BY <1>1, <1>2, <1>3, <1>4, <1>5, <1>6, <1>7
  DEF Next, RequestStep, Retry, Unlucky, Refuse, SaleStep, BeginSale, SaleRead,
      SaleWrite, SaleCommit, SaleRollback

LEMMA TypesHold == Spec => [](LedgerTypeOK /\ CostTypeOK)
<1>1. Init => LedgerTypeOK /\ CostTypeOK
  BY InitTypes, StockAssumption DEF Init, CostTypeOK
<1>2. (LedgerTypeOK /\ CostTypeOK) /\ [Next]_vars => (LedgerTypeOK /\ CostTypeOK)'
  BY TypesStep, CostTypesStep
<1>. QED
  BY <1>1, <1>2, PTL DEF Spec

(* The type invariant: rows, ledger, transactions with at most MaxRetries  *)
(* attempts, sales, and an average cost that is a number.                  *)
THEOREM StockTypes == Spec => []TypeOK
<1>1. (LedgerTypeOK /\ CostTypeOK) => TypeOK
  BY DEF TypeOK
<1>. QED
  BY <1>1, TypesHold, PTL
-----------------------------------------------------------------------------
(* The invariant holds initially.                                          *)
LEMMA InitInv == Init => StockInv
<1>. SUFFICES ASSUME Init PROVE StockInv
  OBVIOUS
<1>1. SnapshotsFresh
  BY DEF Init, SnapshotsFresh
<1>2. UnsoldRowsReconcile
  BY DEF Init, UnsoldRowsReconcile, Reconciled
<1>. QED
  BY <1>1, <1>2, InitTypes DEF StockInv

(* Telling the others of a commit of objs keeps their snapshots fresh, if  *)
(* no row outside objs has changed.                                        *)
LEMMA ToldStaysFresh ==
  ASSUME LedgerTypeOK, SnapshotsFresh, NEW ser \in BOOLEAN, NEW o \in Requests,
         NEW objs \in SUBSET (Warehouses \union {ProductRow}),
         tx'[o] = Tell(tx[o], objs, ser), tx'[o].pc = "open",
         \A w \in Warehouses \ objs : quantity'[w] = quantity[w]
  PROVE  \A w \in Warehouses \ tx'[o].changed : tx'[o].snap[w] = quantity'[w]
<1>1. tx[o] \in TxRecords
  BY DEF LedgerTypeOK, TxTypeOK, TxRecords
<1>2. /\ tx[o].pc = "open" /\ tx'[o].snap = tx[o].snap
      /\ tx'[o].changed = tx[o].changed \union objs
  BY <1>1, TellLemma
<1>. QED
  BY <1>2 DEF SnapshotsFresh

(* A committing request has read the rows it writes as they are now.       *)
LEMMA CommitReadsCurrent ==
  ASSUME LedgerTypeOK, SnapshotsFresh, NEW r \in Requests, Commit(r)
  PROVE  /\ tx[r].op \in Operations /\ tx[r] \in TxRecords
         /\ \A w \in StockRows(tx[r].op) : tx[r].snap[w] = quantity[w]
<1>1. tx[r].op \in Operations /\ tx[r] \in TxRecords
  BY DEF LedgerTypeOK, TxTypeOK, TxRecords, Commit
<1>2. /\ StockRows(tx[r].op) \subseteq Warehouses
      /\ StockRows(tx[r].op) \subseteq Writes(tx[r].op)
  BY <1>1, EffectLemma, StockAssumption
<1>3. Writes(tx[r].op) \intersect tx[r].changed = {}
  BY DEF Commit, Conflict
<1>. QED
  BY <1>1, <1>2, <1>3 DEF SnapshotsFresh, Commit

(* So a commit adds its effect to the current stock, row by row.           *)
LEMMA CommitAddsEffect ==
  ASSUME LedgerTypeOK, SnapshotsFresh, NEW r \in Requests, Commit(r),
         NEW w \in Warehouses
  PROVE  /\ Effect(tx[r].op, w) \in Int
         /\ quantity'[w] = quantity[w] + Effect(tx[r].op, w)
<1>1. Effect(tx[r].op, w) \in Int
      /\ (w \notin StockRows(tx[r].op) => Effect(tx[r].op, w) = 0)
  BY CommitReadsCurrent, EffectLemma
<1>2. CASE w \in StockRows(tx[r].op)
  BY <1>1, <1>2, CommitReadsCurrent DEF Commit
<1>3. CASE w \notin StockRows(tx[r].op)
  BY <1>1, <1>3 DEF Commit, LedgerTypeOK
<1>. QED
  BY <1>1, <1>2, <1>3

(* Every action keeps snapshots fresh: only Commit and SaleCommit change a *)
(* stock row, and both tell every other open transaction.                  *)
LEMMA FreshStep ==
  ASSUME LedgerTypeOK, SnapshotsFresh, [Next]_vars
  PROVE  SnapshotsFresh'
<1>. SUFFICES ASSUME NEW o \in Requests, tx'[o].pc = "open"
              PROVE  \A w \in Warehouses \ tx'[o].changed :
                       tx'[o].snap[w] = quantity'[w]
  BY DEF SnapshotsFresh
<1>tx. tx \in [Requests -> TxRecords]
  BY DEF LedgerTypeOK, TxTypeOK, TxRecords
<1>1. ASSUME NEW r \in Requests, NEW op \in Operations, Begin(r, op)
      PROVE  \A w \in Warehouses \ tx'[o].changed : tx'[o].snap[w] = quantity'[w]
  <2>1. CASE o = r
    BY <1>1, <1>tx, <2>1 DEF Begin
  <2>2. CASE o # r
    BY <1>1, <1>tx, <2>2 DEF Begin, SnapshotsFresh
  <2>. QED
    BY <2>1, <2>2
<1>2. ASSUME NEW r \in Requests, Commit(r)
      PROVE  \A w \in Warehouses \ tx'[o].changed : tx'[o].snap[w] = quantity'[w]
  <2>1. o # r
    BY <1>2, <1>tx, ClosedLemma DEF Commit
  <2>2. tx'[o] = Tell(tx[o], Writes(tx[r].op), TRUE)
    BY <1>2, <2>1 DEF Commit
  <2>3. tx[r].op \in Operations
    BY <1>2, CommitReadsCurrent
  <2>4. /\ Writes(tx[r].op) \in SUBSET (Warehouses \union {ProductRow})
        /\ StockRows(tx[r].op) \subseteq Writes(tx[r].op)
    BY <2>3, EffectLemma, StockAssumption
  <2>5. \A w \in Warehouses \ Writes(tx[r].op) : quantity'[w] = quantity[w]
    BY <1>2, <2>4 DEF Commit
  <2>. QED
    BY <2>2, <2>4, <2>5, ToldStaysFresh
<1>3. ASSUME NEW r \in Requests, Refuse(r)
      PROVE  \A w \in Warehouses \ tx'[o].changed : tx'[o].snap[w] = quantity'[w]
  <2>1. o # r
    BY <1>3, <1>tx, ClosedLemma DEF Refuse
  <2>. QED
    BY <1>3, <1>tx, <2>1 DEF Refuse, SnapshotsFresh
<1>4. ASSUME NEW r \in Requests, Rerun(r)
      PROVE  \A w \in Warehouses \ tx'[o].changed : tx'[o].snap[w] = quantity'[w]
  <2>1. CASE o = r /\ tx[r].attempt = MaxRetries
    <3>1. tx'[o] = Closed(tx[r], "failed")
      BY <1>4, <1>tx, <2>1 DEF Rerun
    <3>. QED
      BY <1>tx, <3>1, ClosedLemma
  <2>2. CASE o = r /\ tx[r].attempt # MaxRetries
    <3>1. tx'[o].snap = quantity /\ quantity' = quantity
      BY <1>4, <1>tx, <2>2 DEF Rerun, TxRecords
    <3>. QED
      BY <3>1
  <2>3. CASE o # r
    BY <1>4, <1>tx, <2>3 DEF Rerun, SnapshotsFresh
  <2>. QED
    BY <2>1, <2>2, <2>3
<1>5. ASSUME NEW q \in Sales, SaleCommit(q)
      PROVE  \A w \in Warehouses \ tx'[o].changed : tx'[o].snap[w] = quantity'[w]
  <2>1. CASE sale[q].held
    <3>1. sale[q].at \in Warehouses
      BY DEF LedgerTypeOK, SaleTypeOK
    <3>2. /\ tx'[o] = Tell(tx[o], {sale[q].at}, FALSE)
          /\ quantity' = [quantity EXCEPT ![sale[q].at] = sale[q].pending]
      BY <1>5, <2>1 DEF SaleCommit
    <3>3. \A w \in Warehouses \ {sale[q].at} : quantity'[w] = quantity[w]
      BY <3>2 DEF LedgerTypeOK
    <3>4. {sale[q].at} \in SUBSET (Warehouses \union {ProductRow})
      BY <3>1
    <3>. QED
      BY <3>2, <3>3, <3>4, ToldStaysFresh
  <2>2. CASE ~sale[q].held
    BY <1>5, <2>2 DEF SaleCommit, SnapshotsFresh
  <2>. QED
    BY <2>1, <2>2
<1>6. CASE JobWrite
  <2>1. CASE job.total > 0 /\ job.cost > 0
    <3>1. tx'[o] = Tell(tx[o], {ProductRow}, FALSE) /\ quantity' = quantity
      BY <1>6, <2>1 DEF JobWrite
    <3>. QED
      BY <3>1, ToldStaysFresh
  <2>2. CASE ~(job.total > 0 /\ job.cost > 0)
    BY <1>6, <2>2 DEF JobWrite, SnapshotsFresh
  <2>. QED
    BY <2>1, <2>2
<1>7. CASE /\ UNCHANGED <<tx, quantity>>
  BY <1>7 DEF SnapshotsFresh
<1>8. CASE UNCHANGED vars
  BY <1>7, <1>8 DEF vars
<1>. QED
  BY <1>1, <1>2, <1>3, <1>4, <1>5, <1>6, <1>7, <1>8
  DEF Next, RequestStep, Retry, Unlucky, SaleStep, BeginSale, SaleRead,
      SaleWrite, SaleRollback, JobRead

(* No quote sells from w without being counted: while none has sold from w *)
(* none had before the step.                                               *)
LEMMA UnsoldBefore ==
  ASSUME LedgerTypeOK, [Next]_vars, NEW w \in Warehouses,
         \A q \in Sales : sale'[q].at = w => sale'[q].pc # "ok"
  PROVE  \A q \in Sales : sale[q].at = w => sale[q].pc # "ok"
<1>. SUFFICES ASSUME NEW q \in Sales, sale[q].at = w, sale[q].pc = "ok"
              PROVE  FALSE
  OBVIOUS
<1>1. sale \in [Sales -> SaleRecords]
  BY DEF LedgerTypeOK, SaleTypeOK, SaleRecords
<1>2. sale'[q] = sale[q]
  BY <1>1 DEF Next, RequestStep, Retry, Unlucky, SaleStep, BeginSale, SaleRead,
     SaleWrite, SaleCommit, SaleRollback, JobRead, JobWrite, Begin, Commit,
     Refuse, Rerun, vars
<1>. QED
  BY <1>2

(* Every action keeps the unsold rows reconciled.                          *)
LEMMA UnsoldStep ==
  ASSUME LedgerTypeOK, SnapshotsFresh, UnsoldRowsReconcile, [Next]_vars
  PROVE  UnsoldRowsReconcile'
<1>. SUFFICES ASSUME NEW w \in Warehouses,
                     \A q \in Sales : sale'[q].at = w => sale'[q].pc # "ok"
              PROVE  quantity'[w] = ledger'[w]
  BY DEF UnsoldRowsReconcile, Reconciled
<1>1. quantity[w] = ledger[w]
  BY UnsoldBefore DEF UnsoldRowsReconcile, Reconciled
<1>2. ASSUME NEW r \in Requests, Commit(r) PROVE quantity'[w] = ledger'[w]
  BY <1>1, <1>2, CommitAddsEffect DEF Commit
<1>3. ASSUME NEW q \in Sales, SaleCommit(q) PROVE quantity'[w] = ledger'[w]
  <2>1. CASE sale[q].held
    <3>1. sale'[q].at = sale[q].at /\ sale'[q].pc = "ok"
      BY <1>3 DEF SaleCommit, LedgerTypeOK, SaleTypeOK
    <3>2. sale[q].at # w
      BY <3>1
    <3>. QED
      BY <1>1, <1>3, <2>1, <3>2 DEF SaleCommit, LedgerTypeOK
  <2>2. CASE ~sale[q].held
    BY <1>1, <1>3, <2>2 DEF SaleCommit
  <2>. QED
    BY <2>1, <2>2
<1>4. CASE UNCHANGED <<quantity, ledger>>
  BY <1>1, <1>4
<1>5. CASE UNCHANGED vars
  BY <1>4, <1>5 DEF vars
<1>. QED
  BY <1>2, <1>3, <1>4, <1>5
  DEF Next, RequestStep, Retry, Unlucky, SaleStep, Begin, Refuse, Rerun,
      BeginSale, SaleRead, SaleWrite, SaleRollback, JobRead, JobWrite

LEMMA InvStep == StockInv /\ [Next]_vars => StockInv'
  BY TypesStep, FreshStep, UnsoldStep DEF StockInv

THEOREM StockInvariant == Spec => []StockInv
  BY InitInv, InvStep, PTL DEF Spec
-----------------------------------------------------------------------------
(* What an open SERIALIZABLE transaction has read is current, or it was    *)
(* told that it is not and will run again.                                 *)
THEOREM ReadsStayFresh == Spec => []SnapshotsFresh
  BY StockInvariant, PTL DEF StockInv

(* Rows no quote has sold from always equal the sum of their movements,    *)
(* however many requests, sales and job runs overlap.                      *)
THEOREM UnsoldRowsAddUp == Spec => []UnsoldRowsReconcile
<1>1. StockInv => UnsoldRowsReconcile
  BY DEF StockInv
<1>. QED
  BY <1>1, StockInvariant, PTL

(* The stock endpoints alone keep the whole ledger reconciled.             *)
THEOREM EndpointsReconcile ==
  ASSUME Sales = {}
  PROVE  Spec => []LedgerReconciles
<1>1. StockInv => LedgerReconciles
  BY DEF StockInv, UnsoldRowsReconcile, LedgerReconciles
<1>. QED
  BY <1>1, StockInvariant, PTL

\* A request that is answered ok has committed.
LEMMA AnswerIsCommit ==
  ASSUME StockInv, [Next]_vars, NEW r \in Requests, Answers(r)
  PROVE  Commit(r)
<1>tx. tx \in [Requests -> TxRecords]
  BY DEF StockInv, LedgerTypeOK, TxTypeOK, TxRecords
<1>1. ASSUME NEW o \in Requests, Commit(o) PROVE o = r
  <2>1. CASE o # r
    <3>1. tx[o].op \in Operations
      BY <1>1, CommitReadsCurrent DEF StockInv
    <3>2. Writes(tx[o].op) \in SUBSET (Warehouses \union {ProductRow})
      BY <3>1, EffectLemma, StockAssumption
    <3>3. tx'[r] = Tell(tx[r], Writes(tx[o].op), TRUE)
      BY <1>1, <2>1 DEF Commit
    <3>4. tx[r] \in TxRecords
      BY <1>tx
    <3>5. Tell(tx[r], Writes(tx[o].op), TRUE).pc = tx[r].pc
      BY <3>2, <3>4, TellLemma
    <3>. QED
      BY <3>3, <3>5 DEF Answers
  <2>. QED
    BY <2>1
<1>2. ASSUME NEW q \in Sales, SaleCommit(q) PROVE FALSE
  <2>1. {sale[q].at} \in SUBSET (Warehouses \union {ProductRow})
    BY DEF StockInv, LedgerTypeOK, SaleTypeOK
  <2>2. tx'[r] = tx[r] \/ tx'[r] = Tell(tx[r], {sale[q].at}, FALSE)
    BY <1>2 DEF SaleCommit
  <2>3. Tell(tx[r], {sale[q].at}, FALSE).pc = tx[r].pc
    BY <1>tx, <2>1, TellLemma
  <2>. QED
    BY <2>2, <2>3 DEF Answers
<1>3. ASSUME JobWrite PROVE FALSE
  <2>1. tx'[r] = tx[r] \/ tx'[r] = Tell(tx[r], {ProductRow}, FALSE)
    BY <1>3 DEF JobWrite
  <2>2. Tell(tx[r], {ProductRow}, FALSE).pc = tx[r].pc
    BY <1>tx, TellLemma
  <2>. QED
    BY <2>1, <2>2 DEF Answers
<1>4. ASSUME NEW o \in Requests, Refuse(o) PROVE FALSE
  BY <1>tx, <1>4, ClosedLemma DEF Refuse, Answers
<1>5. ASSUME NEW o \in Requests, Rerun(o) PROVE FALSE
  <2>1. CASE tx[o].attempt = MaxRetries
    <3>1. tx' = [tx EXCEPT ![o] = Closed(tx[o], "failed")]
      BY <1>5, <2>1 DEF Rerun
    <3>. QED
      BY <1>tx, <3>1, ClosedLemma DEF Answers
  <2>2. CASE tx[o].attempt # MaxRetries
    <3>1. tx'[o].pc = tx[o].pc /\ (o # r => tx'[r] = tx[r])
      BY <1>tx, <1>5, <2>2 DEF Rerun, TxRecords
    <3>. QED
      BY <3>1 DEF Answers
  <2>. QED
    BY <2>1, <2>2
<1>6. ASSUME NEW o \in Requests, NEW op \in Operations, Begin(o, op)
      PROVE  FALSE
  BY <1>tx, <1>6 DEF Begin, Answers
<1>7. ASSUME UNCHANGED tx PROVE FALSE
  BY <1>7 DEF Answers
<1>. QED
  BY <1>1, <1>2, <1>3, <1>4, <1>5, <1>6, <1>7
  DEF Next, RequestStep, Retry, Unlucky, SaleStep, BeginSale, SaleRead,
      SaleWrite, SaleRollback, JobRead, vars

(* A transfer neither makes nor destroys stock and never overdraws its     *)
(* source row, whatever runs beside it.                                    *)
THEOREM TransfersMoveStock == Spec => TransferMovesStock
<1>. DEFINE A(r) == Answers(r) /\ tx[r].op.type = "TRANSFER" =>
         /\ quantity'[tx[r].op.from] >= 0
         /\ quantity'[tx[r].op.from] + quantity'[tx[r].op.to]
              = quantity[tx[r].op.from] + quantity[tx[r].op.to]
<1>1. ASSUME StockInv, [Next]_vars, NEW r \in Requests,
             Answers(r), tx[r].op.type = "TRANSFER"
      PROVE  /\ quantity'[tx[r].op.from] >= 0
             /\ quantity'[tx[r].op.from] + quantity'[tx[r].op.to]
                  = quantity[tx[r].op.from] + quantity[tx[r].op.to]
  <2>1. Commit(r)
    BY <1>1, AnswerIsCommit
  <2>. DEFINE op == tx[r].op
  <2>2. op \in Operations /\ tx[r].snap \in [Warehouses -> Int]
    BY <1>1, <2>1, CommitReadsCurrent DEF StockInv, TxRecords
  <2>3. op \in Transfers
    BY <1>1, <2>2 DEF Operations, Increases, Decreases
  <2>4. /\ op.from \in Warehouses /\ op.to \in Warehouses /\ op.from # op.to
        /\ op.qty \in Int
    BY <2>3, TransferFields
  <2>5. Effect(op, op.from) = -op.qty /\ Effect(op, op.to) = op.qty
    BY <1>1, <2>4 DEF Effect
  <2>6. /\ quantity'[op.from] = quantity[op.from] - op.qty
        /\ quantity'[op.to] = quantity[op.to] + op.qty
        /\ quantity[op.from] \in Int /\ quantity[op.to] \in Int
    BY <1>1, <2>1, <2>4, <2>5, CommitAddsEffect DEF StockInv, LedgerTypeOK
  <2>7. tx[r].snap[op.from] = quantity[op.from]
    BY <1>1, <2>1, CommitReadsCurrent DEF StockInv, StockRows
  <2>8. op.qty <= quantity[op.from]
    BY <1>1, <2>1, <2>2, <2>4, <2>6, <2>7 DEF Commit, Insufficient
  <2>. HIDE DEF op
  <2>9. /\ quantity'[op.from] >= 0
        /\ quantity'[op.from] + quantity'[op.to]
             = quantity[op.from] + quantity[op.to]
    BY <2>4, <2>6, <2>8
  <2>. QED
    BY <2>9 DEF op
<1>2. StockInv /\ [Next]_vars => [\A r \in Requests : A(r)]_vars
  BY <1>1
<1>3. TransferMovesStock <=> [][\A r \in Requests : A(r)]_vars
  BY DEF TransferMovesStock
<1>. QED
  BY <1>2, <1>3, StockInvariant, PTL DEF Spec
-----------------------------------------------------------------------------
(* The average cost.  A transaction's cost is the stored one, unless it    *)
(* was told that the product's row has changed; without quotes' sales, its *)
(* whole snapshot is the stored one, unless a SERIALIZABLE commit said so. *)
CostsFresh ==
  \A r \in Requests : tx[r].pc = "open" /\ ProductRow \notin tx[r].changed
                        => costRead[r] = avgCost

SnapshotsSerial ==
  \A r \in Requests : tx[r].pc = "open" =>
    \A w \in Warehouses \ tx[r].changedSer : tx[r].snap[w] = quantity[w]

CostInv == StockInv /\ CostTypeOK /\ CostsFresh /\ SnapshotsSerial

LEMMA TellSerLemma ==
  ASSUME NEW t \in TxRecords, NEW ser \in BOOLEAN,
         NEW objs \in SUBSET (Warehouses \union {ProductRow}), t.pc = "open"
  PROVE  Tell(t, objs, ser).changedSer = IF ser THEN t.changedSer \union objs
                                         ELSE t.changedSer
  BY DEF Tell, TxRecords

\* What a request that stays open has read, and what it was told.
LEMMA FreshAfter ==
  ASSUME StockInv, CostTypeOK, Sales = {}, CostsFresh, SnapshotsSerial, [Next]_vars,
         NEW o \in Requests, tx'[o].pc = "open"
  PROVE  /\ ProductRow \notin tx'[o].changed => costRead'[o] = avgCost'
         /\ \A w \in Warehouses \ tx'[o].changedSer : tx'[o].snap[w] = quantity'[w]
<1>. DEFINE Fresh == /\ ProductRow \notin tx'[o].changed => costRead'[o] = avgCost'
                     /\ \A w \in Warehouses \ tx'[o].changedSer :
                          tx'[o].snap[w] = quantity'[w]
<1>. SUFFICES Fresh
  OBVIOUS
<1>tx. tx \in [Requests -> TxRecords]
  BY DEF StockInv, LedgerTypeOK, TxTypeOK, TxRecords
<1>1. ASSUME NEW r \in Requests, NEW op \in Operations, Begin(r, op) PROVE Fresh
  <2>1. CASE o = r
    <3>1. costRead'[o] = avgCost /\ avgCost' = avgCost
      BY <1>1, <2>1 DEF Begin, CostTypeOK
    <3>. QED
      BY <1>1, <1>tx, <2>1, <3>1 DEF Begin
  <2>2. CASE o # r
    BY <1>1, <1>tx, <2>2 DEF Begin, CostsFresh, SnapshotsSerial
  <2>. QED
    BY <2>1, <2>2
<1>2. ASSUME NEW r \in Requests, Commit(r) PROVE Fresh
  <2>1. o # r
    BY <1>2, <1>tx, ClosedLemma DEF Commit
  <2>. DEFINE objs == Writes(tx[r].op)
  <2>2. tx'[o] = Tell(tx[o], objs, TRUE)
    BY <1>2, <2>1 DEF Commit
  <2>3. tx[r].op \in Operations
    BY <1>2, CommitReadsCurrent DEF StockInv
  <2>4. /\ objs \in SUBSET (Warehouses \union {ProductRow})
        /\ StockRows(tx[r].op) \subseteq objs
    BY <2>3, EffectLemma, StockAssumption
  <2>5. \A w \in Warehouses \ objs : quantity'[w] = quantity[w]
    BY <1>2, <2>4 DEF Commit
  <2>6. ProductRow \notin objs => avgCost' = avgCost
    BY <1>2 DEF Commit, Writes
  <2>7. tx[o] \in TxRecords
    BY <1>tx
  <2>. HIDE DEF objs
  <2>8. /\ tx[o].pc = "open" /\ tx'[o].snap = tx[o].snap
        /\ tx'[o].changed = tx[o].changed \union objs
        /\ tx'[o].changedSer = tx[o].changedSer \union objs
    <3>1. /\ Tell(tx[o], objs, TRUE).pc = tx[o].pc
          /\ Tell(tx[o], objs, TRUE).snap = tx[o].snap
          /\ tx[o].pc = "open" =>
               Tell(tx[o], objs, TRUE).changed = tx[o].changed \union objs
      BY <2>4, <2>7, TellLemma
    <3>2. tx[o].pc = "open"
      BY <2>2, <3>1
    <3>3. Tell(tx[o], objs, TRUE).changedSer = tx[o].changedSer \union objs
      BY <2>4, <2>7, <3>2, TellSerLemma
    <3>. QED
      BY <2>2, <3>1, <3>2, <3>3
  <2>9. costRead' = costRead
    BY <1>2 DEF Commit
  <2>. QED
    BY <2>5, <2>6, <2>8, <2>9 DEF CostsFresh, SnapshotsSerial
<1>3. ASSUME NEW r \in Requests, Refuse(r) PROVE Fresh
  <2>1. o # r
    BY <1>3, <1>tx, ClosedLemma DEF Refuse
  <2>. QED
    BY <1>3, <1>tx, <2>1 DEF Refuse, CostsFresh, SnapshotsSerial
<1>4. ASSUME NEW r \in Requests, Rerun(r) PROVE Fresh
  <2>1. CASE o = r /\ tx[r].attempt = MaxRetries
    <3>1. tx'[o] = Closed(tx[r], "failed")
      BY <1>4, <1>tx, <2>1 DEF Rerun
    <3>. QED
      BY <1>tx, <3>1, ClosedLemma
  <2>2. CASE o = r /\ tx[r].attempt # MaxRetries
    <3>1. tx'[o].snap = quantity /\ quantity' = quantity
      BY <1>4, <1>tx, <2>2 DEF Rerun, TxRecords
    <3>2. costRead'[o] = avgCost /\ avgCost' = avgCost
      BY <1>4, <2>2 DEF Rerun, CostTypeOK
    <3>. QED
      BY <3>1, <3>2
  <2>3. CASE o # r
    BY <1>4, <1>tx, <2>3 DEF Rerun, CostsFresh, SnapshotsSerial
  <2>. QED
    BY <2>1, <2>2, <2>3
<1>5. CASE JobWrite
  <2>1. CASE job.total > 0 /\ job.cost > 0
    <3>1. tx'[o] = Tell(tx[o], {ProductRow}, FALSE) /\ quantity' = quantity
      BY <1>5, <2>1 DEF JobWrite
    <3>2. tx[o] \in TxRecords /\ {ProductRow} \in SUBSET (Warehouses \union {ProductRow})
      BY <1>tx
    <3>3. /\ tx[o].pc = "open" /\ tx'[o].snap = tx[o].snap
          /\ tx'[o].changed = tx[o].changed \union {ProductRow}
          /\ tx'[o].changedSer = tx[o].changedSer
      <4>. DEFINE told == Tell(tx[o], {ProductRow}, FALSE)
      <4>1. /\ told.pc = tx[o].pc /\ told.snap = tx[o].snap
            /\ tx[o].pc = "open" => told.changed = tx[o].changed \union {ProductRow}
        BY <3>2, TellLemma
      <4>2. tx[o].pc = "open"
        BY <3>1, <4>1
      <4>3. told.changedSer = tx[o].changedSer
        BY <3>2, <4>2, TellSerLemma
      <4>. QED
        BY <3>1, <4>1, <4>2, <4>3
    <3>4. ProductRow \in tx'[o].changed
      BY <3>3
    <3>5. \A w \in Warehouses \ tx'[o].changedSer : tx'[o].snap[w] = quantity'[w]
      BY <3>1, <3>3 DEF SnapshotsSerial
    <3>. QED
      BY <3>4, <3>5
  <2>2. CASE ~(job.total > 0 /\ job.cost > 0)
    BY <1>5, <2>2 DEF JobWrite, CostsFresh, SnapshotsSerial
  <2>. QED
    BY <2>1, <2>2
<1>6. CASE UNCHANGED <<tx, quantity, avgCost, costRead>>
  BY <1>6 DEF CostsFresh, SnapshotsSerial
<1>7. CASE UNCHANGED vars
  BY <1>6, <1>7 DEF vars
<1>. HIDE DEF Fresh
<1>. DEFINE Step(r) == (\E op \in Operations : Begin(r, op)) \/ RequestStep(r) \/ Unlucky(r)
<1>8. ASSUME NEW r \in Requests, Step(r)
      PROVE  Fresh
  BY <1>1, <1>2, <1>3, <1>4, <1>8 DEF RequestStep, Retry, Unlucky
<1>9. CASE JobRead
  BY <1>6, <1>9 DEF JobRead
<1>10. (\E r \in Requests : Step(r)) \/ JobRead \/ JobWrite \/ UNCHANGED vars
  BY DEF Next
<1>. HIDE DEF Step
<1>. QED
  BY <1>5, <1>7, <1>8, <1>9, <1>10

LEMMA CostInvariant ==
  ASSUME Sales = {}
  PROVE  Spec => []CostInv
<1>1. Init => CostInv
  <2>. SUFFICES ASSUME Init PROVE CostInv
    OBVIOUS
  <2>1. CostTypeOK
    BY StockAssumption DEF Init, CostTypeOK
  <2>2. CostsFresh /\ SnapshotsSerial
    BY DEF Init, CostsFresh, SnapshotsSerial
  <2>. QED
    BY <2>1, <2>2, InitInv DEF CostInv
<1>2. CostInv /\ [Next]_vars => CostInv'
  <2>. SUFFICES ASSUME CostInv, [Next]_vars PROVE CostInv'
    OBVIOUS
  <2>1. StockInv' /\ CostTypeOK'
    BY InvStep, CostTypesStep DEF CostInv, StockInv
  <2>2. CostsFresh' /\ SnapshotsSerial'
    BY FreshAfter DEF CostInv, CostsFresh, SnapshotsSerial
  <2>. QED
    BY <2>1, <2>2 DEF CostInv
<1>. QED
  BY <1>1, <1>2, PTL DEF Spec

(* An increase that commits has read every row and the cost as they are.   *)
LEMMA IncreaseReadsAll ==
  ASSUME CostInv, NEW r \in Requests, Commit(r), tx[r].op.type = "INCREASE"
  PROVE  tx[r].snap = quantity /\ costRead[r] = avgCost
<1>1. tx[r].op \in Operations /\ tx[r] \in TxRecords
  BY CommitReadsCurrent DEF CostInv, StockInv
<1>2. ProductRow \in Writes(tx[r].op) /\ Warehouses \subseteq Reads(tx[r].op)
  BY DEF Writes, Reads
<1>3. ProductRow \notin tx[r].changed /\ Warehouses \intersect tx[r].changedSer = {}
  BY <1>2 DEF Commit, Conflict
<1>4. \A w \in Warehouses : tx[r].snap[w] = quantity[w]
  BY <1>3 DEF CostInv, SnapshotsSerial, Commit
<1>5. tx[r].snap \in [Warehouses -> Int] /\ quantity \in [Warehouses -> Int]
  BY <1>1 DEF CostInv, StockInv, LedgerTypeOK, TxRecords
<1>6. tx[r].snap = quantity
  BY <1>4, <1>5
<1>. QED
  BY <1>3, <1>6 DEF CostInv, CostsFresh, Commit

(* IncreaseAddsItsCost: whatever increases, decreases, transfers and job   *)
(* runs overlap, buying stock adds what it cost to the value of the stock, *)
(* up to the rounding.                                                     *)
THEOREM IncreasesAddTheirCost ==
  ASSUME Sales = {}
  PROVE  Spec => IncreaseAddsItsCost
<1>. DEFINE paid(r)  == tx[r].op.qty * tx[r].op.unitCost
            error(r) == Total(quantity') * avgCost' - (Total(quantity) * avgCost + paid(r))
            size     == IF Total(quantity') < 0 THEN -Total(quantity') ELSE Total(quantity')
            A(r) == Answers(r) /\ tx[r].op.type = "INCREASE" /\ Total(quantity') # 0
                      => 2 * error(r) <= size /\ -2 * error(r) <= size
<1>1. ASSUME CostInv, [Next]_vars, NEW r \in Requests, Answers(r),
             tx[r].op.type = "INCREASE", Total(quantity') # 0
      PROVE  2 * error(r) <= size /\ -2 * error(r) <= size
  <2>1. StockInv /\ LedgerTypeOK /\ SnapshotsFresh
    BY <1>1 DEF CostInv, StockInv
  <2>2. Commit(r)
    BY <1>1, <2>1, AnswerIsCommit
  <2>. DEFINE op == tx[r].op  t == Total(quantity)
  <2>3. /\ op \in Operations /\ quantity \in [Warehouses -> Int]
        /\ avgCost \in Int
    BY <1>1, <2>1, <2>2, CommitReadsCurrent DEF LedgerTypeOK, CostInv, CostTypeOK
  <2>4. /\ op.at \in Warehouses /\ op.qty \in Int /\ op.unitCost \in Int
        /\ Effect(op, op.at) = op.qty
        /\ \A w \in Warehouses \ {op.at} : Effect(op, w) = 0
    BY <1>1, <2>3, IncreaseFields
  <2>5. /\ quantity'[op.at] = quantity[op.at] + op.qty
        /\ \A w \in Warehouses \ {op.at} : quantity'[w] = quantity[w]
    BY <2>1, <2>2, <2>3, <2>4, CommitAddsEffect
  <2>6. quantity' \in [Warehouses -> Int]
    BY <2>1, TypesStep, <1>1 DEF LedgerTypeOK
  <2>7. Total(quantity') = t + op.qty /\ t \in Int
    BY <2>3, <2>4, <2>5, <2>6, TotalAdds, TotalType
  <2>8. avgCost' = Wac(t, avgCost, op.qty, op.unitCost)
    BY <1>1, <2>2, IncreaseReadsAll DEF Commit
  <2>. HIDE DEF op, t
  <2>9. t + op.qty # 0
    BY <1>1, <2>7
  <2>10. /\ error(r) = (t + op.qty) * Wac(t, avgCost, op.qty, op.unitCost)
                       - (t * avgCost + op.qty * op.unitCost)
         /\ size = IF t + op.qty < 0 THEN -(t + op.qty) ELSE t + op.qty
    BY <2>7, <2>8 DEF op, t
  <2>11. /\ avgCost \in Int /\ t \in Int /\ op.qty \in Int /\ op.unitCost \in Int
    BY <2>3, <2>4, <2>7
  <2>. HIDE DEF error, size
  <2>. QED
    BY <2>9, <2>10, <2>11, WacLemma
<1>2. CostInv /\ [Next]_vars => [\A r \in Requests : A(r)]_vars
  BY <1>1
<1>3. IncreaseAddsItsCost <=> [][\A r \in Requests : A(r)]_vars
  BY DEF IncreaseAddsItsCost
<1>. QED
  BY <1>2, <1>3, CostInvariant, PTL DEF Spec
-----------------------------------------------------------------------------
(* The refinement.  Beside the endpoints nothing runs: no sale, no job.    *)
Answered(t) == IF t.pc \in {"ok", "failed"} THEN t.pc ELSE "no"

NoJob == job.pc = "idle" /\ job.runs = 0

\* Being told of a commit is no answer.
LEMMA OthersUnanswered ==
  ASSUME LedgerTypeOK, NEW r \in Requests, Commit(r), NEW o \in Requests, o # r
  PROVE  Answered(tx'[o]) = Answered(tx[o])
<1>1. tx[o] \in TxRecords /\ tx[r].op \in Operations
  BY DEF LedgerTypeOK, TxTypeOK, TxRecords, Commit
<1>2. Writes(tx[r].op) \in SUBSET (Warehouses \union {ProductRow})
  BY <1>1, EffectLemma, StockAssumption
<1>3. tx'[o] = Tell(tx[o], Writes(tx[r].op), TRUE)
  BY DEF Commit
<1>4. tx'[o].pc = tx[o].pc
  BY <1>1, <1>2, <1>3, TellLemma
<1>. QED
  BY <1>4 DEF Answered

(* The commit is where a request acts: on the stock and cost of now.       *)
LEMMA CommitApplies ==
  ASSUME CostInv, NEW r \in Requests, Commit(r)
  PROVE  Atomic!Apply(r, tx[r].op) /\ tx[r].op \in Operations
<1>. DEFINE op == tx[r].op
            answered == [o \in Requests |-> Answered(tx[o])]
<1>1. LedgerTypeOK /\ SnapshotsFresh
  BY DEF CostInv, StockInv
<1>2. op \in Operations /\ tx[r] \in TxRecords
  BY <1>1, CommitReadsCurrent
<1>3. op.type = "TRANSFER" => op.qty <= quantity[op.from]
  <2>. SUFFICES ASSUME op.type = "TRANSFER" PROVE op.qty <= quantity[op.from]
    OBVIOUS
  <2>1. op \in Transfers
    BY <1>2 DEF Operations, Increases, Decreases
  <2>2. op.from \in Warehouses /\ op.qty \in Int
    BY <2>1, TransferFields
  <2>3. tx[r].snap[op.from] = quantity[op.from]
    BY <1>1, CommitReadsCurrent DEF StockRows
  <2>4. quantity[op.from] \in Int
    BY <1>1, <2>2 DEF LedgerTypeOK
  <2>. QED
    BY <2>2, <2>3, <2>4 DEF Commit, Insufficient
<1>4. quantity' = [w \in Warehouses |-> quantity[w] + Effect(op, w)]
  <2>1. \A w \in Warehouses : quantity'[w] = quantity[w] + Effect(op, w)
    BY <1>1, CommitAddsEffect
  <2>2. quantity' = [w \in Warehouses |-> quantity'[w]]
    BY DEF Commit
  <2>. QED
    BY <2>1, <2>2
<1>5. avgCost' = IF op.type = "INCREASE"
                 THEN Wac(Total(quantity), avgCost, op.qty, op.unitCost) ELSE avgCost
  BY IncreaseReadsAll DEF Commit
<1>6. answered' = [answered EXCEPT ![r] = "ok"]
  <2>1. Answered(tx'[r]) = "ok"
    BY <1>2, ClosedLemma DEF Commit, Answered
  <2>2. \A o \in Requests : o # r => Answered(tx'[o]) = Answered(tx[o])
    BY <1>1, OthersUnanswered
  <2>. QED
    BY <2>1, <2>2
<1>7. answered[r] = "no"
  BY DEF Commit, Answered
<1>8. /\ \A w \in Warehouses : Atomic!Effect(op, w) = Effect(op, w)
      /\ Atomic!Wac(Total(quantity), avgCost, op.qty, op.unitCost)
           = Wac(Total(quantity), avgCost, op.qty, op.unitCost)
      /\ Atomic!Total(quantity) = Total(quantity)
  <2>1. \A w \in Warehouses : Atomic!Effect(op, w) = Effect(op, w)
    BY DEF Effect, Atomic!Effect
  <2>2. Atomic!Wac(Total(quantity), avgCost, op.qty, op.unitCost)
           = Wac(Total(quantity), avgCost, op.qty, op.unitCost)
    BY DEF Wac, RoundDiv, Atomic!Wac, Atomic!RoundDiv
  <2>3. Atomic!Total(quantity) = Total(quantity)
    BY DEF Total, Atomic!Total, MapThenSumSet, Atomic!MapThenSumSet,
           MapThenFoldSet, Atomic!MapThenFoldSet
  <2>. QED
    BY <2>1, <2>2, <2>3
<1>. HIDE DEF op
<1>9. quantity' = [w \in Warehouses |-> quantity[w] + Atomic!Effect(op, w)]
  BY <1>4, <1>8
<1>10. avgCost' = IF op.type = "INCREASE"
                  THEN Atomic!Wac(Atomic!Total(quantity), avgCost, op.qty, op.unitCost)
                  ELSE avgCost
  BY <1>5, <1>8
<1>11. Atomic!Apply(r, op)
  BY <1>3, <1>6, <1>7, <1>9, <1>10 DEF Atomic!Apply, Answered
<1>. QED
  BY <1>2, <1>11 DEF op

LEMMA EndpointStep ==
  ASSUME Sales = {}, JobRuns = 0, CostInv, NoJob, [Next]_vars
  PROVE  [Atomic!Next]_(Atomic!vars) /\ NoJob'
<1>. DEFINE answered == [o \in Requests |-> Answered(tx[o])]
            Done(r) == /\ answered[r] = "no" /\ answered' = [answered EXCEPT ![r] = "failed"]
                       /\ UNCHANGED <<quantity, avgCost>>
            Same == answered' = answered /\ UNCHANGED <<quantity, avgCost>>
<1>tx. tx \in [Requests -> TxRecords]
  BY DEF CostInv, StockInv, LedgerTypeOK, TxTypeOK, TxRecords
<1>1. ASSUME NEW r \in Requests, Done(r) PROVE Atomic!Next
  BY <1>1 DEF Atomic!Next, Atomic!Refuse, Answered
<1>2. ASSUME Same PROVE UNCHANGED Atomic!vars
  BY <1>2 DEF Atomic!vars, Answered
<1>3. ASSUME NEW r \in Requests, NEW op \in Operations, Begin(r, op)
      PROVE  Same /\ NoJob'
  <2>1. \A o \in Requests : Answered(tx'[o]) = Answered(tx[o])
    BY <1>3, <1>tx DEF Begin, Answered
  <2>. QED
    BY <1>3, <2>1 DEF Begin, NoJob
<1>4. ASSUME NEW r \in Requests, Commit(r)
      PROVE  Atomic!Next /\ NoJob'
  <2>1. NoJob'
    BY <1>4 DEF Commit, NoJob
  <2>2. Atomic!Operations = Operations
    BY DEF Operations, Increases, Decreases, Transfers, Atomic!Operations,
           Atomic!Increases, Atomic!Decreases, Atomic!Transfers
  <2>3. Atomic!Apply(r, tx[r].op) /\ tx[r].op \in Atomic!Operations
    BY <1>4, <2>2, CommitApplies
  <2>4. \E op \in Atomic!Operations : Atomic!Apply(r, op)
    BY <2>3 DEF Atomic!Apply
  <2>5. Atomic!Next
    BY <1>4, <2>4 DEF Atomic!Next
  <2>. QED
    BY <2>1, <2>5
<1>5. ASSUME NEW r \in Requests, tx[r].pc = "open",
             tx' = [tx EXCEPT ![r] = Closed(tx[r], "failed")], UNCHANGED <<quantity, avgCost>>
      PROVE  Done(r)
  <2>1. /\ Answered(tx'[r]) = "failed" /\ Answered(tx[r]) = "no"
        /\ \A o \in Requests : o # r => Answered(tx'[o]) = Answered(tx[o])
    BY <1>5, <1>tx, ClosedLemma DEF Answered
  <2>. QED
    BY <1>5, <2>1
<1>6. ASSUME NEW r \in Requests, Refuse(r) PROVE Done(r) /\ NoJob'
  <2>. HIDE DEF Done
  <2>. QED
    BY <1>5, <1>6 DEF Refuse, NoJob
<1>7. ASSUME NEW r \in Requests, tx[r].pc = "open", Rerun(r)
      PROVE  (Same \/ Done(r)) /\ NoJob'
  <2>0. NoJob'
    BY <1>7 DEF Rerun, NoJob
  <2>1. CASE tx[r].attempt = MaxRetries
    <3>1. tx' = [tx EXCEPT ![r] = Closed(tx[r], "failed")] /\ UNCHANGED <<quantity, avgCost>>
      BY <1>7, <2>1 DEF Rerun
    <3>. HIDE DEF Done
    <3>. QED
      BY <1>5, <1>7, <2>0, <3>1
  <2>2. CASE tx[r].attempt # MaxRetries
    <3>1. \A o \in Requests : Answered(tx'[o]) = Answered(tx[o])
      BY <1>7, <1>tx, <2>2 DEF Rerun, Answered, TxRecords
    <3>. QED
      BY <1>7, <2>0, <3>1 DEF Rerun
  <2>. QED
    BY <2>1, <2>2
<1>8. ~JobRead /\ ~JobWrite
  BY DEF NoJob, JobRead, JobWrite
<1>9. ASSUME UNCHANGED vars PROVE Same /\ NoJob'
  BY <1>9 DEF vars, NoJob
<1>. HIDE DEF Same, Done
<1>. QED
  BY <1>1, <1>2, <1>3, <1>4, <1>6, <1>7, <1>8, <1>9
  DEF Next, RequestStep, Retry, Unlucky

(* EndpointsAreAtomic: for any number of overlapping increases, decreases  *)
(* and transfers, with their conflicts and retries, each acts in one step  *)
(* on the stock and the average cost as they are then, or not at all.      *)
THEOREM EndpointsActAtomically ==
  ASSUME Sales = {}, JobRuns = 0
  PROVE  Spec => EndpointsAreAtomic
<1>1. Init => NoJob /\ Atomic!Init
  BY DEF Init, NoJob, Atomic!Init
<1>2. CostInv /\ NoJob /\ [Next]_vars => [Atomic!Next]_(Atomic!vars) /\ NoJob'
  BY EndpointStep
<1>. QED
  BY <1>1, <1>2, CostInvariant, PTL DEF Spec, EndpointsAreAtomic, Atomic!Spec
=============================================================================
