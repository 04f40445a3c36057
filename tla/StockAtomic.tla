---------------------------- MODULE StockAtomic ----------------------------
(***************************************************************************)
(* What the stock endpoints promise, without transactions: each request    *)
(* acts once, in one step, on the stock and the average cost as they are   *)
(* at that moment, or it is refused and changes nothing.                   *)
(***************************************************************************)
EXTENDS StockOps

CONSTANTS Requests, InitQuantity, InitCost

VARIABLES quantity,   \* stock per warehouse
          avgCost,    \* average cost of the product
          answered    \* per request, its answer

vars == <<quantity, avgCost, answered>>

Init == /\ quantity = InitQuantity
        /\ avgCost = InitCost
        /\ answered = [r \in Requests |-> "no"]

Apply(r, op) ==
  /\ answered[r] = "no"
  /\ op.type = "TRANSFER" => op.qty <= quantity[op.from]
  /\ quantity' = [w \in Warehouses |-> quantity[w] + Effect(op, w)]
  /\ avgCost' = IF op.type = "INCREASE"
                THEN Wac(Total(quantity), avgCost, op.qty, op.unitCost)
                ELSE avgCost
  /\ answered' = [answered EXCEPT ![r] = "ok"]

Refuse(r) == /\ answered[r] = "no"
             /\ answered' = [answered EXCEPT ![r] = "failed"]
             /\ UNCHANGED <<quantity, avgCost>>

Next == \E r \in Requests : Refuse(r) \/ \E op \in Operations : Apply(r, op)

Spec == Init /\ [][Next]_vars
=============================================================================
