------------------------------ MODULE StockOps ------------------------------
(***************************************************************************)
(* The arithmetic of stock: what one inventory request means, taken apart  *)
(* from the transactions that carry it out.                                *)
(*                                                                         *)
(* One product is modelled: a request names one product, and requests on   *)
(* different products share no row.  Quantities are in the column's        *)
(* smallest unit (a thousandth), costs in theirs (a ten-thousandth).       *)
(***************************************************************************)
EXTENDS Integers, FiniteSetsExt

CONSTANTS Warehouses,   \* the tenant's warehouses
          Quantities,   \* the quantities a request may carry
          UnitCosts,    \* the unit costs an INCREASE may carry
          ProductRow    \* the Product row itself, next to its stock rows

(* The DTOs accept strictly positive quantities and unit costs only.       *)
ASSUME DtoAssumption == /\ Quantities \subseteq Nat \ {0}
                        /\ UnitCosts  \subseteq Nat \ {0}
ASSUME ProductRowAssumption == ProductRow \notin Warehouses
ASSUME WarehousesAssumption == IsFiniteSet(Warehouses)

Increases == [type : {"INCREASE"}, at : Warehouses,
              qty : Quantities, unitCost : UnitCosts]
Decreases == [type : {"DECREASE"}, at : Warehouses, qty : Quantities]
Transfers == {op \in [type : {"TRANSFER"}, from : Warehouses,
                      to : Warehouses, qty : Quantities] : op.from # op.to}
Operations == Increases \union Decreases \union Transfers

(* What a request adds to the row of warehouse w.                          *)
Effect(op, w) ==
  CASE op.type = "INCREASE" /\ op.at = w   -> op.qty
    [] op.type = "DECREASE" /\ op.at = w   -> -op.qty
    [] op.type = "TRANSFER" /\ op.from = w -> -op.qty
    [] op.type = "TRANSFER" /\ op.to = w   -> op.qty
    [] OTHER                               -> 0

(* The stock rows a request writes, and all the rows it writes and reads.  *)
StockRows(op) == IF op.type = "TRANSFER" THEN {op.from, op.to} ELSE {op.at}
Writes(op) == IF op.type = "INCREASE" THEN {op.at, ProductRow}
                                      ELSE StockRows(op)
Reads(op) == IF op.type = "INCREASE" THEN Warehouses \union {ProductRow}
                                     ELSE StockRows(op) \union {ProductRow}

(* The stock of the product over all warehouses.                           *)
Total(stock) == MapThenSumSet(LAMBDA w : stock[w], Warehouses)

(* n / d rounded to the column's unit, halves away from zero; d may be     *)
(* negative, because stock may be.                                         *)
RoundDiv(n, d) ==
  LET abs(x) == IF x < 0 THEN -x ELSE x
      q == (2 * abs(n) + abs(d)) \div (2 * abs(d))
  IN  IF (n < 0) = (d < 0) THEN q ELSE -q

(* Moving weighted average cost after qty pieces bought at unitCost.       *)
Wac(oldTotal, oldAvg, qty, unitCost) ==
  IF oldTotal + qty = 0 THEN unitCost
  ELSE RoundDiv(oldTotal * oldAvg + qty * unitCost, oldTotal + qty)
=============================================================================
