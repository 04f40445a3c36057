------------------------------ MODULE MCStock ------------------------------
(* Instances of Stock for TLC: two warehouses, unit quantities and two     *)
(* costs are enough for a stale total, a stale row and a stale average.    *)
EXTENDS Stock, TLC

CONSTANTS w1, w2, product, r1, r2, r3, q1, q2

MCStock == (w1 :> 2) @@ (w2 :> 0)
MCLines == {<<1, 2>>}
=============================================================================
