------------------------------ MODULE MCOrders ------------------------------
(* Instances of OrderFulfilment for TLC.                                   *)
EXTENDS OrderFulfilment

CONSTANTS i1, i2, none
=============================================================================
