----------------------------- MODULE MCPostSale -----------------------------
(* Instances of PostSale for TLC.                                          *)
EXTENDS PostSale

CONSTANTS s1, s2, auto, c1, c2, m1, none
=============================================================================
