------------------------------ MODULE MCQuote ------------------------------
(* Instances of QuoteLifecycle for TLC.                                    *)
EXTENDS QuoteLifecycle, TLC

CONSTANTS r1, r2, r3, first

Symmetry == Permutations(Requests)
=============================================================================
