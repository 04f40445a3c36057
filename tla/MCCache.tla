------------------------------- MODULE MCCache -------------------------------
(* Instances of ListCache: the constants of the .cfg files.                 *)
EXTENDS ListCache

CONSTANTS r1, r2, w1, w2, p1, p2
=============================================================================
