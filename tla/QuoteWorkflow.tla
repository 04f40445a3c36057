--------------------------- MODULE QuoteWorkflow ----------------------------
(***************************************************************************)
(* What the handling of a quote promises to its users: while it is open    *)
(* its status and its items may be edited at will; it is settled once, and *)
(* approving it sells the items it showed and opens the order in the same  *)
(* step.                                                                   *)
(***************************************************************************)
EXTENDS Naturals, Sequences

CONSTANT Lists

VARIABLES status, items, sold, order

OpenStatuses == {"DRAFT", "SENT", "PENDING_APPROVAL", "REVIZE", "UNSPECIFIED"}

Init == /\ status \in OpenStatuses
        /\ items \in {{l} : l \in Lists}
        /\ sold = << >>
        /\ order = FALSE

MayReplaceItems == items' \in {items} \union {{l} : l \in Lists}

Edit == /\ status \in OpenStatuses
        /\ status' \in OpenStatuses
        /\ MayReplaceItems
        /\ UNCHANGED <<sold, order>>

Approve == /\ status \in OpenStatuses
           /\ status' = "APPROVED"
           /\ sold' = <<items>>
           /\ order' = TRUE
           /\ MayReplaceItems

Reject == /\ status \in OpenStatuses
          /\ status' = "REJECTED"
          /\ MayReplaceItems
          /\ UNCHANGED <<sold, order>>

Next == Edit \/ Approve \/ Reject

Spec == Init /\ [][Next]_<<status, items, sold, order>>
=============================================================================
