----------------------------- MODULE MCImports ------------------------------
(* Instances of DocNumbers and Imports for TLC: two attempts instead of    *)
(* three or five, so that three requests are a crowded day, and files of   *)
(* two rows.                                                               *)
EXTENDS Imports, TLC

CONSTANTS r1, r2, r3, k1, i1, i2, none

MCAttempts == [kind \in AllKinds |-> IF kind = "approval" THEN 1 ELSE 2]
Either == Permutations(Importers)

Pairs(lines) == {<<l>> : l \in lines} \union {<<l, m>> : l \in lines, m \in lines}
Was(kind, n, name, code, of, keys) ==
  Record(kind, <<None, n, "row">>, name, code, of, None, keys)

Offer(creators, creates, removes, kind, files, start) ==
  [creators |-> creators, creates |-> creates, removes |-> removes,
   kind |-> kind, files |-> files, start |-> start]

First == Line(TRUE, 1, None, "F", None, {"x"})
Third == Line(TRUE, 3, None, "F", None, {"y"})

MCOffers == {
  Offer(Requests, AllKinds, TRUE, "none", {}, {}),
  Offer({}, {}, TRUE, "accounts",
        Pairs({Line(TRUE, "N", "T", None, None, {"x"}), Line(TRUE, "M", "T", None, None, {"y"}),
         Line(TRUE, "N", None, None, None, {"x"})}),
        {Was("accounts", 1, "N", None, None, {"x"})}),
  Offer({}, {}, TRUE, "products",
        Pairs({Line(TRUE, "N", None, None, None, {"x"}), Line(TRUE, "M", None, None, None, {"y"})}),
        {Was("products", 1, "N", None, None, {"y"})}),
  Offer({}, {}, FALSE, "contacts",
        Pairs({Line(TRUE, "N", "e", "F", None, {"x"}), Line(TRUE, "N", None, "F", None, {"y"}),
         Line(TRUE, "N", None, None, None, {}), Line(FALSE, "M", None, "F", None, {})}),
        {}),
  Offer({}, {}, FALSE, "interactions",
        Pairs({Line(TRUE, "d", None, "F", None, {"x"}), Line(TRUE, "d", None, "F", "p", {"y"}),
         Line(TRUE, "d", None, None, "p", {})}),
        {}),
  Offer({r1}, {"quote"}, FALSE, "quotes", {<<Third>>, <<First, Third>>}, {}) }
=============================================================================
