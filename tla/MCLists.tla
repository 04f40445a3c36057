------------------------------ MODULE MCLists ------------------------------
(* Instances of OptionLists: three rows, of which the third is free.       *)
EXTENDS OptionLists, TLC

CONSTANTS r1, r2

None == [there |-> FALSE, label |-> "A", default |-> FALSE, image |-> NoImage]
Item(l, d, im) == [there |-> TRUE, label |-> l, default |-> d, image |-> im]

MCCapitals == ("a" :> "A") @@ ("A" :> "A")
MCStart == {<<Item("A", FALSE, NoImage), None, None>>,
            <<Item("A", TRUE, "png"), Item("a", FALSE, NoImage), None>>,
            <<Item("A", TRUE, NoImage), Item("a", TRUE, NoImage), None>>}
=============================================================================
