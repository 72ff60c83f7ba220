---------------------------- MODULE MCComparison ----------------------------
(* Instances of Comparison for TLC. *)
EXTENDS Comparison

Order == <<1, 2, 3, 4, 5>>
FirstFew(S) == {SubSeq(Order, 1, n) : n \in S}
UpToFive == FirstFew(1..5)
UpToThree == FirstFew(1..3)
OnlyThree == FirstFew({3})
=============================================================================
