----------------------------- MODULE MCStaging -----------------------------
(* Instances of Staging for TLC: photos of one or two files. *)
EXTENDS Staging, TLC

CONSTANTS m1, m2, m3, p1, p2

\* one photo of two files
OnePair == m1 :> p1 @@ m2 :> p1
\* a photo of two files and a photo of one
PairAndSingle == m1 :> p1 @@ m2 :> p1 @@ m3 :> p2
\* two photos of one file each
TwoSingles == m1 :> p1 @@ m2 :> p2
=============================================================================
