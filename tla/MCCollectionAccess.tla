------------------------- MODULE MCCollectionAccess -------------------------
(* Instances of CollectionAccess for TLC. *)
EXTENDS CollectionAccess, TLC

CONSTANTS a, b, d, e   \* two instances and two directories

Even == a :> 2 @@ b :> 2
Uneven == a :> 2 @@ b :> 1
=============================================================================
