---------------------------- MODULE Enumeration ----------------------------
(***************************************************************************)
(* Sets of numbers in their order, and the part of a sequence at some of   *)
(* its positions: what the loops that pass over some elements of a list    *)
(* and keep the others in their order leave of it.                         *)
(***************************************************************************)
EXTENDS Integers, Sequences, FiniteSets

(* Each place is taken by the number that so many are not greater than.      *)
Ascending(S) ==
  [i \in 1..Cardinality(S) |-> CHOOSE p \in S : Cardinality({q \in S : q <= p}) = i]

Picked(s, T) == [k \in 1..Cardinality(T) |-> s[Ascending(T)[k]]]
=============================================================================
