------------------------------- MODULE MCCrop -------------------------------
(* An instance of Crop for TLC. *)
EXTENDS Crop

CONSTANTS r1, r2   \* two crops
=============================================================================
