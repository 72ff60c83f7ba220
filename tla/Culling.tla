------------------------------ MODULE Culling ------------------------------
(***************************************************************************)
(* What comparisons promise about the stored collection.  A comparison is  *)
(* drafted over any number of sittings; it then either disappears without  *)
(* a trace or is applied, and being applied is one indivisible change: the *)
(* photos of the last stored draft become marked and the comparison ends.  *)
(* Apart from that only the person, or a change of the photo's own files,  *)
(* changes a mark.                                                         *)
(***************************************************************************)
CONSTANTS Photos, Sessions

VARIABLES
  present,   \* photos the collection knows
  marked,    \* photos marked for deletion
  stage,     \* per comparison: "none", "open", "applying" or "finished"
  rejected   \* per comparison: photos its stored draft rejects

vars == <<present, marked, stage, rejected>>

Quiet == \A s \in Sessions : stage[s] # "applying"

Init == /\ present \in SUBSET Photos
        /\ marked \in SUBSET present
        /\ stage = [s \in Sessions |-> "none"]
        /\ rejected = [s \in Sessions |-> {}]

(* A comparison begins, or its draft is stored again, and perhaps it is to  *)
(* be applied.                                                              *)
Keep(s) == /\ Quiet /\ stage[s] # "finished"
           /\ \E next \in {"open", "applying"} : stage' = [stage EXCEPT ![s] = next]
           /\ \E R \in SUBSET Photos : rejected' = [rejected EXCEPT ![s] = R]
           /\ UNCHANGED <<present, marked>>

(* A comparison is applied: exactly the stored draft becomes marks.         *)
Apply(s) == /\ stage[s] = "applying"
            /\ stage' = [stage EXCEPT ![s] = "finished"]
            /\ marked' = marked \cup (rejected[s] \cap present)
            /\ UNCHANGED <<present, rejected>>

(* It could not be applied, and nothing of it was.                          *)
GiveUp(s) == /\ stage[s] = "applying"
             /\ stage' = [stage EXCEPT ![s] = "open"]
             /\ UNCHANGED <<present, marked, rejected>>

(* A comparison is discarded.                                               *)
Drop(s) == /\ Quiet /\ stage[s] = "open"
           /\ stage' = [stage EXCEPT ![s] = "none"]
           /\ rejected' = [rejected EXCEPT ![s] = {}]
           /\ UNCHANGED <<present, marked>>

(* The person unmarks photos, or undoes or redoes a change of marks.        *)
Reconsider == /\ Quiet
              /\ marked' \in SUBSET present
              /\ UNCHANGED <<present, stage, rejected>>

(* A scan: photos come and go, and a photo whose files changed loses its    *)
(* mark.                                                                    *)
Look == /\ Quiet
        /\ present' \in SUBSET Photos
        /\ marked' \in SUBSET (marked \cap present')
        /\ UNCHANGED <<stage, rejected>>

Next == \/ \E s \in Sessions : Keep(s) \/ Apply(s) \/ GiveUp(s) \/ Drop(s)
        \/ Reconsider
        \/ Look

Spec == Init /\ [][Next]_vars
=============================================================================
