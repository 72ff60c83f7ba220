------------------------------ MODULE Disposal ------------------------------
(***************************************************************************)
(* What the deletion of reviewed photos promises, whatever fails: a photo  *)
(* leaves for Trash as a whole and in one step, a file is never lost on    *)
(* the way, and nothing is reported as trashed that is still around.       *)
(***************************************************************************)
CONSTANTS Groups, Members, GroupOf

VARIABLES
  place,     \* where the reviewed copy of each file is
  claimed    \* photos that some record says are in Trash

vars == <<place, claimed>>

\* "elsewhere": another program changed it, moved it or removed it.
Place == {"source", "staging", "trash", "elsewhere"}

Files(g) == {m \in Members : GroupOf[m] = g}

TypeOK == place \in [Members -> Place] /\ claimed \subseteq Groups

Init == place = [m \in Members |-> "source"] /\ claimed = {}

Stage(m) ==
  /\ place[m] = "source"
  /\ place' = [place EXCEPT ![m] = "staging"]
  /\ UNCHANGED claimed

Return(m) ==
  /\ place[m] = "staging"
  /\ place' = [place EXCEPT ![m] = "source"]
  /\ UNCHANGED claimed

\* All of the photo that is still there, at once.
Dispose(g) ==
  /\ \A m \in Files(g) : place[m] \in {"staging", "elsewhere"}
  /\ place' = [m \in Members |->
                 IF m \in Files(g) /\ place[m] = "staging" THEN "trash" ELSE place[m]]
  /\ UNCHANGED claimed

\* What no file is left of may be reported as trashed.  One record can settle
\* several photos; a report is never taken back.
Claim(s) ==
  /\ \A g \in s : \A m \in Files(g) : place[m] \in {"trash", "elsewhere"}
  /\ claimed' = claimed \cup s
  /\ UNCHANGED place

Taken(m) ==
  /\ place[m] \in {"source", "staging"}
  /\ place' = [place EXCEPT ![m] = "elsewhere"]
  /\ UNCHANGED claimed

Next ==
  \/ \E m \in Members : Stage(m) \/ Return(m) \/ Taken(m)
  \/ \E g \in Groups : Dispose(g)
  \/ \E s \in SUBSET Groups : Claim(s)

Spec == Init /\ [][Next]_vars

\* No photo is split between Trash and the places the program works in.
NeverSplit ==
  \A m, n \in Members :
    (GroupOf[m] = GroupOf[n] /\ place[m] = "trash") => place[n] \in {"trash", "elsewhere"}

\* What is reported as trashed is neither at its original path nor in staging.
ClaimsAreTrue ==
  \A g \in claimed : \A m \in Files(g) : place[m] \in {"trash", "elsewhere"}
=============================================================================
