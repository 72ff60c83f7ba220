------------------------------ MODULE WallFlow ------------------------------
(***************************************************************************)
(* The wall flow: all candidates at once, in cells that close up when one  *)
(* is eliminated (reflow) or are held by it until the wall is compacted    *)
(* (fixed).  A cell is a candidate and whether it is a placeholder; one    *)
(* written by an older build is a placeholder without its candidate.       *)
(***************************************************************************)
EXTENDS Enumeration

CONSTANT None   \* an identifier that names nothing

Modes == {"reflow", "fixed"}

Candidate(id) == [id |-> id, rejected |-> FALSE]
Placeholder(id) == [id |-> id, rejected |-> TRUE]
Holds(cell) == ~cell.rejected

Elements(s) == {s[i] : i \in DOMAIN s}

Initialise(selection, mode) ==
  [cells |-> [i \in DOMAIN selection |-> Candidate(selection[i])],
   rejected |-> <<>>, input |-> selection, mode |-> mode]

(* What serialise() of a build that did not keep the candidate of a held     *)
(* cell leaves of a wall.                                                    *)
Anonymous(w) ==
  [w EXCEPT !.cells = [i \in DOMAIN @ |-> IF Holds(@[i]) THEN @[i] ELSE Placeholder(None)]]

\* Mutant: a placeholder without its candidate is refused like a foreign one.
MutReadable(w) ==
  \A i \in DOMAIN w.cells :
    /\ w.cells[i].id \in Elements(w.input)
    /\ w.cells[i].rejected <=> w.cells[i].id \in Elements(w.rejected)
    /\ \A j \in DOMAIN w.cells : w.cells[j].id = w.cells[i].id => i = j

(* parse(): the cells and the rejections of a stored wall must agree.        *)
Readable(w) ==
  /\ \A i \in DOMAIN w.cells : w.cells[i].id = None => w.cells[i].rejected
  /\ \A i \in DOMAIN w.cells :
       w.cells[i].id # None =>
         /\ w.cells[i].id \in Elements(w.input)
         /\ w.cells[i].rejected <=> w.cells[i].id \in Elements(w.rejected)
         /\ \A j \in DOMAIN w.cells : w.cells[j].id = w.cells[i].id => i = j

Compacted(w) == [w EXCEPT !.cells = Picked(@, {i \in DOMAIN @ : Holds(@[i])})]

Without(s, i) == Picked(s, DOMAIN s \ {i})

(* The cell a candidate is in, placeholders not counted; 0 if in none.       *)
Position(w, id) ==
  IF \E i \in DOMAIN w.cells : w.cells[i] = Candidate(id)
  THEN CHOOSE i \in DOMAIN w.cells : w.cells[i] = Candidate(id)
  ELSE 0

-----------------------------------------------------------------------------
(* The contract of a flow *)

Refused == [accepted |-> FALSE]
Accept(w, rejected) == [accepted |-> TRUE, payload |-> w, rejected |-> rejected]

Vacated(w, p) ==
  [w EXCEPT !.cells = IF w.mode = "fixed" THEN [@ EXCEPT ![p] = Placeholder(w.cells[p].id)]
                                          ELSE Without(@, p)]
Rejecting(w, id) == [w EXCEPT !.rejected = Append(@, id)]

Eliminate(w, id) ==
  IF id = None \/ Position(w, id) = 0 THEN Refused
  ELSE Accept(Rejecting(Vacated(w, Position(w, id)), id), <<id>>)

SetLayoutMode(w, mode) ==
  IF mode = w.mode THEN Refused
  ELSE LET changed == [w EXCEPT !.mode = mode]
       IN Accept(IF mode = "reflow" THEN Compacted(changed) ELSE changed, <<>>)

Compact(w) == IF Compacted(w) = w THEN Refused ELSE Accept(Compacted(w), <<>>)

Reduce(w, a) ==
  IF ~Readable(w) THEN Refused
  ELSE CASE a.name = "eliminate"     -> Eliminate(w, a.asset)
         [] a.name = "setLayoutMode" -> SetLayoutMode(w, a.mode)
         [] a.name = "compact"       -> Compact(w)

Remaining(w) == LET held == Compacted(w).cells IN [i \in DOMAIN held |-> held[i].id]

Summarise(w) ==
  [remaining |-> Remaining(w), rejected |-> w.rejected,
   complete |-> Remaining(w) = <<>>, canFinish |-> TRUE]
=============================================================================
