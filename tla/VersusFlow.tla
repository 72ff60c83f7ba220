----------------------------- MODULE VersusFlow -----------------------------
(***************************************************************************)
(* The versus flow: a single-elimination bracket as a pure reducer.  A     *)
(* bracket of size N is a binary tree in heap order: nodes 0 to N-2 are    *)
(* matches, nodes N-1 to 2N-2 are slots.  Its state is what is stored: the *)
(* slots, the frozen input and the decisions in the order they were made.  *)
(***************************************************************************)
EXTENDS Enumeration

CONSTANT None   \* no photo: a bye, an identifier that names nothing

-----------------------------------------------------------------------------
(* Seeding *)

(* The size is doubled as often as it is still too small. *)
NextPowerOfTwo(n) == 2^Cardinality({k \in 0..n : 2^k < n})

(* Each doubling pairs seed s with seed total + 1 - s. *)
SeedOrder(size) ==
  LET order[m \in {2^k : k \in 0..size}] ==
        IF m = 1 THEN <<1>>
        ELSE [i \in 1..m |-> IF i % 2 = 1 THEN order[m \div 2][(i + 1) \div 2]
                                          ELSE m + 1 - order[m \div 2][i \div 2]]
  IN order[size]

Initialise(selection) ==
  LET size == NextPowerOfTwo(Len(selection))
      seed == SeedOrder(size)
  IN [size |-> size,
      slots |-> [i \in 1..size |-> IF seed[i] <= Len(selection) THEN selection[seed[i]] ELSE None],
      input |-> selection,
      decisions |-> <<>>]

-----------------------------------------------------------------------------
(* Reading a bracket *)

Matches(b) == 0 .. b.size - 2
Decided(b) == {b.decisions[i].node : i \in DOMAIN b.decisions}

(* parse(): what a stored payload must satisfy to be read at all. *)
Readable(b) ==
  /\ b.size > 0
  /\ Len(b.slots) = b.size
  /\ \A i \in DOMAIN b.decisions : /\ b.decisions[i].node \in Matches(b)
                                   /\ b.decisions[i].eliminated # None
  /\ Cardinality(Decided(b)) = Len(b.decisions)

Eliminated(b, node) ==
  IF node \in Decided(b)
  THEN LET i == CHOOSE i \in DOMAIN b.decisions : b.decisions[i].node = node
       IN b.decisions[i].eliminated
  ELSE None

Advances(id) == [resolved |-> TRUE, id |-> id]
Unresolved == [resolved |-> FALSE, id |-> None]

\* Mutant: the candidate named in the decision advances.
MutWinner(l, r, e) ==
  IF ~l.resolved \/ ~r.resolved THEN Unresolved
  ELSE IF l.id = None THEN r
  ELSE IF r.id = None THEN l
  ELSE IF e = l.id THEN l
  ELSE IF e = r.id THEN r
  ELSE Unresolved

(* What comes out of a match of two outcomes that lost e, if anything did.   *)
(* Nothing opposes a candidate whose opponent is a bye.                      *)
Winner(l, r, e) ==
  IF ~l.resolved \/ ~r.resolved THEN Unresolved
  ELSE IF l.id = None THEN r
  ELSE IF r.id = None THEN l
  ELSE IF e = l.id THEN r
  ELSE IF e = r.id THEN l
  ELSE Unresolved

Outcomes(b) ==
  LET out[n \in 0 .. 2 * b.size - 2] ==
        IF n \in Matches(b) THEN Winner(out[2 * n + 1], out[2 * n + 2], Eliminated(b, n))
                            ELSE Advances(b.slots[n - b.size + 2])
  IN out

Rounds(b) == CHOOSE k \in 0 .. b.size : 2^k = b.size
Depth(node) == Cardinality({d \in 1 .. node : 2^d <= node + 1})
Round(b, node) == Rounds(b) - Depth(node)

Ready(b) ==
  LET out == Outcomes(b)
  IN {n \in Matches(b) \ Decided(b) :
        /\ out[2 * n + 1].resolved /\ out[2 * n + 1].id # None
        /\ out[2 * n + 2].resolved /\ out[2 * n + 2].id # None}

NoMatch == [node |-> -1, left |-> None, right |-> None]

\* Mutant: by position alone, so that the final can come before the first round.
MutFindPending(b) ==
  IF Ready(b) = {} THEN NoMatch
  ELSE LET n == CHOOSE n \in Ready(b) : \A m \in Ready(b) : n <= m
       IN [node |-> n, left |-> Outcomes(b)[2 * n + 1].id, right |-> Outcomes(b)[2 * n + 2].id]

(* The deepest level first, then the smallest index. *)
FindPending(b) ==
  IF Ready(b) = {} THEN NoMatch
  ELSE LET n == CHOOSE n \in Ready(b) :
                  \A m \in Ready(b) : Depth(m) < Depth(n) \/ (Depth(m) = Depth(n) /\ n <= m)
       IN [node |-> n, left |-> Outcomes(b)[2 * n + 1].id, right |-> Outcomes(b)[2 * n + 2].id]

Survivor(b) == Outcomes(b)[0].id

-----------------------------------------------------------------------------
(* The contract of a flow *)

Refused == [accepted |-> FALSE]

\* Mutant: the candidate is not looked for in the match.
MutReduce(b, a) ==
  LET pending == FindPending(b)
  IN IF /\ a.name = "eliminate" /\ Readable(b)
        /\ pending # NoMatch
        /\ a.asset # None
     THEN [accepted |-> TRUE, rejected |-> <<a.asset>>,
           payload |-> [b EXCEPT !.decisions =
                          Append(@, [node |-> pending.node, eliminated |-> a.asset])]]
     ELSE Refused

Reduce(b, a) ==
  LET pending == FindPending(b)
  IN IF /\ a.name = "eliminate" /\ Readable(b)
        /\ pending # NoMatch
        /\ a.asset # None /\ a.asset \in {pending.left, pending.right}
     THEN [accepted |-> TRUE, rejected |-> <<a.asset>>,
           payload |-> [b EXCEPT !.decisions =
                          Append(@, [node |-> pending.node, eliminated |-> a.asset])]]
     ELSE Refused

Summarise(b) ==
  LET rejected == [i \in DOMAIN b.decisions |-> b.decisions[i].eliminated]
      kept == {i \in DOMAIN b.input : \A k \in DOMAIN rejected : rejected[k] # b.input[i]}
  IN [remaining |-> Picked(b.input, kept),
      rejected |-> rejected,
      complete |-> Outcomes(b)[0].resolved,
      canFinish |-> TRUE]
=============================================================================
