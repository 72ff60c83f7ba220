----------------------------- MODULE Comparison -----------------------------
(***************************************************************************)
(* A running comparison: one of the two flows behind SessionController's   *)
(* dispatch and undo stack, and the view that turns keys, buttons and      *)
(* pointer gestures into actions.  What Session takes from a flow as given *)
(* is what this module shows of the two that exist.  Storage, marks and    *)
(* autosave are Session's.                                                 *)
(***************************************************************************)
EXTENDS Integers, Sequences, FiniteSets

CONSTANTS
  None,
  VersusSelections,  \* frozen orders a versus comparison may start with
  WallSelections,    \* frozen orders a wall may start with
  MaxRevision        \* bound on the revision of the flow's state

Versus == INSTANCE VersusFlow
Wall == INSTANCE WallFlow

Elements(s) == {s[i] : i \in DOMAIN s}
Distinct(s) == Cardinality(Elements(s)) = Len(s)

ASSUME ComparisonAssumption ==
  /\ MaxRevision \in Nat
  /\ \A s \in VersusSelections \cup WallSelections :
       s \in Seq(Elements(s)) /\ Len(s) > 0 /\ Distinct(s) /\ None \notin Elements(s)

VARIABLES
  flow,        \* the flow of the running comparison
  snapshot,    \* the frozen order it was started with
  state,       \* state_: a revision and the payload the flow owns
  decisions, cursor,  \* the undo stack and its index
  stored,      \* the draft of a paused comparison, or NoState
  panes,       \* versus view: leftId_ and rightId_ with their canvases
  pressed,     \* the canvas whose gesture is armed, or None
  armed        \* wall view: armedTile_ and armedRevision_, or None

vars == <<flow, snapshot, state, decisions, cursor, stored, panes, pressed, armed>>

NoState == [revision |-> 0, payload |-> None]
Running == stored = NoState

Bracket == state.payload
Cells == state.payload.cells
Match(s) == Versus!FindPending(s.payload)
Readable(s) == IF flow = "versus" THEN Versus!Readable(s.payload) ELSE Wall!Readable(s.payload)
Summary(s) == IF flow = "versus" THEN Versus!Summarise(s.payload) ELSE Wall!Summarise(s.payload)
Reduce(s, a) == IF flow = "versus" THEN Versus!Reduce(s.payload, a) ELSE Wall!Reduce(s.payload, a)

Eliminating(id) == [name |-> "eliminate", asset |-> id]
Mode(m) == [name |-> "setLayoutMode", mode |-> m]
Compacting == [name |-> "compact"]

Actions == IF flow = "versus" THEN {Eliminating(id) : id \in Elements(snapshot) \cup {None}}
           ELSE {Eliminating(id) : id \in Elements(snapshot) \cup {None}}
                  \cup {Mode(m) : m \in Wall!Modes} \cup {Compacting}

-----------------------------------------------------------------------------
(* The versus view *)

Blank == [id |-> None, photo |-> None, ready |-> FALSE, marked |-> FALSE]
Presenting(id) == [id |-> id, photo |-> id, ready |-> FALSE, marked |-> FALSE]

ShowSurvivor(p, winner) ==
  IF p.left.id = winner THEN p
  ELSE [left |-> [Presenting(winner) EXCEPT !.marked = winner # None], right |-> Blank]

\* Mutant: a photo that was in the other pane is taken to be there already.
MutShowMatch(p, m) ==
  [left  |-> IF p.left.id \in {m.left, m.right} THEN [p.left EXCEPT !.marked = FALSE]
                                                ELSE Presenting(m.left),
   right |-> IF p.right.id = m.right THEN p.right ELSE Presenting(m.right)]

ShowMatch(p, m) ==
  [left  |-> IF p.left.id = m.left THEN [p.left EXCEPT !.marked = FALSE] ELSE Presenting(m.left),
   right |-> IF p.right.id = m.right THEN p.right ELSE Presenting(m.right)]

(* VersusView::setState().  The wall's tiles follow the cells directly.      *)
Shown(s, p) ==
  IF flow = "wall" THEN p
  ELSE IF Match(s) = Versus!NoMatch THEN ShowSurvivor(p, Versus!Survivor(s.payload))
  ELSE ShowMatch(p, Match(s))

NoPanes == [left |-> Blank, right |-> Blank]

(* A tile leaves the wall with its candidate, and its gesture with it.       *)
StillPressed(s) ==
  IF pressed # None /\ flow = "wall"
     /\ \A i \in DOMAIN s.payload.cells : s.payload.cells[i].id # pressed.photo
  THEN None ELSE pressed

-----------------------------------------------------------------------------
(* SessionController *)

ApplyState(next) == state' = next /\ panes' = Shown(next, panes)

(* validateTransition() *)
ValidTransition(next, delta) ==
  LET summary == Summary(next) IN
  /\ next.revision > state.revision
  /\ Elements(delta) \subseteq Elements(snapshot)
  /\ Distinct(summary.remaining) /\ Distinct(summary.rejected)
  /\ Elements(summary.remaining) \cap Elements(summary.rejected) = {}
  /\ Elements(summary.remaining) \cup Elements(summary.rejected) = Elements(snapshot)

Result(a) == [revision |-> state.revision + 1, payload |-> Reduce(state, a).payload]

Accepted(a, expected) == /\ expected = state.revision
                         /\ Reduce(state, a).accepted
                         /\ ValidTransition(Result(a), Reduce(state, a).rejected)

(* dispatchAt(); a refused action changes nothing.                           *)
Dispatch(a, expected) ==
  IF Accepted(a, expected)
  THEN /\ decisions' = Append(SubSeq(decisions, 1, cursor),
                              [before |-> state, after |-> Result(a)])
       /\ cursor' = cursor + 1
       /\ ApplyState(Result(a))
  ELSE UNCHANGED <<state, decisions, cursor, panes>>

Unbounded == state.revision < MaxRevision

Undo == /\ Running /\ cursor > 0
        /\ cursor' = cursor - 1
        /\ ApplyState(decisions[cursor].before)
        /\ pressed' = StillPressed(decisions[cursor].before)
        /\ UNCHANGED <<flow, snapshot, decisions, stored, armed>>

Redo == /\ Running /\ cursor < Len(decisions)
        /\ cursor' = cursor + 1
        /\ ApplyState(decisions[cursor + 1].after)
        /\ pressed' = StillPressed(decisions[cursor + 1].after)
        /\ UNCHANGED <<flow, snapshot, decisions, stored, armed>>

(* Escape, the Pause button or closing the window; the draft is written.     *)
Pause == /\ Running
         /\ stored' = state
         /\ state' = NoState
         /\ decisions' = <<>> /\ cursor' = 0
         /\ panes' = NoPanes /\ pressed' = None /\ armed' = None
         /\ UNCHANGED <<flow, snapshot>>

(* resume(): the flow restores what it can read, with an empty undo stack.   *)
Resume == /\ ~Running /\ Readable(stored)
          /\ state' = stored /\ panes' = Shown(stored, NoPanes)
          /\ stored' = NoState
          /\ UNCHANGED <<flow, snapshot, decisions, cursor, pressed, armed>>

(* The draft is one of a build that wrote the cells it held as null.          *)
OlderBuild == /\ ~Running /\ flow = "wall"
              /\ stored' = [stored EXCEPT !.payload = Wall!Anonymous(@)]
              /\ UNCHANGED <<flow, snapshot, state, decisions, cursor, panes, pressed, armed>>

-----------------------------------------------------------------------------
(* Gestures of the versus view *)

(* PreviewLoader reports the photo a pane shows as decoded.                  *)
Loaded(side) == /\ Running /\ flow = "versus"
                /\ panes[side].photo # None /\ ~panes[side].ready
                /\ panes' = [panes EXCEPT ![side].ready = TRUE]
                /\ UNCHANGED <<flow, snapshot, state, decisions, cursor, stored, pressed, armed>>

CanDecide == /\ Running /\ flow = "versus" /\ Unbounded
             /\ Match(state) # Versus!NoMatch
             /\ panes.left.ready /\ panes.right.ready

(* The buttons, their shortcuts and the Delete key, for the pane that loses. *)
Decide(side) == /\ CanDecide
                /\ Dispatch(Eliminating(panes[side].id), state.revision)
                /\ UNCHANGED <<flow, snapshot, stored, pressed, armed>>

PressPane(side) == /\ Running /\ flow = "versus" /\ pressed = None
                   /\ panes[side].photo # None
                   /\ pressed' = [where |-> side, photo |-> panes[side].photo]
                   /\ UNCHANGED <<flow, snapshot, state, decisions, cursor, stored, panes, armed>>

(* The gesture carries neither the photo nor the revision it was pressed on. *)
ReleasePane == /\ CanDecide /\ pressed # None
               /\ Dispatch(Eliminating(panes[pressed.where].id), state.revision)
               /\ pressed' = None
               /\ UNCHANGED <<flow, snapshot, stored, armed>>

-----------------------------------------------------------------------------
(* Gestures of the wall view *)

Tiles == {Cells[i].id : i \in DOMAIN Cells} \ {None}
Survives(id) == Wall!Candidate(id) \in Elements(Cells)

(* An eliminated tile is pressed like any other but arms no decision.        *)
PressTile(id) == /\ Running /\ flow = "wall" /\ pressed = None
                 /\ id \in Tiles
                 /\ pressed' = [where |-> "tile", photo |-> id]
                 /\ armed' = IF Survives(id) THEN [tile |-> id, revision |-> state.revision]
                                             ELSE armed
                 /\ UNCHANGED <<flow, snapshot, state, decisions, cursor, stored, panes>>

Against(id) == IF armed # None /\ armed.tile = id THEN armed.revision ELSE state.revision

\* Mutant: a gesture that was armed decides about the tile it was armed on.
MutReleaseTile == /\ Running /\ flow = "wall" /\ Unbounded
                  /\ pressed # None /\ Survives(pressed.photo)
                  /\ LET tile == IF armed = None THEN pressed.photo ELSE armed.tile
                     IN Dispatch(Eliminating(tile), state.revision)
                  /\ pressed' = None /\ armed' = None
                  /\ UNCHANGED <<flow, snapshot, stored>>

ReleaseTile == /\ Running /\ flow = "wall" /\ Unbounded
               /\ pressed # None /\ Survives(pressed.photo)
               /\ Dispatch(Eliminating(pressed.photo), Against(pressed.photo))
               /\ pressed' = None /\ armed' = None
               /\ UNCHANGED <<flow, snapshot, stored>>

(* The release is outside, focus is lost, the canvas is resized, the tile is *)
(* an eliminated one, or the press was too close to a tile that vanished.    *)
Abandon == /\ Running /\ pressed # None
           /\ pressed' = None
           /\ armed' \in {armed, None}
           /\ UNCHANGED <<flow, snapshot, state, decisions, cursor, stored, panes>>

DeleteKey(id) == /\ Running /\ flow = "wall" /\ Unbounded
                 /\ id \in Tiles /\ Survives(id)
                 /\ Dispatch(Eliminating(id), state.revision)
                 /\ pressed' = StillPressed(state')
                 /\ armed' = None
                 /\ UNCHANGED <<flow, snapshot, stored>>

(* The check box and the Compact button.                                     *)
Arrange(a) == /\ Running /\ flow = "wall" /\ Unbounded
              /\ Reduce(state, a).accepted
              /\ Dispatch(a, state.revision)
              /\ pressed' = StillPressed(state')
              /\ UNCHANGED <<flow, snapshot, stored, armed>>

-----------------------------------------------------------------------------
Start(f, selection, payload) ==
  /\ flow = f /\ snapshot = selection
  /\ state = [revision |-> 1, payload |-> payload]
  /\ decisions = <<>> /\ cursor = 0
  /\ stored = NoState /\ pressed = None /\ armed = None
  /\ panes = Shown(state, NoPanes)

Init == \/ \E s \in VersusSelections : Start("versus", s, Versus!Initialise(s))
        \/ \E s \in WallSelections, m \in Wall!Modes : Start("wall", s, Wall!Initialise(s, m))

Next == \/ Undo \/ Redo \/ Pause \/ Resume \/ OlderBuild
        \/ \E side \in {"left", "right"} : Loaded(side) \/ Decide(side) \/ PressPane(side)
        \/ ReleasePane \/ ReleaseTile \/ Abandon
        \/ \E id \in Elements(snapshot) : PressTile(id) \/ DeleteKey(id)
        \/ \E a \in {Mode(m) : m \in Wall!Modes} \cup {Compacting} : Arrange(a)

Spec == Init /\ [][Next]_vars

-----------------------------------------------------------------------------
(* Properties *)

(* Whatever a flow accepts, validateTransition() lets pass, and every photo  *)
(* of the input is either remaining or rejected: Session takes from a flow   *)
(* any result of this kind, and a refusal here would freeze the comparison.  *)
ContractKept ==
  Running => \A a \in Actions : Reduce(state, a).accepted
                                  => ValidTransition(Result(a), Reduce(state, a).rejected)

(* What a flow has written, it can read: no draft is lost to the checks of   *)
(* parse(), whatever was undone, compacted or written by an older build.     *)
DraftIsReadable == /\ Running => Readable(state)
                   /\ ~Running => Readable(stored)

(* The bracket never stalls: until one candidate remains there is a match,   *)
(* and it is between two that are both still in.                             *)
BracketNeverStalls ==
  Running /\ flow = "versus" =>
    LET remaining == Elements(Summary(state).remaining) IN
    /\ Summary(state).complete <=> Cardinality(remaining) = 1
    /\ Summary(state).complete <=> Match(state) = Versus!NoMatch
    /\ Summary(state).complete => Versus!Survivor(Bracket) \in remaining
    /\ ~Summary(state).complete => /\ Match(state).left \in remaining
                                   /\ Match(state).right \in remaining
                                   /\ Match(state).left # Match(state).right

(* The tournament is balanced: rounds are played in order, and a bye spares  *)
(* a candidate the first round and no more, so that nobody waits for the     *)
(* second match of another.                                                  *)
PlayedInRounds ==
  Running /\ flow = "versus" =>
    /\ \A i, j \in DOMAIN Bracket.decisions :
         i < j => Versus!Round(Bracket, Bracket.decisions[i].node)
                    <= Versus!Round(Bracket, Bracket.decisions[j].node)
    /\ Match(state) # Versus!NoMatch =>
         \A i \in DOMAIN Bracket.decisions :
           Versus!Round(Bracket, Bracket.decisions[i].node)
             <= Versus!Round(Bracket, Match(state).node)
    /\ \A k \in 0 .. (Bracket.size \div 2) - 1 :
         Bracket.slots[2 * k + 1] # None \/ Bracket.slots[2 * k + 2] # None

(* The panes show the match the buttons decide, also after an undo from the  *)
(* completed screen, and both photos are on screen when a decision is taken. *)
PanesShowTheMatch ==
  Running /\ flow = "versus" /\ Match(state) # Versus!NoMatch =>
    \A side \in {"left", "right"} :
      panes[side].id = Match(state)[side] /\ panes[side].photo = panes[side].id

(* A pointer gesture eliminates the photo it was pressed on or nothing.      *)
Gesture == pressed # None /\ pressed' = None /\ state' # state /\ Running'

GestureHits == state'.payload.rejected = Append(state.payload.rejected, pressed.photo)

TilePressedIsTileGone ==
  [][Gesture /\ flow = "wall" /\ Survives(pressed.photo) => GestureHits]_vars

(* A late click is refused rather than applied to the next match.            *)
PanePressedIsPaneGone ==
  [][Gesture /\ flow = "versus"
       => Summary(state').rejected = Append(Summary(state).rejected, pressed.photo)]_vars

=============================================================================
