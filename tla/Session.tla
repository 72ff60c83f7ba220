------------------------------ MODULE Session ------------------------------
(***************************************************************************)
(* Comparison sessions and deletion marks: SessionController,              *)
(* DispositionController, the part of CollectionController and             *)
(* SqliteRepository they use, and the order in which the windows call      *)
(* them.  One collection; everything runs on the user-interface thread, so *)
(* an action is a handler, cut where a crash between two durable writes    *)
(* makes a difference.                                                     *)
(***************************************************************************)
EXTENDS Integers, Sequences, FiniteSets

CONSTANTS
  Photos,        \* photos of the collection
  Sessions,      \* identifiers SessionId::generate() can return
  None,          \* no session, no gesture
  Faults,        \* which storage calls may fail: subset of FaultKinds
  LateGestures,  \* whether a pointer is pressed on one layout and released on a later one
  Scans,         \* whether the directory is scanned while it is open
  MaxRevision,   \* bound on the revision of a draft
  MaxStored,     \* bound on the revision of the collection
  MaxGroup       \* bound on the membership revision of a photo

FaultKinds == {"draft", "delete", "marks", "scan", "commit", "read"}

ASSUME SessionAssumption ==
  /\ None \notin Sessions
  /\ Faults \subseteq FaultKinds
  /\ LateGestures \in BOOLEAN
  /\ Scans \in BOOLEAN
  /\ MaxRevision \in Nat /\ MaxStored \in Nat /\ MaxGroup \in Nat \ {0}

VARIABLES
  disk,           \* the database as a crash leaves it
  db,             \* the database as the open connection sees it
  pc,             \* where the thread stands
  readOnly,       \* another instance holds the collection
  shown,          \* CollectionController: marks and groups of assets_
  known,          \* DispositionController: revision_, what a write of marks expects
  markingEnabled, blocked, \* DispositionController
  history, at,    \* its undo stack and the stack's index
  dropping,       \* a queued call that will clear the stack
  sid,            \* the running session, or None
  snapshot,       \* its frozen input: membership revision by photo, 0 if not in it
  draft,          \* state_
  decisions, cursor, \* its undo stack and the stack's index
  unsaved, savePending,
  timer,          \* the autosave timer is running
  armed           \* revision and draft a pressed pointer was pressed on, or None

marking == <<markingEnabled, blocked, history, at, dropping>>
session == <<sid, snapshot, draft, decisions, cursor, armed>>
saving  == <<unsaved, savePending, timer>>
view    == <<readOnly, shown, known>>
vars == <<disk, db, pc, view, marking, session, saving>>

-----------------------------------------------------------------------------
(* Data *)

Drafts == [revision : Nat, rejected : SUBSET Photos]
Snapshots == [Photos -> Nat]
Stored == [lifecycle : {"none", "active", "paused", "finished"},
           snapshot : Snapshots, draft : Drafts]
Database == [mark : SUBSET Photos, revision : Nat, group : Snapshots,
             saved : [Sessions -> Stored]]

NoSnapshot == [p \in Photos |-> 0]
NoDraft == [revision |-> 0, rejected |-> {}]
Unstored == [lifecycle |-> "none", snapshot |-> NoSnapshot, draft |-> NoDraft]

(* Marks a command sets: every photo of reject becomes rejected, every photo *)
(* of neutral neutral.                                                       *)
Change == [reject : SUBSET Photos, neutral : SUBSET Photos]
Rejecting(P) == [reject |-> P, neutral |-> {}]
Clearing(P)  == [reject |-> {}, neutral |-> P]

Input == {p \in Photos : snapshot[p] # 0}
Present(d) == {p \in Photos : d.group[p] # 0}

Resumable(s) == db.saved[s].lifecycle \in {"active", "paused"}

CanFail(kind) == kind \in Faults

-----------------------------------------------------------------------------
(* What a write makes of the database *)

WithStored(d, s, stored) ==
  [mark |-> d.mark, revision |-> d.revision, group |-> d.group,
   saved |-> [d.saved EXCEPT ![s] = stored]]

ToStored(lifecycle) == [lifecycle |-> lifecycle, snapshot |-> snapshot, draft |-> draft]

WithMarks(d, change) ==
  [mark |-> (d.mark \ change.neutral) \cup (change.reject \cap Present(d)),
   revision |-> d.revision + 1, group |-> d.group, saved |-> d.saved]

(* A photo keeps its mark only while its files are the same. *)
\* Mutant: marks are carried over by name.
MutWithScan(d, G) ==
  [mark |-> d.mark, revision |-> d.revision + 1, group |-> G, saved |-> d.saved]

WithScan(d, G) ==
  [mark |-> {p \in d.mark : G[p] = d.group[p]},
   revision |-> d.revision + 1, group |-> G, saved |-> d.saved]

ViewOf(d) == [mark |-> d.mark, group |-> d.group]
NoView == [mark |-> {}, group |-> NoSnapshot]

(* loadAssets(): a read that fails returns no photos.                        *)
Loaded(d) == {ViewOf(d)} \cup (IF CanFail("read") THEN {NoView} ELSE {})

(* Outside a transaction a write that succeeds is durable. *)
Durably(d) == db' = d /\ disk' = d

-----------------------------------------------------------------------------
(* A session ends, the process ends *)

StopSession == /\ sid' = None /\ snapshot' = NoSnapshot /\ draft' = NoDraft
               /\ decisions' = <<>> /\ cursor' = 0 /\ armed' = None
               /\ unsaved' = FALSE /\ savePending' = FALSE

ClearSession == /\ StopSession
                /\ markingEnabled' = TRUE
                /\ UNCHANGED <<blocked, history, at, dropping>>

Forget == /\ StopSession
          /\ timer' = FALSE
          /\ pc' = "closed" /\ readOnly' = FALSE /\ known' = 0
          /\ shown' = NoView
          /\ markingEnabled' = TRUE /\ blocked' = FALSE
          /\ history' = <<>> /\ at' = 0 /\ dropping' = FALSE

Init == /\ disk = [mark |-> {}, revision |-> 1, group |-> [p \in Photos |-> 1],
                   saved |-> [s \in Sessions |-> Unstored]]
        /\ db = disk
        /\ pc = "closed" /\ readOnly = FALSE /\ known = 0
        /\ shown = NoView
        /\ markingEnabled = TRUE /\ blocked = FALSE
        /\ history = <<>> /\ at = 0 /\ dropping = FALSE
        /\ sid = None /\ snapshot = NoSnapshot /\ draft = NoDraft
        /\ decisions = <<>> /\ cursor = 0 /\ armed = None
        /\ unsaved = FALSE /\ savePending = FALSE /\ timer = FALSE

-----------------------------------------------------------------------------
(* Opening a directory *)

(* BrowserWindow::openDirectory().  A running comparison is paused first,   *)
(* which is Pause; only then is the collection opened.                      *)
Open(ro) == /\ pc \in {"closed", "idle"}
            /\ sid = None
            /\ readOnly' = ro /\ known' = db.revision /\ shown' \in Loaded(db)
            /\ blocked' = FALSE /\ history' = <<>> /\ at' = 0
            /\ pc' = IF ~ro /\ (\E s \in Sessions : Resumable(s)) THEN "offer" ELSE "idle"
            /\ UNCHANGED <<disk, db, markingEnabled, dropping, session, saving>>

(* The prompt of offerResume() for the record with the latest timestamp.    *)
(* Timestamps count whole seconds of a clock people set, so it can be any.  *)
Matches(s) == \A p \in Photos : db.saved[s].snapshot[p] # 0
                                 => shown.group[p] = db.saved[s].snapshot[p]

Resume(s) == /\ pc = "offer" /\ Resumable(s) /\ Matches(s)
             /\ pc' = "idle"
             /\ sid' = s /\ snapshot' = db.saved[s].snapshot /\ draft' = db.saved[s].draft
             /\ decisions' = <<>> /\ cursor' = 0
             /\ unsaved' = FALSE /\ savePending' = FALSE
             /\ markingEnabled' = FALSE
             /\ UNCHANGED <<disk, db, view, blocked, history, at, dropping, armed, timer>>

(* Discard chosen at the prompt: the record goes, or the deletion fails.    *)
DiscardOffered(s) == /\ pc = "offer" /\ Resumable(s)
                     /\ pc' = "idle"
                     /\ \/ Durably(WithStored(db, s, Unstored))
                        \/ CanFail("delete") /\ UNCHANGED <<disk, db>>
                     /\ UNCHANGED <<view, marking, session, saving>>

(* Leave chosen, or Resume of a comparison whose photos changed.            *)
Decline == /\ pc = "offer"
           /\ pc' = "idle"
           /\ UNCHANGED <<disk, db, view, marking, session, saving>>

(* CollectionController::applyScanResult(): the scan is reconciled, or      *)
(* storing it fails and the bare result is shown.                           *)
Scan(G) == /\ Scans /\ pc \in {"idle", "offer"} /\ ~readOnly
           /\ \/ /\ db.revision < MaxStored
                 /\ Durably(WithScan(db, G))
                 /\ known' = db.revision + 1
                 /\ shown' = ViewOf(WithScan(db, G))
              \/ /\ CanFail("scan")
                 /\ shown' = [mark |-> {}, group |-> G]
                 /\ UNCHANGED <<disk, db, known>>
           /\ UNCHANGED <<pc, readOnly, marking, session, saving>>

-----------------------------------------------------------------------------
(* Storing the draft *)

(* writeSession(lifecycle): it succeeds and nothing is unsaved, or it fails *)
(* and the draft waits in memory.                                           *)
Written(lifecycle) == /\ ~readOnly
                      /\ Durably(WithStored(db, sid, ToStored(lifecycle)))

NotWritten == /\ readOnly \/ CanFail("draft")
              /\ savePending' = TRUE
              /\ UNCHANGED <<disk, db, unsaved>>

WriteActive == \/ Written("active") /\ unsaved' = FALSE /\ savePending' = FALSE
               \/ NotWritten

Running == pc = "idle" /\ sid # None

Autosave == /\ Running /\ timer
            /\ timer' = FALSE
            /\ WriteActive
            /\ UNCHANGED <<pc, view, marking, session>>

-----------------------------------------------------------------------------
(* The life of a session *)

Eligible == {p \in Photos : shown.group[p] # 0 /\ p \notin shown.mark}

(* BrowserWindow::startFlow() and SessionController::start().  The first    *)
(* write may fail; the session runs all the same.                           *)
Start(s, P) == /\ pc = "idle" /\ sid = None /\ ~readOnly
               /\ db.saved[s] = Unstored
               /\ P # {} /\ P \subseteq Eligible
               /\ sid' = s
               /\ snapshot' = [p \in Photos |-> IF p \in P THEN shown.group[p] ELSE 0]
               /\ draft' = [revision |-> 1, rejected |-> {}]
               /\ decisions' = <<>> /\ cursor' = 0
               /\ markingEnabled' = FALSE
               /\ \/ /\ unsaved' = FALSE /\ savePending' = FALSE
                     /\ Durably(WithStored(db, s, [lifecycle |-> "active",
                                                   snapshot |-> snapshot', draft |-> draft']))
                  \/ /\ CanFail("draft")
                     /\ unsaved' = TRUE /\ savePending' = TRUE
                     /\ UNCHANGED <<disk, db>>
               /\ UNCHANGED <<pc, view, blocked, history, at, dropping, armed, timer>>

(* Whatever the flow's reducer returns has to pass validateTransition().    *)
Validated(next) == next.revision > draft.revision /\ next.rejected \subseteq Input

\* Mutants: a decision does not count as unsaved; it does not start the timer.
MutApplyUnmarked(next) == draft' = next /\ timer' = TRUE /\ unsaved' = unsaved
MutApplyUntimed(next) == draft' = next /\ unsaved' = TRUE /\ timer' = timer

(* applyState(), reached from a decision and from undo and redo.            *)
ApplyState(next) == draft' = next /\ unsaved' = TRUE /\ timer' = TRUE

\* Mutant: what could have been redone stays.
MutDispatch(expected, next) ==
  /\ expected = draft.revision
  /\ Validated(next)
  /\ decisions' = Append(decisions, [before |-> draft, after |-> next])
  /\ cursor' = cursor + 1
  /\ ApplyState(next)
  /\ UNCHANGED <<disk, db, pc, view, marking, sid, snapshot, savePending>>

(* dispatchAt(): a decision replaces everything that could have been redone.*)
Dispatch(expected, next) ==
  /\ expected = draft.revision
  /\ Validated(next)
  /\ decisions' = Append(SubSeq(decisions, 1, cursor), [before |-> draft, after |-> next])
  /\ cursor' = cursor + 1
  /\ ApplyState(next)
  /\ UNCHANGED <<disk, db, pc, view, marking, sid, snapshot, savePending>>

(* The flows' reducers, of whatever revision and rejections (Comparison has  *)
(* them as they are): Dispatch accepts of it what the controller does.       *)
Returned == [revision : 0..MaxRevision, rejected : SUBSET Photos]

Decide(next) == /\ Running
                /\ Dispatch(draft.revision, next)
                /\ UNCHANGED armed

(* WallView: a gesture is judged against the layout it was pressed on.      *)
Press == /\ LateGestures /\ Running /\ armed = None
         /\ armed' = draft
         /\ UNCHANGED <<disk, db, pc, view, marking, sid, snapshot, draft, decisions, cursor,
                       saving>>

Release(next) == /\ Running /\ armed # None
                 /\ Dispatch(armed.revision, next)
                 /\ armed' = None

ReleaseElsewhere == /\ Running /\ armed # None
                    /\ armed' = None
                    /\ UNCHANGED <<disk, db, pc, view, marking, sid, snapshot, draft, decisions,
                                  cursor, saving>>

UndoDecision == /\ Running /\ cursor > 0
                /\ cursor' = cursor - 1
                /\ ApplyState(decisions[cursor].before)
                /\ UNCHANGED <<disk, db, pc, view, marking, sid, snapshot, decisions, armed,
                              savePending>>

RedoDecision == /\ Running /\ cursor < Len(decisions)
                /\ cursor' = cursor + 1
                /\ ApplyState(decisions[cursor + 1].after)
                /\ UNCHANGED <<disk, db, pc, view, marking, sid, snapshot, decisions, armed,
                              savePending>>

\* Mutant: the autosave timer keeps running.
MutPause == /\ Running
            /\ \/ Written("paused") /\ ClearSession
               \/ NotWritten /\ UNCHANGED <<session, marking>>
            /\ UNCHANGED <<pc, view, timer>>

Pause == /\ Running
         /\ timer' = FALSE
         /\ \/ Written("paused") /\ ClearSession
            \/ NotWritten /\ UNCHANGED <<session, marking>>
         /\ UNCHANGED <<pc, view>>

Discard == /\ Running
           /\ timer' = FALSE
           /\ \/ Durably(WithStored(db, sid, Unstored)) /\ ClearSession
              \/ /\ CanFail("delete")
                 /\ UNCHANGED <<disk, db, session, marking, unsaved, savePending>>
           /\ UNCHANGED <<pc, view>>

(* The event loop ends with flushPendingSave().                             *)
Quit == /\ pc = "idle"
        /\ \/ sid # None /\ (unsaved \/ savePending) /\ Written("active")
           \/ /\ sid # None /\ (unsaved \/ savePending) => readOnly \/ CanFail("draft")
              /\ UNCHANGED <<disk, db>>
        /\ Forget

Crash == /\ pc # "closed"
         /\ db' = disk
         /\ UNCHANGED disk
         /\ Forget

-----------------------------------------------------------------------------
(* Finishing: the draft is written, then marks and record in one transaction *)

\* Mutants: the transaction stays open; marking stays possible.
MutRollBackOpen == pc' = "idle" /\ db' = db /\ markingEnabled' = FALSE
MutRollBackEnabled == pc' = "idle" /\ db' = disk /\ UNCHANGED markingEnabled

(* The transaction is rolled back and marking disabled again.               *)
RollBack == /\ pc' = "idle"
            /\ db' = disk
            /\ markingEnabled' = FALSE

Finish == /\ Running /\ db.revision < MaxStored
          /\ timer' = FALSE
          /\ \/ /\ NotWritten
                /\ UNCHANGED <<pc, markingEnabled>>
             \/ /\ Written("active") /\ unsaved' = FALSE /\ savePending' = FALSE
                /\ \/ pc' = "marks" /\ markingEnabled' = TRUE
                   \/ CanFail("commit") /\ pc' = "idle" /\ markingEnabled' = FALSE
          /\ UNCHANGED <<view, blocked, history, at, dropping, session>>

(* applyDispositionsLocked() refuses to write over a revision it has not seen. *)
Current == known = db.revision

\* Mutant: the history is kept.
MutBlockMarks == blocked' = TRUE /\ UNCHANGED <<history, at, dropping>>

(* Marks could not be written: no more commands until the collection is opened *)
(* again, and no history.                                                       *)
BlockMarks == /\ blocked' = TRUE
              /\ history' = <<>> /\ at' = 0
              /\ UNCHANGED dropping

\* Mutant: the marks are written before the transaction rather than in it.
MutFinishMarks ==
  /\ pc = "marks"
  /\ pc' = "record"
  /\ IF draft.rejected # {} /\ ~blocked THEN Durably(WithMarks(db, Rejecting(draft.rejected)))
                                        ELSE UNCHANGED <<disk, db>>
  /\ UNCHANGED <<view, marking, session, saving>>

(* beginRejections() *)
FinishMarks ==
  /\ pc = "marks"
  /\ \/ /\ draft.rejected = {}
        /\ pc' = "record"
        /\ UNCHANGED <<db, marking>>
     \/ /\ draft.rejected # {} /\ ~readOnly /\ ~blocked /\ Current
        /\ db' = WithMarks(db, Rejecting(draft.rejected))
        /\ pc' = "record"
        /\ UNCHANGED marking
     \/ /\ draft.rejected # {} /\ (readOnly \/ blocked)
        /\ RollBack
        /\ UNCHANGED <<blocked, history, at, dropping>>
     \/ /\ draft.rejected # {} /\ ~readOnly /\ ~blocked /\ (~Current \/ CanFail("marks"))
        /\ RollBack
        /\ BlockMarks
  /\ UNCHANGED <<disk, view, session, saving>>

FinishRecord ==
  /\ pc = "record"
  /\ \/ /\ db' = WithStored(db, sid, ToStored("finished"))
        /\ pc' = "commit"
        /\ UNCHANGED markingEnabled
     \/ CanFail("draft") /\ RollBack
  /\ UNCHANGED <<disk, view, blocked, history, at, dropping, session, saving>>

(* QUndoStack::push() of a command whose change is stored already. *)
PushMarks(forward, inverse) ==
  /\ history' = Append(SubSeq(history, 1, at), [forward |-> forward, inverse |-> inverse])
  /\ at' = at + 1

(* CollectionController::applyDispositionChange(): the photos are read again;*)
(* without any the browser keeps the ones it has.                            *)
Reread(d) == \E found \in Loaded(d) : shown' = IF found.group = NoSnapshot THEN shown ELSE found

(* The commit and, once it succeeded, commitRejections() and clearSession(). *)
FinishCommit ==
  /\ pc = "commit"
  /\ \/ /\ disk' = db /\ pc' = "idle"
        /\ IF draft.rejected = {}
           THEN UNCHANGED <<known, shown, history, at>>
           ELSE /\ known' = db.revision /\ Reread(db)
                /\ PushMarks(Rejecting(draft.rejected), Clearing(draft.rejected))
        /\ StopSession
        /\ markingEnabled' = TRUE
        /\ UNCHANGED <<db, blocked, dropping, readOnly, timer>>
     \/ /\ CanFail("commit")
        /\ RollBack
        /\ UNCHANGED <<disk, view, blocked, history, at, dropping, session, saving>>

-----------------------------------------------------------------------------
(* Changing marks in the browser *)

\* Mutant: the new revision is not kept.
MutPersistRevision(change) ==
  /\ Current /\ db.revision < MaxStored
  /\ Durably(WithMarks(db, change))
  /\ Reread(WithMarks(db, change)) /\ UNCHANGED known

(* persist(): the marks are written, and the browser reads them again.       *)
Persist(change) == /\ Current /\ db.revision < MaxStored
                   /\ Durably(WithMarks(db, change))
                   /\ known' = db.revision + 1
                   /\ Reread(WithMarks(db, change))

NotPersisted == /\ ~Current \/ CanFail("marks")
                /\ UNCHANGED <<disk, db, known, shown>>

Unmark(P) == /\ pc = "idle" /\ markingEnabled /\ ~readOnly /\ ~blocked
             /\ P # {} /\ P \subseteq shown.mark
             /\ \/ /\ Persist(Clearing(P))
                   /\ PushMarks(Clearing(P), Rejecting(P))
                   /\ UNCHANGED <<blocked, dropping>>
                \/ NotPersisted /\ BlockMarks
             /\ UNCHANGED <<pc, readOnly, markingEnabled, session, saving>>

\* Mutant: the stack is cleared inside the command it is executing.
MutFromHistory(change) ==
  /\ \/ Persist(change) /\ UNCHANGED <<blocked, history>>
     \/ NotPersisted /\ blocked' = TRUE /\ history' = <<>>
  /\ UNCHANGED <<pc, readOnly, markingEnabled, dropping, session, saving>>

(* applyFromHistory(), inside the stack: the index has moved before the      *)
(* write, and on the first failure clearing the stack is queued.             *)
FromHistory(change) ==
  /\ \/ Persist(change) /\ UNCHANGED <<blocked, dropping>>
     \/ NotPersisted /\ blocked' = TRUE /\ dropping' = (dropping \/ ~blocked)
  /\ UNCHANGED <<pc, readOnly, markingEnabled, history, session, saving>>

UndoMarks == /\ pc = "idle" /\ at > 0
             /\ at' = at - 1
             /\ FromHistory(history[at].inverse)

RedoMarks == /\ pc = "idle" /\ at < Len(history)
             /\ at' = at + 1
             /\ FromHistory(history[at + 1].forward)

DropHistory == /\ pc = "idle" /\ dropping
               /\ dropping' = FALSE /\ history' = <<>> /\ at' = 0
               /\ UNCHANGED <<disk, db, pc, view, markingEnabled, blocked, session, saving>>

-----------------------------------------------------------------------------
Opening == \/ \E ro \in BOOLEAN : Open(ro)
           \/ \E s \in Sessions : Resume(s) \/ DiscardOffered(s)
           \/ Decline
           \/ \E G \in [Photos -> 0..MaxGroup] : Scan(G)

Comparing == \/ \E s \in Sessions, P \in SUBSET Photos : Start(s, P)
             \/ \E next \in Returned : Decide(next) \/ Release(next)
             \/ Press \/ ReleaseElsewhere
             \/ UndoDecision \/ RedoDecision
             \/ Autosave \/ Pause \/ Discard

Finishing == Finish \/ FinishMarks \/ FinishRecord \/ FinishCommit

Marking == \/ \E P \in SUBSET Photos : Unmark(P)
           \/ UndoMarks \/ RedoMarks \/ DropHistory

Next == Opening \/ Comparing \/ Finishing \/ Marking \/ Quit \/ Crash

Spec == Init /\ [][Next]_vars

(* The event loop keeps delivering a timer that is running. *)
FairSpec == Spec /\ WF_vars(Autosave)

-----------------------------------------------------------------------------
(* Properties *)

Decisions == Seq([before : Drafts, after : Drafts])
History == Seq([forward : Change, inverse : Change])

TypeOK == /\ disk \in Database /\ db \in Database
          /\ pc \in {"closed", "offer", "idle", "marks", "record", "commit"}
          /\ readOnly \in BOOLEAN /\ known \in Nat
          /\ shown \in [mark : SUBSET Photos, group : Snapshots]
          /\ markingEnabled \in BOOLEAN /\ blocked \in BOOLEAN /\ dropping \in BOOLEAN
          /\ history \in History /\ at \in 0..Len(history)
          /\ sid \in Sessions \cup {None} /\ snapshot \in Snapshots /\ draft \in Drafts
          /\ decisions \in Decisions /\ cursor \in 0..Len(decisions)
          /\ armed \in Drafts \cup {None}
          /\ unsaved \in BOOLEAN /\ savePending \in BOOLEAN /\ timer \in BOOLEAN

AtRest == pc \in {"idle", "offer"}

(* What the shell shows as saved is saved: a running comparison with no      *)
(* unsaved changes is in the database, as a record that can be resumed and   *)
(* with the very draft and input in memory (writeSession, applyState, and    *)
(* every failed pause, discard and finish).                                  *)
SavedIsStored == sid # None /\ ~unsaved
                   => /\ disk.saved[sid].lifecycle \in {"active", "paused"}
                      /\ disk.saved[sid].draft = draft
                      /\ disk.saved[sid].snapshot = snapshot

(* While a comparison runs no command of the browser changes marks, whatever *)
(* pause, discard or finish of it failed before (setMarkingEnabled).  Marks  *)
(* that change under it come from undoing or redoing an earlier change, which*)
(* the flag does not stop, or from a scan.                                   *)
UnmarkWaitsForSession ==
  [][sid # None /\ sid' = sid /\ disk'.mark # disk.mark
       => \/ history' = history /\ at' # at
          \/ disk'.group # disk.group]_vars

(* The revision that a write of marks expects is the stored one, so none is  *)
(* refused as a conflict that did not happen, even when the photos could not *)
(* be read again (CompositionRoot's wiring, commitRejections,                *)
(* applyScanResult).                                                         *)
RevisionIsKnown == AtRest => known = db.revision

(* No photo is marked that no finished comparison rejected: not by a crash or*)
(* a refused write between marks and record, not by undoing and redoing on a *)
(* view that could not be read again (beginRejections, MarkCommand).         *)
Decided == UNION {disk.saved[s].draft.rejected : s \in {t \in Sessions : disk.saved[t].lifecycle = "finished"}}
MarksWereDecided == disk.mark \subseteq Decided

(* The draft is where its undo stack says it is: undoing returns the state   *)
(* before the last decision, redoing the one after the next, and the stored  *)
(* revisions grow along the stack (FlowTransitionCommand, dispatchAt).       *)
DraftIsOnItsStack ==
  /\ cursor > 0 => decisions[cursor].after = draft
  /\ cursor < Len(decisions) => decisions[cursor + 1].before = draft
  /\ \A i \in 1..Len(decisions) : decisions[i].before.revision < decisions[i].after.revision

(* Once marks are blocked there is nothing to undo or redo, or clearing it   *)
(* is under way (writeDispositions).                                         *)
BlockedHasNoHistory == blocked => dropping \/ history = <<>>

(* Nothing of a session outlives it: no timer that would write it again, no  *)
(* stack, no gesture (clearSession and the timer stopped by its callers).    *)
NothingOutlives == sid = None => ~timer /\ ~unsaved /\ decisions = <<>> /\ armed = None

(* Outside a transaction nothing is pending, and in one only what the marks  *)
(* and the record of this comparison are (runInTransaction in finish).       *)
PendingIsOneFinish ==
  /\ pc \in {"closed", "offer", "idle", "marks"} => db = disk
  /\ pc \in {"record", "commit"} =>
       /\ db.group = disk.group
       /\ db.mark = disk.mark \cup (draft.rejected \cap Present(disk))
       /\ db.saved = IF pc = "commit"
                     THEN [disk.saved EXCEPT ![sid] = ToStored("finished")]
                     ELSE disk.saved

(* The database keeps the promises of Culling: a crash or a failed write     *)
(* between the marks and the record never separates them, what becomes       *)
(* marks is the last stored draft, and a finished comparison stays finished. *)
StageOf(s) == IF s = sid /\ pc \in {"marks", "record", "commit"} THEN "applying"
              ELSE IF disk.saved[s].lifecycle \in {"active", "paused"} THEN "open"
              ELSE disk.saved[s].lifecycle

Promise == INSTANCE Culling WITH
             present <- Present(disk), marked <- disk.mark,
             stage <- [s \in Sessions |-> StageOf(s)],
             rejected <- [s \in Sessions |-> disk.saved[s].draft.rejected]

KeepsPromise == Promise!Spec

(* A decision is autosaved: what is unsaved is stored, or a write of it has  *)
(* been tried and has failed, which the shell shows (scheduleAutosave).      *)
Autosaved == unsaved ~> ~unsaved \/ savePending
=============================================================================
