--------------------------- MODULE Session_proofs ---------------------------
(***************************************************************************)
(* Proofs about Session for any photos, any sessions and any faults, with  *)
(* late gestures and scans or without.                                     *)
(***************************************************************************)
EXTENDS Session, SequenceTheorems, TLAPS

(***************************************************************************)
(* Types                                                                   *)
(***************************************************************************)
View == [mark : SUBSET Photos, group : Snapshots]
Entry == [forward : Change, inverse : Change]
Decision == [before : Drafts, after : Drafts]

LEMMA StoredTypes ==
  ASSUME NEW d \in Database, NEW s, NEW r \in Stored
  PROVE  WithStored(d, s, r) \in Database
BY DEF WithStored, Database

LEMMA MarksTypes ==
  ASSUME NEW d \in Database, NEW c \in Change
  PROVE  WithMarks(d, c) \in Database
BY DEF WithMarks, Database, Change, Present

LEMMA ScanTypes ==
  ASSUME NEW d \in Database, NEW G \in Snapshots
  PROVE  WithScan(d, G) \in Database
BY DEF WithScan, Database

LEMMA ViewTypes ==
  ASSUME NEW d \in Database
  PROVE  ViewOf(d) \in View
BY DEF ViewOf, View, Database

\* What opening shows, and what reading again leaves, when a read fails too.
LEMMA LoadedViews ==
  ASSUME NEW d
  PROVE  /\ Loaded(d) \subseteq {ViewOf(d), NoView}
         /\ Reread(d) => shown' \in {shown, ViewOf(d)}
BY DEF Loaded, Reread, NoView

LEMMA ChangeTypes ==
  ASSUME NEW P \in SUBSET Photos
  PROVE  Rejecting(P) \in Change /\ Clearing(P) \in Change
BY DEF Rejecting, Clearing, Change

LEMMA EmptyTypes ==
  /\ NoSnapshot \in Snapshots /\ NoDraft \in Drafts /\ Unstored \in Stored
  /\ NoView \in View
BY DEF NoSnapshot, NoDraft, Unstored, Snapshots, Drafts, Stored, View, NoView

LEMMA RecordTypes ==
  ASSUME snapshot \in Snapshots, draft \in Drafts,
         NEW l \in {"active", "paused", "finished"}
  PROVE  ToStored(l) \in Stored
BY DEF ToStored, Stored

\* What a stack holds after something was pushed at its index.
LEMMA PushTypes ==
  ASSUME NEW T, NEW stack \in Seq(T), NEW i \in 0..Len(stack), NEW e \in T
  PROVE  /\ Append(SubSeq(stack, 1, i), e) \in Seq(T)
         /\ Len(Append(SubSeq(stack, 1, i), e)) = i + 1
BY SubSeqProperties, AppendProperties

LEMMA StackTypes == History = Seq(Entry) /\ Decisions = Seq(Decision)
BY DEF History, Entry, Decisions, Decision

LEMMA EmptyStacks ==
  /\ <<>> \in History /\ <<>> \in Decisions /\ Len(<<>>) = 0 /\ 0 \in 0..Len(<<>>)
<1>1. \A T : <<>> \in Seq(T) /\ Len(<<>>) = 0
  OBVIOUS
<1>. QED  BY <1>1, StackTypes

(* Opening and scanning. *)
LEMMA OpenTypes ==
  ASSUME TypeOK, NEW ro \in BOOLEAN, Open(ro) PROVE TypeOK'
<1>1. known' \in Nat /\ shown' \in View
  BY ViewTypes, EmptyTypes, LoadedViews DEF TypeOK, Open, Database
<1>. QED  BY <1>1, EmptyStacks DEF TypeOK, Open, View, session, saving

LEMMA ResumeTypes ==
  ASSUME TypeOK, NEW s \in Sessions, Resume(s) PROVE TypeOK'
<1>1. db.saved[s] \in Stored
  BY DEF TypeOK, Database
<1>2. snapshot' \in Snapshots /\ draft' \in Drafts
  BY <1>1 DEF Resume, Stored
<1>. QED  BY <1>2, EmptyStacks DEF TypeOK, Resume, view

LEMMA OfferTypes ==
  ASSUME TypeOK, Decline \/ \E s \in Sessions : DiscardOffered(s) PROVE TypeOK'
BY StoredTypes, EmptyTypes
DEF TypeOK, DiscardOffered, Decline, Durably, view, marking, session, saving

LEMMA ScanStepTypes ==
  ASSUME SessionAssumption, TypeOK, NEW G \in Snapshots, Scan(G) PROVE TypeOK'
BY ScanTypes, ViewTypes
DEF TypeOK, Scan, Durably, view, marking, session, saving, View, Database

(* The life of a session. *)
LEMMA StartTypes ==
  ASSUME TypeOK, NEW s \in Sessions, NEW P \in SUBSET Photos, Start(s, P) PROVE TypeOK'
<1>1. snapshot' \in Snapshots
  BY DEF Start, TypeOK, Snapshots
<1>2. draft' \in Drafts
  BY DEF Start, Drafts
<1>3. [lifecycle |-> "active", snapshot |-> snapshot', draft |-> draft'] \in Stored
  BY <1>1, <1>2 DEF Stored
<1>4. disk' \in Database /\ db' \in Database
  BY <1>3, StoredTypes DEF TypeOK, Start, Durably
<1>. QED  BY <1>1, <1>2, <1>4, EmptyStacks DEF TypeOK, Start, view

LEMMA DispatchTypes ==
  ASSUME TypeOK, NEW e, NEW n \in Drafts, Dispatch(e, n), armed' \in Drafts \cup {None}
  PROVE  TypeOK'
<1>1. [before |-> draft, after |-> n] \in Decision
  BY DEF TypeOK, Decision
<1>2. decisions' \in Decisions /\ cursor' \in 0..Len(decisions')
  BY <1>1, PushTypes, StackTypes DEF TypeOK, Dispatch
<1>. QED  BY <1>2 DEF TypeOK, Dispatch, ApplyState, view, marking

LEMMA UndoDecisionTypes ==
  ASSUME TypeOK, UndoDecision \/ RedoDecision PROVE TypeOK'
<1>1. \A i \in 1..Len(decisions) : decisions[i] \in Decision
  BY StackTypes, ElementOfSeq DEF TypeOK
<1>2. cursor' \in 0..Len(decisions)
  BY StackTypes DEF TypeOK, UndoDecision, RedoDecision
<1>3. draft' \in Drafts
  BY <1>1, StackTypes DEF TypeOK, UndoDecision, RedoDecision, ApplyState, Decision
<1>. QED  BY <1>2, <1>3 DEF TypeOK, UndoDecision, RedoDecision, ApplyState, view, marking

LEMMA StopTypes ==
  ASSUME StopSession
  PROVE  /\ sid' \in Sessions \cup {None} /\ snapshot' \in Snapshots /\ draft' \in Drafts
         /\ decisions' \in Decisions /\ cursor' \in 0..Len(decisions')
         /\ armed' \in Drafts \cup {None}
         /\ unsaved' \in BOOLEAN /\ savePending' \in BOOLEAN
BY EmptyTypes, EmptyStacks DEF StopSession

LEMMA WrittenTypes ==
  ASSUME TypeOK, NEW l \in {"active", "paused"}, Written(l)
  PROVE  disk' \in Database /\ db' \in Database
BY RecordTypes, StoredTypes DEF TypeOK, Written, Durably

LEMMA AutosaveTypes ==
  ASSUME TypeOK, Autosave PROVE TypeOK'
<1>1. CASE Written("active") /\ unsaved' = FALSE /\ savePending' = FALSE
  BY <1>1, WrittenTypes DEF TypeOK, Autosave, view, marking, session
<1>2. CASE NotWritten
  BY <1>2 DEF TypeOK, Autosave, NotWritten, view, marking, session
<1>. QED  BY <1>1, <1>2 DEF Autosave, WriteActive

LEMMA PauseTypes ==
  ASSUME TypeOK, Pause PROVE TypeOK'
<1>1. CASE Written("paused") /\ ClearSession
  BY <1>1, WrittenTypes, StopTypes DEF TypeOK, Pause, ClearSession, view
<1>2. CASE NotWritten /\ UNCHANGED <<session, marking>>
  BY <1>2 DEF TypeOK, Pause, NotWritten, view, marking, session
<1>. QED  BY <1>1, <1>2 DEF Pause

LEMMA DiscardTypes ==
  ASSUME TypeOK, Discard PROVE TypeOK'
<1>1. CASE Durably(WithStored(db, sid, Unstored)) /\ ClearSession
  BY <1>1, StoredTypes, EmptyTypes, StopTypes DEF TypeOK, Discard, Durably, ClearSession, view
<1>2. CASE UNCHANGED <<disk, db, session, marking, unsaved, savePending>>
  BY <1>2 DEF TypeOK, Discard, view, marking, session
<1>. QED  BY <1>1, <1>2 DEF Discard

LEMMA ForgetTypes ==
  ASSUME Forget, disk' \in Database, db' \in Database PROVE TypeOK'
BY StopTypes, EmptyTypes, EmptyStacks DEF TypeOK, Forget, View

LEMMA EndTypes ==
  ASSUME TypeOK, Quit \/ Crash PROVE TypeOK'
<1>1. disk' \in Database /\ db' \in Database
  BY WrittenTypes DEF TypeOK, Quit, Crash
<1>. QED  BY <1>1, ForgetTypes DEF Quit, Crash

(* Finishing. *)
LEMMA FinishTypes ==
  ASSUME TypeOK, Finish PROVE TypeOK'
<1>1. CASE NotWritten /\ UNCHANGED <<pc, markingEnabled>>
  BY <1>1 DEF TypeOK, Finish, NotWritten, view, session
<1>2. CASE Written("active") /\ unsaved' = FALSE /\ savePending' = FALSE
  BY <1>2, WrittenTypes DEF TypeOK, Finish, view, session
<1>. QED  BY <1>1, <1>2 DEF Finish

LEMMA FinishMarksTypes ==
  ASSUME TypeOK, FinishMarks PROVE TypeOK'
<1>1. draft.rejected \in SUBSET Photos
  BY DEF TypeOK, Drafts
<1>2. db' \in Database
  BY <1>1, MarksTypes, ChangeTypes DEF TypeOK, FinishMarks, RollBack, marking
<1>. QED  BY <1>2, EmptyStacks DEF TypeOK, FinishMarks, RollBack, BlockMarks, view, marking,
                                   session, saving

LEMMA FinishRecordTypes ==
  ASSUME TypeOK, FinishRecord PROVE TypeOK'
<1>1. db' \in Database
  BY RecordTypes, StoredTypes DEF TypeOK, FinishRecord, RollBack
<1>. QED  BY <1>1 DEF TypeOK, FinishRecord, RollBack, view, session, saving

LEMMA PushMarksTypes ==
  ASSUME TypeOK, NEW f \in Change, NEW i \in Change, PushMarks(f, i)
  PROVE  history' \in History /\ at' \in 0..Len(history')
<1>1. [forward |-> f, inverse |-> i] \in Entry
  BY DEF Entry
<1>. QED  BY <1>1, PushTypes, StackTypes DEF TypeOK, PushMarks

LEMMA FinishCommitTypes ==
  ASSUME TypeOK, FinishCommit PROVE TypeOK'
<1>1. CASE /\ CanFail("commit") /\ RollBack
           /\ UNCHANGED <<disk, view, blocked, history, at, dropping, session, saving>>
  BY <1>1 DEF TypeOK, RollBack, view, session, saving
<1>2. CASE disk' = db /\ pc' = "idle" /\ StopSession
  <2>1. history' \in History /\ at' \in 0..Len(history')
    <3>1. draft.rejected \in SUBSET Photos
      BY DEF TypeOK, Drafts
    <3>. QED  BY <1>2, <3>1, ChangeTypes, PushMarksTypes DEF TypeOK, FinishCommit
  <2>2. known' \in Nat /\ shown' \in View
    <3>1. db.revision \in Nat /\ ViewOf(db) \in View
      BY ViewTypes DEF TypeOK, Database
    <3>2. known' \in {known, db.revision} /\ shown' \in {shown, ViewOf(db)}
      BY LoadedViews DEF FinishCommit, view
    <3>. QED  BY <3>1, <3>2 DEF TypeOK, View
  <2>. QED  BY <1>2, <2>1, <2>2, StopTypes
            DEF TypeOK, FinishCommit, RollBack, View, view, saving
<1>. QED  BY <1>1, <1>2 DEF FinishCommit

(* Marks in the browser. *)
LEMMA PersistTypes ==
  ASSUME TypeOK, NEW c \in Change, Persist(c) \/ NotPersisted
  PROVE  disk' \in Database /\ db' \in Database /\ known' \in Nat /\ shown' \in View
<1>1. CASE Persist(c)
  <2>1. WithMarks(db, c) \in Database /\ db.revision \in Nat
    BY MarksTypes DEF TypeOK, Database
  <2>2. shown' \in View
    BY <1>1, <2>1, ViewTypes, LoadedViews DEF TypeOK, Persist, View
  <2>. QED  BY <1>1, <2>1, <2>2 DEF Persist, Durably
<1>2. CASE NotPersisted
  BY <1>2 DEF TypeOK, NotPersisted, View
<1>. QED  BY <1>1, <1>2

LEMMA UnmarkTypes ==
  ASSUME TypeOK, NEW P \in SUBSET Photos, Unmark(P) PROVE TypeOK'
<1>1. disk' \in Database /\ db' \in Database /\ known' \in Nat /\ shown' \in View
  BY ChangeTypes, PersistTypes DEF Unmark
<1>2. history' \in History /\ at' \in 0..Len(history')
  BY ChangeTypes, PushMarksTypes, EmptyStacks DEF Unmark, BlockMarks
<1>. QED  BY <1>1, <1>2 DEF TypeOK, Unmark, BlockMarks, View, session, saving

LEMMA UndoMarksTypes ==
  ASSUME TypeOK, UndoMarks \/ RedoMarks PROVE TypeOK'
<1>1. at' \in 0..Len(history)
  BY StackTypes DEF TypeOK, UndoMarks, RedoMarks
<1>2. PICK c \in Change : FromHistory(c)
  <2>1. \A i \in 1..Len(history) : history[i].forward \in Change /\ history[i].inverse \in Change
    <3>1. \A i \in 1..Len(history) : history[i] \in Entry
      BY StackTypes, ElementOfSeq DEF TypeOK
    <3>. QED  BY <3>1 DEF Entry
  <2>. QED  BY <2>1, StackTypes DEF TypeOK, UndoMarks, RedoMarks
<1>3. disk' \in Database /\ db' \in Database /\ known' \in Nat /\ shown' \in View
  BY <1>2, PersistTypes DEF FromHistory
<1>4. /\ blocked' \in BOOLEAN /\ dropping' \in BOOLEAN
      /\ UNCHANGED <<pc, readOnly, markingEnabled, history, session, saving>>
  BY <1>2 DEF TypeOK, FromHistory
<1>. QED  BY <1>1, <1>3, <1>4 DEF TypeOK, View, session, saving

LEMMA DropTypes ==
  ASSUME TypeOK, DropHistory \/ Press \/ ReleaseElsewhere PROVE TypeOK'
<1>1. CASE DropHistory
  BY <1>1, EmptyStacks DEF TypeOK, DropHistory, view, session, saving
<1>2. CASE Press \/ ReleaseElsewhere
  BY <1>2 DEF TypeOK, Press, ReleaseElsewhere, view, session, saving, marking
<1>. QED  BY <1>1, <1>2

LEMMA StutterTypes == TypeOK /\ UNCHANGED vars => TypeOK'
BY DEF TypeOK, vars, view, marking, session, saving

LEMMA StepTypes ==
  ASSUME SessionAssumption, TypeOK, [Next]_vars PROVE TypeOK'
<1>1. CASE Opening
  <2>1. ASSUME NEW G \in [Photos -> 0..MaxGroup], Scan(G) PROVE TypeOK'
    <3>1. G \in Snapshots
      BY DEF SessionAssumption, Snapshots
    <3>. QED  BY <2>1, <3>1, ScanStepTypes
  <2>. QED  BY <1>1, <2>1, OpenTypes, ResumeTypes, OfferTypes DEF Opening
<1>2. CASE Comparing
  <2>1. ASSUME NEW n \in Returned, Decide(n) \/ Release(n) PROVE TypeOK'
    <3>1. n \in Drafts
      BY DEF SessionAssumption, Returned, Drafts
    <3>. QED  BY <2>1, <3>1, DispatchTypes DEF Decide, Release, TypeOK
  <2>2. ASSUME NEW s \in Sessions, NEW P \in SUBSET Photos, Start(s, P) PROVE TypeOK'
    BY <2>2, StartTypes
  <2>3. CASE Press \/ ReleaseElsewhere \/ UndoDecision \/ RedoDecision
    BY <2>3, UndoDecisionTypes, DropTypes
  <2>4. CASE Autosave \/ Pause \/ Discard
    BY <2>4, AutosaveTypes, PauseTypes, DiscardTypes
  <2>. QED  BY <1>2, <2>1, <2>2, <2>3, <2>4 DEF Comparing
<1>3. CASE Finishing
  BY <1>3, FinishTypes, FinishMarksTypes, FinishRecordTypes, FinishCommitTypes DEF Finishing
<1>4. CASE Marking
  BY <1>4, UnmarkTypes, UndoMarksTypes, DropTypes DEF Marking
<1>5. CASE Quit \/ Crash
  BY <1>5, EndTypes
<1>6. CASE UNCHANGED vars
  BY <1>6, StutterTypes
<1>. QED  BY <1>1, <1>2, <1>3, <1>4, <1>5, <1>6 DEF Next

LEMMA InitTypes == Init => TypeOK
<1>. SUFFICES ASSUME Init PROVE TypeOK
  OBVIOUS
<1>1. disk \in Database
  BY EmptyTypes DEF Init, Database, Snapshots
<1>. QED  BY <1>1, EmptyTypes, EmptyStacks DEF Init, TypeOK, View

\* The state of sessions, marks and database is always of its types.
THEOREM TypeCorrect == Spec => []TypeOK
BY InitTypes, StepTypes, SessionAssumption, PTL DEF Spec

(***************************************************************************)
(* Where the thread stands                                                 *)
(***************************************************************************)
Resting == {"closed", "offer", "idle"}
Applying == {"marks", "record", "commit"}

\* What the place of the thread says about the session: while a comparison is
\* being applied there is one, and finish() has made marking possible for it.
Control ==
  /\ pc \in Applying => sid # None /\ markingEnabled = TRUE
  /\ pc \in {"closed", "offer"} => sid = None
  /\ pc \in Resting => (markingEnabled = TRUE <=> sid = None)

USE DEF Resting, Applying

LEMMA ControlStep ==
  ASSUME SessionAssumption, TypeOK, Control, [Next]_vars PROVE Control'
<1>. USE DEF Control
<1>1. CASE Opening
  <2>1. ASSUME NEW ro \in BOOLEAN, Open(ro) PROVE Control'
    BY <2>1 DEF Open, session
  <2>2. ASSUME NEW s \in Sessions, Resume(s) PROVE Control'
    BY <2>2 DEF Resume, SessionAssumption
  <2>3. ASSUME NEW s \in Sessions, DiscardOffered(s) PROVE Control'
    BY <2>3 DEF DiscardOffered, marking, session
  <2>4. ASSUME NEW G \in [Photos -> 0..MaxGroup], Scan(G) PROVE Control'
    BY <2>4 DEF Scan, marking, session
  <2>5. CASE Decline
    BY <2>5 DEF Decline, marking, session
  <2>. QED  BY <1>1, <2>1, <2>2, <2>3, <2>4, <2>5 DEF Opening
<1>2. CASE Comparing
  <2>1. ASSUME NEW s \in Sessions, NEW P \in SUBSET Photos, Start(s, P) PROVE Control'
    BY <2>1 DEF Start, SessionAssumption
  <2>2. ASSUME NEW n \in Returned, Decide(n) \/ Release(n) PROVE Control'
    BY <2>2 DEF Decide, Release, Dispatch, marking
  <2>3. CASE Press \/ ReleaseElsewhere \/ UndoDecision \/ RedoDecision
    BY <2>3 DEF Press, ReleaseElsewhere, UndoDecision, RedoDecision, marking
  <2>4. CASE Autosave
    BY <2>4 DEF Autosave, marking, session
  <2>5. CASE Pause \/ Discard
    BY <2>5 DEF Pause, Discard, Running, ClearSession, StopSession, marking, session
  <2>. QED  BY <1>2, <2>1, <2>2, <2>3, <2>4, <2>5 DEF Comparing
<1>3. CASE Finishing
  <2>1. CASE Finish
    BY <2>1 DEF Finish, Running, session
  <2>2. CASE FinishMarks
    BY <2>2 DEF FinishMarks, RollBack, marking, session
  <2>3. CASE FinishRecord
    BY <2>3 DEF FinishRecord, RollBack, session
  <2>4. CASE FinishCommit
    BY <2>4 DEF FinishCommit, RollBack, StopSession, session
  <2>. QED  BY <1>3, <2>1, <2>2, <2>3, <2>4 DEF Finishing
<1>4. CASE Marking
  BY <1>4 DEF Marking, Unmark, UndoMarks, RedoMarks, DropHistory, FromHistory, session
<1>5. CASE Quit \/ Crash
  BY <1>5 DEF Quit, Crash, Forget, StopSession
<1>6. CASE UNCHANGED vars
  BY <1>6 DEF vars, marking, session
<1>. QED  BY <1>1, <1>2, <1>3, <1>4, <1>5, <1>6 DEF Next

LEMMA ControlHolds == Spec => []Control
<1>1. Init => Control
  BY DEF Init, Control
<1>. QED  BY <1>1, ControlStep, TypeCorrect, SessionAssumption, PTL DEF Spec

(***************************************************************************)
(* The database and its transaction                                        *)
(***************************************************************************)
\* The revision the controllers hold is the stored one as long as a directory
\* is open, and a transaction without marks leaves it alone.
Store ==
  /\ PendingIsOneFinish
  /\ pc # "closed" => known = disk.revision
  /\ pc \in {"record", "commit"} /\ draft.rejected = {} => db.revision = disk.revision

\* Outside the transaction it is enough that both views of the database agree.
LEMMA StoreAtRest ==
  ASSUME pc' \in {"closed", "offer", "idle", "marks"}, db' = disk',
         pc' # "closed" => known' = disk'.revision
  PROVE  Store'
BY DEF Store, PendingIsOneFinish

LEMMA RevisionKept ==
  \A d, s, r : WithStored(d, s, r).revision = d.revision
BY DEF WithStored

LEMMA RevisionGrows ==
  /\ \A d, c : WithMarks(d, c).revision = d.revision + 1
  /\ \A d, G : WithScan(d, G).revision = d.revision + 1
BY DEF WithMarks, WithScan

LEMMA OpeningStore ==
  ASSUME TypeOK, Store, Opening PROVE Store'
<1>. USE DEF Store, PendingIsOneFinish
<1>1. ASSUME NEW ro \in BOOLEAN, Open(ro) PROVE Store'
  BY <1>1, StoreAtRest DEF Open
<1>2. ASSUME NEW s \in Sessions, Resume(s) PROVE Store'
  BY <1>2, StoreAtRest DEF Resume, view
<1>3. ASSUME NEW s \in Sessions, DiscardOffered(s) PROVE Store'
  BY <1>3, StoreAtRest, RevisionKept DEF DiscardOffered, Durably, view
<1>4. CASE Decline
  BY <1>4, StoreAtRest DEF Decline, view
<1>5. ASSUME NEW G \in [Photos -> 0..MaxGroup], Scan(G) PROVE Store'
  BY <1>5, StoreAtRest, RevisionGrows DEF Scan, Durably
<1>. QED  BY <1>1, <1>2, <1>3, <1>4, <1>5 DEF Opening

LEMMA WrittenStore ==
  ASSUME NEW l, Written(l)
  PROVE  db' = disk' /\ disk'.revision = db.revision
BY RevisionKept DEF Written, Durably

LEMMA ComparingStore ==
  ASSUME TypeOK, Store, Comparing PROVE Store'
<1>. USE DEF Store, PendingIsOneFinish, Running
<1>1. ASSUME NEW s \in Sessions, NEW P \in SUBSET Photos, Start(s, P) PROVE Store'
  BY <1>1, StoreAtRest, RevisionKept DEF Start, Durably, view
<1>2. ASSUME NEW n \in Returned, Decide(n) \/ Release(n) PROVE Store'
  BY <1>2, StoreAtRest DEF Decide, Release, Dispatch, view
<1>3. CASE Press \/ ReleaseElsewhere \/ UndoDecision \/ RedoDecision
  BY <1>3, StoreAtRest DEF Press, ReleaseElsewhere, UndoDecision, RedoDecision, view
<1>4. CASE Autosave
  BY <1>4, StoreAtRest, WrittenStore DEF Autosave, WriteActive, NotWritten, view
<1>5. CASE Pause
  BY <1>5, StoreAtRest, WrittenStore DEF Pause, NotWritten, view
<1>6. CASE Discard
  BY <1>6, StoreAtRest, RevisionKept DEF Discard, Durably, view
<1>. QED  BY <1>1, <1>2, <1>3, <1>4, <1>5, <1>6 DEF Comparing

LEMMA FinishingStore ==
  ASSUME TypeOK, Store, Finishing PROVE Store'
<1>. USE DEF Store, PendingIsOneFinish
<1>1. CASE Finish
  BY <1>1, StoreAtRest, WrittenStore DEF Finish, Running, NotWritten, view
<1>2. CASE FinishMarks
  <2>1. CASE RollBack
    BY <1>2, <2>1, StoreAtRest DEF FinishMarks, RollBack, view
  <2>2. CASE draft.rejected = {} /\ db' = db /\ pc' = "record"
    BY <1>2, <2>2 DEF FinishMarks, view, session
  <2>3. CASE draft.rejected # {} /\ db' = WithMarks(db, Rejecting(draft.rejected)) /\ pc' = "record"
    <3>1. /\ db'.group = db.group /\ db'.saved = db.saved
          /\ db'.mark = db.mark \cup (draft.rejected \cap Present(db))
      BY <2>3 DEF WithMarks, Rejecting
    <3>. QED  BY <1>2, <2>3, <3>1 DEF FinishMarks, view, session, Present
  <2>. QED  BY <1>2, <2>1, <2>2, <2>3 DEF FinishMarks
<1>3. CASE FinishRecord
  <2>1. CASE RollBack
    BY <1>3, <2>1, StoreAtRest DEF FinishRecord, RollBack, view
  <2>2. CASE db' = WithStored(db, sid, ToStored("finished")) /\ pc' = "commit"
    <3>1. /\ db'.group = db.group /\ db'.mark = db.mark /\ db'.revision = db.revision
          /\ db'.saved = [disk.saved EXCEPT ![sid] = ToStored("finished")]
      BY <1>3, <2>2 DEF WithStored, FinishRecord
    <3>2. ToStored("finished")' = ToStored("finished") /\ sid' = sid
      BY <1>3 DEF FinishRecord, session, ToStored
    <3>. QED  BY <1>3, <2>2, <3>1, <3>2 DEF FinishRecord, view, session, Present
  <2>. QED  BY <1>3, <2>1, <2>2 DEF FinishRecord
<1>4. CASE FinishCommit
  BY <1>4, StoreAtRest DEF FinishCommit, RollBack, view
<1>. QED  BY <1>1, <1>2, <1>3, <1>4 DEF Finishing

LEMMA MarkingStore ==
  ASSUME TypeOK, Store, Marking PROVE Store'
<1>1. pc = "idle" /\ pc' = "idle"
  BY DEF Marking, Unmark, UndoMarks, RedoMarks, DropHistory, FromHistory
<1>2. \/ \E c : Persist(c)
      \/ UNCHANGED <<disk, db, known>>
  BY DEF Marking, Unmark, UndoMarks, RedoMarks, DropHistory, FromHistory, NotPersisted, view
<1>. QED  BY <1>1, <1>2, StoreAtRest, RevisionGrows
          DEF Store, PendingIsOneFinish, Persist, Durably

LEMMA StoreStep ==
  ASSUME TypeOK, Store, [Next]_vars PROVE Store'
<1>1. CASE Quit
  <2>1. db = disk
    BY <1>1 DEF Quit, Store, PendingIsOneFinish
  <2>2. db' = disk'
    BY <1>1, <2>1, WrittenStore DEF Quit
  <2>. QED  BY <1>1, <2>2, StoreAtRest DEF Quit, Forget
<1>2. CASE Crash
  BY <1>2, StoreAtRest DEF Crash, Forget
<1>3. CASE UNCHANGED vars
  BY <1>3 DEF vars, view, session, Store, PendingIsOneFinish, ToStored, Present
<1>. QED  BY <1>1, <1>2, <1>3, OpeningStore, ComparingStore, FinishingStore, MarkingStore DEF Next

LEMMA StoreHolds == Spec => []Store
<1>1. Init => Store
  BY DEF Init, Store, PendingIsOneFinish
<1>. QED  BY <1>1, StoreStep, TypeCorrect, PTL DEF Spec

\* A mark is never refused as a conflict that did not happen: the revision
\* handed from controller to controller is the stored one.
THEOREM RevisionIsAlwaysKnown == Spec => []RevisionIsKnown
<1>1. Store => RevisionIsKnown
  BY DEF Store, PendingIsOneFinish, RevisionIsKnown, AtRest
<1>. QED  BY <1>1, StoreHolds, PTL

\* The transaction of finish() is the only one, and all it ever holds back is
\* the marks and the record of the comparison it finishes.
THEOREM PendingIsAlwaysOneFinish == Spec => []PendingIsOneFinish
<1>1. Store => PendingIsOneFinish
  BY DEF Store
<1>. QED  BY <1>1, StoreHolds, PTL

(***************************************************************************)
(* Marks under a running comparison                                        *)
(***************************************************************************)
LEMMA MarksKept ==
  /\ \A d, s, r : WithStored(d, s, r).mark = d.mark
  /\ \A d, G : WithScan(d, G).group = G
BY DEF WithStored, WithScan

LEMMA WrittenMarks ==
  ASSUME NEW l, Written(l) PROVE disk'.mark = db.mark
BY MarksKept DEF Written, Durably

LEMMA OpeningMarks ==
  ASSUME TypeOK, Store, Opening, disk'.mark # disk.mark PROVE disk'.group # disk.group
<1>1. PICK G \in [Photos -> 0..MaxGroup] : Scan(G)
  BY MarksKept
  DEF Opening, Open, Resume, DiscardOffered, Decline, Durably, Store, PendingIsOneFinish
<1>2. db = disk /\ disk' = WithScan(disk, G)
  BY <1>1 DEF Scan, Durably, Store, PendingIsOneFinish
<1>3. disk'.mark = {p \in disk.mark : G[p] = disk.group[p]}
  BY <1>2 DEF WithScan
<1>. QED  BY <1>2, <1>3, MarksKept

LEMMA ComparingMarks ==
  ASSUME Store, Comparing \/ Finish \/ Quit \/ Crash PROVE disk'.mark = disk.mark
<1>1. db = disk \/ Crash
  BY DEF Comparing, Start, Decide, Release, Press, ReleaseElsewhere, UndoDecision, RedoDecision,
         Autosave, Pause, Discard, Finish, Quit, Running, Store, PendingIsOneFinish
<1>2. CASE Comparing
  <2>1. ASSUME NEW s \in Sessions, NEW P \in SUBSET Photos, Start(s, P)
        PROVE  disk'.mark = db.mark \/ disk' = disk
    BY <2>1, MarksKept DEF Start, Durably
  <2>2. ASSUME NEW n \in Returned, Decide(n) \/ Release(n) PROVE disk' = disk
    BY <2>2 DEF Decide, Release, Dispatch
  <2>3. CASE Press \/ ReleaseElsewhere \/ UndoDecision \/ RedoDecision
    BY <2>3 DEF Press, ReleaseElsewhere, UndoDecision, RedoDecision
  <2>4. CASE Autosave \/ Pause
    BY <1>1, <2>4, WrittenMarks DEF Autosave, Pause, WriteActive, NotWritten, Crash, Running
  <2>5. CASE Discard
    BY <1>1, <2>5, MarksKept DEF Discard, Durably, Crash
  <2>. QED  BY <1>1, <1>2, <2>1, <2>2, <2>3, <2>4, <2>5 DEF Comparing, Crash
<1>3. CASE Finish \/ Quit
  BY <1>1, <1>3, WrittenMarks DEF Finish, Quit, NotWritten, Crash
<1>4. CASE Crash
  BY <1>4 DEF Crash
<1>. QED  BY <1>2, <1>3, <1>4

\* While a comparison runs no command of the browser changes marks, whatever
\* failed before: only undoing or redoing an earlier change does, or a scan.
THEOREM UnmarkAlwaysWaits == Spec => UnmarkWaitsForSession
<1>1. ASSUME TypeOK, Control, Store, [Next]_vars,
             sid # None, sid' = sid, disk'.mark # disk.mark
      PROVE  \/ history' = history /\ at' # at
             \/ disk'.group # disk.group
  <2>1. CASE Marking
    <3>1. CASE UndoMarks \/ RedoMarks
      <4>1. at \in Nat
        <5>1. at \in 0..Len(history)
          BY <1>1 DEF TypeOK
        <5>. QED  BY <5>1
      <4>. QED  BY <3>1, <4>1 DEF UndoMarks, RedoMarks, FromHistory
    <3>2. ASSUME NEW P \in SUBSET Photos, Unmark(P) PROVE FALSE
      BY <1>1, <3>2 DEF Unmark, Control
    <3>. QED  BY <1>1, <2>1, <3>1, <3>2 DEF Marking, DropHistory
  <2>2. CASE FinishCommit
    BY <1>1, <2>2, SessionAssumption DEF FinishCommit, StopSession
  <2>3. CASE FinishMarks \/ FinishRecord
    BY <1>1, <2>3 DEF FinishMarks, FinishRecord
  <2>4. CASE UNCHANGED vars
    BY <1>1, <2>4 DEF vars
  <2>. QED  BY <1>1, <2>1, <2>2, <2>3, <2>4, OpeningMarks, ComparingMarks DEF Next, Finishing
<1>2. TypeOK /\ Control /\ Store /\ [Next]_vars
        => [sid # None /\ sid' = sid /\ disk'.mark # disk.mark
              => \/ history' = history /\ at' # at
                 \/ disk'.group # disk.group]_vars
  BY <1>1
<1>. QED  BY <1>2, TypeCorrect, ControlHolds, StoreHolds, PTL DEF Spec, UnmarkWaitsForSession

(***************************************************************************)
(* What is shown as saved                                                  *)
(***************************************************************************)
\* A comparison that runs has not been finished, and one that is being applied
\* has been stored as it is.
Saved ==
  /\ SavedIsStored
  /\ sid # None => disk.saved[sid].lifecycle # "finished"
  /\ pc \in Applying => unsaved = FALSE

LEMMA StoredSaves ==
  ASSUME NEW d \in Database, NEW s \in Sessions, NEW r
  PROVE  /\ WithStored(d, s, r).saved[s] = r
         /\ \A t \in Sessions \ {s} : WithStored(d, s, r).saved[t] = d.saved[t]
BY DEF WithStored, Database

LEMMA SavedKept ==
  /\ \A d, c : WithMarks(d, c).saved = d.saved
  /\ \A d, G : WithScan(d, G).saved = d.saved
BY DEF WithMarks, WithScan

LEMMA WrittenSaves ==
  ASSUME TypeOK, sid # None, NEW l, Written(l)
  PROVE  disk'.saved[sid] = ToStored(l)
BY StoredSaves DEF TypeOK, Written, Durably

\* A step that leaves the records, the session and the draft alone.
LEMMA SavedUntouched ==
  ASSUME Saved, disk'.saved = disk.saved, UNCHANGED <<sid, snapshot, draft>>,
         unsaved' = unsaved \/ unsaved' = TRUE, pc' \in Applying => unsaved' = FALSE
  PROVE  Saved'
BY DEF Saved, SavedIsStored

\* A step after which no comparison runs.
LEMMA SavedNothing ==
  ASSUME sid' = None, pc' \notin Applying PROVE Saved'
BY DEF Saved, SavedIsStored

\* A step that stores the draft that is in memory.
LEMMA SavedWritten ==
  ASSUME TypeOK, sid # None, Written("active"), UNCHANGED <<sid, snapshot, draft>>,
         unsaved' = FALSE
  PROVE  Saved'
<1>1. disk'.saved[sid] = ToStored("active")
  BY WrittenSaves
<1>. QED  BY <1>1 DEF Saved, SavedIsStored, ToStored

LEMMA OpeningSaved ==
  ASSUME SessionAssumption, TypeOK, Control, Store, Saved, Opening PROVE Saved'
<1>. USE DEF Control
<1>1. ASSUME NEW s \in Sessions, Resume(s) PROVE Saved'
  BY <1>1 DEF Resume, Resumable, Store, PendingIsOneFinish, Saved, SavedIsStored
<1>2. CASE \/ \E ro \in BOOLEAN : Open(ro)
           \/ \E s \in Sessions : DiscardOffered(s)
           \/ Decline
  <2>1. sid' = None /\ pc' \notin Applying
    BY <1>2 DEF Open, DiscardOffered, Decline, session
  <2>. QED  BY <2>1, SavedNothing
<1>3. ASSUME NEW G \in [Photos -> 0..MaxGroup], Scan(G) PROVE Saved'
  <2>1. disk'.saved = disk.saved
    BY <1>3, SavedKept DEF Scan, Durably, Store, PendingIsOneFinish
  <2>. QED  BY <1>3, <2>1, SavedUntouched DEF Scan, session, saving
<1>. QED  BY <1>1, <1>2, <1>3 DEF Opening

LEMMA ComparingSaved ==
  ASSUME SessionAssumption, TypeOK, Control, Store, Saved, Comparing PROVE Saved'
<1>1. ASSUME NEW s \in Sessions, NEW P \in SUBSET Photos, Start(s, P) PROVE Saved'
  <2>1. db = disk /\ db.saved[s] = Unstored /\ sid' = s /\ pc' = "idle"
    BY <1>1 DEF Start, Store, PendingIsOneFinish
  <2>2. CASE unsaved' = FALSE /\ disk' = WithStored(db, s, [lifecycle |-> "active",
                                   snapshot |-> snapshot', draft |-> draft'])
    <3>1. disk'.saved[s] = [lifecycle |-> "active", snapshot |-> snapshot', draft |-> draft']
      BY <2>2, StoredSaves DEF TypeOK
    <3>. QED  BY <2>1, <2>2, <3>1 DEF Saved, SavedIsStored
  <2>3. CASE unsaved' = TRUE /\ disk' = disk
    BY <2>1, <2>3 DEF Saved, SavedIsStored, Unstored
  <2>. QED  BY <1>1, <2>2, <2>3 DEF Start, Durably
<1>2. CASE \/ \E n \in Returned : Decide(n) \/ Release(n)
           \/ UndoDecision \/ RedoDecision
  <2>1. disk' = disk /\ sid' = sid /\ unsaved' = TRUE /\ pc' = "idle"
    BY <1>2 DEF Decide, Release, Dispatch, UndoDecision, RedoDecision, ApplyState, Running
  <2>. QED  BY <2>1 DEF Saved, SavedIsStored
<1>3. CASE Press \/ ReleaseElsewhere
  BY <1>3, SavedUntouched DEF Press, ReleaseElsewhere, saving, Running
<1>4. CASE Autosave
  <2>1. CASE NotWritten
    BY <1>4, <2>1, SavedUntouched DEF Autosave, NotWritten, Running, session
  <2>. QED  BY <1>4, <2>1, SavedWritten DEF Autosave, WriteActive, Running, session
<1>5. CASE Pause
  BY <1>5, SavedNothing, SavedUntouched
  DEF Pause, Running, ClearSession, StopSession, NotWritten, session
<1>6. CASE Discard
  BY <1>6, SavedNothing, SavedUntouched
  DEF Discard, Running, ClearSession, StopSession, session
<1>. QED  BY <1>1, <1>2, <1>3, <1>4, <1>5, <1>6 DEF Comparing

LEMMA FinishingSaved ==
  ASSUME TypeOK, Control, Saved, Finishing PROVE Saved'
<1>1. CASE Finish
  <2>1. CASE NotWritten /\ UNCHANGED <<pc, markingEnabled>>
    BY <1>1, <2>1, SavedUntouched DEF Finish, NotWritten, Running, session
  <2>. QED  BY <1>1, <2>1, SavedWritten DEF Finish, Running, session
<1>2. CASE FinishMarks
  BY <1>2, SavedUntouched DEF FinishMarks, session, saving, Saved
<1>3. CASE FinishRecord
  BY <1>3, SavedUntouched DEF FinishRecord, session, saving, Saved
<1>4. CASE FinishCommit
  BY <1>4, SavedUntouched, SavedNothing
  DEF FinishCommit, RollBack, StopSession, session, saving, Saved
<1>. QED  BY <1>1, <1>2, <1>3, <1>4 DEF Finishing

LEMMA MarkingSaved ==
  ASSUME TypeOK, Store, Saved, Marking PROVE Saved'
<1>1. /\ pc = "idle" /\ pc' = "idle"
      /\ UNCHANGED <<sid, snapshot, draft, unsaved>>
  BY DEF Marking, Unmark, UndoMarks, RedoMarks, DropHistory, FromHistory, session, saving
<1>2. disk'.saved = disk.saved
  <2>1. (\E c : Persist(c)) \/ UNCHANGED disk
    BY DEF Marking, Unmark, UndoMarks, RedoMarks, DropHistory, FromHistory, NotPersisted
  <2>. QED  BY <1>1, <2>1, SavedKept DEF Persist, Durably, Store, PendingIsOneFinish
<1>. QED  BY <1>1, <1>2, SavedUntouched

LEMMA SavedStep ==
  ASSUME SessionAssumption, TypeOK, Control, Store, Saved, [Next]_vars PROVE Saved'
<1>1. CASE Quit \/ Crash
  BY <1>1, SavedNothing DEF Quit, Crash, Forget, StopSession
<1>2. CASE UNCHANGED vars
  BY <1>2, SavedUntouched DEF vars, session, saving, Saved
<1>. QED  BY <1>1, <1>2, OpeningSaved, ComparingSaved, FinishingSaved, MarkingSaved DEF Next

LEMMA SavedHolds == Spec => []Saved
<1>1. Init => Saved
  BY DEF Init, Saved, SavedIsStored
<1>. QED  BY <1>1, SavedStep, TypeCorrect, ControlHolds, StoreHolds, SessionAssumption, PTL
          DEF Spec

\* What the shell shows as saved is in the database, as a record that can be
\* resumed with the draft and the input that are in memory.
THEOREM ShownAsSavedIsStored == Spec => []SavedIsStored
<1>1. Saved => SavedIsStored
  BY DEF Saved
<1>. QED  BY <1>1, SavedHolds, PTL

(***************************************************************************)
(* Nothing of a session outlives it                                        *)
(***************************************************************************)
\* finish() has stopped the timer before the transaction starts: a comparison
\* that ends in it leaves none behind.
Ended ==
  /\ NothingOutlives
  /\ pc \in Applying => ~timer

\* A step that leaves the session's stack, its gesture and what is saved alone.
LEMMA EndedUntouched ==
  ASSUME Ended, UNCHANGED <<session, unsaved>>, timer' = timer \/ timer' = FALSE,
         pc' \in Applying => ~timer'
  PROVE  Ended'
BY DEF Ended, NothingOutlives, session

LEMMA StopEnds ==
  ASSUME StopSession, timer' = FALSE PROVE Ended'
BY DEF Ended, NothingOutlives, StopSession

\* A step of a session that goes on and is not being applied.
LEMMA RunningEnded ==
  ASSUME sid' # None, pc' = "idle" PROVE Ended'
BY DEF Ended, NothingOutlives

LEMMA OpeningEnded ==
  ASSUME SessionAssumption, Control, Ended, Opening PROVE Ended'
<1>1. ASSUME NEW s \in Sessions, Resume(s) PROVE Ended'
  BY <1>1, RunningEnded DEF Resume, SessionAssumption
<1>2. CASE (\E ro \in BOOLEAN : Open(ro)) \/ Decline \/ (\E s \in Sessions : DiscardOffered(s))
  BY <1>2, EndedUntouched DEF Open, Decline, DiscardOffered, saving
<1>3. ASSUME NEW G \in [Photos -> 0..MaxGroup], Scan(G) PROVE Ended'
  BY <1>3, EndedUntouched DEF Scan, saving
<1>. QED  BY <1>1, <1>2, <1>3 DEF Opening

LEMMA ComparingEnded ==
  ASSUME SessionAssumption, Ended, Comparing PROVE Ended'
<1>1. ASSUME NEW s \in Sessions, NEW P \in SUBSET Photos, Start(s, P) PROVE Ended'
  BY <1>1, RunningEnded DEF Start, SessionAssumption
<1>2. ASSUME NEW n \in Returned, Decide(n) \/ Release(n) PROVE Ended'
  BY <1>2, RunningEnded DEF Decide, Release, Dispatch, Running
<1>3. CASE Press \/ ReleaseElsewhere \/ UndoDecision \/ RedoDecision
  BY <1>3, RunningEnded DEF Press, ReleaseElsewhere, UndoDecision, RedoDecision, Running
<1>4. CASE Autosave
  BY <1>4, RunningEnded DEF Autosave, Running, session
<1>5. CASE Pause \/ Discard
  BY <1>5, RunningEnded, StopEnds DEF Pause, Discard, Running, ClearSession, session
<1>. QED  BY <1>1, <1>2, <1>3, <1>4, <1>5 DEF Comparing

LEMMA FinishingEnded ==
  ASSUME Control, Ended, Finishing PROVE Ended'
<1>1. CASE Finish
  BY <1>1 DEF Finish, Running, session, Ended, NothingOutlives
<1>2. CASE FinishMarks \/ FinishRecord
  <2>1. UNCHANGED <<session, unsaved, timer>> /\ pc \in Applying
    BY <1>2 DEF FinishMarks, FinishRecord, saving
  <2>. QED  BY <2>1, EndedUntouched DEF Ended
<1>3. CASE FinishCommit
  <2>1. ~timer
    BY <1>3 DEF FinishCommit, Ended
  <2>2. CASE StopSession /\ timer' = timer
    BY <2>1, <2>2 DEF Ended, NothingOutlives, StopSession
  <2>3. CASE UNCHANGED <<session, saving>>
    <3>1. UNCHANGED <<session, unsaved, timer>> /\ ~timer'
      BY <2>1, <2>3 DEF saving
    <3>. QED  BY <3>1, EndedUntouched
  <2>. QED  BY <1>3, <2>2, <2>3 DEF FinishCommit
<1>. QED  BY <1>1, <1>2, <1>3 DEF Finishing

LEMMA EndedStep ==
  ASSUME SessionAssumption, Control, Ended, [Next]_vars PROVE Ended'
<1>1. CASE Marking
  BY <1>1, EndedUntouched
  DEF Marking, Unmark, UndoMarks, RedoMarks, DropHistory, FromHistory, saving
<1>2. CASE Quit \/ Crash
  BY <1>2, StopEnds DEF Quit, Crash, Forget
<1>3. CASE UNCHANGED vars
  BY <1>3, EndedUntouched DEF vars, saving, Ended
<1>. QED  BY <1>1, <1>2, <1>3, OpeningEnded, ComparingEnded, FinishingEnded DEF Next

\* Once a comparison is over, however it ended, no timer would write it again,
\* nothing of it counts as unsaved, and no decision or gesture of it is left.
THEOREM NothingOutlivesASession == Spec => []NothingOutlives
<1>1. Init => Ended
  BY DEF Init, Ended, NothingOutlives
<1>2. Ended => NothingOutlives
  BY DEF Ended
<1>. QED  BY <1>1, <1>2, EndedStep, ControlHolds, SessionAssumption, PTL DEF Spec

(***************************************************************************)
(* The draft and its undo stack                                            *)
(***************************************************************************)
\* Each decision starts from what the one before it made.
Chained ==
  /\ DraftIsOnItsStack
  /\ \A i \in 1..Len(decisions) - 1 : decisions[i].after = decisions[i + 1].before

\* What is left of the stack when a decision is put on it.
LEMMA PushDecision ==
  ASSUME NEW stack \in Seq(Decision), NEW n \in 0..Len(stack), NEW e \in Decision,
         NEW pushed, pushed = Append(SubSeq(stack, 1, n), e)
  PROVE  /\ Len(pushed) = n + 1
         /\ \A i \in 1..n : pushed[i] = stack[i]
         /\ pushed[n + 1] = e
<1>1. \A i \in 1..n : stack[i] \in Decision
  BY ElementOfSeq
<1>2. /\ SubSeq(stack, 1, n) \in Seq(Decision)
      /\ Len(SubSeq(stack, 1, n)) = n
      /\ \A i \in 1..n : SubSeq(stack, 1, n)[i] = stack[i]
  BY <1>1, SubSeqProperties
<1>. QED  BY <1>2, AppendProperties

LEMMA DispatchChained ==
  ASSUME TypeOK, Chained, NEW e, NEW n \in Drafts, Dispatch(e, n)
  PROVE  Chained'
<1>. DEFINE d == [before |-> draft, after |-> n]
<1>1. d \in Decision /\ d.before = draft /\ d.after = n
  BY DEF TypeOK, Decision
<1>2. n.revision > draft.revision
  BY DEF Dispatch, Validated
<1>3. decisions' = Append(SubSeq(decisions, 1, cursor), d) /\ cursor' = cursor + 1 /\ draft' = n
  BY DEF Dispatch, ApplyState
<1>4. cursor \in Nat /\ cursor <= Len(decisions) /\ Len(decisions) \in Nat
  BY StackTypes DEF TypeOK
<1>. HIDE DEF d
<1>5. /\ Len(decisions') = cursor + 1
      /\ \A i \in 1..cursor : decisions'[i] = decisions[i]
      /\ decisions'[cursor + 1] = d
  BY <1>1, <1>3, PushDecision, StackTypes DEF TypeOK
<1>6. \A i \in 1..Len(decisions') : decisions'[i].before.revision < decisions'[i].after.revision
  <2>1. draft.revision \in Nat /\ n.revision \in Nat
    BY DEF TypeOK, Drafts
  <2>. QED  BY <1>1, <1>2, <1>4, <1>5, <2>1 DEF Chained, DraftIsOnItsStack
<1>7. \A i \in 1..Len(decisions') - 1 : decisions'[i].after = decisions'[i + 1].before
  <2>. SUFFICES ASSUME NEW i \in 1..cursor
                PROVE  decisions'[i].after = decisions'[i + 1].before
    BY <1>4, <1>5
  <2>1. CASE i = cursor
    BY <1>1, <1>4, <1>5, <2>1 DEF Chained, DraftIsOnItsStack
  <2>2. CASE i # cursor
    BY <1>4, <1>5, <2>2 DEF Chained
  <2>. QED  BY <2>1, <2>2
<1>8. cursor' > 0 => decisions'[cursor'].after = draft'
  BY <1>1, <1>3, <1>5
<1>9. ~(cursor' < Len(decisions'))
  BY <1>3, <1>4, <1>5
<1>. QED  BY <1>6, <1>7, <1>8, <1>9 DEF Chained, DraftIsOnItsStack

LEMMA UndoChained ==
  ASSUME TypeOK, Chained, UndoDecision \/ RedoDecision PROVE Chained'
<1>. USE DEF Chained, DraftIsOnItsStack
<1>1. cursor \in Nat /\ cursor <= Len(decisions) /\ Len(decisions) \in Nat
  BY StackTypes DEF TypeOK
<1>2. decisions' = decisions
  BY DEF UndoDecision, RedoDecision
<1>3. CASE UndoDecision
  <2>1. cursor > 0 /\ cursor' = cursor - 1 /\ draft' = decisions[cursor].before
    BY <1>3 DEF UndoDecision, ApplyState
  <2>2. cursor - 1 > 0 => decisions[cursor - 1].after = decisions[(cursor - 1) + 1].before
    BY <1>1, <2>1
  <2>. QED  BY <1>1, <1>2, <2>1, <2>2
<1>4. CASE RedoDecision
  <2>1. cursor < Len(decisions) /\ cursor' = cursor + 1 /\ draft' = decisions[cursor + 1].after
    BY <1>4 DEF RedoDecision, ApplyState
  <2>2. cursor + 1 < Len(decisions)
          => decisions[cursor + 1].after = decisions[(cursor + 1) + 1].before
    BY <1>1, <2>1
  <2>. QED  BY <1>1, <1>2, <2>1, <2>2
<1>. QED  BY <1>3, <1>4

LEMMA ChainedEmpty ==
  ASSUME decisions' = <<>>, cursor' = 0 PROVE Chained'
<1>1. Len(decisions') = 0
  BY EmptyStacks
<1>. QED  BY <1>1 DEF Chained, DraftIsOnItsStack

LEMMA ChainedUntouched ==
  ASSUME Chained, UNCHANGED <<decisions, cursor, draft>> PROVE Chained'
BY DEF Chained, DraftIsOnItsStack

LEMMA ChainedStep ==
  ASSUME SessionAssumption, TypeOK, Chained, [Next]_vars PROVE Chained'
<1>1. CASE Opening
  <2>1. ASSUME NEW s \in Sessions, Resume(s) PROVE Chained'
    BY <2>1, ChainedEmpty DEF Resume
  <2>2. CASE \/ \E ro \in BOOLEAN : Open(ro)
             \/ \E s \in Sessions : DiscardOffered(s)
             \/ Decline
             \/ \E G \in [Photos -> 0..MaxGroup] : Scan(G)
    BY <2>2, ChainedUntouched DEF Open, DiscardOffered, Decline, Scan, session
  <2>. QED  BY <1>1, <2>1, <2>2 DEF Opening
<1>2. CASE Comparing
  <2>1. ASSUME NEW s \in Sessions, NEW P \in SUBSET Photos, Start(s, P) PROVE Chained'
    BY <2>1, ChainedEmpty DEF Start
  <2>2. ASSUME NEW n \in Returned, Decide(n) \/ Release(n) PROVE Chained'
    <3>1. n \in Drafts
      BY DEF SessionAssumption, Returned, Drafts
    <3>. QED  BY <2>2, <3>1, DispatchChained DEF Decide, Release
  <2>3. CASE Press \/ ReleaseElsewhere \/ Autosave
    BY <2>3, ChainedUntouched DEF Press, ReleaseElsewhere, Autosave, session
  <2>4. CASE Pause \/ Discard
    BY <2>4, ChainedUntouched, ChainedEmpty DEF Pause, Discard, ClearSession, StopSession, session
  <2>. QED  BY <1>2, <2>1, <2>2, <2>3, <2>4, UndoChained DEF Comparing
<1>3. CASE Finishing
  BY <1>3, ChainedUntouched, ChainedEmpty
  DEF Finishing, Finish, FinishMarks, FinishRecord, FinishCommit, StopSession, session
<1>4. CASE Marking
  BY <1>4, ChainedUntouched
  DEF Marking, Unmark, UndoMarks, RedoMarks, DropHistory, FromHistory, session
<1>5. CASE Quit \/ Crash
  BY <1>5, ChainedEmpty DEF Quit, Crash, Forget, StopSession
<1>6. CASE UNCHANGED vars
  BY <1>6, ChainedUntouched DEF vars, session
<1>. QED  BY <1>1, <1>2, <1>3, <1>4, <1>5, <1>6 DEF Next

\* The draft is where its undo stack says it is, through any sequence of
\* decisions, undos, redos, late gestures and failed saves.
THEOREM DraftStaysOnItsStack == Spec => []DraftIsOnItsStack
<1>1. Init => Chained
  <2>1. Init => decisions = <<>> /\ cursor = 0 /\ Len(decisions) = 0
    BY EmptyStacks DEF Init
  <2>. QED  BY <2>1 DEF Chained, DraftIsOnItsStack
<1>2. Chained => DraftIsOnItsStack
  BY DEF Chained
<1>. QED  BY <1>1, <1>2, ChainedStep, TypeCorrect, SessionAssumption, PTL DEF Spec

(***************************************************************************)
(* Marks that could not be written                                         *)
(***************************************************************************)
\* finish() pushes its marks on the history only when they were not blocked.
Barred ==
  /\ BlockedHasNoHistory
  /\ pc \in {"record", "commit"} /\ blocked => draft.rejected = {}

\* A step that leaves marking alone and is outside the transaction, or in it
\* as before.
LEMMA BarredUntouched ==
  ASSUME Barred, UNCHANGED <<blocked, history, dropping>>,
         \/ pc' \notin {"record", "commit"}
         \/ pc \in {"record", "commit"} /\ UNCHANGED draft
  PROVE  Barred'
BY DEF Barred, BlockedHasNoHistory

LEMMA BarredStep ==
  ASSUME TypeOK, Barred, [Next]_vars PROVE Barred'
<1>1. CASE Opening
  <2>1. ASSUME NEW ro \in BOOLEAN, Open(ro) PROVE Barred'
    BY <2>1 DEF Open, Barred, BlockedHasNoHistory
  <2>2. ASSUME NEW s \in Sessions, Resume(s) \/ DiscardOffered(s) PROVE Barred'
    BY <2>2, BarredUntouched DEF Resume, DiscardOffered, marking
  <2>3. ASSUME NEW G \in [Photos -> 0..MaxGroup], Scan(G) PROVE Barred'
    BY <2>3, BarredUntouched DEF Scan, marking
  <2>4. CASE Decline
    BY <2>4, BarredUntouched DEF Decline, marking
  <2>. QED  BY <1>1, <2>1, <2>2, <2>3, <2>4 DEF Opening
<1>2. CASE Comparing
  <2>1. pc = "idle" /\ pc' = "idle" /\ UNCHANGED <<blocked, history, dropping>>
    <3>1. ASSUME NEW s \in Sessions, NEW P \in SUBSET Photos, Start(s, P)
          PROVE  pc = "idle" /\ pc' = "idle" /\ UNCHANGED <<blocked, history, dropping>>
      BY <3>1 DEF Start
    <3>2. ASSUME NEW n \in Returned, Decide(n) \/ Release(n)
          PROVE  pc = "idle" /\ pc' = "idle" /\ UNCHANGED <<blocked, history, dropping>>
      BY <3>2 DEF Decide, Release, Dispatch, Running, marking
    <3>3. CASE Press \/ ReleaseElsewhere \/ UndoDecision \/ RedoDecision \/ Autosave
      BY <3>3 DEF Press, ReleaseElsewhere, UndoDecision, RedoDecision, Autosave, Running, marking
    <3>4. CASE Pause \/ Discard
      BY <3>4 DEF Pause, Discard, ClearSession, Running, marking
    <3>. QED  BY <1>2, <3>1, <3>2, <3>3, <3>4 DEF Comparing
  <2>. QED  BY <2>1, BarredUntouched
<1>3. CASE Finish
  BY <1>3, BarredUntouched DEF Finish, Running
<1>4. CASE FinishMarks
  BY <1>4 DEF FinishMarks, RollBack, BlockMarks, marking, session, Barred, BlockedHasNoHistory
<1>5. CASE FinishRecord
  BY <1>5, BarredUntouched DEF FinishRecord, session
<1>6. CASE FinishCommit
  <2>1. CASE draft.rejected = {}
    BY <1>6, <2>1, BarredUntouched DEF FinishCommit, RollBack
  <2>2. CASE draft.rejected # {}
    <3>1. ~blocked /\ blocked' = blocked
      BY <1>6, <2>2 DEF FinishCommit, Barred, TypeOK
    <3>. QED  BY <3>1 DEF Barred, BlockedHasNoHistory
  <2>. QED  BY <2>1, <2>2
<1>7. CASE Marking
  <2>1. ASSUME NEW P \in SUBSET Photos, Unmark(P) PROVE Barred'
    BY <2>1 DEF Unmark, BlockMarks, Barred, BlockedHasNoHistory
  <2>2. CASE UndoMarks \/ RedoMarks
    <3>1. PICK c : FromHistory(c)
      BY <2>2 DEF UndoMarks, RedoMarks
    <3>2. pc' = "idle" /\ history' = history
      BY <2>2, <3>1 DEF UndoMarks, RedoMarks, FromHistory
    <3>3. CASE UNCHANGED <<blocked, dropping>>
      BY <3>2, <3>3 DEF Barred, BlockedHasNoHistory
    <3>4. CASE dropping' = (dropping \/ ~blocked)
      <4>1. dropping' \/ history' = <<>>
        BY <3>2, <3>4 DEF Barred, BlockedHasNoHistory
      <4>. QED  BY <3>2, <4>1 DEF Barred, BlockedHasNoHistory
    <3>. QED  BY <3>1, <3>3, <3>4 DEF FromHistory
  <2>3. CASE DropHistory
    BY <2>3 DEF DropHistory, Barred, BlockedHasNoHistory
  <2>. QED  BY <1>7, <2>1, <2>2, <2>3 DEF Marking
<1>8. CASE Quit \/ Crash
  BY <1>8 DEF Quit, Crash, Forget, Barred, BlockedHasNoHistory
<1>9. CASE UNCHANGED vars
  BY <1>9 DEF vars, marking, session, Barred, BlockedHasNoHistory
<1>. QED  BY <1>1, <1>2, <1>3, <1>4, <1>5, <1>6, <1>7, <1>8, <1>9 DEF Next, Finishing

\* Once writing marks has failed there is nothing to undo or redo, or the call
\* that clears it is on its way: also after a failure inside an undo.
THEOREM BlockedNeverHasHistory == Spec => []BlockedHasNoHistory
<1>1. Init => Barred
  BY DEF Init, Barred, BlockedHasNoHistory
<1>2. Barred => BlockedHasNoHistory
  BY DEF Barred
<1>. QED  BY <1>1, <1>2, BarredStep, TypeCorrect, PTL DEF Spec

(***************************************************************************)
(* Where marks come from                                                   *)
(***************************************************************************)
\* Nothing a mark can be made from holds a photo that was not decided: not the
\* database, not the view, which can be an older one, and not the history.
Grounded ==
  /\ MarksWereDecided
  /\ shown.mark \subseteq Decided
  /\ \A i \in 1..Len(history) : /\ history[i].forward.reject \subseteq Decided
                                /\ history[i].inverse.reject \subseteq Decided

FinishedStay ==
  \A s \in Sessions : disk.saved[s].lifecycle = "finished" => disk'.saved[s] = disk.saved[s]

LEMMA DecidedGrows ==
  ASSUME FinishedStay PROVE Decided \subseteq Decided'
BY DEF FinishedStay, Decided

\* A record that is replaced was not finished.
LEMMA StoredStay ==
  ASSUME TypeOK, db = disk, NEW s \in Sessions, disk.saved[s].lifecycle # "finished",
         NEW r, disk' = WithStored(db, s, r)
  PROVE  FinishedStay
BY StoredSaves DEF TypeOK, FinishedStay

LEMMA WrittenStay ==
  ASSUME TypeOK, Saved, db = disk, sid # None, NEW l, Written(l) PROVE FinishedStay
BY StoredStay DEF TypeOK, Written, Durably, Saved

LEMMA OpeningStay ==
  ASSUME TypeOK, Store, Opening PROVE FinishedStay
<1>1. db = disk
  BY DEF Opening, Open, Resume, DiscardOffered, Decline, Scan, Store, PendingIsOneFinish
<1>2. ASSUME NEW s \in Sessions, DiscardOffered(s) PROVE FinishedStay
  <2>1. CASE disk' = WithStored(db, s, Unstored)
    BY <1>1, <1>2, <2>1, StoredStay DEF DiscardOffered, Resumable
  <2>2. CASE disk' = disk
    BY <2>2 DEF FinishedStay
  <2>. QED  BY <1>2, <2>1, <2>2 DEF DiscardOffered, Durably
<1>3. ASSUME NEW G \in [Photos -> 0..MaxGroup], Scan(G) PROVE FinishedStay
  BY <1>1, <1>3, SavedKept DEF Scan, Durably, FinishedStay
<1>4. CASE (\E ro \in BOOLEAN : Open(ro)) \/ (\E s \in Sessions : Resume(s)) \/ Decline
  BY <1>4 DEF Open, Resume, Decline, FinishedStay
<1>. QED  BY <1>2, <1>3, <1>4 DEF Opening

LEMMA ComparingStay ==
  ASSUME TypeOK, Store, Saved, Comparing \/ Finish \/ Quit PROVE FinishedStay
<1>1. db = disk
  BY DEF Comparing, Start, Decide, Release, Press, ReleaseElsewhere, UndoDecision, RedoDecision,
         Autosave, Pause, Discard, Finish, Quit, Running, Store, PendingIsOneFinish
<1>2. CASE disk' = disk
  BY <1>2 DEF FinishedStay
<1>3. ASSUME NEW s \in Sessions, NEW P \in SUBSET Photos, Start(s, P) PROVE FinishedStay
  <2>1. disk.saved[s].lifecycle # "finished"
    BY <1>1, <1>3 DEF Start, Unstored
  <2>2. disk' = disk \/ \E r : disk' = WithStored(db, s, r)
    BY <1>3 DEF Start, Durably
  <2>. QED  BY <1>1, <1>2, <2>1, <2>2, StoredStay
<1>4. CASE Discard
  <2>1. sid \in Sessions /\ disk.saved[sid].lifecycle # "finished"
    BY <1>4 DEF Discard, Running, TypeOK, Saved
  <2>. QED  BY <1>1, <1>2, <1>4, <2>1, StoredStay DEF Discard, Durably
<1>5. CASE Autosave \/ Pause \/ Finish \/ Quit
  <2>1. disk' = disk \/ (sid # None /\ \E l : Written(l))
    BY <1>5 DEF Autosave, Pause, Finish, Quit, Running, WriteActive, NotWritten
  <2>. QED  BY <1>1, <1>2, <2>1, WrittenStay
<1>6. CASE \/ \E n \in Returned : Decide(n) \/ Release(n)
           \/ Press \/ ReleaseElsewhere \/ UndoDecision \/ RedoDecision
  BY <1>2, <1>6 DEF Decide, Release, Dispatch, Press, ReleaseElsewhere, UndoDecision, RedoDecision
<1>. QED  BY <1>3, <1>4, <1>5, <1>6 DEF Comparing

LEMMA CommitStays ==
  ASSUME TypeOK, Store, Saved, Control, FinishCommit PROVE FinishedStay
<1>1. CASE disk' = disk
  BY <1>1 DEF FinishedStay
<1>2. CASE disk' = db
  <2>1. /\ sid \in Sessions /\ disk.saved[sid].lifecycle # "finished"
        /\ disk'.saved = [disk.saved EXCEPT ![sid] = ToStored("finished")]
    BY <1>2 DEF FinishCommit, TypeOK, Control, Saved, Store, PendingIsOneFinish
  <2>2. disk.saved \in [Sessions -> Stored]
    BY DEF TypeOK, Database
  <2>. QED  BY <2>1, <2>2 DEF FinishedStay
<1>. QED  BY <1>1, <1>2 DEF FinishCommit

LEMMA MarkingStays ==
  ASSUME Store, Marking PROVE FinishedStay
<1>1. pc = "idle" /\ ((\E c : Persist(c)) \/ disk' = disk)
  BY DEF Marking, Unmark, UndoMarks, RedoMarks, DropHistory, FromHistory, NotPersisted
<1>. QED  BY <1>1, SavedKept DEF Persist, Durably, Store, PendingIsOneFinish, FinishedStay

\* A step that makes no mark and pushes nothing on the history.
LEMMA GroundedKept ==
  ASSUME Grounded, FinishedStay, disk'.mark \subseteq disk.mark,
         shown'.mark \subseteq shown.mark \/ shown'.mark \subseteq disk.mark,
         history' = history \/ history' = <<>>
  PROVE  Grounded'
<1>1. Len(<<>>) = 0
  BY EmptyStacks
<1>. QED  BY <1>1, DecidedGrows DEF Grounded, MarksWereDecided

LEMMA OpeningGrounded ==
  ASSUME TypeOK, Store, Grounded, Opening PROVE Grounded'
<1>1. db = disk
  BY DEF Opening, Open, Resume, DiscardOffered, Decline, Scan, Store, PendingIsOneFinish
<1>2. disk'.mark \subseteq disk.mark
  <2>1. ASSUME NEW G \in [Photos -> 0..MaxGroup], Scan(G) PROVE disk'.mark \subseteq disk.mark
    BY <1>1, <2>1 DEF Scan, Durably, WithScan
  <2>2. CASE \/ \E ro \in BOOLEAN : Open(ro)
             \/ \E s \in Sessions : Resume(s) \/ DiscardOffered(s)
             \/ Decline
    BY <1>1, <2>2, MarksKept DEF Open, Resume, DiscardOffered, Decline, Durably
  <2>. QED  BY <2>1, <2>2 DEF Opening
<1>3. history' = history \/ history' = <<>>
  BY DEF Opening, Open, Resume, DiscardOffered, Decline, Scan, marking
<1>4. shown'.mark \subseteq shown.mark \/ shown'.mark \subseteq disk.mark
  <2>1. ASSUME NEW ro \in BOOLEAN, Open(ro) PROVE shown'.mark \subseteq disk.mark
    BY <1>1, <2>1, LoadedViews DEF Open, ViewOf, NoView
  <2>2. ASSUME NEW G \in [Photos -> 0..MaxGroup], Scan(G) PROVE shown'.mark \subseteq disk.mark
    BY <1>1, <2>2 DEF Scan, ViewOf, WithScan
  <2>3. CASE (\E s \in Sessions : Resume(s) \/ DiscardOffered(s)) \/ Decline
    BY <2>3 DEF Resume, DiscardOffered, Decline, view
  <2>. QED  BY <2>1, <2>2, <2>3 DEF Opening
<1>. QED  BY <1>2, <1>3, <1>4, OpeningStay, GroundedKept

LEMMA ComparingGrounded ==
  ASSUME TypeOK, Store, Saved, Grounded, Comparing \/ Finish PROVE Grounded'
<1>1. shown' = shown /\ history' = history
  <2>1. ASSUME NEW s \in Sessions, NEW P \in SUBSET Photos, Start(s, P)
        PROVE  shown' = shown /\ history' = history
    BY <2>1 DEF Start, view
  <2>2. ASSUME NEW n \in Returned, Decide(n) \/ Release(n)
        PROVE  shown' = shown /\ history' = history
    BY <2>2 DEF Decide, Release, Dispatch, view, marking
  <2>3. CASE Press \/ ReleaseElsewhere \/ UndoDecision \/ RedoDecision \/ Autosave
    BY <2>3 DEF Press, ReleaseElsewhere, UndoDecision, RedoDecision, Autosave, view, marking
  <2>4. CASE Pause \/ Discard \/ Finish
    BY <2>4 DEF Pause, Discard, Finish, ClearSession, view, marking
  <2>. QED  BY <2>1, <2>2, <2>3, <2>4 DEF Comparing
<1>. QED  BY <1>1, ComparingMarks, ComparingStay, GroundedKept

\* What is pushed on the history is grounded when its change is.
LEMMA PushGrounded ==
  ASSUME TypeOK, Grounded, NEW D, Decided \subseteq D,
         NEW f \in Change, NEW v \in Change, f.reject \subseteq D, v.reject \subseteq D,
         PushMarks(f, v)
  PROVE  \A i \in 1..Len(history') : /\ history'[i].forward.reject \subseteq D
                                     /\ history'[i].inverse.reject \subseteq D
<1>. DEFINE e == [forward |-> f, inverse |-> v]
            kept == SubSeq(history, 1, at)
<1>1. e \in Entry /\ history \in Seq(Entry) /\ at \in 0..Len(history)
  BY StackTypes DEF Entry, TypeOK
<1>2. /\ kept \in Seq(Entry) /\ Len(kept) = at
      /\ \A i \in 1..at : kept[i] = history[i]
  BY <1>1, SubSeqProperties
<1>3. /\ Len(Append(kept, e)) = at + 1
      /\ \A i \in 1..at : Append(kept, e)[i] = kept[i]
      /\ Append(kept, e)[at + 1] = e
  BY <1>1, <1>2, AppendProperties
<1>4. history' = Append(kept, e) /\ e.forward = f /\ e.inverse = v
  BY DEF PushMarks
<1>. HIDE DEF e, kept
<1>5. \A i \in 1..at : history'[i] = history[i] /\ i \in 1..Len(history)
  BY <1>1, <1>2, <1>3, <1>4
<1>6. ASSUME NEW i \in 1..Len(history')
      PROVE  history'[i].forward.reject \subseteq D /\ history'[i].inverse.reject \subseteq D
  <2>1. i \in 1..at \/ i = at + 1
    BY <1>1, <1>3, <1>4
  <2>. QED  BY <1>3, <1>4, <1>5, <2>1 DEF Grounded
<1>. QED  BY <1>6

\* A commit decides what it marks.
LEMMA CommitGrounded ==
  ASSUME TypeOK, Control, Store, Saved, Grounded, FinishCommit PROVE Grounded'
<1>1. CASE disk' = disk /\ UNCHANGED <<shown, history>>
  BY <1>1, CommitStays, GroundedKept
<1>2. CASE disk' = db
  <2>1. /\ disk'.mark = disk.mark \cup (draft.rejected \cap Present(disk))
        /\ disk'.saved = [disk.saved EXCEPT ![sid] = ToStored("finished")]
        /\ sid \in Sessions
    BY <1>2 DEF FinishCommit, TypeOK, Control, Store, PendingIsOneFinish
  <2>2. draft.rejected \subseteq Decided'
    <3>1. disk.saved \in [Sessions -> Stored]
      BY DEF TypeOK, Database
    <3>2. disk'.saved[sid].lifecycle = "finished" /\ disk'.saved[sid].draft = draft
      BY <2>1, <3>1 DEF ToStored
    <3>. QED  BY <2>1, <3>2 DEF Decided
  <2>3. Decided \subseteq Decided'
    BY CommitStays, DecidedGrows
  <2>4. disk'.mark \subseteq Decided'
    BY <2>1, <2>2, <2>3 DEF Grounded, MarksWereDecided
  <2>5. shown'.mark \subseteq Decided'
    <3>1. shown' \in {shown, ViewOf(db)}
      BY LoadedViews DEF FinishCommit, view
    <3>. QED  BY <1>2, <2>3, <2>4, <3>1 DEF Grounded, ViewOf
  <2>6. \A i \in 1..Len(history') : /\ history'[i].forward.reject \subseteq Decided'
                                    /\ history'[i].inverse.reject \subseteq Decided'
    <3>1. CASE UNCHANGED history
      BY <2>3, <3>1 DEF Grounded
    <3>2. CASE PushMarks(Rejecting(draft.rejected), Clearing(draft.rejected))
      <4>1. draft.rejected \in SUBSET Photos
        BY DEF TypeOK, Drafts
      <4>2. /\ Rejecting(draft.rejected).reject \subseteq Decided'
            /\ Clearing(draft.rejected).reject \subseteq Decided'
        BY <2>2 DEF Rejecting, Clearing
      <4>. QED  BY <2>3, <3>2, <4>1, <4>2, ChangeTypes, PushGrounded
    <3>. QED  BY <3>1, <3>2 DEF FinishCommit, RollBack
  <2>. QED  BY <2>4, <2>5, <2>6 DEF Grounded, MarksWereDecided
<1>. QED  BY <1>1, <1>2 DEF FinishCommit, view

LEMMA MarkingGrounded ==
  ASSUME TypeOK, Store, Grounded, Marking PROVE Grounded'
<1>1. db = disk
  BY DEF Marking, Unmark, UndoMarks, RedoMarks, DropHistory, Store, PendingIsOneFinish
<1>2. Decided \subseteq Decided'
  BY MarkingStays, DecidedGrows
<1>3. ASSUME NEW c, c.reject \subseteq Decided, Persist(c)
      PROVE  disk'.mark \subseteq Decided' /\ shown'.mark \subseteq Decided'
  <2>1. WithMarks(db, c).mark \subseteq Decided'
    BY <1>1, <1>2, <1>3 DEF WithMarks, Grounded, MarksWereDecided
  <2>2. shown' \in {shown, ViewOf(WithMarks(db, c))}
    BY <1>3, LoadedViews DEF Persist
  <2>. QED  BY <1>2, <1>3, <2>1, <2>2 DEF Persist, Durably, ViewOf, Grounded
<1>4. ASSUME UNCHANGED <<disk, shown>>
      PROVE  disk'.mark \subseteq Decided' /\ shown'.mark \subseteq Decided'
  BY <1>2, <1>4 DEF Grounded, MarksWereDecided
<1>5. ASSUME NEW P \in SUBSET Photos, Unmark(P) PROVE Grounded'
  <2>1. P \subseteq Decided
    BY <1>5 DEF Unmark, Grounded
  <2>2. disk'.mark \subseteq Decided' /\ shown'.mark \subseteq Decided'
    <3>1. Clearing(P).reject \subseteq Decided
      BY DEF Clearing
    <3>. QED  BY <1>3, <1>4, <1>5, <3>1 DEF Unmark, NotPersisted
  <2>3. CASE PushMarks(Clearing(P), Rejecting(P))
    <3>1. /\ Clearing(P).reject \subseteq Decided'
          /\ Rejecting(P).reject \subseteq Decided'
      BY <1>2, <2>1 DEF Clearing, Rejecting
    <3>2. \A i \in 1..Len(history') : /\ history'[i].forward.reject \subseteq Decided'
                                      /\ history'[i].inverse.reject \subseteq Decided'
      BY <1>2, <2>3, <3>1, ChangeTypes, PushGrounded
    <3>. QED  BY <2>2, <3>2 DEF Grounded, MarksWereDecided
  <2>4. CASE history' = <<>>
    BY <2>2, <2>4, EmptyStacks DEF Grounded, MarksWereDecided
  <2>. QED  BY <1>5, <2>3, <2>4 DEF Unmark, BlockMarks
<1>6. CASE UndoMarks \/ RedoMarks
  <2>1. PICK c : c.reject \subseteq Decided /\ FromHistory(c)
    <3>1. CASE UndoMarks
      <4>1. at \in 1..Len(history) /\ FromHistory(history[at].inverse)
        BY <3>1, StackTypes DEF UndoMarks, TypeOK
      <4>. QED  BY <4>1 DEF Grounded
    <3>2. CASE RedoMarks
      <4>1. at + 1 \in 1..Len(history) /\ FromHistory(history[at + 1].forward)
        BY <3>2, StackTypes DEF RedoMarks, TypeOK
      <4>. QED  BY <4>1 DEF Grounded
    <3>. QED  BY <1>6, <3>1, <3>2
  <2>2. disk'.mark \subseteq Decided' /\ shown'.mark \subseteq Decided'
    BY <1>3, <1>4, <2>1 DEF FromHistory, NotPersisted
  <2>. QED  BY <1>2, <2>1, <2>2 DEF FromHistory, Grounded, MarksWereDecided
<1>7. CASE DropHistory
  BY <1>4, <1>7, EmptyStacks DEF DropHistory, view, Grounded, MarksWereDecided
<1>. QED  BY <1>5, <1>6, <1>7 DEF Marking

LEMMA GroundedStep ==
  ASSUME SessionAssumption, TypeOK, Control, Store, Saved, Grounded, [Next]_vars
  PROVE  Grounded'
<1>1. CASE FinishMarks \/ FinishRecord
  <2>1. /\ disk' = disk /\ shown' = shown
        /\ history' = history \/ history' = <<>>
    BY <1>1 DEF FinishMarks, FinishRecord, BlockMarks, view, marking
  <2>. QED  BY <2>1, GroundedKept DEF FinishedStay
<1>2. CASE Quit \/ Crash
  <2>1. FinishedStay /\ disk'.mark = disk.mark
    BY <1>2, ComparingStay, ComparingMarks DEF Crash, FinishedStay
  <2>2. history' = <<>> /\ shown'.mark = {}
    BY <1>2 DEF Quit, Crash, Forget, NoView
  <2>. QED  BY <2>1, <2>2, GroundedKept
<1>3. CASE UNCHANGED vars
  BY <1>3, GroundedKept DEF vars, view, marking, FinishedStay
<1>. QED  BY <1>1, <1>2, <1>3, OpeningGrounded, ComparingGrounded, CommitGrounded, MarkingGrounded
          DEF Next, Finishing

\* No photo is marked that no finished comparison rejected, through crashes,
\* refused writes, undoing and redoing, and views that could not be read again.
THEOREM MarksWereAlwaysDecided == Spec => []MarksWereDecided
<1>1. Init => Grounded
  BY EmptyStacks DEF Init, Grounded, MarksWereDecided, NoView
<1>2. Grounded => MarksWereDecided
  BY DEF Grounded
<1>. QED  BY <1>1, <1>2, GroundedStep, TypeCorrect, ControlHolds, StoreHolds, SavedHolds,
             SessionAssumption, PTL
          DEF Spec

(***************************************************************************)
(* Session keeps the promises of Culling, for any photos, sessions and     *)
(* faults.                                                                 *)
(***************************************************************************)
\* Only photos of the collection are marked, and a record that is not there
\* rejects nothing.
Consistent(d) ==
  /\ d.mark \subseteq Present(d)
  /\ \A s \in Sessions : d.saved[s].lifecycle = "none" => d.saved[s] = Unstored

LEMMA StoredConsistent ==
  ASSUME NEW d \in Database, Consistent(d), NEW s \in Sessions, NEW r,
         r.lifecycle = "none" => r = Unstored
  PROVE  Consistent(WithStored(d, s, r))
<1>1. WithStored(d, s, r).mark = d.mark /\ WithStored(d, s, r).group = d.group
  BY DEF WithStored
<1>. QED  BY <1>1, StoredSaves DEF Consistent, Present

LEMMA MarksConsistent ==
  ASSUME NEW d \in Database, Consistent(d), NEW c
  PROVE  Consistent(WithMarks(d, c))
<1>1. /\ WithMarks(d, c).group = d.group /\ WithMarks(d, c).saved = d.saved
      /\ WithMarks(d, c).mark \subseteq d.mark \cup Present(d)
  BY DEF WithMarks
<1>. QED  BY <1>1 DEF Consistent, Present

LEMMA ScanConsistent ==
  ASSUME NEW d \in Database, Consistent(d), NEW G
  PROVE  Consistent(WithScan(d, G))
<1>1. /\ WithScan(d, G).group = G /\ WithScan(d, G).saved = d.saved
      /\ WithScan(d, G).mark = {p \in d.mark : G[p] = d.group[p]}
  BY DEF WithScan
<1>. QED  BY <1>1 DEF Consistent, Present

(***************************************************************************)
(* What a change of the database means for Culling                         *)
(***************************************************************************)
Calm == pc \notin Applying

\* The stage a record speaks of when its comparison is not being applied.
Plain(r) == IF r.lifecycle \in {"active", "paused"} THEN "open" ELSE r.lifecycle

Promised == [Promise!Next]_(Promise!vars)

LEMMA CalmStage ==
  Calm => \A s \in Sessions : StageOf(s) = Plain(disk.saved[s])
BY DEF Calm, StageOf, Plain

LEMMA CalmStagePrime ==
  Calm' => \A s \in Sessions : StageOf(s)' = Plain(disk'.saved[s])
BY DEF Calm, StageOf, Plain

LEMMA CalmIsQuiet ==
  ASSUME TypeOK, Calm PROVE Promise!Quiet
<1>1. \A s \in Sessions : disk.saved[s].lifecycle \in {"none", "active", "paused", "finished"}
  BY DEF TypeOK, Database, Stored
<1>. QED  BY <1>1, CalmStage DEF Promise!Quiet, Plain

\* Nothing was written and no comparison was being applied.
LEMMA Nothing ==
  ASSUME Calm, Calm', disk' = disk PROVE Promised
BY CalmStage, CalmStagePrime DEF Promised, Promise!vars, Present

\* A record was written that can be resumed.
LEMMA Kept ==
  ASSUME TypeOK, Calm, NEW s \in Sessions, NEW r, disk' = WithStored(disk, s, r),
         r.lifecycle \in {"active", "paused"}, r.draft \in Drafts,
         disk.saved[s].lifecycle # "finished",
         Calm' \/ sid' = s
  PROVE  Promised
<1>1. /\ disk'.saved[s] = r /\ \A t \in Sessions \ {s} : disk'.saved[t] = disk.saved[t]
      /\ disk'.mark = disk.mark /\ Present(disk') = Present(disk)
  BY StoredSaves DEF TypeOK, WithStored, Present
<1>2. PICK next \in {"open", "applying"} :
        [t \in Sessions |-> StageOf(t)]' = [[t \in Sessions |-> StageOf(t)] EXCEPT ![s] = next]
  <2>1. \A t \in Sessions \ {s} : StageOf(t)' = StageOf(t)
    BY <1>1, CalmStage DEF Calm, StageOf, Plain
  <2>2. StageOf(s)' \in {"open", "applying"}
    BY <1>1 DEF StageOf
  <2>. QED  BY <2>1, <2>2
<1>3. r.draft.rejected \in SUBSET Photos
  BY DEF Drafts
<1>4. [t \in Sessions |-> disk.saved[t].draft.rejected]'
        = [[t \in Sessions |-> disk.saved[t].draft.rejected] EXCEPT ![s] = r.draft.rejected]
  BY <1>1
<1>5. StageOf(s) # "finished"
  BY CalmStage DEF Plain
<1>6. Promise!Keep(s)
  BY <1>1, <1>2, <1>3, <1>4, <1>5, CalmIsQuiet DEF Promise!Keep
<1>. QED  BY <1>6 DEF Promised, Promise!Next

\* A record that could be resumed was deleted.
LEMMA Dropped ==
  ASSUME TypeOK, Calm, Calm', Consistent(disk), NEW s \in Sessions,
         disk' = WithStored(disk, s, Unstored), disk.saved[s].lifecycle # "finished"
  PROVE  Promised
<1>1. /\ disk'.saved[s] = Unstored /\ \A t \in Sessions \ {s} : disk'.saved[t] = disk.saved[t]
      /\ disk'.mark = disk.mark /\ Present(disk') = Present(disk)
  <2>1. disk'.saved[s] = Unstored /\ \A t \in Sessions \ {s} : disk'.saved[t] = disk.saved[t]
    BY StoredSaves DEF TypeOK
  <2>2. disk'.mark = disk.mark /\ disk'.group = disk.group
    BY DEF WithStored
  <2>. QED  BY <2>1, <2>2 DEF Present
<1>2. \A t \in Sessions \ {s} : StageOf(t)' = StageOf(t)
  BY <1>1, CalmStage, CalmStagePrime
<1>3. StageOf(s)' = "none"
  BY <1>1, CalmStagePrime DEF Plain, Unstored
<1>4. disk'.saved[s].draft.rejected = {}
  BY <1>1 DEF Unstored, NoDraft
<1>5. CASE disk.saved[s].lifecycle = "none"
  <2>1. disk'.saved[s] = disk.saved[s] /\ StageOf(s)' = StageOf(s)
    BY <1>1, <1>3, <1>5, CalmStage DEF Consistent, Plain
  <2>. QED  BY <1>1, <1>2, <2>1 DEF Promised, Promise!vars
<1>6. CASE disk.saved[s].lifecycle # "none"
  <2>1. StageOf(s) = "open"
    <3>1. disk.saved[s].lifecycle \in {"none", "active", "paused", "finished"}
      BY DEF TypeOK, Database, Stored
    <3>. QED  BY <1>6, <3>1, CalmStage DEF Plain
  <2>2. [t \in Sessions |-> StageOf(t)]' = [[t \in Sessions |-> StageOf(t)] EXCEPT ![s] = "none"]
    BY <1>2, <1>3
  <2>3. [t \in Sessions |-> disk.saved[t].draft.rejected]'
          = [[t \in Sessions |-> disk.saved[t].draft.rejected] EXCEPT ![s] = {}]
    BY <1>1, <1>4
  <2>4. Promise!Drop(s)
    BY <1>1, <2>1, <2>2, <2>3, CalmIsQuiet DEF Promise!Drop
  <2>. QED  BY <2>4 DEF Promised, Promise!Next
<1>. QED  BY <1>5, <1>6

LEMMA SameRecords ==
  ASSUME Calm, Calm', disk'.saved = disk.saved
  PROVE  /\ [t \in Sessions |-> StageOf(t)]' = [t \in Sessions |-> StageOf(t)]
         /\ [t \in Sessions |-> disk.saved[t].draft.rejected]'
              = [t \in Sessions |-> disk.saved[t].draft.rejected]
BY CalmStage, CalmStagePrime

\* Marks were written.
LEMMA Reconsidered ==
  ASSUME TypeOK, Calm, Calm', Consistent(disk), NEW c, disk' = WithMarks(disk, c)
  PROVE  Promised
<1>1. /\ disk'.saved = disk.saved /\ Present(disk') = Present(disk)
      /\ disk'.mark \subseteq disk.mark \cup Present(disk)
  BY DEF WithMarks, Present
<1>2. Promise!Reconsider
  BY <1>1, SameRecords, CalmIsQuiet DEF Promise!Reconsider, Consistent
<1>. QED  BY <1>2 DEF Promised, Promise!Next

\* A scan was reconciled.
LEMMA Looked ==
  ASSUME TypeOK, Calm, Calm', Consistent(disk), NEW G, disk' = WithScan(disk, G)
  PROVE  Promised
<1>1. /\ disk'.saved = disk.saved /\ disk'.group = G
      /\ disk'.mark = {p \in disk.mark : G[p] = disk.group[p]}
  BY DEF WithScan
<1>2. disk'.mark \in SUBSET (disk.mark \cap Present(disk')) /\ Present(disk') \in SUBSET Photos
  BY <1>1 DEF Present, Consistent
<1>3. Promise!Look
  BY <1>1, <1>2, SameRecords, CalmIsQuiet DEF Promise!Look
<1>. QED  BY <1>3 DEF Promised, Promise!Next

\* A comparison goes on being applied.
LEMMA StillApplying ==
  ASSUME pc \in Applying, pc' \in Applying, sid' = sid, disk' = disk PROVE Promised
<1>1. \A t \in Sessions : StageOf(t)' = StageOf(t)
  BY DEF StageOf
<1>. QED  BY <1>1 DEF Promised, Promise!vars, Present

\* A comparison was not applied: its record can be resumed still.
LEMMA GivenUp ==
  ASSUME TypeOK, Control, Saved, pc \in Applying, pc' \notin Applying, disk' = disk
  PROVE  Promised
<1>1. sid \in Sessions /\ disk.saved[sid].lifecycle \in {"active", "paused"}
  BY DEF TypeOK, Control, Saved, SavedIsStored
<1>2. PICK s \in Sessions : s = sid
  BY <1>1
<1>3. StageOf(s) = "applying"
  BY <1>2 DEF StageOf
<1>4. \A t \in Sessions : StageOf(t)' = IF t = s THEN "open" ELSE StageOf(t)
  <2>1. \A t \in Sessions : StageOf(t)' = Plain(disk.saved[t])
    BY CalmStagePrime DEF Calm
  <2>2. \A t \in Sessions \ {s} : StageOf(t) = Plain(disk.saved[t])
    BY <1>2 DEF StageOf, Plain
  <2>. QED  BY <1>1, <1>2, <2>1, <2>2 DEF Plain
<1>5. [t \in Sessions |-> StageOf(t)]' = [[t \in Sessions |-> StageOf(t)] EXCEPT ![s] = "open"]
  BY <1>4
<1>6. Promise!GiveUp(s)
  BY <1>3, <1>5 DEF Promise!GiveUp, Present
<1>. QED  BY <1>6 DEF Promised, Promise!Next

\* A comparison was applied: what became marks is its stored draft.
LEMMA Applied ==
  ASSUME TypeOK, Control, Saved, Store, pc = "commit", pc' = "idle", disk' = db
  PROVE  Promised
<1>1. PICK s \in Sessions : s = sid
  BY DEF TypeOK, Control
<1>2. disk.saved[s].draft = draft
  BY <1>1 DEF Control, Saved, SavedIsStored
<1>3. /\ disk'.group = disk.group
      /\ disk'.mark = disk.mark \cup (disk.saved[s].draft.rejected \cap Present(disk))
      /\ disk'.saved = [disk.saved EXCEPT ![s] = ToStored("finished")]
  BY <1>1, <1>2 DEF Store, PendingIsOneFinish
<1>4. /\ disk'.saved[s].lifecycle = "finished" /\ disk'.saved[s].draft = disk.saved[s].draft
      /\ \A t \in Sessions \ {s} : disk'.saved[t] = disk.saved[t]
  BY <1>2, <1>3 DEF ToStored, TypeOK, Database
<1>5. StageOf(s) = "applying"
  BY <1>1 DEF StageOf
<1>6. \A t \in Sessions : StageOf(t)' = IF t = s THEN "finished" ELSE StageOf(t)
  <2>1. \A t \in Sessions : StageOf(t)' = Plain(disk'.saved[t])
    BY CalmStagePrime DEF Calm
  <2>2. \A t \in Sessions \ {s} : StageOf(t) = Plain(disk.saved[t])
    BY <1>1 DEF StageOf, Plain
  <2>. QED  BY <1>4, <2>1, <2>2 DEF Plain
<1>7. [t \in Sessions |-> StageOf(t)]' = [[t \in Sessions |-> StageOf(t)] EXCEPT ![s] = "finished"]
  BY <1>6
<1>8. [t \in Sessions |-> disk.saved[t].draft.rejected]'
        = [t \in Sessions |-> disk.saved[t].draft.rejected]
  BY <1>4
<1>9. Promise!Apply(s)
  BY <1>3, <1>5, <1>7, <1>8 DEF Promise!Apply, Present
<1>. QED  BY <1>9 DEF Promised, Promise!Next

(***************************************************************************)
(* Every step of Session is a step of Culling or changes nothing there     *)
(***************************************************************************)
LEMMA Writing ==
  ASSUME TypeOK, Control, Saved, Store, pc = "idle", sid # None,
         NEW l \in {"active", "paused"}, Written(l), Calm' \/ sid' = sid
  PROVE  Promised
<1>1. disk' = WithStored(disk, sid, ToStored(l)) /\ sid \in Sessions
  BY DEF Written, Durably, Store, PendingIsOneFinish, TypeOK
<1>2. ToStored(l).lifecycle = l /\ ToStored(l).draft \in Drafts
  BY DEF ToStored, TypeOK
<1>. QED  BY <1>1, <1>2, Kept DEF Calm, Saved

LEMMA OpeningKeeps ==
  ASSUME TypeOK, Store, Consistent(disk), Opening PROVE Promised
<1>1. Calm /\ Calm' /\ db = disk
  BY DEF Opening, Open, Resume, DiscardOffered, Decline, Scan, Calm, Store, PendingIsOneFinish
<1>2. \/ disk' = disk
      \/ \E s \in Sessions : Resumable(s) /\ disk' = WithStored(disk, s, Unstored)
      \/ \E G : disk' = WithScan(disk, G)
  BY <1>1 DEF Opening, Open, Resume, DiscardOffered, Decline, Scan, Durably
<1>. QED  BY <1>1, <1>2, Nothing, Dropped, Looked DEF Resumable

LEMMA ComparingKeeps ==
  ASSUME TypeOK, Control, Store, Saved, Consistent(disk), Comparing PROVE Promised
<1>1. pc = "idle" /\ pc' = "idle" /\ Calm /\ Calm' /\ db = disk
  BY DEF Comparing, Start, Decide, Release, Dispatch, Press, ReleaseElsewhere, UndoDecision,
         RedoDecision, Autosave, Pause, Discard, Running, Calm, Store, PendingIsOneFinish
<1>2. ASSUME NEW s \in Sessions, NEW P \in SUBSET Photos, Start(s, P) PROVE Promised
  <2>1. CASE disk' = disk
    BY <1>1, <2>1, Nothing
  <2>2. CASE disk' = WithStored(disk, s, [lifecycle |-> "active", snapshot |-> snapshot',
                                          draft |-> draft'])
    <3>1. disk.saved[s].lifecycle # "finished" /\ draft' \in Drafts
      BY <1>1, <1>2 DEF Start, Unstored, Drafts
    <3>. QED  BY <1>1, <2>2, <3>1, Kept
  <2>. QED  BY <1>1, <1>2, <2>1, <2>2 DEF Start, Durably
<1>3. CASE \/ \E n \in Returned : Decide(n) \/ Release(n)
           \/ Press \/ ReleaseElsewhere \/ UndoDecision \/ RedoDecision
  <2>1. disk' = disk
    BY <1>3 DEF Decide, Release, Dispatch, Press, ReleaseElsewhere, UndoDecision, RedoDecision
  <2>. QED  BY <1>1, <2>1, Nothing
<1>4. CASE Autosave \/ Pause
  <2>1. disk' = disk \/ (sid # None /\ \E l \in {"active", "paused"} : Written(l))
    BY <1>4 DEF Autosave, Pause, WriteActive, NotWritten, Running
  <2>. QED  BY <1>1, <2>1, Nothing, Writing
<1>5. CASE Discard
  <2>1. disk' = disk \/ (sid \in Sessions /\ disk' = WithStored(disk, sid, Unstored))
    BY <1>1, <1>5 DEF Discard, Durably, Running, TypeOK
  <2>2. disk.saved[sid].lifecycle # "finished"
    BY <1>5 DEF Discard, Running, Saved
  <2>. QED  BY <1>1, <2>1, <2>2, Nothing, Dropped
<1>. QED  BY <1>2, <1>3, <1>4, <1>5, <1>1 DEF Comparing

LEMMA FinishingKeeps ==
  ASSUME TypeOK, Control, Store, Saved, Finishing PROVE Promised
<1>1. CASE Finish
  <2>1. pc = "idle" /\ sid # None /\ sid' = sid
    BY <1>1 DEF Finish, Running, session
  <2>2. CASE Written("active")
    BY <2>1, <2>2, Writing
  <2>3. CASE NotWritten /\ UNCHANGED <<pc, markingEnabled>>
    BY <2>1, <2>3, Nothing DEF NotWritten, Calm
  <2>. QED  BY <1>1, <2>2, <2>3 DEF Finish
<1>2. CASE FinishMarks \/ FinishRecord
  <2>1. disk' = disk /\ sid' = sid /\ pc \in Applying
    BY <1>2 DEF FinishMarks, FinishRecord, session
  <2>. QED  BY <2>1, StillApplying, GivenUp
<1>3. CASE FinishCommit
  <2>1. pc = "commit" /\ pc' = "idle" /\ (disk' = db \/ disk' = disk)
    BY <1>3 DEF FinishCommit, RollBack
  <2>. QED  BY <2>1, Applied, GivenUp
<1>. QED  BY <1>1, <1>2, <1>3 DEF Finishing

LEMMA MarkingKeeps ==
  ASSUME TypeOK, Store, Consistent(disk), Marking PROVE Promised
<1>1. pc = "idle" /\ pc' = "idle" /\ Calm /\ Calm' /\ db = disk
  BY DEF Marking, Unmark, UndoMarks, RedoMarks, DropHistory, FromHistory, Calm, Store,
         PendingIsOneFinish
<1>2. disk' = disk \/ \E c : disk' = WithMarks(disk, c)
  <2>1. (\E c : Persist(c)) \/ UNCHANGED disk
    BY DEF Marking, Unmark, UndoMarks, RedoMarks, DropHistory, FromHistory, NotPersisted
  <2>. QED  BY <1>1, <2>1 DEF Persist, Durably
<1>. QED  BY <1>1, <1>2, Nothing, Reconsidered

LEMMA StepKeeps ==
  ASSUME TypeOK, Control, Store, Saved, Consistent(disk), [Next]_vars PROVE Promised
<1>1. CASE Quit
  <2>1. pc = "idle" /\ Calm /\ Calm'
    BY <1>1 DEF Quit, Forget, Calm
  <2>2. disk' = disk \/ (sid # None /\ Written("active"))
    BY <1>1 DEF Quit
  <2>. QED  BY <2>1, <2>2, Nothing, Writing
<1>2. CASE Crash
  <2>1. disk' = disk /\ pc' \notin Applying
    BY <1>2 DEF Crash, Forget
  <2>. QED  BY <2>1, Nothing, GivenUp DEF Calm
<1>3. CASE UNCHANGED vars
  <2>1. disk' = disk /\ pc' = pc /\ sid' = sid
    BY <1>3 DEF vars, session
  <2>. QED  BY <2>1, Nothing, StillApplying DEF Calm
<1>. QED  BY <1>1, <1>2, <1>3, OpeningKeeps, ComparingKeeps, FinishingKeeps, MarkingKeeps DEF Next

(***************************************************************************)
(* The stored collection stays consistent                                  *)
(***************************************************************************)
\* What a step can make of the database on disk.
Writes ==
  \/ disk' = disk
  \/ \E c : disk' = WithMarks(disk, c)
  \/ \E G : disk' = WithScan(disk, G)
  \/ \E s \in Sessions : \E r : /\ disk' = WithStored(disk, s, r)
                                /\ r.lifecycle = "none" => r = Unstored

LEMMA CommitConsistent ==
  ASSUME TypeOK, Control, Store, Consistent(disk), pc = "commit", disk' = db
  PROVE  Consistent(disk')
<1>1. /\ disk'.group = disk.group
      /\ disk'.mark = disk.mark \cup (draft.rejected \cap Present(disk))
      /\ disk'.saved = [disk.saved EXCEPT ![sid] = ToStored("finished")]
  BY DEF Store, PendingIsOneFinish
<1>2. \A t \in Sessions : \/ disk'.saved[t] = disk.saved[t]
                          \/ disk'.saved[t].lifecycle = "finished"
  BY <1>1 DEF ToStored, TypeOK, Database
<1>. QED  BY <1>1, <1>2 DEF Consistent, Present

LEMMA WritesConsistent ==
  ASSUME TypeOK, Consistent(disk), Writes PROVE Consistent(disk')
BY StoredConsistent, MarksConsistent, ScanConsistent DEF Writes, TypeOK

LEMMA WrittenWrites ==
  ASSUME TypeOK, db = disk, sid # None, NEW l \in {"active", "paused"}, Written(l)
  PROVE  Writes
<1>1. ToStored(l).lifecycle = l
  BY DEF ToStored
<1>. QED  BY <1>1 DEF Writes, Written, Durably, TypeOK

LEMMA OpeningWrites ==
  ASSUME db = disk, Opening PROVE Writes
<1>1. \/ disk' = disk
      \/ \E s \in Sessions : disk' = WithStored(disk, s, Unstored)
      \/ \E G : disk' = WithScan(disk, G)
  BY DEF Opening, Open, Resume, DiscardOffered, Decline, Scan, Durably
<1>. QED  BY <1>1 DEF Writes

LEMMA ComparingWrites ==
  ASSUME TypeOK, db = disk, Comparing PROVE Writes
<1>1. ASSUME NEW s \in Sessions, NEW P \in SUBSET Photos, Start(s, P) PROVE Writes
  BY <1>1 DEF Start, Durably, Writes
<1>2. CASE \/ \E n \in Returned : Decide(n) \/ Release(n)
           \/ Press \/ ReleaseElsewhere \/ UndoDecision \/ RedoDecision
  BY <1>2 DEF Decide, Release, Dispatch, Press, ReleaseElsewhere, UndoDecision, RedoDecision, Writes
<1>3. CASE Autosave \/ Pause
  <2>1. disk' = disk \/ (sid # None /\ \E l \in {"active", "paused"} : Written(l))
    BY <1>3 DEF Autosave, Pause, WriteActive, NotWritten, Running
  <2>. QED  BY <2>1, WrittenWrites DEF Writes
<1>4. CASE Discard
  BY <1>4 DEF Discard, Durably, Running, TypeOK, Writes
<1>. QED  BY <1>1, <1>2, <1>3, <1>4 DEF Comparing

LEMMA ConsistentStep ==
  ASSUME TypeOK, Control, Store, Consistent(disk), [Next]_vars PROVE Consistent(disk')
<1>1. CASE Opening \/ Comparing
  <2>1. db = disk
    BY <1>1 DEF Opening, Open, Resume, DiscardOffered, Decline, Scan, Comparing, Start, Decide,
      Release, Dispatch, Press, ReleaseElsewhere, UndoDecision, RedoDecision, Autosave, Pause,
      Discard, Running, Store, PendingIsOneFinish
  <2>. QED  BY <1>1, <2>1, OpeningWrites, ComparingWrites, WritesConsistent
<1>2. CASE Finish \/ Quit
  <2>1. db = disk
    BY <1>2 DEF Finish, Quit, Running, Store, PendingIsOneFinish
  <2>2. disk' = disk \/ (sid # None /\ Written("active"))
    BY <1>2 DEF Finish, Quit, NotWritten, Running
  <2>. QED  BY <2>1, <2>2, WrittenWrites, WritesConsistent
<1>3. CASE FinishCommit
  <2>1. pc = "commit" /\ (disk' = db \/ disk' = disk)
    BY <1>3 DEF FinishCommit
  <2>. QED  BY <2>1, CommitConsistent
<1>4. CASE Marking
  <2>1. db = disk
    BY <1>4 DEF Marking, Unmark, UndoMarks, RedoMarks, DropHistory, Store, PendingIsOneFinish
  <2>2. (\E c : Persist(c)) \/ UNCHANGED disk
    BY <1>4 DEF Marking, Unmark, UndoMarks, RedoMarks, DropHistory, FromHistory, NotPersisted
  <2>. QED  BY <2>1, <2>2, WritesConsistent DEF Persist, Durably, Writes
<1>5. CASE FinishMarks \/ FinishRecord \/ Crash \/ UNCHANGED vars
  BY <1>5 DEF FinishMarks, FinishRecord, Crash, vars
<1>. QED  BY <1>1, <1>2, <1>3, <1>4, <1>5 DEF Next, Finishing

LEMMA InitConsistent == Init => Consistent(disk)
BY DEF Init, Consistent, Present

LEMMA InitKeeps == Init => Promise!Init
<1>. SUFFICES ASSUME Init PROVE Promise!Init
  OBVIOUS
<1>1. disk.mark = {} /\ Present(disk) \in SUBSET Photos
  BY DEF Init, Present
<1>2. \A s \in Sessions : disk.saved[s] = Unstored
  BY DEF Init
<1>3. \A s \in Sessions : StageOf(s) = "none" /\ disk.saved[s].draft.rejected = {}
  BY <1>2 DEF Init, StageOf, Unstored, NoDraft
<1>. QED  BY <1>1, <1>3 DEF Promise!Init

\* The stored collection keeps the promises of Culling whatever fails and
\* wherever the program stops: applying a comparison is one indivisible change,
\* it applies the draft that was stored, and nothing else changes its record.
THEOREM SessionKeepsPromise == Spec => KeepsPromise
<1>1. [Next]_vars /\ TypeOK /\ Control /\ Store /\ Saved /\ Consistent(disk)
        => [Promise!Next]_(Promise!vars)
  BY StepKeeps DEF Promised
<1>2. Spec => []Consistent(disk)
  <2>1. [Next]_vars /\ TypeOK /\ Control /\ Store /\ Consistent(disk) => Consistent(disk)'
    BY ConsistentStep
  <2>. QED  BY <2>1, InitConsistent, TypeCorrect, ControlHolds, StoreHolds, PTL DEF Spec
<1>. QED
  BY <1>1, <1>2, InitKeeps, TypeCorrect, ControlHolds, StoreHolds, SavedHolds, PTL
  DEF Spec, KeepsPromise, Promise!Spec
=============================================================================
