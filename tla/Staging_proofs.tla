--------------------------- MODULE Staging_proofs ---------------------------
(***************************************************************************)
(* Proofs about Staging for any operations, photos and files, with other   *)
(* programs interfering with any of the files: first what the journal says *)
(* of the files, then where the one reviewed copy of each file is and the  *)
(* steps of Disposal that this makes of the steps of Staging.              *)
(***************************************************************************)
EXTENDS Staging, TLAPS

(***************************************************************************)
(* Types, and which of the loop variables are in use at each pc.           *)
(***************************************************************************)
\* The steps of executeGroup() and the write that follows it ...
ExecutingGroup == {"intent", "rename", "move", "confirm", "putback", "returning", "verify",
                   "staged", "trashing", "trash", "trashed", "persist"}
\* ... those of recover() for one group, and those between a check and its rename.
RestoringGroup == {"restore", "restoring"}
Renaming == {"move", "returning", "restoring"}
Going == {"rename", "confirm", "putback", "restore"} \cup Renaming

Control ==
  /\ pc # "idle" => op \in Ops
  /\ pc \in ExecutingGroup \cup RestoringGroup => group \in todo
  /\ pc \in Renaming => member \in left
  /\ pc \in Going => left \subseteq Files(group)

USE DEF Content, Step, State

LEMMA StepTypes ==
  ASSUME NEW r \in OperationRecord, NEW ms, NEW s \in Step
  PROVE  WithStep(r, ms, s) \in OperationRecord
BY DEF WithStep, OperationRecord

LEMMA StateTypes ==
  ASSUME NEW r \in OperationRecord, NEW s \in State
  PROVE  WithState(r, s) \in OperationRecord
BY DEF WithState, OperationRecord

LEMMA PathTypes ==
  ASSUME NEW r \in OperationRecord, NEW p \in Groups \cup {None}
  PROVE  [r EXCEPT !.trashPath = p] \in OperationRecord
BY DEF OperationRecord

LEMMA StatePathTypes ==
  ASSUME NEW r \in OperationRecord, NEW s \in State, NEW p \in Groups \cup {None}
  PROVE  [r EXCEPT !.state = s, !.trashPath = p] \in OperationRecord
BY DEF OperationRecord

LEMMA PlanTypes ==
  ASSUME NEW plan \in SUBSET Groups
  PROVE  /\ Unborn \in OperationRecord
         /\ PlannedRecord(plan) \in OperationRecord /\ PlannedRecord(plan).plan = plan
BY DEF OperationRecord, Unborn, PlannedRecord

LEMMA TrashedTypes ==
  ASSUME NEW g \in Groups, NEW p \in {g, None}, record \in OperationRecord
  PROVE  TrashedAt(g, p) \in OperationRecord
BY StepTypes, PathTypes DEF TrashedAt

LEMMA TrashedGroups == \A r \in OperationRecord : r.plan \in SUBSET Groups
BY DEF OperationRecord

LEMMA IdleTyped == Idle => /\ record' \in OperationRecord /\ pc' = "idle" /\ op' = None
                           /\ group' = None /\ member' = None /\ todo' = {} /\ left' = {}
                           /\ missing' = {} /\ problem' = FALSE
BY PlanTypes DEF Idle

(***************************************************************************)
(* TypeOK, in the parts that the steps disturb together.                   *)
(***************************************************************************)
Disk ==
  /\ source \in [Members -> Content] /\ staging \in [Ops -> [Members -> Content]]
  /\ folder \in [Ops -> SUBSET Groups] /\ trash \in [Members -> Content]
  /\ touched \subseteq Members /\ overwritten \subseteq Members

Book == journal \in [Ops -> OperationRecord] /\ record \in OperationRecord

PC == {"idle", "group", "survey", "retry", "complete", "settle"}
        \cup ExecutingGroup \cup RestoringGroup

Loop ==
  /\ pc \in PC
  /\ op \in Ops \cup {None} /\ group \in Groups \cup {None} /\ member \in Members \cup {None}
  /\ todo \subseteq Groups /\ left \subseteq Members /\ missing \subseteq Members
  /\ problem \in BOOLEAN

Typed == Disk /\ Book /\ Loop /\ Control

LEMMA TypedIsTypeOK == Typed => TypeOK
BY DEF Typed, TypeOK, Disk, Book, Loop, PC, ExecutingGroup, RestoringGroup

LEMMA InUse ==
  ASSUME Typed
  PROVE  /\ pc # "idle" => op \in Ops
         /\ pc \in ExecutingGroup \cup RestoringGroup => group \in Groups /\ group \in todo
         /\ pc \in Renaming => member \in Members /\ member \in left
         /\ pc \in Going => left \subseteq Files(group)
BY DEF Typed, Control, Loop, ExecutingGroup, RestoringGroup, Renaming, Going

\* What a write and a rename do to the types.
LEMMA SaveTypes ==
  ASSUME journal \in [Ops -> OperationRecord], NEW r \in OperationRecord, op \in Ops
  PROVE  /\ Save(r) => journal' \in [Ops -> OperationRecord]
         /\ UNCHANGED journal => journal' \in [Ops -> OperationRecord]
BY DEF Save

LEMMA MoveTypes ==
  ASSUME Disk, op \in Ops
  PROVE  /\ \A m \in Members : MoveToStaging(m) \/ MoveToSource(m) => Disk'
         /\ \A g \in Groups : MoveFolderToTrash(g) => Disk'
         /\ UNCHANGED <<disk, history>> => Disk'
<1>1. ASSUME NEW m \in Members, MoveToStaging(m) PROVE Disk'
  BY <1>1 DEF Disk, MoveToStaging
<1>2. ASSUME NEW m \in Members, MoveToSource(m) PROVE Disk'
  BY <1>2 DEF Disk, MoveToSource
<1>3. ASSUME NEW g \in Groups, MoveFolderToTrash(g) PROVE Disk'
  <2>1. trash' \in [Members -> Content]
    BY <1>3 DEF Disk, MoveFolderToTrash
  <2>2. staging' \in [Ops -> [Members -> Content]]
    <3> DEFINE emptied == [m \in Members |-> IF m \in Files(g) THEN "none" ELSE staging[op][m]]
    <3>1. emptied \in [Members -> Content]
      BY DEF Disk
    <3>2. staging' = [staging EXCEPT ![op] = emptied]
      BY <1>3 DEF MoveFolderToTrash
    <3>. QED  BY <3>1, <3>2 DEF Disk
  <2>. QED  BY <1>3, <2>1, <2>2 DEF Disk, MoveFolderToTrash, history
<1>4. UNCHANGED <<disk, history>> => Disk'
  BY DEF Disk, disk, history
<1>. QED  BY <1>1, <1>2, <1>3, <1>4

LEMMA InitTyped == Init => Typed
<1> SUFFICES ASSUME Init PROVE Typed
  OBVIOUS
<1>1. Disk
  BY DEF Init, Disk
<1>2. Book
  BY PlanTypes DEF Init, Book
<1>3. Loop
  BY DEF Init, Loop, PC
<1>4. Control
  BY DEF Init, Control, ExecutingGroup, RestoringGroup, Renaming, Going
<1>. QED  BY <1>1, <1>2, <1>3, <1>4 DEF Typed

LEMMA NextTyped == Typed /\ [Next]_vars => Typed'
<1> SUFFICES ASSUME Typed, [Next]_vars PROVE Typed'
  OBVIOUS
<1> USE DEF disk, loop, history
<1>1. ASSUME NEW g \in Groups, OpenGroup(g) PROVE Typed'
  <2>1. Disk'
    BY <1>1 DEF Typed, Disk, OpenGroup
  <2>2. Book'
    BY <1>1, InUse, StateTypes DEF Typed, Book, OpenGroup, ExecutingGroup, RestoringGroup
  <2>3. Loop'
    BY <1>1, InUse DEF Typed, Loop, Book, OpenGroup, PC, ExecutingGroup, RestoringGroup, Renaming,
          Going
  <2>4. Control'
    BY <1>1, InUse DEF Typed, Loop, OpenGroup, Control, ExecutingGroup, RestoringGroup, Renaming,
          Going
  <2>. QED  BY <2>1, <2>2, <2>3, <2>4 DEF Typed
<1>2. ASSUME NEW g \in Groups, SurveyGroup(g) PROVE Typed'
  <2>1. Disk'
    BY <1>2 DEF Typed, Disk, SurveyGroup
  <2>2. Book'
    BY <1>2, InUse DEF Typed, Book, SurveyGroup, ExecutingGroup, RestoringGroup
  <2>3. Loop'
    BY <1>2, InUse DEF Typed, Loop, Book, SurveyGroup, Files, PC, ExecutingGroup, RestoringGroup,
          Renaming, Going
  <2>4. Control'
    BY <1>2, InUse DEF Typed, Loop, SurveyGroup, Files, Control, ExecutingGroup, RestoringGroup,
          Renaming, Going
  <2>. QED  BY <2>1, <2>2, <2>3, <2>4 DEF Typed
<1>3. ASSUME NEW g \in Groups, RetryGroup(g) PROVE Typed'
  <2>1. Disk'
    <3>1. CASE MoveFolderToTrash(g)
      <4>1. op \in Ops /\ g \in Groups
        BY <1>3, InUse DEF RetryGroup, ExecutingGroup
      <4>. QED  BY <3>1, <4>1, MoveTypes DEF Typed
    <3>2. CASE UNCHANGED <<disk, history>>
      BY <1>3, <3>2 DEF Typed, Disk
    <3>. QED  BY <1>3, <3>1, <3>2 DEF RetryGroup
  <2>2. Book'
    BY <1>3, InUse, TrashedTypes, StatePathTypes
        DEF Typed, Book, RetryGroup, RetryRefused, ExecutingGroup, RestoringGroup
  <2>3. Loop'
    BY <1>3, InUse DEF Typed, Loop, Book, RetryGroup, RetryRefused, PC, ExecutingGroup,
          RestoringGroup, Renaming, Going
  <2>4. Control'
    BY <1>3, InUse DEF Typed, Loop, RetryGroup, RetryRefused, Control, ExecutingGroup,
          RestoringGroup, Renaming, Going
  <2>. QED  BY <2>1, <2>2, <2>3, <2>4 DEF Typed
<1>4. ASSUME NEW m \in Members, CheckStagingPath(m) PROVE Typed'
  <2>1. Disk'
    BY <1>4 DEF Typed, Disk, CheckStagingPath
  <2>2. Book'
    BY <1>4, InUse DEF Typed, Book, CheckStagingPath, ExecutingGroup, RestoringGroup
  <2>3. Loop'
    BY <1>4, InUse DEF Typed, Loop, Book, CheckStagingPath, AbortStaging, Moved, Files, PC,
          ExecutingGroup, RestoringGroup, Renaming, Going
  <2>4. Control'
    BY <1>4, InUse DEF Typed, Loop, CheckStagingPath, AbortStaging, Moved, Files, Control,
          ExecutingGroup, RestoringGroup, Renaming, Going
  <2>. QED  BY <2>1, <2>2, <2>3, <2>4 DEF Typed
<1>5. ASSUME NEW m \in Members, CheckPutBack(m) PROVE Typed'
  <2>1. Disk'
    BY <1>5 DEF Typed, Disk, CheckPutBack
  <2>2. Book'
    BY <1>5, InUse DEF Typed, Book, CheckPutBack, ExecutingGroup, RestoringGroup
  <2>3. Loop'
    BY <1>5, InUse DEF Typed, Loop, Book, CheckPutBack, PC, ExecutingGroup, RestoringGroup,
          Renaming, Going
  <2>4. Control'
    BY <1>5, InUse DEF Typed, Loop, CheckPutBack, Control, ExecutingGroup, RestoringGroup,
          Renaming, Going
  <2>. QED  BY <2>1, <2>2, <2>3, <2>4 DEF Typed
<1>6. ASSUME NEW m \in Members, ExamineMember(m) PROVE Typed'
  <2>1. Disk'
    BY <1>6 DEF Typed, Disk, ExamineMember
  <2>2. Book'
    BY <1>6, InUse, StepTypes DEF Typed, Book, ExamineMember, ExecutingGroup, RestoringGroup
  <2>3. Loop'
    BY <1>6, InUse DEF Typed, Loop, Book, ExamineMember, PC, ExecutingGroup, RestoringGroup,
          Renaming, Going
  <2>4. Control'
    BY <1>6, InUse DEF Typed, Loop, ExamineMember, Control, ExecutingGroup, RestoringGroup,
          Renaming, Going
  <2>. QED  BY <2>1, <2>2, <2>3, <2>4 DEF Typed
<1>7. CASE RecordStagingIntent
  <2>1. Disk'
    BY <1>7 DEF Typed, Disk, RecordStagingIntent
  <2>2. Book'
    BY <1>7, InUse, StepTypes, StateTypes, SaveTypes
        DEF Typed, Book, RecordStagingIntent, ExecutingGroup, RestoringGroup
  <2>3. Loop'
    BY <1>7, InUse DEF Typed, Loop, Book, RecordStagingIntent, Files, PC, ExecutingGroup,
          RestoringGroup, Renaming, Going
  <2>4. Control'
    BY <1>7, InUse DEF Typed, Loop, RecordStagingIntent, Files, Control, ExecutingGroup,
          RestoringGroup, Renaming, Going
  <2>. QED  BY <2>1, <2>2, <2>3, <2>4 DEF Typed
<1>8. CASE StageMember
  <2>1. Disk'
    BY <1>8, MoveTypes, InUse DEF StageMember, ExecutingGroup, RestoringGroup, Renaming, Going,
          Typed
  <2>2. Book'
    BY <1>8, InUse, StepTypes DEF Typed, Book, StageMember, ExecutingGroup, RestoringGroup
  <2>3. Loop'
    BY <1>8, InUse DEF Typed, Loop, Book, StageMember, AbortStaging, Moved, Files, PC,
          ExecutingGroup, RestoringGroup, Renaming, Going
  <2>4. Control'
    BY <1>8, InUse DEF Typed, Loop, StageMember, AbortStaging, Moved, Files, Control,
          ExecutingGroup, RestoringGroup, Renaming, Going
  <2>. QED  BY <2>1, <2>2, <2>3, <2>4 DEF Typed
<1>9. CASE ConfirmMove
  <2>1. Disk'
    BY <1>9 DEF Typed, Disk, ConfirmMove
  <2>2. Book'
    BY <1>9, InUse, StateTypes, SaveTypes
        DEF Typed, Book, ConfirmMove, ExecutingGroup, RestoringGroup
  <2>3. Loop'
    BY <1>9, InUse DEF Typed, Loop, Book, ConfirmMove, PC, ExecutingGroup, RestoringGroup,
          Renaming, Going
  <2>4. Control'
    BY <1>9, InUse DEF Typed, Loop, ConfirmMove, Control, ExecutingGroup, RestoringGroup, Renaming,
          Going
  <2>. QED  BY <2>1, <2>2, <2>3, <2>4 DEF Typed
<1>10. CASE PutBackMember
  <2>1. Disk'
    BY <1>10, MoveTypes, InUse DEF PutBackMember, ExecutingGroup, RestoringGroup, Renaming, Going,
          Typed
  <2>2. Book'
    BY <1>10, InUse, StepTypes DEF Typed, Book, PutBackMember, ExecutingGroup, RestoringGroup
  <2>3. Loop'
    BY <1>10, InUse DEF Typed, Loop, Book, PutBackMember, PC, ExecutingGroup, RestoringGroup,
          Renaming, Going
  <2>4. Control'
    BY <1>10, InUse DEF Typed, Loop, PutBackMember, Control, ExecutingGroup, RestoringGroup,
          Renaming, Going
  <2>. QED  BY <2>1, <2>2, <2>3, <2>4 DEF Typed
<1>11. CASE AbortDone
  <2>1. Disk'
    BY <1>11 DEF Typed, Disk, AbortDone
  <2>2. Book'
    BY <1>11, InUse, StateTypes DEF Typed, Book, AbortDone, AbortedState, ExecutingGroup,
          RestoringGroup
  <2>3. Loop'
    BY <1>11, InUse DEF Typed, Loop, Book, AbortDone, AbortedState, PC, ExecutingGroup,
          RestoringGroup, Renaming, Going
  <2>4. Control'
    BY <1>11, InUse DEF Typed, Loop, AbortDone, AbortedState, Control, ExecutingGroup,
          RestoringGroup, Renaming, Going
  <2>. QED  BY <2>1, <2>2, <2>3, <2>4 DEF Typed
<1>12. CASE VerifyStaged
  <2>1. Disk'
    BY <1>12 DEF Typed, Disk, VerifyStaged
  <2>2. Book'
    BY <1>12, InUse, StateTypes DEF Typed, Book, VerifyStaged, ExecutingGroup, RestoringGroup
  <2>3. Loop'
    BY <1>12, InUse DEF Typed, Loop, Book, VerifyStaged, PC, ExecutingGroup, RestoringGroup,
          Renaming, Going
  <2>4. Control'
    BY <1>12, InUse DEF Typed, Loop, VerifyStaged, Control, ExecutingGroup, RestoringGroup,
          Renaming, Going
  <2>. QED  BY <2>1, <2>2, <2>3, <2>4 DEF Typed
<1>13. CASE JournalStaged
  <2>1. Disk'
    BY <1>13 DEF Typed, Disk, JournalStaged
  <2>2. Book'
    BY <1>13, InUse, StateTypes, SaveTypes
        DEF Typed, Book, JournalStaged, ExecutingGroup, RestoringGroup
  <2>3. Loop'
    BY <1>13, InUse DEF Typed, Loop, Book, JournalStaged, PC, ExecutingGroup, RestoringGroup,
          Renaming, Going
  <2>4. Control'
    BY <1>13, InUse DEF Typed, Loop, JournalStaged, Control, ExecutingGroup, RestoringGroup,
          Renaming, Going
  <2>. QED  BY <2>1, <2>2, <2>3, <2>4 DEF Typed
<1>14. CASE JournalTrashing
  <2>1. Disk'
    BY <1>14 DEF Typed, Disk, JournalTrashing
  <2>2. Book'
    BY <1>14, InUse, StateTypes, StatePathTypes, SaveTypes
        DEF Typed, Book, JournalTrashing, ExecutingGroup, RestoringGroup
  <2>3. Loop'
    BY <1>14, InUse DEF Typed, Loop, Book, JournalTrashing, PC, ExecutingGroup, RestoringGroup,
          Renaming, Going
  <2>4. Control'
    BY <1>14, InUse DEF Typed, Loop, JournalTrashing, Control, ExecutingGroup, RestoringGroup,
          Renaming, Going
  <2>. QED  BY <2>1, <2>2, <2>3, <2>4 DEF Typed
<1>15. CASE AskTrash
  <2>1. Disk'
    <3>1. CASE MoveFolderToTrash(group)
      <4>1. op \in Ops /\ group \in Groups
        BY <1>15, InUse DEF AskTrash, ExecutingGroup
      <4>. QED  BY <3>1, <4>1, MoveTypes DEF Typed
    <3>2. CASE UNCHANGED <<disk, history>>
      BY <1>15, <3>2 DEF Typed, Disk
    <3>. QED  BY <1>15, <3>1, <3>2 DEF AskTrash
  <2>2. Book'
    BY <1>15, InUse, StateTypes, TrashedTypes
        DEF Typed, Book, AskTrash, ExecutingGroup, RestoringGroup
  <2>3. Loop'
    BY <1>15, InUse DEF Typed, Loop, Book, AskTrash, PC, ExecutingGroup, RestoringGroup, Renaming,
          Going
  <2>4. Control'
    BY <1>15, InUse DEF Typed, Loop, AskTrash, Control, ExecutingGroup, RestoringGroup, Renaming,
          Going
  <2>. QED  BY <2>1, <2>2, <2>3, <2>4 DEF Typed
<1>16. CASE JournalTrashed
  <2>1. Disk'
    BY <1>16 DEF Typed, Disk, JournalTrashed
  <2>2. Book'
    BY <1>16, InUse, StateTypes, SaveTypes
        DEF Typed, Book, JournalTrashed, ExecutingGroup, RestoringGroup
  <2>3. Loop'
    BY <1>16, InUse DEF Typed, Loop, Book, JournalTrashed, PC, ExecutingGroup, RestoringGroup,
          Renaming, Going
  <2>4. Control'
    BY <1>16, InUse DEF Typed, Loop, JournalTrashed, Control, ExecutingGroup, RestoringGroup,
          Renaming, Going
  <2>. QED  BY <2>1, <2>2, <2>3, <2>4 DEF Typed
<1>17. CASE PersistGroup
  <2>1. Disk'
    BY <1>17 DEF Typed, Disk, PersistGroup
  <2>2. Book'
    BY <1>17, InUse, IdleTyped, SaveTypes
        DEF Typed, Book, PersistGroup, ExecutingGroup, RestoringGroup
  <2>3. Loop'
    BY <1>17, InUse, IdleTyped DEF Typed, Loop, Book, PersistGroup, PC, ExecutingGroup,
          RestoringGroup, Renaming, Going
  <2>4. Control'
    BY <1>17, InUse, IdleTyped DEF Typed, Loop, PersistGroup, Control, ExecutingGroup,
          RestoringGroup, Renaming, Going
  <2>. QED  BY <2>1, <2>2, <2>3, <2>4 DEF Typed
<1>18. CASE Complete
  <2>1. Disk'
    BY <1>18 DEF Typed, Disk, Complete
  <2>2. Book'
    BY <1>18, InUse, StateTypes, IdleTyped, SaveTypes
        DEF Typed, Book, Complete, ExecutingGroup, RestoringGroup
  <2>3. Loop'
    BY <1>18, InUse, IdleTyped DEF Typed, Loop, Book, Complete, PC, ExecutingGroup, RestoringGroup,
          Renaming, Going
  <2>4. Control'
    BY <1>18, InUse, IdleTyped DEF Typed, Loop, Complete, Control, ExecutingGroup, RestoringGroup,
          Renaming, Going
  <2>. QED  BY <2>1, <2>2, <2>3, <2>4 DEF Typed
<1>19. CASE RestoreMember
  <2>1. Disk'
    BY <1>19, MoveTypes, InUse DEF RestoreMember, ExecutingGroup, RestoringGroup, Renaming, Going,
          Typed
  <2>2. Book'
    BY <1>19, InUse, StepTypes DEF Typed, Book, RestoreMember, ExecutingGroup, RestoringGroup
  <2>3. Loop'
    BY <1>19, InUse DEF Typed, Loop, Book, RestoreMember, PC, ExecutingGroup, RestoringGroup,
          Renaming, Going
  <2>4. Control'
    BY <1>19, InUse DEF Typed, Loop, RestoreMember, Control, ExecutingGroup, RestoringGroup,
          Renaming, Going
  <2>. QED  BY <2>1, <2>2, <2>3, <2>4 DEF Typed
<1>20. CASE CloseGroup
  <2>1. Disk'
    BY <1>20 DEF Typed, Disk, CloseGroup
  <2>2. Book'
    BY <1>20, InUse, StepTypes DEF Typed, Book, CloseGroup, Vanished, ExecutingGroup, RestoringGroup
  <2>3. Loop'
    BY <1>20, InUse DEF Typed, Loop, Book, CloseGroup, Vanished, PC, ExecutingGroup,
          RestoringGroup, Renaming, Going
  <2>4. Control'
    BY <1>20, InUse DEF Typed, Loop, CloseGroup, Vanished, Control, ExecutingGroup, RestoringGroup,
          Renaming, Going
  <2>. QED  BY <2>1, <2>2, <2>3, <2>4 DEF Typed
<1>21. CASE FinishRecovery
  <2>1. Disk'
    BY <1>21 DEF Typed, Disk, FinishRecovery
  <2>2. Book'
    BY <1>21, InUse, StateTypes DEF Typed, Book, FinishRecovery, RecoveredState, ExecutingGroup,
          RestoringGroup
  <2>3. Loop'
    BY <1>21, InUse DEF Typed, Loop, Book, FinishRecovery, RecoveredState, PC, ExecutingGroup,
          RestoringGroup, Renaming, Going
  <2>4. Control'
    BY <1>21, InUse DEF Typed, Loop, FinishRecovery, RecoveredState, Control, ExecutingGroup,
          RestoringGroup, Renaming, Going
  <2>. QED  BY <2>1, <2>2, <2>3, <2>4 DEF Typed
<1>22. CASE RetryDone
  <2>1. Disk'
    BY <1>22 DEF Typed, Disk, RetryDone
  <2>2. Book'
    BY <1>22, InUse, StateTypes DEF Typed, Book, RetryDone, ExecutingGroup, RestoringGroup
  <2>3. Loop'
    BY <1>22, InUse DEF Typed, Loop, Book, RetryDone, PC, ExecutingGroup, RestoringGroup, Renaming,
          Going
  <2>4. Control'
    BY <1>22, InUse DEF Typed, Loop, RetryDone, Control, ExecutingGroup, RestoringGroup, Renaming,
          Going
  <2>. QED  BY <2>1, <2>2, <2>3, <2>4 DEF Typed
<1>23. CASE Settle
  <2>1. Disk'
    BY <1>23 DEF Typed, Disk, Settle
  <2>2. Book'
    BY <1>23, InUse, IdleTyped, SaveTypes DEF Typed, Book, Settle, ExecutingGroup, RestoringGroup
  <2>3. Loop'
    BY <1>23, InUse, IdleTyped DEF Typed, Loop, Book, Settle, PC, ExecutingGroup, RestoringGroup,
          Renaming, Going
  <2>4. Control'
    BY <1>23, InUse, IdleTyped DEF Typed, Loop, Settle, Control, ExecutingGroup, RestoringGroup,
          Renaming, Going
  <2>. QED  BY <2>1, <2>2, <2>3, <2>4 DEF Typed
<1>24. ASSUME NEW o \in Ops, NEW plan \in SUBSET Groups, Execute(o, plan) PROVE Typed'
  <2>1. Disk'
    BY <1>24 DEF Typed, Disk, Execute
  <2>2. Book'
    BY <1>24, InUse, PlanTypes DEF Typed, Book, Execute, ExecutingGroup, RestoringGroup
  <2>3. Loop'
    BY <1>24, InUse DEF Typed, Loop, Book, Execute, PC, ExecutingGroup, RestoringGroup, Renaming,
          Going
  <2>4. Control'
    BY <1>24, InUse DEF Typed, Loop, Execute, Control, ExecutingGroup, RestoringGroup, Renaming,
          Going
  <2>. QED  BY <2>1, <2>2, <2>3, <2>4 DEF Typed
<1>25. ASSUME NEW o \in Ops, Restore(o) PROVE Typed'
  <2>1. Disk'
    BY <1>25 DEF Typed, Disk, Restore, Load
  <2>2. Book'
    BY <1>25, InUse, StateTypes DEF Typed, Book, Restore, Load, Listed, ExecutingGroup,
          RestoringGroup
  <2>3. Loop'
    BY <1>25, InUse, StateTypes, TrashedGroups
        DEF Typed, Loop, Book, Restore, Load, Listed, PC, ExecutingGroup, RestoringGroup, Renaming,
          Going
  <2>4. Control'
    BY <1>25, InUse, StateTypes, TrashedGroups
        DEF Typed, Loop, Restore, Load, Listed, Control, ExecutingGroup, RestoringGroup, Renaming,
          Going
  <2>. QED  BY <2>1, <2>2, <2>3, <2>4 DEF Typed
<1>26. ASSUME NEW o \in Ops, RetryTrash(o) PROVE Typed'
  <2>1. Disk'
    BY <1>26 DEF Typed, Disk, RetryTrash, Load
  <2>2. Book'
    BY <1>26, InUse, StateTypes DEF Typed, Book, RetryTrash, Load, Listed, ExecutingGroup,
          RestoringGroup
  <2>3. Loop'
    BY <1>26, InUse, StateTypes, TrashedGroups
        DEF Typed, Loop, Book, RetryTrash, Load, Listed, PC, ExecutingGroup, RestoringGroup,
          Renaming, Going
  <2>4. Control'
    BY <1>26, InUse, StateTypes, TrashedGroups
        DEF Typed, Loop, RetryTrash, Load, Listed, Control, ExecutingGroup, RestoringGroup,
          Renaming, Going
  <2>. QED  BY <2>1, <2>2, <2>3, <2>4 DEF Typed
<1>27. ASSUME NEW o \in Ops, ConfirmTrashed(o) PROVE Typed'
  <2>1. Disk'
    BY <1>27 DEF Typed, Disk, ConfirmTrashed, Load
  <2>2. Book'
    BY <1>27, InUse, StateTypes, StepTypes
        DEF Typed, Book, ConfirmTrashed, Load, Listed, ExecutingGroup, RestoringGroup
  <2>3. Loop'
    BY <1>27, InUse, StateTypes, StepTypes, TrashedGroups
        DEF Typed, Loop, Book, ConfirmTrashed, Load, Listed, PC, ExecutingGroup, RestoringGroup,
          Renaming, Going
  <2>4. Control'
    BY <1>27, InUse, StateTypes, StepTypes, TrashedGroups
        DEF Typed, Loop, ConfirmTrashed, Load, Listed, Control, ExecutingGroup, RestoringGroup,
          Renaming, Going
  <2>. QED  BY <2>1, <2>2, <2>3, <2>4 DEF Typed
<1>28. CASE Crash
  <2>1. Disk'
    BY <1>28 DEF Typed, Disk, Crash
  <2>2. Book'
    BY <1>28, InUse, IdleTyped DEF Typed, Book, Crash, ExecutingGroup, RestoringGroup
  <2>3. Loop'
    BY <1>28, InUse, IdleTyped DEF Typed, Loop, Book, Crash, PC, ExecutingGroup, RestoringGroup,
          Renaming, Going
  <2>4. Control'
    BY <1>28, InUse, IdleTyped DEF Typed, Loop, Crash, Control, ExecutingGroup, RestoringGroup,
          Renaming, Going
  <2>. QED  BY <2>1, <2>2, <2>3, <2>4 DEF Typed
<1>29. ASSUME NEW m \in Touchable, DisturbSource(m) PROVE Typed'
  <2>1. Disk'
    BY <1>29, ConstantsAssumption DEF Typed, Disk, DisturbSource, Undisturbed
  <2>2. Book'
    BY <1>29, InUse DEF Typed, Book, DisturbSource, Undisturbed, ExecutingGroup, RestoringGroup
  <2>3. Loop'
    BY <1>29, InUse, ConstantsAssumption DEF Typed, Loop, Book, DisturbSource, Undisturbed, PC,
          ExecutingGroup, RestoringGroup, Renaming, Going
  <2>4. Control'
    BY <1>29, InUse, ConstantsAssumption DEF Typed, Loop, DisturbSource, Undisturbed, Control,
          ExecutingGroup, RestoringGroup, Renaming, Going
  <2>. QED  BY <2>1, <2>2, <2>3, <2>4 DEF Typed
<1>30. ASSUME NEW m \in Touchable, NEW o \in Ops, DisturbStaging(o, m) PROVE Typed'
  <2>1. Disk'
    BY <1>30, ConstantsAssumption DEF Typed, Disk, DisturbStaging, Undisturbed
  <2>2. Book'
    BY <1>30, InUse DEF Typed, Book, DisturbStaging, Undisturbed, ExecutingGroup, RestoringGroup
  <2>3. Loop'
    BY <1>30, InUse, ConstantsAssumption DEF Typed, Loop, Book, DisturbStaging, Undisturbed, PC,
          ExecutingGroup, RestoringGroup, Renaming, Going
  <2>4. Control'
    BY <1>30, InUse, ConstantsAssumption DEF Typed, Loop, DisturbStaging, Undisturbed, Control,
          ExecutingGroup, RestoringGroup, Renaming, Going
  <2>. QED  BY <2>1, <2>2, <2>3, <2>4 DEF Typed
<1>31. ASSUME NEW o \in Ops, NEW g \in Groups, RemoveFolder(o, g) PROVE Typed'
  <2>1. Disk'
    BY <1>31 DEF Typed, Disk, RemoveFolder
  <2>2. Book'
    BY <1>31, InUse DEF Typed, Book, RemoveFolder, ExecutingGroup, RestoringGroup
  <2>3. Loop'
    BY <1>31, InUse DEF Typed, Loop, Book, RemoveFolder, PC, ExecutingGroup, RestoringGroup,
          Renaming, Going
  <2>4. Control'
    BY <1>31, InUse DEF Typed, Loop, RemoveFolder, Control, ExecutingGroup, RestoringGroup,
          Renaming, Going
  <2>. QED  BY <2>1, <2>2, <2>3, <2>4 DEF Typed
<1>32. CASE UNCHANGED vars
  <2>1. Disk'
    BY <1>32 DEF Typed, Disk, vars
  <2>2. Book'
    BY <1>32, InUse DEF Typed, Book, vars, ExecutingGroup, RestoringGroup
  <2>3. Loop'
    BY <1>32, InUse DEF Typed, Loop, Book, vars, PC, ExecutingGroup, RestoringGroup, Renaming, Going
  <2>4. Control'
    BY <1>32, InUse DEF Typed, Loop, vars, Control, ExecutingGroup, RestoringGroup, Renaming, Going
  <2>. QED  BY <2>1, <2>2, <2>3, <2>4 DEF Typed
<1>33. CASE Run
  BY <1>33, <1>1, <1>2, <1>3, <1>4, <1>5, <1>6, <1>7, <1>8, <1>9, <1>10, <1>11, <1>12, <1>13,
        <1>14, <1>15, <1>16, <1>17, <1>18, <1>19, <1>20, <1>21, <1>22, <1>23 DEF Run
<1>34. CASE Person
  BY <1>34, <1>24, <1>25, <1>26, <1>27 DEF Person
<1>35. CASE Others
  BY <1>35, <1>29, <1>30, <1>31, ConstantsAssumption DEF Others
<1>. QED
  BY <1>28, <1>32, <1>33, <1>34, <1>35
  DEF Next

\* Every variable keeps its type in every behaviour of Spec.
THEOREM TypeCorrect == Spec => []TypeOK
BY InitTyped, NextTyped, TypedIsTypeOK, PTL DEF Spec

(***************************************************************************)
(* Nothing is overwritten, provided that no other program acts between an  *)
(* exists() check and its rename.                                          *)
(***************************************************************************)
\* What the check has found is still so when the rename comes.
Clear ==
  /\ overwritten = {}
  /\ pc = "move" => staging[op][member] = "none"
  /\ pc \in {"returning", "restoring"} => source[member] = "none"

\* The steps that neither rename a file nor lead up to a rename.
Quiet ==
  \/ \E g \in Groups : OpenGroup(g) \/ SurveyGroup(g) \/ RetryGroup(g)
  \/ RecordStagingIntent \/ ConfirmMove \/ AbortDone
  \/ VerifyStaged \/ JournalStaged \/ JournalTrashing \/ AskTrash \/ JournalTrashed
  \/ PersistGroup \/ Complete \/ CloseGroup \/ FinishRecovery \/ RetryDone \/ Settle
  \/ Person \/ Crash

LEMMA QuietSteps ==
  ASSUME Typed, Quiet PROVE overwritten' = overwritten /\ pc' \notin Renaming
<1> USE DEF disk, loop, history, Renaming
<1>1. ASSUME NEW g \in Groups, OpenGroup(g) \/ SurveyGroup(g) \/ RetryGroup(g)
      PROVE  overwritten' = overwritten /\ pc' \notin Renaming
  BY <1>1 DEF OpenGroup, SurveyGroup, RetryGroup, MoveFolderToTrash
<1>2. CASE RecordStagingIntent \/ ConfirmMove \/ AbortDone
  BY <1>2 DEF RecordStagingIntent, ConfirmMove, AbortDone
<1>3. CASE VerifyStaged \/ JournalStaged \/ JournalTrashing \/ AskTrash \/ JournalTrashed
  BY <1>3 DEF VerifyStaged, JournalStaged, JournalTrashing, AskTrash, JournalTrashed,
              MoveFolderToTrash
<1>4. CASE PersistGroup \/ Complete \/ CloseGroup \/ FinishRecovery \/ RetryDone \/ Settle
  BY <1>4 DEF PersistGroup, Complete, CloseGroup, FinishRecovery, RetryDone, Settle, Idle
<1>5. CASE Person
  BY <1>5 DEF Person, Execute, Restore, RetryTrash, ConfirmTrashed, Load
<1>6. CASE Crash
  BY <1>6 DEF Crash, Idle
<1>. QED  BY <1>1, <1>2, <1>3, <1>4, <1>5, <1>6 DEF Quiet

\* The steps before a rename and the renames.
LEMMA ClearSteps ==
  ASSUME Typed, Clear,
         \/ \E m \in Members : CheckStagingPath(m) \/ CheckPutBack(m) \/ ExamineMember(m)
         \/ StageMember \/ PutBackMember \/ RestoreMember
  PROVE  Clear'
<1> USE DEF disk, loop, history, Clear
<1>1. ASSUME NEW m \in Members, CheckStagingPath(m) PROVE Clear'
  BY <1>1 DEF CheckStagingPath, AbortStaging
<1>2. ASSUME NEW m \in Members, CheckPutBack(m) PROVE Clear'
  BY <1>2 DEF CheckPutBack
<1>3. ASSUME NEW m \in Members, ExamineMember(m) PROVE Clear'
  BY <1>3 DEF ExamineMember, Restorable
<1>4. CASE StageMember
  BY <1>4 DEF StageMember, MoveToStaging, AbortStaging
<1>5. CASE PutBackMember
  BY <1>5 DEF PutBackMember, MoveToSource
<1>6. CASE RestoreMember
  BY <1>6 DEF RestoreMember, MoveToSource
<1>. QED  BY <1>1, <1>2, <1>3, <1>4, <1>5, <1>6

LEMMA ClearNext ==
  ASSUME RaceWindow = FALSE, Typed, Clear, [Next]_vars PROVE Clear'
<1>1. CASE Quiet
  BY <1>1, QuietSteps DEF Clear, Renaming
<1>2. CASE \/ \E m \in Members : CheckStagingPath(m) \/ CheckPutBack(m) \/ ExamineMember(m)
           \/ StageMember \/ PutBackMember \/ RestoreMember
  BY <1>2, ClearSteps
<1>3. CASE Others
  BY <1>3 DEF Others, DisturbSource, DisturbStaging, RemoveFolder, Undisturbed, InWindow, Clear,
             disk, loop, history
<1>4. CASE UNCHANGED vars
  BY <1>4 DEF vars, disk, loop, history, Clear
<1>. QED  BY <1>1, <1>2, <1>3, <1>4 DEF Next, Run, Quiet

\* Deletion and recovery never replace a file, as long as nothing appears at the
\* destination between the check and the rename of renameOnly().
THEOREM NothingIsOverwritten == Spec => []NothingOverwritten
<1>1. CASE RaceWindow = FALSE
  <2>1. Init => Clear
    BY DEF Init, Clear
  <2>2. Typed /\ Clear /\ [Next]_vars => Clear'
    BY <1>1, ClearNext
  <2>3. Clear => NothingOverwritten
    BY DEF Clear, NothingOverwritten
  <2>. QED  BY InitTyped, NextTyped, <2>1, <2>2, <2>3, PTL DEF Spec
<1>2. CASE RaceWindow = TRUE
  <2>1. NothingOverwritten
    BY <1>2 DEF NothingOverwritten
  <2>. QED  BY <2>1, PTL
<1>. QED  BY <1>1, <1>2, ConstantsAssumption DEF ConstantsAssumption

(***************************************************************************)
(* Trash.                                                                  *)
(***************************************************************************)
InTrash(g, t, u) == \A m \in Files(g) \ u : t[m] = "reviewed"

\* What a record says about Trash is so when Trash holds t and others touched u.
Truthful(r, t, u) ==
  /\ \A m \in Members \ u : r.step[m] = "trashed" => t[m] = "reviewed"
  /\ r.trashPath # None => InTrash(r.trashPath, t, u)

\* A directory that was found complete has lost only what others took from it.
Intact(g) == \A m \in Files(g) \ touched : staging[op][m] = "reviewed"

Guarded ==
  /\ pc \in {"staged", "trashing", "trash"} => Intact(group)
  /\ pc = "retry" => \A g \in todo : Intact(g)

\* A file nobody interfered with is in Trash as it was reviewed.
TrashContent == \A m \in Members \ touched : trash[m] # "foreign"

JournalTruthful == \A o \in Ops : Truthful(journal[o], trash, touched)

TrashInv ==
  /\ Guarded /\ TrashContent /\ TrashedWhole
  /\ Truthful(record, trash, touched) /\ JournalTruthful

LEMMA StepTruthful ==
  ASSUME NEW r \in OperationRecord, NEW t, NEW u, NEW ms, NEW s \in Step \ {"trashed"},
         Truthful(r, t, u)
  PROVE  Truthful(WithStep(r, ms, s), t, u)
BY DEF Truthful, WithStep, OperationRecord

LEMMA StateTruthful ==
  ASSUME NEW r \in OperationRecord, NEW t, NEW u, NEW s, Truthful(r, t, u)
  PROVE  Truthful(WithState(r, s), t, u)
BY DEF Truthful, WithState, OperationRecord

LEMMA PathTruthful ==
  ASSUME NEW r \in OperationRecord, NEW t, NEW u, NEW s, Truthful(r, t, u)
  PROVE  Truthful([r EXCEPT !.state = s, !.trashPath = None], t, u)
BY DEF Truthful, OperationRecord

LEMMA UnbornTruthful ==
  ASSUME NEW t, NEW u PROVE Truthful(Unborn, t, u)
BY DEF Truthful, Unborn

LEMMA PlanTruthful ==
  ASSUME NEW t, NEW u, NEW plan
  PROVE  Truthful(PlannedRecord(plan), t, u)
BY DEF Truthful, Unborn, PlannedRecord

LEMMA TouchedTruthful ==
  ASSUME NEW r, NEW t, NEW u, NEW v, u \subseteq v, Truthful(r, t, u)
  PROVE  Truthful(r, t, v)
BY DEF Truthful, InTrash

LEMMA TrashedTruthful ==
  ASSUME NEW r \in OperationRecord, NEW t, NEW u, NEW g \in Groups, NEW path \in {g, None},
         Truthful(r, t, u), InTrash(g, t, u)
  PROVE  /\ Truthful(WithStep(r, Files(g), "trashed"), t, u)
         /\ Truthful([WithStep(r, Files(g), "trashed") EXCEPT !.trashPath = path], t, u)
<1> DEFINE w == WithStep(r, Files(g), "trashed")
<1>1. w \in OperationRecord /\ Truthful(w, t, u)
  <2>1. w \in OperationRecord
    BY StepTypes
  <2>2. \A m \in Members : w.step[m] = IF m \in Files(g) THEN "trashed" ELSE r.step[m]
    BY DEF WithStep, OperationRecord
  <2>3. w.trashPath = r.trashPath
    BY DEF WithStep, OperationRecord
  <2>. QED  BY <2>1, <2>2, <2>3 DEF Truthful, InTrash
<1>2. Truthful([w EXCEPT !.trashPath = path], t, u)
  BY <1>1 DEF Truthful, OperationRecord
<1>. QED  BY <1>1, <1>2

\* A directory that is intact goes to Trash.
LEMMA Disposed ==
  ASSUME Typed, TrashInv, NEW g \in Groups, op \in Ops, Intact(g), MoveFolderToTrash(g),
         UNCHANGED op
  PROVE  /\ TrashContent' /\ TrashedWhole' /\ InTrash(g, trash', touched')
         /\ \A r : Truthful(r, trash, touched) => Truthful(r, trash', touched')
         /\ \A h \in Groups : h # g /\ Intact(h) => (Intact(h))'
<1>1. touched' = touched /\ op \in Ops
  BY DEF MoveFolderToTrash, history
<1>2. \A m \in Members : trash'[m] =
         IF m \in Files(g) /\ staging[op][m] # "none" THEN staging[op][m] ELSE trash[m]
  BY DEF MoveFolderToTrash
<1>3. \A m \in Files(g) \ touched : trash'[m] = "reviewed"
  BY <1>2 DEF Intact, Files
<1>4. TrashContent'
  BY <1>1, <1>2, <1>3 DEF TrashInv, TrashContent
<1>5. TrashedWhole'
  BY <1>1, <1>2, <1>3 DEF TrashInv, TrashedWhole, Files
<1>6. InTrash(g, trash', touched')
  BY <1>1, <1>3 DEF InTrash
<1>7. ASSUME NEW r, Truthful(r, trash, touched) PROVE Truthful(r, trash', touched')
  BY <1>1, <1>2, <1>3, <1>7 DEF Truthful, InTrash, Files
<1>8. ASSUME NEW h \in Groups, h # g, Intact(h) PROVE (Intact(h))'
  BY <1>1, <1>8 DEF Intact, Files, MoveFolderToTrash, Typed, Disk
<1>. QED  BY <1>4, <1>5, <1>6, <1>7, <1>8

\* A step that leaves Trash alone keeps what is known of it.
LEMMA Filing ==
  ASSUME TrashInv, UNCHANGED <<trash, touched>>, Guarded', Truthful(record', trash, touched),
         \A o \in Ops : Truthful(journal'[o], trash, touched)
  PROVE  TrashInv'
BY DEF TrashInv, TrashContent, TrashedWhole, JournalTruthful

LEMMA SaveTruthful ==
  ASSUME Typed, TrashInv, NEW r \in OperationRecord, Truthful(r, trash, touched), op \in Ops
  PROVE  /\ Save(r) => \A o \in Ops : Truthful(journal'[o], trash, touched)
         /\ UNCHANGED journal => \A o \in Ops : Truthful(journal'[o], trash, touched)
BY DEF Typed, Book, TrashInv, JournalTruthful, Save

LEMMA FilingSteps ==
  ASSUME Typed, TrashInv,
         \/ \E g \in Groups : OpenGroup(g) \/ SurveyGroup(g)
         \/ \E m \in Members : CheckStagingPath(m) \/ CheckPutBack(m) \/ ExamineMember(m)
         \/ RecordStagingIntent \/ StageMember \/ ConfirmMove \/ PutBackMember \/ AbortDone
         \/ VerifyStaged \/ JournalStaged \/ JournalTrashing \/ JournalTrashed
         \/ PersistGroup \/ Complete \/ RestoreMember \/ CloseGroup \/ FinishRecovery
         \/ RetryDone \/ Settle \/ Person \/ Crash
  PROVE  TrashInv'
<1> USE DEF disk, loop, history
<1>1. ASSUME NEW g \in Groups, OpenGroup(g) PROVE TrashInv'
  <2>1. UNCHANGED <<trash, touched>>
    BY <1>1 DEF OpenGroup
  <2>2. Guarded'
    BY <1>1 DEF OpenGroup, Guarded
  <2>3. Truthful(record', trash, touched)
    BY <1>1, StateTruthful DEF OpenGroup, TrashInv, Typed, Book
  <2>4. \A o \in Ops : Truthful(journal'[o], trash, touched)
    BY <1>1 DEF OpenGroup, TrashInv, JournalTruthful
  <2>. QED  BY <2>1, <2>2, <2>3, <2>4, Filing
<1>2. ASSUME NEW g \in Groups, SurveyGroup(g) PROVE TrashInv'
  <2>1. UNCHANGED <<trash, touched>>
    BY <1>2 DEF SurveyGroup
  <2>2. Guarded'
    BY <1>2 DEF SurveyGroup, Guarded
  <2>3. Truthful(record', trash, touched)
    BY <1>2 DEF SurveyGroup, TrashInv, Typed, Book
  <2>4. \A o \in Ops : Truthful(journal'[o], trash, touched)
    BY <1>2 DEF SurveyGroup, TrashInv, JournalTruthful
  <2>. QED  BY <2>1, <2>2, <2>3, <2>4, Filing
<1>3. ASSUME NEW m \in Members, CheckStagingPath(m) PROVE TrashInv'
  <2>1. UNCHANGED <<trash, touched>>
    BY <1>3 DEF CheckStagingPath, AbortStaging
  <2>2. Guarded'
    BY <1>3 DEF CheckStagingPath, AbortStaging, Guarded
  <2>3. Truthful(record', trash, touched)
    BY <1>3 DEF CheckStagingPath, TrashInv, Typed, Book
  <2>4. \A o \in Ops : Truthful(journal'[o], trash, touched)
    BY <1>3 DEF CheckStagingPath, AbortStaging, TrashInv, JournalTruthful
  <2>. QED  BY <2>1, <2>2, <2>3, <2>4, Filing
<1>4. ASSUME NEW m \in Members, CheckPutBack(m) PROVE TrashInv'
  <2>1. UNCHANGED <<trash, touched>>
    BY <1>4 DEF CheckPutBack
  <2>2. Guarded'
    BY <1>4 DEF CheckPutBack, Guarded
  <2>3. Truthful(record', trash, touched)
    BY <1>4 DEF CheckPutBack, TrashInv, Typed, Book
  <2>4. \A o \in Ops : Truthful(journal'[o], trash, touched)
    BY <1>4 DEF CheckPutBack, TrashInv, JournalTruthful
  <2>. QED  BY <2>1, <2>2, <2>3, <2>4, Filing
<1>5. ASSUME NEW m \in Members, ExamineMember(m) PROVE TrashInv'
  <2>1. UNCHANGED <<trash, touched>>
    BY <1>5 DEF ExamineMember
  <2>2. Guarded'
    BY <1>5 DEF ExamineMember, Guarded
  <2>3. Truthful(record', trash, touched)
    BY <1>5, StepTruthful DEF ExamineMember, TrashInv, Typed, Book
  <2>4. \A o \in Ops : Truthful(journal'[o], trash, touched)
    BY <1>5 DEF ExamineMember, TrashInv, JournalTruthful
  <2>. QED  BY <2>1, <2>2, <2>3, <2>4, Filing
<1>6. CASE RecordStagingIntent
  <2>1. UNCHANGED <<trash, touched>>
    BY <1>6 DEF RecordStagingIntent
  <2>2. Guarded'
    BY <1>6 DEF RecordStagingIntent, Guarded
  <2>3. Truthful(record', trash, touched)
    BY <1>6, StateTruthful, StepTruthful, StepTypes DEF RecordStagingIntent, TrashInv, Typed, Book
  <2>4. \A o \in Ops : Truthful(journal'[o], trash, touched)
    <3> DEFINE r == WithStep(record, Files(group), "planned")
    <3>1. r \in OperationRecord /\ Truthful(r, trash, touched) /\ op \in Ops
      BY <1>6, InUse, StepTypes, StepTruthful DEF RecordStagingIntent, TrashInv, Typed, Book
    <3>2. Save(r) \/ UNCHANGED journal
      BY <1>6 DEF RecordStagingIntent
    <3>. QED  BY <3>1, <3>2, SaveTruthful
  <2>. QED  BY <2>1, <2>2, <2>3, <2>4, Filing
<1>7. CASE StageMember
  <2>1. UNCHANGED <<trash, touched>>
    BY <1>7 DEF StageMember, MoveToStaging, AbortStaging
  <2>2. Guarded'
    BY <1>7 DEF StageMember, MoveToStaging, AbortStaging, Guarded
  <2>3. Truthful(record', trash, touched)
    BY <1>7, StepTruthful DEF StageMember, TrashInv, Typed, Book
  <2>4. \A o \in Ops : Truthful(journal'[o], trash, touched)
    BY <1>7 DEF StageMember, MoveToStaging, AbortStaging, TrashInv, JournalTruthful
  <2>. QED  BY <2>1, <2>2, <2>3, <2>4, Filing
<1>8. CASE ConfirmMove
  <2>1. UNCHANGED <<trash, touched>>
    BY <1>8 DEF ConfirmMove
  <2>2. Guarded'
    BY <1>8 DEF ConfirmMove, Guarded
  <2>3. Truthful(record', trash, touched)
    BY <1>8, StateTruthful DEF ConfirmMove, TrashInv, Typed, Book
  <2>4. \A o \in Ops : Truthful(journal'[o], trash, touched)
    <3> DEFINE r == record
    <3>1. r \in OperationRecord /\ Truthful(r, trash, touched) /\ op \in Ops
      BY <1>8, InUse DEF ConfirmMove, TrashInv, Typed, Book
    <3>2. Save(r) \/ UNCHANGED journal
      BY <1>8 DEF ConfirmMove
    <3>. QED  BY <3>1, <3>2, SaveTruthful
  <2>. QED  BY <2>1, <2>2, <2>3, <2>4, Filing
<1>9. CASE PutBackMember
  <2>1. UNCHANGED <<trash, touched>>
    BY <1>9 DEF PutBackMember, MoveToSource
  <2>2. Guarded'
    BY <1>9 DEF PutBackMember, MoveToSource, Guarded
  <2>3. Truthful(record', trash, touched)
    BY <1>9, StepTruthful DEF PutBackMember, TrashInv, Typed, Book
  <2>4. \A o \in Ops : Truthful(journal'[o], trash, touched)
    BY <1>9 DEF PutBackMember, MoveToSource, TrashInv, JournalTruthful
  <2>. QED  BY <2>1, <2>2, <2>3, <2>4, Filing
<1>10. CASE AbortDone
  <2>1. UNCHANGED <<trash, touched>>
    BY <1>10 DEF AbortDone
  <2>2. Guarded'
    BY <1>10 DEF AbortDone, Guarded
  <2>3. Truthful(record', trash, touched)
    BY <1>10, StateTruthful DEF AbortDone, TrashInv, Typed, Book
  <2>4. \A o \in Ops : Truthful(journal'[o], trash, touched)
    BY <1>10 DEF AbortDone, TrashInv, JournalTruthful
  <2>. QED  BY <2>1, <2>2, <2>3, <2>4, Filing
<1>11. CASE VerifyStaged
  <2>1. UNCHANGED <<trash, touched>>
    BY <1>11 DEF VerifyStaged
  <2>2. Guarded'
    BY <1>11 DEF VerifyStaged, Guarded, Intact, CompleteInStaging
  <2>3. Truthful(record', trash, touched)
    BY <1>11, StateTruthful DEF VerifyStaged, TrashInv, Typed, Book
  <2>4. \A o \in Ops : Truthful(journal'[o], trash, touched)
    BY <1>11 DEF VerifyStaged, TrashInv, JournalTruthful
  <2>. QED  BY <2>1, <2>2, <2>3, <2>4, Filing
<1>12. CASE JournalStaged
  <2>1. UNCHANGED <<trash, touched>>
    BY <1>12 DEF JournalStaged
  <2>2. Guarded'
    BY <1>12 DEF JournalStaged, TrashInv, Guarded, Intact
  <2>3. Truthful(record', trash, touched)
    BY <1>12, StateTruthful, StateTypes DEF JournalStaged, TrashInv, Typed, Book
  <2>4. \A o \in Ops : Truthful(journal'[o], trash, touched)
    <3> DEFINE r == WithState(record, "Staged")
    <3>1. r \in OperationRecord /\ Truthful(r, trash, touched) /\ op \in Ops
      BY <1>12, InUse, StateTypes, StateTruthful DEF JournalStaged, TrashInv, Typed, Book
    <3>2. Save(r) \/ UNCHANGED journal
      BY <1>12 DEF JournalStaged
    <3>. QED  BY <3>1, <3>2, SaveTruthful
  <2>. QED  BY <2>1, <2>2, <2>3, <2>4, Filing
<1>13. CASE JournalTrashing
  <2>1. UNCHANGED <<trash, touched>>
    BY <1>13 DEF JournalTrashing
  <2>2. Guarded'
    BY <1>13 DEF JournalTrashing, TrashInv, Guarded, Intact
  <2>3. Truthful(record', trash, touched)
    <3> DEFINE r == [record EXCEPT !.state = "Trashing", !.trashPath = None]
    <3>1. r \in OperationRecord /\ Truthful(r, trash, touched)
      BY StatePathTypes, PathTruthful DEF TrashInv, Typed, Book
    <3>2. Truthful(WithState(r, "NeedsRecovery"), trash, touched)
      BY <3>1, StateTruthful
    <3>3. record' = r \/ record' = WithState(r, "NeedsRecovery")
      BY <1>13 DEF JournalTrashing
    <3>. QED  BY <3>1, <3>2, <3>3
  <2>4. \A o \in Ops : Truthful(journal'[o], trash, touched)
    <3> DEFINE r == [record EXCEPT !.state = "Trashing", !.trashPath = None]
    <3>1. r \in OperationRecord /\ Truthful(r, trash, touched) /\ op \in Ops
      BY <1>13, InUse, StatePathTypes, PathTruthful DEF JournalTrashing, TrashInv, Typed, Book
    <3>2. Save(r) \/ UNCHANGED journal
      BY <1>13 DEF JournalTrashing
    <3>. QED  BY <3>1, <3>2, SaveTruthful
  <2>. QED  BY <2>1, <2>2, <2>3, <2>4, Filing
<1>14. CASE JournalTrashed
  <2>1. UNCHANGED <<trash, touched>>
    BY <1>14 DEF JournalTrashed
  <2>2. Guarded'
    BY <1>14 DEF JournalTrashed, Guarded
  <2>3. Truthful(record', trash, touched)
    BY <1>14, StateTruthful DEF JournalTrashed, TrashInv, Typed, Book
  <2>4. \A o \in Ops : Truthful(journal'[o], trash, touched)
    <3> DEFINE r == record
    <3>1. r \in OperationRecord /\ Truthful(r, trash, touched) /\ op \in Ops
      BY <1>14, InUse DEF JournalTrashed, TrashInv, Typed, Book
    <3>2. Save(r) \/ UNCHANGED journal
      BY <1>14 DEF JournalTrashed
    <3>. QED  BY <3>1, <3>2, SaveTruthful
  <2>. QED  BY <2>1, <2>2, <2>3, <2>4, Filing
<1>15. CASE PersistGroup
  <2>1. UNCHANGED <<trash, touched>>
    BY <1>15 DEF PersistGroup, Idle
  <2>2. Guarded'
    BY <1>15 DEF PersistGroup, Idle, Guarded
  <2>3. Truthful(record', trash, touched)
    BY <1>15, UnbornTruthful DEF PersistGroup, Idle, TrashInv, Typed, Book
  <2>4. \A o \in Ops : Truthful(journal'[o], trash, touched)
    <3> DEFINE r == record
    <3>1. r \in OperationRecord /\ Truthful(r, trash, touched) /\ op \in Ops
      BY <1>15, InUse DEF PersistGroup, TrashInv, Typed, Book
    <3>2. Save(r) \/ UNCHANGED journal
      BY <1>15 DEF PersistGroup
    <3>. QED  BY <3>1, <3>2, SaveTruthful
  <2>. QED  BY <2>1, <2>2, <2>3, <2>4, Filing
<1>16. CASE Complete
  <2>1. UNCHANGED <<trash, touched>>
    BY <1>16 DEF Complete, Idle
  <2>2. Guarded'
    BY <1>16 DEF Complete, Idle, Guarded
  <2>3. Truthful(record', trash, touched)
    BY <1>16, UnbornTruthful DEF Complete, Idle, TrashInv, Typed, Book
  <2>4. \A o \in Ops : Truthful(journal'[o], trash, touched)
    <3> DEFINE r == WithState(record, "Completed")
    <3>1. r \in OperationRecord /\ Truthful(r, trash, touched) /\ op \in Ops
      BY <1>16, InUse, StateTypes, StateTruthful DEF Complete, TrashInv, Typed, Book
    <3>2. Save(r) \/ UNCHANGED journal
      BY <1>16 DEF Complete
    <3>. QED  BY <3>1, <3>2, SaveTruthful
  <2>. QED  BY <2>1, <2>2, <2>3, <2>4, Filing
<1>17. CASE RestoreMember
  <2>1. UNCHANGED <<trash, touched>>
    BY <1>17 DEF RestoreMember, MoveToSource
  <2>2. Guarded'
    BY <1>17 DEF RestoreMember, MoveToSource, Guarded
  <2>3. Truthful(record', trash, touched)
    BY <1>17, StepTruthful DEF RestoreMember, TrashInv, Typed, Book
  <2>4. \A o \in Ops : Truthful(journal'[o], trash, touched)
    BY <1>17 DEF RestoreMember, MoveToSource, TrashInv, JournalTruthful
  <2>. QED  BY <2>1, <2>2, <2>3, <2>4, Filing
<1>18. CASE CloseGroup
  <2>1. UNCHANGED <<trash, touched>>
    BY <1>18 DEF CloseGroup
  <2>2. Guarded'
    BY <1>18 DEF CloseGroup, Guarded
  <2>3. Truthful(record', trash, touched)
    <3>1. group \in Groups /\ record \in OperationRecord /\ Truthful(record, trash, touched)
      BY <1>18, InUse DEF CloseGroup, RestoringGroup, TrashInv, Typed, Book
    <3>2. CASE record' = record
      BY <3>1, <3>2
    <3>3. CASE record' = Vanished(record)
      <4>1. CASE record.trashPath = group
        <5>1. InTrash(group, trash, touched)
          BY <3>1, <4>1, ConstantsAssumption DEF Truthful
        <5>. QED  BY <3>1, <3>3, <4>1, <5>1, TrashedTruthful DEF Vanished
      <4>2. CASE record.trashPath # group
        BY <3>1, <3>3, <4>2, StepTruthful DEF Vanished
      <4>. QED  BY <4>1, <4>2
    <3>. QED  BY <1>18, <3>2, <3>3 DEF CloseGroup
  <2>4. \A o \in Ops : Truthful(journal'[o], trash, touched)
    BY <1>18 DEF CloseGroup, TrashInv, JournalTruthful
  <2>. QED  BY <2>1, <2>2, <2>3, <2>4, Filing
<1>19. CASE FinishRecovery
  <2>1. UNCHANGED <<trash, touched>>
    BY <1>19 DEF FinishRecovery
  <2>2. Guarded'
    BY <1>19 DEF FinishRecovery, Guarded
  <2>3. Truthful(record', trash, touched)
    BY <1>19, StateTruthful DEF FinishRecovery, TrashInv, Typed, Book
  <2>4. \A o \in Ops : Truthful(journal'[o], trash, touched)
    BY <1>19 DEF FinishRecovery, TrashInv, JournalTruthful
  <2>. QED  BY <2>1, <2>2, <2>3, <2>4, Filing
<1>20. CASE RetryDone
  <2>1. UNCHANGED <<trash, touched>>
    BY <1>20 DEF RetryDone
  <2>2. Guarded'
    BY <1>20 DEF RetryDone, Guarded
  <2>3. Truthful(record', trash, touched)
    BY <1>20, StateTruthful DEF RetryDone, TrashInv, Typed, Book
  <2>4. \A o \in Ops : Truthful(journal'[o], trash, touched)
    BY <1>20 DEF RetryDone, TrashInv, JournalTruthful
  <2>. QED  BY <2>1, <2>2, <2>3, <2>4, Filing
<1>21. CASE Settle
  <2>1. UNCHANGED <<trash, touched>>
    BY <1>21 DEF Settle, Idle
  <2>2. Guarded'
    BY <1>21 DEF Settle, Idle, Guarded
  <2>3. Truthful(record', trash, touched)
    BY <1>21, UnbornTruthful DEF Settle, Idle, TrashInv, Typed, Book
  <2>4. \A o \in Ops : Truthful(journal'[o], trash, touched)
    <3> DEFINE r == record
    <3>1. r \in OperationRecord /\ Truthful(r, trash, touched) /\ op \in Ops
      BY <1>21, InUse DEF Settle, TrashInv, Typed, Book
    <3>2. Save(r) \/ UNCHANGED journal
      BY <1>21 DEF Settle
    <3>. QED  BY <3>1, <3>2, SaveTruthful
  <2>. QED  BY <2>1, <2>2, <2>3, <2>4, Filing
<1>22. ASSUME NEW o \in Ops, NEW plan \in SUBSET Groups, Execute(o, plan) PROVE TrashInv'
  <2>1. UNCHANGED <<trash, touched>>
    BY <1>22 DEF Execute
  <2>2. Guarded'
    BY <1>22 DEF Execute, Guarded
  <2>3. Truthful(record', trash, touched)
    BY <1>22, PlanTruthful DEF Execute, TrashInv, Typed, Book
  <2>4. \A i \in Ops : Truthful(journal'[i], trash, touched)
    BY <1>22, PlanTruthful DEF Execute, TrashInv, JournalTruthful, Typed, Book
  <2>. QED  BY <2>1, <2>2, <2>3, <2>4, Filing
<1>23. ASSUME NEW o \in Ops, Restore(o) PROVE TrashInv'
  <2>1. UNCHANGED <<trash, touched>>
    BY <1>23 DEF Restore, Load
  <2>2. Guarded'
    BY <1>23 DEF Restore, Load, Guarded
  <2>3. Truthful(record', trash, touched)
    BY <1>23, StateTruthful DEF Restore, Load, TrashInv, JournalTruthful, Typed, Book
  <2>4. \A i \in Ops : Truthful(journal'[i], trash, touched)
    BY <1>23 DEF Restore, Load, TrashInv, JournalTruthful
  <2>. QED  BY <2>1, <2>2, <2>3, <2>4, Filing
<1>24. ASSUME NEW o \in Ops, RetryTrash(o) PROVE TrashInv'
  <2>1. UNCHANGED <<trash, touched>>
    BY <1>24 DEF RetryTrash, Load
  <2>2. Guarded'
    <3> DEFINE pending == journal[o].plan \ Trashed(journal[o])
    <3>1. CASE Retryable(o, pending)
      <4>1. /\ op' = o /\ pc' = "retry" /\ UNCHANGED <<staging, touched>>
            /\ todo' = pending
        BY <1>24, <3>1 DEF RetryTrash, Load, Trashed, WithState, AllAt, Typed, Book, OperationRecord
      <4>2. \A g \in pending : \A m \in Files(g) : staging[o][m] = "reviewed"
        BY <3>1 DEF Retryable, CompleteInStaging
      <4>. QED  BY <4>1, <4>2 DEF Guarded, Intact
    <3>2. CASE ~ Retryable(o, pending)
      BY <1>24, <3>2 DEF RetryTrash, Load, Guarded
    <3>. QED  BY <3>1, <3>2
  <2>3. Truthful(record', trash, touched)
    BY <1>24, StateTruthful DEF RetryTrash, Load, TrashInv, JournalTruthful, Typed, Book
  <2>4. \A i \in Ops : Truthful(journal'[i], trash, touched)
    BY <1>24 DEF RetryTrash, Load, TrashInv, JournalTruthful
  <2>. QED  BY <2>1, <2>2, <2>3, <2>4, Filing
<1>25. ASSUME NEW o \in Ops, ConfirmTrashed(o) PROVE TrashInv'
  <2>1. UNCHANGED <<trash, touched>>
    BY <1>25 DEF ConfirmTrashed, Load
  <2>2. Guarded'
    BY <1>25 DEF ConfirmTrashed, Load, Guarded
  <2>3. Truthful(record', trash, touched)
    <3>1. PICK vouched \in SUBSET Members :
            /\ \A m \in vouched : trash[m] # "none"
            /\ record' = WithStep(WithState(journal[o], "Restoring"), vouched, "trashed")
      BY <1>25 DEF ConfirmTrashed, Load
    <3> DEFINE r == WithState(journal[o], "Restoring")
    <3>2. r \in OperationRecord /\ Truthful(r, trash, touched)
      BY StateTypes, StateTruthful DEF Typed, Book, TrashInv, JournalTruthful
    <3>3. \A m \in vouched \ touched : trash[m] = "reviewed"
      BY <3>1 DEF TrashInv, TrashContent, Typed, Disk
    <3>4. /\ record'.trashPath = r.trashPath
          /\ \A m \in Members : record'.step[m] = IF m \in vouched THEN "trashed" ELSE r.step[m]
      BY <3>1, <3>2 DEF WithStep, OperationRecord
    <3>. QED  BY <3>2, <3>3, <3>4 DEF Truthful
  <2>4. \A i \in Ops : Truthful(journal'[i], trash, touched)
    BY <1>25 DEF ConfirmTrashed, Load, TrashInv, JournalTruthful
  <2>. QED  BY <2>1, <2>2, <2>3, <2>4, Filing
<1>26. CASE Crash
  <2>1. UNCHANGED <<trash, touched>>
    BY <1>26 DEF Crash, Idle
  <2>2. Guarded'
    BY <1>26 DEF Crash, Idle, Guarded
  <2>3. Truthful(record', trash, touched)
    BY <1>26, UnbornTruthful DEF Crash, Idle, TrashInv, Typed, Book
  <2>4. \A o \in Ops : Truthful(journal'[o], trash, touched)
    BY <1>26 DEF Crash, Idle, TrashInv, JournalTruthful
  <2>. QED  BY <2>1, <2>2, <2>3, <2>4, Filing
<1>. QED
  BY <1>1, <1>2, <1>3, <1>4, <1>5, <1>6, <1>7, <1>8, <1>9, <1>10, <1>11, <1>12, <1>13,
     <1>14, <1>15, <1>16, <1>17, <1>18, <1>19, <1>20, <1>21, <1>22, <1>23, <1>24, <1>25,
     <1>26 DEF Person

\* Trash is asked for a directory that was found complete.
LEMMA AskTrashSafe ==
  ASSUME Typed, TrashInv, AskTrash PROVE TrashInv'
<1> USE DEF disk, loop, history
<1>1. /\ group \in Groups /\ op \in Ops /\ UNCHANGED <<op, journal>>
      /\ record \in OperationRecord /\ Truthful(record, trash, touched) /\ Intact(group)
  BY InUse DEF AskTrash, ExecutingGroup, Typed, Book, TrashInv, Guarded
<1>2. Guarded'
  BY DEF AskTrash, Guarded
<1>3. CASE MoveFolderToTrash(group) /\ \E path \in {group, None} : record' = TrashedAt(group, path)
  <2>1. PICK path \in {group, None} : record' = TrashedAt(group, path)
    BY <1>3
  <2>2. TrashContent' /\ TrashedWhole' /\ InTrash(group, trash', touched')
    BY <1>1, <1>3, Disposed
  <2>3. Truthful(record, trash', touched') /\ JournalTruthful'
    BY <1>1, <1>3, Disposed DEF TrashInv, JournalTruthful
  <2>4. Truthful(record', trash', touched')
    BY <1>1, <2>1, <2>2, <2>3, TrashedTruthful DEF TrashedAt
  <2>. QED  BY <1>2, <2>2, <2>3, <2>4 DEF TrashInv
<1>4. CASE record' = WithState(record, "NeedsRecovery") /\ UNCHANGED <<disk, history>>
  <2>1. Truthful(record', trash, touched)
    BY <1>1, <1>4, StateTruthful
  <2>. QED  BY <1>1, <1>2, <1>4, <2>1, Filing DEF TrashInv, JournalTruthful
<1>. QED  BY <1>3, <1>4 DEF AskTrash

LEMMA RetryGroupSafe ==
  ASSUME Typed, TrashInv, NEW g \in Groups, RetryGroup(g) PROVE TrashInv'
<1> USE DEF disk, loop, history
<1>1. /\ op \in Ops /\ UNCHANGED <<op, journal>> /\ pc = "retry" /\ g \in todo
      /\ record \in OperationRecord /\ Truthful(record, trash, touched)
      /\ todo \subseteq Groups /\ \A h \in todo : Intact(h)
  BY InUse DEF RetryGroup, Typed, Book, Loop, TrashInv, Guarded
<1>2. CASE MoveFolderToTrash(g) /\ todo' = todo \ {g} /\ UNCHANGED pc
           /\ \E path \in {g, None} : record' = TrashedAt(g, path)
  <2>1. PICK path \in {g, None} : record' = TrashedAt(g, path)
    BY <1>2
  <2>2. TrashContent' /\ TrashedWhole' /\ InTrash(g, trash', touched')
    BY <1>1, <1>2, Disposed
  <2>3. Truthful(record, trash', touched') /\ JournalTruthful'
    BY <1>1, <1>2, Disposed DEF TrashInv, JournalTruthful
  <2>4. Truthful(record', trash', touched')
    BY <1>1, <2>1, <2>2, <2>3, TrashedTruthful DEF TrashedAt
  <2>5. Guarded'
    <3>1. \A h \in todo \ {g} : (Intact(h))'
      BY <1>1, <1>2, Disposed
    <3>. QED  BY <1>1, <1>2, <3>1 DEF Guarded
  <2>. QED  BY <2>2, <2>3, <2>4, <2>5 DEF TrashInv
<1>3. CASE record' = RetryRefused(g) /\ pc' = "settle" /\ UNCHANGED <<disk, history, todo>>
  <2>1. Truthful(record', trash, touched)
    BY <1>1, <1>3, PathTruthful DEF RetryRefused
  <2>2. Guarded'
    BY <1>3 DEF Guarded
  <2>. QED  BY <1>1, <1>3, <2>1, <2>2, Filing DEF TrashInv, JournalTruthful
<1>. QED  BY <1>2, <1>3 DEF RetryGroup

\* Other programs reach only what they are on record for.
LEMMA OthersSafe ==
  ASSUME Typed, TrashInv, Others PROVE TrashInv'
<1> USE DEF disk, loop, history
<1> DEFINE Tame ==
      /\ touched \subseteq touched' /\ UNCHANGED <<trash, journal, record, pc, op, group, todo>>
      /\ \A o \in Ops : \A m \in Members \ touched' :
           staging[o][m] = "reviewed" => staging'[o][m] = "reviewed"
<1>1. Tame
  <2>1. ASSUME NEW m \in Touchable, DisturbSource(m) PROVE Tame
    BY <2>1 DEF DisturbSource, Undisturbed
  <2>2. ASSUME NEW m \in Touchable, NEW o \in Ops, DisturbStaging(o, m) PROVE Tame
    BY <2>2, ConstantsAssumption DEF DisturbStaging, Undisturbed, Typed, Disk
  <2>3. ASSUME NEW o \in Ops, NEW g \in Groups, RemoveFolder(o, g) PROVE Tame
    BY <2>3 DEF RemoveFolder
  <2>. QED  BY <2>1, <2>2, <2>3, ConstantsAssumption DEF Others
<1>2. TrashContent' /\ TrashedWhole'
  BY <1>1 DEF TrashInv, TrashContent, TrashedWhole
<1>3. Truthful(record', trash', touched') /\ JournalTruthful'
  BY <1>1, TouchedTruthful DEF TrashInv, JournalTruthful
<1>4. Guarded'
  <2>1. pc # "idle" => op \in Ops
    BY InUse
  <2>. QED  BY <1>1, <2>1 DEF TrashInv, Guarded, Intact, Files
<1>. QED  BY <1>2, <1>3, <1>4 DEF TrashInv

LEMMA TrashInvNext == Typed /\ TrashInv /\ [Next]_vars => TrashInv'
<1> SUFFICES ASSUME Typed, TrashInv, [Next]_vars PROVE TrashInv'
  OBVIOUS
<1>1. ASSUME NEW g \in Groups, RetryGroup(g) PROVE TrashInv'
  BY <1>1, RetryGroupSafe
<1>2. CASE AskTrash
  BY <1>2, AskTrashSafe
<1>3. CASE Others
  BY <1>3, OthersSafe
<1>4. CASE UNCHANGED vars
  BY <1>4 DEF vars, disk, loop, history, TrashInv, Guarded, Intact, TrashContent, TrashedWhole,
             JournalTruthful
<1>. QED  BY <1>1, <1>2, <1>3, <1>4, FilingSteps DEF Next, Run

LEMMA TrashInvInit == Init => TrashInv
BY UnbornTruthful DEF Init, TrashInv, Guarded, TrashContent, TrashedWhole, JournalTruthful

\* A photo goes to Trash whole, across refusals, crashes, recovery and the
\* interference of other programs with any file.
THEOREM TrashTakesPhotosWhole == Spec => []TrashedWhole
<1>1. TrashInv => TrashedWhole
  BY DEF TrashInv
<1>. QED  BY InitTyped, NextTyped, TrashInvInit, TrashInvNext, <1>1, PTL DEF Spec

\* A journal never says that a file is in Trash when it is not.
THEOREM JournalIsTruthful == Spec => []TrashedRecordIsTrue
<1>1. TrashInv => TrashedRecordIsTrue
  BY DEF TrashInv, JournalTruthful, Truthful, TrashedRecordIsTrue
<1>. QED  BY InitTyped, NextTyped, TrashInvInit, TrashInvNext, <1>1, PTL DEF Spec

(***************************************************************************)
(* The records of operations: what they say of a photo and how they change.*)
(***************************************************************************)

\* What WithStep and WithState change of a record, and what they leave.
LEMMA StepOf ==
  ASSUME NEW r \in OperationRecord, NEW ms, NEW s
  PROVE  /\ \A m \in Members : WithStep(r, ms, s).step[m] = IF m \in ms THEN s ELSE r.step[m]
         /\ WithStep(r, ms, s).plan = r.plan /\ WithStep(r, ms, s).state = r.state
         /\ WithStep(r, ms, s).trashPath = r.trashPath
BY DEF WithStep, OperationRecord

LEMMA StateOf ==
  ASSUME NEW r \in OperationRecord, NEW s
  PROVE  /\ WithState(r, s).step = r.step /\ WithState(r, s).plan = r.plan
         /\ WithState(r, s).state = s /\ WithState(r, s).trashPath = r.trashPath
BY DEF WithState, OperationRecord

\* No file of photo g is in Trash.
Untrashed(r, g) == \A m \in Files(g) : r.step[m] # "trashed"

\* A photo is in Trash whole or not at all, only planned photos have moved, and
\* what is complete is all in Trash.
Sound(r) ==
  /\ \A m, n \in Members : (GroupOf[m] = GroupOf[n] /\ r.step[m] = "trashed") => r.step[n] = "trashed"
  /\ \A m \in Members : r.step[m] # "planned" => GroupOf[m] \in r.plan
  /\ r.state = "Completed" => \A g \in r.plan : AllAt(r, g, "trashed")
  /\ r.state = "Unborn" => r.plan = {}

\* What follows s from r takes nothing back.
Follows(s, r) ==
  /\ r.plan \subseteq s.plan
  /\ \A m \in Members : r.step[m] = "trashed" => s.step[m] = "trashed"

\* The same, of the same plan.
Continues(s, r) == Follows(s, r) /\ s.plan = r.plan

USE DEF Continues

\* s is a later form of r: the plan is the same and nothing is taken back.
Builds(s, r) ==
  /\ s \in OperationRecord /\ Sound(s) /\ Follows(s, r) /\ s.plan = r.plan

\* The record that JournalTrashing leaves: the steps are what they were.
LEMMA TrashingOf ==
  ASSUME record \in OperationRecord, JournalTrashing
  PROVE  /\ record' \in OperationRecord /\ record'.step = record.step /\ record'.plan = record.plan
         /\ record'.state \in {"Trashing", "NeedsRecovery"}
         /\ pc' = "persist" => record'.state = "NeedsRecovery"
<1> DEFINE w == [record EXCEPT !.state = "Trashing", !.trashPath = None]
<1>1. w \in OperationRecord /\ w.step = record.step /\ w.plan = record.plan /\ w.state = "Trashing"
  BY DEF OperationRecord
<1>2. \/ record' = w /\ pc' # "persist"
      \/ record' = WithState(w, "NeedsRecovery")
  BY DEF JournalTrashing
<1> HIDE DEF w
<1>. QED BY <1>1, <1>2, StateOf, StateTypes

\* The record of a retry that was refused: the steps are what they were.
LEMMA RefusedOf ==
  ASSUME record \in OperationRecord, NEW g
  PROVE  /\ RetryRefused(g) \in OperationRecord /\ RetryRefused(g).step = record.step
         /\ RetryRefused(g).plan = record.plan /\ RetryRefused(g).state = "NeedsRecovery"
BY DEF RetryRefused, OperationRecord

\* A sound record stays sound when only its state changes ...
LEMMA Restated ==
  ASSUME NEW r \in OperationRecord, Sound(r), NEW s \in OperationRecord,
         s.step = r.step, s.plan = r.plan, s.state \notin {"Unborn", "Completed"}
  PROVE  Builds(s, r) /\ \A g : Untrashed(r, g) => Untrashed(s, g)
BY DEF Builds, Sound, Follows, AllAt, Untrashed

\* ... in particular to Completed, when all of its photos are in Trash ...
LEMMA StateSound ==
  ASSUME NEW r \in OperationRecord, Sound(r), NEW s \in State \ {"Unborn"},
         s = "Completed" => \A g \in r.plan : AllAt(r, g, "trashed")
  PROVE  Builds(WithState(r, s), r) /\ WithState(r, s).state = s
BY StateOf, StateTypes DEF Builds, Sound, Follows, AllAt

\* ... when all the files of a photo are marked as trashed at once ...
LEMMA GroupSound ==
  ASSUME NEW r \in OperationRecord, Sound(r), NEW g \in r.plan, r.state \notin {"Completed", "Unborn"}
  PROVE  LET s == WithStep(r, Files(g), "trashed") IN
         /\ Builds(s, r)
         /\ \A h : h # g /\ Untrashed(r, h) => Untrashed(s, h)
         /\ AllAt(s, g, "trashed")
BY StepOf, StepTypes, ConstantsAssumption DEF Builds, Sound, Follows, AllAt, Untrashed, Files

LEMMA TrashedSound ==
  ASSUME record \in OperationRecord, Sound(record), NEW g \in record.plan, NEW path \in {g, None},
         record.state \notin {"Completed", "Unborn"}
  PROVE  /\ Builds(TrashedAt(g, path), record)
         /\ \A h : h # g /\ Untrashed(record, h) => Untrashed(TrashedAt(g, path), h)
         /\ AllAt(TrashedAt(g, path), g, "trashed")
         /\ TrashedAt(g, path).state = record.state
<1> DEFINE s == WithStep(record, Files(g), "trashed")
<1>1. s \in OperationRecord /\ s.state = record.state /\ s.plan = record.plan
  BY StepTypes, StepOf
<1>2. /\ TrashedAt(g, path).step = s.step /\ TrashedAt(g, path).plan = s.plan
      /\ TrashedAt(g, path).state = s.state /\ TrashedAt(g, path) \in OperationRecord
  <2>1. g \in Groups
    BY DEF OperationRecord
  <2>. QED BY <1>1, <2>1, TrashedTypes DEF TrashedAt, OperationRecord
<1>3. /\ Builds(s, record) /\ AllAt(s, g, "trashed")
      /\ \A h : h # g /\ Untrashed(record, h) => Untrashed(s, h)
  BY GroupSound
<1>. QED BY <1>1, <1>2, <1>3 DEF Builds, Sound, Follows, AllAt, Untrashed

\* ... and when files of a photo that is not in Trash are marked as anything else.
LEMMA StepBuilds ==
  ASSUME record \in OperationRecord, Sound(record), record.state \notin {"Completed", "Unborn"},
         NEW g \in record.plan, Untrashed(record, g), NEW ms \in SUBSET Files(g)
  PROVE  \A s \in {"planned", "staged", "restored", "uncertain"} :
           /\ WithStep(record, ms, s) \in OperationRecord /\ Builds(WithStep(record, ms, s), record)
           /\ WithStep(record, ms, s).state = record.state
           /\ \A h \in Groups : Untrashed(record, h) => Untrashed(WithStep(record, ms, s), h)
<1>1. ms \subseteq Members
  BY DEF Files
<1>. QED BY <1>1, StepOf, StepTypes, ConstantsAssumption
         DEF Builds, Sound, Follows, AllAt, Untrashed, Files

\* The steps of a run that has not asked Trash for the photo at hand, and those
\* of a recovery.
BeforeTrash == {"intent", "rename", "move", "confirm", "putback", "returning", "verify",
                "staged", "trashing", "trash"}
Recovering == {"survey", "restore", "restoring", "retry"}

\* The records are sound ...
Booked == Sound(record) /\ \A o \in Ops : Sound(journal[o])

\* ... the one in memory is ahead of the row of its operation ...
Ahead ==
  /\ pc # "idle" => /\ Continues(record, journal[op]) /\ record.state # "Unborn" /\ todo \subseteq record.plan
  /\ pc \notin {"idle", "settle"} => record.state # "Completed"

\* ... nothing is in Trash of the photos that are still to be done ...
Due ==
  /\ pc \in BeforeTrash \cup Recovering \cup {"group"} => \A g \in todo : Untrashed(record, g)
  /\ pc \in {"trashed", "persist"} => \A g \in todo \ {group} : Untrashed(record, g)

\* ... and those that are not are in Trash.
Done ==
  /\ pc \in BeforeTrash \cup {"group", "trashed", "persist", "retry", "complete"} =>
       \A g \in record.plan \ todo : AllAt(record, g, "trashed")
  /\ pc = "trashed" => AllAt(record, group, "trashed")
  /\ pc = "persist" => StoppedWithRecoverableWork(record) \/ AllAt(record, group, "trashed")
  /\ pc = "complete" => todo = {}

RecordInv == Booked /\ Ahead /\ Due /\ Done

\* No row takes anything back.
JournalGrows == \A o \in Ops : Follows(journal'[o], journal[o])

\* A step of a run on its record, which it may save in one form or another.
LEMMA Filed ==
  ASSUME Typed, RecordInv, pc # "idle", op' = op, Builds(record', record),
         \/ UNCHANGED journal
         \/ \E r \in OperationRecord : Save(r) /\ Builds(r, record) /\ Follows(record', r)
  PROVE  Booked' /\ JournalGrows /\ Continues(record', journal'[op'])
<1>1. op \in Ops /\ Continues(record, journal[op])
  BY InUse DEF RecordInv, Ahead
<1>2. CASE UNCHANGED journal
  BY <1>1, <1>2 DEF Booked, JournalGrows, Builds, Follows, RecordInv
<1>3. ASSUME NEW r \in OperationRecord, Save(r), Builds(r, record), Follows(record', r)
      PROVE  Booked' /\ JournalGrows /\ Continues(record', journal'[op'])
  <2>1. \A o \in Ops : journal'[o] = IF o = op THEN r ELSE journal[o]
    BY <1>3 DEF Save, Typed, Book
  <2>. QED BY <1>1, <1>3, <2>1 DEF Booked, JournalGrows, Builds, Follows, RecordInv
<1>. QED BY <1>2, <1>3

\* A run ends.
LEMMA Ended ==
  ASSUME Typed, RecordInv, op \in Ops, Idle,
         \/ UNCHANGED journal
         \/ \E r \in OperationRecord : Save(r) /\ Builds(r, record) /\ pc # "idle"
  PROVE  RecordInv' /\ JournalGrows
<1>1. Sound(Unborn)
  BY DEF Unborn, Sound
<1>2. Booked' /\ JournalGrows
  <2>1. CASE UNCHANGED journal
    BY <1>1, <2>1 DEF Idle, Booked, JournalGrows, Follows, RecordInv
  <2>2. ASSUME NEW r \in OperationRecord, Save(r), Builds(r, record), pc # "idle"
        PROVE  Booked' /\ JournalGrows
    <3>1. \A o \in Ops : journal'[o] = IF o = op THEN r ELSE journal[o]
      BY <2>2 DEF Save, Typed, Book
    <3>2. Continues(record, journal[op])
      BY <2>2 DEF RecordInv, Ahead
    <3>. QED BY <1>1, <2>2, <3>1, <3>2 DEF Idle, Booked, JournalGrows, Builds, Follows, RecordInv
  <2>. QED BY <2>1, <2>2
<1>. QED BY <1>2 DEF RecordInv, Ahead, Due, Done, Idle, BeforeTrash, Recovering

\* A row is loaded.
LEMMA Loaded ==
  ASSUME Typed, RecordInv, NEW o \in Ops, NEW r \in OperationRecord, NEW next \in {"survey", "retry", "settle"},
         Load(o, r, next), Builds(r, journal[o]), r.state \notin {"Unborn", "Completed"}
  PROVE  RecordInv' /\ JournalGrows
<1>1. /\ record' = r /\ op' = o /\ pc' = next /\ todo' = r.plan \ Trashed(r) /\ UNCHANGED journal
  BY DEF Load
<1>2. Booked' /\ JournalGrows
  BY <1>1 DEF RecordInv, Booked, JournalGrows, Builds, Follows
<1>3. Ahead'
  BY <1>1 DEF Ahead, Builds
<1>4. Due'
  <2>1. \A g \in r.plan \ Trashed(r) : Untrashed(r, g)
    BY ConstantsAssumption DEF Builds, Sound, Untrashed, Trashed, AllAt, Files
  <2>. QED BY <1>1, <2>1 DEF Due, BeforeTrash
<1>5. Done'
  BY <1>1 DEF Done, BeforeTrash, Trashed
<1>. QED BY <1>2, <1>3, <1>4, <1>5 DEF RecordInv

\* Every step keeps the records sound, and no journal row takes anything back.
LEMMA RecordSteps ==
  ASSUME Typed, RecordInv, [Next]_vars PROVE RecordInv' /\ JournalGrows
<1> USE DEF disk, loop, history
<1>1. ASSUME NEW g \in Groups, OpenGroup(g) PROVE RecordInv' /\ JournalGrows
  <2>1. /\ pc # "idle" /\ op' = op /\ record \in OperationRecord /\ Sound(record)
        /\ record.state \notin {"Unborn", "Completed"} /\ todo \subseteq record.plan /\ todo \subseteq Groups
    BY <1>1 DEF OpenGroup, Typed, Book, Loop, RecordInv, Booked, Ahead
  <2>2. /\ record' \in OperationRecord /\ record'.step = record.step /\ record'.plan = record.plan
        /\ record'.state \notin {"Unborn", "Completed"}
        /\ pc' = "persist" => StoppedWithRecoverableWork(record')
    BY <1>1, <2>1, StateOf, StateTypes DEF OpenGroup, StoppedWithRecoverableWork
  <2>3. Builds(record', record) /\ \A h \in Groups : Untrashed(record, h) => Untrashed(record', h)
    BY <2>1, <2>2, Restated
  <2>4. UNCHANGED journal
    BY <1>1 DEF OpenGroup
  <2>5. Booked' /\ JournalGrows /\ Continues(record', journal'[op'])
    BY <2>1, <2>3, <2>4, Filed DEF Builds, Follows
  <2>6. Ahead'
    BY <1>1, <2>1, <2>2, <2>3, <2>5 DEF OpenGroup, Ahead, Builds
  <2>7. Due'
    BY <1>1, <2>1, <2>3 DEF OpenGroup, RecordInv, Due, BeforeTrash, Recovering
  <2>8. Done'
    BY <1>1, <2>1, <2>2, <2>3 DEF OpenGroup, RecordInv, Done, Builds, Follows, AllAt, Files,
          BeforeTrash, Recovering
  <2>. QED BY <2>5, <2>6, <2>7, <2>8 DEF RecordInv
<1>2. ASSUME NEW g \in Groups, SurveyGroup(g) PROVE RecordInv' /\ JournalGrows
  <2>1. /\ pc # "idle" /\ op' = op /\ record \in OperationRecord /\ Sound(record)
        /\ record.state \notin {"Unborn", "Completed"} /\ todo \subseteq record.plan /\ todo \subseteq Groups
    BY <1>2 DEF SurveyGroup, Typed, Book, Loop, RecordInv, Booked, Ahead
  <2>2. record' = record
    BY <1>2 DEF SurveyGroup, AbortStaging
  <2>3. Builds(record', record) /\ \A h \in Groups : Untrashed(record, h) => Untrashed(record', h)
    BY <2>1, <2>2, Restated
  <2>4. UNCHANGED journal
    BY <1>2 DEF SurveyGroup, AbortStaging
  <2>5. Booked' /\ JournalGrows /\ Continues(record', journal'[op'])
    BY <2>1, <2>3, <2>4, Filed DEF Builds, Follows
  <2>6. Ahead'
    BY <1>2, <2>1, <2>2, <2>3, <2>5 DEF SurveyGroup, Ahead, Builds
  <2>7. Due'
    BY <1>2, <2>1, <2>3 DEF SurveyGroup, RecordInv, Due, BeforeTrash, Recovering
  <2>8. Done'
    BY <1>2, <2>1, <2>2, <2>3 DEF SurveyGroup, RecordInv, Done, Builds, Follows, AllAt, Files,
          BeforeTrash, Recovering
  <2>. QED BY <2>5, <2>6, <2>7, <2>8 DEF RecordInv
<1>3. ASSUME NEW g \in Groups, RetryGroup(g) PROVE RecordInv' /\ JournalGrows
  <2>1. /\ pc # "idle" /\ op' = op /\ op \in Ops /\ record \in OperationRecord /\ Sound(record)
        /\ record.state \notin {"Unborn", "Completed"} /\ todo \subseteq record.plan /\ todo \subseteq Groups
    BY <1>3, InUse DEF RetryGroup, Typed, Book, Loop, RecordInv, Booked, Ahead
  <2>2. /\ Builds(record', record) /\ record'.state \notin {"Unborn", "Completed"}
        /\ todo' \subseteq todo /\ UNCHANGED journal
        /\ pc' = "retry" => todo' = todo \ {g} /\ AllAt(record', g, "trashed")
        /\ \A h \in todo' : Untrashed(record, h) => Untrashed(record', h)
    <3>1. CASE MoveFolderToTrash(g) /\ todo' = todo \ {g} /\ UNCHANGED pc
      <4>1. PICK path \in {g, None} : record' = TrashedAt(g, path)
        BY <1>3, <3>1 DEF RetryGroup
      <4>2. g \in record.plan
        BY <1>3, <2>1 DEF RetryGroup
      <4>. QED BY <1>3, <2>1, <3>1, <4>1, <4>2, TrashedSound DEF RetryGroup
    <3>2. CASE record' = RetryRefused(g) /\ pc' = "settle" /\ UNCHANGED todo
      <4>1. /\ record' \in OperationRecord /\ record'.step = record.step
            /\ record'.plan = record.plan /\ record'.state = "NeedsRecovery"
        BY <2>1, <3>2, RefusedOf
      <4>. QED BY <1>3, <2>1, <3>2, <4>1, Restated DEF RetryGroup
    <3>. QED BY <1>3, <3>1, <3>2 DEF RetryGroup
  <2>3. Booked' /\ JournalGrows /\ Continues(record', journal'[op'])
    BY <2>1, <2>2, Filed
  <2>4. pc' \in {"retry", "settle"} /\ pc = "retry"
    BY <1>3 DEF RetryGroup
  <2>5. Ahead'
    BY <2>1, <2>2, <2>3, <2>4 DEF Ahead, Builds
  <2>6. Due'
    BY <2>2, <2>4 DEF RecordInv, Due, BeforeTrash, Recovering
  <2>7. Done'
    BY <2>2, <2>4 DEF RecordInv, Done, Builds, Follows, AllAt, Files, BeforeTrash
  <2>. QED BY <2>3, <2>5, <2>6, <2>7 DEF RecordInv
<1>4. ASSUME NEW m \in Members, CheckStagingPath(m) PROVE RecordInv' /\ JournalGrows
  <2>1. /\ pc # "idle" /\ op' = op /\ record \in OperationRecord /\ Sound(record)
        /\ record.state \notin {"Unborn", "Completed"} /\ todo \subseteq record.plan /\ todo \subseteq Groups
    BY <1>4 DEF CheckStagingPath, AbortStaging, Moved, Typed, Book, Loop, RecordInv, Booked, Ahead
  <2>2. record' = record
    BY <1>4 DEF CheckStagingPath, AbortStaging
  <2>3. Builds(record', record) /\ \A h \in Groups : Untrashed(record, h) => Untrashed(record', h)
    BY <2>1, <2>2, Restated
  <2>4. UNCHANGED journal
    BY <1>4 DEF CheckStagingPath, AbortStaging
  <2>5. Booked' /\ JournalGrows /\ Continues(record', journal'[op'])
    BY <2>1, <2>3, <2>4, Filed DEF Builds, Follows
  <2>6. Ahead'
    BY <1>4, <2>1, <2>2, <2>3, <2>5 DEF CheckStagingPath, AbortStaging, Moved, Ahead, Builds
  <2>7. Due'
    BY <1>4, <2>1, <2>3 DEF CheckStagingPath, AbortStaging, Moved, RecordInv, Due, BeforeTrash,
          Recovering
  <2>8. Done'
    BY <1>4, <2>1, <2>2, <2>3 DEF CheckStagingPath, AbortStaging, Moved, RecordInv, Done, Builds,
          Follows, AllAt, Files, BeforeTrash, Recovering
  <2>. QED BY <2>5, <2>6, <2>7, <2>8 DEF RecordInv
<1>5. ASSUME NEW m \in Members, CheckPutBack(m) PROVE RecordInv' /\ JournalGrows
  <2>1. /\ pc # "idle" /\ op' = op /\ record \in OperationRecord /\ Sound(record)
        /\ record.state \notin {"Unborn", "Completed"} /\ todo \subseteq record.plan /\ todo \subseteq Groups
    BY <1>5 DEF CheckPutBack, Typed, Book, Loop, RecordInv, Booked, Ahead
  <2>2. record' = record
    BY <1>5 DEF CheckPutBack, AbortStaging
  <2>3. Builds(record', record) /\ \A h \in Groups : Untrashed(record, h) => Untrashed(record', h)
    BY <2>1, <2>2, Restated
  <2>4. UNCHANGED journal
    BY <1>5 DEF CheckPutBack, AbortStaging
  <2>5. Booked' /\ JournalGrows /\ Continues(record', journal'[op'])
    BY <2>1, <2>3, <2>4, Filed DEF Builds, Follows
  <2>6. Ahead'
    BY <1>5, <2>1, <2>2, <2>3, <2>5 DEF CheckPutBack, Ahead, Builds
  <2>7. Due'
    BY <1>5, <2>1, <2>3 DEF CheckPutBack, RecordInv, Due, BeforeTrash, Recovering
  <2>8. Done'
    BY <1>5, <2>1, <2>2, <2>3 DEF CheckPutBack, RecordInv, Done, Builds, Follows, AllAt, Files,
          BeforeTrash, Recovering
  <2>. QED BY <2>5, <2>6, <2>7, <2>8 DEF RecordInv
<1>6. ASSUME NEW m \in Members, ExamineMember(m) PROVE RecordInv' /\ JournalGrows
  <2>1. /\ pc # "idle" /\ op' = op /\ record \in OperationRecord /\ Sound(record)
        /\ record.state \notin {"Unborn", "Completed"} /\ todo \subseteq record.plan /\ todo \subseteq Groups
    BY <1>6 DEF ExamineMember, Typed, Book, Loop, RecordInv, Booked, Ahead
  <2>2. group \in record.plan /\ Untrashed(record, group)
    BY <1>6, <2>1, InUse DEF ExamineMember, RecordInv, Due, BeforeTrash, Recovering,
          ExecutingGroup, RestoringGroup
  <2>3. /\ Builds(record', record) /\ record'.state \notin {"Unborn", "Completed"}
        /\ \A h \in Groups : Untrashed(record, h) => Untrashed(record', h)
        /\ pc' = "persist" => StoppedWithRecoverableWork(record')
    <3>1. {m} \in SUBSET Files(group)
      BY <1>6, InUse DEF ExamineMember, Renaming, Going
    <3>2. CASE record' = WithStep(record, {m}, "planned")
      BY <1>6, <2>1, <2>2, <3>1, <3>2, StepBuilds DEF ExamineMember, AbortStaging
    <3>3. CASE record' = record
      BY <1>6, <2>1, <3>3, Restated DEF ExamineMember, AbortStaging
    <3>. QED BY <1>6, <3>2, <3>3 DEF ExamineMember
  <2>4. UNCHANGED journal
    BY <1>6 DEF ExamineMember, AbortStaging
  <2>5. Booked' /\ JournalGrows /\ Continues(record', journal'[op'])
    BY <2>1, <2>3, <2>4, Filed DEF Builds, Follows
  <2>6. Ahead'
    BY <1>6, <2>1, <2>2, <2>3, <2>5 DEF ExamineMember, Ahead, Builds
  <2>7. Due'
    BY <1>6, <2>1, <2>3 DEF ExamineMember, RecordInv, Due, BeforeTrash, Recovering
  <2>8. Done'
    BY <1>6, <2>1, <2>2, <2>3 DEF ExamineMember, RecordInv, Done, Builds, Follows, AllAt, Files,
          BeforeTrash, Recovering
  <2>. QED BY <2>5, <2>6, <2>7, <2>8 DEF RecordInv
<1>7. CASE RecordStagingIntent
  <2>1. /\ pc # "idle" /\ op' = op /\ record \in OperationRecord /\ Sound(record)
        /\ record.state \notin {"Unborn", "Completed"} /\ todo \subseteq record.plan /\ todo \subseteq Groups
    BY <1>7 DEF RecordStagingIntent, Save, Typed, Book, Loop, RecordInv, Booked, Ahead
  <2>2. group \in record.plan /\ Untrashed(record, group)
    BY <1>7, <2>1, InUse DEF RecordStagingIntent, RecordInv, Due, BeforeTrash, Recovering,
          ExecutingGroup, RestoringGroup
  <2>3. /\ Builds(record', record) /\ record'.state \notin {"Unborn", "Completed"}
        /\ \A h \in Groups : Untrashed(record, h) => Untrashed(record', h)
        /\ pc' = "persist" => StoppedWithRecoverableWork(record')
    <3> DEFINE intent == WithStep(record, Files(group), "planned")
    <3>1. /\ intent \in OperationRecord /\ Builds(intent, record) /\ intent.state = record.state
          /\ \A h \in Groups : Untrashed(record, h) => Untrashed(intent, h)
      BY <2>1, <2>2, StepBuilds
    <3>2. CASE record' = intent /\ pc' # "persist"
      BY <2>1, <3>1, <3>2
    <3>3. CASE record' = WithState(intent, "Failed")
      <4>1. /\ record' \in OperationRecord /\ record'.step = intent.step /\ record'.plan = intent.plan
            /\ record'.state = "Failed"
        BY <3>1, <3>3, StateOf, StateTypes
      <4>2. Builds(record', intent) /\ \A h \in Groups : Untrashed(intent, h) => Untrashed(record', h)
        BY <3>1, <4>1, Restated DEF Builds
      <4>. QED BY <3>1, <4>1, <4>2 DEF Builds, Follows, StoppedWithRecoverableWork
    <3>. QED BY <1>7, <3>2, <3>3 DEF RecordStagingIntent
  <2>4. UNCHANGED journal \/ Save(record')
    BY <1>7 DEF RecordStagingIntent
  <2>5. Booked' /\ JournalGrows /\ Continues(record', journal'[op'])
    BY <2>1, <2>3, <2>4, Filed DEF Builds, Follows
  <2>6. Ahead'
    BY <1>7, <2>1, <2>2, <2>3, <2>5 DEF RecordStagingIntent, Save, Ahead, Builds
  <2>7. Due'
    BY <1>7, <2>1, <2>3 DEF RecordStagingIntent, Save, RecordInv, Due, BeforeTrash, Recovering
  <2>8. Done'
    BY <1>7, <2>1, <2>2, <2>3 DEF RecordStagingIntent, Save, RecordInv, Done, Builds, Follows,
          AllAt, Files, BeforeTrash, Recovering
  <2>. QED BY <2>5, <2>6, <2>7, <2>8 DEF RecordInv
<1>8. CASE StageMember
  <2>1. /\ pc # "idle" /\ op' = op /\ record \in OperationRecord /\ Sound(record)
        /\ record.state \notin {"Unborn", "Completed"} /\ todo \subseteq record.plan /\ todo \subseteq Groups
    BY <1>8 DEF StageMember, AbortStaging, Moved, MoveToStaging, Typed, Book, Loop, RecordInv,
          Booked, Ahead
  <2>2. group \in record.plan /\ Untrashed(record, group)
    BY <1>8, <2>1, InUse DEF StageMember, RecordInv, Due, BeforeTrash, Recovering, ExecutingGroup,
          RestoringGroup
  <2>3. /\ Builds(record', record) /\ record'.state \notin {"Unborn", "Completed"}
        /\ \A h \in Groups : Untrashed(record, h) => Untrashed(record', h)
        /\ pc' = "persist" => StoppedWithRecoverableWork(record')
    <3>1. {member} \in SUBSET Files(group)
      BY <1>8, InUse DEF StageMember, Renaming, Going
    <3>2. CASE record' = WithStep(record, {member}, "staged")
      BY <1>8, <2>1, <2>2, <3>1, <3>2, StepBuilds DEF StageMember, AbortStaging
    <3>3. CASE record' = record
      BY <1>8, <2>1, <3>3, Restated DEF StageMember, AbortStaging
    <3>. QED BY <1>8, <3>2, <3>3 DEF StageMember
  <2>4. UNCHANGED journal
    BY <1>8 DEF StageMember, AbortStaging
  <2>5. Booked' /\ JournalGrows /\ Continues(record', journal'[op'])
    BY <2>1, <2>3, <2>4, Filed DEF Builds, Follows
  <2>6. Ahead'
    BY <1>8, <2>1, <2>2, <2>3, <2>5 DEF StageMember, AbortStaging, Moved, MoveToStaging, Ahead,
          Builds
  <2>7. Due'
    BY <1>8, <2>1, <2>3 DEF StageMember, AbortStaging, Moved, MoveToStaging, RecordInv, Due,
          BeforeTrash, Recovering
  <2>8. Done'
    BY <1>8, <2>1, <2>2, <2>3 DEF StageMember, AbortStaging, Moved, MoveToStaging, RecordInv, Done,
          Builds, Follows, AllAt, Files, BeforeTrash, Recovering
  <2>. QED BY <2>5, <2>6, <2>7, <2>8 DEF RecordInv
<1>9. CASE ConfirmMove
  <2>1. /\ pc # "idle" /\ op' = op /\ record \in OperationRecord /\ Sound(record)
        /\ record.state \notin {"Unborn", "Completed"} /\ todo \subseteq record.plan /\ todo \subseteq Groups
    BY <1>9 DEF ConfirmMove, Save, Typed, Book, Loop, RecordInv, Booked, Ahead
  <2>2. /\ record' \in OperationRecord /\ record'.step = record.step /\ record'.plan = record.plan
        /\ record'.state \notin {"Unborn", "Completed"}
        /\ pc' = "persist" => StoppedWithRecoverableWork(record')
    BY <1>9, <2>1, StateOf, StateTypes DEF ConfirmMove, StoppedWithRecoverableWork
  <2>3. Builds(record', record) /\ \A h \in Groups : Untrashed(record, h) => Untrashed(record', h)
    BY <2>1, <2>2, Restated
  <2>4. UNCHANGED journal \/ Save(record')
    BY <1>9 DEF ConfirmMove
  <2>5. Booked' /\ JournalGrows /\ Continues(record', journal'[op'])
    BY <2>1, <2>3, <2>4, Filed DEF Builds, Follows
  <2>6. Ahead'
    BY <1>9, <2>1, <2>2, <2>3, <2>5 DEF ConfirmMove, Save, Ahead, Builds
  <2>7. Due'
    BY <1>9, <2>1, <2>3 DEF ConfirmMove, Save, RecordInv, Due, BeforeTrash, Recovering
  <2>8. Done'
    BY <1>9, <2>1, <2>2, <2>3 DEF ConfirmMove, Save, RecordInv, Done, Builds, Follows, AllAt,
          Files, BeforeTrash, Recovering
  <2>. QED BY <2>5, <2>6, <2>7, <2>8 DEF RecordInv
<1>10. CASE PutBackMember
  <2>1. /\ pc # "idle" /\ op' = op /\ record \in OperationRecord /\ Sound(record)
        /\ record.state \notin {"Unborn", "Completed"} /\ todo \subseteq record.plan /\ todo \subseteq Groups
    BY <1>10 DEF PutBackMember, MoveToSource, Typed, Book, Loop, RecordInv, Booked, Ahead
  <2>2. group \in record.plan /\ Untrashed(record, group)
    BY <1>10, <2>1, InUse DEF PutBackMember, RecordInv, Due, BeforeTrash, Recovering,
          ExecutingGroup, RestoringGroup
  <2>3. /\ Builds(record', record) /\ record'.state \notin {"Unborn", "Completed"}
        /\ \A h \in Groups : Untrashed(record, h) => Untrashed(record', h)
        /\ pc' = "persist" => StoppedWithRecoverableWork(record')
    <3>1. {member} \in SUBSET Files(group)
      BY <1>10, InUse DEF PutBackMember, Renaming, Going
    <3>2. CASE record' = WithStep(record, {member}, "restored")
      BY <1>10, <2>1, <2>2, <3>1, <3>2, StepBuilds DEF PutBackMember, AbortStaging
    <3>3. CASE record' = record
      BY <1>10, <2>1, <3>3, Restated DEF PutBackMember, AbortStaging
    <3>. QED BY <1>10, <3>2, <3>3 DEF PutBackMember
  <2>4. UNCHANGED journal
    BY <1>10 DEF PutBackMember, AbortStaging
  <2>5. Booked' /\ JournalGrows /\ Continues(record', journal'[op'])
    BY <2>1, <2>3, <2>4, Filed DEF Builds, Follows
  <2>6. Ahead'
    BY <1>10, <2>1, <2>2, <2>3, <2>5 DEF PutBackMember, MoveToSource, Ahead, Builds
  <2>7. Due'
    BY <1>10, <2>1, <2>3 DEF PutBackMember, MoveToSource, RecordInv, Due, BeforeTrash, Recovering
  <2>8. Done'
    BY <1>10, <2>1, <2>2, <2>3 DEF PutBackMember, MoveToSource, RecordInv, Done, Builds, Follows,
          AllAt, Files, BeforeTrash, Recovering
  <2>. QED BY <2>5, <2>6, <2>7, <2>8 DEF RecordInv
<1>11. CASE AbortDone
  <2>1. /\ pc # "idle" /\ op' = op /\ record \in OperationRecord /\ Sound(record)
        /\ record.state \notin {"Unborn", "Completed"} /\ todo \subseteq record.plan /\ todo \subseteq Groups
    BY <1>11 DEF AbortDone, AbortedState, Typed, Book, Loop, RecordInv, Booked, Ahead
  <2>2. /\ record' \in OperationRecord /\ record'.step = record.step /\ record'.plan = record.plan
        /\ record'.state \notin {"Unborn", "Completed"}
        /\ pc' = "persist" => StoppedWithRecoverableWork(record')
    BY <1>11, <2>1, StateOf, StateTypes DEF AbortDone, AbortedState, StoppedWithRecoverableWork
  <2>3. Builds(record', record) /\ \A h \in Groups : Untrashed(record, h) => Untrashed(record', h)
    BY <2>1, <2>2, Restated
  <2>4. UNCHANGED journal
    BY <1>11 DEF AbortDone
  <2>5. Booked' /\ JournalGrows /\ Continues(record', journal'[op'])
    BY <2>1, <2>3, <2>4, Filed DEF Builds, Follows
  <2>6. Ahead'
    BY <1>11, <2>1, <2>2, <2>3, <2>5 DEF AbortDone, AbortedState, Ahead, Builds
  <2>7. Due'
    BY <1>11, <2>1, <2>3 DEF AbortDone, AbortedState, RecordInv, Due, BeforeTrash, Recovering
  <2>8. Done'
    BY <1>11, <2>1, <2>2, <2>3 DEF AbortDone, AbortedState, RecordInv, Done, Builds, Follows,
          AllAt, Files, BeforeTrash, Recovering
  <2>. QED BY <2>5, <2>6, <2>7, <2>8 DEF RecordInv
<1>12. CASE VerifyStaged
  <2>1. /\ pc # "idle" /\ op' = op /\ record \in OperationRecord /\ Sound(record)
        /\ record.state \notin {"Unborn", "Completed"} /\ todo \subseteq record.plan /\ todo \subseteq Groups
    BY <1>12 DEF VerifyStaged, Typed, Book, Loop, RecordInv, Booked, Ahead
  <2>2. /\ record' \in OperationRecord /\ record'.step = record.step /\ record'.plan = record.plan
        /\ record'.state \notin {"Unborn", "Completed"}
        /\ pc' = "persist" => StoppedWithRecoverableWork(record')
    BY <1>12, <2>1, StateOf, StateTypes DEF VerifyStaged, StoppedWithRecoverableWork
  <2>3. Builds(record', record) /\ \A h \in Groups : Untrashed(record, h) => Untrashed(record', h)
    BY <2>1, <2>2, Restated
  <2>4. UNCHANGED journal
    BY <1>12 DEF VerifyStaged
  <2>5. Booked' /\ JournalGrows /\ Continues(record', journal'[op'])
    BY <2>1, <2>3, <2>4, Filed DEF Builds, Follows
  <2>6. Ahead'
    BY <1>12, <2>1, <2>2, <2>3, <2>5 DEF VerifyStaged, Ahead, Builds
  <2>7. Due'
    BY <1>12, <2>1, <2>3 DEF VerifyStaged, RecordInv, Due, BeforeTrash, Recovering
  <2>8. Done'
    BY <1>12, <2>1, <2>2, <2>3 DEF VerifyStaged, RecordInv, Done, Builds, Follows, AllAt, Files,
          BeforeTrash, Recovering
  <2>. QED BY <2>5, <2>6, <2>7, <2>8 DEF RecordInv
<1>13. CASE JournalStaged
  <2>1. /\ pc # "idle" /\ op' = op /\ record \in OperationRecord /\ Sound(record)
        /\ record.state \notin {"Unborn", "Completed"} /\ todo \subseteq record.plan /\ todo \subseteq Groups
    BY <1>13 DEF JournalStaged, Save, Typed, Book, Loop, RecordInv, Booked, Ahead
  <2>2. /\ record' \in OperationRecord /\ record'.step = record.step /\ record'.plan = record.plan
        /\ record'.state \notin {"Unborn", "Completed"}
        /\ pc' = "persist" => StoppedWithRecoverableWork(record')
    BY <1>13, <2>1, StateOf, StateTypes DEF JournalStaged, StoppedWithRecoverableWork
  <2>3. Builds(record', record) /\ \A h \in Groups : Untrashed(record, h) => Untrashed(record', h)
    BY <2>1, <2>2, Restated
  <2>4. UNCHANGED journal \/ Save(record')
    BY <1>13 DEF JournalStaged
  <2>5. Booked' /\ JournalGrows /\ Continues(record', journal'[op'])
    BY <2>1, <2>3, <2>4, Filed DEF Builds, Follows
  <2>6. Ahead'
    BY <1>13, <2>1, <2>2, <2>3, <2>5 DEF JournalStaged, Save, Ahead, Builds
  <2>7. Due'
    BY <1>13, <2>1, <2>3 DEF JournalStaged, Save, RecordInv, Due, BeforeTrash, Recovering
  <2>8. Done'
    BY <1>13, <2>1, <2>2, <2>3 DEF JournalStaged, Save, RecordInv, Done, Builds, Follows, AllAt,
          Files, BeforeTrash, Recovering
  <2>. QED BY <2>5, <2>6, <2>7, <2>8 DEF RecordInv
<1>14. CASE JournalTrashing
  <2>1. /\ pc # "idle" /\ op' = op /\ record \in OperationRecord /\ Sound(record)
        /\ record.state \notin {"Unborn", "Completed"} /\ todo \subseteq record.plan /\ todo \subseteq Groups
    BY <1>14 DEF JournalTrashing, Save, Typed, Book, Loop, RecordInv, Booked, Ahead
  <2>2. /\ record' \in OperationRecord /\ record'.step = record.step /\ record'.plan = record.plan
        /\ record'.state \notin {"Unborn", "Completed"}
        /\ pc' = "persist" => StoppedWithRecoverableWork(record')
    BY <1>14, <2>1, TrashingOf DEF StoppedWithRecoverableWork
  <2>3. Builds(record', record) /\ \A h \in Groups : Untrashed(record, h) => Untrashed(record', h)
    BY <2>1, <2>2, Restated
  <2>4. UNCHANGED journal \/ Save(record')
    BY <1>14 DEF JournalTrashing
  <2>5. Booked' /\ JournalGrows /\ Continues(record', journal'[op'])
    BY <2>1, <2>3, <2>4, Filed DEF Builds, Follows
  <2>6. Ahead'
    BY <1>14, <2>1, <2>2, <2>3, <2>5 DEF JournalTrashing, Save, Ahead, Builds
  <2>7. Due'
    BY <1>14, <2>1, <2>3 DEF JournalTrashing, Save, RecordInv, Due, BeforeTrash, Recovering
  <2>8. Done'
    BY <1>14, <2>1, <2>2, <2>3 DEF JournalTrashing, Save, RecordInv, Done, Builds, Follows, AllAt,
          Files, BeforeTrash, Recovering
  <2>. QED BY <2>5, <2>6, <2>7, <2>8 DEF RecordInv
<1>15. CASE AskTrash
  <2>1. /\ pc # "idle" /\ op' = op /\ op \in Ops /\ record \in OperationRecord /\ Sound(record)
        /\ record.state \notin {"Unborn", "Completed"} /\ todo \subseteq record.plan /\ todo \subseteq Groups
    BY <1>15, InUse DEF AskTrash, Typed, Book, Loop, RecordInv, Booked, Ahead
  <2>2. /\ group \in Groups /\ group \in record.plan /\ UNCHANGED <<journal, todo, group>>
    BY <1>15, <2>1, InUse DEF AskTrash, ExecutingGroup
  <2>3. /\ Builds(record', record) /\ record'.state \notin {"Unborn", "Completed"}
        /\ \/ pc' = "trashed" /\ AllAt(record', group, "trashed")
           \/ pc' = "persist" /\ StoppedWithRecoverableWork(record')
        /\ \A h \in todo \ {group} : Untrashed(record, h) => Untrashed(record', h)
    <3>1. CASE MoveFolderToTrash(group) /\ pc' = "trashed"
      <4>1. PICK path \in {group, None} : record' = TrashedAt(group, path)
        BY <1>15, <3>1 DEF AskTrash
      <4>. QED BY <2>1, <2>2, <3>1, <4>1, TrashedSound
    <3>2. CASE record' = WithState(record, "NeedsRecovery") /\ pc' = "persist"
      <4>1. /\ record' \in OperationRecord /\ record'.step = record.step
            /\ record'.plan = record.plan /\ record'.state = "NeedsRecovery"
        BY <2>1, <3>2, StateOf, StateTypes
      <4>. QED BY <2>1, <3>2, <4>1, Restated DEF StoppedWithRecoverableWork
    <3>. QED BY <1>15, <3>1, <3>2 DEF AskTrash
  <2>4. Booked' /\ JournalGrows /\ Continues(record', journal'[op'])
    BY <2>1, <2>2, <2>3, Filed
  <2>5. pc = "trash"
    BY <1>15 DEF AskTrash
  <2>6. Ahead'
    BY <2>1, <2>2, <2>3, <2>4, <2>5 DEF Ahead, Builds
  <2>7. Due'
    BY <2>2, <2>3, <2>5 DEF RecordInv, Due, BeforeTrash, Recovering
  <2>8. Done'
    BY <2>2, <2>3, <2>5 DEF RecordInv, Done, Builds, Follows, AllAt, Files, BeforeTrash
  <2>. QED BY <2>4, <2>6, <2>7, <2>8 DEF RecordInv
<1>16. CASE JournalTrashed
  <2>1. /\ pc # "idle" /\ op' = op /\ record \in OperationRecord /\ Sound(record)
        /\ record.state \notin {"Unborn", "Completed"} /\ todo \subseteq record.plan /\ todo \subseteq Groups
    BY <1>16 DEF JournalTrashed, Save, Typed, Book, Loop, RecordInv, Booked, Ahead
  <2>2. /\ record' \in OperationRecord /\ record'.step = record.step /\ record'.plan = record.plan
        /\ record'.state \notin {"Unborn", "Completed"}
    BY <1>16, <2>1, StateOf, StateTypes DEF JournalTrashed, StoppedWithRecoverableWork
  <2>3. Builds(record', record) /\ \A h \in Groups : Untrashed(record, h) => Untrashed(record', h)
    BY <2>1, <2>2, Restated
  <2>4. UNCHANGED journal \/ Save(record')
    BY <1>16 DEF JournalTrashed
  <2>5. Booked' /\ JournalGrows /\ Continues(record', journal'[op'])
    BY <2>1, <2>3, <2>4, Filed DEF Builds, Follows
  <2>6. Ahead'
    BY <1>16, <2>1, <2>2, <2>3, <2>5 DEF JournalTrashed, Save, Ahead, Builds
  <2>7. Due'
    BY <1>16, <2>1, <2>3 DEF JournalTrashed, Save, RecordInv, Due, BeforeTrash, Recovering
  <2>8. Done'
    BY <1>16, <2>1, <2>2, <2>3 DEF JournalTrashed, Save, RecordInv, Done, Builds, Follows, AllAt,
          Files, BeforeTrash, Recovering
  <2>. QED BY <2>5, <2>6, <2>7, <2>8 DEF RecordInv
<1>17. CASE PersistGroup
  <2>1. /\ pc = "persist" /\ op \in Ops /\ record \in OperationRecord /\ Sound(record)
        /\ record.state \notin {"Unborn", "Completed"} /\ todo \subseteq record.plan /\ todo \subseteq Groups
    BY <1>17, InUse DEF PersistGroup, Typed, Book, Loop, RecordInv, Booked, Ahead
  <2>2. Builds(record, record)
    BY <2>1 DEF Builds, Follows
  <2>3. CASE Idle
    BY <1>17, <2>1, <2>2, <2>3, Ended DEF PersistGroup
  <2>4. CASE /\ Save(record) /\ ~StoppedWithRecoverableWork(record)
             /\ todo' = todo \ {group} /\ pc' = IF todo' = {} THEN "complete" ELSE "group"
             /\ UNCHANGED <<record, op>>
    <3>1. Booked' /\ JournalGrows /\ Continues(record', journal'[op'])
      BY <2>1, <2>2, <2>4, Filed DEF Follows
    <3>2. Ahead'
      BY <2>1, <2>4, <3>1 DEF Ahead
    <3>3. Due'
      BY <2>1, <2>4 DEF RecordInv, Due, BeforeTrash, Recovering
    <3>4. Done'
      BY <2>1, <2>4 DEF RecordInv, Done, BeforeTrash, AllAt
    <3>. QED BY <3>1, <3>2, <3>3, <3>4 DEF RecordInv
  <2>. QED BY <1>17, <2>3, <2>4 DEF PersistGroup
<1>18. CASE Complete
  <2>1. /\ pc = "complete" /\ op \in Ops /\ record \in OperationRecord /\ Sound(record) /\ Idle
        /\ UNCHANGED journal \/ Save(WithState(record, "Completed"))
    BY <1>18, InUse DEF Complete, Typed, Book, RecordInv, Booked
  <2>2. \A g \in record.plan : AllAt(record, g, "trashed")
    BY <2>1 DEF RecordInv, Done
  <2>3. Builds(WithState(record, "Completed"), record)
    BY <2>1, <2>2, StateSound
  <2>4. WithState(record, "Completed") \in OperationRecord
    BY <2>3 DEF Builds
  <2>. QED BY <2>1, <2>3, <2>4, Ended
<1>19. CASE RestoreMember
  <2>1. /\ pc # "idle" /\ op' = op /\ record \in OperationRecord /\ Sound(record)
        /\ record.state \notin {"Unborn", "Completed"} /\ todo \subseteq record.plan /\ todo \subseteq Groups
    BY <1>19 DEF RestoreMember, MoveToSource, Typed, Book, Loop, RecordInv, Booked, Ahead
  <2>2. group \in record.plan /\ Untrashed(record, group)
    BY <1>19, <2>1, InUse DEF RestoreMember, RecordInv, Due, BeforeTrash, Recovering,
          ExecutingGroup, RestoringGroup
  <2>3. /\ Builds(record', record) /\ record'.state \notin {"Unborn", "Completed"}
        /\ \A h \in Groups : Untrashed(record, h) => Untrashed(record', h)
        /\ pc' = "persist" => StoppedWithRecoverableWork(record')
    <3>1. {member} \in SUBSET Files(group)
      BY <1>19, InUse DEF RestoreMember, Renaming, Going
    <3>2. CASE record' = WithStep(record, {member}, "restored")
      BY <1>19, <2>1, <2>2, <3>1, <3>2, StepBuilds DEF RestoreMember, AbortStaging
    <3>3. CASE record' = record
      BY <1>19, <2>1, <3>3, Restated DEF RestoreMember, AbortStaging
    <3>. QED BY <1>19, <3>2, <3>3 DEF RestoreMember
  <2>4. UNCHANGED journal
    BY <1>19 DEF RestoreMember, AbortStaging
  <2>5. Booked' /\ JournalGrows /\ Continues(record', journal'[op'])
    BY <2>1, <2>3, <2>4, Filed DEF Builds, Follows
  <2>6. Ahead'
    BY <1>19, <2>1, <2>2, <2>3, <2>5 DEF RestoreMember, MoveToSource, Ahead, Builds
  <2>7. Due'
    BY <1>19, <2>1, <2>3 DEF RestoreMember, MoveToSource, RecordInv, Due, BeforeTrash, Recovering
  <2>8. Done'
    BY <1>19, <2>1, <2>2, <2>3 DEF RestoreMember, MoveToSource, RecordInv, Done, Builds, Follows,
          AllAt, Files, BeforeTrash, Recovering
  <2>. QED BY <2>5, <2>6, <2>7, <2>8 DEF RecordInv
<1>20. CASE CloseGroup
  <2>1. /\ pc # "idle" /\ op' = op /\ op \in Ops /\ record \in OperationRecord /\ Sound(record)
        /\ record.state \notin {"Unborn", "Completed"} /\ todo \subseteq record.plan /\ todo \subseteq Groups
    BY <1>20, InUse DEF CloseGroup, Typed, Book, Loop, RecordInv, Booked, Ahead
  <2>2. /\ group \in Groups /\ group \in record.plan /\ Untrashed(record, group) /\ todo' = todo \ {group}
        /\ pc = "restore" /\ pc' = "survey" /\ UNCHANGED journal
    BY <1>20, <2>1, InUse DEF CloseGroup, RestoringGroup, RecordInv, Due, Recovering
  <2>3. /\ Builds(record', record) /\ record'.state \notin {"Unborn", "Completed"}
        /\ \A h \in todo' : Untrashed(record, h) => Untrashed(record', h)
    <3>1. CASE record' = record
      BY <2>1, <3>1 DEF Builds, Follows
    <3>2. CASE record' = WithStep(record, Files(group), "trashed")
      BY <2>1, <2>2, <3>2, GroupSound, StepOf
    <3>3. CASE record' = WithStep(record, Files(group), "uncertain")
      BY <2>1, <2>2, <3>3, StepBuilds
    <3>. QED BY <1>20, <3>1, <3>2, <3>3 DEF CloseGroup, Vanished
  <2>4. Booked' /\ JournalGrows /\ Continues(record', journal'[op'])
    BY <2>1, <2>2, <2>3, Filed
  <2>5. Ahead'
    BY <2>1, <2>2, <2>3, <2>4 DEF Ahead, Builds
  <2>6. Due'
    BY <2>2, <2>3 DEF RecordInv, Due, BeforeTrash, Recovering
  <2>7. Done'
    BY <2>2 DEF Done, BeforeTrash
  <2>. QED BY <2>4, <2>5, <2>6, <2>7 DEF RecordInv
<1>21. CASE FinishRecovery
  <2>1. /\ pc # "idle" /\ op' = op /\ op \in Ops /\ record \in OperationRecord /\ Sound(record)
        /\ record.state \notin {"Unborn", "Completed"} /\ todo \subseteq record.plan /\ todo \subseteq Groups
    BY <1>21, InUse DEF FinishRecovery, Typed, Book, Loop, RecordInv, Booked, Ahead
  <2>2. /\ pc' = "settle" /\ UNCHANGED journal /\ record' = WithState(record, RecoveredState)
        /\ RecoveredState \in {"NeedsRecovery", "Completed", "Failed", "Planned"}
        /\ RecoveredState = "Completed" => \A g \in record.plan : AllAt(record, g, "trashed")
    BY <1>21 DEF FinishRecovery, RecoveredState, Trashed
  <2>3. Builds(record', record) /\ record'.state # "Unborn" /\ UNCHANGED todo
    BY <1>21, <2>1, <2>2, StateSound DEF FinishRecovery
  <2>4. Booked' /\ JournalGrows /\ Continues(record', journal'[op'])
    BY <2>1, <2>2, <2>3, Filed
  <2>5. Ahead'
    BY <2>1, <2>2, <2>3, <2>4 DEF Ahead, Builds
  <2>6. Due' /\ Done'
    BY <2>2 DEF Due, Done, BeforeTrash, Recovering
  <2>. QED BY <2>4, <2>5, <2>6 DEF RecordInv
<1>22. CASE RetryDone
  <2>1. /\ pc # "idle" /\ op' = op /\ op \in Ops /\ record \in OperationRecord /\ Sound(record)
        /\ record.state \notin {"Unborn", "Completed"} /\ todo \subseteq record.plan /\ todo \subseteq Groups
    BY <1>22, InUse DEF RetryDone, Typed, Book, Loop, RecordInv, Booked, Ahead
  <2>2. /\ pc' = "settle" /\ UNCHANGED journal
        /\ \E s \in {"Completed"} : /\ record' = WithState(record, s)
                           /\ s = "Completed" => \A g \in record.plan : AllAt(record, g, "trashed")
    BY <1>22 DEF RetryDone, RecordInv, Done
  <2>3. Builds(record', record) /\ record'.state # "Unborn" /\ UNCHANGED todo
    BY <1>22, <2>1, <2>2, StateSound, StateOf DEF RetryDone
  <2>4. Booked' /\ JournalGrows /\ Continues(record', journal'[op'])
    BY <2>1, <2>2, <2>3, Filed
  <2>5. Ahead'
    BY <2>1, <2>2, <2>3, <2>4 DEF Ahead, Builds
  <2>6. Due' /\ Done'
    BY <2>2 DEF Due, Done, BeforeTrash, Recovering
  <2>. QED BY <2>4, <2>5, <2>6 DEF RecordInv
<1>23. CASE Settle
  <2>1. Builds(record, record) /\ record \in OperationRecord /\ op \in Ops /\ pc # "idle"
    BY <1>23, InUse DEF Settle, RecordInv, Booked, Builds, Follows, Typed, Book
  <2>. QED BY <1>23, <2>1, Ended DEF Settle
<1>24. ASSUME NEW o \in Ops, NEW plan \in SUBSET Groups, Execute(o, plan) PROVE RecordInv' /\ JournalGrows
  <2> DEFINE r == PlannedRecord(plan)
  <2>1. /\ r \in OperationRecord /\ r.plan = plan /\ r.state = "Planned"
        /\ \A m \in Members : r.step[m] = "planned"
    BY PlanTypes DEF PlannedRecord, Unborn
  <2>2. /\ record' = r /\ op' = o /\ todo' = plan /\ pc' = "group"
        /\ \A i \in Ops : journal'[i] = IF i = o THEN r ELSE journal[i]
        /\ journal[o].state = "Unborn"
    BY <1>24 DEF Execute, Typed, Book
  <2> HIDE DEF r
  <2>3. Sound(r)
    BY <2>1 DEF Sound
  <2>4. Follows(r, r) /\ Follows(r, journal[o])
    BY <2>1, <2>2 DEF Follows, RecordInv, Booked, Sound
  <2>5. Booked' /\ JournalGrows
    BY <2>2, <2>3, <2>4 DEF RecordInv, Booked, JournalGrows, Follows
  <2>6. Ahead'
    BY <2>1, <2>2, <2>4 DEF Ahead
  <2>7. Due' /\ Done'
    BY <2>1, <2>2 DEF Due, Done, Untrashed, Files, BeforeTrash, Recovering
  <2>. QED BY <2>5, <2>6, <2>7 DEF RecordInv
<1>25. ASSUME NEW o \in Ops, Restore(o) PROVE RecordInv' /\ JournalGrows
  <2>1. Builds(WithState(journal[o], "Restoring"), journal[o]) /\ WithState(journal[o], "Restoring").state = "Restoring"
    BY StateSound, StateOf DEF Typed, Book, RecordInv, Booked
  <2>2. WithState(journal[o], "Restoring") \in OperationRecord
    BY <2>1 DEF Builds
  <2>. QED BY <1>25, <2>1, <2>2, Loaded DEF Restore
<1>26. ASSUME NEW o \in Ops, RetryTrash(o) PROVE RecordInv' /\ JournalGrows
  <2>1. /\ \A s \in {"Trashing", "NeedsRecovery"} :
             /\ WithState(journal[o], s) \in OperationRecord /\ Builds(WithState(journal[o], s), journal[o])
             /\ WithState(journal[o], s).state = s
    BY StateSound DEF Typed, Book, RecordInv, Booked, Builds
  <2>2. CASE Load(o, WithState(journal[o], "Trashing"), "retry")
    BY <2>1, <2>2, Loaded
  <2>3. CASE Load(o, WithState(journal[o], "NeedsRecovery"), "settle")
    BY <2>1, <2>3, Loaded
  <2>. QED BY <1>26, <2>2, <2>3 DEF RetryTrash
<1>27. ASSUME NEW o \in Ops, ConfirmTrashed(o) PROVE RecordInv' /\ JournalGrows
  <2> DEFINE vouched == {m \in Members : journal[o].step[m] = "uncertain"
                                          /\ AllAt(journal[o], GroupOf[m], "uncertain")}
             restoring == WithState(journal[o], "Restoring")
             r == WithStep(restoring, vouched, "trashed")
  <2>1. /\ journal[o] \in OperationRecord /\ Sound(journal[o])
        /\ \A g \in journal[o].plan : AllAt(journal[o], g, "uncertain") \/ AllAt(journal[o], g, "trashed")
        /\ Load(o, r, "survey")
    BY <1>27 DEF ConfirmTrashed, OffersConfirmTrashed, Typed, Book, RecordInv, Booked
  <2>2. /\ restoring \in OperationRecord /\ restoring.step = journal[o].step /\ restoring.plan = journal[o].plan
        /\ restoring.state = "Restoring"
    BY <2>1, StateTypes, StateOf
  <2>3. /\ r \in OperationRecord /\ r.plan = journal[o].plan /\ r.state = "Restoring"
        /\ \A m \in Members : r.step[m] = IF m \in vouched THEN "trashed" ELSE journal[o].step[m]
    <3> HIDE DEF restoring, vouched
    <3>. QED BY <2>2, StepTypes, StepOf
  <2> HIDE DEF r
  <2>4. Builds(r, journal[o])
    <3>1. \A m \in Members : r.step[m] = "trashed" => GroupOf[m] \in r.plan
      BY <2>1, <2>3 DEF Sound
    <3>. QED BY <2>1, <2>3, <3>1, ConstantsAssumption DEF Builds, Follows, Sound, AllAt, Files
  <2>. QED BY <2>1, <2>3, <2>4, Loaded
<1>28. CASE Crash
  <2>1. op \in Ops /\ Idle /\ UNCHANGED journal
    BY <1>28, InUse DEF Crash
  <2>. QED BY <2>1, Ended
<1>29. CASE Others
  BY <1>29 DEF Others, DisturbSource, DisturbStaging, RemoveFolder, Undisturbed,
              RecordInv, Booked, Ahead, Due, Done, JournalGrows, Follows
<1>30. CASE UNCHANGED vars
  BY <1>30 DEF vars, RecordInv, Booked, Ahead, Due, Done, JournalGrows, Follows
<1>. QED BY <1>1, <1>2, <1>3, <1>4, <1>5, <1>6, <1>7, <1>8, <1>9, <1>10, <1>11, <1>12, <1>13,
      <1>14, <1>15, <1>16, <1>17, <1>18, <1>19, <1>20, <1>21, <1>22, <1>23, <1>24, <1>25, <1>26,
      <1>27, <1>28, <1>29, <1>30 DEF Next, Run, Person

\* Nothing has been executed at the start.
LEMMA InitRecord == Init => RecordInv
<1>1. Sound(Unborn) 
  BY DEF Unborn, Sound
<1>. QED BY <1>1 DEF Init, RecordInv, Booked, Ahead, Due, Done, BeforeTrash, Recovering

\* What a journal has in Trash stays in Trash: no later recovery, started from
\* whatever an interrupted one left behind, goes back on it.
THEOREM JournalNeverGoesBack == Spec => TrashedIsFinal
<1>1. JournalGrows => \A o \in Ops, m \in Members :
       journal[o].step[m] = "trashed" => journal'[o].step[m] = "trashed"
  BY DEF JournalGrows, Follows
<1>2. Typed /\ RecordInv /\ [Next]_vars => RecordInv' /\ JournalGrows
  BY RecordSteps
<1>. QED BY InitTyped, NextTyped, InitRecord, <1>1, <1>2, PTL DEF Spec, TrashedIsFinal

\* An operation recorded as completed has all of its photos in Trash.
THEOREM CompletedIsAlwaysComplete == Spec => []CompletedIsComplete
<1>1. Typed /\ RecordInv /\ [Next]_vars => RecordInv'
  BY RecordSteps
<1>2. RecordInv /\ TrashInv => CompletedIsComplete
  BY DEF RecordInv, Booked, Sound, TrashInv, JournalTruthful, Truthful, CompletedIsComplete, AllAt,
        Files
<1>. QED BY InitTyped, NextTyped, InitRecord, TrashInvInit, TrashInvNext, <1>1, <1>2, PTL DEF Spec

-----------------------------------------------------------------------------
(* Deletion and recovery keep account of every file. *)

(***************************************************************************)
(* What is in staging, and what the records say of it.                     *)
(***************************************************************************)

\* The reviewed copy of file m is in the staging directory of o.
Staged(o, m) == staging[o][m] = "reviewed"
NoneStaged == \A m \in Members : ~Staged(op, m)

\* r accounts for what o has in staging: only planned photos, nothing that it says
\* is in Trash, and at most one rename that it does not know of.
Row(r, o) ==
  /\ \A m \in Members : Staged(o, m) => GroupOf[m] \in r.plan /\ r.step[m] \notin {"trashed", "uncertain"}
  /\ \A m, n \in Members :
       (Staged(o, m) /\ r.step[m] = "planned" /\ Staged(o, n) /\ r.step[n] = "planned") => m = n

\* Every row accounts for what its operation has in staging, and is listed as long
\* as there is something.
Listing == \A o \in Ops :
  /\ Row(journal[o], o)
  /\ \A m \in Members : Staged(o, m) => NeedsRecoveryAttention(journal[o])

\* What the running operation has in staging at each step.
Where ==
  /\ pc \in {"group", "intent", "trashed", "complete"} => NoneStaged
  /\ pc \in BeforeTrash => \A m \in Members : Staged(op, m) => m \in Files(group) /\ record.step[m] = "staged"
  /\ pc \in {"rename", "move"} => journal[op] = record
  /\ pc \in {"rename", "move", "confirm"} => \A m \in left : record.step[m] = "planned"
  /\ pc \in BeforeTrash \ {"staged", "trashing", "trash"} => record.state = "Staging"
  /\ pc \in {"staged", "trashing", "trash", "trashed"} => NeedsRecoveryAttention(record)
  /\ pc \in {"putback", "returning"} => problem \/ \A m \in Members : Staged(op, m) => m \in left
  /\ pc = "persist" /\ ~(NeedsRecoveryAttention(record) /\ StoppedWithRecoverableWork(record)) => NoneStaged
  /\ pc = "settle" /\ ~NeedsRecoveryAttention(record) => NoneStaged
  /\ pc = "survey" => problem \/ \A m \in Members : Staged(op, m) => GroupOf[m] \in todo
  /\ pc \in {"restore", "restoring"} =>
       /\ problem \/ \A m \in Members : Staged(op, m) => GroupOf[m] \in todo /\ (GroupOf[m] = group => m \in left)
       /\ \A m \in missing : ~Staged(op, m)
  /\ pc = "retry" => \A m \in Members : Staged(op, m) => GroupOf[m] \in todo

StagedInv == Listing /\ (pc # "idle" => Row(record, op)) /\ Where

\* Nothing new is staged.
Fewer == \A o \in Ops, m \in Members : staging'[o][m] = "reviewed" => staging[o][m] = "reviewed"

\* A row is kept, and so are all rows, when nothing new is staged ...
LEMMA RowKept ==
  ASSUME NEW r, NEW o \in Ops, Fewer, Row(r, o) PROVE Row(r, o)'
BY DEF Row, Staged, Fewer

LEMMA ListingKept ==
  ASSUME Listing, Fewer, UNCHANGED journal PROVE Listing'
BY DEF Listing, Row, Staged, Fewer

\* ... and when a row is written that accounts for what is staged.
LEMMA ListingSaved ==
  ASSUME Typed, Listing, UNCHANGED staging, op \in Ops, NEW r, Save(r), Row(r, op),
         NeedsRecoveryAttention(r) \/ NoneStaged
  PROVE  Listing'
<1>1. \A o \in Ops : journal'[o] = IF o = op THEN r ELSE journal[o]
  BY DEF Save, Typed, Book
<1>. QED BY <1>1 DEF Listing, Row, Staged, NoneStaged

\* Only the renames of execute() stage anything.
LEMMA MovesFewer ==
  ASSUME Typed, op \in Ops
  PROVE  /\ \A m \in Members : MoveToSource(m) => Fewer /\ staging'[op][m] # "reviewed"
         /\ \A g \in Groups : MoveFolderToTrash(g) => Fewer /\ \A m \in Files(g) : staging'[op][m] # "reviewed"
         /\ UNCHANGED staging => Fewer
<1>1. ASSUME NEW m \in Members, MoveToSource(m) PROVE Fewer /\ staging'[op][m] # "reviewed"
  BY <1>1 DEF MoveToSource, Fewer, Typed, Disk
<1>2. ASSUME NEW g \in Groups, MoveFolderToTrash(g)
      PROVE  Fewer /\ \A m \in Files(g) : staging'[op][m] # "reviewed"
  <2>1. \A o \in Ops, m \in Members :
          staging'[o][m] = IF o = op /\ m \in Files(g) THEN "none" ELSE staging[o][m]
    BY <1>2 DEF MoveFolderToTrash, Typed, Disk
  <2>. QED BY <2>1 DEF Fewer, Files
<1>3. UNCHANGED staging => Fewer
  BY DEF Fewer
<1>. QED BY <1>1, <1>2, <1>3

\* The record of a photo that Trash has taken.
LEMMA TrashedOf ==
  ASSUME record \in OperationRecord, NEW g \in Groups, NEW path \in {g, None}
  PROVE  /\ TrashedAt(g, path).plan = record.plan /\ TrashedAt(g, path).state = record.state
         /\ \A m \in Members : TrashedAt(g, path).step[m] = IF m \in Files(g) THEN "trashed" ELSE record.step[m]
<1> DEFINE s == WithStep(record, Files(g), "trashed")
<1>1. s \in OperationRecord /\ s.state = record.state /\ s.plan = record.plan
      /\ \A m \in Members : s.step[m] = IF m \in Files(g) THEN "trashed" ELSE record.step[m]
  BY StepTypes, StepOf
<1>2. TrashedAt(g, path).step = s.step /\ TrashedAt(g, path).plan = s.plan /\ TrashedAt(g, path).state = s.state
  BY <1>1 DEF TrashedAt, OperationRecord
<1>. QED BY <1>1, <1>2

\* Nothing is asked of a process that does nothing.
LEMMA IdleInv ==
  ASSUME Idle, Listing' PROVE StagedInv'
BY DEF Idle, StagedInv, Where, BeforeTrash

\* The row of an operation is taken up again.
LEMMA LoadedStaged ==
  ASSUME Typed, StagedInv, NEW o \in Ops, NEW r, NEW next \in {"survey", "retry", "settle"}, Load(o, r, next),
         r.plan = journal[o].plan,
         \A m \in Members : r.step[m] = journal[o].step[m] \/ journal[o].step[m] = "uncertain",
         next = "settle" => NeedsRecoveryAttention(r)
  PROVE  StagedInv'
<1>1. /\ record' = r /\ op' = o /\ pc' = next /\ todo' = r.plan \ Trashed(r) /\ UNCHANGED <<journal, staging>>
  BY DEF Load, disk
<1>2. Listing'
  BY <1>1, ListingKept DEF StagedInv, Fewer
<1>3. (Row(record, op))'
  BY <1>1 DEF StagedInv, Listing, Row, Staged
<1>4. \A m \in Members : Staged(o, m) => GroupOf[m] \in r.plan \ Trashed(r)
  BY DEF StagedInv, Listing, Row, Trashed, AllAt, Files
<1>5. Where'
  BY <1>1, <1>4 DEF Where, Staged, BeforeTrash
<1>. QED BY <1>2, <1>3, <1>5 DEF StagedInv

\* Every step keeps the account of what is staged.
LEMMA StagedSteps ==
  ASSUME Typed, RecordInv, StagedInv, [Next]_vars PROVE StagedInv'
<1> USE DEF disk, loop, history
<1>1. ASSUME NEW g \in Groups, OpenGroup(g) PROVE StagedInv'
  <2>1. /\ pc # "idle" /\ op \in Ops /\ op' = op /\ record \in OperationRecord /\ Row(record, op)
    BY <1>1, InUse DEF OpenGroup, Typed, Book, StagedInv
  <2>2. Fewer
    BY <1>1, <2>1, InUse, MovesFewer DEF OpenGroup, Renaming
  <2>3. (Row(record, op))'
    BY <1>1, <2>1, <2>2, StateOf, StepOf, RowKept
        DEF OpenGroup, Row, Staged, StagedInv, Where, NoneStaged, Fewer
  <2>4. Listing'
    BY <1>1, <2>2, ListingKept DEF OpenGroup, StagedInv
  <2>5. Where'
    BY <1>1, <2>1, <2>2, StateOf, StepOf, InUse
        DEF OpenGroup, StagedInv, Where, Staged, NoneStaged, Fewer, BeforeTrash,
          NeedsRecoveryAttention, StoppedWithRecoverableWork
  <2>. QED BY <2>3, <2>4, <2>5 DEF StagedInv
<1>2. ASSUME NEW g \in Groups, SurveyGroup(g) PROVE StagedInv'
  <2>1. /\ pc # "idle" /\ op \in Ops /\ op' = op /\ record \in OperationRecord /\ Row(record, op)
    BY <1>2, InUse DEF SurveyGroup, Typed, Book, StagedInv
  <2>2. Fewer /\ (Row(record, op))' /\ Listing'
    BY <1>2, <2>1, MovesFewer, RowKept, ListingKept DEF SurveyGroup, StagedInv
  <2>3. Where'
    BY <1>2, <2>1 DEF SurveyGroup, StagedInv, Where, Staged, NoneStaged, BeforeTrash, Files
  <2>. QED BY <2>2, <2>3 DEF StagedInv
<1>3. ASSUME NEW g \in Groups, RetryGroup(g) PROVE StagedInv'
  <2>1. /\ pc # "idle" /\ op \in Ops /\ op' = op /\ record \in OperationRecord /\ Row(record, op)
    BY <1>3, InUse DEF RetryGroup, Typed, Book, StagedInv
  <2>2. pc = "retry" /\ UNCHANGED journal
    BY <1>3 DEF RetryGroup
  <2>3. CASE MoveFolderToTrash(g) /\ todo' = todo \ {g} /\ UNCHANGED pc
    <3>1. PICK path \in {g, None} : record' = TrashedAt(g, path)
      BY <1>3, <2>3 DEF RetryGroup
    <3>2. Fewer /\ \A m \in Files(g) : staging'[op][m] # "reviewed"
      BY <2>1, <2>3, MovesFewer
    <3>3. /\ record'.plan = record.plan
          /\ \A m \in Members : record'.step[m] = IF m \in Files(g) THEN "trashed" ELSE record.step[m]
      BY <2>1, <3>1, TrashedOf
    <3>4. (Row(record, op))'
      BY <2>1, <3>2, <3>3 DEF Row, Staged, Fewer
    <3>5. Listing'
      BY <2>2, <3>2, ListingKept DEF StagedInv
    <3>6. Where'
      BY <2>1, <2>2, <2>3, <3>2 DEF StagedInv, Where, Staged, Fewer, Files, BeforeTrash
    <3>. QED BY <2>1, <3>4, <3>5, <3>6 DEF StagedInv
  <2>4. CASE record' = RetryRefused(g) /\ pc' = "settle" /\ UNCHANGED staging
    <3>1. record'.step = record.step /\ record'.plan = record.plan /\ record'.state = "NeedsRecovery"
      BY <2>1, <2>4, RefusedOf
    <3>2. (Row(record, op))'
      BY <2>1, <2>4, <3>1 DEF Row, Staged
    <3>3. Listing'
      BY <2>1, <2>2, <2>4, MovesFewer, ListingKept DEF StagedInv
    <3>4. Where'
      BY <2>4, <3>1 DEF Where, BeforeTrash, NeedsRecoveryAttention
    <3>. QED BY <2>1, <3>2, <3>3, <3>4 DEF StagedInv
  <2>. QED BY <1>3, <2>3, <2>4 DEF RetryGroup
<1>4. ASSUME NEW m \in Members, CheckStagingPath(m) PROVE StagedInv'
  <2>1. /\ pc # "idle" /\ op \in Ops /\ op' = op /\ record \in OperationRecord /\ Row(record, op)
    BY <1>4, InUse DEF CheckStagingPath, AbortStaging, Moved, Typed, Book, StagedInv
  <2>2. Fewer
    BY <1>4, <2>1, InUse, MovesFewer DEF CheckStagingPath, AbortStaging, Renaming
  <2>3. (Row(record, op))'
    BY <1>4, <2>1, <2>2, StateOf, StepOf, RowKept
        DEF CheckStagingPath, AbortStaging, Moved, Row, Staged, StagedInv, Where, NoneStaged, Fewer
  <2>4. Listing'
    BY <1>4, <2>2, ListingKept DEF CheckStagingPath, AbortStaging, StagedInv
  <2>5. Where'
    BY <1>4, <2>1, <2>2, StateOf, StepOf, InUse
        DEF CheckStagingPath, AbortStaging, Moved, StagedInv, Where, Staged, NoneStaged, Fewer,
          BeforeTrash, NeedsRecoveryAttention, StoppedWithRecoverableWork
  <2>. QED BY <2>3, <2>4, <2>5 DEF StagedInv
<1>5. ASSUME NEW m \in Members, CheckPutBack(m) PROVE StagedInv'
  <2>1. /\ pc # "idle" /\ op \in Ops /\ op' = op /\ record \in OperationRecord /\ Row(record, op)
    BY <1>5, InUse DEF CheckPutBack, Typed, Book, StagedInv
  <2>2. Fewer
    BY <1>5, <2>1, InUse, MovesFewer DEF CheckPutBack, Renaming
  <2>3. (Row(record, op))'
    BY <1>5, <2>1, <2>2, StateOf, StepOf, RowKept
        DEF CheckPutBack, Row, Staged, StagedInv, Where, NoneStaged, Fewer
  <2>4. Listing'
    BY <1>5, <2>2, ListingKept DEF CheckPutBack, StagedInv
  <2>5. Where'
    BY <1>5, <2>1, <2>2, StateOf, StepOf, InUse
        DEF CheckPutBack, StagedInv, Where, Staged, NoneStaged, Fewer, BeforeTrash,
          NeedsRecoveryAttention, StoppedWithRecoverableWork
  <2>. QED BY <2>3, <2>4, <2>5 DEF StagedInv
<1>6. ASSUME NEW m \in Members, ExamineMember(m) PROVE StagedInv'
  <2>1. /\ pc # "idle" /\ op \in Ops /\ op' = op /\ record \in OperationRecord /\ Row(record, op)
    BY <1>6, InUse DEF ExamineMember, Typed, Book, StagedInv
  <2>2. Fewer
    BY <1>6, <2>1, InUse, MovesFewer DEF ExamineMember, Renaming
  <2>3. (Row(record, op))'
    BY <1>6, <2>1, <2>2, StateOf, StepOf, RowKept
        DEF ExamineMember, Row, Staged, StagedInv, Where, NoneStaged, Fewer
  <2>4. Listing'
    BY <1>6, <2>2, ListingKept DEF ExamineMember, StagedInv
  <2>5. Where'
    BY <1>6, <2>1, <2>2, StateOf, StepOf, InUse
        DEF ExamineMember, StagedInv, Where, Staged, NoneStaged, Fewer, BeforeTrash,
          NeedsRecoveryAttention, StoppedWithRecoverableWork
  <2>. QED BY <2>3, <2>4, <2>5 DEF StagedInv
<1>7. CASE RecordStagingIntent
  <2>1. /\ pc # "idle" /\ op \in Ops /\ op' = op /\ record \in OperationRecord /\ Row(record, op)
    BY <1>7, InUse DEF RecordStagingIntent, Typed, Book, StagedInv
  <2> DEFINE intent == WithStep(record, Files(group), "planned")
  <2>2. /\ UNCHANGED staging /\ NoneStaged /\ record.state = "Staging" /\ group \in Groups
    BY <1>7, InUse DEF RecordStagingIntent, StagedInv, Where, BeforeTrash, ExecutingGroup
  <2>3. /\ intent \in OperationRecord /\ intent.state = "Staging"
        /\ \A m \in Files(group) : intent.step[m] = "planned"
    BY <2>1, <2>2, StepOf, StepTypes DEF Files
  <2> HIDE DEF intent
  <2>4. \/ record' = intent /\ Save(intent) /\ pc' = "rename" /\ left' = Files(group)
        \/ record' = WithState(intent, "Failed") /\ UNCHANGED journal /\ pc' = "persist"
    BY <1>7 DEF RecordStagingIntent, intent
  <2>5. Row(intent, op) /\ (Row(record, op))'
    BY <2>1, <2>2 DEF Row, Staged, NoneStaged
  <2>6. Listing'
    BY <2>1, <2>2, <2>4, <2>5, MovesFewer, ListingKept, ListingSaved DEF StagedInv
  <2>7. Where'
    <3>1. NoneStaged'
      BY <2>1, <2>2 DEF NoneStaged, Staged
    <3>2. Save(intent) => journal'[op] = intent
      BY <2>1 DEF Save, Typed, Book
    <3>. QED BY <2>1, <2>3, <2>4, <3>1, <3>2, StateOf
        DEF Where, Staged, NoneStaged, BeforeTrash, NeedsRecoveryAttention,
          StoppedWithRecoverableWork
  <2>. QED BY <2>1, <2>5, <2>6, <2>7 DEF StagedInv
<1>8. CASE StageMember
  <2>1. /\ pc # "idle" /\ op \in Ops /\ op' = op /\ record \in OperationRecord /\ Row(record, op)
    BY <1>8, InUse DEF StageMember, Typed, Book, StagedInv
  <2>2. /\ pc = "move" /\ member \in Members /\ member \in Files(group) /\ group \in record.plan
        /\ journal[op] = record /\ record.step[member] = "planned" /\ record.state = "Staging"
        /\ \A m \in Members : Staged(op, m) => m \in Files(group) /\ record.step[m] = "staged"
        /\ \A m \in left : record.step[m] = "planned"
        /\ UNCHANGED <<journal, group>> /\ group \in Groups
    BY <1>8, InUse DEF StageMember, Renaming, Going, ExecutingGroup, StagedInv, Where, BeforeTrash,
          RecordInv, Ahead
  <2>3. CASE AbortStaging /\ UNCHANGED <<staging, record>>
    <3>1. Listing' /\ (Row(record, op))'
      BY <2>1, <2>2, <2>3, MovesFewer, ListingKept, RowKept DEF StagedInv
    <3>2. Where'
      BY <2>1, <2>2, <2>3 DEF AbortStaging, Moved, Where, Staged, BeforeTrash
    <3>. QED BY <3>1, <3>2 DEF StagedInv
  <2>4. CASE MoveToStaging(member) /\ record' = WithStep(record, {member}, "staged") /\ pc' = "confirm"
             /\ left' = left \ {member}
    <3>1. \A o \in Ops, m \in Members :
            staging'[o][m] = IF o = op /\ m = member THEN source[member] ELSE staging[o][m]
      BY <2>1, <2>2, <2>4 DEF MoveToStaging, Typed, Disk
    <3>2. /\ record'.plan = record.plan /\ record'.state = record.state
          /\ \A m \in Members : record'.step[m] = IF m = member THEN "staged" ELSE record.step[m]
      BY <2>1, <2>4, StepOf
    <3>3. GroupOf[member] \in record.plan
      BY <2>2 DEF Files
    <3>4. (Row(record, op))'
      BY <2>1, <2>2, <3>1, <3>2, <3>3 DEF Row, Staged
    <3>5. Listing'
      <4>1. ASSUME NEW o \in Ops, o # op
            PROVE  Row(journal[o], o)' /\ \A m \in Members : Staged(o, m)' => NeedsRecoveryAttention(journal'[o])
        BY <2>2, <3>1, <4>1 DEF StagedInv, Listing, Row, Staged
      <4>2. Row(journal[op], op)' /\ \A m \in Members : Staged(op, m)' => NeedsRecoveryAttention(journal'[op])
        BY <2>1, <2>2, <3>1, <3>3 DEF Row, Staged, NeedsRecoveryAttention
      <4>. QED BY <2>1, <4>1, <4>2 DEF Listing
    <3>6. Where'
      <4>1. \A m \in Members : Staged(op, m)' => m \in Files(group) /\ record'.step[m] = "staged"
        BY <2>1, <2>2, <3>1, <3>2 DEF Staged
      <4>2. \A m \in left' : record'.step[m] = "planned"
        BY <2>2, <2>4, <3>2 DEF Typed, Loop
      <4>. QED BY <2>1, <2>2, <2>4, <3>2, <4>1, <4>2 DEF Where, Staged, BeforeTrash
    <3>. QED BY <2>1, <3>4, <3>5, <3>6 DEF StagedInv
  <2>. QED BY <1>8, <2>3, <2>4 DEF StageMember
<1>9. CASE ConfirmMove
  <2>1. /\ pc # "idle" /\ op \in Ops /\ op' = op /\ record \in OperationRecord /\ Row(record, op)
    BY <1>9, InUse DEF ConfirmMove, Typed, Book, StagedInv
  <2>2. /\ UNCHANGED <<staging, left, group>> /\ record.state = "Staging"
    BY <1>9 DEF ConfirmMove, StagedInv, Where, BeforeTrash
  <2>3. \/ Save(record) /\ record' = record /\ pc' \in {"rename", "verify"}
        \/ record' = WithState(record, "NeedsRecovery") /\ UNCHANGED journal /\ pc' = "persist"
    BY <1>9 DEF ConfirmMove
  <2>4. record'.step = record.step /\ record'.plan = record.plan /\ (Row(record, op))'
    BY <2>1, <2>2, <2>3, StateOf DEF Row, Staged
  <2>5. Listing'
    BY <2>1, <2>2, <2>3, MovesFewer, ListingKept, ListingSaved DEF StagedInv, NeedsRecoveryAttention
  <2>6. Where'
    <3>1. CASE Save(record) /\ record' = record /\ pc' \in {"rename", "verify"}
      <4>1. journal'[op] = record
        BY <2>1, <3>1 DEF Save, Typed, Book
      <4>2. pc = "confirm" /\ \A m \in left : record.step[m] = "planned"
        BY <1>9 DEF ConfirmMove, StagedInv, Where
      <4>. QED BY <1>9, <2>1, <2>2, <3>1, <4>1, <4>2 DEF StagedInv, Where, Staged, BeforeTrash
    <3>2. CASE record' = WithState(record, "NeedsRecovery") /\ pc' = "persist"
      BY <2>1, <3>2, StateOf DEF Where, BeforeTrash, NeedsRecoveryAttention,
            StoppedWithRecoverableWork
    <3>. QED BY <2>3, <3>1, <3>2
  <2>. QED BY <2>1, <2>4, <2>5, <2>6 DEF StagedInv
<1>10. CASE PutBackMember
  <2>1. /\ pc # "idle" /\ op \in Ops /\ op' = op /\ record \in OperationRecord /\ Row(record, op)
    BY <1>10, InUse DEF PutBackMember, Typed, Book, StagedInv
  <2>2. /\ member \in Members /\ member \in left /\ UNCHANGED <<journal, group, todo, missing>>
        /\ left' = left \ {member} /\ pc' = "putback"
        /\ \/ MoveToSource(member) /\ record' = WithStep(record, {member}, "restored") /\ UNCHANGED problem
           \/ UNCHANGED <<staging, record>> /\ problem' = TRUE
    BY <1>10, InUse DEF PutBackMember, Renaming
  <2>3. /\ Fewer
        /\ \/ /\ staging'[op][member] # "reviewed" /\ problem' = problem
              /\ \A m \in Members : m # member => record'.step[m] = record.step[m]
           \/ problem' /\ UNCHANGED <<staging, record>>
        /\ record'.plan = record.plan /\ record'.state = record.state
        /\ \A m \in Members : record'.step[m] \in {record.step[m], "restored"}
    <3>1. \A m \in Members : WithStep(record, {member}, "restored").step[m] =
                               IF m = member THEN "restored" ELSE record.step[m]
      BY <2>1, StepOf
    <3>2. WithStep(record, {member}, "restored").plan = record.plan
          /\ WithStep(record, {member}, "restored").state = record.state
      BY <2>1, StepOf
    <3>. QED BY <2>1, <2>2, <3>1, <3>2, MovesFewer
  <2>4. Listing'
    BY <2>2, <2>3, ListingKept DEF StagedInv
  <2>5. (Row(record, op))'
    BY <2>1, <2>2, <2>3 DEF Row, Staged, Fewer
  <2>6. Where'
    <3>1. pc = "returning"
      BY <1>10 DEF PutBackMember
    <3>2. \A m \in Members : Staged(op, m)' => m \in Files(group) /\ record'.step[m] = "staged"
      BY <1>10, <2>1, <2>2, <2>3 DEF PutBackMember, StagedInv, Where, Staged, Fewer, BeforeTrash
    <3>3. problem' \/ \A m \in Members : Staged(op, m)' => m \in left'
      BY <1>10, <2>1, <2>2, <2>3 DEF PutBackMember, StagedInv, Where, Staged, Fewer
    <3>. QED BY <2>1, <2>2, <2>3, <3>1, <3>2, <3>3 DEF StagedInv, Where, Staged, BeforeTrash
  <2>. QED BY <2>1, <2>4, <2>5, <2>6 DEF StagedInv
<1>11. CASE AbortDone
  <2>1. /\ pc # "idle" /\ op \in Ops /\ op' = op /\ record \in OperationRecord /\ Row(record, op)
    BY <1>11, InUse DEF AbortDone, AbortedState, Typed, Book, StagedInv
  <2>2. Fewer
    BY <1>11, <2>1, InUse, MovesFewer DEF AbortDone, AbortStaging, Renaming
  <2>3. (Row(record, op))'
    BY <1>11, <2>1, <2>2, StateOf, StepOf, RowKept
        DEF AbortDone, AbortedState, Row, Staged, StagedInv, Where, NoneStaged, Fewer
  <2>4. Listing'
    BY <1>11, <2>2, ListingKept DEF AbortDone, AbortStaging, StagedInv
  <2>5. Where'
    BY <1>11, <2>1, <2>2, StateOf, StepOf, InUse
        DEF AbortDone, AbortedState, StagedInv, Where, Staged, NoneStaged, Fewer, BeforeTrash,
          NeedsRecoveryAttention, StoppedWithRecoverableWork
  <2>. QED BY <2>3, <2>4, <2>5 DEF StagedInv
<1>12. CASE VerifyStaged
  <2>1. /\ pc # "idle" /\ op \in Ops /\ op' = op /\ record \in OperationRecord /\ Row(record, op)
    BY <1>12, InUse DEF VerifyStaged, Typed, Book, StagedInv
  <2>2. Fewer
    BY <1>12, <2>1, InUse, MovesFewer DEF VerifyStaged, Renaming
  <2>3. (Row(record, op))'
    BY <1>12, <2>1, <2>2, StateOf, StepOf, RowKept
        DEF VerifyStaged, Row, Staged, StagedInv, Where, NoneStaged, Fewer
  <2>4. Listing'
    BY <1>12, <2>2, ListingKept DEF VerifyStaged, StagedInv
  <2>5. Where'
    BY <1>12, <2>1, <2>2, StateOf, StepOf, InUse
        DEF VerifyStaged, StagedInv, Where, Staged, NoneStaged, Fewer, BeforeTrash,
          NeedsRecoveryAttention, StoppedWithRecoverableWork
  <2>. QED BY <2>3, <2>4, <2>5 DEF StagedInv
<1>13. CASE JournalStaged
  <2>1. /\ pc # "idle" /\ op \in Ops /\ op' = op /\ record \in OperationRecord /\ Row(record, op)
    BY <1>13, InUse DEF JournalStaged, Typed, Book, StagedInv
  <2>2. UNCHANGED <<staging, group>> /\ pc = "staged"
    BY <1>13 DEF JournalStaged
  <2>3. /\ record' \in OperationRecord /\ record'.step = record.step /\ record'.plan = record.plan
        /\ \/ Save(record') /\ record'.state = "Staged" /\ pc' = "trashing"
           \/ UNCHANGED journal /\ record'.state = "NeedsRecovery" /\ pc' = "persist"
    BY <1>13, <2>1, StateOf, StateTypes DEF JournalStaged
  <2>4. Row(record', op) /\ (Row(record, op))'
    BY <2>1, <2>2, <2>3 DEF Row, Staged
  <2>5. Listing'
    BY <2>1, <2>2, <2>3, <2>4, MovesFewer, ListingKept, ListingSaved
        DEF StagedInv, NeedsRecoveryAttention
  <2>6. Where'
    BY <2>1, <2>2, <2>3 DEF StagedInv, Where, Staged, BeforeTrash, NeedsRecoveryAttention,
          StoppedWithRecoverableWork
  <2>. QED BY <2>1, <2>4, <2>5, <2>6 DEF StagedInv
<1>14. CASE JournalTrashing
  <2>1. /\ pc # "idle" /\ op \in Ops /\ op' = op /\ record \in OperationRecord /\ Row(record, op)
    BY <1>14, InUse DEF JournalTrashing, Typed, Book, StagedInv
  <2>2. UNCHANGED <<staging, group>> /\ pc = "trashing"
    BY <1>14 DEF JournalTrashing
  <2>3. /\ record' \in OperationRecord /\ record'.step = record.step /\ record'.plan = record.plan
        /\ record'.state \in {"Trashing", "NeedsRecovery"}
        /\ pc' = "persist" => record'.state = "NeedsRecovery"
    BY <1>14, <2>1, TrashingOf
  <2>4. \/ Save(record') /\ pc' = "trash"
        \/ UNCHANGED journal /\ pc' = "persist"
    BY <1>14 DEF JournalTrashing
  <2>5. Row(record', op) /\ (Row(record, op))'
    BY <2>1, <2>2, <2>3 DEF Row, Staged
  <2>6. Listing'
    BY <2>1, <2>2, <2>3, <2>4, <2>5, MovesFewer, ListingKept, ListingSaved
        DEF StagedInv, NeedsRecoveryAttention
  <2>7. Where'
    BY <2>1, <2>2, <2>3, <2>4 DEF StagedInv, Where, Staged, BeforeTrash, NeedsRecoveryAttention,
          StoppedWithRecoverableWork
  <2>. QED BY <2>1, <2>5, <2>6, <2>7 DEF StagedInv
<1>15. CASE AskTrash
  <2>1. /\ pc # "idle" /\ op \in Ops /\ op' = op /\ record \in OperationRecord /\ Row(record, op)
    BY <1>15, InUse DEF AskTrash, Typed, Book, StagedInv
  <2>2. pc = "trash" /\ UNCHANGED <<journal, group>> /\ group \in Groups
    BY <1>15, InUse DEF AskTrash, ExecutingGroup
  <2>3. CASE MoveFolderToTrash(group) /\ pc' = "trashed"
    <3>1. PICK path \in {group, None} : record' = TrashedAt(group, path)
      BY <1>15, <2>3 DEF AskTrash
    <3>2. Fewer /\ \A m \in Files(group) : staging'[op][m] # "reviewed"
      BY <2>1, <2>2, <2>3, MovesFewer
    <3>3. /\ record'.plan = record.plan /\ record'.state = record.state
          /\ \A m \in Members : record'.step[m] = IF m \in Files(group) THEN "trashed" ELSE record.step[m]
      BY <2>1, <2>2, <3>1, TrashedOf
    <3>4. (Row(record, op))'
      BY <2>1, <3>2, <3>3 DEF Row, Staged, Fewer
    <3>5. Listing'
      BY <2>2, <3>2, ListingKept DEF StagedInv
    <3>6. Where'
      BY <2>1, <2>2, <2>3, <3>2, <3>3 DEF StagedInv, Where, Staged, NoneStaged, Fewer, Files,
            BeforeTrash, NeedsRecoveryAttention
    <3>. QED BY <2>1, <3>4, <3>5, <3>6 DEF StagedInv
  <2>4. CASE record' = WithState(record, "NeedsRecovery") /\ pc' = "persist" /\ UNCHANGED staging
    <3>1. record'.step = record.step /\ record'.plan = record.plan /\ record'.state = "NeedsRecovery"
      BY <2>1, <2>4, StateOf
    <3>2. (Row(record, op))'
      BY <2>1, <2>4, <3>1 DEF Row, Staged
    <3>3. Listing'
      BY <2>1, <2>2, <2>4, MovesFewer, ListingKept DEF StagedInv
    <3>4. Where'
      BY <2>4, <3>1 DEF Where, BeforeTrash, NeedsRecoveryAttention, StoppedWithRecoverableWork
    <3>. QED BY <2>1, <3>2, <3>3, <3>4 DEF StagedInv
  <2>. QED BY <1>15, <2>3, <2>4 DEF AskTrash
<1>16. CASE JournalTrashed
  <2>1. /\ pc # "idle" /\ op \in Ops /\ op' = op /\ record \in OperationRecord /\ Row(record, op)
    BY <1>16, InUse DEF JournalTrashed, Typed, Book, StagedInv
  <2>2. UNCHANGED staging /\ pc' = "persist" /\ NoneStaged
    BY <1>16 DEF JournalTrashed, StagedInv, Where
  <2>3. \/ Save(record) /\ record' = record
        \/ UNCHANGED journal
    BY <1>16 DEF JournalTrashed
  <2>4. (Row(record, op))' /\ NoneStaged'
    BY <2>1, <2>2 DEF Row, NoneStaged, Staged
  <2>5. Listing'
    BY <2>1, <2>2, <2>3, MovesFewer, ListingKept, ListingSaved DEF StagedInv
  <2>6. Where'
    BY <2>2, <2>4 DEF Where, BeforeTrash
  <2>. QED BY <2>1, <2>4, <2>5, <2>6 DEF StagedInv
<1>17. CASE PersistGroup
  <2>1. pc = "persist" /\ op \in Ops /\ UNCHANGED staging /\ record \in OperationRecord /\ Row(record, op)
    BY <1>17, InUse DEF PersistGroup, Typed, Book, StagedInv
  <2>2. Save(record) => Listing'
    BY <2>1, ListingSaved DEF StagedInv, Where
  <2>3. UNCHANGED journal => Listing'
    BY <2>1, MovesFewer, ListingKept DEF StagedInv
  <2>4. CASE Idle
    BY <1>17, <2>2, <2>3, <2>4, IdleInv DEF PersistGroup
  <2>5. CASE /\ Save(record) /\ ~StoppedWithRecoverableWork(record) /\ pc' \in {"complete", "group"}
             /\ UNCHANGED <<record, op>>
    <3>1. NoneStaged'
      BY <2>1, <2>5 DEF StagedInv, Where, NoneStaged, Staged
    <3>. QED BY <2>1, <2>2, <2>5, <3>1 DEF StagedInv, Where, Row, NoneStaged, BeforeTrash
  <2>. QED BY <1>17, <2>4, <2>5 DEF PersistGroup
<1>18. CASE Complete
  <2>1. op \in Ops /\ UNCHANGED staging /\ NoneStaged /\ Idle
    BY <1>18, InUse DEF Complete, StagedInv, Where
  <2>2. Row(WithState(record, "Completed"), op)
    BY <2>1 DEF Row, NoneStaged
  <2>3. Listing'
    BY <1>18, <2>1, <2>2, MovesFewer, ListingKept, ListingSaved DEF Complete, StagedInv
  <2>. QED BY <2>1, <2>3, IdleInv
<1>19. CASE RestoreMember
  <2>1. /\ pc # "idle" /\ op \in Ops /\ op' = op /\ record \in OperationRecord /\ Row(record, op)
    BY <1>19, InUse DEF RestoreMember, Typed, Book, StagedInv
  <2>2. /\ member \in Members /\ member \in left /\ UNCHANGED <<journal, group, todo, missing>>
        /\ left' = left \ {member} /\ pc' = "restore"
        /\ \/ MoveToSource(member) /\ record' = WithStep(record, {member}, "restored") /\ UNCHANGED problem
           \/ UNCHANGED <<staging, record>> /\ problem' = TRUE
    BY <1>19, InUse DEF RestoreMember, Renaming
  <2>3. /\ Fewer
        /\ \/ /\ staging'[op][member] # "reviewed" /\ problem' = problem
              /\ \A m \in Members : m # member => record'.step[m] = record.step[m]
           \/ problem' /\ UNCHANGED <<staging, record>>
        /\ record'.plan = record.plan /\ record'.state = record.state
        /\ \A m \in Members : record'.step[m] \in {record.step[m], "restored"}
    <3>1. \A m \in Members : WithStep(record, {member}, "restored").step[m] =
                               IF m = member THEN "restored" ELSE record.step[m]
      BY <2>1, StepOf
    <3>2. WithStep(record, {member}, "restored").plan = record.plan
          /\ WithStep(record, {member}, "restored").state = record.state
      BY <2>1, StepOf
    <3>. QED BY <2>1, <2>2, <3>1, <3>2, MovesFewer
  <2>4. Listing'
    BY <2>2, <2>3, ListingKept DEF StagedInv
  <2>5. (Row(record, op))'
    BY <2>1, <2>2, <2>3 DEF Row, Staged, Fewer
  <2>6. Where'
    <3>1. pc = "restoring"
      BY <1>19 DEF RestoreMember
    <3>2. problem' \/ \A m \in Members : Staged(op, m)' => GroupOf[m] \in todo' /\ (GroupOf[m] = group' => m \in left')
      BY <1>19, <2>1, <2>2, <2>3 DEF RestoreMember, StagedInv, Where, Staged, Fewer
    <3>3. \A m \in missing' : ~Staged(op, m)'
      BY <1>19, <2>1, <2>2, <2>3 DEF RestoreMember, StagedInv, Where, Staged, Fewer, Typed, Loop
    <3>. QED BY <2>1, <2>2, <2>3, <3>1, <3>2, <3>3 DEF StagedInv, Where, Staged, BeforeTrash
  <2>. QED BY <2>1, <2>4, <2>5, <2>6 DEF StagedInv
<1>20. CASE CloseGroup
  <2>1. /\ pc # "idle" /\ op \in Ops /\ op' = op /\ record \in OperationRecord /\ Row(record, op)
    BY <1>20, InUse DEF CloseGroup, Vanished, VanishedWhole, Typed, Book, StagedInv
  <2>2. Fewer
    BY <1>20, <2>1, InUse, MovesFewer DEF CloseGroup, Renaming
  <2>3. (Row(record, op))'
    BY <1>20, <2>1, <2>2, StateOf, StepOf, RowKept
        DEF CloseGroup, Vanished, VanishedWhole, Row, Staged, StagedInv, Where, NoneStaged, Fewer
  <2>4. Listing'
    BY <1>20, <2>2, ListingKept DEF CloseGroup, StagedInv
  <2>5. Where'
    <3>1. /\ pc = "restore" /\ left = {} /\ pc' = "survey" /\ todo' = todo \ {group} /\ op' = op
      BY <1>20, <2>1 DEF CloseGroup
    <3>0. problem => problem'
      <4>1. problem' = problem \/ problem' = TRUE \/ problem' = (problem \/ record.trashPath # group)
        BY <1>20, <2>1 DEF CloseGroup
      <4>. QED  BY <4>1, Zenon
    <3>2. problem' \/ \A m \in Members : Staged(op, m)' => GroupOf[m] \in todo'
      BY <2>1, <2>2, <3>0, <3>1 DEF StagedInv, Where, Staged, Fewer
    <3>. QED  BY <3>1, <3>2 DEF Where, BeforeTrash
  <2>. QED BY <2>3, <2>4, <2>5 DEF StagedInv
<1>21. CASE FinishRecovery
  <2>1. /\ pc # "idle" /\ op \in Ops /\ op' = op /\ record \in OperationRecord /\ Row(record, op)
    BY <1>21, InUse DEF FinishRecovery, RecoveredState, Typed, Book, StagedInv
  <2>2. Fewer
    BY <1>21, <2>1, InUse, MovesFewer DEF FinishRecovery, Renaming
  <2>3. (Row(record, op))'
    BY <1>21, <2>1, <2>2, StateOf, StepOf, RowKept
        DEF FinishRecovery, RecoveredState, Row, Staged, StagedInv, Where, NoneStaged, Fewer
  <2>4. Listing'
    BY <1>21, <2>2, ListingKept DEF FinishRecovery, StagedInv
  <2>5. Where'
    BY <1>21, <2>1, <2>2, StateOf, StepOf, InUse
        DEF FinishRecovery, RecoveredState, StagedInv, Where, Staged, NoneStaged, Fewer,
          BeforeTrash, NeedsRecoveryAttention, StoppedWithRecoverableWork
  <2>. QED BY <2>3, <2>4, <2>5 DEF StagedInv
<1>22. CASE RetryDone
  <2>1. /\ pc # "idle" /\ op \in Ops /\ op' = op /\ record \in OperationRecord /\ Row(record, op)
    BY <1>22, InUse DEF RetryDone, Typed, Book, StagedInv
  <2>2. Fewer
    BY <1>22, <2>1, InUse, MovesFewer DEF RetryDone, Renaming
  <2>3. (Row(record, op))'
    BY <1>22, <2>1, <2>2, StateOf, StepOf, RowKept
        DEF RetryDone, Row, Staged, StagedInv, Where, NoneStaged, Fewer
  <2>4. Listing'
    BY <1>22, <2>2, ListingKept DEF RetryDone, StagedInv
  <2>5. Where'
    BY <1>22, <2>1, <2>2, StateOf, StepOf, InUse
        DEF RetryDone, StagedInv, Where, Staged, NoneStaged, Fewer, BeforeTrash,
          NeedsRecoveryAttention, StoppedWithRecoverableWork
  <2>. QED BY <2>3, <2>4, <2>5 DEF StagedInv
<1>23. CASE Settle
  <2>1. /\ op \in Ops /\ UNCHANGED staging /\ Row(record, op) /\ Idle
        /\ NeedsRecoveryAttention(record) \/ NoneStaged
        /\ Save(record) \/ UNCHANGED journal
    BY <1>23, InUse DEF Settle, StagedInv, Where
  <2>2. Listing'
    BY <2>1, MovesFewer, ListingKept, ListingSaved DEF StagedInv
  <2>. QED BY <2>1, <2>2, IdleInv
<1>24. ASSUME NEW o \in Ops, NEW plan \in SUBSET Groups, Execute(o, plan) PROVE StagedInv'
  <2>1. /\ o \in Ops /\ op' = o /\ pc' = "group" /\ UNCHANGED staging
        /\ \A i \in Ops : i # o => journal'[i] = journal[i]
    BY <1>24 DEF Execute, Typed, Book
  <2>2. \A m \in Members : ~Staged(o, m)
    BY <1>24 DEF Execute, StagedInv, Listing, NeedsRecoveryAttention
  <2>3. Listing'
    BY <2>1, <2>2 DEF StagedInv, Listing, Row, Staged
  <2>. QED BY <2>1, <2>2, <2>3 DEF StagedInv, Where, Row, Staged, NoneStaged, BeforeTrash
<1>25. ASSUME NEW o \in Ops, Restore(o) PROVE StagedInv'
  <2>1. /\ Load(o, WithState(journal[o], "Restoring"), "survey") /\ journal[o] \in OperationRecord
    BY <1>25 DEF Restore, Typed, Book
  <2>2. WithState(journal[o], "Restoring").step = journal[o].step /\ WithState(journal[o], "Restoring").plan = journal[o].plan
    BY <2>1, StateOf
  <2>. QED BY <2>1, <2>2, LoadedStaged
<1>26. ASSUME NEW o \in Ops, RetryTrash(o) PROVE StagedInv'
  <2>1. /\ journal[o] \in OperationRecord
        /\ \/ Load(o, WithState(journal[o], "Trashing"), "retry")
           \/ Load(o, WithState(journal[o], "NeedsRecovery"), "settle")
    BY <1>26 DEF RetryTrash, Typed, Book
  <2>2. \A s \in {"Trashing", "NeedsRecovery"} :
          /\ WithState(journal[o], s).step = journal[o].step /\ WithState(journal[o], s).plan = journal[o].plan
          /\ NeedsRecoveryAttention(WithState(journal[o], s))
    BY <2>1, StateOf DEF NeedsRecoveryAttention
  <2>. QED BY <2>1, <2>2, LoadedStaged
<1>27. ASSUME NEW o \in Ops, ConfirmTrashed(o) PROVE StagedInv'
  <2> DEFINE vouched == {m \in Members : journal[o].step[m] = "uncertain"
                                          /\ AllAt(journal[o], GroupOf[m], "uncertain")}
             restoring == WithState(journal[o], "Restoring")
             r == WithStep(restoring, vouched, "trashed")
  <2>1. journal[o] \in OperationRecord /\ Load(o, r, "survey")
    BY <1>27 DEF ConfirmTrashed, Typed, Book
  <2>2. restoring \in OperationRecord /\ restoring.step = journal[o].step /\ restoring.plan = journal[o].plan
    BY <2>1, StateTypes, StateOf
  <2>3. /\ r.plan = journal[o].plan
        /\ \A m \in Members : r.step[m] = journal[o].step[m] \/ journal[o].step[m] = "uncertain"
    <3>1. \A m \in vouched : journal[o].step[m] = "uncertain"
      OBVIOUS
    <3> HIDE DEF restoring, vouched
    <3>. QED BY <2>2, <3>1, StepOf
  <2> HIDE DEF r
  <2>. QED BY <2>1, <2>3, LoadedStaged
<1>28. CASE Crash
  <2>1. op \in Ops /\ UNCHANGED <<staging, journal>> /\ Idle
    BY <1>28, InUse DEF Crash
  <2>2. Listing'
    BY <2>1, MovesFewer, ListingKept DEF StagedInv
  <2>. QED BY <2>1, <2>2, IdleInv
<1>29. CASE Others
  <2>1. /\ UNCHANGED <<journal, record, pc, loop>> /\ Fewer
    <3>1. ASSUME NEW m \in Touchable, DisturbSource(m) PROVE UNCHANGED <<journal, record, pc, loop>> /\ Fewer
      BY <3>1 DEF DisturbSource, Undisturbed, Fewer
    <3>2. ASSUME NEW m \in Touchable, NEW o \in Ops, DisturbStaging(o, m)
          PROVE  UNCHANGED <<journal, record, pc, loop>> /\ Fewer
      BY <3>2, ConstantsAssumption DEF DisturbStaging, Undisturbed, Fewer, Typed, Disk
    <3>3. ASSUME NEW o \in Ops, NEW g \in Groups, RemoveFolder(o, g)
          PROVE  UNCHANGED <<journal, record, pc, loop>> /\ Fewer
      BY <3>3 DEF RemoveFolder, Fewer
    <3>. QED BY <1>29, <3>1, <3>2, <3>3, ConstantsAssumption DEF Others
  <2>2. Listing'
    BY <2>1, ListingKept DEF StagedInv
  <2>3. CASE pc = "idle"
    BY <2>1, <2>2, <2>3 DEF StagedInv, Where, BeforeTrash
  <2>4. CASE pc # "idle"
    <3>1. op \in Ops
      BY <2>4, InUse
    <3>2. (Row(record, op))'
      BY <2>1, <2>4, <3>1, RowKept DEF StagedInv
    <3>3. /\ op' = op /\ group' = group /\ left' = left /\ todo' = todo /\ missing' = missing
          /\ problem' = problem /\ pc' = pc /\ record' = record /\ journal' = journal
      BY <2>1
    <3>4. Where'
      <4>1. \A m \in Members : Staged(op, m)' => Staged(op, m)
        BY <2>1, <3>1, <3>3 DEF Staged, Fewer
      <4>2. NoneStaged => NoneStaged'
        BY <4>1 DEF NoneStaged
      <4>3. Where
        BY DEF StagedInv
      <4> HIDE DEF disk, loop, history
      <4>4. /\ pc' = pc /\ record' = record /\ journal'[op'] = journal[op] /\ group' = group /\ left' = left
            /\ todo' = todo /\ missing' = missing /\ problem' = problem
        BY <3>3
      <4>7. missing \subseteq Members
        BY DEF Typed, Loop
      <4>5. ASSUME NEW m \in Members, Staged(op, m)' PROVE Staged(op, m)
        BY <4>1, <4>5
      <4>6. Where'
        BY <4>2, <4>3, <4>4, <4>5, <4>7, <3>3
            DEF Where, Files, NeedsRecoveryAttention, StoppedWithRecoverableWork
      <4>. QED BY <4>6
    <3>. QED BY <2>2, <3>2, <3>4 DEF StagedInv
  <2>. QED BY <2>3, <2>4
<1>30. CASE UNCHANGED vars
  BY <1>30 DEF vars, StagedInv, Listing, Where, Row, Staged, NoneStaged
<1>. QED BY <1>1, <1>2, <1>3, <1>4, <1>5, <1>6, <1>7, <1>8, <1>9, <1>10, <1>11, <1>12, <1>13,
      <1>14, <1>15, <1>16, <1>17, <1>18, <1>19, <1>20, <1>21, <1>22, <1>23, <1>24, <1>25, <1>26,
      <1>27, <1>28, <1>29, <1>30 DEF Next, Run, Person

\* Nothing is staged at the start.
LEMMA InitStaged == Init => StagedInv
BY DEF Init, StagedInv, Listing, Row, Staged, Where, BeforeTrash, NeedsRecoveryAttention, Unborn

\* The account holds in every behaviour.
LEMMA StagedHolds == Spec => [](Typed /\ StagedInv)
<1>1. Typed /\ RecordInv /\ [Next]_vars => RecordInv'
  BY RecordSteps
<1>2. Typed /\ RecordInv /\ StagedInv /\ [Next]_vars => StagedInv'
  BY StagedSteps
<1>. QED BY InitTyped, NextTyped, InitRecord, InitStaged, <1>1, <1>2, PTL DEF Spec

\* The journal never trails the filesystem by more than one rename: at most one
\* file is in staging while its row still says "planned".
THEOREM JournalTrailsByOne == Spec => []JournalTrailsByOneRename
<1>1. StagedInv => JournalTrailsByOneRename
  BY DEF StagedInv, Listing, Row, Staged, JournalTrailsByOneRename
<1>. QED BY <1>1, StagedHolds, PTL

\* While a reviewed photo is in staging and nothing is running, its operation is
\* listed as one that needs attention.
THEOREM StagedIsListed == Spec => []StagedFilesAreListed
<1>1. StagedInv => StagedFilesAreListed
  BY DEF StagedInv, Listing, Staged, StagedFilesAreListed
<1>. QED BY <1>1, StagedHolds, PTL

(***************************************************************************)
(* Where the reviewed copy of each file is.                                *)
(***************************************************************************)

\* The reviewed copy of m is neither at its original path, nor staged, nor in Trash.
Nowhere(m) == source[m] # "reviewed" /\ trash[m] # "reviewed" /\ \A o \in Ops : ~Staged(o, m)

\* A reviewed file is in one place, or nowhere once other programs took it.
OneCopy == \A m \in Members :
  /\ m \in touched <=> Nowhere(m)
  /\ source[m] = "reviewed" => trash[m] # "reviewed" /\ \A o \in Ops : ~Staged(o, m)
  /\ trash[m] = "reviewed" => \A o \in Ops : ~Staged(o, m)
  /\ \A o, p \in Ops : Staged(o, m) /\ Staged(p, m) => o = p

\* Between a check and its rename no reviewed copy is in the way.
Free ==
  /\ pc = "move" => ~Staged(op, member)
  /\ pc \in {"returning", "restoring"} => source[member] # "reviewed"

CopyInv == OneCopy /\ Free

\* The place of Disposal.
Place == [m \in Members |-> PlaceOf(m)]

\* Where the reviewed copy is, when there is at most one ...
LEMMA Places ==
  ASSUME OneCopy, NEW m \in Members
  PROVE  /\ PlaceOf(m) = "source" <=> source[m] = "reviewed"
         /\ PlaceOf(m) = "staging" <=> \E o \in Ops : Staged(o, m)
         /\ PlaceOf(m) = "trash" <=> trash[m] = "reviewed"
         /\ PlaceOf(m) = "elsewhere" <=> m \in touched
         /\ PlaceOf(m) \in {"source", "staging", "trash", "elsewhere"}
BY DEF OneCopy, Nowhere, PlaceOf, Staged

\* ... before a step and after it.
LEMMA PlacesNext ==
  ASSUME OneCopy', NEW m \in Members
  PROVE  /\ PlaceOf(m)' = "source" <=> source'[m] = "reviewed"
         /\ PlaceOf(m)' = "staging" <=> \E o \in Ops : staging'[o][m] = "reviewed"
         /\ PlaceOf(m)' = "trash" <=> trash'[m] = "reviewed"
         /\ PlaceOf(m)' = "elsewhere" <=> m \in touched'
         /\ PlaceOf(m)' \in {"source", "staging", "trash", "elsewhere"}
BY DEF OneCopy, Nowhere, PlaceOf, Staged

\* All steps but the five that move or change a file.
LEMMA Untouched ==
  ASSUME OneCopy, UNCHANGED <<source, staging, trash, touched>>
  PROVE  OneCopy' /\ UNCHANGED Place
BY DEF OneCopy, Nowhere, Staged, PlaceOf, Place

\* A step that moves one file moves only that one.
LEMMA OnlyOne ==
  ASSUME NEW m \in Members, \A n \in Members \ {m} : PlaceOf(n)' = PlaceOf(n)
  PROVE  Place' = [Place EXCEPT ![m] = PlaceOf(m)']
BY DEF Place

\* The renames of execute() ...
LEMMA StageMoves ==
  ASSUME Typed, OneCopy, op \in Ops, NEW m \in Members, MoveToStaging(m), ~Staged(op, m),
         source[m] # "none"
  PROVE  /\ OneCopy'
         /\ UNCHANGED Place \/ (PlaceOf(m) = "source" /\ Place' = [Place EXCEPT ![m] = "staging"])
<1>1. /\ \A n \in Members : source'[n] = IF n = m THEN "none" ELSE source[n]
      /\ \A o \in Ops, n \in Members : staging'[o][n] = IF o = op /\ n = m THEN source[m] ELSE staging[o][n]
      /\ trash' = trash /\ touched' = touched
  BY DEF MoveToStaging, Typed, Disk
<1>2. OneCopy'
  BY <1>1 DEF OneCopy, Nowhere, Staged
<1>3. \A n \in Members \ {m} : PlaceOf(n)' = PlaceOf(n)
  BY <1>1 DEF PlaceOf
<1>4. source[m] = "reviewed" => PlaceOf(m) = "source" /\ PlaceOf(m)' = "staging"
  BY <1>1, <1>2, Places, PlacesNext
<1>5. source[m] # "reviewed" => PlaceOf(m)' = PlaceOf(m)
  BY <1>1, <1>2, Places, PlacesNext DEF Staged
<1>6. source[m] # "reviewed" => UNCHANGED Place
  BY <1>3, <1>5 DEF Place
<1>. QED BY <1>2, <1>3, <1>4, <1>6, OnlyOne

\* ... and those that put files back ...
LEMMA ReturnMoves ==
  ASSUME Typed, OneCopy, op \in Ops, NEW m \in Members, MoveToSource(m), source[m] # "reviewed"
  PROVE  /\ OneCopy'
         /\ UNCHANGED Place \/ (PlaceOf(m) = "staging" /\ Place' = [Place EXCEPT ![m] = "source"])
<1>1. /\ \A n \in Members : source'[n] = IF n = m THEN staging[op][m] ELSE source[n]
      /\ \A o \in Ops, n \in Members : staging'[o][n] = IF o = op /\ n = m THEN "none" ELSE staging[o][n]
      /\ trash' = trash /\ touched' = touched
  BY DEF MoveToSource, Typed, Disk
<1>2. OneCopy'
  BY <1>1 DEF OneCopy, Nowhere, Staged
<1>3. \A n \in Members \ {m} : PlaceOf(n)' = PlaceOf(n)
  BY <1>1 DEF PlaceOf
<1>4. Staged(op, m) => PlaceOf(m) = "staging" /\ PlaceOf(m)' = "source"
  BY <1>1, <1>2, Places, PlacesNext DEF Staged
<1>5. ~Staged(op, m) => PlaceOf(m)' = PlaceOf(m)
  BY <1>1, <1>2, Places, PlacesNext DEF Staged
<1>6. ~Staged(op, m) => UNCHANGED Place
  BY <1>3, <1>5 DEF Place
<1>. QED BY <1>2, <1>3, <1>4, <1>6, OnlyOne

\* ... the move of a directory that is complete, to Trash ...
LEMMA DisposeMoves ==
  ASSUME Typed, TrashInv, OneCopy, op \in Ops, NEW g \in Groups, MoveFolderToTrash(g), Intact(g)
  PROVE  /\ OneCopy'
         /\ \A m \in Files(g) : PlaceOf(m) \in {"staging", "elsewhere"}
         /\ Place' = [m \in Members |-> IF m \in Files(g) /\ Place[m] = "staging" THEN "trash" ELSE Place[m]]
<1>1. /\ \A m \in Members :
           trash'[m] = IF m \in Files(g) /\ staging[op][m] # "none" THEN staging[op][m] ELSE trash[m]
      /\ \A o \in Ops, m \in Members : staging'[o][m] = IF o = op /\ m \in Files(g) THEN "none" ELSE staging[o][m]
      /\ source' = source /\ touched' = touched
  BY DEF MoveFolderToTrash, Typed, Disk, history
<1>2. \A m \in Files(g) : m \in Members /\ (m \notin touched => Staged(op, m))
  BY DEF Intact, Files, Staged
<1>3. OneCopy'
  <2>1. ASSUME NEW m \in Members, m \notin Files(g)
        PROVE  /\ trash'[m] = trash[m] /\ \A o \in Ops : staging'[o][m] = staging[o][m]
               /\ source'[m] = source[m]
    BY <1>1, <2>1
  <2>2. ASSUME NEW m \in Files(g), m \in touched PROVE Nowhere(m)'
    BY <1>1, <1>2, <2>2 DEF OneCopy, Nowhere, Staged
  <2>3. ASSUME NEW m \in Files(g), m \notin touched
        PROVE  trash'[m] = "reviewed" /\ source'[m] # "reviewed" /\ \A o \in Ops : staging'[o][m] # "reviewed"
    BY <1>1, <1>2, <2>3 DEF OneCopy, Nowhere, Staged
  <2>. QED BY <1>1, <1>2, <2>1, <2>2, <2>3 DEF OneCopy, Nowhere, Staged
<1>4. \A m \in Files(g) : PlaceOf(m) \in {"staging", "elsewhere"}
  BY <1>2, Places
<1>5. ASSUME NEW m \in Members
      PROVE  PlaceOf(m)' = IF m \in Files(g) /\ PlaceOf(m) = "staging" THEN "trash" ELSE PlaceOf(m)
  <2>1. CASE m \in Files(g)
    BY <1>1, <1>2, <1>3, <2>1, Places, PlacesNext DEF Staged
  <2>2. CASE m \notin Files(g)
    BY <1>1, <2>2 DEF PlaceOf
  <2>. QED BY <2>1, <2>2
<1>. QED BY <1>3, <1>4, <1>5 DEF Place

\* ... and what other programs do move what Disposal says they move.
LEMMA TakenMoves ==
  ASSUME Typed, OneCopy, NEW m \in Members,
         \/ DisturbSource(m)
         \/ \E o \in Ops : DisturbStaging(o, m)
  PROVE  /\ OneCopy'
         /\ \/ UNCHANGED Place
            \/ /\ PlaceOf(m) \in {"source", "staging"}
               /\ Place' = [Place EXCEPT ![m] = "elsewhere"]
<1>1. CASE DisturbSource(m)
  <2>1. /\ \A n \in Members : n # m => source'[n] = source[n]
        /\ source'[m] # "reviewed" /\ UNCHANGED <<staging, trash>>
        /\ touched' = IF source[m] = "reviewed" THEN touched \cup {m} ELSE touched
    BY <1>1 DEF DisturbSource, Undisturbed, Typed, Disk
  <2>2. OneCopy'
    BY <2>1 DEF OneCopy, Nowhere, Staged
  <2>3. \A n \in Members \ {m} : PlaceOf(n)' = PlaceOf(n)
    BY <2>1 DEF PlaceOf
  <2>4. source[m] = "reviewed" => PlaceOf(m) = "source" /\ PlaceOf(m)' = "elsewhere"
    BY <2>1, <2>2, Places, PlacesNext
  <2>5. source[m] # "reviewed" => UNCHANGED Place
    <3>1. source[m] # "reviewed" => PlaceOf(m)' = PlaceOf(m)
      BY <2>1 DEF PlaceOf
    <3>. QED BY <2>3, <3>1 DEF Place
  <2>. QED BY <2>2, <2>3, <2>4, <2>5, OnlyOne
<1>2. ASSUME NEW o \in Ops, DisturbStaging(o, m)
      PROVE  /\ OneCopy'
             /\ \/ UNCHANGED Place
                \/ /\ PlaceOf(m) \in {"source", "staging"}
                   /\ Place' = [Place EXCEPT ![m] = "elsewhere"]
  <2>1. /\ \A p \in Ops, n \in Members : (p # o \/ n # m) => staging'[p][n] = staging[p][n]
        /\ staging'[o][m] # "reviewed" /\ UNCHANGED <<source, trash>>
        /\ touched' = IF Staged(o, m) THEN touched \cup {m} ELSE touched
    BY <1>2 DEF DisturbStaging, Undisturbed, Typed, Disk, Staged
  <2>2. OneCopy'
    BY <2>1 DEF OneCopy, Nowhere, Staged
  <2>3. \A n \in Members \ {m} : PlaceOf(n)' = PlaceOf(n)
    BY <2>1 DEF PlaceOf
  <2>4. Staged(o, m) => PlaceOf(m) = "staging" /\ PlaceOf(m)' = "elsewhere"
    BY <2>1, <2>2, Places, PlacesNext
  <2>5. ~Staged(o, m) => UNCHANGED Place
    <3>1. ~Staged(o, m) => PlaceOf(m)' = PlaceOf(m)
      BY <2>1 DEF PlaceOf, Staged
    <3>. QED BY <2>3, <3>1 DEF Place
  <2>. QED BY <2>2, <2>3, <2>4, <2>5, OnlyOne
<1>. QED BY <1>1, <1>2

\* What a step of the disk does to the places.
Carried ==
  \/ \E m \in Members :
       \/ Place[m] = "source" /\ Place' = [Place EXCEPT ![m] = "staging"]
       \/ Place[m] = "staging" /\ Place' = [Place EXCEPT ![m] = "source"]
       \/ Place[m] \in {"source", "staging"} /\ Place' = [Place EXCEPT ![m] = "elsewhere"]
  \/ \E g \in Groups :
       /\ \A m \in Files(g) : Place[m] \in {"staging", "elsewhere"}
       /\ Place' = [m \in Members |-> IF m \in Files(g) /\ Place[m] = "staging" THEN "trash" ELSE Place[m]]

\* Files and rows do not change in the same step.
PlaceStep == UNCHANGED Place \/ (Carried /\ UNCHANGED journal)

\* The steps that leave every file where it is.
LEMMA Still ==
  ASSUME Quiet, ~AskTrash, ~\E g \in Groups : RetryGroup(g)
  PROVE  UNCHANGED <<source, staging, trash, touched>>
<1> USE DEF disk, loop, history
<1>1. ASSUME NEW g \in Groups, OpenGroup(g) \/ SurveyGroup(g)
      PROVE  UNCHANGED <<source, staging, trash, touched>>
  BY <1>1 DEF OpenGroup, SurveyGroup
<1>2. CASE RecordStagingIntent \/ ConfirmMove \/ AbortDone
  BY <1>2 DEF RecordStagingIntent, ConfirmMove, AbortDone
<1>3. CASE VerifyStaged \/ JournalStaged \/ JournalTrashing \/ JournalTrashed
  BY <1>3 DEF VerifyStaged, JournalStaged, JournalTrashing, JournalTrashed
<1>4. CASE PersistGroup \/ Complete \/ CloseGroup \/ FinishRecovery \/ RetryDone \/ Settle
  BY <1>4 DEF PersistGroup, Complete, CloseGroup, FinishRecovery, RetryDone, Settle
<1>5. CASE Person
  BY <1>5 DEF Person, Execute, Restore, RetryTrash, ConfirmTrashed, Load
<1>6. CASE Crash
  BY <1>6 DEF Crash
<1>. QED  BY <1>1, <1>2, <1>3, <1>4, <1>5, <1>6 DEF Quiet

\* No step makes a second copy of a reviewed file or loses the only one.
LEMMA CopySteps ==
  ASSUME Typed, TrashInv, CopyInv, [Next]_vars PROVE CopyInv' /\ PlaceStep
<1> USE DEF disk, loop, history
<1>1. CASE UNCHANGED <<source, staging, trash, touched>> /\ pc' \notin Renaming
  <2>1. OneCopy' /\ UNCHANGED Place
    BY <1>1, Untouched DEF CopyInv
  <2>. QED BY <1>1, <2>1 DEF CopyInv, Free, Renaming, PlaceStep
<1>2. ASSUME NEW g \in Groups, MoveFolderToTrash(g), Intact(g), op \in Ops, UNCHANGED journal, pc' \notin Renaming
      PROVE  CopyInv' /\ PlaceStep
  <2>1. /\ OneCopy' /\ \A m \in Files(g) : PlaceOf(m) \in {"staging", "elsewhere"}
        /\ Place' = [m \in Members |-> IF m \in Files(g) /\ Place[m] = "staging" THEN "trash" ELSE Place[m]]
    BY <1>2, DisposeMoves DEF CopyInv
  <2>2. \A m \in Files(g) : Place[m] = PlaceOf(m)
    BY DEF Place, Files
  <2>3. PlaceStep
    BY <1>2, <2>1, <2>2 DEF PlaceStep, Carried
  <2>. QED BY <1>2, <2>1, <2>3 DEF CopyInv, Free, Renaming
<1>3. CASE AskTrash
  <2>1. pc = "trash" /\ op \in Ops /\ group \in Groups /\ UNCHANGED journal
    BY <1>3, InUse DEF AskTrash, ExecutingGroup
  <2>2. Intact(group) /\ pc' \notin Renaming
    BY <1>3, <2>1 DEF AskTrash, TrashInv, Guarded, Renaming
  <2>3. MoveFolderToTrash(group) \/ UNCHANGED <<source, staging, trash, touched>>
    BY <1>3 DEF AskTrash
  <2>. QED BY <1>1, <1>2, <2>1, <2>2, <2>3
<1>4. ASSUME NEW g \in Groups, RetryGroup(g) PROVE CopyInv' /\ PlaceStep
  <2>1. pc = "retry" /\ op \in Ops /\ UNCHANGED journal /\ Intact(g)
    BY <1>4, InUse DEF RetryGroup, TrashInv, Guarded
  <2>2. pc' \notin Renaming
    BY <1>4 DEF RetryGroup, Renaming
  <2>3. MoveFolderToTrash(g) \/ UNCHANGED <<source, staging, trash, touched>>
    BY <1>4 DEF RetryGroup
  <2>. QED BY <1>1, <1>2, <2>1, <2>2, <2>3
<1>5. CASE Quiet /\ ~AskTrash /\ ~\E g \in Groups : RetryGroup(g)
  BY <1>1, <1>5, Still, QuietSteps
<1>6. ASSUME NEW m \in Members, CheckStagingPath(m) \/ CheckPutBack(m) \/ ExamineMember(m)
      PROVE  CopyInv' /\ PlaceStep
  <2>1. UNCHANGED <<source, staging, trash, touched, op>>
    BY <1>6 DEF CheckStagingPath, AbortStaging, CheckPutBack, ExamineMember
  <2>2. OneCopy' /\ UNCHANGED Place
    BY <2>1, Untouched DEF CopyInv
  <2>3. Free'
    <3>1. CASE CheckStagingPath(m)
      BY <2>1, <3>1 DEF CheckStagingPath, AbortStaging, Free, Staged
    <3>2. CASE CheckPutBack(m)
      BY <2>1, <3>2 DEF CheckPutBack, CopyInv, Free, Staged
    <3>3. CASE ExamineMember(m)
      BY <2>1, <3>3 DEF ExamineMember, Restorable, CopyInv, Free, Staged
    <3>. QED BY <1>6, <3>1, <3>2, <3>3
  <2>. QED BY <2>2, <2>3 DEF CopyInv, PlaceStep
<1>7. CASE StageMember
  <2>1. pc = "move" /\ op \in Ops /\ member \in Members /\ UNCHANGED journal /\ pc' \notin Renaming
    BY <1>7, InUse DEF StageMember, Renaming, AbortStaging
  <2>2. CASE MoveToStaging(member) /\ source[member] # "none"
    <3>1. PICK m \in Members : m = member
      BY <2>1
    <3>2. /\ OneCopy'
          /\ UNCHANGED Place \/ (PlaceOf(m) = "source" /\ Place' = [Place EXCEPT ![m] = "staging"])
      BY <2>1, <2>2, <3>1, StageMoves DEF CopyInv, Free
    <3>3. Place[m] = PlaceOf(m)
      BY DEF Place
    <3>. QED BY <2>1, <3>2, <3>3 DEF CopyInv, Free, Renaming, PlaceStep, Carried
  <2>. QED BY <1>1, <1>7, <2>1, <2>2 DEF StageMember
<1>8. CASE PutBackMember \/ RestoreMember
  <2>1. /\ pc \in {"returning", "restoring"} /\ op \in Ops /\ member \in Members /\ UNCHANGED journal
        /\ pc' \notin Renaming
    BY <1>8, InUse DEF PutBackMember, RestoreMember, Renaming
  <2>2. CASE MoveToSource(member)
    <3>1. PICK m \in Members : m = member
      BY <2>1
    <3>2. /\ OneCopy'
          /\ UNCHANGED Place \/ (PlaceOf(m) = "staging" /\ Place' = [Place EXCEPT ![m] = "source"])
      BY <2>1, <2>2, <3>1, ReturnMoves DEF CopyInv, Free
    <3>3. Place[m] = PlaceOf(m)
      BY DEF Place
    <3>. QED BY <2>1, <3>2, <3>3 DEF CopyInv, Free, Renaming, PlaceStep, Carried
  <2>. QED BY <1>1, <1>8, <2>1, <2>2 DEF PutBackMember, RestoreMember
<1>9. ASSUME NEW m \in Members, DisturbSource(m) \/ \E o \in Ops : DisturbStaging(o, m)
      PROVE  CopyInv' /\ PlaceStep
  <2>1. /\ OneCopy'
        /\ \/ UNCHANGED Place
           \/ PlaceOf(m) \in {"source", "staging"} /\ Place' = [Place EXCEPT ![m] = "elsewhere"]
    BY <1>9, TakenMoves DEF CopyInv
  <2>2. Place[m] = PlaceOf(m)
    BY DEF Place
  <2>3. UNCHANGED <<journal, pc, op, member>>
    BY <1>9 DEF DisturbSource, DisturbStaging, Undisturbed
  <2>4. Free'
    <3>1. /\ pc = "move" => op \in Ops /\ member \in Members
          /\ pc \in {"returning", "restoring"} => member \in Members
      BY InUse DEF Renaming
    <3>2. \A n \in Members : /\ source'[n] = "reviewed" => source[n] = "reviewed"
                             /\ \A o \in Ops : staging'[o][n] = "reviewed" => staging[o][n] = "reviewed"
      BY <1>9 DEF DisturbSource, DisturbStaging, Undisturbed, Typed, Disk
    <3>. QED BY <2>3, <3>1, <3>2 DEF CopyInv, Free, Staged
  <2>. QED BY <2>1, <2>2, <2>3, <2>4 DEF CopyInv, PlaceStep, Carried
<1>10. ASSUME NEW o \in Ops, NEW g \in Groups, RemoveFolder(o, g) PROVE CopyInv' /\ PlaceStep
  <2>1. UNCHANGED <<source, staging, trash, touched, pc, op, member>>
    BY <1>10 DEF RemoveFolder
  <2>2. OneCopy' /\ UNCHANGED Place
    BY <2>1, Untouched DEF CopyInv
  <2>. QED BY <2>1, <2>2 DEF CopyInv, Free, Staged, PlaceStep
<1>11. CASE Others
  BY <1>9, <1>10, <1>11, ConstantsAssumption DEF Others
<1>12. CASE UNCHANGED vars
  <2>1. UNCHANGED <<source, staging, trash, touched, pc, op, member>>
    BY <1>12 DEF vars
  <2>2. OneCopy' /\ UNCHANGED Place
    BY <2>1, Untouched DEF CopyInv
  <2>. QED BY <2>1, <2>2 DEF CopyInv, Free, Staged, PlaceStep
<1>. QED BY <1>3, <1>4, <1>5, <1>6, <1>7, <1>8, <1>11, <1>12 DEF Next, Run, Quiet

\* At the start every file is at its original path and nowhere else.
LEMMA InitCopies == Init => CopyInv
BY DEF Init, CopyInv, OneCopy, Nowhere, Free, Staged

\* What nobody else touched is at its original path, in staging or in Trash.
NothingLost == \A m \in Members \ touched : PlaceOf(m) # "elsewhere"

\* Whatever fails and wherever the process dies, a reviewed file that no other
\* program changed or removed is in one of the three places.
THEOREM NothingIsLost == Spec => []NothingLost
<1>1. Typed /\ TrashInv /\ CopyInv /\ [Next]_vars => CopyInv'
  BY CopySteps
<1>2. CopyInv => NothingLost
  BY Places DEF CopyInv, NothingLost
<1>. QED
  BY InitTyped, NextTyped, TrashInvInit, TrashInvNext, InitCopies, <1>1, <1>2, PTL DEF Spec

(***************************************************************************)
(* The refinement of Disposal.                                             *)
(***************************************************************************)

\* A claim is never taken back.
LEMMA ClaimedGrows ==
  ASSUME JournalGrows PROVE Claimed \subseteq Claimed'
<1>1. ASSUME NEW o \in Ops, NEW g \in Trashed(journal[o]) PROVE g \in Trashed(journal'[o])
  BY <1>1 DEF JournalGrows, Follows, Trashed, AllAt, Files
<1>. QED BY <1>1 DEF Claimed

\* What is claimed is not at its original path nor in staging.
ClaimsHold ==
  /\ Claimed \subseteq Groups
  /\ \A g \in Claimed : \A m \in Files(g) : Place[m] \in {"trash", "elsewhere"}

\* The claims are so, since journals are truthful.
LEMMA ClaimsAreSo ==
  ASSUME Typed, JournalTruthful, OneCopy PROVE ClaimsHold
<1>1. ASSUME NEW o \in Ops, NEW g \in Trashed(journal[o])
      PROVE  g \in Groups /\ \A m \in Files(g) : Place[m] \in {"trash", "elsewhere"}
  <2>1. g \in Groups
    BY DEF Trashed, Typed, Book, OperationRecord
  <2>2. ASSUME NEW m \in Files(g) PROVE Place[m] \in {"trash", "elsewhere"}
    <3>1. m \in Members /\ (m \notin touched => trash[m] = "reviewed")
      BY DEF Trashed, AllAt, Files, JournalTruthful, Truthful
    <3>2. PlaceOf(m) \in {"trash", "elsewhere"}
      BY <3>1, Places
    <3>. QED BY <3>1, <3>2 DEF Place
  <2>. QED BY <2>1, <2>2
<1>. QED BY <1>1 DEF Claimed, ClaimsHold

\* The first state is one of Disposal.
LEMMA InitPromise == Init => D!Init
<1> SUFFICES ASSUME Init PROVE D!Init
  OBVIOUS
<1>1. \A o \in Ops : Trashed(journal[o]) = {}
  BY DEF Init, Unborn, Trashed
<1>2. Claimed = {}
  BY <1>1 DEF Claimed
<1>3. \A m \in Members : PlaceOf(m) = "source"
  BY DEF Init, PlaceOf
<1>. QED BY <1>2, <1>3 DEF D!Init

\* Every step is one of Disposal or leaves its view unchanged.
LEMMA StepPromise ==
  ASSUME ClaimsHold', JournalGrows, PlaceStep
  PROVE  [D!Next]_(D!vars)
<1>1. CASE UNCHANGED Place
  <2>1. /\ Claimed' \in SUBSET Groups
        /\ \A g \in Claimed' : \A m \in Files(g) : Place'[m] \in {"trash", "elsewhere"}
    BY DEF ClaimsHold
  <2>2. Claimed' = Claimed \cup Claimed'
    BY ClaimedGrows
  <2>3. D!Claim(Claimed')
    BY <1>1, <2>1, <2>2 DEF D!Claim, D!Files, Files, Place
  <2>. QED BY <2>1, <2>3 DEF D!Next
<1>2. CASE Carried /\ UNCHANGED journal
  <2>1. UNCHANGED Claimed
    BY <1>2 DEF Claimed
  <2>2. CASE \E m \in Members : Place[m] = "source" /\ Place' = [Place EXCEPT ![m] = "staging"]
    BY <2>1, <2>2 DEF D!Next, D!Stage, Place
  <2>3. CASE \E m \in Members : Place[m] = "staging" /\ Place' = [Place EXCEPT ![m] = "source"]
    BY <2>1, <2>3 DEF D!Next, D!Return, Place
  <2>4. CASE \E m \in Members : Place[m] \in {"source", "staging"} /\ Place' = [Place EXCEPT ![m] = "elsewhere"]
    BY <2>1, <2>4 DEF D!Next, D!Taken, Place
  <2>5. CASE \E g \in Groups :
               /\ \A m \in Files(g) : Place[m] \in {"staging", "elsewhere"}
               /\ Place' = [m \in Members |->
                              IF m \in Files(g) /\ Place[m] = "staging" THEN "trash" ELSE Place[m]]
    BY <2>1, <2>5 DEF D!Next, D!Dispose, D!Files, Files, Place
  <2>. QED BY <1>2, <2>2, <2>3, <2>4, <2>5 DEF Carried
<1>. QED BY <1>1, <1>2 DEF PlaceStep

\* Deletion and recovery implement Disposal through every failure, crash, recovery
\* and interference: a photo goes to Trash whole and in one step, no file is lost
\* on the way, and no claim of a journal is false or taken back.
THEOREM StagingImplementsDisposal == Spec => ImplementsDisposal
<1>1. Typed /\ RecordInv /\ [Next]_vars => RecordInv' /\ JournalGrows
  BY RecordSteps
<1>2. Typed /\ TrashInv /\ CopyInv /\ [Next]_vars => CopyInv' /\ PlaceStep
  BY CopySteps
<1>4. Typed /\ TrashInv /\ CopyInv => ClaimsHold
  BY ClaimsAreSo DEF TrashInv, CopyInv
<1>3. ClaimsHold' /\ JournalGrows /\ PlaceStep => [D!Next]_(D!vars)
  BY StepPromise
<1>. QED
  BY InitTyped, NextTyped, InitRecord, TrashInvInit, TrashInvNext, InitCopies, InitPromise,
     <1>1, <1>2, <1>3, <1>4, PTL
  DEF Spec, ImplementsDisposal, D!Spec

(***************************************************************************)
(* Uncertain files.                                                        *)
(***************************************************************************)

\* s doubts nothing that r does not.
Fresh(s, r) == \A m \in Members : s.step[m] = "uncertain" => r.step[m] = "uncertain"

\* The file is out of reach for operation o: in Trash, or staged by another.
Away(o, m) == trash[m] = "reviewed" \/ \E p \in Ops \ {o} : Staged(p, m)

\* What the record in memory doubts and the journal does not yet, and what a
\* recovery misses, is out of reach.
DoubtInv ==
  /\ pc # "idle" => \A m \in Members \ touched :
       record.step[m] = "uncertain" /\ journal[op].step[m] # "uncertain" => Away(op, m)
  /\ pc \in RestoringGroup => \A m \in missing \ touched : Away(op, m)

\* What a step writes into the journal as uncertain is out of reach.
NewDoubts ==
  \A o \in Ops, m \in Members \ touched :
    journal[o].step[m] # "uncertain" /\ journal'[o].step[m] = "uncertain" => Away(o, m)

\* Records that doubt nothing new.
LEMMA FreshForms ==
  ASSUME NEW r \in OperationRecord
  PROVE  /\ Fresh(r, r) /\ Fresh(Unborn, r)
         /\ \A s : Fresh(WithState(r, s), r)
         /\ \A ms, s : s # "uncertain" =>
              Fresh(WithStep(r, ms, s), r)
<1>1. \A s : Fresh(WithState(r, s), r)
  BY StateOf DEF Fresh
<1>2. \A ms, s : s # "uncertain" => Fresh(WithStep(r, ms, s), r)
  BY StepOf DEF Fresh
<1>. QED BY <1>1, <1>2 DEF Fresh, Unborn

LEMMA FreshBoth ==
  ASSUME NEW r \in OperationRecord, NEW ms \in SUBSET Members, NEW s \in Step \ {"uncertain"}, NEW t \in State
  PROVE  Fresh(WithState(WithStep(r, ms, s), t), r) /\ Fresh(WithStep(WithState(r, t), ms, s), r)
<1>1. WithStep(r, ms, s) \in OperationRecord /\ WithState(r, t) \in OperationRecord
  BY StepTypes, StateTypes
<1>2. Fresh(WithState(WithStep(r, ms, s), t), WithStep(r, ms, s)) /\ Fresh(WithStep(r, ms, s), r)
  BY <1>1, FreshForms
<1>3. Fresh(WithStep(WithState(r, t), ms, s), WithState(r, t)) /\ Fresh(WithState(r, t), r)
  BY <1>1, FreshForms
<1>. QED BY <1>2, <1>3 DEF Fresh

\* What a step of a run other than CloseGroup writes down.
Sober ==
  /\ Fresh(record', record)
  /\ UNCHANGED journal \/ \E r : Save(r) /\ Fresh(r, record) /\ Fresh(record', r)

\* Only CloseGroup marks anything as uncertain.
LEMMA SoberSteps ==
  ASSUME Typed, pc # "idle", Run \/ Crash, ~CloseGroup PROVE Sober
<1> USE DEF disk, loop, history
<1>0. record \in OperationRecord /\ Fresh(record, record) /\ Fresh(Unborn, record)
  BY FreshForms DEF Typed, Book
<1>1. ASSUME NEW g \in Groups, OpenGroup(g) PROVE Sober
  BY <1>0, <1>1, FreshForms DEF OpenGroup, Sober
<1>2. ASSUME NEW g \in Groups, SurveyGroup(g) PROVE Sober
  BY <1>0, <1>2 DEF SurveyGroup, Sober
<1>3. ASSUME NEW g \in Groups, RetryGroup(g) PROVE Sober
  <2>1. UNCHANGED journal
    BY <1>3 DEF RetryGroup
  <2>2. ASSUME NEW path \in {g, None}, record' = TrashedAt(g, path) PROVE Sober
    BY <1>0, <2>1, <2>2, TrashedOf DEF Sober, Fresh
  <2>3. CASE record' = RetryRefused(g)
    BY <1>0, <2>1, <2>3, RefusedOf DEF Sober, Fresh
  <2>. QED BY <1>3, <2>2, <2>3 DEF RetryGroup
<1>4. ASSUME NEW m \in Members, CheckStagingPath(m) \/ CheckPutBack(m) PROVE Sober
  BY <1>0, <1>4 DEF CheckStagingPath, AbortStaging, CheckPutBack, Sober
<1>5. ASSUME NEW m \in Members, ExamineMember(m) PROVE Sober
  BY <1>0, <1>5, FreshForms DEF ExamineMember, Sober
<1>6. CASE RecordStagingIntent
  <2> DEFINE intent == WithStep(record, Files(group), "planned")
  <2>1. Fresh(intent, record) /\ Fresh(WithState(intent, "Failed"), record)
    <3>1. Files(group) \in SUBSET Members
      BY DEF Files
    <3>. QED BY <1>0, <3>1, FreshForms, FreshBoth
  <2> HIDE DEF intent
  <2>2. \/ record' = intent /\ Save(intent)
        \/ record' = WithState(intent, "Failed") /\ UNCHANGED journal
    BY <1>6 DEF RecordStagingIntent, intent
  <2>. QED BY <2>1, <2>2 DEF Sober, Fresh
<1>7. CASE StageMember \/ PutBackMember \/ RestoreMember
  <2>1. UNCHANGED journal
    BY <1>7 DEF StageMember, PutBackMember, RestoreMember, AbortStaging
  <2>2. record' \in {record, WithStep(record, {member}, "staged"), WithStep(record, {member}, "restored")}
    BY <1>7 DEF StageMember, PutBackMember, RestoreMember, AbortStaging
  <2>. QED BY <1>0, <2>1, <2>2, FreshForms DEF Sober
<1>8. CASE ConfirmMove \/ AbortDone \/ VerifyStaged \/ JournalTrashed
  BY <1>0, <1>8, FreshForms DEF ConfirmMove, AbortDone, VerifyStaged, JournalTrashed, Sober
<1>9. CASE JournalStaged
  <2> DEFINE staged == WithState(record, "Staged")
  <2>1. staged \in OperationRecord
    BY <1>0, StateTypes
  <2>2. Fresh(staged, record) /\ Fresh(WithState(staged, "NeedsRecovery"), staged)
    BY <1>0, <2>1, FreshForms
  <2>3. \/ record' = staged /\ Save(staged)
        \/ record' = WithState(staged, "NeedsRecovery") /\ UNCHANGED journal
    BY <1>9 DEF JournalStaged
  <2> HIDE DEF staged
  <2>. QED BY <2>2, <2>3 DEF Sober, Fresh
<1>10. CASE JournalTrashing
  <2>1. record'.step = record.step
    BY <1>0, <1>10, TrashingOf
  <2>2. UNCHANGED journal \/ Save(record')
    BY <1>10 DEF JournalTrashing
  <2>. QED BY <2>1, <2>2 DEF Sober, Fresh
<1>11. CASE AskTrash
  <2>1. UNCHANGED journal /\ group \in Groups
    BY <1>11, InUse DEF AskTrash, ExecutingGroup
  <2>2. ASSUME NEW path \in {group, None}, record' = TrashedAt(group, path) PROVE Sober
    BY <1>0, <2>1, <2>2, TrashedOf DEF Sober, Fresh
  <2>3. CASE record' = WithState(record, "NeedsRecovery")
    BY <1>0, <2>1, <2>3, FreshForms DEF Sober
  <2>. QED BY <1>11, <2>2, <2>3 DEF AskTrash
<1>12. CASE PersistGroup \/ Settle \/ Crash
  BY <1>0, <1>12 DEF PersistGroup, Settle, Crash, Idle, Sober
<1>13. CASE Complete
  BY <1>0, <1>13, FreshForms DEF Complete, Idle, Sober, Fresh, Unborn
<1>14. CASE FinishRecovery \/ RetryDone
  BY <1>0, <1>14, FreshForms DEF FinishRecovery, RetryDone, Sober
<1>. QED BY <1>1, <1>2, <1>3, <1>4, <1>5, <1>6, <1>7, <1>8, <1>9, <1>10, <1>11, <1>12, <1>13,
      <1>14 DEF Run

\* A row that is loaded doubts nothing new.
LEMMA SoberPerson ==
  ASSUME Typed, NEW o \in Ops,
         Restore(o) \/ RetryTrash(o) \/ ConfirmTrashed(o) \/ \E plan \in SUBSET Groups : Execute(o, plan)
  PROVE  /\ op' = o /\ Fresh(record', journal'[o])
         /\ \A i \in Ops : Fresh(journal'[i], journal[i])
         /\ pc' \notin RestoringGroup
<1>0. journal[o] \in OperationRecord
  BY DEF Typed, Book
<1>1. CASE Restore(o) \/ RetryTrash(o)
  BY <1>0, <1>1, FreshForms DEF Restore, RetryTrash, Load, RestoringGroup, Typed, Book, Fresh
<1>2. CASE ConfirmTrashed(o)
  <2> DEFINE vouched == {m \in Members : journal[o].step[m] = "uncertain"
                                          /\ AllAt(journal[o], GroupOf[m], "uncertain")}
             r == WithStep(WithState(journal[o], "Restoring"), vouched, "trashed")
  <2>1. Load(o, r, "survey")
    BY <1>2 DEF ConfirmTrashed
  <2>2. Fresh(r, journal[o])
    BY <1>0, FreshBoth
  <2> HIDE DEF r
  <2>. QED BY <2>1, <2>2 DEF Load, RestoringGroup, Fresh
<1>3. ASSUME NEW plan \in SUBSET Groups, Execute(o, plan)
      PROVE  /\ op' = o /\ Fresh(record', journal'[o])
             /\ \A i \in Ops : Fresh(journal'[i], journal[i])
             /\ pc' \notin RestoringGroup
  <2>1. \A m \in Members : PlannedRecord(plan).step[m] = "planned"
    BY DEF PlannedRecord, Unborn
  <2>2. /\ record' = PlannedRecord(plan) /\ pc' = "group" /\ op' = o
        /\ \A i \in Ops : journal'[i] = IF i = o THEN PlannedRecord(plan) ELSE journal[i]
    BY <1>3 DEF Execute, Typed, Book
  <2>. QED BY <2>1, <2>2 DEF Fresh, RestoringGroup
<1>. QED BY <1>1, <1>2, <1>3

\* What is in Trash stays there, unless other programs touch it.
TrashKept == \A m \in Members \ touched' : m \notin touched /\ (trash[m] = "reviewed" => trash'[m] = "reviewed")

\* What is in Trash stays there.
LEMMA TrashIsKept ==
  ASSUME OneCopy, OneCopy', PlaceStep PROVE TrashKept
<1>1. ASSUME NEW m \in Members PROVE Place[m] = PlaceOf(m) /\ Place'[m] = PlaceOf(m)'
  BY DEF Place
<1>2. ASSUME NEW m \in Members
      PROVE /\ Place[m] = "trash" => Place'[m] = "trash"
            /\ Place[m] = "elsewhere" => Place'[m] = "elsewhere"
  BY DEF PlaceStep, Carried, Place
<1>3. ASSUME NEW m \in Members
      PROVE /\ trash[m] = "reviewed" => trash'[m] = "reviewed"
            /\ m \in touched => m \in touched'
  BY <1>1, <1>2, Places, PlacesNext
<1>. QED BY <1>3 DEF TrashKept

\* A run renames in its own staging only, and goes on with its operation.
LEMMA OthersStagingKept ==
  ASSUME Typed, pc # "idle", Run \/ Crash
  PROVE  /\ \A p \in Ops \ {op}, m \in Members : staging'[p][m] = staging[p][m]
         /\ pc' # "idle" => op' = op
<1> USE DEF disk, loop, history
<1>1. pc' # "idle" => op' = op
  BY DEF Run, OpenGroup, SurveyGroup, RetryGroup, CheckStagingPath, CheckPutBack, ExamineMember,
         RecordStagingIntent, StageMember, ConfirmMove, PutBackMember, AbortDone, VerifyStaged,
         JournalStaged, JournalTrashing, AskTrash, JournalTrashed, PersistGroup, Complete,
         RestoreMember, CloseGroup, FinishRecovery, RetryDone, Settle, Crash, Idle
<1>2. \/ staging' = staging
      \/ \E m \in Members : MoveToStaging(m) \/ MoveToSource(m)
      \/ \E g \in Groups : MoveFolderToTrash(g)
  <2>1. pc \in Renaming => member \in Members
    BY InUse
  <2>2. pc = "trash" => group \in Groups
    BY InUse DEF ExecutingGroup
  <2>. QED
    BY <2>1, <2>2
    DEF Renaming, Run, OpenGroup, SurveyGroup, RetryGroup, CheckStagingPath, CheckPutBack,
        ExamineMember, RecordStagingIntent, StageMember, ConfirmMove, PutBackMember, AbortDone,
        VerifyStaged, JournalStaged, JournalTrashing, AskTrash, JournalTrashed, PersistGroup,
        Complete, RestoreMember, CloseGroup, FinishRecovery, RetryDone, Settle, Crash
<1>3. ASSUME NEW p \in Ops \ {op} PROVE staging'[p] = staging[p]
  BY <1>2 DEF MoveToStaging, MoveToSource, MoveFolderToTrash, Typed, Disk
<1>. QED BY <1>1, <1>3

\* What is out of reach stays there while the run goes on.
LEMMA AwayKept ==
  ASSUME Typed, pc # "idle", Run \/ Crash, TrashKept, pc' # "idle",
         NEW m \in Members, m \notin touched', Away(op, m)
  PROVE  (Away(op, m))'
BY OthersStagingKept DEF Away, TrashKept, Staged

\* A file that is neither at its original path nor in this operation's staging.
LEMMA MissingIsAway ==
  ASSUME CopyInv, NEW m \in Members \ touched, source[m] # "reviewed", ~Staged(op, m)
  PROVE  Away(op, m)
BY DEF CopyInv, OneCopy, Nowhere, Away

\* Every step keeps what is doubted out of reach.
LEMMA DoubtSteps ==
  ASSUME Typed, CopyInv, DoubtInv, TrashKept, [Next]_vars
  PROVE  DoubtInv' /\ NewDoubts
<1> USE DEF disk, loop, history
<1>1. ASSUME pc # "idle", Run \/ Crash, op \in Ops, Sober,
             pc' \in RestoringGroup => \A m \in missing' \ touched' : (Away(op, m))'
      PROVE  DoubtInv' /\ NewDoubts
  <2>1. CASE UNCHANGED journal
    <3>1. ASSUME pc' # "idle", NEW m \in Members \ touched',
                 record'.step[m] = "uncertain", journal'[op'].step[m] # "uncertain"
          PROVE  (Away(op, m))'
      <4>1. op' = op /\ m \notin touched
        BY <1>1, <3>1, OthersStagingKept DEF TrashKept
      <4>2. Away(op, m)
        BY <1>1, <2>1, <3>1, <4>1 DEF Sober, Fresh, DoubtInv
      <4>. QED BY <1>1, <3>1, <4>2, AwayKept
    <3>. QED BY <1>1, <2>1, <3>1 DEF DoubtInv, NewDoubts
  <2>2. ASSUME NEW r, Save(r), Fresh(r, record), Fresh(record', r) PROVE DoubtInv' /\ NewDoubts
    <3>1. \A o \in Ops : journal'[o] = IF o = op THEN r ELSE journal[o]
      BY <1>1, <2>2 DEF Save, Typed, Book
    <3>2. NewDoubts
      BY <1>1, <2>2, <3>1 DEF NewDoubts, DoubtInv, Fresh
    <3>3. pc' # "idle" => journal'[op'] = r
      BY <1>1, <3>1, OthersStagingKept
    <3>. QED BY <1>1, <2>2, <3>2, <3>3 DEF DoubtInv, Fresh
  <2>. QED BY <1>1, <2>1, <2>2 DEF Sober
<1>2. ASSUME NEW m \in Members, ExamineMember(m) PROVE DoubtInv' /\ NewDoubts
  <2>1. /\ pc = "restore" /\ op \in Ops /\ pc' \in RestoringGroup
        /\ UNCHANGED <<source, staging, trash, touched, op>>
    BY <1>2, InUse DEF ExamineMember, RestoringGroup
  <2>2. missing' = missing \/ (missing' = missing \cup {m} /\ source[m] = "none" /\ staging[op][m] = "none")
    BY <1>2 DEF ExamineMember
  <2>3. \A n \in missing \ touched : Away(op, n)
    BY <2>1 DEF DoubtInv, RestoringGroup
  <2>4. \A n \in missing' \ touched' : Away(op, n)
    BY <2>1, <2>2, <2>3, MissingIsAway DEF Staged
  <2>5. \A n \in missing' \ touched' : (Away(op, n))'
    BY <2>1, <2>4 DEF Away, Staged
  <2>6. Run /\ ~CloseGroup
    BY <1>2, <2>1 DEF Run, CloseGroup, ExamineMember
  <2>7. Sober
    BY <2>1, <2>6, SoberSteps
  <2>. QED BY <1>1, <2>1, <2>5, <2>6, <2>7
<1>3. CASE CloseGroup
  <2>1. /\ pc = "restore" /\ op \in Ops /\ pc' = "survey"
        /\ UNCHANGED <<journal, staging, trash, touched, op>>
    BY <1>3, InUse DEF CloseGroup
  <2>2. record \in OperationRecord
    BY DEF Typed, Book
  <2>3. CASE record' = record \/ record' = WithStep(record, Files(group), "trashed")
    <3>1. Fresh(record', record)
      BY <2>2, <2>3, FreshForms
    <3>. QED BY <2>1, <3>1 DEF DoubtInv, Fresh, RestoringGroup, NewDoubts, Away, Staged
  <2>4. CASE record' = WithStep(record, Files(group), "uncertain") /\ missing = Files(group)
    <3>1. \A m \in Members : record'.step[m] = IF m \in missing THEN "uncertain" ELSE record.step[m]
      BY <2>2, <2>4, StepOf
    <3>. QED BY <2>1, <3>1 DEF DoubtInv, RestoringGroup, NewDoubts, Away, Staged
  <2>. QED BY <1>3, <2>3, <2>4 DEF CloseGroup, Vanished, VanishedWhole
<1>4. CASE (Run \/ Crash) /\ ~CloseGroup /\ ~\E m \in Members : ExamineMember(m)
  <2>1. pc # "idle"
    BY <1>4 DEF Run, OpenGroup, SurveyGroup, RetryGroup, CheckStagingPath, CheckPutBack,
          RecordStagingIntent,
      StageMember, ConfirmMove, PutBackMember, AbortDone, VerifyStaged, JournalStaged, JournalTrashing,
      AskTrash, JournalTrashed, PersistGroup, Complete, RestoreMember, FinishRecovery, RetryDone, Settle, Crash
  <2>2. op \in Ops
    BY <2>1, InUse
  <2>3. Sober
    BY <1>4, <2>1, SoberSteps
  <2>4. pc' \in RestoringGroup => missing' = {} \/ (pc \in RestoringGroup /\ missing' = missing)
    BY <1>4 DEF Run, OpenGroup, SurveyGroup, RetryGroup, CheckStagingPath, CheckPutBack,
          RecordStagingIntent,
      StageMember, ConfirmMove, PutBackMember, AbortDone, VerifyStaged, JournalStaged, JournalTrashing,
      AskTrash, JournalTrashed, PersistGroup, Complete, RestoreMember, FinishRecovery, RetryDone, Settle, Crash,
      AbortStaging, Idle, RestoringGroup
  <2>5. ASSUME pc' \in RestoringGroup, NEW m \in missing' \ touched' PROVE (Away(op, m))'
    <3>1. m \in missing /\ pc \in RestoringGroup /\ m \in Members
      BY <2>4, <2>5 DEF Typed, Loop
    <3>2. m \in Members \ touched' /\ m \notin touched /\ Away(op, m)
      BY <2>5, <3>1 DEF DoubtInv, TrashKept
    <3>3. pc' # "idle"
      BY <2>5 DEF RestoringGroup
    <3>. QED BY <1>4, <2>1, <3>2, <3>3, AwayKept
  <2>. QED BY <1>1, <1>4, <2>1, <2>2, <2>3, <2>5
<1>5. CASE Person
  <2>1. PICK o \in Ops : /\ op' = o /\ Fresh(record', journal'[o])
                         /\ \A i \in Ops : Fresh(journal'[i], journal[i])
                         /\ pc' \notin RestoringGroup
    BY <1>5, SoberPerson DEF Person
  <2>. QED BY <2>1 DEF DoubtInv, Fresh, NewDoubts
<1>6. CASE Others \/ UNCHANGED vars
  <2>1. UNCHANGED <<journal, record, pc, missing, op, trash>>
    BY <1>6 DEF Others, DisturbSource, DisturbStaging, RemoveFolder, Undisturbed, vars
  <2>2. \A p \in Ops, m \in Members \ touched' : Staged(p, m) => Staged(p, m)'
    BY <1>6 DEF Others, DisturbSource, DisturbStaging, RemoveFolder, Undisturbed, vars, Staged,
                Typed, Disk
  <2>3. \A m \in Members \ touched' : m \notin touched /\ (Away(op, m) => (Away(op, m))')
    BY <2>1, <2>2 DEF Away, TrashKept
  <2>4. pc \in RestoringGroup => missing \subseteq Members
    BY DEF Typed, Loop
  <2>. QED BY <2>1, <2>3, <2>4 DEF DoubtInv, NewDoubts
<1>. QED BY <1>2, <1>3, <1>4, <1>5, <1>6 DEF Next, Run

\* A journal begins to doubt a file only when the file is out of the operation's
\* reach: in Trash, or staged by another operation on the same photo.
THEOREM UncertainIsAlwaysOutOfReach == Spec => UncertainIsOutOfReach
<1>1. Typed /\ TrashInv /\ CopyInv /\ [Next]_vars => CopyInv' /\ PlaceStep
  BY CopySteps
<1>2. CopyInv /\ CopyInv' /\ PlaceStep => TrashKept
  BY TrashIsKept DEF CopyInv
<1>3. Typed /\ CopyInv /\ DoubtInv /\ TrashKept /\ [Next]_vars => DoubtInv' /\ NewDoubts
  BY DoubtSteps
<1>4. Init => DoubtInv
  BY DEF Init, DoubtInv, RestoringGroup
<1>5. NewDoubts
      => \A o \in Ops, m \in Members \ touched :
           journal[o].step[m] # "uncertain" /\ journal'[o].step[m] = "uncertain"
             => trash[m] = "reviewed" \/ \E p \in Ops \ {o} : staging[p][m] = "reviewed"
  BY DEF NewDoubts, Away, Staged
<1>. QED
  BY InitTyped, NextTyped, TrashInvInit, TrashInvNext, InitCopies,
     <1>1, <1>2, <1>3, <1>4, <1>5, PTL
  DEF Spec, UncertainIsOutOfReach

(***************************************************************************)
(* What Disposal promises, of the files of Staging                         *)
(***************************************************************************)
LEMMA DisposalTypes ==
  /\ [m \in Members |-> PlaceOf(m)] \in [Members -> D!Place]
  /\ [m \in Members |-> PlaceOf(m)]' \in [Members -> D!Place]
BY DEF PlaceOf, D!Place

LEMMA SplitStep ==
  D!NeverSplit /\ [D!Next]_(D!vars) => D!NeverSplit'
<1>. SUFFICES ASSUME D!NeverSplit, [D!Next]_(D!vars) PROVE D!NeverSplit'
  OBVIOUS
<1>. USE DisposalTypes DEF D!Place, D!NeverSplit
<1>1. ASSUME NEW m \in Members, D!Stage(m) \/ D!Return(m) \/ D!Taken(m) PROVE D!NeverSplit'
  BY <1>1 DEF D!Stage, D!Return, D!Taken
<1>2. ASSUME NEW g \in Groups, D!Dispose(g) PROVE D!NeverSplit'
  BY <1>2 DEF D!Dispose, D!Files
<1>3. CASE UNCHANGED D!vars \/ \E s \in SUBSET Groups : D!Claim(s)
  BY <1>3 DEF D!vars, D!Claim
<1>. QED  BY <1>1, <1>2, <1>3 DEF D!Next

LEMMA ClaimStep ==
  D!ClaimsAreTrue /\ [D!Next]_(D!vars) => D!ClaimsAreTrue'
BY DisposalTypes DEF D!Place, D!ClaimsAreTrue, D!Next, D!vars, D!Stage, D!Return, D!Taken, D!Dispose,
                     D!Claim, D!Files

\* No photo is ever split between Trash and the places the program works in, at
\* any step of any operation: Dispose is the only step of Disposal into Trash, and
\* it leaves nothing behind.
THEOREM PhotosAreNeverSplit == Spec => []D!NeverSplit
<1>1. D!Init => D!NeverSplit
  BY DEF D!Init, D!NeverSplit
<1>. QED  BY <1>1, SplitStep, StagingImplementsDisposal, PTL DEF ImplementsDisposal, D!Spec

\* What some record says is in Trash is neither at its original path nor in staging:
\* a file that left both never comes back to either.
THEOREM ClaimsAreAlwaysTrue == Spec => []D!ClaimsAreTrue
<1>1. D!Init => D!ClaimsAreTrue
  BY DEF D!Init, D!ClaimsAreTrue
<1>. QED  BY <1>1, ClaimStep, StagingImplementsDisposal, PTL DEF ImplementsDisposal, D!Spec
=============================================================================
