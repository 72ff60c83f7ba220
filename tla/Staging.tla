------------------------------ MODULE Staging ------------------------------
(***************************************************************************)
(* The deletion of reviewed photos: StagingExecutor (the file moves and    *)
(* Trash), OperationController (the order of the steps and the journal),   *)
(* the operations table as the journal, the filesystem, other programs,    *)
(* and a process that may die between any two steps.                       *)
(*                                                                         *)
(* Each reviewed photo is a group of files.  A group is renamed file by    *)
(* file into a staging directory of its own and that directory is then     *)
(* handed to Trash.  The journal row of the operation is rewritten around  *)
(* every step; recovery starts from that row and from what is on disk.     *)
(***************************************************************************)

CONSTANTS
  Ops,         \* operation ids; their number bounds the reviewed plans
  Groups,      \* reviewed photos (PlannedGroup)
  Members,     \* files (PlannedMember)
  GroupOf,     \* the photo each file belongs to
  Touchable,   \* the files that other programs interfere with
  RaceWindow,  \* may they act between an exists() check and its rename?
  None         \* no group, no member, no operation, no Trash path

ASSUME ConstantsAssumption ==
  /\ GroupOf \in [Members -> Groups]
  /\ \A g \in Groups : \E m \in Members : GroupOf[m] = g
  /\ Touchable \subseteq Members
  /\ RaceWindow \in BOOLEAN
  /\ None \notin Ops \cup Groups \cup Members

VARIABLES
  \* the filesystem
  source,      \* what is at each file's original path
  staging,     \* what is at each file's staging path, per operation
  folder,      \* the group directories that exist, per operation
  trash,       \* what lies in Trash for each file
  \* the operations table
  journal,
  \* the process: the OperationRecord in memory and where the code stands
  record, pc, op, group, member, todo, left, missing, problem,
  \* history, read by properties only
  touched,     \* files whose reviewed copy another program changed or removed
  overwritten  \* files at whose path a rename replaced something

disk    == <<source, staging, folder, trash>>
loop    == <<op, group, member, todo, left, missing, problem>>
history == <<touched, overwritten>>
vars    == <<disk, journal, record, pc, loop, history>>

Content == {"none", "reviewed", "foreign"}   \* "reviewed": its fingerprint matches the plan
Step    == {"planned", "staged", "restored", "trashed", "uncertain"}
State   == {"Unborn", "Planned", "Staging", "Staged", "Trashing",
            "Restoring", "NeedsRecovery", "Completed", "Failed"}

OperationRecord == [state     : State,
                    plan      : SUBSET Groups,
                    step      : [Members -> Step],
                    trashPath : Groups \cup {None}]

\* The row of an operation nobody has executed yet.
Unborn == [state |-> "Unborn", plan |-> {},
           step |-> [m \in Members |-> "planned"], trashPath |-> None]

Files(g) == {m \in Members : GroupOf[m] = g}

(***************************************************************************)
(* What a record says.                                                     *)
(***************************************************************************)
AllAt(r, g, s) == \A m \in Files(g) : r.step[m] = s

WithStep(r, ms, s) ==
  [r EXCEPT !.step = [m \in Members |-> IF m \in ms THEN s ELSE r.step[m]]]

WithState(r, s) == [r EXCEPT !.state = s]

Trashed(r) == {g \in r.plan : AllAt(r, g, "trashed")}

StoppedWithRecoverableWork(r) == r.state \in {"Failed", "NeedsRecovery"}

NeedsRecoveryAttention(r) ==
  r.state \in {"Staging", "Staged", "Trashing", "Restoring", "NeedsRecovery"}

OffersRestore(r) ==
  /\ r.state # "Completed"
  /\ \E g \in r.plan : AllAt(r, g, "staged")

OffersRetryTrash(r) ==
  /\ OffersRestore(r)
  /\ \A g \in r.plan : AllAt(r, g, "staged") \/ AllAt(r, g, "trashed")

OffersConfirmTrashed(r) ==
  /\ r.state # "Completed"
  /\ \E g \in r.plan : AllAt(r, g, "uncertain")
  /\ \A g \in r.plan : AllAt(r, g, "uncertain") \/ AllAt(r, g, "trashed")


(***************************************************************************)
(* What is on disk.                                                        *)
(***************************************************************************)
\* absentFromStaging() finds nothing amiss.
CompleteInStaging(o, g) == \A m \in Files(g) : staging[o][m] = "reviewed"

MoveToStaging(m) ==
  /\ source' = [source EXCEPT ![m] = "none"]
  /\ staging' = [staging EXCEPT ![op][m] = source[m]]
  /\ overwritten' = IF staging[op][m] = "none" THEN overwritten ELSE overwritten \cup {m}
  /\ UNCHANGED <<folder, trash, touched>>

MoveToSource(m) ==
  /\ staging' = [staging EXCEPT ![op][m] = "none"]
  /\ source' = [source EXCEPT ![m] = staging[op][m]]
  /\ overwritten' = IF source[m] = "none" THEN overwritten ELSE overwritten \cup {m}
  /\ UNCHANGED <<folder, trash, touched>>

\* The group directory goes to Trash as one rename, with whatever is in it.
MoveFolderToTrash(g) ==
  /\ g \in folder[op]
  /\ folder' = [folder EXCEPT ![op] = @ \ {g}]
  /\ trash' = [m \in Members |->
                 IF m \in Files(g) /\ staging[op][m] # "none" THEN staging[op][m] ELSE trash[m]]
  /\ staging' = [staging EXCEPT ![op] =
                   [m \in Members |-> IF m \in Files(g) THEN "none" ELSE staging[op][m]]]
  /\ UNCHANGED <<source, history>>

(***************************************************************************)
(* The journal.  A write that fails leaves the row as it was.              *)
(***************************************************************************)
Save(r) == journal' = [journal EXCEPT ![op] = r]

\* Nothing is running.  The record in memory is gone; the variables take one
\* fixed value.
Idle ==
  /\ pc' = "idle" /\ record' = Unborn
  /\ op' = None /\ group' = None /\ member' = None
  /\ todo' = {} /\ left' = {} /\ missing' = {} /\ problem' = FALSE

(***************************************************************************)
(* execute().                                                              *)
(***************************************************************************)
\* preflight(): every file is still the one that was reviewed.
Unblocked(plan) == \A g \in plan : \A m \in Files(g) : source[m] = "reviewed"

PlannedRecord(plan) == [Unborn EXCEPT !.state = "Planned", !.plan = plan]

\* verifyAgainstDisk(), plannedRecord() and the first persist().  A plan that
\* fails the preflight and a row that cannot be written change nothing.
Execute(o, plan) ==
  /\ pc = "idle"
  /\ journal[o].state = "Unborn"
  /\ plan # {} /\ Unblocked(plan)
  /\ record' = PlannedRecord(plan)
  /\ journal' = [journal EXCEPT ![o] = PlannedRecord(plan)]
  /\ pc' = "group" /\ op' = o /\ todo' = plan
  /\ UNCHANGED <<disk, group, member, left, missing, problem, history>>

\* mkpath() and the first writeManifest(); either may fail, the second with
\* the directory already made.
OpenGroup(g) ==
  /\ pc = "group" /\ g \in todo
  /\ group' = g
  /\ \/ /\ folder' = [folder EXCEPT ![op] = @ \cup {g}]
        /\ record' = WithState(record, "Staging")
        /\ pc' = "intent"
     \/ /\ folder' \in {folder, [folder EXCEPT ![op] = @ \cup {g}]}
        /\ record' = WithState(record, "Failed")
        /\ pc' = "persist"
  /\ UNCHANGED <<source, staging, trash, journal, op, member, todo, left, missing, problem, history>>

\* recordStagingIntent() and its journal write, before the first rename.
RecordStagingIntent ==
  /\ pc = "intent"
  /\ LET intent == WithStep(record, Files(group), "planned")
     IN  \/ /\ record' = intent /\ Save(intent)
            /\ pc' = "rename" /\ left' = Files(group)
         \/ /\ record' = WithState(intent, "Failed") /\ UNCHANGED journal
            /\ pc' = "persist" /\ UNCHANGED left
  /\ UNCHANGED <<disk, op, group, member, todo, missing, problem, history>>

\* The members that moved in this group and are to be put back.
Moved == {m \in Files(group) : record.step[m] = "staged"}

AbortStaging == pc' = "putback" /\ left' = Moved /\ member' = None /\ problem' = FALSE

\* renameOnly(): the exists() check on the destination ...
CheckStagingPath(m) ==
  /\ pc = "rename" /\ m \in left
  /\ \/ /\ staging[op][m] = "none"
        /\ pc' = "move" /\ member' = m /\ UNCHANGED <<left, problem>>
     \/ /\ staging[op][m] # "none"
        /\ AbortStaging
  /\ UNCHANGED <<disk, journal, record, op, group, todo, missing, history>>

\* ... and the rename itself, which fails when the file or the directory is
\* gone, and may fail otherwise.
StageMember ==
  /\ pc = "move"
  /\ \/ /\ source[member] # "none" /\ group \in folder[op]
        /\ MoveToStaging(member)
        /\ record' = WithStep(record, {member}, "staged")
        /\ left' = left \ {member} /\ pc' = "confirm" /\ member' = None
        /\ UNCHANGED problem
     \/ /\ AbortStaging
        /\ UNCHANGED <<disk, history, record>>
  /\ UNCHANGED <<journal, op, group, todo, missing>>

\* Mutant: the next move starts without the write.
MutConfirmMove ==
  /\ pc = "confirm"
  /\ pc' = IF left = {} THEN "verify" ELSE "rename"
  /\ UNCHANGED <<disk, journal, record, loop, history>>

\* The move is journalled before the next one starts.
ConfirmMove ==
  /\ pc = "confirm"
  /\ \/ /\ Save(record) /\ UNCHANGED record
        /\ pc' = IF left = {} THEN "verify" ELSE "rename"
     \/ /\ record' = WithState(record, "NeedsRecovery") /\ UNCHANGED journal
        /\ pc' = "persist"
  /\ UNCHANGED <<disk, loop, history>>

\* putBackMoved(), one member: the exists() check on the original path ...
CheckPutBack(m) ==
  /\ pc = "putback" /\ m \in left
  /\ \/ /\ source[m] = "none"
        /\ pc' = "returning" /\ member' = m /\ UNCHANGED <<left, problem>>
     \/ /\ source[m] # "none"
        /\ left' = left \ {m} /\ problem' = TRUE /\ UNCHANGED <<pc, member>>
  /\ UNCHANGED <<disk, journal, record, op, group, todo, missing, history>>

\* ... and its rename.
PutBackMember ==
  /\ pc = "returning"
  /\ \/ /\ staging[op][member] # "none"
        /\ MoveToSource(member)
        /\ record' = WithStep(record, {member}, "restored")
        /\ UNCHANGED problem
     \/ /\ problem' = TRUE
        /\ UNCHANGED <<disk, history, record>>
  /\ pc' = "putback" /\ left' = left \ {member} /\ member' = None
  /\ UNCHANGED <<journal, op, group, todo, missing>>

\* Mutant: files that could not go back are not told apart.
MutAbortedState == "Failed"

\* How abortStaging() ends.
AbortedState == IF problem THEN "NeedsRecovery" ELSE "Failed"

AbortDone ==
  /\ pc = "putback" /\ left = {}
  /\ record' = WithState(record, AbortedState)
  /\ pc' = "persist"
  /\ UNCHANGED <<disk, journal, loop, history>>

\* absentFromStaging() and the manifest refresh.
VerifyStaged ==
  /\ pc = "verify"
  /\ \/ /\ CompleteInStaging(op, group)
        /\ pc' = "staged" /\ UNCHANGED record
     \/ /\ record' = WithState(record, "NeedsRecovery") /\ pc' = "persist"
  /\ UNCHANGED <<disk, journal, loop, history>>

JournalStaged ==
  /\ pc = "staged"
  /\ LET staged == WithState(record, "Staged")
     IN  \/ /\ record' = staged /\ Save(staged) /\ pc' = "trashing"
         \/ /\ record' = WithState(staged, "NeedsRecovery") /\ pc' = "persist" /\ UNCHANGED journal
  /\ UNCHANGED <<disk, loop, history>>

\* The intent to ask Trash is durable before Trash is asked.
JournalTrashing ==
  /\ pc = "trashing"
  /\ LET trashing == [record EXCEPT !.state = "Trashing", !.trashPath = None]
     IN  \/ /\ record' = trashing /\ Save(trashing) /\ pc' = "trash"
         \/ /\ record' = WithState(trashing, "NeedsRecovery") /\ pc' = "persist"
            /\ UNCHANGED journal
  /\ UNCHANGED <<disk, loop, history>>

\* markGroupTrashed() and the path the platform reports, if it reports one.
TrashedAt(g, path) == [WithStep(record, Files(g), "trashed") EXCEPT !.trashPath = path]

AskTrash ==
  /\ pc = "trash"
  /\ \/ /\ MoveFolderToTrash(group)
        /\ \E path \in {group, None} : record' = TrashedAt(group, path)
        /\ pc' = "trashed"
     \/ /\ record' = WithState(record, "NeedsRecovery") /\ pc' = "persist"
        /\ UNCHANGED <<disk, history>>
  /\ UNCHANGED <<journal, loop>>

JournalTrashed ==
  /\ pc = "trashed"
  /\ \/ Save(record) /\ UNCHANGED record
     \/ record' = WithState(record, "NeedsRecovery") /\ UNCHANGED journal
  /\ pc' = "persist"
  /\ UNCHANGED <<disk, loop, history>>

\* stageGroups() writes the row again after every group; a failed write and a
\* record that stopped both end the run.
PersistGroup ==
  /\ pc = "persist"
  /\ \/ /\ Save(record)
        /\ IF StoppedWithRecoverableWork(record)
           THEN Idle
           ELSE /\ todo' = todo \ {group} /\ group' = None
                /\ pc' = IF todo' = {} THEN "complete" ELSE "group"
                /\ UNCHANGED <<record, op, member, left, missing, problem>>
     \/ Idle /\ UNCHANGED journal
  /\ UNCHANGED <<disk, history>>

Complete ==
  /\ pc = "complete"
  /\ \/ Save(WithState(record, "Completed"))
     \/ UNCHANGED journal
  /\ Idle
  /\ UNCHANGED <<disk, history>>

(***************************************************************************)
(* Recovery, from the dialog: a record that needs attention is listed, and *)
(* an offer's button is enabled when recoveryOffersFor() says so.          *)
(***************************************************************************)
\* Mutant: groups that are in Trash are gone through again.
MutLoad(o, r, next) ==
  /\ record' = r /\ op' = o /\ pc' = next
  /\ todo' = r.plan
  /\ UNCHANGED <<disk, journal, group, member, left, missing, problem, history>>

\* loadOperation(); the groups that the record has in Trash are skipped.
Load(o, r, next) ==
  /\ record' = r /\ op' = o /\ pc' = next
  /\ todo' = r.plan \ Trashed(r)
  /\ UNCHANGED <<disk, journal, group, member, left, missing, problem, history>>

Listed(o) == pc = "idle" /\ NeedsRecoveryAttention(journal[o])

Restore(o) ==
  /\ Listed(o) /\ OffersRestore(journal[o])
  /\ Load(o, WithState(journal[o], "Restoring"), "survey")

\* A person says that they have found the uncertain groups in Trash, which is
\* taken to be true; recover() follows.
ConfirmTrashed(o) ==
  /\ Listed(o) /\ OffersConfirmTrashed(journal[o])
  /\ \A m \in Members : journal[o].step[m] = "uncertain" => trash[m] # "none"
  /\ LET vouched == {m \in Members : journal[o].step[m] = "uncertain"
                                     /\ AllAt(journal[o], GroupOf[m], "uncertain")}
     IN  Load(o, WithStep(WithState(journal[o], "Restoring"), vouched, "trashed"), "survey")

\* recover(), group by group; groups the journal has in Trash are skipped.
SurveyGroup(g) ==
  /\ pc = "survey" /\ g \in todo
  /\ group' = g /\ left' = Files(g) /\ missing' = {} /\ pc' = "restore"
  /\ UNCHANGED <<disk, journal, record, op, member, todo, problem, history>>

\* Mutant: existence at the original path is not looked at.
MutRestorable(m) == staging[op][m] = "reviewed"

\* Nothing is in the way and the staged file is the one that was reviewed.
Restorable(m) == source[m] = "none" /\ staging[op][m] = "reviewed"

\* restoreMember(), up to the rename.
ExamineMember(m) ==
  /\ pc = "restore" /\ m \in left
  /\ \/ /\ source[m] # "none" /\ staging[op][m] = "none"
        /\ record' = WithStep(record, {m}, "planned")
        /\ left' = left \ {m} /\ UNCHANGED <<missing, problem, pc, member>>
     \/ /\ source[m] = "none" /\ staging[op][m] = "none"
        /\ missing' = missing \cup {m}
        /\ left' = left \ {m} /\ UNCHANGED <<record, problem, pc, member>>
     \/ /\ staging[op][m] # "none" /\ ~Restorable(m)
        /\ problem' = TRUE
        /\ left' = left \ {m} /\ UNCHANGED <<record, missing, pc, member>>
     \/ /\ Restorable(m)
        /\ pc' = "restoring" /\ member' = m /\ UNCHANGED <<record, left, missing, problem>>
  /\ UNCHANGED <<disk, journal, op, group, todo, history>>

\* Mutant: a rename that failed is tried again for as long as it fails.
MutRestoreMember ==
  /\ pc = "restoring"
  /\ \/ /\ staging[op][member] # "none"
        /\ MoveToSource(member)
        /\ record' = WithStep(record, {member}, "restored")
        /\ left' = left \ {member}
     \/ UNCHANGED <<disk, history, record, left>>
  /\ pc' = "restore" /\ member' = None
  /\ UNCHANGED <<journal, op, group, todo, missing, problem>>

\* ... and its rename.
RestoreMember ==
  /\ pc = "restoring"
  /\ \/ /\ staging[op][member] # "none"
        /\ MoveToSource(member)
        /\ record' = WithStep(record, {member}, "restored")
        /\ UNCHANGED problem
     \/ /\ problem' = TRUE
        /\ UNCHANGED <<disk, history, record>>
  /\ pc' = "restore" /\ left' = left \ {member} /\ member' = None
  /\ UNCHANGED <<journal, op, group, todo, missing>>

\* Mutant: a step that the journal does not know.
MutVanishedUnknown(r) == WithStep(r, Files(group), "lost")

\* Mutant: a group that is gone is taken to be in Trash.
MutVanished(r) == WithStep(r, Files(group), "trashed")

\* vanishedGroupReachedTrash(): the reported Trash path still holds this
\* group's manifest, or the outcome is uncertain.
Vanished(r) ==
  IF r.trashPath = group THEN WithStep(r, Files(group), "trashed")
                         ELSE WithStep(r, Files(group), "uncertain")

\* Mutant: one missing file is enough.
MutVanishedWhole == missing # {} /\ group \notin folder[op]

\* The group is gone as a whole, and its directory with it.
VanishedWhole == missing = Files(group) /\ group \notin folder[op]

CloseGroup ==
  /\ pc = "restore" /\ left = {}
  /\ \/ /\ missing = {}
        /\ UNCHANGED <<record, problem>>
     \/ /\ missing # {} /\ VanishedWhole
        /\ record' = Vanished(record)
        /\ problem' = (problem \/ record.trashPath # group)
     \/ /\ missing # {} /\ ~VanishedWhole
        /\ problem' = TRUE /\ UNCHANGED record
  /\ pc' = "survey" /\ todo' = todo \ {group} /\ group' = None /\ missing' = {}
  /\ UNCHANGED <<disk, journal, op, member, left, history>>

\* Mutant: a photo in Trash makes the operation complete.
MutRecoveredState ==
  IF problem THEN "NeedsRecovery"
  ELSE IF Trashed(record) # {} THEN "Completed"
  ELSE "Planned"

RecoveredState ==
  IF problem THEN "NeedsRecovery"
  ELSE IF Trashed(record) = record.plan THEN "Completed"
  ELSE IF Trashed(record) # {} THEN "Failed"
  ELSE "Planned"

FinishRecovery ==
  /\ pc = "survey" /\ todo = {}
  /\ record' = WithState(record, RecoveredState)
  /\ pc' = "settle"
  /\ UNCHANGED <<disk, journal, loop, history>>

\* Mutant: the directories are taken to be complete.
MutRetryable(o, pending) == pending \subseteq folder[o]

Retryable(o, pending) == \A g \in pending : CompleteInStaging(o, g)

\* retryTrash(): the whole plan is validated before Trash is asked for any of it.
RetryTrash(o) ==
  /\ Listed(o) /\ OffersRetryTrash(journal[o])
  /\ LET pending == journal[o].plan \ Trashed(journal[o])
     IN  IF Retryable(o, pending)
         THEN Load(o, WithState(journal[o], "Trashing"), "retry")
         ELSE Load(o, WithState(journal[o], "NeedsRecovery"), "settle")

\* Mutant: the group is marked before Trash is asked.
MutRetryRefused(g) == WithState(TrashedAt(g, None), "NeedsRecovery")

RetryRefused(g) == [record EXCEPT !.state = "NeedsRecovery", !.trashPath = None]

\* One group of the retry; nothing is journalled between groups.
RetryGroup(g) ==
  /\ pc = "retry" /\ g \in todo
  /\ \/ /\ MoveFolderToTrash(g)
        /\ \E path \in {g, None} : record' = TrashedAt(g, path)
        /\ todo' = todo \ {g} /\ UNCHANGED pc
     \/ /\ record' = RetryRefused(g)
        /\ pc' = "settle"
        /\ UNCHANGED <<disk, history, todo>>
  /\ UNCHANGED <<journal, op, group, member, left, missing, problem>>

RetryDone ==
  /\ pc = "retry" /\ todo = {}
  /\ record' = WithState(record, "Completed") /\ pc' = "settle"
  /\ UNCHANGED <<disk, journal, loop, history>>

\* applyRecovery() persists once, at the end.
Settle ==
  /\ pc = "settle"
  /\ Save(record) \/ UNCHANGED journal
  /\ Idle
  /\ UNCHANGED <<disk, history>>

(***************************************************************************)
(* Crashes and other programs.                                             *)
(***************************************************************************)
Crash ==
  /\ pc # "idle"
  /\ Idle
  /\ UNCHANGED <<disk, journal, history>>

InWindow == pc \in {"move", "returning", "restoring"}

Undisturbed == <<folder, trash, journal, record, pc, loop, overwritten>>

\* A file appears, changes or goes at an original path ...
DisturbSource(m) ==
  /\ RaceWindow \/ ~InWindow
  /\ \E found \in Content \ {"reviewed"} :
       /\ found # source[m]
       /\ source' = [source EXCEPT ![m] = found]
  /\ touched' = IF source[m] = "reviewed" THEN touched \cup {m} ELSE touched
  /\ UNCHANGED <<staging, Undisturbed>>

\* ... or inside a staging directory.
DisturbStaging(o, m) ==
  /\ RaceWindow \/ ~InWindow
  /\ GroupOf[m] \in folder[o]
  /\ \E found \in Content \ {"reviewed"} :
       /\ found # staging[o][m]
       /\ staging' = [staging EXCEPT ![o][m] = found]
  /\ touched' = IF staging[o][m] = "reviewed" THEN touched \cup {m} ELSE touched
  /\ UNCHANGED <<source, Undisturbed>>

\* An empty group directory is cleaned away.
RemoveFolder(o, g) ==
  /\ RaceWindow \/ ~InWindow
  /\ g \in folder[o]
  /\ \A m \in Files(g) : staging[o][m] = "none"
  /\ folder' = [folder EXCEPT ![o] = @ \ {g}]
  /\ UNCHANGED <<source, staging, trash, journal, record, pc, loop, history>>

(***************************************************************************)
(* The specification.                                                      *)
(***************************************************************************)
Init ==
  /\ source = [m \in Members |-> "reviewed"]
  /\ staging = [o \in Ops |-> [m \in Members |-> "none"]]
  /\ folder = [o \in Ops |-> {}]
  /\ trash = [m \in Members |-> "none"]
  /\ journal = [o \in Ops |-> Unborn]
  /\ record = Unborn /\ pc = "idle"
  /\ op = None /\ group = None /\ member = None
  /\ todo = {} /\ left = {} /\ missing = {} /\ problem = FALSE
  /\ touched = {} /\ overwritten = {}

Run ==
  \/ \E g \in Groups : OpenGroup(g) \/ SurveyGroup(g) \/ RetryGroup(g)
  \/ \E m \in Members : CheckStagingPath(m) \/ CheckPutBack(m) \/ ExamineMember(m)
  \/ RecordStagingIntent \/ StageMember \/ ConfirmMove
  \/ PutBackMember \/ AbortDone
  \/ VerifyStaged \/ JournalStaged \/ JournalTrashing \/ AskTrash \/ JournalTrashed
  \/ PersistGroup \/ Complete
  \/ RestoreMember \/ CloseGroup \/ FinishRecovery \/ RetryDone \/ Settle

Person ==
  \E o \in Ops :
    \/ \E plan \in SUBSET Groups : Execute(o, plan)
    \/ Restore(o) \/ RetryTrash(o) \/ ConfirmTrashed(o)

Others ==
  \/ \E m \in Touchable : DisturbSource(m) \/ \E o \in Ops : DisturbStaging(o, m)
  \/ \E o \in Ops, g \in {GroupOf[m] : m \in Touchable} : RemoveFolder(o, g)

Next == Run \/ Person \/ Crash \/ Others

Spec == Init /\ [][Next]_vars

\* Code that has started a run goes on with it.  Nobody owes a new run, a
\* crash or an interference.
FairSpec == Spec /\ WF_vars(Run)

(***************************************************************************)
(* Properties.                                                             *)
(***************************************************************************)
\* Every variable has its type.
TypeOK ==
  /\ source \in [Members -> Content]
  /\ staging \in [Ops -> [Members -> Content]]
  /\ folder \in [Ops -> SUBSET Groups]
  /\ trash \in [Members -> Content]
  /\ journal \in [Ops -> OperationRecord]
  /\ record \in OperationRecord
  /\ pc \in {"idle", "group", "intent", "rename", "move", "confirm", "putback", "returning",
             "verify", "staged", "trashing", "trash", "trashed", "persist", "complete",
             "survey", "restore", "restoring", "retry", "settle"}
  /\ op \in Ops \cup {None} /\ group \in Groups \cup {None} /\ member \in Members \cup {None}
  /\ todo \subseteq Groups /\ left \subseteq Members /\ missing \subseteq Members
  /\ problem \in BOOLEAN
  /\ touched \subseteq Members /\ overwritten \subseteq Members

\* As long as nothing appears at a destination between renameOnly()'s exists()
\* check and its rename, no rename replaces a file: whatever other programs have
\* put at an original or staging path before, whichever steps fail and wherever
\* the process dies.  A file that appears in between is replaced.
NothingOverwritten == ~RaceWindow => overwritten = {}

\* A photo goes to Trash whole: once one reviewed file of it is there, every
\* file of it that other programs left alone is there too.  An interrupted
\* restore leaves a half-empty staging directory behind a journal that still
\* says "staged"; retryTrash() must not hand that directory over.
TrashedWhole ==
  \A m, n \in Members :
    (GroupOf[m] = GroupOf[n] /\ trash[m] = "reviewed" /\ n \notin touched)
      => trash[n] = "reviewed"

\* A journal never says that a file is in Trash when it is not.
TrashedRecordIsTrue ==
  \A o \in Ops, m \in Members :
    (journal[o].step[m] = "trashed" /\ m \notin touched) => trash[m] = "reviewed"

\* An operation recorded as completed has all of its photos in Trash.
CompletedIsComplete ==
  \A o \in Ops : journal[o].state = "Completed" =>
    \A g \in journal[o].plan : \A m \in Files(g) \ touched : trash[m] = "reviewed"

\* The journal never trails the filesystem by more than one rename: at most
\* one file is in staging while its row still says "planned".
JournalTrailsByOneRename ==
  \A o \in Ops, m, n \in Members :
    (/\ staging[o][m] = "reviewed" /\ journal[o].step[m] = "planned"
     /\ staging[o][n] = "reviewed" /\ journal[o].step[n] = "planned") => m = n

\* While a reviewed photo is in staging and nothing is running, the operation
\* is listed as one that needs attention: it cannot be recorded as failed,
\* planned or completed, all of which claim to leave nothing behind.
StagedFilesAreListed ==
  pc = "idle" => \A o \in Ops, m \in Members :
    staging[o][m] = "reviewed" => NeedsRecoveryAttention(journal[o])

\* What a journal has in Trash stays in Trash: no later recovery, started from
\* whatever an interrupted one left behind, goes back on it.
TrashedIsFinal ==
  [][\A o \in Ops, m \in Members :
       journal[o].step[m] = "trashed" => journal'[o].step[m] = "trashed"]_vars

\* A journal begins to say "uncertain" of a file only when the file is out of the
\* operation's reach: in Trash, or staged by another operation on the same photo,
\* never at its original path or in the operation's own staging.  (Services.h says
\* of Uncertain that nothing on disk shows where the file went.  That is not so of
\* the second case: no operation looks into the staging of another.)
UncertainIsOutOfReach ==
  [][\A o \in Ops, m \in Members \ touched :
       journal[o].step[m] # "uncertain" /\ journal'[o].step[m] = "uncertain"
         => trash[m] = "reviewed" \/ \E p \in Ops \ {o} : staging[p][m] = "reviewed"]_vars

\* Every run comes to an end: no step of it waits for something that may not
\* come, and no loop of it goes round without end.
EveryRunEnds == pc # "idle" ~> pc = "idle"

(***************************************************************************)
(* Refinement of Disposal.                                                 *)
(***************************************************************************)
PlaceOf(m) ==
  IF trash[m] = "reviewed" THEN "trash"
  ELSE IF \E o \in Ops : staging[o][m] = "reviewed" THEN "staging"
  ELSE IF source[m] = "reviewed" THEN "source"
  ELSE "elsewhere"

Claimed == UNION {Trashed(journal[o]) : o \in Ops}

D == INSTANCE Disposal WITH place <- [m \in Members |-> PlaceOf(m)], claimed <- Claimed

\* Every step of the detailed system is a step of Disposal or leaves its view
\* unchanged: across failures, crashes and interference a photo goes to Trash
\* whole, no file is lost on the way and no claim is false.
ImplementsDisposal == D!Spec

=============================================================================
