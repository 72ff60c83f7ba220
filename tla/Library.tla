------------------------------- MODULE Library -------------------------------
(***************************************************************************)
(* From the files of a directory to the files of an operation: association *)
(* of files to photos (StemAssociationResolver), reconciliation of a scan  *)
(* with what is stored (SqliteRepository), marks, the plan a person reviews*)
(* (OperationPlanner) and its verification against the disk before it runs *)
(* (StagingExecutor::preflight).  A photo is named by its stem; the order  *)
(* of its members, its texts and the hash that is its membership revision  *)
(* are abstracted to the set of its files.  A scan sees the directory at   *)
(* one moment; how the moves themselves may fail is the subject of Staging.*)
(***************************************************************************)
EXTENDS Integers, FiniteSets

CONSTANTS
  Files, None,
  Stem, Role,       \* functions of the files; Role is what roleFor() says
  Folded,           \* the folded form of a stem
  Symlinks,         \* the files that are symbolic links
  SidecarsEnabled,
  Touchable,        \* the files that other programs create, change and delete
  MaxChanges        \* bound on the changes other programs make

Roles == {"jpeg", "raw", "sidecar", "unknown"}
Stems == {Stem[f] : f \in Files}

ASSUME LibraryAssumption ==
  /\ None \notin Stems
  /\ Role \in [Files -> Roles]
  /\ Symlinks \subseteq Files /\ Touchable \subseteq Files /\ SidecarsEnabled \in BOOLEAN
  /\ MaxChanges \in Nat

VARIABLES
  disk,     \* each file's native identity and version, or None
  changes,  \* what other programs did so far
  scan,     \* the result of a scan on its way, or None
  stored,   \* the photos in the database
  view,     \* the photos the browser and the controllers know
  plan,     \* the plan under review, or None
  compared, \* the photos that entered a comparison
  meant     \* the files each photo had, as stored, when it was marked

vars == <<disk, changes, scan, stored, view, plan, compared, meant>>

-----------------------------------------------------------------------------
(* Association *)

OnDisk(d) == {f \in Files : d[f] # None}
Disabled(f) == ~SidecarsEnabled /\ Role[f] = "sidecar"
Discovered(d) == {f \in OnDisk(d) : ~Disabled(f)}
Group(d, s) == {f \in Discovered(d) : Stem[f] = s}
OfRole(files, r) == {f \in files : Role[f] = r}

\* Mutant: aliases are looked for within a photo.
MutAliases(d) == {f \in OnDisk(d) : \E g \in OnDisk(d) \ {f} :
                    d[g].inode = d[f].inode /\ Stem[f] = Stem[g]}

(* Across the whole scan, files that belong to no photo included.            *)
Aliases(d) == {f \in OnDisk(d) : \E g \in OnDisk(d) \ {f} : d[g].inode = d[f].inode}

Collides(d, s) == \E f \in Discovered(d) : Stem[f] # s /\ Folded[Stem[f]] = Folded[s]

Paired(files) ==
  LET jpegs == Cardinality(OfRole(files, "jpeg"))
      raws == OfRole(files, "raw")
  IN CASE jpegs > 1 -> "ambiguous"
       [] jpegs = 1 -> IF raws # {} THEN "resolved" ELSE "jpegOnly"
       [] jpegs = 0 -> IF raws # {} THEN "rawOnly" ELSE "ambiguous"

Photo(d, s) ==
  LET files == Group(d, s)
      held == OfRole(files, "unknown") \cup (files \cap (Symlinks \cup Aliases(d)))
  IN [files |-> [f \in files |-> d[f]],
      pairing |-> IF Collides(d, s) THEN "ambiguous" ELSE Paired(files),
      blocked |-> held # {} \/ Collides(d, s),
      rejected |-> FALSE,
      revision |-> files]

Resolve(d) == [s \in {Stem[f] : f \in Discovered(d)} |-> Photo(d, s)]

Members(photo) == DOMAIN photo.files
IsComparable(photo) == photo.pairing \in {"resolved", "jpegOnly"}
IsOperable(photo) == ~photo.blocked /\ photo.pairing \in {"resolved", "jpegOnly", "rawOnly"}

-----------------------------------------------------------------------------
(* Reconciliation *)

(* A member that disappeared keeps its place and makes the photo stale.      *)
Gone(fresh, previous) == Members(previous) \ Members(fresh)
CarriedForward(fresh, previous) ==
  [f \in Members(fresh) \cup Gone(fresh, previous) |->
     IF f \in Members(fresh) THEN fresh.files[f] ELSE previous.files[f]]

\* Mutant: a mark stays with its photo.
MutMerged(fresh, previous) ==
  LET gone == Gone(fresh, previous)
  IN [files |-> CarriedForward(fresh, previous),
      pairing |-> IF gone # {} THEN "stale" ELSE fresh.pairing,
      blocked |-> fresh.blocked \/ gone # {},
      rejected |-> previous.rejected,
      revision |-> fresh.revision]

(* The mark stays only if the membership of the scan is the one stored.      *)
Merged(fresh, previous) ==
  LET gone == Gone(fresh, previous)
  IN [files |-> CarriedForward(fresh, previous),
      pairing |-> IF gone # {} THEN "stale" ELSE fresh.pairing,
      blocked |-> fresh.blocked \/ gone # {},
      rejected |-> previous.rejected /\ previous.revision = fresh.revision,
      revision |-> fresh.revision]

MergeWithStored(result) ==
  [s \in DOMAIN result |-> IF s \in DOMAIN stored THEN Merged(result[s], stored[s]) ELSE result[s]]

-----------------------------------------------------------------------------
(* Planning *)

Rejected == {s \in DOMAIN view : view[s].rejected}

(* Photos that claim one file are all left out.                              *)
Conflicts(s, candidates) ==
  \E o \in candidates \ {s} : Members(view[o]) \cap Members(view[s]) # {}

Planned ==
  LET candidates == {s \in Rejected : IsOperable(view[s])}
  IN [s \in {c \in candidates : ~Conflicts(c, candidates)} |-> view[s].files]

(* The reviewed files are the photo's, and on disk as they were reviewed.    *)
MembersMatch(s) ==
  /\ DOMAIN plan[s] = Members(view[s])
  /\ \A f \in DOMAIN plan[s] : disk[f] # None /\ disk[f].ver = plan[s][f].ver

SiblingAppeared(s) ==
  \E f \in OnDisk(disk) \ DOMAIN plan[s] : ~Disabled(f) /\ Stem[f] = s

Verified(s) ==
  /\ s \in DOMAIN view
  /\ IsOperable(view[s]) /\ view[s].rejected
  /\ MembersMatch(s) /\ ~SiblingAppeared(s)

-----------------------------------------------------------------------------
(* Actions *)

StartScan == /\ scan' = Resolve(disk)
             /\ UNCHANGED <<disk, changes, stored, view, plan, compared, meant>>

Apply ==
  /\ scan # None
  /\ stored' = MergeWithStored(scan)
  /\ view' = stored'
  /\ scan' = None
  /\ UNCHANGED <<disk, changes, plan, compared, meant>>

(* What cannot be stored is shown as the scan has it, without marks.         *)
ApplyUnstored ==
  /\ scan # None
  /\ view' = scan
  /\ scan' = None
  /\ UNCHANGED <<disk, changes, stored, plan, compared, meant>>

(* A comparison starts with photos that can be compared and are not marked.  *)
Compare(s) ==
  /\ plan = None
  /\ s \in DOMAIN view /\ IsComparable(view[s]) /\ ~view[s].rejected
  /\ compared' = compared \cup {s}
  /\ UNCHANGED <<disk, changes, scan, stored, view, plan, meant>>

(* Marks are stored, where a row is there to take them, then all photos are  *)
(* read back; when that fails or finds none, the view is kept.               *)
Mark(s, value) ==
  /\ stored' = [t \in DOMAIN stored |-> IF t = s THEN [stored[t] EXCEPT !.rejected = value]
                                                 ELSE stored[t]]
  /\ view' \in IF DOMAIN stored = {} THEN {view} ELSE {view, stored'}

(* Finishing a comparison, and doing that again, marks a photo of it by its  *)
(* name, whatever has become of its files since the comparison started.      *)
Reject(s) ==
  /\ plan = None
  /\ s \in compared
  /\ Mark(s, TRUE)
  /\ meant' = [t \in Stems |-> IF t = s /\ s \in DOMAIN stored THEN stored[s].revision
                                                              ELSE meant[t]]
  /\ UNCHANGED <<disk, changes, scan, plan, compared>>

(* Unmarking what is shown as marked, and undoing what a comparison marked.  *)
Unmark(s) ==
  /\ plan = None
  /\ s \in Rejected \cup compared
  /\ Mark(s, FALSE)
  /\ UNCHANGED <<disk, changes, scan, plan, compared, meant>>

(* The review is a modal dialog: scans and other programs go on beneath it.  *)
Review ==
  /\ plan = None /\ Rejected # {}
  /\ plan' = Planned
  /\ UNCHANGED <<disk, changes, scan, stored, view, compared, meant>>

Cancel == /\ plan # None
          /\ plan' = None
          /\ UNCHANGED <<disk, changes, scan, stored, view, compared, meant>>

Moved == UNION {DOMAIN plan[s] : s \in DOMAIN plan}

(* One group that no longer holds refuses the whole plan.  A run that moved  *)
(* its files, and one that was refused, ends in a refresh.                   *)
Execute ==
  /\ plan # None /\ DOMAIN plan # {}
  /\ disk' = IF \A s \in DOMAIN plan : Verified(s)
               THEN [f \in Files |-> IF f \in Moved THEN None ELSE disk[f]] ELSE disk
  /\ scan' = Resolve(disk')
  /\ plan' = None
  /\ UNCHANGED <<changes, stored, view, compared, meant>>

-----------------------------------------------------------------------------
(* Other programs *)

Another == changes < MaxChanges /\ changes' = changes + 1
Fresh(f) == [inode |-> <<f, changes + 1>>, ver |-> changes + 1]

Create(f) == /\ Another /\ disk[f] = None
             /\ disk' = [disk EXCEPT ![f] = Fresh(f)]
             /\ UNCHANGED <<scan, stored, view, plan, compared, meant>>

Link(f, g) == /\ Another /\ disk[f] = None /\ disk[g] # None
              /\ disk' = [disk EXCEPT ![f] = disk[g]]
              /\ UNCHANGED <<scan, stored, view, plan, compared, meant>>

Modify(f) == /\ Another /\ disk[f] # None
             /\ disk' = [g \in Files |-> IF disk[g] # None /\ disk[g].inode = disk[f].inode
                                           THEN [disk[g] EXCEPT !.ver = changes + 1] ELSE disk[g]]
             /\ UNCHANGED <<scan, stored, view, plan, compared, meant>>

Delete(f) == /\ Another /\ disk[f] # None
             /\ disk' = [disk EXCEPT ![f] = None]
             /\ UNCHANGED <<scan, stored, view, plan, compared, meant>>

-----------------------------------------------------------------------------
Init ==
  /\ \E there \in SUBSET Files :
       disk = [f \in Files |-> IF f \in there THEN [inode |-> <<f, 0>>, ver |-> 0] ELSE None]
  /\ changes = 0
  /\ scan = Resolve(disk)
  /\ stored = [s \in {} |-> None]
  /\ view = stored
  /\ plan = None
  /\ compared = {}
  /\ meant = [s \in Stems |-> {}]

Program == \/ StartScan \/ Apply \/ ApplyUnstored
           \/ \E s \in Stems : Compare(s) \/ Reject(s) \/ Unmark(s)
           \/ Review \/ Cancel \/ Execute

Others == \E f \in Touchable : \/ Create(f) \/ Modify(f) \/ Delete(f)
                           \/ \E g \in Files \ {f} : Link(f, g)

Next == Program \/ Others

Spec == Init /\ [][Next]_vars

-----------------------------------------------------------------------------
(* Properties *)

(* Two photos that may be operated on share no file, not even under another  *)
(* name, and are not two spellings of one stem.                              *)
Inodes(photo) == {photo.files[f].inode : f \in Members(photo)}
OperableAreApart ==
  \A p, q \in {s \in DOMAIN view : IsOperable(view[s])} : p # q =>
    /\ Members(view[p]) \cap Members(view[q]) = {}
    /\ Inodes(view[p]) \cap Inodes(view[q]) = {}
    /\ Folded[p] # Folded[q]

(* The files that left the disk in a step, and whose they were if it ended a *)
(* review: no step of another program does.                                  *)
Left == OnDisk(disk) \ OnDisk(disk')
Operated == IF plan # None /\ plan' = None THEN {Stem[f] : f \in Left} ELSE {}

(* An operation moves a photo only as the files that were stored of it when  *)
(* it was marked, as they were reviewed, and leaves no file of it behind,    *)
(* whatever happened on disk and was scanned, stored or not stored since.    *)
MovesMeant ==
  \A s \in Operated :
    /\ {f \in Left : Stem[f] = s} = meant[s]
    /\ \A f \in meant[s] : disk[f].ver = plan[s][f].ver
    /\ \A f \in OnDisk(disk') : Stem[f] = s => Disabled(f)
MovesWhatWasMeant == [][MovesMeant]_vars
=============================================================================
