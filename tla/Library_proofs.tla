---------------------------- MODULE Library_proofs ----------------------------
(***************************************************************************)
(* Proofs about Library, for any files, stems, roles and configuration and *)
(* any number of changes: photos that may be operated on are apart, and an *)
(* operation moves what was meant.                                         *)
(***************************************************************************)
EXTENDS Library, TLAPS

-----------------------------------------------------------------------------
(* Photos are apart *)

(* Weak typing: a photo has the fields a photo has.                          *)
IsPhoto(x) == x = [files |-> x.files, pairing |-> x.pairing, blocked |-> x.blocked,
                   rejected |-> x.rejected, revision |-> x.revision]

(* OperableAreApart, of any set of photos.                                   *)
Apart(photos) ==
  \A p, q \in {s \in DOMAIN photos : IsOperable(photos[s])} : p # q =>
    /\ Members(photos[p]) \cap Members(photos[q]) = {}
    /\ Inodes(photos[p]) \cap Inodes(photos[q]) = {}
    /\ Folded[p] # Folded[q]

(* What is known of each photo by itself: all it was found with are files of *)
(* its stem, and while it may be operated on these are its members.          *)
Sound(photos) ==
  \A s \in DOMAIN photos :
    /\ IsPhoto(photos[s])
    /\ photos[s].revision \subseteq {f \in Files : Stem[f] = s}
    /\ IsOperable(photos[s]) => Members(photos[s]) = photos[s].revision

Known(photos) == Apart(photos) /\ Sound(photos)

AssociationInv == Known(stored) /\ Known(view) /\ (scan # None => Known(scan))

LEMMA ResolvedAreKnown ==
  ASSUME NEW d PROVE Known(Resolve(d))
<1>1. DOMAIN Resolve(d) = {Stem[f] : f \in Discovered(d)}
  BY DEF Resolve
<1>2. \A s \in DOMAIN Resolve(d) : Resolve(d)[s] = Photo(d, s)
  BY DEF Resolve
<1>3. ASSUME NEW s
      PROVE  /\ IsPhoto(Photo(d, s))
             /\ Members(Photo(d, s)) = Group(d, s)
             /\ Photo(d, s).revision = Group(d, s)
             /\ Photo(d, s).files = [f \in Group(d, s) |-> d[f]]
             /\ IsOperable(Photo(d, s)) => Group(d, s) \cap Aliases(d) = {} /\ ~Collides(d, s)
  BY DEF Photo, IsPhoto, Members, IsOperable
<1>4. \A s : Group(d, s) = {f \in Discovered(d) : Stem[f] = s} /\ Discovered(d) \subseteq Files
  BY DEF Group, Discovered, OnDisk
<1>5. Sound(Resolve(d))
  <2> SUFFICES ASSUME NEW s \in DOMAIN Resolve(d)
               PROVE  /\ IsPhoto(Photo(d, s))
                      /\ Photo(d, s).revision \subseteq {f \in Files : Stem[f] = s}
                      /\ Members(Photo(d, s)) = Photo(d, s).revision
    BY <1>2 DEF Sound
  <2>1. Group(d, s) \subseteq {f \in Files : Stem[f] = s}
    BY <1>4
  <2>2. /\ IsPhoto(Photo(d, s)) /\ Photo(d, s).revision = Group(d, s)
        /\ Members(Photo(d, s)) = Group(d, s)
    BY <1>3
  <2> QED BY <2>1, <2>2
<1>6. Apart(Resolve(d))
  <2> SUFFICES ASSUME NEW p \in DOMAIN Resolve(d), NEW q \in DOMAIN Resolve(d), p # q,
                      IsOperable(Photo(d, p)), IsOperable(Photo(d, q))
               PROVE  /\ Group(d, p) \cap Group(d, q) = {}
                      /\ Inodes(Photo(d, p)) \cap Inodes(Photo(d, q)) = {}
                      /\ Folded[p] # Folded[q]
    <3>1. ASSUME NEW p \in DOMAIN Resolve(d), NEW q \in DOMAIN Resolve(d), p # q,
                 IsOperable(Resolve(d)[p]), IsOperable(Resolve(d)[q])
          PROVE  /\ Members(Resolve(d)[p]) \cap Members(Resolve(d)[q]) = {}
                 /\ Inodes(Resolve(d)[p]) \cap Inodes(Resolve(d)[q]) = {}
                 /\ Folded[p] # Folded[q]
      <4>1. Resolve(d)[p] = Photo(d, p) /\ Resolve(d)[q] = Photo(d, q)
        BY <1>2
      <4> QED BY <3>1, <4>1, <1>3
    <3> QED BY <3>1 DEF Apart
  <2>1. Group(d, p) \cap Group(d, q) = {}
    BY <1>4
  <2>2. Folded[p] # Folded[q]
    <3>1. PICK g \in Discovered(d) : Stem[g] = q
      BY <1>1
    <3> QED BY <1>3, <3>1 DEF Collides
  <2>3. ASSUME NEW f \in Group(d, p), NEW g \in Group(d, q), d[f].inode = d[g].inode
        PROVE  FALSE
    <3>1. f \in OnDisk(d) /\ g \in OnDisk(d) \ {f}
      BY <1>4, <2>1 DEF Discovered
    <3>2. f \in Aliases(d)
      BY <2>3, <3>1 DEF Aliases
    <3> QED BY <1>3, <3>2
  <2>4. /\ Inodes(Photo(d, p)) = {d[f].inode : f \in Group(d, p)}
        /\ Inodes(Photo(d, q)) = {d[f].inode : f \in Group(d, q)}
    <3>1. ASSUME NEW s
          PROVE  Inodes(Photo(d, s)) = {d[f].inode : f \in Group(d, s)}
      <4>1. \A f \in Group(d, s) : Photo(d, s).files[f] = d[f]
        BY <1>3
      <4>2. Members(Photo(d, s)) = Group(d, s)
        BY <1>3
      <4> QED BY <4>1, <4>2 DEF Inodes
    <3> QED BY <3>1
  <2> QED BY <2>1, <2>2, <2>3, <2>4
<1> QED BY <1>5, <1>6 DEF Known

(* A member that disappeared blocks its photo, so that what reconciliation   *)
(* leaves operable is as it was scanned.                                     *)
LEMMA MergedIsFresh ==
  ASSUME NEW fresh, NEW previous, IsPhoto(fresh)
  PROVE  LET merged == Merged(fresh, previous) IN
         /\ IsPhoto(merged) /\ merged.revision = fresh.revision
         /\ merged.rejected => previous.rejected /\ previous.revision = fresh.revision
         /\ IsOperable(merged) => /\ IsOperable(fresh)
                                  /\ Members(merged) = Members(fresh)
                                  /\ Inodes(merged) = Inodes(fresh)
<1> DEFINE merged == Merged(fresh, previous)
<1>1. /\ IsPhoto(merged) /\ merged.revision = fresh.revision
      /\ merged.rejected => previous.rejected /\ previous.revision = fresh.revision
      /\ merged.files = CarriedForward(fresh, previous)
      /\ merged.pairing = IF Gone(fresh, previous) # {} THEN "stale" ELSE fresh.pairing
      /\ merged.blocked = (fresh.blocked \/ Gone(fresh, previous) # {})
  BY DEF Merged, IsPhoto
<1>2. ASSUME IsOperable(merged)
      PROVE  /\ IsOperable(fresh)
             /\ Members(merged) = Members(fresh)
             /\ \A f \in Members(fresh) : merged.files[f] = fresh.files[f]
  <2>1. Gone(fresh, previous) = {}
    BY <1>1, <1>2 DEF IsOperable
  <2>2. IsOperable(fresh)
    BY <1>1, <1>2, <2>1 DEF IsOperable
  <2> QED BY <1>1, <2>1, <2>2 DEF CarriedForward, Members
<1> QED BY <1>1, <1>2 DEF Inodes

LEMMA MergedAreKnown ==
  ASSUME Known(scan) PROVE Known(MergeWithStored(scan))
<1> DEFINE result == MergeWithStored(scan)
<1>1. DOMAIN result = DOMAIN scan
  BY DEF MergeWithStored
<1>2. ASSUME NEW s \in DOMAIN scan
      PROVE  /\ IsPhoto(result[s]) /\ result[s].revision = scan[s].revision
             /\ IsOperable(result[s]) => /\ IsOperable(scan[s])
                                         /\ Members(result[s]) = Members(scan[s])
                                         /\ Inodes(result[s]) = Inodes(scan[s])
  <2>1. IsPhoto(scan[s])
    BY DEF Known, Sound
  <2>2. CASE s \in DOMAIN stored
    <3>1. result[s] = Merged(scan[s], stored[s])
      BY <2>2 DEF MergeWithStored
    <3> QED BY <2>1, <3>1, MergedIsFresh
  <2>3. CASE s \notin DOMAIN stored
    BY <2>1, <2>3 DEF MergeWithStored
  <2> QED BY <2>2, <2>3
<1> HIDE DEF result
<1>3. Sound(result)
  BY <1>1, <1>2 DEF Known, Sound
<1>4. Apart(result)
  BY <1>1, <1>2 DEF Known, Apart
<1> QED BY <1>3, <1>4 DEF Known, result

(* Marks touch nothing else of a photo.                                      *)
LEMMA MarkedAreKnown ==
  ASSUME NEW s, NEW value \in BOOLEAN, Known(stored), Known(view), Mark(s, value)
  PROVE  Known(stored') /\ Known(view')
<1>1. DOMAIN stored' = DOMAIN stored
  BY DEF Mark
<1>2. ASSUME NEW t \in DOMAIN stored
      PROVE  /\ IsPhoto(stored'[t])
             /\ stored'[t].files = stored[t].files
             /\ stored'[t].pairing = stored[t].pairing
             /\ stored'[t].blocked = stored[t].blocked
             /\ stored'[t].revision = stored[t].revision
  <2>1. IsPhoto(stored[t])
    BY DEF Known, Sound
  <2>2. stored'[t] = IF t = s THEN [stored[t] EXCEPT !.rejected = value] ELSE stored[t]
    BY DEF Mark
  <2> QED BY <2>1, <2>2 DEF IsPhoto
<1>3. ASSUME NEW t \in DOMAIN stored
      PROVE  /\ IsOperable(stored'[t]) = IsOperable(stored[t])
             /\ Members(stored'[t]) = Members(stored[t])
             /\ Inodes(stored'[t]) = Inodes(stored[t])
  BY <1>2 DEF IsOperable, Members, Inodes
<1>4. Sound(stored')
  BY <1>1, <1>2, <1>3 DEF Known, Sound
<1>5. Apart(stored')
  BY <1>1, <1>3 DEF Known, Apart
<1>6. Known(stored')
  BY <1>4, <1>5 DEF Known
<1>7. view' = view \/ view' = stored'
  BY DEF Mark
<1> QED BY <1>6, <1>7

LEMMA AssociationInvInductive == AssociationInv /\ [Next]_vars => AssociationInv'
<1> SUFFICES ASSUME AssociationInv, [Next]_vars PROVE AssociationInv'
  OBVIOUS
<1>1. CASE StartScan
  BY <1>1, ResolvedAreKnown DEF StartScan, AssociationInv
<1>2. CASE Apply
  BY <1>2, MergedAreKnown DEF Apply, AssociationInv
<1>3. CASE ApplyUnstored
  BY <1>3 DEF ApplyUnstored, AssociationInv
<1>4. ASSUME NEW s \in Stems, Reject(s) \/ Unmark(s) PROVE AssociationInv'
  BY <1>4, MarkedAreKnown DEF Reject, Unmark, AssociationInv
<1>5. CASE Execute
  BY <1>5, ResolvedAreKnown DEF Execute, AssociationInv
<1>6. CASE UNCHANGED <<scan, stored, view>>
  BY <1>6 DEF AssociationInv
<1>7. (\E s \in Stems : Compare(s)) \/ Review \/ Cancel \/ Others \/ UNCHANGED vars
        => UNCHANGED <<scan, stored, view>>
  BY DEF Compare, Review, Cancel, Others, Create, Link, Modify, Delete, vars
<1> QED BY <1>1, <1>2, <1>3, <1>4, <1>5, <1>6, <1>7 DEF Next, Program

(* Whatever files there are, whatever other programs do to them and whatever *)
(* of the scans is stored: two photos that may be operated on share no file, *)
(* not even under another name, and are not two spellings of one stem.       *)
THEOREM OperableAreAlwaysApart == Spec => []OperableAreApart
<1>1. Init => AssociationInv
  <2> SUFFICES ASSUME Init PROVE AssociationInv
    OBVIOUS
  <2>1. Known(stored) /\ Known(view)
    BY DEF Init, Known, Apart, Sound
  <2>2. Known(scan)
    BY ResolvedAreKnown DEF Init
  <2> QED BY <2>1, <2>2 DEF AssociationInv
<1>2. AssociationInv => OperableAreApart
  BY DEF AssociationInv, Known, Apart, OperableAreApart
<1> QED BY <1>1, <1>2, AssociationInvInductive, PTL DEF Spec

-----------------------------------------------------------------------------
(* An operation moves what was meant *)

(* A mark stands for the files its photo had when it was made.               *)
Meant(photos) == \A s \in DOMAIN photos : /\ s \in Stems
                                          /\ photos[s].rejected => photos[s].revision = meant[s]
Unmarked(photos) == \A s \in DOMAIN photos : s \in Stems /\ ~photos[s].rejected

(* What is shown as marked is stored with the same files: the view can be an *)
(* older one only in its marks.                                              *)
Shown == \A s \in DOMAIN view : view[s].rejected => /\ s \in DOMAIN stored
                                                    /\ stored[s].revision = view[s].revision

MeantInv ==
  /\ AssociationInv
  /\ Shown
  /\ meant = [s \in Stems |-> meant[s]]
  /\ Meant(stored) /\ Meant(view)
  /\ scan # None => Unmarked(scan)

LEMMA ResolvedAreUnmarked ==
  ASSUME NEW d PROVE Unmarked(Resolve(d))
BY DEF Unmarked, Resolve, Photo, Stems, Discovered, OnDisk

LEMMA MarkKeepsShown ==
  ASSUME AssociationInv, Shown, NEW s, NEW value \in BOOLEAN, Mark(s, value)
  PROVE  Shown'
<1>1. DOMAIN stored' = DOMAIN stored
  BY DEF Mark
<1>2. ASSUME NEW t \in DOMAIN stored PROVE stored'[t].revision = stored[t].revision
  <2>1. IsPhoto(stored[t])
    BY DEF AssociationInv, Known, Sound
  <2>2. stored'[t] = IF t = s THEN [stored[t] EXCEPT !.rejected = value] ELSE stored[t]
    BY DEF Mark
  <2> QED BY <2>1, <2>2 DEF IsPhoto
<1>3. view' = view \/ view' = stored'
  BY DEF Mark
<1> QED BY <1>1, <1>2, <1>3 DEF Shown

LEMMA MeantInvInductive == MeantInv /\ [Next]_vars => MeantInv'
<1> SUFFICES ASSUME MeantInv, [Next]_vars PROVE MeantInv'
  OBVIOUS
<1>0. AssociationInv'
  BY AssociationInvInductive DEF MeantInv
<1>1. ASSUME scan' = scan \/ \E d : scan' = Resolve(d) PROVE scan' # None => Unmarked(scan')
  BY <1>1, ResolvedAreUnmarked DEF MeantInv
<1>2. CASE Apply
  <2>1. scan # None /\ stored' = MergeWithStored(scan) /\ view' = stored' /\ scan' = None
        /\ meant' = meant
    BY <1>2 DEF Apply
  <2>2. ASSUME NEW s \in DOMAIN scan
        PROVE  /\ s \in Stems
               /\ MergeWithStored(scan)[s].rejected => MergeWithStored(scan)[s].revision = meant[s]
    <3>1. s \in Stems /\ ~scan[s].rejected /\ IsPhoto(scan[s])
      BY <2>1 DEF MeantInv, Unmarked, AssociationInv, Known, Sound
    <3>2. CASE s \in DOMAIN stored
      <4>1. MergeWithStored(scan)[s] = Merged(scan[s], stored[s])
        BY <3>2 DEF MergeWithStored
      <4>2. stored[s].rejected => stored[s].revision = meant[s]
        BY <3>2 DEF MeantInv, Meant
      <4> QED BY <3>1, <4>1, <4>2, MergedIsFresh
    <3>3. CASE s \notin DOMAIN stored
      BY <3>1, <3>3 DEF MergeWithStored
    <3> QED BY <3>1, <3>2, <3>3
  <2>3. DOMAIN MergeWithStored(scan) = DOMAIN scan
    BY DEF MergeWithStored
  <2>4. Meant(stored)'
    BY <2>1, <2>2, <2>3 DEF Meant, Stems
  <2>5. Shown'
    BY <2>1 DEF Shown
  <2> QED BY <1>0, <2>1, <2>4, <2>5 DEF MeantInv, Meant, Stems
<1>3. CASE ApplyUnstored
  BY <1>0, <1>3 DEF ApplyUnstored, MeantInv, Meant, Unmarked, Shown, Stems
<1>4. ASSUME NEW s \in Stems, Reject(s) PROVE MeantInv'
  <2>1. /\ Mark(s, TRUE) /\ scan' = scan
        /\ meant' = [t \in Stems |-> IF t = s /\ s \in DOMAIN stored THEN stored[s].revision
                                                                     ELSE meant[t]]
    BY <1>4 DEF Reject
  <2>2. ASSUME NEW t \in DOMAIN stored
        PROVE  t \in Stems /\ (stored'[t].rejected => stored'[t].revision = meant'[t])
    <3>1. /\ IsPhoto(stored[t]) /\ t \in Stems
          /\ stored[t].rejected => stored[t].revision = meant[t]
      BY DEF MeantInv, AssociationInv, Known, Sound, Meant
    <3>2. stored'[t] = IF t = s THEN [stored[t] EXCEPT !.rejected = TRUE] ELSE stored[t]
      BY <2>1 DEF Mark
    <3>3. stored'[t].revision = stored[t].revision
      BY <3>1, <3>2 DEF IsPhoto
    <3> QED BY <2>1, <3>1, <3>2, <3>3
  <2>3. DOMAIN stored' = DOMAIN stored
    BY <2>1 DEF Mark
  <2>4. Meant(stored)'
    BY <2>2, <2>3 DEF Meant, Stems
  <2>5. Meant(view)'
    <3>1. CASE view' = view
      BY <2>1, <3>1 DEF MeantInv, Meant, Shown, Stems
    <3>2. CASE view' = stored'
      BY <2>4, <3>2 DEF Meant
    <3> QED BY <2>1, <3>1, <3>2 DEF Mark
  <2>6. meant' = [t \in Stems |-> meant'[t]]
    BY <2>1
  <2>7. Shown'
    BY <2>1, MarkKeepsShown DEF MeantInv
  <2> QED BY <1>0, <2>1, <2>4, <2>5, <2>6, <2>7 DEF MeantInv, Unmarked, Stems
<1>5. ASSUME NEW s \in Stems, Unmark(s) PROVE MeantInv'
  <2>1. Mark(s, FALSE) /\ scan' = scan /\ meant' = meant
    BY <1>5 DEF Unmark
  <2>2. ASSUME NEW t \in DOMAIN stored
        PROVE  t \in Stems /\ (stored'[t].rejected => stored'[t].revision = meant[t])
    <3>1. /\ IsPhoto(stored[t]) /\ t \in Stems
          /\ stored[t].rejected => stored[t].revision = meant[t]
      BY DEF MeantInv, AssociationInv, Known, Sound, Meant
    <3>2. stored'[t] = IF t = s THEN [stored[t] EXCEPT !.rejected = FALSE] ELSE stored[t]
      BY <2>1 DEF Mark
    <3>3. t = s => ~stored'[t].rejected
      BY <3>1, <3>2 DEF IsPhoto
    <3> QED BY <3>1, <3>2, <3>3
  <2>3. DOMAIN stored' = DOMAIN stored
    BY <2>1 DEF Mark
  <2>4. Meant(stored)'
    BY <2>1, <2>2, <2>3 DEF Meant, Stems
  <2>5. Meant(view)'
    BY <2>1, <2>4 DEF Mark, MeantInv, Meant, Stems
  <2>6. Shown'
    BY <2>1, MarkKeepsShown DEF MeantInv
  <2> QED BY <1>0, <2>1, <2>4, <2>5, <2>6 DEF MeantInv, Unmarked, Stems
<1>6. ASSUME UNCHANGED <<stored, view, meant>>, scan' = scan \/ \E d : scan' = Resolve(d)
      PROVE  MeantInv'
  <2>1. scan' # None => Unmarked(scan)'
    BY <1>1, <1>6 DEF Unmarked, Stems
  <2> QED BY <1>0, <1>6, <2>1 DEF MeantInv, Meant, Shown, Stems
<1>7. StartScan \/ Execute => /\ UNCHANGED <<stored, view, meant>>
                              /\ \E d : scan' = Resolve(d)
  BY DEF StartScan, Execute
<1>8. (\E s \in Stems : Compare(s)) \/ Review \/ Cancel \/ Others \/ UNCHANGED vars
        => UNCHANGED <<scan, stored, view, meant>>
  BY DEF Compare, Review, Cancel, Others, Create, Link, Modify, Delete, vars
<1> QED BY <1>2, <1>3, <1>4, <1>5, <1>6, <1>7, <1>8 DEF Next, Program

(* What an operation takes of a photo's stem is the whole of a group that    *)
(* was verified.                                                             *)
LEMMA MovedIsVerified ==
  ASSUME MeantInv, Execute, NEW f \in OnDisk(disk) \ OnDisk(disk')
  PROVE  LET s == Stem[f] IN
         /\ s \in DOMAIN plan /\ f \in DOMAIN plan[s]
         /\ \A r \in DOMAIN plan : Verified(r)
         /\ DOMAIN plan[s] = {g \in Files : Stem[g] = s} \cap view[s].revision
         /\ \A g \in Files : disk'[g] = IF g \in Moved THEN None ELSE disk[g]
<1>1. disk'[f] = None /\ disk[f] # None /\ f \in Files
  BY DEF OnDisk
<1>2. /\ \A r \in DOMAIN plan : Verified(r)
      /\ disk' = [g \in Files |-> IF g \in Moved THEN None ELSE disk[g]]
  BY <1>1 DEF Execute
<1>3. \A g \in Files : disk'[g] = IF g \in Moved THEN None ELSE disk[g]
  BY <1>2
<1>4. PICK r \in DOMAIN plan : f \in DOMAIN plan[r]
  BY <1>1, <1>3 DEF Moved
<1>5. ASSUME NEW q \in DOMAIN plan
      PROVE  DOMAIN plan[q] = {g \in Files : Stem[g] = q} \cap view[q].revision
  <2>1. q \in DOMAIN view /\ IsOperable(view[q]) /\ DOMAIN plan[q] = Members(view[q])
    BY <1>2 DEF Verified, MembersMatch
  <2> QED BY <2>1 DEF MeantInv, AssociationInv, Known, Sound
<1>6. r = Stem[f]
  BY <1>4, <1>5
<1> QED BY <1>2, <1>3, <1>4, <1>5, <1>6

(* However long ago a photo was marked and whatever happened on disk and was *)
(* scanned since: an operation that moves files of it moves those that were  *)
(* stored of it when it was marked, as they were reviewed, and all of them.  *)
THEOREM OperationMovesWhatWasMeant == Spec => MovesWhatWasMeant
<1>1. Init => MeantInv
  <2> SUFFICES ASSUME Init PROVE MeantInv
    OBVIOUS
  <2>1. AssociationInv
    <3>1. Known(stored) /\ Known(view)
      BY DEF Init, Known, Apart, Sound
    <3> QED BY <3>1, ResolvedAreKnown DEF Init, AssociationInv
  <2>2. Meant(stored) /\ Meant(view) /\ Unmarked(scan)
    BY ResolvedAreUnmarked DEF Init, Meant
  <2>3. meant = [s \in Stems |-> meant[s]]
    BY DEF Init
  <2>4. Shown
    BY DEF Init, Shown
  <2> QED BY <2>1, <2>2, <2>3, <2>4 DEF MeantInv
<1>2. MeantInv /\ [Next]_vars => [MovesMeant]_vars
  <2> SUFFICES ASSUME MeantInv, [Next]_vars, plan # None, plan' = None, NEW h \in Left
               PROVE  LET s == Stem[h] IN
                      /\ {f \in Left : Stem[f] = s} = meant[s]
                      /\ \A f \in meant[s] : disk[f].ver = plan[s][f].ver
                      /\ \A f \in OnDisk(disk') : Stem[f] = s => Disabled(f)
    BY DEF Operated, MovesMeant
  <2>1. Execute
    <3>1. disk' # disk
      BY DEF Left
    <3> QED BY <3>1 DEF Next, Program, Others, StartScan, Apply, ApplyUnstored, Compare, Reject, Unmark,
               Review, Cancel, Create, Link, Modify, Delete, vars
  <2> DEFINE s == Stem[h]
  <2>2. /\ s \in DOMAIN plan /\ Verified(s)
        /\ DOMAIN plan[s] = {g \in Files : Stem[g] = s} \cap view[s].revision
        /\ \A g \in Files : disk'[g] = IF g \in Moved THEN None ELSE disk[g]
    BY <2>1, MovedIsVerified DEF Left
  <2>3. ASSUME NEW f \in Left, Stem[f] = s PROVE f \in DOMAIN plan[s]
    BY <2>1, <2>3, MovedIsVerified DEF Left
  <2> HIDE DEF s
  <2>4. /\ s \in DOMAIN view /\ view[s].rejected
        /\ \A f \in DOMAIN plan[s] : disk[f] # None /\ disk[f].ver = plan[s][f].ver
        /\ ~SiblingAppeared(s)
    BY <2>2 DEF Verified, MembersMatch
  <2>5. DOMAIN plan[s] = meant[s]
    <3>1. view[s].revision = meant[s] /\ view[s].revision \subseteq {g \in Files : Stem[g] = s}
      BY <2>4 DEF MeantInv, Meant, AssociationInv, Known, Sound
    <3> QED BY <2>2, <3>1
  <2>6. DOMAIN plan[s] \subseteq Moved
    BY <2>2 DEF Moved
  <2>7. ASSUME NEW f \in DOMAIN plan[s] PROVE f \in Left /\ Stem[f] = s
    BY <2>2, <2>4, <2>6, <2>7 DEF Left, OnDisk
  <2>8. {f \in Left : Stem[f] = s} = meant[s]
    BY <2>3, <2>5, <2>7
  <2>9. ASSUME NEW f \in OnDisk(disk'), Stem[f] = s PROVE Disabled(f)
    <3>1. f \in Files /\ f \notin Moved /\ disk[f] # None
      BY <2>2 DEF OnDisk
    <3> QED BY <2>4, <2>6, <2>9, <3>1 DEF SiblingAppeared, OnDisk
  <2> QED BY <2>4, <2>5, <2>8, <2>9 DEF s
<1> QED BY <1>1, <1>2, MeantInvInductive, PTL DEF Spec, MovesWhatWasMeant
=============================================================================
