---------------------------- MODULE Crop_proofs ----------------------------
(***************************************************************************)
(* Proofs about Crop for any finite set of photos, with or without RAW     *)
(* files, any crops and any number of runs of the program.                 *)
(***************************************************************************)
EXTENDS Crop, Enumeration_proofs, SequenceTheorems

(***************************************************************************)
(* The photos of a run                                                     *)
(***************************************************************************)
LEMMA PlanTypes ==
  ASSUME CropAssumption, NEW redo \in BOOLEAN
  PROVE  PlanCrops(redo) \in Seq(Photos)
<1>. DEFINE S == {p \in Photos : redo \/ ~IsAlreadyCropped(p)}
<1>1. S \in SUBSET Photos /\ S \in SUBSET Nat
  BY DEF CropAssumption
<1>2. IsFiniteSet(S)
  BY <1>1, FS_Subset DEF CropAssumption
<1>3. Ascending(S) \in [1..Cardinality(S) -> S] /\ Cardinality(S) \in Nat
  BY <1>1, <1>2, AscendingEnumerates, FS_CardinalityType
<1>4. PlanCrops(redo) = Ascending(S)
  BY DEF PlanCrops
<1>. HIDE DEF S
<1>5. \A i \in 1..Cardinality(S) : Ascending(S)[i] \in Photos
  BY <1>1, <1>3
<1>6. DOMAIN Ascending(S) = 1..Cardinality(S) /\ Ascending(S) = [i \in 1..Cardinality(S) |-> Ascending(S)[i]]
  BY <1>3
<1>. QED  BY <1>3, <1>4, <1>5, <1>6

(***************************************************************************)
(* Types                                                                   *)
(***************************************************************************)
Crops == Drawn \cup {Whole, None}
Remembered == [Photos -> Drawn \cup {None}]
Write == [photo : Photos, crop : Drawn, failed : BOOLEAN]
InHand == [job : Write, step : {"jpeg", "sidecar"}]
Canvas == [awaiting : BOOLEAN, ready : BOOLEAN, crop : Crops]

WindowTypes ==
  /\ index \in Nat
  /\ run \in {"open", "closing"} => plan \in Seq(Photos) /\ index \in 1..Len(plan)
  /\ accepted \in Remembered /\ due \in Remembered

\* A crop is on a photo that was accepted before, or its preview has arrived.
ScreenTypes ==
  /\ screen \in Canvas
  /\ screen.ready => ~screen.awaiting
  /\ screen.awaiting => screen.crop \in Drawn \cup {None}
  /\ ~screen.awaiting => screen.crop \in Drawn \cup {Whole}

WriteTypes ==
  /\ queue \in Seq(Write) /\ posted \in Seq(Write)
  /\ writing = NoWrite \/ writing \in InHand

FileTypes ==
  /\ jpeg \in Remembered
  /\ sidecar \in [Photos -> Drawn \cup {None, Damaged}]

Types == WindowTypes /\ ScreenTypes /\ WriteTypes /\ FileTypes

LEMMA NothingTypes == Nothing \in Remembered
BY DEF Nothing, Remembered

LEMMA NotInHand ==
  /\ NoWrite.step = "none"
  /\ \A w \in InHand : w # NoWrite /\ w.job \in Write /\ w.step \in {"jpeg", "sidecar"}
<1>1. NoWrite.step = "none"
  BY DEF NoWrite
<1>2. \A w \in InHand : w.job \in Write /\ w.step \in {"jpeg", "sidecar"}
  BY DEF InHand
<1>. QED  BY <1>1, <1>2

\* A blank canvas that shows what was accepted before, if anything was.
LEMMA BlankShows ==
  \A c \in Drawn \cup {None} :
    LET s == [Blank EXCEPT !.crop = c] IN
      s \in Canvas /\ s.awaiting /\ ~s.ready /\ s.crop = c
BY DEF Blank, Canvas, Crops

LEMMA BlankTypes ==
  Blank \in Canvas /\ Blank.awaiting /\ ~Blank.ready /\ Blank.crop = None
BY DEF Blank, Canvas, Crops

LEMMA ScreenUntouched == ScreenTypes /\ UNCHANGED screen => ScreenTypes'
BY DEF ScreenTypes

LEMMA ScreenShown ==
  ASSUME accepted \in Remembered, plan \in Seq(Photos), NEW i \in 1..Len(plan), ShowPhoto(i)
  PROVE  ScreenTypes'
<1>1. accepted[plan[i]] \in Drawn \cup {None}
  BY ElementOfSeq DEF Remembered
<1>2. screen' \in Canvas /\ screen'.awaiting /\ ~screen'.ready
      /\ screen'.crop \in Drawn \cup {None}
  BY <1>1, BlankShows DEF ShowPhoto
<1>. QED  BY <1>2 DEF ScreenTypes

LEMMA ScreenBlank == screen' = Blank => ScreenTypes'
BY BlankTypes DEF ScreenTypes

LEMMA ForwardTypes ==
  ASSUME WindowTypes, ScreenTypes, run \in {"open", "closing"}, Forward
  PROVE  ScreenTypes' /\ index' \in 1..Len(plan)
<1>1. plan \in Seq(Photos) /\ index \in 1..Len(plan) /\ accepted \in Remembered
      /\ Len(plan) \in Nat
  BY DEF WindowTypes
<1>2. CASE index < Len(plan)
  <2>1. index + 1 \in 1..Len(plan) /\ ShowPhoto(index + 1)
    BY <1>1, <1>2 DEF Forward
  <2>. QED  BY <1>1, <2>1, ScreenShown DEF ShowPhoto
<1>3. CASE ~(index < Len(plan))
  BY <1>1, <1>3, ScreenUntouched DEF Forward
<1>. QED  BY <1>2, <1>3

LEMMA StopTypes ==
  ASSUME NEW how \in {"closed", "crashed"}, Stop(how) PROVE WindowTypes' /\ ScreenTypes'
BY NothingTypes, ScreenBlank DEF Stop, WindowTypes

\* What a report leaves of what is remembered.
LEMMA SavedTypes ==
  ASSUME accepted \in Remembered, due \in Remembered, NEW report, OnSaved(report)
  PROVE  accepted' \in Remembered /\ due' \in Remembered
BY DEF OnSaved, StillAccepted, StillDue, Remembered

LEMMA WindowKept ==
  WindowTypes /\ UNCHANGED <<plan, index, accepted, due>> /\ run' \in {run, "open", "closing"}
    /\ (run' # run => run \in {"open", "closing"}) => WindowTypes'
BY DEF WindowTypes

(* The person and the previews. *)
LEMMA PersonTypes ==
  ASSUME CropAssumption, Types, Person \/ Arrive \/ Unreadable
  PROVE  WindowTypes' /\ ScreenTypes'
<1>0. WindowTypes /\ ScreenTypes
  BY DEF Types
<1>1. CASE Skip
  <2>1. CASE Stop("closed")
    BY <2>1, StopTypes
  <2>2. CASE Forward /\ UNCHANGED <<run, plan, accepted, failures, due>>
    <3>1. run = "open"
      BY <1>1 DEF Skip, Open
    <3>. QED  BY <1>0, <2>2, <3>1, ForwardTypes DEF WindowTypes
  <2>. QED  BY <1>1, <2>1, <2>2 DEF Skip
<1>2. CASE AcceptCrop
  <2>1. run = "open" /\ screen.crop \in Drawn
    BY <1>0, <1>2 DEF AcceptCrop, Open, ScreenTypes
  <2>2. accepted' \in Remembered /\ due' \in Remembered
    BY <1>0, <1>2, <2>1 DEF AcceptCrop, Remembered, WindowTypes
  <2>3. Forward /\ run' = run /\ plan' = plan
    BY <1>2 DEF AcceptCrop
  <2>. QED  BY <1>0, <2>1, <2>2, <2>3, ForwardTypes DEF WindowTypes
<1>3. CASE Back
  <2>1. run = "open" /\ plan \in Seq(Photos) /\ index \in 1..Len(plan) /\ accepted \in Remembered
    BY <1>0, <1>3 DEF Back, Open, WindowTypes
  <2>2. PICK i \in 1..Len(plan) : ShowPhoto(i)
    BY <1>3, <2>1 DEF Back
  <2>3. UNCHANGED <<run, plan, accepted, due>>
    BY <1>3 DEF Back
  <2>. QED  BY <1>0, <2>1, <2>2, <2>3, ScreenShown DEF ShowPhoto, WindowTypes
<1>4. CASE Draw
  <2>1. PICK c \in Drawn \cup {Whole} : screen' = [screen EXCEPT !.crop = c]
    BY <1>4 DEF Draw
  <2>2. ~screen.awaiting /\ screen \in Canvas
    BY <1>0, <1>4 DEF Draw, ScreenTypes
  <2>3. ScreenTypes'
    BY <2>1, <2>2 DEF ScreenTypes, Canvas, Crops
  <2>. QED  BY <1>0, <1>4, <2>3, WindowKept DEF Draw
<1>5. CASE Close
  BY <1>0, <1>5, WindowKept, ScreenUntouched DEF Close, window, Open
<1>6. ASSUME NEW redo \in BOOLEAN, Start(redo) PROVE WindowTypes' /\ ScreenTypes'
  <2>1. plan' \in Seq(Photos) /\ plan' # <<>>
    BY <1>6, PlanTypes DEF Start
  <2>2. Len(plan') \in Nat \ {0}
    BY <2>1, EmptySeq
  <2>. QED  BY <1>0, <1>6, <2>1, <2>2, ScreenBlank DEF Start, WindowTypes
<1>7. CASE Arrive
  <2>1. PICK c \in IF ~screen.awaiting \/ screen.crop # None THEN {screen.crop}
                   ELSE Drawn \cup {Whole} :
               screen' = [awaiting |-> FALSE, ready |-> TRUE, crop |-> c]
    BY <1>7 DEF Arrive
  <2>2. c \in Drawn \cup {Whole}
    BY <1>0, <2>1 DEF ScreenTypes, Canvas
  <2>3. ScreenTypes'
    BY <2>1, <2>2 DEF ScreenTypes, Canvas, Crops
  <2>. QED  BY <1>0, <1>7, <2>3, WindowKept DEF Arrive
<1>8. CASE Unreadable
  <2>1. ScreenTypes'
    BY <1>0, <1>8 DEF Unreadable, ScreenTypes, Canvas
  <2>. QED  BY <1>0, <1>8, <2>1, WindowKept DEF Unreadable
<1>. QED  BY <1>1, <1>2, <1>3, <1>4, <1>5, <1>6, <1>7, <1>8 DEF Person

(* The writes, and what is reported of them. *)
LEMMA JobTypes ==
  ASSUME NEW job \in Write, NEW b \in BOOLEAN
  PROVE  /\ [job EXCEPT !.failed = b] \in Write
         /\ [job EXCEPT !.failed = b].photo = job.photo
         /\ [job EXCEPT !.failed = b].crop = job.crop
         /\ [job EXCEPT !.failed = b].failed = b
BY DEF Write

LEMMA QueueTypes ==
  ASSUME Types, NEW s \in Seq(Write), s # <<>>
  PROVE  /\ Head(s) \in Write /\ Tail(s) \in Seq(Write)
         /\ Head(s) = s[1] /\ Len(s) \in Nat \ {0} /\ Len(Tail(s)) = Len(s) - 1
         /\ \A k \in 1..Len(s) - 1 : Tail(s)[k] = s[k + 1]
BY HeadTailProperties, EmptySeq

LEMMA WorkTypes ==
  ASSUME Types, Work \/ AcceptCrop PROVE WriteTypes' /\ FileTypes'
<1>0. WriteTypes /\ FileTypes
  BY DEF Types
<1>1. CASE AcceptCrop
  <2>1. plan[index] \in Photos
    BY <1>1, ElementOfSeq DEF AcceptCrop, Open, Types, WindowTypes
  <2>2. screen.crop \in Drawn
    BY <1>1 DEF AcceptCrop, Types, ScreenTypes
  <2>3. [photo |-> plan[index], crop |-> screen.crop, failed |-> FALSE] \in Write
    BY <2>1, <2>2 DEF Write
  <2>4. queue' \in Seq(Write)
    BY <1>0, <1>1, <2>3, AppendProperties DEF AcceptCrop, WriteTypes
  <2>. QED  BY <1>0, <1>1, <2>4 DEF AcceptCrop, WriteTypes, FileTypes, files
<1>2. CASE TakeWrite
  <2>1. queue # <<>> /\ writing' = [job |-> Head(queue), step |-> "jpeg"] /\ queue' = Tail(queue)
    BY <1>2 DEF TakeWrite, NextWrite
  <2>2. Head(queue) \in Write /\ Tail(queue) \in Seq(Write)
    BY <1>0, <2>1, QueueTypes DEF WriteTypes
  <2>3. writing' \in InHand
    BY <2>1, <2>2 DEF InHand
  <2>. QED  BY <1>0, <1>2, <2>1, <2>2, <2>3 DEF TakeWrite, WriteTypes, FileTypes, files
<1>3. CASE WriteJpegCrop
  <2>1. writing \in InHand /\ writing.job \in Write
    BY <1>0, <1>3, NotInHand DEF WriteJpegCrop, WriteTypes
  <2>2. PICK failed \in BOOLEAN, job \in Write :
          /\ job = [writing.job EXCEPT !.failed = failed]
          /\ jpeg' = IF failed THEN jpeg ELSE [jpeg EXCEPT ![job.photo] = job.crop]
          /\ \/ writing' = [job |-> job, step |-> "sidecar"] /\ UNCHANGED posted
             \/ Report(job)
    BY <1>3, <2>1, JobTypes DEF WriteJpegCrop
  <2>3. jpeg' \in Remembered
    BY <1>0, <2>2 DEF FileTypes, Remembered, Write
  <2>4. WriteTypes'
    <3>1. queue' = queue
      BY <1>3 DEF WriteJpegCrop
    <3>2. CASE writing' = [job |-> job, step |-> "sidecar"] /\ UNCHANGED posted
      BY <1>0, <3>1, <3>2 DEF WriteTypes, InHand
    <3>3. CASE Report(job)
      BY <1>0, <3>1, <3>3, AppendProperties DEF WriteTypes, Report
    <3>. QED  BY <2>2, <3>2, <3>3
  <2>. QED  BY <1>0, <1>3, <2>3, <2>4 DEF WriteJpegCrop, FileTypes
<1>4. CASE WriteCameraRawCrop
  <2>1. writing \in InHand /\ writing.job \in Write
    BY <1>0, <1>4, NotInHand DEF WriteCameraRawCrop, WriteTypes
  <2>2. PICK job \in Write : Report(job)
    BY <1>4, <2>1, JobTypes DEF WriteCameraRawCrop
  <2>3. sidecar' \in [Photos -> Drawn \cup {None, Damaged}]
    BY <1>0, <1>4, <2>1 DEF WriteCameraRawCrop, FileTypes, Write
  <2>4. WriteTypes'
    BY <1>0, <1>4, <2>2, AppendProperties DEF WriteCameraRawCrop, WriteTypes, Report
  <2>. QED  BY <1>0, <1>4, <2>3, <2>4 DEF WriteCameraRawCrop, FileTypes
<1>. QED  BY <1>1, <1>2, <1>3, <1>4 DEF Work

LEMMA ReportTypes ==
  ASSUME Types, Reports PROVE Types'
<1>0. WindowTypes /\ ScreenTypes /\ WriteTypes /\ FileTypes
  BY DEF Types
<1>1. WriteTypes'
  <2>1. CASE Deliver
    BY <1>0, <2>1, QueueTypes DEF Deliver, WriteTypes
  <2>2. CASE EndClose
    BY <1>0, <2>2, EmptySeq DEF EndClose, WriteTypes
  <2>. QED  BY <2>1, <2>2 DEF Reports
<1>2. WindowTypes' /\ ScreenTypes'
  <2>1. CASE Stop("closed")
    BY <2>1, StopTypes
  <2>2. ASSUME NEW report, OnSaved(report), UNCHANGED window,
               run \in {"open", "closing"}, run' \in {"open", "closing"}
        PROVE  WindowTypes' /\ ScreenTypes'
    BY <1>0, <2>2, SavedTypes, ScreenUntouched DEF window, WindowTypes
  <2>. QED  BY <2>1, <2>2 DEF Reports, Deliver, EndClose, Open
<1>3. FileTypes'
  BY <1>0 DEF Reports, Deliver, EndClose, files, FileTypes
<1>. QED  BY <1>1, <1>2, <1>3 DEF Types

LEMMA CrashTypes ==
  ASSUME Types, Crash PROVE Types'
<1>1. WindowTypes' /\ ScreenTypes'
  BY StopTypes DEF Crash
<1>2. WriteTypes'
  BY EmptySeq DEF Crash, WriteTypes
<1>3. FileTypes'
  BY DEF Crash, Types, FileTypes
<1>. QED  BY <1>1, <1>2, <1>3 DEF Types

LEMMA TypesStep ==
  ASSUME CropAssumption, Types, [Next]_vars PROVE Types'
<1>0. WindowTypes /\ ScreenTypes /\ WriteTypes /\ FileTypes
  BY DEF Types
<1>1. CASE Person \/ Arrive \/ Unreadable
  <2>1. WriteTypes' /\ FileTypes'
    <3>1. AcceptCrop \/ UNCHANGED <<writes, files>>
      BY <1>1 DEF Person, Skip, Back, Draw, Close, Start, Arrive, Unreadable
    <3>. QED  BY <1>0, <3>1, WorkTypes DEF WriteTypes, FileTypes, writes, files
  <2>. QED  BY <1>1, <2>1, PersonTypes DEF Types
<1>2. CASE Work
  <2>1. WriteTypes' /\ FileTypes'
    BY <1>2, WorkTypes
  <2>2. UNCHANGED <<run, window, accepted, due>>
    BY <1>2 DEF Work, TakeWrite, WriteJpegCrop, WriteCameraRawCrop
  <2>. QED  BY <1>0, <2>1, <2>2, WindowKept, ScreenUntouched DEF window, Types
<1>3. CASE Reports
  BY <1>3, ReportTypes
<1>4. CASE Crash
  BY <1>4, CrashTypes
<1>5. CASE UNCHANGED vars
  BY <1>0, <1>5, WindowKept, ScreenUntouched
  DEF vars, window, writes, files, Types, WriteTypes, FileTypes
<1>. QED  BY <1>1, <1>2, <1>3, <1>4, <1>5 DEF Next

LEMMA TypesHold == Spec => []Types
<1>1. Init => Types
  BY NothingTypes, BlankTypes, EmptySeq
  DEF Init, Types, WindowTypes, ScreenTypes, WriteTypes, FileTypes, Remembered, Nothing
<1>. QED  BY <1>1, TypesStep, CropAssumption, PTL DEF Spec

(***************************************************************************)
(* What was accepted last                                                  *)
(***************************************************************************)
NotQueued(p) == \A k \in DOMAIN queue : queue[k].photo # p
NotInHandOf(p) == writing = NoWrite \/ writing.job.photo # p
NotReported(p) == \A k \in DOMAIN posted : posted[k].photo # p

\* The last write of the photo is in the queue;
DueQueued(p) ==
  \E k \in DOMAIN queue :
    /\ queue[k].photo = p /\ queue[k].crop = due[p]
    /\ \A j \in DOMAIN queue : j > k => queue[j].photo # p

\* or it is the one being made, and its JPEG exists once that was tried;
DueBeingMade(p) ==
  /\ NotQueued(p)
  /\ writing # NoWrite /\ writing.job.photo = p /\ writing.job.crop = due[p]
  /\ writing.step = "sidecar" => (~writing.job.failed => jpeg[p] = due[p])

\* or it was made, and its files exist unless the report says that it failed;
DueReported(p) ==
  /\ NotQueued(p) /\ NotInHandOf(p)
  /\ \E k \in DOMAIN posted :
       /\ posted[k].photo = p /\ posted[k].crop = due[p]
       /\ \A j \in DOMAIN posted : j > k => posted[j].photo # p
       /\ ~posted[k].failed => Written(p, due[p])

\* or it was reported, and its files exist.
DueWritten(p) == NotQueued(p) /\ NotInHandOf(p) /\ NotReported(p) /\ Written(p, due[p])

Traced(p) == DueQueued(p) \/ DueBeingMade(p) \/ DueReported(p) \/ DueWritten(p)

\* The crop accepted last of each photo can be found in one of these places,
\* and what is remembered of a photo is no other crop.
Tracked ==
  /\ \A p \in Photos : due[p] # None => Traced(p)
  /\ \A p \in Photos : accepted[p] # None => accepted[p] = due[p]

LEMMA TracedUntouched ==
  \A p : Traced(p) /\ UNCHANGED <<writes, files, due>> => Traced(p)'
BY DEF Traced, DueQueued, DueBeingMade, DueReported, DueWritten, NotQueued, NotInHandOf,
       NotReported, Written, writes, files

LEMMA TrackedUntouched ==
  ASSUME Tracked, UNCHANGED <<accepted, writes, files, due>> PROVE Tracked'
<1>1. \A p \in Photos : due'[p] # None => Traced(p)'
  BY TracedUntouched DEF Tracked
<1>. QED  BY <1>1 DEF Tracked

LEMMA StopTracked ==
  ASSUME NEW how, Stop(how) PROVE Tracked'
BY DEF Stop, Nothing, Tracked

(* A crop is accepted: its write is the last in the queue. *)
LEMMA AcceptTracked ==
  ASSUME Types, Tracked, AcceptCrop PROVE Tracked'
<1>. DEFINE a == plan[index]
            e == [photo |-> a, crop |-> screen.crop, failed |-> FALSE]
<1>1. /\ queue' = Append(queue, e) /\ queue \in Seq(Write)
      /\ accepted' = [accepted EXCEPT ![a] = screen.crop]
      /\ due' = [due EXCEPT ![a] = screen.crop]
      /\ UNCHANGED <<writing, posted, jpeg, sidecar>>
  BY DEF AcceptCrop, files, Types, WriteTypes
<1>2. accepted \in Remembered /\ due \in Remembered
  BY DEF Types, WindowTypes
<1>3. e \in Write /\ e.photo = a /\ e.crop = screen.crop
  <2>1. a \in Photos
    BY ElementOfSeq DEF AcceptCrop, Open, Types, WindowTypes
  <2>2. screen.crop \in Drawn
    BY DEF AcceptCrop, Types, ScreenTypes
  <2>. QED  BY <2>1, <2>2 DEF Write
<1>. HIDE DEF a, e
<1>4. /\ Len(queue') = Len(queue) + 1 /\ Len(queue) \in Nat
      /\ DOMAIN queue = 1..Len(queue) /\ DOMAIN queue' = 1..Len(queue')
      /\ \A k \in 1..Len(queue) : queue'[k] = queue[k]
      /\ queue'[Len(queue) + 1] = e
  BY <1>1, <1>3, AppendProperties
<1>5. ASSUME NEW p \in Photos, due'[p] # None PROVE Traced(p)'
  <2>1. CASE p = a
    <3>1. due'[p] = screen.crop
      BY <1>1, <1>2, <2>1 DEF Remembered
    <3>2. DueQueued(p)'
      <4>1. \A j \in DOMAIN queue' : ~(j > Len(queue) + 1)
        BY <1>4
      <4>. QED  BY <1>3, <1>4, <2>1, <3>1, <4>1 DEF DueQueued
    <3>. QED  BY <3>2 DEF Traced
  <2>2. CASE p # a
    <3>1. due'[p] = due[p] /\ Traced(p)
      BY <1>1, <1>2, <1>5, <2>2 DEF Remembered, Tracked
    <3>2. NotQueued(p) => NotQueued(p)'
      BY <1>3, <1>4, <2>2 DEF NotQueued
    <3>3. DueQueued(p) => DueQueued(p)'
      BY <1>3, <1>4, <2>2, <3>1 DEF DueQueued
    <3>4. DueBeingMade(p) => DueBeingMade(p)'
      BY <1>1, <3>1, <3>2 DEF DueBeingMade
    <3>5. DueReported(p) => DueReported(p)'
      BY <1>1, <3>1, <3>2 DEF DueReported, NotInHandOf, Written
    <3>6. DueWritten(p) => DueWritten(p)'
      BY <1>1, <3>1, <3>2 DEF DueWritten, NotInHandOf, NotReported, Written
    <3>. QED  BY <3>1, <3>3, <3>4, <3>5, <3>6 DEF Traced
  <2>. QED  BY <2>1, <2>2
<1>6. \A p \in Photos : accepted'[p] # None => accepted'[p] = due'[p]
  BY <1>1, <1>2 DEF Tracked, Remembered
<1>. QED  BY <1>5, <1>6 DEF Tracked

(* The worker takes the first write of the queue. *)
LEMMA TakeTracked ==
  ASSUME Types, Tracked, TakeWrite PROVE Tracked'
<1>1. /\ queue # <<>> /\ writing = NoWrite /\ queue \in Seq(Write)
      /\ writing' = [job |-> Head(queue), step |-> "jpeg"] /\ queue' = Tail(queue)
      /\ UNCHANGED <<accepted, due, posted, jpeg, sidecar>>
  BY DEF TakeWrite, NextWrite, files, Types, WriteTypes
<1>2. /\ queue[1] \in Write /\ queue' \in Seq(Write)
      /\ Len(queue) \in Nat \ {0} /\ Len(queue') = Len(queue) - 1
      /\ DOMAIN queue = 1..Len(queue) /\ DOMAIN queue' = 1..Len(queue')
      /\ \A k \in 1..Len(queue) - 1 : queue'[k] = queue[k + 1]
      /\ writing'.job = queue[1] /\ writing'.step = "jpeg"
  BY <1>1, QueueTypes
<1>3. writing' # NoWrite
  BY <1>2, NotInHand
<1>4. ASSUME NEW p \in Photos, due'[p] # None PROVE Traced(p)'
  <2>1. due'[p] = due[p] /\ Traced(p)
    BY <1>1, <1>4 DEF Tracked
  <2>2. NotQueued(p) => NotQueued(p)' /\ NotInHandOf(p)'
    <3>1. NotQueued(p) => NotInHandOf(p)'
      BY <1>2 DEF NotQueued, NotInHandOf
    <3>2. ASSUME NotQueued(p), NEW k \in DOMAIN queue' PROVE queue'[k].photo # p
      <4>1. k + 1 \in DOMAIN queue /\ queue'[k] = queue[k + 1]
        BY <1>2
      <4>. QED  BY <3>2, <4>1 DEF NotQueued
    <3>. QED  BY <3>1, <3>2 DEF NotQueued
  <2>3. ~DueBeingMade(p)
    BY <1>1 DEF DueBeingMade
  <2>4. CASE DueQueued(p)
    <3>1. PICK k \in 1..Len(queue) :
            /\ queue[k].photo = p /\ queue[k].crop = due[p]
            /\ \A j \in 1..Len(queue) : j > k => queue[j].photo # p
      BY <1>2, <2>4 DEF DueQueued
    <3>2. CASE k = 1
      <4>1. NotQueued(p)'
        BY <1>2, <3>1, <3>2 DEF NotQueued
      <4>. QED  BY <1>2, <1>3, <2>1, <3>1, <3>2, <4>1 DEF Traced, DueBeingMade
    <3>3. CASE k # 1
      <4>1. /\ k - 1 \in 1..Len(queue') /\ queue'[k - 1] = queue[k]
            /\ \A j \in 1..Len(queue') : j > k - 1 => queue'[j].photo # p
        BY <1>2, <3>1, <3>3
      <4>. QED  BY <1>2, <2>1, <3>1, <4>1 DEF Traced, DueQueued
    <3>. QED  BY <3>2, <3>3
  <2>5. DueReported(p) => DueReported(p)'
    BY <1>1, <2>1, <2>2 DEF DueReported, Written
  <2>6. DueWritten(p) => DueWritten(p)'
    BY <1>1, <2>1, <2>2 DEF DueWritten, NotReported, Written
  <2>. QED  BY <2>1, <2>3, <2>4, <2>5, <2>6 DEF Traced
<1>. QED  BY <1>1, <1>4 DEF Tracked

\* A step of the write that is being made: of other photos nothing changes but
\* that a report of this one may be added.
LEMMA OthersTracked ==
  ASSUME Types, NEW p \in Photos, Traced(p), UNCHANGED <<queue, due>>,
         NotInHandOf(p) => NotInHandOf(p)',
         writing # NoWrite => writing.job.photo # p,
         jpeg'[p] = jpeg[p], sidecar'[p] = sidecar[p],
         \/ posted' = posted
         \/ \E job \in Write : job.photo # p /\ posted' = Append(posted, job)
  PROVE  Traced(p)'
<1>1. PICK n \in Nat, m \in Nat :
        /\ DOMAIN posted = 1..n /\ DOMAIN posted' = 1..m /\ n <= m
        /\ \A k \in 1..n : posted'[k] = posted[k]
        /\ \A k \in 1..m : k > n => posted'[k].photo # p
  <2>. DEFINE Grown(n, m) ==
                /\ DOMAIN posted = 1..n /\ DOMAIN posted' = 1..m /\ n <= m
                /\ \A k \in 1..n : posted'[k] = posted[k]
                /\ \A k \in 1..m : k > n => posted'[k].photo # p
  <2>1. posted \in Seq(Write) /\ Len(posted) \in Nat
    BY DEF Types, WriteTypes
  <2>2. CASE posted' = posted
    <3>1. Grown(Len(posted), Len(posted))
      BY <2>1, <2>2
    <3>. QED  BY <2>1, <3>1
  <2>3. ASSUME NEW job \in Write, job.photo # p, posted' = Append(posted, job)
        PROVE  \E n \in Nat, m \in Nat : Grown(n, m)
    <3>1. Grown(Len(posted), Len(posted) + 1)
      BY <2>1, <2>3, AppendProperties
    <3>2. Len(posted) + 1 \in Nat
      BY <2>1
    <3>. HIDE DEF Grown
    <3>. QED  BY <2>1, <3>1, <3>2
  <2>. QED  BY <2>2, <2>3
<1>2. NotQueued(p) => NotQueued(p)'
  BY DEF NotQueued
<1>3. NotInHandOf(p) /\ ~DueBeingMade(p)
  BY DEF NotInHandOf, DueBeingMade
<1>4. Written(p, due[p]) => Written(p, due[p])'
  BY DEF Written
<1>5. DueQueued(p) => DueQueued(p)'
  BY DEF DueQueued
<1>6. DueReported(p) => DueReported(p)'
  <2>. SUFFICES ASSUME DueReported(p) PROVE DueReported(p)'
    OBVIOUS
  <2>1. PICK k \in 1..n :
          /\ posted[k].photo = p /\ posted[k].crop = due[p]
          /\ \A j \in 1..n : j > k => posted[j].photo # p
          /\ ~posted[k].failed => Written(p, due[p])
    BY <1>1 DEF DueReported
  <2>2. k \in 1..m /\ posted'[k] = posted[k]
    BY <1>1
  <2>3. ASSUME NEW j \in 1..m, j > k PROVE posted'[j].photo # p
    <3>1. CASE j > n
      BY <1>1, <3>1
    <3>2. CASE ~(j > n)
      <4>1. j \in 1..n
        BY <1>1, <3>2
      <4>. QED  BY <1>1, <2>1, <2>3, <4>1
    <3>. QED  BY <3>1, <3>2
  <2>. QED  BY <1>1, <1>2, <1>3, <1>4, <2>1, <2>2, <2>3 DEF DueReported
<1>7. DueWritten(p) => DueWritten(p)'
  <2>1. NotReported(p) => NotReported(p)'
    <3>. SUFFICES ASSUME NotReported(p), NEW k \in 1..m PROVE posted'[k].photo # p
      BY <1>1 DEF NotReported
    <3>1. CASE k > n
      BY <1>1, <3>1
    <3>2. CASE ~(k > n)
      <4>1. k \in 1..n
        BY <1>1, <3>2
      <4>. QED  BY <1>1, <4>1 DEF NotReported
    <3>. QED  BY <3>1, <3>2
  <2>. QED  BY <1>2, <1>3, <1>4, <2>1 DEF DueWritten
<1>. QED  BY <1>3, <1>5, <1>6, <1>7 DEF Traced

\* The write that is due is reported.
LEMMA ReportTracked ==
  ASSUME Types, NEW p \in Photos, DueBeingMade(p), UNCHANGED <<queue, due>>,
         NEW job \in Write, Report(job), job.photo = p, job.crop = due[p],
         ~job.failed => Written(p, due[p])'
  PROVE  Traced(p)'
<1>1. posted \in Seq(Write) /\ posted' = Append(posted, job) /\ writing' = NoWrite
  BY DEF Types, WriteTypes, Report
<1>2. PICK n \in Nat : /\ DOMAIN posted' = 1..n + 1
                       /\ posted'[n + 1] = job
  BY <1>1, AppendProperties
<1>3. NotQueued(p)' /\ NotInHandOf(p)'
  BY <1>1 DEF DueBeingMade, NotQueued, NotInHandOf
<1>4. /\ n + 1 \in DOMAIN posted'
      /\ \A j \in DOMAIN posted' : ~(j > n + 1)
  BY <1>2
<1>5. DueReported(p)'
  BY <1>2, <1>3, <1>4 DEF DueReported
<1>. QED  BY <1>5 DEF Traced

(* The write that is being made goes on. *)
LEMMA WorkTracked ==
  ASSUME Types, Tracked, WriteJpegCrop \/ WriteCameraRawCrop PROVE Tracked'
<1>1. UNCHANGED <<queue, due, accepted>>
  BY DEF WriteJpegCrop, WriteCameraRawCrop
<1>2. writing \in InHand /\ writing # NoWrite /\ writing.job \in Write
  BY NotInHand DEF WriteJpegCrop, WriteCameraRawCrop, Types, WriteTypes
<1>. DEFINE q == writing.job.photo
<1>3. q \in Photos
  BY <1>2 DEF Write
<1>4. jpeg \in Remembered /\ sidecar \in [Photos -> Drawn \cup {None, Damaged}]
  BY DEF Types, FileTypes
<1>5. ASSUME NEW p \in Photos, due[p] # None PROVE Traced(p)'
  <2>1. Traced(p)
    BY <1>5 DEF Tracked
  <2>2. DueQueued(p) => Traced(p)'
    BY <1>1 DEF Traced, DueQueued
  <2>3. p = q => DueQueued(p) \/ DueBeingMade(p)
    BY <1>2, <2>1 DEF Traced, DueReported, DueWritten, NotInHandOf
  <2>4. CASE WriteJpegCrop
    <3>1. PICK failed \in BOOLEAN, job \in Write :
            /\ job = [writing.job EXCEPT !.failed = failed]
            /\ jpeg' = IF failed THEN jpeg ELSE [jpeg EXCEPT ![job.photo] = job.crop]
            /\ IF job.photo \in Raws
               THEN writing' = [job |-> job, step |-> "sidecar"] /\ UNCHANGED posted
               ELSE Report(job)
      BY <1>2, <2>4, JobTypes DEF WriteJpegCrop
    <3>2. job.photo = q /\ job.crop = writing.job.crop /\ job.failed = failed
      BY <1>2, <3>1, JobTypes
    <3>3. sidecar' = sidecar
      BY <2>4 DEF WriteJpegCrop
    <3>4. /\ \A r \in Photos : r # q => jpeg'[r] = jpeg[r]
          /\ ~failed => jpeg'[q] = writing.job.crop
      BY <1>3, <1>4, <3>1, <3>2 DEF Remembered
    <3>5. writing' # NoWrite => writing'.job.photo = q
      <4>1. CASE writing' = [job |-> job, step |-> "sidecar"]
        BY <3>2, <4>1
      <4>. QED  BY <3>1, <4>1 DEF Report
    <3>6. CASE p # q
      <4>1. NotInHandOf(p)'
        BY <3>5, <3>6 DEF NotInHandOf
      <4>2. \/ posted' = posted
            \/ \E j \in Write : j.photo # p /\ posted' = Append(posted, j)
        BY <3>1, <3>2, <3>6 DEF Report
      <4>. QED  BY <1>1, <2>1, <3>3, <3>4, <3>6, <4>1, <4>2, OthersTracked
    <3>7. CASE p = q /\ DueBeingMade(p) /\ p \in Raws
      <4>1. writing' = [job |-> job, step |-> "sidecar"]
        BY <3>1, <3>2, <3>7
      <4>2. /\ writing'.job = job /\ writing'.step = "sidecar" /\ writing' # NoWrite
        BY <4>1, NotInHand
      <4>3. DueBeingMade(p)'
        BY <1>1, <3>2, <3>4, <3>7, <4>2 DEF DueBeingMade, NotQueued
      <4>. QED  BY <4>3 DEF Traced
    <3>8. CASE p = q /\ DueBeingMade(p) /\ p \notin Raws
      <4>1. Report(job)
        BY <3>1, <3>2, <3>8
      <4>2. job.crop = due[p] /\ (~job.failed => Written(p, due[p])')
        BY <1>1, <3>2, <3>4, <3>8 DEF DueBeingMade, Written
      <4>. QED  BY <1>1, <3>2, <3>8, <4>1, <4>2, ReportTracked
    <3>. QED  BY <2>2, <2>3, <3>6, <3>7, <3>8
  <2>5. CASE WriteCameraRawCrop
    <3>1. PICK job \in Write :
            /\ Report(job) /\ job.photo = q /\ job.crop = writing.job.crop
            /\ ~job.failed => ~writing.job.failed /\ sidecar'[q] = writing.job.crop
      <4>1. CASE /\ sidecar' = [sidecar EXCEPT ![q] = writing.job.crop]
                 /\ Report(writing.job)
        <5>1. sidecar'[q] = writing.job.crop
          BY <1>3, <1>4, <4>1
        <5>. QED  BY <1>2, <4>1, <5>1
      <4>2. CASE Report([writing.job EXCEPT !.failed = TRUE])
        BY <1>2, <4>2, JobTypes
      <4>. QED  BY <2>5, <4>1, <4>2 DEF WriteCameraRawCrop
    <3>2. /\ jpeg' = jpeg /\ writing.step = "sidecar"
          /\ \A r \in Photos : r # q => sidecar'[r] = sidecar[r]
      BY <1>3, <1>4, <2>5 DEF WriteCameraRawCrop
    <3>3. CASE p # q
      <4>1. NotInHandOf(p)'
        BY <3>1 DEF NotInHandOf, Report
      <4>2. \E j \in Write : j.photo # p /\ posted' = Append(posted, j)
        BY <3>1, <3>3 DEF Report
      <4>. QED  BY <1>1, <2>1, <3>2, <3>3, <4>1, <4>2, OthersTracked
    <3>4. CASE p = q /\ DueBeingMade(p)
      <4>1. job.crop = due[p] /\ (~job.failed => Written(p, due[p])')
        BY <1>1, <3>1, <3>2, <3>4 DEF DueBeingMade, Written
      <4>. QED  BY <1>1, <3>1, <3>4, <4>1, ReportTracked
    <3>. QED  BY <2>2, <2>3, <3>3, <3>4
  <2>. QED  BY <2>4, <2>5
<1>. QED  BY <1>1, <1>5 DEF Tracked

(* Reports come in. *)
LEMMA SavedTracked ==
  ASSUME Types, Tracked, NEW report, OnSaved(report)
  PROVE  /\ \A p \in Photos : due'[p] # None =>
              /\ due'[p] = due[p]
              /\ ~ \E k \in DOMAIN report :
                     report[k].failed /\ report[k].photo = p /\ report[k].crop = due[p]
         /\ \A p \in Photos : accepted'[p] # None => accepted'[p] = due'[p]
<1>1. /\ accepted' = StillAccepted(report) /\ due' = StillDue(report)
  BY DEF OnSaved
<1>2. \A p \in Photos : due'[p] # None =>
        /\ due'[p] = due[p]
        /\ ~ \E k \in DOMAIN report :
               report[k].failed /\ report[k].photo = p /\ report[k].crop = due[p]
  BY <1>1 DEF StillDue
<1>3. ASSUME NEW p \in Photos, accepted'[p] # None PROVE accepted'[p] = due'[p]
  <2>1. accepted'[p] = accepted[p] /\ p \notin Failed(report)
    BY <1>1, <1>3 DEF StillAccepted
  <2>2. ~ \E k \in DOMAIN report : report[k].failed /\ report[k].photo = p
    BY <2>1 DEF Failed
  <2>3. due'[p] = due[p]
    BY <1>1, <2>2 DEF StillDue
  <2>. QED  BY <1>3, <2>1, <2>3 DEF Tracked
<1>. QED  BY <1>2, <1>3

LEMMA EmptyDomain == \A s \in Seq(Write) : Len(s) = 0 \/ s = <<>> => DOMAIN s = {}
BY EmptySeq

LEMMA DeliverTracked ==
  ASSUME Types, Tracked, Deliver PROVE Tracked'
<1>1. CASE Stop("closed")
  BY <1>1, StopTracked
<1>2. CASE OnSaved(<<Head(posted)>>)
  <2>1. /\ posted \in Seq(Write) /\ posted # <<>> /\ posted' = Tail(posted)
        /\ UNCHANGED <<queue, writing, jpeg, sidecar>>
    BY DEF Deliver, files, Types, WriteTypes
  <2>2. PICK n \in Nat \ {0} :
          /\ DOMAIN posted = 1..n /\ DOMAIN posted' = 1..n - 1
          /\ \A k \in 1..n - 1 : posted'[k] = posted[k + 1]
          /\ Head(posted) = posted[1]
    <3>1. /\ Len(posted) \in Nat \ {0} /\ DOMAIN posted = 1..Len(posted)
          /\ DOMAIN posted' = 1..Len(posted) - 1
          /\ \A k \in 1..Len(posted) - 1 : posted'[k] = posted[k + 1]
          /\ Head(posted) = posted[1]
      BY <2>1, QueueTypes
    <3>. QED  BY <3>1
  <2>3. ASSUME NEW p \in Photos, due'[p] # None PROVE Traced(p)'
    <3>1. due'[p] = due[p] /\ Traced(p)
      BY <1>2, <2>3, SavedTracked DEF Tracked
    <3>2. ~(posted[1].failed /\ posted[1].photo = p /\ posted[1].crop = due[p])
      <4>1. \A k \in DOMAIN <<Head(posted)>> :
              ~(/\ <<Head(posted)>>[k].failed /\ <<Head(posted)>>[k].photo = p
                /\ <<Head(posted)>>[k].crop = due[p])
        BY <1>2, <2>3, SavedTracked
      <4>2. 1 \in DOMAIN <<Head(posted)>> /\ <<Head(posted)>>[1] = posted[1]
        BY <2>2
      <4>. QED  BY <4>1, <4>2
    <3>3. DueQueued(p) => DueQueued(p)'
      BY <2>1, <3>1 DEF DueQueued
    <3>4. DueBeingMade(p) => DueBeingMade(p)'
      BY <2>1, <3>1 DEF DueBeingMade, NotQueued
    <3>5. NotQueued(p) /\ NotInHandOf(p) => NotQueued(p)' /\ NotInHandOf(p)'
      BY <2>1 DEF NotQueued, NotInHandOf
    <3>6. Written(p, due[p]) => Written(p, due[p])'
      BY <2>1, <3>1 DEF Written
    <3>7. ASSUME DueReported(p) PROVE Traced(p)'
      <4>1. PICK k \in 1..n :
              /\ posted[k].photo = p /\ posted[k].crop = due[p]
              /\ \A j \in 1..n : j > k => posted[j].photo # p
              /\ ~posted[k].failed => Written(p, due[p])
        BY <2>2, <3>7 DEF DueReported
      <4>2. CASE k = 1
        <5>1. Written(p, due[p])'
          BY <3>2, <3>6, <4>1, <4>2
        <5>2. NotReported(p)'
          <6>1. ASSUME NEW j \in 1..n - 1 PROVE posted'[j].photo # p
            <7>1. j + 1 \in 1..n /\ j + 1 > k /\ posted'[j] = posted[j + 1]
              BY <2>2, <4>2
            <7>. QED  BY <4>1, <7>1
          <6>. QED  BY <2>2, <6>1 DEF NotReported
        <5>. QED  BY <3>5, <3>7, <5>1, <5>2 DEF DueReported, DueWritten, Traced
      <4>3. CASE k # 1
        <5>1. k - 1 \in 1..n - 1 /\ posted'[k - 1] = posted[k]
          BY <2>2, <4>3
        <5>2. ASSUME NEW j \in 1..n - 1, j > k - 1 PROVE posted'[j].photo # p
          <6>1. j + 1 \in 1..n /\ j + 1 > k /\ posted'[j] = posted[j + 1]
            BY <2>2, <5>2
          <6>. QED  BY <4>1, <6>1
        <5>3. DueReported(p)'
          BY <2>2, <3>1, <3>5, <3>6, <3>7, <4>1, <5>1, <5>2 DEF DueReported
        <5>. QED  BY <5>3 DEF Traced
      <4>. QED  BY <4>2, <4>3
    <3>8. DueWritten(p) => DueWritten(p)'
      <4>1. NotReported(p) => NotReported(p)'
        <5>. SUFFICES ASSUME NotReported(p), NEW j \in 1..n - 1 PROVE posted'[j].photo # p
          BY <2>2 DEF NotReported
        <5>1. j + 1 \in 1..n /\ posted'[j] = posted[j + 1]
          BY <2>2
        <5>. QED  BY <2>2, <5>1 DEF NotReported
      <4>. QED  BY <3>5, <3>6, <4>1 DEF DueWritten
    <3>. QED  BY <3>1, <3>3, <3>4, <3>7, <3>8 DEF Traced
  <2>. QED  BY <1>2, <2>3, SavedTracked DEF Tracked
<1>. QED  BY <1>1, <1>2 DEF Deliver

LEMMA EndCloseTracked ==
  ASSUME Types, Tracked, EndClose PROVE Tracked'
<1>1. CASE Stop("closed")
  BY <1>1, StopTracked
<1>2. CASE OnSaved(posted)
  <2>1. /\ queue' = <<>> /\ queue = <<>> /\ posted' = <<>> /\ writing = NoWrite
        /\ UNCHANGED <<writing, jpeg, sidecar>>
    BY DEF EndClose, files
  <2>2. DOMAIN queue = {} /\ DOMAIN queue' = {} /\ DOMAIN posted' = {}
    BY <2>1, EmptyDomain, EmptySeq
  <2>3. ASSUME NEW p \in Photos, due'[p] # None PROVE Traced(p)'
    <3>1. /\ due'[p] = due[p] /\ Traced(p)
          /\ ~ \E k \in DOMAIN posted :
                 posted[k].failed /\ posted[k].photo = p /\ posted[k].crop = due[p]
      BY <1>2, <2>3, SavedTracked DEF Tracked
    <3>2. Written(p, due[p])
      BY <2>1, <2>2, <3>1 DEF Traced, DueQueued, DueBeingMade, DueReported, DueWritten
    <3>3. Written(p, due[p])'
      BY <2>1, <3>1, <3>2 DEF Written
    <3>. QED  BY <2>1, <2>2, <3>3 DEF Traced, DueWritten, NotQueued, NotInHandOf, NotReported
  <2>. QED  BY <1>2, <2>3, SavedTracked DEF Tracked
<1>. QED  BY <1>1, <1>2 DEF EndClose

LEMMA TrackedStep ==
  ASSUME Types, Tracked, [Next]_vars PROVE Tracked'
<1>1. CASE Skip
  BY <1>1, StopTracked, TrackedUntouched DEF Skip
<1>2. CASE Arrive \/ Unreadable \/ Draw \/ Back \/ Close \/ \E redo \in BOOLEAN : Start(redo)
  BY <1>2, TrackedUntouched DEF Arrive, Unreadable, Draw, Back, Close, Start
<1>3. CASE Crash
  BY <1>3, StopTracked DEF Crash
<1>4. CASE UNCHANGED vars
  BY <1>4, TrackedUntouched DEF vars
<1>. QED  BY <1>1, <1>2, <1>3, <1>4, AcceptTracked, TakeTracked, WorkTracked, DeliverTracked,
             EndCloseTracked DEF Next, Person, Work, Reports

LEMMA TrackedHolds == Spec => []Tracked
<1>1. Init => Tracked
  BY DEF Init, Tracked, Nothing
<1>. QED  BY <1>1, TrackedStep, TypesHold, PTL DEF Spec

\* A crop shown on the way back exists on disk or its photo has a write that
\* has not been reported, however often the photo was accepted again meanwhile.
THEOREM RememberedIsAlwaysWritten == Spec => []RememberedIsWritten
<1>1. Tracked => RememberedIsWritten
  <2>. SUFFICES ASSUME Tracked, NEW p \in Photos, accepted[p] # None
                PROVE  Outstanding(p) \/ Written(p, accepted[p])
    BY DEF RememberedIsWritten
  <2>1. accepted[p] = due[p] /\ Traced(p)
    BY DEF Tracked
  <2>. QED  BY <2>1 DEF Traced, DueQueued, DueBeingMade, DueReported, DueWritten, Outstanding
<1>. QED  BY <1>1, TrackedHolds, PTL

(***************************************************************************)
(* The end of a run                                                        *)
(***************************************************************************)
LEMMA LastOne ==
  ASSUME NEW a \in Nat, NEW b \in Nat, NEW c \in {0, 1}, b # 0, a + c + b - 1 = 0
  PROVE  a = 0 /\ b = 1 /\ c = 0
OBVIOUS

\* Whatever else is out, the window closes when all that was due is on disk.
LEMMA ClosingStep ==
  ASSUME Types, Tracked, [Next]_vars, run # "closed", run' = "closed",
         NEW p \in Photos, due[p] # None
  PROVE  Written(p, due[p])
<1>. USE DEF Traced, DueQueued, DueBeingMade, DueReported, DueWritten
<1>1. Traced(p) /\ queue \in Seq(Write) /\ posted \in Seq(Write)
  BY DEF Tracked, Types, WriteTypes
<1>2. Len(queue) \in Nat /\ Len(posted) \in Nat /\ (posted # <<>> => Len(posted) # 0)
  BY <1>1, EmptySeq
<1>3. CASE Skip
  <2>1. Len(queue) = 0 /\ Len(posted) = 0 /\ writing = NoWrite
    BY <1>2, <1>3 DEF Skip, Open, Done, Pending
  <2>2. DOMAIN queue = {} /\ DOMAIN posted = {}
    BY <1>1, <2>1, EmptyDomain
  <2>. QED  BY <1>1, <2>1, <2>2
<1>4. CASE Deliver
  <2>1. posted # <<>> /\ ~Head(posted).failed /\ Pending - 1 = 0
    BY <1>4 DEF Deliver, Open, Done
  <2>2. Len(queue) = 0 /\ Len(posted) = 1 /\ writing = NoWrite
    <3>. DEFINE w == IF writing = NoWrite THEN 0 ELSE 1
    <3>1. w \in {0, 1} /\ (w = 0 => writing = NoWrite)
      OBVIOUS
    <3>2. Len(queue) + w + Len(posted) - 1 = 0
      BY <2>1 DEF Pending
    <3>3. Len(posted) # 0
      BY <1>2, <2>1
    <3>. HIDE DEF w
    <3>4. PICK a, b \in Nat : a = Len(queue) /\ b = Len(posted)
      BY <1>2
    <3>5. a = 0 /\ b = 1 /\ w = 0
      <4>1. w \in {0, 1} /\ b # 0 /\ a + w + b - 1 = 0
        BY <3>1, <3>2, <3>3, <3>4
      <4>. QED  BY <4>1, LastOne
    <3>. QED  BY <3>1, <3>4, <3>5
  <2>3. DOMAIN queue = {} /\ DOMAIN posted = {1} /\ posted[1] = Head(posted)
    BY <1>1, <2>1, <2>2, EmptyDomain, QueueTypes
  <2>. QED  BY <1>1, <2>1, <2>2, <2>3
<1>5. CASE EndClose
  <2>1. queue = <<>> /\ writing = NoWrite /\ Failed(posted) = {}
    BY <1>5 DEF EndClose, RefusesToClose
  <2>2. DOMAIN queue = {} /\ \A k \in DOMAIN posted : ~posted[k].failed
    BY <1>1, <2>1, EmptyDomain DEF Failed
  <2>. QED  BY <1>1, <2>1, <2>2
<1>. QED  BY <1>3, <1>4, <1>5
          DEF Next, Person, Work, Reports, Arrive, Unreadable, Draw, Back, Close, Start, AcceptCrop,
              TakeWrite, WriteJpegCrop, WriteCameraRawCrop, Crash, Stop, vars, Open

\* The window closes only once every crop accepted last exists, except for
\* those whose failure it has shown.
THEOREM AlwaysClosesInformed == Spec => ClosesInformed
<1>1. Types /\ Tracked /\ [Next]_vars =>
        [run # "closed" /\ run' = "closed" =>
           \A p \in Photos : due[p] # None => Written(p, due[p])]_vars
  BY ClosingStep
<1>. QED  BY <1>1, TypesHold, TrackedHolds, PTL DEF Spec, ClosesInformed
=============================================================================
