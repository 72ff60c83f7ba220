-------------------------------- MODULE Crop --------------------------------
(***************************************************************************)
(* cullfinch-crop: a run shows the photos of a directory one after another *)
(* (planCrops, CropWindow), a person draws a crop of each or passes it on  *)
(* (CropCanvas), and a worker thread writes what was accepted beside the   *)
(* photos (CropWriter, Sidecar).  Crops are model values; their geometry,  *)
(* the aspects and the metadata that travels along are left out, so the    *)
(* largest crop of the current aspect is any crop.                         *)
(***************************************************************************)
EXTENDS Enumeration

CONSTANTS
  Photos,      \* numbers, in the order they are shown in
  Raws,        \* the photos that have RAW files, and so a sidecar
  Drawn,       \* the crops that leave something out
  Whole, None,
  MaxPending   \* bound on the writes that have not been reported

ASSUME CropAssumption ==
  /\ Photos \subseteq Nat /\ IsFiniteSet(Photos) /\ Raws \subseteq Photos
  /\ Whole \notin Drawn /\ None \notin Drawn
  /\ MaxPending \in Nat \ {0}

Damaged == "damaged"   \* a sidecar that cannot be read

VARIABLES
  run,       \* "open", "closing" while closeEvent() waits, "closed" or "crashed"
  plan,      \* the photos of this run
  index, ended,          \* index_ and reachedEnd_
  screen,    \* the canvas: whether it awaits its first preview, whether it is
             \* ready, and pendingCrop_ until that preview, crop_ from then on
  accepted,  \* the crop accepted of each photo
  failures,  \* whether failures_ holds anything
  queue, writing, posted,  \* the writes: waiting, being made, to be reported
  jpeg,      \* the crop in the .crop file of each photo
  sidecar,   \* the crop in its sidecar
  due        \* history: the crop last accepted, until its failure was shown

window == <<plan, index, ended, screen>>
writes == <<queue, writing, posted>>
files == <<jpeg, sidecar>>
vars == <<run, window, accepted, failures, writes, files, due>>

Nothing == [p \in Photos |-> None]
NoWrite == [job |-> None, step |-> "none"]
Blank == [awaiting |-> TRUE, ready |-> FALSE, crop |-> None]

Open == run = "open"
Pending == Len(queue) + (IF writing = NoWrite THEN 0 ELSE 1) + Len(posted)

-----------------------------------------------------------------------------
(* CropSequence *)

IsAlreadyCropped(p) == jpeg[p] # None \/ (p \in Raws /\ sidecar[p] \in Drawn)

PlanCrops(redo) == Ascending({p \in Photos : redo \/ ~IsAlreadyCropped(p)})

(* A run with nothing to show says so and ends.                              *)
Start(redo) ==
  /\ run \in {"closed", "crashed"}
  /\ PlanCrops(redo) # <<>>
  /\ run' = "open"
  /\ plan' = PlanCrops(redo)
  /\ index' = 1
  /\ screen' = Blank
  /\ UNCHANGED <<ended, accepted, failures, writes, files, due>>

(* The window and all it remembers are gone.                                 *)
Stop(how) ==
  /\ run' = how
  /\ plan' = <<>> /\ index' = 0 /\ ended' = FALSE /\ screen' = Blank
  /\ accepted' = Nothing /\ failures' = FALSE /\ due' = Nothing

-----------------------------------------------------------------------------
(* CropCanvas *)

ShowPhoto(i) == /\ index' = i
                /\ screen' = [Blank EXCEPT !.crop = accepted[plan[i]]]

(* The preview arrives; a later one, of another size, leaves the crop alone. *)
Arrive ==
  /\ Open /\ ~screen.ready
  /\ \E crop \in IF ~screen.awaiting \/ screen.crop # None THEN {screen.crop}
                 ELSE Drawn \cup {Whole} :
       screen' = [awaiting |-> FALSE, ready |-> TRUE, crop |-> crop]
  /\ UNCHANGED <<run, plan, index, ended, accepted, failures, writes, files, due>>

(* The window was resized and decoding at the new size fails.                *)
Unreadable ==
  /\ Open /\ screen.ready
  /\ screen' = [screen EXCEPT !.ready = FALSE]
  /\ UNCHANGED <<run, plan, index, ended, accepted, failures, writes, files, due>>

(* A drag, a number key, R or Escape.                                        *)
Draw ==
  /\ Open /\ ~screen.awaiting
  /\ \E crop \in (Drawn \cup {Whole}) \ {screen.crop} : screen' = [screen EXCEPT !.crop = crop]
  /\ UNCHANGED <<run, plan, index, ended, accepted, failures, writes, files, due>>

-----------------------------------------------------------------------------
(* CropWindow: one photo after another *)

(* finishIfDone(), with the failures and writes there are left.              *)
Done(failed, pending) == ~failed /\ pending = 0

Forward ==
  IF index < Len(plan)
  THEN ShowPhoto(index + 1) /\ UNCHANGED ended
  ELSE ended' = TRUE /\ UNCHANGED <<index, screen>>

(* Space, or Enter on a crop that leaves nothing out.                        *)
Skip ==
  /\ Open /\ ~ended
  /\ IF index = Len(plan) /\ Done(failures, Pending)
     THEN Stop("closed")
     ELSE Forward /\ UNCHANGED <<run, plan, accepted, failures, due>>
  /\ UNCHANGED <<writes, files>>

(* Enter.                                                                    *)
AcceptCrop ==
  /\ Open /\ ~ended
  /\ screen.ready /\ screen.crop # Whole
  /\ Pending < MaxPending
  /\ accepted' = [accepted EXCEPT ![plan[index]] = screen.crop]
  /\ due' = [due EXCEPT ![plan[index]] = screen.crop]
  /\ queue' = Append(queue, [photo |-> plan[index], crop |-> screen.crop, failed |-> FALSE])
  /\ Forward
  /\ UNCHANGED <<run, plan, failures, writing, posted, files>>

Back ==
  /\ Open /\ (ended \/ index > 1)
  /\ ended' = FALSE
  /\ ShowPhoto(IF ended THEN index ELSE index - 1)
  /\ UNCHANGED <<run, plan, accepted, failures, writes, files, due>>

-----------------------------------------------------------------------------
(* The worker thread *)

\* Mutant: the write that was asked for last is made first.
MutNextWrite == <<queue[Len(queue)], SubSeq(queue, 1, Len(queue) - 1)>>

(* One at a time, and in order.                                              *)
NextWrite == <<Head(queue), Tail(queue)>>

TakeWrite ==
  /\ queue # <<>> /\ writing = NoWrite
  /\ writing' = [job |-> NextWrite[1], step |-> "jpeg"]
  /\ queue' = NextWrite[2]
  /\ UNCHANGED <<run, window, accepted, failures, posted, files, due>>

Report(job) == writing' = NoWrite /\ posted' = Append(posted, job)

(* A temporary file is renamed over an earlier crop, or it is removed.  The  *)
(* sidecar is written either way.                                            *)
WriteJpegCrop ==
  /\ writing.step = "jpeg"
  /\ \E failed \in BOOLEAN :
       LET job == [writing.job EXCEPT !.failed = failed] IN
       /\ jpeg' = IF failed THEN jpeg ELSE [jpeg EXCEPT ![job.photo] = job.crop]
       /\ IF job.photo \in Raws
          THEN writing' = [job |-> job, step |-> "sidecar"] /\ UNCHANGED posted
          ELSE Report(job)
  /\ UNCHANGED <<run, window, accepted, failures, queue, sidecar, due>>

(* One that cannot be read is reported, and not overwritten.  The library    *)
(* writes it in place.                                                       *)
WriteCameraRawCrop ==
  /\ writing.step = "sidecar"
  /\ LET job == writing.job IN
     \/ /\ sidecar[job.photo] # Damaged
        /\ sidecar' = [sidecar EXCEPT ![job.photo] = job.crop]
        /\ Report(job)
     \/ /\ \E left \in {sidecar[job.photo], Damaged} :
             sidecar' = [sidecar EXCEPT ![job.photo] = left]
        /\ Report([job EXCEPT !.failed = TRUE])
  /\ UNCHANGED <<run, window, accepted, failures, queue, jpeg, due>>

-----------------------------------------------------------------------------
(* CropWindow: reports, and the end *)

Failed(report) == {report[k].photo : k \in {j \in DOMAIN report : report[j].failed}}

(* What failed is not remembered.                                            *)
StillAccepted(report) == [p \in Photos |-> IF p \in Failed(report) THEN None ELSE accepted[p]]

StillDue(report) ==
  [p \in Photos |-> IF \E k \in DOMAIN report : report[k].failed /\ report[k].photo = p
                                                /\ report[k].crop = due[p]
                    THEN None ELSE due[p]]

OnSaved(report) ==
  /\ failures' = (failures \/ Failed(report) # {})
  /\ accepted' = StillAccepted(report)
  /\ due' = StillDue(report)

\* Mutant: the last report does not end the sequence.
MutDeliver ==
  /\ Open /\ posted # <<>>
  /\ posted' = Tail(posted)
  /\ OnSaved(<<Head(posted)>>)
  /\ UNCHANGED <<run, window, queue, writing, files>>

(* A queued report; the last one after the end closes the window.            *)
Deliver ==
  /\ Open /\ posted # <<>>
  /\ posted' = Tail(posted)
  /\ IF ended /\ Done(failures \/ Head(posted).failed, Pending - 1)
     THEN Stop("closed")
     ELSE OnSaved(<<Head(posted)>>) /\ UNCHANGED <<run, window>>
  /\ UNCHANGED <<queue, writing, files>>

(* Q, or the window's button: the thread waits for the writes.               *)
Close ==
  /\ Open
  /\ run' = "closing"
  /\ UNCHANGED <<window, accepted, failures, writes, files, due>>

\* Mutant: what fails while the window is closing does not keep it open.
MutRefusesToClose == FALSE

(* A write failed while the window was closing.                              *)
RefusesToClose == Failed(posted) # {}

(* All the reports are in.                                                   *)
EndClose ==
  /\ run = "closing" /\ queue = <<>> /\ writing = NoWrite
  /\ posted' = <<>>
  /\ IF RefusesToClose
     THEN run' = "open" /\ OnSaved(posted) /\ UNCHANGED window
     ELSE Stop("closed")
  /\ UNCHANGED <<queue, writing, files>>

(* The process or the machine stops; a sidecar being written may be lost.    *)
Crash ==
  /\ run \in {"open", "closing"}
  /\ Stop("crashed")
  /\ queue' = <<>> /\ writing' = NoWrite /\ posted' = <<>>
  /\ sidecar' \in {sidecar} \cup
       {[sidecar EXCEPT ![p] = Damaged] :
          p \in IF writing.step = "sidecar" THEN {writing.job.photo} ELSE {}}
  /\ UNCHANGED jpeg

-----------------------------------------------------------------------------
Init ==
  /\ run = "closed"
  /\ plan = <<>> /\ index = 0 /\ ended = FALSE /\ screen = Blank
  /\ accepted = Nothing /\ failures = FALSE /\ due = Nothing
  /\ queue = <<>> /\ writing = NoWrite /\ posted = <<>>
  /\ jpeg = Nothing /\ sidecar = Nothing

Person == Skip \/ AcceptCrop \/ Back \/ Draw \/ Close \/ \E redo \in BOOLEAN : Start(redo)
Work == TakeWrite \/ WriteJpegCrop \/ WriteCameraRawCrop
Reports == Deliver \/ EndClose

Next == Person \/ Arrive \/ Unreadable \/ Work \/ Reports \/ Crash

Spec == Init /\ [][Next]_vars

(* The pool runs what is queued, the event loop delivers what is posted, and *)
(* closeEvent() returns once there is nothing to wait for.                   *)
FairSpec == Spec /\ WF_vars(Work) /\ WF_vars(Deliver) /\ WF_vars(EndClose)

-----------------------------------------------------------------------------
(* Properties *)

Outstanding(p) == \/ \E k \in DOMAIN queue : queue[k].photo = p
                  \/ writing # NoWrite /\ writing.job.photo = p
                  \/ \E k \in DOMAIN posted : posted[k].photo = p

Written(p, crop) == jpeg[p] = crop /\ (p \in Raws => sidecar[p] = crop)

(* A crop that is shown on the way back exists on disk, in the JPEG and the  *)
(* sidecar alike, or a write of its photo has not been reported yet: however *)
(* often one photo was accepted again while earlier writes of it were out,   *)
(* and whichever of them failed.                                             *)
RememberedIsWritten ==
  \A p \in Photos : accepted[p] # None => Outstanding(p) \/ Written(p, accepted[p])

(* The window does not close on a crop that was accepted last and does not   *)
(* exist, unless its failure was shown while the window stayed open.         *)
ClosesInformed ==
  [][run # "closed" /\ run' = "closed" =>
       \A p \in Photos : due[p] # None => Written(p, due[p])]_vars

(* A window that is closing, or is past its last photo, closes by itself     *)
(* unless a write fails or somebody goes back: waiting for a write never     *)
(* becomes waiting for ever.                                                 *)
SequenceEnds ==
  run = "closing" \/ (Open /\ ended)
    ~> run \in {"closed", "crashed"} \/ (Open /\ (failures \/ ~ended))
=============================================================================
