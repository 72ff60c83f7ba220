# A TLA+ model of cullfinch

cullfinch is a photo culler: it scans a directory into *photos* (one RAW, one JPEG and
sidecars that belong together), compares them in *sessions* driven by a comparison *flow*
(versus or wall), turns the outcome into undoable *deletion marks*, and, in a separate and
reviewed step, moves the marked photos to Trash. This directory models its logic in TLA+,
checks it with TLC on small instances, and proves parts of it with TLAPS for every instance.
Source paths below are relative to `src/src/`.

## Inventory

| Component | State | Operations | Hard behaviour | What makes it correct |
|---|---|---|---|---|
| Deletion: `OperationController`, `StagingExecutor`, `TrashAdapter`, table `operations` | journal row per operation (state, step per file, Trash path), staging directories, Trash | execute, recover (restore), retryTrash, confirmTrashed | renames, journal writes and Trash fail independently; crash between any two; other programs touch files; several operations on one photo | a photo goes to Trash whole, nothing is overwritten, the journal never claims what has not happened, recovery finds everything |
| Recovery dialog, `Services.cpp` | none | list operations, decide which buttons to enable | must follow from the record alone | what needs a person is listed and has an offer |
| Sessions: `SessionController` | active session, flow state, history, revision, autosave timer, table `sessions` | start, resume, dispatch, undo, pause, finish, discard, autosave | autosave debounced; failed writes; crash; stale commands | what is resumed is a state the session was in; finish applies marks and ends the session together |
| Marks: `DispositionController`, undo stack, table `dispositions` | dispositions in memory and stored, undo history | mark, unmark, commit rejections, undo, redo | one of memory and storage fails, or what was stored cannot be read back; history outlives the collection | no mark that was not decided; no command but undo and redo changes marks under a comparison |
| Flows: `VersusFlow`, `WallFlow` | the draft's payload: a bracket of slots and decisions; the wall's cells, rejections and layout mode | initialise, reduce (eliminate, change the layout, compact), summarise, restore | long command sequences, byes, placeholders of older builds, undo by state copy | every candidate is either remaining or rejected, what is written can be read, the bracket never stalls |
| Collections: `CollectionController`, `DirectoryScanner`, `AppLock` | open root, generation, scan in flight, lock, read-only flag | open, refresh, close, scan result | results of superseded scans, two instances, failed open | only the open root is reconciled, one writer per collection |
| Repository: `SqliteRepository` | tables, transaction depth | reconcile, apply, save, load | nested transaction scopes, failed commit | all or nothing |
| Domain: `AssociationPolicy`, `OperationPlanner`, `SelectionSnapshot` | none | group files into photos, plan | ambiguous groups, aliases, folded collisions, files that appear, vanish or change | every file in one photo; a photo is moved whole, as it was marked and reviewed |
| Images: `QtImageService`, `PreviewLoader`, `ImageCanvas`, `WallSurface` | cache with a budget, requests in flight, what each canvas shows, the wall's loading window and pre-loader | request, decode, deliver, evict, defer, release, scroll, resize | worker threads, late results, several conditions that each suppress a request | budget kept, a late result is not shown, what is to be seen is loaded |
| Cropper: `CropWindow`, `CropWriter`, `CropSequence` | photos of the run, current index, accepted crops, writes out | accept, skip, back, write, report, close | writes on a worker, failed or interrupted half-way; a photo cropped again while an earlier write is out | the window does not close on a crop that does not exist; what is remembered is on disk |
| Shell, views, viewer | widgets | wiring, painting, closing | order of controller calls | - |

**Interactions.** `CompositionRoot` wires everything on the UI thread. `BrowserWindow` opens
collections, starts sessions, reviews plans and shows the recovery dialog. A finished session
hands its rejections to `DispositionController`, which writes them through the repository; a
plan is made from the photos marked *reject*, reviewed, verified against the disk by
`preflight()` and executed. During execution the executor calls back into the controller for
every journal write (`JournalWriter`), and the controller writes once more after every group.
Scanner and image workers run on threads of their own and report through queued signals.

## Modules

| Module | Stands for |
|---|---|
| `Disposal` | what deletion promises: where the reviewed copy of each file is, and which photos are claimed to be in Trash |
| `Staging` | deletion and recovery as the code does them |
| `Culling` | what comparisons promise about the stored collection |
| `Session` | comparison sessions, marks and undo, and the order the browser calls them in |
| `VersusFlow`, `WallFlow` | the two flows, as operators on their drafts |
| `Comparison` | a flow behind the controller's dispatch and undo stack, with the view and its gestures; uses both flows (`INSTANCE`) |
| `CollectionAccess` | instances of the program over shared directories: opening, locks, scans |
| `Library` | from files to photos, marks, plans and their verification |
| `ImageService`, `Previews` | decoding and the cache; the canvases, loaders and the wall's loading window above them |
| `Crop` | the cropper: a run, its writes, the next run |
| `Enumeration` | numbers in their order and parts of a sequence: loops that pass over some elements of a list |
| `MC...` | an instance of each for TLC |
| `Staging_proofs` | deletion and recovery, proved; `Staging` implements `Disposal` |
| `Session_proofs` | sessions and marks, proved; `Session` implements `Culling` |
| `CollectionAccess_proofs`, `Library_proofs` | collections and the library, proved |
| `Comparison_proofs`, `Crop_proofs`, `Enumeration_proofs` | the two flows and their views, the cropper, and the lists they use, proved |
| `Previews_proofs` | the image service, the canvases and the wall, proved |

### Staging

State: `source`, `staging[o]`, `folder[o]` and `trash` are the disk, `journal[o]` is the row of
operation `o`. A file is *reviewed* (its size and modification time are the planned ones),
*foreign* (anything else) or absent. `record` is the `OperationRecord` in memory and `pc`, `op`,
`group`, `member`, `todo`, `left`, `missing`, `problem` say where the code stands: `todo` is what
is left of the loop over groups, `left` of the loop over files. The code walks both in list
order; the model in any order, which includes it. `touched` and `overwritten` are history.

One action per step that another program, a failure or a crash can separate from the next:

* `executeGroup()`: `OpenGroup`, `RecordStagingIntent`, then for each file `CheckStagingPath`
  and `StageMember` (the two halves of `renameOnly()`) and `ConfirmMove` (its journal write),
  `VerifyStaged`, `JournalStaged`, `JournalTrashing`, `AskTrash`, `JournalTrashed`; a failed
  rename goes through `AbortStaging` to `CheckPutBack`, `PutBackMember`, `AbortDone`.
  `PersistGroup` and `Complete` are the controller's.
* recovery: `Restore`, `SurveyGroup`, `ExamineMember`, `RestoreMember`, `CloseGroup`,
  `FinishRecovery`; `RetryTrash`, `RetryGroup`, `RetryDone`; `ConfirmTrashed`; and `Settle`,
  which writes the result. An action of a person is enabled when the dialog enables its button.
* Every rename, directory, manifest, journal write and request to Trash may fail.
  `Crash` forgets everything but the disk and the journal. `DisturbSource`, `DisturbStaging`
  and `RemoveFolder` are other programs; they act on the files in `Touchable`, and between
  a check and its rename only if `RaceWindow` says so.

Assumed of the world: a rename, a move to Trash and a committed SQLite write are atomic and
durable; nobody empties the Trash; a person confirms only what is in Trash
(guard of `ConfirmTrashed`); a fingerprint identifies a file. Left out: error texts, timestamps,
the contents of the manifest (it says which group a directory holds, and `trashPath = g` stands
for "the manifest of `g` is readable there"), symlinks and device numbers (a rename across
devices is one that fails).

`Disposal` has `place`, where the reviewed copy of a file is, and `claimed`, the photos some
journal row has in Trash. The mapping in `Staging` (`PlaceOf`, `Claimed`) makes each step of the
code a `Stage`, `Return`, `Dispose`, `Claim` or `Taken`, or a stutter.

### Session

State: `disk` is the database as a crash leaves it, `db` as the open connection sees it; they
differ only inside the transaction of `finish()`. `shown` is `CollectionController::assets_`
reduced to marks and groups, `known` the copy of `revision_` that decides conflicts, the disposition
controller's (the collection controller's own lags after a failed re-read, and is compared with nothing).
`markingEnabled`, `blocked`, `history`, `at`, `dropping` are `DispositionController` and its
undo stack; `sid`, `snapshot`, `draft`, `decisions`, `cursor`, `unsaved`, `savePending`, `timer`
are `SessionController` and its undo stack; `armed` is a pointer pressed in the wall view. `pc`
says where the thread stands: `closed`, in the prompt of `offerResume()`, `idle` in the event
loop, or at one of the three writes inside `finish()`'s transaction.

Everything runs on the UI thread, so an action is a whole handler, cut only where a crash between
two durable effects matters: `Finish` (the write of the draft and the begin of the transaction),
`FinishMarks`, `FinishRecord`, `FinishCommit`. Each write succeeds or, if `Faults` names its kind,
fails: `draft`, `delete`, `marks`, `scan`, and `commit` (begin or commit of a transaction). `read` is
`loadAssets()` failing: after a change of marks the old view is then kept (`Reread`), an opening starts from
an empty one.
Scans arrive while the collection is open (`Scan`), a person resumes, declines or discards
(`Resume`, `Decline`, `DiscardOffered`), decides (`Decide`, `Press`, `Release`), undoes,
pauses, discards, finishes, unmarks, and quits; `Crash` is possible everywhere.

A photo is its *membership revision* (`group`, 0 if absent) and its mark; a draft is its revision
and the set of photos it rejects. The flows are abstracted to `Returned`, of which `Dispatch` takes any result
that `validateTransition()` accepts, and finishing is always allowed, as in both flows that ship. `Returned`
bounds revisions by `MaxRevision`, `MaxStored` bounds the revision of the collection. Any
resumable record may be the one offered, because the code orders records by a wall
clock of whole seconds. `Sessions` may be reused once a record is gone, which only adds
behaviours. Opening read-only is modelled, what the other instance writes meanwhile is not;
`scanBatch` is left out because nothing emits it.

`Culling` has the photos present and marked, and per comparison a stage and the stored draft's
rejections. The mapping takes everything from `disk`, so a crash changes nothing in the abstract
state except that a comparison being applied is open again (`GiveUp`).

### VersusFlow, WallFlow, Comparison

`Session` takes any result a flow may return that `validateTransition()` accepts; `Comparison` shows
that the two flows return no other. A versus payload is `size`, `slots` and `decisions`
(`NextPowerOfTwo`, `SeedOrder`, `Outcomes`, `FindPending` are the functions of `VersusFlow.cpp`;
`Outcomes` is a recursive function on the nodes of the tree). A wall payload is `mode`, `cells` and
`rejected`; a cell holds a candidate or the placeholder of one. `Readable` is all that `parse()`
checks. `state`, `decisions` and `cursor` are the controller's flow state and undo stack, `stored`
the draft of a paused comparison, `panes` the two canvases of the versus view with what is ready on
them, `pressed` the canvas whose gesture is armed, `armed` the tile and revision the wall view
remembers. `OlderBuild` turns a stored draft into one of an earlier build, which the code still reads.

The loops of the flows that keep some elements of a list are `Picked` of `Enumeration`, and the doublings
of the bracket's size and of a node's depth are counted (`NextPowerOfTwo`, `Depth`): the prover has no
induction over sequences, but it has finite sets. `Vacated` and `Rejecting` of `WallFlow` are the
two halves of an elimination.

### CollectionAccess

Each instance has a `root`, a lock it `held`, a generation and scan tasks; `stored` is the shared
database. `OpenWritable`, `OpenReadOnly` and `OpenFails` are the three ways out of
`CollectionController::open()`. `Enumerate` is a worker finishing, `Drop`, `ScanFailed` and
`Reconcile` the event loop delivering what it posted. `OpenFaults` names the openings whose record can
be neither made nor found. A lock file whose process is gone counts as free.

### Library

A photo is named by its stem and is the set of its files with their identities and versions, its
pairing, whether it is blocked, its mark and its membership revision (the hash, abstracted to the
set it is of). `Resolve` is the association of one scan, `MergeWithStored` the reconciliation,
`Compare` a photo entering a comparison (only there is it judged),
`Reject` the mark that finishing or redoing that comparison sets, by name, on whatever the photo has become,
`Unmark` the browser's command or an undo,
`Planned` the planner, `Verified` the preflight, `Execute` a run that succeeds or is refused (how it
may fail on the way is `Staging`'s subject). `meant` is history: the stored files of a photo at the
moment it was marked. After a mark the view is what is stored or, when that cannot be read, the old one. Other programs create,
link, modify and delete the files of `Touchable`, `MaxChanges` times. `Library` allows more than the
program: `compared` never shrinks, so a comparison that was paused, discarded or cleared from the history may
still mark, and that resuming compares memberships (`Matches` in `Session`) is left out.

### ImageService, Previews

`ImageService` has a record `svc` (requests queued, decoding and posted; the cache and its order;
`bytes`, the charge `cacheBytes_`) and an operator per function. `Previews` has the canvases with
their loaders and the wall; one event of the program runs through many of them, so each function is
an operator on the whole display and an action applies it. A loop over the tiles, or a round of the
pre-loader, is `InTurn`: what is done at each, in order, because that is the order of the requests. Sizes are
`small`, `large` and `full`; where a tile lies is its band: `eager`, `near` or `far`. What lays the
cells out again (`Resize`, `SetTileWidth`) may move every tile to another band, and so does scrolling a wall of
fixed width; `SetTileWidth` also goes from one fixed width to another, as the viewer's slider does. `wanted` is
`requestedPixels_`, and `asked` is history: the size of the last fitted request, which the code leaves with
the request. A wall opens with a photo in every tile. Cancellation is left out, as nothing calls it.

### Crop

`plan`, `index`, `ended`, `screen`, `accepted`, `failures` are the window, `queue`, `writing`,
`posted` its writes, `jpeg` and `sidecar` the files. `TakeWrite`, `WriteJpegCrop` and
`WriteCameraRawCrop` are the worker; a sidecar is written in place by the metadata library, so a failed or
interrupted write may leave it unreadable (`Damaged`). `Close` and `EndClose` are the two ends of the
wait inside `closeEvent()`. Any crop may be the largest of the current aspect. `NoWrite` is the worker
without a write; the plan of a run is `Picked` of the photos in their order.

## Runs

All runs are exhaustive. Runs that set `CHECK_DEADLOCK FALSE` are of systems that may stop: an
operation that has completed, a bound that is used up.

| Run | Instance | Shows |
|---|---|---|
| `staging_faults` | 1 operation, a photo of two files and one of one, `m1`, `m3` touchable | the safety invariants and `TrashedIsFinal` through failures, crashes, interference outside the window between a check and its rename, and any number of recoveries; every run ends |
| `staging_two_ops` | 2 operations on one photo of two files, `m1` touchable, the race window open | refinement of `Disposal` while a second plan overlaps with a first one in recovery; what is newly recorded as uncertain is in Trash or staged by the other operation |
| `session_marks` | 2 photos, 2 comparisons, late gestures, every fault but a scan's | type, what memory, database and undo history promise each other, the transaction of `finish()`, what may change marks during a comparison, the undo stack of decisions, refinement of `Culling` |
| `session_scans` | 2 photos, 1 comparison, groups up to 2, scans, drafts, marks and re-reading that may fail | refinement while files change; every decision is written in the end, or a write has failed |
| `comparison` | brackets of 1 to 5 photos, walls of 1 to 3, revisions up to 5 | the flows keep their contract, drafts stay readable, brackets end, the panes show the match, a tile pressed is the tile gone |
| `access` | 2 instances, 2 directories, 3 scans, a change, a first opening that fails | one writer, a writer's inventory, every scan ends |
| `previews` | 2 canvases, 2 photos (one unreadable until replaced), 1 worker, room for 2 images, 2 events | pixels are of the source, the budget, nothing seen is forgotten |
| `library` | 5 files, 3 stems (two differ by case), a RAW and a disabled sidecar, 2 changes to `A.jpg`, `A.raf` or `a.jpg` | operable photos share no file, an operation moves what was meant |
| `crops` | 2 photos, one with RAW files, 2 crops, 2 writes out | what is remembered is written, the window closes informed, the sequence ends |
| `comparison_late_click`, `access_two_writers`, `access_reader_stores` | the least that shows it | statements of documents and comments that the code does not keep (see Findings) |

*Bounds.* Two files are the least for a photo that can be split, two photos for a plan that is
partly done and for a Trash path left over from another group; two operations for an overlap.
`Ops` bounds the number of plans, not of crashes, failures or recoveries, which are unlimited.
The number of interferences is unlimited too: they only go through the three contents of a file.

In `Session` two photos are the least for a draft that rejects some but not all; two comparisons
for one that is resumed after another changed its photos' marks; draft revision 2 for a decision
that is undone and replaced, 3 for a stack with something to undo and to redo; stored revision 4
for finish, undo, redo and one more change. `session_scans` has one comparison; files that
change twice come back as new ones. Photos and sessions are symmetric.

In `Comparison` five photos are the least with byes on both sides of the bracket and a match that waits
for another; three cells and `MaxRevision` 5 let a wall be decided, compacted and undone to a
revision number that comes again. In `CollectionAccess` two directories and two scans of one instance
make a scan superseded by one of another directory; one change gives two inventories to confuse. In
`Previews` two canvases compete for one worker and for two places in the cache; an initial display and
two events are enough for a tile that is released, deferred and seen again. `Generations` are two
because a view may show the same photo under a later revision. In `Library` the
stems `A` and `a` collide, `A` has one file of each role, and two changes allow a file to vanish and
come back, or to be replaced on both sides of a mark or between the start of a comparison and its mark; the files other programs
touch are those of the two stems that collide. In `Crop` two writes out are a photo
accepted again while its first write is not reported; runs, crashes and failures are unlimited.

*Fairness.* In `Session`, `FairSpec` asks weak fairness of `Autosave`: the event loop delivers a
single-shot timer that is running. A write that fails is retried only by the next decision, so
`Autosaved` promises a write or a failure that is shown. In `Staging`, `FairSpec` asks weak fairness of
`Run`, the steps of code that is already running synchronously on the UI thread. In
`CollectionAccess` and `Crop` it asks weak fairness of the workers, because a thread pool runs what it
is given, and of the delivery of what they posted, because the event loop runs. Nothing is asked of
people, crashes or other programs. `NothingSeenIsForgotten` needs no fairness: it is said of
the states in which no request, decode, answer or timer is left.

## Proofs

Proved by TLAPS for any sets of operations, photos and files and any `Touchable`
(assumption `ConstantsAssumption`):

* `TypeCorrect`: `Spec => []TypeOK`. `TypeOK` is strengthened with `Control`: which loop
  variables are in use at each `pc` (without it `staging[op][member]` need not be in a domain).
* `NothingIsOverwritten`, whose property has the condition `~RaceWindow`: with the window open `renameOnly()` does
  replace a file, so this is as much as holds (see Findings). The invariant `Clear` says that the
  destination found free is still free when the rename comes.
* `TrashTakesPhotosWhole` and `JournalIsTruthful`, for either value of `RaceWindow`: the invariant
  `TrashInv` says that a directory found complete has since lost only what other programs took
  (`Guarded`), that Trash holds an undisturbed file only as it was reviewed (`TrashContent`), and
  that the record in memory and every row tell the truth about the steps and the Trash path
  (`Truthful`). Without `Guarded` a request to Trash could split a photo, without the clause on
  `trashPath` a recovery could claim a group on the manifest of another.
* `JournalNeverGoesBack`, `CompletedIsAlwaysComplete`: `RecordInv` relates the row and the record in
  memory: each is sound by itself, completed only with all of its photos in Trash (`Booked`), the record
  continues the row (`Ahead`), of the groups still in `todo` nothing is in Trash (`Due`), and those that are not
  in it are (`Done`).
* `JournalTrailsByOne`, `StagedIsListed`, `NothingIsLost`: every row accounts for what its operation has in staging, but for
  one rename at most, and is listed while there is something (`Listing`, made of `Row`); `Where` says for each
  `pc` what the loop has put there and what it will still put back.
* `StagingImplementsDisposal`: `Spec => D!Spec`. It needs `CopyInv`, that there is one reviewed copy of an
  undisturbed file (`OneCopy`) and that a destination found free stays free for it (`Free`). Each action is
  shown to be a step of `Disposal` or a stutter; the lemmas before it say which. `PhotosAreNeverSplit`
  and `ClaimsAreAlwaysTrue` are the promises of `Disposal`, proved there and carried over by the
  refinement.
* `UncertainIsAlwaysOutOfReach`, for any overlapping operations: `DoubtInv` says that an undisturbed file a
  recovery found missing is `Away`: in Trash, or in the staging of another operation. The second case does happen
  (see Findings). It is a property of the step that records the doubt; later another recovery may put the file back.

For any photos, sessions, faults and bounds (`SessionAssumption`), in `Session`:

* `TypeCorrect`: `TypeOK` is inductive as it stands.
* `UnmarkAlwaysWaits`: `Control` says what `pc` implies about `sid` and `markingEnabled`
  (without it nothing keeps a failed `finish()` from coming back with marking enabled). What changes marks
  while a comparison goes on is then undoing or redoing, or a scan.
* `RevisionIsAlwaysKnown`, `PendingIsAlwaysOneFinish`: `Store` says that `known` is the revision
  on disk also during the transaction, so rolling back needs no correction of it, and that a
  transaction without marks leaves the revision alone.
* `ShownAsSavedIsStored`: `Saved` adds that a running comparison was never finished and that one
  being applied has nothing unsaved; the refinement needs both.
* `SessionKeepsPromise`: `Spec => KeepsPromise`. With `Consistent` (only known photos are marked, a
  record that is gone rejects nothing) every step of the code is a `Keep`, `Apply`, `GiveUp`,
  `Drop`, `Reconsider` or `Look` of `Culling`, or changes nothing there. The lemmas from
  `Nothing` to `Applied` say what each kind of write means for `Culling`; the lemmas after them
  say which step does which write.
* `NothingOutlivesASession`: `Ended` adds that the autosave is already stopped while a comparison is applied.
* `DraftStaysOnItsStack`: `Chained` says that each decision of the undo stack starts where the one before
  it ends, with growing revisions.
* `BlockedNeverHasHistory`: `Barred` adds that a blocked screen finishes a comparison only if it rejects
  nothing: no marks, hence no history, can come of it.
* `MarksWereAlwaysDecided`: `Grounded` says the same of the view, which may be an older one, and of both
  directions of every entry of the undo history, from which marks are made again; a finished record stays as it
  is (`FinishedStay`). No fault or scan is excluded.

For any instances, directories and bounds (`AccessAssumption`), in `CollectionAccess`:

* `OneWriterHolds`, for `"later" \notin OpenFaults`: `LockInv` says that a writer holds the lock of its
  collection, so two writers would hold one lock. The assumption is needed (finding 2).
* `WriterAlwaysKeepsInventory`, for any faults: `ScanInv` says that what is stored
  and what a task has read is a directory as it was (`StoredIsPast`, `TasksArePast`), that at most one task is
  of the current generation (`OneIsCurrent`), and that a writer's is of its open directory and has read
  nothing older than what the writer lists (`WritersWait`).

For any files, stems, roles, symbolic links and changes (`LibraryAssumption`), in `Library`:

* `OperableAreAlwaysApart`: `AssociationInv` says of the scan, the database and the view alike that
  photos have only files of their stem, and that operable ones were apart on disk when they were seen
  (`Known`, made of `Apart` and `Sound`); merging with older rows must preserve it.
* `OperationMovesWhatWasMeant`: `MeantInv` adds that a marked photo has the membership it had when it
  was marked, in the database and in the view, and that a scan on its way has no marks.

For any photos, crops and any number of writes out (`CropAssumption`), in `Crop`:

* `RememberedIsAlwaysWritten`, `AlwaysClosesInformed`: `Types` (which includes that the plan is an ascending
  enumeration of photos) and `Tracked`: the crop accepted last for a photo is queued, being made,
  posted, written or its failure is known (`Traced`), whichever of its writes is reported first.

For any photos, canvases, sizes, weights, budget, workers and number of events (`ServiceAssumption`,
`PreviewAssumption`), in `Previews`, with one inductive invariant, `Inv`:

* `CacheAlwaysKeepsItsBudget`: `InBudget` adds that every cached key is in the order of eviction, so that room
  can always be made; without it nothing says that evicting the whole order empties the cache. Bytes are counted
  (`Total`), so what is evicted and what is left weigh together what there was (`TotalSplits`).
* `PixelsAreAlwaysOfTheSource`: `Truthful` says of the service that one request number belongs to one photo and that
  cached and posted images are of the photo and the size they are kept for. `Sound` relates a loader to what the
  service has not answered yet: answers to its last fitted request are of the size that asked for (`Sized`), and
  while it is ready that request is one for its present photo (`Current`). The numbers a
  loader keeps from an earlier photo (`setSource()` does not clear them) are why this cannot be said always.
* `NothingSeenIsEverForgotten`: `Provided` says that a canvas with something to show, or a photo it may load or has asked
  for, is ready, has failed or is still to be answered (`Served`); `InView` that no tile to be seen is held back. The
  first has to cover held-back tiles that remember the size they asked for, and those that still show an older size,
  because lifting the hold then asks for nothing at once.
* Each function of the service is a step that forgets no request and answers it with what it asked for (`Serves`), and each
  function of a canvas a `TileStep`; both compose, so a loop over any number of tiles keeps
  the display good (`TurnsKeepGood`), whose turns are shown to exist first (`TurnsAreMade`).

For selections of any length (`ComparisonAssumption`), in `Comparison`:

* `DraftIsAlwaysReadable`, `PressedTileIsGone`: `Kept` says that every state in play, on the undo stack and in
  the draft, is a bracket or a wall that `parse()` accepts, that the decisions of the stack are
  chained, and that a decision on a wall takes out one candidate or none (`Link`). Because of the
  last, a tile that is a candidate again after undo and redo is the photo it was pressed on. The walls of
  `Kept` also account for every photo of the input (`WholeWalls`), and its brackets were played fairly
  (`Played`); the next three theorems rest on that.
* `ContractIsKept`, `BracketAlwaysGoesOn`, `RoundsAreAlwaysInOrder`: first the seeding, that the doublings permute the
  seeds and the first of each pair is never a bye (`SeedOrderPermutes`, `SlotsAreSeeded`); then the bracket as a
  tree whose outcomes satisfy the equations of `Plays`, without recursion. A photo stands on one
  path of it only (`Lineage`) and therefore falls in one match at most (`FallsOnce`); a deepest undecided node has a
  match to decide (`SomethingWaits`), and a tournament that is over has eliminated all but one (`OneIsLeft`). What the
  program has to add is that only matches two photos came to are decided, against one of the two (`Fair`), the
  deeper ones first: a decision changes nothing but what was open above its match
  (`DecisionStays`), so what becomes ready is no deeper than what was just decided.
* `PanesAlwaysShowTheMatch`: `Showing` says that the panes are those of the match of the applied state.

Every safety property that a passing run checks is proved. Only model-checked is liveness (`EveryRunEnds`, `Autosaved`,
`ScansEnd`, `SequenceEnds`), which is out of the prover's reach. `OneWriterHolds` has the hypothesis named above, and
`NothingOverwritten` states its condition itself; without them they are false.

## Findings

Statements of documents and comments that a run refutes:

1. `comparison_late_click`: a click that is held while another input decides the match eliminates a photo
   of the next match, against `docs/design.md:176` and `VersusView.cpp:215`.
2. `access_two_writers`: an opening that fails has released the lock of the collection that stays open and
   writable, so a second instance may write to it too, against `README.md:231`.
3. `access_reader_stores`: a scan that is out when another collection is opened read-only is reconciled into that
   collection, against `CollectionController.cpp:77` and `CollectionController.h:21`.

Also seen while modelling, and left without a run:

* Deletion: after a crash between a rename and its journal write a file lies in staging and the
  dialog enables none of its buttons (`README.md:35`); a crash before the first rename leaves an
  operation that needs attention and has nothing to offer (`Services.h:99`); recovering an operation whose
  photo a second one has staged marks it *uncertain* although it is in the other staging directory, where it
  can be found and from where the other recovery may put it back ("with nothing on disk able to say where it went",
  `Services.h:51-54`; `UncertainIsOutOfReach` says what does hold);
  `vanishedGroupReachedTrash()` looks for the manifest at the Trash path that the lost
  journal write would have recorded; `renameOnly()` replaces a file that appears between its
  check and the rename (`StagingExecutor.cpp:72-78`; `NothingOverwritten` therefore has the condition `~RaceWindow`).
* Sessions: after undo and another decision a late gesture carries a revision number that is current
  again and is accepted (`SessionController.h:50`); `finish()` does not notice that files changed
  during the comparison (`docs/design.md:130`); a discard that fails leaves the last decision without
  an autosave (`docs/design.md:314`).
* Marks: undoing a finished comparison also clears marks that were there before it, because
  `beginRejections()` puts every id in the inverse (`DispositionController.cpp:166-171`); undo and redo
  change marks while a comparison runs, because `applyFromHistory()` does not look at `markingEnabled_`
  ("changing collection marks is disabled while its view is active", `docs/design.md:268`, and
  `DispositionController.h:84-85`; `tst_session_controller.cpp:487` relies on it); marks that were stored but
  cannot be read again leave the old view (`CollectionController.cpp:217-220`), so a photo that was unmarked is
  still shown as marked and is planned for deletion; a failed write of marks
  clears the undo history (`docs/design.md:272`); after a scan that could not be stored marked photos look
  neutral and enter a comparison (`SelectionSnapshot.cpp:20`), and a mark made on that view is stored on
  the older stored membership, which is why `meant` is the stored one.
* Library: a mark survives the replacement of a file's content at the same path, because the
  membership revision hashes paths only (the review shows it, and preflight compares it); the scanner
  skips hidden files, `appearedSiblingBlocker()` does not.
* Repository: `reconcileAssets()` and the saving of operations do not roll back when COMMIT is refused, unlike
  `endTransactionScope()` and against its comment at `SqliteRepository.cpp:445`. The models assume
  that a write that is refused leaves nothing behind.
* Images: two decodes of one key are charged twice, so the pre-loader may stop early; a cache hit
  reports the scaled size as the native one; `AssetListModel` keys thumbnails by member
  alone although its comment adds the fingerprint; a loader keeps the identities of requests for its earlier source,
  safe only because member and generation are compared too; a retry asks for the present size without
  noting it in `requestedPixels_`, "the size the current photo was last asked for" (`ImageCanvas.h:142`), so a tile
  that is held back, resized, retried and resized back keeps a preview of the size in between when it is seen again;
  `cancel()` is never called and `priority`
  never read.
* Cropper: a photo with either of its two outputs counts as cropped, so a run does not pick up one whose
  other output failed or was interrupted (`README.md:29`); the failure of an earlier write of a photo
  forgets a later crop of it that is written (`CropWindow.cpp:199`).

## Plan

Done: deletion and recovery, sessions and marks, flows and views, collections, the library, images
and previews, the cropper. Left, most important first:

1. A refused COMMIT that leaves its transaction open, in `Session`: the connection and the disk then
   differ outside `finish()` too.
2. Canvases that come and go while a wall is shown: the tiles of `Previews` are fixed, and a photo that leaves is a
   canvas that shows none.

The suite is kept to a dozen runs, so that it stays quick.

## Not modelled

* The wall viewer: it lists a directory once and shows it; its loading is `Previews`.
* Geometry of crops, walls and zooming: real arithmetic, where rounding is all that can go wrong.
* Widgets, painting, thumbnails of the browser's list, texts, command lines, packaging.
* The migrations of the database, which run once in one transaction before anything else, and the count of
  nested transaction scopes: a failed inner scope always fails the outer one here.
* The flow registry beyond the choice of one of the two flows, natural order, identifiers and the JSON of
  drafts beyond what `parse()` tells apart.
* A revision that cannot be read while the photos can: `collectionRevision()` returns 0, and every mark is refused as a
  conflict until the collection is opened again.
* Vendored code.
