------------------------------ MODULE Previews ------------------------------
(***************************************************************************)
(* The photos on screen: canvases (ImageCanvas, each with a PreviewLoader) *)
(* that show members decoded by the image service, and the wall that       *)
(* decides which of its tiles may load (WallSurface).  One event of the    *)
(* program runs through several of them, so each of their functions is an  *)
(* operator on the whole display `w', and an action applies it.            *)
(***************************************************************************)
EXTENDS ImageService

CONSTANTS
  Canvases,
  Generations,       \* session revisions a photo is presented under
  Unreadable,        \* the versions of files that cannot be decoded
  PrefetchInFlight,  \* kPrefetchInFlight
  MaxEvents,         \* bound on what the user does
  MaxVersion         \* no file is replaced once one was so often

Targets == Sizes \ {"full"}

ASSUME PreviewAssumption ==
  /\ IsFiniteSet(Canvases)
  /\ Generations # {} /\ Targets # {}
  /\ PrefetchInFlight \in Nat \ {0}
  /\ MaxEvents \in Nat /\ MaxVersion \in Nat
  /\ \A size \in Sizes, ver \in 0..MaxVersion : Weight(size, ver) \in Nat

VARIABLES
  svc,     \* the image service
  canvas,  \* each canvas and its loader
  wall,    \* tileWidth_ > 0, the bands, and the pre-loader
  disk,    \* the version of each member's file
  events   \* what the user did so far

vars == <<svc, canvas, wall, disk, events>>

Screen == [svc |-> svc, canvas |-> canvas, wall |-> wall]
Becomes(w) == svc' = w.svc /\ canvas' = w.canvas /\ wall' = w.wall

NoSize == "none"

HasSource(l) == l.member # None

-----------------------------------------------------------------------------
(* PreviewLoader *)

With(w, c, l) == [w EXCEPT !.canvas[c] = l]

(* What connects to changed(): the pre-loader stops waiting for these tiles. *)
Changed(w, tiles) ==
  IF tiles = {} THEN w
  ELSE [w EXCEPT !.wall = [w.wall EXCEPT !.prefetching = @ \ tiles, !.pump = w.wall.fixed \/ @]]

(* The loader keeps no size; `asked' is that of its request.                 *)
RequestFitted(w, c) ==
  LET l == w.canvas[c]
      own == With(w, c, [l EXCEPT !.fitId = w.svc.next, !.asked = l.size])
  IN [own EXCEPT !.svc = Asked(@, l.member, l.size, l.gen)]

RequestFullResolution(w, c) ==
  LET l == w.canvas[c]
      own == With(w, c, [l EXCEPT !.fullId = w.svc.next])
  IN [own EXCEPT !.svc = Asked(@, l.member, "full", l.gen)]

(* The requests in flight are disowned by their identity, not forgotten.     *)
SetSource(w, c, member, gen) ==
  Changed(With(w, c, [w.canvas[c] EXCEPT !.member = member, !.gen = gen,
                                         !.fitted = None, !.full = None,
                                         !.ready = FALSE, !.error = FALSE]), {c})

Release(w, c) ==
  LET l == w.canvas[c]
  IN IF l.fitted = None /\ l.full = None /\ ~l.ready THEN w
     ELSE Changed(With(w, c, [l EXCEPT !.fitted = None, !.full = None, !.ready = FALSE,
                                       !.fitId = NoRequest, !.fullId = NoRequest]), {c})

\* Mutant: an answer is matched by its request alone.
MutOwns(l, res) == res.id \in {l.fitId, l.fullId}

Owns(l, res) == /\ res.gen = l.gen /\ res.member = l.member
                /\ res.id \in {l.fitId, l.fullId}

(* A refinement that fails leaves the loader as it is, and reports nothing.  *)
Reports(l, res) == Owns(l, res) /\ (res.id = l.fitId \/ res.image # None)

OnImageReady(l, res) ==
  CASE ~Reports(l, res) -> l
    [] Reports(l, res) /\ res.image = None -> [l EXCEPT !.error = TRUE, !.ready = FALSE]
    [] Reports(l, res) /\ res.image # None ->
         IF res.id = l.fitId THEN [l EXCEPT !.fitted = res.image, !.error = FALSE, !.ready = TRUE]
         ELSE [l EXCEPT !.full = res.image]

-----------------------------------------------------------------------------
(* ImageCanvas *)

RequestFittedPreview(w, c) ==
  LET l == w.canvas[c]
  IN IF l.deferred THEN w
     ELSE RequestFitted(With(w, c, [l EXCEPT !.timer = FALSE, !.wanted = l.size]), c)

SetPresentation(w, c, member, gen) ==
  LET reset == With(w, c, [w.canvas[c] EXCEPT !.inspecting = FALSE, !.wanted = NoSize, !.timer = FALSE])
      shown == SetSource(reset, c, member, gen)
  IN IF member # None THEN RequestFittedPreview(shown, c) ELSE shown

(* A resize in view and a tile that comes back into view wait alike.         *)
Refine(w, c) ==
  IF w.wall.fixed /\ w.canvas[c].fitted # None
    THEN With(w, c, [w.canvas[c] EXCEPT !.timer = TRUE])
    ELSE RequestFittedPreview(w, c)

SetLoadingDeferred(w, c, deferred) ==
  LET l == w.canvas[c]
      set == With(w, c, [l EXCEPT !.deferred = deferred])
  IN IF l.deferred = deferred \/ deferred \/ ~HasSource(l) \/ l.wanted = l.size THEN set
     ELSE Refine(set, c)

\* Mutant: the size that was asked for is remembered.
MutReleasePixels(w, c) ==
  LET l == w.canvas[c]
  IN IF l.inspecting \/ l.error THEN w ELSE Release(With(w, c, [l EXCEPT !.timer = FALSE]), c)

ReleasePixels(w, c) ==
  LET l == w.canvas[c]
  IN IF l.inspecting \/ l.error THEN w
     ELSE Release(With(w, c, [l EXCEPT !.timer = FALSE, !.wanted = NoSize]), c)

Resized(w, c, size) ==
  LET set == With(w, c, [w.canvas[c] EXCEPT !.size = size])
  IN IF w.canvas[c].size = size \/ ~HasSource(w.canvas[c]) THEN set ELSE Refine(set, c)

-----------------------------------------------------------------------------
(* WallSurface *)

Placed(w, c) ==
  CASE w.wall.fixed /\ w.wall.band[c] = "eager" ->
         SetLoadingDeferred([w EXCEPT !.wall.requested = @ \cup {c}], c, FALSE)
    [] w.wall.fixed /\ w.wall.band[c] = "near" -> SetLoadingDeferred(w, c, TRUE)
    [] w.wall.fixed /\ w.wall.band[c] = "far" -> ReleasePixels(SetLoadingDeferred(w, c, TRUE), c)
    [] ~w.wall.fixed -> SetLoadingDeferred(w, c, FALSE)

ShownTilesAreWaiting(w) ==
  \E c \in Canvases : LET l == w.canvas[c] IN
    /\ w.wall.band[c] = "eager" /\ ~l.deferred
    /\ HasSource(l) /\ ~l.error /\ ~l.ready

(* The nearest tile nothing was asked for yet, one round of them at most.    *)
Distance == [eager |-> 0, near |-> 1, far |-> 2]

Waiting(w) == {c \in Canvases : c \notin w.wall.requested /\ HasSource(w.canvas[c])}

PrefetchNext(w) ==
  IF Waiting(w) = {} \/ Cardinality(w.wall.prefetching) >= PrefetchInFlight THEN w
  ELSE LET c == CHOOSE c \in Waiting(w) :
                  \A o \in Waiting(w) : Distance[w.wall.band[c]] <= Distance[w.wall.band[o]]
       IN SetLoadingDeferred([w EXCEPT !.wall.requested = @ \cup {c},
                                       !.wall.prefetching = @ \cup {c}], c, FALSE)

(* The tiles are visited in their order, which is the order of what they ask *)
(* for.                                                                      *)
Visited(w, c, visit) ==
  CASE visit.to = "place"    -> Placed(w, c)
    [] visit.to = "resize"   -> Resized(w, c, visit.size)
    [] visit.to = "show"     -> SetPresentation(w, c, visit.photo[c], visit.gen)
    [] visit.to = "prefetch" -> PrefetchNext(w)

InTurn(w, order, visit) ==
  LET after[n \in 0..Len(order)] ==
        IF n = 0 THEN w ELSE Visited(after[n - 1], order[n], visit)
  IN after[Len(order)]

AllTiles(w, visit) == InTurn(w, SetToSeq(Canvases), visit)

UpdateLoadingWindow(w) ==
  LET placed == AllTiles(w, [to |-> "place"])
  IN IF w.wall.fixed THEN [placed EXCEPT !.wall.pump = TRUE] ELSE placed

Relayout(w, size) == UpdateLoadingWindow(AllTiles(w, [to |-> "resize", size |-> size]))

(* 80 percent of the budget is for the pre-loader.                           *)
BudgetSpent(w) == MemoryUsed(w.svc, disk) * 100 >= Budget * 80

PumpPrefetch(w) ==
  LET ran == [w EXCEPT !.wall.pump = FALSE]
  IN IF ~w.wall.fixed \/ ShownTilesAreWaiting(w) \/ BudgetSpent(w) THEN ran
     ELSE InTurn(ran, [n \in 1..PrefetchInFlight |-> n], [to |-> "prefetch"])

-----------------------------------------------------------------------------
(* Events *)

Event == events < MaxEvents /\ events' = events + 1

(* A flow shows another photo, or none, in a canvas.                         *)
Present(c) ==
  /\ Event
  /\ \E member \in Members \cup {None}, gen \in Generations :
       Becomes(SetPresentation(Screen, c, member, gen))
  /\ UNCHANGED disk

(* A viewport always shows some tile.                                        *)
Bands == {band \in [Canvases -> {"eager", "near", "far"}] : \E c \in Canvases : band[c] = "eager"}

(* A fitted wall shows them all.                                             *)
InFull == [c \in Canvases |-> "eager"]

Layouts(fixed) == IF fixed THEN Bands ELSE {InFull}

Scroll ==
  /\ Event /\ wall.fixed
  /\ \E band \in Bands \ {wall.band} :
       Becomes(UpdateLoadingWindow([Screen EXCEPT !.wall.band = band]))
  /\ UNCHANGED disk

(* The window is resized: every cell is laid out again.                      *)
Resize ==
  /\ Event
  /\ \E size \in Targets, band \in Layouts(wall.fixed) :
       Becomes(Relayout([Screen EXCEPT !.wall.band = band], size))
  /\ UNCHANGED disk

(* Between a fitted wall and a fixed one, or from one fixed width to another.*)
(* Every photo is worth pre-loading again; the holds stay as they are.       *)
SetTileWidth ==
  /\ Event
  /\ \E fixed \in BOOLEAN :
       /\ wall.fixed \/ fixed
       /\ \E size \in Targets, band \in Layouts(fixed) :
            Becomes(Relayout([Screen EXCEPT !.wall = [wall EXCEPT !.fixed = fixed, !.band = band,
                                                                  !.requested = {}, !.prefetching = {}]],
                             size))
  /\ UNCHANGED disk

SetInspecting(c) ==
  /\ Event
  /\ LET l == canvas[c]
         set == With(Screen, c, [l EXCEPT !.inspecting = ~@])
     IN Becomes(IF ~l.inspecting /\ l.full = None /\ HasSource(l)
                  THEN RequestFullResolution(set, c) ELSE set)
  /\ UNCHANGED disk

RetryFitted(c) ==
  /\ Event /\ canvas[c].error
  /\ LET cleared == With(Screen, c, [canvas[c] EXCEPT !.error = FALSE])
     IN Becomes(Changed(RequestFitted(cleared, c), {c}))
  /\ UNCHANGED disk

(* The window moves to an output of another scale.                           *)
Rescale(c) ==
  /\ Event /\ HasSource(canvas[c])
  /\ \E size \in Targets \ {canvas[c].size} :
       LET fit == RequestFittedPreview(With(Screen, c, [canvas[c] EXCEPT !.size = size]), c)
       IN Becomes(IF canvas[c].inspecting THEN RequestFullResolution(fit, c) ELSE fit)
  /\ UNCHANGED disk

RefinementTimer(c) ==
  /\ canvas[c].timer
  /\ LET ran == With(Screen, c, [canvas[c] EXCEPT !.timer = FALSE])
     IN Becomes(IF HasSource(canvas[c]) THEN RequestFittedPreview(ran, c) ELSE ran)
  /\ UNCHANGED <<disk, events>>

PumpTimer == /\ wall.pump
             /\ Becomes(PumpPrefetch(Screen))
             /\ UNCHANGED <<disk, events>>

Take == /\ CanTake(svc)
        /\ svc' = Taken(svc)
        /\ UNCHANGED <<canvas, wall, disk, events>>

Decode(req) == /\ svc' = IF <<req.member, disk[req.member]>> \in Unreadable THEN NotDecoded(svc, req)
                         ELSE Decoded(svc, req, disk[req.member])
               /\ UNCHANGED <<canvas, wall, disk, events>>

(* Every loader hears every answer.                                          *)
Deliver ==
  /\ svc.posted # <<>>
  /\ LET res == Head(svc.posted)
         heard == [svc |-> Delivered(svc),
                   canvas |-> [c \in Canvases |-> OnImageReady(canvas[c], res)], wall |-> wall]
     IN Becomes(Changed(heard, {c \in Canvases : Reports(canvas[c], res)}))
  /\ UNCHANGED <<disk, events>>

(* Another program replaces a photo's file.                                  *)
Replace(m) == /\ \A o \in Members : disk[o] < MaxVersion
              /\ disk' = [disk EXCEPT ![m] = @ + 1]
              /\ UNCHANGED <<svc, canvas, wall, events>>

-----------------------------------------------------------------------------
NewCanvas(fixed) ==
  [member |-> None, gen |-> 0, fitted |-> None, full |-> None,
   ready |-> FALSE, error |-> FALSE,
   fitId |-> NoRequest, fullId |-> NoRequest, asked |-> NoSize,
   size |-> CHOOSE s \in Targets : TRUE, wanted |-> NoSize,
   inspecting |-> FALSE, timer |-> FALSE, deferred |-> fixed]

(* A wall is shown, with a tile for each of some photos.                     *)
Opened(fixed, band, photo) ==
  LET w == [svc |-> NewService, canvas |-> [c \in Canvases |-> NewCanvas(fixed)],
            wall |-> [fixed |-> fixed, band |-> band,
                      requested |-> {}, prefetching |-> {}, pump |-> FALSE]]
      gen == CHOOSE g \in Generations : TRUE
  IN UpdateLoadingWindow(AllTiles(w, [to |-> "show", photo |-> photo, gen |-> gen]))

Init ==
  /\ \E fixed \in BOOLEAN, photo \in [Canvases -> Members] : \E band \in Layouts(fixed) :
       /\ IsInjective(photo)
       /\ LET w == Opened(fixed, band, photo)
          IN svc = w.svc /\ canvas = w.canvas /\ wall = w.wall
  /\ disk = [m \in Members |-> 0]
  /\ events = 0

User == \/ \E c \in Canvases : Present(c) \/ SetInspecting(c) \/ RetryFitted(c) \/ Rescale(c)
        \/ Scroll \/ Resize \/ SetTileWidth

Timers == PumpTimer \/ \E c \in Canvases : RefinementTimer(c)

Work == Take \/ \E req \in svc.decoding : Decode(req)

Next == User \/ Timers \/ Work \/ Deliver \/ \E m \in Members : Replace(m)

Spec == Init /\ [][Next]_vars

-----------------------------------------------------------------------------
(* Properties *)

(* What a canvas shows, fitted or at full size, is the photo it was last     *)
(* given, whatever requests for other photos are answered late; once its     *)
(* last fitted request is answered it shows the size that request asked for, *)
(* whatever earlier ones asked for; and a canvas that counts as ready has    *)
(* something to show.                                                        *)
Outstanding(id) == \/ \E k \in DOMAIN svc.queue : svc.queue[k].id = id
                   \/ \E req \in svc.decoding : req.id = id
                   \/ \E k \in DOMAIN svc.posted : svc.posted[k].id = id
PixelsAreOfTheSource ==
  \A c \in Canvases : LET l == canvas[c] IN
    /\ \A image \in {l.fitted, l.full} \ {None} : image.member = l.member
    /\ l.ready => l.fitted # None
    /\ l.ready /\ ~Outstanding(l.fitId) => l.fitted.size = l.asked

(* The cached images fit the budget and are all accounted for, whatever was  *)
(* decoded twice or changed its size on disk between two decodes.            *)
CacheKeepsItsBudget == Cached(svc) <= Budget /\ Cached(svc) <= svc.bytes

(* When the program has come to rest every photo that is to be seen is shown *)
(* or reported unreadable: no order of scrolling, resizes, pre-loading and   *)
(* late answers leaves one that nothing is on its way for.                   *)
Idle == /\ svc.queue = <<>> /\ svc.decoding = {} /\ svc.posted = <<>>
        /\ ~wall.pump /\ \A c \in Canvases : ~canvas[c].timer
Seen(c) == HasSource(canvas[c]) /\ (wall.fixed => wall.band[c] = "eager")
NothingSeenIsForgotten ==
  Idle => \A c \in Canvases : Seen(c) => canvas[c].ready \/ canvas[c].error
=============================================================================
