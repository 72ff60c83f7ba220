---------------------------- MODULE ImageService ----------------------------
(***************************************************************************)
(* QtImageService: requests for decoded images, a pool of decode workers   *)
(* and a cache with a byte budget.  The service is a record `svc' and each *)
(* of its operations an operator from one such record to the next, because *)
(* one step of the program makes several requests.  Pixels are the member  *)
(* they show and the version of its file they were read from.  The         *)
(* fingerprints in the requests of a selection are frozen with it, so a    *)
(* member stands for its fingerprint too.                                  *)
(***************************************************************************)
EXTENDS Enumeration, FiniteSetsExt, SequencesExt

CONSTANTS
  Members, None,
  Sizes,         \* target sizes, and "full" for the native size
  Weight(_, _),  \* the bytes of an image of a size, decoded from a version
  Budget,        \* budgetBytes_
  Workers        \* decode threads

ASSUME ServiceAssumption ==
  /\ None \notin Members
  /\ "full" \in Sizes /\ "none" \notin Sizes
  /\ Budget \in Nat \ {0} /\ Workers \in Nat \ {0}

NoRequest == 0

Request(id, member, size, gen) == [id |-> id, member |-> member, size |-> size, gen |-> gen]

Key(req) == <<req.member, req.size>>

Pixels(member, ver, size) == [member |-> member, ver |-> ver, size |-> size]
Bytes(image) == Weight(image.size, image.ver)

(* A result carries the identity of its request; without pixels it is an error. *)
Result(req, image) == [id |-> req.id, member |-> req.member, gen |-> req.gen, image |-> image]

NewService ==
  [next |-> 1, queue |-> <<>>, decoding |-> {}, posted |-> <<>>,
   cache |-> [k \in {} |-> None], order |-> <<>>, bytes |-> 0]

(* What some things weigh together: the bytes of each, counted one by one.   *)
Total(weight) == Cardinality(UNION {{x} \X (1..weight[x]) : x \in DOMAIN weight})

BytesOf(cache) == Total([k \in DOMAIN cache |-> Bytes(cache[k])])

Cached(s) == BytesOf(s.cache)

(* What decoding a task may take counts from the header to the pixels.       *)
InFlight(s, disk) == Total([r \in s.decoding |-> Weight("full", disk[r.member])])

MemoryUsed(s, disk) == s.bytes + InFlight(s, disk)

-----------------------------------------------------------------------------
(* A cached image is still delivered through the event loop.                 *)
Asked(s, member, size, gen) ==
  LET req == Request(s.next, member, size, gen)
      key == Key(req)
      others == {k \in DOMAIN s.order : s.order[k] # key}
  IN IF key \in DOMAIN s.cache
       THEN [s EXCEPT !.next = @ + 1, !.order = Append(Picked(@, others), key),
                      !.posted = Append(@, Result(req, s.cache[key]))]
       ELSE [s EXCEPT !.next = @ + 1, !.queue = Append(@, req)]

(* The oldest n entries go.  A key that is twice in the order is in the      *)
(* cache once, and leaves it with its first entry.                           *)
Evicted(s, n) ==
  LET gone == {s.order[k] : k \in 1..n} \cap DOMAIN s.cache
  IN [s EXCEPT !.cache = Restrict(@, DOMAIN @ \ gone),
               !.order = SubSeq(@, n + 1, Len(@)),
               !.bytes = Max({0, @ - BytesOf(Restrict(s.cache, gone))})]

\* Mutant: room is made once, for what is cached already.
MutMakeRoom(s, bytes) == IF s.bytes > Budget THEN Evicted(s, 1) ELSE s

MakeRoom(s, bytes) ==
  LET enough(n) == Evicted(s, n).bytes + bytes <= Budget \/ n = Len(s.order)
  IN Evicted(s, Min({n \in 0..Len(s.order) : enough(n)}))

(* A second decode of one key is charged, and put in the order, again.       *)
CacheImage(s, key, image) ==
  IF Bytes(image) > Budget THEN s
  ELSE LET room == MakeRoom(s, Bytes(image))
       IN [room EXCEPT !.cache = [k \in DOMAIN @ \cup {key} |-> IF k = key THEN image ELSE @[k]],
                       !.order = Append(@, key),
                       !.bytes = @ + Bytes(image)]

(* A worker takes the next task.                                             *)
Taken(s) == [s EXCEPT !.queue = Tail(@), !.decoding = @ \cup {Head(s.queue)}]
CanTake(s) == s.queue # <<>> /\ Cardinality(s.decoding) < Workers

(* It has read the file as it is now, or could not.                          *)
Decoded(s, req, ver) ==
  LET image == Pixels(req.member, ver, req.size)
      stored == CacheImage(s, Key(req), image)
  IN [stored EXCEPT !.decoding = @ \ {req}, !.posted = Append(@, Result(req, image))]

NotDecoded(s, req) ==
  [s EXCEPT !.decoding = @ \ {req}, !.posted = Append(@, Result(req, None))]

Delivered(s) == [s EXCEPT !.posted = Tail(@)]
=============================================================================
