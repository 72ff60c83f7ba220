-------------------------- MODULE Previews_proofs --------------------------
(***************************************************************************)
(* Proofs about Previews for any photos, canvases, image sizes, budget,    *)
(* number of workers and number of events.  The service answers every      *)
(* request once with what it asked for (Serves); a loader is Sound against *)
(* what the service has not answered yet; a function of one canvas makes a *)
(* TileStep, which leaves the other canvases as they are and what is on    *)
(* its way to them on its way; and a photo that may load is Provided.      *)
(***************************************************************************)
EXTENDS Previews, Enumeration_proofs, SequenceTheorems

-----------------------------------------------------------------------------
(* Totals *)

(* Each thing as many times as it weighs.                                   *)
Spread(weight) == UNION {{x} \X (1..weight[x]) : x \in DOMAIN weight}

LEMMA SpreadIsFinite ==
  ASSUME NEW S, IsFiniteSet(S), NEW weight \in [S -> Nat]
  PROVE  IsFiniteSet(Spread(weight))
<1>. DEFINE part(x) == {x} \X (1..weight[x])
            parts == [x \in S |-> part(x)]
            all == {part(x) : x \in S}
<1>1. \A x \in S : IsFiniteSet(part(x))
  <2>. SUFFICES ASSUME NEW x \in S PROVE IsFiniteSet({x} \X (1..weight[x]))
    OBVIOUS
  <2>1. IsFiniteSet({x})
    BY FS_Singleton
  <2>2. weight[x] \in Int /\ 1 \in Int
    OBVIOUS
  <2>3. IsFiniteSet(1..weight[x])
    BY <2>2, FS_Interval
  <2>. QED  BY <2>1, <2>3, FS_Product
<1>2. IsFiniteSet(all)
  <2>1. parts \in Surjection(S, all)
    BY DEF Surjection
  <2>. QED  BY <2>1, FS_Surjection
<1>3. \A T \in all : IsFiniteSet(T)
  BY <1>1
<1>4. Spread(weight) = UNION all
  BY DEF Spread
<1>. HIDE DEF all
<1>. QED  BY <1>2, <1>3, <1>4, FS_UNION

LEMMA TotalIsNat ==
  ASSUME NEW S, IsFiniteSet(S), NEW weight \in [S -> Nat]
  PROVE  Total(weight) \in Nat
<1>1. Total(weight) = Cardinality(Spread(weight))
  BY DEF Total, Spread
<1>. QED  BY <1>1, SpreadIsFinite, FS_CardinalityType

(* What is taken out and what is left weigh together what there was.         *)
LEMMA TotalSplits ==
  ASSUME NEW S, IsFiniteSet(S), NEW weight \in [S -> Nat], NEW T \in SUBSET S
  PROVE  Total(weight) = Total(Restrict(weight, T)) + Total(Restrict(weight, S \ T))
<1>. DEFINE in == Restrict(weight, T)
            out == Restrict(weight, S \ T)
<1>1. IsFiniteSet(T) /\ IsFiniteSet(S \ T)
  BY FS_Subset
<1>2. in \in [T -> Nat] /\ out \in [S \ T -> Nat]
  BY DEF Restrict
<1>3. Spread(weight) = Spread(in) \cup Spread(out)
  BY DEF Spread, Restrict
<1>4. Spread(in) \cap Spread(out) = {}
  BY DEF Spread, Restrict
<1>5. /\ Total(weight) = Cardinality(Spread(weight))
      /\ Total(in) = Cardinality(Spread(in)) /\ Total(out) = Cardinality(Spread(out))
  BY DEF Total, Spread
<1>. HIDE DEF in, out
<1>6. IsFiniteSet(Spread(in)) /\ IsFiniteSet(Spread(out))
  BY <1>1, <1>2, SpreadIsFinite
<1>7. Cardinality(Spread(in)) \in Nat /\ Cardinality(Spread(out)) \in Nat
  BY <1>6, FS_CardinalityType
<1>8. Cardinality(Spread(weight)) = Cardinality(Spread(in)) + Cardinality(Spread(out)) - Cardinality({})
  BY <1>3, <1>4, <1>6, FS_Union
<1>9. Total(weight) = Total(in) + Total(out)
  BY <1>5, <1>7, <1>8, FS_EmptySet
<1>. QED  BY <1>9 DEF in, out

LEMMA TotalOfOne ==
  ASSUME NEW x, NEW n \in Nat
  PROVE  Total([y \in {x} |-> n]) = n
<1>. DEFINE weight == [y \in {x} |-> n]
            f == [k \in 1..n |-> <<x, k>>]
<1>1. Spread(weight) = {x} \X (1..n)
  BY DEF Spread
<1>2. IsFiniteSet(1..n) /\ Cardinality(1..n) = n
  BY FS_Interval
<1>3. IsFiniteSet({x}) /\ Cardinality({x}) = 1
  BY FS_Singleton
<1>4. Cardinality({x} \X (1..n)) = 1 * n
  BY <1>2, <1>3, FS_Product
<1>5. Total(weight) = Cardinality(Spread(weight))
  BY DEF Total, Spread
<1>. QED  BY <1>1, <1>4, <1>5

LEMMA TotalOfNone == ASSUME NEW weight, DOMAIN weight = {} PROVE Total(weight) = 0
<1>1. Spread(weight) = {}
  BY DEF Spread
<1>2. Total(weight) = Cardinality(Spread(weight))
  BY DEF Total, Spread
<1>. QED  BY <1>1, <1>2, FS_EmptySet

-----------------------------------------------------------------------------
(* The cache *)

Versions == 0..MaxVersion
Images == [member : Members, ver : Versions, size : Sizes]

LEMMA BytesOfImage == \A image \in Images : Bytes(image) \in Nat
  BY PreviewAssumption DEF Bytes, Images, Versions

LEMMA BytesAreNat ==
  ASSUME NEW D, IsFiniteSet(D), NEW cache \in [D -> Images]
  PROVE  BytesOf(cache) \in Nat
<1>. DEFINE weight == [k \in D |-> Bytes(cache[k])]
<1>1. weight \in [D -> Nat]
  BY BytesOfImage
<1>2. BytesOf(cache) = Total(weight)
  BY DEF BytesOf
<1>. HIDE DEF weight
<1>. QED  BY <1>1, <1>2, TotalIsNat

LEMMA BytesSplit ==
  ASSUME NEW D, IsFiniteSet(D), NEW cache \in [D -> Images], NEW T \in SUBSET D
  PROVE  BytesOf(cache) = BytesOf(Restrict(cache, T)) + BytesOf(Restrict(cache, D \ T))
<1>. DEFINE weight == [k \in D |-> Bytes(cache[k])]
<1>1. weight \in [D -> Nat]
  BY BytesOfImage
<1>2. BytesOf(cache) = Total(weight)
  BY DEF BytesOf
<1>3. \A U \in SUBSET D : BytesOf(Restrict(cache, U)) = Total(Restrict(weight, U))
  <2>. SUFFICES ASSUME NEW U \in SUBSET D
                PROVE  [k \in DOMAIN Restrict(cache, U) |-> Bytes(Restrict(cache, U)[k])] = Restrict(weight, U)
    BY DEF BytesOf
  <2>. QED  BY DEF Restrict
<1>. HIDE DEF weight
<1>4. Total(weight) = Total(Restrict(weight, T)) + Total(Restrict(weight, D \ T))
  BY <1>1, TotalSplits
<1>. QED  BY <1>2, <1>3, <1>4

LEMMA BytesAdded ==
  ASSUME NEW D, IsFiniteSet(D), NEW cache \in [D -> Images], NEW key, NEW image \in Images
  PROVE  BytesOf([k \in D \cup {key} |-> IF k = key THEN image ELSE cache[k]])
           <= BytesOf(cache) + Bytes(image)
<1>. DEFINE new == [k \in D \cup {key} |-> IF k = key THEN image ELSE cache[k]]
            others == D \ {key}
<1>1. IsFiniteSet(D \cup {key})
  BY FS_AddElement
<1>2. new \in [D \cup {key} -> Images]
  OBVIOUS
<1>3. BytesOf(Restrict(new, {key})) = Bytes(image)
  <2>1. [k \in DOMAIN Restrict(new, {key}) |-> Bytes(Restrict(new, {key})[k])]
          = [k \in {key} |-> Bytes(image)]
    BY DEF Restrict
  <2>. QED  BY <2>1, BytesOfImage, TotalOfOne DEF BytesOf
<1>4. (D \cup {key}) \ {key} = others
  OBVIOUS
<1>5. Restrict(new, others) = Restrict(cache, others)
  BY DEF Restrict
<1>6. {key} \in SUBSET (D \cup {key})
  OBVIOUS
<1>7. /\ IsFiniteSet(others) /\ Restrict(cache, others) \in [others -> Images]
      /\ IsFiniteSet(D \ others) /\ Restrict(cache, D \ others) \in [D \ others -> Images]
      /\ others \in SUBSET D
  BY FS_Subset DEF Restrict
<1>8. BytesOf(new) = Bytes(image) + BytesOf(Restrict(cache, others))
  <2>. HIDE DEF new, others
  <2>1. BytesOf(new) = BytesOf(Restrict(new, {key})) + BytesOf(Restrict(new, (D \cup {key}) \ {key}))
    BY <1>1, <1>2, <1>6, BytesSplit
  <2>. QED  BY <2>1, <1>3, <1>4, <1>5
<1>9. BytesOf(cache) = BytesOf(Restrict(cache, others)) + BytesOf(Restrict(cache, D \ others))
  <2>. HIDE DEF others
  <2>. QED  BY <1>7, BytesSplit
<1>10. BytesOf(Restrict(cache, others)) \in Nat /\ BytesOf(Restrict(cache, D \ others)) \in Nat
  <2>. HIDE DEF others
  <2>. QED  BY <1>7, BytesAreNat
<1>. HIDE DEF new, others
<1>11. BytesOf(new) <= BytesOf(cache) + Bytes(image)
  BY <1>8, <1>9, <1>10, BytesOfImage
<1>. QED  BY <1>11 DEF new

-----------------------------------------------------------------------------
(* The service: its types, and what is true of its cache *)

Elements(seq) == {seq[k] : k \in DOMAIN seq}

Gens == Generations \cup {0}
Keys == Members \X Sizes
Requests == [id : Nat \ {0}, member : Members, size : Sizes, gen : Gens]
Results == [id : Nat \ {0}, member : Members, gen : Gens, image : Images \cup {None}]
Caches == UNION {[D -> Images] : D \in SUBSET Keys}
Services == [next : Nat \ {0}, queue : Seq(Requests), decoding : SUBSET Requests,
             posted : Seq(Results), cache : Caches, order : Seq(Keys), bytes : Nat]

InBudget(s) == /\ IsFiniteSet(DOMAIN s.cache) /\ DOMAIN s.cache \subseteq Elements(s.order)
               /\ Cached(s) <= Budget /\ Cached(s) <= s.bytes

LEMMA ElementsOfAppend ==
  ASSUME NEW S, NEW seq \in Seq(S), NEW e \in S
  PROVE  Append(seq, e) \in Seq(S) /\ Elements(Append(seq, e)) = Elements(seq) \cup {e}
<1>. DEFINE new == Append(seq, e)
<1>1. /\ new \in Seq(S) /\ DOMAIN seq = 1..Len(seq) /\ DOMAIN new = 1..Len(seq) + 1
      /\ Len(seq) \in Nat /\ new[Len(seq) + 1] = e /\ \A k \in 1..Len(seq) : new[k] = seq[k]
  OBVIOUS
<1>. HIDE DEF new
<1>2. Elements(new) = Elements(seq) \cup {e}
  BY <1>1 DEF Elements
<1>. QED  BY <1>1, <1>2 DEF new

LEMMA CacheType ==
  ASSUME NEW s \in Services
  PROVE  s.cache \in [DOMAIN s.cache -> Images] /\ DOMAIN s.cache \in SUBSET Keys
<1>1. s.cache \in Caches
  BY DEF Services
<1>. QED  BY <1>1 DEF Caches

LEMMA LargerOfZero == ASSUME NEW x \in Int PROVE Max({0, x}) \in Nat /\ Max({0, x}) >= x
<1>1. \E m \in {0, x} : \A y \in {0, x} : m >= y
  OBVIOUS
<1>. QED  BY <1>1 DEF Max

(* Eviction touches the cache alone, and what it frees is no more than what  *)
(* it takes off the account.                                                 *)
SameRequests(s, t) == /\ t.next = s.next /\ t.queue = s.queue
                      /\ t.decoding = s.decoding /\ t.posted = s.posted
FewerCached(s, t) == /\ DOMAIN t.cache \subseteq DOMAIN s.cache
                     /\ \A k \in DOMAIN t.cache : t.cache[k] = s.cache[k]

(* However many entries go, what is cached is still in the order and paid   *)
(* for.                                                                     *)
LEMMA EvictedKeepsBudget ==
  ASSUME NEW s \in Services, InBudget(s), NEW n \in 0..Len(s.order)
  PROVE  /\ Evicted(s, n) \in Services /\ InBudget(Evicted(s, n))
         /\ SameRequests(s, Evicted(s, n)) /\ FewerCached(s, Evicted(s, n))
         /\ n = Len(s.order) => DOMAIN Evicted(s, n).cache = {}
<1>. DEFINE D == DOMAIN s.cache
            gone == {s.order[k] : k \in 1..n} \cap D
            kept == Restrict(s.cache, D \ gone)
            rest == SubSeq(s.order, n + 1, Len(s.order))
            freed == BytesOf(Restrict(s.cache, gone))
            left == Max({0, s.bytes - freed})
            e == Evicted(s, n)
<1>1. /\ e = [s EXCEPT !.cache = kept, !.order = rest, !.bytes = left]
  BY DEF Evicted
<1>2. /\ s.cache \in [D -> Images] /\ D \in SUBSET Keys /\ IsFiniteSet(D)
      /\ s.order \in Seq(Keys) /\ s.bytes \in Nat
      /\ D \subseteq Elements(s.order) /\ BytesOf(s.cache) <= Budget /\ BytesOf(s.cache) <= s.bytes
  BY CacheType DEF Services, InBudget, Cached
<1>3. /\ gone \in SUBSET D /\ D \ gone \in SUBSET D
      /\ IsFiniteSet(gone) /\ IsFiniteSet(D \ gone)
  BY <1>2, FS_Subset
<1>4. /\ kept \in [D \ gone -> Images] /\ Restrict(s.cache, gone) \in [gone -> Images]
      /\ DOMAIN kept = D \ gone /\ \A k \in D \ gone : kept[k] = s.cache[k]
  BY <1>2 DEF Restrict
<1>5. /\ BytesOf(s.cache) \in Nat /\ freed \in Nat /\ BytesOf(kept) \in Nat
      /\ BytesOf(s.cache) = freed + BytesOf(kept)
  <2>. HIDE DEF gone, D
  <2>1. BytesOf(s.cache) = freed + BytesOf(kept)
    BY <1>2, <1>3, BytesSplit
  <2>. QED  BY <2>1, <1>2, <1>3, <1>4, BytesAreNat
<1>6. left \in Nat /\ BytesOf(kept) <= left /\ BytesOf(kept) <= Budget
  <2>. HIDE DEF freed, kept
  <2>1. s.bytes - freed \in Int
    BY <1>2, <1>5
  <2>2. left \in Nat /\ left >= s.bytes - freed
    BY <2>1, LargerOfZero
  <2>. HIDE DEF left
  <2>. QED  BY <2>2, <1>2, <1>5, ServiceAssumption
<1>7. rest \in Seq(Keys) /\ D \ gone \subseteq Elements(rest)
  <2>1. rest \in Seq(Keys) /\ Len(rest) = Len(s.order) - n
    BY <1>2
  <2>2. ASSUME NEW k \in D \ gone PROVE k \in Elements(rest)
    <3>1. PICK j \in 1..Len(s.order) : s.order[j] = k
      BY <1>2 DEF Elements
    <3>2. j > n
      BY <3>1, <2>2
    <3>3. j - n \in 1..Len(rest) /\ rest[j - n] = k
      BY <1>2, <2>1, <3>1, <3>2
    <3>4. DOMAIN rest = 1..Len(rest)
      BY <2>1
    <3>. HIDE DEF rest
    <3>. QED  BY <3>3, <3>4 DEF Elements
  <2>. QED  BY <2>1, <2>2
<1>8. n = Len(s.order) => D \ gone = {}
  BY <1>2 DEF Elements
<1>. HIDE DEF e, left, rest, kept, gone, D, freed
<1>9. kept \in Caches
  BY <1>2, <1>3, <1>4 DEF Caches
<1>10. e = [[[s EXCEPT !.cache = kept] EXCEPT !.order = rest] EXCEPT !.bytes = left]
  BY <1>1
<1>11. e \in Services
  BY <1>6, <1>7, <1>9, <1>10 DEF Services
<1>12. e.cache = kept /\ e.order = rest /\ e.bytes = left /\ SameRequests(s, e)
  BY <1>1 DEF Services, SameRequests
<1>13. InBudget(e)
  BY <1>3, <1>4, <1>6, <1>7, <1>12 DEF InBudget, Cached
<1>14. FewerCached(s, e)
  BY <1>3, <1>4, <1>12 DEF FewerCached, D
<1>15. n = Len(s.order) => DOMAIN e.cache = {}
  BY <1>4, <1>8, <1>12
<1>. QED  BY <1>11, <1>13, <1>12, <1>14, <1>15 DEF e

(* makeRoom ends with room for the image: emptying the cache always makes   *)
(* it.                                                                      *)
LEMMA RoomIsMade ==
  ASSUME NEW s \in Services, InBudget(s), NEW bytes \in Nat, bytes <= Budget
  PROVE  LET room == MakeRoom(s, bytes)
         IN /\ room \in Services /\ InBudget(room)
            /\ SameRequests(s, room) /\ FewerCached(s, room)
            /\ Cached(room) + bytes <= Budget
<1>. DEFINE enough(n) == Evicted(s, n).bytes + bytes <= Budget \/ n = Len(s.order)
            N == {n \in 0..Len(s.order) : enough(n)}
            room == MakeRoom(s, bytes)
<1>1. Len(s.order) \in Nat
  BY DEF Services
<1>2. IsFiniteSet(0..Len(s.order))
  BY <1>1, FS_Interval
<1>3. N \in SUBSET (0..Len(s.order)) /\ N \in SUBSET Nat /\ Len(s.order) \in N
  BY <1>1
<1>4. \E n \in N : \A m \in N : n <= m
  <2>. HIDE DEF N
  <2>1. IsFiniteSet(N) /\ N # {}
    BY <1>2, <1>3, FS_Subset
  <2>. QED  BY <1>3, <2>1, HasLeast
<1>5. PICK n \in N : room = Evicted(s, n)
  BY <1>4 DEF MakeRoom, Min
<1>6. /\ room \in Services /\ InBudget(room)
      /\ SameRequests(s, room) /\ FewerCached(s, room)
      /\ n = Len(s.order) => DOMAIN room.cache = {}
  BY <1>3, <1>5, EvictedKeepsBudget
<1>7. room.bytes + bytes <= Budget \/ n = Len(s.order)
  BY <1>5
<1>. HIDE DEF room, N
<1>8. Cached(room) \in Nat /\ room.bytes \in Nat
  <2>1. room.cache \in [DOMAIN room.cache -> Images] /\ IsFiniteSet(DOMAIN room.cache)
    BY <1>6, CacheType DEF InBudget
  <2>. QED  BY <1>6, <2>1, BytesAreNat DEF Cached, Services
<1>9. ASSUME room.bytes + bytes <= Budget PROVE Cached(room) + bytes <= Budget
  BY <1>6, <1>8, <1>9, ServiceAssumption DEF InBudget
<1>10. ASSUME n = Len(s.order) PROVE Cached(room) + bytes <= Budget
  <2>1. Cached(room) = 0
    BY <1>6, <1>10, TotalOfNone DEF Cached, BytesOf
  <2>. QED  BY <2>1
<1>11. Cached(room) + bytes <= Budget
  BY <1>7, <1>9, <1>10
<1>. QED  BY <1>6, <1>11 DEF room

(* Whatever room there was, the cache fits with the image in it.             *)
CachedAs(s, t, key, image) ==
  /\ SameRequests(s, t)
  /\ DOMAIN t.cache \subseteq DOMAIN s.cache \cup {key}
  /\ \A k \in DOMAIN t.cache : \/ k \in DOMAIN s.cache /\ t.cache[k] = s.cache[k]
                               \/ k = key /\ t.cache[k] = image

(* An image that fits the budget is stored, another is not; either way the  *)
(* budget is kept, also when the key was cached already.                    *)
LEMMA CacheImageKeepsBudget ==
  ASSUME NEW s \in Services, InBudget(s), NEW key \in Keys, NEW image \in Images
  PROVE  LET t == CacheImage(s, key, image)
         IN t \in Services /\ InBudget(t) /\ CachedAs(s, t, key, image)
<1>. DEFINE t == CacheImage(s, key, image)
            room == MakeRoom(s, Bytes(image))
            D == DOMAIN room.cache
            cache == [k \in D \cup {key} |-> IF k = key THEN image ELSE room.cache[k]]
            order == Append(room.order, key)
            bytes == room.bytes + Bytes(image)
<1>1. Bytes(image) \in Nat
  BY BytesOfImage
<1>2. CASE Bytes(image) > Budget
  <2>1. t = s
    BY <1>2 DEF CacheImage
  <2>. QED  BY <2>1 DEF CachedAs, SameRequests
<1>3. CASE ~(Bytes(image) > Budget)
  <2>1. t = [room EXCEPT !.cache = cache, !.order = order, !.bytes = bytes]
    BY <1>3 DEF CacheImage
  <2>2. /\ room \in Services /\ InBudget(room)
        /\ SameRequests(s, room) /\ FewerCached(s, room)
        /\ Cached(room) + Bytes(image) <= Budget
    BY <1>1, <1>3, RoomIsMade, ServiceAssumption
  <2>. HIDE DEF room
  <2>3. room.cache \in [D -> Images] /\ D \in SUBSET Keys /\ IsFiniteSet(D)
    BY <2>2, CacheType DEF InBudget
  <2>4. IsFiniteSet(D \cup {key})
    BY <2>3, FS_AddElement
  <2>5. BytesOf(cache) <= Cached(room) + Bytes(image)
    <3>. HIDE DEF D
    <3>. QED  BY <2>3, BytesAdded DEF Cached
  <2>6. cache \in [D \cup {key} -> Images] /\ D \cup {key} \in SUBSET Keys
    BY <2>3
  <2>7. BytesOf(cache) \in Nat /\ Cached(room) \in Nat /\ room.bytes \in Nat
    <3>. HIDE DEF cache, D
    <3>. QED  BY <2>2, <2>3, <2>4, <2>6, BytesAreNat DEF Cached, Services, D
  <2>8. DOMAIN cache = D \cup {key}
    OBVIOUS
  <2>9. \A k \in DOMAIN cache : \/ k \in D /\ cache[k] = room.cache[k]
                                \/ k = key /\ cache[k] = image
    OBVIOUS
  <2>10. order \in Seq(Keys) /\ D \cup {key} \subseteq Elements(order)
    <3>1. room.order \in Seq(Keys) /\ D \subseteq Elements(room.order)
      BY <2>2 DEF Services, InBudget
    <3>. QED  BY <3>1, ElementsOfAppend
  <2>11. bytes \in Nat /\ BytesOf(cache) <= Budget /\ BytesOf(cache) <= bytes
    <3>. HIDE DEF cache
    <3>1. Cached(room) <= room.bytes /\ Budget \in Nat
      BY <2>2, ServiceAssumption DEF InBudget
    <3>. QED  BY <1>1, <2>2, <2>5, <2>7, <3>1
  <2>. HIDE DEF t, cache, order, bytes, D
  <2>12. cache \in Caches
    BY <2>6 DEF Caches
  <2>13. t = [[[room EXCEPT !.cache = cache] EXCEPT !.order = order] EXCEPT !.bytes = bytes]
    BY <2>1
  <2>14. t \in Services
    BY <2>2, <2>10, <2>11, <2>12, <2>13 DEF Services
  <2>15. t.cache = cache /\ t.order = order /\ t.bytes = bytes /\ SameRequests(room, t)
    BY <2>1, <2>2 DEF Services, SameRequests
  <2>16. InBudget(t)
    BY <2>4, <2>8, <2>10, <2>11, <2>15 DEF InBudget, Cached
  <2>17. CachedAs(s, t, key, image)
    BY <2>2, <2>8, <2>9, <2>15 DEF CachedAs, SameRequests, FewerCached, D
  <2>. QED  BY <2>14, <2>16, <2>17 DEF t
<1>. QED  BY <1>2, <1>3

LEMMA ElementsOfTail ==
  ASSUME NEW S, NEW seq \in Seq(S), seq # << >>
  PROVE  /\ Head(seq) \in S /\ Tail(seq) \in Seq(S)
         /\ Elements(seq) = Elements(Tail(seq)) \cup {Head(seq)}
<1>. DEFINE new == Tail(seq)
<1>1. /\ new \in Seq(S) /\ DOMAIN seq = 1..Len(seq) /\ DOMAIN new = 1..Len(seq) - 1
      /\ Len(seq) \in Nat /\ Len(seq) > 0
      /\ \A k \in 1..Len(seq) - 1 : new[k] = seq[k + 1]
  OBVIOUS
<1>2. Head(seq) = seq[1] /\ Head(seq) \in S
  OBVIOUS
<1>. HIDE DEF new
<1>3. Elements(new) \subseteq Elements(seq)
  BY <1>1 DEF Elements
<1>4. seq[1] \in Elements(seq)
  BY <1>1 DEF Elements
<1>5. ASSUME NEW k \in 2..Len(seq) PROVE seq[k] \in Elements(new)
  <2>1. k - 1 \in 1..Len(seq) - 1 /\ new[k - 1] = seq[k]
    BY <1>1
  <2>. QED  BY <1>1, <2>1 DEF Elements
<1>6. Elements(seq) \subseteq Elements(new) \cup {seq[1]}
  BY <1>1, <1>5 DEF Elements
<1>7. Elements(seq) = Elements(new) \cup {seq[1]}
  BY <1>3, <1>4, <1>6
<1>. QED  BY <1>1, <1>2, <1>7 DEF new

(* What is true of requests and answers: a number belongs to one photo, and  *)
(* images are of the photo they are cached or posted for.                    *)
Asking(s) == Elements(s.queue) \cup s.decoding
Posted(s) == Elements(s.posted)
Pending(s) == Asking(s) \cup Posted(s)

SamePhoto(o, p) == o.member = p.member /\ o.gen = p.gen

Truthful(s) ==
  /\ \A k \in DOMAIN s.cache : s.cache[k].member = k[1] /\ s.cache[k].size = k[2]
  /\ \A res \in Posted(s) : res.image # None => res.image.member = res.member
  /\ \A o \in Pending(s) : o.id < s.next
  /\ \A o, p \in Pending(s) : o.id = p.id => SamePhoto(o, p)

ServiceInv(s) == s \in Services /\ InBudget(s) /\ Truthful(s)

LEMMA PendingTypes ==
  ASSUME NEW s \in Services
  PROVE  Asking(s) \subseteq Requests /\ Posted(s) \subseteq Results
<1>1. s.queue \in Seq(Requests) /\ s.decoding \subseteq Requests /\ s.posted \in Seq(Results)
  BY DEF Services
<1>. QED  BY <1>1 DEF Asking, Posted, Elements

(* A step of the service that forgets no request and answers each with what  *)
(* it asked for; s.next is the number of a request that is new.              *)
Answers(o, res) == res.id = o.id /\ SamePhoto(o, res) /\ (res.image # None => res.image.size = o.size)

Serves(s, t) ==
  /\ s.next <= t.next
  /\ \A o \in Asking(t) : o \in Asking(s) \/ o.id = s.next
  /\ \A res \in Posted(t) : \/ res \in Posted(s) \/ res.id = s.next
                            \/ \E o \in Asking(s) : Answers(o, res)
  /\ \A o \in Pending(s) : \E p \in Pending(t) : p.id = o.id /\ SamePhoto(o, p)

NewRequest(t, id, member, size, gen) ==
  /\ \E p \in Pending(t) : p.id = id /\ p.member = member /\ p.gen = gen
  /\ \A o \in Asking(t) : o.id = id => o.size = size
  /\ \A res \in Posted(t) : res.id = id /\ res.image # None => res.image.size = size
  /\ \A p \in Pending(t) : p.id = id => p.member = member /\ p.gen = gen

(* A request is new, and is pending from then on: queued, or answered from  *)
(* the cache.                                                               *)
LEMMA AskedServes ==
  ASSUME NEW s, ServiceInv(s), NEW member \in Members, NEW size \in Sizes, NEW gen \in Gens
  PROVE  LET t == Asked(s, member, size, gen)
         IN /\ ServiceInv(t) /\ Serves(s, t)
            /\ t.next = s.next + 1
            /\ NewRequest(t, s.next, member, size, gen)
<1>. DEFINE t == Asked(s, member, size, gen)
            req == Request(s.next, member, size, gen)
            key == Key(req)
            res == Result(req, s.cache[key])
            T == {k \in DOMAIN s.order : s.order[k] # key}
            others == Picked(s.order, T)
            order == Append(others, key)
            queue == Append(s.queue, req)
            posted == Append(s.posted, res)
<1>1. /\ s \in Services /\ InBudget(s) /\ Truthful(s)
      /\ s.next \in Nat \ {0} /\ s.queue \in Seq(Requests) /\ s.posted \in Seq(Results)
      /\ s.order \in Seq(Keys)
  BY DEF ServiceInv, Services
<1>2. req \in Requests /\ req.id = s.next /\ req.member = member /\ req.size = size /\ req.gen = gen
  BY <1>1 DEF Request, Requests
<1>3. key \in Keys /\ key[1] = member /\ key[2] = size
  BY DEF Key, Keys, Request
<1>4. \A o \in Pending(s) : o.id < s.next /\ o.id # s.next
  <2>1. \A o \in Pending(s) : o.id \in Nat
    BY <1>1, PendingTypes DEF Pending, Requests, Results
  <2>. QED  BY <1>1, <2>1 DEF Truthful
<1>5. s.next + 1 \in Nat \ {0}
  BY <1>1
<1>6. CASE key \in DOMAIN s.cache
  <2>1. t = [s EXCEPT !.next = s.next + 1, !.order = order, !.posted = posted]
    BY <1>6 DEF Asked
  <2>2. /\ s.cache[key] \in Images /\ s.cache[key].member = member /\ s.cache[key].size = size
    BY <1>1, <1>3, <1>6, CacheType DEF Truthful
  <2>3. /\ res \in Results /\ res.id = s.next /\ res.member = member /\ res.gen = gen
        /\ res.image = s.cache[key]
    BY <1>1, <2>2 DEF Result, Results, Request
  <2>4. others \in Seq(Keys) /\ Elements(s.order) \subseteq Elements(others) \cup {key}
    <3>1. T \in SUBSET DOMAIN s.order
      OBVIOUS
    <3>2. \A i \in DOMAIN s.order : i \in T \/ s.order[i] = key
      OBVIOUS
    <3>. HIDE DEF T
    <3>3. /\ others \in Seq(Keys)
          /\ \A i \in T : \E k \in DOMAIN others : others[k] = s.order[i]
      BY <1>1, <3>1, PickedElements
    <3>. HIDE DEF others
    <3>. QED  BY <3>2, <3>3 DEF Elements
  <2>5. order \in Seq(Keys) /\ Elements(order) = Elements(others) \cup {key}
    <3>. HIDE DEF others, key
    <3>. QED  BY <1>3, <2>4, ElementsOfAppend
  <2>6. posted \in Seq(Results) /\ Elements(posted) = Posted(s) \cup {res}
    <3>. HIDE DEF res
    <3>. QED  BY <1>1, <2>3, ElementsOfAppend DEF Posted
  <2>. HIDE DEF t, req, key, res, T, others, order, posted
  <2>7. t = [[[s EXCEPT !.next = s.next + 1] EXCEPT !.order = order] EXCEPT !.posted = posted]
    BY <2>1
  <2>8. t \in Services
    BY <1>1, <1>5, <2>5, <2>6, <2>7 DEF Services
  <2>9. /\ t.next = s.next + 1 /\ t.order = order /\ t.posted = posted /\ t.queue = s.queue
        /\ t.decoding = s.decoding /\ t.cache = s.cache /\ t.bytes = s.bytes
    BY <1>1, <2>1 DEF Services
  <2>10. Asking(t) = Asking(s) /\ Posted(t) = Posted(s) \cup {res} /\ Pending(t) = Pending(s) \cup {res}
    BY <2>6, <2>9 DEF Asking, Posted, Pending
  <2>11. InBudget(t)
    BY <1>1, <2>4, <2>5, <2>9 DEF InBudget, Cached
  <2>12. Truthful(t)
    <3>1. \A r \in Posted(t) : r.image # None => r.image.member = r.member
      BY <1>1, <2>2, <2>3, <2>10 DEF Truthful
    <3>2. \A o \in Pending(t) : o.id < t.next
      <4>1. \A o \in Pending(s) : o.id \in Nat
        BY <1>1, PendingTypes DEF Pending, Requests, Results
      <4>. QED  BY <1>1, <1>4, <2>3, <2>9, <2>10, <4>1
    <3>3. \A o, p \in Pending(t) : o.id = p.id => SamePhoto(o, p)
      BY <1>1, <1>4, <2>3, <2>10 DEF Truthful, SamePhoto
    <3>. QED  BY <1>1, <2>9, <3>1, <3>2, <3>3 DEF Truthful
  <2>13. Serves(s, t)
    BY <1>1, <2>3, <2>9, <2>10 DEF Serves, SamePhoto, Pending
  <2>14. NewRequest(t, s.next, member, size, gen)
    BY <1>4, <2>2, <2>3, <2>10 DEF NewRequest, Pending
  <2>. QED  BY <2>8, <2>9, <2>11, <2>12, <2>13, <2>14 DEF ServiceInv, t
<1>7. CASE key \notin DOMAIN s.cache
  <2>1. t = [s EXCEPT !.next = s.next + 1, !.queue = queue]
    BY <1>7 DEF Asked
  <2>2. queue \in Seq(Requests) /\ Elements(queue) = Elements(s.queue) \cup {req}
    <3>. HIDE DEF req
    <3>. QED  BY <1>1, <1>2, ElementsOfAppend
  <2>. HIDE DEF t, req, key, queue
  <2>3. t = [[s EXCEPT !.next = s.next + 1] EXCEPT !.queue = queue]
    BY <2>1
  <2>4. t \in Services
    BY <1>1, <1>5, <2>2, <2>3 DEF Services
  <2>5. /\ t.next = s.next + 1 /\ t.queue = queue /\ t.posted = s.posted
        /\ t.decoding = s.decoding /\ t.cache = s.cache /\ t.bytes = s.bytes /\ t.order = s.order
    BY <1>1, <2>1 DEF Services
  <2>6. Asking(t) = Asking(s) \cup {req} /\ Posted(t) = Posted(s) /\ Pending(t) = Pending(s) \cup {req}
    BY <2>2, <2>5 DEF Asking, Posted, Pending
  <2>7. InBudget(t)
    BY <1>1, <2>5 DEF InBudget, Cached
  <2>8. Truthful(t)
    <3>1. \A o \in Pending(t) : o.id < t.next
      <4>1. \A o \in Pending(s) : o.id \in Nat
        BY <1>1, PendingTypes DEF Pending, Requests, Results
      <4>. QED  BY <1>1, <1>2, <1>4, <2>5, <2>6, <4>1
    <3>2. \A o, p \in Pending(t) : o.id = p.id => SamePhoto(o, p)
      BY <1>1, <1>2, <1>4, <2>6 DEF Truthful, SamePhoto
    <3>. QED  BY <1>1, <2>5, <2>6, <3>1, <3>2 DEF Truthful
  <2>9. Serves(s, t)
    BY <1>1, <1>2, <2>5, <2>6 DEF Serves, SamePhoto, Pending
  <2>10. NewRequest(t, s.next, member, size, gen)
    BY <1>2, <1>4, <2>6 DEF NewRequest, Pending
  <2>. QED  BY <2>4, <2>5, <2>7, <2>8, <2>9, <2>10 DEF ServiceInv, t
<1>. QED  BY <1>6, <1>7

(* A worker that takes a task asks for nothing and answers nothing.         *)
LEMMA TakenServes ==
  ASSUME NEW s, ServiceInv(s), s.queue # << >>
  PROVE  ServiceInv(Taken(s)) /\ Serves(s, Taken(s))
<1>. DEFINE t == Taken(s)
            queue == Tail(s.queue)
            decoding == s.decoding \cup {Head(s.queue)}
<1>1. /\ s \in Services /\ InBudget(s) /\ Truthful(s)
      /\ s.next \in Nat \ {0} /\ s.queue \in Seq(Requests) /\ s.decoding \subseteq Requests
  BY DEF ServiceInv, Services
<1>2. t = [s EXCEPT !.queue = queue, !.decoding = decoding]
  BY DEF Taken
<1>3. /\ Head(s.queue) \in Requests /\ queue \in Seq(Requests)
      /\ Elements(s.queue) = Elements(queue) \cup {Head(s.queue)}
  BY <1>1, ElementsOfTail
<1>4. decoding \in SUBSET Requests /\ Elements(queue) \cup decoding = Asking(s)
  BY <1>1, <1>3 DEF Asking
<1>. HIDE DEF t, queue, decoding
<1>5. t = [[s EXCEPT !.queue = queue] EXCEPT !.decoding = decoding]
  BY <1>2
<1>6. t \in Services
  BY <1>1, <1>3, <1>4, <1>5 DEF Services
<1>7. /\ t.next = s.next /\ t.queue = queue /\ t.posted = s.posted
      /\ t.decoding = decoding /\ t.cache = s.cache /\ t.bytes = s.bytes /\ t.order = s.order
  BY <1>1, <1>2 DEF Services
<1>8. Asking(t) = Asking(s) /\ Posted(t) = Posted(s) /\ Pending(t) = Pending(s)
  BY <1>4, <1>7 DEF Asking, Posted, Pending
<1>9. InBudget(t)
  BY <1>1, <1>7 DEF InBudget, Cached
<1>10. Truthful(t)
  BY <1>1, <1>7, <1>8 DEF Truthful
<1>11. Serves(s, t)
  BY <1>1, <1>7, <1>8 DEF Serves, SamePhoto, Pending
<1>. QED  BY <1>6, <1>9, <1>10, <1>11 DEF ServiceInv, t

(* A worker that is done answers its task, whatever it did to the cache.    *)
LEMMA AnswerServes ==
  ASSUME NEW s, ServiceInv(s), NEW req \in s.decoding, NEW res \in Results, Answers(req, res),
         res.image # None => res.image.member = res.member,
         NEW c \in Services, SameRequests(s, c), InBudget(c),
         \A k \in DOMAIN c.cache : c.cache[k].member = k[1] /\ c.cache[k].size = k[2],
         NEW t, t = [c EXCEPT !.decoding = c.decoding \ {req}, !.posted = Append(c.posted, res)]
  PROVE  ServiceInv(t) /\ Serves(s, t)
<1>. DEFINE decoding == c.decoding \ {req}
            posted == Append(c.posted, res)
<1>1. /\ s \in Services /\ Truthful(s) /\ s.next \in Nat \ {0}
      /\ s.decoding \subseteq Requests /\ s.posted \in Seq(Results)
  BY DEF ServiceInv, Services
<1>2. c.next = s.next /\ c.queue = s.queue /\ c.decoding = s.decoding /\ c.posted = s.posted
  BY DEF SameRequests
<1>3. posted \in Seq(Results) /\ Elements(posted) = Posted(s) \cup {res}
  BY <1>1, <1>2, ElementsOfAppend DEF Posted
<1>4. decoding \in SUBSET Requests
  BY <1>1, <1>2
<1>6. Asking(s) = Elements(s.queue) \cup s.decoding /\ req \in Asking(s) /\ req \in Pending(s)
  BY DEF Asking, Pending
<1>7. Elements(s.queue) \cup decoding \subseteq Asking(s) /\ Asking(s) \subseteq Elements(s.queue) \cup decoding \cup {req}
  BY <1>2, <1>6
<1>8. t = [[c EXCEPT !.decoding = decoding] EXCEPT !.posted = posted]
  OBVIOUS
<1>9. /\ t.next = s.next /\ t.queue = s.queue /\ t.posted = posted
      /\ t.decoding = decoding /\ t.cache = c.cache /\ t.bytes = c.bytes /\ t.order = c.order
  BY <1>2 DEF Services
<1>. HIDE DEF decoding, posted
<1>10. t \in Services
  BY <1>3, <1>4, <1>8 DEF Services
<1>11. /\ Asking(t) = Elements(s.queue) \cup decoding /\ Posted(t) = Posted(s) \cup {res}
  BY <1>3, <1>9 DEF Asking, Posted
<1>12. Asking(t) \subseteq Asking(s) /\ Asking(s) \subseteq Asking(t) \cup {req}
  BY <1>7, <1>11
<1>13. Pending(t) \subseteq Pending(s) \cup {res} /\ Pending(s) \subseteq Pending(t) \cup {req} /\ res \in Pending(t)
  BY <1>11, <1>12 DEF Pending
<1>14. res.id = req.id /\ SamePhoto(req, res)
  BY DEF Answers
<1>15. InBudget(t)
  BY <1>9 DEF InBudget, Cached
<1>16. Truthful(t)
  <2>1. \A r \in Posted(t) : r.image # None => r.image.member = r.member
    BY <1>1, <1>11 DEF Truthful
  <2>2. \A o \in Pending(t) : o.id < t.next
    BY <1>1, <1>6, <1>9, <1>13, <1>14 DEF Truthful
  <2>3. \A o \in Pending(s) : o.id = res.id => SamePhoto(o, res) /\ SamePhoto(res, o)
    BY <1>1, <1>6, <1>14 DEF Truthful, SamePhoto
  <2>4. \A o, p \in Pending(t) : o.id = p.id => SamePhoto(o, p)
    <3>1. \A o, p \in Pending(s) : o.id = p.id => SamePhoto(o, p)
      BY <1>1 DEF Truthful
    <3>2. SamePhoto(res, res)
      BY DEF SamePhoto
    <3>. QED  BY <1>13, <2>3, <3>1, <3>2
  <2>. QED  BY <1>9, <2>1, <2>2, <2>4 DEF Truthful
<1>17. Serves(s, t)
  <2>1. \A o \in Pending(s) : \E p \in Pending(t) : p.id = o.id /\ SamePhoto(o, p)
    <3>1. \A o : SamePhoto(o, o)
      BY DEF SamePhoto
    <3>. QED  BY <1>13, <1>14, <3>1
  <2>2. \A r \in Posted(t) : r \in Posted(s) \/ \E o \in Asking(s) : Answers(o, r)
    BY <1>6, <1>11
  <2>3. s.next <= t.next
    BY <1>1, <1>9
  <2>. QED  BY <1>12, <2>1, <2>2, <2>3 DEF Serves
<1>. QED  BY <1>10, <1>15, <1>16, <1>17 DEF ServiceInv

LEMMA DecodedServes ==
  ASSUME NEW s, ServiceInv(s), NEW req \in s.decoding, NEW ver \in Versions
  PROVE  ServiceInv(Decoded(s, req, ver)) /\ Serves(s, Decoded(s, req, ver))
<1>. DEFINE image == Pixels(req.member, ver, req.size)
            res == Result(req, image)
            c == CacheImage(s, Key(req), image)
<1>1. /\ s \in Services /\ InBudget(s) /\ Truthful(s) /\ req \in Requests
  BY DEF ServiceInv, Services
<1>2. image \in Images /\ image.member = req.member /\ image.size = req.size
  BY <1>1 DEF Pixels, Images, Requests
<1>3. Key(req) \in Keys /\ Key(req)[1] = req.member /\ Key(req)[2] = req.size
  BY <1>1 DEF Key, Keys, Requests
<1>4. /\ res \in Results /\ Answers(req, res) /\ (res.image # None => res.image.member = res.member)
  BY <1>1, <1>2 DEF Result, Results, Requests, Answers, SamePhoto
<1>5. Decoded(s, req, ver) = [c EXCEPT !.decoding = c.decoding \ {req}, !.posted = Append(c.posted, res)]
  BY DEF Decoded
<1>. HIDE DEF image, res
<1>6. c \in Services /\ InBudget(c) /\ CachedAs(s, c, Key(req), image)
  BY <1>1, <1>2, <1>3, CacheImageKeepsBudget
<1>. HIDE DEF c
<1>7. SameRequests(s, c)
  BY <1>6 DEF CachedAs
<1>8. \A k \in DOMAIN c.cache : c.cache[k].member = k[1] /\ c.cache[k].size = k[2]
  BY <1>1, <1>2, <1>3, <1>6 DEF CachedAs, Truthful
<1>. QED  BY <1>4, <1>5, <1>6, <1>7, <1>8, AnswerServes

LEMMA NotDecodedServes ==
  ASSUME NEW s, ServiceInv(s), NEW req \in s.decoding
  PROVE  ServiceInv(NotDecoded(s, req)) /\ Serves(s, NotDecoded(s, req))
<1>. DEFINE res == Result(req, None)
<1>1. /\ s \in Services /\ InBudget(s) /\ Truthful(s) /\ req \in Requests
  BY DEF ServiceInv, Services
<1>2. res \in Results /\ Answers(req, res) /\ res.image = None
  BY <1>1 DEF Result, Results, Requests, Answers, SamePhoto
<1>3. NotDecoded(s, req) = [s EXCEPT !.decoding = s.decoding \ {req}, !.posted = Append(s.posted, res)]
  BY DEF NotDecoded
<1>4. SameRequests(s, s) /\ \A k \in DOMAIN s.cache : s.cache[k].member = k[1] /\ s.cache[k].size = k[2]
  BY <1>1 DEF SameRequests, Truthful
<1>. HIDE DEF res
<1>. QED  BY <1>1, <1>2, <1>3, <1>4, AnswerServes

(* Only the oldest answer leaves.                                           *)
LEMMA DeliveredLeaves ==
  ASSUME NEW s, ServiceInv(s), s.posted # << >>
  PROVE  LET t == Delivered(s)
             res == Head(s.posted)
         IN /\ ServiceInv(t) /\ res \in Results /\ t.next = s.next
            /\ Asking(t) = Asking(s) /\ Posted(s) = Posted(t) \cup {res}
<1>. DEFINE t == Delivered(s)
            res == Head(s.posted)
            posted == Tail(s.posted)
<1>1. /\ s \in Services /\ InBudget(s) /\ Truthful(s) /\ s.posted \in Seq(Results)
  BY DEF ServiceInv, Services
<1>2. t = [s EXCEPT !.posted = posted]
  BY DEF Delivered
<1>3. res \in Results /\ posted \in Seq(Results) /\ Elements(s.posted) = Elements(posted) \cup {res}
  BY <1>1, ElementsOfTail
<1>. HIDE DEF t, res, posted
<1>4. t \in Services
  BY <1>1, <1>2, <1>3 DEF Services
<1>5. /\ t.next = s.next /\ t.queue = s.queue /\ t.posted = posted
      /\ t.decoding = s.decoding /\ t.cache = s.cache /\ t.bytes = s.bytes /\ t.order = s.order
  BY <1>1, <1>2 DEF Services
<1>6. Asking(t) = Asking(s) /\ Posted(s) = Posted(t) \cup {res} /\ Pending(t) \subseteq Pending(s)
  BY <1>3, <1>5 DEF Asking, Posted, Pending
<1>7. InBudget(t)
  BY <1>1, <1>5 DEF InBudget, Cached
<1>8. Truthful(t)
  BY <1>1, <1>5, <1>6 DEF Truthful
<1>. QED  BY <1>3, <1>4, <1>5, <1>6, <1>7, <1>8 DEF ServiceInv, t, res

-----------------------------------------------------------------------------
(* A canvas and its loader, against the service *)

Loaders == [member : Members \cup {None}, gen : Gens,
            fitted : Images \cup {None}, full : Images \cup {None},
            ready : BOOLEAN, error : BOOLEAN, fitId : Nat, fullId : Nat,
            asked : Targets \cup {NoSize}, size : Targets, wanted : Targets \cup {NoSize},
            inspecting : BOOLEAN, timer : BOOLEAN, deferred : BOOLEAN]

Shows(l) == /\ l.fitted # None => l.fitted.member = l.member
            /\ l.full # None => l.full.member = l.member
            /\ l.ready => l.fitted # None
            /\ l.error => l.member # None

(* An answer to the last fitted request is of the size that asked for.       *)
Sized(l, s) ==
  /\ \A o \in Asking(s) : o.id = l.fitId => o.size = l.asked
  /\ \A res \in Posted(s) : res.id = l.fitId /\ res.image # None => res.image.size = l.asked
  /\ l.ready /\ (\A o \in Pending(s) : o.id # l.fitId) => l.fitted.size = l.asked

(* While the loader is ready, that request is one for the photo it shows.    *)
Awaits(l, o) == o.id = l.fitId /\ o.member = l.member /\ o.gen = l.gen
Current(l, s) == l.fitId < s.next /\ (l.ready => \A o \in Pending(s) : o.id = l.fitId => Awaits(l, o))

Sound(l, s) == l \in Loaders /\ Shows(l) /\ Sized(l, s) /\ Current(l, s)

(* A photo that may load is shown, has failed, or is on its way; so is one   *)
(* that was asked for, and one of which something is still shown.            *)
Served(l, s) == l.ready \/ l.error \/ \E o \in Pending(s) : Awaits(l, o)
Wanting(l) == (l.member # None /\ (~l.deferred \/ l.wanted # NoSize)) \/ l.fitted # None
Provided(l, s) == Wanting(l) => Served(l, s)

(* What the service does leaves every loader sound, and served if it was.   *)
LEMMA ServesLoaders ==
  ASSUME NEW s, NEW t, ServiceInv(s), ServiceInv(t), Serves(s, t), NEW l, Sound(l, s)
  PROVE  Sound(l, t) /\ (Served(l, s) => Served(l, t))
<1>1. /\ s \in Services /\ t \in Services /\ l \in Loaders /\ l.fitId \in Nat
      /\ s.next \in Nat /\ t.next \in Nat /\ l.fitId < s.next /\ s.next <= t.next
  BY DEF ServiceInv, Sound, Services, Loaders, Serves, Current
<1>2. /\ \A o \in Asking(t) : o.id = l.fitId => o \in Asking(s)
      /\ \A res \in Posted(t) : res.id = l.fitId =>
             res \in Posted(s) \/ \E o \in Asking(s) : Answers(o, res)
  BY <1>1 DEF Serves
<1>3. \A o \in Pending(s) : \E p \in Pending(t) : p.id = o.id /\ SamePhoto(o, p)
  BY DEF Serves
<1>4. \A p \in Pending(t) : p.id = l.fitId => \E o \in Pending(s) : o.id = l.fitId /\ SamePhoto(o, p)
  BY <1>2 DEF Pending, Answers, SamePhoto
<1>5. \A o \in Asking(t) : o.id = l.fitId => o.size = l.asked
  BY <1>2 DEF Sound, Sized
<1>6. \A res \in Posted(t) : res.id = l.fitId /\ res.image # None => res.image.size = l.asked
  BY <1>2 DEF Sound, Sized, Answers
<1>7. l.ready /\ (\A o \in Pending(t) : o.id # l.fitId) => l.fitted.size = l.asked
  BY <1>3 DEF Sound, Sized
<1>8. l.ready => \A o \in Pending(t) : o.id = l.fitId => Awaits(l, o)
  BY <1>4 DEF Sound, Current, Awaits, SamePhoto
<1>9. l.fitId < t.next
  BY <1>1
<1>10. Sound(l, t)
  BY <1>5, <1>6, <1>7, <1>8, <1>9 DEF Sound, Sized, Current
<1>11. Served(l, s) => Served(l, t)
  BY <1>3 DEF Served, Awaits, SamePhoto
<1>. QED  BY <1>10, <1>11

(* What the service and the photo have to do with each other is in these.    *)
Alike(l, k) == /\ k.member = l.member /\ k.gen = l.gen /\ k.fitted = l.fitted /\ k.full = l.full
               /\ k.ready = l.ready /\ k.fitId = l.fitId /\ k.asked = l.asked

(* The size, the timers and the flags of a canvas are its own affair.       *)
LEMMA AlikeIsSound ==
  ASSUME NEW s, NEW l, Sound(l, s), NEW k \in Loaders, Alike(l, k), k.error => l.error
  PROVE  Sound(k, s) /\ (Served(l, s) /\ k.error = l.error => Served(k, s))
<1>1. Shows(k)
  BY DEF Alike, Sound, Shows
<1>2. Sized(k, s)
  BY DEF Alike, Sound, Sized
<1>3. Current(k, s)
  BY DEF Alike, Sound, Current, Awaits
<1>4. Served(l, s) /\ k.error = l.error => Served(k, s)
  BY DEF Alike, Served, Awaits
<1>. QED  BY <1>1, <1>2, <1>3, <1>4 DEF Sound

(* A loader that asks again waits for what it asked for now, and is served. *)
LEMMA AskingIsSound ==
  ASSUME NEW s, ServiceInv(s), NEW l, Sound(l, s), l.member # None
  PROVE  LET t == Asked(s, l.member, l.size, l.gen)
             k == [l EXCEPT !.fitId = s.next, !.asked = l.size]
         IN /\ ServiceInv(t) /\ Serves(s, t) /\ Sound(k, t) /\ Served(k, t)
<1>. DEFINE t == Asked(s, l.member, l.size, l.gen)
            k == [l EXCEPT !.fitId = s.next, !.asked = l.size]
<1>1. /\ l \in Loaders /\ l.member \in Members /\ l.size \in Sizes /\ l.size \in Targets
      /\ l.gen \in Gens /\ s.next \in Nat
  BY DEF Sound, Loaders, Targets, ServiceInv, Services
<1>2. /\ ServiceInv(t) /\ Serves(s, t) /\ t.next = s.next + 1
      /\ NewRequest(t, s.next, l.member, l.size, l.gen)
  BY <1>1, AskedServes
<1>3. k = [[l EXCEPT !.fitId = s.next] EXCEPT !.asked = l.size]
  OBVIOUS
<1>4. k \in Loaders
  BY <1>1, <1>3 DEF Loaders
<1>5. /\ k.member = l.member /\ k.gen = l.gen /\ k.fitted = l.fitted /\ k.full = l.full
      /\ k.ready = l.ready /\ k.error = l.error /\ k.fitId = s.next /\ k.asked = l.size
  BY <1>1 DEF Loaders
<1>. HIDE DEF t, k
<1>6. Shows(k)
  BY <1>5 DEF Sound, Shows
<1>7. Sized(k, t)
  BY <1>2, <1>5 DEF NewRequest, Sized
<1>8. Current(k, t)
  BY <1>1, <1>2, <1>5 DEF NewRequest, Current, Awaits
<1>9. Served(k, t)
  BY <1>2, <1>5 DEF NewRequest, Served, Awaits
<1>. QED  BY <1>2, <1>4, <1>6, <1>7, <1>8, <1>9 DEF Sound, t, k

-----------------------------------------------------------------------------
(* The display, and what a step of one of its canvases leaves alone *)

Places == {"eager", "near", "far"}
Walls == [fixed : BOOLEAN, band : [Canvases -> Places],
          requested : SUBSET Canvases, prefetching : SUBSET Canvases, pump : BOOLEAN]
Screens == [svc : Services, canvas : [Canvases -> Loaders], wall : Walls]

Display(w) == /\ w \in Screens /\ ServiceInv(w.svc)
              /\ \A c \in Canvases : Sound(w.canvas[c], w.svc)

SameLayout(w, v) == v.wall.fixed = w.wall.fixed /\ v.wall.band = w.wall.band

TileStep(w, v, c) ==
  /\ Display(v) /\ SameLayout(w, v)
  /\ \A o \in Canvases \ {c} : /\ v.canvas[o] = w.canvas[o]
                               /\ Provided(w.canvas[o], w.svc) => Provided(v.canvas[o], v.svc)

LEMMA TileStepsCompose ==
  ASSUME NEW w, NEW v, NEW u, NEW c, TileStep(w, v, c), TileStep(v, u, c)
  PROVE  TileStep(w, u, c)
BY DEF TileStep, SameLayout

LEMMA NoStep == ASSUME NEW w, Display(w), NEW c PROVE TileStep(w, w, c)
BY DEF TileStep, SameLayout

(* A canvas is given a sound loader.                                        *)
LEMMA WithStep ==
  ASSUME NEW w, Display(w), NEW c \in Canvases, NEW l, Sound(l, w.svc)
  PROVE  LET v == With(w, c, l)
         IN TileStep(w, v, c) /\ v.canvas[c] = l /\ v.svc = w.svc /\ v.wall = w.wall
<1>. DEFINE v == With(w, c, l)
            canvases == [w.canvas EXCEPT ![c] = l]
<1>1. w \in Screens /\ w.canvas \in [Canvases -> Loaders] /\ l \in Loaders
  BY DEF Display, Screens, Sound
<1>2. v = [w EXCEPT !.canvas = canvases]
  BY <1>1 DEF With, Screens
<1>3. canvases \in [Canvases -> Loaders] /\ canvases[c] = l /\ \A o \in Canvases \ {c} : canvases[o] = w.canvas[o]
  BY <1>1
<1>. HIDE DEF v, canvases
<1>4. v \in Screens /\ v.svc = w.svc /\ v.wall = w.wall /\ v.canvas = canvases
  BY <1>1, <1>2, <1>3 DEF Screens
<1>5. Display(v)
  BY <1>3, <1>4 DEF Display
<1>6. TileStep(w, v, c)
  BY <1>3, <1>4, <1>5 DEF TileStep, SameLayout
<1>. QED  BY <1>3, <1>4, <1>6 DEF v

(* The wall is told; no canvas changes.                                     *)
LEMMA ChangedStep ==
  ASSUME NEW w, Display(w), NEW c, NEW tiles
  PROVE  LET v == Changed(w, tiles)
         IN TileStep(w, v, c) /\ v.canvas = w.canvas /\ v.svc = w.svc
<1>. DEFINE v == Changed(w, tiles)
            wl == [w.wall EXCEPT !.prefetching = @ \ tiles, !.pump = w.wall.fixed \/ @]
<1>1. w \in Screens /\ w.wall \in Walls
  BY DEF Display, Screens
<1>2. CASE tiles = {}
  BY <1>2, NoStep DEF Changed
<1>3. CASE tiles # {}
  <2>1. v = [w EXCEPT !.wall = wl]
    BY <1>3 DEF Changed
  <2>2. (w.wall.fixed \/ w.wall.pump) \in BOOLEAN
    BY Zenon
  <2>3. wl = [[w.wall EXCEPT !.prefetching = @ \ tiles] EXCEPT !.pump = w.wall.fixed \/ @]
    OBVIOUS
  <2>4. wl \in Walls
    BY <1>1, <2>2, <2>3 DEF Walls
  <2>5. wl.fixed = w.wall.fixed /\ wl.band = w.wall.band
    BY <1>1 DEF Walls
  <2>. HIDE DEF v, wl
  <2>6. v \in Screens /\ v.svc = w.svc /\ v.canvas = w.canvas /\ v.wall = wl
    BY <1>1, <2>1, <2>4 DEF Screens
  <2>7. Display(v)
    BY <2>6 DEF Display
  <2>. QED  BY <2>5, <2>6, <2>7 DEF TileStep, SameLayout, v
<1>. QED  BY <1>2, <1>3

(* A request of one canvas serves the others as it found them.               *)
LEMMA ServiceStep ==
  ASSUME NEW w, Display(w), NEW c \in Canvases, NEW t, ServiceInv(t), Serves(w.svc, t),
         NEW l, Sound(l, t)
  PROVE  LET v == [With(w, c, l) EXCEPT !.svc = t]
         IN TileStep(w, v, c) /\ v.canvas[c] = l /\ v.svc = t /\ v.wall = w.wall
<1>. DEFINE v == [With(w, c, l) EXCEPT !.svc = t]
            canvases == [w.canvas EXCEPT ![c] = l]
<1>1. /\ w \in Screens /\ w.canvas \in [Canvases -> Loaders] /\ l \in Loaders /\ t \in Services
      /\ ServiceInv(w.svc)
  BY DEF Display, Screens, Sound, ServiceInv
<1>2. With(w, c, l) = [w EXCEPT !.canvas = canvases]
  BY <1>1 DEF With, Screens
<1>3. canvases \in [Canvases -> Loaders] /\ canvases[c] = l /\ \A o \in Canvases \ {c} : canvases[o] = w.canvas[o]
  BY <1>1
<1>. HIDE DEF canvases
<1>4. v \in Screens /\ v.svc = t /\ v.wall = w.wall /\ v.canvas = canvases
  <2>1. v = [[w EXCEPT !.canvas = canvases] EXCEPT !.svc = t]
    BY <1>2
  <2>. HIDE DEF v
  <2>. QED  BY <1>1, <1>3, <2>1 DEF Screens
<1>. HIDE DEF v
<1>5. \A o \in Canvases \ {c} : /\ Sound(v.canvas[o], t)
                                /\ Served(w.canvas[o], w.svc) => Served(v.canvas[o], t)
  <2>. SUFFICES ASSUME NEW o \in Canvases \ {c}
                PROVE  Sound(w.canvas[o], t) /\ (Served(w.canvas[o], w.svc) => Served(w.canvas[o], t))
    BY <1>3, <1>4
  <2>1. Sound(w.canvas[o], w.svc)
    BY DEF Display
  <2>. QED  BY <1>1, <2>1, ServesLoaders
<1>6. Display(v)
  BY <1>3, <1>4, <1>5 DEF Display
<1>7. TileStep(w, v, c)
  BY <1>3, <1>4, <1>5, <1>6 DEF TileStep, SameLayout, Provided
<1>. QED  BY <1>3, <1>4, <1>7 DEF v

LEMMA RequestFittedStep ==
  ASSUME NEW w, Display(w), NEW c \in Canvases, w.canvas[c].member # None
  PROVE  LET v == RequestFitted(w, c)
         IN /\ TileStep(w, v, c) /\ Served(v.canvas[c], v.svc) /\ v.wall = w.wall
            /\ v.canvas[c].deferred = w.canvas[c].deferred
            /\ v.canvas[c].member = w.canvas[c].member
<1>. DEFINE l == w.canvas[c]
            t == Asked(w.svc, l.member, l.size, l.gen)
            k == [l EXCEPT !.fitId = w.svc.next, !.asked = l.size]
            v == RequestFitted(w, c)
<1>1. w \in Screens /\ ServiceInv(w.svc) /\ Sound(l, w.svc) /\ l \in Loaders
  BY DEF Display, Sound
<1>2. v = [With(w, c, k) EXCEPT !.svc = t]
  <2>1. With(w, c, k).svc = w.svc
    BY <1>1 DEF With, Screens
  <2>2. v = [With(w, c, k) EXCEPT !.svc = Asked(@, l.member, l.size, l.gen)]
    BY DEF RequestFitted
  <2>. HIDE DEF v, k, l
  <2>. QED  BY <2>1, <2>2
<1>3. k.deferred = l.deferred /\ k.member = l.member
  BY <1>1 DEF Loaders
<1>4. ServiceInv(t) /\ Serves(w.svc, t) /\ Sound(k, t) /\ Served(k, t)
  <2>. HIDE DEF l
  <2>1. l.member # None
    BY DEF l
  <2>. QED  BY <1>1, <2>1, AskingIsSound
<1>. HIDE DEF v, t, k
<1>5. TileStep(w, v, c) /\ v.canvas[c] = k /\ v.svc = t /\ v.wall = w.wall
  BY <1>2, <1>4, ServiceStep
<1>. QED  BY <1>3, <1>4, <1>5 DEF v

LEMMA RequestFullResolutionStep ==
  ASSUME NEW w, Display(w), NEW c \in Canvases, w.canvas[c].member # None
  PROVE  LET v == RequestFullResolution(w, c)
         IN /\ TileStep(w, v, c) /\ v.wall = w.wall
            /\ Provided(w.canvas[c], w.svc) => Provided(v.canvas[c], v.svc)
            /\ v.canvas[c].deferred = w.canvas[c].deferred
<1>. DEFINE l == w.canvas[c]
            t == Asked(w.svc, l.member, "full", l.gen)
            k == [l EXCEPT !.fullId = w.svc.next]
            v == RequestFullResolution(w, c)
<1>1. /\ w \in Screens /\ ServiceInv(w.svc) /\ Sound(l, w.svc) /\ l \in Loaders
      /\ l.member \in Members /\ l.gen \in Gens /\ w.svc.next \in Nat
  BY DEF Display, Sound, Loaders, ServiceInv, Services
<1>2. v = [With(w, c, k) EXCEPT !.svc = t]
  <2>1. With(w, c, k).svc = w.svc
    BY <1>1 DEF With, Screens
  <2>2. v = [With(w, c, k) EXCEPT !.svc = Asked(@, l.member, "full", l.gen)]
    BY DEF RequestFullResolution
  <2>. HIDE DEF v, k, l
  <2>. QED  BY <2>1, <2>2
<1>3. /\ k \in Loaders /\ Alike(l, k) /\ k.error = l.error
      /\ k.deferred = l.deferred /\ k.wanted = l.wanted
  BY <1>1 DEF Loaders, Alike
<1>4. ServiceInv(t) /\ Serves(w.svc, t)
  <2>. HIDE DEF l
  <2>. QED  BY <1>1, AskedServes, ServiceAssumption
<1>. HIDE DEF v, t, k, l
<1>5. Sound(l, t) /\ (Served(l, w.svc) => Served(l, t))
  BY <1>1, <1>4, ServesLoaders
<1>6. Sound(k, t) /\ (Served(l, t) => Served(k, t))
  BY <1>3, <1>5, AlikeIsSound
<1>7. TileStep(w, v, c) /\ v.canvas[c] = k /\ v.svc = t /\ v.wall = w.wall
  BY <1>2, <1>4, <1>6, ServiceStep
<1>8. Wanting(k) => Wanting(l)
  BY <1>3 DEF Wanting, Alike
<1>. QED  BY <1>3, <1>5, <1>6, <1>7, <1>8 DEF Provided, v, l

-----------------------------------------------------------------------------
(* The functions of a canvas *)

(* A source that is new shows nothing, and waits for nothing yet.           *)
LEMMA SetSourceStep ==
  ASSUME NEW w, Display(w), NEW c \in Canvases, NEW member \in Members \cup {None}, NEW gen \in Gens
  PROVE  LET v == SetSource(w, c, member, gen)
         IN /\ TileStep(w, v, c)
            /\ v.canvas[c].deferred = w.canvas[c].deferred
            /\ v.canvas[c].wanted = w.canvas[c].wanted
            /\ v.canvas[c].member = member /\ v.canvas[c].fitted = None
<1>. DEFINE l == w.canvas[c]
            k == [l EXCEPT !.member = member, !.gen = gen, !.fitted = None, !.full = None,
                           !.ready = FALSE, !.error = FALSE]
            v == SetSource(w, c, member, gen)
<1>1. Sound(l, w.svc) /\ l \in Loaders
  BY DEF Display, Sound
<1>2. v = Changed(With(w, c, k), {c})
  BY DEF SetSource
<1>. HIDE DEF v, l
<1>3. k = [[[[[[l EXCEPT !.member = member] EXCEPT !.gen = gen] EXCEPT !.fitted = None]
                 EXCEPT !.full = None] EXCEPT !.ready = FALSE] EXCEPT !.error = FALSE]
  OBVIOUS
<1>4. k \in Loaders
  BY <1>1, <1>3 DEF Loaders
<1>5. /\ k.member = member /\ k.fitted = None /\ k.full = None /\ k.ready = FALSE /\ k.error = FALSE
      /\ k.fitId = l.fitId /\ k.asked = l.asked /\ k.deferred = l.deferred /\ k.wanted = l.wanted
  BY <1>1 DEF Loaders
<1>. HIDE DEF k
<1>6. Sound(k, w.svc)
  <2>1. ~k.ready /\ ~k.error
    BY <1>5
  <2>. QED  BY <1>1, <1>4, <1>5, <2>1 DEF Sound, Shows, Sized, Current
<1>7. TileStep(w, With(w, c, k), c) /\ With(w, c, k).canvas[c] = k
  BY <1>6, WithStep
<1>8. Display(With(w, c, k))
  BY <1>7 DEF TileStep
<1>9. TileStep(With(w, c, k), v, c) /\ v.canvas = With(w, c, k).canvas
  BY <1>2, <1>8, ChangedStep
<1>10. TileStep(w, v, c) /\ v.canvas[c] = k
  BY <1>7, <1>9, TileStepsCompose
<1>. QED  BY <1>5, <1>10 DEF v, l

(* A canvas that may load has asked when it has run; one that is held back  *)
(* is left alone.                                                           *)
LEMMA RequestFittedPreviewStep ==
  ASSUME NEW w, Display(w), NEW c \in Canvases, w.canvas[c].member # None
  PROVE  LET v == RequestFittedPreview(w, c)
         IN /\ TileStep(w, v, c) /\ v.canvas[c].deferred = w.canvas[c].deferred /\ v.wall = w.wall
            /\ v.canvas[c].member = w.canvas[c].member
            /\ ~w.canvas[c].deferred \/ Provided(w.canvas[c], w.svc) => Provided(v.canvas[c], v.svc)
<1>. DEFINE l == w.canvas[c]
            k == [l EXCEPT !.timer = FALSE, !.wanted = l.size]
            u == With(w, c, k)
            v == RequestFittedPreview(w, c)
<1>1. Sound(l, w.svc) /\ l \in Loaders
  BY DEF Display, Sound
<1>2. CASE l.deferred
  <2>1. v = w
    BY <1>2 DEF RequestFittedPreview
  <2>. QED  BY <1>2, <2>1, NoStep
<1>3. CASE ~l.deferred
  <2>1. v = RequestFitted(u, c)
    BY <1>3 DEF RequestFittedPreview
  <2>2. k = [[l EXCEPT !.timer = FALSE] EXCEPT !.wanted = l.size]
    OBVIOUS
  <2>3. k \in Loaders
    BY <1>1, <2>2 DEF Loaders
  <2>4. Alike(l, k) /\ k.error = l.error /\ k.deferred = l.deferred /\ k.member = l.member
    BY <1>1 DEF Loaders, Alike
  <2>. HIDE DEF k, v
  <2>5. Sound(k, w.svc)
    BY <1>1, <2>3, <2>4, AlikeIsSound
  <2>6. TileStep(w, u, c) /\ u.canvas[c] = k /\ u.wall = w.wall
    BY <2>5, WithStep
  <2>. HIDE DEF u
  <2>7. Display(u) /\ u.canvas[c].member # None
    BY <2>4, <2>6 DEF TileStep
  <2>8. /\ TileStep(u, v, c) /\ Served(v.canvas[c], v.svc) /\ v.wall = u.wall
        /\ v.canvas[c].deferred = u.canvas[c].deferred /\ v.canvas[c].member = u.canvas[c].member
    BY <2>1, <2>7, RequestFittedStep
  <2>9. TileStep(w, v, c)
    BY <2>6, <2>8, TileStepsCompose
  <2>. QED  BY <2>4, <2>6, <2>8, <2>9 DEF Provided, v
<1>. QED  BY <1>2, <1>3

(* A canvas that is given a photo is provided for, also when it is held     *)
(* back.                                                                    *)
LEMMA SetPresentationStep ==
  ASSUME NEW w, Display(w), NEW c \in Canvases, NEW member \in Members \cup {None}, NEW gen \in Gens
  PROVE  LET v == SetPresentation(w, c, member, gen)
         IN /\ TileStep(w, v, c) /\ v.canvas[c].deferred = w.canvas[c].deferred
            /\ Provided(v.canvas[c], v.svc)
<1>. DEFINE l == w.canvas[c]
            k == [l EXCEPT !.inspecting = FALSE, !.wanted = NoSize, !.timer = FALSE]
            reset == With(w, c, k)
            shown == SetSource(reset, c, member, gen)
            v == SetPresentation(w, c, member, gen)
<1>1. Sound(l, w.svc) /\ l \in Loaders
  BY DEF Display, Sound
<1>2. v = IF member # None THEN RequestFittedPreview(shown, c) ELSE shown
  BY DEF SetPresentation
<1>3. k = [[[l EXCEPT !.inspecting = FALSE] EXCEPT !.wanted = NoSize] EXCEPT !.timer = FALSE]
  OBVIOUS
<1>4. k \in Loaders
  BY <1>1, <1>3 DEF Loaders
<1>5. Alike(l, k) /\ k.error = l.error /\ k.deferred = l.deferred /\ k.wanted = NoSize
  BY <1>1 DEF Loaders, Alike
<1>. HIDE DEF v, k
<1>6. Sound(k, w.svc)
  BY <1>1, <1>4, <1>5, AlikeIsSound
<1>7. TileStep(w, reset, c) /\ reset.canvas[c] = k
  BY <1>6, WithStep
<1>. HIDE DEF reset
<1>8. Display(reset)
  BY <1>7 DEF TileStep
<1>9. /\ TileStep(reset, shown, c)
      /\ shown.canvas[c].deferred = reset.canvas[c].deferred
      /\ shown.canvas[c].wanted = reset.canvas[c].wanted
      /\ shown.canvas[c].member = member /\ shown.canvas[c].fitted = None
  BY <1>8, SetSourceStep
<1>. HIDE DEF shown
<1>10. TileStep(w, shown, c) /\ Display(shown)
  BY <1>7, <1>9, TileStepsCompose DEF TileStep
<1>11. CASE member = None
  <2>1. Provided(shown.canvas[c], shown.svc)
    BY <1>9, <1>11 DEF Provided, Wanting
  <2>. QED  BY <1>2, <1>5, <1>7, <1>9, <1>10, <1>11, <2>1 DEF v
<1>12. CASE member # None
  <2>1. v = RequestFittedPreview(shown, c)
    BY <1>2, <1>12
  <2>2. shown.canvas[c].deferred => Provided(shown.canvas[c], shown.svc)
    BY <1>5, <1>7, <1>9 DEF Provided, Wanting
  <2>3. /\ TileStep(shown, v, c) /\ v.canvas[c].deferred = shown.canvas[c].deferred
        /\ ~shown.canvas[c].deferred \/ Provided(shown.canvas[c], shown.svc) => Provided(v.canvas[c], v.svc)
    BY <1>9, <1>10, <1>12, <2>1, RequestFittedPreviewStep
  <2>4. TileStep(w, v, c)
    BY <1>10, <2>3, TileStepsCompose
  <2>. QED  BY <1>5, <1>7, <1>9, <2>2, <2>3, <2>4 DEF v
<1>. QED  BY <1>11, <1>12

(* A size that changes keeps the canvas provided for: it asks at once, or   *)
(* shows something until its timer runs.                                    *)
LEMMA RefineStep ==
  ASSUME NEW w, Display(w), NEW c \in Canvases, w.canvas[c].member # None,
         w.canvas[c].fitted # None => Served(w.canvas[c], w.svc),
         ~w.canvas[c].deferred \/ Provided(w.canvas[c], w.svc)
  PROVE  LET v == Refine(w, c)
         IN /\ TileStep(w, v, c) /\ v.canvas[c].deferred = w.canvas[c].deferred
            /\ Provided(v.canvas[c], v.svc)
<1>. DEFINE l == w.canvas[c]
            k == [l EXCEPT !.timer = TRUE]
            v == Refine(w, c)
<1>1. Sound(l, w.svc) /\ l \in Loaders
  BY DEF Display, Sound
<1>2. CASE w.wall.fixed /\ l.fitted # None
  <2>1. v = With(w, c, k)
    BY <1>2 DEF Refine
  <2>2. k \in Loaders /\ Alike(l, k) /\ k.error = l.error /\ k.deferred = l.deferred
    BY <1>1 DEF Loaders, Alike
  <2>. HIDE DEF v, k
  <2>3. Sound(k, w.svc) /\ (Served(l, w.svc) => Served(k, w.svc))
    BY <1>1, <2>2, AlikeIsSound
  <2>4. TileStep(w, v, c) /\ v.canvas[c] = k /\ v.svc = w.svc
    BY <2>1, <2>3, WithStep
  <2>. QED  BY <1>2, <2>2, <2>3, <2>4 DEF Provided, v
<1>3. CASE ~(w.wall.fixed /\ l.fitted # None)
  <2>1. v = RequestFittedPreview(w, c)
    BY <1>3 DEF Refine
  <2>. QED  BY <2>1, RequestFittedPreviewStep
<1>. QED  BY <1>2, <1>3

(* A tile that comes into view was asked for already or asks now.           *)
LEMMA SetLoadingDeferredStep ==
  ASSUME NEW w, Display(w), NEW c \in Canvases, Provided(w.canvas[c], w.svc), NEW deferred \in BOOLEAN
  PROVE  LET v == SetLoadingDeferred(w, c, deferred)
         IN /\ TileStep(w, v, c) /\ v.canvas[c].deferred = deferred
            /\ Provided(v.canvas[c], v.svc)
<1>. DEFINE l == w.canvas[c]
            k == [l EXCEPT !.deferred = deferred]
            set == With(w, c, k)
            still == l.deferred = deferred \/ deferred \/ ~HasSource(l) \/ l.wanted = l.size
            v == SetLoadingDeferred(w, c, deferred)
<1>1. Sound(l, w.svc) /\ l \in Loaders
  BY DEF Display, Sound
<1>2. v = IF still THEN set ELSE Refine(set, c)
  BY DEF SetLoadingDeferred
<1>3. k \in Loaders /\ Alike(l, k) /\ k.error = l.error /\ k.deferred = deferred /\ k.wanted = l.wanted
  BY <1>1 DEF Loaders, Alike
<1>4. k.member = l.member /\ k.fitted = l.fitted /\ l.size \in Targets /\ NoSize \notin Targets
  BY <1>1, <1>3, ServiceAssumption DEF Loaders, Alike, Targets, NoSize
<1>. HIDE DEF v, k
<1>5. Sound(k, w.svc) /\ (Served(l, w.svc) => Served(k, w.svc))
  BY <1>1, <1>3, AlikeIsSound
<1>6. TileStep(w, set, c) /\ set.canvas[c] = k /\ set.svc = w.svc
  BY <1>5, WithStep
<1>7. Display(set)
  BY <1>6 DEF TileStep
<1>. HIDE DEF set
<1>8. CASE still
  <2>1. Wanting(k) => Wanting(l)
    BY <1>3, <1>4, <1>8 DEF Wanting, HasSource
  <2>. QED  BY <1>2, <1>3, <1>5, <1>6, <1>8, <2>1 DEF Provided, v
<1>9. CASE ~still
  <2>1. v = Refine(set, c)
    BY <1>2, <1>9
  <2>2. k.member # None /\ deferred = FALSE /\ l.member # None
    BY <1>4, <1>9 DEF HasSource
  <2>3. k.fitted # None => Served(k, w.svc)
    BY <1>4, <1>5 DEF Provided, Wanting
  <2>4. ~k.deferred
    BY <1>3, <2>2
  <2>5. /\ TileStep(set, v, c) /\ v.canvas[c].deferred = set.canvas[c].deferred
        /\ Provided(v.canvas[c], v.svc)
    BY <1>6, <1>7, <2>1, <2>2, <2>3, <2>4, RefineStep
  <2>6. TileStep(w, v, c)
    BY <1>6, <2>5, TileStepsCompose
  <2>. QED  BY <1>3, <1>6, <2>5, <2>6 DEF v
<1>. QED  BY <1>8, <1>9

(* A canvas that lets go of its pixels waits for nothing.                   *)
LEMMA ReleaseStep ==
  ASSUME NEW w, Display(w), NEW c \in Canvases,
         w.canvas[c].deferred, w.canvas[c].wanted = NoSize, Provided(w.canvas[c], w.svc)
  PROVE  LET v == Release(w, c)
         IN /\ TileStep(w, v, c) /\ v.canvas[c].deferred = w.canvas[c].deferred
            /\ Provided(v.canvas[c], v.svc)
<1>. DEFINE l == w.canvas[c]
            k == [l EXCEPT !.fitted = None, !.full = None, !.ready = FALSE,
                           !.fitId = NoRequest, !.fullId = NoRequest]
            u == With(w, c, k)
            v == Release(w, c)
<1>1. Sound(l, w.svc) /\ l \in Loaders /\ ServiceInv(w.svc) /\ w.svc \in Services
  BY DEF Display, Sound, ServiceInv
<1>2. CASE l.fitted = None /\ l.full = None /\ ~l.ready
  <2>1. v = w
    BY <1>2 DEF Release
  <2>. QED  BY <2>1, NoStep
<1>3. CASE ~(l.fitted = None /\ l.full = None /\ ~l.ready)
  <2>1. v = Changed(u, {c})
    BY <1>3 DEF Release
  <2>2. k = [[[[[l EXCEPT !.fitted = None] EXCEPT !.full = None] EXCEPT !.ready = FALSE]
                EXCEPT !.fitId = NoRequest] EXCEPT !.fullId = NoRequest]
    OBVIOUS
  <2>3. k \in Loaders
    BY <1>1, <2>2 DEF Loaders, NoRequest
  <2>4. /\ k.member = l.member /\ k.fitted = None /\ k.full = None /\ k.ready = FALSE
        /\ k.error = l.error /\ k.fitId = 0 /\ k.deferred = l.deferred /\ k.wanted = l.wanted
    BY <1>1 DEF Loaders, NoRequest
  <2>. HIDE DEF v, k
  <2>5. \A o \in Pending(w.svc) : o.id # 0
    BY <1>1, PendingTypes DEF Pending, Requests, Results
  <2>6. Sound(k, w.svc)
    <3>1. ~k.ready /\ 0 < w.svc.next
      BY <1>1, <2>4 DEF Services
    <3>2. Shows(k)
      BY <1>1, <2>4, <3>1 DEF Sound, Shows
    <3>3. Sized(k, w.svc)
      BY <2>4, <2>5, <3>1 DEF Sized, Pending
    <3>4. Current(k, w.svc)
      BY <2>4, <3>1 DEF Current
    <3>. QED  BY <2>3, <3>2, <3>3, <3>4 DEF Sound
  <2>7. TileStep(w, u, c) /\ u.canvas[c] = k
    BY <2>6, WithStep
  <2>. HIDE DEF u
  <2>8. TileStep(u, v, c) /\ v.canvas = u.canvas /\ v.svc = u.svc
    BY <2>1, <2>7, ChangedStep DEF TileStep
  <2>9. TileStep(w, v, c)
    BY <2>7, <2>8, TileStepsCompose
  <2>10. ~Wanting(k)
    BY <2>4 DEF Wanting
  <2>. QED  BY <2>4, <2>7, <2>8, <2>9, <2>10 DEF Provided, v
<1>. QED  BY <1>2, <1>3

(* A tile that is far away and lets go of its pixels forgets what it asked  *)
(* for, too.                                                                *)
LEMMA ReleasePixelsStep ==
  ASSUME NEW w, Display(w), NEW c \in Canvases,
         w.canvas[c].deferred, Provided(w.canvas[c], w.svc)
  PROVE  LET v == ReleasePixels(w, c)
         IN /\ TileStep(w, v, c) /\ v.canvas[c].deferred = w.canvas[c].deferred
            /\ Provided(v.canvas[c], v.svc)
<1>. DEFINE l == w.canvas[c]
            k == [l EXCEPT !.timer = FALSE, !.wanted = NoSize]
            u == With(w, c, k)
            v == ReleasePixels(w, c)
<1>1. Sound(l, w.svc) /\ l \in Loaders
  BY DEF Display, Sound
<1>2. CASE l.inspecting \/ l.error
  <2>1. v = w
    BY <1>2 DEF ReleasePixels
  <2>. QED  BY <2>1, NoStep
<1>3. CASE ~(l.inspecting \/ l.error)
  <2>1. v = Release(u, c)
    BY <1>3 DEF ReleasePixels
  <2>2. k = [[l EXCEPT !.timer = FALSE] EXCEPT !.wanted = NoSize]
    OBVIOUS
  <2>3. k \in Loaders
    BY <1>1, <2>2 DEF Loaders
  <2>4. Alike(l, k) /\ k.error = l.error /\ k.deferred = l.deferred /\ k.wanted = NoSize
    BY <1>1 DEF Loaders, Alike
  <2>. HIDE DEF v, k
  <2>5. Sound(k, w.svc) /\ (Served(l, w.svc) => Served(k, w.svc))
    BY <1>1, <2>3, <2>4, AlikeIsSound
  <2>6. Wanting(k) => Wanting(l)
    BY <2>4 DEF Wanting, Alike
  <2>7. TileStep(w, u, c) /\ u.canvas[c] = k /\ u.svc = w.svc
    BY <2>5, WithStep
  <2>. HIDE DEF u
  <2>8. Display(u) /\ u.canvas[c].deferred /\ u.canvas[c].wanted = NoSize /\ Provided(u.canvas[c], u.svc)
    BY <2>4, <2>5, <2>6, <2>7 DEF TileStep, Provided
  <2>9. /\ TileStep(u, v, c) /\ v.canvas[c].deferred = u.canvas[c].deferred
        /\ Provided(v.canvas[c], v.svc)
    BY <2>1, <2>8, ReleaseStep
  <2>10. TileStep(w, v, c)
    BY <2>7, <2>9, TileStepsCompose
  <2>. QED  BY <2>4, <2>7, <2>9, <2>10 DEF v
<1>. QED  BY <1>2, <1>3

(* A canvas that is resized, held back or not, is provided for.             *)
LEMMA ResizedStep ==
  ASSUME NEW w, Display(w), NEW c \in Canvases, Provided(w.canvas[c], w.svc), NEW size \in Targets
  PROVE  LET v == Resized(w, c, size)
         IN /\ TileStep(w, v, c) /\ v.canvas[c].deferred = w.canvas[c].deferred
            /\ Provided(v.canvas[c], v.svc)
<1>. DEFINE l == w.canvas[c]
            k == [l EXCEPT !.size = size]
            set == With(w, c, k)
            v == Resized(w, c, size)
<1>1. Sound(l, w.svc) /\ l \in Loaders
  BY DEF Display, Sound
<1>2. v = IF l.size = size \/ ~HasSource(l) THEN set ELSE Refine(set, c)
  BY DEF Resized
<1>3. /\ k \in Loaders /\ Alike(l, k) /\ k.error = l.error /\ k.deferred = l.deferred
      /\ k.wanted = l.wanted /\ k.member = l.member /\ k.fitted = l.fitted
  BY <1>1 DEF Loaders, Alike
<1>. HIDE DEF v, k
<1>4. Sound(k, w.svc) /\ (Served(l, w.svc) => Served(k, w.svc))
  BY <1>1, <1>3, AlikeIsSound
<1>5. TileStep(w, set, c) /\ set.canvas[c] = k /\ set.svc = w.svc
  BY <1>4, WithStep
<1>. HIDE DEF set
<1>6. Wanting(k) <=> Wanting(l)
  BY <1>3 DEF Wanting
<1>7. Display(set) /\ Provided(set.canvas[c], set.svc)
  BY <1>4, <1>5, <1>6 DEF TileStep, Provided
<1>8. CASE l.size = size \/ ~HasSource(l)
  BY <1>2, <1>3, <1>5, <1>7, <1>8 DEF v
<1>9. CASE ~(l.size = size \/ ~HasSource(l))
  <2>1. v = Refine(set, c)
    BY <1>2, <1>9
  <2>2. k.member # None
    BY <1>3, <1>9 DEF HasSource
  <2>3. k.fitted # None => Served(k, w.svc)
    BY <1>5, <1>7 DEF Provided, Wanting
  <2>4. /\ TileStep(set, v, c) /\ v.canvas[c].deferred = set.canvas[c].deferred
        /\ Provided(v.canvas[c], v.svc)
    BY <1>5, <1>7, <2>1, <2>2, <2>3, RefineStep
  <2>5. TileStep(w, v, c)
    BY <1>5, <2>4, TileStepsCompose
  <2>. QED  BY <1>3, <1>5, <2>4, <2>5 DEF v
<1>. QED  BY <1>8, <1>9

-----------------------------------------------------------------------------
(* The wall *)

Good(w) == Display(w) /\ \A c \in Canvases : Provided(w.canvas[c], w.svc)

(* What may be seen is not held back.                                        *)
InView(w, c) == (w.wall.fixed => w.wall.band[c] = "eager") => ~w.canvas[c].deferred

LEMMA GoodStep ==
  ASSUME NEW w, Good(w), NEW c, NEW v, TileStep(w, v, c), c \in Canvases => Provided(v.canvas[c], v.svc)
  PROVE  Good(v)
BY DEF Good, TileStep

LEMMA WallStep ==
  ASSUME NEW w, Display(w), NEW wl \in Walls, wl.fixed = w.wall.fixed, wl.band = w.wall.band, NEW c
  PROVE  LET v == [w EXCEPT !.wall = wl]
         IN TileStep(w, v, c) /\ v.canvas = w.canvas /\ v.svc = w.svc /\ v.wall = wl
<1>. DEFINE v == [w EXCEPT !.wall = wl]
<1>1. w \in Screens
  BY DEF Display
<1>2. v \in Screens /\ v.svc = w.svc /\ v.canvas = w.canvas /\ v.wall = wl
  BY <1>1 DEF Screens
<1>. HIDE DEF v
<1>3. Display(v)
  BY <1>2 DEF Display
<1>. QED  BY <1>2, <1>3 DEF TileStep, SameLayout, v

(* A tile that is placed is in view if it has to be.                        *)
LEMMA PlacedStep ==
  ASSUME NEW w, Good(w), NEW c \in Canvases
  PROVE  LET v == Placed(w, c)
         IN TileStep(w, v, c) /\ Provided(v.canvas[c], v.svc) /\ InView(v, c)
<1>. DEFINE v == Placed(w, c)
            wl == [w.wall EXCEPT !.requested = @ \cup {c}]
            u == [w EXCEPT !.wall = wl]
            held == SetLoadingDeferred(w, c, TRUE)
<1>1. Display(w) /\ Provided(w.canvas[c], w.svc) /\ w \in Screens /\ w.wall \in Walls
  BY DEF Good, Display, Screens
<1>2. w.wall.band[c] \in Places
  BY <1>1 DEF Walls
<1>3. /\ TileStep(w, held, c) /\ held.canvas[c].deferred = TRUE
      /\ Provided(held.canvas[c], held.svc)
  BY <1>1, SetLoadingDeferredStep
<1>4. CASE w.wall.fixed /\ w.wall.band[c] = "eager"
  <2>1. v = SetLoadingDeferred([w EXCEPT !.wall.requested = @ \cup {c}], c, FALSE)
    BY <1>4 DEF Placed
  <2>2. [w EXCEPT !.wall.requested = @ \cup {c}] = u
    BY <1>1 DEF Screens, Walls
  <2>3. wl \in Walls /\ wl.fixed = w.wall.fixed /\ wl.band = w.wall.band
    BY <1>1 DEF Walls
  <2>. HIDE DEF v, wl
  <2>4. TileStep(w, u, c) /\ u.canvas = w.canvas /\ u.svc = w.svc
    BY <1>1, <2>3, WallStep
  <2>. HIDE DEF u
  <2>5. Display(u) /\ Provided(u.canvas[c], u.svc)
    BY <1>1, <2>4 DEF TileStep
  <2>6. TileStep(u, v, c) /\ v.canvas[c].deferred = FALSE /\ Provided(v.canvas[c], v.svc)
    BY <2>1, <2>2, <2>5, SetLoadingDeferredStep
  <2>7. TileStep(w, v, c)
    BY <2>4, <2>6, TileStepsCompose
  <2>. QED  BY <2>6, <2>7 DEF InView, v
<1>5. CASE w.wall.fixed /\ w.wall.band[c] = "near"
  <2>1. v = held
    BY <1>5 DEF Placed
  <2>2. InView(held, c)
    BY <1>3, <1>5 DEF InView, TileStep, SameLayout
  <2>. QED  BY <1>3, <2>1, <2>2
<1>6. CASE w.wall.fixed /\ w.wall.band[c] = "far"
  <2>1. v = ReleasePixels(held, c)
    BY <1>6 DEF Placed
  <2>. HIDE DEF v, held
  <2>2. Display(held) /\ held.canvas[c].deferred
    BY <1>3 DEF TileStep
  <2>3. TileStep(held, v, c) /\ Provided(v.canvas[c], v.svc)
    BY <1>3, <2>1, <2>2, ReleasePixelsStep
  <2>4. TileStep(w, v, c)
    BY <1>3, <2>3, TileStepsCompose
  <2>5. InView(v, c)
    BY <1>6, <2>4 DEF InView, TileStep, SameLayout
  <2>. QED  BY <2>3, <2>4, <2>5 DEF v
<1>7. CASE ~w.wall.fixed
  <2>1. v = SetLoadingDeferred(w, c, FALSE)
    BY <1>7 DEF Placed
  <2>. HIDE DEF v
  <2>2. TileStep(w, v, c) /\ v.canvas[c].deferred = FALSE /\ Provided(v.canvas[c], v.svc)
    BY <1>1, <2>1, SetLoadingDeferredStep
  <2>. QED  BY <2>2 DEF InView, v
<1>. QED  BY <1>2, <1>4, <1>5, <1>6, <1>7 DEF Places

(* A tile that is not asked for yet has a nearest one.                      *)
LEMMA NearestWaiting ==
  ASSUME NEW w, w \in Screens, Waiting(w) # {}
  PROVE  \E c \in Waiting(w) : \A o \in Waiting(w) : Distance[w.wall.band[c]] <= Distance[w.wall.band[o]]
<1>1. \A c \in Waiting(w) : c \in Canvases /\ w.wall.band[c] \in Places
  BY DEF Waiting, Screens, Walls
<1>2. Distance["eager"] = 0 /\ Distance["near"] = 1 /\ Distance["far"] = 2
  BY DEF Distance
<1>3. CASE \E c \in Waiting(w) : w.wall.band[c] = "eager"
  BY <1>1, <1>2, <1>3 DEF Places
<1>4. CASE (\A c \in Waiting(w) : w.wall.band[c] # "eager") /\ \E c \in Waiting(w) : w.wall.band[c] = "near"
  BY <1>1, <1>2, <1>4 DEF Places
<1>5. CASE \A c \in Waiting(w) : w.wall.band[c] # "eager" /\ w.wall.band[c] # "near"
  BY <1>1, <1>2, <1>5 DEF Places
<1>. QED  BY <1>3, <1>4, <1>5

(* Pre-loading lets a tile load, and holds none back.                       *)
LEMMA PrefetchNextStep ==
  ASSUME NEW w, Good(w)
  PROVE  LET v == PrefetchNext(w)
         IN Good(v) /\ \A o \in Canvases : InView(w, o) => InView(v, o)
<1>. DEFINE v == PrefetchNext(w)
<1>1. w \in Screens /\ w.wall \in Walls /\ Display(w)
  BY DEF Good, Display, Screens
<1>2. CASE Waiting(w) = {} \/ Cardinality(w.wall.prefetching) >= PrefetchInFlight
  <2>1. v = w
    BY <1>2 DEF PrefetchNext
  <2>. QED  BY <2>1
<1>3. CASE ~(Waiting(w) = {} \/ Cardinality(w.wall.prefetching) >= PrefetchInFlight)
  <2>1. PICK c \in Waiting(w) :
          v = SetLoadingDeferred([w EXCEPT !.wall.requested = @ \cup {c},
                                           !.wall.prefetching = @ \cup {c}], c, FALSE)
    BY <1>1, <1>3, NearestWaiting DEF PrefetchNext
  <2>2. c \in Canvases
    BY DEF Waiting
  <2>. DEFINE wl == [w.wall EXCEPT !.requested = @ \cup {c}, !.prefetching = @ \cup {c}]
              u == [w EXCEPT !.wall = wl]
  <2>3. [w EXCEPT !.wall.requested = @ \cup {c}, !.wall.prefetching = @ \cup {c}] = u
    BY <1>1 DEF Screens, Walls
  <2>4. wl = [[w.wall EXCEPT !.requested = @ \cup {c}] EXCEPT !.prefetching = @ \cup {c}]
    OBVIOUS
  <2>5. wl \in Walls
    BY <1>1, <2>2, <2>4 DEF Walls
  <2>6. wl.fixed = w.wall.fixed /\ wl.band = w.wall.band
    BY <1>1 DEF Walls
  <2>. HIDE DEF v, wl
  <2>7. TileStep(w, u, c) /\ u.canvas = w.canvas /\ u.svc = w.svc
    BY <1>1, <2>5, <2>6, WallStep
  <2>. HIDE DEF u
  <2>8. Display(u) /\ Provided(u.canvas[c], u.svc)
    BY <2>2, <2>7 DEF TileStep, Good
  <2>9. TileStep(u, v, c) /\ v.canvas[c].deferred = FALSE /\ Provided(v.canvas[c], v.svc)
    BY <2>1, <2>2, <2>3, <2>8, SetLoadingDeferredStep
  <2>10. TileStep(w, v, c)
    BY <2>7, <2>9, TileStepsCompose
  <2>11. Good(v)
    BY <2>9, <2>10, GoodStep
  <2>12. \A o \in Canvases : InView(w, o) => InView(v, o)
    BY <2>9, <2>10 DEF InView, TileStep, SameLayout
  <2>. QED  BY <2>11, <2>12 DEF v
<1>. QED  BY <1>2, <1>3

-----------------------------------------------------------------------------
(* Tiles in turn *)

(* What the tiles are visited for.                                           *)
Legal(visit) ==
  \/ visit.to \in {"place", "prefetch"}
  \/ visit.to = "resize" /\ visit.size \in Targets
  \/ visit.to = "show" /\ visit.gen \in Gens /\ \A c \in Canvases : visit.photo[c] \in Members \cup {None}

(* A visit keeps the display good and in view what is; a tile that is placed *)
(* is in view when it has to be.                                             *)
LEMMA VisitStep ==
  ASSUME NEW w, Good(w), NEW visit, Legal(visit), NEW c, visit.to # "prefetch" => c \in Canvases
  PROVE  LET v == Visited(w, c, visit)
         IN /\ Good(v)
            /\ \A o \in Canvases : InView(w, o) \/ (visit.to = "place" /\ o = c) => InView(v, o)
<1>. DEFINE v == Visited(w, c, visit)
<1>1. Display(w) /\ \A o \in Canvases : Provided(w.canvas[o], w.svc)
  BY DEF Good
<1>2. CASE visit.to = "place"
  <2>1. v = Placed(w, c)
    BY <1>2 DEF Visited
  <2>. HIDE DEF v
  <2>2. TileStep(w, v, c) /\ Provided(v.canvas[c], v.svc) /\ InView(v, c)
    BY <1>2, <2>1, PlacedStep
  <2>3. Good(v)
    BY <2>2, GoodStep
  <2>. QED  BY <2>2, <2>3 DEF TileStep, SameLayout, InView, v
<1>3. CASE visit.to = "resize"
  <2>1. v = Resized(w, c, visit.size)
    BY <1>3 DEF Visited
  <2>2. visit.size \in Targets
    BY <1>3 DEF Legal
  <2>. HIDE DEF v
  <2>3. /\ TileStep(w, v, c) /\ v.canvas[c].deferred = w.canvas[c].deferred
        /\ Provided(v.canvas[c], v.svc)
    BY <1>1, <1>3, <2>1, <2>2, ResizedStep
  <2>4. Good(v)
    BY <2>3, GoodStep
  <2>. QED  BY <1>3, <2>3, <2>4 DEF TileStep, SameLayout, InView, v
<1>4. CASE visit.to = "show"
  <2>1. v = SetPresentation(w, c, visit.photo[c], visit.gen)
    BY <1>4 DEF Visited
  <2>2. visit.gen \in Gens /\ visit.photo[c] \in Members \cup {None}
    BY <1>4 DEF Legal
  <2>. HIDE DEF v
  <2>3. /\ TileStep(w, v, c) /\ v.canvas[c].deferred = w.canvas[c].deferred
        /\ Provided(v.canvas[c], v.svc)
    BY <1>1, <1>4, <2>1, <2>2, SetPresentationStep
  <2>4. Good(v)
    BY <2>3, GoodStep
  <2>. QED  BY <1>4, <2>3, <2>4 DEF TileStep, SameLayout, InView, v
<1>5. CASE visit.to = "prefetch"
  <2>1. v = PrefetchNext(w)
    BY <1>5 DEF Visited
  <2>. HIDE DEF v
  <2>2. Good(v) /\ \A o \in Canvases : InView(w, o) => InView(v, o)
    BY <2>1, PrefetchNextStep
  <2>. QED  BY <1>5, <2>2 DEF v
<1>. QED  BY <1>2, <1>3, <1>4, <1>5 DEF Legal

(* The display after each of some visits.                                    *)
Turn(w, order, visit, f, n) == IF n = 0 THEN w ELSE Visited(f[n - 1], order[n], visit)
MakesTurns(w, order, visit, k, f) == f = [n \in 0..k |-> Turn(w, order, visit, f, n)]

(* They are counted and not taken on trust: the least number of visits that  *)
(* cannot be made would be made by one more than the last.                   *)
LEMMA TurnsAreMade ==
  ASSUME NEW w, NEW order, NEW visit, NEW k \in Nat
  PROVE  \E f : MakesTurns(w, order, visit, k, f)
<1>. DEFINE Makes(j) == \E f : MakesTurns(w, order, visit, j, f)
            Bad == {j \in 0..k : ~Makes(j)}
<1>. SUFFICES ASSUME ~Makes(k) PROVE FALSE
  OBVIOUS
<1>1. PICK j \in Bad : \A i \in Bad : j <= i
  <2>1. IsFiniteSet(0..k) /\ Bad \in SUBSET (0..k) /\ Bad \in SUBSET Nat /\ k \in Bad
    BY FS_Interval
  <2>. HIDE DEF Bad
  <2>2. IsFiniteSet(Bad) /\ Bad # {}
    BY <2>1, FS_Subset
  <2>. QED  BY <2>1, <2>2, HasLeast
<1>2. j \in 0..k /\ ~Makes(j)
  BY <1>1
<1>3. CASE j = 0
  <2>. DEFINE f == [n \in 0..0 |-> w]
  <2>1. f = [n \in 0..0 |-> Turn(w, order, visit, f, n)]
    BY DEF Turn
  <2>. QED  BY <1>2, <1>3, <2>1 DEF MakesTurns
<1>4. CASE j # 0
  <2>1. j - 1 \in 0..k /\ ~(j <= j - 1)
    BY <1>2, <1>4
  <2>2. Makes(j - 1)
    BY <1>1, <2>1
  <2>3. PICK f : MakesTurns(w, order, visit, j - 1, f)
    BY <2>2
  <2>. DEFINE g == [n \in 0..j |-> IF n \in 0..(j - 1) THEN f[n] ELSE Turn(w, order, visit, f, n)]
  <2>4. \A n \in 0..(j - 1) : f[n] = Turn(w, order, visit, f, n)
    BY <2>3 DEF MakesTurns
  <2>5. \A n \in 0..j : Turn(w, order, visit, g, n) = Turn(w, order, visit, f, n)
    <3>. SUFFICES ASSUME NEW n \in 0..j, n # 0 PROVE g[n - 1] = f[n - 1]
      BY DEF Turn
    <3>1. n - 1 \in 0..j /\ n - 1 \in 0..(j - 1)
      BY <1>2
    <3>. QED  BY <3>1
  <2>6. \A n \in 0..j : g[n] = Turn(w, order, visit, g, n)
    BY <2>4, <2>5
  <2>7. g = [n \in 0..j |-> Turn(w, order, visit, g, n)]
    BY <2>6
  <2>. QED  BY <1>2, <2>7 DEF MakesTurns
<1>. QED  BY <1>3, <1>4

(* However many tiles are visited, the display stays good.                  *)
LEMMA TurnsKeepGood ==
  ASSUME NEW w, Good(w), NEW order, Len(order) \in Nat, NEW visit, Legal(visit),
         \A k \in 1..Len(order) : visit.to # "prefetch" => order[k] \in Canvases
  PROVE  LET v == InTurn(w, order, visit)
         IN /\ Good(v)
            /\ \A o \in Canvases :
                 InView(w, o) \/ (visit.to = "place" /\ \E k \in 1..Len(order) : order[k] = o) => InView(v, o)
<1>. DEFINE v == InTurn(w, order, visit)
            last == Len(order)
            f == CHOOSE g : MakesTurns(w, order, visit, last, g)
<1>1. v = f[last]
  BY DEF InTurn, MakesTurns, Turn
<1>2. MakesTurns(w, order, visit, last, f)
  BY TurnsAreMade
<1>. HIDE DEF f
<1>3. \A n \in 0..last : f[n] = IF n = 0 THEN w ELSE Visited(f[n - 1], order[n], visit)
  BY <1>2 DEF MakesTurns, Turn
<1>. DEFINE Stays(n) ==
              /\ Good(f[n])
              /\ \A o \in Canvases :
                   InView(w, o) \/ (visit.to = "place" /\ \E k \in 1..n : order[k] = o) => InView(f[n], o)
            Bad == {n \in 0..last : ~Stays(n)}
<1>4. Stays(0)
  BY <1>3
<1>5. ASSUME NEW n \in 1..last, Stays(n - 1) PROVE Stays(n)
  <2>1. n \in 0..last /\ n # 0 /\ f[n] = Visited(f[n - 1], order[n], visit)
    BY <1>3
  <2>2. /\ Good(f[n])
        /\ \A o \in Canvases : InView(f[n - 1], o) \/ (visit.to = "place" /\ o = order[n]) => InView(f[n], o)
    BY <1>5, <2>1, VisitStep
  <2>3. \A k \in 1..n : k \in 1..(n - 1) \/ k = n
    OBVIOUS
  <2>. QED  BY <1>5, <2>2, <2>3
<1>6. Bad = {}
  <2>. SUFFICES ASSUME Bad # {} PROVE FALSE
    OBVIOUS
  <2>1. PICK n \in Bad : \A i \in Bad : n <= i
    <3>1. Bad \in SUBSET (0..last) /\ Bad \in SUBSET Nat
      OBVIOUS
    <3>. HIDE DEF Bad
    <3>2. IsFiniteSet(0..last)
      BY FS_Interval
    <3>3. IsFiniteSet(Bad)
      BY <3>1, <3>2, FS_Subset
    <3>. QED  BY <3>1, <3>3, HasLeast
  <2>2. n \in 0..last /\ ~Stays(n)
    BY <2>1
  <2>3. n # 0
    BY <1>4, <2>2
  <2>. HIDE DEF Stays
  <2>4. n \in 1..last /\ n - 1 \in 0..last /\ ~(n <= n - 1)
    BY <2>2, <2>3
  <2>5. Stays(n - 1)
    BY <2>1, <2>4
  <2>. QED  BY <1>5, <2>2, <2>4, <2>5
<1>7. Stays(last)
  <2>1. last \in 0..last
    OBVIOUS
  <2>. HIDE DEF Stays
  <2>. QED  BY <1>6, <2>1
<1>. QED  BY <1>1, <1>7 DEF v

(* Every tile has its turn.                                                 *)
LEMMA AllTilesInTurn ==
  LET order == SetToSeq(Canvases)
  IN /\ Len(order) \in Nat
     /\ \A k \in 1..Len(order) : order[k] \in Canvases
     /\ \A c \in Canvases : \E k \in 1..Len(order) : order[k] = c
<1>. DEFINE n == Cardinality(Canvases)
            order == SetToSeq(Canvases)
<1>1. IsFiniteSet(Canvases)
  BY PreviewAssumption
<1>2. n \in Nat /\ ExistsBijection(1..n, Canvases)
  BY <1>1, FS_CardinalityType
<1>3. \E f \in [1..n -> Canvases] : IsInjective(f)
  BY <1>2 DEF ExistsBijection, Bijection, Injection, IsInjective
<1>4. order \in [1..n -> Canvases] /\ IsInjective(order)
  BY <1>3 DEF SetToSeq
<1>5. Len(order) = n
  <2>. HIDE DEF order
  <2>. QED  BY <1>2, <1>4
<1>6. order \in Injection(1..n, Canvases)
  BY <1>4 DEF Injection, IsInjective
<1>7. IsFiniteSet(1..n) /\ Cardinality(1..n) = n
  BY <1>2, FS_Interval
<1>8. order \in Surjection(1..n, Canvases)
  <2>. HIDE DEF order
  <2>. QED  BY <1>1, <1>6, <1>7, FS_Injection
<1>. QED  BY <1>2, <1>4, <1>5, <1>8 DEF Surjection

LEMMA WallChanged ==
  ASSUME NEW w, Good(w), NEW wl \in Walls
  PROVE  LET v == [w EXCEPT !.wall = wl]
         IN Good(v) /\ v.canvas = w.canvas /\ v.svc = w.svc /\ v.wall = wl
<1>. DEFINE v == [w EXCEPT !.wall = wl]
<1>1. w \in Screens
  BY DEF Good, Display
<1>2. v \in Screens /\ v.svc = w.svc /\ v.canvas = w.canvas /\ v.wall = wl
  BY <1>1 DEF Screens
<1>. HIDE DEF v
<1>. QED  BY <1>2 DEF Good, Display, v

(* Once the tiles are placed, whatever is to be seen may load.               *)
LEMMA UpdateLoadingWindowStep ==
  ASSUME NEW w, Good(w)
  PROVE  LET v == UpdateLoadingWindow(w)
         IN Good(v) /\ \A c \in Canvases : InView(v, c)
<1>. DEFINE visit == [to |-> "place"]
            order == SetToSeq(Canvases)
            placed == InTurn(w, order, visit)
            v == UpdateLoadingWindow(w)
            wl == [placed.wall EXCEPT !.pump = TRUE]
<1>1. v = IF w.wall.fixed THEN [placed EXCEPT !.wall.pump = TRUE] ELSE placed
  BY DEF UpdateLoadingWindow, AllTiles
<1>2. Legal(visit) /\ visit.to = "place"
  BY DEF Legal
<1>3. /\ Len(order) \in Nat
      /\ \A k \in 1..Len(order) : order[k] \in Canvases
      /\ \A c \in Canvases : \E k \in 1..Len(order) : order[k] = c
  BY AllTilesInTurn
<1>. HIDE DEF visit, order
<1>4. Good(placed) /\ \A c \in Canvases : InView(placed, c)
  BY <1>2, <1>3, TurnsKeepGood
<1>. HIDE DEF placed, v
<1>5. placed \in Screens /\ placed.wall \in Walls
  BY <1>4 DEF Good, Display, Screens
<1>6. CASE ~w.wall.fixed
  BY <1>1, <1>4, <1>6 DEF v
<1>7. CASE w.wall.fixed
  <2>1. v = [placed EXCEPT !.wall = wl]
    BY <1>1, <1>5, <1>7 DEF Screens, Walls
  <2>2. wl \in Walls /\ wl.fixed = placed.wall.fixed /\ wl.band = placed.wall.band
    BY <1>5 DEF Walls
  <2>. HIDE DEF wl
  <2>3. Good(v) /\ v.canvas = placed.canvas /\ v.wall = wl
    BY <1>4, <2>1, <2>2, WallChanged
  <2>. QED  BY <1>4, <2>2, <2>3 DEF InView, v
<1>. QED  BY <1>6, <1>7

(* A wall that is laid out again is in view.                                *)
LEMMA RelayoutStep ==
  ASSUME NEW w, Good(w), NEW size \in Targets
  PROVE  LET v == Relayout(w, size)
         IN Good(v) /\ \A c \in Canvases : InView(v, c)
<1>. DEFINE visit == [to |-> "resize", size |-> size]
            order == SetToSeq(Canvases)
            resized == InTurn(w, order, visit)
<1>1. Relayout(w, size) = UpdateLoadingWindow(resized)
  BY DEF Relayout, AllTiles
<1>2. Legal(visit)
  BY DEF Legal
<1>3. Len(order) \in Nat /\ \A k \in 1..Len(order) : order[k] \in Canvases
  BY AllTilesInTurn
<1>. HIDE DEF visit, order
<1>4. Good(resized)
  BY <1>2, <1>3, TurnsKeepGood
<1>. HIDE DEF resized
<1>. QED  BY <1>1, <1>4, UpdateLoadingWindowStep

(* A round of pre-loading holds nothing back.                               *)
LEMMA PumpPrefetchStep ==
  ASSUME NEW w, Good(w)
  PROVE  LET v == PumpPrefetch(w)
         IN Good(v) /\ \A c \in Canvases : InView(w, c) => InView(v, c)
<1>. DEFINE visit == [to |-> "prefetch"]
            order == [n \in 1..PrefetchInFlight |-> n]
            wl == [w.wall EXCEPT !.pump = FALSE]
            ran == [w EXCEPT !.wall = wl]
            next == InTurn(ran, order, visit)
            v == PumpPrefetch(w)
<1>1. w \in Screens /\ w.wall \in Walls
  BY DEF Good, Display, Screens
<1>2. [w EXCEPT !.wall.pump = FALSE] = ran
  BY <1>1 DEF Screens, Walls
<1>3. v = ran \/ v = next
  BY <1>2 DEF PumpPrefetch
<1>4. wl \in Walls /\ wl.fixed = w.wall.fixed /\ wl.band = w.wall.band
  BY <1>1 DEF Walls
<1>5. Legal(visit) /\ visit.to = "prefetch"
  BY DEF Legal
<1>6. Len(order) = PrefetchInFlight /\ PrefetchInFlight \in Nat
  BY PreviewAssumption
<1>. HIDE DEF visit, order, wl, v
<1>7. Good(ran) /\ ran.canvas = w.canvas /\ ran.wall = wl
  BY <1>4, WallChanged
<1>8. \A c \in Canvases : InView(w, c) => InView(ran, c)
  BY <1>4, <1>7 DEF InView
<1>. HIDE DEF ran
<1>9. Good(next) /\ \A c \in Canvases : InView(ran, c) => InView(next, c)
  BY <1>5, <1>6, <1>7, TurnsKeepGood
<1>. HIDE DEF next
<1>. QED  BY <1>3, <1>7, <1>8, <1>9 DEF v

-----------------------------------------------------------------------------
(* An answer is delivered *)

(* What a loader hears leaves it sound against the service that has handed   *)
(* the answer out.  The answer to its own request is one for the photo it    *)
(* shows, and one that is not has not answered anything it waits for.        *)
LEMMA HeardIsSound ==
  ASSUME NEW s, ServiceInv(s), s.posted # << >>, NEW l, Sound(l, s), Provided(l, s)
  PROVE  LET k == OnImageReady(l, Head(s.posted))
         IN Sound(k, Delivered(s)) /\ Provided(k, Delivered(s)) /\ k.deferred = l.deferred
<1>. DEFINE t == Delivered(s)
            res == Head(s.posted)
            k == OnImageReady(l, res)
<1>1. /\ ServiceInv(t) /\ res \in Results /\ t.next = s.next
      /\ Asking(t) = Asking(s) /\ Posted(s) = Posted(t) \cup {res}
  BY DeliveredLeaves
<1>2. Truthful(s) /\ l \in Loaders /\ Shows(l) /\ Sized(l, s) /\ Current(l, s)
  BY DEF ServiceInv, Sound
<1>3. Pending(s) = Pending(t) \cup {res} /\ res \in Posted(s)
  BY <1>1 DEF Pending
<1>4. \A o \in Pending(s) : o.id = res.id => SamePhoto(o, res)
  BY <1>2, <1>3 DEF Truthful
<1>5. res.image # None => res.image \in Images /\ res.image.member = res.member
  BY <1>1, <1>2, <1>3 DEF Truthful, Results
<1>6. res.member \in Members /\ res.member # None
  BY <1>1, ServiceAssumption DEF Results
<1>. HIDE DEF t, res
<1>7. CASE ~Reports(l, res)
  <2>1. k = l
    BY <1>7 DEF OnImageReady
  <2>2. res.id = l.fitId => ~l.ready /\ \A o \in Pending(s) : ~Awaits(l, o)
    <3>. SUFFICES ASSUME res.id = l.fitId PROVE ~l.ready /\ \A o \in Pending(s) : ~Awaits(l, o)
      OBVIOUS
    <3>1. ~Awaits(l, res)
      BY <1>7 DEF Reports, Owns, Awaits
    <3>2. ~l.ready
      BY <1>2, <1>3, <3>1 DEF Current
    <3>3. \A o \in Pending(s) : ~Awaits(l, o)
      BY <1>4, <3>1 DEF Awaits, SamePhoto
    <3>. QED  BY <3>2, <3>3
  <2>3. Sized(l, t)
    BY <1>1, <1>2, <1>3, <2>2 DEF Sized
  <2>4. Current(l, t)
    BY <1>1, <1>2, <1>3 DEF Current
  <2>5. Served(l, s) => Served(l, t)
    BY <1>3, <2>2 DEF Served, Awaits
  <2>. HIDE DEF k
  <2>. QED  BY <1>2, <2>1, <2>3, <2>4, <2>5 DEF Sound, Provided, k, t, res
<1>8. CASE Reports(l, res) /\ res.image = None
  <2>1. k = [[l EXCEPT !.error = TRUE] EXCEPT !.ready = FALSE]
    BY <1>8 DEF OnImageReady
  <2>. HIDE DEF k
  <2>2. k \in Loaders
    BY <1>2, <2>1 DEF Loaders
  <2>3. /\ k.member = l.member /\ k.fitted = l.fitted /\ k.full = l.full /\ k.ready = FALSE
        /\ k.error = TRUE /\ k.fitId = l.fitId /\ k.asked = l.asked /\ k.deferred = l.deferred
    BY <1>2, <2>1 DEF Loaders
  <2>4. l.member # None
    BY <1>6, <1>8 DEF Reports, Owns
  <2>5. ~k.ready /\ k.error
    BY <2>3
  <2>6. Shows(k)
    BY <1>2, <2>3, <2>4, <2>5 DEF Shows
  <2>7. Sized(k, t) /\ Current(k, t)
    BY <1>1, <1>2, <2>3, <2>5 DEF Sized, Current
  <2>. QED  BY <2>2, <2>3, <2>5, <2>6, <2>7 DEF Sound, Provided, Served, k, t, res
<1>9. CASE Reports(l, res) /\ res.image # None /\ res.id = l.fitId
  <2>1. k = [l EXCEPT !.fitted = res.image, !.error = FALSE, !.ready = TRUE]
    BY <1>9 DEF OnImageReady
  <2>2. k = [[[l EXCEPT !.fitted = res.image] EXCEPT !.error = FALSE] EXCEPT !.ready = TRUE]
    BY <2>1
  <2>. HIDE DEF k
  <2>3. k \in Loaders
    BY <1>2, <1>5, <1>9, <2>2 DEF Loaders
  <2>4. /\ k.member = l.member /\ k.gen = l.gen /\ k.fitted = res.image /\ k.full = l.full
        /\ k.ready = TRUE /\ k.error = FALSE
        /\ k.fitId = l.fitId /\ k.asked = l.asked /\ k.deferred = l.deferred
    BY <1>2, <2>2 DEF Loaders
  <2>5. k.ready /\ ~k.error
    BY <2>4
  <2>6. Shows(k)
    BY <1>2, <1>5, <1>9, <2>4, <2>5 DEF Shows, Reports, Owns
  <2>7. res.image.size = l.asked
    BY <1>2, <1>3, <1>9 DEF Sized
  <2>8. Sized(k, t)
    BY <1>1, <1>2, <2>4, <2>7 DEF Sized
  <2>9. Current(k, t)
    BY <1>1, <1>2, <1>3, <1>4, <1>9, <2>4 DEF Current, Awaits, SamePhoto, Reports, Owns
  <2>. QED  BY <2>3, <2>4, <2>5, <2>6, <2>8, <2>9 DEF Sound, Provided, Served, k, t, res
<1>10. CASE Reports(l, res) /\ res.image # None /\ res.id # l.fitId
  <2>1. k = [l EXCEPT !.full = res.image]
    BY <1>10 DEF OnImageReady
  <2>. HIDE DEF k
  <2>2. k \in Loaders
    BY <1>2, <1>5, <1>10, <2>1 DEF Loaders
  <2>3. /\ k.member = l.member /\ k.gen = l.gen /\ k.fitted = l.fitted /\ k.full = res.image
        /\ k.ready = l.ready /\ k.error = l.error /\ k.wanted = l.wanted
        /\ k.fitId = l.fitId /\ k.asked = l.asked /\ k.deferred = l.deferred
    BY <1>2, <2>1 DEF Loaders
  <2>4. Shows(k)
    BY <1>2, <1>5, <1>10, <2>3 DEF Shows, Reports, Owns
  <2>5. Sized(k, t)
    BY <1>1, <1>2, <1>3, <1>10, <2>3 DEF Sized
  <2>6. Current(k, t)
    BY <1>1, <1>2, <1>3, <2>3 DEF Current, Awaits
  <2>7. Served(l, s) => Served(k, t)
    BY <1>3, <1>10, <2>3 DEF Served, Awaits
  <2>8. Wanting(k) => Wanting(l)
    BY <2>3 DEF Wanting
  <2>. QED  BY <2>2, <2>3, <2>4, <2>5, <2>6, <2>7, <2>8 DEF Sound, Provided, k, t, res
<1>. QED  BY <1>7, <1>8, <1>9, <1>10

-----------------------------------------------------------------------------
(* The inductive invariant *)

(* The display is good, and no tile that is to be seen is held back.         *)
Inv == /\ Good(Screen) /\ disk \in [Members -> Versions]
       /\ \A c \in Canvases : InView(Screen, c)

(* An action that makes of the screen a good one in which the same, or more, *)
(* is in view.                                                               *)
LEMMA BecomesGood ==
  ASSUME Inv, NEW v, Good(v), \A c \in Canvases : InView(Screen, c) => InView(v, c),
         Becomes(v), UNCHANGED disk
  PROVE  Inv'
<1>1. v \in Screens /\ svc' = v.svc /\ canvas' = v.canvas /\ wall' = v.wall /\ disk' = disk
  BY DEF Good, Display, Becomes
<1>2. Screen'.svc = v.svc /\ Screen'.canvas = v.canvas /\ Screen'.wall = v.wall
  BY <1>1 DEF Screen
<1>3. Screen' \in Screens
  BY <1>1 DEF Screen, Screens
<1>4. Good(Screen)'
  BY <1>2, <1>3 DEF Good, Display
<1>5. \A c \in Canvases : InView(Screen, c)'
  BY <1>2 DEF Inv, InView
<1>. QED  BY <1>1, <1>4, <1>5 DEF Inv

(* An action on one canvas.                                                 *)
LEMMA TileBecomesGood ==
  ASSUME Inv, NEW c \in Canvases, NEW v, TileStep(Screen, v, c),
         v.canvas[c].deferred = Screen.canvas[c].deferred, Provided(v.canvas[c], v.svc),
         Becomes(v), UNCHANGED disk
  PROVE  Inv'
<1>1. Good(v)
  BY GoodStep DEF Inv
<1>2. \A o \in Canvases : InView(Screen, o) => InView(v, o)
  BY DEF TileStep, SameLayout, InView
<1>. QED  BY <1>1, <1>2, BecomesGood

LEMMA NewServiceIsSound == ServiceInv(NewService)
<1>. DEFINE s == NewService
            cache == [k \in {} |-> None]
<1>1. cache \in Caches /\ DOMAIN cache = {}
  <2>1. cache \in [{} -> Images] /\ {} \in SUBSET Keys
    OBVIOUS
  <2>. QED  BY <2>1 DEF Caches
<1>. HIDE DEF cache
<1>2. /\ s.next = 1 /\ s.queue = << >> /\ s.decoding = {} /\ s.posted = << >>
      /\ s.cache = cache /\ s.order = << >> /\ s.bytes = 0
  BY DEF NewService, cache
<1>3. s \in Services
  <2>1. /\ << >> \in Seq(Requests) /\ << >> \in Seq(Results) /\ << >> \in Seq(Keys)
        /\ {} \in SUBSET Requests /\ 1 \in Nat \ {0} /\ 0 \in Nat
    OBVIOUS
  <2>. QED  BY <1>1, <2>1 DEF NewService, Services, cache
<1>4. Pending(s) = {} /\ Posted(s) = {}
  BY <1>2 DEF Pending, Asking, Posted, Elements
<1>5. Cached(s) = 0
  <2>1. Cached(s) = Total([k \in {} |-> Bytes(cache[k])])
    BY <1>1, <1>2 DEF Cached, BytesOf
  <2>. QED  BY <2>1, TotalOfNone
<1>6. InBudget(s)
  BY <1>1, <1>2, <1>5, FS_EmptySet, ServiceAssumption DEF InBudget
<1>7. Truthful(s)
  BY <1>1, <1>2, <1>4 DEF Truthful
<1>. QED  BY <1>3, <1>6, <1>7 DEF ServiceInv

LEMMA NewCanvasIsSound ==
  ASSUME NEW fixed \in BOOLEAN
  PROVE  LET l == NewCanvas(fixed)
         IN Sound(l, NewService) /\ Provided(l, NewService)
<1>. DEFINE l == NewCanvas(fixed)
            first == CHOOSE s \in Targets : TRUE
<1>1. first \in Targets
  BY PreviewAssumption
<1>. HIDE DEF first
<1>2. l \in Loaders
  BY <1>1 DEF NewCanvas, Loaders, Gens, NoRequest, NoSize, first
<1>3. /\ l.member = None /\ l.fitted = None /\ l.full = None /\ ~l.ready /\ ~l.error
      /\ l.fitId = 0 /\ l.wanted = NoSize
  BY DEF NewCanvas, NoRequest
<1>4. Pending(NewService) = {} /\ Asking(NewService) = {} /\ Posted(NewService) = {} /\ NewService.next = 1
  BY DEF Pending, Asking, Posted, Elements, NewService
<1>. HIDE DEF l
<1>. QED  BY <1>2, <1>3, <1>4 DEF Sound, Shows, Sized, Current, Provided, Wanting, l

(* A wall that opens is good, in view, and has asked for what it shows.     *)
LEMMA OpenedStep ==
  ASSUME NEW fixed \in BOOLEAN, NEW band \in [Canvases -> Places], NEW photo \in [Canvases -> Members]
  PROVE  LET v == Opened(fixed, band, photo)
         IN Good(v) /\ \A c \in Canvases : InView(v, c)
<1>. DEFINE w == [svc |-> NewService, canvas |-> [c \in Canvases |-> NewCanvas(fixed)],
                  wall |-> [fixed |-> fixed, band |-> band,
                            requested |-> {}, prefetching |-> {}, pump |-> FALSE]]
            gen == CHOOSE g \in Generations : TRUE
            visit == [to |-> "show", photo |-> photo, gen |-> gen]
            order == SetToSeq(Canvases)
            shown == InTurn(w, order, visit)
<1>1. Opened(fixed, band, photo) = UpdateLoadingWindow(shown)
  BY DEF Opened, AllTiles
<1>2. gen \in Gens
  BY PreviewAssumption DEF Gens
<1>. HIDE DEF gen
<1>3. Legal(visit)
  BY <1>2 DEF Legal
<1>4. Len(order) \in Nat /\ \A k \in 1..Len(order) : order[k] \in Canvases
  BY AllTilesInTurn
<1>5. Good(w)
  <2>1. [fixed |-> fixed, band |-> band, requested |-> {}, prefetching |-> {}, pump |-> FALSE] \in Walls
    BY DEF Walls
  <2>2. ServiceInv(NewService) /\ NewService \in Services
    BY NewServiceIsSound DEF ServiceInv
  <2>3. \A c \in Canvases : Sound(NewCanvas(fixed), NewService) /\ Provided(NewCanvas(fixed), NewService)
    BY NewCanvasIsSound
  <2>4. [c \in Canvases |-> NewCanvas(fixed)] \in [Canvases -> Loaders]
    BY <2>3 DEF Sound
  <2>5. w \in Screens
    BY <2>1, <2>2, <2>4 DEF Screens
  <2>. QED  BY <2>2, <2>3, <2>5 DEF Good, Display
<1>. HIDE DEF w, visit, order
<1>6. Good(shown)
  BY <1>3, <1>4, <1>5, TurnsKeepGood
<1>. HIDE DEF shown
<1>. QED  BY <1>1, <1>6, UpdateLoadingWindowStep

(* Whatever the wall is laid out as, its tiles are in one of three places.  *)
LEMMA LayoutsArePlaces ==
  \A fixed \in BOOLEAN : Layouts(fixed) \subseteq [Canvases -> Places]
BY DEF Layouts, InFull, Bands, Places

LEMMA InitIsGood == Init => Inv
<1>. SUFFICES ASSUME Init PROVE Inv
  OBVIOUS
<1>1. PICK fixed \in BOOLEAN, photo \in [Canvases -> Members] : \E band \in Layouts(fixed) :
        LET w == Opened(fixed, band, photo) IN svc = w.svc /\ canvas = w.canvas /\ wall = w.wall
  BY DEF Init
<1>9. PICK band \in Layouts(fixed) :
        LET w == Opened(fixed, band, photo) IN svc = w.svc /\ canvas = w.canvas /\ wall = w.wall
  BY <1>1
<1>. DEFINE w == Opened(fixed, band, photo)
<1>2. band \in [Canvases -> Places]
  BY LayoutsArePlaces
<1>3. Good(w) /\ \A c \in Canvases : InView(w, c)
  BY <1>2, OpenedStep
<1>. HIDE DEF w
<1>4. svc = w.svc /\ canvas = w.canvas /\ wall = w.wall
  BY <1>9 DEF w
<1>5. Screen.svc = w.svc /\ Screen.canvas = w.canvas /\ Screen.wall = w.wall
  BY <1>4 DEF Screen
<1>6. Screen \in Screens
  BY <1>3, <1>4 DEF Screen, Screens, Good, Display
<1>7. Good(Screen) /\ \A c \in Canvases : InView(Screen, c)
  BY <1>3, <1>5, <1>6 DEF Good, Display, InView
<1>8. disk \in [Members -> Versions]
  BY PreviewAssumption DEF Init, Versions
<1>. QED  BY <1>7, <1>8 DEF Inv

-----------------------------------------------------------------------------
(* The steps *)

(* What the invariant says of the variables.                                *)
LEMMA ScreenTypes ==
  ASSUME Inv
  PROVE  /\ Screen.svc = svc /\ Screen.canvas = canvas /\ Screen.wall = wall
         /\ Good(Screen) /\ Display(Screen) /\ ServiceInv(svc) /\ wall \in Walls
         /\ canvas \in [Canvases -> Loaders]
         /\ \A c \in Canvases : Sound(canvas[c], svc) /\ Provided(canvas[c], svc)
<1>1. Screen.svc = svc /\ Screen.canvas = canvas /\ Screen.wall = wall
  BY DEF Screen
<1>. QED  BY <1>1 DEF Inv, Good, Display, Screens

LEMMA PresentKeepsInv ==
  ASSUME Inv, NEW c \in Canvases, Present(c) PROVE Inv'
<1>1. PICK member \in Members \cup {None}, gen \in Generations :
        Becomes(SetPresentation(Screen, c, member, gen))
  BY DEF Present
<1>. DEFINE v == SetPresentation(Screen, c, member, gen)
<1>2. gen \in Gens
  BY DEF Gens
<1>3. /\ TileStep(Screen, v, c) /\ v.canvas[c].deferred = Screen.canvas[c].deferred
      /\ Provided(v.canvas[c], v.svc)
  BY <1>2, ScreenTypes, SetPresentationStep
<1>4. UNCHANGED disk
  BY DEF Present
<1>. HIDE DEF v
<1>5. Becomes(v)
  BY <1>1 DEF v
<1>. QED  BY <1>3, <1>4, <1>5, TileBecomesGood

LEMMA ScrollKeepsInv ==
  ASSUME Inv, Scroll PROVE Inv'
<1>1. PICK band \in Bands \ {wall.band} : Becomes(UpdateLoadingWindow([Screen EXCEPT !.wall.band = band]))
  BY DEF Scroll
<1>. DEFINE wl == [wall EXCEPT !.band = band]
            w == [Screen EXCEPT !.wall = wl]
            v == UpdateLoadingWindow(w)
<1>2. [Screen EXCEPT !.wall.band = band] = w
  BY ScreenTypes DEF Screen
<1>3. wl \in Walls
  BY ScreenTypes DEF Walls, Bands, Places
<1>. HIDE DEF wl
<1>4. Good(w)
  BY <1>3, ScreenTypes, WallChanged
<1>. HIDE DEF w
<1>5. Good(v) /\ \A c \in Canvases : InView(v, c)
  BY <1>4, UpdateLoadingWindowStep
<1>6. Becomes(v) /\ UNCHANGED disk
  BY <1>1, <1>2 DEF Scroll
<1>. HIDE DEF v
<1>. QED  BY <1>5, <1>6, BecomesGood

LEMMA ResizeKeepsInv ==
  ASSUME Inv, Resize PROVE Inv'
<1>1. PICK size \in Targets, band \in Layouts(wall.fixed) :
        Becomes(Relayout([Screen EXCEPT !.wall.band = band], size))
  BY DEF Resize
<1>. DEFINE wl == [wall EXCEPT !.band = band]
            w == [Screen EXCEPT !.wall = wl]
            v == Relayout(w, size)
<1>2. [Screen EXCEPT !.wall.band = band] = w
  BY ScreenTypes DEF Screen
<1>3. wl \in Walls
  <2>1. wall \in Walls /\ wall.fixed \in BOOLEAN
    BY ScreenTypes DEF Walls
  <2>2. band \in [Canvases -> Places]
    BY <2>1, LayoutsArePlaces
  <2>. QED  BY <2>1, <2>2 DEF Walls
<1>. HIDE DEF wl
<1>4. Good(w)
  BY <1>3, ScreenTypes, WallChanged
<1>5. Becomes(v) /\ UNCHANGED disk
  BY <1>1, <1>2 DEF Resize
<1>. HIDE DEF w
<1>6. Good(v) /\ \A c \in Canvases : InView(v, c)
  BY <1>4, RelayoutStep
<1>. HIDE DEF v
<1>. QED  BY <1>5, <1>6, BecomesGood

LEMMA SetTileWidthKeepsInv ==
  ASSUME Inv, SetTileWidth PROVE Inv'
<1>1. PICK fixed \in BOOLEAN :
        \E size \in Targets, band \in Layouts(fixed) :
          Becomes(Relayout([Screen EXCEPT !.wall = [wall EXCEPT !.fixed = fixed, !.band = band,
                                                                !.requested = {}, !.prefetching = {}]],
                           size))
  BY Zenon DEF SetTileWidth
<1>. DEFINE wl(band) == [wall EXCEPT !.fixed = fixed, !.band = band, !.requested = {}, !.prefetching = {}]
<1>2. PICK size \in Targets, band \in Layouts(fixed) :
        Becomes(Relayout([Screen EXCEPT !.wall = wl(band)], size))
  BY <1>1, Zenon
<1>. DEFINE w == [Screen EXCEPT !.wall = wl(band)]
            v == Relayout(w, size)
<1>3. band \in [Canvases -> Places]
  BY LayoutsArePlaces
<1>4. wl(band) \in Walls
  <2>1. wl(band) = [[[[wall EXCEPT !.fixed = fixed] EXCEPT !.band = band]
                            EXCEPT !.requested = {}] EXCEPT !.prefetching = {}]
    OBVIOUS
  <2>2. wall \in Walls
    BY ScreenTypes
  <2>. HIDE DEF wl
  <2>. QED  BY <1>3, <2>1, <2>2 DEF Walls
<1>. HIDE DEF wl
<1>5. Good(w)
  BY <1>4, ScreenTypes, WallChanged
<1>6. Becomes(v) /\ UNCHANGED disk
  BY <1>2 DEF SetTileWidth
<1>. HIDE DEF w
<1>7. Good(v) /\ \A c \in Canvases : InView(v, c)
  BY <1>5, RelayoutStep
<1>. HIDE DEF v
<1>. QED  BY <1>6, <1>7, BecomesGood

LEMMA SetInspectingKeepsInv ==
  ASSUME Inv, NEW c \in Canvases, SetInspecting(c) PROVE Inv'
<1>. DEFINE l == canvas[c]
            k == [l EXCEPT !.inspecting = ~@]
            set == With(Screen, c, k)
            v == IF ~l.inspecting /\ l.full = None /\ HasSource(l)
                   THEN RequestFullResolution(set, c) ELSE set
<1>1. Becomes(v) /\ UNCHANGED disk
  BY DEF SetInspecting
<1>2. Sound(l, svc) /\ Provided(l, svc) /\ l \in Loaders /\ Screen.canvas[c] = l
  BY ScreenTypes DEF Sound
<1>. HIDE DEF l
<1>3. k \in Loaders
  <2>1. (~l.inspecting) \in BOOLEAN
    BY Zenon
  <2>. QED  BY <1>2, <2>1 DEF Loaders
<1>4. /\ Alike(l, k) /\ k.error = l.error /\ k.deferred = l.deferred
      /\ k.wanted = l.wanted /\ k.member = l.member
  BY <1>2 DEF Loaders, Alike
<1>. HIDE DEF k
<1>5. Sound(k, svc) /\ Provided(k, svc)
  BY <1>2, <1>3, <1>4, AlikeIsSound DEF Provided, Wanting, Alike
<1>6. TileStep(Screen, set, c) /\ set.canvas[c] = k /\ set.svc = svc
  BY <1>5, ScreenTypes, WithStep
<1>. HIDE DEF set
<1>7. Display(set)
  BY <1>6 DEF TileStep
<1>8. CASE v = set
  BY <1>1, <1>2, <1>4, <1>5, <1>6, <1>8, TileBecomesGood
<1>9. CASE v # set
  <2>1. v = RequestFullResolution(set, c) /\ k.member # None
    BY <1>4, <1>9 DEF HasSource
  <2>. HIDE DEF v
  <2>2. /\ TileStep(set, v, c) /\ v.canvas[c].deferred = set.canvas[c].deferred
        /\ Provided(set.canvas[c], set.svc) => Provided(v.canvas[c], v.svc)
    BY <1>6, <1>7, <2>1, RequestFullResolutionStep
  <2>3. TileStep(Screen, v, c)
    BY <1>6, <2>2, TileStepsCompose
  <2>. QED  BY <1>1, <1>2, <1>4, <1>5, <1>6, <2>2, <2>3, TileBecomesGood
<1>. QED  BY <1>8, <1>9

LEMMA RetryFittedKeepsInv ==
  ASSUME Inv, NEW c \in Canvases, RetryFitted(c) PROVE Inv'
<1>. DEFINE l == canvas[c]
            k == [l EXCEPT !.error = FALSE]
            cleared == With(Screen, c, k)
            asked == RequestFitted(cleared, c)
            v == Changed(asked, {c})
<1>1. Becomes(v) /\ UNCHANGED disk /\ l.error
  BY DEF RetryFitted
<1>2. Sound(l, svc) /\ l \in Loaders /\ Screen.canvas[c] = l
  BY ScreenTypes DEF Sound
<1>3. l.member # None
  BY <1>1, <1>2 DEF Sound, Shows
<1>. HIDE DEF l
<1>4. k \in Loaders /\ Alike(l, k) /\ ~k.error /\ k.deferred = l.deferred /\ k.member = l.member
  BY <1>2 DEF Loaders, Alike
<1>. HIDE DEF k
<1>5. Sound(k, svc)
  BY <1>2, <1>4, AlikeIsSound
<1>6. TileStep(Screen, cleared, c) /\ cleared.canvas[c] = k
  BY <1>5, ScreenTypes, WithStep
<1>. HIDE DEF cleared
<1>7. Display(cleared)
  BY <1>6 DEF TileStep
<1>8. /\ TileStep(cleared, asked, c) /\ Served(asked.canvas[c], asked.svc)
      /\ asked.canvas[c].deferred = cleared.canvas[c].deferred
  BY <1>3, <1>4, <1>6, <1>7, RequestFittedStep
<1>. HIDE DEF asked
<1>9. Display(asked)
  BY <1>8 DEF TileStep
<1>10. TileStep(asked, v, c) /\ v.canvas = asked.canvas /\ v.svc = asked.svc
  BY <1>9, ChangedStep
<1>. HIDE DEF v
<1>11. TileStep(Screen, v, c)
  BY <1>6, <1>8, <1>10, TileStepsCompose
<1>12. Provided(v.canvas[c], v.svc)
  BY <1>8, <1>10 DEF Provided
<1>. QED  BY <1>1, <1>2, <1>4, <1>6, <1>8, <1>10, <1>11, <1>12, TileBecomesGood

LEMMA RescaleKeepsInv ==
  ASSUME Inv, NEW c \in Canvases, Rescale(c) PROVE Inv'
<1>1. PICK size \in Targets \ {canvas[c].size} :
        LET fit == RequestFittedPreview(With(Screen, c, [canvas[c] EXCEPT !.size = size]), c)
        IN Becomes(IF canvas[c].inspecting THEN RequestFullResolution(fit, c) ELSE fit)
  BY DEF Rescale
<1>. DEFINE l == canvas[c]
            k == [l EXCEPT !.size = size]
            set == With(Screen, c, k)
            fit == RequestFittedPreview(set, c)
            v == IF l.inspecting THEN RequestFullResolution(fit, c) ELSE fit
<1>2. Becomes(v) /\ UNCHANGED disk /\ l.member # None
  BY <1>1 DEF Rescale, HasSource
<1>3. Sound(l, svc) /\ Provided(l, svc) /\ l \in Loaders /\ Screen.canvas[c] = l
  BY ScreenTypes DEF Sound
<1>. HIDE DEF l
<1>4. /\ k \in Loaders /\ Alike(l, k) /\ k.error = l.error /\ k.deferred = l.deferred
      /\ k.wanted = l.wanted /\ k.member = l.member
  BY <1>3 DEF Loaders, Alike
<1>. HIDE DEF k
<1>5. Sound(k, svc) /\ Provided(k, svc)
  BY <1>3, <1>4, AlikeIsSound DEF Provided, Wanting, Alike
<1>6. TileStep(Screen, set, c) /\ set.canvas[c] = k /\ set.svc = svc
  BY <1>5, ScreenTypes, WithStep
<1>. HIDE DEF set
<1>7. Display(set) /\ set.canvas[c].member # None /\ Provided(set.canvas[c], set.svc)
  BY <1>2, <1>4, <1>5, <1>6 DEF TileStep
<1>8. /\ TileStep(set, fit, c) /\ fit.canvas[c].deferred = set.canvas[c].deferred
      /\ fit.canvas[c].member # None /\ Provided(fit.canvas[c], fit.svc)
  BY <1>7, RequestFittedPreviewStep
<1>9. TileStep(Screen, fit, c) /\ Display(fit)
  BY <1>6, <1>8, TileStepsCompose DEF TileStep
<1>10. CASE ~l.inspecting
  BY <1>2, <1>3, <1>4, <1>6, <1>8, <1>9, <1>10, TileBecomesGood
<1>11. CASE l.inspecting
  <2>1. v = RequestFullResolution(fit, c)
    BY <1>11
  <2>. HIDE DEF fit, v
  <2>2. /\ TileStep(fit, v, c) /\ v.canvas[c].deferred = fit.canvas[c].deferred
        /\ Provided(fit.canvas[c], fit.svc) => Provided(v.canvas[c], v.svc)
    BY <1>8, <1>9, <2>1, RequestFullResolutionStep
  <2>3. TileStep(Screen, v, c)
    BY <1>9, <2>2, TileStepsCompose
  <2>. QED  BY <1>2, <1>3, <1>4, <1>6, <1>8, <2>2, <2>3, TileBecomesGood
<1>. QED  BY <1>10, <1>11

LEMMA RefinementTimerKeepsInv ==
  ASSUME Inv, NEW c \in Canvases, RefinementTimer(c) PROVE Inv'
<1>. DEFINE l == canvas[c]
            k == [l EXCEPT !.timer = FALSE]
            ran == With(Screen, c, k)
            v == IF HasSource(l) THEN RequestFittedPreview(ran, c) ELSE ran
<1>1. Becomes(v) /\ UNCHANGED disk
  BY DEF RefinementTimer
<1>2. Sound(l, svc) /\ Provided(l, svc) /\ l \in Loaders /\ Screen.canvas[c] = l
  BY ScreenTypes DEF Sound
<1>. HIDE DEF l
<1>3. /\ k \in Loaders /\ Alike(l, k) /\ k.error = l.error /\ k.deferred = l.deferred
      /\ k.wanted = l.wanted /\ k.member = l.member
  BY <1>2 DEF Loaders, Alike
<1>. HIDE DEF k
<1>4. Sound(k, svc) /\ Provided(k, svc)
  BY <1>2, <1>3, AlikeIsSound DEF Provided, Wanting, Alike
<1>5. TileStep(Screen, ran, c) /\ ran.canvas[c] = k /\ ran.svc = svc
  BY <1>4, ScreenTypes, WithStep
<1>. HIDE DEF ran
<1>6. Display(ran)
  BY <1>5 DEF TileStep
<1>7. CASE ~HasSource(l)
  BY <1>1, <1>2, <1>3, <1>4, <1>5, <1>7, TileBecomesGood
<1>8. CASE HasSource(l)
  <2>1. v = RequestFittedPreview(ran, c) /\ k.member # None
    BY <1>3, <1>8 DEF HasSource
  <2>. HIDE DEF v
  <2>2. /\ TileStep(ran, v, c) /\ v.canvas[c].deferred = ran.canvas[c].deferred
        /\ ~ran.canvas[c].deferred \/ Provided(ran.canvas[c], ran.svc) => Provided(v.canvas[c], v.svc)
    BY <1>5, <1>6, <2>1, RequestFittedPreviewStep
  <2>3. TileStep(Screen, v, c)
    BY <1>5, <2>2, TileStepsCompose
  <2>. QED  BY <1>1, <1>2, <1>3, <1>4, <1>5, <2>2, <2>3, TileBecomesGood
<1>. QED  BY <1>7, <1>8

LEMMA PumpTimerKeepsInv ==
  ASSUME Inv, PumpTimer PROVE Inv'
<1>1. /\ Good(PumpPrefetch(Screen))
      /\ \A c \in Canvases : InView(Screen, c) => InView(PumpPrefetch(Screen), c)
  BY ScreenTypes, PumpPrefetchStep
<1>2. Becomes(PumpPrefetch(Screen)) /\ UNCHANGED disk
  BY DEF PumpTimer
<1>. QED  BY <1>1, <1>2, BecomesGood

(* A worker serves every canvas as it found it.                              *)
LEMMA ServiceKeepsInv ==
  ASSUME Inv, ServiceInv(svc'), Serves(svc, svc'), UNCHANGED <<canvas, wall, disk>>
  PROVE  Inv'
<1>1. canvas' = canvas /\ wall' = wall /\ disk' = disk
  OBVIOUS
<1>2. Screen'.svc = svc' /\ Screen'.canvas = canvas /\ Screen'.wall = wall
  BY <1>1 DEF Screen
<1>3. Screen' \in Screens
  BY <1>1, ScreenTypes DEF Screen, Screens, ServiceInv
<1>4. \A c \in Canvases : Sound(canvas[c], svc') /\ (Served(canvas[c], svc) => Served(canvas[c], svc'))
  BY ScreenTypes, ServesLoaders
<1>5. Good(Screen)'
  BY <1>2, <1>3, <1>4, ScreenTypes DEF Good, Display, Provided
<1>6. \A c \in Canvases : InView(Screen, c)'
  BY <1>2, ScreenTypes DEF Inv, InView
<1>. QED  BY <1>1, <1>5, <1>6 DEF Inv

LEMMA TakeKeepsInv ==
  ASSUME Inv, Take PROVE Inv'
<1>1. svc' = Taken(svc) /\ svc.queue # << >> /\ UNCHANGED <<canvas, wall, disk>>
  BY DEF Take, CanTake
<1>2. ServiceInv(svc') /\ Serves(svc, svc')
  BY <1>1, ScreenTypes, TakenServes
<1>. QED  BY <1>1, <1>2, ServiceKeepsInv

LEMMA DecodeKeepsInv ==
  ASSUME Inv, NEW req \in svc.decoding, Decode(req) PROVE Inv'
<1>1. ServiceInv(svc) /\ req.member \in Members
  BY ScreenTypes DEF ServiceInv, Services, Requests
<1>. DEFINE ver == disk[req.member]
<1>2. ver \in Versions
  BY <1>1 DEF Inv
<1>3. svc' = NotDecoded(svc, req) \/ svc' = Decoded(svc, req, ver)
  BY DEF Decode
<1>. HIDE DEF ver
<1>4. ServiceInv(svc') /\ Serves(svc, svc')
  BY <1>1, <1>2, <1>3, DecodedServes, NotDecodedServes
<1>5. UNCHANGED <<canvas, wall, disk>>
  BY DEF Decode
<1>. QED  BY <1>4, <1>5, ServiceKeepsInv

LEMMA DeliverKeepsInv ==
  ASSUME Inv, Deliver PROVE Inv'
<1>. DEFINE res == Head(svc.posted)
            canvases == [c \in Canvases |-> OnImageReady(canvas[c], res)]
            heard == [svc |-> Delivered(svc), canvas |-> canvases, wall |-> wall]
            tiles == {c \in Canvases : Reports(canvas[c], res)}
            v == Changed(heard, tiles)
<1>1. Becomes(v) /\ UNCHANGED disk /\ svc.posted # << >>
  BY DEF Deliver
<1>2. ServiceInv(svc) /\ ServiceInv(Delivered(svc)) /\ Delivered(svc) \in Services
  BY <1>1, ScreenTypes, DeliveredLeaves DEF ServiceInv
<1>3. \A c \in Canvases : LET k == OnImageReady(canvas[c], res)
                          IN Sound(k, Delivered(svc)) /\ Provided(k, Delivered(svc)) /\ k.deferred = canvas[c].deferred
  BY <1>1, ScreenTypes, HeardIsSound
<1>. HIDE DEF res, tiles
<1>4. \A c \in Canvases : /\ Sound(canvases[c], Delivered(svc)) /\ Provided(canvases[c], Delivered(svc))
                          /\ canvases[c].deferred = canvas[c].deferred
  BY <1>3
<1>5. canvases \in [Canvases -> Loaders]
  BY <1>3 DEF Sound
<1>. HIDE DEF canvases
<1>6. heard \in Screens /\ heard.svc = Delivered(svc) /\ heard.canvas = canvases /\ heard.wall = wall
  BY <1>2, <1>5, ScreenTypes DEF Screens
<1>. HIDE DEF heard
<1>7. Display(heard) /\ \A c \in Canvases : Provided(heard.canvas[c], heard.svc)
  BY <1>2, <1>4, <1>6 DEF Display
<1>8. TileStep(heard, v, 0) /\ v.canvas = heard.canvas /\ v.svc = heard.svc
  BY <1>7, ChangedStep
<1>. HIDE DEF v
<1>9. Good(v)
  BY <1>7, <1>8 DEF Good, TileStep
<1>10. \A c \in Canvases : InView(Screen, c) => InView(v, c)
  BY <1>4, <1>6, <1>8, ScreenTypes DEF InView, TileStep, SameLayout
<1>. QED  BY <1>1, <1>9, <1>10, BecomesGood

LEMMA ReplaceKeepsInv ==
  ASSUME Inv, NEW m \in Members, Replace(m) PROVE Inv'
<1>1. svc' = svc /\ canvas' = canvas /\ wall' = wall
  BY DEF Replace
<1>2. Screen' = Screen
  BY <1>1 DEF Screen
<1>3. disk' \in [Members -> Versions]
  <2>1. disk \in [Members -> Versions] /\ disk[m] < MaxVersion /\ disk' = [disk EXCEPT ![m] = @ + 1]
    BY DEF Inv, Replace
  <2>2. disk[m] \in Versions /\ disk[m] + 1 \in Versions
    BY <2>1, PreviewAssumption DEF Versions
  <2>. QED  BY <2>1, <2>2
<1>. QED  BY <1>2, <1>3 DEF Inv

LEMMA NextKeepsInv == Inv /\ [Next]_vars => Inv'
<1>. SUFFICES ASSUME Inv, [Next]_vars PROVE Inv'
  OBVIOUS
<1>1. ASSUME NEW c \in Canvases, Present(c) PROVE Inv'
  BY <1>1, PresentKeepsInv
<1>2. ASSUME NEW c \in Canvases, SetInspecting(c) PROVE Inv'
  BY <1>2, SetInspectingKeepsInv
<1>3. ASSUME NEW c \in Canvases, RetryFitted(c) PROVE Inv'
  BY <1>3, RetryFittedKeepsInv
<1>4. ASSUME NEW c \in Canvases, Rescale(c) PROVE Inv'
  BY <1>4, RescaleKeepsInv
<1>5. CASE Scroll
  BY <1>5, ScrollKeepsInv
<1>6. CASE Resize
  BY <1>6, ResizeKeepsInv
<1>7. CASE SetTileWidth
  BY <1>7, SetTileWidthKeepsInv
<1>8. CASE PumpTimer
  BY <1>8, PumpTimerKeepsInv
<1>9. ASSUME NEW c \in Canvases, RefinementTimer(c) PROVE Inv'
  BY <1>9, RefinementTimerKeepsInv
<1>10. CASE Take
  BY <1>10, TakeKeepsInv
<1>11. ASSUME NEW req \in svc.decoding, Decode(req) PROVE Inv'
  BY <1>11, DecodeKeepsInv
<1>12. CASE Deliver
  BY <1>12, DeliverKeepsInv
<1>13. ASSUME NEW m \in Members, Replace(m) PROVE Inv'
  BY <1>13, ReplaceKeepsInv
<1>14. CASE UNCHANGED vars
  <2>1. svc' = svc /\ canvas' = canvas /\ wall' = wall /\ disk' = disk
    BY <1>14 DEF vars
  <2>2. Screen' = Screen
    BY <2>1 DEF Screen
  <2>. QED  BY <2>1, <2>2 DEF Inv
<1>. QED  BY <1>1, <1>2, <1>3, <1>4, <1>5, <1>6, <1>7, <1>8, <1>9, <1>10, <1>11, <1>12, <1>13, <1>14
          DEF Next, User, Timers, Work

LEMMA AlwaysInv == Spec => []Inv
BY InitIsGood, NextKeepsInv, PTL DEF Spec

-----------------------------------------------------------------------------
(* What the runs check, for any photos, canvases, budget and number of       *)
(* events                                                                    *)

(* The images of a canvas are of the photo it was last given, whatever       *)
(* PreviewLoader is answered late, and once its last fitted request is       *)
(* answered the one it shows is of the size that asked for.                  *)
THEOREM PixelsAreAlwaysOfTheSource == Spec => []PixelsAreOfTheSource
<1>1. ASSUME Inv PROVE PixelsAreOfTheSource
  <2>. SUFFICES ASSUME NEW c \in Canvases
                PROVE  /\ \A image \in {canvas[c].fitted, canvas[c].full} \ {None} : image.member = canvas[c].member
                       /\ canvas[c].ready => canvas[c].fitted # None
                       /\ canvas[c].ready /\ ~Outstanding(canvas[c].fitId) =>
                            canvas[c].fitted.size = canvas[c].asked
    BY DEF PixelsAreOfTheSource
  <2>1. Shows(canvas[c]) /\ Sized(canvas[c], svc)
    BY <1>1, ScreenTypes DEF Sound
  <2>2. ~Outstanding(canvas[c].fitId) => \A o \in Pending(svc) : o.id # canvas[c].fitId
    BY DEF Outstanding, Pending, Asking, Posted, Elements
  <2>. QED  BY <2>1, <2>2 DEF Shows, Sized
<1>. QED  BY <1>1, AlwaysInv, PTL

(* QtImageService: however often one image is decoded, and whatever became   *)
(* of its file in between, what is cached fits the budget and is paid for.   *)
THEOREM CacheAlwaysKeepsItsBudget == Spec => []CacheKeepsItsBudget
<1>1. ASSUME Inv PROVE CacheKeepsItsBudget
  BY <1>1, ScreenTypes DEF ServiceInv, InBudget, CacheKeepsItsBudget
<1>. QED  BY <1>1, AlwaysInv, PTL

(* WallSurface and ImageCanvas: at rest nothing that is to be seen is left   *)
(* without its photo or a report of why.                                     *)
THEOREM NothingSeenIsEverForgotten == Spec => []NothingSeenIsForgotten
<1>1. ASSUME Inv PROVE NothingSeenIsForgotten
  <2>. SUFFICES ASSUME Idle, NEW c \in Canvases, Seen(c)
                PROVE  canvas[c].ready \/ canvas[c].error
    BY DEF NothingSeenIsForgotten
  <2>1. Pending(svc) = {}
    BY DEF Idle, Pending, Asking, Posted, Elements
  <2>2. ~canvas[c].deferred
    BY <1>1, ScreenTypes DEF Inv, InView, Seen
  <2>3. Served(canvas[c], svc)
    BY <1>1, <2>2, ScreenTypes DEF Provided, Wanting, Seen, HasSource
  <2>. QED  BY <2>1, <2>3 DEF Served
<1>. QED  BY <1>1, AlwaysInv, PTL
=============================================================================
