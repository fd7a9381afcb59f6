--------------------------- MODULE LFUCacheProofs ---------------------------
(***************************************************************************)
(* Proofs about LFUCache, for every number of symbols, cache size, maximum *)
(* frequency and length of the run.                                        *)
(***************************************************************************)
EXTENDS LFUCache, DataTheorems

LEMMA NullOutside == NULL \notin Books /\ NULL \notin Slots /\ NULL \notin Freqs
  BY CacheAssumption DEF Books, Slots, Freqs

LEMMA Ranges ==
  /\ Books \subseteq Nat /\ Slots \subseteq Nat /\ Freqs \subseteq Nat
  /\ 0 \in Slots /\ 0 \in Freqs /\ 1 \in Freqs
  /\ IsFiniteSet(Books)
<1>1. IsFiniteSet(Books)
  BY CacheAssumption, FS_Interval DEF Books
<1> QED
  BY <1>1, CacheAssumption DEF Books, Slots, Freqs

(* Taking a book out of its bucket: lists and counts stay exact.             *)
LEMMA RemoveFromBucketExact ==
  ASSUME NEW L \in Links(Books, Freqs), NEW C \in [Freqs -> Nat],
         NEW at \in [Books -> Freqs \cup {NULL}], NEW age \in [Books -> Nat],
         Chained(L, Books, Freqs, at, age), Counted(C, at),
         NEW b \in Books, NEW f \in Freqs, at[b] = f
  PROVE  /\ RemoveFromBucket(L, b, f) \in Links(Books, Freqs)
         /\ Chained(RemoveFromBucket(L, b, f), Books, Freqs, [at EXCEPT ![b] = NULL], age)
         /\ [C EXCEPT ![f] = @ - 1] \in [Freqs -> Nat]
         /\ Counted([C EXCEPT ![f] = @ - 1], [at EXCEPT ![b] = NULL])
<1> DEFINE U   == Unlink(L, b, f)
           R   == RemoveFromBucket(L, b, f)
           at2 == [at EXCEPT ![b] = NULL]
           C2  == [C EXCEPT ![f] = @ - 1]
<1>1. U \in Links(Books, Freqs)
  BY LinksType
<1>2. Chained(U, Books, Freqs, at2, age)
  BY NullOutside, UnlinkChained
<1>3. R \in Links(Books, Freqs)
  <2> HIDE DEF U
  <2> QED
    BY <1>1 DEF RemoveFromBucket, Links, U
<1>4. Chained(R, Books, Freqs, at2, age)
  <2>1. /\ R.head = U.head /\ R.tail = U.tail
        /\ \A n \in Books : at2[n] # NULL =>
             R.prev[n] = U.prev[n] /\ R.next[n] = U.next[n] /\ age[n] = age[n]
    BY <1>1 DEF RemoveFromBucket, Links
  <2>2. at2 \in [Books -> Freqs \cup {NULL}]
    OBVIOUS
  <2> HIDE DEF U, R, at2
  <2> QED
    BY <1>1, <1>2, <1>3, <2>1, <2>2, NullOutside, ChainedSame
<1>5. \A g \in Freqs : {x \in Books : at2[x] = g} =
                       IF g = f THEN {x \in Books : at[x] = g} \ {b}
                                ELSE {x \in Books : at[x] = g}
  BY NullOutside
<1>6. \A g \in Freqs : IsFiniteSet({x \in Books : at[x] = g})
  BY Ranges, FS_Subset
<1>7. Cardinality({x \in Books : at2[x] = f}) = Cardinality({x \in Books : at[x] = f}) - 1
  <2> DEFINE S == {x \in Books : at[x] = f}
  <2>1. {x \in Books : at2[x] = f} = S \ {b} /\ IsFiniteSet(S) /\ b \in S
    BY <1>5, <1>6
  <2> HIDE DEF S
  <2>2. Cardinality(S \ {b}) = Cardinality(S) - 1
    BY <2>1, FS_RemoveElement
  <2> QED
    BY <2>1, <2>2 DEF S
<1>8. Cardinality({x \in Books : at2[x] = f}) \in Nat
  BY <1>5, <1>6, FS_RemoveElement, FS_CardinalityType
<1>9. C2 \in [Freqs -> Nat] /\ Counted(C2, at2)
  <2>1. C[f] = Cardinality({x \in Books : at[x] = f})
    BY DEF Counted
  <2>2. C[f] - 1 = Cardinality({x \in Books : at2[x] = f}) /\ C[f] - 1 \in Nat
    BY <1>7, <1>8, <2>1
  <2>3. ASSUME NEW g \in Freqs PROVE C2[g] = Cardinality({x \in Books : at2[x] = g})
    <3>1. CASE g = f
      BY <2>2, <3>1
    <3>2. CASE g # f
      BY <1>5, <3>2 DEF Counted
    <3> QED BY <3>1, <3>2
  <2>4. C2 \in [Freqs -> Nat]
    BY <2>2
  <2> HIDE DEF C2, at2
  <2> QED BY <2>3, <2>4 DEF Counted
<1> QED
  BY <1>3, <1>4, <1>9

(* Adding a book that is in no bucket, later than every other access.        *)
LEMMA AddToBucketExact ==
  ASSUME NEW L \in Links(Books, Freqs), NEW C \in [Freqs -> Nat],
         NEW at \in [Books -> Freqs \cup {NULL}], NEW age \in [Books -> Nat],
         Chained(L, Books, Freqs, at, age), Counted(C, at),
         NEW b \in Books, NEW f \in Freqs, at[b] = NULL,
         NEW now \in Nat, \A x \in Books : age[x] < now
  PROVE  /\ AddToBucket(L, b, f) \in Links(Books, Freqs)
         /\ Chained(AddToBucket(L, b, f), Books, Freqs,
                    [at EXCEPT ![b] = f], [age EXCEPT ![b] = now])
         /\ [C EXCEPT ![f] = @ + 1] \in [Freqs -> Nat]
         /\ Counted([C EXCEPT ![f] = @ + 1], [at EXCEPT ![b] = f])
<1> DEFINE at2 == [at EXCEPT ![b] = f]
           C2  == [C EXCEPT ![f] = @ + 1]
<1>1. AddToBucket(L, b, f) \in Links(Books, Freqs)
  BY LinksType DEF AddToBucket
<1>2. Chained(AddToBucket(L, b, f), Books, Freqs, at2, [age EXCEPT ![b] = now])
  BY NullOutside, PushHeadChained DEF AddToBucket
<1>3. \A g \in Freqs : {x \in Books : at2[x] = g} =
                       IF g = f THEN {x \in Books : at[x] = g} \cup {b}
                                ELSE {x \in Books : at[x] = g}
  BY NullOutside
<1>4. \A g \in Freqs : IsFiniteSet({x \in Books : at[x] = g})
  BY Ranges, FS_Subset
<1>5. b \notin {x \in Books : at[x] = f}
  BY NullOutside
<1>6. Cardinality({x \in Books : at2[x] = f}) = Cardinality({x \in Books : at[x] = f}) + 1
  <2> DEFINE S == {x \in Books : at[x] = f}
  <2>1. {x \in Books : at2[x] = f} = S \cup {b} /\ IsFiniteSet(S) /\ b \notin S
    BY <1>3, <1>4, <1>5
  <2> HIDE DEF S
  <2>2. Cardinality(S \cup {b}) = Cardinality(S) + 1
    BY <2>1, FS_AddElement
  <2> QED
    BY <2>1, <2>2 DEF S
<1>7. C2 \in [Freqs -> Nat] /\ Counted(C2, at2)
  <2>1. C[f] + 1 = Cardinality({x \in Books : at2[x] = f})
    BY <1>6 DEF Counted
  <2>2. ASSUME NEW g \in Freqs PROVE C2[g] = Cardinality({x \in Books : at2[x] = g})
    <3>1. CASE g = f
      BY <2>1, <3>1
    <3>2. CASE g # f
      BY <1>3, <3>2 DEF Counted
    <3> QED BY <3>1, <3>2
  <2>3. C2 \in [Freqs -> Nat]
    OBVIOUS
  <2> HIDE DEF C2, at2
  <2> QED BY <2>2, <2>3 DEF Counted
<1> QED
  BY <1>1, <1>2, <1>7

(* The book evict_lfu() picks is cached and a worst one, if any is cached.   *)
LEMMA VictimWorst ==
  ASSUME TypeOK, BucketsChained, MinFrequencyExact, Cached # {}
  PROVE  /\ Victim \in Cached
         /\ frequency[Victim] = min_frequency
         /\ \A x \in Cached \ {Victim} :
              \/ frequency[Victim] < frequency[x]
              \/ frequency[Victim] = frequency[x] /\ last_use[Victim] < last_use[x]
<1>1. PICK y \in Cached : frequency[y] = min_frequency
  BY DEF MinFrequencyExact
<1>2. /\ min_frequency \in Freqs /\ links \in Links(Books, Freqs)
      /\ last_use \in [Books -> Nat]
      /\ y \in Books /\ BucketOf[y] = min_frequency
  BY <1>1, CacheAssumption DEF TypeOK, BucketOf, Cached
<1>3. /\ Victim \in Books
      /\ BucketOf[Victim] = min_frequency
      /\ \A m \in Books : BucketOf[m] = min_frequency /\ m # Victim => last_use[Victim] < last_use[m]
  <2>1. Chained(links, Books, Freqs, BucketOf, last_use)
    BY DEF BucketsChained
  <2>2. /\ links.tail[min_frequency] \in Books
        /\ BucketOf[links.tail[min_frequency]] = min_frequency
        /\ \A m \in Books : BucketOf[m] = min_frequency /\ m # links.tail[min_frequency]
              => last_use[links.tail[min_frequency]] < last_use[m]
    BY <1>2, <2>1, NullOutside, TailIsOldest
  <2> QED
    BY <2>2 DEF Victim
<1>4. Victim \in Cached /\ frequency[Victim] = min_frequency
  BY <1>2, <1>3, NullOutside DEF BucketOf, Cached
<1>5. ASSUME NEW x \in Cached, x # Victim
      PROVE  \/ frequency[Victim] < frequency[x]
             \/ frequency[Victim] = frequency[x] /\ last_use[Victim] < last_use[x]
  <2>1. min_frequency <= frequency[x]
    BY Zenon DEF MinFrequencyExact
  <2>0. frequency[x] \in Nat /\ min_frequency \in Nat
    BY <1>2, Ranges DEF TypeOK, Cached
  <2>2. frequency[x] = min_frequency => BucketOf[x] = min_frequency
    BY DEF BucketOf, Cached
  <2> QED
    BY <1>3, <1>4, <1>5, <2>0, <2>1, <2>2 DEF Cached
<1> QED
  BY <1>4, <1>5

(* A full cache has a victim. *)
LEMMA FullHasVictim ==
  ASSUME TypeOK, SlotsPaired, cache_size >= MAX_CACHE_SIZE
  PROVE  cache_size = MAX_CACHE_SIZE /\ Cached # {}
  BY CacheAssumption DEF TypeOK, SlotsPaired

-----------------------------------------------------------------------------
(* Every step keeps the invariant. *)

LEMMA InitIInv == Init => IInv
<1> SUFFICES ASSUME Init PROVE IInv
  OBVIOUS
<1>1. TypeOK
  BY CacheAssumption, Ranges, LinksType DEF Init, TypeOK, NoLinks, Links
<1>2. BucketOf = [b \in Books |-> NULL]
  BY DEF Init, BucketOf
<1>3. BucketsChained
  <2>1. Chained(links, Books, Freqs, BucketOf, last_use)
    BY <1>2, NoLinksChained DEF Init
  <2>2. \A f \in Freqs : {b \in Books : BucketOf[b] = f} = {}
    BY <1>2, NullOutside
  <2>3. Counted(count, BucketOf)
    BY <2>2, FS_EmptySet DEF Init, Counted
  <2> QED
    BY <2>1, <2>3 DEF BucketsChained
<1>4. Cached = {}
  BY DEF Init, Cached
<1>5. MinFrequencyExact /\ SlotsPaired /\ CachedUsed /\ UsesPast /\ PointerCurrent
  BY <1>4, CacheAssumption DEF Init, MinFrequencyExact, SlotsPaired, CachedUsed, UsesPast, PointerCurrent
<1>6. CountersAgree /\ BooksIsolated
  BY DEF Init, CountersAgree, BooksIsolated
<1> QED
  BY <1>1, <1>3, <1>5, <1>6 DEF IInv

(* A hit moves the book to the next bucket, or to the head of its own when   *)
(* its frequency is saturated.                                               *)
LEMMA HitIInv ==
  ASSUME IInv, NEW b \in BookIds, AccessHit(b)
  PROVE  IInv'
<1> DEFINE old == frequency[b]
           new == NextFrequency(old)
           C   == [count EXCEPT ![old] = @ - 1]
           L   == RemoveFromBucket(links, b, old)
           at  == [BucketOf EXCEPT ![b] = NULL]
<1>0. /\ b \in Books /\ in_cache[b] /\ old \in Freqs /\ old \in Nat /\ old >= 1
      /\ new \in Freqs /\ new \in Nat /\ old <= new /\ new >= 1
      /\ clock \in Nat /\ clock < MaxAccesses
  BY CacheAssumption, Ranges DEF IInv, TypeOK, CachedUsed, AccessHit, Stamp, NextFrequency, Freqs
<1>1. /\ links \in Links(Books, Freqs) /\ count \in [Freqs -> Nat]
      /\ last_use \in [Books -> Nat] /\ BucketOf \in [Books -> Freqs \cup {NULL}]
      /\ BucketOf[b] = old
      /\ Chained(links, Books, Freqs, BucketOf, last_use) /\ Counted(count, BucketOf)
  BY <1>0, CacheAssumption DEF IInv, TypeOK, BucketsChained, BucketOf
<1>2. /\ L \in Links(Books, Freqs) /\ Chained(L, Books, Freqs, at, last_use)
      /\ C \in [Freqs -> Nat] /\ Counted(C, at)
  BY <1>0, <1>1, RemoveFromBucketExact
<1>3. \A x \in Books : last_use[x] < clock + 1
  BY <1>0, <1>1 DEF IInv, UsesPast
<1>4. /\ AddToBucket(L, b, new) \in Links(Books, Freqs)
      /\ Chained(AddToBucket(L, b, new), Books, Freqs,
                 [at EXCEPT ![b] = new], [last_use EXCEPT ![b] = clock + 1])
      /\ [C EXCEPT ![new] = @ + 1] \in [Freqs -> Nat]
      /\ Counted([C EXCEPT ![new] = @ + 1], [at EXCEPT ![b] = new])
  <2>1. at \in [Books -> Freqs \cup {NULL}] /\ at[b] = NULL /\ clock + 1 \in Nat
    BY <1>0, <1>1
  <2> HIDE DEF L, C, at, new
  <2> QED
    BY <1>0, <1>1, <1>2, <1>3, <2>1, AddToBucketExact
<1>5. /\ links' = AddToBucket(L, b, new)
      /\ count' = [C EXCEPT ![new] = @ + 1]
      /\ frequency' = [frequency EXCEPT ![b] = new]
      /\ min_frequency' = IF C[old] = 0 /\ old = min_frequency THEN new ELSE min_frequency
      /\ last_use' = [last_use EXCEPT ![b] = clock + 1] /\ clock' = clock + 1
      /\ hits' = hits + 1
      /\ returned' = [book |-> b, slot |-> book_to_slot[b]]
      /\ UNCHANGED <<in_cache, book_to_slot, slot_to_book, cache_size, books, misses, evictions>>
  BY DEF AccessHit, UpdateFrequency, Stamp
<1>6. BucketOf' = [at EXCEPT ![b] = new]
  BY <1>0, <1>1, <1>5 DEF BucketOf, IInv, TypeOK
<1>7. TypeOK'
  <2>1. links' \in Links(Books, Freqs) /\ count' \in [Freqs -> Nat]
    BY <1>4, <1>5
  <2>2. last_use' \in [Books -> 0 .. MaxAccesses] /\ clock' \in 0 .. MaxAccesses
    BY <1>0, <1>5, CacheAssumption DEF IInv, TypeOK
  <2>3. frequency' \in [Books -> Freqs] /\ min_frequency' \in Freqs /\ hits' \in Nat
    <3> HIDE DEF new, C
    <3> QED
      BY <1>0, <1>5 DEF IInv, TypeOK
  <2>4. returned' \in [book : BookIds \cup {NULL}, slot : Slots \cup {NULL}]
    BY <1>0, <1>5 DEF IInv, TypeOK
  <2> HIDE DEF L, C, at, new, old
  <2> QED
    BY <1>5, <2>1, <2>2, <2>3, <2>4 DEF IInv, TypeOK
<1>8. BucketsChained'
  <2> HIDE DEF L, C, at, new
  <2> QED
    BY <1>4, <1>5, <1>6 DEF BucketsChained
<1>9. MinFrequencyExact'
  <2>1. Cached' = Cached
    BY <1>5 DEF Cached
  <2>2. \A x \in Books : frequency'[x] = IF x = b THEN new ELSE frequency[x]
    BY <1>0, <1>5 DEF IInv, TypeOK
  <2>3. /\ \A x \in Cached : frequency[x] \in Nat /\ min_frequency \in Nat /\ min_frequency <= frequency[x]
        /\ \E x \in Cached : frequency[x] = min_frequency
    <3>1. b \in Cached
      BY <1>0 DEF Cached
    <3>2. \A x \in Cached : min_frequency <= frequency[x]
      BY <3>1, Zenon DEF IInv, MinFrequencyExact
    <3>3. \E x \in Cached : frequency[x] = min_frequency
      BY <3>1 DEF IInv, MinFrequencyExact
    <3> QED
      BY <3>2, <3>3, Ranges DEF IInv, TypeOK, Cached
  <2>4. b \in Cached
    BY <1>0 DEF Cached
  <2>5. CASE C[old] = 0 /\ old = min_frequency
    <3>1. min_frequency' = new
      BY <1>5, <2>5
    <3>2. {x \in Books : at[x] = old} = {}
      <4>1. Cardinality({x \in Books : at[x] = old}) = 0
        BY <1>0, <1>2, <2>5 DEF Counted
      <4>2. IsFiniteSet({x \in Books : at[x] = old})
        BY Ranges, FS_Subset
      <4> QED
        BY <4>1, <4>2, FS_EmptySet
    <3>3. \A x \in Cached : x # b => frequency[x] # old
      BY <3>2, <1>1 DEF BucketOf, Cached
    <3>4. \A x \in Cached : x # b => frequency[x] >= old + 1
      BY <2>3, <2>5, <3>3, <1>0
    <3>5. new <= old + 1
      BY <1>0 DEF NextFrequency
    <3>6. \A x \in Cached : new <= frequency'[x]
      <4> SUFFICES ASSUME NEW x \in Cached PROVE new <= frequency'[x]
        OBVIOUS
      <4>1. x \in Books
        BY DEF Cached
      <4> HIDE DEF new, old
      <4> QED
        BY <4>1, <2>2, <2>3, <3>4, <3>5, <1>0
    <3>7. frequency'[b] = min_frequency'
      BY <1>0, <2>2, <3>1
    <3> HIDE DEF new, old
    <3> QED
      BY <2>1, <2>4, <3>1, <3>6, <3>7 DEF MinFrequencyExact
  <2>6. CASE ~(C[old] = 0 /\ old = min_frequency)
    <3>1. min_frequency' = min_frequency
      BY <1>5, <2>6
    <3>2. \A x \in Cached : min_frequency <= frequency'[x]
      <4> SUFFICES ASSUME NEW x \in Cached PROVE min_frequency <= frequency'[x]
        OBVIOUS
      <4>1. x \in Books
        BY DEF Cached
      <4> HIDE DEF new
      <4> QED
        BY <4>1, <2>2, <2>3, <2>4, <1>0
    <3>3. \E x \in Cached : frequency'[x] = min_frequency
      <4>1. CASE old = min_frequency
        <5>1. C[old] # 0
          BY <2>6, <4>1
        <5>2. {x \in Books : at[x] = old} # {}
          BY <5>1, <1>0, <1>2, FS_EmptySet DEF Counted
        <5>3. PICK x \in Books : at[x] = old
          BY <5>2
        <5>4. x # b /\ x \in Cached /\ frequency[x] = old
          BY <5>3, <1>0, <1>1, NullOutside DEF BucketOf, Cached
        <5> QED
          BY <5>4, <2>2, <4>1
      <4>2. CASE old # min_frequency
        <5>1. PICK x \in Cached : frequency[x] = min_frequency
          BY <2>3
        <5>2. x # b /\ x \in Books
          BY <5>1, <4>2 DEF Cached
        <5> QED
          BY <5>1, <5>2, <2>2
      <4> QED
        BY <4>1, <4>2
    <3> QED
      BY <2>1, <3>1, <3>2, <3>3 DEF MinFrequencyExact
  <2> QED
    BY <2>5, <2>6
<1>10. SlotsPaired' /\ BooksIsolated'
  BY <1>5 DEF IInv, SlotsPaired, BooksIsolated, Cached
<1>11. CachedUsed'
  <2> HIDE DEF new
  <2> QED
    BY <1>0, <1>5 DEF IInv, CachedUsed, TypeOK
<1>12. UsesPast'
  BY <1>0, <1>1, <1>3, <1>5 DEF UsesPast
<1>13. PointerCurrent'
  BY <1>0, <1>5 DEF PointerCurrent, Cached
<1>14. CountersAgree'
  BY <1>0, <1>5 DEF IInv, CountersAgree, TypeOK
<1> QED
  BY <1>7, <1>8, <1>9, <1>10, <1>11, <1>12, <1>13, <1>14 DEF IInv

(* The end of a miss, from exact lists and counts for the books in cached:   *)
(* the newcomer is alone at the head of bucket 1, the new lowest one.        *)
LEMMA InstallExact ==
  ASSUME TypeOK, UsesPast,
         NEW b \in Books, NEW s \in Slots, NEW L \in Links(Books, Freqs),
         NEW C \in [Freqs -> Nat], NEW cached \in [Books -> BOOLEAN], NEW place,
         ~cached[b],
         Chained(L, Books, Freqs, [x \in Books |-> IF cached[x] THEN frequency[x] ELSE NULL], last_use),
         Counted(C, [x \in Books |-> IF cached[x] THEN frequency[x] ELSE NULL]),
         \A x \in Books : cached[x] => frequency[x] >= 1,
         Install(b, s, L, C, cached, place)
  PROVE  /\ links' \in Links(Books, Freqs) /\ count' \in [Freqs -> Nat]
         /\ in_cache' \in [Books -> BOOLEAN] /\ frequency' \in [Books -> Freqs]
         /\ min_frequency' \in Freqs
         /\ clock' \in 0 .. MaxAccesses /\ last_use' \in [Books -> 0 .. MaxAccesses]
         /\ BucketsChained' /\ MinFrequencyExact' /\ CachedUsed' /\ UsesPast'
<1> DEFINE at == [x \in Books |-> IF cached[x] THEN frequency[x] ELSE NULL]
<1>0. /\ clock \in Nat /\ clock < MaxAccesses /\ 1 \in Freqs
      /\ last_use \in [Books -> Nat] /\ at \in [Books -> Freqs \cup {NULL}] /\ at[b] = NULL
  BY CacheAssumption, Ranges DEF TypeOK, Install, Stamp
<1>1. \A x \in Books : last_use[x] < clock + 1
  BY <1>0 DEF UsesPast
<1>2. /\ AddToBucket(L, b, 1) \in Links(Books, Freqs)
      /\ Chained(AddToBucket(L, b, 1), Books, Freqs,
                 [at EXCEPT ![b] = 1], [last_use EXCEPT ![b] = clock + 1])
      /\ [C EXCEPT ![1] = @ + 1] \in [Freqs -> Nat]
      /\ Counted([C EXCEPT ![1] = @ + 1], [at EXCEPT ![b] = 1])
  <2>1. clock + 1 \in Nat
    BY <1>0
  <2>2. Chained(L, Books, Freqs, at, last_use) /\ Counted(C, at)
    OBVIOUS
  <2> HIDE DEF at
  <2> QED
    BY <1>0, <1>1, <2>1, <2>2, AddToBucketExact
<1>3. /\ links' = AddToBucket(L, b, 1)
      /\ count' = [C EXCEPT ![1] = @ + 1]
      /\ frequency' = [frequency EXCEPT ![b] = 1]
      /\ in_cache' = [cached EXCEPT ![b] = TRUE]
      /\ min_frequency' = 1
      /\ last_use' = [last_use EXCEPT ![b] = clock + 1] /\ clock' = clock + 1
  BY DEF Install, Stamp
<1>4. BucketOf' = [at EXCEPT ![b] = 1]
  BY <1>0, <1>3 DEF BucketOf, TypeOK
<1>5. BucketsChained'
  <2> HIDE DEF at
  <2> QED
    BY <1>2, <1>3, <1>4 DEF BucketsChained
<1>6. /\ in_cache' \in [Books -> BOOLEAN] /\ frequency' \in [Books -> Freqs]
      /\ last_use' \in [Books -> 0 .. MaxAccesses]
  BY <1>0, <1>3, CacheAssumption DEF TypeOK
<1>7. \A x \in Books : in_cache'[x] => frequency'[x] >= 1
  BY <1>0, <1>3 DEF TypeOK
<1>8. MinFrequencyExact'
  <2>1. in_cache'[b] /\ frequency'[b] = 1
    BY <1>3 DEF TypeOK
  <2> QED
    BY <1>3, <1>7, <2>1 DEF MinFrequencyExact, Cached
<1>9. CachedUsed' /\ UsesPast'
  BY <1>0, <1>1, <1>3, <1>7 DEF CachedUsed, UsesPast
<1> QED
  BY <1>0, <1>2, <1>3, <1>5, <1>6, <1>8, <1>9, CacheAssumption

LEMMA MissRoomIInv ==
  ASSUME IInv, NEW b \in BookIds, AccessMissRoom(b)
  PROVE  IInv'
<1> DEFINE s == cache_size
<1>0. b \in Books /\ ~in_cache[b] /\ s \in Slots /\ cache_size \in Nat /\ cache_size < MAX_CACHE_SIZE
  BY CacheAssumption DEF IInv, TypeOK, AccessMissRoom, Slots
<1>1. Install(b, s, links, count, in_cache, book_to_slot)
  BY DEF AccessMissRoom
<1>2. /\ links' \in Links(Books, Freqs) /\ count' \in [Freqs -> Nat]
      /\ in_cache' \in [Books -> BOOLEAN] /\ frequency' \in [Books -> Freqs]
      /\ min_frequency' \in Freqs
      /\ clock' \in 0 .. MaxAccesses /\ last_use' \in [Books -> 0 .. MaxAccesses]
      /\ BucketsChained' /\ MinFrequencyExact' /\ CachedUsed' /\ UsesPast'
  <2>1. Chained(links, Books, Freqs, [x \in Books |-> IF in_cache[x] THEN frequency[x] ELSE NULL], last_use)
    BY Zenon DEF IInv, BucketsChained, BucketOf
  <2>2. Counted(count, [x \in Books |-> IF in_cache[x] THEN frequency[x] ELSE NULL])
    BY Zenon DEF IInv, BucketsChained, BucketOf
  <2>3. /\ links \in Links(Books, Freqs) /\ count \in [Freqs -> Nat] /\ in_cache \in [Books -> BOOLEAN]
        /\ TypeOK /\ UsesPast /\ \A x \in Books : in_cache[x] => frequency[x] >= 1
    BY DEF IInv, TypeOK, CachedUsed
  <2> HIDE DEF s
  <2> QED
    BY <1>0, <1>1, <2>1, <2>2, <2>3, InstallExact
<1>3. /\ in_cache' = [in_cache EXCEPT ![b] = TRUE]
      /\ book_to_slot' = [book_to_slot EXCEPT ![b] = s]
      /\ slot_to_book' = [slot_to_book EXCEPT ![s] = b]
      /\ books' = [books EXCEPT ![s] = {}]
      /\ returned' = [book |-> b, slot |-> s]
      /\ cache_size' = cache_size + 1 /\ misses' = misses + 1
      /\ clock' = clock + 1 /\ UNCHANGED <<hits, evictions>>
  BY DEF AccessMissRoom, Install, Stamp
<1>4. TypeOK'
  BY <1>0, <1>2, <1>3, CacheAssumption DEF IInv, TypeOK
<1>5. SlotsPaired'
  <2>1. \A x \in Books : in_cache[x] => book_to_slot[x] # s
    BY <1>0 DEF IInv, SlotsPaired
  <2>2. 0 .. cache_size' - 1 = (0 .. cache_size - 1) \cup {s}
    BY <1>0, <1>3
  <2>3. \A t \in 0 .. cache_size - 1 : t # s /\ t \in Slots
    BY <1>0, CacheAssumption DEF Slots
  <2>4. ASSUME NEW x \in Books
        PROVE  IF in_cache'[x]
                 THEN /\ book_to_slot'[x] \in 0 .. cache_size' - 1
                      /\ slot_to_book'[book_to_slot'[x]] = x
                 ELSE book_to_slot'[x] = NULL
    <3>1. CASE x = b
      BY <1>0, <1>3, <2>2, <3>1 DEF IInv, TypeOK
    <3>2. CASE x # b
      BY <1>0, <1>3, <2>1, <2>2, <2>3, <3>2 DEF IInv, TypeOK, SlotsPaired
    <3> QED
      BY <3>1, <3>2
  <2>5. ASSUME NEW t \in 0 .. cache_size' - 1
        PROVE  slot_to_book'[t] \in Cached' /\ book_to_slot'[slot_to_book'[t]] = t
    <3>1. CASE t = s
      BY <1>0, <1>3, <3>1 DEF IInv, TypeOK, Cached
    <3>2. CASE t # s
      BY <1>0, <1>3, <2>2, <2>3, <3>2 DEF IInv, TypeOK, SlotsPaired, Cached
    <3> QED
      BY <3>1, <3>2
  <2> QED
    BY <2>4, <2>5 DEF SlotsPaired
<1>6. BooksIsolated'
  BY <1>0, <1>3 DEF IInv, TypeOK, BooksIsolated
<1>7. PointerCurrent'
  BY <1>0, <1>3 DEF IInv, TypeOK, PointerCurrent, Cached
<1>8. CountersAgree'
  BY <1>0, <1>3 DEF IInv, TypeOK, CountersAgree
<1> QED
  BY <1>2, <1>4, <1>5, <1>6, <1>7, <1>8 DEF IInv

LEMMA MissFullIInv ==
  ASSUME IInv, NEW b \in BookIds, AccessMissFull(b)
  PROVE  IInv'
<1> DEFINE v == Victim
           s == book_to_slot[v]
           L == RemoveFromBucket(links, v, min_frequency)
           C == [count EXCEPT ![min_frequency] = @ - 1]
           cached == [in_cache EXCEPT ![v] = FALSE]
           place == [book_to_slot EXCEPT ![v] = NULL]
           at == [x \in Books |-> IF cached[x] THEN frequency[x] ELSE NULL]
<1>0. b \in Books /\ ~in_cache[b] /\ cache_size = MAX_CACHE_SIZE /\ cache_size \in Nat
  BY FullHasVictim, CacheAssumption DEF IInv, TypeOK, AccessMissFull
<1>1. v \in Books /\ in_cache[v] /\ frequency[v] = min_frequency /\ v # NULL /\ v # b
  BY <1>0, FullHasVictim, VictimWorst, NullOutside DEF IInv, AccessMissFull, Cached
<1>2. Install(b, s, L, C, cached, place) /\ evictions' = evictions + 1 /\ cache_size' = cache_size
  BY <1>1 DEF AccessMissFull
<1>3. s \in Slots /\ slot_to_book[s] = v
  BY <1>0, <1>1 DEF IInv, SlotsPaired, Slots
<1>4. at = [BucketOf EXCEPT ![v] = NULL]
  BY <1>1 DEF BucketOf, IInv, TypeOK
<1>5. /\ L \in Links(Books, Freqs) /\ Chained(L, Books, Freqs, at, last_use)
      /\ C \in [Freqs -> Nat] /\ Counted(C, at)
  <2>1. /\ links \in Links(Books, Freqs) /\ count \in [Freqs -> Nat]
        /\ last_use \in [Books -> Nat] /\ BucketOf \in [Books -> Freqs \cup {NULL}]
        /\ BucketOf[v] = min_frequency /\ min_frequency \in Freqs
        /\ Chained(links, Books, Freqs, BucketOf, last_use) /\ Counted(count, BucketOf)
    BY <1>1, CacheAssumption DEF IInv, TypeOK, BucketsChained, BucketOf
  <2> HIDE DEF v, at
  <2> QED
    BY <1>1, <1>4, <2>1, RemoveFromBucketExact
<1>6. /\ links' \in Links(Books, Freqs) /\ count' \in [Freqs -> Nat]
      /\ in_cache' \in [Books -> BOOLEAN] /\ frequency' \in [Books -> Freqs]
      /\ min_frequency' \in Freqs
      /\ clock' \in 0 .. MaxAccesses /\ last_use' \in [Books -> 0 .. MaxAccesses]
      /\ BucketsChained' /\ MinFrequencyExact' /\ CachedUsed' /\ UsesPast'
  <2>1. /\ cached \in [Books -> BOOLEAN] /\ ~cached[b]
        /\ TypeOK /\ UsesPast /\ \A x \in Books : cached[x] => frequency[x] >= 1
    BY <1>0, <1>1 DEF IInv, TypeOK, CachedUsed
  <2>2. Chained(L, Books, Freqs, [x \in Books |-> IF cached[x] THEN frequency[x] ELSE NULL], last_use)
    BY <1>5
  <2>3. Counted(C, [x \in Books |-> IF cached[x] THEN frequency[x] ELSE NULL])
    BY <1>5
  <2>4. L \in Links(Books, Freqs) /\ C \in [Freqs -> Nat]
    BY <1>5
  <2> HIDE DEF s, L, C, cached, place
  <2> QED
    BY <1>0, <1>2, <1>3, <2>1, <2>2, <2>3, <2>4, InstallExact
<1>7. /\ in_cache' = [cached EXCEPT ![b] = TRUE]
      /\ book_to_slot' = [place EXCEPT ![b] = s]
      /\ slot_to_book' = [slot_to_book EXCEPT ![s] = b]
      /\ books' = [books EXCEPT ![s] = {}]
      /\ returned' = [book |-> b, slot |-> s]
      /\ misses' = misses + 1 /\ clock' = clock + 1 /\ hits' = hits
  BY <1>2 DEF Install, Stamp
<1>8. TypeOK'
  <2>1. /\ book_to_slot' \in [Books -> Slots \cup {NULL}] /\ slot_to_book' \in [Slots -> Books \cup {NULL}]
        /\ books' \in [Slots -> SUBSET Books] /\ cache_size' \in 0 .. MAX_CACHE_SIZE
        /\ hits' \in Nat /\ misses' \in Nat /\ evictions' \in Nat
        /\ returned' \in [book : BookIds \cup {NULL}, slot : Slots \cup {NULL}]
    <3> HIDE DEF v, s
    <3> QED
      BY <1>0, <1>2, <1>3, <1>7 DEF IInv, TypeOK
  <2> QED
    BY <1>6, <2>1 DEF TypeOK
<1>9. SlotsPaired'
  <2>1. \A x \in Books : in_cache[x] /\ x # v => book_to_slot[x] # s
    BY <1>1, <1>3 DEF IInv, SlotsPaired
  <2>2. ASSUME NEW x \in Books
        PROVE  IF in_cache'[x]
                 THEN /\ book_to_slot'[x] \in 0 .. cache_size' - 1
                      /\ slot_to_book'[book_to_slot'[x]] = x
                 ELSE book_to_slot'[x] = NULL
    <3>0. s \in 0 .. cache_size - 1
      BY <1>1 DEF IInv, SlotsPaired
    <3> HIDE DEF v, s
    <3>1. CASE x = b
      BY <1>0, <1>1, <1>2, <1>3, <1>7, <3>0, <3>1 DEF IInv, TypeOK
    <3>2. CASE x = v
      BY <1>0, <1>1, <1>2, <1>3, <1>7, <3>2 DEF IInv, TypeOK
    <3>3. CASE x # b /\ x # v
      BY <1>0, <1>1, <1>2, <1>3, <1>7, <2>1, <3>3 DEF IInv, TypeOK, SlotsPaired, Slots
    <3> QED
      BY <3>1, <3>2, <3>3
  <2>3. ASSUME NEW t \in 0 .. cache_size' - 1
        PROVE  slot_to_book'[t] \in Cached' /\ book_to_slot'[slot_to_book'[t]] = t
    <3>0. t \in 0 .. cache_size - 1 /\ t \in Slots
      BY <1>0, <1>2 DEF Slots
    <3>1. CASE t = s
      <4> HIDE DEF v, s
      <4> QED
        BY <1>0, <1>1, <1>3, <1>7, <3>1 DEF IInv, TypeOK, Cached
    <3>2. CASE t # s
      <4>1. slot_to_book[t] \in Books /\ in_cache[slot_to_book[t]] /\ book_to_slot[slot_to_book[t]] = t
        BY <3>0 DEF IInv, SlotsPaired, Cached
      <4>2. slot_to_book[t] # v /\ slot_to_book[t] # b
        BY <4>1, <3>2, <1>0
      <4> HIDE DEF v, s
      <4> QED
        BY <1>0, <1>1, <1>3, <1>7, <3>0, <3>2, <4>1, <4>2 DEF IInv, TypeOK, Cached
    <3> QED
      BY <3>1, <3>2
  <2> QED
    BY <2>2, <2>3 DEF SlotsPaired
<1>10. BooksIsolated'
  <2> HIDE DEF s
  <2> QED
    BY <1>0, <1>3, <1>7 DEF IInv, TypeOK, BooksIsolated
<1>11. PointerCurrent'
  <2> HIDE DEF s, v
  <2> QED
    BY <1>0, <1>1, <1>7 DEF IInv, TypeOK, PointerCurrent, Cached
<1>12. CountersAgree'
  BY <1>0, <1>2, <1>7 DEF IInv, TypeOK, CountersAgree
<1> QED
  BY <1>6, <1>8, <1>9, <1>10, <1>11, <1>12 DEF IInv

(* The caller's orders go into the slot of the book it asked for. *)
LEMMA StoreIInv ==
  ASSUME IInv, StoreOrder
  PROVE  IInv'
<1>1. /\ returned.slot \in Slots /\ returned.book \in Books
      /\ in_cache[returned.book] /\ book_to_slot[returned.book] = returned.slot
      /\ slot_to_book[returned.slot] = returned.book
  BY DEF IInv, TypeOK, PointerCurrent, SlotsPaired, StoreOrder, Cached
<1>2. /\ books' = [books EXCEPT ![returned.slot] = @ \cup {returned.book}]
      /\ UNCHANGED <<in_cache, frequency, links, count, min_frequency, book_to_slot,
                     slot_to_book, cache_size, hits, misses, evictions,
                     returned, clock, last_use>>
  BY DEF StoreOrder
<1>3. TypeOK'
  BY <1>1, <1>2 DEF IInv, TypeOK
<1>4. BucketsChained' /\ MinFrequencyExact' /\ SlotsPaired' /\ CachedUsed' /\ UsesPast'
  BY <1>2 DEF IInv, BucketsChained, BucketOf, MinFrequencyExact, SlotsPaired, CachedUsed, UsesPast, Cached
<1>5. PointerCurrent' /\ CountersAgree'
  BY <1>2 DEF IInv, PointerCurrent, CountersAgree, Cached
<1>6. BooksIsolated'
  BY <1>1, <1>2, NullOutside DEF IInv, TypeOK, BooksIsolated
<1> QED
  BY <1>3, <1>4, <1>5, <1>6 DEF IInv

(* Nothing the invariant reads changes in a refused access or a stutter.     *)
LEMMA FrameIInv ==
  ASSUME IInv, UNCHANGED <<code_vars, clock, last_use>>,
         returned' \in [book : BookIds \cup {NULL}, slot : Slots \cup {NULL}],
         returned' = returned \/ returned'.slot = NULL
  PROVE  IInv'
<1>1. TypeOK'
  BY DEF IInv, TypeOK, code_vars
<1>2. BucketsChained' /\ MinFrequencyExact' /\ SlotsPaired' /\ CachedUsed' /\ UsesPast'
  BY DEF IInv, BucketsChained, BucketOf, MinFrequencyExact, SlotsPaired, CachedUsed, UsesPast, Cached, code_vars
<1>3. PointerCurrent' /\ CountersAgree' /\ BooksIsolated'
  BY DEF IInv, PointerCurrent, CountersAgree, BooksIsolated, Cached, code_vars
<1> QED
  BY <1>1, <1>2, <1>3 DEF IInv

LEMMA NextIInv == IInv /\ [Next]_vars => IInv'
<1> SUFFICES ASSUME IInv, [Next]_vars PROVE IInv'
  OBVIOUS
<1>1. ASSUME NEW b \in BookIds, AccessOutOfRange(b) PROVE IInv'
  <2>1. returned' = [book |-> b, slot |-> NULL] /\ UNCHANGED <<code_vars, clock, last_use>>
    BY <1>1 DEF AccessOutOfRange
  <2> QED
    BY <2>1, FrameIInv
<1>2. ASSUME NEW b \in BookIds, AccessHit(b) PROVE IInv'
  BY <1>2, HitIInv
<1>3. ASSUME NEW b \in BookIds, AccessMissRoom(b) PROVE IInv'
  BY <1>3, MissRoomIInv
<1>4. ASSUME NEW b \in BookIds, AccessMissFull(b) PROVE IInv'
  BY <1>4, MissFullIInv
<1>5. CASE StoreOrder
  BY <1>5, StoreIInv
<1>6. CASE UNCHANGED vars
  <2>1. UNCHANGED <<code_vars, clock, last_use>> /\ returned' = returned
    BY <1>6 DEF vars
  <2>2. returned \in [book : BookIds \cup {NULL}, slot : Slots \cup {NULL}]
    BY DEF IInv, TypeOK
  <2> QED
    BY <2>1, <2>2, FrameIInv
<1> QED
  BY <1>1, <1>2, <1>3, <1>4, <1>5, <1>6 DEF Next, Access

(* The inductive invariant holds in every reachable state. *)
THEOREM Invariance == Spec => []IInv
  BY InitIInv, NextIInv, PTL DEF Spec

(* Every variable keeps its type: every index the cache computes is inside   *)
(* the array it indexes.                                                     *)
THEOREM TypeCorrect == Spec => []TypeOK
<1>1. IInv => TypeOK
  BY DEF IInv
<1> QED
  BY <1>1, Invariance, PTL

(* The frequency buckets are exact lists of the cached books, latest access  *)
(* first, and their counts are exact.                                        *)
THEOREM BucketsAlwaysChained == Spec => []BucketsChained
<1>1. IInv => BucketsChained
  BY DEF IInv
<1> QED
  BY <1>1, Invariance, PTL

(* min_frequency always names the lowest frequency of a cached book.         *)
THEOREM MinFrequencyAlwaysExact == Spec => []MinFrequencyExact
<1>1. IInv => MinFrequencyExact
  BY DEF IInv
<1> QED
  BY <1>1, Invariance, PTL

(* The two maps pair cached books and used slots off one to one.             *)
THEOREM SlotsAlwaysPaired == Spec => []SlotsPaired
<1>1. IInv => SlotsPaired
  BY DEF IInv
<1> QED
  BY <1>1, Invariance, PTL

(* The printed counters account for every access and every slot.             *)
THEOREM CountersAlwaysAgree == Spec => []CountersAgree
<1>1. IInv => CountersAgree
  BY DEF IInv
<1> QED
  BY <1>1, Invariance, PTL

(* No order of one symbol is ever found in the book of another.              *)
THEOREM BooksAlwaysIsolated == Spec => []BooksIsolated
<1>1. IInv => BooksIsolated
  BY DEF IInv
<1> QED
  BY <1>1, Invariance, PTL

-----------------------------------------------------------------------------
(* Evictions. *)

LEMMA OnlyFullMissEvicts ==
  ASSUME IInv, Next, NEW v \in Books, Evicted(v)
  PROVE  \E b \in BookIds : /\ AccessMissFull(b) /\ b \in Books /\ ~in_cache[b]
                            /\ cache_size = MAX_CACHE_SIZE
                            /\ Cached # {} /\ v = Victim
                            /\ in_cache' = [[in_cache EXCEPT ![v] = FALSE] EXCEPT ![b] = TRUE]
<1>1. in_cache[v] /\ ~in_cache'[v] /\ in_cache \in [Books -> BOOLEAN]
  BY DEF Evicted, IInv, TypeOK
<1>2. ASSUME UNCHANGED in_cache PROVE FALSE
  BY <1>1, <1>2
<1>3. ASSUME NEW b \in BookIds, AccessMissRoom(b) PROVE FALSE
  <2>1. in_cache' = [in_cache EXCEPT ![b] = TRUE]
    BY <1>3 DEF AccessMissRoom, Install
  <2> QED
    BY <1>1, <2>1
<1>4. PICK b \in BookIds : AccessMissFull(b)
  BY <1>2, <1>3 DEF Next, Access, AccessOutOfRange, AccessHit, StoreOrder, code_vars
<1>5. b \in Books /\ ~in_cache[b] /\ cache_size = MAX_CACHE_SIZE /\ Cached # {}
  BY <1>4, FullHasVictim DEF AccessMissFull, IInv
<1>6. Victim # NULL
  BY <1>5, VictimWorst, NullOutside DEF IInv, Cached
<1>7. in_cache' = [[in_cache EXCEPT ![Victim] = FALSE] EXCEPT ![b] = TRUE]
  BY <1>4, <1>6 DEF AccessMissFull, Install
<1>8. v = Victim
  <2> HIDE DEF Victim
  <2> QED
    BY <1>1, <1>7
<1> QED
  BY <1>4, <1>5, <1>7, <1>8

(* Whatever is evicted was a least frequently used book of a full cache, and *)
(* the one among those that was accessed longest ago.                        *)
THEOREM EvictionOrder == Spec => EvictsLeastFrequent
<1>1. IInv /\ [Next]_vars =>
        [\A v \in Books : Evicted(v) =>
           /\ cache_size = MAX_CACHE_SIZE
           /\ \A x \in Cached \ {v} :
                /\ in_cache'[x]
                /\ \/ frequency[v] < frequency[x]
                   \/ frequency[v] = frequency[x] /\ last_use[v] < last_use[x]]_vars
  <2> SUFFICES ASSUME IInv, Next, NEW v \in Books, Evicted(v)
               PROVE  /\ cache_size = MAX_CACHE_SIZE
                      /\ \A x \in Cached \ {v} :
                           /\ in_cache'[x]
                           /\ \/ frequency[v] < frequency[x]
                              \/ frequency[v] = frequency[x] /\ last_use[v] < last_use[x]
    OBVIOUS
  <2>1. PICK b \in BookIds :
               /\ b \in Books /\ ~in_cache[b] /\ cache_size = MAX_CACHE_SIZE
               /\ Cached # {} /\ v = Victim
               /\ in_cache' = [[in_cache EXCEPT ![v] = FALSE] EXCEPT ![b] = TRUE]
    BY OnlyFullMissEvicts
  <2>2. \A x \in Cached \ {v} :
              \/ frequency[v] < frequency[x]
              \/ frequency[v] = frequency[x] /\ last_use[v] < last_use[x]
    BY <2>1, VictimWorst DEF IInv
  <2>3. \A x \in Cached \ {v} : in_cache'[x]
    BY <2>1 DEF IInv, TypeOK, Cached
  <2> QED
    BY <2>1, <2>2, <2>3
<1> QED
  BY <1>1, Invariance, PTL DEF Spec, EvictsLeastFrequent

-----------------------------------------------------------------------------
(* Refinement.  The abstract variables, by names of their own. *)

uses_  == [b \in Books |-> IF in_cache[b] THEN frequency[b] ELSE 0]
used_  == [b \in Books |-> IF in_cache[b] THEN last_use[b] ELSE 0]
filed_ == {b \in Cached : books[book_to_slot[b]] # {}}

LEMMA SameSets == Abstract!Books = Books /\ Abstract!Slots = Slots
  BY DEF Abstract!Books, Books, Abstract!Slots, Slots

LEMMA RefineInit == Init => Abstract!Init
<1> SUFFICES ASSUME Init PROVE Abstract!Init
  OBVIOUS
<1>1. Cached = {} /\ filed_ = {}
  BY DEF Init, Cached, filed_
<1>2. uses_ = [b \in Books |-> 0] /\ used_ = [b \in Books |-> 0]
  BY DEF Init, uses_, used_
<1> QED
  BY <1>1, <1>2, SameSets DEF Init, Abstract!Init, uses_, used_, filed_

LEMMA RefineRefuse ==
  ASSUME IInv, NEW b \in BookIds, AccessOutOfRange(b)
  PROVE  Abstract!Refuse(b)
<1>1. b \notin Books
  BY CacheAssumption DEF AccessOutOfRange, Books
<1>2. UNCHANGED <<Cached, uses_, used_, book_to_slot, filed_, clock>>
  BY DEF AccessOutOfRange, code_vars, Cached, uses_, used_, filed_
<1> QED
  BY <1>1, <1>2, SameSets DEF Abstract!Refuse, AccessOutOfRange, uses_, used_, filed_

LEMMA RefineHit ==
  ASSUME IInv, NEW b \in BookIds, AccessHit(b)
  PROVE  Abstract!Hit(b)
<1>1. b \in Cached /\ b \in Books /\ clock < MaxAccesses
  BY DEF AccessHit, Stamp, Cached
<1>2. UNCHANGED <<Cached, book_to_slot, filed_>>
  BY DEF AccessHit, Cached, filed_
<1>3. uses_' = [uses_ EXCEPT ![b] = IF @ < MAX_FREQUENCY - 1 THEN @ + 1 ELSE @]
  BY <1>1 DEF AccessHit, UpdateFrequency, NextFrequency, uses_, Cached, IInv, TypeOK
<1>4. used_' = [used_ EXCEPT ![b] = clock + 1]
  BY <1>1 DEF AccessHit, Stamp, used_, Cached, IInv, TypeOK
<1>5. clock' = clock + 1 /\ returned' = [book |-> b, slot |-> book_to_slot[b]]
  BY DEF AccessHit, Stamp
<1> QED
  BY <1>1, <1>2, <1>3, <1>4, <1>5 DEF Abstract!Hit, uses_, used_, filed_

LEMMA RefineMissRoom ==
  ASSUME IInv, NEW b \in BookIds, AccessMissRoom(b)
  PROVE  Abstract!Miss(b)
<1> DEFINE s == cache_size
<1>1. b \in Books /\ ~in_cache[b] /\ s \in Slots /\ clock < MaxAccesses
  BY CacheAssumption DEF AccessMissRoom, Install, Stamp, Slots, IInv, TypeOK
<1>2. /\ in_cache' = [in_cache EXCEPT ![b] = TRUE]
      /\ frequency' = [frequency EXCEPT ![b] = 1]
      /\ last_use' = [last_use EXCEPT ![b] = clock + 1] /\ clock' = clock + 1
      /\ book_to_slot' = [book_to_slot EXCEPT ![b] = s]
      /\ books' = [books EXCEPT ![s] = {}]
      /\ returned' = [book |-> b, slot |-> s]
  BY DEF AccessMissRoom, Install, Stamp
<1>3. \A x \in Cached : book_to_slot[x] \in Slots /\ book_to_slot[x] # s
  BY CacheAssumption DEF IInv, TypeOK, SlotsPaired, Cached, Slots
<1>4. Cached' = (Cached \ {}) \cup {b}
  BY <1>1, <1>2 DEF Cached, IInv, TypeOK
<1>5. uses_' = [x \in Books |-> IF x = b THEN 1 ELSE IF x \in {} THEN 0 ELSE uses_[x]]
  BY <1>1, <1>2 DEF uses_, IInv, TypeOK
<1>6. used_' = [x \in Books |-> IF x = b THEN clock + 1 ELSE IF x \in {} THEN 0 ELSE used_[x]]
  BY <1>1, <1>2 DEF used_, IInv, TypeOK
<1>7. book_to_slot' = [x \in Books |-> IF x = b THEN s ELSE IF x \in {} THEN NULL ELSE book_to_slot[x]]
  BY <1>1, <1>2 DEF IInv, TypeOK
<1>8. filed_' = filed_ \ {}
  <2> HIDE DEF s
  <2> QED
    BY <1>1, <1>2, <1>3, <1>4 DEF filed_, Cached, IInv, TypeOK
<1> HIDE DEF s
<1>9. Abstract!Admit(b, s, {})
  BY <1>2, <1>4, <1>5, <1>6, <1>7, <1>8, SameSets DEF Abstract!Admit, uses_, used_, filed_
<1> QED
  BY <1>1, <1>3, <1>9, SameSets DEF Abstract!Miss, Cached

LEMMA RefineMissFull ==
  ASSUME IInv, NEW b \in BookIds, AccessMissFull(b)
  PROVE  Abstract!Miss(b)
<1> DEFINE v == Victim
           s == book_to_slot[v]
<1>0. cache_size = MAX_CACHE_SIZE /\ Cached # {}
  BY FullHasVictim DEF AccessMissFull, IInv
<1>1. /\ v \in Cached /\ frequency[v] = min_frequency /\ v # NULL
      /\ \A x \in Cached \ {v} :
           \/ frequency[v] < frequency[x]
           \/ frequency[v] = frequency[x] /\ last_use[v] < last_use[x]
  BY <1>0, VictimWorst, NullOutside DEF IInv, Cached
<1>2. /\ in_cache' = [[in_cache EXCEPT ![v] = FALSE] EXCEPT ![b] = TRUE]
      /\ frequency' = [frequency EXCEPT ![b] = 1]
      /\ last_use' = [last_use EXCEPT ![b] = clock + 1] /\ clock' = clock + 1
      /\ book_to_slot' = [[book_to_slot EXCEPT ![v] = NULL] EXCEPT ![b] = s]
      /\ books' = [books EXCEPT ![s] = {}]
      /\ returned' = [book |-> b, slot |-> s]
  BY <1>1 DEF AccessMissFull, Install, Stamp
<1>3. /\ b \in Books /\ ~in_cache[b] /\ clock < MaxAccesses /\ v # b /\ v \in Books /\ in_cache[v]
  BY <1>1 DEF AccessMissFull, Install, Stamp, Cached
<1>4. s \in Slots /\ \A x \in Cached \ {v} : book_to_slot[x] # s /\ book_to_slot[x] \in Slots
  BY <1>0, <1>3 DEF IInv, SlotsPaired, Slots, Cached
<1>5. \A t \in Slots : \E x \in Cached : book_to_slot[x] = t
  BY <1>0 DEF IInv, SlotsPaired, Slots
<1>6. \A x \in Cached : Abstract!NoMoreValuable(v, x)
  <2>1. \A x \in Cached : /\ x \in Books /\ in_cache[x]
                          /\ frequency[x] \in Nat /\ last_use[x] \in Nat
    <3>1. \A x \in Books : frequency[x] \in Nat /\ last_use[x] \in 0 .. MaxAccesses
      BY Ranges DEF IInv, TypeOK
    <3> QED
      BY <3>1, CacheAssumption DEF Cached
  <2> HIDE DEF v
  <2> QED
    BY <1>1, <1>3, <2>1 DEF Abstract!NoMoreValuable
<1> HIDE DEF v, s
<1>7. Cached' = (Cached \ {v}) \cup {b}
  BY <1>2, <1>3 DEF Cached, IInv, TypeOK
<1>8. uses_' = [x \in Books |-> IF x = b THEN 1 ELSE IF x \in {v} THEN 0 ELSE uses_[x]]
  BY <1>2, <1>3 DEF uses_, IInv, TypeOK
<1>9. used_' = [x \in Books |-> IF x = b THEN clock + 1 ELSE IF x \in {v} THEN 0 ELSE used_[x]]
  BY <1>2, <1>3 DEF used_, IInv, TypeOK
<1>10. book_to_slot' = [x \in Books |-> IF x = b THEN s ELSE IF x \in {v} THEN NULL ELSE book_to_slot[x]]
  BY <1>2, <1>3 DEF IInv, TypeOK
<1>11. filed_' = filed_ \ {v}
  <2>1. \A x \in Cached \ {v} : book_to_slot'[x] = book_to_slot[x] /\ x # b
    BY <1>3, <1>10 DEF Cached
  <2>2. book_to_slot'[b] = s /\ books'[s] = {}
    BY <1>2, <1>3, <1>4 DEF IInv, TypeOK
  <2>3. \A x \in Cached \ {v} : books'[book_to_slot'[x]] = books[book_to_slot[x]]
    BY <1>2, <1>4, <2>1 DEF IInv, TypeOK
  <2>4. b \notin Cached
    BY <1>3 DEF Cached
  <2> QED
    BY <1>7, <2>2, <2>3, <2>4 DEF filed_
<1>12. Abstract!Admit(b, s, {v})
  BY <1>2, <1>7, <1>8, <1>9, <1>10, <1>11, SameSets DEF Abstract!Admit, uses_, used_, filed_
<1>13. /\ \A t \in Abstract!Slots : \E x \in Cached : book_to_slot[x] = t
       /\ \A x \in Cached : Abstract!NoMoreValuable(v, x)
       /\ s = book_to_slot[v]
       /\ Abstract!Admit(b, s, {v})
  BY <1>5, <1>6, <1>12, SameSets DEF s
<1>14. b \in Abstract!Books \ Cached /\ s \in Abstract!Slots /\ v \in Cached
  BY <1>1, <1>3, <1>4, SameSets DEF Cached
<1>15. \E t \in Abstract!Slots : \E x \in Cached :
         /\ \A u \in Abstract!Slots : \E y \in Cached : book_to_slot[y] = u
         /\ \A y \in Cached : Abstract!NoMoreValuable(x, y)
         /\ t = book_to_slot[x]
         /\ Abstract!Admit(b, t, {x})
  BY <1>13, <1>14 DEF Abstract!Admit
<1> QED
  BY <1>3, <1>14, <1>15, Zenon DEF Abstract!Miss

LEMMA RefineStore ==
  ASSUME IInv, StoreOrder
  PROVE  Abstract!File
<1> DEFINE r == returned.book
<1>1. /\ returned.slot # NULL /\ returned.slot \in Slots /\ r \in Cached
      /\ book_to_slot[r] = returned.slot
      /\ \A x \in Cached \ {r} : book_to_slot[x] # returned.slot
  BY DEF StoreOrder, IInv, TypeOK, PointerCurrent, SlotsPaired, Cached
<1>2. /\ books' = [books EXCEPT ![returned.slot] = @ \cup {r}]
      /\ UNCHANGED <<Cached, uses_, used_, book_to_slot, returned, clock>>
  BY DEF StoreOrder, Cached, uses_, used_
<1>3. \A x \in Cached \ {r} : books'[book_to_slot[x]] = books[book_to_slot[x]]
  BY <1>1, <1>2 DEF IInv, TypeOK
<1>4. r \in books'[book_to_slot[r]]
  BY <1>1, <1>2 DEF IInv, TypeOK
<1>5. filed_' = filed_ \cup {r}
  <2> HIDE DEF r
  <2> QED
    BY <1>1, <1>2, <1>3, <1>4 DEF filed_
<1> QED
  BY <1>1, <1>2, <1>5 DEF Abstract!File, uses_, used_, filed_

(* The cache of lists, counts and cursors implements the abstract LFU cache, *)
(* whatever the number of symbols, the size of the cache and the frequency   *)
(* limit.                                                                    *)
THEOREM Refinement == Spec => RefinesLFU
<1>1. IInv /\ [Next]_vars => [Abstract!Next]_(Abstract!vars)
  <2> SUFFICES ASSUME IInv, [Next]_vars PROVE [Abstract!Next]_(Abstract!vars)
    OBVIOUS
  <2>1. ASSUME NEW b \in BookIds, Access(b) PROVE Abstract!Next
    <3>1. Abstract!Refuse(b) \/ Abstract!Hit(b) \/ Abstract!Miss(b)
      BY <2>1, RefineRefuse, RefineHit, RefineMissRoom, RefineMissFull DEF Access
    <3> QED
      BY <3>1 DEF Abstract!Next
  <2>2. CASE StoreOrder
    BY <2>2, RefineStore DEF Abstract!Next
  <2>3. CASE UNCHANGED vars
    BY <2>3 DEF vars, code_vars, Abstract!vars, Cached
  <2> QED
    BY <2>1, <2>2, <2>3 DEF Next
<1> QED
  BY <1>1, RefineInit, Invariance, PTL DEF Spec, RefinesLFU, Abstract!Spec
=============================================================================
