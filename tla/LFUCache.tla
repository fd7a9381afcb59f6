------------------------------ MODULE LFUCache ------------------------------
(***************************************************************************)
(* lfu_cache.hpp: the O(1) LFU cache of order books.  Every possible book  *)
(* has a node; the nodes of the cached books are threaded into one doubly  *)
(* linked list per access frequency (freq_buckets), most recently accessed *)
(* first; min_frequency names the bucket the next victim comes from.       *)
(*                                                                         *)
(* access() is one action per path through it, each with every helper it   *)
(* calls.  What an order book holds is abstracted to the ids of the books  *)
(* whose orders were stored in it: access() empties the book of a slot it  *)
(* gives to a newcomer, and the caller stores orders through the pointer   *)
(* access() returned (StoreOrder).                                         *)
(***************************************************************************)
EXTENDS IntrusiveLists, FiniteSets

CONSTANTS
  BookIds,         (* the uint16_t ids a caller may pass                     *)
  MAX_SYMBOLS,     (* length of nodes[] and book_to_slot[]                   *)
  MAX_CACHE_SIZE,  (* length of books[] and slot_to_book[]                   *)
  MAX_FREQUENCY,   (* length of freq_buckets[]; bucket 0 stays unused        *)
  MaxAccesses      (* bound on the accesses of a behaviour                   *)

Books == 0 .. MAX_SYMBOLS - 1
Slots == 0 .. MAX_CACHE_SIZE - 1
Freqs == 0 .. MAX_FREQUENCY - 1

ASSUME CacheAssumption ==
  /\ BookIds \subseteq Nat
  /\ MAX_SYMBOLS \in Nat \ {0}
  /\ MAX_CACHE_SIZE \in Nat \ {0}
  /\ MAX_FREQUENCY \in Nat /\ MAX_FREQUENCY >= 2
  /\ MaxAccesses \in Nat
  /\ NULL \notin Int

VARIABLES
  in_cache,       (* nodes[b].in_cache                                       *)
  frequency,      (* nodes[b].frequency; kept when the book is evicted       *)
  links,          (* freq_buckets[f].head/tail, nodes[b].freq_prev/freq_next *)
  count,          (* freq_buckets[f].count                                   *)
  min_frequency,
  book_to_slot,
  slot_to_book,
  cache_size,
  books,          (* books[s]: the ids of the books with orders in it        *)
  hits, misses, evictions,
  returned,       (* the argument and the result of the last access()        *)
  clock,          (* history: accesses so far                                *)
  last_use        (* history: when a book was last accessed                  *)

code_vars == <<in_cache, frequency, links, count, min_frequency, book_to_slot,
               slot_to_book, cache_size, books, hits, misses, evictions>>
vars == <<code_vars, returned, clock, last_use>>

Init ==
  /\ in_cache = [b \in Books |-> FALSE]
  /\ frequency = [b \in Books |-> 0]
  /\ links = NoLinks(Books, Freqs)
  /\ count = [f \in Freqs |-> 0]
  /\ min_frequency = 0
  /\ book_to_slot = [b \in Books |-> NULL]
  /\ slot_to_book = [s \in Slots |-> NULL]
  /\ cache_size = 0
  /\ books = [s \in Slots |-> {}]
  /\ hits = 0 /\ misses = 0 /\ evictions = 0
  /\ returned = [book |-> NULL, slot |-> NULL]
  /\ clock = 0
  /\ last_use = [b \in Books |-> 0]

-----------------------------------------------------------------------------
(* Frequency buckets *)

(* Mutation: the other end of the bucket. *)
MutAddAtTail(L, b, f) == PushTail(L, b, f)

AddToBucket(L, b, f) == PushHead(L, b, f)

(* Mutation: the tail of the bucket is not moved. *)
MutRemoveKeepsTail(L, b, f) ==
  LET U == Unlink(L, b, f)
  IN  [U EXCEPT !.tail = L.tail, !.prev = [@ EXCEPT ![b] = NULL], !.next = [@ EXCEPT ![b] = NULL]]

RemoveFromBucket(L, b, f) ==
  LET U == Unlink(L, b, f)
  IN  [U EXCEPT !.prev = [@ EXCEPT ![b] = NULL], !.next = [@ EXCEPT ![b] = NULL]]

(* Mutation: saturates one too early. *)
MutNextFrequency(f) == IF f < MAX_FREQUENCY - 2 THEN f + 1 ELSE f

NextFrequency(f) == IF f < MAX_FREQUENCY - 1 THEN f + 1 ELSE f

(* Mutation: the cursor stays behind. *)
MutUpdateFrequencyStuck(b) ==
  LET old == frequency[b]
      new == NextFrequency(old)
  IN  /\ frequency' = [frequency EXCEPT ![b] = new]
      /\ links' = AddToBucket(RemoveFromBucket(links, b, old), b, new)
      /\ count' = [[count EXCEPT ![old] = @ - 1] EXCEPT ![new] = @ + 1]
      /\ UNCHANGED min_frequency

(* update_frequency(b): b moves to the head of the next bucket, and the     *)
(* cursor follows it when b was the last book of the lowest bucket.         *)
UpdateFrequency(b) ==
  LET old == frequency[b]
      new == NextFrequency(old)
      C   == [count EXCEPT ![old] = @ - 1]
  IN  /\ min_frequency' = IF C[old] = 0 /\ old = min_frequency THEN new ELSE min_frequency
      /\ frequency' = [frequency EXCEPT ![b] = new]
      /\ links' = AddToBucket(RemoveFromBucket(links, b, old), b, new)
      /\ count' = [C EXCEPT ![new] = @ + 1]

-----------------------------------------------------------------------------
(* access() *)

(* Every access that passes the range check is counted and stamped.         *)
Stamp(b) ==
  /\ clock < MaxAccesses
  /\ clock' = clock + 1
  /\ last_use' = [last_use EXCEPT ![b] = clock + 1]

AccessOutOfRange(b) ==
  /\ b >= MAX_SYMBOLS
  /\ returned' = [book |-> b, slot |-> NULL]
  /\ UNCHANGED <<code_vars, clock, last_use>>

AccessHit(b) ==
  /\ b \in Books
  /\ in_cache[b]
  /\ Stamp(b)
  /\ hits' = hits + 1
  /\ UpdateFrequency(b)
  /\ returned' = [book |-> b, slot |-> book_to_slot[b]]
  /\ UNCHANGED <<in_cache, book_to_slot, slot_to_book, cache_size, books, misses, evictions>>

(* The end of a miss: b moves into slot s; L, C, cached and place are the    *)
(* lists, the counts, in_cache and book_to_slot that the eviction, if there *)
(* was one, has left.                                                       *)
Install(b, s, L, C, cached, place) ==
  /\ Stamp(b)
  /\ misses' = misses + 1
  /\ in_cache' = [cached EXCEPT ![b] = TRUE]
  /\ frequency' = [frequency EXCEPT ![b] = 1]
  /\ links' = AddToBucket(L, b, 1)
  /\ count' = [C EXCEPT ![1] = @ + 1]
  /\ min_frequency' = 1
  /\ book_to_slot' = [place EXCEPT ![b] = s]
  /\ slot_to_book' = [slot_to_book EXCEPT ![s] = b]
  /\ books' = [books EXCEPT ![s] = {}]
  /\ returned' = [book |-> b, slot |-> s]
  /\ UNCHANGED hits

AccessMissRoom(b) ==
  /\ b \in Books
  /\ ~in_cache[b]
  /\ cache_size < MAX_CACHE_SIZE
  /\ cache_size' = cache_size + 1
  /\ Install(b, cache_size, links, count, in_cache, book_to_slot)
  /\ UNCHANGED evictions

(* The book evict_lfu() picks: the tail of the lowest bucket.               *)
Victim == links.tail[min_frequency]

(* Mutation: evict_lfu() leaves the victim's in_cache and book_to_slot.      *)
MutEvictKeepsState(b) ==
  /\ b \in Books
  /\ ~in_cache[b]
  /\ cache_size >= MAX_CACHE_SIZE
  /\ Victim # NULL
  /\ Install(b, book_to_slot[Victim], RemoveFromBucket(links, Victim, min_frequency),
             [count EXCEPT ![min_frequency] = @ - 1], in_cache, book_to_slot)
  /\ evictions' = evictions + 1
  /\ UNCHANGED cache_size

(* A miss in a full cache, with evict_lfu().  Its defensive branch for an   *)
(* empty lowest bucket hands out slot 0 and evicts nobody.                  *)
AccessMissFull(b) ==
  /\ b \in Books
  /\ ~in_cache[b]
  /\ cache_size >= MAX_CACHE_SIZE
  /\ IF Victim = NULL
       THEN /\ Install(b, 0, links, count, in_cache, book_to_slot)
            /\ UNCHANGED evictions
       ELSE /\ Install(b, book_to_slot[Victim],
                       RemoveFromBucket(links, Victim, min_frequency),
                       [count EXCEPT ![min_frequency] = @ - 1],
                       [in_cache EXCEPT ![Victim] = FALSE],
                       [book_to_slot EXCEPT ![Victim] = NULL])
            /\ evictions' = evictions + 1
  /\ UNCHANGED cache_size

Access(b) ==
  \/ AccessOutOfRange(b)
  \/ AccessHit(b)
  \/ AccessMissRoom(b)
  \/ AccessMissFull(b)

(* The caller stores an order of the book it asked for through the pointer  *)
(* it was given; after nullptr it drops the message instead.                *)
StoreOrder ==
  /\ returned.slot # NULL
  /\ books' = [books EXCEPT ![returned.slot] = @ \cup {returned.book}]
  /\ UNCHANGED <<in_cache, frequency, links, count, min_frequency, book_to_slot,
                 slot_to_book, cache_size, hits, misses, evictions,
                 returned, clock, last_use>>

Next == (\E b \in BookIds : Access(b)) \/ StoreOrder

Spec == Init /\ [][Next]_vars

-----------------------------------------------------------------------------
(* Properties *)

Cached == {b \in Books : in_cache[b]}

(* Type correctness. *)
TypeOK ==
  /\ in_cache \in [Books -> BOOLEAN]
  /\ frequency \in [Books -> Freqs]
  /\ links \in Links(Books, Freqs)
  /\ count \in [Freqs -> Nat]
  /\ min_frequency \in Freqs
  /\ book_to_slot \in [Books -> Slots \cup {NULL}]
  /\ slot_to_book \in [Slots -> Books \cup {NULL}]
  /\ cache_size \in 0 .. MAX_CACHE_SIZE
  /\ books \in [Slots -> SUBSET Books]
  /\ hits \in Nat /\ misses \in Nat /\ evictions \in Nat
  /\ returned \in [book : BookIds \cup {NULL}, slot : Slots \cup {NULL}]
  /\ clock \in 0 .. MaxAccesses
  /\ last_use \in [Books -> 0 .. MaxAccesses]

(* The bucket a node belongs to, NULL for a book that is not cached. *)
BucketOf == [b \in Books |-> IF in_cache[b] THEN frequency[b] ELSE NULL]

Counted(C, at) == \A f \in Freqs : C[f] = Cardinality({b \in Books : at[b] = f})

(* The buckets are exact: following the links from head to tail of bucket f  *)
(* meets the cached books of frequency f, each once, latest access first,    *)
(* and count says how many there are.                                        *)
BucketsChained ==
  /\ Chained(links, Books, Freqs, BucketOf, last_use)
  /\ Counted(count, BucketOf)

(* evict_lfu() is sure of a victim without scanning: as soon as a book is    *)
(* cached, min_frequency is the lowest frequency of a cached book (the       *)
(* comment in evict_lfu() relies on access() and update_frequency() for it). *)
MinFrequencyExact ==
  Cached # {} => /\ \E b \in Cached : frequency[b] = min_frequency
                 /\ \A b \in Cached : min_frequency <= frequency[b]

(* Cached books and slots in use are paired off one to one by the two maps,  *)
(* so no two cached books ever share an order book.                          *)
SlotsPaired ==
  /\ \A b \in Books :
       IF in_cache[b]
         THEN /\ book_to_slot[b] \in 0 .. cache_size - 1
              /\ slot_to_book[book_to_slot[b]] = b
         ELSE book_to_slot[b] = NULL
  /\ \A s \in 0 .. cache_size - 1 :
       /\ slot_to_book[s] \in Cached
       /\ book_to_slot[slot_to_book[s]] = s

(* Every miss that took no fresh slot evicted exactly one book, so the       *)
(* defensive branch of evict_lfu() never runs, and the two printed counters  *)
(* account for every access.                                                 *)
CountersAgree ==
  /\ misses = evictions + cache_size
  /\ hits + misses = clock

(* An order book holds orders of the book its slot belongs to and of no      *)
(* other: nothing survives from the previous owner of the slot, and the      *)
(* caller never writes through a pointer whose slot changed hands.           *)
BooksIsolated ==
  \A s \in Slots : books[s] \subseteq (IF slot_to_book[s] = NULL THEN {} ELSE {slot_to_book[s]})

(* Only a full cache evicts, it evicts one book at a time, and that book is  *)
(* the least frequently used one: no cached book has fewer uses, and none    *)
(* with as many was accessed longer ago (the LRU tie-break of the comment in *)
(* evict_lfu()).                                                             *)
Evicted(v) == in_cache[v] /\ ~in_cache'[v]

EvictsLeastFrequent ==
  [][\A v \in Books : Evicted(v) =>
       /\ cache_size = MAX_CACHE_SIZE
       /\ \A x \in Cached \ {v} :
            /\ in_cache'[x]
            /\ \/ frequency[v] < frequency[x]
               \/ frequency[v] = frequency[x] /\ last_use[v] < last_use[x]]_vars

-----------------------------------------------------------------------------
(* The cache implements LFUSpec. *)

Abstract == INSTANCE LFUSpec WITH
  cached <- Cached,
  uses   <- [b \in Books |-> IF in_cache[b] THEN frequency[b] ELSE 0],
  used   <- [b \in Books |-> IF in_cache[b] THEN last_use[b] ELSE 0],
  slot   <- book_to_slot,
  filed  <- {b \in Cached : books[book_to_slot[b]] # {}},
  answer <- returned

(* Every step of the cache is a step the abstract LFU cache allows: it keeps *)
(* each cached book and its orders in a slot of its own, admits books empty, *)
(* and drops only a least frequently, then least recently, used one.         *)
RefinesLFU == Abstract!Spec

-----------------------------------------------------------------------------
(* What the proofs need besides: a cached book has been used at least once,  *)
(* accesses lie in the past, and the pointer of the last access still leads  *)
(* to the slot of the book it was asked for.                                 *)
CachedUsed == \A b \in Books : in_cache[b] => frequency[b] >= 1

UsesPast == \A b \in Books : last_use[b] <= clock

PointerCurrent ==
  returned.slot # NULL => /\ returned.book \in Cached
                          /\ book_to_slot[returned.book] = returned.slot

(* The inductive invariant of the proofs. *)
IInv ==
  /\ TypeOK
  /\ BucketsChained
  /\ MinFrequencyExact
  /\ SlotsPaired
  /\ CachedUsed
  /\ UsesPast
  /\ PointerCurrent
  /\ CountersAgree
  /\ BooksIsolated
=============================================================================
