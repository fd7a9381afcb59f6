# Verification of the AF_XDP market data pipeline

TLA+ modules that model the pipeline's code, TLC configurations that check them
on small instances, and theorems about them with proofs for TLAPS.  Line numbers
refer to the files of the repository; `PROJECT.json` maps every definition to
the lines it stands for.

## The system

    market_maker.py --UDP--> NIC --xdp_filter.c--> AF_XDP rings --main.cpp-->
        symbol -> trie.hpp -> book id -> lfu_cache.hpp -> fenwick.hpp book -> mbo.hpp pool

One process with one thread.  The only concurrency is with the kernel, which
runs the filter on every receive queue, fills frames and publishes them on a
ring while the program reads others, and with a signal handler that clears one
flag.  Everything behind the rings is
sequential, but it is a set of hand-made index structures over preallocated
arrays whose correctness depends on long sequences of operations.

| part | state | operations | interacts with | hard about it |
|---|---|---|---|---|
| receive loop, socket (main.cpp) | rings, UMEM frames, `addrs`, counters, `g_running`, handles for cleanup | set up in five stages, peek / handle / release / replenish, poll, cleanup | kernel (shared rings), signals, trie, cache, books | frames change owner four times per round; setup fails halfway; signal at any point |
| LFU cache (lfu_cache.hpp) | nodes, frequency buckets, minimum cursor, two slot maps, the books | `access` (hit, miss, evict) | loop; clears the books it hands on | five redundant structures updated by hand; eviction without a scan |
| order book (fenwick.hpp) | queues per side and price, level quantities, two trees, best prices | enqueue, dequeue, trade, clear | cache, order pool | intrusive lists, two aggregates of different width, best price by search |
| order pool (mbo.hpp) | orders, free list, count | alloc, free | all books | `next_idx` is free list and queue link in one |
| Fenwick tree (fenwick.hpp) | `tree` | update, sums, two searches | book | binary lifting on a size that is no power of two |
| symbol trie (trie.hpp) | nodes, `node_count`, `next_book_id` | `get_or_create` | loop | runs out of nodes mid-insert, of ids after it; aliases |
| filter (xdp_filter.c) | `xsks_map`, `stats_map` per CPU | redirect, pass, count | kernel, the socket in the map | runs before the socket exists and while it goes; on queues that have none |
| parser (main.cpp, types.hpp) | - | find the message, swap bytes | filter | two parsers that must agree |
| `PriceLevelBook` (types.hpp) | a quantity per side and price, best prices | add, trade, by a guessed side | nothing calls it | the scan for the best price, the guess |
| `MBOBook` (mbo.hpp) | as fenwick.hpp's without trees | as fenwick.hpp's | nothing calls it | best price by scan of the levels |
| packet generator, setup script | - | send a hundred packets; make interfaces | - | - |

What makes each part correct is listed with its module below; what is hard to
test is in `PROJECT.json` under `hazards`, each at its line.

## Modules

| module | models | promises (abstract specification) | for TLC | proofs |
|---|---|---|---|---|
| `PacketPath` | xdp_filter.c; main.cpp: map and parser; types.hpp: byte order | (the sender's message) | `MCPacketPath` | `PacketPathProofs` |
| `ReceiveLoop` | main.cpp: setup, loop, cleanup, signal; kernel | `PacketFifo` | `MCReceiveLoop` | `ReceiveLoopProofs` |
| `LFUCache` | lfu_cache.hpp | `LFUSpec` | `MCLFUCache` | `LFUCacheProofs` |
| `MBOBookWithBIT` | fenwick.hpp book, mbo.hpp pool | `PriceTimeSpec` | `MCMBOBookWithBIT` | `MBOBookProofs` |
| `MBOBook` | mbo.hpp book, in step with `MBOBookWithBIT` | `PriceLevelBook` | `MCMBOBook` | `MBOBookProofs` |
| `PriceLevelBook` | types.hpp book | - | `MCLevels`, `MCPriceLevelBook` | `LevelProofs` |
| `IntrusiveLists` | the lists of cache and books | (its own `Chained`) | - | `DataTheorems` |
| `FenwickTree` | fenwick.hpp tree | the array it stands for | `MCLevels` | `LevelProofs` |
| `PrefixTrie` | trie.hpp | `SymbolRouter` | `MCPrefixTrie` | `PrefixTrieProofs` |
| `MarketDataRouter` | main.cpp: what becomes of a message | composes `SymbolRouter`, `LFUSpec`, `PriceTimeSpec` | `MCMarketDataRouter` | `MarketDataRouterProofs` |

Operators named `Mut...` stand before the definition they are a wrong version
of: a bug that could plausibly have been written there.  No specification uses
them; with one of them in place of the definition, the property named in
`PROJECT.json` fails, which shows that the property depends on that code.

### PacketPath

From the wire into main()'s hands.  The filter runs on each receive queue; a
frame that it lets go is one action (`FilterIgnores`, `FilterPasses`), one that
it redirects is two, since between the counting (xdp_filter.c:104) and the look
into the map (xdp_filter.c:108) main() may fill in the map or close the socket:
`FilterRedirects`, then `RedirectMap`.  `Attach`, `UpdateXskMap`, `Detach` and
`DeleteSocket` are what main() does to program and map; the rest of its setup is
in `ReceiveLoop`.  A frame is its length and the header fields the two parsers
look at, with the sender's message behind the UDP header; the parser's offset
decides whether main() reads that message or other bytes.  Numbers of the message
are sequences of bytes, packed as market_maker.py packs them and reversed as
types.hpp reverses them.  `arrived` and `passed` are history variables.

- `FramesConserved`: each frame goes to the socket or to the network stack, once,
  at every stage of main(), also on the queues without a socket; and the
  counters account for all UDP frames.  The counter of redirected frames is not
  the number that reached the socket: a frame that finds no socket is passed on
  after it has been counted.
- `RedirectedParsed`: the parser accepts what the filter redirects, finds it
  where the sender put it and reads what was sent, IP options or not.  The only
  exception is an Ethernet frame marked IPv4 whose IP header has another
  version: the filter does not look at it, main() drops it.
- `NothingMissed`: what the parser would take is not left to the network stack
  while the socket is in the map.

### ReceiveLoop

`pc` is the line `main()` is at; each stage of setting up, each test and call of
the loop and each `if` of `cleanup()` is one action, so that the kernel and the
signal can come between any two.  Two actions model a packet in the kernel: it
takes a frame off the fill ring and copies a packet into it (`KernelCopies`),
then publishes it (`KernelPublishes`); without a frame it drops (`KernelDrops`).
A ring is the sequence of entries submitted and not yet taken back: what has
been peeked stays on `rx_ring` until `Release`, as in the code, where the
kernel's view of the ring moves only with `xsk_ring_cons__release`.  Every stage
may fail as the code lets it; the two ways in which `init_umem()` fails have the
same outcome and are one action.  A packet is an id with its outcome (`Kinds`),
chosen when it arrives.  `accepted` and `handled` are history variables.

- `FramesConserved`: from population on, each frame in use is in exactly one of
  fill ring, kernel, rx ring and `addrs`.
- `PacketsIntact`: the frames on the rx ring hold the packets published, in
  order, until they have been read.
- `StatsAddUp`: at every point of the loop the packets handled are the parsed
  ones and the failures, no failure of the parser is missing from
  `parse_failures`, the messages by type add up, and the packets and bytes
  received are those handled.  What `parse_failures` counts beyond the parser's
  failures is the subject of `ParseFailuresAreUnparsed`, which is violated (see
  below).
- `ResourcesNested`: nothing outlives what it depends on and nothing is left at
  exit, whichever stage failed and whenever the signal came.
- `RefinesFifo`: packets are handled in order, once, unchanged.
- `PacketsHandled`, `SignalStopsProgram`: liveness, see below.

### LFUCache

One action per path through `access()`, each with all helpers it calls
(`AccessOutOfRange`, `AccessHit`, `AccessMissRoom`, `AccessMissFull`), and
`StoreOrder` for the caller who stores an order through the pointer it got.
`links` holds the buckets' `head`/`tail` and the nodes' `freq_prev`/`freq_next`
as one value of `IntrusiveLists`.  What a book contains is abstracted to the ids
of the books whose orders were stored in it.  The defensive branch of
`evict_lfu()` is in the model; `CountersAgree` fails if it is ever taken.
`clock` and `last_use` are history variables that state the LRU tie-break.

### MBOBookWithBIT

Several books over one pool.  `enqueue` and `dequeue` are one action each; the
loops of `trade` and `clear` take one step per order so that the invariants are
checked between the turns, but nothing else runs until they end (`call`).
`level_qty` wraps at `U32` and is clamped as in the code; `bit` stands for the
trees as arrays, which `FenwickTree` justifies.  `owner`, `born` and `depth` are
history variables: whose order it is, when it came, how deep in the free list it
lies.  `Free` returns without effect for an order that is not active, as `free()`
does (mbo.hpp:75); `PoolConserved` and `QueuesChained` show that no call of the
book meets that case.  `View` corrects for what `clear()` has not written yet while it walks a
queue.

- `PoolConserved`: `alloc()` fails only when all orders are active, and never
  hands out an active one.
- `QueuesChained`: each queue is exactly its orders, oldest first, in both
  directions, although one field serves queues and free list.
- `VolumeExact`, `BestNotBehind`: hold for any quantities, zero and wrapping
  ones included.  `LevelQtyExact`, `BestExact`: hold as long as quantities are
  positive and a level fits its word.  Beyond that they do not: `bid_qty` wraps
  at 2^32 where the trees count in `int64_t` (fenwick.hpp:118, 181), and
  `dequeue()` clamps what it cannot subtract (fenwick.hpp:245).
- `DepthExact`: `bid_depth()` and `ask_depth()` give the quantity of the orders
  that rest within so many levels of the best one, in the same bounds, for every
  number of levels that a `uint32_t` holds.  Two cases are left out because the
  code does not give that quantity there; they are listed under the disagreements
  below: bids whose best price is 0, and asks with `best_ask + levels` past the
  word.
- `LoopsEnd`: trades and clears end.
- `RefinesPriceTime`: price-time priority.

### MBOBook

The earlier book of mbo.hpp has the same queues, levels, pool and loops as its
successor and no trees; it finds the next best price by scanning the levels from
the old one.  The module extends `MBOBookWithBIT` by one variable, the best
prices found by scanning (`scanned`), and conjoins to each action what the scan
does, so that both books get the same calls.

- `ScanAgrees`: the two find the same best prices after every step, also between
  the orders of one trade, with positive quantities that fit their level.
- `StepsAsPriceLevelBook`: every step but those of a clear moves the levels and
  best prices of a book as an add or a trade of a `PriceLevelBook` (instantiated
  per book) or not at all: a book of orders is a flat book that is told of the
  fills.

### PriceLevelBook

types.hpp's `process()`: one action for an add, one for a trade, one for messages
that change nothing.  Level quantities wrap at `U32`.

- `BestNotBehind`: no level with quantity is better than the best price, also
  when levels wrap to zero or quantities are zero.
- `AsksAreMade`: what types.hpp:74 and :82 say of asks; violated (see below).
  `OneSided` is what the code does instead: without an ask every add is a bid
  (types.hpp:84), so there is never an ask and `spread()` is always 0.  It is no
  property of a run, but `BestNotBehind` cannot be proved without it.

### FenwickTree

`N` is chosen in the initial state, so one run covers all sizes up to `MaxN`.
The queries are recursive functions over the tree as the code's loops are.

### PrefixTrie

The loops of `lookup` and `insert` take one step per character; symbols with
bytes past the alphabet are in the instance.  `label`, `depth`, `given` and
`asked` are history variables: the prefix a node was made for, the ids handed
out, the names seen.  `RoutesExact` compares a walk of every possible name with
what was handed out, also in the middle of an insert.

### MarketDataRouter

The loop body of main.cpp from the lookup on, over the abstract specifications
of trie, cache and books.  That is sound because each of the three is shown to
be implemented by its module; the loop calls them one after the other, so their
steps do not interleave.  A book is the slot of the cache it lies in, as in the
code; `AccessMiss` is the cache's miss together with the clearing of the book.
The best prices are those of the resting orders.  The code's are the same for
orders of positive quantity that fit their level (`SmallOrdersExact`), so the
assumption `SmallOrders` admits only such orders.  That is a restriction of the
model: main.cpp checks no quantity, and what becomes of the others is seen in
`MBOBookWithBIT`.  The sum in `Mid` wraps at `U32`.  `owner` is a
history variable: whose message made an order.

- `OrdersIsolated`: an order lies in the book its symbol has at present.
- `OwnOrdersOnly`: an order shrinks or leaves only by a trade of its own symbol
  or with its book.
- `StaysUncrossed`: the side heuristic keeps best bid below best ask once both
  exist in that order.  It says nothing of how a second side comes about: with a
  best bid b and no ask the mid is (b - 1) / 2, so an order below b may become
  an ask and the book begins crossed.
- `DefaultMidWithoutBBO`: what the comment at main.cpp:443 says; violated.

## Runs

| run | instance | distinct states | question |
|---|---|---|---|
| `lfu_cache` | 4 books and one id too many, 3 slots, frequencies to 3, 7 accesses | 281,490 | does the bookkeeping stay exact and the policy LFU? |
| `books` | 2 books, 2 prices and one past them, 3 orders, 3 adds, quantities 0, 1 and 3 in words of 4 values | 896,314 | pool, queues, price-time priority, and what survives overflow and zero quantities |
| `book_generations` | 1 book of either kind, 3 prices, quantities 1 and 2 that fit, fair | 334,098 | exact levels, depths and best prices, by tree and by scan; termination |
| `levels` | flat book: 4 prices and one past them, quantities 0, 1, 3 and 5 in words of 8 values; trees: sizes 1 to 8, up to 2 units per entry | 47,272 | the two ways to the next best price: scan of a flat book, search of a tree |
| `packet_path` | 2 queues, one with a socket, 2 frames on each, 19 kinds of frame | 435,457 | two parsers, the map, the counters |
| `symbol_trie` | 8 nodes, 3 ids, 8 symbols of 3 bytes | 175,004 | routing, also when full |
| `receive_loop` | 6 frames (3 in use), batch of 2, 4 packets of 5 kinds, fair | 311,045 | frames, order, counters, resources; liveness |
| `router` | 4 symbols, 2 slots, 3 orders, prices 2 and 3 of 4 and one past them, 4 messages | 496,031 | the parts together |
| `default_mid` | as `router` | violation | the default mid |
| `trie_created_flag` | as `symbol_trie` | violation | the `created` flag |
| `asks_made` | the flat book of `levels` | violation | the asks of the flat book |
| `parse_failures` | as `receive_loop` | violation | the counter "Parse Failures" |

Why the bounds are enough to be interesting:

- Cache: with one book more than slots every full cache evicts; seven accesses
  fill three slots, raise all frequencies and evict again, and frequency 3
  saturates.  Out-of-range ids are refused.
- Books: three orders make head, middle and tail of a queue, and exhaust the
  pool; `MaxAdds` bounds only the history counter.  Two books compete for the
  pool; freed orders are used again by trades and clears that come between adds.
  Two prices make one the next best of the other; quantity 3 twice wraps a word
  of 4 values, and 0 rests without volume.  `book_generations` has one book and
  three prices, so that a search passes over an empty level.
- Trie: eight nodes hold two disjoint symbols, or more with common prefixes, so
  nodes run out in the middle of a path, and in other behaviours the three ids
  run out before the nodes.
- Receive loop: ring sizes are in the code's proportion (half of the frames are
  in use and fit the rx ring; the fill ring has twice its size); four packets
  exceed the three frames, so that frames are reused and packets dropped, and a
  batch of two leaves packets on the ring.  `MAX_PACKETS` bounds the history.
- Packet path: frames with and without IP options, of lengths on either side of
  every bound that one of the parsers checks, and one for every other reason not
  to be market data; two frames on a queue, so that one may wait for the redirect
  or the parser when the next arrives.  `BYTE` is 4 so that numbers of a few bits
  fill more than one byte.
- Flat book: quantities that wrap a level to zero, and 0; with four prices the
  upper half, where the guess would have made asks, has two.
- Router: the third symbol evicts a book, and a fourth message comes back to the
  evicted symbol or reaches the id past the cache; two messages make a book with
  two sides, and two more trade or add at its mid.  The ids
  suffice for all four symbols; refusals come from want of nodes, and one for want
  of an id is the same step of `SymbolRouter` (`symbol_trie` has both causes).  `MAX_MESSAGES` ends the
  behaviours.

Deadlock is checked except for `ReceiveLoop` and `PacketPath`, where the program
really ends (in the latter the packets do, too), and for `MarketDataRouter`,
where the messages end.

### Fairness

`MBOBook!ScannedSpec`: the thread that has begun a trade or a clear goes on
with it (weak fairness of the loop's steps); nothing is assumed of new calls.
`ReceiveLoop!FairSpec`: weak fairness of the steps of `main()` and of the kernel
publishing a packet it has begun to copy.  `Poll` is always enabled at its line
because the call has a timeout of 100 ms (main.cpp:391): without it a signal
between the test of `g_running` and the call would be lost, which is what
`MutPoll` shows.  Neither signals nor packets are assumed to come.

### Disagreements with the repository's text

- `default_mid`: main.cpp:443 has "Default mid if no BBO yet", for a mid of 0.
  Without best prices the mid is (0 + 0xFFFFFFFF) / 2, so the default is not
  used and the first order of a book is a bid at any price.  It is used where
  there is a best price: with a best bid of 1 or 2 and no ask, where the sum
  wraps.
- `trie_created_flag`: trie.hpp:100 says `created` tells "if a new symbol was
  registered"; it is also set when `insert()` refuses the symbol, so
  `unique_symbols` in main.cpp counts every message of such a symbol.
- `asks_made`: types.hpp:74 has "adds with price < mid as bids, >= mid as asks"
  and types.hpp:82 "Otherwise treat as ask".  The code has no mid: without an ask
  every add is a bid (types.hpp:84), so none is ever an ask.
- `parse_failures`: main.cpp prints `parse_failures` as "Parse Failures"
  (main.cpp:495), beside "Total Parsed" (main.cpp:494).  A message that was
  parsed and for which there is no book, because its symbol got no id or one
  past the cache, is counted among the former, not the latter (main.cpp:433-434).

Some more sentences of the repository do not match the code.  Two of them are
the exceptions of `DepthExact`, where it says nothing: fenwick.hpp:356 promises
"total bid volume from best_bid down N levels", and `bid_depth()` returns 0 when
the best bid is at price 0 (line 358); fenwick.hpp:363 promises "total ask volume
from best_ask up N levels", and `ask_depth()` adds in 32 bits (line 366), so
that from `UINT32_MAX - best_ask` + 1 levels on it looks below the best ask and
returns 0, where `bid_depth(UINT32_MAX)` is the whole side.  The others are of
documentation only: README.md:57 gives the message 17 bytes, types.hpp:16 and the filter 25; and
xdp_filter.c:69 says "no options for simplicity", where options are accepted and
skipped.

## Proofs

The theorems hold for every value of the constants allowed by the named
assumptions (`CacheAssumption`, `BookAssumption`, `LevelAssumption`,
`PathAssumption`, `RingAssumption`, `TrieAssumption`, `RouterAssumption`): any
number of books, slots, orders, prices, queues, frames, nodes, ids and symbols,
any word size.  With one exception the assumptions say no more than the
code's constants do: sizes
are positive, a price fits its word (100000 < 2^32, with room for the sum of two
in the router), half of the frames fit either ring (main.cpp:34-45), the fields
of a message have the values of 8 and 4 bytes, and `NULL`, `NONE` and the invalid
id are none of the things they stand apart from.  The exception is `SmallOrders`
of `MarketDataRouter`, a restriction to quantities that keep the books' best
prices exact; of the router's theorems only `Uncrossed` is about best prices.  All proofs run along the same
lines: a strengthening `IInv` of the properties that every step preserves.

1. `DataTheorems` holds what several proofs need to know of data.  Its one
   inductive argument is that a nonempty set has an element of least age; every
   other induction is a least counterexample.  Folds and sums over finite sets
   are defined by choosing a recursive function: one is shown to exist, then any
   two agree, then a sum changes with one element as expected, and a sum over two
   sets is that of their sums.  `RecursionExists` does the same for any function
   that calls itself at an argument nearer to its end.  `PushHead`,
   `PushTail` and `Unlink` preserve `Chained`.  Ages make the lists acyclic: they
   fall strictly from head to tail, so that a list is described by conditions on
   neighbours, which need no induction.
2. `LFUCacheProofs`: the inductive invariant `LFUCache!IInv` is the conjunction
   of all state properties plus `CachedUsed` (a cached book has frequency at
   least 1, so bucket 0 stays empty), `UsesPast` (stamps are in the past, so the
   newest goes to the head) and `PointerCurrent` (the last pointer returned
   still belongs to its book, which is why storing through it is harmless).
   `MinFrequencyExact` and `BucketsChained` together give `evict_lfu()` a victim;
   that is why its defensive branch is dead.  The action property
   `EvictsLeastFrequent` and the refinement `RefinesLFU` follow from the same
   invariant step by step.
3. `MBOBookProofs`: `MBOBookWithBIT!IInv` adds `OwnersKnown`, `BornPast` and
   `CallOK` (where a trade or a clear in progress stands; `clear()` leaves only
   emptied queues behind it).  The free list is described by `depth`, again
   without induction.  `BestNotBehind` needs nothing of the sums: only that the
   search returns no price worse than a nonzero entry.  Every step maps to a step
   of `PriceTimeSpec` or to a stutter (`Refinement`): a clear takes effect
   abstractly when it begins.
4. The numbers of the book, in the same module.  `VolumeExact` is inductive with
   `IInv` and holds for any quantities.  The others cannot be proved without a
   condition, because without it they are false: a `uint32_t` level wraps, and an
   order of quantity zero rests without volume.  `Fits` says that the orders of
   every level fit its word; `[]Fits` is a hypothesis of `LevelsExact`,
   `BestAlwaysExact`, `DepthAlwaysExact`, `ScanAlwaysAgrees` and
   `FollowsPriceLevelBook`, and `0 \notin Quantities` of those that speak of
   orders, not volumes.  `SmallOrdersFit` shows when the hypothesis holds by
   itself: when the largest quantity times the size of the pool is below 2^32,
   which with a pool of 1000000 (mbo.hpp:37) is so for quantities up to 4294.
   `SmallOrdersExact` draws the conclusion: with such orders level quantities,
   best prices and depths are exact after any sequence of calls, the
   depths but for the two exceptions of `DepthExact`.  In `MBOBook`
   scan and search agree because `BestNotBehind` leaves the scan nothing to miss
   where levels and volumes are equal; then every fill is a trade of the flat
   book and every enqueue an add.
5. `LevelProofs`, the flat book: the conjunction of type invariant,
   `BestNotBehind` and `OneSided` is inductive.  `OneSided` (`AlwaysOneSided`) is
   needed to know that an add or a trade is one of the bids; `BestNotBehind`
   before a trade is what makes it right to scan from the old best price.

   `LevelProofs`, the Fenwick tree: everything said of lowest set bits is proved by
   halving, which no prover needs powers of two for.  From inside the range of an
   entry a step up never passes the entry, and from before the range it never ends
   inside (`StepsUp`); so `update()` adds to exactly the entries whose ranges hold
   the position (`AboveExact`), and it is inductive that every entry is the sum of
   its range (`PartialSums`).  A prefix sum puts such ranges end to end.  The
   searches keep `Halted`: before `pos` lies less than what is sought, and before
   `pos + pw`, if that is a position at all, as much.  The entry tried next starts
   its range at `pos` because `pos` is a multiple of twice `pw` (`GridSteps`), and
   the start is right because twice `highest_bit()` exceeds N, also where N is no
   power of two.  Nothing is assumed of the size or of the volumes.
6. `PacketPathProofs`: `ParsersAgree` compares the checks of filter and parser
   once, for any frame.  The inductive invariant says that whatever waits for
   the redirect or for main() has passed the filter; with the lemma it gives
   `ReadAsPacked` and `NothingMissed`.  `BytesRead` shows that reversing the bytes
   that were packed gives back the number, for any number that fits: what is left
   after k shifts is the value of the bytes from the k-th on.  `RedirectedParsed`
   puts the two together.  `FramesConserved` is inductive on top of it.
7. `ReceiveLoopProofs`: `IInv` is the type invariant with `HeldByStage` (what is
   held at each stage of setting up and cleaning up), `Circulation` (fill ring,
   kernel, rx ring and `addrs` hold each frame in use once), `BatchUnderWay` (the
   batch is the front of the rx ring, the addresses saved are its frames) and
   `PacketsInPlace` (the frames on the rx ring hold the newest packets accepted;
   those handled are all before them).  Since a frame is in one place only, what
   the kernel fills is never on the rx ring; that is `PacketsIntact`, and that
   packets leave in the order they came is `RefinesFifo`.  Since each frame
   in use is in one place and they all fit either ring, no ring holds more than it
   has room for (`RingsFit`, in `TypeCorrect`), and the reservation at
   main.cpp:475 never gets less than it asks for.  `StatsAddUp` is inductive on top of it.
8. `PrefixTrieProofs`: `IInv` says where the nodes are (`EdgesSpell`,
   `NodesReached`, `LabelsReach`, `LabelsDiffer`, `FreeNodesEmpty`: the nodes are
   the prefixes their labels spell, each once), where the call in progress stands
   (`CallPlaced`), and where the ids are (`IdsPlaced`, `IdsCounted`,
   `NodesAskedFor`).  The walk that `RoutesExact` compares with what was handed
   out is a recursive function; it is shown to exist and to stay on the node whose
   label is the prefix read so far.  `NodesAskedFor` is what the refinement needs
   when `insert()` runs out of nodes: the nodes used are prefixes of names asked
   for, so that `SymbolRouter` may refuse as well.
9. `MarketDataRouterProofs`: `IInv` has a part for each component (`TrieSound`:
   ids are distinct; `CacheSound`: cached books and slots are paired off;
   `OrdersTyped`, `TradeTyped`) and `BodySound`, which says what the loop body
   knows at each line: that the id it has is the one of the symbol, that the
   pointer leads to the slot of that id.  With these `OrdersIsolated` is
   inductive, and the two action properties follow from it.  `Uncrossed` speaks of
   the best prices of resting orders, and so of the code's under `SmallOrders`.

Only model-checked: `LoopsEnd`, `PacketsHandled` and `SignalStopsProgram`.
They are liveness, which is out of the prover's reach.

The type invariants of `LFUCache`, `PriceLevelBook`, `PacketPath` and
`PrefixTrie` are in no run: they are proved, as conjuncts of the inductive
invariants.

## Abstractions

- Widths are kept where they matter: level quantities.  Volumes in the trees
  (`int64_t`), 64-bit counters and stamps cannot reach their bounds and are
  integers.
- `order_id`, `symbol` in the nodes and timestamps are written and never read.
- A free order's remaining fields count as zero; `enqueue` sets them anew.
- `peek()`, `is_cached()` and hit rates read only.
- `insert()`'s case of a symbol that already has an id cannot arise behind a
  lookup.

## Not modelled

- The setup script: commands that make network interfaces.  Of the packet
  generator only the layout of its message is used.
- The printing of statistics and the one-time dump of a packet.
- `insert()`'s case of a symbol that already has an id, see above.
- Accessors that only return a field or a ratio.

## Plan

All parts that keep state are modelled, and every safety property, action
property and refinement that a passing run checks is a theorem; where it holds
only under a condition (`[]Fits`, no order of quantity zero) the theorem names it.
Liveness stays with TLC.
