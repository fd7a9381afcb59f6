--------------------------- MODULE MBOBookWithBIT ---------------------------
(***************************************************************************)
(* fenwick.hpp's order book over mbo.hpp's order pool: every cached book   *)
(* keeps a FIFO queue of orders per side and price, threaded through the   *)
(* orders of one pool shared by all books; a free order's next field links *)
(* the pool's free list instead.  Beside the queues a book keeps the       *)
(* aggregated quantity of each level, a Fenwick tree per side and the best *)
(* bid and ask.  A Fenwick tree is here the array it stands for (module    *)
(* FenwickTree shows that the tree answers as the array does).             *)
(*                                                                         *)
(* The program is single threaded.  enqueue and dequeue are one action     *)
(* each; the loops of trade and clear take one step per order, and nothing *)
(* else runs until they are done.  What nothing reads is left out: the     *)
(* counters total_adds and total_trades, the results of enqueue and trade, *)
(* and what is left in the fields of a free order, which are taken as      *)
(* zeroed here and which enqueue sets anew.                                *)
(***************************************************************************)
EXTENDS IntrusiveLists, FiniteSets, FiniteSetsExt

CONSTANTS
  Books,             (* the books[] of the cache                             *)
  MAX_ORDERS,
  MAX_PRICE_LEVELS,
  U32,               (* the number of uint32_t values                        *)
  PriceInputs,       (* the prices of messages                               *)
  Quantities,        (* the quantities of messages                           *)
  MaxAdds            (* bound on the orders accepted in a behaviour          *)

Orders == 0 .. MAX_ORDERS - 1
Prices == 0 .. MAX_PRICE_LEVELS - 1
Sides  == {"bid", "ask"}
Queues == Books \X Sides \X Prices
INVALID_PRICE == U32 - 1

ASSUME BookAssumption ==
  /\ MAX_ORDERS \in Nat \ {0}
  /\ MAX_PRICE_LEVELS \in Nat \ {0}
  /\ U32 \in Nat /\ MAX_PRICE_LEVELS < U32
  /\ PriceInputs \subseteq Nat
  /\ Quantities \subseteq 0 .. U32 - 1
  /\ MaxAdds \in Nat
  /\ NULL \notin Int /\ NULL \notin Queues

VARIABLES
  links,         (* queue heads and tails; prev_idx, next_idx of the orders  *)
  active, qty, price, side,     (* the other fields of the orders            *)
  free_head, active_count,      (* the pool                                  *)
  level_qty,     (* bid_qty, ask_qty                                         *)
  bit,           (* bid_bit, ask_bit, as arrays                              *)
  best,          (* best_bid, best_ask                                       *)
  call,          (* the trade or clear under way                             *)
  owner,         (* history: the book an active order was added to           *)
  born,          (* history: when it was added                               *)
  depth,         (* history: how many free orders lie below a free one       *)
  adds           (* history: orders accepted so far                          *)

pool_vars == <<links, active, free_head, active_count, depth>>
order_vars == <<qty, price, side, owner, born>>
level_vars == <<level_qty, bit, best>>
vars == <<pool_vars, order_vars, level_vars, call, adds>>

NoBest(s) == IF s = "bid" THEN 0 ELSE INVALID_PRICE

NoCall == [op |-> "idle", queue |-> NULL, want |-> 0, idx |-> NULL]

Idle == call = NoCall

(* The pool and the books live in zeroed static storage.                     *)
Init ==
  /\ links = [NoLinks(Orders, Queues) EXCEPT
                !.next = [n \in Orders |-> IF n = MAX_ORDERS - 1 THEN NULL ELSE n + 1]]
  /\ active = [n \in Orders |-> FALSE]
  /\ qty = [n \in Orders |-> 0]
  /\ price = [n \in Orders |-> 0]
  /\ side = [n \in Orders |-> "ask"]
  /\ free_head = 0
  /\ active_count = 0
  /\ level_qty = [q \in Queues |-> 0]
  /\ bit = [q \in Queues |-> 0]
  /\ best = [bs \in Books \X Sides |-> NoBest(bs[2])]
  /\ call = NoCall
  /\ owner = [n \in Orders |-> NULL]
  /\ born = [n \in Orders |-> 0]
  /\ depth = [n \in Orders |-> MAX_ORDERS - 1 - n]
  /\ adds = 0

-----------------------------------------------------------------------------
(* enqueue_bid(), enqueue_ask() *)

(* a is a better price than b on side s. *)
Better(s, a, b) == IF s = "bid" THEN a > b ELSE a < b

EnqueueRejected(p) ==
  /\ Idle
  /\ p >= MAX_PRICE_LEVELS \/ free_head = NULL
  /\ UNCHANGED vars

(* OrderPool::alloc() and the rest of enqueue. *)
Enqueue(b, s, p, x) ==
  LET n == free_head
      q == <<b, s, p>>
  IN  /\ Idle
      /\ p < MAX_PRICE_LEVELS
      /\ n # NULL
      /\ adds < MaxAdds
      /\ adds' = adds + 1
      /\ free_head' = links.next[n]
      /\ active' = [active EXCEPT ![n] = TRUE]
      /\ active_count' = active_count + 1
      /\ links' = PushTail(links, n, q)
      /\ qty' = [qty EXCEPT ![n] = x]
      /\ price' = [price EXCEPT ![n] = p]
      /\ side' = [side EXCEPT ![n] = s]
      /\ owner' = [owner EXCEPT ![n] = b]
      /\ born' = [born EXCEPT ![n] = adds + 1]
      /\ level_qty' = [level_qty EXCEPT ![q] = (@ + x) % U32]
      /\ bit' = [bit EXCEPT ![q] = @ + x]
      /\ best' = IF Better(s, p, best[<<b, s>>]) THEN [best EXCEPT ![<<b, s>>] = p] ELSE best
      /\ depth' = [depth EXCEPT ![n] = 0]
      /\ UNCHANGED call

-----------------------------------------------------------------------------
(* dequeue() *)

(* Mutation: the rest of the free list is not linked behind n. *)
MutPushFree(L, n, f) == [L EXCEPT !.prev = [@ EXCEPT ![n] = NULL]]

(* n goes on top of the free list whose head is f. *)
PushFree(L, n, f) ==
  [L EXCEPT !.next = [@ EXCEPT ![n] = f], !.prev = [@ EXCEPT ![n] = NULL]]

(* OrderPool::free(n), on the links L; an order that is not active is left   *)
(* alone.                                                                    *)
Free(n, L) ==
  IF active[n]
    THEN /\ active' = [active EXCEPT ![n] = FALSE]
         /\ links' = PushFree(L, n, free_head)
         /\ free_head' = n
         /\ active_count' = active_count - 1
         /\ depth' = [depth EXCEPT ![n] = MAX_ORDERS - active_count]
         /\ qty' = [qty EXCEPT ![n] = 0]
         /\ price' = [price EXCEPT ![n] = 0]
         /\ side' = [side EXCEPT ![n] = "ask"]
         /\ owner' = [owner EXCEPT ![n] = NULL]
         /\ born' = [born EXCEPT ![n] = 0]
    ELSE /\ links' = L
         /\ UNCHANGED <<active, free_head, active_count, depth, order_vars>>

(* update_best_bid(), update_best_ask(): the last or first nonzero level.    *)
Nonzero(v, b, s) == {p \in Prices : v[<<b, s, p>>] # 0}

BestOf(v, b, s) ==
  IF Nonzero(v, b, s) = {}
    THEN NoBest(s)
    ELSE CHOOSE p \in Nonzero(v, b, s) : \A o \in Nonzero(v, b, s) : ~Better(s, o, p)

(* Mutation: the order is freed before it is unlinked. *)
MutRemoveFreesFirst(b, n) ==
  LET s == side[n]
      q == <<b, s, price[n]>>
  IN  /\ level_qty' = [level_qty EXCEPT ![q] = IF @ >= qty[n] THEN @ - qty[n] ELSE 0]
      /\ bit' = [bit EXCEPT ![q] = @ - qty[n]]
      /\ Free(n, Unlink(PushFree(links, n, free_head), n, q))
      /\ best' = IF price[n] = best[<<b, s>>] /\ level_qty'[q] = 0
                   THEN [best EXCEPT ![<<b, s>>] = BestOf(bit', b, s)]
                   ELSE best

(* Mutation: the next best price is looked up among the uint32_t levels. *)
MutRemoveScansLevels(b, n) ==
  LET s == side[n]
      q == <<b, s, price[n]>>
  IN  /\ level_qty' = [level_qty EXCEPT ![q] = IF @ >= qty[n] THEN @ - qty[n] ELSE 0]
      /\ bit' = [bit EXCEPT ![q] = @ - qty[n]]
      /\ Free(n, Unlink(links, n, q))
      /\ best' = IF price[n] = best[<<b, s>>] /\ level_qty'[q] = 0
                   THEN [best EXCEPT ![<<b, s>>] = BestOf(level_qty', b, s)]
                   ELSE best

(* Mutation: whether the level is empty is read before it is updated. *)
MutRemoveStaleCheck(b, n) ==
  LET s == side[n]
      q == <<b, s, price[n]>>
  IN  /\ level_qty' = [level_qty EXCEPT ![q] = IF @ >= qty[n] THEN @ - qty[n] ELSE 0]
      /\ bit' = [bit EXCEPT ![q] = @ - qty[n]]
      /\ Free(n, Unlink(links, n, q))
      /\ best' = IF price[n] = best[<<b, s>>] /\ level_qty[q] = 0
                   THEN [best EXCEPT ![<<b, s>>] = BestOf(bit', b, s)]
                   ELSE best

(* The body of dequeue(n) called on book b, for an active order n.           *)
Remove(b, n) ==
  LET s == side[n]
      q == <<b, s, price[n]>>
  IN  /\ level_qty' = [level_qty EXCEPT ![q] = IF @ >= qty[n] THEN @ - qty[n] ELSE 0]
      /\ bit' = [bit EXCEPT ![q] = @ - qty[n]]
      /\ Free(n, Unlink(links, n, q))
      /\ best' = IF price[n] = best[<<b, s>>] /\ level_qty'[q] = 0
                   THEN [best EXCEPT ![<<b, s>>] = BestOf(bit', b, s)]
                   ELSE best

(* dequeue(n) by a caller holding the index an enqueue gave it: NULL_IDX and *)
(* orders that are gone are ignored, an order of the book is removed.        *)
DequeueIgnored ==
  /\ Idle
  /\ UNCHANGED vars

Dequeue(b, n) ==
  /\ Idle
  /\ active[n] /\ owner[n] = b
  /\ Remove(b, n)
  /\ UNCHANGED <<call, adds>>

-----------------------------------------------------------------------------
(* trade_bid(), trade_ask() *)

TradeRejected(p) ==
  /\ Idle
  /\ p >= MAX_PRICE_LEVELS
  /\ UNCHANGED vars

(* Mutation: the price is not checked. *)
MutTradeBeginUnchecked(b, s, p, x) ==
  /\ Idle
  /\ call' = [op |-> "trade", queue |-> <<b, s, p>>, want |-> x, idx |-> NULL]
  /\ UNCHANGED <<pool_vars, order_vars, level_vars, adds>>

TradeBegin(b, s, p, x) ==
  /\ Idle
  /\ p < MAX_PRICE_LEVELS
  /\ call' = [op |-> "trade", queue |-> <<b, s, p>>, want |-> x, idx |-> NULL]
  /\ UNCHANGED <<pool_vars, order_vars, level_vars, adds>>

(* Mutation: the youngest order comes first. *)
MutFillingYoungest(n) ==
  /\ call.op = "trade"
  /\ call.want > 0
  /\ links.tail[call.queue] = n

(* One turn of the loop: the head of the queue is filled ... *)
Filling(n) ==
  /\ call.op = "trade"
  /\ call.want > 0
  /\ links.head[call.queue] = n

FillWhole(n) ==
  /\ Filling(n)
  /\ qty[n] <= call.want
  /\ call' = [call EXCEPT !.want = @ - qty[n]]
  /\ Remove(call.queue[1], n)
  /\ UNCHANGED adds

(* Mutation: the tree is not told. *)
MutFillPartKeepsVolume(n) ==
  LET q == call.queue
  IN  /\ Filling(n)
      /\ qty[n] > call.want
      /\ qty' = [qty EXCEPT ![n] = @ - call.want]
      /\ level_qty' = [level_qty EXCEPT ![q] = (@ - call.want) % U32]
      /\ call' = [call EXCEPT !.want = 0]
      /\ UNCHANGED <<pool_vars, price, side, owner, born, bit, best, adds>>

(* ... or takes what is left of the trade. *)
FillPart(n) ==
  LET q == call.queue
  IN  /\ Filling(n)
      /\ qty[n] > call.want
      /\ qty' = [qty EXCEPT ![n] = @ - call.want]
      /\ level_qty' = [level_qty EXCEPT ![q] = (@ - call.want) % U32]
      /\ bit' = [bit EXCEPT ![q] = @ - call.want]
      /\ call' = [call EXCEPT !.want = 0]
      /\ UNCHANGED <<pool_vars, price, side, owner, born, best, adds>>

(* Mutation: the loop does not mind an empty queue. *)
MutTradeEndUnfilled ==
  /\ call.op = "trade"
  /\ call.want = 0
  /\ call' = NoCall
  /\ UNCHANGED <<pool_vars, order_vars, level_vars, adds>>

TradeEnd ==
  /\ call.op = "trade"
  /\ call.want = 0 \/ links.head[call.queue] = NULL
  /\ call' = NoCall
  /\ UNCHANGED <<pool_vars, order_vars, level_vars, adds>>

-----------------------------------------------------------------------------
(* clear(): the queues by price, the bids of a price before its asks.        *)

Walk(b, k) == <<b, IF k % 2 = 0 THEN "bid" ELSE "ask", k \div 2>>
LastWalk == 2 * MAX_PRICE_LEVELS - 1

ClearBegin(b) ==
  /\ Idle
  /\ call' = [op |-> "clear", queue |-> Walk(b, 0), want |-> 0,
              idx |-> links.head[Walk(b, 0)]]
  /\ UNCHANGED <<pool_vars, order_vars, level_vars, adds>>

(* next is read before free() links the order into the free list. *)
ClearOrder(n) ==
  /\ call.op = "clear"
  /\ call.idx = n
  /\ Free(n, links)
  /\ call' = [call EXCEPT !.idx = links.next[n]]
  /\ UNCHANGED <<level_vars, adds>>

(* Mutation: the level keeps its quantity. *)
MutResetQueue(q) ==
  /\ links' = [links EXCEPT !.head = [@ EXCEPT ![q] = NULL], !.tail = [@ EXCEPT ![q] = NULL]]
  /\ UNCHANGED level_qty

(* The walked queue is reset; call.want counts the queues walked. *)
ResetQueue(q) ==
  /\ links' = [links EXCEPT !.head = [@ EXCEPT ![q] = NULL], !.tail = [@ EXCEPT ![q] = NULL]]
  /\ level_qty' = [level_qty EXCEPT ![q] = 0]

ClearQueue ==
  LET b == call.queue[1]
      k == call.want + 1
  IN  /\ call.op = "clear"
      /\ call.idx = NULL
      /\ call.want < LastWalk
      /\ ResetQueue(call.queue)
      /\ call' = [call EXCEPT !.queue = Walk(b, k), !.want = k, !.idx = links.head[Walk(b, k)]]
      /\ UNCHANGED <<active, free_head, active_count, depth, order_vars, bit, best, adds>>

ClearEnd ==
  LET b == call.queue[1]
  IN  /\ call.op = "clear"
      /\ call.idx = NULL
      /\ call.want = LastWalk
      /\ ResetQueue(call.queue)
      /\ bit' = [q \in Queues |-> IF q[1] = b THEN 0 ELSE bit[q]]
      /\ best' = [bs \in Books \X Sides |-> IF bs[1] = b THEN NoBest(bs[2]) ELSE best[bs]]
      /\ call' = NoCall
      /\ UNCHANGED <<active, free_head, active_count, depth, order_vars, adds>>

-----------------------------------------------------------------------------
Next ==
  \/ \E p \in PriceInputs : EnqueueRejected(p) \/ TradeRejected(p)
  \/ \E b \in Books, s \in Sides, p \in PriceInputs, x \in Quantities :
       Enqueue(b, s, p, x) \/ TradeBegin(b, s, p, x)
  \/ DequeueIgnored
  \/ \E b \in Books : ClearBegin(b) \/ \E n \in Orders : Dequeue(b, n)
  \/ \E n \in Orders : FillWhole(n) \/ FillPart(n) \/ ClearOrder(n)
  \/ TradeEnd
  \/ ClearQueue
  \/ ClearEnd

Spec == Init /\ [][Next]_vars

(* The thread of the hot loop runs a call it has begun to its end.           *)
Loop == (\E n \in Orders : FillWhole(n) \/ FillPart(n) \/ ClearOrder(n))
          \/ TradeEnd \/ ClearQueue \/ ClearEnd

-----------------------------------------------------------------------------
(* Queries of market depth: the volume within so many levels of the best     *)
(* price, by the trees.                                                      *)

(* bid_volume_range(), ask_volume_range() *)
volume_range(b, s, low, high) ==
  MapThenSumSet(LAMBDA p : bit[<<b, s, p>>], {p \in Prices : low <= p /\ p <= high})

(* Mutation: the difference wraps below zero. *)
Mutbid_depth(b, levels) ==
  LET best_bid == best[<<b, "bid">>]
  IN  IF best_bid = 0 THEN 0
      ELSE volume_range(b, "bid", (best_bid - levels) % U32, best_bid)

bid_depth(b, levels) ==
  LET best_bid == best[<<b, "bid">>]
      low == IF best_bid > levels THEN best_bid - levels ELSE 0
  IN  IF best_bid = 0 THEN 0 ELSE volume_range(b, "bid", low, best_bid)

ask_depth(b, levels) ==
  LET best_ask == best[<<b, "ask">>]
      sum  == (best_ask + levels) % U32
      high == IF sum < MAX_PRICE_LEVELS THEN sum ELSE MAX_PRICE_LEVELS - 1
  IN  IF best_ask = INVALID_PRICE THEN 0 ELSE volume_range(b, "ask", best_ask, high)

-----------------------------------------------------------------------------
(* Properties *)

(* The queue an order belongs to, NULL for a free order.                     *)
Where == [n \in Orders |-> IF active[n] THEN <<owner[n], side[n], price[n]>> ELSE NULL]

Clearing(b) == call.op = "clear" /\ call.queue[1] = b

(* Type correctness. *)
TypeOK ==
  /\ links \in Links(Orders, Queues)
  /\ active \in [Orders -> BOOLEAN]
  /\ qty \in [Orders -> 0 .. U32 - 1]
  /\ price \in [Orders -> Prices]
  /\ side \in [Orders -> Sides]
  /\ free_head \in Orders \cup {NULL}
  /\ active_count \in 0 .. MAX_ORDERS
  /\ level_qty \in [Queues -> 0 .. U32 - 1]
  /\ bit \in [Queues -> Int]
  /\ best \in [Books \X Sides -> Prices \cup {INVALID_PRICE}]
  /\ call \in [op : {"idle", "trade", "clear"}, queue : Queues \cup {NULL},
               want : Nat, idx : Orders \cup {NULL}]
  /\ owner \in [Orders -> Books \cup {NULL}]
  /\ born \in [Orders -> 0 .. MaxAdds]
  /\ depth \in [Orders -> 0 .. MAX_ORDERS - 1]
  /\ adds \in 0 .. MaxAdds

(* The pool never loses an order nor hands one out twice: following the free *)
(* list from free_head meets every inactive order once, so alloc() fails     *)
(* only when all orders are active, and active_count is their number.        *)
FreeOrders == MAX_ORDERS - active_count

FreeAt(n, d) == n \in Orders /\ ~active[n] /\ depth[n] = d

PoolConserved ==
  /\ active_count = Cardinality({n \in Orders : active[n]})
  /\ \A n \in Orders : ~active[n] => depth[n] < FreeOrders
  /\ \A n, m \in Orders : ~active[n] /\ ~active[m] /\ n # m => depth[n] # depth[m]
  /\ IF FreeOrders = 0 THEN free_head = NULL ELSE FreeAt(free_head, FreeOrders - 1)
  /\ \A n \in Orders : ~active[n] =>
       IF depth[n] = 0 THEN links.next[n] = NULL ELSE FreeAt(links.next[n], depth[n] - 1)

(* The queues as clear() sees them: what it has freed is gone from the queue *)
(* it walks, although head, tail and prev are not updated yet.               *)
View ==
  IF call.op # "clear" THEN links
  ELSE [head |-> [links.head EXCEPT ![call.queue] = call.idx],
        tail |-> IF call.idx = NULL THEN [links.tail EXCEPT ![call.queue] = NULL] ELSE links.tail,
        prev |-> IF call.idx = NULL THEN links.prev ELSE [links.prev EXCEPT ![call.idx] = NULL],
        next |-> links.next]

(* Although one next field serves both lists and one pool serves all books,  *)
(* each queue holds exactly the active orders of its book, side and price,   *)
(* oldest first.                                                             *)
QueuesChained == Chained(Mirror(View), Orders, Queues, Where, born)

Resting(q) == {n \in Orders : Where[n] = q}

Volume(q) == MapThenSumSet(LAMBDA n : qty[n], Resting(q))

(* The volume the Fenwick trees report is that of the resting orders, for    *)
(* any quantities.                                                           *)
VolumeExact == \A q \in Queues : ~Clearing(q[1]) => bit[q] = Volume(q)

(* The level quantities are exact as long as no level outgrows a uint32_t    *)
(* ("Aggregated quantity at each level").                                    *)
LevelQtyExact == \A q \in Queues : ~Clearing(q[1]) => level_qty[q] = Volume(q)

(* No level with volume is better than the reported best one, for any        *)
(* quantities.                                                               *)
BestNotBehind ==
  \A q \in Queues : bit[q] > 0 => ~Better(q[2], q[3], best[<<q[1], q[2]>>])

(* With quantities that are positive and do not outgrow a level, the best    *)
(* bid and ask are exactly the best prices at which an order rests.          *)
BestExact ==
  \A b \in Books, s \in Sides : ~Clearing(b) =>
    LET P == {p \in Prices : Resting(<<b, s, p>>) # {}}
    IN  IF P = {} THEN best[<<b, s>>] = NoBest(s)
        ELSE /\ best[<<b, s>>] \in P
             /\ \A p \in P : ~Better(s, p, best[<<b, s>>])

(* As long as they do, the depth queries give the quantity of the orders     *)
(* that rest within so many levels of the best order, past the ends of the   *)
(* array, too.  Nothing is said where the code does not give it: of bids     *)
(* when the best of them is at price 0, and of asks when best_ask + levels   *)
(* does not fit a uint32_t.                                                  *)
DepthExact ==
  \A b \in Books, levels \in 0 .. U32 - 1 : ~Clearing(b) =>
    LET Held(s) == {p \in Prices : Resting(<<b, s, p>>) # {}}
        Near(s, at) == MapThenSumSet(LAMBDA p : Volume(<<b, s, p>>),
                                     {p \in Prices : at - levels <= p /\ p <= at + levels})
    IN  /\ Held("bid") = {} => bid_depth(b, levels) = 0
        /\ ~(Held("bid") \subseteq {0}) => bid_depth(b, levels) = Near("bid", Max(Held("bid")))
        /\ Held("ask") = {} => ask_depth(b, levels) = 0
        /\ Held("ask") # {} /\ Min(Held("ask")) + levels < U32 =>
             ask_depth(b, levels) = Near("ask", Min(Held("ask")))

(* Every trade and every clear comes to its end: no queue has turned into a  *)
(* loop under the walk.                                                      *)
LoopsEnd == []<>Idle

-----------------------------------------------------------------------------
(* The books implement PriceTimeSpec.  The orders of a book being cleared    *)
(* count as gone from the start of clear().                                  *)

Live(n) == active[n] /\ ~Clearing(owner[n])

Abstract == INSTANCE PriceTimeSpec WITH
  resting <- [n \in Orders |-> IF Live(n) THEN Where[n] ELSE NULL],
  left    <- [n \in Orders |-> IF Live(n) THEN qty[n] ELSE 0],
  born    <- [n \in Orders |-> IF Live(n) THEN born[n] ELSE 0],
  trade   <- IF call.op = "trade"
               THEN [queue |-> call.queue, want |-> call.want]
               ELSE [queue |-> NULL, want |-> 0]

(* Every step of the books keeps price-time priority: trades fill the oldest *)
(* order of the queue, and a clear removes the orders of its book only.      *)
RefinesPriceTime == Abstract!Spec

-----------------------------------------------------------------------------
(* What the proofs need besides: an active order has an owner and arrived in *)
(* the past, and a call in progress stands where its loop left off, clear()  *)
(* behind queues it has emptied.                                             *)
OwnersKnown == \A n \in Orders : active[n] => owner[n] \in Books

BornPast == \A n \in Orders : born[n] <= adds

CallOK ==
  \/ call = NoCall
  \/ call.op = "trade" /\ call.queue \in Queues /\ call.idx = NULL
  \/ /\ call.op = "clear"
     /\ call.queue[1] \in Books
     /\ call.want \in 0 .. LastWalk
     /\ call.queue = Walk(call.queue[1], call.want)
     /\ call.idx # NULL => Where[call.idx] = call.queue
     /\ \A k \in 0 .. call.want - 1 : links.head[Walk(call.queue[1], k)] = NULL

(* The inductive invariant of the proofs. *)
IInv ==
  /\ TypeOK
  /\ OwnersKnown
  /\ BornPast
  /\ PoolConserved
  /\ CallOK
  /\ QueuesChained
  /\ BestNotBehind
=============================================================================
