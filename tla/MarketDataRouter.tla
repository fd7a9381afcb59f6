-------------------------- MODULE MarketDataRouter --------------------------
(***************************************************************************)
(* What main.cpp does with a message: the symbol's book id from the trie,  *)
(* the book from the LFU cache, the side from the price, and the order or  *)
(* the trade.  The three parts are taken as their abstract specifications, *)
(* which their modules implement; a book is a slot of the cache.           *)
(*                                                                         *)
(* main() takes any quantity; here only small positive ones come, so that  *)
(* the best prices are those of the resting orders (SmallOrders).          *)
(***************************************************************************)
EXTENDS Integers, FiniteSets, FiniteSetsExt

CONSTANTS
  Symbols,             (* the symbols of messages, told apart by the trie    *)
  MAX_NODES, MAX_BOOKS, INVALID_BOOK_ID,
  MAX_SYMBOLS, MAX_CACHE_SIZE, MAX_FREQUENCY,
  Orders,              (* the slots of the order pool                        *)
  MAX_PRICE_LEVELS,
  U32,                 (* the number of uint32_t values                      *)
  DEFAULT_MID,         (* 50000 in the code                                  *)
  PriceInputs, Quantities,
  MAX_MESSAGES,        (* bound on the messages of a behaviour               *)
  NULL

Slots  == 0 .. MAX_CACHE_SIZE - 1
Prices == 0 .. MAX_PRICE_LEVELS - 1
Sides  == {"bid", "ask"}
Queues == Slots \X Sides \X Prices
INVALID_PRICE == U32 - 1

Messages == [type : {"A", "T", "other"}, symbol : Symbols, price : PriceInputs, qty : Quantities]

ASSUME RouterAssumption ==
  /\ MAX_BOOKS \in Nat /\ MAX_SYMBOLS \in Nat /\ MAX_CACHE_SIZE \in Nat \ {0}
  /\ INVALID_BOOK_ID \in Nat /\ INVALID_BOOK_ID >= MAX_BOOKS /\ INVALID_BOOK_ID >= MAX_SYMBOLS
  /\ U32 \in Nat /\ MAX_PRICE_LEVELS \in Nat /\ 2 * MAX_PRICE_LEVELS < U32
  /\ PriceInputs \subseteq Nat /\ Quantities \subseteq Nat
  /\ NULL \notin Queues

(* A restriction of the model, of which the code checks nothing: no order of *)
(* quantity zero, and none so large that a full pool could outgrow a level.  *)
(* With such orders, and only then, the books' best prices are known to be   *)
(* the best at which an order rests (MBOBookProofs, SmallOrdersExact), which *)
(* is how best_bid and best_ask are defined below.                           *)
ASSUME SmallOrders ==
  /\ 0 \notin Quantities
  /\ \A x \in Quantities : x * Cardinality(Orders) < U32

VARIABLES
  ids, asked, routed,                              (* the trie               *)
  cached, uses, used, slot, filed, pointer, clock, (* the cache              *)
  resting, left, born, trade, adds,                (* the books              *)
  pc, msg,                                         (* the loop body          *)
  unique_symbols, total_packets, parse_failures, total_adds, total_trades,
  owner                (* history: the symbol whose message made an order    *)

trie_vars == <<ids, asked, routed>>
cache_vars == <<cached, uses, used, slot, filed, pointer, clock>>
book_vars == <<resting, left, born, trade, adds>>
stats == <<unique_symbols, total_packets, parse_failures, total_adds, total_trades>>
vars == <<trie_vars, cache_vars, book_vars, pc, msg, stats, owner>>

Trie == INSTANCE SymbolRouter WITH
  Names <- Symbols, NameOf <- LAMBDA s : s, Prefixes <- LAMBDA s : {s},
  INVALID <- INVALID_BOOK_ID, answer <- routed

Cache == INSTANCE LFUSpec WITH
  BookIds <- 0 .. INVALID_BOOK_ID, MaxAccesses <- MAX_MESSAGES, answer <- pointer

Books == INSTANCE PriceTimeSpec

Init ==
  /\ Trie!Init
  /\ Cache!Init
  /\ Books!Init
  /\ pc = "receive"
  /\ msg = NULL
  /\ unique_symbols = 0
  /\ total_packets = 0
  /\ parse_failures = 0
  /\ total_adds = 0
  /\ total_trades = 0
  /\ owner = [n \in Orders |-> NULL]

-----------------------------------------------------------------------------
Receive(m) ==
  /\ pc = "receive"
  /\ total_packets + parse_failures < MAX_MESSAGES
  /\ msg' = m
  /\ Trie!Ask(m.symbol)
  /\ pc' = "lookup"
  /\ UNCHANGED <<cache_vars, book_vars, stats, owner>>

(* 1. The book id of the symbol. *)
Lookup ==
  /\ pc = "lookup"
  /\ Trie!Found(msg.symbol) \/ Trie!Register(msg.symbol) \/ Trie!Refuse(msg.symbol)
  /\ unique_symbols' = unique_symbols + (IF routed'.created THEN 1 ELSE 0)
  /\ pc' = "access"
  /\ UNCHANGED <<cache_vars, book_vars, msg, owner,
                 total_packets, parse_failures, total_adds, total_trades>>

(* 2. The book, emptied if it has just been given to the symbol. *)
AccessHit ==
  /\ pc = "access"
  /\ Cache!Hit(routed.id)
  /\ pc' = "book"
  /\ UNCHANGED <<trie_vars, book_vars, msg, stats, owner>>

(* Mutation: the book keeps its orders. *)
MutAccessMissKeeps ==
  /\ pc = "access"
  /\ Cache!Miss(routed.id)
  /\ pc' = "book"
  /\ UNCHANGED <<trie_vars, book_vars, msg, stats, owner>>

(* Mutation: the pool is initialised with the book. *)
MutAccessMissResetsPool ==
  /\ pc = "access"
  /\ Cache!Miss(routed.id)
  /\ Books!Remove(Orders)
  /\ pc' = "book"
  /\ UNCHANGED <<trie_vars, trade, adds, msg, stats, owner>>

AccessMiss ==
  /\ pc = "access"
  /\ Cache!Miss(routed.id)
  /\ Books!Clear(slot'[routed.id])
  /\ pc' = "book"
  /\ UNCHANGED <<trie_vars, msg, stats, owner>>

AccessRefused ==
  /\ pc = "access"
  /\ Cache!Refuse(routed.id)
  /\ parse_failures' = parse_failures + 1
  /\ pc' = "receive"
  /\ UNCHANGED <<trie_vars, book_vars, msg, owner,
                 unique_symbols, total_packets, total_adds, total_trades>>

(* 3. The operation on the book. *)

PricesOf(b, s) == {p \in Prices : \E n \in Orders : resting[n] = <<b, s, p>>}

best_bid(b) == IF PricesOf(b, "bid") = {} THEN 0 ELSE Max(PricesOf(b, "bid"))
best_ask(b) == IF PricesOf(b, "ask") = {} THEN INVALID_PRICE ELSE Min(PricesOf(b, "ask"))

Mid(b) ==
  LET mid == ((best_bid(b) + best_ask(b)) % U32) \div 2
  IN  IF mid = 0 THEN DEFAULT_MID ELSE mid

(* Mutation: orders at mid are asks. *)
MutSide(b, p) == IF p < Mid(b) THEN "bid" ELSE "ask"

Side(b, p) == IF p <= Mid(b) THEN "bid" ELSE "ask"

InBook(p) == p < MAX_PRICE_LEVELS

Queue == <<pointer.slot, Side(pointer.slot, msg.price), msg.price>>

Full == \A n \in Orders : resting[n] # NULL

Count(adding, trading) ==
  /\ total_adds' = total_adds + adding
  /\ total_trades' = total_trades + trading
  /\ total_packets' = total_packets + 1
  /\ pc' = "receive"
  /\ UNCHANGED <<unique_symbols, parse_failures>>

AddOrder(n) ==
  /\ pc = "book" /\ msg.type = "A"
  /\ InBook(msg.price)
  /\ Books!Add(n, Queue, msg.qty)
  /\ Cache!File
  /\ owner' = [owner EXCEPT ![n] = msg.symbol]
  /\ Count(1, 0)
  /\ UNCHANGED <<trie_vars, msg>>

(* The book refuses the order; it is counted all the same. *)
AddRejected ==
  /\ pc = "book" /\ msg.type = "A"
  /\ ~InBook(msg.price) \/ Full
  /\ Count(1, 0)
  /\ UNCHANGED <<trie_vars, cache_vars, book_vars, msg, owner>>

TradeBegin ==
  /\ pc = "book" /\ msg.type = "T"
  /\ InBook(msg.price)
  /\ Books!StartTrade(Queue, msg.qty)
  /\ pc' = "fill"
  /\ UNCHANGED <<trie_vars, cache_vars, msg, stats, owner>>

TradeRejected ==
  /\ pc = "book" /\ msg.type = "T"
  /\ ~InBook(msg.price)
  /\ Count(0, 1)
  /\ UNCHANGED <<trie_vars, cache_vars, book_vars, msg, owner>>

TradeFill(n) ==
  /\ pc = "fill"
  /\ Books!Fill(n)
  /\ UNCHANGED <<trie_vars, cache_vars, pc, msg, stats, owner>>

TradeEnd ==
  /\ pc = "fill"
  /\ Books!EndTrade
  /\ Count(0, 1)
  /\ UNCHANGED <<trie_vars, cache_vars, msg, owner>>

Other ==
  /\ pc = "book" /\ msg.type = "other"
  /\ Count(0, 0)
  /\ UNCHANGED <<trie_vars, cache_vars, book_vars, msg, owner>>

Next ==
  \/ \E m \in Messages : Receive(m)
  \/ Lookup
  \/ AccessHit \/ AccessMiss \/ AccessRefused
  \/ \E n \in Orders : AddOrder(n) \/ TradeFill(n)
  \/ AddRejected \/ TradeBegin \/ TradeRejected \/ TradeEnd \/ Other

Spec == Init /\ [][Next]_vars

-----------------------------------------------------------------------------
(* Properties *)

(* The order of a symbol rests in the book that the symbol has at present:   *)
(* whatever trie, cache and books have been through, a message reaches the   *)
(* orders of its own symbol and no others.                                   *)
OrdersIsolated ==
  \A n \in Orders : resting[n] # NULL =>
    LET id == ids[owner[n]]
    IN  id \in cached /\ slot[id] = resting[n][1]

(* An order shrinks or leaves only by a trade message of its own symbol, or  *)
(* because its symbol's book is evicted.                                     *)
OwnOrdersOnly ==
  [][\A n \in Orders : resting[n] # NULL /\ <<resting[n], left[n]>>' # <<resting[n], left[n]>> =>
       \/ pc = "fill" /\ owner[n] = msg.symbol
       \/ ids[owner[n]] \in cached \ cached']_vars

(* The price heuristic does not cross a book: while a book has a bid above   *)
(* price 0 and an ask above the bid, whatever the next message, its best bid *)
(* stays below its best ask.  This speaks of the resting orders, and so of   *)
(* the code's best prices as far as SmallOrders holds.                       *)
TwoSided(b) == best_bid(b) > 0 /\ best_ask(b) # INVALID_PRICE

StaysUncrossed ==
  [][\A b \in Slots : TwoSided(b) /\ best_bid(b) < best_ask(b) /\ TwoSided(b)' =>
       best_bid(b)' < best_ask(b)']_vars

(* "Default mid if no BBO yet"                                               *)
DefaultMidWithoutBBO ==
  pc = "book" =>
    LET b == pointer.slot
    IN  best_bid(b) = 0 /\ best_ask(b) = INVALID_PRICE => Mid(b) = DEFAULT_MID
=============================================================================
