----------------------- MODULE MarketDataRouterProofs -----------------------
(***************************************************************************)
(* Messages and orders stay with their symbol, for any symbols, cache,     *)
(* pool and price levels.                                                  *)
(***************************************************************************)
EXTENDS MarketDataRouter, FiniteSetTheorems, TLAPS

(* For its lemma on least elements. *)
Data == INSTANCE DataTheorems WITH NULL <- NULL

-----------------------------------------------------------------------------
(* The inductive invariant                                                   *)

BookIds == 0 .. MAX_SYMBOLS - 1

Stages == {"receive", "lookup", "access", "book", "fill"}

(* Ids are handed out one after the other and never twice. *)
TrieSound ==
  /\ ids \in [Symbols -> 0 .. MAX_BOOKS - 1 \cup {INVALID_BOOK_ID}]
  /\ IsFiniteSet(Trie!Known)
  /\ \A s \in Trie!Known : ids[s] < Cardinality(Trie!Known)
  /\ \A s, t \in Trie!Known : ids[s] = ids[t] => s = t

(* Cached books have slots, and share none. *)
CacheSound ==
  /\ cached \subseteq BookIds
  /\ slot \in [BookIds -> Slots \cup {NULL}]
  /\ \A b \in cached : slot[b] \in Slots
  /\ \A a, b \in cached : slot[a] = slot[b] => a = b

(* What the loop body has in its hands is the symbol's id, book and queue.   *)
BodySound ==
  /\ pc \in Stages
  /\ pc # "receive" => msg \in Messages
  /\ pc \in {"access", "book", "fill"} => routed.id = ids[msg.symbol]
  /\ pc \in {"book", "fill"} => routed.id \in cached /\ pointer.slot = slot[routed.id]
  /\ pc = "fill" => trade.queue[1] = pointer.slot

OrdersTyped ==
  /\ resting \in [Orders -> Queues \cup {NULL}]
  /\ DOMAIN left = Orders
  /\ owner \in [Orders -> Symbols \cup {NULL}]
  /\ \A n \in Orders : resting[n] # NULL => owner[n] \in Symbols

TradeTyped == trade = [queue |-> trade.queue, want |-> trade.want]

IInv ==
  /\ TrieSound
  /\ CacheSound
  /\ BodySound
  /\ OrdersTyped
  /\ TradeTyped
  /\ OrdersIsolated

LEMMA InitIInv == Init => IInv
<1> SUFFICES ASSUME Init PROVE IInv
  OBVIOUS
<1>1. TrieSound
  <2>1. ids = [s \in Symbols |-> INVALID_BOOK_ID]
    BY DEF Init, Trie!Init
  <2>2. Trie!Known = {}
    BY <2>1 DEF Trie!Known
  <2> QED BY <2>1, <2>2, FS_EmptySet DEF TrieSound
<1>2. CacheSound
  BY DEF Init, Cache!Init, CacheSound, BookIds, Cache!Books
<1>3. BodySound
  BY DEF Init, BodySound, Stages
<1>4. OrdersTyped /\ OrdersIsolated
  BY DEF Init, Books!Init, OrdersTyped, OrdersIsolated
<1>5. TradeTyped
  BY DEF Init, Books!Init, Books!NoTrade, TradeTyped
<1> QED BY <1>1, <1>2, <1>3, <1>4, <1>5 DEF IInv

-----------------------------------------------------------------------------
(* The steps, by the part of the state they touch                            *)

(* An order that rests belongs to a symbol with an id and a cached book.     *)
LEMMA OwnerKnown ==
  ASSUME IInv, NEW n \in Orders, resting[n] # NULL
  PROVE  /\ owner[n] \in Trie!Known /\ owner[n] \in Symbols
         /\ ids[owner[n]] \in cached
         /\ slot[ids[owner[n]]] = resting[n][1]
<1>1. owner[n] \in Symbols /\ ids[owner[n]] \in cached /\ slot[ids[owner[n]]] = resting[n][1]
  BY DEF IInv, OrdersTyped, OrdersIsolated
<1>2. ids[owner[n]] \in BookIds
  BY <1>1 DEF IInv, CacheSound
<1>3. ids[owner[n]] # INVALID_BOOK_ID
  BY <1>2, RouterAssumption DEF BookIds
<1> QED BY <1>1, <1>3 DEF Trie!Known

(* Whose book the loop body is at. *)
LEMMA OwnBook ==
  ASSUME IInv, pc \in {"book", "fill"},
         NEW n \in Orders, resting[n] # NULL, resting[n][1] = pointer.slot
  PROVE  owner[n] = msg.symbol
<1>1. /\ owner[n] \in Trie!Known /\ ids[owner[n]] \in cached
      /\ slot[ids[owner[n]]] = slot[routed.id] /\ routed.id \in cached
      /\ routed.id = ids[msg.symbol] /\ msg.symbol \in Symbols
  BY OwnerKnown DEF IInv, BodySound, Messages
<1>2. ids[owner[n]] = ids[msg.symbol]
  BY <1>1 DEF IInv, CacheSound
<1>3. msg.symbol \in Trie!Known
  BY <1>1, <1>2 DEF Trie!Known
<1> QED BY <1>1, <1>2, <1>3 DEF IInv, TrieSound

(* Steps that leave the trie, the cache and the orders alone. *)
LEMMA OnlyBody ==
  ASSUME IInv, BodySound', UNCHANGED <<ids, cached, slot, resting, owner>>,
         DOMAIN left' = Orders, TradeTyped'
  PROVE  IInv'
BY DEF IInv, TrieSound, CacheSound, OrdersTyped, OrdersIsolated, Trie!Known

LEMMA ReceiveStep ==
  ASSUME IInv, NEW m \in Messages, Receive(m) PROVE IInv'
<1>1. /\ pc' = "lookup" /\ msg' = m
      /\ UNCHANGED <<ids, cached, slot, resting, left, trade, owner>>
  BY DEF Receive, Trie!Ask, cache_vars, book_vars
<1>2. BodySound'
  BY <1>1 DEF BodySound, Stages
<1> QED BY <1>1, <1>2, OnlyBody DEF IInv, OrdersTyped, TradeTyped

(* The trie counts as its abstract specification does. *)
LEMMA SameCardinality ==
  ASSUME NEW S
  PROVE  Trie!Cardinality(S) = Cardinality(S)
BY Zenon DEF Trie!Cardinality, Cardinality

LEMMA LookupStep ==
  ASSUME IInv, Lookup PROVE IInv'
<1> DEFINE s == msg.symbol
<1>1. /\ pc = "lookup" /\ pc' = "access" /\ msg' = msg
      /\ UNCHANGED <<cached, slot, resting, left, trade, owner>>
  BY DEF Lookup, cache_vars, book_vars
<1>2. msg \in Messages /\ s \in Symbols
  BY <1>1 DEF IInv, BodySound, Messages
<1>3. CASE Trie!Found(s)
  <2>1. ids' = ids /\ routed'.id = ids[s]
    BY <1>3 DEF Trie!Found
  <2>2. BodySound'
    BY <1>1, <1>2, <2>1 DEF BodySound, Stages
  <2> QED BY <1>1, <2>1, <2>2, OnlyBody DEF IInv, OrdersTyped, TradeTyped
<1>4. CASE Trie!Refuse(s)
  <2>1. ids' = ids /\ routed'.id = INVALID_BOOK_ID /\ s \notin Trie!Known
    BY <1>4 DEF Trie!Refuse
  <2>2. ids[s] = INVALID_BOOK_ID
    BY <1>2, <2>1 DEF Trie!Known
  <2>3. BodySound'
    BY <1>1, <1>2, <2>1, <2>2 DEF BodySound, Stages
  <2> QED BY <1>1, <2>1, <2>3, OnlyBody DEF IInv, OrdersTyped, TradeTyped
<1>5. CASE Trie!Register(s)
  <2> DEFINE id == Cardinality(Trie!Known)
  <2>0. TrieSound
    BY DEF IInv
  <2>1. /\ s \notin Trie!Known /\ id < MAX_BOOKS
        /\ ids' = [ids EXCEPT ![s] = id] /\ routed'.id = id
    <3>1. /\ s \notin Trie!Known /\ id < MAX_BOOKS
          /\ ids' = [ids EXCEPT ![s] = id]
          /\ routed' = [symbol |-> s, id |-> id, created |-> TRUE]
      BY <1>5, SameCardinality DEF Trie!Register
    <3> QED BY <3>1
  <2>2. id \in Nat /\ id # INVALID_BOOK_ID /\ id \in 0 .. MAX_BOOKS - 1
    <3>1. id \in Nat
      BY <2>0, FS_CardinalityType DEF TrieSound
    <3> HIDE DEF id
    <3> QED BY <3>1, <2>1, RouterAssumption
  <2>3. (Trie!Known)' = Trie!Known \cup {s}
    <3> HIDE DEF id
    <3> QED BY <2>0, <2>1, <2>2, <1>2 DEF Trie!Known, TrieSound
  <2>4. IsFiniteSet((Trie!Known)') /\ Cardinality((Trie!Known)') = id + 1
    BY <2>0, <2>1, <2>3, FS_AddElement DEF TrieSound
  <2>5. ids'[s] = id /\ \A t \in Trie!Known : ids'[t] = ids[t] /\ ids[t] < id
    <3> HIDE DEF id
    <3>1. \A t \in Trie!Known : t \in Symbols /\ t # s
      BY <2>1 DEF Trie!Known
    <3>2. \A t \in Trie!Known : ids[t] < id
      BY <2>0 DEF TrieSound, id
    <3> QED BY <2>0, <2>1, <1>2, <3>1, <3>2 DEF TrieSound
  <2>6. TrieSound'
    <3> HIDE DEF id
    <3>1. ids' \in [Symbols -> 0 .. MAX_BOOKS - 1 \cup {INVALID_BOOK_ID}]
      BY <2>0, <2>1, <2>2, <1>2 DEF TrieSound
    <3>2. ASSUME NEW t \in (Trie!Known)' PROVE ids'[t] < id + 1
      <4>1. CASE t = s
        BY <4>1, <2>2, <2>5
      <4>2. CASE t \in Trie!Known
        <5>1. ids'[t] < id /\ ids'[t] \in Int
          <6>1. t \in Symbols
            BY <4>2 DEF Trie!Known
          <6> QED BY <4>2, <6>1, <2>5, <3>1, RouterAssumption
        <5> QED BY <5>1, <2>2
      <4> QED BY <2>3, <4>1, <4>2
    <3>3. ASSUME NEW t \in (Trie!Known)', NEW u \in (Trie!Known)', ids'[t] = ids'[u]
          PROVE  t = u
      <4>1. \A x \in Trie!Known : ids'[x] # id
        <5>1. \A x \in Trie!Known : ids'[x] < id /\ ids'[x] \in Int
          BY <2>5, <3>1, RouterAssumption DEF Trie!Known
        <5> QED BY <5>1, <2>2
      <4>2. CASE t \in Trie!Known /\ u \in Trie!Known
        BY <4>2, <3>3, <2>0, <2>5 DEF TrieSound
      <4>3. CASE t = s \/ u = s
        BY <4>3, <3>3, <4>1, <2>3, <2>5
      <4> QED BY <2>3, <4>2, <4>3
    <3> QED BY <2>4, <3>1, <3>2, <3>3 DEF TrieSound
  <2>7. BodySound'
    BY <1>1, <1>2, <2>1, <2>5 DEF BodySound, Stages
  <2>8. OrdersIsolated'
    <3>1. ASSUME NEW n \in Orders, resting[n] # NULL
          PROVE  ids'[owner[n]] \in cached /\ slot[ids'[owner[n]]] = resting[n][1]
      BY <3>1, <2>5, OwnerKnown
    <3> QED BY <1>1, <3>1 DEF OrdersIsolated
  <2>9. CacheSound' /\ OrdersTyped' /\ TradeTyped'
    BY <1>1 DEF IInv, CacheSound, OrdersTyped, TradeTyped
  <2> QED BY <2>6, <2>7, <2>8, <2>9 DEF IInv
<1> QED BY <1>3, <1>4, <1>5 DEF Lookup

LEMMA HitStep ==
  ASSUME IInv, AccessHit PROVE IInv'
<1>1. /\ pc = "access" /\ pc' = "book" /\ routed.id \in cached
      /\ pointer' = [book |-> routed.id, slot |-> slot[routed.id]]
      /\ UNCHANGED <<ids, routed, cached, slot, resting, left, trade, owner, msg>>
  BY DEF AccessHit, Cache!Hit, trie_vars, book_vars
<1>2. BodySound'
  BY <1>1 DEF IInv, BodySound, Stages
<1> QED BY <1>1, <1>2, OnlyBody DEF IInv, OrdersTyped, TradeTyped

(* A book is admitted to a slot that is free or that its victim gives up;    *)
(* the orders of the slot go, and with them those of the victim.             *)
LEMMA MissEffect ==
  ASSUME IInv, AccessMiss
  PROVE  LET b == routed.id
         IN  \E s \in Slots, dropped \in SUBSET cached :
               /\ b \in BookIds \ cached
               /\ \A x \in cached : slot[x] = s <=> x \in dropped
               /\ cached' = (cached \ dropped) \cup {b}
               /\ slot' = [x \in BookIds |-> IF x = b THEN s
                                             ELSE IF x \in dropped THEN NULL ELSE slot[x]]
               /\ pointer' = [book |-> b, slot |-> s]
<1> DEFINE b == routed.id
<1>1. Cache!Miss(b) /\ b \in BookIds \ cached
  BY DEF AccessMiss, Cache!Miss, Cache!Books, BookIds
<1>2. PICK s \in Slots :
        \/ /\ \A x \in cached : slot[x] # s
           /\ Cache!Admit(b, s, {})
        \/ \E v \in cached :
             /\ s = slot[v]
             /\ Cache!Admit(b, s, {v})
  BY <1>1 DEF Cache!Miss, Cache!Slots, Slots
<1>3. ASSUME \A x \in cached : slot[x] # s, Cache!Admit(b, s, {})
      PROVE  \E dropped \in SUBSET cached :
               /\ \A x \in cached : slot[x] = s <=> x \in dropped
               /\ cached' = (cached \ dropped) \cup {b}
               /\ slot' = [x \in BookIds |-> IF x = b THEN s
                                             ELSE IF x \in dropped THEN NULL ELSE slot[x]]
               /\ pointer' = [book |-> b, slot |-> s]
  <2>1. \A x \in cached : slot[x] = s <=> x \in {}
    BY <1>3
  <2>2. /\ cached' = (cached \ {}) \cup {b}
        /\ slot' = [x \in BookIds |-> IF x = b THEN s ELSE IF x \in {} THEN NULL ELSE slot[x]]
        /\ pointer' = [book |-> b, slot |-> s]
    BY <1>3 DEF Cache!Admit, Cache!Books, BookIds
  <2>3. {} \in SUBSET cached
    OBVIOUS
  <2> QED BY <2>1, <2>2, <2>3, Zenon
<1>4. ASSUME NEW v \in cached, s = slot[v], Cache!Admit(b, s, {v})
      PROVE  \E dropped \in SUBSET cached :
               /\ \A x \in cached : slot[x] = s <=> x \in dropped
               /\ cached' = (cached \ dropped) \cup {b}
               /\ slot' = [x \in BookIds |-> IF x = b THEN s
                                             ELSE IF x \in dropped THEN NULL ELSE slot[x]]
               /\ pointer' = [book |-> b, slot |-> s]
  <2>1. \A x \in cached : slot[x] = s <=> x \in {v}
    BY <1>4 DEF IInv, CacheSound
  <2>2. /\ cached' = (cached \ {v}) \cup {b}
        /\ slot' = [x \in BookIds |-> IF x = b THEN s ELSE IF x \in {v} THEN NULL ELSE slot[x]]
        /\ pointer' = [book |-> b, slot |-> s]
    BY <1>4 DEF Cache!Admit, Cache!Books, BookIds
  <2> QED BY <2>1, <2>2, Zenon
<1> QED BY <1>1, <1>2, <1>3, <1>4

LEMMA MissStep ==
  ASSUME IInv, AccessMiss PROVE IInv'
<1> DEFINE b == routed.id
<1>1. PICK s \in Slots, dropped \in SUBSET cached :
        /\ b \in BookIds \ cached
        /\ \A x \in cached : slot[x] = s <=> x \in dropped
        /\ cached' = (cached \ dropped) \cup {b}
        /\ slot' = [x \in BookIds |-> IF x = b THEN s ELSE IF x \in dropped THEN NULL ELSE slot[x]]
        /\ pointer' = [book |-> b, slot |-> s]
  BY MissEffect
<1>2. /\ pc = "access" /\ pc' = "book"
      /\ UNCHANGED <<ids, routed, owner, msg>>
      /\ Books!Clear(slot'[b])
  BY DEF AccessMiss, trie_vars
<1>3. slot'[b] = s /\ \A x \in cached \ dropped : slot'[x] = slot[x]
  BY <1>1 DEF IInv, CacheSound
<1>4. /\ resting' = [n \in Orders |-> IF resting[n] # NULL /\ resting[n][1] = s THEN NULL ELSE resting[n]]
      /\ DOMAIN left' = Orders /\ trade' = trade
  BY <1>2, <1>3 DEF Books!Clear, Books!Remove
<1>5. TrieSound'
  BY <1>2 DEF IInv, TrieSound, Trie!Known
<1>6. CacheSound'
  <2>0. CacheSound
    BY DEF IInv
  <2>1. cached' \subseteq BookIds
    BY <1>1, <2>0 DEF CacheSound
  <2>2. slot' \in [BookIds -> Slots \cup {NULL}]
    BY <1>1, <2>0 DEF CacheSound
  <2>3. \A x \in cached' : slot'[x] \in Slots
    BY <1>1, <1>3, <2>0 DEF CacheSound
  <2>4. ASSUME NEW x \in cached', NEW y \in cached', slot'[x] = slot'[y] PROVE x = y
    <3>1. \A z \in cached \ dropped : slot'[z] # s
      BY <1>1, <1>3
    <3> QED BY <2>4, <3>1, <1>1, <1>3, <2>0 DEF CacheSound
  <2> QED BY <2>1, <2>2, <2>3, <2>4 DEF CacheSound
<1>7. BodySound'
  <2>1. msg \in Messages /\ routed.id = ids[msg.symbol]
    BY <1>2 DEF IInv, BodySound
  <2>2. b \in cached' /\ pointer'.slot = slot'[b]
    BY <1>1, <1>3
  <2> QED BY <2>1, <2>2, <1>2 DEF BodySound, Stages
<1>8. OrdersTyped' /\ TradeTyped'
  BY <1>2, <1>4 DEF IInv, OrdersTyped, TradeTyped
<1>9. OrdersIsolated'
  <2>1. ASSUME NEW n \in Orders, resting'[n] # NULL
        PROVE  ids[owner[n]] \in cached' /\ slot'[ids[owner[n]]] = resting'[n][1]
    <3>1. resting[n] # NULL /\ resting[n][1] # s /\ resting'[n] = resting[n]
      BY <2>1, <1>4
    <3>2. ids[owner[n]] \in cached /\ slot[ids[owner[n]]] = resting[n][1]
      BY <3>1, OwnerKnown
    <3>3. ids[owner[n]] \notin dropped
      BY <3>1, <3>2, <1>1
    <3> QED BY <3>1, <3>2, <3>3, <1>1, <1>3
  <2> QED BY <2>1, <1>2 DEF OrdersIsolated
<1> QED BY <1>5, <1>6, <1>7, <1>8, <1>9 DEF IInv

LEMMA RefusedStep ==
  ASSUME IInv, AccessRefused PROVE IInv'
<1>1. /\ pc' = "receive" /\ UNCHANGED <<ids, cached, slot, resting, left, trade, owner>>
  BY DEF AccessRefused, Cache!Refuse, trie_vars, book_vars
<1>2. BodySound'
  BY <1>1 DEF BodySound, Stages
<1> QED BY <1>1, <1>2, OnlyBody DEF IInv, OrdersTyped, TradeTyped

LEMMA AddStep ==
  ASSUME IInv, NEW n \in Orders, AddOrder(n) PROVE IInv'
<1>1. /\ pc = "book" /\ pc' = "receive" /\ msg' = msg
      /\ resting' = [resting EXCEPT ![n] = Queue]
      /\ left' = [left EXCEPT ![n] = msg.qty]
      /\ owner' = [owner EXCEPT ![n] = msg.symbol]
      /\ InBook(msg.price)
      /\ UNCHANGED <<ids, cached, slot, trade>>
  BY DEF AddOrder, Books!Add, Cache!File, Count, trie_vars
<1>2. /\ msg \in Messages /\ msg.symbol \in Symbols /\ msg.price \in Nat
      /\ routed.id = ids[msg.symbol] /\ routed.id \in cached /\ pointer.slot = slot[routed.id]
  BY <1>1, RouterAssumption DEF IInv, BodySound, Messages
<1>3. Queue \in Queues /\ Queue[1] = pointer.slot
  <2>1. pointer.slot \in Slots
    BY <1>2 DEF IInv, CacheSound
  <2>2. msg.price \in Prices
    BY <1>1, <1>2, RouterAssumption DEF InBook, Prices
  <2>3. Side(pointer.slot, msg.price) \in Sides
    BY DEF Side, Sides
  <2> QED BY <2>1, <2>2, <2>3 DEF Queue, Queues
<1> HIDE DEF Queue
<1>4. TrieSound' /\ CacheSound'
  BY <1>1 DEF IInv, TrieSound, CacheSound, Trie!Known
<1>5. BodySound'
  BY <1>1 DEF BodySound, Stages
<1>6. OrdersTyped' /\ TradeTyped'
  BY <1>1, <1>2, <1>3 DEF IInv, OrdersTyped, TradeTyped
<1>7. OrdersIsolated'
  <2>1. ASSUME NEW m \in Orders, resting'[m] # NULL
        PROVE  ids[owner'[m]] \in cached /\ slot[ids[owner'[m]]] = resting'[m][1]
    <3>1. CASE m = n
      <4>1. resting'[m] = Queue /\ owner'[m] = msg.symbol
        BY <3>1, <1>1 DEF IInv, OrdersTyped
      <4> QED BY <4>1, <1>2, <1>3
    <3>2. CASE m # n
      <4>1. resting'[m] = resting[m] /\ owner'[m] = owner[m]
        BY <3>2, <1>1 DEF IInv, OrdersTyped
      <4> QED BY <4>1, <2>1, OwnerKnown
    <3> QED BY <3>1, <3>2
  <2> QED BY <2>1, <1>1 DEF OrdersIsolated
<1> QED BY <1>4, <1>5, <1>6, <1>7 DEF IInv

LEMMA FillStep ==
  ASSUME IInv, NEW n \in Orders, TradeFill(n) PROVE IInv'
<1>1. /\ pc = "fill" /\ pc' = pc /\ msg' = msg
      /\ UNCHANGED <<ids, routed, cached, slot, pointer, owner>>
      /\ Books!Fill(n)
  BY DEF TradeFill, trie_vars, cache_vars
<1>2. /\ trade'.queue = trade.queue /\ TradeTyped'
      /\ \/ resting' = resting
         \/ resting' = [m \in Orders |-> IF m \in {n} THEN NULL ELSE resting[m]]
      /\ DOMAIN left' = Orders
  <2>1. PICK w : trade' = [trade EXCEPT !.want = w]
    BY <1>1 DEF Books!Fill
  <2>2. trade = [queue |-> trade.queue, want |-> trade.want]
    BY DEF IInv, TradeTyped
  <2>3. trade' = [queue |-> trade.queue, want |-> w]
    BY <2>1, <2>2
  <2>4. trade'.queue = trade.queue /\ TradeTyped'
    BY <2>3 DEF TradeTyped
  <2>5. /\ \/ resting' = resting
           \/ resting' = [m \in Orders |-> IF m \in {n} THEN NULL ELSE resting[m]]
        /\ DOMAIN left' = Orders
    BY <1>1 DEF Books!Fill, Books!Remove, IInv, OrdersTyped
  <2> QED BY <2>4, <2>5
<1>3. TrieSound' /\ CacheSound'
  BY <1>1 DEF IInv, TrieSound, CacheSound, Trie!Known
<1>4. BodySound'
  BY <1>1, <1>2 DEF IInv, BodySound
<1>5. \A m \in Orders : resting'[m] # NULL => resting'[m] = resting[m]
  BY <1>2
<1>6. OrdersTyped' /\ TradeTyped'
  BY <1>1, <1>2, <1>5 DEF IInv, OrdersTyped, TradeTyped
<1>7. OrdersIsolated'
  <2>1. ASSUME NEW m \in Orders, resting'[m] # NULL
        PROVE  ids[owner[m]] \in cached /\ slot[ids[owner[m]]] = resting'[m][1]
    BY <2>1, <1>5, OwnerKnown
  <2> QED BY <2>1, <1>1 DEF OrdersIsolated
<1> QED BY <1>3, <1>4, <1>6, <1>7 DEF IInv

LEMMA TradeBeginStep ==
  ASSUME IInv, TradeBegin PROVE IInv'
<1>1. /\ pc = "book" /\ pc' = "fill"
      /\ trade' = [queue |-> Queue, want |-> msg.qty]
      /\ UNCHANGED <<ids, routed, cached, slot, pointer, resting, left, owner, msg>>
  BY DEF TradeBegin, Books!StartTrade, trie_vars, cache_vars
<1>2. BodySound'
  BY <1>1 DEF IInv, BodySound, Stages, Queue
<1> QED BY <1>1, <1>2, OnlyBody DEF IInv, OrdersTyped, TradeTyped

LEMMA FinishStep ==
  ASSUME IInv, AddRejected \/ TradeRejected \/ TradeEnd \/ Other PROVE IInv'
<1>1. /\ pc' = "receive" /\ UNCHANGED <<ids, cached, slot, resting, left, owner>>
      /\ trade' = trade \/ trade' = [queue |-> NULL, want |-> 0]
  BY DEF Books!NoTrade, AddRejected, TradeRejected, TradeEnd, Other, Books!EndTrade, Count,
         trie_vars, cache_vars, book_vars
<1>2. BodySound'
  BY <1>1 DEF BodySound, Stages
<1> QED BY <1>1, <1>2, OnlyBody DEF IInv, OrdersTyped, TradeTyped

LEMMA StepIInv == IInv /\ [Next]_vars => IInv'
<1> SUFFICES ASSUME IInv, [Next]_vars PROVE IInv'
  OBVIOUS
<1>1. CASE \E m \in Messages : Receive(m)
  BY <1>1, ReceiveStep
<1>2. CASE Lookup
  BY <1>2, LookupStep
<1>3. CASE AccessHit
  BY <1>3, HitStep
<1>4. CASE AccessMiss
  BY <1>4, MissStep
<1>5. CASE AccessRefused
  BY <1>5, RefusedStep
<1>6. CASE \E n \in Orders : AddOrder(n) \/ TradeFill(n)
  BY <1>6, AddStep, FillStep
<1>7. CASE TradeBegin
  BY <1>7, TradeBeginStep
<1>8. CASE AddRejected \/ TradeRejected \/ TradeEnd \/ Other
  BY <1>8, FinishStep
<1>9. CASE UNCHANGED vars
  BY <1>9 DEF vars, trie_vars, cache_vars, book_vars, IInv, TrieSound, CacheSound, BodySound,
              OrdersTyped, TradeTyped, OrdersIsolated, Trie!Known
<1> QED BY <1>1, <1>2, <1>3, <1>4, <1>5, <1>6, <1>7, <1>8, <1>9 DEF Next

-----------------------------------------------------------------------------
(* Who changes an order                                                      *)

LEMMA ChangesOwnOrders ==
  ASSUME IInv, [Next]_vars, NEW n \in Orders, resting[n] # NULL,
         <<resting[n], left[n]>>' # <<resting[n], left[n]>>
  PROVE  \/ pc = "fill" /\ owner[n] = msg.symbol
         \/ ids[owner[n]] \in cached \ cached'
<1>1. ASSUME UNCHANGED <<resting, left>> PROVE FALSE
  BY <1>1
<1>2. CASE \E m \in Messages : Receive(m)
  BY <1>1, <1>2 DEF Receive, book_vars
<1>3. CASE Lookup \/ AccessHit \/ AccessRefused
  BY <1>1, <1>3 DEF Lookup, AccessHit, AccessRefused, book_vars
<1>4. CASE AddRejected \/ TradeBegin \/ TradeRejected \/ TradeEnd \/ Other
  BY <1>1, <1>4 DEF AddRejected, TradeBegin, TradeRejected, TradeEnd, Other, Books!StartTrade,
                    Books!EndTrade, book_vars
<1>5. CASE UNCHANGED vars
  BY <1>1, <1>5 DEF vars, book_vars
<1>6. ASSUME NEW m \in Orders, AddOrder(m) PROVE FALSE
  <2>1. /\ resting[m] = NULL
        /\ resting' = [resting EXCEPT ![m] = Queue] /\ left' = [left EXCEPT ![m] = msg.qty]
    BY <1>6 DEF AddOrder, Books!Add
  <2>2. n # m
    BY <2>1
  <2> QED BY <2>1, <2>2 DEF IInv, OrdersTyped
<1>7. ASSUME NEW m \in Orders, TradeFill(m) PROVE pc = "fill" /\ owner[n] = msg.symbol
  <2>1. pc = "fill" /\ Books!Fill(m) /\ resting[m] = trade.queue
    BY <1>7 DEF TradeFill, Books!Fill, Books!First
  <2>2. n = m
    <3>1. ASSUME n # m PROVE FALSE
      <4>1. resting'[n] = resting[n] /\ left'[n] = left[n]
        BY <2>1, <3>1 DEF Books!Fill, Books!Remove, IInv, OrdersTyped
      <4> QED BY <4>1
    <3> QED BY <3>1
  <2>3. resting[n][1] = pointer.slot
    BY <2>1, <2>2 DEF IInv, BodySound
  <2> QED BY <2>1, <2>3, OwnBook
<1>8. CASE AccessMiss
  <2>1. PICK s \in Slots, dropped \in SUBSET cached :
          /\ routed.id \notin cached
          /\ \A x \in cached : slot[x] = s <=> x \in dropped
          /\ cached' = (cached \ dropped) \cup {routed.id}
          /\ slot' = [x \in BookIds |-> IF x = routed.id THEN s
                                        ELSE IF x \in dropped THEN NULL ELSE slot[x]]
          /\ routed.id \in BookIds
    BY <1>8, MissEffect
  <2>2. slot'[routed.id] = s
    BY <2>1
  <2>3. /\ resting' = [m \in Orders |-> IF resting[m] # NULL /\ resting[m][1] = s THEN NULL ELSE resting[m]]
        /\ left' = [m \in Orders |-> IF resting[m] # NULL /\ resting[m][1] = s THEN 0 ELSE left[m]]
    BY <1>8, <2>2 DEF AccessMiss, Books!Clear, Books!Remove
  <2>4. resting[n][1] = s
    BY <2>3
  <2>5. ids[owner[n]] \in cached /\ slot[ids[owner[n]]] = s
    BY <2>4, OwnerKnown
  <2> QED BY <2>1, <2>5
<1> QED BY <1>2, <1>3, <1>4, <1>5, <1>6, <1>7, <1>8 DEF Next

-----------------------------------------------------------------------------
(* Best prices                                                               *)

LEMMA BestPrice ==
  ASSUME NEW P \in SUBSET Prices, P # {}
  PROVE  /\ Max(P) \in P /\ \A p \in P : p <= Max(P)
         /\ Min(P) \in P /\ \A p \in P : Min(P) <= p
<1>0. \A p \in P : p \in Nat /\ p < MAX_PRICE_LEVELS
  BY RouterAssumption DEF Prices
<1>1. \E x \in P : \A y \in P : x >= y
  <2> DEFINE depth == [p \in P |-> MAX_PRICE_LEVELS - p]
  <2>1. \A p \in P : depth[p] \in Nat
    BY <1>0, RouterAssumption
  <2>2. \E x \in P : \A y \in P : depth[x] <= depth[y]
    <3> HIDE DEF depth
    <3> QED BY <2>1, Data!LeastAge, Zenon
  <2>3. PICK x \in P : \A y \in P : depth[x] <= depth[y]
    BY <2>2
  <2>4. ASSUME NEW y \in P PROVE x >= y
    <3>1. MAX_PRICE_LEVELS - x <= MAX_PRICE_LEVELS - y
      BY <2>3
    <3> QED BY <3>1, <1>0, RouterAssumption
  <2> QED BY <2>4
<1>2. \E x \in P : \A y \in P : x <= y
  <2> DEFINE price == [p \in P |-> p]
  <2>1. \A p \in P : price[p] \in Nat
    BY <1>0
  <2>2. \E x \in P : \A y \in P : price[x] <= price[y]
    <3> HIDE DEF price
    <3> QED BY <2>1, Data!LeastAge, Zenon
  <2> QED BY <2>2
<1>3. Max(P) \in P /\ \A y \in P : Max(P) >= y
  BY <1>1, Zenon DEF Max
<1>4. Min(P) \in P /\ \A y \in P : Min(P) <= y
  BY <1>2, Zenon DEF Min
<1> QED BY <1>0, <1>3, <1>4

(* No bid reaches an ask exactly when the best of them do not.               *)
LEMMA BestApart ==
  ASSUME NEW B \in SUBSET Prices, B # {}, NEW A \in SUBSET Prices, A # {}
  PROVE  (Max(B) < Min(A)) <=> \A p \in B : \A q \in A : p < q
<1>1. /\ Max(B) \in B /\ \A p \in B : p <= Max(B)
      /\ Min(A) \in A /\ \A q \in A : Min(A) <= q
  BY BestPrice
<1>2. \A p \in Prices : p \in Int
  BY DEF Prices
<1>3. ASSUME Max(B) < Min(A), NEW p \in B, NEW q \in A PROVE p < q
  <2>1. p <= Max(B) /\ Min(A) <= q /\ p \in Int /\ q \in Int /\ Max(B) \in Int /\ Min(A) \in Int
    BY <1>1, <1>2
  <2> QED BY <2>1, <1>3
<1>4. ASSUME \A p \in B : \A q \in A : p < q PROVE Max(B) < Min(A)
  BY <1>1, <1>4
<1> QED BY <1>3, <1>4

(* Outside AddOrder orders only leave. *)
LEMMA OrdersOnlyLeave ==
  ASSUME IInv, [Next]_vars, ~\E n \in Orders : AddOrder(n),
         NEW n \in Orders, resting'[n] # resting[n]
  PROVE  resting'[n] = NULL
<1>1. CASE \E m \in Messages : Receive(m)
  BY <1>1 DEF Receive, book_vars
<1>2. CASE Lookup \/ AccessHit \/ AccessRefused
  BY <1>2 DEF Lookup, AccessHit, AccessRefused, book_vars
<1>3. CASE AddRejected \/ TradeBegin \/ TradeRejected \/ TradeEnd \/ Other
  BY <1>3 DEF AddRejected, TradeBegin, TradeRejected, TradeEnd, Other, Books!StartTrade,
              Books!EndTrade, book_vars
<1>4. CASE UNCHANGED vars
  BY <1>4 DEF vars, book_vars
<1>5. ASSUME NEW m \in Orders, TradeFill(m) PROVE resting'[n] = NULL
  BY <1>5 DEF TradeFill, Books!Fill, Books!Remove
<1>6. CASE AccessMiss
  BY <1>6 DEF AccessMiss, Books!Clear, Books!Remove
<1> QED BY <1>1, <1>2, <1>3, <1>4, <1>5, <1>6 DEF Next

LEMMA KeepsUncrossed ==
  ASSUME IInv, [Next]_vars, NEW b \in Slots,
         TwoSided(b), best_bid(b) < best_ask(b), TwoSided(b)'
  PROVE  best_bid(b)' < best_ask(b)'
<1> DEFINE B == PricesOf(b, "bid")
           A == PricesOf(b, "ask")
           BB == {p \in Prices : \E n \in Orders : resting'[n] = <<b, "bid", p>>}
           AA == {p \in Prices : \E n \in Orders : resting'[n] = <<b, "ask", p>>}
<1>0. /\ B \in SUBSET Prices /\ A \in SUBSET Prices
      /\ BB \in SUBSET Prices /\ AA \in SUBSET Prices
  BY DEF PricesOf
<1>1. B # {} /\ A # {} /\ best_bid(b) = Max(B) /\ best_ask(b) = Min(A)
  BY DEF TwoSided, best_bid, best_ask
<1>2. BB # {} /\ AA # {} /\ best_bid(b)' = Max(BB) /\ best_ask(b)' = Min(AA)
  BY DEF TwoSided, best_bid, best_ask, PricesOf
<1>3. \A p \in B : \A q \in A : p < q
  BY <1>0, <1>1, BestApart
<1>4. CASE ~\E n \in Orders : AddOrder(n)
  <2>1. ASSUME NEW n \in Orders, NEW s \in Sides, NEW p \in Prices, resting'[n] = <<b, s, p>>
        PROVE  resting[n] = <<b, s, p>>
    <3>1. resting'[n] \in Queues
      BY <2>1 DEF Queues
    <3>2. resting'[n] # NULL
      BY <3>1, RouterAssumption
    <3> QED BY <3>2, <2>1, <1>4, OrdersOnlyLeave
  <2>2. BB \subseteq B /\ AA \subseteq A
    BY <2>1 DEF PricesOf, Sides
  <2>3. \A p \in BB : \A q \in AA : p < q
    BY <2>2, <1>3
  <2> HIDE DEF A, B, AA, BB
  <2> QED BY <2>3, <1>0, <1>2, BestApart
<1>5. ASSUME NEW n \in Orders, AddOrder(n) PROVE best_bid(b)' < best_ask(b)'
  <2> DEFINE x == msg.price
  <2>1. /\ pc = "book" /\ resting' = [resting EXCEPT ![n] = Queue] /\ InBook(x)
    BY <1>5 DEF AddOrder, Books!Add
  <2>2. x \in Prices
    <3>1. msg \in Messages /\ x < MAX_PRICE_LEVELS
      BY <2>1 DEF IInv, BodySound, InBook
    <3>2. x \in Nat
      BY <3>1, RouterAssumption DEF Messages
    <3> HIDE DEF x
    <3> QED BY <3>1, <3>2, RouterAssumption DEF Prices
  <2>3. ASSUME NEW m \in Orders, NEW s \in Sides, NEW p \in Prices, resting'[m] = <<b, s, p>>
        PROVE  resting[m] = <<b, s, p>> \/ (p = x /\ s = Side(b, x))
    <3>1. CASE m = n
      <4>1. <<b, s, p>> = <<pointer.slot, Side(pointer.slot, x), x>>
        BY <3>1, <2>1, <2>3 DEF IInv, OrdersTyped, Queue
      <4> QED BY <4>1
    <3>2. CASE m # n
      BY <3>2, <2>1, <2>3 DEF IInv, OrdersTyped
    <3> QED BY <3>1, <3>2
  <2>4. /\ \A p \in BB : p \in B \/ (p = x /\ Side(b, x) = "bid")
        /\ \A p \in AA : p \in A \/ (p = x /\ Side(b, x) = "ask")
    BY <2>3 DEF PricesOf, Sides
  <2> DEFINE bid == Max(B)
             ask == Min(A)
  <2>5. /\ bid \in B /\ ask \in A /\ (\A p \in B : p <= bid) /\ (\A q \in A : ask <= q)
        /\ bid \in Prices /\ ask \in Prices /\ bid > 0 /\ bid < ask
    <3>1. bid > 0 /\ bid < ask
      BY <1>1 DEF TwoSided
    <3>2. /\ bid \in B /\ ask \in A /\ (\A p \in B : p <= bid) /\ (\A q \in A : ask <= q)
      BY <1>0, <1>1, BestPrice
    <3> QED BY <1>0, <3>1, <3>2
  <2>6. Side(b, x) = IF x <= (bid + ask) \div 2 THEN "bid" ELSE "ask"
    <3>1. best_bid(b) = bid /\ best_ask(b) = ask
      BY <1>1
    <3>2. Mid(b) = LET mid == ((bid + ask) % U32) \div 2 IN IF mid = 0 THEN DEFAULT_MID ELSE mid
      BY <3>1 DEF Mid
    <3> HIDE DEF bid, ask, A, B
    <3>3. /\ bid \in Nat /\ ask \in Nat /\ bid + ask < U32 /\ bid + ask >= 2
      BY <2>5, RouterAssumption DEF Prices
    <3>4. (bid + ask) % U32 = bid + ask /\ (bid + ask) \div 2 # 0
      BY <3>3, RouterAssumption
    <3> QED BY <3>2, <3>4 DEF Side
  <2> HIDE DEF A, B, AA, BB, bid, ask, x
  <2>7. /\ Side(b, x) = "bid" => x < ask
        /\ Side(b, x) = "ask" => bid < x
    BY <2>2, <2>5, <2>6 DEF Prices
  <2>8. ASSUME NEW p \in BB, NEW q \in AA PROVE p < q
    <3>0. p \in Int /\ q \in Int /\ x \in Int /\ bid \in Int /\ ask \in Int
      BY <1>0, <2>2, <2>5 DEF Prices
    <3>1. p <= bid \/ (p = x /\ Side(b, x) = "bid")
      BY <2>4, <2>5
    <3>2. ask <= q \/ (q = x /\ Side(b, x) = "ask")
      BY <2>4, <2>5
    <3> QED BY <3>0, <3>1, <3>2, <2>5, <2>7
  <2> QED BY <2>8, <1>0, <1>2, BestApart
<1> QED BY <1>4, <1>5

-----------------------------------------------------------------------------
(* The theorems                                                              *)

(* IInv is inductive. *)
THEOREM Inductive == Spec => []IInv
<1> QED BY InitIInv, StepIInv, PTL DEF Spec

(* Whatever trie, cache and books have been through, orders rest in the      *)
(* books of their symbols.                                                   *)
THEOREM Isolation == Spec => []OrdersIsolated
<1>1. IInv => OrdersIsolated
  BY DEF IInv
<1> QED BY <1>1, Inductive, PTL

(* No message changes another symbol's orders, but by evicting its book.     *)
THEOREM OwnOrders == Spec => OwnOrdersOnly
<1> DEFINE Own == \A n \in Orders :
             resting[n] # NULL /\ <<resting[n], left[n]>>' # <<resting[n], left[n]>> =>
               \/ pc = "fill" /\ owner[n] = msg.symbol
               \/ ids[owner[n]] \in cached \ cached'
<1>1. IInv /\ [Next]_vars => [Own]_vars
  BY ChangesOwnOrders
<1> QED BY <1>1, Inductive, PTL DEF Spec, OwnOrdersOnly

(* The price heuristic does not cross a two-sided book of resting orders;    *)
(* with quantities as in SmallOrders that is the book the code keeps.        *)
THEOREM Uncrossed == Spec => StaysUncrossed
<1> DEFINE Apart == \A b \in Slots :
             TwoSided(b) /\ best_bid(b) < best_ask(b) /\ TwoSided(b)' =>
               best_bid(b)' < best_ask(b)'
<1>1. IInv /\ [Next]_vars => [Apart]_vars
  BY KeepsUncrossed
<1> QED BY <1>1, Inductive, PTL DEF Spec, StaysUncrossed
=============================================================================
