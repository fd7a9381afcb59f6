--------------------------- MODULE MBOBookProofs ---------------------------
(***************************************************************************)
(* Proofs about MBOBookWithBIT, for every number of books, orders and      *)
(* price levels, all message prices and quantities and every integer width.*)
(***************************************************************************)
EXTENDS MBOBook, DataTheorems

LEMMA NullApart == NULL \notin Orders /\ NULL \notin Queues
  BY BookAssumption DEF Orders

LEMMA ModRange == \A a \in Int : a % U32 \in 0 .. U32 - 1
  BY BookAssumption

LEMMA QueueOf ==
  ASSUME NEW b \in Books, NEW s \in Sides, NEW p \in Prices
  PROVE  /\ <<b, s, p>> \in Queues /\ <<b, s>> \in Books \X Sides
         /\ <<b, s, p>>[1] = b /\ <<b, s, p>>[2] = s /\ <<b, s, p>>[3] = p
  BY DEF Queues

LEMMA QueueParts ==
  ASSUME NEW q \in Queues
  PROVE  q[1] \in Books /\ q[2] \in Sides /\ q[3] \in Prices /\ q = <<q[1], q[2], q[3]>>
  BY DEF Queues

LEMMA OrdersFinite == IsFiniteSet(Orders) /\ Cardinality(Orders) = MAX_ORDERS /\ Orders \subseteq Nat
<1>1. IsFiniteSet(0 .. MAX_ORDERS - 1) /\ Cardinality(0 .. MAX_ORDERS - 1) = MAX_ORDERS
  <2>1. 0 \in Int /\ MAX_ORDERS - 1 \in Int
    BY BookAssumption
  <2>2. IsFiniteSet(0 .. MAX_ORDERS - 1)
    BY <2>1, FS_Interval
  <2>3. Cardinality(0 .. MAX_ORDERS - 1) = IF 0 > MAX_ORDERS - 1 THEN 0 ELSE (MAX_ORDERS - 1) - 0 + 1
    BY <2>1, FS_Interval
  <2> QED
    BY <2>2, <2>3, BookAssumption
<1> QED
  BY <1>1 DEF Orders

LEMMA WhereType ==
  ASSUME TypeOK, OwnersKnown
  PROVE  Where \in [Orders -> Queues \cup {NULL}]
  BY DEF TypeOK, OwnersKnown, Where, Queues

(* The queue of an active order. *)
LEMMA WhereActive ==
  ASSUME TypeOK, OwnersKnown, NEW n \in Orders
  PROVE  /\ active[n] <=> Where[n] # NULL
         /\ active[n] => /\ Where[n] = <<owner[n], side[n], price[n]>> /\ Where[n] \in Queues
                         /\ Where[n][1] = owner[n] /\ Where[n][2] = side[n] /\ Where[n][3] = price[n]
<1>1. active[n] \in BOOLEAN
  BY DEF TypeOK
<1>2. active[n] => <<owner[n], side[n], price[n]>> \in Queues
  BY DEF TypeOK, OwnersKnown, Queues
<1>3. Where[n] = IF active[n] THEN <<owner[n], side[n], price[n]>> ELSE NULL
  BY DEF Where
<1> QED
  BY <1>1, <1>2, <1>3, NullApart

-----------------------------------------------------------------------------
(* The pool *)

LEMMA ActiveBounds ==
  ASSUME TypeOK, PoolConserved
  PROVE  /\ active_count \in Nat
         /\ \A n \in Orders : active[n] => active_count >= 1
         /\ free_head # NULL => /\ free_head \in Orders /\ ~active[free_head]
                                /\ FreeOrders >= 1 /\ depth[free_head] = FreeOrders - 1
<1>1. active_count \in Nat
  BY DEF TypeOK
<1>2. ASSUME NEW n \in Orders, active[n] PROVE active_count >= 1
  <2> DEFINE A == {m \in Orders : active[m]}
  <2>1. IsFiniteSet(A) /\ n \in A
    BY <1>2, OrdersFinite, FS_Subset
  <2>2. Cardinality(A) # 0
    BY <2>1, FS_EmptySet
  <2> QED
    BY <1>1, <2>2 DEF PoolConserved
<1>3. free_head # NULL => /\ free_head \in Orders /\ ~active[free_head]
                          /\ FreeOrders >= 1 /\ depth[free_head] = FreeOrders - 1
  <2>1. FreeOrders \in Nat
    BY BookAssumption DEF TypeOK, FreeOrders
  <2> QED
    BY <2>1 DEF PoolConserved, FreeAt
<1> QED
  BY <1>1, <1>2, <1>3

(* alloc(): the head of the free list leaves it. *)
LEMMA AllocPool ==
  ASSUME TypeOK, PoolConserved, NEW n \in Orders, n = free_head,
         active' = [active EXCEPT ![n] = TRUE],
         active_count' = active_count + 1,
         free_head' = links.next[n],
         depth' = [depth EXCEPT ![n] = 0],
         \A m \in Orders : ~active[m] /\ m # n => links'.next[m] = links.next[m]
  PROVE  /\ PoolConserved'
         /\ active' \in [Orders -> BOOLEAN] /\ active_count' \in 0 .. MAX_ORDERS
         /\ free_head' \in Orders \cup {NULL} /\ depth' \in [Orders -> 0 .. MAX_ORDERS - 1]
<1>0. /\ ~active[n] /\ FreeOrders >= 1 /\ depth[n] = FreeOrders - 1 /\ active_count \in Nat
      /\ FreeOrders \in Nat /\ FreeOrders' = FreeOrders - 1 /\ MAX_ORDERS \in Nat
  <2>1. n # NULL
    BY NullApart
  <2> QED
    BY <2>1, ActiveBounds, BookAssumption DEF FreeOrders
<1>1. /\ active \in [Orders -> BOOLEAN] /\ depth \in [Orders -> 0 .. MAX_ORDERS - 1]
      /\ links.next \in [Orders -> Orders \cup {NULL}]
  BY DEF TypeOK, Links
<1>2. active' \in [Orders -> BOOLEAN] /\ depth' \in [Orders -> 0 .. MAX_ORDERS - 1] /\ free_head' \in Orders \cup {NULL}
  BY <1>1, BookAssumption
<1>3. active_count' \in 0 .. MAX_ORDERS
  BY <1>0 DEF FreeOrders
<1>4. \A m \in Orders : ~active'[m] <=> ~active[m] /\ m # n
  BY <1>1
<1>5. \A m \in Orders : m # n => depth'[m] = depth[m]
  BY <1>1
<1>6. active_count' = Cardinality({m \in Orders : active'[m]})
  <2> DEFINE A == {m \in Orders : active[m]}
  <2>1. IsFiniteSet(A) /\ n \notin A
    BY <1>0, OrdersFinite, FS_Subset
  <2>2. {m \in Orders : active'[m]} = A \cup {n}
    BY <1>4
  <2>3. active_count = Cardinality(A)
    BY DEF PoolConserved
  <2> HIDE DEF A
  <2> QED
    BY <2>1, <2>2, <2>3, FS_AddElement
<1>7. \A m \in Orders : ~active[m] /\ m # n => depth[m] < FreeOrders - 1
  <2> SUFFICES ASSUME NEW m \in Orders, ~active[m], m # n PROVE depth[m] < FreeOrders - 1
    OBVIOUS
  <2>1. depth[m] < FreeOrders /\ depth[m] # depth[n]
    BY <1>0 DEF PoolConserved
  <2>2. depth[m] \in Nat
    BY <1>1
  <2> QED
    BY <2>1, <2>2, <1>0
<1>8. IF FreeOrders' = 0 THEN free_head' = NULL ELSE FreeAt(free_head, FreeOrders - 1)'
  <2>1. IF depth[n] = 0 THEN links.next[n] = NULL ELSE FreeAt(links.next[n], depth[n] - 1)
    BY <1>0 DEF PoolConserved
  <2>2. CASE depth[n] = 0
    BY <1>0, <2>1, <2>2
  <2>3. CASE depth[n] # 0
    <3>1. links.next[n] \in Orders /\ ~active[links.next[n]] /\ depth[links.next[n]] = depth[n] - 1
      BY <2>1, <2>3 DEF FreeAt
    <3>2. links.next[n] # n
      BY <1>0, <3>1
    <3>3. free_head' \in Orders /\ ~active'[free_head']
      BY <1>4, <3>1, <3>2
    <3>4. depth'[free_head'] = FreeOrders' - 1
      BY <1>0, <1>5, <3>1, <3>2
    <3> QED
      BY <1>0, <2>3, <3>3, <3>4 DEF FreeAt
  <2> QED
    BY <2>2, <2>3
<1>9. ASSUME NEW m \in Orders, ~active'[m]
      PROVE  IF depth'[m] = 0 THEN links'.next[m] = NULL ELSE FreeAt(links.next[m], depth[m] - 1)'
  <2>1. ~active[m] /\ m # n /\ depth'[m] = depth[m] /\ links'.next[m] = links.next[m]
    BY <1>4, <1>5, <1>9
  <2>2. IF depth[m] = 0 THEN links.next[m] = NULL ELSE FreeAt(links.next[m], depth[m] - 1)
    BY <2>1 DEF PoolConserved
  <2>3. ASSUME depth[m] # 0 PROVE FreeAt(links.next[m], depth[m] - 1)'
    <3>1. links.next[m] \in Orders /\ ~active[links.next[m]] /\ depth[links.next[m]] = depth[m] - 1
      BY <2>2, <2>3 DEF FreeAt
    <3>2. links.next[m] # n
      BY <3>1, <1>0, <1>1, <1>7, <2>1
    <3> QED
      BY <1>4, <1>5, <2>1, <3>1, <3>2 DEF FreeAt
  <2> QED
    BY <2>1, <2>2, <2>3
<1> QED
  BY <1>0, <1>2, <1>3, <1>4, <1>5, <1>6, <1>7, <1>8, <1>9 DEF PoolConserved

(* free(): an active order becomes the head of the free list. *)
LEMMA FreePool ==
  ASSUME TypeOK, PoolConserved, NEW n \in Orders, active[n],
         active' = [active EXCEPT ![n] = FALSE],
         active_count' = active_count - 1,
         free_head' = n,
         depth' = [depth EXCEPT ![n] = MAX_ORDERS - active_count],
         links'.next[n] = free_head,
         \A m \in Orders : ~active[m] => links'.next[m] = links.next[m]
  PROVE  /\ PoolConserved'
         /\ active' \in [Orders -> BOOLEAN] /\ active_count' \in 0 .. MAX_ORDERS
         /\ free_head' \in Orders \cup {NULL} /\ depth' \in [Orders -> 0 .. MAX_ORDERS - 1]
<1>0. /\ active_count \in Nat /\ active_count >= 1 /\ active_count <= MAX_ORDERS
      /\ FreeOrders \in Nat /\ FreeOrders' = FreeOrders + 1 /\ MAX_ORDERS \in Nat
      /\ FreeOrders <= MAX_ORDERS - 1 /\ FreeOrders = MAX_ORDERS - active_count
  BY ActiveBounds, BookAssumption DEF FreeOrders, TypeOK
<1>1. /\ active \in [Orders -> BOOLEAN] /\ depth \in [Orders -> 0 .. MAX_ORDERS - 1]
  BY DEF TypeOK
<1>2. active' \in [Orders -> BOOLEAN] /\ depth' \in [Orders -> 0 .. MAX_ORDERS - 1] /\ free_head' \in Orders \cup {NULL}
  BY <1>0, <1>1
<1>3. active_count' \in 0 .. MAX_ORDERS
  BY <1>0
<1>4. \A m \in Orders : ~active'[m] <=> ~active[m] \/ m = n
  BY <1>1
<1>5. depth'[n] = FreeOrders /\ \A m \in Orders : m # n => depth'[m] = depth[m]
  BY <1>0, <1>1
<1>6. active_count' = Cardinality({m \in Orders : active'[m]})
  <2> DEFINE A == {m \in Orders : active[m]}
  <2>1. IsFiniteSet(A) /\ n \in A
    BY OrdersFinite, FS_Subset
  <2>2. {m \in Orders : active'[m]} = A \ {n}
    BY <1>4
  <2>3. active_count = Cardinality(A)
    BY DEF PoolConserved
  <2> HIDE DEF A
  <2> QED
    BY <2>1, <2>2, <2>3, FS_RemoveElement
<1>7. \A m \in Orders : ~active[m] => depth[m] < FreeOrders /\ depth[m] \in Nat
  BY <1>1 DEF PoolConserved
<1>8. \A m, k \in Orders : ~active'[m] /\ ~active'[k] /\ m # k => depth'[m] # depth'[k]
  <2>1. \A m, k \in Orders : ~active[m] /\ ~active[k] /\ m # k => depth[m] # depth[k]
    BY DEF PoolConserved
  <2> QED
    BY <1>0, <1>4, <1>5, <1>7, <2>1
<1>9. ASSUME NEW m \in Orders, ~active[m], m # n
      PROVE  IF depth'[m] = 0 THEN links'.next[m] = NULL ELSE FreeAt(links.next[m], depth[m] - 1)'
  <2>1. depth'[m] = depth[m] /\ links'.next[m] = links.next[m]
    BY <1>5, <1>9
  <2>2. IF depth[m] = 0 THEN links.next[m] = NULL ELSE FreeAt(links.next[m], depth[m] - 1)
    BY <1>9 DEF PoolConserved
  <2>3. ASSUME depth[m] # 0 PROVE FreeAt(links.next[m], depth[m] - 1)'
    <3>1. links.next[m] \in Orders /\ ~active[links.next[m]] /\ depth[links.next[m]] = depth[m] - 1
      BY <2>2, <2>3 DEF FreeAt
    <3> QED
      BY <1>4, <1>5, <2>1, <3>1 DEF FreeAt
  <2> QED
    BY <2>1, <2>2, <2>3
<1>10. IF depth'[n] = 0 THEN links'.next[n] = NULL ELSE FreeAt(links.next[n], depth[n] - 1)'
  <2>1. IF FreeOrders = 0 THEN free_head = NULL ELSE FreeAt(free_head, FreeOrders - 1)
    BY DEF PoolConserved
  <2>2. ASSUME FreeOrders # 0 PROVE FreeAt(links.next[n], depth[n] - 1)'
    <3>1. free_head \in Orders /\ ~active[free_head] /\ depth[free_head] = FreeOrders - 1
      BY <2>1, <2>2 DEF FreeAt
    <3> QED
      BY <1>4, <1>5, <3>1 DEF FreeAt
  <2> QED
    BY <1>5, <2>1, <2>2
<1>11. FreeAt(free_head, FreeOrders - 1)' /\ FreeOrders' # 0
  BY <1>0, <1>4, <1>5 DEF FreeAt
<1>12. \A m \in Orders : ~active'[m] => depth'[m] < FreeOrders'
  BY <1>0, <1>4, <1>5, <1>7
<1>13. \A m \in Orders : ~active'[m] =>
         IF depth'[m] = 0 THEN links'.next[m] = NULL ELSE FreeAt(links.next[m], depth[m] - 1)'
  BY <1>4, <1>9, <1>10
<1> QED
  BY <1>2, <1>3, <1>6, <1>8, <1>11, <1>12, <1>13 DEF PoolConserved

-----------------------------------------------------------------------------
(* The queues *)

LEMMA MirrorFacts ==
  ASSUME NEW L \in Links(Orders, Queues), NEW n \in Orders, NEW q \in Queues
  PROVE  /\ Mirror(L) \in Links(Orders, Queues)
         /\ Mirror(PushTail(L, n, q)) = PushHead(Mirror(L), n, q)
         /\ Mirror(Unlink(L, n, q)) = Unlink(Mirror(L), n, q)
         /\ PushTail(L, n, q) \in Links(Orders, Queues)
         /\ Unlink(L, n, q) \in Links(Orders, Queues)
<1>1. Mirror(L) \in Links(Orders, Queues)
  BY LinksType
<1>2. Mirror(PushTail(L, n, q)) = PushHead(Mirror(L), n, q)
  <2> DEFINE H == PushHead(Mirror(L), n, q)
  <2>1. H = [head |-> H.head, tail |-> H.tail, prev |-> H.prev, next |-> H.next]
    BY DEF PushHead
  <2> QED
    BY <2>1 DEF PushTail, Mirror
<1>3. Mirror(Unlink(L, n, q)) = Unlink(Mirror(L), n, q)
  BY DEF Mirror, Unlink
<1>4. PushHead(Mirror(L), n, q) \in Links(Orders, Queues)
  BY <1>1, LinksType
<1>5. PushTail(L, n, q) \in Links(Orders, Queues)
  BY <1>4, LinksType DEF PushTail
<1> QED
  BY <1>1, <1>2, <1>3, <1>5, LinksType

(* The ends of a queue are orders of that queue. *)
LEMMA QueueEnds ==
  ASSUME TypeOK, QueuesChained, call.op # "clear", NEW q \in Queues
  PROVE  /\ links.head[q] # NULL => links.head[q] \in Orders /\ Where[links.head[q]] = q
         /\ links.tail[q] # NULL => links.tail[q] \in Orders /\ Where[links.tail[q]] = q
<1>1. View = links
  BY DEF View
<1>2. EndsLinked(Mirror(links), Where, q)
  BY <1>1 DEF QueuesChained, Chained
<1> QED
  BY <1>2 DEF EndsLinked, Mirror, TypeOK, Links

(* enqueue: the newest order goes to the end of its queue. *)
LEMMA EnqueueQueues ==
  ASSUME TypeOK, OwnersKnown, BornPast, QueuesChained, call.op # "clear", call' = call,
         NEW n \in Orders, ~active[n], NEW q \in Queues,
         links' = PushTail(links, n, q),
         Where' = [Where EXCEPT ![n] = q],
         born' = [born EXCEPT ![n] = adds + 1]
  PROVE  /\ QueuesChained' /\ links' \in Links(Orders, Queues)
         /\ \A m \in Orders : ~active[m] /\ m # n => links'.next[m] = links.next[m]
<1>1. View = links /\ View' = links'
  BY DEF View
<1>2. /\ links \in Links(Orders, Queues) /\ born \in [Orders -> Nat] /\ adds \in Nat
      /\ Where \in [Orders -> Queues \cup {NULL}] /\ Where[n] = NULL
  <2>1. born \in [Orders -> Nat] /\ adds \in Nat
    BY BookAssumption DEF TypeOK
  <2> QED
    BY <2>1, WhereType, WhereActive DEF TypeOK
<1>3. Chained(Mirror(links), Orders, Queues, Where, born)
  BY <1>1 DEF QueuesChained
<1>4. \A m \in Orders : born[m] < adds + 1
  BY <1>2 DEF BornPast
<1>5. Chained(PushHead(Mirror(links), n, q), Orders, Queues,
              [Where EXCEPT ![n] = q], [born EXCEPT ![n] = adds + 1])
  <2>1. Mirror(links) \in Links(Orders, Queues) /\ adds + 1 \in Nat
    BY <1>2, MirrorFacts
  <2> QED
    BY <1>2, <1>3, <1>4, <2>1, NullApart, PushHeadChained
<1>6. QueuesChained'
  BY <1>1, <1>2, <1>5, MirrorFacts DEF QueuesChained
<1>7. ASSUME NEW m \in Orders, ~active[m], m # n PROVE links'.next[m] = links.next[m]
  <2>1. links.tail[q] # NULL => links.tail[q] # m
    BY <1>2, <1>7, QueueEnds, WhereActive, NullApart
  <2> QED
    BY <1>2, <1>7, <2>1 DEF PushTail, PushHead, Mirror, Links
<1> QED
  BY <1>2, <1>6, <1>7, MirrorFacts

(* What free() does to the links. *)
LEMMA FreedLinks ==
  ASSUME NEW U \in Links(Orders, Queues), NEW n \in Orders, NEW f \in Orders \cup {NULL}
  PROVE  /\ PushFree(U, n, f) \in Links(Orders, Queues)
         /\ PushFree(U, n, f).head = U.head /\ PushFree(U, n, f).tail = U.tail
         /\ PushFree(U, n, f).next[n] = f
         /\ \A m \in Orders : m # n => /\ PushFree(U, n, f).next[m] = U.next[m]
                                       /\ PushFree(U, n, f).prev[m] = U.prev[m]
  BY DEF Links, PushFree

LEMMA FreedKeeps ==
  ASSUME NEW U \in Links(Orders, Queues), NEW n \in Orders, NEW f \in Orders \cup {NULL},
         NEW m \in Orders, m # n
  PROVE  PushFree(U, n, f).next[m] = U.next[m] /\ PushFree(U, n, f).prev[m] = U.prev[m]
  BY FreedLinks

(* dequeue and free: an order leaves its queue for the free list. *)
LEMMA DequeueQueues ==
  ASSUME TypeOK, OwnersKnown, QueuesChained, call.op # "clear", call'.op # "clear",
         NEW n \in Orders, NEW q \in Queues, Where[n] = q,
         links' = PushFree(Unlink(links, n, q), n, free_head),
         Where' = [Where EXCEPT ![n] = NULL],
         born' = [born EXCEPT ![n] = 0]
  PROVE  /\ QueuesChained' /\ links' \in Links(Orders, Queues)
         /\ links'.next[n] = free_head
         /\ \A m \in Orders : ~active[m] => links'.next[m] = links.next[m]
<1> DEFINE U == Unlink(links, n, q)
<1>1. View = links /\ View' = links'
  BY DEF View
<1>2. /\ links \in Links(Orders, Queues) /\ born \in [Orders -> Nat]
      /\ Where \in [Orders -> Queues \cup {NULL}]
      /\ free_head \in Orders \cup {NULL} /\ active[n]
  <2>1. born \in [Orders -> Nat]
    BY BookAssumption DEF TypeOK
  <2> QED
    BY <2>1, WhereType, WhereActive, NullApart DEF TypeOK
<1>3. Chained(Mirror(links), Orders, Queues, Where, born)
  BY <1>1 DEF QueuesChained
<1>4. U \in Links(Orders, Queues) /\ Mirror(U) \in Links(Orders, Queues)
  BY <1>2, MirrorFacts
<1>5. Chained(Mirror(U), Orders, Queues, Where', born)
  <2>1. Mirror(links) \in Links(Orders, Queues) /\ Mirror(U) = Unlink(Mirror(links), n, q)
    BY <1>2, MirrorFacts
  <2>2. Chained(Unlink(Mirror(links), n, q), Orders, Queues, [Where EXCEPT ![n] = NULL], born)
    BY <1>2, <1>3, <2>1, NullApart, UnlinkChained
  <2> QED
    BY <2>1, <2>2
<1>6. /\ links' \in Links(Orders, Queues)
      /\ links'.head = U.head /\ links'.tail = U.tail
      /\ links'.next[n] = free_head
      /\ \A m \in Orders : m # n => links'.next[m] = U.next[m] /\ links'.prev[m] = U.prev[m]
  <2>1. links' = PushFree(U, n, free_head)
    OBVIOUS
  <2>2. free_head \in Orders \cup {NULL}
    BY <1>2
  <2>3. U \in Links(Orders, Queues)
    BY <1>4
  <2> HIDE DEF U
  <2>4. /\ links' \in Links(Orders, Queues)
        /\ links'.head = U.head /\ links'.tail = U.tail
        /\ links'.next[n] = free_head
    BY <2>1, <2>2, <2>3, FreedLinks
  <2>5. ASSUME NEW m \in Orders, m # n
        PROVE  links'.next[m] = U.next[m] /\ links'.prev[m] = U.prev[m]
    <3>1. /\ PushFree(U, n, free_head).next[m] = U.next[m]
          /\ PushFree(U, n, free_head).prev[m] = U.prev[m]
      BY <2>2, <2>3, <2>5, FreedKeeps, Zenon
    <3> QED
      BY <2>1, <3>1, Zenon
  <2> QED
    BY <2>4, <2>5
<1>7. QueuesChained'
  <2>1. Mirror(links') \in Links(Orders, Queues)
    BY <1>6, LinksType
  <2>2. Where' \in [Orders -> Queues \cup {NULL}]
    BY <1>2
  <2>3. /\ Mirror(links').head = Mirror(U).head /\ Mirror(links').tail = Mirror(U).tail
        /\ \A m \in Orders : Where'[m] # NULL =>
             /\ Mirror(links').prev[m] = Mirror(U).prev[m]
             /\ Mirror(links').next[m] = Mirror(U).next[m]
             /\ born'[m] = born[m]
    <3> HIDE DEF U
    <3> QED
      BY <1>2, <1>6 DEF Mirror
  <2>4. Chained(Mirror(links'), Orders, Queues, Where', born')
    <3> DEFINE M == Mirror(links')
               V == Mirror(U)
               at == Where'
               age == born'
    <3>1. /\ M \in Links(Orders, Queues) /\ V \in Links(Orders, Queues)
          /\ at \in [Orders -> Queues \cup {NULL}]
          /\ Chained(V, Orders, Queues, at, born)
          /\ M.head = V.head /\ M.tail = V.tail
          /\ \A m \in Orders : at[m] # NULL =>
               M.prev[m] = V.prev[m] /\ M.next[m] = V.next[m] /\ age[m] = born[m]
      BY <1>4, <1>5, <2>1, <2>2, <2>3
    <3> HIDE DEF M, V, at, age
    <3>2. Chained(M, Orders, Queues, at, age)
      BY <3>1, NullApart, ChainedSame
    <3> QED
      BY <3>2 DEF M, at, age
  <2> QED
    BY <1>1, <2>4 DEF QueuesChained
<1>8. ASSUME NEW m \in Orders, ~active[m] PROVE links'.next[m] = links.next[m]
  <2>1. ElementLinked(Mirror(links), Where, born, n)
    BY <1>2, <1>3, NullApart DEF Chained
  <2>2. links.prev[n] # NULL => links.prev[n] \in Orders /\ Where[links.prev[n]] = q
    BY <1>2, <2>1 DEF ElementLinked, Mirror, Links
  <2>3. links.prev[n] # NULL => links.prev[n] # m
    BY <1>8, <2>2, WhereActive, NullApart
  <2>4. U.next[m] = links.next[m]
    BY <1>2, <2>3 DEF Unlink, Links
  <2> QED
    BY <1>2, <1>6, <1>8, <2>4
<1> QED
  BY <1>6, <1>7, <1>8

-----------------------------------------------------------------------------
(* The best prices *)

(* The search of the Fenwick tree finds the best level that is not empty.    *)
LEMMA BestOfExact ==
  ASSUME NEW v, NEW b, NEW s \in Sides
  PROVE  /\ BestOf(v, b, s) \in Prices \cup {INVALID_PRICE}
         /\ \A p \in Prices : v[<<b, s, p>>] # 0 => ~Better(s, p, BestOf(v, b, s))
         /\ IF Nonzero(v, b, s) = {} THEN BestOf(v, b, s) = NoBest(s)
            ELSE BestOf(v, b, s) \in Nonzero(v, b, s)
<1> DEFINE S == Nonzero(v, b, s)
<1>0. Prices \subseteq Nat /\ 0 \in Prices /\ MAX_PRICE_LEVELS \in Nat
  BY BookAssumption DEF Prices
<1>1. CASE S = {}
  BY <1>0, <1>1 DEF BestOf, NoBest, Nonzero, Sides
<1>2. CASE S # {}
  <2>1. S \subseteq Prices
    BY DEF Nonzero
  <2>2. \E p \in S : \A o \in S : ~Better(s, o, p)
    <3>1. CASE s = "ask"
      <4> DEFINE age == [p \in Prices |-> p]
      <4>1. \E p \in S : \A o \in S : age[p] <= age[o]
        <5>1. \A p \in S : age[p] \in Nat
          BY <1>0, <2>1
        <5> HIDE DEF S, age
        <5> QED
          BY <1>2, <5>1, LeastAge
      <4>2. PICK p \in S : \A o \in S : age[p] <= age[o]
        BY <4>1
      <4>3. ASSUME NEW o \in S PROVE ~Better(s, o, p)
        <5>1. o \in Prices /\ p \in Prices /\ o \in Nat /\ p \in Nat /\ age[p] <= age[o]
          BY <1>0, <2>1, <4>2
        <5> HIDE DEF S
        <5> QED
          BY <1>0, <3>1, <5>1 DEF Better
      <4> QED
        BY <4>3
    <3>2. CASE s = "bid"
      <4> DEFINE age == [p \in Prices |-> MAX_PRICE_LEVELS - p]
      <4>1. \E p \in S : \A o \in S : age[p] <= age[o]
        <5>1. \A p \in S : age[p] \in Nat
          BY <1>0, <2>1 DEF Prices
        <5> HIDE DEF S, age
        <5> QED
          BY <1>2, <5>1, LeastAge
      <4>2. PICK p \in S : \A o \in S : age[p] <= age[o]
        BY <4>1
      <4>3. ASSUME NEW o \in S PROVE ~Better(s, o, p)
        <5>1. o \in Prices /\ p \in Prices /\ o \in Nat /\ p \in Nat /\ age[p] <= age[o]
          BY <1>0, <2>1, <4>2
        <5> HIDE DEF S
        <5> QED
          BY <1>0, <3>2, <5>1 DEF Better
      <4> QED
        BY <4>3
    <3> QED
      BY <3>1, <3>2 DEF Sides
  <2>3. BestOf(v, b, s) \in S /\ \A o \in S : ~Better(s, o, BestOf(v, b, s))
    <3>1. BestOf(v, b, s) = CHOOSE p \in S : \A o \in S : ~Better(s, o, p)
      BY <1>2 DEF BestOf
    <3> HIDE DEF S
    <3> QED
      BY <2>2, <3>1
  <2> QED
    BY <2>1, <2>3 DEF Nonzero
<1> QED
  BY <1>1, <1>2

-----------------------------------------------------------------------------
(* Every step keeps the invariant. *)

CallType == [op : {"idle", "trade", "clear"}, queue : Queues \cup {NULL},
             want : Nat, idx : Orders \cup {NULL}]

(* Of a removed order nothing stays but its slot in the free list. *)
LEMMA Forgotten ==
  ASSUME TypeOK, OwnersKnown, BornPast, NEW n \in Orders,
         active' = [active EXCEPT ![n] = FALSE],
         qty' = [qty EXCEPT ![n] = 0], price' = [price EXCEPT ![n] = 0],
         side' = [side EXCEPT ![n] = "ask"], owner' = [owner EXCEPT ![n] = NULL],
         born' = [born EXCEPT ![n] = 0], adds' = adds
  PROVE  /\ qty' \in [Orders -> 0 .. U32 - 1] /\ price' \in [Orders -> Prices]
         /\ side' \in [Orders -> Sides] /\ owner' \in [Orders -> Books \cup {NULL}]
         /\ born' \in [Orders -> 0 .. MaxAdds]
         /\ OwnersKnown' /\ BornPast'
         /\ Where' = [Where EXCEPT ![n] = NULL]
<1>1. 0 \in 0 .. U32 - 1 /\ 0 \in Prices /\ 0 \in 0 .. MaxAdds /\ "ask" \in Sides
  BY BookAssumption DEF Prices, Sides
<1>2. /\ qty' \in [Orders -> 0 .. U32 - 1] /\ price' \in [Orders -> Prices]
      /\ side' \in [Orders -> Sides] /\ owner' \in [Orders -> Books \cup {NULL}]
      /\ born' \in [Orders -> 0 .. MaxAdds]
  BY <1>1 DEF TypeOK
<1>3. OwnersKnown'
  BY DEF TypeOK, OwnersKnown
<1>4. BornPast'
  <2>1. adds \in Nat /\ born \in [Orders -> 0 .. MaxAdds]
    BY BookAssumption DEF TypeOK
  <2> QED
    BY <2>1 DEF BornPast
<1>5. Where' = [Where EXCEPT ![n] = NULL]
  BY DEF Where, TypeOK
<1> QED
  BY <1>2, <1>3, <1>4, <1>5

(* Removing volume from one level, with the search when it was the best one  *)
(* and is empty now, leaves no level with volume ahead of the best.          *)
LEMMA BestAfterLess ==
  ASSUME TypeOK, BestNotBehind, NEW q \in Queues, NEW x \in Nat,
         bit' = [bit EXCEPT ![q] = @ - x],
         \/ best' = best
         \/ best' = [best EXCEPT ![<<q[1], q[2]>>] = BestOf(bit', q[1], q[2])]
  PROVE  /\ BestNotBehind' /\ bit' \in [Queues -> Int]
         /\ best' \in [Books \X Sides -> Prices \cup {INVALID_PRICE}]
<1> DEFINE bs == <<q[1], q[2]>>
<1>1. bit \in [Queues -> Int] /\ best \in [Books \X Sides -> Prices \cup {INVALID_PRICE}]
  BY DEF TypeOK
<1>2. bs \in Books \X Sides /\ q[2] \in Sides
  BY QueueParts
<1>3. bit' \in [Queues -> Int] /\ \A r \in Queues : bit'[r] > 0 => bit[r] > 0
  BY <1>1
<1>4. BestOf(bit', q[1], q[2]) \in Prices \cup {INVALID_PRICE}
  BY <1>2, BestOfExact
<1>5. best' \in [Books \X Sides -> Prices \cup {INVALID_PRICE}]
  BY <1>1, <1>4
<1>6. ASSUME NEW r \in Queues, bit'[r] > 0
      PROVE  ~Better(r[2], r[3], best'[<<r[1], r[2]>>])
  <2>0. /\ r[1] \in Books /\ r[2] \in Sides /\ r[3] \in Prices /\ r = <<r[1], r[2], r[3]>>
        /\ <<r[1], r[2]>> \in Books \X Sides
    BY QueueParts
  <2>1. CASE best'[<<r[1], r[2]>>] = best[<<r[1], r[2]>>]
    BY <1>3, <1>6, <2>1 DEF BestNotBehind
  <2>2. CASE best'[<<r[1], r[2]>>] # best[<<r[1], r[2]>>]
    <3>1. best' = [best EXCEPT ![bs] = BestOf(bit', q[1], q[2])] /\ <<r[1], r[2]>> = bs
      BY <1>1, <1>2, <2>0, <2>2
    <3>2. r[1] = q[1] /\ r[2] = q[2]
      BY <3>1
    <3>3. best'[<<r[1], r[2]>>] = BestOf(bit', r[1], r[2])
      BY <1>1, <1>2, <3>1, <3>2
    <3>4. bit'[<<r[1], r[2], r[3]>>] # 0
      BY <1>3, <1>6, <2>0
    <3>5. ~Better(r[2], r[3], BestOf(bit', r[1], r[2]))
      BY <2>0, <3>4, BestOfExact, Zenon
    <3> QED
      BY <3>3, <3>5, Zenon
  <2> QED
    BY <2>1, <2>2
<1> QED
  BY <1>3, <1>5, <1>6 DEF BestNotBehind

LEMMA RemoveIInv ==
  ASSUME IInv, call.op # "clear", NEW b \in Books, NEW n \in Orders,
         active[n], owner[n] = b, Remove(b, n), adds' = adds,
         call' \in CallType, call'.op # "clear", CallOK'
  PROVE  IInv'
<1> DEFINE q == <<b, side[n], price[n]>>
<1>0. TypeOK /\ OwnersKnown /\ BornPast /\ PoolConserved /\ QueuesChained /\ BestNotBehind
  BY DEF IInv
<1>1. /\ q \in Queues /\ Where[n] = q /\ q[1] = b /\ q[2] = side[n] /\ q[3] = price[n]
      /\ qty[n] \in Nat
  <2>1. qty[n] \in Nat
    BY <1>0, BookAssumption DEF TypeOK
  <2> QED
    BY <1>0, <2>1, WhereActive
<1>2. /\ active' = [active EXCEPT ![n] = FALSE]
      /\ links' = PushFree(Unlink(links, n, q), n, free_head)
      /\ free_head' = n
      /\ active_count' = active_count - 1
      /\ depth' = [depth EXCEPT ![n] = MAX_ORDERS - active_count]
      /\ qty' = [qty EXCEPT ![n] = 0] /\ price' = [price EXCEPT ![n] = 0]
      /\ side' = [side EXCEPT ![n] = "ask"] /\ owner' = [owner EXCEPT ![n] = NULL]
      /\ born' = [born EXCEPT ![n] = 0]
  BY DEF Remove, Free
<1>3. /\ level_qty' = [level_qty EXCEPT ![q] = IF @ >= qty[n] THEN @ - qty[n] ELSE 0]
      /\ bit' = [bit EXCEPT ![q] = @ - qty[n]]
      /\ \/ best' = best
         \/ best' = [best EXCEPT ![<<b, side[n]>>] = BestOf(bit', b, side[n])]
  BY DEF Remove
<1>4. /\ qty' \in [Orders -> 0 .. U32 - 1] /\ price' \in [Orders -> Prices]
      /\ side' \in [Orders -> Sides] /\ owner' \in [Orders -> Books \cup {NULL}]
      /\ born' \in [Orders -> 0 .. MaxAdds]
      /\ OwnersKnown' /\ BornPast'
      /\ Where' = [Where EXCEPT ![n] = NULL]
  BY <1>0, <1>2, Forgotten
<1>5. /\ QueuesChained' /\ links' \in Links(Orders, Queues)
      /\ links'.next[n] = free_head
      /\ \A m \in Orders : ~active[m] => links'.next[m] = links.next[m]
  <2> HIDE DEF q
  <2> QED
    BY <1>0, <1>1, <1>2, <1>4, DequeueQueues
<1>6. /\ PoolConserved'
      /\ active' \in [Orders -> BOOLEAN] /\ active_count' \in 0 .. MAX_ORDERS
      /\ free_head' \in Orders \cup {NULL} /\ depth' \in [Orders -> 0 .. MAX_ORDERS - 1]
  BY <1>0, <1>2, <1>5, FreePool
<1>7. /\ BestNotBehind' /\ bit' \in [Queues -> Int]
      /\ best' \in [Books \X Sides -> Prices \cup {INVALID_PRICE}]
  <2>1. \/ best' = best
        \/ best' = [best EXCEPT ![<<q[1], q[2]>>] = BestOf(bit', q[1], q[2])]
    BY <1>1, <1>3
  <2> HIDE DEF q
  <2> QED
    BY <1>0, <1>1, <1>3, <2>1, BestAfterLess
<1>8. level_qty' \in [Queues -> 0 .. U32 - 1]
  <2> HIDE DEF q
  <2>1. level_qty \in [Queues -> 0 .. U32 - 1]
    BY <1>0 DEF TypeOK
  <2>2. level_qty[q] \in Nat /\ level_qty[q] <= U32 - 1 /\ U32 \in Nat /\ U32 >= 1
    BY <1>1, <2>1, BookAssumption
  <2>3. (IF level_qty[q] >= qty[n] THEN level_qty[q] - qty[n] ELSE 0) \in 0 .. U32 - 1
    BY <1>1, <2>2
  <2> QED
    BY <1>1, <1>3, <2>1, <2>3
<1>9. TypeOK'
  BY <1>0, <1>4, <1>5, <1>6, <1>7, <1>8 DEF TypeOK, CallType
<1> QED
  BY <1>4, <1>5, <1>6, <1>7, <1>9 DEF IInv

LEMMA DequeueIInv ==
  ASSUME IInv, NEW b \in Books, NEW n \in Orders, Dequeue(b, n)
  PROVE  IInv'
<1>1. call = NoCall /\ call' = call /\ adds' = adds /\ active[n] /\ owner[n] = b /\ Remove(b, n)
  BY DEF Dequeue, Idle
<1>2. call' \in CallType /\ call.op # "clear" /\ call'.op # "clear" /\ CallOK'
  BY <1>1 DEF NoCall, CallType, CallOK
<1> QED
  BY <1>1, <1>2, RemoveIInv

LEMMA FillWholeIInv ==
  ASSUME IInv, NEW n \in Orders, FillWhole(n)
  PROVE  IInv'
<1> DEFINE q == call.queue
<1>1. /\ call.op = "trade" /\ links.head[q] = n /\ qty[n] <= call.want
      /\ call' = [call EXCEPT !.want = @ - qty[n]] /\ adds' = adds /\ Remove(q[1], n)
  BY DEF FillWhole, Filling
<1>2. q \in Queues /\ call.idx = NULL
  BY <1>1 DEF IInv, CallOK, NoCall
<1>3. Where[n] = q
  BY <1>1, <1>2, NullApart, QueueEnds DEF IInv
<1>4. active[n] /\ owner[n] = q[1] /\ q[1] \in Books
  BY <1>2, <1>3, WhereActive, QueueParts, NullApart DEF IInv
<1>5. call' \in CallType /\ call'.op = "trade" /\ CallOK'
  <2>1. qty[n] \in Nat /\ call.want \in Nat /\ call \in CallType
    BY BookAssumption DEF IInv, TypeOK, CallType
  <2> QED
    BY <1>1, <1>2, <2>1 DEF CallType, CallOK
<1> HIDE DEF q
<1> QED
  BY <1>1, <1>4, <1>5, RemoveIInv

LEMMA InitIInv == Init => IInv
<1> SUFFICES ASSUME Init PROVE IInv
  OBVIOUS
<1>0. /\ 0 \in Orders /\ 0 \in Prices /\ 0 \in 0 .. U32 - 1 /\ MAX_ORDERS \in Nat /\ MAX_ORDERS >= 1
      /\ INVALID_PRICE \in Prices \cup {INVALID_PRICE} /\ Orders \subseteq Nat
  BY BookAssumption DEF Orders, Prices
<1>1. links \in Links(Orders, Queues)
  <2> DEFINE f == [n \in Orders |-> IF n = MAX_ORDERS - 1 THEN NULL ELSE n + 1]
  <2>1. f \in [Orders -> Orders \cup {NULL}]
    BY <1>0 DEF Orders
  <2>2. links = [NoLinks(Orders, Queues) EXCEPT !.next = f]
    BY DEF Init
  <2> HIDE DEF f
  <2> QED
    BY <2>1, <2>2 DEF NoLinks, Links
<1>2. TypeOK
  <2>1. depth \in [Orders -> 0 .. MAX_ORDERS - 1]
    BY <1>0 DEF Init, Orders
  <2>2. best \in [Books \X Sides -> Prices \cup {INVALID_PRICE}]
    BY <1>0 DEF Init, NoBest
  <2>3. call \in CallType
    BY DEF Init, NoCall, CallType
  <2>4. born \in [Orders -> 0 .. MaxAdds] /\ adds \in 0 .. MaxAdds
    BY BookAssumption DEF Init
  <2> QED
    BY <1>0, <1>1, <2>1, <2>2, <2>3, <2>4 DEF Init, TypeOK, CallType, Sides
<1>3. OwnersKnown /\ BornPast /\ CallOK
  BY DEF Init, OwnersKnown, BornPast, CallOK
<1>4. Where = [n \in Orders |-> NULL]
  BY DEF Init, Where
<1>5. PoolConserved
  <2>1. {n \in Orders : active[n]} = {}
    BY DEF Init
  <2>2. active_count = Cardinality({n \in Orders : active[n]})
    BY <2>1, FS_EmptySet DEF Init
  <2>3. FreeOrders = MAX_ORDERS
    BY <1>0 DEF Init, FreeOrders
  <2>4. \A n \in Orders : depth[n] = MAX_ORDERS - 1 - n /\ n \in Nat /\ n < MAX_ORDERS
    BY <1>0 DEF Init, Orders
  <2>5. FreeAt(free_head, FreeOrders - 1)
    BY <1>0, <2>3, <2>4 DEF Init, FreeAt
  <2>6. ASSUME NEW n \in Orders
        PROVE  IF depth[n] = 0 THEN links.next[n] = NULL ELSE FreeAt(links.next[n], depth[n] - 1)
    <3>1. links.next[n] = IF n = MAX_ORDERS - 1 THEN NULL ELSE n + 1
      BY DEF Init, NoLinks
    <3>2. CASE n = MAX_ORDERS - 1
      BY <1>0, <2>4, <3>1, <3>2
    <3>3. CASE n # MAX_ORDERS - 1
      <4>1. n + 1 \in Orders
        BY <1>0, <2>4, <3>3 DEF Orders
      <4> QED
        BY <1>0, <2>4, <3>1, <3>3, <4>1 DEF FreeAt, Init
    <3> QED
      BY <3>2, <3>3
  <2>7. \A n \in Orders : depth[n] < FreeOrders
    BY <1>0, <2>3, <2>4
  <2>8. \A n, m \in Orders : n # m => depth[n] # depth[m]
    BY <1>0, <2>4
  <2>9. FreeOrders # 0
    BY <1>0, <2>3
  <2> QED
    BY <2>2, <2>5, <2>6, <2>7, <2>8, <2>9, Zenon DEF PoolConserved
<1>6. QueuesChained
  <2>1. View = links
    BY DEF Init, NoCall, View
  <2>2. ASSUME NEW q \in Queues PROVE EndsLinked(Mirror(links), Where, q)
    BY DEF Init, NoLinks, Mirror, EndsLinked
  <2>3. \A n \in Orders : Where[n] = NULL
    BY <1>4
  <2> QED
    BY <2>1, <2>2, <2>3 DEF QueuesChained, Chained
<1>7. BestNotBehind
  BY DEF Init, BestNotBehind
<1> QED
  BY <1>2, <1>3, <1>5, <1>6, <1>7 DEF IInv

LEMMA EnqueueIInv ==
  ASSUME IInv, NEW b \in Books, NEW s \in Sides, NEW p \in PriceInputs, NEW x \in Quantities,
         Enqueue(b, s, p, x)
  PROVE  IInv'
<1> DEFINE n == free_head
           q == <<b, s, p>>
<1>0. /\ TypeOK /\ OwnersKnown /\ BornPast /\ PoolConserved /\ QueuesChained /\ BestNotBehind
      /\ call = NoCall /\ call' = call /\ call.op # "clear"
  BY DEF IInv, Enqueue, Idle, NoCall
<1>1. /\ adds < MaxAdds /\ adds' = adds + 1
      /\ free_head' = links.next[n]
      /\ active' = [active EXCEPT ![n] = TRUE]
      /\ active_count' = active_count + 1
      /\ links' = PushTail(links, n, q)
      /\ qty' = [qty EXCEPT ![n] = x]
      /\ price' = [price EXCEPT ![n] = p]
      /\ side' = [side EXCEPT ![n] = s]
      /\ owner' = [owner EXCEPT ![n] = b]
      /\ born' = [born EXCEPT ![n] = adds + 1]
      /\ level_qty' = [level_qty EXCEPT ![q] = (@ + x) % U32]
      /\ bit' = [bit EXCEPT ![q] = @ + x]
      /\ best' = IF Better(s, p, best[<<b, s>>]) THEN [best EXCEPT ![<<b, s>>] = p] ELSE best
      /\ depth' = [depth EXCEPT ![n] = 0]
  BY DEF Enqueue
<1>2. n \in Orders /\ ~active[n]
  BY <1>0, ActiveBounds DEF Enqueue
<1>3. p \in Prices /\ p \in Nat /\ x \in 0 .. U32 - 1 /\ x \in Nat
  BY BookAssumption DEF Enqueue, Prices
<1>4. q \in Queues /\ <<b, s>> \in Books \X Sides /\ q[1] = b /\ q[2] = s /\ q[3] = p
  BY <1>3, QueueOf
<1>5. Where' = [Where EXCEPT ![n] = q]
  BY <1>0, <1>1, <1>2 DEF Where, TypeOK
<1>6. /\ QueuesChained' /\ links' \in Links(Orders, Queues)
      /\ \A m \in Orders : ~active[m] /\ m # n => links'.next[m] = links.next[m]
  <2> HIDE DEF n, q
  <2> QED
    BY <1>0, <1>1, <1>2, <1>4, <1>5, EnqueueQueues
<1>7. /\ PoolConserved'
      /\ active' \in [Orders -> BOOLEAN] /\ active_count' \in 0 .. MAX_ORDERS
      /\ free_head' \in Orders \cup {NULL} /\ depth' \in [Orders -> 0 .. MAX_ORDERS - 1]
  <2>1. n = free_head
    OBVIOUS
  <2> HIDE DEF n
  <2> QED
    BY <1>0, <1>1, <1>2, <1>6, <2>1, AllocPool
<1>8. level_qty' \in [Queues -> 0 .. U32 - 1] /\ bit' \in [Queues -> Int]
  <2> HIDE DEF q
  <2>1. level_qty \in [Queues -> 0 .. U32 - 1] /\ bit \in [Queues -> Int]
    BY <1>0 DEF TypeOK
  <2>2. (level_qty[q] + x) % U32 \in 0 .. U32 - 1 /\ bit[q] + x \in Int
    BY <1>3, <1>4, <2>1, ModRange, BookAssumption
  <2> QED
    BY <1>1, <2>1, <2>2
<1>9. /\ qty' \in [Orders -> 0 .. U32 - 1] /\ price' \in [Orders -> Prices]
      /\ side' \in [Orders -> Sides] /\ owner' \in [Orders -> Books \cup {NULL}]
      /\ born' \in [Orders -> 0 .. MaxAdds] /\ adds' \in 0 .. MaxAdds
  <2>1. adds + 1 \in 0 .. MaxAdds
    BY <1>0, <1>1, BookAssumption DEF TypeOK
  <2> HIDE DEF n
  <2> QED
    BY <1>0, <1>1, <1>2, <1>3, <2>1 DEF TypeOK
<1>10. best' \in [Books \X Sides -> Prices \cup {INVALID_PRICE}]
  BY <1>0, <1>1, <1>3, <1>4 DEF TypeOK
<1>11. TypeOK'
  <2>1. call' \in CallType
    BY <1>0 DEF NoCall, CallType
  <2> QED
    BY <1>6, <1>7, <1>8, <1>9, <1>10, <2>1 DEF TypeOK, CallType
<1>12. OwnersKnown' /\ BornPast' /\ CallOK'
  <2>1. OwnersKnown'
    <3> HIDE DEF n
    <3> QED
      BY <1>0, <1>1, <1>2 DEF TypeOK, OwnersKnown
  <2>2. BornPast'
    <3>1. adds \in Nat /\ born \in [Orders -> Nat]
      BY <1>0, BookAssumption DEF TypeOK
    <3> HIDE DEF n
    <3> QED
      BY <1>0, <1>1, <1>2, <3>1 DEF BornPast
  <2> QED
    BY <1>0, <2>1, <2>2 DEF CallOK
<1>13. BestNotBehind'
  <2> SUFFICES ASSUME NEW r \in Queues, bit'[r] > 0
               PROVE  ~Better(r[2], r[3], best'[<<r[1], r[2]>>])
    BY DEF BestNotBehind
  <2>0. /\ r[1] \in Books /\ r[2] \in Sides /\ r[3] \in Prices /\ r[3] \in Nat
        /\ r = <<r[1], r[2], r[3]>> /\ <<r[1], r[2]>> \in Books \X Sides
    BY QueueParts, BookAssumption DEF Prices
  <2>1. \A c \in Books \X Sides : best[c] \in Nat /\ best'[c] \in Nat
    BY <1>0, <1>10, BookAssumption DEF TypeOK, Prices, INVALID_PRICE
  <2>2. CASE r = q
    <3>1. r[1] = b /\ r[2] = s /\ r[3] = p
      BY <1>4, <2>2
    <3>2. best'[<<b, s>>] = IF Better(s, p, best[<<b, s>>]) THEN p ELSE best[<<b, s>>]
      BY <1>0, <1>1, <1>4 DEF TypeOK
    <3> QED
      BY <1>3, <1>4, <2>1, <3>1, <3>2 DEF Better
  <2>3. CASE r # q
    <3>1. bit[r] > 0
      BY <1>0, <1>1, <1>4, <2>3 DEF TypeOK
    <3>2. ~Better(r[2], r[3], best[<<r[1], r[2]>>])
      BY <1>0, <3>1 DEF BestNotBehind
    <3>3. CASE best'[<<r[1], r[2]>>] = best[<<r[1], r[2]>>]
      BY <3>2, <3>3
    <3>4. CASE best'[<<r[1], r[2]>>] # best[<<r[1], r[2]>>]
      <4>1. /\ <<r[1], r[2]>> = <<b, s>> /\ Better(s, p, best[<<b, s>>])
            /\ best'[<<b, s>>] = p
        BY <1>0, <1>1, <1>4, <2>0, <3>4 DEF TypeOK
      <4>2. r[1] = b /\ r[2] = s
        BY <4>1
      <4> QED
        BY <1>3, <1>4, <2>0, <2>1, <3>2, <4>1, <4>2 DEF Better
    <3> QED
      BY <3>3, <3>4
  <2> QED
    BY <2>2, <2>3
<1> QED
  BY <1>6, <1>7, <1>11, <1>12, <1>13 DEF IInv

LEMMA FillPartIInv ==
  ASSUME IInv, NEW n \in Orders, FillPart(n)
  PROVE  IInv'
<1> DEFINE q == call.queue
           w == call.want
<1>0. /\ TypeOK /\ OwnersKnown /\ BornPast /\ PoolConserved /\ QueuesChained /\ BestNotBehind
      /\ call.op = "trade" /\ qty[n] > w /\ w \in Nat /\ call \in CallType /\ q \in Queues /\ call.idx = NULL
  BY DEF IInv, FillPart, Filling, TypeOK, CallType, CallOK, NoCall
<1>1. /\ qty' = [qty EXCEPT ![n] = @ - w]
      /\ level_qty' = [level_qty EXCEPT ![q] = (@ - w) % U32]
      /\ bit' = [bit EXCEPT ![q] = @ - w]
      /\ call' = [call EXCEPT !.want = 0]
      /\ UNCHANGED <<pool_vars, price, side, owner, born, best, adds>>
  BY DEF FillPart
<1>2. call' \in CallType /\ call'.op = "trade" /\ CallOK'
  BY <1>0, <1>1 DEF CallType, CallOK
<1>3. qty' \in [Orders -> 0 .. U32 - 1] /\ level_qty' \in [Queues -> 0 .. U32 - 1]
  <2>1. /\ qty \in [Orders -> 0 .. U32 - 1] /\ level_qty \in [Queues -> 0 .. U32 - 1]
        /\ qty[n] \in Nat /\ qty[n] <= U32 - 1 /\ U32 \in Nat /\ level_qty[q] \in Nat
    BY <1>0, BookAssumption DEF TypeOK
  <2>2. qty[n] - w \in 0 .. U32 - 1
    BY <1>0, <2>1
  <2>3. (level_qty[q] - w) % U32 \in 0 .. U32 - 1
    BY <1>0, <2>1, ModRange
  <2> HIDE DEF q, w
  <2> QED
    BY <1>1, <2>1, <2>2, <2>3
<1>4. BestNotBehind' /\ bit' \in [Queues -> Int]
  <2> HIDE DEF q, w
  <2> QED
    BY <1>0, <1>1, BestAfterLess
<1>5. TypeOK'
  BY <1>0, <1>1, <1>2, <1>3, <1>4 DEF TypeOK, CallType, pool_vars
<1>6. OwnersKnown' /\ BornPast' /\ PoolConserved'
  BY <1>0, <1>1 DEF OwnersKnown, BornPast, PoolConserved, FreeOrders, FreeAt, pool_vars
<1>7. QueuesChained'
  <2>1. View' = View /\ Where' = Where /\ born' = born
    BY <1>0, <1>1, <1>2 DEF View, Where, pool_vars
  <2> QED
    BY <1>0, <2>1 DEF QueuesChained
<1> QED
  BY <1>2, <1>4, <1>5, <1>6, <1>7 DEF IInv

(* A step that touches nothing but the call. *)
LEMMA CallIInv ==
  ASSUME IInv, UNCHANGED <<pool_vars, order_vars, level_vars, adds>>,
         call' \in CallType, CallOK', QueuesChained'
  PROVE  IInv'
<1>1. TypeOK' /\ OwnersKnown' /\ BornPast'
  BY DEF IInv, TypeOK, OwnersKnown, BornPast, CallType, pool_vars, order_vars, level_vars
<1>2. PoolConserved' /\ BestNotBehind'
  BY DEF IInv, PoolConserved, FreeOrders, FreeAt, BestNotBehind, pool_vars, level_vars
<1> QED
  BY <1>1, <1>2 DEF IInv

LEMMA TradeBeginIInv ==
  ASSUME IInv, NEW b \in Books, NEW s \in Sides, NEW p \in PriceInputs, NEW x \in Quantities,
         TradeBegin(b, s, p, x)
  PROVE  IInv'
<1>1. p \in Prices /\ x \in Nat
  BY BookAssumption DEF TradeBegin, Prices
<1>2. <<b, s, p>> \in Queues
  BY <1>1, QueueOf
<1>3. /\ UNCHANGED <<pool_vars, order_vars, level_vars, adds>> /\ call = NoCall
      /\ call' = [op |-> "trade", queue |-> <<b, s, p>>, want |-> x, idx |-> NULL]
  BY DEF TradeBegin, Idle
<1>4. call' \in CallType /\ CallOK'
  BY <1>1, <1>2, <1>3 DEF CallType, CallOK
<1>5. QueuesChained'
  <2>1. View' = View /\ Where' = Where /\ born' = born
    BY <1>3 DEF View, Where, NoCall, pool_vars, order_vars
  <2> QED
    BY <2>1 DEF IInv, QueuesChained
<1> QED
  BY <1>3, <1>4, <1>5, CallIInv

LEMMA TradeEndIInv ==
  ASSUME IInv, TradeEnd
  PROVE  IInv'
<1>1. UNCHANGED <<pool_vars, order_vars, level_vars, adds>> /\ call.op = "trade" /\ call' = NoCall
  BY DEF TradeEnd
<1>2. call' \in CallType /\ CallOK'
  BY <1>1 DEF CallType, CallOK, NoCall
<1>3. QueuesChained'
  <2>1. View' = View /\ Where' = Where /\ born' = born
    BY <1>1 DEF View, Where, NoCall, pool_vars, order_vars
  <2> QED
    BY <2>1 DEF IInv, QueuesChained
<1> QED
  BY <1>1, <1>2, <1>3, CallIInv

-----------------------------------------------------------------------------
(* clear() *)

LEMMA Halves ==
  ASSUME NEW k \in Nat
  PROVE  k % 2 \in {0, 1} /\ k \div 2 \in Nat /\ k = 2 * (k \div 2) + (k % 2)
<1>1. k % 2 \in {0, 1} /\ k \div 2 \in Nat
  OBVIOUS
<1>2. k = 2 * (k \div 2) + (k % 2)
  BY <1>1, SMT
<1> QED
  BY <1>1, <1>2

LEMMA HalvesOf ==
  ASSUME NEW p \in Nat, NEW r \in {0, 1}
  PROVE  (2 * p + r) \div 2 = p /\ (2 * p + r) % 2 = r
<1> DEFINE k == 2 * p + r
<1>1. k \in Nat
  OBVIOUS
<1>2. k % 2 \in {0, 1} /\ k \div 2 \in Nat /\ k = 2 * (k \div 2) + (k % 2)
  BY <1>1, Halves
<1> DEFINE d == k \div 2
           m == k % 2
<1>3. d \in Nat /\ m \in {0, 1} /\ 2 * p + r = 2 * d + m
  BY <1>2
<1> HIDE DEF d, m
<1>4. d = p /\ m = r
  BY <1>3
<1> QED
  BY <1>4 DEF d, m

(* The walk of clear() visits every queue of its book, each once. *)
LEMMA WalkQueues ==
  ASSUME NEW b \in Books
  PROVE  /\ \A k \in 0 .. LastWalk : Walk(b, k) \in Queues /\ Walk(b, k)[1] = b
         /\ \A k, j \in 0 .. LastWalk : k # j => Walk(b, k) # Walk(b, j)
         /\ \A q \in Queues : q[1] = b => \E k \in 0 .. LastWalk : q = Walk(b, k)
<1>0. LastWalk \in Nat /\ MAX_PRICE_LEVELS \in Nat /\ LastWalk = 2 * MAX_PRICE_LEVELS - 1
  BY BookAssumption DEF LastWalk
<1>1. ASSUME NEW k \in 0 .. LastWalk
      PROVE  /\ k % 2 \in {0, 1} /\ k \div 2 \in Prices /\ k = 2 * (k \div 2) + (k % 2)
  <2> DEFINE d == k \div 2
             m == k % 2
  <2>1. k \in Nat /\ k <= 2 * MAX_PRICE_LEVELS - 1
    BY <1>0
  <2>2. m \in {0, 1} /\ d \in Nat /\ k = 2 * d + m
    BY <2>1, Halves
  <2>3. d <= MAX_PRICE_LEVELS - 1
    <3> HIDE DEF d, m
    <3> QED
      BY <1>0, <2>1, <2>2
  <2> QED
    BY <1>0, <2>2, <2>3 DEF Prices
<1>2. ASSUME NEW k \in 0 .. LastWalk PROVE Walk(b, k) \in Queues /\ Walk(b, k)[1] = b
  <2>1. /\ (IF k % 2 = 0 THEN "bid" ELSE "ask") \in Sides
        /\ k \div 2 \in Prices
    BY <1>1 DEF Sides
  <2> QED
    BY <2>1 DEF Walk, Queues
<1>3. ASSUME NEW k \in 0 .. LastWalk, NEW j \in 0 .. LastWalk, Walk(b, k) = Walk(b, j) PROVE k = j
  <2>1. (IF k % 2 = 0 THEN "bid" ELSE "ask") = (IF j % 2 = 0 THEN "bid" ELSE "ask") /\ k \div 2 = j \div 2
    BY <1>3 DEF Walk
  <2>2. k % 2 = j % 2
    BY <1>1, <2>1
  <2> QED
    BY <1>1, <2>1, <2>2
<1>4. ASSUME NEW q \in Queues, q[1] = b PROVE \E k \in 0 .. LastWalk : q = Walk(b, k)
  <2> DEFINE r == IF q[2] = "bid" THEN 0 ELSE 1
             k == 2 * q[3] + r
  <2>1. q = <<b, q[2], q[3]>> /\ q[2] \in {"bid", "ask"} /\ q[3] \in 0 .. MAX_PRICE_LEVELS - 1
    BY <1>4, QueueParts DEF Sides, Prices
  <2>2. /\ k \in 0 .. LastWalk
        /\ k \div 2 = q[3]
        /\ k % 2 = r
    <3>1. r \in {0, 1} /\ q[3] \in Nat
      BY <1>0, <2>1
    <3> HIDE DEF r
    <3> QED
      BY <1>0, <2>1, <3>1, HalvesOf
  <2>3. Walk(b, k) = q
    <3> HIDE DEF k
    <3> QED
      BY <2>1, <2>2 DEF Walk
  <2> QED
    BY <2>2, <2>3
<1> QED
  BY <1>2, <1>3, <1>4

(* M differs from L only in the fields of orders that at puts nowhere.      *)
SameOn(L, M, at, age, age2) ==
  /\ M.head = L.head /\ M.tail = L.tail
  /\ \A m \in Orders : at[m] # NULL =>
       M.prev[m] = L.prev[m] /\ M.next[m] = L.next[m] /\ age2[m] = age[m]

LEMMA SameQueues ==
  ASSUME NEW L \in Links(Orders, Queues), NEW M \in Links(Orders, Queues),
         NEW at \in [Orders -> Queues \cup {NULL}], NEW age, NEW age2,
         Chained(L, Orders, Queues, at, age), SameOn(L, M, at, age, age2)
  PROVE  Chained(M, Orders, Queues, at, age2)
  BY NullApart, ChainedSame DEF SameOn

(* An order leaves the queues whatever its own fields become. *)
LEMMA QueueWithout ==
  ASSUME NEW V \in Links(Orders, Queues), NEW W \in Links(Orders, Queues),
         NEW at \in [Orders -> Queues \cup {NULL}], NEW age \in [Orders -> Nat], NEW age2,
         Chained(Mirror(V), Orders, Queues, at, age),
         NEW n \in Orders, NEW q \in Queues, at[n] = q,
         NEW at2, at2 = [at EXCEPT ![n] = NULL],
         SameOn(Unlink(V, n, q), W, at2, age, age2)
  PROVE  Chained(Mirror(W), Orders, Queues, at2, age2)
<1> DEFINE L == Unlink(Mirror(V), n, q)
<1>1. Mirror(V) \in Links(Orders, Queues) /\ L \in Links(Orders, Queues) /\ Mirror(W) \in Links(Orders, Queues)
  BY LinksType
<1>2. Chained(L, Orders, Queues, at2, age)
  BY <1>1, NullApart, UnlinkChained
<1>3. L = Mirror(Unlink(V, n, q))
  BY MirrorFacts
<1>4. SameOn(L, Mirror(W), at2, age, age2)
  BY <1>3 DEF SameOn, Mirror
<1>5. at2 \in [Orders -> Queues \cup {NULL}]
  OBVIOUS
<1> QED
  BY <1>1, <1>2, <1>4, <1>5, SameQueues, Zenon

(* clear() sees a queue it is about to walk as it is. *)
LEMMA WalkStarts ==
  ASSUME links' \in Links(Orders, Queues), NEW at, NEW age,
         Chained(Mirror(links'), Orders, Queues, at, age),
         NEW q \in Queues, call'.op = "clear", call'.queue = q, call'.idx = links'.head[q]
  PROVE  View' = links'
<1> DEFINE L == links'
           h == L.head[q]
<1>1. EndsLinked(Mirror(L), at, q)
  BY DEF Chained
<1>2. /\ h = NULL => L.tail[q] = NULL
      /\ h # NULL => h \in Orders /\ L.prev[h] = NULL
  BY <1>1 DEF EndsLinked, Mirror, Links
<1>3. /\ [L.head EXCEPT ![q] = h] = L.head
      /\ h = NULL => [L.tail EXCEPT ![q] = NULL] = L.tail
      /\ h # NULL => [L.prev EXCEPT ![h] = NULL] = L.prev
      /\ L = [head |-> L.head, tail |-> L.tail, prev |-> L.prev, next |-> L.next]
  BY <1>2 DEF Links
<1>4. View' = [head |-> [L.head EXCEPT ![q] = h],
               tail |-> IF h = NULL THEN [L.tail EXCEPT ![q] = NULL] ELSE L.tail,
               prev |-> IF h = NULL THEN L.prev ELSE [L.prev EXCEPT ![h] = NULL],
               next |-> L.next]
  BY DEF View
<1> HIDE DEF L, h
<1> QED
  BY <1>3, <1>4 DEF L

LEMMA ClearBeginIInv ==
  ASSUME IInv, NEW b \in Books, ClearBegin(b)
  PROVE  IInv'
<1> DEFINE q == Walk(b, 0)
<1>1. /\ UNCHANGED <<pool_vars, order_vars, level_vars, adds>> /\ call = NoCall /\ call.op # "clear"
      /\ call' = [op |-> "clear", queue |-> q, want |-> 0, idx |-> links.head[q]]
  BY DEF ClearBegin, Idle, NoCall
<1>2. LastWalk \in Nat /\ q \in Queues /\ q[1] = b
  BY WalkQueues, BookAssumption DEF LastWalk
<1>3. links \in Links(Orders, Queues) /\ links' = links /\ Where' = Where /\ born' = born
  BY <1>1 DEF IInv, TypeOK, Where, pool_vars, order_vars
<1>4. call' \in CallType
  <2> HIDE DEF q
  <2>1. links.head[q] \in Orders \cup {NULL}
    BY <1>2, <1>3 DEF Links
  <2> QED
    BY <1>1, <1>2, <2>1 DEF CallType
<1>5. CallOK'
  <2>1. links.head[q] # NULL => Where[links.head[q]] = q
    BY <1>1, <1>2, QueueEnds DEF IInv
  <2>2. /\ call'.op = "clear" /\ call'.queue = q /\ call'.want = 0 /\ call'.idx = links.head[q]
    BY <1>1
  <2>3. 0 \in 0 .. LastWalk /\ 0 .. 0 - 1 = {}
    BY <1>2
  <2> QED
    BY <1>2, <1>3, <2>1, <2>2, <2>3 DEF CallOK
<1>6. QueuesChained'
  <2>1. Chained(Mirror(links'), Orders, Queues, Where, born)
    BY <1>1, <1>3 DEF IInv, QueuesChained, View
  <2>2. links' \in Links(Orders, Queues)
    BY <1>3
  <2>3. call'.op = "clear" /\ call'.queue = q /\ call'.idx = links'.head[q]
    BY <1>1, <1>3
  <2> HIDE DEF q
  <2>4. View' = links'
    BY <1>2, <2>1, <2>2, <2>3, WalkStarts
  <2> QED
    BY <1>3, <2>1, <2>4 DEF QueuesChained
<1> QED
  BY <1>1, <1>4, <1>5, <1>6, CallIInv

(* clear() frees active orders only. *)
LEMMA ClearsActive ==
  ASSUME IInv, NEW n \in Orders, ClearOrder(n)
  PROVE  active[n]
<1>1. /\ call.op = "clear" /\ call.idx = n /\ n # NULL /\ CallOK
      /\ \A q \in Queues : q # NULL
  BY NullApart DEF IInv, ClearOrder
<1>2. call.queue = Walk(call.queue[1], call.want) /\ call.queue[1] \in Books /\ call.want \in 0 .. LastWalk
      /\ Where[n] = call.queue
  BY <1>1 DEF CallOK, NoCall
<1>3. Where[n] # NULL
  BY <1>1, <1>2, WalkQueues
<1> QED BY <1>3 DEF Where

LEMMA ClearOrderIInv ==
  ASSUME IInv, NEW n \in Orders, ClearOrder(n)
  PROVE  IInv' /\ Where[n] = call.queue
<1> DEFINE q == call.queue
           x == links.next[n]
<1>0. /\ TypeOK /\ OwnersKnown /\ BornPast /\ PoolConserved /\ CallOK /\ QueuesChained /\ BestNotBehind
      /\ call.op = "clear" /\ call.idx = n
  BY DEF IInv, ClearOrder
<1>1. /\ active' = [active EXCEPT ![n] = FALSE]
      /\ links' = PushFree(links, n, free_head)
      /\ free_head' = n
      /\ active_count' = active_count - 1
      /\ depth' = [depth EXCEPT ![n] = MAX_ORDERS - active_count]
      /\ qty' = [qty EXCEPT ![n] = 0] /\ price' = [price EXCEPT ![n] = 0]
      /\ side' = [side EXCEPT ![n] = "ask"] /\ owner' = [owner EXCEPT ![n] = NULL]
      /\ born' = [born EXCEPT ![n] = 0]
      /\ call' = [call EXCEPT !.idx = links.next[n]]
      /\ level_qty' = level_qty /\ bit' = bit /\ best' = best /\ adds' = adds
  BY ClearsActive DEF ClearOrder, Free, level_vars
<1>2. /\ q[1] \in Books /\ call.want \in 0 .. LastWalk /\ q = Walk(q[1], call.want)
      /\ q \in Queues /\ Where[n] = q
      /\ \A k \in 0 .. call.want - 1 : links.head[Walk(q[1], k)] = NULL
  <2>1. /\ q[1] \in Books /\ call.want \in 0 .. LastWalk /\ q = Walk(q[1], call.want)
        /\ Where[n] = q
        /\ \A k \in 0 .. call.want - 1 : links.head[Walk(q[1], k)] = NULL
    BY <1>0, NullApart DEF CallOK, NoCall
  <2>2. q \in Queues
    BY <2>1, WalkQueues
  <2> QED
    BY <2>1, <2>2
<1>3. /\ links \in Links(Orders, Queues) /\ born \in [Orders -> Nat]
      /\ Where \in [Orders -> Queues \cup {NULL}]
      /\ free_head \in Orders \cup {NULL} /\ active[n] /\ x \in Orders \cup {NULL} /\ n # NULL
  <2>1. born \in [Orders -> Nat]
    BY <1>0, BookAssumption DEF TypeOK
  <2>2. links \in Links(Orders, Queues) /\ free_head \in Orders \cup {NULL}
    BY <1>0 DEF TypeOK
  <2>3. x \in Orders \cup {NULL}
    BY <2>2 DEF Links
  <2>4. Where[n] # NULL /\ n # NULL
    BY <1>2, NullApart
  <2> QED
    BY <1>0, <2>1, <2>2, <2>3, <2>4, WhereType, WhereActive
<1>4. /\ links' \in Links(Orders, Queues)
      /\ links'.head = links.head /\ links'.tail = links.tail /\ links'.next[n] = free_head
      /\ \A m \in Orders : m # n => links'.next[m] = links.next[m] /\ links'.prev[m] = links.prev[m]
  <2>0. links \in Links(Orders, Queues) /\ free_head \in Orders \cup {NULL}
    BY <1>3
  <2>1. ASSUME NEW m \in Orders, m # n
        PROVE  /\ PushFree(links, n, free_head).next[m] = links.next[m]
               /\ PushFree(links, n, free_head).prev[m] = links.prev[m]
    BY <2>0, <2>1, FreedKeeps, Zenon
  <2>2. /\ PushFree(links, n, free_head) \in Links(Orders, Queues)
        /\ PushFree(links, n, free_head).head = links.head
        /\ PushFree(links, n, free_head).tail = links.tail
        /\ PushFree(links, n, free_head).next[n] = free_head
    BY <1>3, FreedLinks
  <2> QED
    BY <1>1, <2>1, <2>2, Zenon
<1>5. /\ qty' \in [Orders -> 0 .. U32 - 1] /\ price' \in [Orders -> Prices]
      /\ side' \in [Orders -> Sides] /\ owner' \in [Orders -> Books \cup {NULL}]
      /\ born' \in [Orders -> 0 .. MaxAdds]
      /\ OwnersKnown' /\ BornPast'
      /\ Where' = [Where EXCEPT ![n] = NULL]
  BY <1>0, <1>1, Forgotten
<1>6. /\ PoolConserved'
      /\ active' \in [Orders -> BOOLEAN] /\ active_count' \in 0 .. MAX_ORDERS
      /\ free_head' \in Orders \cup {NULL} /\ depth' \in [Orders -> 0 .. MAX_ORDERS - 1]
  <2>1. \A m \in Orders : ~active[m] => links'.next[m] = links.next[m]
    BY <1>3, <1>4
  <2> QED
    BY <1>0, <1>1, <1>3, <1>4, <2>1, FreePool
<1>7. call' \in CallType /\ call'.op = "clear" /\ call'.queue = q /\ call'.want = call.want /\ call'.idx = x
  <2>1. call \in CallType
    BY <1>0 DEF TypeOK, CallType
  <2> QED
    BY <1>0, <1>1, <1>3, <2>1 DEF CallType
<1>8. View \in Links(Orders, Queues) /\ Chained(Mirror(View), Orders, Queues, Where, born)
      /\ View = [head |-> [links.head EXCEPT ![q] = n], tail |-> links.tail,
                 prev |-> [links.prev EXCEPT ![n] = NULL], next |-> links.next]
  <2>1. View = [head |-> [links.head EXCEPT ![q] = n], tail |-> links.tail,
                prev |-> [links.prev EXCEPT ![n] = NULL], next |-> links.next]
    BY <1>0, <1>3 DEF View
  <2>2. View \in Links(Orders, Queues)
    BY <1>2, <1>3, <2>1 DEF Links
  <2> QED
    BY <1>0, <2>1, <2>2 DEF QueuesChained
<1>9. x # NULL => Where[x] = q /\ x # n
  <2>1. ElementLinked(Mirror(View), Where, born, n)
    BY <1>2, <1>8, NullApart DEF Chained
  <2>2. Mirror(View).prev[n] = x
    BY <1>8 DEF Mirror
  <2>3. x # NULL => Where[x] = q /\ born[x] > born[n]
    BY <1>2, <2>1, <2>2 DEF ElementLinked
  <2> QED
    BY <1>3, <2>3
<1>10. CallOK'
  <2>1. x # NULL => Where'[x] = q
    BY <1>3, <1>5, <1>9
  <2>2. \A k \in 0 .. call.want - 1 : links'.head[Walk(q[1], k)] = NULL
    BY <1>2, <1>4
  <2> HIDE DEF q, x
  <2> QED
    BY <1>2, <1>7, <2>1, <2>2 DEF CallOK
<1>11. QueuesChained'
  <2> DEFINE U == Unlink(View, n, q)
             W == View'
  <2>1. /\ U.head = [links.head EXCEPT ![q] = x]
        /\ U.tail = IF x = NULL THEN [links.tail EXCEPT ![q] = NULL] ELSE links.tail
        /\ U.next = links.next
        /\ U.prev = IF x = NULL THEN [links.prev EXCEPT ![n] = NULL]
                    ELSE [links.prev EXCEPT ![n] = NULL, ![x] = NULL]
    <3>1. View.prev[n] = NULL /\ View.next[n] = x
      BY <1>3, <1>8 DEF Links
    <3>2. [[links.head EXCEPT ![q] = n] EXCEPT ![q] = x] = [links.head EXCEPT ![q] = x]
      BY <1>2, <1>3 DEF Links
    <3> HIDE DEF x, q
    <3> QED
      BY <1>8, <3>1, <3>2 DEF Unlink
  <2>2. W = [head |-> [links.head EXCEPT ![q] = x],
             tail |-> IF x = NULL THEN [links.tail EXCEPT ![q] = NULL] ELSE links.tail,
             prev |-> IF x = NULL THEN links'.prev ELSE [links'.prev EXCEPT ![x] = NULL],
             next |-> links'.next]
    <3> HIDE DEF x, q
    <3> QED
      BY <1>4, <1>7 DEF View
  <2>3. W \in Links(Orders, Queues)
    <3> HIDE DEF x, q, W
    <3> QED
      BY <1>2, <1>3, <1>4, <2>2 DEF Links
  <2>4. ASSUME NEW m \in Orders, m # n
        PROVE  W.next[m] = U.next[m] /\ W.prev[m] = U.prev[m] /\ born'[m] = born[m]
    <3>1. links'.next[m] = links.next[m] /\ links'.prev[m] = links.prev[m]
      BY <1>4, <2>4
    <3>2. born'[m] = born[m]
      BY <1>1, <1>3, <2>4
    <3>3. links'.prev \in [Orders -> Orders \cup {NULL}] /\ links.prev \in [Orders -> Orders \cup {NULL}]
      BY <1>3, <1>4 DEF Links
    <3> HIDE DEF x, q, U, W
    <3> QED
      BY <2>1, <2>2, <2>4, <3>1, <3>2, <3>3
  <2>5. W.head = U.head /\ W.tail = U.tail
    <3> HIDE DEF x, q, U, W
    <3> QED
      BY <2>1, <2>2
  <2>6. Chained(Mirror(W), Orders, Queues, Where', born')
    <3>1. SameOn(U, W, Where', born, born')
      <4>1. \A m \in Orders : Where'[m] # NULL => m # n
        BY <1>3, <1>5
      <4> HIDE DEF U, W
      <4> QED
        BY <2>4, <2>5, <4>1 DEF SameOn
    <3> DEFINE age == born'
               at2 == Where'
    <3>2. SameOn(Unlink(View, n, q), W, at2, born, age) /\ at2 = [Where EXCEPT ![n] = NULL]
      BY <1>5, <3>1
    <3> HIDE DEF age, W, q, at2
    <3>3. Chained(Mirror(W), Orders, Queues, at2, age)
      BY <1>2, <1>3, <1>8, <2>3, <3>2, QueueWithout
    <3> QED
      BY <3>3 DEF age, at2
  <2> QED
    BY <2>6 DEF QueuesChained
<1>12. TypeOK' /\ BestNotBehind'
  BY <1>0, <1>1, <1>4, <1>5, <1>6, <1>7 DEF TypeOK, CallType, BestNotBehind
<1> QED
  BY <1>2, <1>5, <1>6, <1>10, <1>11, <1>12 DEF IInv

(* Resetting the ends of a queue that has been walked. *)
LEMMA ResetLinks ==
  ASSUME IInv, call.op = "clear", call.idx = NULL, ResetQueue(call.queue)
  PROVE  /\ call.queue \in Queues /\ call.queue[1] \in Books
         /\ links' \in Links(Orders, Queues) /\ links' = View
         /\ links'.head = [links.head EXCEPT ![call.queue] = NULL]
         /\ level_qty' \in [Queues -> 0 .. U32 - 1]
         /\ \A k \in 0 .. call.want : links'.head[Walk(call.queue[1], k)] = NULL
         /\ \A n \in Orders : links'.next[n] = links.next[n]
<1> DEFINE q == call.queue
           b == q[1]
<1>1. /\ b \in Books /\ call.want \in 0 .. LastWalk /\ q = Walk(b, call.want)
      /\ \A k \in 0 .. call.want - 1 : links.head[Walk(b, k)] = NULL
  BY DEF IInv, CallOK, NoCall
<1>2. q \in Queues
  BY <1>1, WalkQueues
<1>3. links \in Links(Orders, Queues) /\ level_qty \in [Queues -> 0 .. U32 - 1] /\ 0 \in 0 .. U32 - 1
  BY BookAssumption DEF IInv, TypeOK
<1>4. /\ links' = [links EXCEPT !.head = [@ EXCEPT ![q] = NULL], !.tail = [@ EXCEPT ![q] = NULL]]
      /\ level_qty' = [level_qty EXCEPT ![q] = 0]
  BY DEF ResetQueue
<1>5. /\ links' = [head |-> [links.head EXCEPT ![q] = NULL], tail |-> [links.tail EXCEPT ![q] = NULL],
                   prev |-> links.prev, next |-> links.next]
  BY <1>3, <1>4 DEF Links
<1>6. View = [head |-> [links.head EXCEPT ![q] = NULL], tail |-> [links.tail EXCEPT ![q] = NULL],
              prev |-> links.prev, next |-> links.next]
  BY DEF View
<1>7. links' \in Links(Orders, Queues) /\ level_qty' \in [Queues -> 0 .. U32 - 1]
  <2> HIDE DEF q
  <2> QED
    BY <1>2, <1>3, <1>4, <1>5 DEF Links
<1>8. ASSUME NEW k \in 0 .. call.want PROVE links'.head[Walk(b, k)] = NULL
  <2>1. LastWalk \in Nat
    BY BookAssumption DEF LastWalk
  <2>2. k \in 0 .. LastWalk
    BY <1>1, <2>1
  <2>3. Walk(b, k) \in Queues
    BY <1>1, <2>2, WalkQueues
  <2>4. links.head \in [Queues -> Orders \cup {NULL}]
    BY <1>3 DEF Links
  <2>5. CASE k = call.want
    <3> HIDE DEF q, b
    <3> QED
      BY <1>1, <1>2, <1>5, <2>3, <2>4, <2>5
  <2>6. CASE k # call.want
    <3>1. k \in 0 .. call.want - 1
      BY <1>1, <2>1, <2>6
    <3>2. links.head[Walk(b, k)] = NULL
      BY <1>1, <3>1
    <3> HIDE DEF q, b
    <3> QED
      BY <1>2, <1>5, <2>3, <2>4, <3>2
  <2> QED
    BY <2>5, <2>6
<1> QED
  BY <1>1, <1>2, <1>5, <1>6, <1>7, <1>8

LEMMA ClearQueueIInv ==
  ASSUME IInv, ClearQueue
  PROVE  IInv'
<1> DEFINE q == call.queue
           b == q[1]
           k == call.want + 1
           r == Walk(b, k)
<1>0. /\ TypeOK /\ OwnersKnown /\ BornPast /\ PoolConserved /\ CallOK /\ QueuesChained /\ BestNotBehind
      /\ call.op = "clear" /\ call.idx = NULL /\ call.want < LastWalk
      /\ ResetQueue(call.queue)
      /\ call' = [call EXCEPT !.queue = r, !.want = k, !.idx = links.head[r]]
      /\ UNCHANGED <<active, free_head, active_count, depth, order_vars, bit, best, adds>>
  BY DEF IInv, ClearQueue
<1>1. /\ q \in Queues /\ b \in Books
      /\ links' \in Links(Orders, Queues) /\ links' = View
      /\ links'.head = [links.head EXCEPT ![q] = NULL]
      /\ level_qty' \in [Queues -> 0 .. U32 - 1]
      /\ \A j \in 0 .. call.want : links'.head[Walk(b, j)] = NULL
      /\ \A n \in Orders : links'.next[n] = links.next[n]
  BY <1>0, ResetLinks
<1>2. /\ call.want \in 0 .. LastWalk /\ k \in 0 .. LastWalk /\ k \in Nat
      /\ 0 .. k - 1 = 0 .. call.want
      /\ r \in Queues /\ r[1] = b /\ r # q
  <2>1. call.want \in 0 .. LastWalk /\ q = Walk(b, call.want)
    BY <1>0 DEF CallOK, NoCall
  <2>2. LastWalk \in Nat
    BY BookAssumption DEF LastWalk
  <2>3. k \in 0 .. LastWalk /\ k \in Nat /\ k # call.want /\ 0 .. k - 1 = 0 .. call.want
    BY <1>0, <2>1, <2>2
  <2> HIDE DEF k, q, b
  <2>4. r \in Queues /\ r[1] = b /\ r # q
    BY <1>1, <2>1, <2>3, WalkQueues
  <2> QED
    BY <2>1, <2>3, <2>4
<1>3. links.head[r] = links'.head[r] /\ links.head[r] \in Orders \cup {NULL}
  <2>1. links.head \in [Queues -> Orders \cup {NULL}]
    BY <1>0 DEF TypeOK, Links
  <2> HIDE DEF r, q
  <2> QED
    BY <1>1, <1>2, <2>1
<1>4. /\ call' \in CallType /\ call'.op = "clear" /\ call'.queue = r /\ call'.want = k
      /\ call'.idx = links'.head[r]
  <2>1. call \in CallType
    BY <1>0 DEF TypeOK, CallType
  <2> HIDE DEF r, k
  <2> QED
    BY <1>0, <1>2, <1>3, <2>1 DEF CallType
<1>5. Where' = Where /\ born' = born
  BY <1>0 DEF Where, order_vars
<1>6. Chained(Mirror(links'), Orders, Queues, Where, born)
  BY <1>0, <1>1 DEF QueuesChained
<1>7. QueuesChained'
  <2> HIDE DEF r
  <2>1. View' = links'
    BY <1>1, <1>2, <1>4, <1>6, WalkStarts
  <2> QED
    BY <1>5, <1>6, <2>1 DEF QueuesChained
<1>8. CallOK'
  <2>1. EndsLinked(Mirror(links'), Where, r)
    BY <1>2, <1>6 DEF Chained
  <2>2. links'.head[r] # NULL => Where'[links'.head[r]] = r
    BY <1>5, <2>1 DEF EndsLinked, Mirror
  <2>3. \A j \in 0 .. call'.want - 1 : links'.head[Walk(call'.queue[1], j)] = NULL
    <3> HIDE DEF r, k, q, b
    <3> QED
      BY <1>1, <1>2, <1>4
  <2>4. call'.queue[1] \in Books /\ call'.want \in 0 .. LastWalk /\ call'.queue = Walk(call'.queue[1], call'.want)
    <3>1. r = Walk(b, k)
      OBVIOUS
    <3> HIDE DEF r, k, q, b
    <3> QED
      BY <1>1, <1>2, <1>4, <3>1
  <2> HIDE DEF r, k, q, b
  <2> QED
    BY <1>4, <2>2, <2>3, <2>4 DEF CallOK
<1>9. TypeOK' /\ OwnersKnown' /\ BornPast' /\ BestNotBehind'
  <2>1. TypeOK'
    BY <1>0, <1>1, <1>4 DEF TypeOK, CallType, order_vars
  <2> QED
    BY <1>0, <2>1 DEF OwnersKnown, BornPast, BestNotBehind, order_vars
<1>10. PoolConserved'
  BY <1>0, <1>1 DEF PoolConserved, FreeOrders, FreeAt
<1> QED
  BY <1>7, <1>8, <1>9, <1>10 DEF IInv

LEMMA ClearEndIInv ==
  ASSUME IInv, ClearEnd
  PROVE  IInv'
<1> DEFINE b == call.queue[1]
<1>0. /\ TypeOK /\ OwnersKnown /\ BornPast /\ PoolConserved /\ CallOK /\ QueuesChained /\ BestNotBehind
      /\ call.op = "clear" /\ call.idx = NULL
      /\ ResetQueue(call.queue)
      /\ bit' = [q \in Queues |-> IF q[1] = b THEN 0 ELSE bit[q]]
      /\ best' = [bs \in Books \X Sides |-> IF bs[1] = b THEN NoBest(bs[2]) ELSE best[bs]]
      /\ call' = NoCall
      /\ UNCHANGED <<active, free_head, active_count, depth, order_vars, adds>>
  BY DEF IInv, ClearEnd
<1>1. /\ links' \in Links(Orders, Queues) /\ links' = View
      /\ level_qty' \in [Queues -> 0 .. U32 - 1]
      /\ \A n \in Orders : links'.next[n] = links.next[n]
  BY <1>0, ResetLinks
<1>2. call' \in CallType /\ CallOK'
  BY <1>0 DEF CallType, CallOK, NoCall
<1>3. Where' = Where /\ born' = born /\ View' = links'
  BY <1>0 DEF Where, View, NoCall, order_vars
<1>4. QueuesChained'
  BY <1>0, <1>1, <1>3 DEF QueuesChained
<1>5. bit' \in [Queues -> Int] /\ best' \in [Books \X Sides -> Prices \cup {INVALID_PRICE}]
  <2>1. \A s \in Sides : NoBest(s) \in Prices \cup {INVALID_PRICE}
    BY BookAssumption DEF NoBest, Prices
  <2>2. bit \in [Queues -> Int] /\ best \in [Books \X Sides -> Prices \cup {INVALID_PRICE}]
    BY <1>0 DEF TypeOK
  <2>3. \A bs \in Books \X Sides : bs[2] \in Sides
    OBVIOUS
  <2> HIDE DEF b
  <2> QED
    BY <1>0, <2>1, <2>2, <2>3
<1>6. BestNotBehind'
  <2> SUFFICES ASSUME NEW q \in Queues, bit'[q] > 0
               PROVE  ~Better(q[2], q[3], best'[<<q[1], q[2]>>])
    BY DEF BestNotBehind
  <2>1. q[1] # b /\ bit'[q] = bit[q]
    <3> HIDE DEF b
    <3> QED
      BY <1>0
  <2>2. best'[<<q[1], q[2]>>] = best[<<q[1], q[2]>>]
    <3>1. <<q[1], q[2]>> \in Books \X Sides
      BY QueueParts
    <3> HIDE DEF b
    <3> QED
      BY <1>0, <2>1, <3>1
  <2> QED
    BY <1>0, <2>1, <2>2 DEF BestNotBehind
<1>7. TypeOK'
  BY <1>0, <1>1, <1>2, <1>5 DEF TypeOK, CallType, order_vars
<1>8. OwnersKnown' /\ BornPast' /\ PoolConserved'
  BY <1>0, <1>1 DEF OwnersKnown, BornPast, PoolConserved, FreeOrders, FreeAt, order_vars
<1> QED
  BY <1>2, <1>4, <1>6, <1>7, <1>8 DEF IInv

-----------------------------------------------------------------------------
(* The invariants *)

LEMMA NextIInv == IInv /\ [Next]_vars => IInv'
<1> SUFFICES ASSUME IInv, [Next]_vars PROVE IInv'
  OBVIOUS
<1>1. CASE UNCHANGED vars
  <2>1. /\ TypeOK' /\ OwnersKnown' /\ BornPast' /\ BestNotBehind'
    BY <1>1 DEF IInv, TypeOK, OwnersKnown, BornPast, BestNotBehind, vars, pool_vars, order_vars, level_vars
  <2>2. PoolConserved'
    BY <1>1 DEF IInv, PoolConserved, FreeOrders, FreeAt, vars, pool_vars
  <2>3. Where' = Where /\ View' = View /\ born' = born /\ call' = call /\ links' = links
    BY <1>1 DEF Where, View, vars, pool_vars, order_vars
  <2>4. CallOK' /\ QueuesChained'
    BY <2>3 DEF IInv, CallOK, QueuesChained
  <2> QED
    BY <2>1, <2>2, <2>4 DEF IInv
<1>2. ASSUME NEW p \in PriceInputs, EnqueueRejected(p) \/ TradeRejected(p) PROVE IInv'
  BY <1>1, <1>2 DEF EnqueueRejected, TradeRejected
<1>3. ASSUME NEW b \in Books, NEW s \in Sides, NEW p \in PriceInputs, NEW x \in Quantities,
             Enqueue(b, s, p, x) \/ TradeBegin(b, s, p, x)
      PROVE  IInv'
  BY <1>3, EnqueueIInv, TradeBeginIInv
<1>4. CASE DequeueIgnored
  BY <1>1, <1>4 DEF DequeueIgnored
<1>5. ASSUME NEW b \in Books, ClearBegin(b) \/ \E n \in Orders : Dequeue(b, n) PROVE IInv'
  BY <1>5, ClearBeginIInv, DequeueIInv
<1>6. ASSUME NEW n \in Orders, FillWhole(n) \/ FillPart(n) \/ ClearOrder(n) PROVE IInv'
  BY <1>6, FillWholeIInv, FillPartIInv, ClearOrderIInv
<1>7. CASE TradeEnd \/ ClearQueue \/ ClearEnd
  BY <1>7, TradeEndIInv, ClearQueueIInv, ClearEndIInv
<1> QED
  BY <1>1, <1>2, <1>3, <1>4, <1>5, <1>6, <1>7 DEF Next

(* The inductive invariant holds in every reachable state. *)
THEOREM Invariance == Spec => []IInv
<1>1. Init => IInv
  BY InitIInv
<1>2. IInv /\ [Next]_vars => IInv'
  BY NextIInv
<1> QED
  BY <1>1, <1>2, PTL DEF Spec

(* The state keeps its types. *)
THEOREM TypeCorrect == Spec => []TypeOK
<1>1. IInv => TypeOK
  BY DEF IInv
<1> QED
  BY <1>1, Invariance, PTL

(* No sequence of adds, removals, trades and clears, of any books, loses an  *)
(* order of the pool or leaves one on the free list and in a queue.          *)
THEOREM PoolAlwaysConserved == Spec => []PoolConserved
<1>1. IInv => PoolConserved
  BY DEF IInv
<1> QED
  BY <1>1, Invariance, PTL

(* The queues hold exactly the active orders of their book, side and price,  *)
(* oldest first, in the middle of clear() too.                               *)
THEOREM QueuesAlwaysChained == Spec => []QueuesChained
<1>1. IInv => QueuesChained
  BY DEF IInv
<1> QED
  BY <1>1, Invariance, PTL

(* The reported best prices are never behind a level that has volume.        *)
THEOREM BestNeverBehind == Spec => []BestNotBehind
<1>1. IInv => BestNotBehind
  BY DEF IInv
<1> QED
  BY <1>1, Invariance, PTL

-----------------------------------------------------------------------------
(***************************************************************************)
(* The books implement the abstract price-time priority of PriceTimeSpec.  *)
(***************************************************************************)

(* The abstract variables, by names of their own. *)
resting_ == [n \in Orders |-> IF Live(n) THEN Where[n] ELSE NULL]
left_    == [n \in Orders |-> IF Live(n) THEN qty[n] ELSE 0]
born_    == [n \in Orders |-> IF Live(n) THEN born[n] ELSE 0]
trade_   == IF call.op = "trade"
              THEN [queue |-> call.queue, want |-> call.want]
              ELSE [queue |-> NULL, want |-> 0]

(* Outside clear() every active order counts. *)
LEMMA LiveActive ==
  ASSUME IInv, call.op # "clear", NEW n \in Orders
  PROVE  /\ resting_[n] = Where[n]
         /\ left_[n] = IF active[n] THEN qty[n] ELSE 0
         /\ born_[n] = IF active[n] THEN born[n] ELSE 0
<1>1. Live(n) <=> active[n]
  BY DEF Live, Clearing
<1>2. ~active[n] => Where[n] = NULL
  BY DEF Where
<1> QED
  BY <1>1, <1>2 DEF resting_, left_, born_

(* The head of a queue is the order that has rested there longest. *)
LEMMA HeadIsFirst ==
  ASSUME IInv, call.op # "clear", NEW q \in Queues, NEW n \in Orders, links.head[q] = n
  PROVE  /\ Where[n] = q /\ active[n] /\ Abstract!First(n, q)
<1>1. n # NULL /\ q # NULL
  BY NullApart
<1>2. Where[n] = q /\ active[n]
  BY <1>1, QueueEnds, WhereActive DEF IInv
<1>3. /\ links \in Links(Orders, Queues) /\ Mirror(links) \in Links(Orders, Queues)
      /\ born \in [Orders -> Nat]
      /\ Chained(Mirror(links), Orders, Queues, Where, born)
  <2>1. links \in Links(Orders, Queues) /\ born \in [Orders -> Nat]
    BY BookAssumption DEF IInv, TypeOK
  <2>2. View = links
    BY DEF View
  <2> QED
    BY <2>1, <2>2, LinksType DEF IInv, QueuesChained
<1>4. Mirror(links).tail[q] = n
  BY DEF Mirror
<1>5. \A m \in Orders : Where[m] = q /\ m # n => born[n] < born[m]
  <2> DEFINE M == Mirror(links)
             at == Where
  <2>1. /\ M \in Links(Orders, Queues) /\ Chained(M, Orders, Queues, at, born)
        /\ at[n] = q /\ M.tail[q] = n
    BY <1>2, <1>3, <1>4
  <2> HIDE DEF M, at
  <2>2. \A m \in Orders : at[m] = q /\ m # M.tail[q] => born[M.tail[q]] < born[m]
    BY <1>3, <2>1, NullApart, TailIsOldest
  <2> QED
    BY <2>1, <2>2 DEF at
<1>6. ASSUME NEW m \in Orders, resting_[m] = q PROVE born_[n] <= born_[m]
  <2>1. Where[m] = q /\ active[m] /\ born[m] \in Nat /\ born[n] \in Nat
    BY <1>1, <1>3, <1>6, LiveActive, WhereActive DEF IInv
  <2>2. born_[m] = born[m] /\ born_[n] = born[n]
    BY <1>2, <2>1, LiveActive
  <2> QED
    BY <1>5, <2>1, <2>2
<1>7. resting_[n] = q
  BY <1>2, LiveActive
<1> QED
  BY <1>2, <1>6, <1>7 DEF Abstract!First, resting_, born_

(* A queue without a head has no live order. *)
LEMMA EmptyQueue ==
  ASSUME NEW L \in Links(Orders, Queues), IInv, NEW q \in Queues,
         Chained(Mirror(L), Orders, Queues, Where, born), L.head[q] = NULL
  PROVE  \A n \in Orders : Where[n] # q
<1> DEFINE M == Mirror(L)
           at == Where
<1>1. M \in Links(Orders, Queues) /\ born \in [Orders -> Nat]
  <2>1. M \in Links(Orders, Queues)
    BY DEF Links, Mirror
  <2> QED
    BY <2>1, BookAssumption DEF IInv, TypeOK
<1>2. M.head[q] = NULL
  <2>1. EndsLinked(Mirror(L), Where, q)
    BY DEF Chained
  <2> QED
    BY <2>1 DEF EndsLinked, Mirror
<1>3. Chained(M, Orders, Queues, at, born)
  OBVIOUS
<1> HIDE DEF M, at
<1>4. \A n \in Orders : at[n] # q
  BY <1>1, <1>2, <1>3, NullApart, NoHeadNoElement
<1> QED
  BY <1>4 DEF at

LEMMA RefineInit == Init => Abstract!Init
<1> SUFFICES ASSUME Init PROVE Abstract!Init
  OBVIOUS
<1>1. resting_ = [n \in Orders |-> NULL] /\ left_ = [n \in Orders |-> 0] /\ born_ = [n \in Orders |-> 0]
  BY DEF Init, resting_, left_, born_, Live
<1>2. trade_ = [queue |-> NULL, want |-> 0] /\ adds = 0
  BY DEF Init, NoCall, trade_
<1> QED
  BY <1>1, <1>2 DEF Abstract!Init, Abstract!NoTrade, resting_, left_, born_, trade_

LEMMA RefineEnqueue ==
  ASSUME IInv, NEW b \in Books, NEW s \in Sides, NEW p \in PriceInputs, NEW x \in Quantities,
         Enqueue(b, s, p, x)
  PROVE  Abstract!Next
<1> DEFINE q == <<b, s, p>>
<1>1. /\ active' = [active EXCEPT ![free_head] = TRUE]
      /\ qty' = [qty EXCEPT ![free_head] = x] /\ price' = [price EXCEPT ![free_head] = p]
      /\ side' = [side EXCEPT ![free_head] = s] /\ owner' = [owner EXCEPT ![free_head] = b]
      /\ born' = [born EXCEPT ![free_head] = adds + 1] /\ adds' = adds + 1
      /\ call = NoCall /\ call' = NoCall /\ free_head # NULL /\ p < MAX_PRICE_LEVELS
  BY DEF Enqueue, Idle
<1>2. free_head \in Orders /\ ~active[free_head] /\ q \in Queues
  <2>1. p \in Prices
    BY <1>1, BookAssumption DEF Prices
  <2> QED
    BY <1>1, <2>1, ActiveBounds, QueueOf DEF IInv
<1>3. /\ TypeOK /\ call.op # "clear" /\ call'.op # "clear"
      /\ Where \in [Orders -> Queues \cup {NULL}]
  BY <1>1, WhereType DEF IInv, NoCall
<1>4. PICK n \in Orders : n = free_head
  BY <1>2
<1>5. Where' = [Where EXCEPT ![n] = q]
  BY <1>1, <1>2, <1>3, <1>4 DEF Where, TypeOK
<1>6. /\ \A m \in Orders : Live(m) <=> active[m]
      /\ \A m \in Orders : Live(m)' <=> active'[m]
  BY <1>3 DEF Live, Clearing
<1>7. ASSUME NEW m \in Orders, m # n
      PROVE  /\ (Live(m)' <=> Live(m)) /\ Where'[m] = Where[m]
             /\ qty'[m] = qty[m] /\ born'[m] = born[m]
  <2> HIDE DEF q
  <2> QED
    BY <1>1, <1>3, <1>4, <1>5, <1>6, <1>7 DEF TypeOK
<1>8. Live(n)' /\ Where'[n] = q /\ qty'[n] = x /\ born'[n] = adds + 1
  <2> HIDE DEF q
  <2> QED
    BY <1>1, <1>3, <1>4, <1>5, <1>6 DEF TypeOK
<1>9. resting_[n] = NULL
  BY <1>2, <1>4, <1>6 DEF resting_
<1> HIDE DEF q
<1>10. /\ resting_' = [resting_ EXCEPT ![n] = q]
       /\ left_' = [left_ EXCEPT ![n] = x]
       /\ born_' = [born_ EXCEPT ![n] = adds + 1]
  BY <1>7, <1>8 DEF resting_, left_, born_
<1>11. trade_ = [queue |-> NULL, want |-> 0] /\ trade_' = trade_
  BY <1>1 DEF trade_, NoCall
<1>12. Abstract!Add(n, q, x)
  BY <1>1, <1>9, <1>10, <1>11 DEF Abstract!Add, Abstract!NoTrade, resting_, left_, born_, trade_
<1> QED
  BY <1>2, <1>12 DEF Abstract!Next

(* dequeue's body takes one order out of the abstract book. *)
LEMMA RefineRemove ==
  ASSUME IInv, call.op # "clear", call'.op # "clear", NEW b, NEW n \in Orders,
         active[n], Remove(b, n)
  PROVE  Abstract!Remove({n})
<1>1. /\ active' = [active EXCEPT ![n] = FALSE]
      /\ qty' = [qty EXCEPT ![n] = 0] /\ price' = [price EXCEPT ![n] = 0]
      /\ side' = [side EXCEPT ![n] = "ask"] /\ owner' = [owner EXCEPT ![n] = NULL]
      /\ born' = [born EXCEPT ![n] = 0]
  BY DEF Remove, Free
<1>2. TypeOK
  BY DEF IInv
<1>3. /\ \A m \in Orders : Live(m) <=> active[m]
      /\ \A m \in Orders : Live(m)' <=> active'[m]
  BY DEF Live, Clearing
<1>4. ASSUME NEW m \in Orders, m # n
      PROVE  /\ (Live(m)' <=> Live(m)) /\ Where'[m] = Where[m]
             /\ qty'[m] = qty[m] /\ born'[m] = born[m]
  BY <1>1, <1>2, <1>3, <1>4 DEF TypeOK, Where
<1>5. ~Live(n)'
  BY <1>1, <1>2, <1>3 DEF TypeOK
<1>6. /\ resting_' = [m \in Orders |-> IF m \in {n} THEN NULL ELSE resting_[m]]
      /\ left_' = [m \in Orders |-> IF m \in {n} THEN 0 ELSE left_[m]]
      /\ born_' = [m \in Orders |-> IF m \in {n} THEN 0 ELSE born_[m]]
  BY <1>4, <1>5 DEF resting_, left_, born_
<1> QED
  BY <1>6 DEF Abstract!Remove, resting_, left_, born_

LEMMA RefineDequeue ==
  ASSUME IInv, NEW b \in Books, NEW n \in Orders, Dequeue(b, n)
  PROVE  Abstract!Next
<1>1. /\ call = NoCall /\ call' = NoCall /\ adds' = adds /\ active[n] /\ Remove(b, n)
      /\ call.op # "clear" /\ call'.op # "clear"
  BY DEF Dequeue, Idle, NoCall
<1>2. resting_[n] # NULL
  BY <1>1, LiveActive, WhereActive DEF IInv
<1>3. trade_ = [queue |-> NULL, want |-> 0] /\ trade_' = trade_
  BY <1>1 DEF trade_, NoCall
<1>4. Abstract!Remove({n})
  BY <1>1, RefineRemove
<1>5. Abstract!Cancel(n)
  BY <1>1, <1>2, <1>3, <1>4 DEF Abstract!Cancel, Abstract!NoTrade, resting_, trade_
<1> QED
  BY <1>5 DEF Abstract!Next

LEMMA RefineTradeBegin ==
  ASSUME IInv, NEW b \in Books, NEW s \in Sides, NEW p \in PriceInputs, NEW x \in Quantities,
         TradeBegin(b, s, p, x)
  PROVE  Abstract!Next
<1> DEFINE q == <<b, s, p>>
<1>1. /\ UNCHANGED <<pool_vars, order_vars, level_vars, adds>> /\ call = NoCall
      /\ call' = [op |-> "trade", queue |-> q, want |-> x, idx |-> NULL]
      /\ p < MAX_PRICE_LEVELS
  BY DEF TradeBegin, Idle
<1>2. q \in Queues
  <2>1. p \in Prices
    BY <1>1, BookAssumption DEF Prices
  <2> QED
    BY <2>1, QueueOf
<1> HIDE DEF q
<1>3. trade_ = [queue |-> NULL, want |-> 0] /\ trade_' = [queue |-> q, want |-> x]
  BY <1>1 DEF trade_, NoCall
<1>4. resting_' = resting_ /\ left_' = left_ /\ born_' = born_ /\ adds' = adds
  BY <1>1 DEF resting_, left_, born_, Live, Clearing, Where, NoCall, pool_vars, order_vars
<1>5. Abstract!StartTrade(q, x)
  BY <1>3, <1>4 DEF Abstract!StartTrade, Abstract!NoTrade, resting_, left_, born_, trade_
<1> QED
  BY <1>2, <1>5 DEF Abstract!Next

LEMMA RefineFillWhole ==
  ASSUME IInv, NEW n \in Orders, FillWhole(n)
  PROVE  Abstract!Next
<1> DEFINE q == call.queue
           w == call.want
<1>1. /\ call.op = "trade" /\ w > 0 /\ links.head[q] = n /\ qty[n] <= w
      /\ call' = [call EXCEPT !.want = @ - qty[n]] /\ adds' = adds /\ Remove(q[1], n)
  BY DEF FillWhole, Filling
<1>2. q \in Queues /\ q # NULL
  BY <1>1, NullApart DEF IInv, CallOK, NoCall
<1>3. call \in CallType
  BY DEF IInv, TypeOK, CallType
<1>4. call'.op = "trade" /\ call'.queue = q /\ call'.want = w - qty[n]
  BY <1>1, <1>3 DEF CallType
<1>5. Abstract!First(n, q) /\ active[n]
  BY <1>1, <1>2, HeadIsFirst
<1>6. left_[n] = qty[n]
  BY <1>1, <1>5, LiveActive
<1>7. Abstract!Remove({n})
  BY <1>1, <1>4, <1>5, RefineRemove
<1>8. trade_ = [queue |-> q, want |-> w] /\ trade_' = [queue |-> q, want |-> w - left_[n]]
  BY <1>1, <1>4, <1>6 DEF trade_
<1> HIDE DEF q, w
<1>9. /\ trade_.queue # NULL /\ trade_.queue = q /\ trade_.want > 0 /\ left_[n] <= trade_.want
      /\ trade_' = [trade_ EXCEPT !.want = @ - left_[n]]
  BY <1>1, <1>2, <1>6, <1>8
<1>10. Abstract!Fill(n)
  BY <1>1, <1>5, <1>7, <1>9, Zenon DEF Abstract!Fill, left_, trade_
<1> QED
  BY <1>10 DEF Abstract!Next

LEMMA RefineFillPart ==
  ASSUME IInv, NEW n \in Orders, FillPart(n)
  PROVE  Abstract!Next
<1> DEFINE q == call.queue
           w == call.want
<1>1. /\ call.op = "trade" /\ w > 0 /\ links.head[q] = n /\ qty[n] > w
      /\ qty' = [qty EXCEPT ![n] = @ - w]
      /\ call' = [call EXCEPT !.want = 0]
      /\ UNCHANGED <<pool_vars, price, side, owner, born, best, adds>>
  BY DEF FillPart, Filling
<1>2. q \in Queues /\ q # NULL
  BY <1>1, NullApart DEF IInv, CallOK, NoCall
<1>3. call \in CallType /\ TypeOK
  BY DEF IInv, TypeOK, CallType
<1>4. call'.op = "trade" /\ call'.queue = q /\ call'.want = 0
  BY <1>1, <1>3 DEF CallType
<1>5. Abstract!First(n, q) /\ active[n]
  BY <1>1, <1>2, HeadIsFirst
<1>6. left_[n] = qty[n]
  BY <1>1, <1>5, LiveActive
<1>7. trade_ = [queue |-> q, want |-> w] /\ trade_' = [queue |-> q, want |-> 0]
  BY <1>1, <1>4 DEF trade_
<1>8. /\ \A m \in Orders : Live(m) <=> active[m]
      /\ \A m \in Orders : Live(m)' <=> Live(m)
      /\ Where' = Where /\ born' = born /\ adds' = adds
  BY <1>1, <1>4 DEF Live, Clearing, Where, pool_vars
<1>9. resting_' = resting_ /\ born_' = born_
  BY <1>8 DEF resting_, born_
<1> HIDE DEF q, w
<1>10. left_' = [left_ EXCEPT ![n] = @ - w]
  BY <1>1, <1>3, <1>5, <1>8 DEF left_, TypeOK
<1>11. /\ trade_.queue # NULL /\ trade_.queue = q /\ trade_.want > 0 /\ left_[n] > trade_.want
       /\ trade_' = [trade_ EXCEPT !.want = 0]
       /\ left_' = [left_ EXCEPT ![n] = @ - trade_.want]
  BY <1>1, <1>2, <1>6, <1>7, <1>10
<1>12. Abstract!Fill(n)
  BY <1>5, <1>8, <1>9, <1>11, Zenon DEF Abstract!Fill, left_, trade_, resting_, born_
<1> QED
  BY <1>12 DEF Abstract!Next

LEMMA RefineTradeEnd ==
  ASSUME IInv, TradeEnd
  PROVE  Abstract!Next
<1> DEFINE q == call.queue
<1>1. /\ call.op = "trade" /\ call' = NoCall
      /\ call.want = 0 \/ links.head[q] = NULL
      /\ UNCHANGED <<pool_vars, order_vars, level_vars, adds>>
  BY DEF TradeEnd
<1>2. q \in Queues /\ q # NULL
  BY <1>1, NullApart DEF IInv, CallOK, NoCall
<1>3. trade_ = [queue |-> q, want |-> call.want] /\ trade_' = [queue |-> NULL, want |-> 0]
  BY <1>1 DEF trade_, NoCall
<1>4. resting_' = resting_ /\ left_' = left_ /\ born_' = born_ /\ adds' = adds
  BY <1>1 DEF resting_, left_, born_, Live, Clearing, Where, NoCall, pool_vars, order_vars
<1>5. trade_.want = 0 \/ \A n \in Orders : resting_[n] # trade_.queue
  <2>1. CASE call.want = 0
    BY <1>3, <2>1
  <2>2. CASE links.head[q] = NULL
    <3>1. links \in Links(Orders, Queues) /\ Chained(Mirror(links), Orders, Queues, Where, born)
      BY <1>1 DEF IInv, TypeOK, QueuesChained, View
    <3>2. \A n \in Orders : Where[n] # q
      BY <1>2, <2>2, <3>1, EmptyQueue
    <3>3. \A n \in Orders : resting_[n] = Where[n]
      BY <1>1, LiveActive
    <3> QED
      BY <1>3, <3>2, <3>3
  <2> QED
    BY <1>1, <2>1, <2>2
<1>6. trade_.queue # NULL
  BY <1>2, <1>3
<1>7. Abstract!EndTrade
  BY <1>3, <1>4, <1>5, <1>6 DEF Abstract!EndTrade, Abstract!NoTrade, resting_, left_, born_, trade_
<1> QED
  BY <1>7 DEF Abstract!Next

LEMMA RefineClearBegin ==
  ASSUME IInv, NEW b \in Books, ClearBegin(b)
  PROVE  Abstract!Next
<1> DEFINE q == Walk(b, 0)
           gone == {n \in Orders : resting_[n] # NULL /\ resting_[n][1] = b}
<1>1. /\ UNCHANGED <<pool_vars, order_vars, level_vars, adds>> /\ call = NoCall
      /\ call' = [op |-> "clear", queue |-> q, want |-> 0, idx |-> links.head[q]]
      /\ call.op # "clear"
  BY DEF ClearBegin, Idle, NoCall
<1>2. q \in Queues /\ q[1] = b
  BY WalkQueues, BookAssumption DEF LastWalk
<1>3. trade_ = [queue |-> NULL, want |-> 0] /\ trade_' = trade_ /\ adds' = adds
  BY <1>1 DEF trade_, NoCall
<1>4. /\ \A n \in Orders : Live(n) <=> active[n]
      /\ \A n \in Orders : Live(n)' <=> active[n] /\ owner[n] # b
      /\ Where' = Where /\ qty' = qty /\ born' = born
  <2> HIDE DEF q
  <2> QED
    BY <1>1, <1>2 DEF Live, Clearing, Where, pool_vars, order_vars
<1>5. \A n \in Orders : n \in gone <=> active[n] /\ owner[n] = b
  BY <1>1, LiveActive, WhereActive, NullApart DEF IInv
<1> HIDE DEF gone, q
<1>6. /\ resting_' = [n \in Orders |-> IF n \in gone THEN NULL ELSE resting_[n]]
      /\ left_' = [n \in Orders |-> IF n \in gone THEN 0 ELSE left_[n]]
      /\ born_' = [n \in Orders |-> IF n \in gone THEN 0 ELSE born_[n]]
  <2>1. \A n \in Orders : Live(n)' <=> Live(n) /\ n \notin gone
    BY <1>4, <1>5
  <2> QED
    BY <1>4, <2>1 DEF resting_, left_, born_
<1>7. Abstract!Remove(gone)
  BY <1>6 DEF Abstract!Remove, resting_, left_, born_
<1>8. Abstract!Clear(q[1])
  <2>1. Abstract!Clear(b)
    BY <1>3, <1>7, Zenon DEF Abstract!Clear, Abstract!NoTrade, gone, resting_, trade_
  <2> QED
    BY <1>2, <2>1
<1> QED
  BY <1>2, <1>8 DEF Abstract!Next

(* The rest of clear() changes nothing that is still live. *)
LEMMA RefineClearRest ==
  ASSUME IInv, (\E n \in Orders : ClearOrder(n)) \/ ClearQueue \/ ClearEnd
  PROVE  UNCHANGED <<resting_, left_, born_, trade_, adds>>
<1> DEFINE b == call.queue[1]
<1>0. call.op = "clear" /\ \A m \in Orders : Live(m) <=> active[m] /\ owner[m] # b
  BY DEF ClearOrder, ClearQueue, ClearEnd, Live, Clearing
<1>1. ASSUME NEW n \in Orders, ClearOrder(n)
      PROVE  UNCHANGED <<resting_, left_, born_, trade_, adds>>
  <2>1. /\ active' = [active EXCEPT ![n] = FALSE]
        /\ qty' = [qty EXCEPT ![n] = 0] /\ price' = [price EXCEPT ![n] = 0]
        /\ side' = [side EXCEPT ![n] = "ask"] /\ owner' = [owner EXCEPT ![n] = NULL]
        /\ born' = [born EXCEPT ![n] = 0]
        /\ call' = [call EXCEPT !.idx = links.next[n]] /\ adds' = adds
    BY <1>1, ClearsActive DEF ClearOrder, Free
  <2>2. TypeOK /\ call \in CallType
    BY DEF IInv, TypeOK, CallType
  <2>3. call'.op = "clear" /\ call'.queue = call.queue
    BY <1>0, <2>1, <2>2 DEF CallType
  <2>4. Where[n] = call.queue /\ call.queue \in Queues /\ call.queue # NULL
    <3>1. call.queue[1] \in Books /\ call.want \in 0 .. LastWalk /\ call.queue = Walk(call.queue[1], call.want)
      BY <1>0 DEF IInv, CallOK, NoCall
    <3>2. call.queue \in Queues
      BY <3>1, WalkQueues
    <3> QED
      BY <1>1, <3>2, ClearOrderIInv, NullApart
  <2>5. owner[n] = b
    BY <2>4, WhereActive DEF IInv
  <2>6. \A m \in Orders : Live(m)' <=> active'[m] /\ owner'[m] # b
    BY <2>3 DEF Live, Clearing
  <2>7. ~Live(n) /\ ~Live(n)'
    BY <1>0, <2>1, <2>2, <2>5, <2>6 DEF TypeOK
  <2>8. ASSUME NEW m \in Orders, m # n
        PROVE  /\ (Live(m)' <=> Live(m)) /\ Where'[m] = Where[m]
               /\ qty'[m] = qty[m] /\ born'[m] = born[m]
    BY <1>0, <2>1, <2>2, <2>6, <2>8 DEF TypeOK, Where
  <2>9. resting_' = resting_ /\ left_' = left_ /\ born_' = born_
    BY <2>7, <2>8 DEF resting_, left_, born_
  <2>10. trade_' = trade_
    BY <1>0, <2>3 DEF trade_
  <2> QED
    BY <2>1, <2>9, <2>10
<1>2. CASE ClearQueue
  <2>1. /\ call' = [call EXCEPT !.queue = Walk(b, call.want + 1), !.want = call.want + 1,
                               !.idx = links.head[Walk(b, call.want + 1)]]
        /\ active' = active /\ UNCHANGED order_vars /\ adds' = adds
    BY <1>2 DEF ClearQueue
  <2>2. call \in CallType
    BY DEF IInv, TypeOK, CallType
  <2>3. call'.op = "clear" /\ call'.queue = Walk(b, call.want + 1)
    BY <1>0, <2>1, <2>2 DEF CallType
  <2>4. call'.queue[1] = b
    BY <2>3 DEF Walk
  <2>5. Where' = Where /\ qty' = qty /\ born' = born
    BY <2>1 DEF Where, order_vars
  <2>6. \A m \in Orders : Live(m)' <=> Live(m)
    BY <1>0, <2>1, <2>3, <2>4 DEF Live, Clearing, order_vars
  <2>7. trade_' = trade_
    BY <1>0, <2>3 DEF trade_
  <2> QED
    BY <2>1, <2>5, <2>6, <2>7 DEF resting_, left_, born_
<1>3. CASE ClearEnd
  <2>1. /\ call' = NoCall /\ call.idx = NULL /\ call.want = LastWalk /\ ResetQueue(call.queue)
        /\ active' = active /\ UNCHANGED order_vars /\ adds' = adds
    BY <1>3 DEF ClearEnd
  <2>2. /\ b \in Books /\ links' \in Links(Orders, Queues) /\ links' = View
        /\ \A k \in 0 .. LastWalk : links'.head[Walk(b, k)] = NULL
    BY <1>0, <2>1, ResetLinks
  <2>3. ASSUME NEW m \in Orders, active[m] PROVE owner[m] # b
    <3> SUFFICES ASSUME owner[m] = b PROVE FALSE
      OBVIOUS
    <3>1. Where[m] \in Queues /\ Where[m][1] = b
      BY <2>3, WhereActive DEF IInv
    <3>2. PICK k \in 0 .. LastWalk : Where[m] = Walk(b, k)
      BY <2>2, <3>1, WalkQueues
    <3>3. links'.head[Where[m]] = NULL
      BY <2>2, <3>2
    <3> DEFINE L == links'
    <3>4. L \in Links(Orders, Queues) /\ Chained(Mirror(L), Orders, Queues, Where, born) /\ L.head[Where[m]] = NULL
      BY <2>2, <3>3 DEF IInv, QueuesChained
    <3> HIDE DEF L
    <3> QED
      BY <3>1, <3>4, EmptyQueue
  <2>4. Where' = Where /\ qty' = qty /\ born' = born
    BY <2>1 DEF Where, order_vars
  <2>5. \A m \in Orders : Live(m)' <=> Live(m)
    BY <1>0, <2>1, <2>3 DEF Live, Clearing, NoCall
  <2>6. trade_' = trade_
    BY <1>0, <2>1 DEF trade_, NoCall
  <2> QED
    BY <2>1, <2>4, <2>5, <2>6 DEF resting_, left_, born_
<1> QED
  BY <1>1, <1>2, <1>3

(* The books of linked queues, trees and cursors implement price-time        *)
(* priority, whatever the number of books, orders and price levels.          *)
THEOREM Refinement == Spec => RefinesPriceTime
<1>1. IInv /\ [Next]_vars => [Abstract!Next]_(Abstract!vars)
  <2> SUFFICES ASSUME IInv, [Next]_vars PROVE [Abstract!Next]_(Abstract!vars)
    OBVIOUS
  <2>1. CASE UNCHANGED vars
    BY <2>1 DEF vars, pool_vars, order_vars, level_vars, Abstract!vars, Live, Clearing, Where
  <2>2. ASSUME NEW p \in PriceInputs, EnqueueRejected(p) \/ TradeRejected(p)
        PROVE  UNCHANGED vars
    BY <2>2 DEF EnqueueRejected, TradeRejected
  <2>3. ASSUME NEW b \in Books, NEW s \in Sides, NEW p \in PriceInputs, NEW x \in Quantities,
               Enqueue(b, s, p, x) \/ TradeBegin(b, s, p, x)
        PROVE  Abstract!Next
    BY <2>3, RefineEnqueue, RefineTradeBegin
  <2>4. ASSUME NEW b \in Books, ClearBegin(b) \/ \E n \in Orders : Dequeue(b, n)
        PROVE  Abstract!Next
    BY <2>4, RefineClearBegin, RefineDequeue
  <2>5. ASSUME NEW n \in Orders, FillWhole(n) \/ FillPart(n)
        PROVE  Abstract!Next
    BY <2>5, RefineFillWhole, RefineFillPart
  <2>6. ASSUME (\E n \in Orders : ClearOrder(n)) \/ ClearQueue \/ ClearEnd
        PROVE  UNCHANGED Abstract!vars
    BY <2>6, RefineClearRest DEF Abstract!vars, resting_, left_, born_, trade_
  <2>7. CASE TradeEnd
    BY <2>7, RefineTradeEnd
  <2>8. CASE DequeueIgnored
    BY <2>1, <2>8 DEF DequeueIgnored
  <2> QED
    BY <2>1, <2>2, <2>3, <2>4, <2>5, <2>6, <2>7, <2>8 DEF Next
<1> QED
  BY <1>1, RefineInit, Invariance, PTL DEF Spec, RefinesPriceTime, Abstract!Spec

-----------------------------------------------------------------------------
(***************************************************************************)
(* The volume at the levels                                                *)
(***************************************************************************)

(* The volume of queue q when at tells where orders are and w what is left.  *)
RestIn(at, q) == {n \in Orders : at[n] = q}
VolumeIn(at, w, q) == SumOver(w, RestIn(at, q))

LEMMA VolumeIs == \A q : Volume(q) = VolumeIn(Where, qty, q) /\ Resting(q) = RestIn(Where, q)
  BY Zenon DEF Volume, VolumeIn, Resting, RestIn, SumOver

LEMMA VolumeWas == \A q : Volume(q)' = VolumeIn(Where', qty', q) /\ Resting(q)' = RestIn(Where', q)
  BY Zenon DEF Volume, VolumeIn, Resting, RestIn, SumOver, MapThenSumSet, MapThenFoldSet

LEMMA RestFinite == \A at, q : IsFiniteSet(RestIn(at, q))
  BY OrdersFinite, FS_Subset DEF RestIn

(* No order leaves or enters queue q or changes in it. *)
Untouched(at, w, at2, w2, q) ==
  /\ \A n \in Orders : at2[n] = q <=> at[n] = q
  /\ \A n \in Orders : at[n] = q => w2[n] = w[n]

LEMMA VolumeSame ==
  ASSUME NEW at, NEW at2, NEW w \in [Orders -> Int], NEW w2, NEW q, Untouched(at, w, at2, w2, q)
  PROVE  VolumeIn(at2, w2, q) = VolumeIn(at, w, q) /\ RestIn(at2, q) = RestIn(at, q)
<1> DEFINE S == RestIn(at, q)
<1>1. RestIn(at2, q) = S
  BY DEF RestIn, Untouched
<1>2. IsFiniteSet(S)
  BY RestFinite
<1>3. \A n \in S : w[n] \in Int /\ w[n] = w2[n]
  BY DEF RestIn, Untouched
<1>4. SumOver(w, S) = SumOver(w2, S)
  <2> HIDE DEF S
  <2> QED BY <1>2, <1>3, SumSame
<1> QED BY <1>1, <1>4 DEF VolumeIn

LEMMA VolumeType ==
  ASSUME NEW at, NEW w \in [Orders -> Nat], NEW q
  PROVE  /\ VolumeIn(at, w, q) \in Nat
         /\ \A n \in RestIn(at, q) : w[n] <= VolumeIn(at, w, q)
         /\ RestIn(at, q) = {} => VolumeIn(at, w, q) = 0
<1> DEFINE S == RestIn(at, q)
<1>1. IsFiniteSet(S) /\ \A n \in S : w[n] \in Nat
  BY RestFinite DEF RestIn
<1>2. SumOver(w, S) \in Nat /\ \A n \in S : w[n] <= SumOver(w, S)
  <2> HIDE DEF S
  <2> QED BY <1>1, SumBounds
<1>3. S = {} => SumOver(w, S) = 0
  <2> HIDE DEF S
  <2> QED BY SumEmpty
<1> QED BY <1>2, <1>3 DEF VolumeIn

(* Only the orders of queue q change. *)
OnlyIn(at, w, at2, w2, q) ==
  \A r \in Queues : r # q => VolumeIn(at2, w2, r) = VolumeIn(at, w, r) /\ RestIn(at2, r) = RestIn(at, r)

(* Order n enters queue q with x, leaves it, is reduced by d. *)
Enters(at, w, at2, w2, n, q, x) ==
  at[n] = NULL /\ at2 = [at EXCEPT ![n] = q] /\ w2 = [w EXCEPT ![n] = x]
Leaves(at, w, at2, w2, n, q) ==
  at[n] = q /\ at2 = [at EXCEPT ![n] = NULL] /\ w2 = [w EXCEPT ![n] = 0]
Shrinks(at, w, w2, n, q, d) ==
  at[n] = q /\ w2 = [w EXCEPT ![n] = @ - d]

LEMMA VolumeAdded ==
  ASSUME NEW at \in [Orders -> Queues \cup {NULL}], NEW w \in [Orders -> Int], NEW at2, NEW w2,
         NEW n \in Orders, NEW q \in Queues, NEW x \in Int, Enters(at, w, at2, w2, n, q, x)
  PROVE  /\ VolumeIn(at2, w2, q) = VolumeIn(at, w, q) + x
         /\ OnlyIn(at, w, at2, w2, q)
         /\ n \in RestIn(at2, q)
<1> USE DEF Enters
<1> DEFINE S == RestIn(at, q)
<1>0. NULL \notin Queues
  BY NullApart
<1>1. IsFiniteSet(S) /\ n \notin S /\ RestIn(at2, q) = S \cup {n}
  BY <1>0, RestFinite DEF RestIn
<1>2. \A m \in S : w[m] \in Int /\ w[m] = w2[m] /\ w2[m] \in Int
  BY <1>1 DEF RestIn
<1>3. SumOver(w, S) = SumOver(w2, S) /\ SumOver(w, S) \in Int
  <2> HIDE DEF S
  <2> QED BY <1>1, <1>2, SumSame, SumType
<1>4. SumOver(w2, S \cup {n}) = w2[n] + SumOver(w2, S)
  <2>1. w2[n] \in Int
    OBVIOUS
  <2> HIDE DEF S
  <2> QED BY <1>1, <1>2, <2>1, SumWith
<1>5. VolumeIn(at2, w2, q) = VolumeIn(at, w, q) + x
  <2>1. w2[n] = x
    OBVIOUS
  <2>2. VolumeIn(at2, w2, q) = SumOver(w2, S \cup {n}) /\ VolumeIn(at, w, q) = SumOver(w, S)
    BY <1>1, Zenon DEF VolumeIn
  <2> HIDE DEF S
  <2> QED BY <1>3, <1>4, <2>1, <2>2
<1>6. ASSUME NEW r \in Queues, r # q PROVE VolumeIn(at2, w2, r) = VolumeIn(at, w, r) /\ RestIn(at2, r) = RestIn(at, r)
  <2>1. \A m \in Orders : at2[m] = r <=> at[m] = r
    BY <1>0, <1>6
  <2>2. \A m \in Orders : at[m] = r => w2[m] = w[m]
    BY <1>0
  <2>3. Untouched(at, w, at2, w2, r)
    BY <2>1, <2>2, Zenon DEF Untouched
  <2>4. w \in [Orders -> Int]
    OBVIOUS
  <2> QED BY ONLY <2>3, <2>4, VolumeSame
<1> QED BY <1>1, <1>5, <1>6 DEF OnlyIn

LEMMA VolumeRemoved ==
  ASSUME NEW at \in [Orders -> Queues \cup {NULL}], NEW w \in [Orders -> Int], NEW at2, NEW w2,
         NEW n \in Orders, NEW q \in Queues, Leaves(at, w, at2, w2, n, q)
  PROVE  VolumeIn(at, w, q) = VolumeIn(at2, w2, q) + w[n] /\ OnlyIn(at, w, at2, w2, q)
<1> USE DEF Leaves
<1> DEFINE S == RestIn(at, q)
<1>0. NULL \notin Queues
  BY NullApart
<1>1. IsFiniteSet(S) /\ n \in S /\ RestIn(at2, q) = S \ {n} /\ IsFiniteSet(S \ {n})
  <2>1. n \in S /\ RestIn(at2, q) = S \ {n}
    BY <1>0 DEF RestIn
  <2>2. IsFiniteSet(S)
    BY RestFinite
  <2> HIDE DEF S
  <2> QED BY <2>1, <2>2, FS_Subset
<1>2. (\A m \in S : w[m] \in Int) /\ \A m \in S \ {n} : w[m] \in Int /\ w[m] = w2[m]
  BY <1>1 DEF RestIn
<1>3. SumOver(w, S \ {n}) = SumOver(w2, S \ {n}) /\ SumOver(w, S \ {n}) \in Int
  <2> DEFINE T == S \ {n}
  <2>1. IsFiniteSet(T) /\ \A m \in T : w[m] \in Int /\ w[m] = w2[m]
    BY <1>1, <1>2
  <2> HIDE DEF T
  <2>2. SumOver(w, T) = SumOver(w2, T)
    BY <2>1, SumSame
  <2>3. SumOver(w, T) \in Int
    BY <2>1, SumType
  <2> QED BY <2>2, <2>3 DEF T
<1>4. SumOver(w, S) = w[n] + SumOver(w, S \ {n})
  <2> HIDE DEF S
  <2> QED BY <1>1, <1>2, SumWithout
<1>5. VolumeIn(at, w, q) = VolumeIn(at2, w2, q) + w[n]
  <2>1. VolumeIn(at2, w2, q) = SumOver(w2, S \ {n}) /\ VolumeIn(at, w, q) = SumOver(w, S)
    BY <1>1, Zenon DEF VolumeIn
  <2>2. w[n] \in Int
    OBVIOUS
  <2> HIDE DEF S
  <2> QED BY <1>3, <1>4, <2>1, <2>2
<1>6. ASSUME NEW r \in Queues, r # q PROVE VolumeIn(at2, w2, r) = VolumeIn(at, w, r) /\ RestIn(at2, r) = RestIn(at, r)
  <2>1. \A m \in Orders : at2[m] = r <=> at[m] = r
    BY <1>0, <1>6
  <2>2. \A m \in Orders : at[m] = r => w2[m] = w[m]
    BY <1>6
  <2>3. Untouched(at, w, at2, w2, r)
    BY <2>1, <2>2, Zenon DEF Untouched
  <2>4. w \in [Orders -> Int]
    OBVIOUS
  <2> QED BY ONLY <2>3, <2>4, VolumeSame
<1> QED BY <1>5, <1>6 DEF OnlyIn

LEMMA VolumeReduced ==
  ASSUME NEW at \in [Orders -> Queues \cup {NULL}], NEW w \in [Orders -> Int], NEW w2,
         NEW n \in Orders, NEW q \in Queues, NEW d \in Int, Shrinks(at, w, w2, n, q, d)
  PROVE  VolumeIn(at, w2, q) = VolumeIn(at, w, q) - d /\ OnlyIn(at, w, at, w2, q)
<1> USE DEF Shrinks
<1> DEFINE S == RestIn(at, q)
<1>1. IsFiniteSet(S) /\ n \in S /\ IsFiniteSet(S \ {n})
  <2>1. n \in S
    BY DEF RestIn
  <2>2. IsFiniteSet(S)
    BY RestFinite
  <2> HIDE DEF S
  <2> QED BY <2>1, <2>2, FS_Subset
<1>2. /\ \A m \in S : w[m] \in Int /\ w2[m] \in Int
      /\ \A m \in S \ {n} : w[m] \in Int /\ w[m] = w2[m]
      /\ w2[n] = w[n] - d
  BY <1>1 DEF RestIn
<1>3. SumOver(w, S \ {n}) = SumOver(w2, S \ {n}) /\ SumOver(w, S \ {n}) \in Int
  <2> DEFINE T == S \ {n}
  <2>1. IsFiniteSet(T) /\ \A m \in T : w[m] \in Int /\ w[m] = w2[m]
    BY <1>1, <1>2
  <2> HIDE DEF T
  <2>2. SumOver(w, T) = SumOver(w2, T)
    BY <2>1, SumSame
  <2>3. SumOver(w, T) \in Int
    BY <2>1, SumType
  <2> QED BY <2>2, <2>3 DEF T
<1>4. SumOver(w, S) = w[n] + SumOver(w, S \ {n}) /\ SumOver(w2, S) = w2[n] + SumOver(w2, S \ {n})
  <2> HIDE DEF S
  <2> QED BY <1>1, <1>2, SumWithout
<1>5. VolumeIn(at, w2, q) = VolumeIn(at, w, q) - d
  BY <1>1, <1>2, <1>3, <1>4 DEF VolumeIn
<1>6. ASSUME NEW r \in Queues, r # q PROVE VolumeIn(at, w2, r) = VolumeIn(at, w, r) /\ RestIn(at, r) = RestIn(at, r)
  <2>1. \A m \in Orders : at[m] = r => w2[m] = w[m]
    BY <1>6
  <2>2. \A m \in Orders : at[m] = r <=> at[m] = r
    OBVIOUS
  <2>3. Untouched(at, w, at, w2, r)
    BY <2>1, <2>2, Zenon DEF Untouched
  <2>4. w \in [Orders -> Int]
    OBVIOUS
  <2> QED BY ONLY <2>3, <2>4, VolumeSame
<1> QED BY <1>5, <1>6 DEF OnlyIn

-----------------------------------------------------------------------------
(* What the steps do to the volumes *)

LEMMA StateVolumes ==
  ASSUME IInv, NEW q
  PROVE  /\ Volume(q) = VolumeIn(Where, qty, q) /\ Resting(q) = RestIn(Where, q)
         /\ Volume(q) \in Nat
         /\ \A n \in Resting(q) : n \in Orders /\ qty[n] \in Nat /\ qty[n] <= Volume(q)
         /\ Resting(q) = {} => Volume(q) = 0
         /\ qty \in [Orders -> Nat] /\ qty \in [Orders -> Int]
         /\ Where \in [Orders -> Queues \cup {NULL}]
<1>1. qty \in [Orders -> Nat]
  BY BookAssumption DEF IInv, TypeOK
<1>2. Volume(q) = VolumeIn(Where, qty, q) /\ Resting(q) = RestIn(Where, q)
  BY VolumeIs
<1>3. /\ VolumeIn(Where, qty, q) \in Nat
      /\ \A n \in RestIn(Where, q) : qty[n] <= VolumeIn(Where, qty, q)
      /\ RestIn(Where, q) = {} => VolumeIn(Where, qty, q) = 0
  <2> DEFINE at == Where
  <2> HIDE DEF at
  <2>1. /\ VolumeIn(at, qty, q) \in Nat
        /\ \A n \in RestIn(at, q) : qty[n] <= VolumeIn(at, qty, q)
        /\ RestIn(at, q) = {} => VolumeIn(at, qty, q) = 0
    BY <1>1, VolumeType
  <2> QED BY <2>1 DEF at
<1>4. \A n \in Resting(q) : n \in Orders
  BY DEF Resting
<1>5. Where \in [Orders -> Queues \cup {NULL}]
  BY WhereType DEF IInv
<1> QED BY <1>1, <1>2, <1>3, <1>4, <1>5

(* The orders of queue q stay and stay the same. *)
Kept(q) == Volume(q)' = Volume(q) /\ Resting(q)' = Resting(q)

LEMMA KeptAll ==
  ASSUME Where' = Where, qty' = qty
  PROVE  \A q : Kept(q)
  BY VolumeIs, VolumeWas DEF Kept, OnlyIn

(* What an enqueue of x orders to q does. *)
Enqueues(b, s, p, x, q) ==
  /\ q = <<b, s, p>> /\ q \in Queues /\ x \in Nat
  /\ call.op = "idle" /\ call' = call
  /\ Volume(q)' = Volume(q) + x
  /\ \A r \in Queues : r # q => Kept(r)
  /\ Resting(q)' # {}
  /\ level_qty' = [level_qty EXCEPT ![q] = (@ + x) % U32]
  /\ bit' = [bit EXCEPT ![q] = @ + x]
  /\ best' = IF Better(s, p, best[<<b, s>>]) THEN [best EXCEPT ![<<b, s>>] = p] ELSE best

LEMMA EnqueueVolumes ==
  ASSUME IInv, NEW b \in Books, NEW s \in Sides, NEW p \in PriceInputs, NEW x \in Quantities,
         Enqueue(b, s, p, x)
  PROVE  \E q : Enqueues(b, s, p, x, q)
<1>0. PICK q : q = <<b, s, p>>
  OBVIOUS
<1>1. /\ active' = [active EXCEPT ![free_head] = TRUE]
      /\ qty' = [qty EXCEPT ![free_head] = x] /\ price' = [price EXCEPT ![free_head] = p]
      /\ side' = [side EXCEPT ![free_head] = s] /\ owner' = [owner EXCEPT ![free_head] = b]
      /\ call = NoCall /\ call' = call /\ free_head # NULL /\ p < MAX_PRICE_LEVELS
      /\ level_qty' = [level_qty EXCEPT ![q] = (@ + x) % U32]
      /\ bit' = [bit EXCEPT ![q] = @ + x]
      /\ best' = IF Better(s, p, best[<<b, s>>]) THEN [best EXCEPT ![<<b, s>>] = p] ELSE best
  BY <1>0 DEF Enqueue, Idle
<1>2. free_head \in Orders /\ ~active[free_head] /\ q \in Queues /\ x \in Nat /\ x \in Int
  <2>1. p \in Prices /\ x \in Nat
    BY <1>1, BookAssumption DEF Prices
  <2> QED BY <1>0, <1>1, <2>1, ActiveBounds, QueueOf DEF IInv
<1>3. PICK n \in Orders : n = free_head
  BY <1>2
<1>4. Where' = [Where EXCEPT ![n] = q] /\ qty' = [qty EXCEPT ![n] = x] /\ Where[n] = NULL
  BY <1>0, <1>1, <1>2, <1>3 DEF Where, IInv, TypeOK
<1>5. qty \in [Orders -> Int] /\ Where \in [Orders -> Queues \cup {NULL}]
  BY StateVolumes
<1>6. /\ VolumeIn(Where', qty', q) = VolumeIn(Where, qty, q) + x
      /\ OnlyIn(Where, qty, Where', qty', q)
      /\ n \in RestIn(Where', q)
  <2> DEFINE at == Where
             w == qty
             at2 == Where'
             w2 == qty'
  <2>1. /\ at \in [Orders -> Queues \cup {NULL}] /\ w \in [Orders -> Int]
        /\ Enters(at, w, at2, w2, n, q, x)
    BY <1>4, <1>5 DEF Enters
  <2> HIDE DEF at, w, at2, w2
  <2>2. /\ VolumeIn(at2, w2, q) = VolumeIn(at, w, q) + x
        /\ OnlyIn(at, w, at2, w2, q)
        /\ n \in RestIn(at2, q)
    BY <1>2, <2>1, VolumeAdded
  <2> QED BY <2>2 DEF at, w, at2, w2
<1>7. Volume(q)' = Volume(q) + x /\ Resting(q)' # {}
  BY <1>6, VolumeIs, VolumeWas
<1>8. \A r \in Queues : r # q => Kept(r)
  BY <1>6, VolumeIs, VolumeWas DEF Kept, OnlyIn
<1>9. Enqueues(b, s, p, x, q)
  BY <1>0, <1>1, <1>2, <1>7, <1>8 DEF NoCall, Enqueues
<1> QED BY <1>9

(* What the removal of order n of x from q does. *)
Removes(b, n, q, x) ==
  /\ q = <<b, side[n], price[n]>> /\ x = qty[n]
  /\ q \in Queues /\ x \in Nat /\ n \in Resting(q)
  /\ q[1] = b /\ q[2] = side[n] /\ q[3] = price[n]
  /\ Volume(q) = Volume(q)' + x
  /\ \A r \in Queues : r # q => Kept(r)
  /\ level_qty' = [level_qty EXCEPT ![q] = IF @ >= x THEN @ - x ELSE 0]
  /\ bit' = [bit EXCEPT ![q] = @ - x]
  /\ best' = IF q[3] = best[<<q[1], q[2]>>] /\ level_qty'[q] = 0
               THEN [best EXCEPT ![<<q[1], q[2]>>] = BestOf(bit', q[1], q[2])]
               ELSE best

LEMMA RemoveVolumes ==
  ASSUME IInv, NEW b \in Books, NEW n \in Orders, active[n], owner[n] = b, Remove(b, n)
  PROVE  \E q, x : Removes(b, n, q, x)
<1>0. PICK q, x : q = <<b, side[n], price[n]>> /\ x = qty[n]
  OBVIOUS
<1>1. /\ active' = [active EXCEPT ![n] = FALSE]
      /\ qty' = [qty EXCEPT ![n] = 0] /\ price' = [price EXCEPT ![n] = 0]
      /\ side' = [side EXCEPT ![n] = "ask"] /\ owner' = [owner EXCEPT ![n] = NULL]
  BY DEF Remove, Free
<1>2. q \in Queues /\ x \in Nat /\ Where[n] = q /\ q[1] = b /\ q[2] = side[n] /\ q[3] = price[n]
  BY <1>0, WhereActive, StateVolumes DEF IInv
<1>3. Where' = [Where EXCEPT ![n] = NULL]
  BY <1>1 DEF Where, IInv, TypeOK
<1>4. qty \in [Orders -> Int] /\ Where \in [Orders -> Queues \cup {NULL}]
  BY StateVolumes
<1>5. /\ VolumeIn(Where, qty, q) = VolumeIn(Where', qty', q) + x
      /\ OnlyIn(Where, qty, Where', qty', q)
  <2> DEFINE at == Where
             w == qty
             at2 == Where'
             w2 == qty'
  <2>1. /\ at \in [Orders -> Queues \cup {NULL}] /\ w \in [Orders -> Int] /\ w[n] = x
        /\ Leaves(at, w, at2, w2, n, q)
    BY <1>0, <1>1, <1>2, <1>3, <1>4 DEF Leaves
  <2> HIDE DEF at, w, at2, w2
  <2>2. /\ VolumeIn(at, w, q) = VolumeIn(at2, w2, q) + w[n]
        /\ OnlyIn(at, w, at2, w2, q)
    BY <1>2, <2>1, VolumeRemoved
  <2>3. VolumeIn(at, w, q) = VolumeIn(at2, w2, q) + x
    BY <2>1, <2>2
  <2> QED BY <2>2, <2>3 DEF at, w, at2, w2
<1>6. Volume(q) = Volume(q)' + x
  BY <1>5, VolumeIs, VolumeWas
<1>7. \A r \in Queues : r # q => Kept(r)
  BY <1>5, VolumeIs, VolumeWas DEF Kept, OnlyIn
<1>8. n \in Resting(q)
  BY <1>2 DEF Resting
<1>9. /\ level_qty' = [level_qty EXCEPT ![q] = IF @ >= x THEN @ - x ELSE 0]
      /\ bit' = [bit EXCEPT ![q] = @ - x]
  BY <1>0 DEF Remove
<1>10. best' = IF price[n] = best[<<b, side[n]>>] /\ level_qty'[q] = 0
                 THEN [best EXCEPT ![<<b, side[n]>>] = BestOf(bit', b, side[n])]
                 ELSE best
  BY <1>0 DEF Remove
<1>11. best' = IF q[3] = best[<<q[1], q[2]>>] /\ level_qty'[q] = 0
                 THEN [best EXCEPT ![<<q[1], q[2]>>] = BestOf(bit', q[1], q[2])]
                 ELSE best
  BY <1>2, <1>10, Zenon
<1>12. Removes(b, n, q, x)
  BY <1>0, <1>2, <1>6, <1>7, <1>8, <1>9, <1>11 DEF Removes
<1> QED BY <1>12

LEMMA FillPartVolumes ==
  ASSUME IInv, NEW n \in Orders, FillPart(n), NEW q, q = call.queue, NEW w, w = call.want
  PROVE  /\ q \in Queues /\ w \in Nat /\ n \in Resting(q) /\ w < qty[n] /\ qty[n] \in Nat
         /\ Volume(q)' = Volume(q) - w
         /\ \A r \in Queues : r # q => Kept(r)
         /\ \A r : Resting(r)' = Resting(r)
         /\ qty' = [qty EXCEPT ![n] = @ - w]
         /\ level_qty' = [level_qty EXCEPT ![q] = (@ - w) % U32]
         /\ bit' = [bit EXCEPT ![q] = @ - w]
         /\ best' = best /\ active' = active
         /\ call.op = "trade" /\ call'.op = "trade"
<1>1. /\ call.op = "trade" /\ call.want > 0 /\ links.head[q] = n /\ qty[n] > call.want
      /\ qty' = [qty EXCEPT ![n] = @ - w]
      /\ level_qty' = [level_qty EXCEPT ![q] = (@ - w) % U32]
      /\ bit' = [bit EXCEPT ![q] = @ - w]
      /\ call' = [call EXCEPT !.want = 0]
      /\ UNCHANGED <<pool_vars, price, side, owner, born, best, adds>>
  BY DEF FillPart, Filling
<1>2. q \in Queues /\ q # NULL /\ w \in Nat /\ call \in CallType
  BY <1>1, NullApart DEF IInv, CallOK, NoCall, TypeOK, CallType
<1>3. Where[n] = q
  BY <1>1, <1>2, NullApart, QueueEnds DEF IInv
<1>4. Where' = Where /\ active' = active
  BY <1>1 DEF Where, pool_vars
<1>5. qty \in [Orders -> Int] /\ Where \in [Orders -> Queues \cup {NULL}] /\ qty[n] \in Nat
  BY StateVolumes
<1>6. /\ VolumeIn(Where', qty', q) = VolumeIn(Where, qty, q) - w
      /\ OnlyIn(Where, qty, Where', qty', q)
  <2> DEFINE at == Where
             v == qty
             v2 == qty'
  <2>1. /\ at \in [Orders -> Queues \cup {NULL}] /\ v \in [Orders -> Int]
        /\ Shrinks(at, v, v2, n, q, w) /\ w \in Int
    BY <1>1, <1>2, <1>3, <1>5 DEF Shrinks
  <2>2. Where' = at
    BY <1>4
  <2> HIDE DEF at, v, v2
  <2>3. /\ VolumeIn(at, v2, q) = VolumeIn(at, v, q) - w
        /\ OnlyIn(at, v, at, v2, q)
    BY <1>2, <2>1, VolumeReduced
  <2> QED BY <2>2, <2>3 DEF at, v, v2
<1>7. Volume(q)' = Volume(q) - w
  BY <1>6, VolumeIs, VolumeWas
<1>8. \A r : Resting(r)' = Resting(r)
  BY <1>4 DEF Resting
<1>9. \A r \in Queues : r # q => Kept(r)
  BY <1>6, <1>8, VolumeIs, VolumeWas DEF Kept, OnlyIn
<1>10. n \in Resting(q)
  BY <1>3 DEF Resting
<1>11. call'.op = "trade"
  BY <1>1, <1>2 DEF CallType
<1>12. w < qty[n]
  BY <1>1, <1>2, <1>5
<1> QED BY <1>1, <1>2, <1>4, <1>5, <1>7, <1>8, <1>9, <1>10, <1>11, <1>12

(* The calls of clear() change the orders of its book only, and leave none. *)
LEMMA ClearOrderVolumes ==
  ASSUME IInv, NEW n \in Orders, ClearOrder(n)
  PROVE  /\ call.op = "clear" /\ call.queue[1] \in Books
         /\ call'.op = "clear" /\ call'.queue = call.queue /\ call'.want = call.want
         /\ level_qty' = level_qty /\ bit' = bit /\ best' = best
         /\ \A q \in Queues : q[1] # call.queue[1] => Kept(q)
<1>1. /\ active' = [active EXCEPT ![n] = FALSE] /\ qty' = [qty EXCEPT ![n] = 0]
      /\ price' = [price EXCEPT ![n] = 0] /\ side' = [side EXCEPT ![n] = "ask"]
      /\ owner' = [owner EXCEPT ![n] = NULL]
      /\ level_qty' = level_qty /\ bit' = bit /\ best' = best
      /\ call.op = "clear" /\ call' = [call EXCEPT !.idx = links.next[n]]
  BY ClearsActive DEF ClearOrder, Free, level_vars
<1>2. Where' = [Where EXCEPT ![n] = NULL]
  BY <1>1 DEF Where, IInv, TypeOK
<1>3. Where[n] = call.queue /\ call.queue[1] \in Books
  BY <1>1, ClearOrderIInv DEF IInv, CallOK, NoCall
<1>4. call'.op = "clear" /\ call'.queue = call.queue /\ call'.want = call.want
  BY <1>1 DEF IInv, TypeOK
<1>5. ASSUME NEW q \in Queues, q[1] # call.queue[1] PROVE Kept(q)
  <2>1. Where[n] # q /\ q # NULL
    BY <1>3, <1>5, NullApart
  <2>2. Untouched(Where, qty, Where', qty', q)
    <3>1. qty \in [Orders -> Int] /\ Where \in [Orders -> Queues \cup {NULL}]
      BY StateVolumes
    <3> QED BY <1>1, <1>2, <2>1, <3>1 DEF Untouched
  <2>3. VolumeIn(Where', qty', q) = VolumeIn(Where, qty, q) /\ RestIn(Where', q) = RestIn(Where, q)
    <3> DEFINE at == Where
               w == qty
               at2 == Where'
               w2 == qty'
    <3>1. w \in [Orders -> Int] /\ Untouched(at, w, at2, w2, q)
      BY <2>2, StateVolumes
    <3> HIDE DEF at, w, at2, w2
    <3>2. VolumeIn(at2, w2, q) = VolumeIn(at, w, q) /\ RestIn(at2, q) = RestIn(at, q)
      BY ONLY <3>1, VolumeSame
    <3> QED BY <3>2 DEF at, w, at2, w2
  <2> QED BY <2>3, VolumeIs, VolumeWas DEF Kept
<1> QED BY <1>1, <1>3, <1>4, <1>5

LEMMA ClearQueueVolumes ==
  ASSUME IInv, ClearQueue
  PROVE  /\ call.op = "clear" /\ call.queue[1] \in Books /\ call.queue \in Queues
         /\ call.want \in 0 .. LastWalk /\ call.queue = Walk(call.queue[1], call.want)
         /\ call'.op = "clear" /\ call'.want = call.want + 1
         /\ call'.queue = Walk(call.queue[1], call.want + 1) /\ call'.queue[1] = call.queue[1]
         /\ level_qty' = [level_qty EXCEPT ![call.queue] = 0] /\ bit' = bit /\ best' = best
         /\ \A q : Kept(q)
<1>1. /\ call.op = "clear" /\ level_qty' = [level_qty EXCEPT ![call.queue] = 0]
      /\ call' = [call EXCEPT !.queue = Walk(call.queue[1], call.want + 1), !.want = call.want + 1,
                             !.idx = links.head[Walk(call.queue[1], call.want + 1)]]
      /\ UNCHANGED <<active, order_vars, bit, best>>
  BY DEF ClearQueue, ResetQueue
<1>2. /\ call.queue[1] \in Books /\ call.want \in 0 .. LastWalk
      /\ call.queue = Walk(call.queue[1], call.want)
  BY <1>1 DEF IInv, CallOK, NoCall
<1>3. call.queue \in Queues
  BY <1>2, WalkQueues
<1>4. /\ call'.op = "clear" /\ call'.want = call.want + 1
      /\ call'.queue = Walk(call.queue[1], call.want + 1)
  BY <1>1 DEF IInv, TypeOK
<1>5. call'.queue[1] = call.queue[1]
  BY <1>4 DEF Walk
<1>6. Where' = Where /\ qty' = qty
  BY <1>1 DEF Where, order_vars
<1> QED BY <1>1, <1>2, <1>3, <1>4, <1>5, <1>6, KeptAll

LEMMA ClearEndVolumes ==
  ASSUME IInv, ClearEnd, NEW b, b = call.queue[1]
  PROVE  /\ call.op = "clear" /\ b \in Books /\ call.queue \in Queues
         /\ call.want = LastWalk /\ call.queue = Walk(b, LastWalk)
         /\ call' = NoCall
         /\ level_qty' = [level_qty EXCEPT ![call.queue] = 0]
         /\ bit' = [q \in Queues |-> IF q[1] = b THEN 0 ELSE bit[q]]
         /\ best' = [bs \in Books \X Sides |-> IF bs[1] = b THEN NoBest(bs[2]) ELSE best[bs]]
         /\ \A q : Kept(q)
         /\ \A q \in Queues : q[1] = b => Resting(q) = {}
<1>1. /\ call.op = "clear" /\ call.idx = NULL /\ ResetQueue(call.queue)
      /\ level_qty' = [level_qty EXCEPT ![call.queue] = 0]
      /\ bit' = [q \in Queues |-> IF q[1] = b THEN 0 ELSE bit[q]]
      /\ best' = [bs \in Books \X Sides |-> IF bs[1] = b THEN NoBest(bs[2]) ELSE best[bs]]
      /\ call' = NoCall /\ call.want = LastWalk
      /\ UNCHANGED <<active, order_vars>>
  BY DEF ClearEnd, ResetQueue
<1>2. b \in Books /\ call.queue = Walk(b, LastWalk)
  BY <1>1 DEF IInv, CallOK, NoCall
<1>3. call.queue \in Queues
  BY <1>1, ResetLinks
<1>4. Where' = Where /\ qty' = qty
  BY <1>1 DEF Where, order_vars
<1>5. ASSUME NEW q \in Queues, q[1] = b PROVE Resting(q) = {}
  <2>1. /\ links' \in Links(Orders, Queues) /\ links' = View
        /\ \A k \in 0 .. LastWalk : links'.head[Walk(b, k)] = NULL
    BY <1>1, ResetLinks
  <2>2. PICK k \in 0 .. LastWalk : q = Walk(b, k)
    BY <1>2, <1>5, WalkQueues
  <2> DEFINE L == links'
  <2>3. L \in Links(Orders, Queues) /\ Chained(Mirror(L), Orders, Queues, Where, born) /\ L.head[q] = NULL
    BY <2>1, <2>2 DEF IInv, QueuesChained
  <2> HIDE DEF L
  <2>4. \A n \in Orders : Where[n] # q
    BY <2>3, EmptyQueue
  <2> QED BY <2>4 DEF Resting
<1> QED BY <1>1, <1>2, <1>3, <1>4, <1>5, KeptAll

(* The other calls leave orders and levels alone; a book is cleared until    *)
(* the end of its clear().                                                   *)
Quiet ==
  \/ UNCHANGED vars
  \/ \E p \in PriceInputs : EnqueueRejected(p) \/ TradeRejected(p)
  \/ \E b \in Books, s \in Sides, p \in PriceInputs, x \in Quantities : TradeBegin(b, s, p, x)
  \/ DequeueIgnored
  \/ TradeEnd
  \/ \E b \in Books : ClearBegin(b)

LEMMA QuietVolumes ==
  ASSUME Quiet
  PROVE  /\ level_qty' = level_qty /\ bit' = bit /\ best' = best
         /\ \A q : Kept(q)
         /\ active' = active /\ qty' = qty
         /\ call' = call \/ (call.op # "clear" /\ call'.want = 0) \/ (call.op # "clear" /\ call'.op # "clear")
<1>1. /\ Where' = Where /\ qty' = qty /\ active' = active
      /\ level_qty' = level_qty /\ bit' = bit /\ best' = best
  BY DEF Quiet, vars, EnqueueRejected, TradeRejected, TradeBegin, DequeueIgnored, TradeEnd, ClearBegin,
         pool_vars, order_vars, level_vars, Where
<1>2. call' = call \/ (call.op # "clear" /\ call'.want = 0) \/ (call.op # "clear" /\ call'.op # "clear")
  BY DEF Quiet, vars, EnqueueRejected, TradeRejected, TradeBegin, DequeueIgnored, TradeEnd, ClearBegin,
         Idle, NoCall
<1> QED BY <1>1, <1>2, KeptAll

(* The order a trade fills whole is one of the book it is called on. *)
LEMMA FilledOrder ==
  ASSUME IInv, NEW n \in Orders, FillWhole(n)
  PROVE  /\ call.queue[1] \in Books /\ active[n] /\ owner[n] = call.queue[1]
         /\ Remove(call.queue[1], n)
         /\ call.op = "trade" /\ call'.op = "trade"
<1>1. /\ call.op = "trade" /\ links.head[call.queue] = n
      /\ call' = [call EXCEPT !.want = @ - qty[n]] /\ Remove(call.queue[1], n)
  BY DEF FillWhole, Filling
<1>2. call.queue \in Queues
  BY <1>1 DEF IInv, CallOK, NoCall
<1>3. Where[n] = call.queue
  BY <1>1, <1>2, NullApart, QueueEnds DEF IInv
<1>4. active[n] /\ owner[n] = call.queue[1] /\ call.queue[1] \in Books
  BY <1>2, <1>3, WhereActive, QueueParts, NullApart DEF IInv
<1>5. call'.op = "trade"
  BY <1>1 DEF IInv, TypeOK
<1> QED BY <1>1, <1>4, <1>5

(* Every step is one of these. *)
LEMMA Steps ==
  ASSUME IInv, [Next]_vars
  PROVE  \/ Quiet
         \/ \E b \in Books, s \in Sides, p \in PriceInputs, x \in Quantities : Enqueue(b, s, p, x)
         \/ \E b \in Books, n \in Orders :
              /\ active[n] /\ owner[n] = b /\ Remove(b, n)
              /\ call.op # "clear" /\ call'.op # "clear"
         \/ \E n \in Orders : FillPart(n)
         \/ \E n \in Orders : ClearOrder(n)
         \/ ClearQueue
         \/ ClearEnd
<1>1. ASSUME NEW b \in Books, NEW n \in Orders, Dequeue(b, n)
      PROVE  /\ active[n] /\ owner[n] = b /\ Remove(b, n)
             /\ call.op # "clear" /\ call'.op # "clear"
  BY <1>1 DEF Dequeue, Idle, NoCall
<1>2. ASSUME NEW n \in Orders, FillWhole(n)
      PROVE  \E b \in Books : /\ active[n] /\ owner[n] = b /\ Remove(b, n)
                              /\ call.op # "clear" /\ call'.op # "clear"
  BY <1>2, FilledOrder
<1> QED BY <1>1, <1>2 DEF Next, Quiet

-----------------------------------------------------------------------------
(* A book that no clear() has under way after a step has none under way      *)
(* before it, but for the one that the step ends.                            *)

VolumesSound ==
  \A q : /\ Volume(q) \in Nat
         /\ \A n \in Resting(q) : n \in Orders /\ qty[n] \in Nat /\ qty[n] <= Volume(q)
         /\ Resting(q) = {} => Volume(q) = 0

LEMMA IInvVolumes == IInv => VolumesSound
  BY StateVolumes DEF VolumesSound

LEMMA NextVolumes ==
  ASSUME IInv, [Next]_vars
  PROVE  \A q : /\ Volume(q)' \in Nat
                /\ \A n \in Resting(q)' : n \in Orders /\ qty'[n] \in Nat /\ qty'[n] <= Volume(q)'
                /\ Resting(q)' = {} => Volume(q)' = 0
<1>1. IInv'
  BY NextIInv
<1>2. VolumesSound'
  BY <1>1, IInvVolumes, PTL
<1> QED BY <1>2 DEF VolumesSound

LEMMA NextVolume ==
  ASSUME IInv, VolumeExact, [Next]_vars
  PROVE  VolumeExact'
<1> SUFFICES ASSUME NEW q \in Queues, ~Clearing(q[1])'
             PROVE  bit'[q] = Volume(q)'
  BY DEF VolumeExact
<1>0. /\ bit \in [Queues -> Int] /\ Volume(q) \in Nat
      /\ ~Clearing(q[1]) => bit[q] = Volume(q)
  BY StateVolumes DEF IInv, TypeOK, VolumeExact
<1>1. CASE Quiet
  <2>1. ~Clearing(q[1])
    BY <1>1, QuietVolumes DEF Clearing
  <2> QED BY <1>0, <1>1, <2>1, QuietVolumes DEF Kept
<1>2. ASSUME NEW b \in Books, NEW s \in Sides, NEW p \in PriceInputs, NEW x \in Quantities,
             Enqueue(b, s, p, x)
      PROVE  bit'[q] = Volume(q)'
  <2>1. PICK l : Enqueues(b, s, p, x, l)
    BY <1>2, EnqueueVolumes
  <2>2. /\ l \in Queues /\ x \in Nat /\ call.op = "idle" /\ Volume(l)' = Volume(l) + x
        /\ \A r \in Queues : r # l => Kept(r)
        /\ bit' = [bit EXCEPT ![l] = @ + x]
    BY <2>1 DEF Enqueues
  <2>3. bit[q] = Volume(q)
    BY <1>0, <2>2 DEF Clearing
  <2>4. CASE q = l
    BY <1>0, <2>2, <2>3, <2>4
  <2>5. CASE q # l
    BY <1>0, <2>2, <2>3, <2>5 DEF Kept
  <2> QED BY <2>4, <2>5
<1>3. ASSUME NEW b \in Books, NEW n \in Orders, active[n], owner[n] = b, Remove(b, n), call.op # "clear"
      PROVE  bit'[q] = Volume(q)'
  <2>1. PICK l, x : Removes(b, n, l, x)
    BY <1>3, RemoveVolumes
  <2>2. /\ l \in Queues /\ x \in Nat /\ Volume(l) = Volume(l)' + x
        /\ \A r \in Queues : r # l => Kept(r)
        /\ bit' = [bit EXCEPT ![l] = @ - x]
    BY <2>1 DEF Removes
  <2>3. bit[q] = Volume(q)
    BY <1>0, <1>3 DEF Clearing
  <2>4. CASE q = l
    <3>1. Volume(q)' \in Nat
      BY NextVolumes
    <3> QED BY <1>0, <2>2, <2>3, <2>4, <3>1
  <2>5. CASE q # l
    BY <1>0, <2>2, <2>3, <2>5 DEF Kept
  <2> QED BY <2>4, <2>5
<1>4. ASSUME NEW n \in Orders, FillPart(n) PROVE bit'[q] = Volume(q)'
  <2>1. PICK l, w : l = call.queue /\ w = call.want
    OBVIOUS
  <2>2. /\ l \in Queues /\ w \in Nat /\ Volume(l)' = Volume(l) - w
        /\ \A r \in Queues : r # l => Kept(r)
        /\ bit' = [bit EXCEPT ![l] = @ - w] /\ call.op = "trade"
    BY <1>4, <2>1, FillPartVolumes
  <2>3. bit[q] = Volume(q)
    BY <1>0, <2>2 DEF Clearing
  <2>4. CASE q = l
    BY <1>0, <2>2, <2>3, <2>4
  <2>5. CASE q # l
    BY <1>0, <2>2, <2>3, <2>5 DEF Kept
  <2> QED BY <2>4, <2>5
<1>5. ASSUME NEW n \in Orders, ClearOrder(n) PROVE bit'[q] = Volume(q)'
  <2>1. q[1] # call.queue[1] /\ ~Clearing(q[1])
    BY <1>5, ClearOrderVolumes DEF Clearing
  <2> QED BY <1>0, <1>5, <2>1, ClearOrderVolumes DEF Kept
<1>6. CASE ClearQueue
  <2>1. q[1] # call.queue[1] /\ ~Clearing(q[1])
    BY <1>6, ClearQueueVolumes DEF Clearing
  <2> QED BY <1>0, <1>6, <2>1, ClearQueueVolumes DEF Kept
<1>7. CASE ClearEnd
  <2>1. PICK b : b = call.queue[1]
    OBVIOUS
  <2>2. CASE q[1] = b
    BY <1>0, <1>7, <2>1, <2>2, ClearEndVolumes, StateVolumes DEF Kept
  <2>3. CASE q[1] # b
    <3>1. ~Clearing(q[1])
      BY <2>1, <2>3 DEF Clearing
    <3> QED BY <1>0, <1>7, <2>1, <2>3, <3>1, ClearEndVolumes DEF Kept
  <2> QED BY <2>2, <2>3
<1> QED BY <1>1, <1>2, <1>3, <1>4, <1>5, <1>6, <1>7, Steps

(* The volume the Fenwick trees report is that of the resting orders after   *)
(* any sequence of calls, with any quantities, zero and 2^32 - 1 included.   *)
THEOREM VolumeAlwaysExact == Spec => []VolumeExact
<1>1. Init => VolumeExact
  <2> SUFFICES ASSUME Init, NEW q \in Queues PROVE bit[q] = Volume(q)
    BY DEF VolumeExact
  <2>1. Resting(q) = {}
    BY NullApart DEF Init, Resting, Where
  <2> QED BY <2>1, InitIInv, StateVolumes DEF Init
<1>2. IInv /\ VolumeExact /\ [Next]_vars => VolumeExact'
  BY NextVolume
<1> QED BY <1>1, <1>2, Invariance, PTL DEF Spec

-----------------------------------------------------------------------------
(***************************************************************************)
(* The level quantities, which are uint32_t values: exact as long as the   *)
(* orders of no level amount to more.                                      *)
(***************************************************************************)

Fits == \A q \in Queues : Volume(q) < U32

(* clear() zeroes the levels in passing, each when its queue is walked.      *)
WalkedEmpty ==
  call.op = "clear" => \A k \in 0 .. call.want - 1 : level_qty[Walk(call.queue[1], k)] = 0

LEMMA Small == \A a \in Nat : a < U32 => a % U32 = a
  BY BookAssumption

LEMMA NextWalked ==
  ASSUME IInv, WalkedEmpty, [Next]_vars
  PROVE  WalkedEmpty'
<1> SUFFICES ASSUME call'.op = "clear", NEW k \in 0 .. call'.want - 1
             PROVE  level_qty'[Walk(call'.queue[1], k)] = 0
  BY DEF WalkedEmpty
<1>0. level_qty \in [Queues -> 0 .. U32 - 1]
  BY DEF IInv, TypeOK
<1>1. CASE Quiet
  <2>1. call' = call /\ level_qty' = level_qty
    BY <1>1, QuietVolumes
  <2> QED BY <2>1 DEF WalkedEmpty
<1>2. ASSUME NEW b \in Books, NEW s \in Sides, NEW p \in PriceInputs, NEW x \in Quantities,
             Enqueue(b, s, p, x)
      PROVE  FALSE
  BY <1>2 DEF Enqueue, Idle, NoCall
<1>3. ASSUME NEW n \in Orders, FillPart(n) PROVE FALSE
  BY <1>3, FillPartVolumes
<1>4. ASSUME NEW n \in Orders, ClearOrder(n) PROVE level_qty'[Walk(call'.queue[1], k)] = 0
  BY <1>4, ClearOrderVolumes DEF WalkedEmpty
<1>5. CASE ClearQueue
  <2>1. /\ call.op = "clear" /\ call.queue[1] \in Books /\ call.queue \in Queues
        /\ call.want \in 0 .. LastWalk /\ call.queue = Walk(call.queue[1], call.want)
        /\ call'.want = call.want + 1 /\ call'.queue[1] = call.queue[1]
        /\ level_qty' = [level_qty EXCEPT ![call.queue] = 0]
    BY <1>5, ClearQueueVolumes
  <2>2. k \in 0 .. call.want /\ k \in 0 .. LastWalk
    BY <2>1, BookAssumption DEF LastWalk
  <2>3. Walk(call.queue[1], k) \in Queues
    BY <2>1, <2>2, WalkQueues
  <2>4. k # call.want => level_qty[Walk(call.queue[1], k)] = 0
    BY <2>1, <2>2 DEF WalkedEmpty
  <2>5. k = call.want => Walk(call.queue[1], k) = call.queue
    BY <2>1
  <2> QED BY <1>0, <2>1, <2>3, <2>4, <2>5
<1>6. ~ClearEnd
  BY DEF ClearEnd, NoCall
<1> QED BY <1>1, <1>2, <1>3, <1>4, <1>5, <1>6, Steps

LEMMA NextLevels ==
  ASSUME IInv, LevelQtyExact, WalkedEmpty, Fits, Fits', [Next]_vars
  PROVE  LevelQtyExact'
<1> SUFFICES ASSUME NEW q \in Queues, ~Clearing(q[1])'
             PROVE  level_qty'[q] = Volume(q)'
  BY DEF LevelQtyExact
<1>0. /\ level_qty \in [Queues -> 0 .. U32 - 1] /\ Volume(q) \in Nat /\ Volume(q)' \in Nat
      /\ ~Clearing(q[1]) => level_qty[q] = Volume(q)
      /\ Volume(q) < U32 /\ Volume(q)' < U32
  BY StateVolumes, NextVolumes DEF IInv, TypeOK, LevelQtyExact, Fits
<1>1. CASE Quiet
  <2>1. ~Clearing(q[1])
    BY <1>1, QuietVolumes DEF Clearing
  <2> QED BY <1>0, <1>1, <2>1, QuietVolumes DEF Kept
<1>2. ASSUME NEW b \in Books, NEW s \in Sides, NEW p \in PriceInputs, NEW x \in Quantities,
             Enqueue(b, s, p, x)
      PROVE  level_qty'[q] = Volume(q)'
  <2>1. PICK l : Enqueues(b, s, p, x, l)
    BY <1>2, EnqueueVolumes
  <2>2. /\ l \in Queues /\ x \in Nat /\ call.op = "idle" /\ Volume(l)' = Volume(l) + x
        /\ \A r \in Queues : r # l => Kept(r)
        /\ level_qty' = [level_qty EXCEPT ![l] = (@ + x) % U32]
    BY <2>1 DEF Enqueues
  <2>3. level_qty[q] = Volume(q)
    BY <1>0, <2>2 DEF Clearing
  <2>4. CASE q = l
    <3>1. (Volume(q) + x) % U32 = Volume(q) + x
      BY <1>0, <2>2, <2>4, Small
    <3> QED BY <1>0, <2>2, <2>3, <2>4, <3>1
  <2>5. CASE q # l
    BY <1>0, <2>2, <2>3, <2>5 DEF Kept
  <2> QED BY <2>4, <2>5
<1>3. ASSUME NEW b \in Books, NEW n \in Orders, active[n], owner[n] = b, Remove(b, n), call.op # "clear"
      PROVE  level_qty'[q] = Volume(q)'
  <2>1. PICK l, x : Removes(b, n, l, x)
    BY <1>3, RemoveVolumes
  <2>2. /\ l \in Queues /\ x \in Nat /\ Volume(l) = Volume(l)' + x
        /\ \A r \in Queues : r # l => Kept(r)
        /\ level_qty' = [level_qty EXCEPT ![l] = IF @ >= x THEN @ - x ELSE 0]
    BY <2>1 DEF Removes
  <2>3. level_qty[q] = Volume(q)
    BY <1>0, <1>3 DEF Clearing
  <2>4. CASE q = l
    <3>1. level_qty[q] >= x
      BY <1>0, <2>2, <2>3, <2>4
    <3> QED BY <1>0, <2>2, <2>3, <2>4, <3>1
  <2>5. CASE q # l
    BY <1>0, <2>2, <2>3, <2>5 DEF Kept
  <2> QED BY <2>4, <2>5
<1>4. ASSUME NEW n \in Orders, FillPart(n) PROVE level_qty'[q] = Volume(q)'
  <2>1. PICK l, w : l = call.queue /\ w = call.want
    OBVIOUS
  <2>2. /\ l \in Queues /\ w \in Nat /\ Volume(l)' = Volume(l) - w
        /\ \A r \in Queues : r # l => Kept(r)
        /\ level_qty' = [level_qty EXCEPT ![l] = (@ - w) % U32] /\ call.op = "trade"
    BY <1>4, <2>1, FillPartVolumes
  <2>3. level_qty[q] = Volume(q)
    BY <1>0, <2>2 DEF Clearing
  <2>4. CASE q = l
    <3>1. (Volume(q) - w) % U32 = Volume(q) - w
      BY <1>0, <2>2, <2>4, Small
    <3> QED BY <1>0, <2>2, <2>3, <2>4, <3>1
  <2>5. CASE q # l
    BY <1>0, <2>2, <2>3, <2>5 DEF Kept
  <2> QED BY <2>4, <2>5
<1>5. ASSUME NEW n \in Orders, ClearOrder(n) PROVE level_qty'[q] = Volume(q)'
  <2>1. q[1] # call.queue[1] /\ ~Clearing(q[1])
    BY <1>5, ClearOrderVolumes DEF Clearing
  <2> QED BY <1>0, <1>5, <2>1, ClearOrderVolumes DEF Kept
<1>6. CASE ClearQueue
  <2>1. q[1] # call.queue[1] /\ ~Clearing(q[1])
    BY <1>6, ClearQueueVolumes DEF Clearing
  <2>2. q # call.queue
    BY <2>1
  <2> QED BY <1>0, <1>6, <2>1, <2>2, ClearQueueVolumes DEF Kept
<1>7. CASE ClearEnd
  <2>1. PICK b : b = call.queue[1]
    OBVIOUS
  <2>2. CASE q[1] = b
    <3>1. b \in Books /\ call.op = "clear" /\ call.want = LastWalk /\ call.queue = Walk(b, LastWalk)
          /\ call.queue \in Queues /\ level_qty' = [level_qty EXCEPT ![call.queue] = 0]
      BY <1>7, <2>1, ClearEndVolumes
    <3>2. PICK k \in 0 .. LastWalk : q = Walk(b, k)
      BY <2>2, <3>1, WalkQueues
    <3>3. k # LastWalk => level_qty[q] = 0
      <4> SUFFICES ASSUME k # LastWalk PROVE level_qty[q] = 0
        OBVIOUS
      <4>1. k \in 0 .. call.want - 1
        BY <3>1, <3>2, BookAssumption DEF LastWalk
      <4>2. level_qty[Walk(call.queue[1], k)] = 0
        BY <3>1, <4>1 DEF WalkedEmpty
      <4> QED BY <2>1, <3>2, <4>2
    <3>4. level_qty'[q] = 0
      BY <1>0, <3>1, <3>2, <3>3
    <3>5. Volume(q)' = 0
      BY <1>7, <2>1, <2>2, ClearEndVolumes, StateVolumes DEF Kept
    <3> QED BY <3>4, <3>5
  <2>3. CASE q[1] # b
    <3>1. ~Clearing(q[1]) /\ q # call.queue
      BY <2>1, <2>3 DEF Clearing
    <3> QED BY <1>0, <1>7, <2>1, <2>3, <3>1, ClearEndVolumes DEF Kept
  <2> QED BY <2>2, <2>3
<1> QED BY <1>1, <1>2, <1>3, <1>4, <1>5, <1>6, <1>7, Steps

LEMMA NothingRests ==
  ASSUME Init
  PROVE  \A q \in Queues : Resting(q) = {} /\ Volume(q) = 0
<1>1. \A q \in Queues : Resting(q) = {}
  BY NullApart DEF Init, Resting, Where
<1> QED BY <1>1, InitIInv, StateVolumes

(* While no level outgrows a uint32_t, bid_qty and ask_qty are the           *)
(* quantities of the resting orders after any sequence of calls.             *)
THEOREM LevelsExact == Spec /\ []Fits => []LevelQtyExact
<1>1. Init => LevelQtyExact /\ WalkedEmpty
  BY NothingRests DEF Init, NoCall, LevelQtyExact, WalkedEmpty
<1>2. IInv /\ LevelQtyExact /\ WalkedEmpty /\ Fits /\ Fits' /\ [Next]_vars => LevelQtyExact' /\ WalkedEmpty'
  BY NextLevels, NextWalked
<1> QED BY <1>1, <1>2, Invariance, PTL DEF Spec

-----------------------------------------------------------------------------
(***************************************************************************)
(* The best prices, exact as long as quantities are positive and no level  *)
(* outgrows a uint32_t.                                                    *)
(***************************************************************************)

Positive == \A n \in Orders : active[n] => qty[n] > 0

LEMMA NextPositive ==
  ASSUME 0 \notin Quantities, IInv, Positive, [Next]_vars
  PROVE  Positive'
<1>0. qty \in [Orders -> Nat] /\ active \in [Orders -> BOOLEAN]
  BY StateVolumes DEF IInv, TypeOK
<1>1. CASE Quiet
  BY <1>1, QuietVolumes DEF Positive
<1>2. ASSUME NEW b \in Books, NEW s \in Sides, NEW p \in PriceInputs, NEW x \in Quantities,
             Enqueue(b, s, p, x)
      PROVE  Positive'
  <2>1. active' = [active EXCEPT ![free_head] = TRUE] /\ qty' = [qty EXCEPT ![free_head] = x]
    BY <1>2 DEF Enqueue
  <2>2. x > 0
    BY BookAssumption
  <2> QED BY <1>0, <2>1, <2>2 DEF Positive
<1>3. ASSUME NEW n \in Orders, active' = [active EXCEPT ![n] = FALSE], qty' = [qty EXCEPT ![n] = 0]
      PROVE  Positive'
  BY <1>0, <1>3 DEF Positive
<1>4. ASSUME NEW b \in Books, NEW n \in Orders, Remove(b, n) PROVE Positive'
  BY <1>0, <1>3, <1>4 DEF Remove, Free, order_vars, Positive
<1>5. ASSUME NEW n \in Orders, ClearOrder(n) PROVE Positive'
  BY <1>3, <1>5, ClearsActive DEF ClearOrder, Free
<1>6. ASSUME NEW n \in Orders, FillPart(n) PROVE Positive'
  <2>1. PICK l, w : l = call.queue /\ w = call.want
    OBVIOUS
  <2>2. w \in Nat /\ w < qty[n] /\ qty' = [qty EXCEPT ![n] = @ - w] /\ active' = active
    BY <1>6, <2>1, FillPartVolumes
  <2> QED BY <1>0, <2>2 DEF Positive
<1>7. ASSUME ClearQueue \/ ClearEnd PROVE Positive'
  BY <1>7 DEF ClearQueue, ClearEnd, order_vars, Positive
<1> QED BY <1>1, <1>2, <1>4, <1>5, <1>6, <1>7, Steps

(* The prices at which book b has an order to buy or sell. *)
HeldAt(b, s) == {p \in Prices : Resting(<<b, s, p>>) # {}}

(* The levels that hold orders, by the trees and by the uint32_t levels.     *)
LevelsHeld ==
  \A b \in Books, s \in Sides : ~Clearing(b) =>
    \A p \in Prices : /\ p \in HeldAt(b, s) <=> bit[<<b, s, p>>] > 0
                      /\ p \in HeldAt(b, s) <=> bit[<<b, s, p>>] # 0
                      /\ p \in HeldAt(b, s) <=> level_qty[<<b, s, p>>] # 0

LEMMA LevelsHeldAlways == IInv /\ Positive /\ VolumeExact /\ LevelQtyExact => LevelsHeld
<1> SUFFICES ASSUME IInv, Positive, VolumeExact, LevelQtyExact,
                    NEW b \in Books, NEW s \in Sides, ~Clearing(b), NEW p \in Prices
             PROVE  /\ p \in HeldAt(b, s) <=> bit[<<b, s, p>>] > 0
                    /\ p \in HeldAt(b, s) <=> bit[<<b, s, p>>] # 0
                    /\ p \in HeldAt(b, s) <=> level_qty[<<b, s, p>>] # 0
  BY DEF LevelsHeld
<1> DEFINE q == <<b, s, p>>
<1>1. q \in Queues /\ q[1] = b
  BY QueueOf
<1> HIDE DEF q
<1>2. bit[q] = Volume(q) /\ level_qty[q] = Volume(q)
  BY <1>1 DEF VolumeExact, LevelQtyExact
<1>3. \A n \in Resting(q) : qty[n] > 0
  BY <1>1, WhereActive, NullApart DEF IInv, Positive, Resting
<1>4. Volume(q) \in Nat /\ (Volume(q) > 0 <=> Resting(q) # {})
  BY <1>3, StateVolumes
<1>5. p \in HeldAt(b, s) <=> Resting(q) # {}
  BY DEF q, HeldAt
<1>6. /\ p \in HeldAt(b, s) <=> bit[q] > 0
      /\ p \in HeldAt(b, s) <=> bit[q] # 0
      /\ p \in HeldAt(b, s) <=> level_qty[q] # 0
  BY <1>2, <1>4, <1>5
<1> QED BY <1>6 DEF q

BestHeld ==
  \A b \in Books, s \in Sides : ~Clearing(b) =>
    IF HeldAt(b, s) = {} THEN best[<<b, s>>] = NoBest(s) ELSE best[<<b, s>>] \in HeldAt(b, s)

LEMMA HeldIsBest ==
  ASSUME IInv, LevelsHeld, BestHeld
  PROVE  BestExact
<1> SUFFICES ASSUME NEW b \in Books, NEW s \in Sides, ~Clearing(b)
             PROVE  IF HeldAt(b, s) = {} THEN best[<<b, s>>] = NoBest(s)
                    ELSE /\ best[<<b, s>>] \in HeldAt(b, s)
                         /\ \A p \in HeldAt(b, s) : ~Better(s, p, best[<<b, s>>])
  BY Zenon DEF BestExact, HeldAt
<1>1. IF HeldAt(b, s) = {} THEN best[<<b, s>>] = NoBest(s) ELSE best[<<b, s>>] \in HeldAt(b, s)
  BY DEF BestHeld
<1>2. ASSUME NEW p \in HeldAt(b, s) PROVE ~Better(s, p, best[<<b, s>>])
  <2>1. p \in Prices
    BY DEF HeldAt
  <2>2. bit[<<b, s, p>>] > 0
    <3>1. \A o \in Prices : o \in HeldAt(b, s) => bit[<<b, s, o>>] > 0
      BY DEF LevelsHeld
    <3> HIDE DEF HeldAt
    <3> QED
      BY <2>1, <3>1
  <2>3. PICK q \in Queues : q = <<b, s, p>> /\ q[1] = b /\ q[2] = s /\ q[3] = p
    <3> DEFINE l == <<b, s, p>>
    <3>1. l \in Queues /\ l[1] = b /\ l[2] = s /\ l[3] = p
      BY <2>1, QueueOf
    <3> QED
      BY <3>1
  <2>4. ~Better(q[2], q[3], best[<<q[1], q[2]>>])
    BY <2>2, <2>3 DEF IInv, BestNotBehind
  <2> QED BY <2>3, <2>4
<1> QED BY <1>1, <1>2

(* A side whose levels are left alone. *)
LEMMA HeldKept ==
  ASSUME NEW b \in Books, NEW s \in Sides, \A p \in Prices : Kept(<<b, s, p>>)
  PROVE  HeldAt(b, s)' = HeldAt(b, s)
  BY DEF HeldAt, Kept

LEMMA NextHeld ==
  ASSUME IInv, LevelsHeld, LevelsHeld', BestHeld, [Next]_vars
  PROVE  BestHeld'
<1> SUFFICES ASSUME NEW b \in Books, NEW s \in Sides, ~Clearing(b)'
             PROVE  IF HeldAt(b, s)' = {} THEN best'[<<b, s>>] = NoBest(s)
                    ELSE best'[<<b, s>>] \in HeldAt(b, s)'
  BY DEF BestHeld
<1> DEFINE Goal == IF HeldAt(b, s)' = {} THEN best'[<<b, s>>] = NoBest(s)
                   ELSE best'[<<b, s>>] \in HeldAt(b, s)'
<1>0. /\ best \in [Books \X Sides -> Prices \cup {INVALID_PRICE}] /\ <<b, s>> \in Books \X Sides
      /\ ~Clearing(b) => IF HeldAt(b, s) = {} THEN best[<<b, s>>] = NoBest(s)
                         ELSE best[<<b, s>>] \in HeldAt(b, s)
      /\ \A p \in Prices : /\ <<b, s, p>> \in Queues /\ <<b, s, p>>[1] = b
                           /\ <<b, s, p>>[2] = s /\ <<b, s, p>>[3] = p
  BY QueueOf DEF IInv, TypeOK, BestHeld
<1>1. ASSUME ~Clearing(b), \A p \in Prices : Kept(<<b, s, p>>), best'[<<b, s>>] = best[<<b, s>>]
      PROVE  Goal
  BY <1>0, <1>1, HeldKept
<1>2. ASSUME Quiet PROVE Goal
  <2>1. ~Clearing(b)
    BY <1>2, QuietVolumes DEF Clearing
  <2> QED BY <1>1, <1>2, <2>1, QuietVolumes
<1>3. ASSUME NEW c \in Books, NEW t \in Sides, NEW p \in PriceInputs, NEW x \in Quantities,
             Enqueue(c, t, p, x)
      PROVE  Goal
  <2>1. PICK l : Enqueues(c, t, p, x, l)
    BY <1>3, EnqueueVolumes
  <2>2. /\ l = <<c, t, p>> /\ l \in Queues /\ call.op = "idle" /\ Resting(l)' # {}
        /\ \A r \in Queues : r # l => Kept(r)
        /\ best' = IF Better(t, p, best[<<c, t>>]) THEN [best EXCEPT ![<<c, t>>] = p] ELSE best
    BY <2>1 DEF Enqueues
  <2>3. ~Clearing(b) /\ p \in Prices /\ p \in Nat /\ p < INVALID_PRICE
    BY <1>3, <2>2, BookAssumption DEF Clearing, Enqueue, Prices, INVALID_PRICE
  <2>4. CASE <<b, s>> # <<c, t>>
    <3>1. \A o \in Prices : Kept(<<b, s, o>>)
      BY <1>0, <2>2, <2>4
    <3>2. best'[<<b, s>>] = best[<<b, s>>]
      BY <1>0, <2>2, <2>4
    <3> QED BY <1>1, <2>3, <3>1, <3>2
  <2>5. CASE <<b, s>> = <<c, t>>
    <3>1. b = c /\ s = t /\ l = <<b, s, p>>
      BY <2>2, <2>5
    <3>2. p \in HeldAt(b, s)'
      BY <2>2, <2>3, <3>1 DEF HeldAt
    <3>3. \A o \in HeldAt(b, s) : o \in HeldAt(b, s)'
      <4> SUFFICES ASSUME NEW o \in HeldAt(b, s), o # p PROVE o \in HeldAt(b, s)'
        BY <3>2
      <4>1. o \in Prices /\ Resting(<<b, s, o>>) # {}
        BY DEF HeldAt
      <4>2. <<b, s, o>> \in Queues /\ <<b, s, o>> # l
        BY <1>0, <3>1, <4>1
      <4>3. Resting(<<b, s, o>>)' # {}
        BY <2>2, <4>1, <4>2 DEF Kept
      <4> QED BY <4>1, <4>3 DEF HeldAt
    <3>4. best'[<<b, s>>] = IF Better(s, p, best[<<b, s>>]) THEN p ELSE best[<<b, s>>]
      BY <1>0, <2>2, <3>1
    <3>5. HeldAt(b, s) = {} /\ ~Better(s, p, NoBest(s)) => p = NoBest(s)
      BY <2>3 DEF Better, NoBest, Sides
    <3> QED BY <1>0, <2>3, <3>2, <3>3, <3>4, <3>5
  <2> QED BY <2>4, <2>5
<1>4. ASSUME NEW c \in Books, NEW n \in Orders, active[n], owner[n] = c, Remove(c, n), call.op # "clear"
      PROVE  Goal
  <2>1. PICK l, x : Removes(c, n, l, x)
    BY <1>4, RemoveVolumes
  <2>2. /\ l \in Queues /\ n \in Resting(l) /\ \A r \in Queues : r # l => Kept(r)
        /\ best' = IF l[3] = best[<<l[1], l[2]>>] /\ level_qty'[l] = 0
                     THEN [best EXCEPT ![<<l[1], l[2]>>] = BestOf(bit', l[1], l[2])]
                     ELSE best
    BY <2>1 DEF Removes
  <2>3. ~Clearing(b)
    BY <1>4 DEF Clearing
  <2>4. l[1] \in Books /\ l[2] \in Sides /\ l[3] \in Prices /\ l = <<l[1], l[2], l[3]>>
    BY <2>2, QueueParts
  <2>5. CASE <<b, s>> # <<l[1], l[2]>>
    <3>1. \A o \in Prices : Kept(<<b, s, o>>)
      <4> SUFFICES ASSUME NEW o \in Prices PROVE Kept(<<b, s, o>>)
        OBVIOUS
      <4>1. PICK r \in Queues : r = <<b, s, o>> /\ r[1] = b /\ r[2] = s
        BY <1>0
      <4>2. r # l
        BY <2>5, <4>1
      <4> QED BY <2>2, <4>1, <4>2
    <3>2. best'[<<b, s>>] = best[<<b, s>>]
      BY <1>0, <2>2, <2>5
    <3> QED BY <1>1, <2>3, <3>1, <3>2
  <2>6. CASE <<b, s>> = <<l[1], l[2]>>
    <3>1. b = l[1] /\ s = l[2] /\ l = <<b, s, l[3]>>
      BY <2>4, <2>6
    <3>2. l[3] \in HeldAt(b, s)
      BY <2>2, <2>4, <3>1 DEF HeldAt
    <3>3. best[<<b, s>>] \in HeldAt(b, s)
      BY <1>0, <2>3, <3>2
    <3>4. CASE l[3] = best[<<b, s>>] /\ level_qty'[l] = 0
      <4>1. best'[<<b, s>>] = BestOf(bit', b, s)
        BY <1>0, <2>2, <3>1, <3>4
      <4>2. Nonzero(bit', b, s) = HeldAt(b, s)'
        <5>1. \A p \in Prices : p \in HeldAt(b, s)' <=> bit'[<<b, s, p>>] # 0
          BY DEF LevelsHeld
        <5>2. \A p : p \in HeldAt(b, s)' => p \in Prices
          BY DEF HeldAt
        <5> QED BY <5>1, <5>2 DEF Nonzero
      <4>3. IF Nonzero(bit', b, s) = {} THEN BestOf(bit', b, s) = NoBest(s)
            ELSE BestOf(bit', b, s) \in Nonzero(bit', b, s)
        BY BestOfExact
      <4> QED BY <4>1, <4>2, <4>3
    <3>5. CASE level_qty'[l] # 0
      <4>1. level_qty'[<<b, s, l[3]>>] # 0
        BY <3>1, <3>5
      <4>2. l[3] \in HeldAt(b, s)'
        BY <2>4, <4>1 DEF LevelsHeld
      <4>3. ASSUME NEW o \in HeldAt(b, s), o # l[3] PROVE o \in HeldAt(b, s)'
        <5>1. o \in Prices /\ Resting(<<b, s, o>>) # {}
          BY DEF HeldAt
        <5>2. PICK r \in Queues : r = <<b, s, o>> /\ r[3] = o
          BY <1>0, <5>1
        <5>3. Resting(r)' # {}
          BY <2>2, <4>3, <5>1, <5>2 DEF Kept
        <5> QED BY <5>1, <5>2, <5>3 DEF HeldAt
      <4>4. best' = best
        BY <2>2, <3>5
      <4> QED BY <3>3, <4>2, <4>3, <4>4
    <3>6. CASE l[3] # best[<<b, s>>]
      <4> DEFINE o == best[<<b, s>>]
      <4>1. o \in Prices /\ Resting(<<b, s, o>>) # {}
        BY <3>3 DEF HeldAt
      <4>2. PICK r \in Queues : r = <<b, s, o>> /\ r[3] = o
        BY <1>0, <4>1
      <4>3. Resting(r)' # {}
        BY <2>2, <3>6, <4>1, <4>2 DEF Kept
      <4>4. best[<<b, s>>] \in HeldAt(b, s)'
        BY <4>1, <4>2, <4>3 DEF HeldAt
      <4>5. best' = best
        BY <2>2, <3>1, <3>6
      <4> QED BY <4>2, <4>4, <4>5
    <3> QED BY <3>4, <3>5, <3>6
  <2> QED BY <2>5, <2>6
<1>5. ASSUME NEW n \in Orders, FillPart(n) PROVE Goal
  <2>1. PICK l, w : l = call.queue /\ w = call.want
    OBVIOUS
  <2>2. (\A r : Resting(r)' = Resting(r)) /\ best' = best /\ call.op = "trade"
    BY <1>5, <2>1, FillPartVolumes
  <2>3. HeldAt(b, s)' = HeldAt(b, s)
    BY <2>2 DEF HeldAt
  <2>4. ~Clearing(b)
    BY <2>2 DEF Clearing
  <2> QED BY <1>0, <2>2, <2>3, <2>4
<1>6. ASSUME NEW n \in Orders, ClearOrder(n) PROVE Goal
  <2>1. b # call.queue[1] /\ ~Clearing(b)
    BY <1>6, ClearOrderVolumes DEF Clearing
  <2>2. \A p \in Prices : Kept(<<b, s, p>>)
    BY <1>0, <1>6, <2>1, ClearOrderVolumes
  <2> QED BY <1>1, <1>6, <2>1, <2>2, ClearOrderVolumes
<1>7. ASSUME ClearQueue PROVE Goal
  <2>1. ~Clearing(b)
    BY <1>7, ClearQueueVolumes DEF Clearing
  <2> QED BY <1>1, <1>7, <2>1, ClearQueueVolumes
<1>8. ASSUME ClearEnd PROVE Goal
  <2>1. PICK c : c = call.queue[1]
    OBVIOUS
  <2>2. /\ \A q : Kept(q)
        /\ \A q \in Queues : q[1] = c => Resting(q) = {}
        /\ best' = [bs \in Books \X Sides |-> IF bs[1] = c THEN NoBest(bs[2]) ELSE best[bs]]
    <3>1. /\ \A q : Kept(q)
          /\ \A q \in Queues : q[1] = c => Resting(q) = {}
      BY <1>8, <2>1, ClearEndVolumes
    <3>2. best' = [bs \in Books \X Sides |-> IF bs[1] = c THEN NoBest(bs[2]) ELSE best[bs]]
      BY <1>8, <2>1 DEF ClearEnd
    <3> QED BY <3>1, <3>2
  <2>3. best'[<<b, s>>] = IF b = c THEN NoBest(s) ELSE best[<<b, s>>]
    BY <1>0, <2>2
  <2>4. CASE b = c
    <3>1. HeldAt(b, s)' = {}
      BY <1>0, <2>2, <2>4 DEF HeldAt, Kept
    <3> QED BY <2>3, <2>4, <3>1
  <2>5. CASE b # c
    <3>1. ~Clearing(b)
      BY <2>1, <2>5 DEF Clearing
    <3> QED BY <1>1, <2>2, <2>3, <2>5, <3>1
  <2> QED BY <2>4, <2>5
<1> HIDE DEF Goal
<1>9. Goal
  BY <1>2, <1>3, <1>4, <1>5, <1>6, <1>7, <1>8, Steps
<1> QED BY <1>9 DEF Goal

(* All that holds while the levels fit. *)
Exact == VolumeExact /\ LevelQtyExact /\ WalkedEmpty /\ Positive /\ LevelsHeld /\ BestHeld

(* While no level outgrows a uint32_t and no order has quantity zero,       *)
(* volumes, levels, best prices and the levels that hold orders agree.       *)
THEOREM ExactWhileFitting ==
  ASSUME 0 \notin Quantities
  PROVE  Spec /\ []Fits => [](IInv /\ Exact)
<1>1. Init => Exact
  <2> SUFFICES ASSUME Init PROVE Exact
    OBVIOUS
  <2>1. VolumeExact /\ LevelQtyExact /\ WalkedEmpty /\ Positive
    BY NothingRests DEF Init, NoCall, VolumeExact, LevelQtyExact, WalkedEmpty, Positive
  <2>2. LevelsHeld
    BY <2>1, InitIInv, LevelsHeldAlways
  <2>3. BestHeld
    BY NothingRests, QueueOf DEF Init, BestHeld, HeldAt
  <2> QED BY <2>1, <2>2, <2>3 DEF Exact
<1>2. IInv /\ Exact /\ Fits /\ Fits' /\ [Next]_vars => (VolumeExact /\ LevelQtyExact /\ WalkedEmpty /\ Positive)'
  BY NextVolume, NextLevels, NextWalked, NextPositive DEF Exact
<1>3. IInv' /\ (VolumeExact /\ LevelQtyExact /\ WalkedEmpty /\ Positive)' => LevelsHeld'
  BY LevelsHeldAlways, PTL
<1>4. IInv /\ Exact /\ LevelsHeld' /\ [Next]_vars => BestHeld'
  BY NextHeld DEF Exact
<1>5. IInv /\ Exact /\ Fits /\ Fits' /\ [Next]_vars => Exact'
  BY <1>2, <1>3, <1>4, NextIInv DEF Exact
<1> QED BY <1>1, <1>5, Invariance, PTL DEF Spec

(* With positive quantities that fit their level, the best bid and ask are   *)
(* exactly the best prices at which an order rests.                          *)
THEOREM BestAlwaysExact ==
  ASSUME 0 \notin Quantities
  PROVE  Spec /\ []Fits => []BestExact
<1>1. IInv /\ Exact => BestExact
  BY HeldIsBest DEF Exact
<1> QED BY <1>1, ExactWhileFitting, PTL

-----------------------------------------------------------------------------
(***************************************************************************)
(* The depth queries                                                       *)
(***************************************************************************)

LEMMA PricesFinite == IsFiniteSet(Prices) /\ Prices \subseteq Nat
<1>1. 0 \in Int /\ MAX_PRICE_LEVELS - 1 \in Int
  BY BookAssumption
<1>2. IsFiniteSet(0 .. MAX_PRICE_LEVELS - 1)
  BY <1>1, FS_Interval
<1> QED BY <1>2 DEF Prices

(* The levels of a side of book b, by the trees and by the orders. *)
TreeLevels(b, s) == [p \in Prices |-> bit[<<b, s, p>>]]
HeldLevels(b, s) == [p \in Prices |-> Volume(<<b, s, p>>)]

LEMMA RangeIsSum ==
  ASSUME NEW b \in Books, NEW s \in Sides, TypeOK, NEW low, NEW high
  PROVE  volume_range(b, s, low, high)
           = SumOver(TreeLevels(b, s), {p \in Prices : low <= p /\ p <= high})
<1> DEFINE S == {p \in Prices : low <= p /\ p <= high}
           w == TreeLevels(b, s)
           IsRange(f) == f = [t \in SUBSET S |->
                                IF t = {} THEN 0 ELSE bit[<<b, s, AnElement(t)>>] + f[Rest(t)]]
           g == CHOOSE f : IsRange(f)
<1>1. IsFiniteSet(S) /\ S \subseteq Prices
  BY PricesFinite, FS_Subset
<1>2. \A n \in S : w[n] \in Int /\ w[n] = bit[<<b, s, n>>]
  BY <1>1, QueueOf DEF TypeOK, TreeLevels
<1>3. volume_range(b, s, low, high) = g[S]
  BY Zenon DEF volume_range, MapThenSumSet, MapThenFoldSet, AnElement, Rest
<1> HIDE DEF w, S
<1>4. \A t \in SUBSET S : t # {} => AnElement(t) \in S
  BY DEF AnElement
<1>5. \A f : IsRange(f) <=> IsSum(f, S, w)
  <2>1. \A t \in SUBSET S : t # {} => w[AnElement(t)] = bit[<<b, s, AnElement(t)>>]
    BY <1>2, <1>4
  <2>2. ASSUME NEW f
        PROVE  [t \in SUBSET S |-> IF t = {} THEN 0 ELSE bit[<<b, s, AnElement(t)>>] + f[Rest(t)]]
                 = [t \in SUBSET S |-> IF t = {} THEN 0 ELSE w[AnElement(t)] + f[Rest(t)]]
    BY <2>1
  <2> QED BY <2>2 DEF IsSum
<1>6. \E f : IsSum(f, S, w)
  BY <1>1, <1>2, SumExists
<1>8. IsSum(g, S, w)
  <2>1. \E f : IsRange(f)
    BY <1>5, <1>6
  <2>2. IsRange(g)
    BY <2>1, Zenon
  <2> QED BY <1>5, <2>2
<1>9. g[S] = SumOver(w, S)
  <2>1. IsFiniteSet(S) /\ \A n \in S : w[n] \in Int
    BY <1>1, <1>2
  <2> HIDE DEF g
  <2> QED BY <1>8, <2>1, SumUnique
<1> QED BY <1>3, <1>9 DEF S, w

LEMMA NearIsSum ==
  ASSUME IInv, NEW b \in Books, NEW s \in Sides, NEW S \in SUBSET Prices
  PROVE  MapThenSumSet(LAMBDA p : Volume(<<b, s, p>>), S) = SumOver(HeldLevels(b, s), S)
<1> DEFINE w == HeldLevels(b, s)
           IsNear(f) == f = [t \in SUBSET S |->
                               IF t = {} THEN 0 ELSE Volume(<<b, s, AnElement(t)>>) + f[Rest(t)]]
           g == CHOOSE f : IsNear(f)
<1>1. IsFiniteSet(S) /\ S \subseteq Prices
  BY PricesFinite, FS_Subset
<1>2. \A n \in S : w[n] \in Int /\ w[n] = Volume(<<b, s, n>>)
  <2>1. \A p \in Prices : Volume(<<b, s, p>>) \in Int
    BY QueueOf, StateVolumes
  <2> QED BY <1>1, <2>1 DEF HeldLevels
<1>3. MapThenSumSet(LAMBDA p : Volume(<<b, s, p>>), S) = g[S]
  BY Zenon DEF MapThenSumSet, MapThenFoldSet, AnElement, Rest
<1> HIDE DEF w
<1>4. \A t \in SUBSET S : t # {} => AnElement(t) \in S
  BY DEF AnElement
<1>5. \A f : IsNear(f) <=> IsSum(f, S, w)
  <2>1. \A t \in SUBSET S : t # {} => w[AnElement(t)] = Volume(<<b, s, AnElement(t)>>)
    BY <1>2, <1>4
  <2>2. ASSUME NEW f
        PROVE  [t \in SUBSET S |-> IF t = {} THEN 0 ELSE Volume(<<b, s, AnElement(t)>>) + f[Rest(t)]]
                 = [t \in SUBSET S |-> IF t = {} THEN 0 ELSE w[AnElement(t)] + f[Rest(t)]]
    BY <2>1
  <2> QED BY <2>2 DEF IsSum
<1>6. \E f : IsSum(f, S, w)
  BY <1>1, <1>2, SumExists
<1>8. IsSum(g, S, w)
  <2>1. \E f : IsNear(f)
    BY <1>5, <1>6
  <2>2. IsNear(g)
    BY <2>1, Zenon
  <2> QED BY <1>5, <2>2
<1>9. g[S] = SumOver(w, S)
  <2>1. IsFiniteSet(S) /\ \A n \in S : w[n] \in Int
    BY <1>1, <1>2
  <2> HIDE DEF g
  <2> QED BY <1>8, <2>1, SumUnique
<1> QED BY <1>3, <1>9 DEF w

(* The prices within so many levels of at. *)
Within(at, levels) == {p \in Prices : at - levels <= p /\ p <= at + levels}
NearVolume(b, s, at, levels) ==
  MapThenSumSet(LAMBDA p : Volume(<<b, s, p>>), Within(at, levels))

(* What the trees sum from low to high is what rests there, if the prices    *)
(* that are left out or counted besides hold nothing.                        *)
LEMMA RangeCounts ==
  ASSUME IInv, VolumeExact, LevelsHeld, NEW b \in Books, ~Clearing(b), NEW s \in Sides,
         NEW low \in Int, NEW high \in Int, NEW at \in Int, NEW levels \in Int,
         \A p \in Prices : low <= p /\ p <= high => p \in Within(at, levels),
         \A p \in HeldAt(b, s) : p \in Within(at, levels) => low <= p /\ p <= high
  PROVE  volume_range(b, s, low, high)
           = NearVolume(b, s, at, levels)
<1> DEFINE S == Within(at, levels)
           T == {p \in Prices : low <= p /\ p <= high}
           w == TreeLevels(b, s)
           v == HeldLevels(b, s)
<1>1. S \in SUBSET Prices /\ T \in SUBSET S /\ IsFiniteSet(S)
  BY PricesFinite, FS_Subset DEF Within
<1>2. volume_range(b, s, low, high) = SumOver(w, T)
  BY RangeIsSum DEF IInv
<1>3. NearVolume(b, s, at, levels) = SumOver(v, S)
  BY <1>1, NearIsSum DEF NearVolume
<1>4. \A p \in Prices : w[p] \in Int /\ w[p] = v[p] /\ (p \notin HeldAt(b, s) => w[p] = 0)
  <2> SUFFICES ASSUME NEW p \in Prices
               PROVE  w[p] \in Int /\ w[p] = v[p] /\ (p \notin HeldAt(b, s) => w[p] = 0)
    OBVIOUS
  <2> DEFINE q == <<b, s, p>>
  <2>1. q \in Queues /\ q[1] = b
    BY QueueOf
  <2>2. w[p] = bit[q] /\ v[p] = Volume(q)
    BY DEF TreeLevels, HeldLevels
  <2>3. p \in HeldAt(b, s) <=> bit[q] # 0
    BY DEF LevelsHeld
  <2> HIDE DEF q
  <2>4. bit[q] = Volume(q) /\ bit[q] \in Int
    BY <2>1 DEF VolumeExact, IInv, TypeOK
  <2> QED BY <2>2, <2>3, <2>4
<1> HIDE DEF w, v
<1>5. SumOver(w, S) = SumOver(v, S)
  BY <1>1, <1>4, SumSame
<1>6. \A p \in S \ T : w[p] = 0
  BY <1>1, <1>4 DEF Within
<1>7. SumOver(w, S) = SumOver(w, T)
  <2> HIDE DEF S, T
  <2> QED BY <1>1, <1>4, <1>6, SumZeroes
<1> QED BY <1>2, <1>3, <1>5, <1>7

LEMMA MaxMin ==
  ASSUME NEW S, S \subseteq Int, NEW x \in S
  PROVE  /\ (\A y \in S : x >= y) => Max(S) = x
         /\ (\A y \in S : x <= y) => Min(S) = x
<1>1. ASSUME \A y \in S : x >= y PROVE Max(S) = x
  <2>1. \E z \in S : \A y \in S : z >= y
    BY <1>1
  <2>2. Max(S) = CHOOSE z \in S : \A y \in S : z >= y
    BY Zenon DEF Max
  <2>3. Max(S) \in S /\ \A y \in S : Max(S) >= y
    BY <2>1, <2>2
  <2>4. x \in Int /\ Max(S) \in Int /\ Max(S) >= x /\ x >= Max(S)
    BY <1>1, <2>3
  <2> HIDE DEF Max
  <2> QED BY <2>4
<1>2. ASSUME \A y \in S : x <= y PROVE Min(S) = x
  <2>1. \E z \in S : \A y \in S : z =< y
    BY <1>2
  <2>2. Min(S) = CHOOSE z \in S : \A y \in S : z =< y
    BY Zenon DEF Min
  <2>3. Min(S) \in S /\ \A y \in S : Min(S) =< y
    BY <2>1, <2>2
  <2>4. x \in Int /\ Min(S) \in Int /\ Min(S) =< x /\ x <= Min(S)
    BY <1>2, <2>3
  <2> HIDE DEF Min
  <2> QED BY <2>4
<1> QED BY <1>1, <1>2

LEMMA DepthHolds == IInv /\ VolumeExact /\ LevelsHeld /\ BestExact => DepthExact
<1> SUFFICES ASSUME IInv, VolumeExact, LevelsHeld, BestExact,
                    NEW b \in Books, NEW levels \in 0 .. U32 - 1, ~Clearing(b)
             PROVE  /\ HeldAt(b, "bid") = {} => bid_depth(b, levels) = 0
                    /\ ~(HeldAt(b, "bid") \subseteq {0}) =>
                         bid_depth(b, levels)
                           = NearVolume(b, "bid", Max(HeldAt(b, "bid")), levels)
                    /\ HeldAt(b, "ask") = {} => ask_depth(b, levels) = 0
                    /\ HeldAt(b, "ask") # {} /\ Min(HeldAt(b, "ask")) + levels < U32 =>
                         ask_depth(b, levels)
                           = NearVolume(b, "ask", Min(HeldAt(b, "ask")), levels)
  BY Zenon DEF DepthExact, HeldAt, Within, NearVolume
<1>0. /\ levels \in Nat
      /\ MAX_PRICE_LEVELS \in Nat /\ U32 \in Nat /\ MAX_PRICE_LEVELS < U32
      /\ \A p \in Prices : p \in Nat /\ p < MAX_PRICE_LEVELS
      /\ \A p : p \in Nat /\ p < MAX_PRICE_LEVELS => p \in Prices
  BY BookAssumption DEF Prices
<1>1. \A s \in Sides :
        /\ HeldAt(b, s) \subseteq Prices /\ HeldAt(b, s) \subseteq Int
        /\ HeldAt(b, s) = {} => best[<<b, s>>] = NoBest(s)
        /\ HeldAt(b, s) # {} => /\ best[<<b, s>>] \in HeldAt(b, s)
                                /\ \A p \in HeldAt(b, s) : ~Better(s, p, best[<<b, s>>])
  <2> SUFFICES ASSUME NEW s \in Sides
               PROVE  /\ HeldAt(b, s) \subseteq Prices /\ HeldAt(b, s) \subseteq Int
                      /\ IF HeldAt(b, s) = {} THEN best[<<b, s>>] = NoBest(s)
                         ELSE /\ best[<<b, s>>] \in HeldAt(b, s)
                              /\ \A p \in HeldAt(b, s) : ~Better(s, p, best[<<b, s>>])
    BY Zenon
  <2>1. HeldAt(b, s) \subseteq Prices /\ HeldAt(b, s) \subseteq Int
    BY <1>0 DEF HeldAt
  <2>2. IF HeldAt(b, s) = {} THEN best[<<b, s>>] = NoBest(s)
        ELSE /\ best[<<b, s>>] \in HeldAt(b, s)
             /\ \A p \in HeldAt(b, s) : ~Better(s, p, best[<<b, s>>])
    BY Zenon DEF BestExact, HeldAt
  <2> QED BY <2>1, <2>2
<1>2. /\ HeldAt(b, "bid") = {} => bid_depth(b, levels) = 0
      /\ ~(HeldAt(b, "bid") \subseteq {0}) =>
           bid_depth(b, levels) = NearVolume(b, "bid", Max(HeldAt(b, "bid")), levels)
  <2> DEFINE H   == HeldAt(b, "bid")
             top == best[<<b, "bid">>]
             low == IF top > levels THEN top - levels ELSE 0
  <2>1. /\ H \subseteq Prices /\ H \subseteq Int
        /\ H = {} => top = 0
        /\ H # {} => top \in H /\ \A p \in H : ~(p > top)
    BY <1>1 DEF Sides, NoBest, Better
  <2>2. bid_depth(b, levels) = IF top = 0 THEN 0 ELSE volume_range(b, "bid", low, top)
    BY Zenon DEF bid_depth
  <2>3. CASE H = {}
    BY <2>1, <2>2, <2>3
  <2>4. CASE ~(H \subseteq {0})
    <3>1. /\ top \in H /\ top \in Nat /\ top # 0 /\ top \in Prices
          /\ \A p \in H : p \in Nat /\ p <= top
      <4> HIDE DEF H, top
      <4>1. PICK p \in H : p # 0
        BY <2>4
      <4>2. top \in H /\ \A o \in H : o \in Nat /\ ~(o > top) /\ o \in Prices
        BY <1>0, <2>1, <4>1
      <4> QED BY <4>1, <4>2
    <3>2. Max(H) = top
      <4> HIDE DEF H, top
      <4>1. \A p \in H : top >= p
        BY <3>1
      <4> QED BY <2>1, <3>1, <4>1, MaxMin
    <3>3. \A p \in Prices : low <= p /\ p <= top => p \in Within(top, levels)
      <4> HIDE DEF top
      <4> QED BY <1>0, <3>1 DEF Within
    <3>4. \A p \in H : p \in Within(top, levels) => low <= p /\ p <= top
      <4> HIDE DEF top, H
      <4> QED BY <1>0, <3>1 DEF Within
    <3>5. low \in Int /\ top \in Int /\ levels \in Int /\ "bid" \in Sides
      <4>1. top \in Int
        BY <3>1
      <4> HIDE DEF top
      <4> QED BY <1>0, <4>1 DEF Sides
    <3>6. volume_range(b, "bid", low, top)
            = NearVolume(b, "bid", top, levels)
      <4> HIDE DEF low, top
      <4> QED BY <3>3, <3>4, <3>5, RangeCounts DEF H
    <3> HIDE DEF top, low
    <3> QED BY <2>2, <2>4, <3>1, <3>2, <3>6, Zenon DEF H
  <2>5. CASE H \subseteq {0} /\ H # {}
    BY <2>5
  <2> QED BY <2>3, <2>4, <2>5
<1>3. /\ HeldAt(b, "ask") = {} => ask_depth(b, levels) = 0
      /\ HeldAt(b, "ask") # {} /\ Min(HeldAt(b, "ask")) + levels < U32 =>
           ask_depth(b, levels) = NearVolume(b, "ask", Min(HeldAt(b, "ask")), levels)
  <2> DEFINE H    == HeldAt(b, "ask")
             top  == best[<<b, "ask">>]
             sum  == (top + levels) % U32
             high == IF sum < MAX_PRICE_LEVELS THEN sum ELSE MAX_PRICE_LEVELS - 1
  <2>1. /\ H \subseteq Prices /\ H \subseteq Int
        /\ H = {} => top = INVALID_PRICE
        /\ H # {} => top \in H /\ \A p \in H : ~(p < top)
    BY <1>1 DEF Sides, NoBest, Better
  <2>2. ask_depth(b, levels) = IF top = INVALID_PRICE THEN 0 ELSE volume_range(b, "ask", top, high)
    BY Zenon DEF ask_depth
  <2>3. CASE H = {}
    BY <2>1, <2>2, <2>3
  <2>4. CASE H # {} /\ Min(H) + levels < U32
    <3>1. /\ top \in H /\ top \in Nat /\ top # INVALID_PRICE /\ top \in Prices
          /\ top < MAX_PRICE_LEVELS
          /\ \A p \in H : p \in Nat /\ top <= p
      <4> HIDE DEF H, top
      <4>1. top \in H /\ \A p \in H : p \in Prices /\ ~(p < top)
        BY <2>1, <2>4
      <4>2. \A p \in H : p \in Nat /\ p < MAX_PRICE_LEVELS
        BY <1>0, <4>1
      <4>3. top # U32 - 1
        BY <1>0, <4>1, <4>2
      <4>4. \A p \in H : top <= p
        BY <4>1, <4>2
      <4> QED BY <4>1, <4>2, <4>3, <4>4 DEF INVALID_PRICE
    <3>2. Min(H) = top
      <4> HIDE DEF H, top
      <4>1. \A p \in H : top <= p
        BY <3>1
      <4> QED BY <2>1, <3>1, <4>1, MaxMin
    <3>3. sum = top + levels
      <4> HIDE DEF top
      <4>1. top + levels \in Nat /\ top + levels < U32
        BY <1>0, <2>4, <3>1, <3>2
      <4> QED BY <4>1, Small
    <3>4. high \in Int /\ top \in Int /\ levels \in Int /\ "ask" \in Sides
      <4> HIDE DEF top, sum
      <4>1. top \in Int /\ sum \in Int
        BY <1>0, <3>1, <3>3
      <4> QED BY <1>0, <4>1 DEF Sides
    <3>5. \A p \in Prices : top <= p /\ p <= high => p \in Within(top, levels)
      <4> HIDE DEF top, sum
      <4> QED BY <1>0, <3>1, <3>3 DEF Within
    <3>6. \A p \in H : p \in Within(top, levels) => top <= p /\ p <= high
      <4> HIDE DEF top, H, sum
      <4> QED BY <1>0, <3>1, <3>3 DEF Within
    <3>7. volume_range(b, "ask", top, high)
            = NearVolume(b, "ask", top, levels)
      <4> HIDE DEF high, top
      <4> QED BY <3>4, <3>5, <3>6, RangeCounts DEF H
    <3> HIDE DEF top, high
    <3> QED BY <2>2, <2>4, <3>1, <3>2, <3>7, Zenon DEF H
  <2>5. CASE H # {} /\ ~(Min(H) + levels < U32)
    BY <2>5
  <2> QED BY <2>3, <2>4, <2>5
<1> QED BY <1>2, <1>3

(* With positive quantities that fit their level, the depth queries answer   *)
(* what rests within so many levels of the best price; for bids when the     *)
(* best of them is above price 0, for asks when best_ask + levels fits a     *)
(* uint32_t.                                                                 *)
THEOREM DepthAlwaysExact ==
  ASSUME 0 \notin Quantities
  PROVE  Spec /\ []Fits => []DepthExact
<1>1. IInv /\ Exact => DepthExact
  BY HeldIsBest, DepthHolds DEF Exact
<1> QED BY <1>1, ExactWhileFitting, PTL

-----------------------------------------------------------------------------
(* When levels fit: quantities up to m fit if m for every order does.        *)

QtyAtMost(m) == \A n \in Orders : qty[n] <= m

LEMMA NextQtyAtMost ==
  ASSUME NEW m \in Nat, \A x \in Quantities : x <= m, IInv, QtyAtMost(m), [Next]_vars
  PROVE  QtyAtMost(m)'
<1>0. qty \in [Orders -> Nat] /\ \A n \in Orders : qty[n] <= m
  BY StateVolumes DEF QtyAtMost
<1>1. CASE Quiet
  BY <1>0, <1>1, QuietVolumes DEF QtyAtMost
<1>2. ASSUME NEW b \in Books, NEW s \in Sides, NEW p \in PriceInputs, NEW x \in Quantities,
             Enqueue(b, s, p, x)
      PROVE  QtyAtMost(m)'
  <2>1. qty' = [qty EXCEPT ![free_head] = x] /\ x <= m
    BY <1>2 DEF Enqueue
  <2> QED BY <1>0, <2>1 DEF QtyAtMost
<1>3. ASSUME NEW n \in Orders, qty' = [qty EXCEPT ![n] = 0]
      PROVE  QtyAtMost(m)'
  BY <1>0, <1>3 DEF QtyAtMost
<1>4. ASSUME NEW b \in Books, NEW n \in Orders, Remove(b, n) PROVE QtyAtMost(m)'
  BY <1>0, <1>3, <1>4 DEF Remove, Free, order_vars, QtyAtMost
<1>5. ASSUME NEW n \in Orders, ClearOrder(n) PROVE QtyAtMost(m)'
  BY <1>3, <1>5, ClearsActive DEF ClearOrder, Free
<1>6. ASSUME NEW n \in Orders, FillPart(n) PROVE QtyAtMost(m)'
  <2>1. PICK l, w : l = call.queue /\ w = call.want
    OBVIOUS
  <2>2. w \in Nat /\ w < qty[n] /\ qty' = [qty EXCEPT ![n] = @ - w]
    BY <1>6, <2>1, FillPartVolumes
  <2> QED BY <1>0, <2>2 DEF QtyAtMost
<1>7. ASSUME ClearQueue \/ ClearEnd PROVE QtyAtMost(m)'
  BY <1>0, <1>7 DEF ClearQueue, ClearEnd, order_vars, QtyAtMost
<1> QED BY <1>1, <1>2, <1>4, <1>5, <1>6, <1>7, Steps

LEMMA AtMostFits ==
  ASSUME NEW m \in Nat, m * MAX_ORDERS < U32, IInv, QtyAtMost(m)
  PROVE  Fits
<1> SUFFICES ASSUME NEW q \in Queues PROVE Volume(q) < U32
  BY DEF Fits
<1> DEFINE R == RestIn(Where, q)
<1>1. Volume(q) = SumOver(qty, R) /\ Volume(q) \in Nat /\ qty \in [Orders -> Nat]
  BY StateVolumes DEF VolumeIn
<1>2. R \subseteq Orders /\ IsFiniteSet(R) /\ Cardinality(R) <= MAX_ORDERS /\ Cardinality(R) \in Nat
  BY OrdersFinite, FS_Subset, FS_CardinalityType DEF RestIn
<1>3. \A n \in R : qty[n] \in Nat /\ qty[n] <= m
  BY <1>1, <1>2 DEF QtyAtMost
<1> HIDE DEF R
<1>4. SumOver(qty, R) <= m * Cardinality(R)
  BY <1>2, <1>3, SumAtMost
<1>5. m * Cardinality(R) <= m * MAX_ORDERS
  <2>1. \A a, c, k \in Nat : a <= c => k * a <= k * c
    OBVIOUS
  <2> QED BY <1>2, <2>1, BookAssumption
<1>6. m * Cardinality(R) \in Int /\ m * MAX_ORDERS \in Int /\ U32 \in Int
  BY <1>2, BookAssumption
<1> QED BY <1>1, <1>4, <1>5, <1>6

(* No level can outgrow a uint32_t when the orders of a full pool could not  *)
(* do so together: MAX_ORDERS is 1000000, so quantities up to 4294 fit.      *)
THEOREM SmallOrdersFit ==
  ASSUME NEW m \in Nat, \A x \in Quantities : x <= m, m * MAX_ORDERS < U32
  PROVE  Spec => []Fits
<1>1. Init => QtyAtMost(m)
  BY DEF Init, QtyAtMost
<1>2. IInv /\ QtyAtMost(m) /\ [Next]_vars => QtyAtMost(m)'
  BY NextQtyAtMost
<1>3. IInv /\ QtyAtMost(m) => Fits
  BY AtMostFits
<1> QED BY <1>1, <1>2, <1>3, Invariance, PTL DEF Spec

(* So, with such orders and none of quantity zero, levels and best prices    *)
(* are exact after any sequence of calls, and the depth queries are where    *)
(* DepthExact speaks of them: a best bid above price 0, a best_ask + levels  *)
(* that does not wrap.                                                       *)
THEOREM SmallOrdersExact ==
  ASSUME 0 \notin Quantities,
         NEW m \in Nat, \A x \in Quantities : x <= m, m * MAX_ORDERS < U32
  PROVE  Spec => [](LevelQtyExact /\ BestExact /\ DepthExact)
<1>1. Spec => []Fits
  BY SmallOrdersFit
<1> QED BY <1>1, LevelsExact, BestAlwaysExact, DepthAlwaysExact, PTL

-----------------------------------------------------------------------------
(***************************************************************************)
(* MBOBook: the best prices found by scanning the levels                   *)
(***************************************************************************)

(* MBOBook's scan is PriceLevelBook's. *)
LEMMA ScanIs ==
  ASSUME NEW b, NEW v, NEW s, NEW from
  PROVE  LevelBook(b)!Scan(v, s, from) =
           LET found == {p \in Prices : v[<<s, p>>] # 0 /\ ~Better(s, p, from)}
           IN  IF found = {} THEN NoBest(s)
               ELSE CHOOSE p \in found : \A o \in found : ~Better(s, o, p)
  BY Zenon DEF LevelBook!Scan, LevelBook!Better, LevelBook!NoBest, LevelBook!Prices,
               LevelBook!INVALID_PRICE, Better, NoBest, INVALID_PRICE, Prices

(* The levels of a side are its volumes; none is better than from; the scan. *)
SameLevels(lq, v, b, s) == \A p \in Prices : lq[<<b, s, p>>] = v[<<b, s, p>>]
NoneBetter(v, b, s, from) == \A p \in Prices : v[<<b, s, p>>] # 0 => ~Better(s, p, from)
ScanOf(lq, b, s, from) ==
  LevelBook(b)!Scan([l \in Sides \X Prices |-> lq[<<b, l[1], l[2]>>]], s, from)

(* Where levels and trees agree and no level is better than from, scanning   *)
(* the levels finds what searching the tree does.                            *)
LEMMA ScanIsBestOf ==
  ASSUME NEW b, NEW s \in Sides, NEW from, NEW lq, NEW v,
         SameLevels(lq, v, b, s), NoneBetter(v, b, s, from)
  PROVE  ScanOf(lq, b, s, from) = BestOf(v, b, s)
<1> USE DEF SameLevels, NoneBetter
<1> DEFINE u == [l \in Sides \X Prices |-> lq[<<b, l[1], l[2]>>]]
           found == {p \in Prices : u[<<s, p>>] # 0 /\ ~Better(s, p, from)}
<1>1. found = Nonzero(v, b, s)
  <2>1. \A p \in Prices : u[<<s, p>>] = v[<<b, s, p>>]
    OBVIOUS
  <2> HIDE DEF u
  <2> QED BY <2>1 DEF Nonzero
<1>2. LevelBook(b)!Scan(u, s, from) =
        IF found = {} THEN NoBest(s)
        ELSE CHOOSE p \in found : \A o \in found : ~Better(s, o, p)
  BY ScanIs, Zenon
<1> HIDE DEF found
<1>3. LevelBook(b)!Scan(u, s, from) =
        IF Nonzero(v, b, s) = {} THEN NoBest(s)
        ELSE CHOOSE p \in Nonzero(v, b, s) : \A o \in Nonzero(v, b, s) : ~Better(s, o, p)
  <2> HIDE DEF u
  <2> QED BY ONLY <1>1, <1>2, Zenon
<1> QED BY <1>3, Zenon DEF BestOf, u, ScanOf

(* Every step of both books is one of the books with Fenwick trees. *)
LEMMA ScannedSteps == [ScannedNext]_mbo_vars => [Next]_vars
  BY Zenon DEF ScannedNext, mbo_vars, ScannedEnqueue, ScannedDequeue, ScannedFillWhole, ScannedFillPart,
               ScannedClearEnd, Unscanned, Next

LEMMA ScannedSpecs == ScannedSpec => Spec
<1>1. ScannedInit => Init
  BY DEF ScannedInit
<1> QED BY <1>1, ScannedSteps, PTL DEF ScannedSpec, Spec

LEMMA NextScanned ==
  ASSUME IInv, VolumeExact, VolumeExact', LevelQtyExact', ScanAgrees, [ScannedNext]_mbo_vars
  PROVE  ScanAgrees'
<1>0. scanned = best /\ IInv
  BY DEF ScanAgrees
<1>1. ASSUME NEW b \in Books, NEW n \in Orders, active[n], owner[n] = b, Remove(b, n), ScanBest(b, n),
             call.op # "clear", call'.op # "clear"
      PROVE  scanned' = best'
  <2>1. PICK q, x : Removes(b, n, q, x)
    BY <1>1, RemoveVolumes
  <2>2. PICK s, p : s = side[n] /\ p = price[n]
    OBVIOUS
  <2>3. /\ q = <<b, s, p>> /\ q \in Queues /\ s \in Sides /\ p \in Prices
        /\ q[1] = b /\ q[2] = s /\ q[3] = p
        /\ best' = IF p = best[<<b, s>>] /\ level_qty'[q] = 0
                     THEN [best EXCEPT ![<<b, s>>] = BestOf(bit', b, s)] ELSE best
        /\ bit' = [bit EXCEPT ![q] = @ - x]
        /\ x \in Nat
    BY <2>1, <2>2, QueueParts, Zenon DEF Removes
  <2>4. scanned' = IF p = scanned[<<b, s>>] /\ level_qty'[q] = 0
                     THEN [scanned EXCEPT ![<<b, s>>] = LevelBook(b)!Scan(
                             [l \in Sides \X Prices |-> level_qty'[<<b, l[1], l[2]>>]], s, p)]
                     ELSE scanned
    BY <1>1, <2>2, <2>3, Zenon DEF ScanBest
  <2>5. ASSUME p = best[<<b, s>>]
        PROVE  LevelBook(b)!Scan([l \in Sides \X Prices |-> level_qty'[<<b, l[1], l[2]>>]], s, p)
                 = BestOf(bit', b, s)
    <3>1. ~Clearing(b) /\ ~Clearing(b)'
      BY <1>1 DEF Clearing
    <3>2. ASSUME NEW o \in Prices
          PROVE  /\ level_qty'[<<b, s, o>>] = bit'[<<b, s, o>>]
                 /\ bit'[<<b, s, o>>] # 0 => ~Better(s, o, p)
      <4> DEFINE r == <<b, s, o>>
      <4>1. r \in Queues /\ r[1] = b /\ r[2] = s /\ r[3] = o
        BY <2>3, QueueOf
      <4> HIDE DEF r
      <4>2. level_qty'[r] = Volume(r)' /\ bit'[r] = Volume(r)' /\ bit[r] = Volume(r)
        BY <3>1, <4>1 DEF VolumeExact, LevelQtyExact
      <4>3. Volume(r)' \in Nat
        BY ScannedSteps, NextVolumes
      <4>4. bit \in [Queues -> Int]
        BY DEF IInv, TypeOK
      <4>5. bit'[r] > 0 => bit[r] > 0
        BY <2>3, <4>1, <4>2, <4>3, <4>4
      <4>6. bit[r] > 0 => ~Better(s, o, p)
        BY <2>5, <4>1 DEF IInv, BestNotBehind
      <4>7. bit'[r] # 0 => bit'[r] > 0
        BY <4>2, <4>3
      <4>8. level_qty'[r] = bit'[r] /\ (bit'[r] # 0 => ~Better(s, o, p))
        BY <4>2, <4>5, <4>6, <4>7
      <4> QED BY <4>8, Zenon DEF r
    <3>3. PICK lq, v : lq = level_qty' /\ v = bit'
      OBVIOUS
    <3>4. SameLevels(lq, v, b, s) /\ NoneBetter(v, b, s, p)
      BY <3>2, <3>3, Zenon DEF SameLevels, NoneBetter
    <3>5. s \in Sides
      BY <2>3
    <3>6. ScanOf(lq, b, s, p) = BestOf(v, b, s)
      BY ONLY <3>4, <3>5, ScanIsBestOf, Zenon
    <3> QED BY <3>3, <3>6, Zenon DEF ScanOf
  <2> QED BY <1>0, <2>3, <2>4, <2>5, Zenon
<1>2. ASSUME NEW b \in Books, NEW s \in Sides, NEW p \in PriceInputs, NEW x \in Quantities,
             ScannedEnqueue(b, s, p, x)
      PROVE  scanned' = best'
  BY <1>0, <1>2, Zenon DEF ScannedEnqueue, Enqueue
<1>3. ASSUME NEW b \in Books, NEW n \in Orders, ScannedDequeue(b, n)
      PROVE  scanned' = best'
  <2>1. /\ active[n] /\ owner[n] = b /\ Remove(b, n) /\ ScanBest(b, n)
        /\ call.op # "clear" /\ call'.op # "clear"
    BY <1>3 DEF ScannedDequeue, Dequeue, Idle, NoCall
  <2> QED BY <1>1, <2>1
<1>4. ASSUME NEW n \in Orders, ScannedFillWhole(n)
      PROVE  scanned' = best'
  <2>1. FillWhole(n) /\ ScanBest(call.queue[1], n)
    BY <1>4 DEF ScannedFillWhole
  <2>2. /\ call.queue[1] \in Books /\ active[n] /\ owner[n] = call.queue[1]
        /\ Remove(call.queue[1], n)
        /\ call.op # "clear" /\ call'.op # "clear"
    BY <2>1, FilledOrder
  <2> QED BY <1>1, <2>1, <2>2
<1>5. ASSUME NEW n \in Orders, ScannedFillPart(n)
      PROVE  scanned' = best'
  <2>1. FillPart(n) /\ scanned' = scanned
    BY <1>5 DEF ScannedFillPart
  <2>2. PICK l, w : l = call.queue /\ w = call.want
    OBVIOUS
  <2>3. best' = best
    BY <2>1, <2>2, FillPartVolumes
  <2> QED BY <1>0, <2>1, <2>3
<1>6. CASE ScannedClearEnd
  <2>1. PICK b : b = call.queue[1]
    OBVIOUS
  <2>2. /\ ClearEnd
        /\ scanned' = [bs \in Books \X Sides |-> IF bs[1] = b THEN NoBest(bs[2]) ELSE scanned[bs]]
    BY <1>6, <2>1, Zenon DEF ScannedClearEnd
  <2>3. best' = [bs \in Books \X Sides |-> IF bs[1] = b THEN NoBest(bs[2]) ELSE best[bs]]
    BY <2>1, <2>2, ClearEndVolumes
  <2> QED BY <1>0, <2>2, <2>3 DEF ScanAgrees
<1>7. CASE Unscanned
  <2>1. /\ scanned' = scanned
        /\ Quiet \/ (\E n \in Orders : ClearOrder(n)) \/ ClearQueue
    BY <1>7, Zenon DEF Unscanned, Quiet
  <2>2. best' = best
    BY <2>1, QuietVolumes, ClearOrderVolumes, ClearQueueVolumes
  <2> QED BY <1>0, <2>1, <2>2 DEF ScanAgrees
<1>8. CASE UNCHANGED mbo_vars
  BY <1>0, <1>8 DEF mbo_vars, vars, level_vars, ScanAgrees
<1> QED BY <1>2, <1>3, <1>4, <1>5, <1>6, <1>7, <1>8 DEF ScannedNext, ScanAgrees

(* While no level outgrows a uint32_t, MBOBook's scan of its levels finds    *)
(* the best prices that the search of the Fenwick trees finds.               *)
THEOREM ScanAlwaysAgrees == ScannedSpec /\ []Fits => []ScanAgrees
<1>1. ScannedInit => ScanAgrees
  BY DEF ScannedInit, Init, ScanAgrees
<1>2. IInv /\ VolumeExact /\ VolumeExact' /\ LevelQtyExact' /\ ScanAgrees /\ [ScannedNext]_mbo_vars => ScanAgrees'
  BY NextScanned
<1> QED BY <1>1, <1>2, ScannedSpecs, Invariance, VolumeAlwaysExact, LevelsExact, PTL DEF ScannedSpec

-----------------------------------------------------------------------------
(* A book with orders as a PriceLevelBook *)

LevelsAlone(b) ==
  \A s \in Sides : /\ scanned'[<<b, s>>] = scanned[<<b, s>>]
                   /\ \A p \in Prices : level_qty'[<<b, s, p>>] = level_qty[<<b, s, p>>]

LevelStep(b) ==
  \/ LevelsAlone(b)
  \/ \E s \in Sides, p \in Prices :
       \/ \E x \in Quantities : LevelBook(b)!Add(s, p, x)
       \/ \E x \in 1 .. U32 - 1 : LevelBook(b)!Trade(s, p, x)

LevelTypes ==
  /\ level_qty \in [Queues -> 0 .. U32 - 1]
  /\ scanned \in [Books \X Sides -> Prices \cup {INVALID_PRICE}]

(* At most one level of book c changes, and its best price. *)
MovesOne(c, s, p, x, y) ==
  /\ level_qty' = level_qty \/ level_qty' = [level_qty EXCEPT ![<<c, s, p>>] = x]
  /\ scanned' = scanned \/ scanned' = [scanned EXCEPT ![<<c, s>>] = y]

LEMMA OthersAlone ==
  ASSUME LevelTypes, NEW b \in Books, NEW c \in Books, b # c, NEW s, NEW p, NEW x, NEW y,
         MovesOne(c, s, p, x, y)
  PROVE  LevelsAlone(b)
<1>1. ASSUME NEW t \in Sides PROVE scanned'[<<b, t>>] = scanned[<<b, t>>]
  <2>1. <<b, t>> # <<c, s>> /\ <<b, t>> \in Books \X Sides
    OBVIOUS
  <2> QED BY <2>1 DEF LevelTypes, MovesOne
<1>2. ASSUME NEW t \in Sides, NEW o \in Prices PROVE level_qty'[<<b, t, o>>] = level_qty[<<b, t, o>>]
  <2>1. <<b, t, o>> # <<c, s, p>> /\ <<b, t, o>> \in Queues
    BY QueueOf
  <2> QED BY <2>1 DEF LevelTypes, MovesOne
<1> QED BY <1>1, <1>2 DEF LevelsAlone

(* The levels and best prices of book b as functions of their own. *)
LevelsIn(lq, b) == [l \in Sides \X Prices |-> lq[<<b, l[1], l[2]>>]]
BestIn(sc, b) == [s \in Sides |-> sc[<<b, s>>]]

SetsLevel(b, s, p, y) == level_qty' = [level_qty EXCEPT ![<<b, s, p>>] = y]
LevelSet(b, s, p, y) ==
  /\ LevelsIn(level_qty, b)[<<s, p>>] = level_qty[<<b, s, p>>]
  /\ LevelsIn(level_qty', b) = [LevelsIn(level_qty, b) EXCEPT ![<<s, p>>] = y]
  /\ LevelsIn(level_qty', b)[<<s, p>>] = y

LEMMA OneLevel ==
  ASSUME LevelTypes, NEW b \in Books, NEW s \in Sides, NEW p \in Prices, NEW y, SetsLevel(b, s, p, y)
  PROVE  LevelSet(b, s, p, y)
<1> DEFINE v == LevelsIn(level_qty, b)
           w == LevelsIn(level_qty', b)
<1>1. /\ v \in [Sides \X Prices -> 0 .. U32 - 1] /\ <<s, p>> \in Sides \X Prices
      /\ \A l \in Sides \X Prices : <<b, l[1], l[2]>> \in Queues /\ v[l] = level_qty[<<b, l[1], l[2]>>]
  BY DEF LevelTypes, Queues, LevelsIn
<1>2. v[<<s, p>>] = level_qty[<<b, s, p>>]
  BY <1>1
<1>3. \A l \in Sides \X Prices :
        level_qty'[<<b, l[1], l[2]>>] = IF l = <<s, p>> THEN y ELSE v[l]
  <2> SUFFICES ASSUME NEW l \in Sides \X Prices
               PROVE  level_qty'[<<b, l[1], l[2]>>] = IF l = <<s, p>> THEN y ELSE v[l]
    OBVIOUS
  <2>1. l = <<s, p>> <=> <<b, l[1], l[2]>> = <<b, s, p>>
    OBVIOUS
  <2> HIDE DEF v
  <2> QED BY <1>1, <1>2, <2>1 DEF LevelTypes, SetsLevel
<1>4. w = [l \in Sides \X Prices |-> IF l = <<s, p>> THEN y ELSE v[l]]
  <2> HIDE DEF v
  <2> QED BY <1>3 DEF LevelsIn
<1>5. [v EXCEPT ![<<s, p>>] = y] = [l \in Sides \X Prices |-> IF l = <<s, p>> THEN y ELSE v[l]]
  <2> HIDE DEF v
  <2> QED BY <1>1
<1>6. w[<<s, p>>] = y
  <2> HIDE DEF w, v
  <2> QED BY <1>1, <1>4
<1> QED BY <1>2, <1>4, <1>5, <1>6 DEF LevelSet

LEMMA OneBest ==
  ASSUME LevelTypes, NEW b \in Books, NEW s \in Sides
  PROVE  /\ BestIn(scanned, b)[s] = scanned[<<b, s>>]
         /\ scanned' = scanned => BestIn(scanned', b) = BestIn(scanned, b)
         /\ \A y : scanned' = [scanned EXCEPT ![<<b, s>>] = y]
                     => BestIn(scanned', b) = [BestIn(scanned, b) EXCEPT ![s] = y]
  BY DEF LevelTypes, BestIn

LEMMA AddsLevel ==
  ASSUME LevelTypes, NEW b \in Books, NEW s \in Sides, NEW p \in Prices, NEW x,
         level_qty' = [level_qty EXCEPT ![<<b, s, p>>] = (@ + x) % U32],
         scanned' = IF Better(s, p, scanned[<<b, s>>]) THEN [scanned EXCEPT ![<<b, s>>] = p] ELSE scanned
  PROVE  LevelBook(b)!Add(s, p, x)
<1>1. LevelsIn(level_qty', b)
        = [LevelsIn(level_qty, b) EXCEPT ![<<s, p>>] = (LevelsIn(level_qty, b)[<<s, p>>] + x) % U32]
  <2>1. PICK y : y = (level_qty[<<b, s, p>>] + x) % U32
    OBVIOUS
  <2>2. SetsLevel(b, s, p, y)
    BY <2>1 DEF SetsLevel
  <2>3. /\ LevelsIn(level_qty, b)[<<s, p>>] = level_qty[<<b, s, p>>]
        /\ LevelsIn(level_qty', b) = [LevelsIn(level_qty, b) EXCEPT ![<<s, p>>] = y]
    <3>1. LevelSet(b, s, p, y)
      BY <2>2, OneLevel
    <3> QED BY <3>1 DEF LevelSet
  <2> QED BY <2>1, <2>3
<1>2. BestIn(scanned', b)
        = IF Better(s, p, BestIn(scanned, b)[s])
            THEN [BestIn(scanned, b) EXCEPT ![s] = p] ELSE BestIn(scanned, b)
  BY OneBest, Zenon
<1>3. [LevelsIn(level_qty, b) EXCEPT ![<<s, p>>] = (LevelsIn(level_qty, b)[<<s, p>>] + x) % U32]
        = [LevelsIn(level_qty, b) EXCEPT ![<<s, p>>] = (@ + x) % U32]
  OBVIOUS
<1> QED BY <1>1, <1>2, Zenon DEF LevelBook!Add, LevelBook!Better, Better, LevelsIn, BestIn

LEMMA TradesLevel ==
  ASSUME LevelTypes, NEW b \in Books, NEW s \in Sides, NEW p \in Prices, NEW x,
         level_qty' = [level_qty EXCEPT ![<<b, s, p>>] = IF @ >= x THEN @ - x ELSE 0],
         scanned' = IF p = scanned[<<b, s>>] /\ level_qty'[<<b, s, p>>] = 0
                      THEN [scanned EXCEPT ![<<b, s>>] =
                              LevelBook(b)!Scan(LevelsIn(level_qty', b), s, p)]
                      ELSE scanned
  PROVE  LevelBook(b)!Trade(s, p, x)
<1> DEFINE L == LevelsIn(level_qty, b)
           M == LevelsIn(level_qty', b)
<1>1. PICK y : y = IF level_qty[<<b, s, p>>] >= x THEN level_qty[<<b, s, p>>] - x ELSE 0
  OBVIOUS
<1>2. SetsLevel(b, s, p, y)
  BY <1>1 DEF SetsLevel
<1>3. /\ L[<<s, p>>] = level_qty[<<b, s, p>>] /\ M[<<s, p>>] = y
      /\ M = [L EXCEPT ![<<s, p>>] = y]
  <2>1. LevelSet(b, s, p, y)
    BY <1>2, OneLevel
  <2> QED BY <2>1 DEF LevelSet
<1>4. level_qty'[<<b, s, p>>] = y
  <2>1. <<b, s, p>> \in Queues
    BY QueueOf
  <2> QED BY <1>2, <2>1 DEF LevelTypes, SetsLevel
<1>5. M = [L EXCEPT ![<<s, p>>] = IF L[<<s, p>>] >= x THEN L[<<s, p>>] - x ELSE 0]
  <2> HIDE DEF L, M
  <2> QED BY <1>1, <1>3
<1>6. BestIn(scanned', b)
        = IF p = BestIn(scanned, b)[s] /\ M[<<s, p>>] = 0
            THEN [BestIn(scanned, b) EXCEPT ![s] = LevelBook(b)!Scan(M, s, p)]
            ELSE BestIn(scanned, b)
  <2>1. scanned' = IF p = scanned[<<b, s>>] /\ M[<<s, p>>] = 0
                     THEN [scanned EXCEPT ![<<b, s>>] = LevelBook(b)!Scan(M, s, p)]
                     ELSE scanned
    <3> HIDE DEF M
    <3>1. scanned' = IF p = scanned[<<b, s>>] /\ level_qty'[<<b, s, p>>] = 0
                     THEN [scanned EXCEPT ![<<b, s>>] = LevelBook(b)!Scan(M, s, p)]
                     ELSE scanned
      BY Zenon DEF M
    <3> QED BY <1>3, <1>4, <3>1, Zenon
  <2> HIDE DEF M
  <2> QED BY <2>1, OneBest, Zenon
<1> QED BY <1>5, <1>6, Zenon DEF LevelBook!Trade, LevelsIn, BestIn

LEMMA StepsLevels ==
  ASSUME 0 \notin Quantities, IInv, Exact, ScanAgrees, Fits, [ScannedNext]_mbo_vars,
         NEW b \in Books, ~Clearing(b)
  PROVE  LevelStep(b)
<1>0. LevelTypes /\ IInv /\ scanned = best
  BY DEF IInv, TypeOK, LevelTypes, ScanAgrees
<1>1. ASSUME level_qty' = level_qty, scanned' = scanned PROVE LevelStep(b)
  BY <1>1 DEF LevelStep, LevelsAlone
<1>2. ASSUME NEW c \in Books, b # c, NEW s, NEW p, NEW x, NEW y, MovesOne(c, s, p, x, y)
      PROVE  LevelStep(b)
  BY <1>0, <1>2, OthersAlone DEF LevelStep
<1>3. ASSUME NEW c \in Books, NEW s \in Sides, NEW p \in PriceInputs, NEW x \in Quantities,
             ScannedEnqueue(c, s, p, x)
      PROVE  LevelStep(b)
  <2>1. /\ p < MAX_PRICE_LEVELS
        /\ level_qty' = [level_qty EXCEPT ![<<c, s, p>>] = (@ + x) % U32]
        /\ scanned' = IF Better(s, p, scanned[<<c, s>>]) THEN [scanned EXCEPT ![<<c, s>>] = p] ELSE scanned
    BY <1>3, Zenon DEF ScannedEnqueue, Enqueue
  <2>2. p \in Prices
    BY <2>1, BookAssumption DEF Prices
  <2>3. CASE b = c
    BY <1>0, <2>1, <2>2, <2>3, AddsLevel, Zenon DEF LevelStep
  <2>4. CASE b # c
    <3>1. PICK y : level_qty' = [level_qty EXCEPT ![<<c, s, p>>] = y]
      BY <2>1, Zenon
    <3>2. scanned' = scanned \/ scanned' = [scanned EXCEPT ![<<c, s>>] = p]
      BY <2>1, Zenon
    <3>3. MovesOne(c, s, p, y, p)
      BY <3>1, <3>2 DEF MovesOne
    <3> QED BY <1>2, <2>4, <3>3
  <2> QED BY <2>3, <2>4
<1>4. ASSUME NEW c \in Books, NEW n \in Orders, active[n], owner[n] = c, Remove(c, n), ScanBest(c, n)
      PROVE  LevelStep(b)
  <2>1. PICK q, x : Removes(c, n, q, x)
    BY <1>4, RemoveVolumes
  <2>2. PICK s, p : s = side[n] /\ p = price[n]
    OBVIOUS
  <2>3. /\ q = <<c, s, p>> /\ s \in Sides /\ p \in Prices /\ x = qty[n]
        /\ level_qty' = [level_qty EXCEPT ![q] = IF @ >= x THEN @ - x ELSE 0]
    BY <2>1, <2>2, QueueParts, Zenon DEF Removes
  <2>4. scanned' = IF p = scanned[<<c, s>>] /\ level_qty'[<<c, s, p>>] = 0
                     THEN [scanned EXCEPT ![<<c, s>>] =
                             LevelBook(c)!Scan(LevelsIn(level_qty', c), s, p)]
                     ELSE scanned
    BY <1>4, <2>2, Zenon DEF ScanBest, LevelsIn
  <2>5. x \in 1 .. U32 - 1
    <3>1. qty \in [Orders -> 0 .. U32 - 1] /\ qty[n] > 0
      BY <1>4 DEF Exact, Positive, IInv, TypeOK
    <3> QED BY <2>3, <3>1, BookAssumption
  <2>6. CASE b = c
    <3>1. level_qty' = [level_qty EXCEPT ![<<b, s, p>>] = IF @ >= x THEN @ - x ELSE 0]
      BY <2>3, <2>6, Zenon
    <3>2. LevelBook(b)!Trade(s, p, x)
      BY <1>0, <2>3, <2>4, <2>6, <3>1, TradesLevel, Zenon
    <3> QED BY <2>3, <2>5, <3>2, Zenon DEF LevelStep
  <2>7. CASE b # c
    <3>1. PICK y : level_qty' = [level_qty EXCEPT ![<<c, s, p>>] = y]
      BY <2>3, Zenon
    <3>2. PICK z : scanned' = scanned \/ scanned' = [scanned EXCEPT ![<<c, s>>] = z]
      BY <2>4, Zenon
    <3>3. MovesOne(c, s, p, y, z)
      BY <3>1, <3>2 DEF MovesOne
    <3> QED BY <1>2, <2>7, <3>3
  <2> QED BY <2>6, <2>7
<1>5. ASSUME NEW n \in Orders, ScannedFillPart(n) PROVE LevelStep(b)
  <2>1. PICK q, w : q = call.queue /\ w = call.want
    OBVIOUS
  <2>2. FillPart(n) /\ scanned' = scanned /\ call.want > 0
    BY <1>5 DEF ScannedFillPart, FillPart, Filling
  <2>3. /\ q \in Queues /\ w \in Nat /\ n \in Resting(q) /\ w < qty[n] /\ w > 0
        /\ level_qty' = [level_qty EXCEPT ![q] = (@ - w) % U32]
        /\ ~Clearing(q[1])
    BY <2>1, <2>2, FillPartVolumes DEF Clearing
  <2>4. PICK c, s, p : q = <<c, s, p>> /\ c \in Books /\ s \in Sides /\ p \in Prices /\ q[1] = c
    BY <2>3, QueueParts
  <2>5. CASE b = c
    <3>1. level_qty[q] = Volume(q) /\ Volume(q) \in Nat /\ Volume(q) < U32 /\ qty[n] <= Volume(q) /\ qty[n] \in Nat
      BY <2>3, StateVolumes DEF Exact, LevelQtyExact, Fits
    <3>2. PICK v : v = level_qty[q] - w
      OBVIOUS
    <3>3. v \in Nat /\ v > 0 /\ v < U32 /\ w < U32 /\ level_qty[q] >= w
      BY <2>3, <3>1, <3>2, BookAssumption
    <3>4. v % U32 = v
      BY <3>3, Small
    <3>5. /\ level_qty' = [level_qty EXCEPT ![q] = IF @ >= w THEN @ - w ELSE 0]
          /\ level_qty'[q] = v
      BY <1>0, <2>3, <3>2, <3>3, <3>4 DEF LevelTypes
    <3>6. /\ level_qty' = [level_qty EXCEPT ![<<b, s, p>>] = IF @ >= w THEN @ - w ELSE 0]
          /\ level_qty'[<<b, s, p>>] # 0
      <4>1. v # 0
        BY <3>3
      <4> QED BY <2>4, <2>5, <3>5, <4>1, Zenon
    <3>7. LevelBook(b)!Trade(s, p, w)
      BY <1>0, <2>2, <2>4, <3>6, TradesLevel, Zenon
    <3>8. w \in 1 .. U32 - 1
      BY <2>3, <3>3, BookAssumption
    <3> QED BY <2>4, <3>7, <3>8, Zenon DEF LevelStep
  <2>6. CASE b # c
    <3>1. PICK y : level_qty' = [level_qty EXCEPT ![<<c, s, p>>] = y]
      BY <2>3, <2>4, Zenon
    <3>2. MovesOne(c, s, p, y, y)
      BY <2>2, <3>1 DEF MovesOne
    <3> QED BY <1>2, <2>4, <2>6, <3>2
  <2> QED BY <2>5, <2>6
<1>6. ASSUME NEW b2 \in Books, NEW n \in Orders, ScannedDequeue(b2, n) PROVE LevelStep(b)
  <2>1. active[n] /\ owner[n] = b2 /\ Remove(b2, n) /\ ScanBest(b2, n)
    BY <1>6 DEF ScannedDequeue, Dequeue
  <2> QED BY <1>4, <2>1
<1>7. ASSUME NEW n \in Orders, ScannedFillWhole(n) PROVE LevelStep(b)
  <2>1. FillWhole(n) /\ ScanBest(call.queue[1], n)
    BY <1>7 DEF ScannedFillWhole
  <2>2. call.queue[1] \in Books /\ active[n] /\ owner[n] = call.queue[1] /\ Remove(call.queue[1], n)
    BY <2>1, FilledOrder
  <2> QED BY <1>4, <2>1, <2>2
<1>8. ASSUME ScannedClearEnd PROVE LevelStep(b)
  <2>1. PICK c, l : c = call.queue[1] /\ l = call.queue
    OBVIOUS
  <2>2. /\ ClearEnd
        /\ scanned' = [bs \in Books \X Sides |-> IF bs[1] = c THEN NoBest(bs[2]) ELSE scanned[bs]]
    BY <1>8, <2>1, Zenon DEF ScannedClearEnd
  <2>3. c \in Books /\ l \in Queues /\ l[1] = c /\ level_qty' = [level_qty EXCEPT ![l] = 0] /\ b # c
    BY <2>1, <2>2, ClearEndVolumes DEF Clearing
  <2>4. ASSUME NEW s \in Sides PROVE scanned'[<<b, s>>] = scanned[<<b, s>>]
    BY <2>2, <2>3
  <2>5. ASSUME NEW s \in Sides, NEW p \in Prices PROVE level_qty'[<<b, s, p>>] = level_qty[<<b, s, p>>]
    <3>1. <<b, s, p>> \in Queues /\ <<b, s, p>>[1] = b
      BY QueueOf
    <3>2. <<b, s, p>> # l
      BY <2>3, <3>1
    <3> QED BY <1>0, <2>3, <3>1, <3>2 DEF LevelTypes
  <2> QED BY <2>4, <2>5 DEF LevelStep, LevelsAlone
<1>9. ASSUME Unscanned PROVE LevelStep(b)
  <2>1. /\ scanned' = scanned
        /\ Quiet \/ (\E n \in Orders : ClearOrder(n)) \/ ClearQueue
    BY <1>9, Zenon DEF Unscanned, Quiet
  <2>2. CASE Quiet
    BY <1>1, <2>1, <2>2, QuietVolumes
  <2>3. CASE \E n \in Orders : ClearOrder(n)
    BY <1>1, <2>1, <2>3, ClearOrderVolumes
  <2>4. CASE ClearQueue
    <3>1. PICK c, l : c = call.queue[1] /\ l = call.queue
      OBVIOUS
    <3>2. c \in Books /\ l \in Queues /\ l[1] = c /\ level_qty' = [level_qty EXCEPT ![l] = 0] /\ b # c
      BY <2>4, <3>1, ClearQueueVolumes DEF Clearing
    <3>3. l = <<c, l[2], l[3]>>
      BY <3>2, QueueParts
    <3>4. PICK s, p : l = <<c, s, p>>
      BY <3>3
    <3>5. MovesOne(c, s, p, 0, 0)
      BY <2>1, <3>2, <3>4 DEF MovesOne
    <3> QED BY <1>2, <3>2, <3>5
  <2> QED BY <2>1, <2>2, <2>3, <2>4
<1>10. ASSUME UNCHANGED mbo_vars PROVE LevelStep(b)
  BY <1>1, <1>10 DEF mbo_vars, vars, level_vars
<1> QED BY <1>3, <1>5, <1>6, <1>7, <1>8, <1>9, <1>10 DEF ScannedNext

(* With positive quantities that fit their level, a book with orders moves   *)
(* its levels and best prices as PriceLevelBook does when it is told of the  *)
(* orders that are added, removed and filled.                                *)
THEOREM FollowsPriceLevelBook ==
  ASSUME 0 \notin Quantities
  PROVE  ScannedSpec /\ []Fits => StepsAsPriceLevelBook
<1> DEFINE Follows ==
             \A b \in Books : ~Clearing(b) =>
               \/ \A s \in Sides : /\ scanned[<<b, s>>]' = scanned[<<b, s>>]
                                   /\ \A p \in Prices : level_qty[<<b, s, p>>]' = level_qty[<<b, s, p>>]
               \/ \E s \in Sides, p \in Prices :
                    \/ \E x \in Quantities : LevelBook(b)!Add(s, p, x)
                    \/ \E x \in 1 .. U32 - 1 : LevelBook(b)!Trade(s, p, x)
<1>1. IInv /\ Exact /\ ScanAgrees /\ Fits /\ [ScannedNext]_mbo_vars => [Follows]_mbo_vars
  BY StepsLevels, Zenon DEF LevelStep, LevelsAlone
<1> QED BY <1>1, ScannedSpecs, ScanAlwaysAgrees, ExactWhileFitting, PTL DEF ScannedSpec, StepsAsPriceLevelBook
=============================================================================
