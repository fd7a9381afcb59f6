-------------------------- MODULE IntrusiveLists --------------------------
(***************************************************************************)
(* The intrusive doubly linked lists of the pipeline.  The frequency       *)
(* buckets of the LFU cache and the price-level queues of the order book   *)
(* are the same structure: a family of lists, each with a head and a tail, *)
(* threaded through prev/next fields that live inside the elements, with   *)
(* NULL (0xFFFFFFFF in both headers) as the empty index.  The cache pushes *)
(* at the head, the book at the tail, both unlink from anywhere.           *)
(*                                                                         *)
(* A value L of this structure is a record:                                *)
(*   L.head, L.tail   one entry per list                                   *)
(*   L.prev, L.next   one entry per element                                *)
(***************************************************************************)
EXTENDS Integers

CONSTANT NULL

Links(Nodes, Lists) ==
  [head : [Lists -> Nodes \cup {NULL}],
   tail : [Lists -> Nodes \cup {NULL}],
   prev : [Nodes -> Nodes \cup {NULL}],
   next : [Nodes -> Nodes \cup {NULL}]]

NoLinks(Nodes, Lists) ==
  [head |-> [l \in Lists |-> NULL],
   tail |-> [l \in Lists |-> NULL],
   prev |-> [n \in Nodes |-> NULL],
   next |-> [n \in Nodes |-> NULL]]

(* n becomes the head of list l. *)
PushHead(L, n, l) ==
  [head |-> [L.head EXCEPT ![l] = n],
   tail |-> IF L.head[l] = NULL THEN [L.tail EXCEPT ![l] = n] ELSE L.tail,
   prev |-> IF L.head[l] = NULL
              THEN [L.prev EXCEPT ![n] = NULL]
              ELSE [L.prev EXCEPT ![n] = NULL, ![L.head[l]] = n],
   next |-> [L.next EXCEPT ![n] = L.head[l]]]

(* The same lists read from the other end. *)
Mirror(L) ==
  [head |-> L.tail, tail |-> L.head, prev |-> L.next, next |-> L.prev]

(* n becomes the tail of list l. *)
PushTail(L, n, l) == Mirror(PushHead(Mirror(L), n, l))

(* n leaves list l; its own prev and next are left as they were. *)
Unlink(L, n, l) ==
  LET p == L.prev[n]
      x == L.next[n]
  IN  [head |-> IF p = NULL THEN [L.head EXCEPT ![l] = x] ELSE L.head,
       tail |-> IF x = NULL THEN [L.tail EXCEPT ![l] = p] ELSE L.tail,
       prev |-> IF x = NULL THEN L.prev ELSE [L.prev EXCEPT ![x] = p],
       next |-> IF p = NULL THEN L.next ELSE [L.next EXCEPT ![p] = x]]

(***************************************************************************)
(* What it means for L to represent its lists faithfully.  at[n] is the    *)
(* list that n belongs to, NULL for an element of no list, and age orders  *)
(* the elements of a list: it falls strictly on the way from head to tail. *)
(* Nothing is said of the fields of an element of no list, which the order *)
(* pool reuses for its free list.                                          *)
(***************************************************************************)
ElementLinked(L, at, age, n) ==
  /\ IF L.prev[n] = NULL
       THEN L.head[at[n]] = n
       ELSE LET p == L.prev[n]
            IN  at[p] = at[n] /\ L.next[p] = n /\ age[p] > age[n]
  /\ IF L.next[n] = NULL
       THEN L.tail[at[n]] = n
       ELSE LET x == L.next[n]
            IN  at[x] = at[n] /\ L.prev[x] = n /\ age[n] > age[x]

EndsLinked(L, at, l) ==
  /\ L.head[l] = NULL <=> L.tail[l] = NULL
  /\ L.head[l] # NULL => at[L.head[l]] = l /\ L.prev[L.head[l]] = NULL
  /\ L.tail[l] # NULL => at[L.tail[l]] = l /\ L.next[L.tail[l]] = NULL

Chained(L, Nodes, Lists, at, age) ==
  /\ \A n \in Nodes : at[n] # NULL => ElementLinked(L, at, age, n)
  /\ \A l \in Lists : EndsLinked(L, at, l)
=============================================================================
