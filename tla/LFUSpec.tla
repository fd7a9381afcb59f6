------------------------------ MODULE LFUSpec ------------------------------
(***************************************************************************)
(* What the LFU cache of order books promises, without lists, buckets or   *)
(* a minimum-frequency cursor.  At most MAX_CACHE_SIZE books are cached,   *)
(* each in a slot of its own.  Accessing a cached book counts one more     *)
(* use, up to MAX_FREQUENCY - 1.  Accessing another book admits it with    *)
(* one use and an empty store; if the cache is full it first drops a book  *)
(* with the fewest uses, and among those the one used longest ago.         *)
(***************************************************************************)
EXTENDS Integers

CONSTANTS
  BookIds,         (* the uint16_t ids a caller may pass                     *)
  MAX_SYMBOLS,     (* ids below this one can be cached                       *)
  MAX_CACHE_SIZE,
  MAX_FREQUENCY,
  MaxAccesses,     (* bound on the accesses of a behaviour                   *)
  NULL

Books == 0 .. MAX_SYMBOLS - 1
Slots == 0 .. MAX_CACHE_SIZE - 1

VARIABLES
  cached,    (* the books in the cache                                       *)
  uses,      (* uses of a cached book since it was admitted; else 0          *)
  used,      (* when a cached book was last accessed; else 0                 *)
  slot,      (* the slot of a cached book; else NULL                         *)
  filed,     (* the cached books whose order store is not empty              *)
  answer,    (* the book and the slot of the last access; slot NULL: refused *)
  clock      (* accesses so far                                              *)

vars == <<cached, uses, used, slot, filed, answer, clock>>

Init ==
  /\ cached = {}
  /\ uses = [b \in Books |-> 0]
  /\ used = [b \in Books |-> 0]
  /\ slot = [b \in Books |-> NULL]
  /\ filed = {}
  /\ answer = [book |-> NULL, slot |-> NULL]
  /\ clock = 0

(* a is a better victim than b, or as good a one. *)
NoMoreValuable(a, b) ==
  uses[a] < uses[b] \/ (uses[a] = uses[b] /\ used[a] <= used[b])

Refuse(b) ==
  /\ b \notin Books
  /\ answer' = [book |-> b, slot |-> NULL]
  /\ UNCHANGED <<cached, uses, used, slot, filed, clock>>

Hit(b) ==
  /\ b \in cached
  /\ clock < MaxAccesses
  /\ uses' = [uses EXCEPT ![b] = IF @ < MAX_FREQUENCY - 1 THEN @ + 1 ELSE @]
  /\ used' = [used EXCEPT ![b] = clock + 1]
  /\ clock' = clock + 1
  /\ answer' = [book |-> b, slot |-> slot[b]]
  /\ UNCHANGED <<cached, slot, filed>>

(* b is admitted to slot s after the books in dropped have left. *)
Admit(b, s, dropped) ==
  /\ cached' = (cached \ dropped) \cup {b}
  /\ uses' = [x \in Books |-> IF x = b THEN 1 ELSE IF x \in dropped THEN 0 ELSE uses[x]]
  /\ used' = [x \in Books |-> IF x = b THEN clock + 1 ELSE IF x \in dropped THEN 0 ELSE used[x]]
  /\ slot' = [x \in Books |-> IF x = b THEN s ELSE IF x \in dropped THEN NULL ELSE slot[x]]
  /\ filed' = filed \ dropped
  /\ clock' = clock + 1
  /\ answer' = [book |-> b, slot |-> s]

Miss(b) ==
  /\ b \in Books \ cached
  /\ clock < MaxAccesses
  /\ \E s \in Slots :
       \/ /\ \A x \in cached : slot[x] # s
          /\ Admit(b, s, {})
       \/ \E v \in cached :
            /\ \A t \in Slots : \E x \in cached : slot[x] = t
            /\ \A x \in cached : NoMoreValuable(v, x)
            /\ s = slot[v]
            /\ Admit(b, s, {v})

(* The caller stores an order through the pointer it got. *)
File ==
  /\ answer.slot # NULL
  /\ filed' = filed \cup {answer.book}
  /\ UNCHANGED <<cached, uses, used, slot, answer, clock>>

Next ==
  \/ \E b \in BookIds : Refuse(b) \/ Hit(b) \/ Miss(b)
  \/ File

Spec == Init /\ [][Next]_vars
=============================================================================
