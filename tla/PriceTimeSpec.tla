--------------------------- MODULE PriceTimeSpec ---------------------------
(***************************************************************************)
(* What the order books promise, without links, free list or indices:      *)
(* price-time priority.  Orders rest in the queue of one book, side and    *)
(* price.  A trade at a queue fills the order that has rested there        *)
(* longest, then the next, until its quantity is used up or the queue is   *)
(* empty; clearing a book removes the orders of that book and no other.    *)
(***************************************************************************)
EXTENDS Integers

CONSTANTS
  Orders,      (* the slots of the order pool                                *)
  Queues,      (* <<book, side, price>>                                      *)
  Quantities,
  NULL

VARIABLES
  resting,     (* the queue an order rests in, NULL for a free slot          *)
  left,        (* the quantity still to be filled, 0 for a free slot         *)
  born,        (* when an order arrived, 0 for a free slot                   *)
  trade,       (* the trade under way: its queue, NULL if none, and quantity *)
  adds         (* orders accepted so far                                     *)

vars == <<resting, left, born, trade, adds>>

NoTrade == [queue |-> NULL, want |-> 0]

Init ==
  /\ resting = [n \in Orders |-> NULL]
  /\ left = [n \in Orders |-> 0]
  /\ born = [n \in Orders |-> 0]
  /\ trade = NoTrade
  /\ adds = 0

(* The slots in gone become free. *)
Remove(gone) ==
  /\ resting' = [n \in Orders |-> IF n \in gone THEN NULL ELSE resting[n]]
  /\ left' = [n \in Orders |-> IF n \in gone THEN 0 ELSE left[n]]
  /\ born' = [n \in Orders |-> IF n \in gone THEN 0 ELSE born[n]]

Add(n, q, x) ==
  /\ trade = NoTrade
  /\ resting[n] = NULL
  /\ resting' = [resting EXCEPT ![n] = q]
  /\ left' = [left EXCEPT ![n] = x]
  /\ born' = [born EXCEPT ![n] = adds + 1]
  /\ adds' = adds + 1
  /\ UNCHANGED trade

(* n is filled next in queue q. *)
First(n, q) ==
  /\ resting[n] = q
  /\ \A m \in Orders : resting[m] = q => born[n] <= born[m]

StartTrade(q, x) ==
  /\ trade = NoTrade
  /\ trade' = [queue |-> q, want |-> x]
  /\ UNCHANGED <<resting, left, born, adds>>

Fill(n) ==
  /\ trade.queue # NULL
  /\ trade.want > 0
  /\ First(n, trade.queue)
  /\ \/ /\ left[n] <= trade.want
        /\ trade' = [trade EXCEPT !.want = @ - left[n]]
        /\ Remove({n})
     \/ /\ left[n] > trade.want
        /\ trade' = [trade EXCEPT !.want = 0]
        /\ left' = [left EXCEPT ![n] = @ - trade.want]
        /\ UNCHANGED <<resting, born>>
  /\ UNCHANGED adds

EndTrade ==
  /\ trade.queue # NULL
  /\ trade.want = 0 \/ \A n \in Orders : resting[n] # trade.queue
  /\ trade' = NoTrade
  /\ UNCHANGED <<resting, left, born, adds>>

Cancel(n) ==
  /\ trade = NoTrade
  /\ resting[n] # NULL
  /\ Remove({n})
  /\ UNCHANGED <<trade, adds>>

Clear(b) ==
  /\ trade = NoTrade
  /\ Remove({n \in Orders : resting[n] # NULL /\ resting[n][1] = b})
  /\ UNCHANGED <<trade, adds>>

Next ==
  \/ \E q \in Queues, x \in Quantities :
       \/ StartTrade(q, x)
       \/ \E n \in Orders : Add(n, q, x)
  \/ \E n \in Orders : Fill(n) \/ Cancel(n)
  \/ EndTrade
  \/ \E q \in Queues : Clear(q[1])

Spec == Init /\ [][Next]_vars
=============================================================================
