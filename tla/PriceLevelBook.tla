--------------------------- MODULE PriceLevelBook ---------------------------
(***************************************************************************)
(* types.hpp's order book without orders: a quantity per side and price,   *)
(* and the best bid and ask, found again by scanning the levels when the   *)
(* best one is used up.  The program has replaced it by books with orders, *)
(* whose levels are kept in the same way (MBOBook).                        *)
(*                                                                         *)
(* The counters and last_ts_ns, which nothing reads, are left out.         *)
(***************************************************************************)
EXTENDS Integers

CONSTANTS
  MAX_PRICE_LEVELS,
  U32,               (* the number of uint32_t values                        *)
  PriceInputs,       (* the prices of messages                               *)
  Quantities         (* the quantities of messages                           *)

Prices == 0 .. MAX_PRICE_LEVELS - 1
Sides  == {"bid", "ask"}
Levels == Sides \X Prices
INVALID_PRICE == U32 - 1

ASSUME LevelAssumption ==
  /\ MAX_PRICE_LEVELS \in Nat \ {0}
  /\ U32 \in Nat /\ MAX_PRICE_LEVELS < U32
  /\ PriceInputs \subseteq Nat
  /\ Quantities \subseteq 0 .. U32 - 1

VARIABLES
  level_qty,         (* bid_qty, ask_qty                                     *)
  best               (* best_bid, best_ask                                   *)

vars == <<level_qty, best>>

NoBest(s) == IF s = "bid" THEN 0 ELSE INVALID_PRICE

Init ==
  /\ level_qty = [l \in Levels |-> 0]
  /\ best = [s \in Sides |-> NoBest(s)]

(* a is a better price than b on side s. *)
Better(s, a, b) == IF s = "bid" THEN a > b ELSE a < b

(* add_bid(), add_ask() *)
Add(s, p, x) ==
  /\ level_qty' = [level_qty EXCEPT ![<<s, p>>] = (@ + x) % U32]
  /\ best' = IF Better(s, p, best[s]) THEN [best EXCEPT ![s] = p] ELSE best

(* Mutation: copied for the other side, with the array forgotten.            *)
MutScan(v, s, from) ==
  LET found == {p \in Prices : v[<<"ask", p>>] # 0 /\ ~Better(s, p, from)}
  IN  IF found = {} THEN NoBest(s)
      ELSE CHOOSE p \in found : \A o \in found : ~Better(s, o, p)

(* update_best_bid(), update_best_ask(): the levels v of side s are scanned  *)
(* from the price from on, away from the other side.                         *)
Scan(v, s, from) ==
  LET found == {p \in Prices : v[<<s, p>>] # 0 /\ ~Better(s, p, from)}
  IN  IF found = {} THEN NoBest(s)
      ELSE CHOOSE p \in found : \A o \in found : ~Better(s, o, p)

(* trade_bid(), trade_ask() *)
Trade(s, p, x) ==
  /\ level_qty' = [level_qty EXCEPT ![<<s, p>>] = IF @ >= x THEN @ - x ELSE 0]
  /\ best' = IF p = best[s] /\ level_qty'[<<s, p>>] = 0
               THEN [best EXCEPT ![s] = Scan(level_qty', s, p)]
               ELSE best

-----------------------------------------------------------------------------
(* process(): the side is guessed from the price.                            *)

IsBid(p) ==
  \/ best["ask"] = INVALID_PRICE
  \/ p <= best["bid"]
  \/ best["bid"] = 0 /\ p < MAX_PRICE_LEVELS \div 2

ProcessAdd(p, x) ==
  /\ p < MAX_PRICE_LEVELS
  /\ Add(IF IsBid(p) THEN "bid" ELSE "ask", p, x)

ProcessTrade(p, x) ==
  LET on_bid == p <= best["bid"] /\ level_qty[<<"bid", p>>] > 0
      on_ask == p >= best["ask"] /\ level_qty[<<"ask", p>>] > 0
  IN  /\ p < MAX_PRICE_LEVELS
      /\ IF on_bid THEN Trade("bid", p, x)
         ELSE on_ask /\ Trade("ask", p, x)

(* Prices past the levels, trades at levels without quantity, other types.   *)
ProcessIgnored == UNCHANGED vars

Next ==
  \/ \E p \in PriceInputs, x \in Quantities : ProcessAdd(p, x) \/ ProcessTrade(p, x)
  \/ ProcessIgnored

Spec == Init /\ [][Next]_vars

-----------------------------------------------------------------------------
(* Properties *)

(* Type correctness. *)
TypeOK ==
  /\ level_qty \in [Levels -> 0 .. U32 - 1]
  /\ best \in [Sides -> Prices \cup {INVALID_PRICE}]

(* No level with quantity is better than the reported best, also when the    *)
(* quantity of a level wraps or is zero: scanning from the old best misses   *)
(* nothing.                                                                  *)
BestNotBehind ==
  \A s \in Sides, p \in Prices : level_qty[<<s, p>>] > 0 => ~Better(s, p, best[s])

(* "we treat adds with price < mid as bids, >= mid as asks", "Otherwise      *)
(* treat as ask".  The code has no mid; what it compares prices with in the  *)
(* place of one is the best bid and the middle of the prices.  An add above  *)
(* the one and not below the other goes to the asks.                         *)
AsksAreMade ==
  [][\A p \in Prices, x \in Quantities \ {0} :
       ProcessAdd(p, x) /\ p > best["bid"] /\ p >= MAX_PRICE_LEVELS \div 2 =>
         level_qty'[<<"ask", p>>] # level_qty[<<"ask", p>>]]_vars

-----------------------------------------------------------------------------
(* What the proofs need besides, and what the code does about AsksAreMade:   *)
(* without an ask every add is a bid, so there never is an ask.              *)
(* has_two_sided_market() is always false and spread() always 0.             *)
OneSided ==
  /\ best["ask"] = INVALID_PRICE
  /\ \A p \in Prices : level_qty[<<"ask", p>>] = 0
=============================================================================
