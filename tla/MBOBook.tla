------------------------------ MODULE MBOBook ------------------------------
(***************************************************************************)
(* mbo.hpp's order book, which fenwick.hpp's took the place of.  Its       *)
(* queues, its levels and the pool are the same code; it has no Fenwick    *)
(* trees and finds the next best price by scanning the levels, as          *)
(* PriceLevelBook does.  Here both books get the same calls: what they     *)
(* share is MBOBookWithBIT's state and actions, scanned is the best bid    *)
(* and ask of MBOBook.                                                     *)
(*                                                                         *)
(* clear() of MBOBook resets heads, tails and levels in a second loop over *)
(* the prices, after all orders have been freed; between the two nothing   *)
(* else runs, so that the order is not told apart here.                    *)
(***************************************************************************)
EXTENDS MBOBookWithBIT

VARIABLE scanned

mbo_vars == <<vars, scanned>>

(* The levels of book b are those of a PriceLevelBook. *)
LevelBook(b) == INSTANCE PriceLevelBook WITH
  level_qty <- [l \in Sides \X Prices |-> level_qty[<<b, l[1], l[2]>>]],
  best      <- [s \in Sides |-> scanned[<<b, s>>]]

ScannedInit ==
  /\ Init
  /\ scanned = [bs \in Books \X Sides |-> NoBest(bs[2])]

ScannedEnqueue(b, s, p, x) ==
  /\ Enqueue(b, s, p, x)
  /\ scanned' = IF Better(s, p, scanned[<<b, s>>])
                  THEN [scanned EXCEPT ![<<b, s>>] = p] ELSE scanned

(* Mutation: whether the level is empty is read before it is reduced. *)
MutScanBest(b, n) ==
  LET s == side[n]
      p == price[n]
  IN  scanned' = IF p = scanned[<<b, s>>] /\ level_qty[<<b, s, p>>] = 0
                   THEN [scanned EXCEPT ![<<b, s>>] = LevelBook(b)!Scan(
                           [l \in Sides \X Prices |-> level_qty'[<<b, l[1], l[2]>>]], s, p)]
                   ELSE scanned

(* The end of dequeue(n), once the level has been reduced. *)
ScanBest(b, n) ==
  LET s == side[n]
      p == price[n]
  IN  scanned' = IF p = scanned[<<b, s>>] /\ level_qty'[<<b, s, p>>] = 0
                   THEN [scanned EXCEPT ![<<b, s>>] = LevelBook(b)!Scan(
                           [l \in Sides \X Prices |-> level_qty'[<<b, l[1], l[2]>>]], s, p)]
                   ELSE scanned

ScannedDequeue(b, n) == Dequeue(b, n) /\ ScanBest(b, n)

ScannedFillWhole(n) == FillWhole(n) /\ ScanBest(call.queue[1], n)

ScannedFillPart(n) == FillPart(n) /\ UNCHANGED scanned

ScannedClearEnd ==
  /\ ClearEnd
  /\ scanned' = [bs \in Books \X Sides |->
                   IF bs[1] = call.queue[1] THEN NoBest(bs[2]) ELSE scanned[bs]]

(* The calls of the shared code that leave the best prices alone. *)
Unscanned ==
  /\ \/ \E p \in PriceInputs : EnqueueRejected(p) \/ TradeRejected(p)
     \/ \E b \in Books, s \in Sides, p \in PriceInputs, x \in Quantities : TradeBegin(b, s, p, x)
     \/ DequeueIgnored
     \/ TradeEnd
     \/ \E b \in Books : ClearBegin(b)
     \/ \E n \in Orders : ClearOrder(n)
     \/ ClearQueue
  /\ UNCHANGED scanned

ScannedNext ==
  \/ \E b \in Books, s \in Sides, p \in PriceInputs, x \in Quantities : ScannedEnqueue(b, s, p, x)
  \/ \E b \in Books, n \in Orders : ScannedDequeue(b, n)
  \/ \E n \in Orders : ScannedFillWhole(n) \/ ScannedFillPart(n)
  \/ ScannedClearEnd
  \/ Unscanned

ScannedSpec == ScannedInit /\ [][ScannedNext]_mbo_vars /\ WF_mbo_vars(ScannedNext /\ Loop)

-----------------------------------------------------------------------------
(* Properties *)

(* As long as quantities are positive and fit their level, the scan of the   *)
(* levels and the search in the trees find the same best prices.             *)
ScanAgrees == scanned = best

(* As long as they do, a book with orders moves its levels and its best      *)
(* prices as a PriceLevelBook does that is told of the fills, except while   *)
(* it is being cleared.                                                      *)
StepsAsPriceLevelBook ==
  [][\A b \in Books : ~Clearing(b) =>
       \/ \A s \in Sides : /\ scanned[<<b, s>>]' = scanned[<<b, s>>]
                           /\ \A p \in Prices : level_qty[<<b, s, p>>]' = level_qty[<<b, s, p>>]
       \/ \E s \in Sides, p \in Prices :
            \/ \E x \in Quantities : LevelBook(b)!Add(s, p, x)
            \/ \E x \in 1 .. U32 - 1 : LevelBook(b)!Trade(s, p, x)]_mbo_vars
=============================================================================
