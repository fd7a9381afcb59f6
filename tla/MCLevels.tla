------------------------------ MODULE MCLevels ------------------------------
(***************************************************************************)
(* The two ways in which the code finds the best price that still has      *)
(* quantity, for TLC: the flat book, which scans its levels, with four     *)
(* prices and one past them; and Fenwick trees of every size up to eight,  *)
(* with up to two units of volume in each position, which it searches.     *)
(* The two share nothing: a behaviour is one of the book or one of a tree. *)
(***************************************************************************)
EXTENDS MCPriceLevelBook, FenwickTree

all_vars == <<vars, FTvars>>

NoVolume == \A i \in DOMAIN values : values[i] = 0

NoOrders == (\A l \in Levels : level_qty[l] = 0) /\ (\A s \in Sides : best[s] = NoBest(s))

(* Each moves while the other is empty. *)
BookNext == NoVolume /\ Next /\ UNCHANGED FTvars

TreeNext == NoOrders /\ FTNext /\ UNCHANGED vars

LevelsInit == Init /\ FTInit

LevelsSpec == LevelsInit /\ [][BookNext \/ TreeNext]_all_vars
=============================================================================
