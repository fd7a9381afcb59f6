------------------------- MODULE MCMarketDataRouter -------------------------
(***************************************************************************)
(* The routing of messages for TLC.  Four symbols share a cache of two     *)
(* books; the fourth either gets an id that the cache has no node for, or, *)
(* when the trie is out of nodes, none.  The ids suffice for all; a symbol *)
(* refused for want of an id looks the same (SymbolRouter, Refuse).        *)
(* Prices 2 and 3 are in a book, 4 is not; the default mid is in the       *)
(* middle, as in the code.                                                 *)
(***************************************************************************)
EXTENDS MarketDataRouter, TLC

MCSymmetry == Permutations(Symbols) \cup Permutations(Orders)
=============================================================================
