---------------------------- MODULE MCPrefixTrie ----------------------------
(***************************************************************************)
(* The symbol trie on an instance for TLC: symbols of three bytes, two of  *)
(* them with a byte past the two-letter alphabet that makes them another   *)
(* symbol's alias, and room for eight nodes and three ids, so that either  *)
(* can run out first and in the middle of a path.                          *)
(***************************************************************************)
EXTENDS PrefixTrie

MCSymbols ==
  {<<0, 0, 0>>, <<0, 0, 1>>, <<0, 1, 0>>, <<0, 1, 1>>, <<1, 0, 0>>, <<1, 1, 1>>,
   <<2, 0, 1>>, <<1, 2, 0>>}
=============================================================================
