---------------------------- MODULE SymbolRouter ----------------------------
(***************************************************************************)
(* What the symbol table promises, without nodes or paths: every symbol    *)
(* gets one book id, the next free one, keeps it for good and shares it    *)
(* with no other symbol.  A symbol is refused only when the ids are used   *)
(* up or the symbols asked for so far do not fit into the nodes together.  *)
(***************************************************************************)
EXTENDS Integers, FiniteSets

CONSTANTS
  Symbols,     (* the symbols of messages: functions from positions to bytes *)
  Names,       (* what is left of them once bytes are mapped to characters   *)
  NameOf(_),   (* ... by this operator                                       *)
  Prefixes(_), (* the nonempty prefixes of a name                            *)
  MAX_NODES, MAX_BOOKS,
  INVALID      (* no book id                                                 *)

VARIABLES
  ids,         (* the id of each name, INVALID for an unknown one            *)
  asked,       (* the names asked for so far                                 *)
  answer       (* the last answer: symbol, id and the created flag           *)

vars == <<ids, asked, answer>>

Known == {s \in Names : ids[s] # INVALID}

Init ==
  /\ ids = [s \in Names |-> INVALID]
  /\ asked = {}
  /\ answer \in [symbol : {INVALID}, id : {INVALID}, created : {FALSE}]

Ask(s) ==
  /\ asked' = asked \cup {NameOf(s)}
  /\ UNCHANGED <<ids, answer>>

Found(s) ==
  /\ NameOf(s) \in Known \cap asked
  /\ answer' = [symbol |-> s, id |-> ids[NameOf(s)], created |-> FALSE]
  /\ UNCHANGED <<ids, asked>>

Register(s) ==
  LET id == Cardinality(Known)
  IN  /\ NameOf(s) \in asked \ Known
      /\ id < MAX_BOOKS
      /\ ids' = [ids EXCEPT ![NameOf(s)] = id]
      /\ answer' = [symbol |-> s, id |-> id, created |-> TRUE]
      /\ UNCHANGED asked

Refuse(s) ==
  /\ NameOf(s) \in asked \ Known
  /\ \/ Cardinality(Known) = MAX_BOOKS
     \/ Cardinality(UNION {Prefixes(t) : t \in asked}) >= MAX_NODES
  /\ answer' = [symbol |-> s, id |-> INVALID, created |-> TRUE]
  /\ UNCHANGED <<ids, asked>>

Next == \E s \in Symbols : Ask(s) \/ Found(s) \/ Register(s) \/ Refuse(s)

Spec == Init /\ [][Next]_vars
=============================================================================
