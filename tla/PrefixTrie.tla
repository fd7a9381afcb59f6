----------------------------- MODULE PrefixTrie -----------------------------
(***************************************************************************)
(* trie.hpp's PrefixTrie: a symbol of SYMBOL_LEN bytes is spelled along    *)
(* the edges of a tree of preallocated nodes, and the node at its end      *)
(* holds its book id.  Node 0 is the root; 0 in a child field means that   *)
(* there is no child.                                                      *)
(*                                                                         *)
(* get_or_create() is the only entry the program uses: a lookup and, when  *)
(* that finds nothing, an insert that starts again at the root.  Their     *)
(* loops take one step per character.  insert()'s case of a symbol that    *)
(* has its id already cannot arise behind a lookup and is left out.        *)
(***************************************************************************)
EXTENDS Integers, FiniteSets

CONSTANTS
  MAX_NODES, ALPHABET_SIZE, SYMBOL_LEN,
  MAX_BOOKS,         (* the limit on next_book_id, 1000 in the code          *)
  Symbols,           (* the symbols of messages                              *)
  INVALID_BOOK_ID,
  NONE               (* the characters of a name beyond its prefix           *)

Nodes     == 0 .. MAX_NODES - 1
Chars     == 0 .. ALPHABET_SIZE - 1
Positions == 1 .. SYMBOL_LEN
Names     == [Positions -> Chars]

ASSUME TrieAssumption ==
  /\ MAX_NODES \in Nat \ {0}
  /\ ALPHABET_SIZE \in Nat \ {0}
  /\ SYMBOL_LEN \in Nat \ {0}
  /\ MAX_BOOKS \in Nat
  /\ Symbols \subseteq [Positions -> Nat]
  /\ INVALID_BOOK_ID \notin Nat
  /\ INVALID_BOOK_ID \notin Symbols
  /\ NONE \notin Int

VARIABLES
  children, book_id,         (* the fields of the nodes                      *)
  node_count, next_book_id,
  call,                      (* the get_or_create under way                  *)
  answer,                    (* what the last one returned                   *)
  label, depth,              (* history: the prefix a node was made for      *)
  given,                     (* history: the id each name was given          *)
  asked                      (* history: the names asked for                 *)

node_vars == <<children, node_count, label, depth>>
id_vars == <<book_id, next_book_id, given>>
vars == <<node_vars, id_vars, call, answer, asked>>

(* Characters outside ASCII count as null. *)
Char(b) == IF b >= ALPHABET_SIZE THEN 0 ELSE b

NameOf(s) == [j \in Positions |-> Char(s[j])]

Cut(s, i) == [j \in Positions |-> IF j <= i THEN s[j] ELSE NONE]

Prefixes(s) == {Cut(s, i) : i \in Positions}

NoCall == [op |-> "idle", symbol |-> INVALID_BOOK_ID, i |-> 0, node_idx |-> 0]

Idle == call = NoCall

(* init() *)
Init ==
  /\ children = [n \in Nodes |-> [c \in Chars |-> 0]]
  /\ book_id = [n \in Nodes |-> INVALID_BOOK_ID]
  /\ node_count = 1
  /\ next_book_id = 0
  /\ call = NoCall
  /\ answer = [symbol |-> INVALID_BOOK_ID, id |-> INVALID_BOOK_ID, created |-> FALSE]
  /\ label = [n \in Nodes |-> [j \in Positions |-> NONE]]
  /\ depth = [n \in Nodes |-> 0]
  /\ given = [s \in Names |-> INVALID_BOOK_ID]
  /\ asked = {}

-----------------------------------------------------------------------------
GetOrCreate(s) ==
  /\ Idle
  /\ call' = [op |-> "lookup", symbol |-> s, i |-> 0, node_idx |-> 0]
  /\ asked' = asked \cup {NameOf(s)}
  /\ UNCHANGED <<node_vars, id_vars, answer>>

(* The character the loop is at and the child it leads to. *)
c == Char(call.symbol[call.i + 1])
Child == children[call.node_idx][c]

AtChar == call.op # "idle" /\ call.i < SYMBOL_LEN
AtEnd  == call.op # "idle" /\ call.i = SYMBOL_LEN

(* One turn of the loop of lookup() or insert() along an edge there is. *)
Follow ==
  /\ AtChar
  /\ Child # 0
  /\ call' = [call EXCEPT !.i = @ + 1, !.node_idx = Child]
  /\ UNCHANGED <<node_vars, id_vars, answer, asked>>

Return(id, created) ==
  /\ answer' = [symbol |-> call.symbol, id |-> id, created |-> created]
  /\ call' = NoCall

(* Mutation: a path without an id counts as found. *)
MutLookupHit ==
  /\ AtEnd
  /\ call.op = "lookup"
  /\ Return(book_id[call.node_idx], FALSE)
  /\ UNCHANGED <<node_vars, id_vars, asked>>

LookupHit ==
  /\ AtEnd
  /\ call.op = "lookup"
  /\ book_id[call.node_idx] # INVALID_BOOK_ID
  /\ Return(book_id[call.node_idx], FALSE)
  /\ UNCHANGED <<node_vars, id_vars, asked>>

(* Mutation: insert() starts where lookup() stopped, with the first character. *)
MutLookupMiss ==
  /\ call.op = "lookup"
  /\ \/ AtChar /\ Child = 0
     \/ AtEnd /\ book_id[call.node_idx] = INVALID_BOOK_ID
  /\ call' = [call EXCEPT !.op = "insert", !.i = 0]
  /\ UNCHANGED <<node_vars, id_vars, answer, asked>>

LookupMiss ==
  /\ call.op = "lookup"
  /\ \/ AtChar /\ Child = 0
     \/ AtEnd /\ book_id[call.node_idx] = INVALID_BOOK_ID
  /\ call' = [call EXCEPT !.op = "insert", !.i = 0, !.node_idx = 0]
  /\ UNCHANGED <<node_vars, id_vars, answer, asked>>

(* insert() *)

(* Mutation: the node is not counted. *)
MutInsertNode ==
  LET parent == call.node_idx
      n == node_count
  IN  /\ AtChar
      /\ call.op = "insert"
      /\ Child = 0
      /\ node_count < MAX_NODES
      /\ children' = [children EXCEPT ![parent][c] = n]
      /\ label' = [label EXCEPT ![n] = Cut(NameOf(call.symbol), call.i + 1)]
      /\ depth' = [depth EXCEPT ![n] = call.i + 1]
      /\ call' = [call EXCEPT !.i = @ + 1, !.node_idx = n]
      /\ UNCHANGED <<node_count, id_vars, answer, asked>>

InsertNode ==
  LET parent == call.node_idx
      n == node_count
  IN  /\ AtChar
      /\ call.op = "insert"
      /\ Child = 0
      /\ node_count < MAX_NODES
      /\ children' = [children EXCEPT ![parent][c] = n]
      /\ node_count' = n + 1
      /\ label' = [label EXCEPT ![n] = Cut(NameOf(call.symbol), call.i + 1)]
      /\ depth' = [depth EXCEPT ![n] = call.i + 1]
      /\ call' = [call EXCEPT !.i = @ + 1, !.node_idx = n]
      /\ UNCHANGED <<id_vars, answer, asked>>

InsertId ==
  /\ AtEnd
  /\ call.op = "insert"
  /\ next_book_id < MAX_BOOKS
  /\ book_id' = [book_id EXCEPT ![call.node_idx] = next_book_id]
  /\ next_book_id' = next_book_id + 1
  /\ given' = [given EXCEPT ![NameOf(call.symbol)] = next_book_id]
  /\ Return(next_book_id, TRUE)
  /\ UNCHANGED <<node_vars, asked>>

(* The created flag is set all the same; what has been added of the path     *)
(* stays.                                                                    *)
InsertFull ==
  /\ call.op = "insert"
  /\ \/ AtChar /\ Child = 0 /\ node_count >= MAX_NODES
     \/ AtEnd /\ next_book_id >= MAX_BOOKS
  /\ Return(INVALID_BOOK_ID, TRUE)
  /\ UNCHANGED <<node_vars, id_vars, asked>>

Next ==
  \/ \E s \in Symbols : GetOrCreate(s)
  \/ Follow
  \/ LookupHit
  \/ LookupMiss
  \/ InsertNode
  \/ InsertId
  \/ InsertFull

Spec == Init /\ [][Next]_vars

-----------------------------------------------------------------------------
(* Properties *)

Ids == 0 .. MAX_BOOKS - 1
Partial == [Positions -> Chars \cup {NONE}]

(* Type correctness. *)
TypeOK ==
  /\ children \in [Nodes -> [Chars -> Nodes]]
  /\ book_id \in [Nodes -> Ids \cup {INVALID_BOOK_ID}]
  /\ node_count \in 1 .. MAX_NODES
  /\ next_book_id \in 0 .. MAX_BOOKS
  /\ call \in [op : {"idle", "lookup", "insert"}, symbol : Symbols \cup {INVALID_BOOK_ID},
               i : 0 .. SYMBOL_LEN, node_idx : Nodes]
  /\ answer \in [symbol : Symbols \cup {INVALID_BOOK_ID},
                 id : Ids \cup {INVALID_BOOK_ID}, created : BOOLEAN]
  /\ label \in [Nodes -> Partial]
  /\ depth \in [Nodes -> 0 .. SYMBOL_LEN]
  /\ given \in [Names -> Ids \cup {INVALID_BOOK_ID}]
  /\ asked \subseteq Names

Used == {n \in Nodes : n < node_count}

(* The nodes in use are a tree of prefixes, one node per prefix and every    *)
(* prefix of a prefix among them, also while an insert is under way and      *)
(* after one that ran out of nodes halfway; nodes not in use are empty.      *)
TreeShaped ==
  /\ depth[0] = 0
  /\ \A n \in Used, x \in Chars : children[n][x] # 0 =>
       LET m == children[n][x]
       IN  m \in Used /\ depth[m] = depth[n] + 1 /\ label[m] = [label[n] EXCEPT ![depth[m]] = x]
  /\ \A m \in Used \ {0} :
       \E n \in Used, x \in Chars : children[n][x] = m
  /\ \A n, m \in Used : label[n] = label[m] => n = m
  /\ \A n \in Nodes \ Used : \A x \in Chars : children[n][x] = 0

(* The walk of lookup() for a name. *)
Route(s) ==
  LET at[i \in 0 .. SYMBOL_LEN] ==
        IF i = 0 THEN 0
        ELSE IF i > 1 /\ at[i - 1] = 0 THEN 0 ELSE children[at[i - 1]][s[i]]
  IN  IF at[SYMBOL_LEN] = 0 THEN INVALID_BOOK_ID ELSE book_id[at[SYMBOL_LEN]]

(* A lookup of any name would find exactly the id that name was given, and   *)
(* nothing for a name that was refused: half a path leads to no book.  No    *)
(* two names share an id.                                                    *)
RoutesExact ==
  /\ \A s \in Names : Route(s) = given[s]
  /\ {given[s] : s \in Names} \ {INVALID_BOOK_ID} = 0 .. next_book_id - 1
  /\ \A s, t \in Names : given[s] = given[t] /\ given[s] # INVALID_BOOK_ID => s = t

-----------------------------------------------------------------------------
(* The trie implements SymbolRouter. *)

Abstract == INSTANCE SymbolRouter WITH
  INVALID <- INVALID_BOOK_ID,
  ids <- given

(* Every answer is one the abstract table gives: a symbol is found under the *)
(* id it was registered with, whatever was inserted since, and refused only  *)
(* when it does not fit beside the symbols asked for before it.              *)
RefinesRouter == Abstract!Spec

-----------------------------------------------------------------------------
(* "created: output flag indicating if a new symbol was registered"          *)
CreatedMeansRegistered == answer.created => answer.id # INVALID_BOOK_ID
=============================================================================
