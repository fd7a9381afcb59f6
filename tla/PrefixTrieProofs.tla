--------------------------- MODULE PrefixTrieProofs ---------------------------
(***************************************************************************)
(* The trie finds every symbol under its own id and implements             *)
(* SymbolRouter, for any alphabet, length of symbols, number of nodes and  *)
(* of ids.                                                                 *)
(***************************************************************************)
EXTENDS PrefixTrie, FiniteSetTheorems, FunctionTheorems, TLAPS

(* For its lemma on least elements. *)
Data == INSTANCE DataTheorems WITH NULL <- NONE

-----------------------------------------------------------------------------
(* The inductive invariant                                                   *)

(* What is asked of a new node: nothing leads to it, it leads nowhere.       *)
FreeNodesEmpty == \A n \in Nodes \ Used : \A x \in Chars : children[n][x] = 0

(* The children of a node continue its prefix by one character.              *)
EdgesSpell ==
  \A n \in Used, x \in Chars : children[n][x] # 0 =>
    /\ children[n][x] \in Used
    /\ depth[children[n][x]] = depth[n] + 1
    /\ label[children[n][x]] = [label[n] EXCEPT ![depth[children[n][x]]] = x]

NodesReached ==
  \A m \in Used \ {0} : \E n \in Used, x \in Chars : children[n][x] = m

(* The label of a node has characters up to its depth and nothing beyond.    *)
LabelsReach ==
  /\ depth[0] = 0
  /\ \A n \in Used : \A j \in Positions : label[n][j] \in Chars <=> j <= depth[n]

LabelsDiffer == \A n, m \in Used : label[n] = label[m] => n = m

(* A call under way stands at the node of the prefix it has read, and only a *)
(* name without an id is inserted.                                           *)
CallPlaced ==
  \/ call = NoCall
  \/ /\ call.op \in {"lookup", "insert"}
     /\ call.symbol \in Symbols
     /\ call.node_idx \in Used
     /\ depth[call.node_idx] = call.i
     /\ label[call.node_idx] = Cut(NameOf(call.symbol), call.i)
     /\ NameOf(call.symbol) \in asked
     /\ call.op = "insert" => given[NameOf(call.symbol)] = INVALID_BOOK_ID

(* Ids are at the nodes of whole names and are those given to them.          *)
IdsPlaced ==
  /\ \A n \in Nodes : book_id[n] =
       IF n \in Used /\ label[n] \in Names THEN given[label[n]] ELSE INVALID_BOOK_ID
  /\ \A s \in Names : given[s] # INVALID_BOOK_ID => \E n \in Used : label[n] = s

Known == {s \in Names : given[s] # INVALID_BOOK_ID}

(* Ids are given one after the other, each once.                             *)
IdsCounted ==
  /\ IsFiniteSet(Known)
  /\ Cardinality(Known) = next_book_id
  /\ {given[s] : s \in Known} = 0 .. next_book_id - 1
  /\ \A s, t \in Known : given[s] = given[t] => s = t

AllPrefixes == UNION {Prefixes(t) : t \in asked}

(* Nodes are made for prefixes of names asked for.                           *)
NodesAskedFor ==
  /\ IsFiniteSet(asked)
  /\ \A n \in Used \ {0} : label[n] \in AllPrefixes

IInv ==
  /\ TypeOK
  /\ FreeNodesEmpty
  /\ EdgesSpell
  /\ NodesReached
  /\ LabelsReach
  /\ LabelsDiffer
  /\ CallPlaced
  /\ IdsPlaced
  /\ IdsCounted
  /\ NodesAskedFor

-----------------------------------------------------------------------------
(* Names and prefixes                                                        *)

LEMMA NameType ==
  ASSUME NEW s \in Symbols
  PROVE  /\ NameOf(s) \in Names
         /\ \A j \in Positions : NameOf(s)[j] = Char(s[j])
         /\ s # INVALID_BOOK_ID
<1>1. s \in [Positions -> Nat] /\ s # INVALID_BOOK_ID
  BY TrieAssumption
<1>2. \A j \in Positions : Char(s[j]) \in Chars
  BY <1>1, TrieAssumption DEF Char, Chars
<1> QED
  BY <1>1, <1>2 DEF NameOf, Names

LEMMA CutType ==
  ASSUME NEW s \in Names, NEW i \in 0 .. SYMBOL_LEN
  PROVE  /\ Cut(s, i) \in Partial
         /\ \A j \in Positions : Cut(s, i)[j] = IF j <= i THEN s[j] ELSE NONE
         /\ \A j \in Positions : Cut(s, i)[j] \in Chars <=> j <= i
<1>1. \A j \in Positions : s[j] \in Chars
  BY DEF Names
<1>2. NONE \notin Chars
  BY TrieAssumption DEF Chars
<1> QED
  BY <1>1, <1>2 DEF Cut, Partial

LEMMA WholeCut ==
  ASSUME NEW s \in Names
  PROVE  Cut(s, SYMBOL_LEN) = s
  BY TrieAssumption DEF Cut, Names, Positions

LEMMA NoCut ==
  ASSUME NEW s \in Names
  PROVE  Cut(s, 0) = [j \in Positions |-> NONE]
  BY DEF Cut, Names, Positions

(* One character more. *)
LEMMA NextCut ==
  ASSUME NEW s \in Names, NEW i \in 0 .. SYMBOL_LEN - 1
  PROVE  Cut(s, i + 1) = [Cut(s, i) EXCEPT ![i + 1] = s[i + 1]]
<1>1. i + 1 \in Positions /\ SYMBOL_LEN \in Nat
  BY TrieAssumption DEF Positions
<1>2. \A j \in Positions : j <= i + 1 <=> (j <= i \/ j = i + 1)
  BY <1>1 DEF Positions
<1> QED
  BY <1>1, <1>2 DEF Cut

(* A label that one more character completes to a prefix is the prefix       *)
(* before it.                                                                *)
LEMMA LastCharacter ==
  ASSUME NEW s \in Names, NEW i \in 0 .. SYMBOL_LEN - 1, NEW l \in Partial,
         NEW x \in Chars,
         \A j \in Positions : l[j] \in Chars <=> j <= i,
         [l EXCEPT ![i + 1] = x] = Cut(s, i + 1)
  PROVE  l = Cut(s, i) /\ x = s[i + 1]
<1>1. i + 1 \in Positions /\ SYMBOL_LEN \in Nat /\ i \in 0 .. SYMBOL_LEN /\ i + 1 \in 0 .. SYMBOL_LEN
  BY TrieAssumption DEF Positions
<1> DEFINE k == [l EXCEPT ![i + 1] = x]
<1>2. \A j \in Positions : k[j] = IF j = i + 1 THEN x ELSE l[j]
  BY DEF Partial
<1>3. \A j \in Positions : k[j] = IF j <= i + 1 THEN s[j] ELSE NONE
  <2>1. \A j \in Positions : Cut(s, i + 1)[j] = IF j <= i + 1 THEN s[j] ELSE NONE
    BY <1>1, CutType
  <2>2. k = Cut(s, i + 1)
    OBVIOUS
  <2> HIDE DEF k
  <2> QED BY <2>1, <2>2, Zenon
<1>4. x = s[i + 1]
  BY <1>1, <1>2, <1>3
<1>5. ASSUME NEW j \in Positions
      PROVE  l[j] = Cut(s, i)[j]
  <2>1. Cut(s, i)[j] = IF j <= i THEN s[j] ELSE NONE
    BY <1>1, CutType
  <2>2. j \in Nat /\ i \in Nat
    BY DEF Positions
  <2>3. CASE j <= i
    BY <2>1, <2>2, <2>3, <1>2, <1>3
  <2>4. CASE ~(j <= i)
    <3>1. l[j] = NONE
      BY <2>4 DEF Partial
    <3> QED BY <3>1, <2>1, <2>4
  <2> QED BY <2>3, <2>4
<1>6. l = Cut(s, i)
  BY <1>1, <1>5, CutType DEF Partial
<1> QED
  BY <1>4, <1>6

LEMMA PrefixOf ==
  ASSUME NEW s \in Names, NEW i \in Positions
  PROVE  Cut(s, i) \in Prefixes(s)
  BY DEF Prefixes

-----------------------------------------------------------------------------
(* Nodes and prefixes                                                        *)

LEMMA UsedFacts ==
  ASSUME TypeOK
  PROVE  /\ 0 \in Used
         /\ Used \subseteq Nodes
         /\ \A n \in Used : label[n] \in Partial /\ depth[n] \in 0 .. SYMBOL_LEN
         /\ \A n \in Used, x \in Chars : children[n][x] \in Nodes
<1>1. 0 \in Used /\ Used \subseteq Nodes
  BY TrieAssumption DEF TypeOK, Used, Nodes
<1>2. \A n \in Nodes : label[n] \in Partial /\ depth[n] \in 0 .. SYMBOL_LEN
  BY DEF TypeOK
<1>3. \A n \in Nodes, x \in Chars : children[n][x] \in Nodes
  BY DEF TypeOK
<1> QED
  BY <1>1, <1>2, <1>3

LEMMA RootLabel ==
  ASSUME TypeOK, LabelsReach, NEW s \in Names
  PROVE  label[0] = Cut(s, 0)
<1>1. 0 \in Used /\ label[0] \in Partial /\ depth[0] = 0
  BY UsedFacts DEF LabelsReach
<1>2. \A j \in Positions : label[0][j] \notin Chars
  BY <1>1 DEF LabelsReach, Positions
<1>3. \A j \in Positions : label[0][j] = NONE
  BY <1>1, <1>2 DEF Partial
<1> QED
  BY <1>1, <1>3, NoCut DEF Partial

(* The depth of a node is the length of its label. *)
LEMMA DepthOf ==
  ASSUME TypeOK, LabelsReach, NEW s \in Names, NEW i \in 0 .. SYMBOL_LEN,
         NEW n \in Used, label[n] = Cut(s, i)
  PROVE  depth[n] = i
<1>1. depth[n] \in 0 .. SYMBOL_LEN /\ SYMBOL_LEN \in Nat
  BY UsedFacts, TrieAssumption
<1>2. \A j \in Positions : j <= depth[n] <=> j <= i
  BY CutType DEF LabelsReach
<1> QED
  BY <1>1, <1>2 DEF Positions

(* A node with a nonempty prefix is a child of the node one character up. *)
LEMMA ParentOf ==
  ASSUME TypeOK, EdgesSpell, NodesReached, LabelsReach,
         NEW s \in Names, NEW i \in 0 .. SYMBOL_LEN - 1,
         NEW m \in Used, label[m] = Cut(s, i + 1)
  PROVE  m # 0 /\ \E n \in Used : label[n] = Cut(s, i) /\ children[n][s[i + 1]] = m
<1>1. depth[m] = i + 1 /\ i \in Nat /\ SYMBOL_LEN \in Nat
  BY DepthOf, TrieAssumption
<1>2. m # 0
  BY <1>1 DEF LabelsReach
<1>3. PICK n \in Used, x \in Chars : children[n][x] = m
  BY <1>2 DEF NodesReached
<1>4. depth[n] = i /\ label[m] = [label[n] EXCEPT ![i + 1] = x]
  <2>1. depth[m] = depth[n] + 1 /\ label[m] = [label[n] EXCEPT ![depth[m]] = x]
    BY <1>2, <1>3 DEF EdgesSpell
  <2> QED BY <2>1, <1>1, UsedFacts
<1>5. label[n] = Cut(s, i) /\ x = s[i + 1]
  <2>1. label[n] \in Partial /\ \A j \in Positions : label[n][j] \in Chars <=> j <= i
    BY <1>4, UsedFacts DEF LabelsReach
  <2> QED BY <2>1, <1>4, LastCharacter
<1> QED
  BY <1>2, <1>3, <1>5

(* An edge for the next character leads to the node of the longer prefix. *)
LEMMA ChildOf ==
  ASSUME TypeOK, EdgesSpell, LabelsReach,
         NEW s \in Names, NEW i \in 0 .. SYMBOL_LEN - 1,
         NEW n \in Used, label[n] = Cut(s, i), children[n][s[i + 1]] # 0
  PROVE  /\ children[n][s[i + 1]] \in Used
         /\ depth[children[n][s[i + 1]]] = i + 1
         /\ label[children[n][s[i + 1]]] = Cut(s, i + 1)
<1>1. i + 1 \in Positions /\ i \in 0 .. SYMBOL_LEN /\ s[i + 1] \in Chars
  BY TrieAssumption DEF Positions, Names
<1>2. depth[n] = i
  BY <1>1, DepthOf
<1> DEFINE m == children[n][s[i + 1]]
<1>3. m \in Used /\ depth[m] = i + 1 /\ label[m] = [label[n] EXCEPT ![depth[m]] = s[i + 1]]
  BY <1>1, <1>2 DEF EdgesSpell
<1> QED
  BY <1>3, NextCut

(* Without that edge there is no such node. *)
LEMMA NoChild ==
  ASSUME TypeOK, EdgesSpell, NodesReached, LabelsReach, LabelsDiffer,
         NEW s \in Names, NEW i \in 0 .. SYMBOL_LEN - 1,
         NEW n \in Used, label[n] = Cut(s, i), children[n][s[i + 1]] = 0
  PROVE  \A m \in Used : label[m] # Cut(s, i + 1)
  BY ParentOf DEF LabelsDiffer

(* Where a prefix has a node, all shorter ones have. *)
LEMMA PrefixClosed ==
  ASSUME TypeOK, EdgesSpell, NodesReached, LabelsReach,
         NEW s \in Names, NEW i \in 0 .. SYMBOL_LEN,
         \A m \in Used : label[m] # Cut(s, i)
  PROVE  \A m \in Used : label[m] # s
<1> DEFINE S == {j \in i .. SYMBOL_LEN : \A m \in Used : label[m] # Cut(s, j)}
           age == [j \in S |-> SYMBOL_LEN - j]
<1>1. SYMBOL_LEN \in Nat /\ i \in S
  BY TrieAssumption
<1>2. PICK j \in S : \A k \in S : age[j] <= age[k]
  <2>1. S # {} /\ \A k \in S : age[k] \in Nat
    BY <1>1
  <2> HIDE DEF S, age
  <2> QED BY <2>1, Data!LeastAge, Zenon
<1>3. ~(j < SYMBOL_LEN)
  <2> SUFFICES ASSUME j < SYMBOL_LEN PROVE FALSE
    OBVIOUS
  <2>1. j \in 0 .. SYMBOL_LEN - 1 /\ j + 1 \in i .. SYMBOL_LEN
    BY <1>1
  <2>2. \A m \in Used : label[m] # Cut(s, j + 1)
    <3> SUFFICES ASSUME NEW m \in Used, label[m] = Cut(s, j + 1) PROVE FALSE
      OBVIOUS
    <3>1. \E n \in Used : label[n] = Cut(s, j)
      BY <2>1, ParentOf
    <3> QED BY <3>1
  <2>3. j + 1 \in S
    BY <2>1, <2>2
  <2>4. age[j] = SYMBOL_LEN - j /\ age[j + 1] = SYMBOL_LEN - (j + 1) /\ age[j] <= age[j + 1]
    BY <2>3, <1>2
  <2> QED BY <2>4, <2>1, <1>1
<1>4. j = SYMBOL_LEN
  BY <1>1, <1>3
<1> QED
  BY <1>4, WholeCut

-----------------------------------------------------------------------------
(* Calls                                                                     *)

Calls == [op : {"idle", "lookup", "insert"}, symbol : Symbols \cup {INVALID_BOOK_ID},
          i : 0 .. SYMBOL_LEN, node_idx : Nodes]

Answers == [symbol : Symbols \cup {INVALID_BOOK_ID},
            id : Ids \cup {INVALID_BOOK_ID}, created : BOOLEAN]

Name == NameOf(call.symbol)

LEMMA CallFields ==
  ASSUME NEW r \in Calls
  PROVE  /\ r = [op |-> r.op, symbol |-> r.symbol, i |-> r.i, node_idx |-> r.node_idx]
         /\ r.op \in {"idle", "lookup", "insert"} /\ r.symbol \in Symbols \cup {INVALID_BOOK_ID}
  BY DEF Calls

LEMMA CallRestarts ==
  ASSUME NEW r \in Calls, 0 \in Nodes, NEW q,
         q = [r EXCEPT !.op = "insert", !.i = 0, !.node_idx = 0]
  PROVE  /\ q \in Calls
         /\ q.op = "insert" /\ q.symbol = r.symbol /\ q.i = 0 /\ q.node_idx = 0
<1>1. r = [op |-> r.op, symbol |-> r.symbol, i |-> r.i, node_idx |-> r.node_idx]
  BY DEF Calls
<1>2. q = [op |-> "insert", symbol |-> r.symbol, i |-> 0, node_idx |-> 0]
  BY <1>1
<1>3. r.symbol \in Symbols \cup {INVALID_BOOK_ID} /\ 0 \in 0 .. SYMBOL_LEN
  BY TrieAssumption DEF Calls
<1> QED
  BY <1>2, <1>3 DEF Calls

LEMMA NoCallType == NoCall \in Calls /\ NoCall.op = "idle"
  BY TrieAssumption DEF NoCall, Calls, Nodes

(* Where a call stands that has a character before it, or none. *)
LEMMA CallStands ==
  ASSUME IInv, call.op # "idle"
  PROVE  /\ call.symbol \in Symbols /\ Name \in Names /\ Name \in asked
         /\ call.node_idx \in Used /\ call.node_idx \in Nodes
         /\ call.i \in 0 .. SYMBOL_LEN
         /\ depth[call.node_idx] = call.i
         /\ label[call.node_idx] = Cut(Name, call.i)
         /\ call.op = "insert" => given[Name] = INVALID_BOOK_ID
<1>1. call # NoCall
  BY NoCallType
<1> QED
  BY <1>1, NameType, UsedFacts DEF IInv, CallPlaced, Name, TypeOK

LEMMA CharAt ==
  ASSUME IInv, AtChar
  PROVE  /\ call.i \in 0 .. SYMBOL_LEN - 1
         /\ call.i + 1 \in Positions
         /\ c = Name[call.i + 1]
         /\ c \in Chars
         /\ Child = children[call.node_idx][Name[call.i + 1]]
<1>1. call.i \in 0 .. SYMBOL_LEN - 1 /\ call.i + 1 \in Positions
  BY CallStands, TrieAssumption DEF AtChar, Positions
<1>2. c = Name[call.i + 1] /\ Name[call.i + 1] \in Chars
  BY <1>1, CallStands, NameType DEF c, Name, AtChar, Names
<1> QED
  BY <1>1, <1>2 DEF Child

(* A character without a child: nothing is stored under the name. *)
LEMMA NotStored ==
  ASSUME IInv, AtChar, Child = 0
  PROVE  /\ \A m \in Used : label[m] # Cut(Name, call.i + 1)
         /\ given[Name] = INVALID_BOOK_ID
<1>1. \A m \in Used : label[m] # Cut(Name, call.i + 1)
  BY CallStands, CharAt, NoChild DEF AtChar, IInv
<1>2. \A m \in Used : label[m] # Name
  <2>1. call.i + 1 \in 0 .. SYMBOL_LEN /\ Name \in Names
    BY CallStands, CharAt, TrieAssumption DEF AtChar
  <2>2. TypeOK /\ EdgesSpell /\ NodesReached /\ LabelsReach
    BY DEF IInv
  <2> QED BY <1>1, <2>1, <2>2, PrefixClosed
<1> QED
  BY <1>1, <1>2, CallStands DEF IInv, IdsPlaced, AtChar

(* At the end of a name: its id is the node's. *)
LEMMA StoredHere ==
  ASSUME IInv, AtEnd
  PROVE  /\ label[call.node_idx] = Name
         /\ book_id[call.node_idx] = given[Name]
<1>1. label[call.node_idx] = Name /\ Name \in Names /\ call.node_idx \in Used /\ call.node_idx \in Nodes
  BY CallStands, WholeCut DEF AtEnd
<1> QED
  BY <1>1 DEF IInv, IdsPlaced

-----------------------------------------------------------------------------
(* The steps                                                                 *)

LEMMA InitIInv == Init => IInv
<1> SUFFICES ASSUME Init PROVE IInv
  OBVIOUS
<1>1. Used = {0} /\ 0 \in Nodes
  BY TrieAssumption DEF Init, Used, Nodes
<1>2. TypeOK
  <2>1. call \in Calls
    BY NoCallType DEF Init
  <2>2. label \in [Nodes -> Partial] /\ depth \in [Nodes -> 0 .. SYMBOL_LEN]
    BY TrieAssumption DEF Init, Partial
  <2>3. answer \in Answers
    BY DEF Init, Answers
  <2>4. /\ children \in [Nodes -> [Chars -> Nodes]]
        /\ book_id \in [Nodes -> Ids \cup {INVALID_BOOK_ID}]
        /\ node_count \in 1 .. MAX_NODES /\ next_book_id \in 0 .. MAX_BOOKS
        /\ given \in [Names -> Ids \cup {INVALID_BOOK_ID}] /\ asked \subseteq Names
    BY <1>1, TrieAssumption DEF Init
  <2> QED BY <2>1, <2>2, <2>3, <2>4 DEF TypeOK, Calls, Answers
<1>3. FreeNodesEmpty /\ EdgesSpell /\ NodesReached /\ LabelsDiffer
  BY <1>1 DEF Init, FreeNodesEmpty, EdgesSpell, NodesReached, LabelsDiffer
<1>4. LabelsReach
  <2>1. \A j \in Positions : label[0][j] \notin Chars /\ ~(j <= 0)
    BY <1>1, TrieAssumption DEF Init, Positions, Chars
  <2> QED BY <2>1, <1>1 DEF Init, LabelsReach
<1>5. CallPlaced
  BY DEF Init, CallPlaced
<1>6. IdsPlaced
  BY <1>1 DEF Init, IdsPlaced
<1>7. IdsCounted
  <2>1. Known = {} /\ next_book_id = 0
    BY DEF Init, Known
  <2> QED BY <2>1, FS_EmptySet DEF IdsCounted
<1>8. NodesAskedFor
  BY <1>1, FS_EmptySet DEF Init, NodesAskedFor
<1> QED
  BY <1>2, <1>3, <1>4, <1>5, <1>6, <1>7, <1>8 DEF IInv

(* Steps that only move the call. *)
LEMMA CallOnly ==
  ASSUME IInv, UNCHANGED <<node_vars, id_vars>>,
         asked' = asked \/ \E s \in Symbols : asked' = asked \cup {NameOf(s)},
         call' \in Calls, answer' \in Answers, CallPlaced'
  PROVE  IInv'
<1>1. /\ children' = children /\ node_count' = node_count /\ label' = label /\ depth' = depth
      /\ book_id' = book_id /\ next_book_id' = next_book_id /\ given' = given
  BY DEF node_vars, id_vars
<1>2. Used' = Used /\ Known' = Known
  BY <1>1 DEF Used, Known
<1>3. asked \subseteq asked' /\ asked' \subseteq Names /\ IsFiniteSet(asked')
  <2>1. asked \subseteq Names /\ IsFiniteSet(asked)
    BY DEF IInv, TypeOK, NodesAskedFor
  <2>2. CASE asked' = asked
    BY <2>1, <2>2
  <2>3. ASSUME NEW s \in Symbols, asked' = asked \cup {NameOf(s)}
        PROVE  asked \subseteq asked' /\ asked' \subseteq Names /\ IsFiniteSet(asked')
    <3>1. IsFiniteSet(asked \cup {NameOf(s)})
      BY <2>1, FS_AddElement
    <3> QED BY <2>1, <2>3, <3>1, NameType
  <2> QED BY <2>2, <2>3
<1>4. TypeOK'
  BY <1>1, <1>3 DEF IInv, TypeOK, Calls, Answers
<1>5. NodesAskedFor'
  <2>1. AllPrefixes \subseteq AllPrefixes'
    BY <1>3 DEF AllPrefixes, Prefixes
  <2> QED BY <2>1, <1>1, <1>2, <1>3 DEF IInv, NodesAskedFor
<1>6. FreeNodesEmpty' /\ EdgesSpell' /\ NodesReached' /\ LabelsReach' /\ LabelsDiffer'
  BY <1>1, <1>2 DEF IInv, FreeNodesEmpty, EdgesSpell, NodesReached, LabelsReach, LabelsDiffer
<1>7. IdsPlaced' /\ IdsCounted'
  BY <1>1, <1>2 DEF IInv, IdsPlaced, IdsCounted
<1> QED
  BY <1>4, <1>5, <1>6, <1>7 DEF IInv

(* What CallPlaced says of a call under way. *)
LEMMA PlacedNext ==
  ASSUME call'.op \in {"lookup", "insert"}, call'.symbol \in Symbols,
         call'.node_idx \in Used', depth'[call'.node_idx] = call'.i,
         label'[call'.node_idx] = Cut(NameOf(call'.symbol), call'.i),
         NameOf(call'.symbol) \in asked',
         call'.op = "insert" => given'[NameOf(call'.symbol)] = INVALID_BOOK_ID
  PROVE  CallPlaced'
  BY DEF CallPlaced

LEMMA StepGetOrCreate ==
  ASSUME IInv, NEW s \in Symbols, GetOrCreate(s)
  PROVE  IInv'
<1>1. call' = [op |-> "lookup", symbol |-> s, i |-> 0, node_idx |-> 0]
  BY DEF GetOrCreate
<1>2. /\ UNCHANGED <<node_vars, id_vars>> /\ answer' = answer
      /\ asked' = asked \cup {NameOf(s)} /\ Used' = Used /\ depth' = depth /\ label' = label
  BY DEF GetOrCreate, node_vars, Used
<1>3. call' \in Calls
  BY <1>1, UsedFacts, TrieAssumption DEF Calls, IInv
<1>4. CallPlaced'
  <2>1. 0 \in Used /\ depth[0] = 0 /\ label[0] = Cut(NameOf(s), 0)
    BY UsedFacts, RootLabel, NameType DEF IInv, LabelsReach
  <2> QED BY <2>1, <1>1, <1>2, PlacedNext
<1> QED
  BY <1>2, <1>3, <1>4, CallOnly DEF IInv, TypeOK, Answers

LEMMA StepFollow ==
  ASSUME IInv, Follow
  PROVE  IInv'
<1>1. /\ AtChar /\ Child # 0 /\ call \in Calls
      /\ call' = [call EXCEPT !.i = call.i + 1, !.node_idx = Child]
  BY DEF Follow, IInv, TypeOK, Calls
<1>2. /\ UNCHANGED <<node_vars, id_vars, answer, asked>> /\ Used' = Used
      /\ depth' = depth /\ label' = label /\ given' = given
  BY DEF Follow, node_vars, id_vars, Used
<1>3. Child \in Used /\ depth[Child] = call.i + 1 /\ label[Child] = Cut(Name, call.i + 1)
  <2>1. /\ call.node_idx \in Used /\ Name \in Names /\ label[call.node_idx] = Cut(Name, call.i)
    BY <1>1, CallStands DEF AtChar
  <2> QED BY <1>1, <2>1, CharAt, ChildOf DEF IInv
<1>4. call.i + 1 \in 0 .. SYMBOL_LEN /\ Child \in Nodes
  BY <1>1, <1>3, CharAt, UsedFacts, TrieAssumption DEF IInv
<1>5. /\ call' \in Calls /\ call'.op = call.op /\ call'.symbol = call.symbol
      /\ call'.i = call.i + 1 /\ call'.node_idx = Child
  <2>1. call = [op |-> call.op, symbol |-> call.symbol, i |-> call.i, node_idx |-> call.node_idx]
    BY <1>1, CallFields
  <2>2. call' = [op |-> call.op, symbol |-> call.symbol, i |-> call.i + 1, node_idx |-> Child]
    BY <1>1, <2>1
  <2> QED BY <2>2, <1>1, <1>4 DEF Calls
<1>6. CallPlaced'
  <2>1. call.op \in {"lookup", "insert"}
    BY <1>1 DEF Calls, AtChar
  <2>2. /\ call.symbol \in Symbols /\ Name \in asked
        /\ call.op = "insert" => given[Name] = INVALID_BOOK_ID
    BY <1>1, CallStands DEF AtChar
  <2> QED BY <2>1, <2>2, <1>2, <1>3, <1>5, PlacedNext DEF Name
<1> QED
  BY <1>2, <1>5, <1>6, CallOnly DEF IInv, TypeOK, Answers

LEMMA StepLookupMiss ==
  ASSUME IInv, LookupMiss
  PROVE  IInv'
<1>1. /\ call.op = "lookup" /\ call \in Calls
      /\ call' = [call EXCEPT !.op = "insert", !.i = 0, !.node_idx = 0]
  BY DEF LookupMiss, IInv, TypeOK, Calls
<1>2. /\ UNCHANGED <<node_vars, id_vars, answer, asked>> /\ Used' = Used
      /\ depth' = depth /\ label' = label /\ given' = given
  BY DEF LookupMiss, node_vars, id_vars, Used
<1>3. call.symbol \in Symbols /\ Name \in Names /\ Name \in asked
  BY <1>1, CallStands
<1>4. given[Name] = INVALID_BOOK_ID
  BY NotStored, StoredHere DEF LookupMiss
<1>5. /\ 0 \in Nodes /\ 0 \in Used /\ depth[0] = 0 /\ label[0] = Cut(Name, 0)
  BY <1>3, UsedFacts, RootLabel DEF IInv, LabelsReach
<1>6. /\ call' \in Calls /\ call'.op = "insert" /\ call'.symbol = call.symbol
      /\ call'.i = 0 /\ call'.node_idx = 0
  BY <1>1, <1>5, CallRestarts
<1>7. CallPlaced'
  BY <1>2, <1>3, <1>4, <1>5, <1>6, PlacedNext DEF Name
<1> QED
  BY <1>2, <1>6, <1>7, CallOnly DEF IInv, TypeOK, Answers

LEMMA StepLookupHit ==
  ASSUME IInv, LookupHit
  PROVE  IInv'
<1>1. /\ UNCHANGED <<node_vars, id_vars, asked>> /\ call' = NoCall
      /\ answer' = [symbol |-> call.symbol, id |-> book_id[call.node_idx], created |-> FALSE]
      /\ call.op = "lookup"
  BY DEF LookupHit, Return
<1>2. answer' \in Answers
  BY <1>1, CallStands DEF IInv, TypeOK, Answers
<1> QED
  BY <1>1, <1>2, CallOnly, NoCallType DEF CallPlaced

LEMMA StepInsertFull ==
  ASSUME IInv, InsertFull
  PROVE  IInv'
<1>1. /\ UNCHANGED <<node_vars, id_vars, asked>> /\ call' = NoCall
      /\ answer' = [symbol |-> call.symbol, id |-> INVALID_BOOK_ID, created |-> TRUE]
      /\ call.op = "insert"
  BY DEF InsertFull, Return
<1>2. answer' \in Answers
  BY <1>1, CallStands DEF Answers
<1> QED
  BY <1>1, <1>2, CallOnly, NoCallType DEF CallPlaced

LEMMA StepInsertNode ==
  ASSUME IInv, InsertNode
  PROVE  IInv'
<1> DEFINE p == call.node_idx
           n == node_count
           new == Cut(Name, call.i + 1)
<1>1. /\ AtChar /\ call.op = "insert" /\ Child = 0 /\ node_count < MAX_NODES
      /\ children' = [children EXCEPT ![p][c] = n]
      /\ node_count' = n + 1
      /\ label' = [label EXCEPT ![n] = new]
      /\ depth' = [depth EXCEPT ![n] = call.i + 1]
      /\ call' = [call EXCEPT !.i = call.i + 1, !.node_idx = n]
      /\ UNCHANGED <<id_vars, answer, asked>>
  BY DEF InsertNode, Name
<1>2. book_id' = book_id /\ next_book_id' = next_book_id /\ given' = given /\ asked' = asked /\ answer' = answer
  BY <1>1 DEF id_vars
<1>3. /\ n \in Nodes /\ n \notin Used /\ n # 0 /\ n \in Nat /\ n + 1 \in 1 .. MAX_NODES
      /\ Used' = Used \cup {n}
  BY <1>1, TrieAssumption DEF IInv, TypeOK, Used, Nodes
<1>4. /\ p \in Used /\ p \in Nodes /\ p # n /\ c \in Chars
      /\ call.symbol \in Symbols /\ Name \in Names /\ Name \in asked
      /\ given[Name] = INVALID_BOOK_ID
      /\ call.i \in 0 .. SYMBOL_LEN - 1 /\ call.i + 1 \in 0 .. SYMBOL_LEN /\ call.i + 1 \in Positions
      /\ depth[p] = call.i /\ label[p] = Cut(Name, call.i) /\ c = Name[call.i + 1]
  BY <1>1, <1>3, CallStands, CharAt, TrieAssumption DEF AtChar
<1>5. /\ new \in Partial /\ new = [label[p] EXCEPT ![call.i + 1] = c]
      /\ \A j \in Positions : new[j] \in Chars <=> j <= call.i + 1
      /\ \A m \in Used : label[m] # new
  BY <1>1, <1>4, CutType, NextCut, NotStored
<1>6. TypeOK
  BY DEF IInv
<1>7. /\ \A m \in Nodes, x \in Chars :
           children'[m][x] = IF m = p /\ x = c THEN n ELSE children[m][x]
      /\ \A m \in Nodes : label'[m] = IF m = n THEN new ELSE label[m]
      /\ \A m \in Nodes : depth'[m] = IF m = n THEN call.i + 1 ELSE depth[m]
  <2> HIDE DEF p, n, new
  <2> QED BY <1>1, <1>4, <1>6 DEF TypeOK
<1>8. /\ children' \in [Nodes -> [Chars -> Nodes]]
      /\ label' \in [Nodes -> Partial]
      /\ depth' \in [Nodes -> 0 .. SYMBOL_LEN]
  <2>1. children' \in [Nodes -> [Chars -> Nodes]]
    <3> HIDE DEF p, n, new
    <3> QED BY <1>1, <1>3, <1>4, <1>6 DEF TypeOK
  <2>2. label' \in [Nodes -> Partial] /\ depth' \in [Nodes -> 0 .. SYMBOL_LEN]
    <3> HIDE DEF p, n, new
    <3> QED BY <1>1, <1>3, <1>4, <1>5, <1>6 DEF TypeOK
  <2> QED BY <2>1, <2>2
<1>9. /\ call' \in Calls /\ call'.op = "insert" /\ call'.symbol = call.symbol
      /\ call'.i = call.i + 1 /\ call'.node_idx = n
  <2>1. call = [op |-> call.op, symbol |-> call.symbol, i |-> call.i, node_idx |-> call.node_idx]
    BY <1>6, CallFields DEF TypeOK, Calls
  <2>2. call' = [op |-> "insert", symbol |-> call.symbol, i |-> call.i + 1, node_idx |-> n]
    BY <1>1, <2>1
  <2> QED BY <2>2, <1>3, <1>4 DEF Calls
<1> HIDE DEF p, n, new
<1>10. Used \subseteq Nodes /\ \A m \in Used : m # n
  BY <1>3 DEF Used
<1>11. /\ \A m \in Used : label'[m] = label[m] /\ depth'[m] = depth[m]
       /\ label'[n] = new /\ depth'[n] = call.i + 1
  BY <1>3, <1>7, <1>10
<1>12. children[p][c] = 0
  BY <1>1 DEF Child, p
<1>13. TypeOK'
  <2>1. node_count' \in 1 .. MAX_NODES
    BY <1>1, <1>3 DEF n
  <2> QED BY <2>1, <1>2, <1>6, <1>8, <1>9 DEF TypeOK, Calls
<1>14. FreeNodesEmpty'
  <2> SUFFICES ASSUME NEW m \in Nodes \ Used', NEW x \in Chars PROVE children'[m][x] = 0
    BY DEF FreeNodesEmpty
  <2>1. m \in Nodes \ Used /\ m # p
    BY <1>3, <1>4
  <2> QED BY <2>1, <1>7 DEF IInv, FreeNodesEmpty
<1>15. EdgesSpell'
  <2> SUFFICES ASSUME NEW m \in Used', NEW x \in Chars, children'[m][x] # 0
               PROVE  /\ children'[m][x] \in Used'
                      /\ depth'[children'[m][x]] = depth'[m] + 1
                      /\ label'[children'[m][x]] = [label'[m] EXCEPT ![depth'[children'[m][x]]] = x]
    BY DEF EdgesSpell
  <2>1. CASE m = p /\ x = c
    <3>1. children'[m][x] = n
      BY <2>1, <1>4, <1>7
    <3> QED BY <3>1, <2>1, <1>3, <1>4, <1>5, <1>11
  <2>2. CASE ~(m = p /\ x = c)
    <3>1. children'[m][x] = children[m][x] /\ m \in Nodes
      BY <2>2, <1>3, <1>7, <1>10
    <3>2. m # n
      BY <3>1, <1>3 DEF IInv, FreeNodesEmpty
    <3>3. m \in Used /\ children[m][x] \in Used
      BY <3>1, <3>2, <1>3 DEF IInv, EdgesSpell
    <3>4. /\ depth[children[m][x]] = depth[m] + 1
          /\ label[children[m][x]] = [label[m] EXCEPT ![depth[children[m][x]]] = x]
      BY <3>1, <3>3 DEF IInv, EdgesSpell
    <3> QED BY <3>1, <3>3, <3>4, <1>3, <1>11
  <2> QED BY <2>1, <2>2
<1>16. NodesReached'
  <2> SUFFICES ASSUME NEW m \in Used' \ {0}
               PROVE  \E a \in Used', x \in Chars : children'[a][x] = m
    BY DEF NodesReached
  <2>1. CASE m = n
    BY <2>1, <1>3, <1>4, <1>7
  <2>2. CASE m # n
    <3>1. PICK a \in Used, x \in Chars : children[a][x] = m
      BY <2>2, <1>3 DEF IInv, NodesReached
    <3>2. ~(a = p /\ x = c)
      BY <3>1, <1>12
    <3>3. children'[a][x] = m
      BY <3>1, <3>2, <1>7, <1>10
    <3> QED BY <3>3, <1>3
  <2> QED BY <2>1, <2>2
<1>17. LabelsReach' /\ LabelsDiffer'
  <2>1. depth'[0] = 0
    BY <1>3, <1>11, UsedFacts DEF IInv, LabelsReach
  <2>2. ASSUME NEW m \in Used', NEW j \in Positions
        PROVE  label'[m][j] \in Chars <=> j <= depth'[m]
    BY <1>3, <1>5, <1>11 DEF IInv, LabelsReach
  <2>3. ASSUME NEW m \in Used', NEW k \in Used', label'[m] = label'[k]
        PROVE  m = k
    BY <2>3, <1>3, <1>5, <1>11 DEF IInv, LabelsDiffer
  <2> QED BY <2>1, <2>2, <2>3 DEF LabelsReach, LabelsDiffer
<1>18. CallPlaced'
  <2>1. n \in Used' /\ depth'[n] = call.i + 1 /\ label'[n] = Cut(NameOf(call.symbol), call.i + 1)
    BY <1>3, <1>11 DEF new, Name
  <2>2. NameOf(call.symbol) \in asked' /\ given'[NameOf(call.symbol)] = INVALID_BOOK_ID
    BY <1>2, <1>4 DEF Name
  <2> QED BY <2>1, <2>2, <1>4, <1>9, PlacedNext
<1>19. new \in Names => given[new] = INVALID_BOOK_ID
  <2> SUFFICES ASSUME new \in Names PROVE new = Name
    BY <1>4
  <2>1. SYMBOL_LEN \in Positions /\ SYMBOL_LEN \in Nat
    BY TrieAssumption DEF Positions
  <2>2. new[SYMBOL_LEN] \in Chars
    BY <2>1 DEF Names
  <2>3. call.i + 1 = SYMBOL_LEN
    BY <2>1, <2>2, <1>4, <1>5
  <2> QED BY <2>3, <1>4, WholeCut DEF new
<1>20. IdsPlaced'
  <2>1. ASSUME NEW m \in Nodes
        PROVE  book_id'[m] = IF m \in Used' /\ label'[m] \in Names THEN given'[label'[m]] ELSE INVALID_BOOK_ID
    <3>1. book_id[m] = IF m \in Used /\ label[m] \in Names THEN given[label[m]] ELSE INVALID_BOOK_ID
      BY DEF IInv, IdsPlaced
    <3>2. CASE m = n
      <4>1. book_id[m] = INVALID_BOOK_ID
        BY <3>1, <3>2, <1>3
      <4> QED BY <4>1, <3>2, <1>2, <1>11, <1>19
    <3>3. CASE m # n
      <4>1. m \in Used' <=> m \in Used
        BY <3>3, <1>3
      <4>2. m \in Used => label'[m] = label[m]
        BY <1>11
      <4> QED BY <4>1, <4>2, <3>1, <1>2
    <3> QED BY <3>2, <3>3
  <2>2. ASSUME NEW s \in Names, given'[s] # INVALID_BOOK_ID
        PROVE  \E m \in Used' : label'[m] = s
    BY <2>2, <1>2, <1>3, <1>11 DEF IInv, IdsPlaced
  <2> QED BY <2>1, <2>2 DEF IdsPlaced
<1>21. IdsCounted'
  BY <1>2 DEF IInv, IdsCounted, Known
<1>22. NodesAskedFor'
  <2>1. AllPrefixes' = AllPrefixes
    BY <1>2 DEF AllPrefixes
  <2>2. new \in AllPrefixes
    BY <1>4, PrefixOf DEF AllPrefixes, new
  <2> QED BY <2>1, <2>2, <1>2, <1>3, <1>11 DEF IInv, NodesAskedFor
<1> QED
  BY <1>13, <1>14, <1>15, <1>16, <1>17, <1>18, <1>20, <1>21, <1>22 DEF IInv

LEMMA StepInsertId ==
  ASSUME IInv, InsertId
  PROVE  /\ IInv'
         /\ Name \in Names \ Known
         /\ given' = [given EXCEPT ![Name] = Cardinality(Known)]
<1> DEFINE p == call.node_idx
           id == next_book_id
<1>1. /\ AtEnd /\ call.op = "insert" /\ id < MAX_BOOKS
      /\ book_id' = [book_id EXCEPT ![p] = id]
      /\ next_book_id' = id + 1
      /\ given' = [given EXCEPT ![Name] = id]
      /\ answer' = [symbol |-> call.symbol, id |-> id, created |-> TRUE]
      /\ call' = NoCall
      /\ UNCHANGED <<node_vars, asked>>
  BY DEF InsertId, Return, Name
<1>2. /\ children' = children /\ node_count' = node_count /\ label' = label /\ depth' = depth
      /\ asked' = asked /\ Used' = Used
  BY <1>1 DEF node_vars, Used
<1>3. /\ call.symbol \in Symbols /\ Name \in Names /\ p \in Used /\ p \in Nodes
      /\ label[p] = Name /\ given[Name] = INVALID_BOOK_ID
  BY <1>1, CallStands, StoredHere DEF AtEnd
<1>4. /\ id \in Ids /\ id # INVALID_BOOK_ID /\ id \in Nat /\ id + 1 \in 0 .. MAX_BOOKS
  BY <1>1, TrieAssumption DEF IInv, TypeOK, Ids
<1>5. TypeOK
  BY DEF IInv
<1> HIDE DEF p, id
<1>6. /\ \A m \in Nodes : book_id'[m] = IF m = p THEN id ELSE book_id[m]
      /\ \A s \in Names : given'[s] = IF s = Name THEN id ELSE given[s]
      /\ book_id' \in [Nodes -> Ids \cup {INVALID_BOOK_ID}]
      /\ given' \in [Names -> Ids \cup {INVALID_BOOK_ID}]
  BY <1>1, <1>3, <1>4, <1>5 DEF TypeOK
<1>7. TypeOK'
  <2>1. answer' \in Answers
    BY <1>1, <1>3, <1>4 DEF Answers
  <2>2. call' \in Calls
    BY <1>1, NoCallType
  <2> QED BY <2>1, <2>2, <1>1, <1>2, <1>4, <1>5, <1>6 DEF TypeOK, Calls, Answers
<1>8. FreeNodesEmpty' /\ EdgesSpell' /\ NodesReached' /\ LabelsReach' /\ LabelsDiffer' /\ NodesAskedFor'
  BY <1>2 DEF IInv, FreeNodesEmpty, EdgesSpell, NodesReached, LabelsReach, LabelsDiffer,
              NodesAskedFor, AllPrefixes
<1>9. CallPlaced'
  BY <1>1 DEF CallPlaced
<1>10. IdsPlaced'
  <2>1. ASSUME NEW m \in Nodes
        PROVE  book_id'[m] = IF m \in Used' /\ label'[m] \in Names THEN given'[label'[m]] ELSE INVALID_BOOK_ID
    <3>1. book_id[m] = IF m \in Used /\ label[m] \in Names THEN given[label[m]] ELSE INVALID_BOOK_ID
      BY DEF IInv, IdsPlaced
    <3>2. CASE m = p
      BY <3>2, <1>2, <1>3, <1>6
    <3>3. CASE m # p
      <4>1. m \in Used => label[m] # Name
        BY <3>3, <1>3 DEF IInv, LabelsDiffer
      <4> QED BY <4>1, <3>1, <3>3, <1>2, <1>6
    <3> QED BY <3>2, <3>3
  <2>2. ASSUME NEW s \in Names, given'[s] # INVALID_BOOK_ID
        PROVE  \E m \in Used' : label'[m] = s
    BY <2>2, <1>2, <1>3, <1>6 DEF IInv, IdsPlaced
  <2> QED BY <2>1, <2>2 DEF IdsPlaced
<1>11. Known' = Known \cup {Name} /\ Name \notin Known
  BY <1>3, <1>4, <1>6 DEF Known
<1>12. IsFiniteSet(Known) /\ Cardinality(Known) = id
  BY DEF IInv, IdsCounted, id
<1>13. IdsCounted'
  <2>1. IsFiniteSet(Known') /\ Cardinality(Known') = id + 1
    BY <1>11, <1>12, FS_AddElement
  <2>2. \A s \in Known : given'[s] = given[s]
    BY <1>6, <1>11 DEF Known
  <2>3. given'[Name] = id
    BY <1>3, <1>6
  <2>4. {given[s] : s \in Known} = 0 .. id - 1
    BY DEF IInv, IdsCounted, id
  <2>5. {given'[s] : s \in Known'} = 0 .. (id + 1) - 1
    <3>1. {given'[s] : s \in Known'} = {given[s] : s \in Known} \cup {id}
      BY <1>11, <2>2, <2>3
    <3> QED BY <3>1, <2>4, <1>4
  <2>6. \A s \in Known : given[s] # id
    BY <2>4, <1>4
  <2>7. \A s, t \in Known' : given'[s] = given'[t] => s = t
    BY <1>11, <2>2, <2>3, <2>6 DEF IInv, IdsCounted
  <2> QED BY <2>1, <2>5, <2>7, <1>1 DEF IdsCounted
<1> QED
  BY <1>1, <1>3, <1>7, <1>8, <1>9, <1>10, <1>11, <1>12, <1>13 DEF IInv

LEMMA StepIInv == IInv /\ [Next]_vars => IInv'
<1> SUFFICES ASSUME IInv, [Next]_vars PROVE IInv'
  OBVIOUS
<1>1. CASE UNCHANGED vars
  <2>1. UNCHANGED <<node_vars, id_vars>> /\ call' = call /\ answer' = answer /\ asked' = asked
    BY <1>1 DEF vars
  <2>2. CallPlaced' /\ call' \in Calls /\ answer' \in Answers
    BY <2>1 DEF IInv, CallPlaced, TypeOK, Calls, Answers, node_vars, id_vars, Used
  <2> QED BY <2>1, <2>2, CallOnly
<1>2. CASE Next
  BY <1>2, StepGetOrCreate, StepFollow, StepLookupHit, StepLookupMiss, StepInsertNode,
     StepInsertId, StepInsertFull DEF Next
<1> QED
  BY <1>1, <1>2

(* Lookup and insert, a character at a time, keep the nodes the prefixes of  *)
(* the names asked for and the ids at the nodes of the names they were given *)
(* to.                                                                       *)
THEOREM Inductive == Spec => []IInv
  BY InitIInv, StepIInv, PTL DEF Spec

-----------------------------------------------------------------------------
(* The walk of a lookup                                                      *)

(* The nodes that spell a name, as far as there are any. *)
NodeOf(s, i) ==
  IF i # 0 /\ \E n \in Used : label[n] = Cut(s, i)
    THEN CHOOSE n \in Used : label[n] = Cut(s, i)
    ELSE 0

Spelled(s) == [i \in 0 .. SYMBOL_LEN |-> NodeOf(s, i)]

(* One turn of the loop, from the nodes f passed so far. *)
Turn(s, f, i) ==
  IF i = 0 THEN 0
  ELSE IF i > 1 /\ f[i - 1] = 0 THEN 0 ELSE children[f[i - 1]][s[i]]

IsWalk(s, f) == f = [i \in 0 .. SYMBOL_LEN |-> Turn(s, f, i)]

LEMMA NodeOfFacts ==
  ASSUME IInv, NEW s \in Names, NEW i \in 0 .. SYMBOL_LEN
  PROVE  /\ NodeOf(s, i) \in Used
         /\ NodeOf(s, i) # 0 => label[NodeOf(s, i)] = Cut(s, i)
         /\ NodeOf(s, i) = 0 /\ i # 0 => \A n \in Used : label[n] # Cut(s, i)
         /\ \A n \in Used : i # 0 /\ label[n] = Cut(s, i) => NodeOf(s, i) = n
<1>1. TypeOK /\ EdgesSpell /\ NodesReached /\ LabelsReach /\ LabelsDiffer /\ 0 \in Used
  BY UsedFacts DEF IInv
<1>2. CASE i # 0 /\ \E n \in Used : label[n] = Cut(s, i)
  <2>1. NodeOf(s, i) \in Used /\ label[NodeOf(s, i)] = Cut(s, i)
    BY <1>2 DEF NodeOf
  <2>2. depth[NodeOf(s, i)] = i
    BY <2>1, <1>1, DepthOf
  <2>3. NodeOf(s, i) # 0
    BY <2>2, <1>1, <1>2 DEF LabelsReach
  <2> QED BY <2>1, <2>3, <1>1 DEF LabelsDiffer
<1>3. CASE ~(i # 0 /\ \E n \in Used : label[n] = Cut(s, i))
  BY <1>1, <1>3 DEF NodeOf
<1> QED
  BY <1>2, <1>3

LEMMA SpelledIsWalk ==
  ASSUME IInv, NEW s \in Names
  PROVE  IsWalk(s, Spelled(s))
<1> SUFFICES ASSUME NEW k \in 0 .. SYMBOL_LEN
             PROVE  NodeOf(s, k) = Turn(s, Spelled(s), k)
  BY DEF IsWalk, Spelled
<1>1. CASE k = 0
  BY <1>1 DEF NodeOf, Turn
<1>2. CASE k # 0
  <2> DEFINE i == k - 1
             p == NodeOf(s, i)
  <2>1. i \in 0 .. SYMBOL_LEN - 1 /\ i \in 0 .. SYMBOL_LEN /\ i + 1 = k
    BY <1>2, TrieAssumption
  <2>2. Spelled(s)[k - 1] = p
    BY <2>1 DEF Spelled
  <2>3. /\ TypeOK /\ EdgesSpell /\ NodesReached /\ LabelsReach /\ LabelsDiffer
        /\ 0 \in Used /\ label[0] = Cut(s, 0)
    BY UsedFacts, RootLabel DEF IInv
  <2>4. p \in Used
    BY <2>1, NodeOfFacts
  <2>5. CASE k > 1 /\ p = 0
    <3>1. \A n \in Used : label[n] # Cut(s, i)
      BY <2>1, <2>5, NodeOfFacts
    <3>2. \A n \in Used : label[n] # Cut(s, i + 1)
      BY <3>1, <2>1, <2>3, ParentOf
    <3>3. NodeOf(s, k) = 0
      BY <3>2, <2>1 DEF NodeOf
    <3> QED BY <3>3, <2>2, <2>5, <1>2 DEF Turn
  <2>6. CASE ~(k > 1 /\ p = 0)
    <3>1. label[p] = Cut(s, i)
      <4>1. CASE p = 0
        <5>1. i = 0
          BY <4>1, <2>6, <2>1
        <5> QED BY <5>1, <4>1, <2>3
      <4>2. CASE p # 0
        BY <4>2, <2>1, NodeOfFacts
      <4> QED BY <4>1, <4>2
    <3> HIDE DEF p, i
    <3>2. Turn(s, Spelled(s), k) = children[p][s[i + 1]]
      BY <2>1, <2>2, <2>6, <1>2 DEF Turn
    <3>3. CASE children[p][s[i + 1]] = 0
      <4>1. \A n \in Used : label[n] # Cut(s, i + 1)
        BY <3>1, <3>3, <2>1, <2>3, <2>4, NoChild
      <4> QED BY <4>1, <3>2, <3>3, <2>1 DEF NodeOf
    <3>4. CASE children[p][s[i + 1]] # 0
      <4>1. children[p][s[i + 1]] \in Used /\ label[children[p][s[i + 1]]] = Cut(s, i + 1)
        BY <3>1, <3>4, <2>1, <2>3, <2>4, ChildOf
      <4> QED BY <4>1, <3>2, <2>1, <1>2, NodeOfFacts
    <3> QED BY <3>3, <3>4
  <2> QED BY <2>5, <2>6
<1> QED
  BY <1>1, <1>2

(* There is only one walk: two of them would part at a first place. *)
LEMMA OneWalk ==
  ASSUME NEW s, NEW f, NEW g, IsWalk(s, f), IsWalk(s, g)
  PROVE  f = g
<1> DEFINE S == {i \in 0 .. SYMBOL_LEN : f[i] # g[i]}
           age == [i \in S |-> i]
<1>1. \A i \in 0 .. SYMBOL_LEN : f[i] = Turn(s, f, i) /\ g[i] = Turn(s, g, i)
  BY DEF IsWalk
<1>2. S = {}
  <2> SUFFICES ASSUME S # {} PROVE FALSE
    OBVIOUS
  <2>1. PICK i \in S : \A k \in S : age[i] <= age[k]
    <3>1. S # {} /\ \A k \in S : age[k] \in Nat
      OBVIOUS
    <3> HIDE DEF S, age
    <3> QED BY <3>1, Data!LeastAge, Zenon
  <2>2. i \in 0 .. SYMBOL_LEN /\ f[i] # g[i] /\ \A k \in S : i <= k
    BY <2>1
  <2>3. i # 0
    BY <2>2, <1>1 DEF Turn
  <2>4. i - 1 \in 0 .. SYMBOL_LEN /\ ~(i <= i - 1)
    BY <2>2, <2>3, TrieAssumption
  <2>5. f[i - 1] = g[i - 1]
    BY <2>2, <2>4
  <2>6. Turn(s, f, i) = Turn(s, g, i)
    BY <2>5 DEF Turn
  <2> QED BY <2>2, <2>6, <1>1
<1>3. f = [i \in 0 .. SYMBOL_LEN |-> f[i]] /\ g = [i \in 0 .. SYMBOL_LEN |-> g[i]]
  BY DEF IsWalk
<1>4. \A i \in 0 .. SYMBOL_LEN : f[i] = g[i]
  BY <1>2
<1> HIDE DEF S
<1> QED
  BY <1>3, <1>4

(* So the walk of Route ends at the node of the whole name. *)
LEMMA RouteEnds ==
  ASSUME IInv, NEW s \in Names
  PROVE  Route(s) = IF NodeOf(s, SYMBOL_LEN) = 0 THEN INVALID_BOOK_ID
                    ELSE book_id[NodeOf(s, SYMBOL_LEN)]
<1> DEFINE walk == CHOOSE f : IsWalk(s, f)
<1>1. IsWalk(s, walk)
  BY SpelledIsWalk
<1>2. walk = Spelled(s)
  BY <1>1, SpelledIsWalk, OneWalk
<1>3. Route(s) = IF walk[SYMBOL_LEN] = 0 THEN INVALID_BOOK_ID ELSE book_id[walk[SYMBOL_LEN]]
  BY Zenon DEF Route, IsWalk, Turn
<1>4. Spelled(s)[SYMBOL_LEN] = NodeOf(s, SYMBOL_LEN)
  BY TrieAssumption DEF Spelled
<1> QED
  BY <1>2, <1>3, <1>4

-----------------------------------------------------------------------------
(* Theorems                                                                  *)

(* The variables of the trie have their types. *)
THEOREM TypeCorrect == Spec => []TypeOK
<1>1. IInv => TypeOK
  BY DEF IInv
<1> QED
  BY <1>1, Inductive, PTL

(* The nodes are a tree of prefixes, one per prefix, also in the middle of   *)
(* an insert and after one that found no room (trie.hpp's insert()).         *)
THEOREM AlwaysTreeShaped == Spec => []TreeShaped
<1>1. IInv => TreeShaped
  BY DEF IInv, FreeNodesEmpty, EdgesSpell, NodesReached, LabelsReach, LabelsDiffer, TreeShaped
<1> QED
  BY <1>1, Inductive, PTL

(* lookup() finds every name under the id it was given, and under none if it *)
(* was given none; ids are given out in order, each once.                    *)
THEOREM RoutesAlwaysExact == Spec => []RoutesExact
<1>1. IInv => RoutesExact
  <2> SUFFICES ASSUME IInv PROVE RoutesExact
    OBVIOUS
  <2>1. ASSUME NEW s \in Names PROVE Route(s) = given[s]
    <3>1. SYMBOL_LEN \in 0 .. SYMBOL_LEN /\ SYMBOL_LEN # 0 /\ Cut(s, SYMBOL_LEN) = s
      BY TrieAssumption, WholeCut
    <3>2. CASE NodeOf(s, SYMBOL_LEN) = 0
      <4>1. \A n \in Used : label[n] # s
        BY <3>1, <3>2, NodeOfFacts
      <4>2. given[s] = INVALID_BOOK_ID
        BY <4>1 DEF IInv, IdsPlaced
      <4> QED BY <4>2, <3>2, RouteEnds
    <3>3. CASE NodeOf(s, SYMBOL_LEN) # 0
      <4>1. NodeOf(s, SYMBOL_LEN) \in Used /\ label[NodeOf(s, SYMBOL_LEN)] = s
        BY <3>1, <3>3, NodeOfFacts
      <4>2. book_id[NodeOf(s, SYMBOL_LEN)] = given[s]
        BY <4>1, UsedFacts DEF IInv, IdsPlaced
      <4> QED BY <4>2, <3>3, RouteEnds
    <3> QED BY <3>2, <3>3
  <2>2. {given[s] : s \in Names} \ {INVALID_BOOK_ID} = {given[s] : s \in Known}
    BY DEF Known
  <2>3. {given[s] : s \in Known} = 0 .. next_book_id - 1
    BY DEF IInv, IdsCounted
  <2>4. \A s, t \in Names : given[s] = given[t] /\ given[s] # INVALID_BOOK_ID => s = t
    BY DEF IInv, IdsCounted, Known
  <2> QED BY <2>1, <2>2, <2>3, <2>4 DEF RoutesExact
<1> QED
  BY <1>1, Inductive, PTL

-----------------------------------------------------------------------------
(* The trie implements SymbolRouter                                          *)

(* The instance has a cardinality of its own, and so has the proof. *)
LEMMA SameCardinality == \A S : Abstract!Cardinality(S) = Cardinality(S)
  BY Zenon DEF Abstract!Cardinality, Cardinality

LEMMA SameKnown == Abstract!Known = Known
  BY DEF Abstract!Known, Known

(* What the nodes in use and one more need of prefixes. *)
LEMMA PrefixesFill ==
  ASSUME IInv, AtChar, Child = 0, node_count >= MAX_NODES
  PROVE  Cardinality(AllPrefixes) >= MAX_NODES
<1> DEFINE new == Cut(Name, call.i + 1)
           L == {label[n] : n \in Used \ {0}}
<1>1. TypeOK /\ node_count = MAX_NODES /\ MAX_NODES \in Nat \ {0} /\ 0 \in Used
  BY TrieAssumption, UsedFacts DEF IInv, TypeOK
<1>2. Name \in Names /\ Name \in asked /\ call.i + 1 \in Positions
  BY CallStands, CharAt DEF AtChar
<1>3. new \in AllPrefixes
  BY <1>2, PrefixOf DEF AllPrefixes
<1>4. new \notin L
  BY NotStored
<1>5. L \subseteq AllPrefixes
  BY DEF IInv, NodesAskedFor
<1>6. IsFiniteSet(AllPrefixes)
  <2>1. IsFiniteSet(asked)
    BY DEF IInv, NodesAskedFor
  <2>2. IsFiniteSet(Positions)
    BY FS_Interval, TrieAssumption DEF Positions
  <2>3. ASSUME NEW t \in asked PROVE IsFiniteSet(Prefixes(t))
    <3>1. Prefixes(t) = {Cut(t, i) : i \in Positions}
      BY DEF Prefixes
    <3> DEFINE f == [i \in Positions |-> Cut(t, i)]
    <3>2. f \in Surjection(Positions, Prefixes(t))
      BY <3>1, Fun_IsSurj
    <3> QED BY <3>2, <2>2, FS_Surjection
  <2> DEFINE F == {Prefixes(t) : t \in asked}
  <2>4. IsFiniteSet(F)
    <3> DEFINE f == [t \in asked |-> Prefixes(t)]
    <3>1. f \in Surjection(asked, F)
      BY Fun_IsSurj
    <3> HIDE DEF f, F
    <3> QED BY <3>1, <2>1, FS_Surjection
  <2>5. \A P \in F : IsFiniteSet(P)
    BY <2>3
  <2>6. AllPrefixes = UNION F
    BY DEF AllPrefixes
  <2> HIDE DEF F
  <2> QED BY <2>4, <2>5, <2>6, FS_UNION
<1>7. IsFiniteSet(L) /\ Cardinality(L) = MAX_NODES - 1
  <2>1. Used \ {0} = 1 .. MAX_NODES - 1
    BY <1>1 DEF Used, Nodes
  <2>2. IsFiniteSet(Used \ {0}) /\ Cardinality(Used \ {0}) = MAX_NODES - 1
    <3>1. 1 \in Int /\ MAX_NODES - 1 \in Int /\ MAX_NODES - 1 >= 0
      BY <1>1
    <3>2. /\ IsFiniteSet(1 .. MAX_NODES - 1)
          /\ Cardinality(1 .. MAX_NODES - 1) = IF 1 > MAX_NODES - 1 THEN 0 ELSE (MAX_NODES - 1) - 1 + 1
      BY <3>1, FS_Interval
    <3>3. Cardinality(1 .. MAX_NODES - 1) = MAX_NODES - 1
      BY <3>1, <3>2
    <3> QED BY <3>2, <3>3, <2>1
  <2> DEFINE U == Used \ {0}
             f == [n \in U |-> label[n]]
  <2>3. \A n, m \in U : label[n] = label[m] => n = m
    BY DEF IInv, LabelsDiffer
  <2>4. f \in [U -> L] /\ (\A n, m \in U : f[n] = f[m] => n = m) /\ \A l \in L : \E n \in U : f[n] = l
    BY <2>3
  <2>5. f \in Bijection(U, L)
    <3> HIDE DEF f, U, L
    <3> QED BY <2>4, Fun_IsBij
  <2> HIDE DEF f, U, L
  <2>6. ExistsBijection(U, L)
    BY <2>5, Zenon DEF ExistsBijection
  <2>7. IsFiniteSet(U) /\ Cardinality(U) = MAX_NODES - 1
    BY <2>2 DEF U
  <2> QED BY <2>6, <2>7, FS_Bijection
<1>8. Cardinality(L \cup {new}) = MAX_NODES
  <2> HIDE DEF L, new
  <2> QED BY <1>4, <1>7, <1>1, FS_AddElement
<1>9. L \cup {new} \subseteq AllPrefixes
  BY <1>3, <1>5
<1> HIDE DEF L, new
<1>10. Cardinality(L \cup {new}) <= Cardinality(AllPrefixes)
  BY <1>6, <1>9, FS_Subset
<1> QED
  BY <1>8, <1>10

LEMMA RefineInit == Init => Abstract!Init
  BY DEF Init, Abstract!Init

LEMMA RefineStep ==
  ASSUME IInv, [Next]_vars
  PROVE  [Abstract!Next]_(Abstract!vars)
<1>1. ASSUME UNCHANGED <<given, asked, answer>>
      PROVE  UNCHANGED Abstract!vars
  BY <1>1 DEF Abstract!vars
<1>2. ASSUME NEW s \in Symbols, GetOrCreate(s)
      PROVE  Abstract!Next
  <2>1. Abstract!Ask(s)
    BY <1>2 DEF GetOrCreate, id_vars, Abstract!Ask
  <2> QED BY <2>1 DEF Abstract!Next
<1>3. CASE Follow \/ LookupMiss \/ InsertNode
  BY <1>1, <1>3 DEF Follow, LookupMiss, InsertNode, id_vars
<1>4. CASE LookupHit
  <2>1. call.symbol \in Symbols /\ Name \in asked /\ Name \in Names
    BY <1>4, CallStands DEF LookupHit
  <2>2. book_id[call.node_idx] = given[Name] /\ given[Name] # INVALID_BOOK_ID
    BY <1>4, StoredHere DEF LookupHit
  <2>3. /\ answer' = [symbol |-> call.symbol, id |-> given[Name], created |-> FALSE]
        /\ UNCHANGED <<given, asked>>
    BY <1>4, <2>2 DEF LookupHit, Return, id_vars
  <2>4. Name \in Abstract!Known
    BY <2>1, <2>2, SameKnown DEF Known
  <2>5. Abstract!Found(call.symbol)
    BY <2>1, <2>3, <2>4 DEF Abstract!Found, Name
  <2> QED BY <2>1, <2>5 DEF Abstract!Next
<1>5. CASE InsertId
  <2>1. call.symbol \in Symbols /\ Name \in asked /\ Name \in Names
    BY <1>5, CallStands DEF InsertId
  <2>2. Name \notin Known /\ given' = [given EXCEPT ![Name] = Cardinality(Known)]
    BY <1>5, StepInsertId
  <2>3. next_book_id = Cardinality(Known)
    BY DEF IInv, IdsCounted
  <2>4. /\ answer' = [symbol |-> call.symbol, id |-> Cardinality(Known), created |-> TRUE]
        /\ Cardinality(Known) < MAX_BOOKS /\ asked' = asked
    BY <1>5, <2>3 DEF InsertId, Return
  <2>5. Abstract!Cardinality(Abstract!Known) = Cardinality(Known) /\ Abstract!Known = Known
    BY SameCardinality, SameKnown
  <2>6. Abstract!Register(call.symbol)
    BY <2>1, <2>2, <2>4, <2>5 DEF Abstract!Register, Name
  <2> QED BY <2>1, <2>6 DEF Abstract!Next
<1>6. CASE InsertFull
  <2>1. call.symbol \in Symbols /\ Name \in asked /\ Name \in Names /\ given[Name] = INVALID_BOOK_ID
    BY <1>6, CallStands DEF InsertFull
  <2>2. /\ answer' = [symbol |-> call.symbol, id |-> INVALID_BOOK_ID, created |-> TRUE]
        /\ UNCHANGED <<given, asked>>
    BY <1>6 DEF InsertFull, Return, id_vars
  <2>3. \/ Cardinality(Known) = MAX_BOOKS
        \/ Cardinality(AllPrefixes) >= MAX_NODES
    <3>1. CASE AtChar /\ Child = 0 /\ node_count >= MAX_NODES
      BY <3>1, PrefixesFill
    <3>2. CASE AtEnd /\ next_book_id >= MAX_BOOKS
      <4>1. next_book_id \in 0 .. MAX_BOOKS /\ Cardinality(Known) = next_book_id
        BY DEF IInv, TypeOK, IdsCounted
      <4> QED BY <4>1, <3>2, TrieAssumption
    <3> QED BY <1>6, <3>1, <3>2 DEF InsertFull
  <2>4. /\ Abstract!Cardinality(Abstract!Known) = Cardinality(Known) /\ Abstract!Known = Known
        /\ Abstract!Cardinality(AllPrefixes) = Cardinality(AllPrefixes)
    BY SameCardinality, SameKnown
  <2>5. Abstract!Refuse(call.symbol)
    <3>1. Name \in asked \ Abstract!Known
      BY <2>1, <2>4 DEF Known
    <3> QED BY <2>2, <2>3, <2>4, <3>1 DEF Abstract!Refuse, Name, AllPrefixes
  <2> QED BY <2>1, <2>5 DEF Abstract!Next
<1>7. CASE UNCHANGED vars
  BY <1>1, <1>7 DEF vars, id_vars
<1> QED
  BY <1>2, <1>3, <1>4, <1>5, <1>6, <1>7 DEF Next

(* Every answer of the trie is one that the table of ids gives: refusals too *)
(* come only when the ids or the nodes really are used up.                   *)
THEOREM Refinement == Spec => RefinesRouter
<1>1. Init => Abstract!Init
  BY RefineInit
<1>2. IInv /\ [Next]_vars => [Abstract!Next]_(Abstract!vars)
  BY RefineStep
<1> QED
  BY <1>1, <1>2, Inductive, PTL DEF Spec, RefinesRouter, Abstract!Spec

===============================================================================
