---------------------------- MODULE LevelProofs ----------------------------
(***************************************************************************)
(* Proofs about the two structures that hold an amount per price level.    *)
(*                                                                         *)
(* The flat book of types.hpp, for any number of levels, any word size and *)
(* any messages: its best prices are never behind its levels, and it never *)
(* has an ask.                                                             *)
(*                                                                         *)
(* The Fenwick tree of fenwick.hpp, for any size, power of two or not, and *)
(* any updates: its range sums and its two searches answer as the array it *)
(* stands for does.                                                        *)
(***************************************************************************)
EXTENDS PriceLevelBook, FenwickTree, TLAPS

(* For its lemmas on least elements, recursion and sums. *)
Data == INSTANCE DataTheorems WITH NULL <- -1

-----------------------------------------------------------------------------
(* The flat book                                                             *)

LEMMA PriceFacts ==
  /\ Prices \subseteq Nat /\ MAX_PRICE_LEVELS \in Nat /\ 0 \in Prices
  /\ U32 \in Nat /\ INVALID_PRICE \in Nat
  /\ \A p \in Prices : p < INVALID_PRICE /\ p < MAX_PRICE_LEVELS
  /\ Quantities \subseteq Nat
  BY LevelAssumption DEF Prices, INVALID_PRICE

(* Of any prices one is the best. *)
LEMMA BestExists ==
  ASSUME NEW s \in Sides, NEW S \in SUBSET Prices, S # {}
  PROVE  \E p \in S : \A o \in S : ~Better(s, o, p)
<1>1. CASE s = "ask"
  <2> DEFINE age == [p \in S |-> p]
  <2>1. \A p \in S : age[p] \in Nat
    BY PriceFacts
  <2>2. PICK p \in S : \A o \in S : age[p] <= age[o]
    <3> HIDE DEF age
    <3> QED
      BY <2>1, Data!LeastAge
  <2> QED
    BY <1>1, <2>2, PriceFacts DEF Better
<1>2. CASE s = "bid"
  <2> DEFINE age == [p \in S |-> MAX_PRICE_LEVELS - p]
  <2>1. \A p \in S : age[p] \in Nat
    <3>1. \A p \in S : p \in Nat /\ p < MAX_PRICE_LEVELS
      BY PriceFacts
    <3> QED
      BY <3>1, PriceFacts
  <2>2. PICK p \in S : \A o \in S : age[p] <= age[o]
    <3> HIDE DEF age
    <3> QED
      BY <2>1, Data!LeastAge
  <2>3. ASSUME NEW o \in S PROVE ~(o > p)
    <3>1. age[p] <= age[o] /\ o \in Nat /\ p \in Nat
      BY <2>2, PriceFacts
    <3> QED
      BY <3>1, PriceFacts
  <2> QED
    BY <1>2, <2>3 DEF Better
<1> QED
  BY <1>1, <1>2 DEF Sides

(* The scan of the levels finds a price, or none, and no level with quantity *)
(* among those it looks at is better.                                        *)
LEMMA ScanExact ==
  ASSUME NEW v, NEW s \in Sides, NEW from
  PROVE  /\ Scan(v, s, from) \in Prices \cup {INVALID_PRICE}
         /\ \A p \in Prices : v[<<s, p>>] # 0 /\ ~Better(s, p, from)
                                => ~Better(s, p, Scan(v, s, from))
         /\ (\A p \in Prices : v[<<s, p>>] = 0) => Scan(v, s, from) = NoBest(s)
<1> DEFINE found == {p \in Prices : v[<<s, p>>] # 0 /\ ~Better(s, p, from)}
<1>1. CASE found = {}
  <2>1. Scan(v, s, from) = NoBest(s)
    BY <1>1 DEF Scan
  <2>2. NoBest(s) \in Prices \cup {INVALID_PRICE}
    BY PriceFacts DEF NoBest
  <2> QED
    BY <1>1, <2>1, <2>2
<1>2. CASE found # {}
  <2>1. Scan(v, s, from) = CHOOSE p \in found : \A o \in found : ~Better(s, o, p)
    BY <1>2 DEF Scan
  <2>2. found \in SUBSET Prices
    OBVIOUS
  <2>3. Scan(v, s, from) \in found /\ \A o \in found : ~Better(s, o, Scan(v, s, from))
    <3>1. \E p \in found : \A o \in found : ~Better(s, o, p)
      <4> HIDE DEF found
      <4> QED
        BY <1>2, <2>2, BestExists
    <3> HIDE DEF found
    <3> QED
      BY <2>1, <3>1
  <2> QED
    BY <2>2, <2>3
<1> QED
  BY <1>1, <1>2

-----------------------------------------------------------------------------
(* The inductive invariant: the three properties together.                   *)
IInv == TypeOK /\ BestNotBehind /\ OneSided

LEMMA InitIInv == Init => IInv
  BY PriceFacts DEF Init, IInv, TypeOK, BestNotBehind, OneSided, Levels, Sides, NoBest, INVALID_PRICE

(* Adding to the bids, the only side that is ever added to. *)
LEMMA AddIInv ==
  ASSUME IInv, NEW p \in Prices, NEW x \in Quantities, Add("bid", p, x)
  PROVE  IInv'
<1>1. level_qty \in [Levels -> 0 .. U32 - 1] /\ best \in [Sides -> Prices \cup {INVALID_PRICE}]
  BY DEF IInv, TypeOK
<1>2. "bid" \in Sides /\ <<"bid", p>> \in Levels
  BY DEF Sides, Levels
<1>3. TypeOK'
  <2>1. level_qty[<<"bid", p>>] \in Nat /\ x \in Nat /\ U32 \in Nat \ {0}
    BY <1>1, <1>2, PriceFacts, LevelAssumption
  <2>2. (level_qty[<<"bid", p>>] + x) % U32 \in 0 .. U32 - 1
    BY <2>1
  <2> QED
    BY <1>1, <1>2, <2>2 DEF Add, TypeOK
<1>4. ASSUME NEW s \in Sides, NEW o \in Prices, level_qty'[<<s, o>>] > 0
      PROVE  ~Better(s, o, best'[s])
  <2>0. /\ best[s] \in Nat /\ best["bid"] \in Nat /\ o \in Nat /\ p \in Nat
        /\ <<s, o>> \in Levels
    BY <1>1, <1>2, PriceFacts DEF Levels
  <2>1. CASE <<s, o>> = <<"bid", p>>
    BY <1>1, <1>2, <2>0, <2>1 DEF Add, Better
  <2>2. CASE <<s, o>> # <<"bid", p>>
    <3>1. level_qty[<<s, o>>] > 0
      BY <1>1, <1>2, <1>4, <2>0, <2>2 DEF Add
    <3>2. ~Better(s, o, best[s])
      BY <3>1 DEF IInv, BestNotBehind
    <3>3. best'[s] = best[s] \/ (s = "bid" /\ best'[s] = p /\ p > best[s])
      BY <1>1, <1>2 DEF Add, Better
    <3> QED
      BY <2>0, <3>2, <3>3 DEF Better
  <2> QED
    BY <2>1, <2>2
<1>5. OneSided'
  BY <1>1, <1>2 DEF Add, IInv, OneSided, Levels, Sides
<1> QED
  BY <1>3, <1>4, <1>5 DEF IInv, BestNotBehind

LEMMA TradeIInv ==
  ASSUME IInv, NEW p \in Prices, NEW x \in Quantities, Trade("bid", p, x)
  PROVE  IInv'
<1>1. level_qty \in [Levels -> 0 .. U32 - 1] /\ best \in [Sides -> Prices \cup {INVALID_PRICE}]
  BY DEF IInv, TypeOK
<1>2. "bid" \in Sides /\ <<"bid", p>> \in Levels
  BY DEF Sides, Levels
<1>3. /\ level_qty' \in [Levels -> 0 .. U32 - 1]
      /\ \A l \in Levels : level_qty'[l] > 0 => level_qty[l] > 0
      /\ \A l \in Levels : l # <<"bid", p>> => level_qty'[l] = level_qty[l]
  <2>1. level_qty[<<"bid", p>>] \in 0 .. U32 - 1 /\ x \in Nat
    BY <1>1, <1>2, PriceFacts
  <2> DEFINE rest == IF level_qty[<<"bid", p>>] >= x THEN level_qty[<<"bid", p>>] - x ELSE 0
  <2>2. rest \in 0 .. U32 - 1 /\ (rest > 0 => level_qty[<<"bid", p>>] > 0)
    BY <2>1, PriceFacts, LevelAssumption
  <2>3. level_qty' = [level_qty EXCEPT ![<<"bid", p>>] = rest]
    BY DEF Trade
  <2> HIDE DEF rest
  <2> QED
    BY <1>1, <1>2, <2>2, <2>3
<1>4. \/ best' = best
      \/ /\ best' = [best EXCEPT !["bid"] = Scan(level_qty', "bid", p)]
         /\ p = best["bid"]
  BY DEF Trade
<1>5. best' \in [Sides -> Prices \cup {INVALID_PRICE}]
  <2>1. Scan(level_qty', "bid", p) \in Prices \cup {INVALID_PRICE}
    BY <1>2, ScanExact
  <2> QED
    BY <1>1, <1>4, <2>1
<1>6. ASSUME NEW s \in Sides, NEW o \in Prices, level_qty'[<<s, o>>] > 0
      PROVE  ~Better(s, o, best'[s])
  <2>0. <<s, o>> \in Levels
    BY DEF Levels
  <2>1. ~Better(s, o, best[s])
    BY <1>3, <1>6, <2>0 DEF IInv, BestNotBehind
  <2>2. CASE best'[s] = best[s]
    BY <2>1, <2>2
  <2>3. CASE best'[s] # best[s]
    <3>1. s = "bid" /\ p = best["bid"] /\ best'[s] = Scan(level_qty', "bid", p)
      BY <1>1, <1>2, <1>4, <2>3
    <3>2. level_qty'[<<"bid", o>>] # 0
      BY <1>3, <1>6, <2>0, <3>1
    <3>3. ~Better("bid", o, p)
      BY <2>1, <3>1
    <3> QED
      BY <1>2, <3>1, <3>2, <3>3, ScanExact
  <2> QED
    BY <2>2, <2>3
<1>7. OneSided'
  <2>1. best'["ask"] = best["ask"] /\ "ask" \in Sides
    BY <1>1, <1>4 DEF Sides
  <2>2. \A o \in Prices : level_qty'[<<"ask", o>>] = level_qty[<<"ask", o>>]
    BY <1>3 DEF Levels, Sides
  <2> QED
    BY <2>1, <2>2 DEF IInv, OneSided
<1> QED
  BY <1>3, <1>5, <1>6, <1>7 DEF IInv, TypeOK, BestNotBehind

LEMMA NextIInv == IInv /\ [Next]_vars => IInv'
<1> SUFFICES ASSUME IInv, [Next]_vars PROVE IInv'
  OBVIOUS
<1>0. best["ask"] = INVALID_PRICE /\ \A p \in Prices : level_qty[<<"ask", p>>] = 0
  BY DEF IInv, OneSided
<1>1. ASSUME NEW p \in PriceInputs, NEW x \in Quantities, ProcessAdd(p, x)
      PROVE  IInv'
  <2>1. p \in Prices
    BY <1>1, LevelAssumption DEF ProcessAdd, Prices
  <2>2. Add("bid", p, x)
    BY <1>0, <1>1 DEF ProcessAdd, IsBid
  <2> QED
    BY <2>1, <2>2, AddIInv
<1>2. ASSUME NEW p \in PriceInputs, NEW x \in Quantities, ProcessTrade(p, x)
      PROVE  IInv'
  <2>1. p \in Prices
    BY <1>2, LevelAssumption DEF ProcessTrade, Prices
  <2>2. Trade("bid", p, x)
    BY <1>0, <1>2, <2>1 DEF ProcessTrade
  <2> QED
    BY <2>1, <2>2, TradeIInv
<1>3. CASE UNCHANGED vars
  BY <1>3 DEF vars, IInv, TypeOK, BestNotBehind, OneSided
<1> QED
  BY <1>1, <1>2, <1>3 DEF Next, ProcessIgnored

LEMMA Invariance == Spec => []IInv
<1> QED
  BY InitIInv, NextIInv, PTL DEF Spec

-----------------------------------------------------------------------------
(* The variables of the flat book have their types. *)
THEOREM TypeCorrect == Spec => []TypeOK
<1>1. IInv => TypeOK
  BY DEF IInv
<1> QED
  BY <1>1, Invariance, PTL

(* No level with quantity is better than the best price that types.hpp's     *)
(* update_best_bid() found by scanning, whatever wrapped before.             *)
THEOREM BestNeverBehind == Spec => []BestNotBehind
<1>1. IInv => BestNotBehind
  BY DEF IInv
<1> QED
  BY <1>1, Invariance, PTL

(* process_add() never makes an ask. *)
THEOREM AlwaysOneSided == Spec => []OneSided
<1>1. IInv => OneSided
  BY DEF IInv
<1> QED
  BY <1>1, Invariance, PTL

-----------------------------------------------------------------------------
(* The Fenwick tree                                                          *)

Positive == Nat \ {0}

(* Induction on age, and by halves.                                          *)
LEMMA ByAge ==
  ASSUME NEW S, NEW age, \A x \in S : age[x] \in Nat, NEW G,
         \A x \in S : (\A y \in S : age[y] < age[x] => y \in G) => x \in G
  PROVE  S \subseteq G
<1>1. ASSUME S \ G # {} PROVE FALSE
  <2>1. PICK x \in S \ G : \A y \in S \ G : age[x] <= age[y]
    <3>1. \A y \in S \ G : age[y] \in Nat
      OBVIOUS
    <3> QED BY <1>1, <3>1, Data!LeastAge
  <2>2. \A y \in S : age[y] < age[x] => y \in G
    <3>1. \A y \in S : age[y] \in Nat
      OBVIOUS
    <3> QED BY <2>1, <3>1
  <2> QED BY <2>1, <2>2
<1> QED BY <1>1

LEMMA ByHalves ==
  ASSUME NEW G, \A k \in Nat : 2 * k + 1 \in G, \A k \in Positive : k \in G => 2 * k \in G
  PROVE  Positive \subseteq G
<1> DEFINE age == [i \in Positive |-> i]
<1>1. \A i \in Positive : age[i] \in Nat
  BY DEF Positive
<1>2. ASSUME NEW i \in Positive, \A j \in Positive : age[j] < age[i] => j \in G PROVE i \in G
  <2>1. CASE i % 2 = 1
    <3>1. i \div 2 \in Nat /\ i = 2 * (i \div 2) + 1
      BY <2>1 DEF Positive
    <3> QED BY <3>1
  <2>2. CASE i % 2 # 1
    <3>1. i \div 2 \in Positive /\ i = 2 * (i \div 2) /\ i \div 2 < i
      BY <2>2 DEF Positive
    <3>2. i \div 2 \in G
      BY <1>2, <3>1
    <3> QED BY <3>1, <3>2
  <2> QED BY <2>1, <2>2
<1> HIDE DEF age
<1> QED BY <1>1, <1>2, ByAge

(* The lowest set bit: of an odd number 1, of an even one twice that of its  *)
(* half.                                                                     *)
LEMMA LsbSteps ==
  /\ \A k \in Nat : Lsb[2 * k + 1] = 1
  /\ \A k \in Positive : Lsb[2 * k] = 2 * Lsb[k]
<1> DEFINE IsLsb(f) == f = [i \in Positive |-> IF i % 2 = 1 THEN 1 ELSE 2 * f[i \div 2]]
           stop == {i \in Positive : i % 2 = 1}
           next == [i \in Positive |-> i \div 2]
           m == [i \in Positive |-> i]
           g == [i \in Positive |-> 1]
           h == [p \in Positive \X Positive |-> 2 * p[2]]
<1>1. PICK f \in [Positive -> Positive] : \A i \in Positive : Data!Calls(f, i, stop, next, g, h)
  <2>1. \A i \in Positive : m[i] \in Nat
    BY DEF Positive
  <2>2. \A i \in Positive \ stop : next[i] \in Positive /\ m[next[i]] < m[i]
    BY DEF Positive
  <2>3. \A i \in Positive, v \in Positive : h[<<i, v>>] \in Positive
    BY DEF Positive
  <2>4. g \in [Positive -> Positive]
    BY DEF Positive
  <2> HIDE DEF stop, next, m, g, h
  <2> QED BY <2>1, <2>2, <2>3, <2>4, Data!RecursionExists
<1>2. IsLsb(f)
  <2>1. \A i \in Positive : f[i] = IF i % 2 = 1 THEN 1 ELSE 2 * f[i \div 2]
    <3> SUFFICES ASSUME NEW i \in Positive PROVE f[i] = IF i % 2 = 1 THEN 1 ELSE 2 * f[i \div 2]
      OBVIOUS
    <3>1. f[i] = IF i \in stop THEN g[i] ELSE h[<<i, f[next[i]]>>]
      BY <1>1 DEF Data!Calls
    <3>2. i % 2 # 1 => i \div 2 \in Positive
      BY DEF Positive
    <3> QED BY <1>1, <3>1, <3>2
  <2>2. f = [i \in Positive |-> f[i]]
    BY <1>1
  <2> QED BY <2>1, <2>2
<1>3. Lsb = CHOOSE f2 : IsLsb(f2)
  BY Zenon DEF Lsb, Positive
<1>4. IsLsb(Lsb)
  <2> HIDE DEF IsLsb
  <2> QED BY <1>2, <1>3
<1>5. \A i \in Positive : Lsb[i] = IF i % 2 = 1 THEN 1 ELSE 2 * Lsb[i \div 2]
  <2> SUFFICES ASSUME NEW i \in Positive
               PROVE  Lsb[i] = IF i % 2 = 1 THEN 1 ELSE 2 * Lsb[i \div 2]
    OBVIOUS
  <2> QED BY <1>4
<1>6. ASSUME NEW k \in Nat PROVE Lsb[2 * k + 1] = 1
  <2>1. 2 * k + 1 \in Positive /\ (2 * k + 1) % 2 = 1
    BY DEF Positive
  <2> QED BY <1>5, <2>1
<1>7. ASSUME NEW k \in Positive PROVE Lsb[2 * k] = 2 * Lsb[k]
  <2>1. 2 * k \in Positive /\ (2 * k) % 2 # 1 /\ (2 * k) \div 2 = k
    BY DEF Positive
  <2> QED BY <1>5, <2>1
<1> QED BY <1>6, <1>7

LEMMA LsbRange == \A i \in Positive : Lsb[i] \in Nat /\ 1 <= Lsb[i] /\ Lsb[i] <= i
<1> DEFINE G == {i \in Positive : Lsb[i] \in Nat /\ 1 <= Lsb[i] /\ Lsb[i] <= i}
<1>1. ASSUME NEW k \in Nat PROVE 2 * k + 1 \in G
  BY LsbSteps DEF Positive
<1>2. ASSUME NEW k \in Positive, k \in G PROVE 2 * k \in G
  BY <1>2, LsbSteps DEF Positive
<1>3. Positive \subseteq G
  <2> HIDE DEF G
  <2> QED BY <1>1, <1>2, ByHalves
<1> QED BY <1>3

(* Every number is odd, or twice another. *)
LEMMA Parity ==
  ASSUME NEW j \in Positive
  PROVE  \/ \E k \in Nat : j = 2 * k + 1 /\ Lsb[j] = 1
         \/ \E k \in Positive : j = 2 * k /\ Lsb[j] = 2 * Lsb[k]
<1>1. CASE j % 2 = 1
  <2>1. j \div 2 \in Nat /\ j = 2 * (j \div 2) + 1
    BY <1>1 DEF Positive
  <2> QED BY <2>1, LsbSteps
<1>2. CASE j % 2 # 1
  <2>1. j \div 2 \in Positive /\ j = 2 * (j \div 2)
    BY <1>2 DEF Positive
  <2> QED BY <2>1, LsbSteps
<1> QED BY <1>1, <1>2

(* Stepping up from inside the range of an entry never passes the entry, and *)
(* stepping up from before the range never enters it.                        *)
LEMMA StepsUp ==
  ASSUME NEW i \in Positive, NEW j \in Positive, j < i
  PROVE  IF j <= i - Lsb[i]
           THEN j + Lsb[j] <= i - Lsb[i] \/ j + Lsb[j] > i
           ELSE j + Lsb[j] <= i
<1> DEFINE Ok(n) == \A l \in Positive : l < n =>
                      IF l <= n - Lsb[n]
                        THEN l + Lsb[l] <= n - Lsb[n] \/ l + Lsb[l] > n
                        ELSE l + Lsb[l] <= n
           G == {n \in Positive : Ok(n)}
<1>1. ASSUME NEW k \in Nat PROVE 2 * k + 1 \in G
  <2> DEFINE n == 2 * k + 1
  <2>1. n \in Positive /\ Lsb[n] = 1
    BY LsbSteps DEF Positive
  <2>2. ASSUME NEW l \in Positive, l < n
        PROVE  l <= n - 1 /\ (l + Lsb[l] <= n - 1 \/ l + Lsb[l] > n)
    <3>1. CASE \E q \in Nat : l = 2 * q + 1 /\ Lsb[l] = 1
      BY <2>2, <3>1
    <3>2. CASE \E q \in Positive : l = 2 * q /\ Lsb[l] = 2 * Lsb[q]
      BY <2>2, <3>2, LsbRange DEF Positive
    <3> QED BY <3>1, <3>2, Parity
  <2> HIDE DEF n
  <2>3. n \in G
    BY <2>1, <2>2
  <2> QED BY <2>3 DEF n
<1>2. ASSUME NEW k \in Positive, k \in G PROVE 2 * k \in G
  <2> DEFINE n == 2 * k
  <2>1. n \in Positive /\ Lsb[n] = 2 * Lsb[k] /\ Lsb[k] \in Nat
    BY LsbSteps, LsbRange DEF Positive
  <2>2. ASSUME NEW l \in Positive, l < n
        PROVE  IF l <= n - Lsb[n]
                 THEN l + Lsb[l] <= n - Lsb[n] \/ l + Lsb[l] > n
                 ELSE l + Lsb[l] <= n
    <3>1. CASE \E q \in Nat : l = 2 * q + 1 /\ Lsb[l] = 1
      BY <2>1, <2>2, <3>1 DEF Positive
    <3>2. CASE \E q \in Positive : l = 2 * q /\ Lsb[l] = 2 * Lsb[q]
      <4>1. PICK q \in Positive : l = 2 * q /\ Lsb[l] = 2 * Lsb[q]
        BY <3>2
      <4>2. q < k /\ Lsb[q] \in Nat
        BY <2>2, <4>1, LsbRange DEF Positive
      <4>3. IF q <= k - Lsb[k]
              THEN q + Lsb[q] <= k - Lsb[k] \/ q + Lsb[q] > k
              ELSE q + Lsb[q] <= k
        BY <1>2, <4>2
      <4> QED BY <2>1, <4>1, <4>2, <4>3 DEF Positive
    <3> QED BY <3>1, <3>2, Parity
  <2> HIDE DEF n
  <2>3. n \in G
    BY <2>1, <2>2
  <2> QED BY <2>3 DEF n
<1>3. Positive \subseteq G
  <2> HIDE DEF G
  <2> QED BY <1>1, <1>2, ByHalves
<1>4. Ok(i)
  BY <1>3
<1> QED BY <1>4

(* A power of two is its own lowest bit; added to a multiple of its double,  *)
(* it is the lowest bit of the sum.                                          *)
Power(pw) == pw \in Positive /\ Lsb[pw] = pw

OnGrid(pos, pw) == pos = 0 \/ Lsb[pos] >= pw

LEMMA Powers ==
  /\ Power(1)
  /\ \A pw : Power(pw) => Power(2 * pw)
  /\ \A a, b : Power(a) /\ Power(b) /\ a < b => 2 * a <= b
<1>1. Power(1)
  <2>1. Lsb[2 * 0 + 1] = 1
    BY LsbSteps
  <2> QED BY <2>1 DEF Power, Positive
<1>2. ASSUME NEW pw, Power(pw) PROVE Power(2 * pw)
  BY <1>2, LsbSteps DEF Power, Positive
<1>3. ASSUME NEW a, NEW b, Power(a), Power(b), a < b PROVE 2 * a <= b
  BY <1>3, StepsUp DEF Power, Positive
<1> QED BY <1>1, <1>2, <1>3

LEMMA GridSteps ==
  ASSUME NEW pw, Power(pw), NEW pos \in Nat, OnGrid(pos, 2 * pw)
  PROVE  Lsb[pos + pw] = pw
<1> DEFINE Ok(p) == Lsb[p] = p => \A o \in Nat : OnGrid(o, 2 * p) => Lsb[o + p] = p
           G == {p \in Positive : Ok(p)}
<1>1. ASSUME NEW k \in Nat PROVE 2 * k + 1 \in G
  <2> DEFINE p == 2 * k + 1
  <2>1. p \in Positive
    BY DEF Positive
  <2>2. ASSUME Lsb[p] = p, NEW o \in Nat, OnGrid(o, 2 * p)
        PROVE  Lsb[o + p] = p
    <3>1. p = 1
      BY <2>2, LsbSteps
    <3>2. \E q \in Nat : o = 2 * q
      <4>1. CASE o = 0
        BY <4>1
      <4>2. CASE o # 0
        <5>1. o \in Positive /\ Lsb[o] >= 2
          BY <2>2, <3>1, <4>2 DEF OnGrid, Positive
        <5> QED BY <5>1, Parity DEF Positive
      <4> QED BY <4>1, <4>2
    <3> HIDE DEF p
    <3> QED BY <3>1, <3>2, LsbSteps
  <2> HIDE DEF p
  <2>3. p \in G
    BY <2>1, <2>2
  <2> QED BY <2>3 DEF p
<1>2. ASSUME NEW k \in Positive, k \in G PROVE 2 * k \in G
  <2> DEFINE p == 2 * k
  <2>1. p \in Positive /\ k \in Nat
    BY DEF Positive
  <2>2. ASSUME Lsb[p] = p, NEW o \in Nat, OnGrid(o, 2 * p)
        PROVE  Lsb[o + p] = p
    <3>1. Lsb[k] = k
      <4>1. Lsb[p] = 2 * Lsb[k] /\ Lsb[k] \in Nat
        BY LsbSteps, LsbRange
      <4> HIDE DEF p
      <4>2. 2 * Lsb[k] = 2 * k
        BY <2>2, <4>1 DEF p
      <4> QED BY <2>1, <4>1, <4>2
    <3>2. \E q \in Nat : o = 2 * q /\ OnGrid(q, 2 * k)
      <4>1. CASE o = 0
        BY <4>1 DEF OnGrid
      <4>2. CASE o # 0
        <5>1. o \in Positive /\ Lsb[o] >= 4 * k
          BY <2>1, <2>2, <4>2 DEF OnGrid, Positive
        <5>2. PICK q \in Positive : o = 2 * q /\ Lsb[o] = 2 * Lsb[q]
          BY <5>1, Parity DEF Positive
        <5>3. Lsb[q] >= 2 * k
          BY <2>1, <5>1, <5>2, LsbRange DEF Positive
        <5> QED BY <5>2, <5>3 DEF OnGrid, Positive
      <4> QED BY <4>1, <4>2
    <3>3. PICK q \in Nat : o = 2 * q /\ OnGrid(q, 2 * k)
      BY <3>2
    <3>4. Lsb[q + k] = k
      BY <1>2, <3>1, <3>3
    <3>5. o + p = 2 * (q + k) /\ q + k \in Positive
      BY <2>1, <3>3 DEF Positive
    <3> QED BY <3>4, <3>5, LsbSteps
  <2> HIDE DEF p
  <2>3. p \in G
    BY <2>1, <2>2
  <2> QED BY <2>3 DEF p
<1>3. Positive \subseteq G
  <2> HIDE DEF G
  <2> QED BY <1>1, <1>2, ByHalves
<1>4. Ok(pw)
  BY <1>3 DEF Power
<1> QED BY <1>4 DEF Power

-----------------------------------------------------------------------------
(* The entries whose range holds an index: update() adds to exactly these.   *)
Covering(n, idx) == {i \in 1 .. n : i - Lsb[i] < idx /\ idx <= i}

IsAbove(f, n) ==
  f = [j \in 1 .. n |-> {j} \cup (IF j + Lsb[j] <= n THEN f[j + Lsb[j]] ELSE {})]

LEMMA AboveSolves ==
  ASSUME NEW n \in Positive
  PROVE  \E f : IsAbove(f, n)
<1> DEFINE S == 1 .. n
           stop == {j \in S : ~(j + Lsb[j] <= n)}
           next == [j \in S |-> j + Lsb[j]]
           m == [j \in S |-> n - j]
           g == [j \in S |-> {j}]
           h == [p \in S \X SUBSET S |-> {p[1]} \cup p[2]]
<1>0. \A j \in S : j \in Positive /\ Lsb[j] \in Nat /\ 1 <= Lsb[j]
  BY LsbRange DEF Positive
<1>1. PICK f \in [S -> SUBSET S] : \A j \in S : Data!Calls(f, j, stop, next, g, h)
  <2>1. \A j \in S : m[j] \in Nat
    BY DEF Positive
  <2>2. \A j \in S \ stop : next[j] \in S /\ m[next[j]] < m[j]
    BY <1>0 DEF Positive
  <2>3. \A j \in S, v \in SUBSET S : h[<<j, v>>] \in SUBSET S
    OBVIOUS
  <2>4. g \in [S -> SUBSET S]
    OBVIOUS
  <2> HIDE DEF stop, next, m, g, h, S
  <2> QED BY <2>1, <2>2, <2>3, <2>4, Data!RecursionExists
<1>2. \A j \in S : f[j] = {j} \cup (IF j + Lsb[j] <= n THEN f[j + Lsb[j]] ELSE {})
  <2> SUFFICES ASSUME NEW j \in S
               PROVE  f[j] = {j} \cup (IF j + Lsb[j] <= n THEN f[j + Lsb[j]] ELSE {})
    OBVIOUS
  <2>1. f[j] = IF j \in stop THEN g[j] ELSE h[<<j, f[next[j]]>>]
    BY <1>1 DEF Data!Calls
  <2>2. CASE j + Lsb[j] <= n
    <3>1. j + Lsb[j] \in S
      BY <1>0, <2>2
    <3>2. f[j + Lsb[j]] \in SUBSET S
      BY <1>1, <3>1
    <3>3. f[j] = h[<<j, f[j + Lsb[j]]>>]
      BY <2>1, <2>2
    <3>4. h[<<j, f[j + Lsb[j]]>>] = {j} \cup f[j + Lsb[j]]
      <4> HIDE DEF S
      <4> QED BY <3>2
    <3> QED BY <2>2, <3>3, <3>4
  <2>3. CASE ~(j + Lsb[j] <= n)
    BY <2>1, <2>3
  <2> QED BY <2>2, <2>3
<1>3. f = [j \in S |-> f[j]]
  BY <1>1
<1>4. IsAbove(f, n)
  BY <1>2, <1>3 DEF IsAbove
<1> QED BY <1>4

LEMMA AboveExact ==
  ASSUME NEW n \in Positive, NEW idx \in 1 .. n
  PROVE  Above(n, idx) = Covering(n, idx)
<1> DEFINE f == CHOOSE f : IsAbove(f, n)
<1>1. Above(n, idx) = f[idx]
  BY Zenon DEF Above, IsAbove
<1>2. IsAbove(f, n)
  BY AboveSolves
<1> HIDE DEF f
<1> DEFINE S == 1 .. n
           age == [j \in S |-> n - j]
           G == {j \in S : f[j] = Covering(n, j)}
<1>0. \A j \in S : j \in Positive /\ Lsb[j] \in Nat /\ 1 <= Lsb[j]
  BY LsbRange DEF Positive
<1>3. \A j \in S : age[j] \in Nat
  BY DEF Positive
<1>4. ASSUME NEW j \in S, \A k \in S : age[k] < age[j] => k \in G PROVE j \in G
  <2> DEFINE up == j + Lsb[j]
  <2>1. f[j] = {j} \cup (IF up <= n THEN f[up] ELSE {})
    BY <1>2 DEF IsAbove
  <2>2. \A i \in S : i \in Covering(n, j) <=> i = j \/ (up <= n /\ i \in Covering(n, up))
    <3> SUFFICES ASSUME NEW i \in S
                 PROVE  i \in Covering(n, j) <=> i = j \/ (up <= n /\ i \in Covering(n, up))
      OBVIOUS
    <3>1. n \in Nat /\ i \in Nat /\ j \in Nat /\ i <= n
      BY <1>0 DEF Positive
    <3>2. CASE j < i
      <4>1. IF j <= i - Lsb[i] THEN up <= i - Lsb[i] \/ up > i ELSE up <= i
        BY <1>0, <3>2, StepsUp
      <4> QED BY <1>0, <3>1, <3>2, <4>1 DEF Covering
    <3>3. CASE ~(j < i)
      BY <1>0, <3>1, <3>3 DEF Covering
    <3> QED BY <3>2, <3>3
  <2>3. up <= n => f[up] = Covering(n, up)
    <3>1. up <= n => up \in S /\ age[up] < age[j]
      BY <1>0 DEF Positive
    <3> QED BY <1>4, <3>1
  <2>4. \A k : Covering(n, k) \subseteq S
    BY DEF Covering
  <2>5. f[j] = Covering(n, j)
    <3> HIDE DEF up, S
    <3> QED BY <2>1, <2>2, <2>3, <2>4, <1>4
  <2> QED BY <2>5
<1>5. S \subseteq G
  <2> HIDE DEF S, age, G
  <2> QED BY <1>3, <1>4, ByAge
<1> QED BY <1>1, <1>5

-----------------------------------------------------------------------------
(* The volumes w of the positions from a up to, and without, b. *)
Span(w, a, b) == Data!SumOver(w, a .. b - 1)

LEMMA SpanFacts ==
  ASSUME NEW n \in Nat, NEW w \in [0 .. n - 1 -> Nat]
  PROVE  /\ \A a \in 0 .. n : Span(w, a, a) = 0
         /\ \A i \in 0 .. n - 1 : Span(w, i, i + 1) = w[i]
         /\ \A a, b \in 0 .. n : Span(w, a, b) \in Nat
         /\ \A a, b, c \in 0 .. n : a <= b /\ b <= c => Span(w, a, c) = Span(w, a, b) + Span(w, b, c)
<1>1. ASSUME NEW a \in 0 .. n PROVE Span(w, a, a) = 0
  <2>1. a .. a - 1 = {}
    OBVIOUS
  <2> QED BY <2>1, Data!SumEmpty DEF Span
<1>2. ASSUME NEW i \in 0 .. n - 1 PROVE Span(w, i, i + 1) = w[i]
  <2>1. i .. (i + 1) - 1 = {} \cup {i}
    OBVIOUS
  <2>2. w[i] \in Int /\ i \notin {}
    OBVIOUS
  <2>3. Data!SumOver(w, {} \cup {i}) = w[i] + Data!SumOver(w, {})
    BY <2>2, Data!FS_EmptySet, Data!SumWith
  <2> QED BY <2>1, <2>2, <2>3, Data!SumEmpty DEF Span
<1>3. ASSUME NEW a \in 0 .. n, NEW b \in 0 .. n
      PROVE  /\ Data!IsFiniteSet(a .. b - 1)
             /\ \A i \in a .. b - 1 : i \in 0 .. n - 1 /\ w[i] \in Nat
  <2>1. Data!IsFiniteSet(a .. b - 1)
    <3>1. a \in Int /\ b - 1 \in Int
      OBVIOUS
    <3> QED BY <3>1, Data!FS_Interval
  <2> QED BY <2>1
<1>4. ASSUME NEW a \in 0 .. n, NEW b \in 0 .. n PROVE Span(w, a, b) \in Nat
  BY <1>3, Data!SumBounds DEF Span
<1>5. ASSUME NEW a \in 0 .. n, NEW b \in 0 .. n, NEW c \in 0 .. n, a <= b, b <= c
      PROVE  Span(w, a, c) = Span(w, a, b) + Span(w, b, c)
  <2> DEFINE S == a .. b - 1
             T == b .. c - 1
  <2>1. S \cap T = {} /\ a .. c - 1 = S \cup T
    BY <1>5
  <2>2. /\ Data!IsFiniteSet(S) /\ Data!IsFiniteSet(T)
        /\ \A i \in S \cup T : w[i] \in Int
    BY <1>3
  <2>3. Data!SumOver(w, S \cup T) = Data!SumOver(w, S) + Data!SumOver(w, T)
    <3> HIDE DEF S, T
    <3> QED BY <2>1, <2>2, Data!SumDisjoint
  <2> QED BY <2>1, <2>3 DEF Span
<1> QED BY <1>1, <1>2, <1>4, <1>5

(* A change of one volume changes the spans it is in by as much. *)
DifferAt(n, w, w2, x) ==
  /\ n \in Nat /\ x \in 0 .. n - 1
  /\ \A i \in 0 .. n - 1 : w[i] \in Nat /\ w2[i] \in Nat /\ (i # x => w2[i] = w[i])

LEMMA SpanChange ==
  ASSUME NEW n, NEW w, NEW w2, NEW x, DifferAt(n, w, w2, x), NEW a \in 0 .. n, NEW b \in 0 .. n
  PROVE  Span(w2, a, b)
           = IF a <= x /\ x < b THEN Span(w, a, b) + (w2[x] - w[x]) ELSE Span(w, a, b)
<1>0. /\ n \in Nat /\ x \in 0 .. n - 1
      /\ \A i \in 0 .. n - 1 : w[i] \in Nat /\ w2[i] \in Nat /\ (i # x => w2[i] = w[i])
  BY DEF DifferAt
<1> DEFINE S == a .. b - 1
<1>1. /\ Data!IsFiniteSet(S)
      /\ \A i \in S : i \in 0 .. n - 1 /\ w[i] \in Int /\ w2[i] \in Int
      /\ \A i \in S \ {x} : w[i] = w2[i]
      /\ w[x] \in Int /\ w2[x] \in Int
      /\ x \in S <=> a <= x /\ x < b
  <2>1. Data!IsFiniteSet(S)
    <3>1. a \in Int /\ b - 1 \in Int
      OBVIOUS
    <3> QED BY <3>1, Data!FS_Interval
  <2>2. \A i \in S : i \in 0 .. n - 1
    BY <1>0
  <2>3. x \in S <=> a <= x /\ x < b
    BY <1>0
  <2> HIDE DEF S
  <2> QED BY <1>0, <2>1, <2>2, <2>3
<1> HIDE DEF S
<1>2. Data!SumOver(w, S) \in Int
  BY <1>1, Data!SumType
<1>3. CASE x \in S
  <2>1. Data!IsFiniteSet(S \ {x}) /\ \A i \in S \ {x} : w[i] \in Int
    BY <1>1, Data!FS_Subset
  <2>2. Data!SumOver(w, S) = w[x] + Data!SumOver(w, S \ {x})
    BY <1>1, <1>3, Data!SumWithout
  <2>3. Data!SumOver(w2, S) = w2[x] + Data!SumOver(w2, S \ {x})
    BY <1>1, <1>3, Data!SumWithout
  <2>4. Data!SumOver(w, S \ {x}) = Data!SumOver(w2, S \ {x})
    BY <1>1, <2>1, Data!SumSame
  <2>5. Data!SumOver(w, S \ {x}) \in Int
    BY <2>1, Data!SumType
  <2>6. Data!SumOver(w2, S) = Data!SumOver(w, S) + (w2[x] - w[x])
    BY <1>1, <2>2, <2>3, <2>4, <2>5
  <2> QED BY <1>1, <1>3, <2>6 DEF Span, S
<1>4. CASE x \notin S
  <2>1. \A i \in S : w[i] \in Int /\ w[i] = w2[i]
    BY <1>1, <1>4
  <2>2. Data!SumOver(w, S) = Data!SumOver(w2, S)
    BY <1>1, <2>1, Data!SumSame
  <2> QED BY <1>1, <1>4, <2>2 DEF Span, S
<1> QED BY <1>3, <1>4

-----------------------------------------------------------------------------
(* The inductive invariant: an entry holds the volumes of as many positions, *)
(* ending with its own, as its lowest set bit says.                          *)
TreeTyped ==
  /\ N \in Positive
  /\ tree \in [1 .. N -> Int]
  /\ values \in [0 .. N - 1 -> Nat]

PartialSums == \A i \in 1 .. N : tree[i] = Span(values, i - Lsb[i], i)

TreeIInv == TreeTyped /\ PartialSums

LEMMA EntryFacts ==
  ASSUME NEW n \in Positive, NEW i \in 1 .. n
  PROVE  /\ i \in Positive /\ i \in 0 .. n /\ i - 1 \in 0 .. n - 1
         /\ Lsb[i] \in Nat /\ 1 <= Lsb[i]
         /\ i - Lsb[i] \in 0 .. n /\ i - Lsb[i] < i
<1>1. i \in Positive
  BY DEF Positive
<1> QED BY <1>1, LsbRange DEF Positive

LEMMA InitTree == FTInit => TreeIInv
<1> SUFFICES ASSUME FTInit PROVE TreeIInv
  OBVIOUS
<1>1. TreeTyped
  BY DEF FTInit, TreeTyped, Positive
<1>2. ASSUME NEW i \in 1 .. N PROVE tree[i] = Span(values, i - Lsb[i], i)
  <2>1. tree[i] = 0
    BY <1>2 DEF FTInit
  <2> DEFINE S == (i - Lsb[i]) .. (i - 1)
  <2>2. Data!IsFiniteSet(S) /\ \A x \in S : values[x] \in Int /\ values[x] = 0
    <3>1. i - Lsb[i] \in 0 .. N /\ i \in 0 .. N /\ N \in Nat
      BY <1>1, EntryFacts DEF TreeTyped, Positive
    <3>2. Data!IsFiniteSet(S)
      <4>1. i - Lsb[i] \in Int /\ i - 1 \in Int
        BY <3>1
      <4> QED BY <4>1, Data!FS_Interval
    <3>3. \A x \in S : x \in 0 .. N - 1
      BY <3>1
    <3> QED BY <3>2, <3>3 DEF FTInit
  <2>3. Data!SumOver(values, S) = 0
    <3> HIDE DEF S
    <3>1. Data!SumOver(values, S) = Data!SumOver(values, {})
      BY <2>2, Data!SumZeroes
    <3> QED BY <3>1, Data!SumEmpty
  <2> QED BY <2>1, <2>3 DEF Span
<1> QED BY <1>1, <1>2 DEF TreeIInv, PartialSums

LEMMA UpdateTree ==
  ASSUME TreeIInv, NEW idx \in 0 .. MaxN, NEW delta \in -MaxVolume .. MaxVolume,
         Update(idx, delta)
  PROVE  TreeIInv'
<1>1. /\ N \in Positive /\ N \in Nat
      /\ tree \in [1 .. N -> Int]
      /\ values \in [0 .. N - 1 -> Nat]
  BY DEF TreeIInv, TreeTyped, Positive
<1>2. idx \in 0 .. N - 1 /\ idx + 1 \in 1 .. N /\ N' = N
  BY <1>1 DEF Update
<1> DEFINE v == values[idx] + delta
<1>3. delta \in Int /\ v \in Nat
  BY DEF Update
<1>4. values' = [values EXCEPT ![idx] = v]
  BY DEF Update
<1>5. ASSUME NEW i \in 1 .. N
      PROVE  tree'[i] = IF i \in Covering(N, idx + 1) THEN tree[i] + delta ELSE tree[i]
  BY <1>1, <1>2, AboveExact DEF Update
<1>6. TreeTyped'
  <2>1. tree' \in [1 .. N -> Int]
    <3>1. \A i \in 1 .. N : tree'[i] \in Int
      BY <1>1, <1>3, <1>5
    <3>2. tree' = [i \in 1 .. N |-> tree'[i]]
      BY DEF Update
    <3> QED BY <3>1, <3>2
  <2>2. values' \in [0 .. N - 1 -> Nat]
    <3> HIDE DEF v
    <3> QED BY <1>1, <1>3, <1>4
  <2> QED BY <1>1, <1>2, <2>1, <2>2 DEF TreeTyped
<1>7. ASSUME NEW i \in 1 .. N PROVE tree'[i] = Span(values', i - Lsb[i], i)
  <2>1. i \in 0 .. N /\ i - Lsb[i] \in 0 .. N
    BY <1>1, EntryFacts
  <2>2. tree[i] = Span(values, i - Lsb[i], i)
    BY DEF TreeIInv, PartialSums
  <2>3. i \in Covering(N, idx + 1) <=> i - Lsb[i] <= idx /\ idx < i
    BY <1>1, <1>2, <2>1 DEF Covering
  <2>4. Span(values', i - Lsb[i], i)
          = IF i - Lsb[i] <= idx /\ idx < i
              THEN Span(values, i - Lsb[i], i) + (v - values[idx])
              ELSE Span(values, i - Lsb[i], i)
    <3>1. /\ values' \in [0 .. N - 1 -> Nat] /\ values'[idx] = v
          /\ \A x \in 0 .. N - 1 : x # idx => values'[x] = values[x]
      <4> HIDE DEF v
      <4> QED BY <1>1, <1>2, <1>3, <1>4
    <3>2. DifferAt(N, values, values', idx)
      BY <1>1, <1>2, <3>1 DEF DifferAt
    <3> HIDE DEF v
    <3>3. Span(values', i - Lsb[i], i)
            = IF i - Lsb[i] <= idx /\ idx < i
                THEN Span(values, i - Lsb[i], i) + (values'[idx] - values[idx])
                ELSE Span(values, i - Lsb[i], i)
      BY <2>1, <3>2, SpanChange
    <3> QED BY <3>1, <3>3
  <2>5. v - values[idx] = delta
    BY <1>1, <1>2, <1>3
  <2> HIDE DEF v
  <2> QED BY <1>5, <2>2, <2>3, <2>4, <2>5
<1> QED BY <1>2, <1>6, <1>7 DEF TreeIInv, PartialSums

LEMMA TreeInvariance == FTSpec => []TreeIInv
<1>1. TreeIInv /\ [FTNext]_FTvars => TreeIInv'
  <2> SUFFICES ASSUME TreeIInv, [FTNext]_FTvars PROVE TreeIInv'
    OBVIOUS
  <2>1. CASE UNCHANGED FTvars
    BY <2>1 DEF FTvars, TreeIInv, TreeTyped, PartialSums
  <2>2. ASSUME NEW idx \in 0 .. MaxN, UpdateIgnored(idx) PROVE TreeIInv'
    BY <2>2 DEF UpdateIgnored, FTvars, TreeIInv, TreeTyped, PartialSums
  <2> QED BY <2>1, <2>2, UpdateTree DEF FTNext
<1> QED BY <1>1, InitTree, PTL DEF FTSpec

-----------------------------------------------------------------------------
(* Queries *)

IsPrefix(f) == f = [j \in 0 .. N |-> IF j = 0 THEN 0 ELSE tree[j] + f[j - Lsb[j]]]

LEMMA PrefixSolves ==
  ASSUME TreeTyped
  PROVE  \E f : IsPrefix(f)
<1> DEFINE S == 0 .. N
           stop == {0}
           next == [j \in S |-> IF j = 0 THEN 0 ELSE j - Lsb[j]]
           m == [j \in S |-> j]
           g == [j \in S |-> 0]
           h == [p \in S \X Int |-> IF p[1] = 0 THEN 0 ELSE tree[p[1]] + p[2]]
<1>0. \A j \in S \ {0} : j \in 1 .. N /\ tree[j] \in Int /\ j - Lsb[j] \in S /\ j - Lsb[j] < j
  BY EntryFacts DEF TreeTyped
<1>1. PICK f \in [S -> Int] : \A j \in S : Data!Calls(f, j, stop, next, g, h)
  <2>1. \A j \in S : m[j] \in Nat
    BY DEF TreeTyped, Positive
  <2>2. \A j \in S \ stop : next[j] \in S /\ m[next[j]] < m[j]
    BY <1>0 DEF TreeTyped, Positive
  <2>3. \A j \in S, v \in Int : h[<<j, v>>] \in Int
    <3> SUFFICES ASSUME NEW j \in S, NEW v \in Int PROVE h[<<j, v>>] \in Int
      OBVIOUS
    <3>1. h[<<j, v>>] = IF j = 0 THEN 0 ELSE tree[j] + v
      <4> HIDE DEF S
      <4> QED OBVIOUS
    <3>2. j # 0 => tree[j] \in Int
      BY <1>0
    <3> HIDE DEF h
    <3> QED BY <3>1, <3>2
  <2>4. g \in [S -> Int]
    OBVIOUS
  <2> HIDE DEF stop, next, m, g, h, S
  <2> QED BY <2>1, <2>2, <2>3, <2>4, Data!RecursionExists
<1>2. \A j \in S : f[j] = IF j = 0 THEN 0 ELSE tree[j] + f[j - Lsb[j]]
  <2> SUFFICES ASSUME NEW j \in S
               PROVE  f[j] = IF j = 0 THEN 0 ELSE tree[j] + f[j - Lsb[j]]
    OBVIOUS
  <2>1. f[j] = IF j \in stop THEN g[j] ELSE h[<<j, f[next[j]]>>]
    BY <1>1 DEF Data!Calls
  <2>2. CASE j # 0
    <3>1. f[j - Lsb[j]] \in Int /\ next[j] = j - Lsb[j]
      BY <1>0, <1>1, <2>2
    <3>2. h[<<j, f[j - Lsb[j]]>>] = tree[j] + f[j - Lsb[j]]
      <4> HIDE DEF S
      <4> QED BY <2>2, <3>1
    <3> HIDE DEF h, next
    <3> QED BY <2>1, <2>2, <3>1, <3>2
  <2>3. CASE j = 0
    BY <2>1, <2>3
  <2> QED BY <2>2, <2>3
<1>3. f = [j \in S |-> f[j]]
  BY <1>1
<1>4. IsPrefix(f)
  BY <1>2, <1>3 DEF IsPrefix
<1> QED BY <1>4

LEMMA PrefixExact ==
  ASSUME TreeIInv, NEW idx \in Nat
  PROVE  prefix_sum(idx) = Span(values, 0, IF idx >= N THEN N ELSE idx + 1)
<1> DEFINE f == CHOOSE f : IsPrefix(f)
           to == IF idx >= N THEN N ELSE idx + 1
<1>0. TreeTyped /\ N \in Nat /\ N \in Positive /\ values \in [0 .. N - 1 -> Nat] /\ 0 \in 0 .. N
  BY DEF TreeIInv, TreeTyped, Positive
<1>1. prefix_sum(idx) = f[to]
  BY Zenon DEF prefix_sum, IsPrefix
<1>2. IsPrefix(f)
  BY <1>0, PrefixSolves
<1>3. to \in 0 .. N
  BY <1>0
<1> HIDE DEF f, to
<1> DEFINE S == 0 .. N
           age == [j \in S |-> j]
           G == {j \in S : f[j] = Span(values, 0, j)}
<1>4. \A j \in S : age[j] \in Nat
  BY <1>0
<1>5. ASSUME NEW j \in S, \A k \in S : age[k] < age[j] => k \in G PROVE j \in G
  <2>1. f[j] = IF j = 0 THEN 0 ELSE tree[j] + f[j - Lsb[j]]
    BY <1>2 DEF IsPrefix
  <2>2. CASE j = 0
    <3>1. Span(values, 0, 0) = 0
      BY <1>0, SpanFacts
    <3> QED BY <2>1, <2>2, <3>1
  <2>3. CASE j # 0
    <3> DEFINE k == j - Lsb[j]
    <3>1. j \in 1 .. N /\ k \in S /\ k < j
      BY <1>0, <2>3, EntryFacts
    <3>2. f[k] = Span(values, 0, k)
      BY <1>5, <3>1
    <3>3. tree[j] = Span(values, k, j)
      BY <3>1 DEF TreeIInv, PartialSums
    <3>4. Span(values, 0, j) = Span(values, 0, k) + Span(values, k, j)
      <4>1. 0 <= k /\ k <= j
        BY <1>0, <3>1
      <4> HIDE DEF k
      <4> QED BY <1>0, <3>1, <4>1, SpanFacts
    <3>5. Span(values, 0, k) \in Nat /\ Span(values, k, j) \in Nat
      <4> HIDE DEF k
      <4> QED BY <1>0, <3>1, SpanFacts
    <3> HIDE DEF k
    <3>6. f[j] = tree[j] + f[k]
      BY <2>1, <2>3 DEF k
    <3> QED BY <3>2, <3>3, <3>4, <3>5, <3>6
  <2> QED BY <2>2, <2>3
<1>6. S \subseteq G
  <2> HIDE DEF S, age, G
  <2> QED BY <1>4, <1>5, ByAge
<1> QED BY <1>1, <1>3, <1>6 DEF to

LEMMA TotalSpans ==
  ASSUME TreeTyped, NEW left \in Nat, NEW right \in Nat, left <= right
  PROVE  Total(left, right) =
           Span(values, IF left >= N THEN N ELSE left, IF right >= N THEN N ELSE right + 1)
<1> DEFINE S == {i \in 0 .. N - 1 : left <= i /\ i <= right}
           a == IF left >= N THEN N ELSE left
           b == IF right >= N THEN N ELSE right + 1
<1>1. Total(left, right) = Data!SumOver(values, S)
  BY Zenon DEF Total, MapThenSumSet, MapThenFoldSet,
               Data!SumOver, Data!MapThenSumSet, Data!MapThenFoldSet
<1>2. S = a .. b - 1
  BY DEF TreeTyped, Positive
<1> HIDE DEF S, a, b
<1>3. Total(left, right) = Span(values, a, b)
  BY <1>1, <1>2 DEF Span
<1> QED BY <1>3 DEF a, b

LEMMA RangesInv == TreeIInv => RangesExact
<1> SUFFICES ASSUME TreeIInv PROVE RangesExact
  OBVIOUS
<1>0. TreeTyped /\ N \in Nat /\ N \in Positive /\ values \in [0 .. N - 1 -> Nat] /\ 0 \in 0 .. N
  BY DEF TreeIInv, TreeTyped, Positive
<1>1. ASSUME NEW left \in Nat, NEW right \in Nat
      PROVE  range_sum(left, right) = Total(left, right)
  <2> DEFINE a == IF left >= N THEN N ELSE left
             b == IF right >= N THEN N ELSE right + 1
  <2>1. a \in 0 .. N /\ b \in 0 .. N
    BY <1>0
  <2>2. prefix_sum(right) = Span(values, 0, b)
    BY PrefixExact
  <2>3. CASE left > right
    <3>1. Total(left, right) = 0
      <4>1. {i \in 0 .. N - 1 : left <= i /\ i <= right} = {}
        BY <2>3
      <4>2. Total(left, right) = Data!SumOver(values, {i \in 0 .. N - 1 : left <= i /\ i <= right})
        BY Zenon DEF Total, MapThenSumSet, MapThenFoldSet,
                     Data!SumOver, Data!MapThenSumSet, Data!MapThenFoldSet
      <4> QED BY <4>1, <4>2, Data!SumEmpty
    <3> QED BY <2>3, <3>1 DEF range_sum
  <2>4. CASE ~(left > right)
    <3>1. left <= right
      BY <2>4
    <3>2. Total(left, right) = Span(values, a, b) /\ a <= b
      BY <1>0, <3>1, TotalSpans
    <3>3. CASE left = 0
      <4>1. a = 0
        BY <1>0, <3>3 DEF Positive
      <4> HIDE DEF a, b
      <4> QED BY <2>2, <2>4, <3>2, <3>3, <4>1 DEF range_sum
    <3>4. CASE left # 0
      <4>1. left - 1 \in Nat /\ a = IF left - 1 >= N THEN N ELSE (left - 1) + 1
        BY <1>0, <3>4
      <4>2. prefix_sum(left - 1) = Span(values, 0, a)
        <5>1. prefix_sum(left - 1) = Span(values, 0, IF left - 1 >= N THEN N ELSE (left - 1) + 1)
          BY <4>1, PrefixExact
        <5> QED BY <4>1, <5>1
      <4>3. /\ Span(values, 0, b) = Span(values, 0, a) + Span(values, a, b)
            /\ Span(values, 0, a) \in Nat /\ Span(values, a, b) \in Nat
        <5> HIDE DEF a, b
        <5>1. 0 <= a
          BY <1>0, <2>1
        <5> QED BY <1>0, <2>1, <3>2, <5>1, SpanFacts
      <4>4. range_sum(left, right) = prefix_sum(right) - prefix_sum(left - 1)
        BY <2>4, <3>4 DEF range_sum
      <4> HIDE DEF a, b
      <4> QED BY <2>2, <3>2, <4>2, <4>3, <4>4
    <3> QED BY <3>3, <3>4
  <2> QED BY <2>3, <2>4
<1>2. ASSUME NEW idx \in 0 .. N - 1 PROVE point_query(idx) = values[idx]
  <2>1. idx \in Nat /\ ~(idx >= N)
    BY <1>0
  <2>2. point_query(idx) = Total(idx, idx)
    BY <1>1, <2>1 DEF point_query
  <2>3. Total(idx, idx) = Span(values, idx, idx + 1)
    BY <1>0, <2>1, TotalSpans
  <2> QED BY <1>0, <2>2, <2>3, SpanFacts
<1>3. \A left, right \in 0 .. MaxN : left \in Nat /\ right \in Nat
  OBVIOUS
<1> QED BY <1>1, <1>2, <1>3 DEF RangesExact

(* The sums fenwick.hpp's prefix_sum(), range_sum() and point_query() answer *)
(* are those of the array, for every size and whatever was added before.     *)
THEOREM RangesAlwaysExact == FTSpec => []RangesExact
BY RangesInv, TreeInvariance, PTL

-----------------------------------------------------------------------------
(* Searches *)

(* highest_bit() is the largest power of two that is no larger than N. *)
IsDoubled(f) == f = [pw \in 1 .. N |-> IF pw * 2 <= N THEN f[pw * 2] ELSE pw]

LEMMA DoubledSolves ==
  ASSUME TreeTyped
  PROVE  \E f : IsDoubled(f)
<1> DEFINE S == 1 .. N
           stop == {pw \in S : ~(pw * 2 <= N)}
           next == [pw \in S |-> pw * 2]
           m == [pw \in S |-> N - pw]
           g == [pw \in S |-> pw]
           h == [p \in S \X S |-> p[2]]
<1>0. N \in Nat
  BY DEF TreeTyped, Positive
<1>1. PICK f \in [S -> S] : \A pw \in S : Data!Calls(f, pw, stop, next, g, h)
  <2>1. \A pw \in S : m[pw] \in Nat
    BY <1>0
  <2>2. \A pw \in S \ stop : next[pw] \in S /\ m[next[pw]] < m[pw]
    BY <1>0
  <2>3. \A pw \in S, v \in S : h[<<pw, v>>] \in S
    OBVIOUS
  <2>4. g \in [S -> S]
    OBVIOUS
  <2> HIDE DEF stop, next, m, g, h, S
  <2> QED BY <2>1, <2>2, <2>3, <2>4, Data!RecursionExists
<1>2. \A pw \in S : f[pw] = IF pw * 2 <= N THEN f[pw * 2] ELSE pw
  <2> SUFFICES ASSUME NEW pw \in S PROVE f[pw] = IF pw * 2 <= N THEN f[pw * 2] ELSE pw
    OBVIOUS
  <2>1. f[pw] = IF pw \in stop THEN g[pw] ELSE h[<<pw, f[next[pw]]>>]
    BY <1>1 DEF Data!Calls
  <2>2. CASE pw * 2 <= N
    <3>1. pw * 2 \in S /\ f[pw * 2] \in S
      BY <1>0, <1>1, <2>2
    <3>2. f[pw] = h[<<pw, f[pw * 2]>>]
      BY <2>1, <2>2
    <3>3. h[<<pw, f[pw * 2]>>] = f[pw * 2]
      <4> HIDE DEF S
      <4> QED BY <3>1
    <3> QED BY <2>2, <3>2, <3>3
  <2>3. CASE ~(pw * 2 <= N)
    BY <2>1, <2>3
  <2> QED BY <2>2, <2>3
<1>3. f = [pw \in S |-> f[pw]]
  BY <1>1
<1>4. IsDoubled(f)
  BY <1>2, <1>3 DEF IsDoubled
<1> QED BY <1>4

LEMMA HighestBit ==
  ASSUME TreeTyped
  PROVE  /\ Power(highest_bit)
         /\ highest_bit \in 1 .. N
         /\ N < 2 * highest_bit
<1> DEFINE f == CHOOSE f : IsDoubled(f)
<1>0. N \in Nat /\ 1 \in 1 .. N
  BY DEF TreeTyped, Positive
<1>1. highest_bit = f[1]
  BY Zenon DEF highest_bit, IsDoubled
<1>2. IsDoubled(f)
  BY DoubledSolves
<1> HIDE DEF f
<1> DEFINE S == {pw \in 1 .. N : Power(pw)}
           age == [pw \in S |-> N - pw]
           G == {pw \in S : Power(f[pw]) /\ f[pw] \in 1 .. N /\ N < 2 * f[pw]}
<1>3. \A pw \in S : age[pw] \in Nat
  BY <1>0
<1>4. ASSUME NEW pw \in S, \A k \in S : age[k] < age[pw] => k \in G PROVE pw \in G
  <2>1. f[pw] = IF pw * 2 <= N THEN f[pw * 2] ELSE pw
    BY <1>2 DEF IsDoubled
  <2>2. pw \in 1 .. N /\ pw * 2 = 2 * pw /\ Power(pw) /\ Power(2 * pw)
    BY Powers
  <2>3. CASE pw * 2 <= N
    <3>1. pw * 2 \in S /\ age[pw * 2] < age[pw]
      BY <1>0, <2>2, <2>3
    <3>2. pw * 2 \in G
      BY <1>4, <3>1
    <3> QED BY <2>1, <2>3, <3>2
  <2>4. CASE ~(pw * 2 <= N)
    BY <1>0, <2>1, <2>2, <2>4
  <2> QED BY <2>3, <2>4
<1>5. S \subseteq G
  <2> HIDE DEF S, age, G
  <2> QED BY <1>3, <1>4, ByAge
<1>6. 1 \in S
  BY <1>0, Powers
<1>7. 1 \in G
  <2> HIDE DEF S, G
  <2> QED BY <1>5, <1>6
<1> QED BY <1>1, <1>7

(* One power of two more is tried at s. *)
Tried(s, pw) ==
  IF s.pos + pw <= N /\ tree[s.pos + pw] < s.remaining
    THEN [pos |-> s.pos + pw, remaining |-> s.remaining - tree[s.pos + pw]]
    ELSE s

Start(sum) == [pos |-> 0, remaining |-> sum]

IsLift(f, hb, sum) ==
  f = [pw \in 1 .. hb |->
         LET s  == IF pw * 2 > hb THEN [pos |-> 0, remaining |-> sum] ELSE f[pw * 2]
             to == s.pos + pw
         IN  IF to <= N /\ tree[to] < s.remaining
               THEN [pos |-> to, remaining |-> s.remaining - tree[to]]
               ELSE s]

LEMMA LiftStep ==
  ASSUME NEW hb, NEW sum, NEW f
  PROVE  IsLift(f, hb, sum) <=>
           f = [pw \in 1 .. hb |-> Tried(IF pw * 2 > hb THEN Start(sum) ELSE f[pw * 2], pw)]
  BY Zenon DEF IsLift, Tried, Start

LEMMA LiftSolves ==
  ASSUME TreeTyped, NEW hb \in 1 .. N, NEW sum \in Int
  PROVE  \E f : IsLift(f, hb, sum)
<1> DEFINE S == 1 .. hb
           V == [pos : 0 .. N, remaining : Int]
           stop == {pw \in S : pw * 2 > hb}
           next == [pw \in S |-> pw * 2]
           m == [pw \in S |-> hb - pw]
           g == [pw \in S |-> Tried(Start(sum), pw)]
           h == [p \in S \X V |-> Tried(p[2], p[1])]
<1>0. N \in Nat /\ hb \in Nat /\ tree \in [1 .. N -> Int] /\ Start(sum) \in V
  BY DEF TreeTyped, Positive, Start
<1>1. ASSUME NEW pw \in S, NEW s \in V PROVE Tried(s, pw) \in V
  <2>1. s.pos \in 0 .. N /\ s.remaining \in Int /\ pw \in 1 .. N
    BY <1>0
  <2>2. CASE s.pos + pw <= N /\ tree[s.pos + pw] < s.remaining
    <3>1. s.pos + pw \in 1 .. N
      BY <1>0, <2>1, <2>2
    <3>2. tree[s.pos + pw] \in Int
      BY <1>0, <3>1
    <3>3. s.pos + pw \in 0 .. N /\ s.remaining - tree[s.pos + pw] \in Int
      BY <1>0, <2>1, <3>1, <3>2
    <3> QED BY <2>2, <3>3 DEF Tried
  <2>3. CASE ~(s.pos + pw <= N /\ tree[s.pos + pw] < s.remaining)
    BY <2>3 DEF Tried
  <2> QED BY <2>2, <2>3
<1>2. PICK f \in [S -> V] : \A pw \in S : Data!Calls(f, pw, stop, next, g, h)
  <2>1. \A pw \in S : m[pw] \in Nat
    BY <1>0
  <2>2. \A pw \in S \ stop : next[pw] \in S /\ m[next[pw]] < m[pw]
    BY <1>0
  <2>3. \A pw \in S, v \in V : h[<<pw, v>>] \in V
    <3> SUFFICES ASSUME NEW pw \in S, NEW v \in V PROVE h[<<pw, v>>] \in V
      OBVIOUS
    <3>1. h[<<pw, v>>] = Tried(v, pw)
      <4> HIDE DEF S, V
      <4> QED OBVIOUS
    <3> QED BY <1>1, <3>1
  <2>4. g \in [S -> V]
    <3> HIDE DEF S, V
    <3> QED BY <1>0, <1>1
  <2> HIDE DEF stop, next, m, g, h, S, V
  <2> QED BY <2>1, <2>2, <2>3, <2>4, Data!RecursionExists
<1>3. \A pw \in S : f[pw] = Tried(IF pw * 2 > hb THEN Start(sum) ELSE f[pw * 2], pw)
  <2> SUFFICES ASSUME NEW pw \in S
               PROVE  f[pw] = Tried(IF pw * 2 > hb THEN Start(sum) ELSE f[pw * 2], pw)
    OBVIOUS
  <2>1. f[pw] = IF pw \in stop THEN g[pw] ELSE h[<<pw, f[next[pw]]>>]
    BY <1>2 DEF Data!Calls
  <2>2. CASE pw * 2 > hb
    BY <2>1, <2>2
  <2>3. CASE ~(pw * 2 > hb)
    <3>1. pw * 2 \in S
      BY <1>0, <2>3
    <3>2. f[pw * 2] \in V
      <4> HIDE DEF S, V
      <4> QED BY <1>2, <3>1
    <3>3. f[pw] = h[<<pw, f[pw * 2]>>]
      <4>1. pw \notin stop /\ next[pw] = pw * 2
        BY <2>3
      <4> HIDE DEF stop, next, g, h
      <4> QED BY <2>1, <4>1
    <3>4. h[<<pw, f[pw * 2]>>] = Tried(f[pw * 2], pw)
      <4> HIDE DEF S, V
      <4> QED BY <3>2
    <3> HIDE DEF h
    <3> QED BY <2>3, <3>3, <3>4
  <2> QED BY <2>2, <2>3
<1>4. f = [pw \in S |-> f[pw]]
  BY <1>2
<1>5. f = [pw \in S |-> Tried(IF pw * 2 > hb THEN Start(sum) ELSE f[pw * 2], pw)]
  BY <1>3, <1>4, Zenon
<1>6. IsLift(f, hb, sum)
  BY <1>5, LiftStep
<1> QED BY <1>6

(* Where the search stands once pw has been tried: less than sum lies before *)
(* pos, and as much as sum before pos + pw, if that is a position at all.    *)
Before(i) == Span(values, 0, i)

Halted(s, pw, sum) ==
  /\ s.pos \in 0 .. N /\ OnGrid(s.pos, pw)
  /\ s.remaining = sum - Before(s.pos)
  /\ Before(s.pos) < sum
  /\ s.pos + pw <= N => Before(s.pos + pw) >= sum

LEMMA BeforeFacts ==
  ASSUME TreeTyped
  PROVE  /\ N \in Nat /\ N \in Positive
         /\ values \in [0 .. N - 1 -> Nat]
         /\ Before(0) = 0
         /\ \A i \in 0 .. N : Before(i) \in Nat
         /\ \A i \in 0 .. N - 1 : Before(i + 1) = Before(i) + values[i]
         /\ \A i, j \in 0 .. N : i <= j => Before(i) <= Before(j)
<1>0. N \in Nat /\ N \in Positive /\ values \in [0 .. N - 1 -> Nat] /\ 0 \in 0 .. N
  BY DEF TreeTyped, Positive
<1>1. Before(0) = 0 /\ \A i \in 0 .. N : Before(i) \in Nat
  BY <1>0, SpanFacts DEF Before
<1>2. ASSUME NEW i \in 0 .. N, NEW j \in 0 .. N, i <= j
      PROVE  Before(j) = Before(i) + Span(values, i, j) /\ Span(values, i, j) \in Nat
  BY <1>0, <1>2, SpanFacts DEF Before
<1>3. ASSUME NEW i \in 0 .. N - 1 PROVE Before(i + 1) = Before(i) + values[i]
  <2>1. i \in 0 .. N /\ i + 1 \in 0 .. N /\ i <= i + 1
    BY <1>0
  <2>2. Span(values, i, i + 1) = values[i]
    BY <1>0, SpanFacts
  <2> QED BY <1>2, <2>1, <2>2
<1>4. ASSUME NEW i \in 0 .. N, NEW j \in 0 .. N, i <= j PROVE Before(i) <= Before(j)
  BY <1>1, <1>2, <1>4
<1> QED BY <1>0, <1>1, <1>3, <1>4

LEMMA TriedHalts ==
  ASSUME TreeIInv, NEW sum \in Int, NEW pw \in 1 .. N, Power(pw), NEW s, Halted(s, 2 * pw, sum)
  PROVE  Halted(Tried(s, pw), pw, sum)
<1> DEFINE to == s.pos + pw
<1>0. /\ TreeTyped
      /\ s.pos \in 0 .. N /\ OnGrid(s.pos, 2 * pw)
      /\ s.remaining = sum - Before(s.pos)
      /\ Before(s.pos) < sum
      /\ s.pos + 2 * pw <= N => Before(s.pos + 2 * pw) >= sum
      /\ pw \in Nat /\ s.pos \in Nat
  BY DEF TreeIInv, Halted
<1>1. Before(s.pos) \in Nat /\ N \in Nat
  BY <1>0, BeforeFacts
<1>2. CASE ~(to <= N)
  <2>1. Tried(s, pw) = s
    BY <1>2 DEF Tried
  <2>2. OnGrid(s.pos, pw)
    <3>1. s.pos # 0 => Lsb[s.pos] \in Nat
      BY <1>0, LsbRange DEF Positive
    <3> QED BY <1>0, <3>1 DEF OnGrid
  <2> QED BY <1>0, <1>2, <2>1, <2>2 DEF Halted
<1>3. CASE to <= N
  <2>1. to \in 1 .. N /\ to \in 0 .. N
    BY <1>0, <1>3
  <2>2. Lsb[to] = pw /\ to - pw = s.pos
    BY <1>0, GridSteps
  <2>3. tree[to] = Span(values, s.pos, to)
    BY <2>1, <2>2 DEF TreeIInv, PartialSums
  <2>4. Before(to) = Before(s.pos) + tree[to] /\ tree[to] \in Int
    <3>1. 0 \in 0 .. N /\ 0 <= s.pos /\ s.pos <= to
      BY <1>0, <1>1
    <3>2. N \in Nat /\ values \in [0 .. N - 1 -> Nat] /\ tree \in [1 .. N -> Int]
      BY <1>0 DEF TreeTyped, Positive
    <3> HIDE DEF to
    <3>3. Span(values, 0, to) = Span(values, 0, s.pos) + Span(values, s.pos, to)
      BY <1>0, <2>1, <3>1, <3>2, SpanFacts
    <3>4. tree[to] \in Int
      BY <2>1, <3>2
    <3> QED BY <2>3, <3>3, <3>4 DEF Before
  <2>5. CASE tree[to] < s.remaining
    <3>1. Tried(s, pw) = [pos |-> to, remaining |-> s.remaining - tree[to]]
      BY <1>3, <2>5 DEF Tried
    <3>2. OnGrid(to, pw)
      BY <2>2, <1>0 DEF OnGrid
    <3>3. Before(to) < sum /\ s.remaining - tree[to] = sum - Before(to)
      <4> HIDE DEF to
      <4> QED BY <1>0, <1>1, <2>4, <2>5
    <3>4. to + pw = s.pos + 2 * pw
      BY <1>0
    <3> HIDE DEF to
    <3> QED BY <1>0, <2>1, <3>1, <3>2, <3>3, <3>4 DEF Halted
  <2>6. CASE ~(tree[to] < s.remaining)
    <3>1. Tried(s, pw) = s
      BY <2>6 DEF Tried
    <3>2. OnGrid(s.pos, pw)
      <4>1. s.pos # 0 => Lsb[s.pos] \in Nat
        BY <1>0, LsbRange DEF Positive
      <4> QED BY <1>0, <4>1 DEF OnGrid
    <3>3. Before(to) >= sum
      <4> HIDE DEF to
      <4> QED BY <1>0, <1>1, <2>4, <2>6
    <3> QED BY <1>0, <3>1, <3>2, <3>3 DEF Halted
  <2> QED BY <2>5, <2>6
<1> QED BY <1>2, <1>3

(* The search ends at the position where the volumes first add up to sum. *)
LEMMA LiftExact ==
  ASSUME TreeIInv, NEW sum \in Int, 1 <= sum, sum <= Before(N)
  PROVE  /\ Lift(sum) \in 0 .. N - 1
         /\ Before(Lift(sum)) < sum
         /\ sum <= Before(Lift(sum) + 1)
<1> DEFINE hb == highest_bit
           f == CHOOSE f : IsLift(f, hb, sum)
<1>0. TreeTyped /\ N \in Nat /\ Power(hb) /\ hb \in 1 .. N /\ N < 2 * hb
  BY HighestBit DEF TreeIInv, TreeTyped, Positive
<1>1. Lift(sum) = f[1].pos
  BY Zenon DEF Lift, IsLift
<1> HIDE DEF hb
<1>2. IsLift(f, hb, sum)
  BY <1>0, LiftSolves
<1> HIDE DEF f
<1>3. \A pw \in 1 .. hb : f[pw] = Tried(IF pw * 2 > hb THEN Start(sum) ELSE f[pw * 2], pw)
  <2>1. f = [pw \in 1 .. hb |-> Tried(IF pw * 2 > hb THEN Start(sum) ELSE f[pw * 2], pw)]
    BY <1>2, LiftStep
  <2> QED BY <2>1, Zenon
<1> DEFINE S == {pw \in 1 .. hb : Power(pw)}
           age == [pw \in S |-> hb - pw]
           G == {pw \in S : Halted(f[pw], pw, sum)}
<1>4. \A pw \in S : age[pw] \in Nat
  BY <1>0
<1>5. ASSUME NEW pw \in S, \A k \in S : age[k] < age[pw] => k \in G PROVE pw \in G
  <2>1. pw \in 1 .. hb /\ pw \in 1 .. N /\ pw \in Nat /\ pw * 2 = 2 * pw /\ Power(pw) /\ Power(2 * pw)
    BY <1>0, Powers
  <2>2. CASE pw * 2 > hb
    <3>1. pw = hb
      <4>1. pw < hb => 2 * pw <= hb
        BY <1>0, <2>1, Powers
      <4> QED BY <1>0, <2>1, <2>2, <4>1
    <3>2. Halted(Start(sum), 2 * pw, sum)
      <4>1. Before(0) = 0 /\ 0 \in 0 .. N
        BY <1>0, BeforeFacts
      <4>2. ~(0 + 2 * pw <= N)
        BY <1>0, <3>1
      <4>3. Start(sum).pos = 0 /\ Start(sum).remaining = sum
        BY DEF Start
      <4> QED BY <4>1, <4>2, <4>3 DEF Halted, OnGrid
    <3>3. f[pw] = Tried(Start(sum), pw)
      BY <1>3, <2>1, <2>2
    <3> QED BY <2>1, <3>2, <3>3, TriedHalts
  <2>3. CASE ~(pw * 2 > hb)
    <3>1. pw * 2 \in S /\ age[pw * 2] < age[pw]
      BY <1>0, <2>1, <2>3
    <3>2. Halted(f[pw * 2], 2 * pw, sum)
      <4>1. pw * 2 \in G
        BY <1>5, <3>1
      <4> QED BY <2>1, <4>1
    <3>3. f[pw] = Tried(f[pw * 2], pw)
      BY <1>3, <2>1, <2>3
    <3> QED BY <2>1, <3>2, <3>3, TriedHalts
  <2> QED BY <2>2, <2>3
<1>6. S \subseteq G
  <2> HIDE DEF S, age, G
  <2> QED BY <1>4, <1>5, ByAge
<1>7. Halted(f[1], 1, sum)
  <2>1. 1 \in S
    BY <1>0, Powers
  <2>2. 1 \in G
    <3> HIDE DEF S, G
    <3> QED BY <1>6, <2>1
  <2> QED BY <2>2
<1> DEFINE pos == f[1].pos
<1>8. pos \in 0 .. N /\ Before(pos) < sum /\ (pos + 1 <= N => Before(pos + 1) >= sum)
  BY <1>7 DEF Halted
<1> HIDE DEF pos
<1>9. pos # N
  <2>1. Before(pos) \in Nat
    BY <1>0, <1>8, BeforeFacts
  <2> QED BY <1>8, <2>1
<1>10. pos \in 0 .. N - 1 /\ Before(pos) < sum /\ sum <= Before(pos + 1)
  <2>1. pos \in 0 .. N - 1 /\ pos + 1 <= N /\ pos + 1 \in 0 .. N
    BY <1>0, <1>8, <1>9
  <2>2. Before(pos + 1) \in Nat
    BY <1>0, <2>1, BeforeFacts
  <2> QED BY <1>8, <2>1, <2>2
<1> QED BY <1>1, <1>10 DEF pos

LEMMA SearchesInv == TreeIInv => SearchesExact
<1> SUFFICES ASSUME TreeIInv PROVE SearchesExact
  OBVIOUS
<1> DEFINE held == {i \in 0 .. N - 1 : values[i] # 0}
<1>0. TreeTyped /\ N \in Nat /\ N \in Positive /\ N \in 0 .. N /\ values \in [0 .. N - 1 -> Nat]
  BY DEF TreeIInv, TreeTyped, Positive
<1>1. prefix_sum(N - 1) = Before(N) /\ Before(N) \in Nat
  <2>1. N - 1 \in Nat /\ N = IF N - 1 >= N THEN N ELSE (N - 1) + 1
    BY <1>0 DEF Positive
  <2>2. prefix_sum(N - 1) = Span(values, 0, IF N - 1 >= N THEN N ELSE (N - 1) + 1)
    BY <2>1, PrefixExact
  <2> QED BY <1>0, <2>1, <2>2, BeforeFacts DEF Before
<1>2. /\ \A i \in 0 .. N : Before(i) \in Nat
      /\ \A i \in 0 .. N - 1 : i \in 0 .. N /\ i + 1 \in 0 .. N /\ Before(i + 1) = Before(i) + values[i]
      /\ \A i, j \in 0 .. N : i <= j => Before(i) <= Before(j)
  BY <1>0, BeforeFacts
<1>3. CASE held = {}
  <2>1. Before(N) = 0
    <3> DEFINE S == 0 .. N - 1
    <3>1. Data!IsFiniteSet(S)
      <4>1. 0 \in Int /\ N - 1 \in Int
        BY <1>0
      <4> QED BY <4>1, Data!FS_Interval
    <3>2. \A i \in S : values[i] \in Int /\ values[i] = 0
      BY <1>3
    <3>3. Data!SumOver(values, S) = 0
      <4> HIDE DEF S
      <4>1. Data!SumOver(values, S) = Data!SumOver(values, {})
        BY <3>1, <3>2, Data!SumZeroes
      <4> QED BY <4>1, Data!SumEmpty
    <3> QED BY <3>3 DEF Before, Span
  <2>2. find_last_nonzero = N /\ find_first_nonzero = N
    BY <1>1, <2>1 DEF find_last_nonzero, find_first_nonzero
  <2> QED BY <1>3, <2>2 DEF SearchesExact
<1>4. CASE held # {}
  <2>1. Before(N) >= 1
    <3>1. PICK i \in 0 .. N - 1 : values[i] # 0
      BY <1>4
    <3>2. values[i] \in Nat /\ Before(i + 1) = Before(i) + values[i] /\ Before(i) \in Nat
      BY <1>0, <1>2
    <3>3. Before(i + 1) <= Before(N)
      BY <1>0, <1>2
    <3> QED BY <1>1, <3>1, <3>2, <3>3
  <2>2. /\ find_last_nonzero = Lift(Before(N))
        /\ find_first_nonzero = Lift(1)
    BY <1>1, <2>1 DEF find_last_nonzero, find_first_nonzero
  <2>3. Lift(Before(N)) = Max(held)
    <3> DEFINE pos == Lift(Before(N))
    <3>1. pos \in 0 .. N - 1 /\ Before(pos) < Before(N) /\ Before(N) <= Before(pos + 1)
      BY <1>1, <2>1, LiftExact
    <3> HIDE DEF pos
    <3>2. pos \in held
      BY <1>0, <1>1, <1>2, <3>1
    <3>3. ASSUME NEW i \in held, i > pos PROVE FALSE
      <4>1. Before(pos + 1) <= Before(i) /\ Before(i + 1) <= Before(N)
        <5>1. i \in 0 .. N /\ pos + 1 \in 0 .. N /\ i + 1 \in 0 .. N /\ pos + 1 <= i /\ i + 1 <= N
          BY <1>0, <3>1, <3>3
        <5> QED BY <1>0, <1>2, <5>1
      <4>2. Before(i + 1) = Before(i) + values[i] /\ values[i] \in Nat /\ values[i] # 0
        BY <1>0, <1>2
      <4>3. Before(i) \in Nat /\ Before(pos + 1) \in Nat
        BY <1>2, <3>1
      <4> QED BY <1>1, <3>1, <4>1, <4>2, <4>3
    <3>4. \A i \in held : pos >= i
      BY <1>0, <3>1, <3>3
    <3>5. \A x \in held : (\A i \in held : x >= i) => x = pos
      <4>1. \A x \in held : x \in Int
        OBVIOUS
      <4> HIDE DEF held
      <4> QED BY <3>2, <3>4, <4>1
    <3>6. Max(held) = pos
      <4> HIDE DEF held
      <4> QED BY <3>2, <3>4, <3>5 DEF Max
    <3> QED BY <3>6 DEF pos
  <2>4. Lift(1) = Min(held)
    <3> DEFINE pos == Lift(1)
    <3>1. pos \in 0 .. N - 1 /\ Before(pos) < 1 /\ 1 <= Before(pos + 1)
      BY <2>1, LiftExact
    <3> HIDE DEF pos
    <3>2. pos \in held
      BY <1>0, <1>1, <1>2, <3>1
    <3>3. ASSUME NEW i \in held, i < pos PROVE FALSE
      <4>1. Before(i + 1) <= Before(pos)
        <5>1. i + 1 \in 0 .. N /\ pos \in 0 .. N /\ i + 1 <= pos
          BY <1>0, <3>1, <3>3
        <5> QED BY <1>2, <5>1
      <4>2. Before(i + 1) = Before(i) + values[i] /\ values[i] \in Nat /\ values[i] # 0
        BY <1>0, <1>2
      <4>3. Before(i) \in Nat /\ Before(pos) \in Nat
        BY <1>2, <3>1
      <4> QED BY <3>1, <4>1, <4>2, <4>3
    <3>4. \A i \in held : pos <= i
      BY <1>0, <3>1, <3>3
    <3>5. \A x \in held : (\A i \in held : x <= i) => x = pos
      <4>1. \A x \in held : x \in Int
        OBVIOUS
      <4> HIDE DEF held
      <4> QED BY <3>2, <3>4, <4>1
    <3>6. Min(held) = pos
      <4> HIDE DEF held
      <4> QED BY <3>2, <3>4, <3>5 DEF Min
    <3> QED BY <3>6 DEF pos
  <2> QED BY <1>4, <2>2, <2>3, <2>4 DEF SearchesExact
<1> QED BY <1>3, <1>4

(* find_last_nonzero() and find_first_nonzero() answer the ends of the       *)
(* positions that hold volume, and N when none does, although their binary   *)
(* lifting starts from a power of two that may be well below N.              *)
THEOREM SearchesAlwaysExact == FTSpec => []SearchesExact
BY SearchesInv, TreeInvariance, PTL
=============================================================================
