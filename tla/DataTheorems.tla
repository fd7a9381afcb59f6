---------------------------- MODULE DataTheorems ----------------------------
(***************************************************************************)
(* What the proofs of several components need to know of data: least       *)
(* elements, folds and sums over finite sets, and what the operations of   *)
(* IntrusiveLists preserve, for any set of elements and any set of lists.  *)
(***************************************************************************)
EXTENDS IntrusiveLists, FiniteSetsExt, FiniteSetTheorems, WellFoundedInduction, TLAPS

(* A nonempty set of elements has one of least age: the natural numbers    *)
(* are well founded.                                                       *)
LEMMA LeastAge ==
  ASSUME NEW S, S # {}, NEW age, \A n \in S : age[n] \in Nat
  PROVE  \E n \in S : \A m \in S : age[n] <= age[m]
<1> DEFINE T == {age[n] : n \in S}
           R == {ss \in Nat \X Nat : ss[1] < ss[2]}
<1>1. T \subseteq Nat /\ T # {}
  OBVIOUS
<1>2. IsWellFoundedOn(R, Nat)
  <2>1. R = OpToRel(<, Nat)
    BY Zenon DEF OpToRel
  <2> QED
    BY <2>1, NatLessThanWellFounded, Zenon
<1>3. PICK x \in T : \A y \in T : ~(<<y, x>> \in R)
  <2> HIDE DEF T, R
  <2> QED
    BY <1>1, <1>2, WFMin, Zenon
<1>4. ASSUME NEW y \in T PROVE x <= y
  <2>1. x \in Nat /\ y \in Nat
    BY <1>1
  <2>2. y < x => <<y, x>> \in R
    BY <2>1
  <2> QED
    BY <2>1, <2>2, <1>3
<1> QED
  BY <1>4

-----------------------------------------------------------------------------
(* Folds over the subsets of a finite set: one element at a time, the one    *)
(* that ch gives, goes into the result by g.                                 *)
IsFold(f, S, base, ch, g) ==
  f = [s \in SUBSET S |-> IF s = {} THEN base ELSE g[<<ch[s], f[s \ {ch[s]}]>>]]

(* A nonempty family of finite sets has one of least size. *)
LEMMA SmallestSet ==
  ASSUME NEW S, IsFiniteSet(S), NEW F \in SUBSET (SUBSET S), F # {}
  PROVE  \E s \in F : \A t \in F : t \subseteq s => t = s
<1> DEFINE age == [s \in F |-> Cardinality(s)]
<1>1. \A s \in F : IsFiniteSet(s) /\ age[s] \in Nat
  BY FS_Subset, FS_CardinalityType
<1>2. PICK s \in F : \A t \in F : age[s] <= age[t]
  <2> HIDE DEF age
  <2> QED BY <1>1, LeastAge
<1>3. ASSUME NEW t \in F, t \subseteq s PROVE t = s
  <2>1. Cardinality(t) <= Cardinality(s) /\ (Cardinality(s) = Cardinality(t) => s = t)
    BY <1>1, <1>3, FS_Subset
  <2>2. Cardinality(s) <= Cardinality(t) /\ Cardinality(s) \in Nat /\ Cardinality(t) \in Nat
    BY <1>1, <1>2
  <2> QED BY <2>1, <2>2
<1> QED BY <1>3

(* Two folds agree. *)
LEMMA FoldsAgree ==
  ASSUME NEW S, IsFiniteSet(S), NEW base, NEW ch, \A s \in SUBSET S : s # {} => ch[s] \in s, NEW g,
         NEW T, NEW U, NEW f, NEW h, IsFold(f, T, base, ch, g), IsFold(h, U, base, ch, g),
         S \subseteq T, S \subseteq U
  PROVE  f[S] = h[S]
<1> DEFINE F == {s \in SUBSET S : f[s] # h[s]}
<1>1. \A s \in SUBSET S :
        /\ f[s] = IF s = {} THEN base ELSE g[<<ch[s], f[s \ {ch[s]}]>>]
        /\ h[s] = IF s = {} THEN base ELSE g[<<ch[s], h[s \ {ch[s]}]>>]
  BY DEF IsFold
<1>2. F = {}
  <2> SUFFICES ASSUME F # {} PROVE FALSE
    OBVIOUS
  <2>1. PICK s \in F : \A t \in F : t \subseteq s => t = s
    <3>1. F \in SUBSET (SUBSET S)
      OBVIOUS
    <3> HIDE DEF F
    <3> QED BY <3>1, SmallestSet
  <2>2. s \in SUBSET S /\ f[s] # h[s]
    BY <2>1
  <2>3. s # {}
    BY <2>2, <1>1
  <2>4. s \ {ch[s]} \in SUBSET S /\ s \ {ch[s]} # s /\ s \ {ch[s]} \subseteq s
    BY <2>2, <2>3
  <2>5. f[s \ {ch[s]}] = h[s \ {ch[s]}]
    BY <2>1, <2>4
  <2> QED BY <2>2, <2>3, <2>5, <1>1
<1> QED BY <1>2

(* There is a fold: one that is as far as subsets without one allow. *)
LEMMA FoldExists ==
  ASSUME NEW S, IsFiniteSet(S), NEW base, NEW ch, \A s \in SUBSET S : s # {} => ch[s] \in s, NEW g
  PROVE  \E f : IsFold(f, S, base, ch, g)
<1> DEFINE Some(s) == CHOOSE f : IsFold(f, s, base, ch, g)
           Last(s) == Some(s)[s]
           Step(s) == IF s = {} THEN base ELSE g[<<ch[s], Last(s \ {ch[s]})>>]
           F == {s \in SUBSET S : ~ \E f : IsFold(f, s, base, ch, g)}
<1>1. ASSUME NEW s \in SUBSET S, \E f : IsFold(f, s, base, ch, g)
      PROVE  IsFold(Some(s), s, base, ch, g)
  BY <1>1
<1>2. ASSUME NEW u \in SUBSET S, \A t \in SUBSET u : t # u => \E f : IsFold(f, t, base, ch, g)
      PROVE  IsFold([t \in SUBSET u |-> Step(t)], u, base, ch, g)
  <2> DEFINE h == [t \in SUBSET u |-> Step(t)]
  <2>1. ASSUME NEW t \in SUBSET u, t # u
        PROVE  Last(t) = Step(t)
    <3>1. IsFold(Some(t), t, base, ch, g)
      BY <1>1, <1>2, <2>1
    <3>2. Last(t) = IF t = {} THEN base ELSE g[<<ch[t], Some(t)[t \ {ch[t]}]>>]
      BY <3>1, Zenon DEF IsFold
    <3>3. CASE t # {}
      <4> DEFINE r == t \ {ch[t]}
      <4>1. ch[t] \in t /\ r \in SUBSET u /\ r # u /\ r \subseteq t /\ r \in SUBSET S
        BY <2>1, <3>3
      <4>2. IsFold(Some(r), r, base, ch, g)
        BY <1>1, <1>2, <4>1
      <4>3. IsFiniteSet(r) /\ \A s \in SUBSET r : s # {} => ch[s] \in s
        BY <4>1, FS_Subset
      <4>4. Some(r)[r] = Some(t)[r]
        <5> HIDE DEF Some, r
        <5> QED BY <3>1, <4>1, <4>2, <4>3, FoldsAgree
      <4> HIDE DEF Some
      <4> QED BY <3>2, <3>3, <4>4
    <3> QED BY <3>2, <3>3
  <2>2. ASSUME NEW t \in SUBSET u
        PROVE  h[t] = IF t = {} THEN base ELSE g[<<ch[t], h[t \ {ch[t]}]>>]
    <3>1. CASE t = {}
      BY <3>1
    <3>2. CASE t # {}
      <4> DEFINE r == t \ {ch[t]}
      <4>1. ch[t] \in t /\ r \in SUBSET u /\ r # u
        BY <3>2
      <4>2. h[r] = Last(r)
        <5> HIDE DEF Last, Step, r
        <5> QED BY <4>1, <2>1
      <4>3. h[t] = g[<<ch[t], Last(r)>>]
        BY <3>2
      <4> HIDE DEF h, Last
      <4> QED BY <3>2, <4>2, <4>3
    <3> QED BY <3>1, <3>2
  <2>3. h = [t \in SUBSET u |-> h[t]]
    OBVIOUS
  <2> HIDE DEF h
  <2>4. h = [t \in SUBSET u |-> IF t = {} THEN base ELSE g[<<ch[t], h[t \ {ch[t]}]>>]]
    BY <2>2, <2>3
  <2>5. IsFold(h, u, base, ch, g)
    BY <2>4, Zenon DEF IsFold
  <2> QED BY <2>5 DEF h
<1>3. F = {}
  <2> SUFFICES ASSUME F # {} PROVE FALSE
    OBVIOUS
  <2>1. PICK u \in F : \A t \in F : t \subseteq u => t = u
    <3>1. F \in SUBSET (SUBSET S)
      OBVIOUS
    <3> HIDE DEF F
    <3> QED BY <3>1, SmallestSet
  <2>2. \A t \in SUBSET u : t # u => \E f : IsFold(f, t, base, ch, g)
    BY <2>1
  <2>3. \E f : IsFold(f, u, base, ch, g)
    BY <2>1, <2>2, <1>2, Zenon
  <2> QED BY <2>1, <2>3
<1> QED BY <1>3

(* What a fold takes its values from. *)
LEMMA FoldType ==
  ASSUME NEW S, IsFiniteSet(S), NEW base, NEW ch, \A s \in SUBSET S : s # {} => ch[s] \in s, NEW g,
         NEW V, base \in V, \A x \in S, v \in V : g[<<x, v>>] \in V,
         NEW f, IsFold(f, S, base, ch, g)
  PROVE  \A s \in SUBSET S : f[s] \in V
<1> DEFINE F == {s \in SUBSET S : f[s] \notin V}
<1>1. F = {}
  <2> SUFFICES ASSUME F # {} PROVE FALSE
    OBVIOUS
  <2>1. PICK s \in F : \A t \in F : t \subseteq s => t = s
    <3>1. F \in SUBSET (SUBSET S)
      OBVIOUS
    <3> HIDE DEF F
    <3> QED BY <3>1, SmallestSet
  <2>2. s \in SUBSET S /\ f[s] \notin V
    BY <2>1
  <2>3. f[s] = IF s = {} THEN base ELSE g[<<ch[s], f[s \ {ch[s]}]>>]
    BY <2>2 DEF IsFold
  <2>4. s # {} /\ ch[s] \in s
    BY <2>2, <2>3
  <2>5. s \ {ch[s]} \in SUBSET S /\ s \ {ch[s]} # s /\ s \ {ch[s]} \subseteq s
    BY <2>2, <2>4
  <2>6. f[s \ {ch[s]}] \in V
    BY <2>1, <2>5
  <2> QED BY <2>2, <2>3, <2>4, <2>6
<1> QED BY <1>1

-----------------------------------------------------------------------------
(* A function that calls itself once, at an argument nearer to its end.      *)
Calls(f, x, stop, next, g, h) == f[x] = IF x \in stop THEN g[x] ELSE h[<<x, f[next[x]]>>]

LEMMA RecursionUpTo ==
  ASSUME NEW S, NEW stop, NEW next, NEW m, NEW V, NEW g \in [S -> V], NEW h,
         \A x \in S : m[x] \in Nat,
         \A x \in S \ stop : next[x] \in S /\ m[next[x]] < m[x],
         \A x \in S, v \in V : h[<<x, v>>] \in V,
         NEW n \in Nat
  PROVE  \E f \in [S -> V] : \A x \in S : m[x] < n => Calls(f, x, stop, next, g, h)
<1> DEFINE Some(k) == \E f \in [S -> V] : \A x \in S : m[x] < k => Calls(f, x, stop, next, g, h)
           F == {k \in Nat : ~Some(k)}
           age == [k \in F |-> k]
<1>1. ASSUME F # {} PROVE FALSE
  <2>1. PICK k \in F : \A l \in F : age[k] <= age[l]
    <3>1. \A l \in F : age[l] \in Nat
      OBVIOUS
    <3> HIDE DEF age, F
    <3> QED BY <1>1, <3>1, LeastAge
  <2>2. k \in Nat /\ ~Some(k) /\ \A l \in Nat : l < k => Some(l)
    <3> HIDE DEF Some
    <3> QED BY <2>1
  <2>3. k # 0
    <3>1. \A x \in S : ~(m[x] < 0)
      OBVIOUS
    <3> QED BY <2>2, <3>1
  <2>4. PICK f \in [S -> V] : \A x \in S : m[x] < k - 1 => Calls(f, x, stop, next, g, h)
    <3>1. k - 1 \in Nat /\ k - 1 < k
      BY <2>2, <2>3
    <3>2. Some(k - 1)
      <4> HIDE DEF Some
      <4> QED BY <2>2, <3>1
    <3> QED BY <3>2
  <2> DEFINE f2 == [x \in S |-> IF m[x] < k - 1 THEN f[x]
                                 ELSE IF x \in stop THEN g[x] ELSE h[<<x, f[next[x]]>>]]
  <2>5. f2 \in [S -> V]
    OBVIOUS
  <2>6. ASSUME NEW x \in S, m[x] < k PROVE Calls(f2, x, stop, next, g, h)
    <3>1. f2[x] = IF x \in stop THEN g[x] ELSE h[<<x, f[next[x]]>>]
      BY <2>4 DEF Calls
    <3>2. x \notin stop => f2[next[x]] = f[next[x]]
      <4>1. x \notin stop => next[x] \in S /\ m[next[x]] < m[x] /\ m[next[x]] \in Nat
        OBVIOUS
      <4>2. m[x] \in Nat /\ k \in Nat
        BY <2>2
      <4>3. x \notin stop => next[x] \in S /\ m[next[x]] < k - 1
        BY <4>1, <4>2, <2>6
      <4> QED BY <4>3
    <3> HIDE DEF f2
    <3> QED BY <3>1, <3>2 DEF Calls
  <2>7. Some(k)
    <3> HIDE DEF f2
    <3> QED BY <2>5, <2>6
  <2> QED BY <2>2, <2>7
<1> QED BY <1>1

(* There is such a function. *)
LEMMA RecursionExists ==
  ASSUME NEW S, NEW stop, NEW next, NEW m, NEW V, NEW g \in [S -> V], NEW h,
         \A x \in S : m[x] \in Nat,
         \A x \in S \ stop : next[x] \in S /\ m[next[x]] < m[x],
         \A x \in S, v \in V : h[<<x, v>>] \in V
  PROVE  \E f \in [S -> V] : \A x \in S : Calls(f, x, stop, next, g, h)
<1> DEFINE Up(f, n) == \A x \in S : m[x] < n => Calls(f, x, stop, next, g, h)
           Fn(n) == CHOOSE f \in [S -> V] : Up(f, n)
           f2 == [x \in S |-> Fn(m[x] + 1)[x]]
<1>1. ASSUME NEW n \in Nat PROVE Fn(n) \in [S -> V] /\ Up(Fn(n), n)
  <2>1. \E f \in [S -> V] : Up(f, n)
    BY RecursionUpTo
  <2> HIDE DEF Up
  <2> QED BY <2>1
<1> DEFINE F == {x \in S : \E n, l \in Nat : m[x] < n /\ m[x] < l /\ Fn(n)[x] # Fn(l)[x]}
           age == [x \in F |-> m[x]]
<1>2. ASSUME F # {} PROVE FALSE
  <2>1. PICK x \in F : \A y \in F : age[x] <= age[y]
    <3>1. \A y \in F : age[y] \in Nat
      OBVIOUS
    <3> HIDE DEF age, F
    <3> QED BY <1>2, <3>1, LeastAge
  <2>2. x \in S /\ \A y \in S : m[y] < m[x] => y \notin F
    <3>1. x \in S /\ \A y \in F : m[x] <= m[y]
      BY <2>1
    <3>2. \A y \in S : m[y] \in Nat
      OBVIOUS
    <3> HIDE DEF F
    <3> QED BY <3>1, <3>2
  <2>3. PICK n \in Nat, l \in Nat : m[x] < n /\ m[x] < l /\ Fn(n)[x] # Fn(l)[x]
    BY <2>1
  <2>4. Calls(Fn(n), x, stop, next, g, h) /\ Calls(Fn(l), x, stop, next, g, h)
    <3> HIDE DEF Fn
    <3> QED BY <1>1, <2>2, <2>3
  <2>5. x \notin stop
    <3> HIDE DEF Fn
    <3> QED BY <2>3, <2>4 DEF Calls
  <2>6. next[x] \in S /\ m[next[x]] < m[x] /\ m[x] \in Nat /\ m[next[x]] \in Nat
    BY <2>2, <2>5
  <2>7. Fn(n)[next[x]] = Fn(l)[next[x]]
    <3>1. m[next[x]] < n /\ m[next[x]] < l
      BY <2>3, <2>6
    <3>2. next[x] \notin F
      <4> HIDE DEF F
      <4> QED BY <2>2, <2>6
    <3> HIDE DEF Fn
    <3> QED BY <2>6, <3>1, <3>2
  <2> HIDE DEF Fn
  <2> QED BY <2>3, <2>4, <2>5, <2>7 DEF Calls
<1>3. f2 \in [S -> V]
  <2>1. \A x \in S : Fn(m[x] + 1)[x] \in V
    <3> HIDE DEF Fn
    <3> QED BY <1>1
  <2> HIDE DEF Fn
  <2> QED BY <2>1
<1>4. ASSUME NEW x \in S PROVE Calls(f2, x, stop, next, g, h)
  <2>1. Calls(Fn(m[x] + 1), x, stop, next, g, h)
    <3>1. m[x] \in Nat /\ m[x] + 1 \in Nat /\ m[x] < m[x] + 1
      OBVIOUS
    <3> HIDE DEF Fn
    <3> QED BY <1>1, <3>1
  <2>2. f2[x] = Fn(m[x] + 1)[x]
    <3> HIDE DEF Fn
    <3> QED OBVIOUS
  <2>3. CASE x \in stop
    <3> HIDE DEF Fn, f2
    <3> QED BY <2>1, <2>2, <2>3 DEF Calls
  <2>4. CASE x \notin stop
    <3>1. next[x] \in S /\ m[next[x]] < m[x] /\ m[x] \in Nat /\ m[next[x]] \in Nat
      BY <2>4
    <3>2. f2[next[x]] = Fn(m[next[x]] + 1)[next[x]]
      <4> HIDE DEF Fn
      <4> QED BY <3>1
    <3>3. Fn(m[next[x]] + 1)[next[x]] = Fn(m[x] + 1)[next[x]]
      <4>1. next[x] \notin F
        BY <1>2
      <4>2. m[next[x]] + 1 \in Nat /\ m[x] + 1 \in Nat
            /\ m[next[x]] < m[next[x]] + 1 /\ m[next[x]] < m[x] + 1
        BY <3>1
      <4> HIDE DEF Fn
      <4> QED BY <3>1, <4>1, <4>2
    <3> HIDE DEF Fn, f2
    <3> QED BY <2>1, <2>2, <2>4, <3>2, <3>3 DEF Calls
  <2> QED BY <2>3, <2>4
<1> HIDE DEF f2
<1> QED BY <1>3, <1>4

-----------------------------------------------------------------------------
(* Sums of whole numbers over finite sets *)

SumOver(w, S) == MapThenSumSet(LAMBDA n : w[n], S)

AnElement(s) == CHOOSE x \in s : TRUE

Rest(s) == s \ {AnElement(s)}

(* The recursion behind the sum. *)
IsSum(f, S, w) == f = [s \in SUBSET S |-> IF s = {} THEN 0 ELSE w[AnElement(s)] + f[Rest(s)]]

LEMMA SumUnfolds ==
  ASSUME NEW w, NEW S
  PROVE  SumOver(w, S) = (CHOOSE f : IsSum(f, S, w))[S]
  BY Zenon DEF SumOver, MapThenSumSet, MapThenFoldSet, IsSum, AnElement, Rest

LEMMA SumExists ==
  ASSUME NEW S, IsFiniteSet(S), NEW w, \A n \in S : w[n] \in Int
  PROVE  \E f : IsSum(f, S, w)
<1> DEFINE ch == [s \in SUBSET S |-> AnElement(s)]
           g == [p \in S \X Int |-> w[p[1]] + p[2]]
<1>1. \A s \in SUBSET S : s # {} => ch[s] \in s /\ ch[s] = AnElement(s)
  BY DEF AnElement
<1>2. \A x \in S, v \in Int : g[<<x, v>>] = w[x] + v /\ g[<<x, v>>] \in Int
  OBVIOUS
<1> HIDE DEF ch, g
<1>3. PICK f : IsFold(f, S, 0, ch, g)
  BY <1>1, FoldExists
<1>4. \A s \in SUBSET S : f[s] \in Int
  <2>1. \A x \in S, v \in Int : g[<<x, v>>] \in Int
    BY <1>2
  <2>2. \A s \in SUBSET S : s # {} => ch[s] \in s
    BY <1>1
  <2>3. 0 \in Int
    OBVIOUS
  <2> QED BY <2>1, <2>2, <2>3, <1>3, FoldType, Zenon
<1>5. \A s \in SUBSET S : f[s] = IF s = {} THEN 0 ELSE w[AnElement(s)] + f[Rest(s)]
  <2> SUFFICES ASSUME NEW s \in SUBSET S
               PROVE  f[s] = IF s = {} THEN 0 ELSE w[AnElement(s)] + f[Rest(s)]
    OBVIOUS
  <2>1. f[s] = IF s = {} THEN 0 ELSE g[<<ch[s], f[s \ {ch[s]}]>>]
    BY <1>3 DEF IsFold
  <2>2. CASE s # {}
    <3>1. AnElement(s) \in S /\ Rest(s) \in SUBSET S /\ f[Rest(s)] \in Int
      BY <2>2, <1>1, <1>4 DEF Rest
    <3> QED BY <2>1, <2>2, <3>1, <1>1, <1>2 DEF Rest
  <2> QED BY <2>1, <2>2
<1>6. f = [s \in SUBSET S |-> f[s]]
  BY <1>3 DEF IsFold
<1>7. IsSum(f, S, w)
  BY <1>5, <1>6 DEF IsSum
<1> QED BY <1>7

LEMMA SumsAgree ==
  ASSUME NEW S, IsFiniteSet(S), NEW w, NEW v, \A n \in S : w[n] = v[n],
         NEW T, NEW U, NEW f, NEW h, IsSum(f, T, w), IsSum(h, U, v),
         S \subseteq T, S \subseteq U
  PROVE  f[S] = h[S]
<1> DEFINE F == {s \in SUBSET S : f[s] # h[s]}
<1>1. \A s \in SUBSET S :
        /\ f[s] = IF s = {} THEN 0 ELSE w[AnElement(s)] + f[Rest(s)]
        /\ h[s] = IF s = {} THEN 0 ELSE v[AnElement(s)] + h[Rest(s)]
  BY DEF IsSum
<1>2. F = {}
  <2> SUFFICES ASSUME F # {} PROVE FALSE
    OBVIOUS
  <2>1. PICK s \in F : \A t \in F : t \subseteq s => t = s
    <3>1. F \in SUBSET (SUBSET S)
      OBVIOUS
    <3> HIDE DEF F
    <3> QED BY <3>1, SmallestSet
  <2>2. s \in SUBSET S /\ f[s] # h[s]
    BY <2>1
  <2>3. s # {}
    BY <2>2, <1>1
  <2>4. AnElement(s) \in s
    BY <2>3 DEF AnElement
  <2>5. Rest(s) \in SUBSET S /\ Rest(s) # s /\ Rest(s) \subseteq s
    BY <2>2, <2>4 DEF Rest
  <2>6. f[Rest(s)] = h[Rest(s)]
    BY <2>1, <2>5
  <2>7. w[AnElement(s)] = v[AnElement(s)]
    BY <2>2, <2>4
  <2> QED BY <2>2, <2>3, <2>6, <2>7, <1>1
<1> QED BY <1>2

LEMMA SumStep ==
  ASSUME NEW S, IsFiniteSet(S), NEW w, \A n \in S : w[n] \in Int
  PROVE  SumOver(w, S) = IF S = {} THEN 0 ELSE w[AnElement(S)] + SumOver(w, Rest(S))
<1> DEFINE f == CHOOSE f : IsSum(f, S, w)
           h == CHOOSE h : IsSum(h, Rest(S), w)
<1>1. IsSum(f, S, w) /\ SumOver(w, S) = f[S]
  BY SumExists, SumUnfolds
<1>2. f[S] = IF S = {} THEN 0 ELSE w[AnElement(S)] + f[Rest(S)]
  <2> HIDE DEF f
  <2> QED BY <1>1 DEF IsSum
<1>3. Rest(S) \subseteq S /\ IsFiniteSet(Rest(S))
  BY FS_Subset DEF Rest
<1>4. IsSum(h, Rest(S), w) /\ SumOver(w, Rest(S)) = h[Rest(S)]
  BY <1>3, SumExists, SumUnfolds
<1>5. f[Rest(S)] = h[Rest(S)]
  <2> HIDE DEF f, h
  <2> QED BY <1>1, <1>3, <1>4, SumsAgree
<1> HIDE DEF f, h
<1> QED BY <1>1, <1>2, <1>4, <1>5

LEMMA SumEmpty ==
  ASSUME NEW w
  PROVE  SumOver(w, {}) = 0
  BY SumStep, FS_EmptySet

LEMMA SumSame ==
  ASSUME NEW S, IsFiniteSet(S), NEW w, NEW v, \A n \in S : w[n] \in Int /\ w[n] = v[n]
  PROVE  SumOver(w, S) = SumOver(v, S)
<1> DEFINE f == CHOOSE f : IsSum(f, S, w)
           h == CHOOSE h : IsSum(h, S, v)
<1>1. IsSum(f, S, w) /\ SumOver(w, S) = f[S]
  BY SumExists, SumUnfolds
<1>2. IsSum(h, S, v) /\ SumOver(v, S) = h[S]
  BY SumExists, SumUnfolds
<1>3. f[S] = h[S]
  <2> HIDE DEF f, h
  <2> QED BY <1>1, <1>2, SumsAgree
<1> HIDE DEF f, h
<1> QED BY <1>1, <1>2, <1>3

LEMMA SumType ==
  ASSUME NEW S, IsFiniteSet(S), NEW w, \A n \in S : w[n] \in Int
  PROVE  /\ SumOver(w, S) \in Int
         /\ (\A n \in S : w[n] >= 0) => SumOver(w, S) >= 0
<1> DEFINE Ok(s) == /\ SumOver(w, s) \in Int
                    /\ (\A n \in s : w[n] >= 0) => SumOver(w, s) >= 0
           F == {s \in SUBSET S : ~Ok(s)}
<1>1. F = {}
  <2> SUFFICES ASSUME F # {} PROVE FALSE
    OBVIOUS
  <2>1. PICK s \in F : \A t \in F : t \subseteq s => t = s
    <3>1. F \in SUBSET (SUBSET S)
      OBVIOUS
    <3> HIDE DEF F
    <3> QED BY <3>1, SmallestSet
  <2>2. s \in SUBSET S /\ ~Ok(s) /\ IsFiniteSet(s)
    BY <2>1, FS_Subset
  <2>3. SumOver(w, s) = IF s = {} THEN 0 ELSE w[AnElement(s)] + SumOver(w, Rest(s))
    BY <2>2, SumStep
  <2>4. s # {}
    BY <2>2, <2>3
  <2>5. AnElement(s) \in s
    BY <2>4 DEF AnElement
  <2>6. Rest(s) \in SUBSET S /\ Rest(s) # s /\ Rest(s) \subseteq s
    BY <2>2, <2>5 DEF Rest
  <2>7. Ok(Rest(s))
    BY <2>1, <2>6
  <2>8. w[AnElement(s)] \in Int
    BY <2>2, <2>5
  <2> QED BY <2>2, <2>3, <2>4, <2>5, <2>6, <2>7, <2>8
<1> QED BY <1>1

(* Any element may be taken out. *)
LEMMA SumWithout ==
  ASSUME NEW S, IsFiniteSet(S), NEW w, \A n \in S : w[n] \in Int, NEW x \in S
  PROVE  SumOver(w, S) = w[x] + SumOver(w, S \ {x})
<1> DEFINE Ok(s) == \A y \in s : SumOver(w, s) = w[y] + SumOver(w, s \ {y})
           F == {s \in SUBSET S : ~Ok(s)}
<1>1. F = {}
  <2> SUFFICES ASSUME F # {} PROVE FALSE
    OBVIOUS
  <2>1. PICK s \in F : \A t \in F : t \subseteq s => t = s
    <3>1. F \in SUBSET (SUBSET S)
      OBVIOUS
    <3> HIDE DEF F
    <3> QED BY <3>1, SmallestSet
  <2>2. s \in SUBSET S /\ ~Ok(s) /\ IsFiniteSet(s)
    BY <2>1, FS_Subset
  <2>3. PICK y \in s : SumOver(w, s) # w[y] + SumOver(w, s \ {y})
    BY <2>2
  <2> DEFINE a == AnElement(s)
             r == Rest(s)
  <2>4. a \in s /\ r = s \ {a}
    BY <2>3 DEF AnElement, Rest
  <2>5. SumOver(w, s) = w[a] + SumOver(w, r)
    BY <2>2, <2>3, SumStep
  <2> HIDE DEF a, r
  <2>6. a # y
    BY <2>3, <2>4, <2>5
  <2>7. /\ r \in SUBSET S /\ r # s /\ r \subseteq s /\ y \in r
        /\ s \ {y} \in SUBSET S /\ s \ {y} # s /\ s \ {y} \subseteq s /\ a \in s \ {y}
    BY <2>2, <2>3, <2>4, <2>6
  <2>8. SumOver(w, r) = w[y] + SumOver(w, r \ {y})
    <3>1. Ok(r)
      BY <2>1, <2>7
    <3> QED BY <3>1, <2>7
  <2>9. SumOver(w, s \ {y}) = w[a] + SumOver(w, (s \ {y}) \ {a})
    <3>1. Ok(s \ {y})
      BY <2>1, <2>7
    <3> QED BY <3>1, <2>7
  <2>10. r \ {y} = (s \ {y}) \ {a}
    BY <2>4
  <2>11. w[a] \in Int /\ w[y] \in Int /\ SumOver(w, r \ {y}) \in Int
    <3>1. IsFiniteSet(r \ {y}) /\ r \ {y} \subseteq S
      BY <2>7, FS_Subset
    <3>2. SumOver(w, r \ {y}) \in Int
      BY <3>1, SumType
    <3> QED BY <3>2, <2>2, <2>3, <2>4
  <2>12. SumOver(w, s \ {y}) = w[a] + SumOver(w, r \ {y})
    BY <2>9, <2>10
  <2>13. SumOver(w, s) = w[a] + (w[y] + SumOver(w, r \ {y}))
    BY <2>5, <2>8
  <2>14. w[a] + (w[y] + SumOver(w, r \ {y})) = w[y] + (w[a] + SumOver(w, r \ {y}))
    BY <2>11
  <2> QED BY <2>3, <2>12, <2>13, <2>14
<1> QED BY <1>1

LEMMA SumWith ==
  ASSUME NEW S, IsFiniteSet(S), NEW w, \A n \in S : w[n] \in Int, NEW x, x \notin S, w[x] \in Int
  PROVE  SumOver(w, S \cup {x}) = w[x] + SumOver(w, S)
<1>1. IsFiniteSet(S \cup {x}) /\ \A n \in S \cup {x} : w[n] \in Int
  BY FS_AddElement
<1>2. (S \cup {x}) \ {x} = S
  OBVIOUS
<1> QED BY <1>1, <1>2, SumWithout

(* No part of a sum of natural numbers exceeds it. *)
LEMMA SumBounds ==
  ASSUME NEW S, IsFiniteSet(S), NEW w, \A n \in S : w[n] \in Nat
  PROVE  /\ SumOver(w, S) \in Nat
         /\ \A x \in S : w[x] <= SumOver(w, S)
<1>1. \A n \in S : w[n] \in Int /\ w[n] >= 0
  OBVIOUS
<1>2. SumOver(w, S) \in Nat
  BY <1>1, SumType
<1>3. ASSUME NEW x \in S PROVE w[x] <= SumOver(w, S)
  <2>1. IsFiniteSet(S \ {x}) /\ S \ {x} \subseteq S
    BY FS_Subset
  <2>2. SumOver(w, S \ {x}) \in Int /\ SumOver(w, S \ {x}) >= 0
    BY <1>1, <2>1, SumType
  <2>3. SumOver(w, S) = w[x] + SumOver(w, S \ {x})
    BY <1>1, SumWithout
  <2> QED BY <1>1, <2>2, <2>3
<1> QED BY <1>2, <1>3

(* Zeroes may be left out. *)
LEMMA SumZeroes ==
  ASSUME NEW S, IsFiniteSet(S), NEW w, \A n \in S : w[n] \in Int,
         NEW T \in SUBSET S, \A n \in S \ T : w[n] = 0
  PROVE  SumOver(w, S) = SumOver(w, T)
<1> DEFINE F == {s \in SUBSET S : T \subseteq s /\ SumOver(w, s) # SumOver(w, T)}
<1>1. F = {}
  <2> SUFFICES ASSUME F # {} PROVE FALSE
    OBVIOUS
  <2>1. PICK s \in F : \A t \in F : t \subseteq s => t = s
    <3>1. F \in SUBSET (SUBSET S)
      OBVIOUS
    <3> HIDE DEF F
    <3> QED BY <3>1, SmallestSet
  <2>2. s \in SUBSET S /\ T \subseteq s /\ SumOver(w, s) # SumOver(w, T) /\ IsFiniteSet(s)
    BY <2>1, FS_Subset
  <2>3. PICK x \in s : x \notin T
    <3>1. s # T
      BY <2>2
    <3> QED BY <2>2, <3>1
  <2>4. w[x] = 0 /\ \A n \in s : w[n] \in Int
    BY <2>2, <2>3
  <2>5. SumOver(w, s) = w[x] + SumOver(w, s \ {x})
    BY <2>2, <2>4, SumWithout
  <2>6. SumOver(w, s \ {x}) \in Int
    <3>1. IsFiniteSet(s \ {x}) /\ \A n \in s \ {x} : w[n] \in Int
      BY <2>2, <2>4, FS_Subset
    <3> QED BY <3>1, SumType
  <2>7. SumOver(w, s \ {x}) # SumOver(w, T)
    BY <2>2, <2>4, <2>5, <2>6
  <2>8. s \ {x} \in F
    BY <2>2, <2>3, <2>7
  <2> QED BY <2>1, <2>8
<1> QED BY <1>1

(* Any solution of its equation gives the sum. *)
LEMMA SumUnique ==
  ASSUME NEW S, IsFiniteSet(S), NEW w, \A n \in S : w[n] \in Int, NEW f, IsSum(f, S, w)
  PROVE  f[S] = SumOver(w, S)
<1> DEFINE h == CHOOSE h : IsSum(h, S, w)
<1>1. IsSum(h, S, w) /\ SumOver(w, S) = h[S]
  BY SumExists, SumUnfolds, Zenon
<1>2. f[S] = h[S]
  <2> HIDE DEF h
  <2> QED BY <1>1, SumsAgree
<1> QED BY <1>1, <1>2

(* A sum is at most its largest term times the number of terms. *)
LEMMA SumAtMost ==
  ASSUME NEW S, IsFiniteSet(S), NEW w, NEW m \in Nat, \A n \in S : w[n] \in Nat /\ w[n] <= m
  PROVE  SumOver(w, S) <= m * Cardinality(S)
<1> DEFINE F == {s \in SUBSET S : ~(SumOver(w, s) <= m * Cardinality(s))}
<1>1. F = {}
  <2> SUFFICES ASSUME F # {} PROVE FALSE
    OBVIOUS
  <2>1. PICK s \in F : \A t \in F : t \subseteq s => t = s
    <3>1. F \in SUBSET (SUBSET S)
      OBVIOUS
    <3> HIDE DEF F
    <3> QED BY <3>1, SmallestSet
  <2>2. s \in SUBSET S /\ ~(SumOver(w, s) <= m * Cardinality(s)) /\ IsFiniteSet(s)
    BY <2>1, FS_Subset
  <2>3. s # {}
    BY <2>2, SumEmpty, FS_EmptySet
  <2>4. PICK x \in s : TRUE
    BY <2>3
  <2>5. w[x] \in Nat /\ w[x] <= m /\ \A n \in s : w[n] \in Int
    BY <2>2, <2>4
  <2> DEFINE r == s \ {x}
  <2>6. SumOver(w, s) = w[x] + SumOver(w, r)
    BY <2>2, <2>5, SumWithout
  <2>7. r \in SUBSET S /\ IsFiniteSet(r) /\ \A n \in r : w[n] \in Int
    BY <2>2, <2>5, FS_Subset
  <2>8. SumOver(w, r) \in Int
    BY <2>7, SumType
  <2>9. SumOver(w, r) <= m * Cardinality(r)
    BY <2>1, <2>4, <2>7
  <2>10. Cardinality(r) = Cardinality(s) - 1 /\ Cardinality(s) \in Nat
    BY <2>2, <2>4, FS_RemoveElement, FS_CardinalityType
  <2> HIDE DEF r
  <2>11. m * (Cardinality(s) - 1) + m = m * Cardinality(s)
    BY <2>10
  <2> QED BY <2>2, <2>5, <2>6, <2>8, <2>9, <2>10, <2>11
<1> QED BY <1>1

(* Sums over two sets. *)
LEMMA SumDisjoint ==
  ASSUME NEW S, IsFiniteSet(S), NEW T, IsFiniteSet(T), S \cap T = {},
         NEW w, \A n \in S \cup T : w[n] \in Int
  PROVE  SumOver(w, S \cup T) = SumOver(w, S) + SumOver(w, T)
<1> DEFINE F == {s \in SUBSET T : SumOver(w, S \cup s) # SumOver(w, S) + SumOver(w, s)}
<1>1. F = {}
  <2> SUFFICES ASSUME F # {} PROVE FALSE
    OBVIOUS
  <2>1. PICK s \in F : \A t \in F : t \subseteq s => t = s
    <3>1. F \in SUBSET (SUBSET T)
      OBVIOUS
    <3> HIDE DEF F
    <3> QED BY <3>1, SmallestSet
  <2>2. s \in SUBSET T /\ SumOver(w, S \cup s) # SumOver(w, S) + SumOver(w, s)
    BY <2>1
  <2>3. SumOver(w, S) \in Int
    BY SumType
  <2>4. s # {}
    <3>1. s = {} => S \cup s = S
      OBVIOUS
    <3> QED BY <2>2, <2>3, <3>1, SumEmpty
  <2>5. PICK x \in s : TRUE
    BY <2>4
  <2> DEFINE r == s \ {x}
  <2>6. r \in SUBSET T /\ r # s /\ r \subseteq s /\ (S \cup s) \ {x} = S \cup r
    BY <2>2, <2>5
  <2>7. SumOver(w, S \cup r) = SumOver(w, S) + SumOver(w, r)
    BY <2>1, <2>6
  <2>8. IsFiniteSet(s) /\ IsFiniteSet(r) /\ IsFiniteSet(S \cup s)
    BY <2>2, <2>6, FS_Subset, FS_Union
  <2>9. /\ \A n \in s : w[n] \in Int
        /\ \A n \in r : w[n] \in Int
        /\ \A n \in S \cup s : w[n] \in Int
        /\ x \in S \cup s /\ w[x] \in Int
    BY <2>2, <2>5
  <2>10. SumOver(w, s) = w[x] + SumOver(w, r)
    BY <2>8, <2>9, SumWithout
  <2>11. SumOver(w, S \cup s) = w[x] + SumOver(w, S \cup r)
    <3>1. SumOver(w, S \cup s) = w[x] + SumOver(w, (S \cup s) \ {x})
      <4> HIDE DEF r
      <4> QED BY <2>8, <2>9, SumWithout
    <3> QED BY <2>6, <3>1
  <2>12. SumOver(w, r) \in Int
    <3> HIDE DEF r
    <3> QED BY <2>8, <2>9, SumType
  <2> HIDE DEF r
  <2> QED BY <2>2, <2>3, <2>7, <2>9, <2>10, <2>11, <2>12
<1> QED BY <1>1

-----------------------------------------------------------------------------
(* Intrusive lists                                                           *)

(* The tail of a list that has an element is its element of least age. *)
LEMMA TailIsOldest ==
  ASSUME NEW Nodes, NEW Lists, NULL \notin Nodes, NULL \notin Lists,
         NEW L \in Links(Nodes, Lists), NEW at, NEW age \in [Nodes -> Nat],
         Chained(L, Nodes, Lists, at, age),
         NEW n \in Nodes, NEW l \in Lists, at[n] = l
  PROVE  /\ L.tail[l] \in Nodes
         /\ at[L.tail[l]] = l
         /\ \A m \in Nodes : at[m] = l /\ m # L.tail[l] => age[L.tail[l]] < age[m]
<1> DEFINE S == {m \in Nodes : at[m] = l}
<1>1. PICK o \in S : \A m \in S : age[o] <= age[m]
  <2>1. S # {} /\ \A m \in S : age[m] \in Nat
    OBVIOUS
  <2> HIDE DEF S
  <2> QED
    BY <2>1, LeastAge
<1>2. \A m \in S : ElementLinked(L, at, age, m)
  BY DEF Chained
<1>3. \A m \in S : L.next[m] # NULL => L.next[m] \in S /\ age[L.next[m]] < age[m]
  BY <1>2 DEF ElementLinked, Links
<1>4. L.next[o] = NULL
  BY <1>1, <1>3
<1>5. L.tail[l] = o
  BY <1>2, <1>4 DEF ElementLinked
<1>6. ASSUME NEW m \in S, m # o PROVE age[o] < age[m]
  <2>1. L.next[m] # NULL
    BY <1>2, <1>5, <1>6 DEF ElementLinked
  <2> QED
    BY <2>1, <1>1, <1>3, <1>6
<1> QED
  BY <1>5, <1>6

(* A list without a head has no element. *)
LEMMA NoHeadNoElement ==
  ASSUME NEW Nodes, NEW Lists, NULL \notin Nodes, NULL \notin Lists,
         NEW L \in Links(Nodes, Lists), NEW at, NEW age \in [Nodes -> Nat],
         Chained(L, Nodes, Lists, at, age),
         NEW l \in Lists, L.head[l] = NULL
  PROVE  \A n \in Nodes : at[n] # l
<1>1. L.tail[l] = NULL
  BY DEF Chained, EndsLinked
<1> QED
  BY <1>1, TailIsOldest

(* The operations keep the fields in their ranges. *)
LEMMA LinksType ==
  ASSUME NEW Nodes, NEW Lists, NEW L \in Links(Nodes, Lists),
         NEW n \in Nodes, NEW l \in Lists
  PROVE  /\ NoLinks(Nodes, Lists) \in Links(Nodes, Lists)
         /\ Mirror(L) \in Links(Nodes, Lists)
         /\ PushHead(L, n, l) \in Links(Nodes, Lists)
         /\ Unlink(L, n, l) \in Links(Nodes, Lists)
  BY DEF Links, NoLinks, Mirror, PushHead, Unlink

(* Freshly initialised lists are well formed and empty. *)
LEMMA NoLinksChained ==
  ASSUME NEW Nodes, NEW Lists, NEW at, NEW age, \A n \in Nodes : at[n] = NULL
  PROVE  Chained(NoLinks(Nodes, Lists), Nodes, Lists, at, age)
  BY DEF Chained, EndsLinked, NoLinks

(* Pushing a newest element of no list at the head keeps the lists well      *)
(* formed, and only the pushed element changes list and age.                 *)
LEMMA PushHeadChained ==
  ASSUME NEW Nodes, NEW Lists, NULL \notin Nodes, NULL \notin Lists,
         NEW L \in Links(Nodes, Lists), NEW age \in [Nodes -> Nat],
         NEW at \in [Nodes -> Lists \cup {NULL}],
         Chained(L, Nodes, Lists, at, age),
         NEW n \in Nodes, NEW l \in Lists, at[n] = NULL,
         NEW stamp \in Nat, \A m \in Nodes : at[m] = l => age[m] < stamp
  PROVE  Chained(PushHead(L, n, l), Nodes, Lists,
                 [at EXCEPT ![n] = l], [age EXCEPT ![n] = stamp])
<1> DEFINE M    == PushHead(L, n, l)
           at2  == [at EXCEPT ![n] = l]
           age2 == [age EXCEPT ![n] = stamp]
           h    == L.head[l]
<1>1. L.head[l] = NULL => \A m \in Nodes : at[m] # l
  BY NoHeadNoElement
<1>2. h # NULL => h \in Nodes /\ at[h] = l /\ L.prev[h] = NULL /\ h # n
  BY DEF Chained, EndsLinked, Links
<1>3. ElementLinked(M, at2, age2, n)
  BY <1>1, <1>2 DEF ElementLinked, PushHead, Links, Chained, EndsLinked
<1>4. ASSUME NEW m \in Nodes, at2[m] # NULL, m # n
      PROVE  ElementLinked(M, at2, age2, m)
  <2>1. at[m] # NULL /\ ElementLinked(L, at, age, m)
    BY <1>4 DEF Chained
  <2>2. CASE h = NULL
    BY <1>1, <1>4, <2>1, <2>2 DEF ElementLinked, PushHead, Links
  <2>3. CASE h # NULL
    <3>1. CASE m = h
      BY <1>2, <1>4, <2>1, <2>3, <3>1 DEF ElementLinked, PushHead, Links
    <3>2. CASE m # h
      BY <1>2, <1>4, <2>1, <2>3, <3>2 DEF ElementLinked, PushHead, Links
    <3> QED
      BY <3>1, <3>2
  <2> QED
    BY <2>2, <2>3
<1>5. ASSUME NEW k \in Lists PROVE EndsLinked(M, at2, k)
  <2>1. EndsLinked(L, at, k)
    BY DEF Chained
  <2>2. \A m \in Nodes : at[m] = k => m # n
    OBVIOUS
  <2> QED
    BY <1>2, <2>1, <2>2 DEF EndsLinked, PushHead, Links
<1> QED
  BY <1>3, <1>4, <1>5 DEF Chained

(* Unlinking an element keeps the lists well formed without it. *)
LEMMA UnlinkChained ==
  ASSUME NEW Nodes, NEW Lists, NULL \notin Nodes, NULL \notin Lists,
         NEW L \in Links(Nodes, Lists), NEW age \in [Nodes -> Nat],
         NEW at \in [Nodes -> Lists \cup {NULL}],
         Chained(L, Nodes, Lists, at, age),
         NEW n \in Nodes, NEW l \in Lists, at[n] = l
  PROVE  Chained(Unlink(L, n, l), Nodes, Lists, [at EXCEPT ![n] = NULL], age)
<1> DEFINE M   == Unlink(L, n, l)
           at2 == [at EXCEPT ![n] = NULL]
           p   == L.prev[n]
           x   == L.next[n]
<1>1. ElementLinked(L, at, age, n)
  BY DEF Chained
<1>2. /\ p # NULL => p \in Nodes /\ p # n /\ at[p] = l
      /\ x # NULL => x \in Nodes /\ x # n /\ at[x] = l
  BY <1>1 DEF ElementLinked, Links
<1>3. p # NULL /\ x # NULL => p # x /\ age[p] > age[x]
  BY <1>1, <1>2 DEF ElementLinked
<1>4. ASSUME NEW m \in Nodes, at2[m] # NULL
      PROVE  ElementLinked(M, at2, age, m)
  <2>1. m # n /\ at2[m] = at[m] /\ ElementLinked(L, at, age, m)
    BY <1>4 DEF Chained
  <2>2. L.prev[m] = n <=> m = x
    BY <1>1, <2>1, <1>2 DEF ElementLinked, Links
  <2>3. L.next[m] = n <=> m = p
    BY <1>1, <2>1, <1>2 DEF ElementLinked, Links
  <2>4. IF M.prev[m] = NULL
          THEN M.head[at2[m]] = m
          ELSE at2[M.prev[m]] = at2[m] /\ M.next[M.prev[m]] = m /\ age[M.prev[m]] > age[m]
    <3>1. CASE m = x
      BY <1>1, <1>2, <1>3, <2>1, <2>2, <3>1 DEF ElementLinked, Unlink, Links
    <3>2. CASE m # x
      BY <1>1, <1>2, <2>1, <2>2, <3>2 DEF ElementLinked, Unlink, Links
    <3> QED
      BY <3>1, <3>2
  <2>5. IF M.next[m] = NULL
          THEN M.tail[at2[m]] = m
          ELSE at2[M.next[m]] = at2[m] /\ M.prev[M.next[m]] = m /\ age[m] > age[M.next[m]]
    <3>1. CASE m = p
      BY <1>1, <1>2, <1>3, <2>1, <2>3, <3>1 DEF ElementLinked, Unlink, Links
    <3>2. CASE m # p
      BY <1>1, <1>2, <2>1, <2>3, <3>2 DEF ElementLinked, Unlink, Links
    <3> QED
      BY <3>1, <3>2
  <2> QED
    BY <2>4, <2>5 DEF ElementLinked
<1>5. ASSUME NEW k \in Lists PROVE EndsLinked(M, at2, k)
  <2>1. EndsLinked(L, at, k) /\ EndsLinked(L, at, l)
    BY DEF Chained
  <2> QED
    BY <1>1, <1>2, <2>1 DEF EndsLinked, ElementLinked, Unlink, Links
<1> QED
  BY <1>4, <1>5 DEF Chained

(* Only the ends of the lists and the fields of their elements matter. *)
LEMMA ChainedSame ==
  ASSUME NEW Nodes, NEW Lists, NULL \notin Nodes, NULL \notin Lists,
         NEW L \in Links(Nodes, Lists), NEW M \in Links(Nodes, Lists),
         NEW at \in [Nodes -> Lists \cup {NULL}], NEW age, NEW age2,
         Chained(L, Nodes, Lists, at, age),
         M.head = L.head, M.tail = L.tail,
         \A n \in Nodes : at[n] # NULL =>
             M.prev[n] = L.prev[n] /\ M.next[n] = L.next[n] /\ age2[n] = age[n]
  PROVE  Chained(M, Nodes, Lists, at, age2)
<1>1. ASSUME NEW n \in Nodes, at[n] # NULL PROVE ElementLinked(M, at, age2, n)
  BY <1>1 DEF Chained, ElementLinked, Links
<1>2. ASSUME NEW l \in Lists PROVE EndsLinked(M, at, l)
  <2>1. EndsLinked(L, at, l)
    BY DEF Chained
  <2> QED
    BY <2>1 DEF EndsLinked, Links
<1> QED
  BY <1>1, <1>2 DEF Chained
=============================================================================
