----------------------------- MODULE FenwickTree -----------------------------
(***************************************************************************)
(* fenwick.hpp's FenwickTree<N>: partial sums of an array of N volumes,    *)
(* kept in a binary indexed tree, with the two searches by binary lifting  *)
(* that give the order book its best bid and ask.  The book instantiates   *)
(* it with N = 100000, which is no power of two; here N is chosen at the   *)
(* start, so that one run checks every size up to MaxN.                    *)
(*                                                                         *)
(* Sums are int64_t in the program and never near that bound, so they are  *)
(* plain integers here.                                                    *)
(***************************************************************************)
EXTENDS Integers, FiniteSetsExt

CONSTANTS
  MaxN,              (* bound on the template parameter N                    *)
  MaxVolume          (* bound on the volume of one position                  *)

ASSUME FenwickAssumption == MaxN \in Nat \ {0} /\ MaxVolume \in Nat

VARIABLES
  N,
  tree,              (* tree[1 .. N], 1-indexed                              *)
  values             (* history: the array the tree stands for               *)

FTvars == <<N, tree, values>>

(* idx & (-idx), the lowest set bit of a positive idx. *)
Lsb[idx \in Nat \ {0}] == IF idx % 2 = 1 THEN 1 ELSE 2 * Lsb[idx \div 2]

(* Mutation: never reaches the last entry. *)
MutAbove(n, idx) ==
  LET up[j \in 1 .. n] ==
        {j} \cup (IF j + Lsb[j] < n THEN up[j + Lsb[j]] ELSE {})
  IN  up[idx]

(* The entries update() adds to, from the 1-indexed idx upwards. *)
Above(n, idx) ==
  LET up[j \in 1 .. n] ==
        {j} \cup (IF j + Lsb[j] <= n THEN up[j + Lsb[j]] ELSE {})
  IN  up[idx]

FTInit ==
  /\ N \in 1 .. MaxN
  /\ tree = [j \in 1 .. N |-> 0]
  /\ values = [i \in 0 .. N - 1 |-> 0]

Update(idx, delta) ==
  /\ idx < N
  /\ values[idx] + delta \in 0 .. MaxVolume
  /\ tree' = [j \in 1 .. N |-> IF j \in Above(N, idx + 1) THEN tree[j] + delta ELSE tree[j]]
  /\ values' = [values EXCEPT ![idx] = @ + delta]
  /\ UNCHANGED N

UpdateIgnored(idx) ==
  /\ idx >= N
  /\ UNCHANGED FTvars

FTNext ==
  \E idx \in 0 .. MaxN :
    UpdateIgnored(idx) \/ \E delta \in -MaxVolume .. MaxVolume : Update(idx, delta)

FTSpec == FTInit /\ [][FTNext]_FTvars

-----------------------------------------------------------------------------
(* The queries *)

prefix_sum(idx) ==
  LET sum[j \in 0 .. N] == IF j = 0 THEN 0 ELSE tree[j] + sum[j - Lsb[j]]
  IN  sum[IF idx >= N THEN N ELSE idx + 1]

range_sum(left, right) ==
  IF left > right THEN 0
  ELSE IF left = 0 THEN prefix_sum(right)
  ELSE prefix_sum(right) - prefix_sum(left - 1)

point_query(idx) == range_sum(idx, idx)

highest_bit ==
  LET doubled[pw \in 1 .. N] == IF pw * 2 <= N THEN doubled[pw * 2] ELSE pw
  IN  doubled[1]

(* Mutation: also steps over entries that hold all that is sought. *)
MutLift(sum) ==
  LET after[pw \in 1 .. highest_bit] ==
        LET s  == IF pw * 2 > highest_bit THEN [pos |-> 0, remaining |-> sum] ELSE after[pw * 2]
            to == s.pos + pw
        IN  IF to <= N /\ tree[to] <= s.remaining
              THEN [pos |-> to, remaining |-> s.remaining - tree[to]]
              ELSE s
  IN  after[1].pos

(* Binary lifting: how many positions from the start hold less than sum,     *)
(* found one power of two at a time, from highest_bit down to 1.             *)
Lift(sum) ==
  LET after[pw \in 1 .. highest_bit] ==   (* once pw has been tried         *)
        LET s  == IF pw * 2 > highest_bit THEN [pos |-> 0, remaining |-> sum] ELSE after[pw * 2]
            to == s.pos + pw
        IN  IF to <= N /\ tree[to] < s.remaining
              THEN [pos |-> to, remaining |-> s.remaining - tree[to]]
              ELSE s
  IN  after[1].pos

find_last_nonzero ==
  LET total == prefix_sum(N - 1)
  IN  IF total <= 0 THEN N ELSE Lift(total)

find_first_nonzero == IF prefix_sum(N - 1) <= 0 THEN N ELSE Lift(1)

-----------------------------------------------------------------------------
(* Properties *)

Total(left, right) ==
  MapThenSumSet(LAMBDA i : values[i], {i \in 0 .. N - 1 : left <= i /\ i <= right})

(* Every range sum the tree answers is the sum of the volumes in the range,  *)
(* ranges that reach past the end of the array included.                     *)
RangesExact ==
  /\ \A left, right \in 0 .. MaxN : range_sum(left, right) = Total(left, right)
  /\ \A idx \in 0 .. N - 1 : point_query(idx) = values[idx]

(* The searches find the ends of the positions that hold volume, and N when  *)
(* none does, for sizes that are no power of two as well.                    *)
SearchesExact ==
  LET held == {i \in 0 .. N - 1 : values[i] # 0}
  IN  IF held = {}
        THEN find_last_nonzero = N /\ find_first_nonzero = N
        ELSE find_last_nonzero = Max(held) /\ find_first_nonzero = Min(held)
=============================================================================
