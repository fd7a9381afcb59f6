-------------------------- MODULE ReceiveLoopProofs -------------------------
(***************************************************************************)
(* The receive loop, for any number of frames, ring and batch size: frames *)
(* are conserved, packets stay intact until they are handled, in order and *)
(* once, and resources are given back in the order they depend on.         *)
(***************************************************************************)
EXTENDS ReceiveLoop, FiniteSetTheorems, SequenceTheorems, TLAPS

-----------------------------------------------------------------------------
(* Sequences in which nothing occurs twice                                   *)

(* Appending a sequence adds its elements. *)
LEMMA ConcatToSet ==
  ASSUME NEW S, NEW s \in Seq(S), NEW t \in Seq(S)
  PROVE  ToSet(s \o t) = ToSet(s) \cup ToSet(t)
<1> DEFINE st == s \o t
<1>1. /\ Len(s) \in Nat /\ Len(t) \in Nat
      /\ DOMAIN s = 1 .. Len(s) /\ DOMAIN t = 1 .. Len(t)
      /\ DOMAIN st = 1 .. Len(s) + Len(t)
  BY ConcatProperties, LenProperties
<1>2. \A k \in DOMAIN st : st[k] = IF k <= Len(s) THEN s[k] ELSE t[k - Len(s)]
  BY <1>1, ConcatProperties
<1> HIDE DEF st
<1>3. ASSUME NEW e \in ToSet(st) PROVE e \in ToSet(s) \cup ToSet(t)
  BY <1>1, <1>2 DEF ToSet
<1>4. ASSUME NEW k \in DOMAIN s PROVE s[k] \in ToSet(st)
  <2>1. k \in DOMAIN st /\ st[k] = s[k]
    BY <1>1, <1>2
  <2> QED BY <2>1 DEF ToSet
<1>5. ASSUME NEW k \in DOMAIN t PROVE t[k] \in ToSet(st)
  <2>1. k + Len(s) \in DOMAIN st /\ st[k + Len(s)] = t[k]
    BY <1>1, <1>2
  <2> QED BY <2>1 DEF ToSet
<1>6. ASSUME NEW e \in ToSet(s) \cup ToSet(t) PROVE e \in ToSet(st)
  BY <1>4, <1>5 DEF ToSet
<1> QED BY <1>3, <1>6 DEF st

(* A concatenation repeats nothing if its parts do not and share nothing. *)
LEMMA ConcatInjective ==
  ASSUME NEW S, NEW s \in Seq(S), NEW t \in Seq(S)
  PROVE  IsInjective(s \o t)
           <=> IsInjective(s) /\ IsInjective(t) /\ ToSet(s) \cap ToSet(t) = {}
<1> DEFINE st == s \o t
<1>1. /\ Len(s) \in Nat /\ Len(t) \in Nat
      /\ DOMAIN s = 1 .. Len(s) /\ DOMAIN t = 1 .. Len(t)
      /\ DOMAIN st = 1 .. Len(s) + Len(t)
  BY ConcatProperties, LenProperties
<1>2. \A k \in DOMAIN st : st[k] = IF k <= Len(s) THEN s[k] ELSE t[k - Len(s)]
  BY <1>1, ConcatProperties
<1> HIDE DEF st
<1>3. ASSUME NEW k \in DOMAIN s PROVE k \in DOMAIN st /\ st[k] = s[k]
  BY <1>1, <1>2
<1>4. ASSUME NEW k \in DOMAIN t
      PROVE  k + Len(s) \in DOMAIN st /\ st[k + Len(s)] = t[k]
  BY <1>1, <1>2
<1>5. ASSUME IsInjective(st)
      PROVE  IsInjective(s) /\ IsInjective(t) /\ ToSet(s) \cap ToSet(t) = {}
  <2>1. IsInjective(s)
    BY <1>3, <1>5 DEF IsInjective
  <2>2. ASSUME NEW a \in DOMAIN t, NEW b \in DOMAIN t, t[a] = t[b] PROVE a = b
    <3>1. a + Len(s) = b + Len(s)
      BY <1>4, <1>5, <2>2 DEF IsInjective
    <3> QED BY <3>1, <1>1
  <2>3. ASSUME NEW a \in DOMAIN s, NEW b \in DOMAIN t, s[a] = t[b] PROVE FALSE
    <3>1. a = b + Len(s)
      BY <1>3, <1>4, <1>5, <2>3 DEF IsInjective
    <3> QED BY <3>1, <1>1
  <2> QED BY <2>1, <2>2, <2>3 DEF IsInjective, ToSet
<1>6. ASSUME IsInjective(s), IsInjective(t), ToSet(s) \cap ToSet(t) = {},
             NEW a \in DOMAIN st, NEW b \in DOMAIN st, st[a] = st[b]
      PROVE  a = b
  <2>0. a \in Int /\ b \in Int
    BY <1>1
  <2>1. \A k \in DOMAIN st :
          /\ k <= Len(s) => k \in DOMAIN s /\ st[k] = s[k]
          /\ ~(k <= Len(s)) => k - Len(s) \in DOMAIN t /\ st[k] = t[k - Len(s)]
    BY <1>1, <1>2
  <2>2. \A k \in DOMAIN s : \A m \in DOMAIN t : s[k] # t[m]
    BY <1>6 DEF ToSet
  <2>3. CASE a <= Len(s) /\ b <= Len(s)
    <3>1. a \in DOMAIN s /\ b \in DOMAIN s /\ s[a] = s[b]
      BY <1>6, <2>1, <2>3
    <3> QED BY <3>1, <1>6 DEF IsInjective
  <2>4. CASE ~(a <= Len(s)) /\ ~(b <= Len(s))
    <3>1. /\ a - Len(s) \in DOMAIN t /\ b - Len(s) \in DOMAIN t
          /\ t[a - Len(s)] = t[b - Len(s)]
      BY <1>6, <2>1, <2>4
    <3>2. a - Len(s) = b - Len(s)
      BY <1>6, <3>1 DEF IsInjective
    <3> QED BY <3>2, <2>0, <1>1
  <2>5. CASE a <= Len(s) /\ ~(b <= Len(s))
    BY <1>6, <2>1, <2>2, <2>5
  <2>6. CASE ~(a <= Len(s)) /\ b <= Len(s)
    BY <1>6, <2>1, <2>2, <2>6
  <2> QED BY <2>3, <2>4, <2>5, <2>6
<1> QED BY <1>5, <1>6 DEF IsInjective, st

(* No and one element. *)
LEMMA ShortSequences ==
  ASSUME NEW S, NEW e \in S
  PROVE  /\ <<>> \in Seq(S) /\ IsInjective(<<>>) /\ ToSet(<<>>) = {} /\ Len(<<>>) = 0
         /\ <<e>> \in Seq(S) /\ IsInjective(<<e>>) /\ ToSet(<<e>>) = {e} /\ Len(<<e>>) = 1
BY DEF IsInjective, ToSet

(* A sequence is its first element and the rest. *)
LEMMA HeadAndTail ==
  ASSUME NEW S, NEW s \in Seq(S), s # <<>>
  PROVE  s = <<Head(s)>> \o Tail(s)
OBVIOUS

-----------------------------------------------------------------------------
(* Frames on their way round                                                 *)

(* The same frames, in other places. *)
Rearranged(s, t) ==
  /\ IsInjective(s) <=> IsInjective(t)
  /\ ToSet(s) = ToSet(t)
  /\ Len(s) = Len(t)

(* w holds what s, t, u and v hold, each once if they do and are apart.      *)
Places(s, t, u, v, w) ==
  /\ Len(w) = Len(s) + Len(t) + Len(u) + Len(v)
  /\ ToSet(w) = ToSet(s) \cup ToSet(t) \cup ToSet(u) \cup ToSet(v)
  /\ IsInjective(w) <=>
       /\ IsInjective(s) /\ IsInjective(t) /\ IsInjective(u) /\ IsInjective(v)
       /\ ToSet(s) \cap ToSet(t) = {} /\ ToSet(s) \cap ToSet(u) = {}
       /\ ToSet(s) \cap ToSet(v) = {} /\ ToSet(t) \cap ToSet(u) = {}
       /\ ToSet(t) \cap ToSet(v) = {} /\ ToSet(u) \cap ToSet(v) = {}

(* What is true of the four places that frames can be in. *)
LEMMA FourPlaces ==
  ASSUME NEW S, NEW s \in Seq(S), NEW t \in Seq(S), NEW u \in Seq(S), NEW v \in Seq(S)
  PROVE  Places(s, t, u, v, s \o t \o u \o v)
<1> DEFINE st == s \o t
           stu == st \o u
<1>1. st \in Seq(S) /\ stu \in Seq(S) /\ stu \o v \in Seq(S)
  BY ConcatProperties
<1>2. /\ Len(st) = Len(s) + Len(t)
      /\ ToSet(st) = ToSet(s) \cup ToSet(t)
      /\ IsInjective(st) <=> IsInjective(s) /\ IsInjective(t) /\ ToSet(s) \cap ToSet(t) = {}
  BY ConcatProperties, ConcatToSet, ConcatInjective
<1> HIDE DEF st
<1>3. /\ Len(stu) = Len(st) + Len(u)
      /\ ToSet(stu) = ToSet(st) \cup ToSet(u)
      /\ IsInjective(stu) <=> IsInjective(st) /\ IsInjective(u) /\ ToSet(st) \cap ToSet(u) = {}
  BY <1>1, ConcatProperties, ConcatToSet, ConcatInjective
<1> HIDE DEF stu
<1>4. /\ Len(stu \o v) = Len(stu) + Len(v)
      /\ ToSet(stu \o v) = ToSet(stu) \cup ToSet(v)
      /\ IsInjective(stu \o v) <=> IsInjective(stu) /\ IsInjective(v) /\ ToSet(stu) \cap ToSet(v) = {}
  BY <1>1, ConcatProperties, ConcatToSet, ConcatInjective
<1>5. /\ Len(stu \o v) = Len(s) + Len(t) + Len(u) + Len(v)
      /\ ToSet(stu \o v) = ToSet(s) \cup ToSet(t) \cup ToSet(u) \cup ToSet(v)
  BY <1>2, <1>3, <1>4
<1>6. IsInjective(stu \o v) <=>
        /\ IsInjective(s) /\ IsInjective(t) /\ IsInjective(u) /\ IsInjective(v)
        /\ ToSet(s) \cap ToSet(t) = {} /\ ToSet(s) \cap ToSet(u) = {}
        /\ ToSet(s) \cap ToSet(v) = {} /\ ToSet(t) \cap ToSet(u) = {}
        /\ ToSet(t) \cap ToSet(v) = {} /\ ToSet(u) \cap ToSet(v) = {}
  BY <1>2, <1>3, <1>4
<1> QED BY <1>5, <1>6 DEF st, stu, Places

(* The kernel takes a frame off the fill ring. *)
LEMMA Taken ==
  ASSUME NEW S, NEW f \in Seq(S), NEW r \in Seq(S), NEW v \in Seq(S), f # <<>>
  PROVE  Rearranged(f \o <<>> \o r \o v, Tail(f) \o <<Head(f)>> \o r \o v)
<1> DEFINE h == <<Head(f)>>
           t == Tail(f)
           none == <<>>
<1>1. Head(f) \in S /\ t \in Seq(S)
  BY HeadTailProperties
<1>2. /\ none \in Seq(S) /\ IsInjective(none) /\ ToSet(none) = {} /\ Len(none) = 0
      /\ h \in Seq(S)
  BY <1>1, ShortSequences
<1>3. f = h \o t
  BY HeadAndTail
<1> HIDE DEF h, t, none
<1>4. /\ Len(f) = Len(h) + Len(t)
      /\ ToSet(f) = ToSet(h) \cup ToSet(t)
      /\ IsInjective(f) <=> IsInjective(h) /\ IsInjective(t) /\ ToSet(h) \cap ToSet(t) = {}
  BY <1>1, <1>2, <1>3, ConcatProperties, ConcatToSet, ConcatInjective
<1> DEFINE before == f \o none \o r \o v
           after == t \o h \o r \o v
<1>5. Places(f, none, r, v, before)
  BY <1>2, FourPlaces, Zenon
<1>6. Places(t, h, r, v, after)
  BY <1>1, <1>2, FourPlaces, Zenon
<1> HIDE DEF before, after
<1>7. Len(before) = Len(after) /\ ToSet(before) = ToSet(after)
  <2>1. \A w \in Seq(S) : Len(w) \in Nat
    BY LenProperties
  <2>2. Len(before) = Len(after)
    BY <2>1, <1>1, <1>2, <1>4, <1>5, <1>6 DEF Places
  <2>3. ToSet(before) = ToSet(after)
    BY <1>1, <1>2, <1>4, <1>5, <1>6 DEF Places
  <2> QED BY <2>2, <2>3
<1>8. IsInjective(before) <=> IsInjective(after)
  BY <1>2, <1>4, <1>5, <1>6 DEF Places
<1>9. Rearranged(before, after)
  BY <1>7, <1>8 DEF Rearranged
<1> QED BY <1>9, Zenon DEF before, after, h, t, none

(* The kernel puts the frame on the rx ring. *)
LEMMA Published ==
  ASSUME NEW S, NEW f \in Seq(S), NEW r \in Seq(S), NEW v \in Seq(S), NEW e \in S
  PROVE  Rearranged(f \o <<e>> \o r \o v, f \o <<>> \o Append(r, e) \o v)
<1> DEFINE k == <<e>>
           re == Append(r, e)
           none == <<>>
<1>1. /\ none \in Seq(S) /\ IsInjective(none) /\ ToSet(none) = {} /\ Len(none) = 0
      /\ k \in Seq(S)
  BY ShortSequences
<1>2. re = r \o k /\ re \in Seq(S)
  BY AppendIsConcat, AppendProperties
<1> HIDE DEF k, re, none
<1>3. /\ Len(re) = Len(r) + Len(k)
      /\ ToSet(re) = ToSet(r) \cup ToSet(k)
      /\ IsInjective(re) <=> IsInjective(r) /\ IsInjective(k) /\ ToSet(r) \cap ToSet(k) = {}
  BY <1>1, <1>2, ConcatProperties, ConcatToSet, ConcatInjective
<1> DEFINE before == f \o k \o r \o v
           after == f \o none \o re \o v
<1>4. Places(f, k, r, v, before)
  BY <1>1, FourPlaces, Zenon
<1>5. Places(f, none, re, v, after)
  BY <1>1, <1>2, FourPlaces, Zenon
<1> HIDE DEF before, after
<1>6. Len(before) = Len(after) /\ ToSet(before) = ToSet(after)
  <2>1. \A w \in Seq(S) : Len(w) \in Nat
    BY LenProperties
  <2>2. Len(before) = Len(after)
    BY <2>1, <1>1, <1>3, <1>4, <1>5 DEF Places
  <2>3. ToSet(before) = ToSet(after)
    BY <1>1, <1>3, <1>4, <1>5 DEF Places
  <2> QED BY <2>2, <2>3
<1>7. IsInjective(before) <=> IsInjective(after)
  BY <1>1, <1>3, <1>4, <1>5 DEF Places
<1>8. Rearranged(before, after)
  BY <1>6, <1>7 DEF Rearranged
<1> QED BY <1>8, Zenon DEF before, after, k, re, none

(* The loop releases a batch, whose frames it has saved. *)
LEMMA Released ==
  ASSUME NEW S, NEW f \in Seq(S), NEW k \in Seq(S), NEW r \in Seq(S), NEW n \in 0 .. Len(r)
  PROVE  Rearranged(f \o k \o r \o <<>>, f \o k \o SubSeq(r, n + 1, Len(r)) \o SubSeq(r, 1, n))
<1> DEFINE a == SubSeq(r, 1, n)
           b == SubSeq(r, n + 1, Len(r))
           none == <<>>
<1>0. Len(r) \in Nat /\ \A m \in 1 .. Len(r) : r[m] \in S
  BY LenProperties, ElementOfSeq
<1>1. a \in Seq(S) /\ b \in Seq(S)
  BY <1>0, SubSeqProperties
<1>2. r = a \o b
  <2>1. SubSeq(r, 1, Len(r)) = a \o b
    <3>1. 1 \in 1 .. Len(r) + 1 /\ n \in 1 - 1 .. Len(r) /\ Len(r) \in n .. Len(r)
      BY <1>0
    <3> QED BY <3>1, ConcatAdjacentSubSeq, Zenon
  <2> QED BY <2>1, SubSeqFull
<1>3. none \in Seq(S) /\ IsInjective(none) /\ ToSet(none) = {} /\ Len(none) = 0
  BY EmptySeq DEF IsInjective, ToSet
<1> HIDE DEF a, b, none
<1>4. /\ Len(r) = Len(a) + Len(b)
      /\ ToSet(r) = ToSet(a) \cup ToSet(b)
      /\ IsInjective(r) <=> IsInjective(a) /\ IsInjective(b) /\ ToSet(a) \cap ToSet(b) = {}
  BY <1>1, <1>2, ConcatProperties, ConcatToSet, ConcatInjective
<1> DEFINE before == f \o k \o r \o none
           after == f \o k \o b \o a
<1>5. Places(f, k, r, none, before)
  BY <1>3, FourPlaces, Zenon
<1>6. Places(f, k, b, a, after)
  BY <1>1, FourPlaces, Zenon
<1> HIDE DEF before, after
<1>7. Len(before) = Len(after) /\ ToSet(before) = ToSet(after)
  <2>1. \A w \in Seq(S) : Len(w) \in Nat
    BY LenProperties
  <2>2. Len(before) = Len(after)
    BY <2>1, <1>1, <1>3, <1>4, <1>5, <1>6 DEF Places
  <2>3. ToSet(before) = ToSet(after)
    BY <1>1, <1>3, <1>4, <1>5, <1>6 DEF Places
  <2> QED BY <2>2, <2>3
<1>8. IsInjective(before) <=> IsInjective(after)
  BY <1>3, <1>4, <1>5, <1>6 DEF Places
<1>9. Rearranged(before, after)
  BY <1>7, <1>8 DEF Rearranged
<1> QED BY <1>9, Zenon DEF before, after, a, b, none

(* The loop puts the saved frames on the fill ring. *)
LEMMA Replenished ==
  ASSUME NEW S, NEW f \in Seq(S), NEW k \in Seq(S), NEW r \in Seq(S), NEW v \in Seq(S)
  PROVE  Rearranged(f \o k \o r \o v, (f \o v) \o k \o r \o <<>>)
<1> DEFINE fv == f \o v
           none == <<>>
<1>1. fv \in Seq(S)
  BY ConcatProperties
<1>2. /\ Len(fv) = Len(f) + Len(v)
      /\ ToSet(fv) = ToSet(f) \cup ToSet(v)
      /\ IsInjective(fv) <=> IsInjective(f) /\ IsInjective(v) /\ ToSet(f) \cap ToSet(v) = {}
  BY ConcatProperties, ConcatToSet, ConcatInjective
<1>3. none \in Seq(S) /\ IsInjective(none) /\ ToSet(none) = {} /\ Len(none) = 0
  BY EmptySeq DEF IsInjective, ToSet
<1> HIDE DEF fv, none
<1> DEFINE before == f \o k \o r \o v
           after == fv \o k \o r \o none
<1>4. Places(f, k, r, v, before)
  BY FourPlaces, Zenon
<1>5. Places(fv, k, r, none, after)
  BY <1>1, <1>3, FourPlaces, Zenon
<1> HIDE DEF before, after
<1>6. Len(before) = Len(after) /\ ToSet(before) = ToSet(after)
  <2>1. \A w \in Seq(S) : Len(w) \in Nat
    BY LenProperties
  <2>2. Len(before) = Len(after)
    BY <2>1, <1>1, <1>2, <1>3, <1>4, <1>5 DEF Places
  <2>3. ToSet(before) = ToSet(after)
    BY <1>1, <1>2, <1>3, <1>4, <1>5 DEF Places
  <2> QED BY <2>2, <2>3
<1>7. IsInjective(before) <=> IsInjective(after)
  BY <1>3, <1>2, <1>4, <1>5 DEF Places
<1>8. Rearranged(before, after)
  BY <1>6, <1>7 DEF Rearranged
<1> QED BY <1>8, Zenon DEF before, after, fv, none

-----------------------------------------------------------------------------
(* The inductive invariant                                                   *)

InUse == NUM_FRAMES \div 2

(* What main() holds at each stage. *)
HeldByStage ==
  /\ xsks_map => "xsk" \in held
  /\ filling # NONE => "xsk" \in held
  /\ "xsk" \in held => "umem" \in held
  /\ "umem" \in held => "buffer" \in held
  /\ pc = "load" => held = {}
  /\ pc = "socket" => "umem" \in held
  /\ pc = "map" => "xsk" \in held
  /\ pc = "delete_xsk" => "prog" \notin held
  /\ pc = "delete_umem" => held \subseteq {"buffer", "umem"}
  /\ pc = "free_buffer" => held \subseteq {"buffer"}
  /\ pc = "exit" => held = {}

(* Where the frames are. *)
Untouched == fill_ring = <<>> /\ rx_ring = <<>> /\ filling = NONE

Circulation ==
  /\ IsInjective(Circulating)
  /\ \/ /\ Untouched
        /\ pc \notin {"while", "peek", "poll", "for", "replenish"}
     \/ /\ Len(Circulating) = InUse
        /\ ToSet(Circulating) = 0 .. InUse - 1
        /\ pc \notin {"load", "umem", "socket", "map", "populate"}

(* The batch under way. *)
BatchUnderWay ==
  /\ pc = "for" => /\ rcvd <= Len(rx_ring)
                   /\ i <= rcvd + 1
                   /\ \A k \in 1 .. i - 1 : addrs[k] = rx_ring[k]
  /\ pc = "replenish" => \A k \in 1 .. rcvd : addrs[k] \in Frames

(* The packets in the frames. *)
PacketsInPlace ==
  /\ filling # NONE => umem[filling] \in Packets
  /\ Len(rx_ring) <= Len(accepted)
  /\ \A k \in 1 .. Len(rx_ring) : umem[rx_ring[k]] = accepted[Len(accepted) - Len(rx_ring) + k]
  /\ Len(handled) = Len(accepted) - Len(rx_ring) + (IF pc = "for" THEN i - 1 ELSE 0)

IInv ==
  /\ TypeOK
  /\ HeldByStage
  /\ Circulation
  /\ BatchUnderWay
  /\ PacketsInPlace

(* Steps that touch neither rings nor frames nor the batch. *)
SettingUp == {"load", "umem", "socket", "map", "populate"}
Looping == {"while", "peek", "poll", "for", "replenish"}

Quiet ==
  /\ UNCHANGED <<fill_ring, rx_ring, umem, filling, rcvd, i, addrs, accepted, handled>>
  /\ \/ pc' = pc
     \/ /\ {pc, pc'} \cap {"for", "replenish"} = {}
        /\ pc' \in Looping => pc \in Looping
        /\ pc' \in SettingUp => pc \in SettingUp

LEMMA SomeFrames == InUse \in Nat /\ InUse <= NUM_FRAMES /\ 0 .. InUse - 1 \subseteq Frames
BY RingAssumption DEF InUse, Frames

(* The kernel's part of the frames, as a sequence.                           *)
LEMMA FramesInPlace ==
  ASSUME TypeOK, BatchUnderWay
  PROVE  /\ InKernel \in Seq(Frames) /\ Len(InKernel) = (IF filling = NONE THEN 0 ELSE 1)
         /\ Saved \in Seq(Frames) /\ Len(Saved) = (IF pc = "replenish" THEN rcvd ELSE 0)
         /\ Len(Circulating) = Len(fill_ring) + Len(InKernel) + Len(rx_ring) + Len(Saved)
         /\ Places(fill_ring, InKernel, rx_ring, Saved, Circulating)
<1>1. /\ fill_ring \in Seq(Frames) /\ rx_ring \in Seq(Frames)
      /\ filling \in Frames \cup {NONE} /\ rcvd \in 0 .. BATCH_SIZE
      /\ BATCH_SIZE \in Nat /\ addrs \in [1 .. BATCH_SIZE -> Frames \cup {NONE}]
  BY RingAssumption DEF TypeOK, Batch
<1>2. InKernel \in Seq(Frames) /\ Len(InKernel) = (IF filling = NONE THEN 0 ELSE 1)
  <2>1. CASE filling = NONE
    BY <2>1, EmptySeq DEF InKernel
  <2>2. CASE filling # NONE
    <3>1. filling \in Frames
      BY <1>1, <2>2
    <3> QED BY <3>1, <2>2, ShortSequences DEF InKernel
  <2> QED BY <2>1, <2>2
<1>3. Saved \in Seq(Frames) /\ Len(Saved) = (IF pc = "replenish" THEN rcvd ELSE 0)
  <2>1. CASE pc = "replenish"
    <3>1. \A k \in 1 .. rcvd : addrs[k] \in Frames
      BY <2>1 DEF BatchUnderWay
    <3>2. /\ SubSeq(addrs, 1, rcvd) \in Seq(Frames)
          /\ Len(SubSeq(addrs, 1, rcvd)) = IF 1 <= rcvd THEN rcvd - 1 + 1 ELSE 0
      BY <3>1, <1>1, SubSeqProperties
    <3> QED BY <1>1, <2>1, <3>2 DEF Saved
  <2>2. CASE pc # "replenish"
    BY <2>2, EmptySeq DEF Saved
  <2> QED BY <2>1, <2>2
<1>4. Places(fill_ring, InKernel, rx_ring, Saved, Circulating)
  BY <1>1, <1>2, <1>3, FourPlaces, Zenon DEF Circulating
<1> QED BY <1>2, <1>3, <1>4 DEF Places

(* Rearranged frames are the same frames, each once.                         *)
LEMMA StillCirculating ==
  ASSUME NEW s, NEW t, Rearranged(s, t), IsInjective(s)
  PROVE  /\ IsInjective(t) /\ Len(t) = Len(s) /\ ToSet(t) = ToSet(s)
BY DEF Rearranged

LEMMA InitIInv == Init => IInv
<1> SUFFICES ASSUME Init PROVE IInv
  OBVIOUS
<1>1. TypeOK
  <2>1. /\ fill_ring \in Seq(Frames) /\ rx_ring \in Seq(Frames)
        /\ accepted \in Seq(Packets) /\ handled \in Seq(Packets)
    BY EmptySeq DEF Init
  <2>2. /\ rcvd \in 0 .. BATCH_SIZE /\ i \in 1 .. BATCH_SIZE + 1 /\ offered \in 0 .. MAX_PACKETS
        /\ total_received \in Nat /\ total_packets \in Nat /\ parse_failures \in Nat
        /\ total_adds \in Nat /\ total_trades \in Nat
    BY RingAssumption DEF Init
  <2>3. umem \in [Frames -> Packets \cup {NONE}] /\ addrs \in [Batch -> Frames \cup {NONE}]
    BY DEF Init
  <2>4. /\ pc \in Stages /\ g_running \in BOOLEAN /\ xsks_map \in BOOLEAN
        /\ held \subseteq {"prog", "buffer", "umem", "xsk"} /\ filling \in Frames \cup {NONE}
    BY DEF Init, Stages
  <2> QED BY <2>1, <2>2, <2>3, <2>4 DEF TypeOK
<1>2. HeldByStage /\ BatchUnderWay /\ PacketsInPlace
  BY RingAssumption DEF Init, HeldByStage, BatchUnderWay, PacketsInPlace
<1>3. Circulation
  <2>1. Circulating = <<>> /\ Untouched /\ pc = "load"
    BY DEF Init, Circulating, InKernel, Saved, Untouched
  <2> QED BY <2>1 DEF Circulation, IsInjective
<1> QED BY <1>1, <1>2, <1>3 DEF IInv

LEMMA QuietKeeps ==
  ASSUME IInv, Quiet
  PROVE  Circulation' /\ BatchUnderWay' /\ PacketsInPlace'
<1>0. UNCHANGED <<fill_ring, rx_ring, umem, filling, rcvd, i, addrs, accepted, handled>>
  BY DEF Quiet
<1>1. Circulating' = Circulating
  <2>1. Saved' = Saved
    BY <1>0 DEF Saved, Quiet
  <2>2. InKernel' = InKernel
    BY <1>0 DEF InKernel
  <2> QED BY <1>0, <2>1, <2>2 DEF Circulating
<1>2. Circulation'
  <2>1. IsInjective(Circulating')
    BY <1>1 DEF IInv, Circulation
  <2>2. CASE Untouched /\ pc \notin Looping
    <3>1. Untouched' /\ pc' \notin Looping
      BY <2>2, <1>0 DEF Untouched, Quiet
    <3> QED BY <2>1, <3>1 DEF Circulation, Looping
  <2>3. CASE /\ Len(Circulating) = InUse
             /\ ToSet(Circulating) = 0 .. InUse - 1
             /\ pc \notin SettingUp
    <3>1. /\ Len(Circulating') = InUse
          /\ ToSet(Circulating') = 0 .. InUse - 1
          /\ pc' \notin SettingUp
      BY <2>3, <1>1 DEF Quiet
    <3> QED BY <2>1, <3>1 DEF Circulation, SettingUp
  <2> QED BY <2>2, <2>3 DEF IInv, Circulation, SettingUp, Looping
<1>3. BatchUnderWay'
  BY <1>0 DEF IInv, BatchUnderWay, Quiet
<1>4. PacketsInPlace'
  BY <1>0 DEF IInv, PacketsInPlace, Quiet
<1> QED BY <1>2, <1>3, <1>4

(* The actions that are quiet. *)
LEMMA QuietSteps ==
  ASSUME \/ LoadXdpProgram \/ LoadFails \/ InitUmem \/ InitUmemFails
         \/ InitXskSocket \/ InitXskSocketFails \/ UpdateXskMap \/ UpdateXskMapFails
         \/ While \/ Poll \/ Cleanup \/ SignalHandler \/ KernelDrops
  PROVE  Quiet
<1>1. CASE LoadXdpProgram \/ LoadFails \/ InitUmem \/ InitUmemFails
  BY <1>1 DEF LoadXdpProgram, LoadFails, InitUmem, InitUmemFails, Acquire, Fail, Quiet,
              rings, locals, history, SettingUp, Looping
<1>2. CASE InitXskSocket \/ InitXskSocketFails \/ UpdateXskMap \/ UpdateXskMapFails
  BY <1>2 DEF InitXskSocket, InitXskSocketFails, UpdateXskMap, UpdateXskMapFails, Acquire, Fail,
              Quiet, rings, locals, history, SettingUp, Looping
<1>3. CASE While \/ Poll
  BY <1>3 DEF While, Poll, Quiet, rings, locals, history, SettingUp, Looping
<1>4. CASE Cleanup
  BY <1>4 DEF Cleanup, DetachProgram, DeleteSocket, DeleteUmem, FreeBuffer, Free, Quiet,
              rings, locals, history, SettingUp, Looping
<1>5. CASE SignalHandler \/ KernelDrops
  BY <1>5 DEF SignalHandler, KernelDrops, Quiet, rings, locals, history
<1> QED BY <1>1, <1>2, <1>3, <1>4, <1>5

LEMMA QuietTypes ==
  ASSUME TypeOK,
         \/ LoadXdpProgram \/ LoadFails \/ InitUmem \/ InitUmemFails
         \/ InitXskSocket \/ InitXskSocketFails \/ UpdateXskMap \/ UpdateXskMapFails
         \/ While \/ Poll \/ Cleanup \/ SignalHandler \/ KernelDrops
  PROVE  TypeOK'
<1> USE DEF TypeOK, Stages, rings, locals, stats, history, setup
<1>1. CASE LoadXdpProgram \/ LoadFails \/ InitUmem \/ InitUmemFails
  BY <1>1 DEF LoadXdpProgram, LoadFails, InitUmem, InitUmemFails, Acquire, Fail
<1>2. CASE InitXskSocket \/ InitXskSocketFails \/ UpdateXskMap \/ UpdateXskMapFails
  BY <1>2 DEF InitXskSocket, InitXskSocketFails, UpdateXskMap, UpdateXskMapFails, Acquire, Fail
<1>3. CASE While \/ Poll
  BY <1>3 DEF While, Poll
<1>4. CASE Cleanup
  BY <1>4 DEF Cleanup, DetachProgram, DeleteSocket, DeleteUmem, FreeBuffer, Free
<1>5. CASE SignalHandler
  BY <1>5 DEF SignalHandler
<1>6. CASE KernelDrops
  <2>1. offered' \in 0 .. MAX_PACKETS
    BY <1>6, RingAssumption DEF KernelDrops, Redirecting
  <2> QED BY <1>6, <2>1 DEF KernelDrops
<1> QED BY <1>1, <1>2, <1>3, <1>4, <1>5, <1>6

LEMMA QuietHeld ==
  ASSUME TypeOK, HeldByStage,
         \/ LoadXdpProgram \/ LoadFails \/ InitUmem \/ InitUmemFails
         \/ InitXskSocket \/ InitXskSocketFails \/ UpdateXskMap \/ UpdateXskMapFails
         \/ While \/ Poll \/ Cleanup \/ SignalHandler \/ KernelDrops
  PROVE  HeldByStage'
<1> USE DEF TypeOK, HeldByStage, setup
<1>1. CASE LoadXdpProgram \/ LoadFails \/ InitUmem \/ InitUmemFails
  BY <1>1 DEF LoadXdpProgram, LoadFails, InitUmem, InitUmemFails, Acquire, Fail
<1>2. CASE InitXskSocket \/ InitXskSocketFails \/ UpdateXskMap \/ UpdateXskMapFails
  BY <1>2 DEF InitXskSocket, InitXskSocketFails, UpdateXskMap, UpdateXskMapFails, Acquire, Fail
<1>3. CASE While \/ Poll
  BY <1>3 DEF While, Poll
<1>4. CASE Cleanup
  <2>1. CASE DetachProgram
    BY <2>1 DEF DetachProgram, Free
  <2>2. CASE DeleteSocket
    BY <2>2 DEF DeleteSocket
  <2>3. CASE DeleteUmem
    BY <2>3 DEF DeleteUmem, Free
  <2>4. CASE FreeBuffer
    BY <2>4 DEF FreeBuffer, Free
  <2> QED BY <1>4, <2>1, <2>2, <2>3, <2>4 DEF Cleanup
<1>5. CASE SignalHandler \/ KernelDrops
  <2>1. UNCHANGED <<pc, held, xsks_map, filling>>
    BY <1>5 DEF SignalHandler, KernelDrops
  <2> QED BY <2>1
<1> QED BY <1>1, <1>2, <1>3, <1>4, <1>5

-----------------------------------------------------------------------------
(* The steps that move frames and packets                                    *)

LEMMA PopulateStep ==
  ASSUME IInv, PopulateFillRing PROVE IInv'
<1> DEFINE new == [k \in 1 .. InUse |-> k - 1]
<1>0. TypeOK /\ HeldByStage /\ Circulation
  BY DEF IInv
<1>1. /\ pc = "populate" /\ pc' = "while"
      /\ fill_ring = <<>> /\ rx_ring = <<>> /\ filling = NONE
  BY <1>0 DEF Circulation, Untouched, PopulateFillRing
<1>2. Reserve(NUM_FRAMES \div 2) = InUse
  BY <1>1, RingAssumption, EmptySeq, SomeFrames DEF Reserve, InUse
<1>3. new \in Seq(Frames) /\ Len(new) = InUse
  BY SomeFrames
<1>4. fill_ring' = new
  <2>1. fill_ring' = fill_ring \o new
    BY <1>2 DEF PopulateFillRing
  <2> QED BY <2>1, <1>1, <1>3, ConcatEmptySeq
<1>5. UNCHANGED <<g_running, held, xsks_map, rx_ring, umem, filling, rcvd, i, addrs,
                  total_received, total_packets, parse_failures, total_adds, total_trades,
                  offered, accepted, handled>>
  BY DEF PopulateFillRing, setup, locals, stats, history
<1>6. TypeOK'
  BY <1>0, <1>1, <1>3, <1>4, <1>5 DEF TypeOK, Stages
<1>7. HeldByStage'
  BY <1>0, <1>1, <1>5 DEF HeldByStage
<1>8. BatchUnderWay'
  BY <1>1 DEF BatchUnderWay
<1>9. Circulation'
  <2>1. Circulating' = new
    <3>1. /\ fill_ring' = new /\ InKernel' = <<>> /\ rx_ring' = <<>> /\ Saved' = <<>>
      BY <1>1, <1>4, <1>5 DEF InKernel, Saved
    <3>2. new \o <<>> = new
      BY <1>3, ConcatEmptySeq
    <3> QED BY <3>1, <3>2 DEF Circulating
  <2>2. IsInjective(new)
    BY SomeFrames DEF IsInjective
  <2>3. ToSet(new) = 0 .. InUse - 1
    <3>1. ASSUME NEW f \in 0 .. InUse - 1 PROVE f \in ToSet(new)
      <4>1. f + 1 \in 1 .. InUse /\ new[f + 1] = f
        BY SomeFrames
      <4> QED BY <4>1 DEF ToSet
    <3>2. ToSet(new) \subseteq 0 .. InUse - 1
      BY SomeFrames DEF ToSet
    <3> QED BY <3>1, <3>2
  <2> HIDE DEF new
  <2> QED BY <2>1, <2>2, <2>3, <1>1, <1>3 DEF Circulation
<1>10. PacketsInPlace'
  BY <1>1, <1>5 DEF IInv, PacketsInPlace
<1> QED BY <1>6, <1>7, <1>8, <1>9, <1>10 DEF IInv

LEMMA PeekStep ==
  ASSUME IInv, Peek PROVE IInv'
<1>0. TypeOK /\ HeldByStage /\ Circulation /\ PacketsInPlace
  BY DEF IInv
<1>1. /\ pc = "peek" /\ pc' \in {"for", "poll"} /\ i' = 1
      /\ rcvd' = IF Len(rx_ring) < BATCH_SIZE THEN Len(rx_ring) ELSE BATCH_SIZE
      /\ total_received' = total_received + rcvd'
      /\ UNCHANGED <<g_running, held, xsks_map, fill_ring, rx_ring, umem, filling, addrs,
                     offered, accepted, handled>>
      /\ UNCHANGED <<total_packets, parse_failures, total_adds, total_trades>>
  BY DEF Peek, setup, rings, history
<1>2. Len(rx_ring) \in Nat /\ BATCH_SIZE \in Nat \ {0}
  BY <1>0, LenProperties, RingAssumption DEF TypeOK
<1>3. rcvd' \in 0 .. BATCH_SIZE /\ rcvd' <= Len(rx_ring)
  BY <1>1, <1>2
<1>4. TypeOK'
  <2>1. i' \in 1 .. BATCH_SIZE + 1
    BY <1>1, <1>2
  <2>2. total_received' \in Nat
    <3>1. total_received \in Nat /\ rcvd' \in Nat
      BY <1>0, <1>2, <1>3 DEF TypeOK
    <3> QED BY <3>1, <1>1
  <2> QED BY <1>0, <1>1, <1>3, <2>1, <2>2 DEF TypeOK, Stages
<1>5. HeldByStage'
  BY <1>0, <1>1 DEF HeldByStage
<1>6. BatchUnderWay'
  BY <1>1, <1>2, <1>3 DEF BatchUnderWay
<1>7. Circulation'
  <2>1. Circulating' = Circulating
    BY <1>1 DEF Circulating, Saved, InKernel
  <2> QED BY <2>1, <1>0, <1>1 DEF Circulation, Untouched
<1>8. PacketsInPlace'
  <2>1. Len(handled) = Len(accepted) - Len(rx_ring) + 0
    BY <1>0, <1>1 DEF PacketsInPlace
  <2>2. (IF pc' = "for" THEN i' - 1 ELSE 0) = 0
    BY <1>1
  <2> QED BY <2>1, <2>2, <1>0, <1>1 DEF PacketsInPlace
<1> QED BY <1>4, <1>5, <1>6, <1>7, <1>8 DEF IInv

(* What the loop reads from a frame it has peeked is the next packet.        *)
LEMMA NextPacket ==
  ASSUME IInv, HandlePacket
  PROVE  /\ Len(handled) + 1 \in 1 .. Len(accepted)
         /\ umem[rx_ring[i]] = accepted[Len(handled) + 1]
         /\ umem[rx_ring[i]] \in Packets
<1>1. /\ pc = "for" /\ i <= rcvd /\ rcvd <= Len(rx_ring) /\ i \in Nat \ {0} /\ rcvd \in Nat
      /\ Len(rx_ring) \in Nat /\ Len(accepted) \in Nat /\ Len(handled) \in Nat
  BY LenProperties, RingAssumption DEF IInv, TypeOK, BatchUnderWay, HandlePacket
<1>2. /\ Len(rx_ring) <= Len(accepted)
      /\ Len(handled) = Len(accepted) - Len(rx_ring) + (i - 1)
  BY <1>1 DEF IInv, PacketsInPlace
<1>3. umem[rx_ring[i]] = accepted[Len(accepted) - Len(rx_ring) + i]
  BY <1>1 DEF IInv, PacketsInPlace
<1>4. Len(handled) + 1 = Len(accepted) - Len(rx_ring) + i /\ Len(handled) + 1 \in 1 .. Len(accepted)
  BY <1>1, <1>2
<1>5. accepted[Len(handled) + 1] \in Packets
  BY <1>4, ElementOfSeq DEF IInv, TypeOK
<1> QED BY <1>3, <1>4, <1>5

LEMMA HandleStep ==
  ASSUME IInv, HandlePacket PROVE IInv'
<1> DEFINE packet == umem[rx_ring[i]]
<1>0. TypeOK /\ HeldByStage /\ Circulation /\ BatchUnderWay /\ PacketsInPlace
  BY DEF IInv
<1>1. /\ pc = "for" /\ i <= rcvd /\ i' = i + 1
      /\ addrs' = [addrs EXCEPT ![i] = rx_ring[i]]
      /\ handled' = Append(handled, packet)
      /\ Count(packet.kind)
      /\ UNCHANGED <<pc, g_running, held, xsks_map, fill_ring, rx_ring, umem, filling, rcvd,
                     offered, accepted>>
  BY DEF HandlePacket, setup, rings
<1>2. packet \in Packets
  BY NextPacket
<1>3. /\ i \in 1 .. BATCH_SIZE + 1 /\ rcvd \in 0 .. BATCH_SIZE /\ BATCH_SIZE \in Nat
      /\ addrs \in [1 .. BATCH_SIZE -> Frames \cup {NONE}]
      /\ Len(rx_ring) \in Nat /\ rcvd <= Len(rx_ring) /\ rx_ring \in Seq(Frames)
  BY <1>0, <1>1, LenProperties, RingAssumption DEF TypeOK, BatchUnderWay, Batch
<1>4. rx_ring[i] \in Frames
  BY <1>1, <1>3, ElementOfSeq
<1> HIDE DEF packet
<1>5. TypeOK'
  <2>1. i' \in 1 .. BATCH_SIZE + 1
    BY <1>1, <1>3
  <2>2. addrs' \in [Batch -> Frames \cup {NONE}]
    BY <1>1, <1>3, <1>4 DEF Batch
  <2>3. {total_received, total_packets, parse_failures, total_adds, total_trades}' \subseteq Nat
    <3>1. /\ total_received \in Nat /\ total_packets \in Nat /\ parse_failures \in Nat
          /\ total_adds \in Nat /\ total_trades \in Nat
      BY <1>0 DEF TypeOK
    <3>2. /\ total_received' = total_received
          /\ total_packets' \in {total_packets, total_packets + 1}
          /\ parse_failures' \in {parse_failures, parse_failures + 1}
          /\ total_adds' \in {total_adds, total_adds + 1}
          /\ total_trades' \in {total_trades, total_trades + 1}
      BY <1>1, <3>1 DEF Count
    <3> QED BY <3>1, <3>2
  <2>4. handled' \in Seq(Packets)
    BY <1>0, <1>1, <1>2, AppendProperties DEF TypeOK
  <2> QED BY <1>0, <1>1, <2>1, <2>2, <2>3, <2>4 DEF TypeOK
<1>6. HeldByStage'
  BY <1>0, <1>1 DEF HeldByStage
<1>7. BatchUnderWay'
  <2>1. i' <= rcvd' + 1 /\ rcvd' <= Len(rx_ring')
    BY <1>1, <1>3
  <2>2. ASSUME NEW k \in 1 .. i' - 1 PROVE addrs'[k] = rx_ring'[k]
    <3>1. CASE k = i
      BY <3>1, <1>1, <1>3
    <3>2. CASE k # i
      <4>1. k \in 1 .. i - 1 /\ k \in 1 .. BATCH_SIZE
        BY <3>2, <1>1, <1>3
      <4>2. addrs[k] = rx_ring[k]
        BY <4>1, <1>0, <1>1 DEF BatchUnderWay
      <4> QED BY <4>1, <4>2, <3>2, <1>1, <1>3
    <3> QED BY <3>1, <3>2
  <2> QED BY <1>1, <2>1, <2>2 DEF BatchUnderWay
<1>8. Circulation'
  <2>1. Circulating' = Circulating
    BY <1>1 DEF Circulating, Saved, InKernel
  <2> QED BY <2>1, <1>0, <1>1 DEF Circulation, Untouched
<1>9. PacketsInPlace'
  <2>1. Len(handled') = Len(handled) + 1
    BY <1>0, <1>1, <1>2, AppendProperties DEF TypeOK
  <2>2. Len(handled) = Len(accepted) - Len(rx_ring) + (i - 1)
    BY <1>0, <1>1 DEF PacketsInPlace
  <2>3. Len(accepted) \in Nat
    BY <1>0, LenProperties DEF TypeOK
  <2>4. Len(handled') = Len(accepted) - Len(rx_ring) + (i' - 1)
    BY <2>1, <2>2, <2>3, <1>1, <1>3
  <2> QED BY <2>4, <1>0, <1>1 DEF PacketsInPlace
<1> QED BY <1>5, <1>6, <1>7, <1>8, <1>9 DEF IInv

LEMMA ReleaseStep ==
  ASSUME IInv, Release PROVE IInv'
<1>0. TypeOK /\ HeldByStage /\ Circulation /\ BatchUnderWay /\ PacketsInPlace
  BY DEF IInv
<1>1. /\ pc = "for" /\ pc' = "replenish" /\ ~(i <= rcvd)
      /\ rx_ring' = SubSeq(rx_ring, rcvd + 1, Len(rx_ring))
      /\ UNCHANGED <<g_running, held, xsks_map, fill_ring, umem, filling, rcvd, i, addrs,
                     total_received, total_packets, parse_failures, total_adds, total_trades,
                     offered, accepted, handled>>
  BY <1>0, RingAssumption DEF Release, setup, locals, stats, history, TypeOK
<1>2. /\ rcvd \in 0 .. Len(rx_ring) /\ rcvd \in 0 .. BATCH_SIZE /\ i = rcvd + 1 /\ rcvd \in Nat
      /\ Len(rx_ring) \in Nat /\ BATCH_SIZE \in Nat /\ rx_ring \in Seq(Frames)
      /\ Len(accepted) \in Nat /\ Len(handled) \in Nat
  BY <1>0, <1>1, LenProperties, RingAssumption DEF TypeOK, BatchUnderWay
<1>3. /\ rx_ring' \in Seq(Frames) /\ Len(rx_ring') = Len(rx_ring) - rcvd
      /\ \A k \in 1 .. Len(rx_ring) - rcvd : rx_ring'[k] = rx_ring[rcvd + k]
  BY <1>1, <1>2
<1>4. TypeOK'
  BY <1>0, <1>1, <1>3 DEF TypeOK, Stages
<1>5. HeldByStage'
  BY <1>0, <1>1 DEF HeldByStage
<1>6. \A k \in 1 .. rcvd : addrs[k] = rx_ring[k] /\ addrs[k] \in Frames
  <2>1. \A k \in 1 .. rcvd : addrs[k] = rx_ring[k]
    BY <1>0, <1>1, <1>2 DEF BatchUnderWay
  <2>2. \A k \in 1 .. rcvd : rx_ring[k] \in Frames
    BY <1>2, ElementOfSeq
  <2> QED BY <2>1, <2>2
<1>7. BatchUnderWay'
  BY <1>1, <1>6 DEF BatchUnderWay
<1>8. Circulation'
  <2> DEFINE saved == SubSeq(rx_ring, 1, rcvd)
  <2>1. SubSeq(addrs, 1, rcvd) = saved
    <3>1. \A k \in 1 .. rcvd : rx_ring[k] \in Frames
      BY <1>6
    <3>2. /\ SubSeq(addrs, 1, rcvd) \in Seq(Frames)
          /\ Len(SubSeq(addrs, 1, rcvd)) = (IF 1 <= rcvd THEN rcvd - 1 + 1 ELSE 0)
          /\ \A k \in 1 .. rcvd - 1 + 1 : SubSeq(addrs, 1, rcvd)[k] = addrs[1 + k - 1]
      BY <1>2, <1>6, SubSeqProperties
    <3>3. /\ saved \in Seq(Frames)
          /\ Len(saved) = (IF 1 <= rcvd THEN rcvd - 1 + 1 ELSE 0)
          /\ \A k \in 1 .. rcvd - 1 + 1 : saved[k] = rx_ring[1 + k - 1]
      BY <1>2, <3>1, SubSeqProperties
    <3> DEFINE a == SubSeq(addrs, 1, rcvd)
    <3>4. Len(a) = rcvd /\ Len(saved) = rcvd
      BY <1>2, <3>2, <3>3
    <3>5. ASSUME NEW k \in 1 .. Len(a) PROVE a[k] = saved[k]
      <4>1. k \in 1 .. rcvd /\ k \in 1 .. rcvd - 1 + 1 /\ 1 + k - 1 = k
        BY <1>2, <3>4
      <4> QED BY <4>1, <3>2, <3>3, <1>6
    <3> QED BY <3>2, <3>3, <3>4, <3>5, SeqEqual
  <2>2. Circulating = fill_ring \o InKernel \o rx_ring \o <<>>
    BY <1>1 DEF Circulating, Saved
  <2>3. Circulating' = fill_ring \o InKernel \o SubSeq(rx_ring, rcvd + 1, Len(rx_ring)) \o saved
    BY <1>1, <2>1 DEF Circulating, Saved, InKernel
  <2>4. Rearranged(Circulating, Circulating')
    <3>1. InKernel \in Seq(Frames) /\ fill_ring \in Seq(Frames)
      BY <1>0, FramesInPlace DEF TypeOK
    <3> QED BY <3>1, <2>2, <2>3, <1>2, Released, Zenon
  <2>5. /\ IsInjective(Circulating) /\ Len(Circulating) = InUse
        /\ ToSet(Circulating) = 0 .. InUse - 1
    BY <1>0, <1>1 DEF Circulation
  <2>6. /\ IsInjective(Circulating') /\ Len(Circulating') = InUse
        /\ ToSet(Circulating') = 0 .. InUse - 1
    BY <2>4, <2>5, StillCirculating
  <2> QED BY <2>6, <1>1 DEF Circulation
<1>9. PacketsInPlace'
  <2>1. /\ Len(rx_ring) <= Len(accepted)
        /\ Len(handled) = Len(accepted) - Len(rx_ring) + (i - 1)
    BY <1>0, <1>1 DEF PacketsInPlace
  <2>2. Len(rx_ring') <= Len(accepted) /\ Len(handled) = Len(accepted) - Len(rx_ring') + 0
    BY <2>1, <1>2, <1>3
  <2>3. ASSUME NEW k \in 1 .. Len(rx_ring')
        PROVE  umem[rx_ring'[k]] = accepted[Len(accepted) - Len(rx_ring') + k]
    <3>1. /\ rcvd + k \in 1 .. Len(rx_ring) /\ k \in 1 .. Len(rx_ring) - rcvd
          /\ Len(accepted) - Len(rx_ring) + (rcvd + k) = Len(accepted) - Len(rx_ring') + k
      BY <1>2, <1>3
    <3>2. umem[rx_ring[rcvd + k]] = accepted[Len(accepted) - Len(rx_ring) + (rcvd + k)]
      BY <3>1, <1>0 DEF PacketsInPlace
    <3> QED BY <3>1, <3>2, <1>3
  <2> QED BY <2>2, <2>3, <1>0, <1>1 DEF PacketsInPlace
<1> QED BY <1>4, <1>5, <1>7, <1>8, <1>9 DEF IInv

LEMMA ReplenishStep ==
  ASSUME IInv, Replenish PROVE IInv'
<1>0. TypeOK /\ HeldByStage /\ Circulation /\ BatchUnderWay /\ PacketsInPlace
  BY DEF IInv
<1>1. /\ pc = "replenish" /\ pc' = "while"
      /\ fill_ring' = fill_ring \o [k \in 1 .. Reserve(rcvd) |-> addrs[k]]
      /\ UNCHANGED <<g_running, held, xsks_map, rx_ring, umem, filling, rcvd, i, addrs,
                     total_received, total_packets, parse_failures, total_adds, total_trades,
                     offered, accepted, handled>>
  BY DEF Replenish, setup, locals, stats, history
<1>2. /\ Saved = SubSeq(addrs, 1, rcvd) /\ Saved \in Seq(Frames) /\ Len(Saved) = rcvd
      /\ InKernel \in Seq(Frames) /\ Len(InKernel) \in Nat
      /\ Len(Circulating) = Len(fill_ring) + Len(InKernel) + Len(rx_ring) + Len(Saved)
      /\ fill_ring \in Seq(Frames) /\ rx_ring \in Seq(Frames)
      /\ Len(fill_ring) \in Nat /\ Len(rx_ring) \in Nat /\ rcvd \in Nat
  BY <1>0, <1>1, FramesInPlace, LenProperties, RingAssumption DEF Saved, TypeOK
<1>3. /\ IsInjective(Circulating) /\ Len(Circulating) = InUse
      /\ ToSet(Circulating) = 0 .. InUse - 1
  BY <1>0, <1>1 DEF Circulation
<1>4. Reserve(rcvd) = rcvd
  <2>1. Len(fill_ring) + rcvd <= InUse
    BY <1>2, <1>3
  <2>2. InUse <= FILL_RING_SIZE /\ FILL_RING_SIZE \in Nat /\ InUse \in Nat
    BY RingAssumption, SomeFrames DEF InUse
  <2> QED BY <2>1, <2>2, <1>2 DEF Reserve
<1>5. fill_ring' = fill_ring \o Saved
  <2>1. [k \in 1 .. rcvd |-> addrs[k]] = SubSeq(addrs, 1, rcvd)
    BY <1>2
  <2> QED BY <2>1, <1>1, <1>2, <1>4
<1>6. fill_ring' \in Seq(Frames)
  BY <1>5, <1>2, ConcatProperties
<1>7. TypeOK'
  BY <1>0, <1>1, <1>6 DEF TypeOK, Stages
<1>8. HeldByStage'
  BY <1>0, <1>1 DEF HeldByStage
<1>9. BatchUnderWay'
  BY <1>1 DEF BatchUnderWay
<1>10. Circulation'
  <2>1. Circulating' = (fill_ring \o Saved) \o InKernel \o rx_ring \o <<>>
    <3>1. Saved' = <<>> /\ InKernel' = InKernel
      BY <1>1 DEF Saved, InKernel
    <3> QED BY <3>1, <1>1, <1>5 DEF Circulating
  <2>2. Rearranged(Circulating, Circulating')
    BY <2>1, <1>2, Replenished, Zenon DEF Circulating
  <2>3. /\ IsInjective(Circulating') /\ Len(Circulating') = InUse
        /\ ToSet(Circulating') = 0 .. InUse - 1
    BY <2>2, <1>3, StillCirculating
  <2> QED BY <2>3, <1>1 DEF Circulation
<1>11. PacketsInPlace'
  BY <1>0, <1>1 DEF PacketsInPlace
<1> QED BY <1>7, <1>8, <1>9, <1>10, <1>11 DEF IInv

LEMMA CopyStep ==
  ASSUME IInv, NEW kind \in Kinds, KernelCopies(kind) PROVE IInv'
<1> DEFINE frame == Head(fill_ring)
           packet == [id |-> offered + 1, kind |-> kind]
<1>0. TypeOK /\ HeldByStage /\ Circulation /\ BatchUnderWay /\ PacketsInPlace
  BY DEF IInv
<1>1. /\ fill_ring # <<>> /\ filling = NONE /\ xsks_map /\ offered < MAX_PACKETS
      /\ fill_ring' = Tail(fill_ring)
      /\ filling' = frame
      /\ umem' = [umem EXCEPT ![frame] = packet]
      /\ offered' = offered + 1
      /\ UNCHANGED <<pc, g_running, held, xsks_map, rx_ring, rcvd, i, addrs,
                     total_received, total_packets, parse_failures, total_adds, total_trades,
                     accepted, handled>>
  BY DEF KernelCopies, Redirecting, setup, locals, stats
<1>2. /\ fill_ring \in Seq(Frames) /\ rx_ring \in Seq(Frames)
      /\ frame \in Frames /\ Tail(fill_ring) \in Seq(Frames)
      /\ Len(rx_ring) \in Nat
  BY <1>0, <1>1, HeadTailProperties, LenProperties DEF TypeOK
<1>3. frame # NONE
  BY <1>2, RingAssumption
<1>4. offered' \in 0 .. MAX_PACKETS /\ packet \in Packets
  BY <1>0, <1>1, RingAssumption DEF TypeOK, Packets
<1>5. Circulating = fill_ring \o <<>> \o rx_ring \o Saved
  BY <1>1 DEF Circulating, InKernel
<1>6. Circulating' = Tail(fill_ring) \o <<Head(fill_ring)>> \o rx_ring \o Saved
  BY <1>1, <1>3 DEF Circulating, InKernel, Saved
<1>7. Rearranged(Circulating, Circulating')
  <2>1. Saved \in Seq(Frames)
    BY <1>0, FramesInPlace
  <2> QED BY <2>1, <1>1, <1>2, <1>5, <1>6, Taken, Zenon
<1>8. \A k \in 1 .. Len(rx_ring) : rx_ring[k] # frame /\ rx_ring[k] \in Frames
  <2> DEFINE none == <<>>
  <2>1. none \in Seq(Frames) /\ Saved \in Seq(Frames)
    BY <1>0, FramesInPlace, EmptySeq
  <2>2. Places(fill_ring, none, rx_ring, Saved, Circulating)
    <3>1. Places(fill_ring, none, rx_ring, Saved, fill_ring \o none \o rx_ring \o Saved)
      <4> HIDE DEF none
      <4> QED BY <2>1, <1>2, FourPlaces, Zenon
    <3> QED BY <3>1, <1>5, Zenon
  <2>3. ToSet(fill_ring) \cap ToSet(rx_ring) = {}
    <3>1. IsInjective(Circulating)
      BY <1>0 DEF Circulation
    <3> HIDE DEF none
    <3> QED BY <2>2, <3>1 DEF Places
  <2>4. frame \in ToSet(fill_ring)
    <3>1. 1 \in DOMAIN fill_ring /\ fill_ring[1] = frame
      BY <1>1, <1>2
    <3> QED BY <3>1, Zenon DEF ToSet
  <2>5. ASSUME NEW k \in 1 .. Len(rx_ring) PROVE rx_ring[k] \in ToSet(rx_ring) /\ rx_ring[k] \in Frames
    BY <1>2, LenProperties, ElementOfSeq DEF ToSet
  <2> HIDE DEF none, frame
  <2> QED BY <2>3, <2>4, <2>5
<1> HIDE DEF frame, packet
<1>9. TypeOK'
  <2>1. umem' \in [Frames -> Packets \cup {NONE}]
    BY <1>0, <1>1, <1>2, <1>4 DEF TypeOK
  <2> QED BY <1>0, <1>1, <1>2, <1>4, <2>1 DEF TypeOK
<1>10. HeldByStage'
  BY <1>0, <1>1 DEF HeldByStage
<1>11. BatchUnderWay'
  BY <1>0, <1>1 DEF BatchUnderWay
<1>12. Circulation'
  <2>1. /\ IsInjective(Circulating) /\ ~Untouched
    BY <1>0, <1>1 DEF Circulation, Untouched
  <2>2. /\ Len(Circulating) = InUse /\ ToSet(Circulating) = 0 .. InUse - 1
        /\ pc \notin {"load", "umem", "socket", "map", "populate"}
    BY <2>1, <1>0 DEF Circulation
  <2>3. /\ IsInjective(Circulating') /\ Len(Circulating') = InUse
        /\ ToSet(Circulating') = 0 .. InUse - 1
    BY <1>7, <2>1, <2>2, StillCirculating
  <2> QED BY <2>2, <2>3, <1>1 DEF Circulation
<1>13. PacketsInPlace'
  <2>1. umem'[filling'] \in Packets
    BY <1>0, <1>1, <1>2, <1>4 DEF TypeOK
  <2>2. \A k \in 1 .. Len(rx_ring) : umem'[rx_ring[k]] = umem[rx_ring[k]]
    BY <1>0, <1>1, <1>8 DEF TypeOK
  <2>3. \A k \in 1 .. Len(rx_ring') :
          umem'[rx_ring'[k]] = accepted'[Len(accepted') - Len(rx_ring') + k]
    BY <2>2, <1>0, <1>1 DEF PacketsInPlace
  <2> QED BY <2>1, <2>3, <1>0, <1>1 DEF PacketsInPlace
<1> QED BY <1>9, <1>10, <1>11, <1>12, <1>13 DEF IInv

LEMMA PublishStep ==
  ASSUME IInv, KernelPublishes PROVE IInv'
<1> DEFINE packet == umem[filling]
<1>0. TypeOK /\ HeldByStage /\ Circulation /\ BatchUnderWay /\ PacketsInPlace
  BY DEF IInv
<1>1. /\ filling # NONE /\ filling' = NONE
      /\ rx_ring' = Append(rx_ring, filling)
      /\ accepted' = Append(accepted, packet)
      /\ UNCHANGED <<pc, g_running, held, xsks_map, fill_ring, umem, rcvd, i, addrs,
                     total_received, total_packets, parse_failures, total_adds, total_trades,
                     offered, handled>>
  BY DEF KernelPublishes, setup, locals, stats
<1>2. /\ filling \in Frames /\ packet \in Packets
      /\ fill_ring \in Seq(Frames) /\ rx_ring \in Seq(Frames) /\ accepted \in Seq(Packets)
      /\ Len(rx_ring) \in Nat /\ Len(accepted) \in Nat /\ Len(handled) \in Nat
      /\ rcvd \in Nat /\ i \in Nat
  BY <1>0, <1>1, LenProperties, RingAssumption DEF TypeOK, PacketsInPlace
<1> HIDE DEF packet
<1>3. /\ rx_ring' \in Seq(Frames) /\ Len(rx_ring') = Len(rx_ring) + 1
      /\ \A k \in 1 .. Len(rx_ring) : rx_ring'[k] = rx_ring[k]
      /\ rx_ring'[Len(rx_ring) + 1] = filling
  BY <1>1, <1>2, AppendProperties
<1>4. /\ accepted' \in Seq(Packets) /\ Len(accepted') = Len(accepted) + 1
      /\ \A k \in 1 .. Len(accepted) : accepted'[k] = accepted[k]
      /\ accepted'[Len(accepted) + 1] = packet
  BY <1>1, <1>2, AppendProperties
<1>5. TypeOK'
  BY <1>0, <1>1, <1>3, <1>4 DEF TypeOK
<1>6. HeldByStage'
  BY <1>0, <1>1 DEF HeldByStage
<1>7. BatchUnderWay'
  <2>1. pc' = "for" => rcvd <= Len(rx_ring') /\ i <= rcvd + 1
    BY <1>0, <1>1, <1>2, <1>3 DEF BatchUnderWay
  <2>2. ASSUME pc = "for", NEW k \in 1 .. i - 1 PROVE addrs[k] = rx_ring'[k]
    <3>1. k \in 1 .. Len(rx_ring)
      BY <2>2, <1>0, <1>2 DEF BatchUnderWay
    <3> QED BY <2>2, <3>1, <1>0, <1>3 DEF BatchUnderWay
  <2> QED BY <2>1, <2>2, <1>0, <1>1 DEF BatchUnderWay
<1>8. Circulation'
  <2>1. Circulating = fill_ring \o <<filling>> \o rx_ring \o Saved
    BY <1>1 DEF Circulating, InKernel
  <2>2. Circulating' = fill_ring \o <<>> \o Append(rx_ring, filling) \o Saved
    BY <1>1 DEF Circulating, InKernel, Saved
  <2>3. Rearranged(Circulating, Circulating')
    <3>1. Saved \in Seq(Frames)
      BY <1>0, FramesInPlace
    <3> QED BY <3>1, <2>1, <2>2, <1>2, Published, Zenon
  <2>4. /\ IsInjective(Circulating)
        /\ Len(Circulating) = InUse /\ ToSet(Circulating) = 0 .. InUse - 1
        /\ pc \notin {"load", "umem", "socket", "map", "populate"}
    BY <1>0, <1>1 DEF Circulation, Untouched
  <2>5. /\ IsInjective(Circulating') /\ Len(Circulating') = InUse
        /\ ToSet(Circulating') = 0 .. InUse - 1
    BY <2>3, <2>4, StillCirculating
  <2> QED BY <2>4, <2>5, <1>1 DEF Circulation
<1>9. PacketsInPlace'
  <2>1. Len(rx_ring') <= Len(accepted')
    BY <1>0, <1>2, <1>3, <1>4 DEF PacketsInPlace
  <2>2. Len(accepted') - Len(rx_ring') = Len(accepted) - Len(rx_ring)
    BY <1>2, <1>3, <1>4
  <2>3. Len(handled') = Len(accepted') - Len(rx_ring') + (IF pc' = "for" THEN i' - 1 ELSE 0)
    BY <2>2, <1>0, <1>1 DEF PacketsInPlace
  <2>4. ASSUME NEW k \in 1 .. Len(rx_ring')
        PROVE  umem'[rx_ring'[k]] = accepted'[Len(accepted') - Len(rx_ring') + k]
    <3>1. CASE k = Len(rx_ring) + 1
      <4>1. Len(accepted') - Len(rx_ring') + k = Len(accepted) + 1
        BY <3>1, <1>2, <1>3, <1>4
      <4>2. rx_ring'[k] = filling /\ umem' = umem
        BY <3>1, <1>1, <1>3
      <4> QED BY <4>1, <4>2, <1>4 DEF packet
    <3>2. CASE k # Len(rx_ring) + 1
      <4>1. k \in 1 .. Len(rx_ring)
        BY <3>2, <1>2, <1>3
      <4>2. umem[rx_ring[k]] = accepted[Len(accepted) - Len(rx_ring) + k]
        BY <4>1, <1>0 DEF PacketsInPlace
      <4>3. Len(accepted) - Len(rx_ring) + k \in 1 .. Len(accepted)
        BY <4>1, <1>0, <1>2 DEF PacketsInPlace
      <4>4. rx_ring'[k] = rx_ring[k] /\ umem' = umem
        BY <4>1, <1>1, <1>3
      <4> QED BY <4>2, <4>3, <4>4, <2>2, <1>4
    <3> QED BY <3>1, <3>2
  <2> QED BY <2>1, <2>3, <2>4, <1>1 DEF PacketsInPlace
<1> QED BY <1>5, <1>6, <1>7, <1>8, <1>9 DEF IInv

LEMMA QuietStep ==
  ASSUME IInv,
         \/ LoadXdpProgram \/ LoadFails \/ InitUmem \/ InitUmemFails
         \/ InitXskSocket \/ InitXskSocketFails \/ UpdateXskMap \/ UpdateXskMapFails
         \/ While \/ Poll \/ Cleanup \/ SignalHandler \/ KernelDrops
  PROVE  IInv'
<1>1. Quiet
  BY QuietSteps
<1>2. TypeOK'
  BY QuietTypes DEF IInv
<1>3. HeldByStage'
  BY QuietHeld DEF IInv
<1> QED BY <1>1, <1>2, <1>3, QuietKeeps DEF IInv

LEMMA StepIInv == IInv /\ [Next]_vars => IInv'
<1> SUFFICES ASSUME IInv, [Next]_vars PROVE IInv'
  OBVIOUS
<1>1. CASE \/ LoadXdpProgram \/ LoadFails \/ InitUmem \/ InitUmemFails
           \/ InitXskSocket \/ InitXskSocketFails \/ UpdateXskMap \/ UpdateXskMapFails
           \/ While \/ Poll \/ Cleanup \/ SignalHandler \/ KernelDrops
  BY <1>1, QuietStep
<1>2. CASE PopulateFillRing
  BY <1>2, PopulateStep
<1>3. CASE Peek
  BY <1>3, PeekStep
<1>4. CASE HandlePacket
  BY <1>4, HandleStep
<1>5. CASE Release
  BY <1>5, ReleaseStep
<1>6. CASE Replenish
  BY <1>6, ReplenishStep
<1>7. CASE \E kind \in Kinds : KernelCopies(kind)
  BY <1>7, CopyStep
<1>8. CASE KernelPublishes
  BY <1>8, PublishStep
<1>9. CASE UNCHANGED vars
  <2>1. /\ UNCHANGED <<pc, g_running, held, xsks_map, fill_ring, rx_ring, umem, filling>>
        /\ UNCHANGED <<rcvd, i, addrs, offered, accepted, handled>>
        /\ UNCHANGED <<total_received, total_packets, parse_failures, total_adds, total_trades>>
    BY <1>9 DEF vars, setup, rings, locals, stats, history
  <2>2. TypeOK'
    BY <2>1 DEF IInv, TypeOK
  <2>3. HeldByStage'
    BY <2>1 DEF IInv, HeldByStage
  <2>4. Circulation'
    BY <2>1 DEF IInv, Circulation, Circulating, Saved, InKernel, Untouched
  <2>5. BatchUnderWay'
    BY <2>1 DEF IInv, BatchUnderWay
  <2>6. PacketsInPlace'
    BY <2>1 DEF IInv, PacketsInPlace
  <2> QED BY <2>2, <2>3, <2>4, <2>5, <2>6 DEF IInv
<1> QED BY <1>1, <1>2, <1>3, <1>4, <1>5, <1>6, <1>7, <1>8, <1>9
        DEF Next, Setup, Loop, Kernel

-----------------------------------------------------------------------------
(* The statistics                                                            *)

LEMMA AmongAppend ==
  ASSUME NEW h \in Seq(Packets), NEW p \in Packets, NEW kinds
  PROVE  /\ Among(h, kinds) \in Nat
         /\ Among(Append(h, p), kinds) = Among(h, kinds) + (IF p.kind \in kinds THEN 1 ELSE 0)
<1> DEFINE hp == Append(h, p)
           A == {n \in 1 .. Len(h) : h[n].kind \in kinds}
           B == {n \in 1 .. Len(hp) : hp[n].kind \in kinds}
           last == Len(h) + 1
<1>1. /\ Len(h) \in Nat /\ Len(hp) = Len(h) + 1
      /\ \A n \in 1 .. Len(h) : hp[n] = h[n]
      /\ hp[last] = p
  BY AppendProperties, LenProperties
<1> HIDE DEF hp
<1>2. IsFiniteSet(A) /\ last \notin A
  <2>1. IsFiniteSet(1 .. Len(h))
    BY <1>1, FS_Interval
  <2>2. A \subseteq 1 .. Len(h)
    OBVIOUS
  <2>3. last \notin 1 .. Len(h)
    BY <1>1
  <2> QED BY <2>1, <2>2, <2>3, FS_Subset
<1>3. B = IF p.kind \in kinds THEN A \cup {last} ELSE A
  <2>1. \A n : n \in 1 .. Len(hp) <=> (n \in 1 .. Len(h) \/ n = last)
    BY <1>1
  <2>2. last \notin 1 .. Len(h)
    BY <1>1
  <2> HIDE DEF last
  <2> QED BY <1>1, <2>1, <2>2
<1> HIDE DEF A, B, last
<1>4. Cardinality(A) \in Nat
  BY <1>2, FS_CardinalityType
<1>5. Cardinality(B) = Cardinality(A) + (IF p.kind \in kinds THEN 1 ELSE 0)
  <2>1. CASE p.kind \in kinds
    <3>1. Cardinality(A \cup {last}) = Cardinality(A) + 1
      BY <1>2, FS_AddElement
    <3> QED BY <2>1, <3>1, <1>3
  <2>2. CASE p.kind \notin kinds
    BY <2>2, <1>3, <1>4
  <2> QED BY <2>1, <2>2
<1> QED BY <1>4, <1>5 DEF Among, A, B, hp

LEMMA InitStats == Init => StatsAddUp
<1> SUFFICES ASSUME Init PROVE StatsAddUp
  OBVIOUS
<1>1. handled = <<>> /\ Len(handled) = 0
  BY DEF Init
<1>2. ASSUME NEW kinds PROVE Among(handled, kinds) = 0
  <2>1. {n \in 1 .. Len(handled) : handled[n].kind \in kinds} = {}
    BY <1>1
  <2> QED BY <2>1, FS_EmptySet DEF Among
<1>3. /\ Among(handled, {"unparsed"}) <= parse_failures
      /\ total_adds = Among(handled, {"A"}) /\ total_trades = Among(handled, {"T"})
  BY <1>2 DEF Init
<1>4. /\ total_received = Len(handled) + (IF pc = "for" THEN rcvd - (i - 1) ELSE 0)
      /\ total_packets + parse_failures = Len(handled)
  BY <1>1 DEF Init
<1> QED BY <1>3, <1>4 DEF StatsAddUp

(* Packets are counted when they are handled, received ones when they are    *)
(* peeked: no other step changes what StatsAddUp is about.                   *)
Uncounted ==
  /\ UNCHANGED <<stats, handled, i, rcvd>>
  /\ pc' = "for" <=> pc = "for"

LEMMA UncountedSteps ==
  ASSUME \/ LoadXdpProgram \/ LoadFails \/ InitUmem \/ InitUmemFails
         \/ InitXskSocket \/ InitXskSocketFails \/ UpdateXskMap \/ UpdateXskMapFails
         \/ PopulateFillRing \/ While \/ Poll \/ Replenish \/ Cleanup
         \/ Kernel \/ SignalHandler \/ UNCHANGED vars
  PROVE  Uncounted
<1> USE DEF Uncounted, setup, locals, history, rings
<1>1. CASE LoadXdpProgram \/ LoadFails \/ InitUmem \/ InitUmemFails
  BY <1>1 DEF LoadXdpProgram, LoadFails, InitUmem, InitUmemFails, Acquire, Fail
<1>2. CASE InitXskSocket \/ InitXskSocketFails \/ UpdateXskMap \/ UpdateXskMapFails
  BY <1>2 DEF InitXskSocket, InitXskSocketFails, UpdateXskMap, UpdateXskMapFails, Acquire, Fail
<1>3. CASE PopulateFillRing \/ While \/ Poll \/ Replenish
  BY <1>3 DEF PopulateFillRing, While, Poll, Replenish
<1>4. CASE Cleanup
  BY <1>4 DEF Cleanup, DetachProgram, DeleteSocket, DeleteUmem, FreeBuffer, Free
<1>5. CASE Kernel
  BY <1>5 DEF Kernel, KernelCopies, KernelDrops, KernelPublishes
<1>6. CASE SignalHandler \/ UNCHANGED vars
  BY <1>6 DEF SignalHandler, vars
<1> QED BY <1>1, <1>2, <1>3, <1>4, <1>5, <1>6

LEMMA StepStats == IInv /\ StatsAddUp /\ [Next]_vars => StatsAddUp'
<1> SUFFICES ASSUME IInv, StatsAddUp, [Next]_vars PROVE StatsAddUp'
  OBVIOUS
<1>0. /\ Len(handled) \in Nat /\ handled \in Seq(Packets) /\ i \in Nat /\ rcvd \in Nat
      /\ total_received \in Nat /\ total_packets \in Nat /\ parse_failures \in Nat
      /\ total_adds \in Nat /\ total_trades \in Nat
  <2>1. /\ handled \in Seq(Packets) /\ i \in 1 .. BATCH_SIZE + 1 /\ rcvd \in 0 .. BATCH_SIZE
        /\ total_received \in Nat /\ total_packets \in Nat /\ parse_failures \in Nat
        /\ total_adds \in Nat /\ total_trades \in Nat
    BY DEF IInv, TypeOK
  <2>2. i \in Nat /\ rcvd \in Nat
    BY <2>1, RingAssumption
  <2> QED BY <2>1, <2>2, LenProperties
<1>1. CASE Uncounted
  BY <1>1 DEF Uncounted, StatsAddUp, stats
<1>2. CASE Peek
  <2>1. /\ pc = "peek" /\ i' = 1 /\ total_received' = total_received + rcvd'
        /\ pc' = IF rcvd' = 0 THEN "poll" ELSE "for"
        /\ UNCHANGED <<total_packets, parse_failures, total_adds, total_trades, handled>>
    BY <1>2 DEF Peek, history
  <2>2. rcvd' \in Nat
    BY <1>0, <1>2, PeekStep, RingAssumption DEF IInv, TypeOK
  <2>3. total_received = Len(handled)
    BY <1>0, <2>1 DEF StatsAddUp
  <2>4. total_received' = Len(handled) + (IF pc' = "for" THEN rcvd' - (i' - 1) ELSE 0)
    BY <1>0, <2>1, <2>2, <2>3
  <2> QED BY <2>1, <2>4 DEF StatsAddUp
<1>3. CASE Release
  <2>1. /\ pc = "for" /\ pc' = "replenish" /\ UNCHANGED <<stats, handled>>
    BY <1>3 DEF Release, history
  <2>2. i - 1 = rcvd
    BY <1>0, <1>3 DEF Release, IInv, BatchUnderWay
  <2>3. total_received = Len(handled)
    BY <1>0, <2>1, <2>2 DEF StatsAddUp
  <2>4. /\ pc' # "for" /\ handled' = handled
        /\ UNCHANGED <<total_received, total_packets, parse_failures, total_adds, total_trades>>
    BY <2>1 DEF stats
  <2>5. (total_received = Len(handled) + (IF pc = "for" THEN rcvd - (i - 1) ELSE 0))'
    BY <1>0, <2>3, <2>4
  <2> QED BY <2>4, <2>5 DEF StatsAddUp
<1>4. CASE HandlePacket
  <2> DEFINE packet == umem[rx_ring[i]]
             kind == packet.kind
  <2>1. packet \in Packets
    BY <1>4, NextPacket
  <2>2. /\ pc = "for" /\ pc' = pc /\ i' = i + 1 /\ rcvd' = rcvd
        /\ handled' = Append(handled, packet) /\ Count(kind)
    BY <1>4 DEF HandlePacket
  <2> HIDE DEF packet
  <2>3. Len(handled') = Len(handled) + 1
    BY <1>0, <2>1, <2>2, AppendProperties
  <2>4. ASSUME NEW kinds
        PROVE  Among(handled', kinds) = Among(handled, kinds) + (IF kind \in kinds THEN 1 ELSE 0)
    BY <1>0, <2>1, <2>2, AmongAppend
  <2> HIDE DEF kind
  <2> DEFINE failed == kind \in {"unparsed", "unrouted"}
  <2>5. /\ parse_failures' = parse_failures + (IF failed THEN 1 ELSE 0)
        /\ total_packets' = total_packets + (IF failed THEN 0 ELSE 1)
        /\ total_adds' = total_adds + (IF kind = "A" THEN 1 ELSE 0)
        /\ total_trades' = total_trades + (IF kind = "T" THEN 1 ELSE 0)
        /\ total_received' = total_received
    BY <2>2 DEF Count
  <2>6. total_received' = Len(handled') + (IF pc' = "for" THEN rcvd' - (i' - 1) ELSE 0)
    BY <1>0, <2>2, <2>3, <2>5 DEF StatsAddUp
  <2>7. total_packets' + parse_failures' = Len(handled')
    <3>1. total_packets + parse_failures = Len(handled)
      BY DEF StatsAddUp
    <3>2. CASE failed
      <4>1. parse_failures' = parse_failures + 1 /\ total_packets' = total_packets + 0
        BY <3>2, <2>5
      <4> QED BY <4>1, <3>1, <2>3, <1>0
    <3>3. CASE ~failed
      <4>1. parse_failures' = parse_failures + 0 /\ total_packets' = total_packets + 1
        BY <3>3, <2>5
      <4> QED BY <4>1, <3>1, <2>3, <1>0
    <3> QED BY <3>2, <3>3
  <2>8. Among(handled', {"unparsed"}) <= parse_failures'
    <3>1. Among(handled, {"unparsed"}) \in Nat /\ Among(handled, {"unparsed"}) <= parse_failures
      BY <1>0, <2>1, AmongAppend DEF StatsAddUp
    <3>2. CASE kind = "unparsed"
      BY <1>0, <2>4, <2>5, <3>1, <3>2
    <3>3. CASE kind # "unparsed"
      <4>1. Among(handled', {"unparsed"}) = Among(handled, {"unparsed"})
        BY <2>4, <3>1, <3>3
      <4>2. parse_failures' >= parse_failures
        BY <1>0, <2>5
      <4> QED BY <1>0, <2>5, <3>1, <4>1, <4>2
    <3> QED BY <3>2, <3>3
  <2>9. total_adds' = Among(handled', {"A"}) /\ total_trades' = Among(handled', {"T"})
    BY <2>4, <2>5 DEF StatsAddUp
  <2> QED BY <2>6, <2>7, <2>8, <2>9 DEF StatsAddUp
<1> QED BY <1>1, <1>2, <1>3, <1>4, UncountedSteps DEF Next, Setup, Loop

-----------------------------------------------------------------------------
(* The theorems                                                              *)

(* IInv is inductive. *)
THEOREM Inductive == Spec => []IInv
<1> QED BY InitIInv, StepIInv, PTL DEF Spec

(* How many frames there are where.                                          *)
LEMMA FramesCounted ==
  ASSUME IInv
  PROVE  /\ Len(fill_ring) \in Nat /\ Len(rx_ring) \in Nat /\ InUse \in Nat
         /\ InUse <= FILL_RING_SIZE /\ InUse <= RING_SIZE
         /\ FILL_RING_SIZE \in Nat /\ RING_SIZE \in Nat
         /\ Len(fill_ring) + Len(rx_ring) <= InUse
         /\ filling # NONE => Len(fill_ring) + Len(rx_ring) < InUse
<1>1. /\ Len(Circulating) = Len(fill_ring) + Len(InKernel) + Len(rx_ring) + Len(Saved)
      /\ Len(InKernel) = (IF filling = NONE THEN 0 ELSE 1)
      /\ Len(Saved) = (IF pc = "replenish" THEN rcvd ELSE 0)
      /\ Len(fill_ring) \in Nat /\ Len(rx_ring) \in Nat /\ rcvd \in Nat
  BY FramesInPlace, LenProperties, RingAssumption DEF IInv, TypeOK
<1>2. /\ InUse \in Nat /\ FILL_RING_SIZE \in Nat /\ RING_SIZE \in Nat
      /\ InUse <= FILL_RING_SIZE /\ InUse <= RING_SIZE
  BY SomeFrames, RingAssumption DEF InUse
<1> DEFINE inFill == Len(fill_ring)
           inKernel == Len(InKernel)
           inRx == Len(rx_ring)
           saved == Len(Saved)
<1>3. CASE Untouched
  <2>1. inFill = 0 /\ inRx = 0 /\ filling = NONE
    BY <1>3, EmptySeq DEF Untouched
  <2> QED BY <1>1, <1>2, <2>1
<1>4. CASE Len(Circulating) = InUse
  <2>1. inFill \in Nat /\ inRx \in Nat /\ saved \in Nat /\ inKernel \in 0 .. 1
    BY <1>1
  <2>2. inFill + inKernel + inRx + saved = InUse
    BY <1>1, <1>4, Zenon
  <2>3. filling # NONE => inKernel = 1
    BY <1>1
  <2> HIDE DEF inFill, inKernel, inRx, saved
  <2>4. inFill + inRx <= InUse /\ (filling # NONE => inFill + inRx < InUse)
    BY <1>2, <2>1, <2>2, <2>3
  <2> QED BY <1>2, <2>1, <2>4 DEF inFill, inRx
<1> QED BY <1>3, <1>4 DEF IInv, Circulation

(* Neither ring holds more than it has room for.                             *)
RingsFit == Len(fill_ring) <= FILL_RING_SIZE /\ Len(rx_ring) <= RING_SIZE

(* Type correctness, for any number of frames, ring sizes and batch size;    *)
(* and what main() and the kernel put on a ring always fits it.              *)
THEOREM TypeCorrect == Spec => [](TypeOK /\ RingsFit)
<1>1. IInv => TypeOK /\ RingsFit
  <2> SUFFICES ASSUME IInv PROVE RingsFit
    BY DEF IInv
  <2> QED BY FramesCounted DEF RingsFit
<1> QED BY <1>1, Inductive, PTL

(* main() gives back resources in an order they depend on, however far       *)
(* setting up came, and the kernel never writes to a buffer without socket.  *)
THEOREM Nested == Spec => []ResourcesNested
<1>1. IInv => ResourcesNested
  BY DEF IInv, HeldByStage, ResourcesNested
<1> QED BY <1>1, Inductive, PTL

(* No frame is lost or in two places, and the kernel always finds room.      *)
THEOREM Conserved == Spec => []FramesConserved
<1>1. ASSUME IInv PROVE FramesConserved
  <2>1. IsInjective(Circulating)
    BY <1>1 DEF IInv, Circulation
  <2>2. pc \in {"while", "peek", "poll", "for", "replenish"} =>
          ToSet(Circulating) = 0 .. NUM_FRAMES \div 2 - 1
    BY <1>1 DEF IInv, Circulation, InUse
  <2>3. Len(fill_ring) <= FILL_RING_SIZE /\ (filling # NONE => Len(rx_ring) < RING_SIZE)
    BY <1>1, FramesCounted
  <2> QED BY <2>1, <2>2, <2>3 DEF FramesConserved
<1> QED BY <1>1, Inductive, PTL

(* What has been published is read as it was, and nothing is skipped.        *)
THEOREM Intact == Spec => []PacketsIntact
<1>1. ASSUME IInv PROVE PacketsIntact
  <2>1. /\ Len(accepted) \in Nat /\ Len(rx_ring) \in Nat /\ i \in Nat
    BY <1>1, LenProperties, RingAssumption DEF IInv, TypeOK
  <2>2. pc = "for" => Len(handled) = Len(accepted) - Len(rx_ring) + i - 1
    BY <1>1, <2>1 DEF IInv, PacketsInPlace
  <2> QED BY <1>1, <2>2 DEF IInv, BatchUnderWay, PacketsInPlace, PacketsIntact
<1> QED BY <1>1, Inductive, PTL

(* The statistics account for every packet, at every point of the loop.      *)
THEOREM StatsCorrect == Spec => []StatsAddUp
<1> QED BY InitStats, StepStats, Inductive, PTL DEF Spec

(* Every step of the loop is a step of the queue of packets, or none.        *)
THEOREM Refinement == Spec => RefinesFifo
<1>1. Init => Abstract!Init
  BY DEF Init, Abstract!Init
<1>2. ASSUME IInv, [Next]_vars PROVE [Abstract!Next]_Abstract!vars
  <2>1. CASE HandlePacket
    <3>1. /\ handled' = Append(handled, umem[rx_ring[i]]) /\ accepted' = accepted
      BY <2>1 DEF HandlePacket
    <3>2. /\ umem[rx_ring[i]] = accepted[Len(handled) + 1]
          /\ Len(handled) < Len(accepted)
      BY <1>2, <2>1, NextPacket, LenProperties DEF IInv, TypeOK
    <3> QED BY <3>1, <3>2 DEF Abstract!Next, Abstract!Handle
  <2>2. CASE KernelPublishes
    <3>1. /\ accepted' = Append(accepted, umem[filling]) /\ handled' = handled
          /\ umem[filling] \in Packets
      BY <1>2, <2>2 DEF KernelPublishes, IInv, PacketsInPlace
    <3> QED BY <3>1 DEF Abstract!Next, Abstract!Accept
  <2>3. CASE UNCHANGED <<accepted, handled>>
    BY <2>3 DEF Abstract!vars
  <2>4. CASE Quiet
    BY <2>3, <2>4 DEF Quiet
  <2>5. CASE PopulateFillRing \/ Peek \/ Release \/ Replenish \/ UNCHANGED vars
    BY <2>3, <2>5 DEF PopulateFillRing, Peek, Release, Replenish, history, vars
  <2>6. CASE \E kind \in Kinds : KernelCopies(kind)
    BY <2>3, <2>6 DEF KernelCopies
  <2> QED BY <1>2, <2>1, <2>2, <2>4, <2>5, <2>6, QuietSteps DEF Next, Setup, Loop, Kernel
<1> QED BY <1>1, <1>2, Inductive, PTL DEF Spec, RefinesFifo, Abstract!Spec
=============================================================================
