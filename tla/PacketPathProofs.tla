-------------------------- MODULE PacketPathProofs --------------------------
(***************************************************************************)
(* The filter and the parser, for any frames, queues and ports: what the   *)
(* one redirects the other takes, but for the IP version, and reads where  *)
(* the sender wrote; and what the parser would take is never left to the   *)
(* network stack while its queue has a socket.  What the sender packed is  *)
(* what main() reads.                                                      *)
(***************************************************************************)
EXTENDS PacketPath, TLAPS

Data == INSTANCE DataTheorems WITH NULL <- NONE

(* What the filter redirects. *)
Redirected(f) == IsUdp(f) /\ IsMarketData(f)

(* The two parsers check alike and look for the message at the same offset.  *)
LEMMA ParsersAgree ==
  ASSUME NEW f \in Frames
  PROVE  /\ Wanted(f) => Redirected(f)
         /\ Redirected(f) => get_itch_message(f) = IF f.version = 4 THEN Payload(f) ELSE NONE
<1>1. f.len \in Nat /\ f.ihl \in Nat
  BY PathAssumption
<1>2. Wanted(f) => Redirected(f)
  BY <1>1 DEF Wanted, Redirected, IsUdp, IsMarketData, get_itch_message, Payload,
              ethhdr, iphdr, udphdr, ITCH_Message
<1>3. Redirected(f) => get_itch_message(f) = IF f.version = 4 THEN Payload(f) ELSE NONE
  BY <1>1 DEF Redirected, IsUdp, IsMarketData, get_itch_message, Payload,
              ethhdr, iphdr, udphdr, ITCH_Message
<1> QED
  BY <1>2, <1>3

-----------------------------------------------------------------------------
(* What main() made of a frame, read where the parser found the message.     *)
Read(h) == h.msg = IF h.frame.version = 4 THEN itch_to_host(Packed(h.frame.msg)) ELSE NONE

(* What waits for main() has passed the filter.                              *)
OnlyRedirected ==
  /\ \A q \in Queues : redirect[q] # NONE => Redirected(redirect[q])
  /\ \A k \in 1 .. Len(rx) : Redirected(rx[k])

(* Every message is read from the bytes the sender packed, whatever options  *)
(* the IP header has.                                                        *)
ReadAsPacked == \A k \in 1 .. Len(handled) : Read(handled[k])

Handled == [frame : Frames,
            msg : {NONE} \cup {itch_to_host(Packed(f.msg)) : f \in Frames}]

IInv == TypeOK /\ handled \in Seq(Handled) /\ OnlyRedirected /\ ReadAsPacked

LEMMA InitIInv == Init => IInv
<1> SUFFICES ASSUME Init PROVE IInv
  OBVIOUS
<1>1. TypeOK
  BY DEF Init, TypeOK
<1>2. handled \in Seq(Handled) /\ OnlyRedirected /\ ReadAsPacked
  BY DEF Init, OnlyRedirected, ReadAsPacked
<1> QED
  BY <1>1, <1>2 DEF IInv

(* Counting keeps the counters natural numbers. *)
LEMMA CountType ==
  ASSUME TypeOK, NEW q \in Queues, NEW f \in Frames,
         NEW outcome \in {"redirected", "passed"}, Count(q, f, outcome)
  PROVE  stats_map' \in [Queues -> [rx_packets : Nat, rx_bytes : Nat, redirected : Nat, passed : Nat]]
<1> DEFINE Counters == [rx_packets : Nat, rx_bytes : Nat, redirected : Nat, passed : Nat]
           c == stats_map[q]
           r == c.redirected + (IF outcome = "redirected" THEN 1 ELSE 0)
           p == c.passed + (IF outcome = "passed" THEN 1 ELSE 0)
           d == [rx_packets |-> c.rx_packets + 1, rx_bytes |-> c.rx_bytes + f.len,
                 redirected |-> r, passed |-> p]
<1>1. stats_map \in [Queues -> Counters] /\ f.len \in Nat
  BY PathAssumption DEF TypeOK
<1>2. c \in Counters
  <2> HIDE DEF Counters
  <2> QED
    BY <1>1
<1>3. r \in Nat /\ p \in Nat
  BY <1>2
<1>4. c.rx_packets + 1 \in Nat /\ c.rx_bytes + f.len \in Nat
  BY <1>1, <1>2
<1>5. d \in Counters
  <2> HIDE DEF r, p, c
  <2> QED
    BY <1>3, <1>4
<1>6. stats_map' = [stats_map EXCEPT ![q] = d]
  BY DEF Count
<1>7. stats_map' \in [Queues -> Counters]
  <2> HIDE DEF Counters, d
  <2> QED
    BY <1>1, <1>5, <1>6
<1> QED
  BY <1>7

(* A frame that meets the filter. *)
LEMMA ArriveType ==
  ASSUME TypeOK, NEW q \in Queues, NEW f \in Frames, Arrive(q, f)
  PROVE  arrived' \in [Queues -> [udp : Nat, other : Nat]]
  BY DEF Arrive, TypeOK

LEMMA PassType ==
  ASSUME TypeOK, NEW q \in Queues, NEW f \in Frames, Pass(q, f)
  PROVE  passed' \in [Queues -> [count : Nat, last : Frames \cup {NONE}]]
  BY DEF Pass, TypeOK

(* main() setting up and cleaning up touches no frame. *)
LEMMA MainIInv ==
  ASSUME IInv, Attach \/ UpdateXskMap \/ Detach \/ DeleteSocket
  PROVE  IInv'
<1>1. TypeOK'
  BY DEF IInv, TypeOK, Attach, UpdateXskMap, Detach, DeleteSocket
<1>2. UNCHANGED <<redirect, rx, handled>>
  BY DEF Attach, UpdateXskMap, Detach, DeleteSocket
<1> QED
  BY <1>1, <1>2 DEF IInv, OnlyRedirected, ReadAsPacked, Read

LEMMA FilterIInv ==
  ASSUME IInv, NEW q \in Queues, NEW f \in Frames,
         FilterIgnores(q, f) \/ FilterPasses(q, f) \/ FilterRedirects(q, f)
  PROVE  IInv'
<1>0. TypeOK /\ OnlyRedirected
  BY DEF IInv
<1>1. CASE FilterIgnores(q, f)
  <2>1. passed' \in [Queues -> [count : Nat, last : Frames \cup {NONE}]]
    BY <1>0, <1>1, PassType DEF FilterIgnores
  <2>2. arrived' \in [Queues -> [udp : Nat, other : Nat]]
    BY <1>0, <1>1, ArriveType DEF FilterIgnores
  <2>3. UNCHANGED <<prog, xsks_map, redirect, stats_map, rx, handled>>
    BY <1>1 DEF FilterIgnores
  <2> QED
    BY <2>1, <2>2, <2>3 DEF IInv, TypeOK, OnlyRedirected, ReadAsPacked, Read
<1>2. CASE FilterPasses(q, f)
  <2>1. passed' \in [Queues -> [count : Nat, last : Frames \cup {NONE}]]
    BY <1>0, <1>2, PassType DEF FilterPasses
  <2>2. arrived' \in [Queues -> [udp : Nat, other : Nat]]
    BY <1>0, <1>2, ArriveType DEF FilterPasses
  <2>3. UNCHANGED <<prog, xsks_map, redirect, rx, handled>>
    BY <1>2 DEF FilterPasses
  <2>4. stats_map' \in [Queues -> [rx_packets : Nat, rx_bytes : Nat, redirected : Nat, passed : Nat]]
    BY <1>0, <1>2, CountType DEF FilterPasses
  <2> QED
    BY <2>1, <2>2, <2>3, <2>4 DEF IInv, TypeOK, OnlyRedirected, ReadAsPacked, Read
<1>3. CASE FilterRedirects(q, f)
  <2>1. arrived' \in [Queues -> [udp : Nat, other : Nat]]
    BY <1>0, <1>3, ArriveType DEF FilterRedirects
  <2>2. stats_map' \in [Queues -> [rx_packets : Nat, rx_bytes : Nat, redirected : Nat, passed : Nat]]
    BY <1>0, <1>3, CountType DEF FilterRedirects
  <2>3. UNCHANGED <<prog, xsks_map, rx, handled, passed>>
    BY <1>3 DEF FilterRedirects
  <2>4. redirect \in [Queues -> Frames \cup {NONE}] /\ redirect' = [redirect EXCEPT ![q] = f]
    BY <1>0, <1>3 DEF TypeOK, FilterRedirects
  <2>5. Redirected(f)
    BY <1>3 DEF FilterRedirects, Redirected
  <2>6. TypeOK'
    BY <1>0, <2>1, <2>2, <2>3, <2>4 DEF TypeOK
  <2>7. \A p \in Queues : redirect'[p] # NONE => Redirected(redirect'[p])
    BY <1>0, <2>4, <2>5 DEF OnlyRedirected
  <2>8. OnlyRedirected'
    BY <1>0, <2>3, <2>7 DEF OnlyRedirected, Redirected, IsUdp, IsMarketData, Payload
  <2> QED
    BY <2>3, <2>6, <2>8 DEF IInv, ReadAsPacked, Read
<1> QED
  BY <1>1, <1>2, <1>3

LEMMA RedirectMapIInv ==
  ASSUME IInv, NEW q \in Queues, RedirectMap(q)
  PROVE  IInv'
<1> DEFINE f == redirect[q]
<1>0. TypeOK /\ OnlyRedirected
  BY DEF IInv
<1>1. f \in Frames /\ Redirected(f)
  BY <1>0 DEF TypeOK, OnlyRedirected, RedirectMap
<1>2. /\ redirect \in [Queues -> Frames \cup {NONE}] /\ redirect' = [redirect EXCEPT ![q] = NONE]
      /\ rx \in Seq(Frames)
      /\ UNCHANGED <<prog, xsks_map, stats_map, handled, arrived>>
  BY <1>0 DEF TypeOK, RedirectMap
<1>3. passed' \in [Queues -> [count : Nat, last : Frames \cup {NONE}]]
  <2>1. CASE UNCHANGED passed
    BY <1>0, <2>1 DEF TypeOK
  <2>2. CASE Pass(q, f)
    BY <1>0, <1>1, <2>2, PassType
  <2> QED
    BY <2>1, <2>2 DEF RedirectMap
<1>4. rx' \in Seq(Frames) /\ \A k \in 1 .. Len(rx') : Redirected(rx'[k])
  <2>1. CASE rx' = rx
    BY <1>0, <1>2, <2>1 DEF OnlyRedirected
  <2>2. CASE rx' = Append(rx, f)
    <3>1. \A k \in 1 .. Len(rx') : rx'[k] = f \/ (k \in 1 .. Len(rx) /\ rx'[k] = rx[k])
      BY <1>1, <1>2, <2>2
    <3>2. rx' \in Seq(Frames)
      BY <1>1, <1>2, <2>2
    <3> HIDE DEF f
    <3> QED
      BY <1>0, <1>1, <3>1, <3>2 DEF OnlyRedirected
  <2> QED
    BY <2>1, <2>2 DEF RedirectMap
<1>5. \A p \in Queues : redirect'[p] # NONE => Redirected(redirect'[p])
  BY <1>0, <1>2 DEF OnlyRedirected
<1>6. TypeOK'
  BY <1>0, <1>2, <1>3, <1>4 DEF TypeOK
<1> QED
  BY <1>2, <1>4, <1>5, <1>6 DEF IInv, OnlyRedirected, ReadAsPacked, Read, Redirected, IsUdp, IsMarketData, Payload

LEMMA HandleIInv ==
  ASSUME IInv, Handle
  PROVE  IInv'
<1> DEFINE f == Head(rx)
           m == IF f.version = 4 THEN itch_to_host(Packed(f.msg)) ELSE NONE
           h == [frame |-> f, msg |-> m]
<1>0. TypeOK /\ OnlyRedirected /\ ReadAsPacked /\ handled \in Seq(Handled)
  BY DEF IInv
<1>1. rx \in Seq(Frames) /\ rx # <<>> /\ rx' = Tail(rx)
      /\ UNCHANGED <<prog, xsks_map, redirect, stats_map, arrived, passed>>
  BY <1>0 DEF TypeOK, Handle
<1>2. f \in Frames /\ f = rx[1] /\ 1 \in 1 .. Len(rx)
  BY <1>1
<1>3. Redirected(f)
  BY <1>0, <1>2 DEF OnlyRedirected
<1>4. get_itch_message(f) = IF f.version = 4 THEN Payload(f) ELSE NONE
  BY <1>2, <1>3, ParsersAgree
<1>5. Payload(f) # NONE
  <2>1. f.ihl \in Nat
    <3>1. \A g \in Frames : g.ihl \in Nat
      BY PathAssumption
    <3> HIDE DEF f
    <3> QED BY <1>2, <3>1
  <2>2. Payload(f) \in Nat
    BY <2>1 DEF Payload, ethhdr, udphdr
  <2> QED
    BY <2>2, PathAssumption
<1>6. handled' = Append(handled, h)
  <2>1. (get_itch_message(f) = Payload(f)) <=> (f.version = 4)
    BY <1>4, <1>5
  <2> QED
    BY <2>1 DEF Handle
<1>7. h \in Handled /\ Read(h)
  BY <1>2 DEF Handled, Read
<1>8. handled' \in Seq(Handled) /\ ReadAsPacked'
  <2>1. handled' \in Seq(Handled)
        /\ \A k \in 1 .. Len(handled') : handled'[k] = h \/ (k \in 1 .. Len(handled) /\ handled'[k] = handled[k])
    <3> HIDE DEF h
    <3> QED
      BY <1>0, <1>6, <1>7
  <2>2. \A k \in 1 .. Len(handled') : Read(handled'[k])
    <3> HIDE DEF h
    <3> QED
      BY <1>0, <1>7, <2>1 DEF ReadAsPacked
  <2> QED
    BY <2>1, <2>2 DEF ReadAsPacked, Read
<1>9. rx' \in Seq(Frames) /\ \A k \in 1 .. Len(rx') : Redirected(rx'[k])
  <2>1. rx' \in Seq(Frames) /\ \A k \in 1 .. Len(rx') : k + 1 \in 1 .. Len(rx) /\ rx'[k] = rx[k + 1]
    BY <1>1
  <2> QED
    BY <1>0, <2>1 DEF OnlyRedirected
<1>10. TypeOK'
  BY <1>0, <1>1, <1>9 DEF TypeOK
<1> QED
  BY <1>0, <1>1, <1>8, <1>9, <1>10 DEF IInv, OnlyRedirected, Redirected, IsUdp, IsMarketData, Payload

LEMMA NextIInv == IInv /\ [Next]_vars => IInv'
<1> SUFFICES ASSUME IInv, [Next]_vars PROVE IInv'
  OBVIOUS
<1>1. CASE Attach \/ UpdateXskMap \/ Detach \/ DeleteSocket
  BY <1>1, MainIInv
<1>2. CASE \E q \in Queues : Filter(q)
  BY <1>2, FilterIInv, RedirectMapIInv DEF Filter
<1>3. CASE Handle
  BY <1>3, HandleIInv
<1>4. CASE UNCHANGED vars
  BY <1>4 DEF vars, IInv, TypeOK, OnlyRedirected, ReadAsPacked, Read, Redirected, IsUdp, IsMarketData, Payload
<1> QED
  BY <1>1, <1>2, <1>3, <1>4 DEF Next

LEMMA Invariance == Spec => []IInv
<1> QED
  BY InitIInv, NextIInv, PTL DEF Spec

-----------------------------------------------------------------------------
(* The variables of the packet path have their types. *)
THEOREM TypeCorrect == Spec => []TypeOK
<1>1. IInv => TypeOK
  BY DEF IInv
<1> QED
  BY <1>1, Invariance, PTL

(* get_itch_message() finds the message where the sender wrote it in every   *)
(* frame that xdp_filter.c redirects and that is IPv4, and turns the others  *)
(* away, whatever came and went in the meantime.                             *)
THEOREM AlwaysReadAsPacked == Spec => []ReadAsPacked
<1>1. IInv => ReadAsPacked
  BY DEF IInv
<1> QED
  BY <1>1, Invariance, PTL

(* While its queue has a socket, xdp_filter.c leaves no market data that the *)
(* parser would take to the network stack.                                   *)
THEOREM NothingEverMissed == Spec => NothingMissed
<1>1. ASSUME IInv, [Next]_vars, queue_id \in xsks_map,
             passed'[queue_id] # passed[queue_id], Wanted(passed'[queue_id].last)
      PROVE  FALSE
  <2>1. passed \in [Queues -> [count : Nat, last : Frames \cup {NONE}]] /\ queue_id \in Queues
    BY <1>1, PathAssumption DEF IInv, TypeOK
  <2>2. passed' # passed
    BY <1>1
  <2>3. ASSUME NEW q \in Queues, NEW f \in Frames, Pass(q, f)
        PROVE  q = queue_id /\ Redirected(f)
    <3>1. q = queue_id /\ passed'[queue_id].last = f
      BY <1>1, <2>1, <2>3 DEF Pass
    <3> QED
      BY <1>1, <3>1, ParsersAgree
  <2>4. ASSUME NEW q \in Queues, NEW f \in Frames, FilterIgnores(q, f) PROVE FALSE
    BY <2>3, <2>4 DEF FilterIgnores, Redirected
  <2>5. ASSUME NEW q \in Queues, NEW f \in Frames, FilterPasses(q, f) PROVE FALSE
    BY <2>3, <2>5 DEF FilterPasses, Redirected
  <2>6. ASSUME NEW q \in Queues, NEW f \in Frames, FilterRedirects(q, f) PROVE FALSE
    BY <2>2, <2>6 DEF FilterRedirects
  <2>7. ASSUME NEW q \in Queues, RedirectMap(q) PROVE FALSE
    <3>1. Pass(q, redirect[q]) /\ q \notin xsks_map /\ redirect[q] \in Frames
      BY <1>1, <2>2, <2>7 DEF RedirectMap, IInv, TypeOK
    <3> QED
      BY <1>1, <2>3, <3>1
  <2>8. ~(Attach \/ UpdateXskMap \/ Detach \/ DeleteSocket \/ Handle \/ UNCHANGED vars)
    BY <2>2 DEF Attach, UpdateXskMap, Detach, DeleteSocket, Handle, vars
  <2> QED
    BY <1>1, <2>4, <2>5, <2>6, <2>7, <2>8 DEF Next, Filter
<1>2. IInv /\ [Next]_vars =>
        [passed'[queue_id] # passed[queue_id] /\ queue_id \in xsks_map
           => ~Wanted(passed'[queue_id].last)]_vars
  BY <1>1
<1> QED
  BY <1>2, Invariance, PTL DEF Spec, NothingMissed

-----------------------------------------------------------------------------
(* The bytes of a number, packed and read. *)

(* What is shifted out of a number, and what is left of it.                   *)
LEMMA Division ==
  ASSUME NEW x \in Nat
  PROVE  /\ x \div BYTE \in Nat /\ x % BYTE \in Nat
         /\ x = (x % BYTE) + BYTE * (x \div BYTE)
<1>1. BYTE \in Nat /\ BYTE > 0
  BY PathAssumption
<1> QED
  BY <1>1

(* A shift leaves a value of one byte less.                                  *)
LEMMA Shrinks ==
  ASSUME NEW x \in Nat, NEW P \in Nat, x < BYTE * P
  PROVE  x \div BYTE < P
<1> DEFINE d == x \div BYTE
           r == x % BYTE
<1>1. d \in Nat /\ r \in Nat /\ x = r + BYTE * d /\ BYTE \in Nat
  BY Division, PathAssumption
<1> HIDE DEF d, r
<1>2. ASSUME d >= P PROVE FALSE
  <2>1. PICK e \in Nat : d = P + e
    <3>1. d - P \in Nat /\ d = P + (d - P)
      BY <1>1, <1>2
    <3> QED BY <3>1
  <2>2. BYTE * d = BYTE * P + BYTE * e /\ BYTE * e \in Nat /\ BYTE * P \in Nat
    BY <1>1, <2>1
  <2> QED BY <1>1, <2>2
<1>3. d < P
  BY <1>1, <1>2
<1> QED BY <1>3 DEF d


(* A number taken through a function n times, by steps.                      *)
IsIterate(f, n, v, g) == f = [k \in 0 .. n |-> IF k = 0 THEN v ELSE g[f[k - 1]]]

LEMMA IterateExists ==
  ASSUME NEW v \in Nat, NEW g \in [Nat -> Nat], NEW n \in Nat
  PROVE  \E f \in [0 .. n -> Nat] : IsIterate(f, n, v, g)
<1> DEFINE Some(m) == \E f \in [0 .. m -> Nat] : IsIterate(f, m, v, g)
           F == {m \in Nat : ~Some(m)}
           age == [m \in F |-> m]
<1>1. ASSUME F # {} PROVE FALSE
  <2>1. PICK m \in F : \A l \in F : age[m] <= age[l]
    <3>1. \A l \in F : age[l] \in Nat
      OBVIOUS
    <3> HIDE DEF age, F
    <3> QED BY <1>1, <3>1, Data!LeastAge
  <2>2. m \in Nat /\ ~Some(m) /\ \A l \in Nat : l < m => Some(l)
    <3>1. \A l \in F : m <= l
      BY <2>1
    <3> HIDE DEF Some
    <3> QED BY <2>1, <3>1
  <2>3. CASE m = 0
    <3> DEFINE f == [k \in 0 .. 0 |-> v]
    <3>1. f \in [0 .. 0 -> Nat] /\ IsIterate(f, 0, v, g)
      BY DEF IsIterate
    <3> QED BY <2>2, <2>3, <3>1
  <2>4. CASE m # 0
    <3>1. m - 1 \in Nat /\ m - 1 < m
      BY <2>2, <2>4
    <3>2. PICK f \in [0 .. m - 1 -> Nat] : IsIterate(f, m - 1, v, g)
      BY <2>2, <3>1
    <3> DEFINE h == [k \in 0 .. m |-> IF k = m THEN g[f[m - 1]] ELSE f[k]]
    <3>3. \A k \in 0 .. m - 1 : f[k] = IF k = 0 THEN v ELSE g[f[k - 1]]
      BY <3>2 DEF IsIterate
    <3>4. \A k \in 0 .. m : h[k] \in Nat /\ h[k] = IF k = 0 THEN v ELSE g[h[k - 1]]
      <4> SUFFICES ASSUME NEW k \in 0 .. m
                   PROVE  h[k] \in Nat /\ h[k] = IF k = 0 THEN v ELSE g[h[k - 1]]
        OBVIOUS
      <4>1. CASE k = m
        <5>1. h[k] = g[f[m - 1]] /\ h[k - 1] = f[m - 1] /\ f[m - 1] \in Nat
          BY <3>1, <4>1
        <5> HIDE DEF h
        <5> QED BY <2>4, <4>1, <5>1
      <4>2. CASE k # m
        <5>1. k \in 0 .. m - 1 /\ h[k] = f[k] /\ f[k] \in Nat
          BY <2>2, <4>2
        <5>2. k # 0 => h[k - 1] = f[k - 1]
          BY <2>2, <4>2
        <5> HIDE DEF h
        <5> QED BY <3>3, <5>1, <5>2
      <4> QED BY <4>1, <4>2
    <3>5. h \in [0 .. m -> Nat] /\ h = [k \in 0 .. m |-> h[k]]
      BY <3>4
    <3>6. IsIterate(h, m, v, g)
      <4> HIDE DEF h
      <4> QED BY <3>4, <3>5 DEF IsIterate
    <3> QED BY <2>2, <3>5, <3>6
  <2> QED BY <2>3, <2>4
<1> QED BY <1>1

-----------------------------------------------------------------------------
(* What is left of v after each of n shifts, and how many values fewer bytes *)
(* than n have.                                                              *)
IsShifted(f, v, n) == f = [j \in 0 .. n |-> IF j = 0 THEN v ELSE f[j - 1] \div BYTE]
IsCount(f, n) == f = [j \in 0 .. n |-> IF j = 0 THEN 1 ELSE BYTE * f[j - 1]]

Shifted(v, n) == CHOOSE f : IsShifted(f, v, n)
ValuesOf(n) == CHOOSE f : IsCount(f, n)

LEMMA ShiftedSteps ==
  ASSUME NEW v \in Nat, NEW n \in Nat
  PROVE  /\ NetworkOrder(v, n) = [k \in 1 .. n |-> Shifted(v, n)[n - k] % BYTE]
         /\ \A j \in 0 .. n : /\ Shifted(v, n)[j] \in Nat
                              /\ Shifted(v, n)[j] = IF j = 0 THEN v ELSE Shifted(v, n)[j - 1] \div BYTE
<1> DEFINE g == [x \in Nat |-> x \div BYTE]
           s == Shifted(v, n)
<1>1. NetworkOrder(v, n) = [k \in 1 .. n |-> s[n - k] % BYTE]
  BY Zenon DEF NetworkOrder, Shifted, IsShifted
<1>2. g \in [Nat -> Nat]
  BY Division
<1>3. PICK f \in [0 .. n -> Nat] : IsIterate(f, n, v, g)
  <2> HIDE DEF g
  <2> QED BY <1>2, IterateExists
<1>4. \A j \in 0 .. n : f[j] = IF j = 0 THEN v ELSE f[j - 1] \div BYTE
  <2>1. \A j \in 0 .. n : f[j] = IF j = 0 THEN v ELSE g[f[j - 1]]
    BY <1>3 DEF IsIterate
  <2>2. \A j \in 0 .. n : j # 0 => f[j - 1] \in Nat
    OBVIOUS
  <2> QED BY <2>1, <2>2
<1>5. IsShifted(f, v, n)
  <2>1. f = [j \in 0 .. n |-> f[j]]
    OBVIOUS
  <2> QED BY <1>4, <2>1 DEF IsShifted
<1>6. IsShifted(s, v, n)
  BY <1>5 DEF Shifted
<1>7. \A j \in 0 .. n : s[j] = IF j = 0 THEN v ELSE s[j - 1] \div BYTE
  <2> HIDE DEF s
  <2> QED BY <1>6 DEF IsShifted
<1>8. \A j \in 0 .. n : s[j] \in Nat
  <2> DEFINE F == {j \in 0 .. n : s[j] \notin Nat}
             age == [j \in F |-> j]
  <2>1. ASSUME F # {} PROVE FALSE
    <3>1. \A j \in F : age[j] \in Nat
      OBVIOUS
    <3>2. PICK j \in F : \A l \in F : age[j] <= age[l]
      <4> HIDE DEF F, age
      <4> QED BY <2>1, <3>1, Data!LeastAge
    <3>3. j \in 0 .. n /\ s[j] \notin Nat /\ \A l \in F : j <= l
      BY <3>2
    <3>4. j # 0
      BY <1>7, <3>3
    <3>5. j - 1 \in 0 .. n /\ j - 1 \notin F
      BY <3>3, <3>4
    <3>6. s[j - 1] \in Nat
      BY <3>5
    <3>7. s[j] = s[j - 1] \div BYTE
      BY <1>7, <3>3, <3>4
    <3> QED BY <3>3, <3>6, <3>7, Division
  <2> QED BY <2>1
<1> QED BY <1>1, <1>7, <1>8

LEMMA CountSteps ==
  ASSUME NEW n \in Nat
  PROVE  /\ Word(n) = 0 .. ValuesOf(n)[n] - 1
         /\ \A j \in 0 .. n : /\ ValuesOf(n)[j] \in Nat
                              /\ ValuesOf(n)[j] = IF j = 0 THEN 1 ELSE BYTE * ValuesOf(n)[j - 1]
<1> DEFINE g == [x \in Nat |-> BYTE * x]
           s == ValuesOf(n)
<1>0. BYTE \in Nat
  BY PathAssumption
<1>1. Word(n) = 0 .. s[n] - 1
  BY Zenon DEF Word, ValuesOf, IsCount
<1>2. g \in [Nat -> Nat]
  BY <1>0
<1>3. PICK f \in [0 .. n -> Nat] : IsIterate(f, n, 1, g)
  <2> HIDE DEF g
  <2> QED BY <1>2, IterateExists
<1>4. \A j \in 0 .. n : f[j] = IF j = 0 THEN 1 ELSE BYTE * f[j - 1]
  <2>1. \A j \in 0 .. n : f[j] = IF j = 0 THEN 1 ELSE g[f[j - 1]]
    BY <1>3 DEF IsIterate
  <2>2. \A j \in 0 .. n : j # 0 => f[j - 1] \in Nat
    OBVIOUS
  <2> QED BY <2>1, <2>2
<1>5. IsCount(f, n)
  <2>1. f = [j \in 0 .. n |-> f[j]]
    OBVIOUS
  <2> QED BY <1>4, <2>1 DEF IsCount
<1>6. IsCount(s, n)
  BY <1>5 DEF ValuesOf
<1>7. \A j \in 0 .. n : s[j] = IF j = 0 THEN 1 ELSE BYTE * s[j - 1]
  <2> HIDE DEF s
  <2> QED BY <1>6 DEF IsCount
<1>8. \A j \in 0 .. n : s[j] \in Nat
  <2> DEFINE F == {j \in 0 .. n : s[j] \notin Nat}
             age == [j \in F |-> j]
  <2>1. ASSUME F # {} PROVE FALSE
    <3>1. \A j \in F : age[j] \in Nat
      OBVIOUS
    <3>2. PICK j \in F : \A l \in F : age[j] <= age[l]
      <4> HIDE DEF F, age
      <4> QED BY <2>1, <3>1, Data!LeastAge
    <3>3. j \in 0 .. n /\ s[j] \notin Nat /\ \A l \in F : j <= l
      BY <3>2
    <3>4. j # 0
      BY <1>7, <3>3
    <3>5. j - 1 \in 0 .. n /\ j - 1 \notin F
      BY <3>3, <3>4
    <3>6. s[j - 1] \in Nat
      BY <3>5
    <3>7. s[j] = BYTE * s[j - 1]
      BY <1>7, <3>3, <3>4
    <3> QED BY <1>0, <3>3, <3>6, <3>7
  <2> QED BY <2>1
<1> QED BY <1>1, <1>7, <1>8

(* A value of n bytes is gone after n shifts.                                *)
LEMMA AllShiftedOut ==
  ASSUME NEW n \in Nat, NEW v \in Word(n)
  PROVE  v \in Nat /\ Shifted(v, n)[n] = 0
<1> DEFINE s == Shifted(v, n)
           c == ValuesOf(n)
<1>1. /\ Word(n) = 0 .. c[n] - 1
      /\ \A j \in 0 .. n : c[j] \in Nat /\ c[j] = IF j = 0 THEN 1 ELSE BYTE * c[j - 1]
  BY CountSteps
<1>2. v \in Nat /\ v < c[n]
  <2> HIDE DEF c
  <2>1. c[n] \in Nat
    BY <1>1
  <2> QED BY <1>1, <2>1
<1>3. \A j \in 0 .. n : s[j] \in Nat /\ s[j] = IF j = 0 THEN v ELSE s[j - 1] \div BYTE
  BY <1>2, ShiftedSteps
<1> HIDE DEF s, c
<1> DEFINE F == {j \in 0 .. n : ~(s[j] < c[n - j])}
           age == [j \in F |-> j]
<1>4. ASSUME F # {} PROVE FALSE
  <2>1. \A j \in F : age[j] \in Nat
    OBVIOUS
  <2>2. PICK j \in F : \A l \in F : age[j] <= age[l]
    <3> HIDE DEF F, age
    <3> QED BY <1>4, <2>1, Data!LeastAge
  <2>3. j \in 0 .. n /\ ~(s[j] < c[n - j]) /\ \A l \in F : j <= l
    BY <2>2
  <2>4. j # 0
    BY <1>2, <1>3, <2>3
  <2>5. j - 1 \in 0 .. n /\ j - 1 \notin F
    BY <2>3, <2>4
  <2>6. s[j - 1] < c[n - (j - 1)] /\ s[j - 1] \in Nat
    BY <1>3, <2>5
  <2>7. n - (j - 1) \in 0 .. n /\ n - (j - 1) # 0 /\ (n - (j - 1)) - 1 = n - j /\ n - j \in 0 .. n
    BY <2>3, <2>4
  <2>8. c[n - (j - 1)] = BYTE * c[n - j] /\ c[n - j] \in Nat
    BY <1>1, <2>7
  <2>9. s[j] = s[j - 1] \div BYTE
    BY <1>3, <2>3, <2>4
  <2>10. s[j] < c[n - j]
    BY <2>6, <2>8, <2>9, Shrinks
  <2> QED BY <2>3, <2>10
<1>5. n \in 0 .. n /\ n - n = 0 /\ 0 \in 0 .. n
  OBVIOUS
<1>6. s[n] < c[0] /\ c[0] = 1 /\ s[n] \in Nat
  BY <1>1, <1>3, <1>4, <1>5
<1>7. s[n] = 0
  BY <1>6
<1> QED BY <1>2, <1>7 DEF s

-----------------------------------------------------------------------------
(* The value of bytes, from the highest index down.                          *)
IsValue(f, bytes) ==
  f = [s \in SUBSET (DOMAIN bytes) |-> IF s = {} THEN 0 ELSE bytes[Min(s)] + BYTE * f[s \ {Min(s)}]]

LEMMA ValueUnfolds ==
  ASSUME NEW bytes
  PROVE  Value(bytes) = (CHOOSE f : IsValue(f, bytes))[DOMAIN bytes]
  BY Zenon DEF Value, FoldRight, MapThenFoldSet, IsValue

LEMMA LeastIndex ==
  ASSUME NEW s, s \subseteq Nat, s # {}
  PROVE  Min(s) \in s /\ \A i \in s : Min(s) <= i
<1> DEFINE age == [i \in s |-> i]
<1>1. \A i \in s : age[i] \in Nat
  OBVIOUS
<1>2. PICK m \in s : \A i \in s : age[m] <= age[i]
  <2> HIDE DEF age
  <2> QED BY <1>1, Data!LeastAge
<1>3. \A i \in s : m <= i
  BY <1>2
<1> QED BY <1>3 DEF Min

LEMMA ValueSteps ==
  ASSUME NEW n \in Nat, NEW bytes \in [1 .. n -> Nat]
  PROVE  \E f : /\ Value(bytes) = f[1 .. n] /\ f[{}] = 0
                /\ \A j \in 1 .. n : f[j .. n] = bytes[j] + BYTE * f[j + 1 .. n]
<1> DEFINE S == 1 .. n
           ch == [s \in SUBSET S |-> Min(s)]
           g == [p \in S \X Nat |-> bytes[p[1]] + BYTE * p[2]]
<1>0. BYTE \in Nat /\ DOMAIN bytes = S
  BY PathAssumption
<1>1. \A s \in SUBSET S : s # {} => ch[s] \in s /\ ch[s] = Min(s)
  <2> SUFFICES ASSUME NEW s \in SUBSET S, s # {}
               PROVE  ch[s] \in s /\ ch[s] = Min(s)
    OBVIOUS
  <2>1. s \subseteq Nat /\ ch[s] = Min(s)
    OBVIOUS
  <2>2. Min(s) \in s
    <3> HIDE DEF ch, S
    <3> QED BY <2>1, LeastIndex
  <2> HIDE DEF ch
  <2> QED BY <2>1, <2>2
<1>2. \A i \in S, v \in Nat : g[<<i, v>>] = bytes[i] + BYTE * v /\ g[<<i, v>>] \in Nat
  <2> SUFFICES ASSUME NEW i \in S, NEW v \in Nat
               PROVE  g[<<i, v>>] = bytes[i] + BYTE * v /\ g[<<i, v>>] \in Nat
    OBVIOUS
  <2>1. BYTE * v \in Nat /\ bytes[i] \in Nat
    BY <1>0
  <2>2. g[<<i, v>>] = bytes[i] + BYTE * v
    OBVIOUS
  <2> QED BY <2>1, <2>2
<1>3. Data!IsFiniteSet(S)
  BY Data!FS_Interval
<1> HIDE DEF S, ch, g
<1>4. PICK f : Data!IsFold(f, S, 0, ch, g)
  <2>1. \A s \in SUBSET S : s # {} => ch[s] \in s
    BY <1>1
  <2> QED BY <2>1, <1>3, Data!FoldExists
<1>5. \A s \in SUBSET S : f[s] \in Nat
  <2>1. /\ \A i \in S, v \in Nat : g[<<i, v>>] \in Nat
        /\ \A s \in SUBSET S : s # {} => ch[s] \in s
        /\ 0 \in Nat
    BY <1>1, <1>2
  <2> QED BY <2>1, <1>3, <1>4, Data!FoldType
<1>6. \A s \in SUBSET S : f[s] = IF s = {} THEN 0 ELSE bytes[Min(s)] + BYTE * f[s \ {Min(s)}]
  <2> SUFFICES ASSUME NEW s \in SUBSET S
               PROVE  f[s] = IF s = {} THEN 0 ELSE bytes[Min(s)] + BYTE * f[s \ {Min(s)}]
    OBVIOUS
  <2>1. f[s] = IF s = {} THEN 0 ELSE g[<<ch[s], f[s \ {ch[s]}]>>]
    BY <1>4 DEF Data!IsFold
  <2>2. CASE s # {}
    <3>1. Min(s) \in S /\ s \ {Min(s)} \in SUBSET S /\ f[s \ {Min(s)}] \in Nat /\ ch[s] = Min(s)
      BY <2>2, <1>1, <1>5
    <3> QED BY <2>1, <2>2, <3>1, <1>2
  <2> QED BY <2>1, <2>2
<1>7. IsValue(f, bytes)
  <2>1. f = [s \in SUBSET S |-> f[s]]
    BY <1>4 DEF Data!IsFold
  <2> QED BY <2>1, <1>0, <1>6 DEF IsValue
<1> DEFINE h == CHOOSE h : IsValue(h, bytes)
<1>8. IsValue(h, bytes)
  BY <1>7
<1>9. Value(bytes) = h[S]
  BY <1>0, ValueUnfolds
<1> HIDE DEF h
<1>10. \A s \in SUBSET S : h[s] = IF s = {} THEN 0 ELSE bytes[Min(s)] + BYTE * h[s \ {Min(s)}]
  BY <1>0, <1>8 DEF IsValue
<1>11. ASSUME NEW j \in 1 .. n
       PROVE  h[j .. n] = bytes[j] + BYTE * h[j + 1 .. n]
  <2>1. j .. n \in SUBSET S /\ j .. n # {} /\ j \in j .. n
    BY DEF S
  <2>2. Min(j .. n) = j
    <3>1. \A t : t \subseteq Nat /\ t # {} => Min(t) \in t /\ \A i \in t : Min(t) <= i
      BY LeastIndex
    <3>2. j .. n \subseteq Nat
      OBVIOUS
    <3>3. Min(j .. n) \in j .. n /\ Min(j .. n) <= j
      BY <2>1, <3>1, <3>2
    <3> QED BY <3>3
  <2>3. (j .. n) \ {j} = j + 1 .. n
    OBVIOUS
  <2> QED BY <1>10, <2>1, <2>2, <2>3
<1>12. h[{}] = 0
  BY <1>10
<1> QED BY <1>9, <1>11, <1>12 DEF S

(* ntohll() and ntohl_inline() undo what struct.pack did, for any value that *)
(* struct.pack takes.                                                        *)
LEMMA BytesRead ==
  ASSUME NEW n \in Nat, NEW v \in Word(n)
  PROVE  Value(Reverse(NetworkOrder(v, n))) = v
<1> DEFINE s == Shifted(v, n)
           bytes == Reverse(NetworkOrder(v, n))
<1>1. v \in Nat /\ s[n] = 0
  BY AllShiftedOut
<1>2. /\ NetworkOrder(v, n) = [k \in 1 .. n |-> s[n - k] % BYTE]
      /\ \A j \in 0 .. n : s[j] \in Nat /\ s[j] = IF j = 0 THEN v ELSE s[j - 1] \div BYTE
  BY <1>1, ShiftedSteps
<1> HIDE DEF s
<1>3. \A j \in 0 .. n : s[j] % BYTE \in Nat /\ s[j] = (s[j] % BYTE) + BYTE * (s[j] \div BYTE)
  BY <1>2, Division
<1>4. bytes = [j \in 1 .. n |-> s[j - 1] % BYTE]
  <2> DEFINE no == [k \in 1 .. n |-> s[n - k] % BYTE]
  <2>1. no \in Seq(Nat) /\ Len(no) = n
    <3>1. \A k \in 1 .. n : n - k \in 0 .. n
      OBVIOUS
    <3>2. \A k \in 1 .. n : s[n - k] % BYTE \in Nat
      BY <1>3, <3>1
    <3> QED BY <3>2
  <2>2. \A j \in 1 .. n : no[n - j + 1] = s[j - 1] % BYTE
    <3>1. \A j \in 1 .. n : n - j + 1 \in 1 .. n /\ n - (n - j + 1) = j - 1
      OBVIOUS
    <3> QED BY <3>1
  <2>3. bytes = Reverse(no)
    BY <1>2
  <2> HIDE DEF no, bytes
  <2> QED BY <2>1, <2>2, <2>3 DEF Reverse
<1>5. \A j \in 1 .. n : bytes[j] = s[j - 1] % BYTE /\ bytes[j] \in Nat
  <2> HIDE DEF bytes
  <2>1. \A j \in 1 .. n : j - 1 \in 0 .. n
    OBVIOUS
  <2> QED BY <1>3, <1>4, <2>1
<1>6. bytes \in [1 .. n -> Nat]
  <2> HIDE DEF bytes
  <2> QED BY <1>4, <1>5
<1> HIDE DEF bytes
<1>7. PICK f : /\ Value(bytes) = f[1 .. n] /\ f[{}] = 0
               /\ \A j \in 1 .. n : f[j .. n] = bytes[j] + BYTE * f[j + 1 .. n]
  BY <1>6, ValueSteps
<1> DEFINE F == {j \in 0 .. n : f[n - j + 1 .. n] # s[n - j]}
           age == [j \in F |-> j]
<1>8. ASSUME F # {} PROVE FALSE
  <2>1. \A j \in F : age[j] \in Nat
    OBVIOUS
  <2>2. PICK j \in F : \A l \in F : age[j] <= age[l]
    <3> HIDE DEF F, age
    <3> QED BY <1>8, <2>1, Data!LeastAge
  <2>3. j \in 0 .. n /\ f[n - j + 1 .. n] # s[n - j] /\ \A l \in F : j <= l
    BY <2>2
  <2>4. j # 0
    <3>1. n + 1 .. n = {}
      OBVIOUS
    <3>2. j = 0 => n - j + 1 = n + 1 /\ n - j = n
      OBVIOUS
    <3> QED BY <1>1, <1>7, <2>3, <3>1, <3>2
  <2>5. j - 1 \in 0 .. n /\ j - 1 \notin F
    BY <2>3, <2>4
  <2> DEFINE i == n - j + 1
  <2>6. i \in 1 .. n /\ n - (j - 1) = i /\ i - 1 = n - j /\ i - 1 \in 0 .. n /\ i \in 0 .. n /\ i # 0
    BY <2>3, <2>4
  <2>7. f[i + 1 .. n] = s[i]
    <3> HIDE DEF i
    <3> QED BY <2>5, <2>6
  <2> HIDE DEF i
  <2>8. f[i .. n] = bytes[i] + BYTE * s[i]
    BY <1>7, <2>6, <2>7
  <2>9. s[i] = s[i - 1] \div BYTE
    BY <1>2, <2>6
  <2>10. bytes[i] = s[i - 1] % BYTE
    BY <1>5, <2>6
  <2>11. f[i .. n] = s[i - 1]
    BY <1>3, <2>6, <2>8, <2>9, <2>10
  <2> QED BY <2>3, <2>6, <2>11 DEF i
<1>9. n \in 0 .. n /\ n - n = 0 /\ n - n + 1 = 1 /\ 0 \in 0 .. n
  OBVIOUS
<1>10. f[1 .. n] = s[0] /\ s[0] = v
  BY <1>2, <1>8, <1>9
<1> QED BY <1>7, <1>10 DEF bytes

(* A message as main() sees it is the message that was sent.                 *)
LEMMA MessageRead ==
  ASSUME NEW f \in Frames
  PROVE  itch_to_host(Packed(f.msg)) = f.msg
<1> DEFINE m == f.msg
<1>1. m \in [type : {m.type}, ts_ns : Word(8), price : Word(4), qty : Word(4)]
  BY PathAssumption
<1> HIDE DEF m
<1>2. m = [type |-> m.type, ts_ns |-> m.ts_ns, price |-> m.price, qty |-> m.qty]
  BY <1>1
<1>3. m.ts_ns \in Word(8) /\ m.price \in Word(4) /\ m.qty \in Word(4)
  BY <1>1
<1>4. /\ Value(Reverse(NetworkOrder(m.ts_ns, 8))) = m.ts_ns
      /\ Value(Reverse(NetworkOrder(m.price, 4))) = m.price
      /\ Value(Reverse(NetworkOrder(m.qty, 4))) = m.qty
  BY <1>3, BytesRead
<1>5. itch_to_host(Packed(m)) = m
  BY <1>2, <1>4 DEF itch_to_host, Packed
<1> QED BY <1>5 DEF m

(* Of every redirected packet main() gets the message as it was sent, all of *)
(* its fields in the byte order of the host, unless it is not IPv4: then     *)
(* get_itch_message() gives nullptr.                                         *)
THEOREM MessagesIntact == Spec => []RedirectedParsed
<1>1. ASSUME IInv PROVE RedirectedParsed
  <2> SUFFICES ASSUME NEW k \in 1 .. Len(handled)
               PROVE  handled[k].msg = IF handled[k].frame.version = 4 THEN handled[k].frame.msg ELSE NONE
    BY DEF RedirectedParsed
  <2>1. handled[k] \in Handled /\ Read(handled[k])
    BY <1>1 DEF IInv, ReadAsPacked
  <2>2. handled[k].frame \in Frames
    BY <2>1 DEF Handled
  <2>3. itch_to_host(Packed(handled[k].frame.msg)) = handled[k].frame.msg
    BY <2>2, MessageRead
  <2> QED
    BY <2>1, <2>3 DEF Read
<1> QED
  BY <1>1, Invariance, PTL

-----------------------------------------------------------------------------
(* No frame is lost or doubled. *)

(* What the parts of the balance are. *)
LEMMA BalanceTypes ==
  ASSUME TypeOK, handled \in Seq(Handled), NEW q \in Queues
  PROVE  /\ arrived[q].udp \in Nat /\ arrived[q].other \in Nat /\ passed[q].count \in Nat
         /\ stats_map[q].rx_packets \in Nat /\ stats_map[q].redirected \in Nat
         /\ stats_map[q].passed \in Nat
         /\ Pending(q) \in Nat /\ ToSocket(q) \in Nat
         /\ Len(rx) \in Nat /\ Len(handled) \in Nat
  BY DEF TypeOK, Pending, ToSocket

(* The frames and the counters of a queue balance. *)
Balanced(q) ==
  /\ arrived[q].udp + arrived[q].other = passed[q].count + Pending(q) + ToSocket(q)
  /\ arrived[q].udp = stats_map[q].rx_packets
  /\ stats_map[q].rx_packets = stats_map[q].redirected + stats_map[q].passed

LEMMA FilterConserves ==
  ASSUME IInv, FramesConserved, NEW q \in Queues, NEW f \in Frames,
         FilterIgnores(q, f) \/ FilterPasses(q, f) \/ FilterRedirects(q, f)
  PROVE  FramesConserved'
<1>0. TypeOK /\ handled \in Seq(Handled)
  BY DEF IInv
<1>1. /\ redirect[q] = NONE /\ UNCHANGED <<rx, handled>> /\ f # NONE
      /\ arrived' = [arrived EXCEPT ![q] = [udp   |-> arrived[q].udp + (IF IsUdp(f) THEN 1 ELSE 0),
                                           other |-> arrived[q].other + (IF IsUdp(f) THEN 0 ELSE 1)]]
  BY PathAssumption DEF FilterIgnores, FilterPasses, FilterRedirects, Arrive
<1>2. ASSUME NEW p \in Queues, p # q
      PROVE  /\ arrived'[p] = arrived[p] /\ passed'[p] = passed[p]
             /\ stats_map'[p] = stats_map[p] /\ redirect'[p] = redirect[p]
  BY <1>0, <1>1, <1>2 DEF TypeOK, FilterIgnores, FilterPasses, FilterRedirects, Pass, Count
<1>3. /\ arrived'[q].udp = arrived[q].udp + (IF IsUdp(f) THEN 1 ELSE 0)
      /\ arrived'[q].other = arrived[q].other + (IF IsUdp(f) THEN 0 ELSE 1)
  BY <1>0, <1>1 DEF TypeOK
<1>4. CASE FilterIgnores(q, f)
  <2>1. /\ passed'[q].count = passed[q].count + 1 /\ ~IsUdp(f)
        /\ stats_map' = stats_map /\ redirect' = redirect
    BY <1>0, <1>4 DEF TypeOK, FilterIgnores, Pass
  <2>2. \A p \in Queues : Pending(p)' = Pending(p) /\ ToSocket(p)' = ToSocket(p)
    BY <1>1, <2>1 DEF Pending, ToSocket
  <2>3. Balanced(q)'
    <3>1. arrived'[q].udp = arrived[q].udp /\ arrived'[q].other = arrived[q].other + 1
      BY <1>0, <1>3, <2>1, BalanceTypes
    <3>2. Balanced(q)
      BY DEF FramesConserved, Balanced
    <3>3. Pending(q)' = Pending(q) /\ ToSocket(q)' = ToSocket(q)
      BY <2>2
    <3>4. /\ arrived[q].udp \in Nat /\ arrived[q].other \in Nat /\ passed[q].count \in Nat
          /\ stats_map[q].rx_packets \in Nat /\ stats_map[q].redirected \in Nat
          /\ stats_map[q].passed \in Nat /\ Pending(q) \in Nat /\ ToSocket(q) \in Nat
      BY <1>0, BalanceTypes
    <3>5. passed'[q].count = passed[q].count + 1
      BY <2>1
    <3>6. arrived[q].udp + arrived[q].other = passed[q].count + Pending(q) + ToSocket(q)
      BY <3>2 DEF Balanced
    <3>7. (arrived[q].udp + arrived[q].other = passed[q].count + Pending(q) + ToSocket(q))'
      BY <3>1, <3>3, <3>4, <3>5, <3>6
    <3>8. /\ (arrived[q].udp = stats_map[q].rx_packets)'
          /\ (stats_map[q].rx_packets = stats_map[q].redirected + stats_map[q].passed)'
      BY <2>1, <3>1, <3>2, <3>4 DEF Balanced
    <3> QED
      BY <3>7, <3>8 DEF Balanced
  <2>4. ASSUME NEW p \in Queues, p # q PROVE Balanced(p)'
    BY <1>2, <2>1, <2>2, <2>4 DEF FramesConserved, Balanced
  <2> QED
    BY <2>3, <2>4 DEF FramesConserved, Balanced
<1>5. CASE FilterPasses(q, f)
  <2>1. /\ passed'[q].count = passed[q].count + 1 /\ IsUdp(f) /\ redirect' = redirect
        /\ stats_map'[q].rx_packets = stats_map[q].rx_packets + 1
        /\ stats_map'[q].redirected = stats_map[q].redirected + 0
        /\ stats_map'[q].passed = stats_map[q].passed + 1
    BY <1>0, <1>5 DEF TypeOK, FilterPasses, Pass, Count
  <2>2. \A p \in Queues : Pending(p)' = Pending(p) /\ ToSocket(p)' = ToSocket(p)
    BY <1>1, <2>1 DEF Pending, ToSocket
  <2>3. Balanced(q)'
    <3>1. arrived'[q].udp = arrived[q].udp + 1 /\ arrived'[q].other = arrived[q].other + 0
      BY <1>3, <2>1
    <3>2. Balanced(q)
      BY DEF FramesConserved, Balanced
    <3>3. Pending(q)' = Pending(q) /\ ToSocket(q)' = ToSocket(q)
      BY <2>2
    <3>4. /\ arrived[q].udp \in Nat /\ arrived[q].other \in Nat /\ passed[q].count \in Nat
          /\ stats_map[q].rx_packets \in Nat /\ stats_map[q].redirected \in Nat
          /\ stats_map[q].passed \in Nat /\ Pending(q) \in Nat /\ ToSocket(q) \in Nat
      BY <1>0, BalanceTypes
    <3>5. (arrived[q].udp + arrived[q].other = passed[q].count + Pending(q) + ToSocket(q))'
      BY <2>1, <3>1, <3>2, <3>3, <3>4 DEF Balanced
    <3>6. /\ (arrived[q].udp = stats_map[q].rx_packets)'
          /\ (stats_map[q].rx_packets = stats_map[q].redirected + stats_map[q].passed)'
      BY <2>1, <3>1, <3>2, <3>4 DEF Balanced
    <3> QED
      BY <3>5, <3>6 DEF Balanced
  <2>4. ASSUME NEW p \in Queues, p # q PROVE Balanced(p)'
    BY <1>2, <2>1, <2>2, <2>4 DEF FramesConserved, Balanced
  <2> QED
    BY <2>3, <2>4 DEF FramesConserved, Balanced
<1>6. CASE FilterRedirects(q, f)
  <2>1. /\ passed' = passed /\ IsUdp(f) /\ redirect'[q] = f
        /\ stats_map'[q].rx_packets = stats_map[q].rx_packets + 1
        /\ stats_map'[q].redirected = stats_map[q].redirected + 1
        /\ stats_map'[q].passed = stats_map[q].passed + 0
    BY <1>0, <1>6 DEF TypeOK, FilterRedirects, Count
  <2>2. /\ Pending(q) = 0 /\ Pending(q)' = 1
        /\ \A p \in Queues : p # q => Pending(p)' = Pending(p)
        /\ \A p \in Queues : ToSocket(p)' = ToSocket(p)
    BY <1>1, <1>2, <2>1 DEF Pending, ToSocket
  <2>3. Balanced(q)'
    <3>1. arrived'[q].udp = arrived[q].udp + 1 /\ arrived'[q].other = arrived[q].other + 0
      BY <1>3, <2>1
    <3>2. Balanced(q)
      BY DEF FramesConserved, Balanced
    <3>3. Pending(q)' = Pending(q) + 1 /\ ToSocket(q)' = ToSocket(q)
      BY <2>2
    <3>4. /\ arrived[q].udp \in Nat /\ arrived[q].other \in Nat /\ passed[q].count \in Nat
          /\ stats_map[q].rx_packets \in Nat /\ stats_map[q].redirected \in Nat
          /\ stats_map[q].passed \in Nat /\ Pending(q) \in Nat /\ ToSocket(q) \in Nat
      BY <1>0, BalanceTypes
    <3>5. (arrived[q].udp + arrived[q].other = passed[q].count + Pending(q) + ToSocket(q))'
      BY <2>1, <3>1, <3>2, <3>3, <3>4 DEF Balanced
    <3>6. /\ (arrived[q].udp = stats_map[q].rx_packets)'
          /\ (stats_map[q].rx_packets = stats_map[q].redirected + stats_map[q].passed)'
      BY <2>1, <3>1, <3>2, <3>4 DEF Balanced
    <3> QED
      BY <3>5, <3>6 DEF Balanced
  <2>4. ASSUME NEW p \in Queues, p # q PROVE Balanced(p)'
    BY <1>2, <2>1, <2>2, <2>4 DEF FramesConserved, Balanced
  <2> QED
    BY <2>3, <2>4 DEF FramesConserved, Balanced
<1> QED
  BY <1>4, <1>5, <1>6

LEMMA RedirectMapConserves ==
  ASSUME IInv, FramesConserved, NEW q \in Queues, RedirectMap(q)
  PROVE  FramesConserved'
<1>0. TypeOK /\ handled \in Seq(Handled)
  BY DEF IInv
<1>1. /\ redirect[q] # NONE /\ redirect' = [redirect EXCEPT ![q] = NONE]
      /\ UNCHANGED <<stats_map, handled, arrived>>
  BY DEF RedirectMap
<1>2. /\ Pending(q) = 1 /\ Pending(q)' = 0
      /\ \A p \in Queues : p # q => Pending(p)' = Pending(p)
  BY <1>0, <1>1 DEF TypeOK, Pending
<1>3. CASE q \in xsks_map
  <2>1. q = queue_id /\ rx' = Append(rx, redirect[q]) /\ passed' = passed
    BY <1>0, <1>3 DEF TypeOK, RedirectMap
  <2>2. Len(rx') = Len(rx) + 1
    BY <1>0, <2>1 DEF TypeOK
  <2>3. /\ ToSocket(q)' = ToSocket(q) + 1
        /\ \A p \in Queues : p # q => ToSocket(p)' = ToSocket(p)
    BY <1>0, <1>1, <2>1, <2>2, BalanceTypes DEF ToSocket
  <2>4. Balanced(q)'
    BY <1>0, <1>1, <1>2, <2>1, <2>3, BalanceTypes DEF FramesConserved, Balanced
  <2>5. ASSUME NEW p \in Queues, p # q PROVE Balanced(p)'
    BY <1>1, <1>2, <2>1, <2>3, <2>5 DEF FramesConserved, Balanced
  <2> QED
    BY <2>4, <2>5 DEF FramesConserved, Balanced
<1>4. CASE q \notin xsks_map
  <2>1. /\ rx' = rx /\ passed'[q].count = passed[q].count + 1
        /\ \A p \in Queues : p # q => passed'[p] = passed[p]
    BY <1>0, <1>4 DEF TypeOK, RedirectMap, Pass
  <2>2. \A p \in Queues : ToSocket(p)' = ToSocket(p)
    BY <1>1, <2>1 DEF ToSocket
  <2>3. Balanced(q)'
    BY <1>0, <1>1, <1>2, <2>1, <2>2, BalanceTypes DEF FramesConserved, Balanced
  <2>4. ASSUME NEW p \in Queues, p # q PROVE Balanced(p)'
    BY <1>1, <1>2, <2>1, <2>2, <2>4 DEF FramesConserved, Balanced
  <2> QED
    BY <2>3, <2>4 DEF FramesConserved, Balanced
<1> QED
  BY <1>3, <1>4

LEMMA HandleConserves ==
  ASSUME IInv, FramesConserved, Handle
  PROVE  FramesConserved'
<1>0. TypeOK /\ handled \in Seq(Handled)
  BY DEF IInv
<1>1. rx \in Seq(Frames) /\ rx # <<>> /\ UNCHANGED <<redirect, stats_map, arrived, passed>>
  BY <1>0 DEF TypeOK, Handle
<1>2. Len(rx') = Len(rx) - 1
  BY <1>1 DEF Handle
<1>3. Len(handled') = Len(handled) + 1
  BY <1>0 DEF Handle
<1>4. \A p \in Queues : Pending(p)' = Pending(p) /\ ToSocket(p)' = ToSocket(p)
  BY <1>0, <1>1, <1>2, <1>3, BalanceTypes DEF Pending, ToSocket
<1> QED
  BY <1>1, <1>4 DEF FramesConserved

(* Every frame that met xdp_filter.c was given to the socket or the network  *)
(* stack, once, or is about to be; its counters add up to the UDP frames.    *)
THEOREM FramesAlwaysConserved == Spec => []FramesConserved
<1>1. Init => FramesConserved
  BY DEF Init, FramesConserved, Pending, ToSocket
<1>2. IInv /\ FramesConserved /\ [Next]_vars => FramesConserved'
  <2> SUFFICES ASSUME IInv, FramesConserved, [Next]_vars PROVE FramesConserved'
    OBVIOUS
  <2>1. CASE \/ Attach \/ UpdateXskMap \/ Detach \/ DeleteSocket
             \/ UNCHANGED vars
    BY <2>1 DEF Attach, UpdateXskMap, Detach, DeleteSocket, vars, FramesConserved, Pending, ToSocket
  <2>2. CASE \E q \in Queues : Filter(q)
    BY <2>2, FilterConserves, RedirectMapConserves DEF Filter
  <2>3. CASE Handle
    BY <2>3, HandleConserves
  <2> QED
    BY <2>1, <2>2, <2>3 DEF Next
<1> QED
  BY <1>1, <1>2, Invariance, PTL DEF Spec
=============================================================================
