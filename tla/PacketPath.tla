----------------------------- MODULE PacketPath -----------------------------
(***************************************************************************)
(* A packet's way from the wire into main()'s hands: xdp_filter.c, run by  *)
(* the kernel for each packet of each receive queue; the map that leads to *)
(* the AF_XDP socket, which the program opens for one queue while packets  *)
(* arrive; get_itch_message() and itch_to_host() in user space.  What the  *)
(* rings do between filter and parser is ReceiveLoop's matter.             *)
(*                                                                         *)
(* The two parsers read the same headers with checks of their own, in      *)
(* different order.  A frame is its length and the header fields they      *)
(* look at, with the message its sender wrote behind the UDP header.       *)
(***************************************************************************)
EXTENDS Integers, Sequences, SequencesExt

CONSTANTS
  Queues,              (* the receive queues, each served by a CPU           *)
  queue_id,            (* the queue that main() opens its socket on          *)
  Frames,              (* the frames of the wire                             *)
  MARKET_DATA_PORT,
  BYTE,                (* the number of values of a byte                     *)
  MAX_PACKETS,         (* bound on the frames of a queue                     *)
  NONE                 (* no frame, no message                               *)

(* The values of n bytes. *)
Word(n) ==
  LET count[k \in 0 .. n] == IF k = 0 THEN 1 ELSE BYTE * count[k - 1]
  IN  0 .. count[n] - 1

ASSUME PathAssumption ==
  /\ queue_id \in Queues
  /\ \A f \in Frames :
       /\ f.len \in Nat /\ f.ihl \in 0 .. 15
       /\ f.msg \in [type : {f.msg.type}, ts_ns : Word(8), price : Word(4), qty : Word(4)]
  /\ BYTE \in Nat \ {0, 1} /\ MAX_PACKETS \in Nat
  /\ NONE \notin Frames /\ NONE \notin Nat

ethhdr == 14
iphdr == 20
udphdr == 8
ITCH_Message == 25

VARIABLES
  prog,                (* whether the filter is attached                     *)
  xsks_map,            (* the queues with a socket                           *)
  redirect,            (* per queue: the frame bpf_redirect_map() is for     *)
  stats_map,           (* per queue: the counters of its CPU                 *)
  rx,                  (* the frames given to the socket                     *)
  handled,             (* what main() made of the frames it took             *)
  arrived,             (* history, per queue: UDP and other frames met       *)
  passed               (* history, per queue: how many frames were given to  *)
                       (* the network stack, and the last of them            *)

vars == <<prog, xsks_map, redirect, stats_map, rx, handled, arrived, passed>>

Init ==
  /\ prog = "loaded"
  /\ xsks_map = {}
  /\ redirect = [q \in Queues |-> NONE]
  /\ stats_map = [q \in Queues |-> [rx_packets |-> 0, rx_bytes |-> 0, redirected |-> 0, passed |-> 0]]
  /\ rx = <<>>
  /\ handled = <<>>
  /\ arrived = [q \in Queues |-> [udp |-> 0, other |-> 0]]
  /\ passed = [q \in Queues |-> [count |-> 0, last |-> NONE]]

-----------------------------------------------------------------------------
(* main() sets up and cleans up.  Detaching does not wait for the CPUs.      *)

Attach ==
  /\ prog = "loaded"
  /\ prog' = "attached"
  /\ UNCHANGED <<xsks_map, redirect, stats_map, rx, handled, arrived, passed>>

UpdateXskMap ==
  /\ prog = "attached"
  /\ xsks_map' = {queue_id}
  /\ UNCHANGED <<prog, redirect, stats_map, rx, handled, arrived, passed>>

Detach ==
  /\ prog = "attached"
  /\ prog' = "detached"
  /\ UNCHANGED <<xsks_map, redirect, stats_map, rx, handled, arrived, passed>>

(* The kernel takes a closed socket out of the map. *)
DeleteSocket ==
  /\ prog = "detached"
  /\ xsks_map' = {}
  /\ UNCHANGED <<prog, redirect, stats_map, rx, handled, arrived, passed>>

-----------------------------------------------------------------------------
(* The filter *)

(* Where the UDP payload of a frame begins. *)
Payload(f) == ethhdr + f.ihl * 4 + udphdr

(* Mutation: IP headers with options are not taken. *)
MutIsUdp(f) ==
  /\ f.len >= ethhdr
  /\ f.h_proto = "ipv4"
  /\ f.len >= ethhdr + iphdr
  /\ f.ihl = 5
  /\ f.protocol = "udp"
  /\ f.len >= Payload(f)

(* The frames that it lets go uncounted are the others. *)
IsUdp(f) ==
  /\ f.len >= ethhdr
  /\ f.h_proto = "ipv4"
  /\ f.len >= ethhdr + iphdr
  /\ f.ihl >= 5
  /\ f.protocol = "udp"
  /\ f.len >= Payload(f)

(* Mutation: the options of the IP header are left out of the sum. *)
MutIsMarketData(f) == f.dest = MARKET_DATA_PORT /\ f.len >= ethhdr + iphdr + udphdr + ITCH_Message

IsMarketData(f) == f.dest = MARKET_DATA_PORT /\ f.len >= Payload(f) + ITCH_Message

Arrive(q, f) ==
  /\ prog = "attached"
  /\ redirect[q] = NONE
  /\ arrived[q].udp + arrived[q].other < MAX_PACKETS
  /\ arrived' = [arrived EXCEPT ![q] =
       [udp   |-> @.udp + (IF IsUdp(f) THEN 1 ELSE 0),
        other |-> @.other + (IF IsUdp(f) THEN 0 ELSE 1)]]

Pass(q, f) == passed' = [passed EXCEPT ![q] = [count |-> @.count + 1, last |-> f]]

Count(q, f, outcome) ==
  stats_map' = [stats_map EXCEPT ![q] =
    [rx_packets |-> @.rx_packets + 1,
     rx_bytes   |-> @.rx_bytes + f.len,
     redirected |-> @.redirected + (IF outcome = "redirected" THEN 1 ELSE 0),
     passed     |-> @.passed + (IF outcome = "passed" THEN 1 ELSE 0)]]

FilterIgnores(q, f) ==
  /\ Arrive(q, f)
  /\ ~IsUdp(f)
  /\ Pass(q, f)
  /\ UNCHANGED <<prog, xsks_map, redirect, stats_map, rx, handled>>

FilterPasses(q, f) ==
  /\ Arrive(q, f)
  /\ IsUdp(f) /\ ~IsMarketData(f)
  /\ Count(q, f, "passed")
  /\ Pass(q, f)
  /\ UNCHANGED <<prog, xsks_map, redirect, rx, handled>>

FilterRedirects(q, f) ==
  /\ Arrive(q, f)
  /\ IsUdp(f) /\ IsMarketData(f)
  /\ Count(q, f, "redirected")
  /\ redirect' = [redirect EXCEPT ![q] = f]
  /\ UNCHANGED <<prog, xsks_map, rx, handled, passed>>

(* Mutation: without the flag, a packet is dropped where there is no socket. *)
MutRedirectMap(q) ==
  /\ redirect[q] # NONE
  /\ rx' = IF q \in xsks_map THEN Append(rx, redirect[q]) ELSE rx
  /\ redirect' = [redirect EXCEPT ![q] = NONE]
  /\ UNCHANGED <<prog, xsks_map, stats_map, handled, arrived, passed>>

(* bpf_redirect_map(&xsks_map, index, XDP_PASS) *)
RedirectMap(q) ==
  /\ redirect[q] # NONE
  /\ IF q \in xsks_map
       THEN rx' = Append(rx, redirect[q]) /\ UNCHANGED passed
       ELSE Pass(q, redirect[q]) /\ UNCHANGED rx
  /\ redirect' = [redirect EXCEPT ![q] = NONE]
  /\ UNCHANGED <<prog, xsks_map, stats_map, handled, arrived>>

-----------------------------------------------------------------------------
(* The parser in user space *)

(* get_itch_message(): the offset of the message, NONE for nullptr. *)
get_itch_message(f) ==
  LET udp == ethhdr + f.ihl * 4
  IN  IF /\ f.len >= ethhdr
         /\ f.h_proto = "ipv4"
         /\ f.len >= ethhdr + iphdr
         /\ f.version = 4 /\ f.ihl >= 5
         /\ f.len >= udp + udphdr
         /\ f.len >= udp + udphdr + ITCH_Message
      THEN udp + udphdr
      ELSE NONE

(* struct.pack("!c8sQII", ...) of the sender: n bytes, the highest first.    *)
NetworkOrder(v, n) ==
  LET shifted[k \in 0 .. n] == IF k = 0 THEN v ELSE shifted[k - 1] \div BYTE
  IN  [k \in 1 .. n |-> shifted[n - k] % BYTE]

Packed(m) == [type |-> m.type, ts_ns |-> NetworkOrder(m.ts_ns, 8),
              price |-> NetworkOrder(m.price, 4), qty |-> NetworkOrder(m.qty, 4)]

(* The value of bytes in the memory of a little-endian host. *)
Value(bytes) == FoldRight(LAMBDA b, v : b + BYTE * v, bytes, 0)

(* ntohll() and ntohl_inline() reverse the bytes of a field in place. *)
itch_to_host(m) ==
  [type |-> m.type, ts_ns |-> Value(Reverse(m.ts_ns)),
   price |-> Value(Reverse(m.price)), qty |-> Value(Reverse(m.qty))]

(* The message is read where the parser found it, the sender wrote it at     *)
(* Payload(f).                                                               *)
Handle ==
  LET f == Head(rx)
      at == get_itch_message(f)
  IN  /\ rx # <<>>
      /\ handled' = Append(handled,
           [frame |-> f, msg |-> IF at = Payload(f) THEN itch_to_host(Packed(f.msg)) ELSE NONE])
      /\ rx' = Tail(rx)
      /\ UNCHANGED <<prog, xsks_map, redirect, stats_map, arrived, passed>>

-----------------------------------------------------------------------------
Filter(q) ==
  \/ \E f \in Frames : FilterIgnores(q, f) \/ FilterPasses(q, f) \/ FilterRedirects(q, f)
  \/ RedirectMap(q)

Next ==
  \/ Attach \/ UpdateXskMap \/ Detach \/ DeleteSocket
  \/ \E q \in Queues : Filter(q)
  \/ Handle

Spec == Init /\ [][Next]_vars

-----------------------------------------------------------------------------
(* Properties *)

(* Type correctness. *)
TypeOK ==
  /\ prog \in {"loaded", "attached", "detached"}
  /\ xsks_map \subseteq {queue_id}
  /\ redirect \in [Queues -> Frames \cup {NONE}]
  /\ stats_map \in [Queues -> [rx_packets : Nat, rx_bytes : Nat, redirected : Nat, passed : Nat]]
  /\ rx \in Seq(Frames)
  /\ arrived \in [Queues -> [udp : Nat, other : Nat]]
  /\ passed \in [Queues -> [count : Nat, last : Frames \cup {NONE}]]

(* Of the frames the filter redirects, the parser turns away only those that *)
(* call themselves IPv4 in the Ethernet header alone; of all others main()   *)
(* gets the message as it was sent.                                          *)
RedirectedParsed ==
  \A k \in 1 .. Len(handled) :
    handled[k].msg = IF handled[k].frame.version = 4 THEN handled[k].frame.msg ELSE NONE

(* A market data message that the parser would take is never left to the     *)
(* network stack while its queue has a socket.                               *)
Wanted(f) == f.protocol = "udp" /\ f.dest = MARKET_DATA_PORT /\ get_itch_message(f) # NONE

NothingMissed ==
  [][passed'[queue_id] # passed[queue_id] /\ queue_id \in xsks_map
       => ~Wanted(passed'[queue_id].last)]_vars

(* The frame of a queue that bpf_redirect_map() is for, and those it gave to *)
(* the socket.                                                               *)
Pending(q) == IF redirect[q] = NONE THEN 0 ELSE 1
ToSocket(q) == IF q = queue_id THEN Len(rx) + Len(handled) ELSE 0

(* The filter neither loses nor doubles a frame: wherever main() is in       *)
(* setting up or cleaning up, each frame goes to the socket, once, or to the *)
(* network stack, and the counters of the filter account for all of UDP.     *)
FramesConserved ==
  \A q \in Queues :
    /\ arrived[q].udp + arrived[q].other = passed[q].count + Pending(q) + ToSocket(q)
    /\ arrived[q].udp = stats_map[q].rx_packets
    /\ stats_map[q].rx_packets = stats_map[q].redirected + stats_map[q].passed
=============================================================================
