---------------------------- MODULE ReceiveLoop -----------------------------
(***************************************************************************)
(* main.cpp: the AF_XDP socket, from setting it up to tearing it down, and *)
(* the receive loop between, run against the kernel, which fills frames    *)
(* and publishes them at its own pace, and against signals.                *)
(*                                                                         *)
(* Frames of the UMEM go round: fill ring -> kernel -> rx ring -> the      *)
(* program -> fill ring; a frame's number stands for its address.  Of a    *)
(* packet the loop does not tell more than what becomes of it (Kinds); the *)
(* books that messages go to are LFUCache's and MBOBookWithBIT's matter.   *)
(* The kernel and libxdp are external and modelled as the program uses     *)
(* them.                                                                   *)
(***************************************************************************)
EXTENDS Integers, Sequences, SequencesExt

CONSTANTS
  NUM_FRAMES, RING_SIZE, FILL_RING_SIZE, BATCH_SIZE,
  MAX_PACKETS,     (* bound of the model: packets offered to the socket      *)
  NONE             (* no frame, no packet                                    *)

(* What a packet turns out to be: an add, a trade or another message; one    *)
(* that get_itch_message() does not accept; one that there is no book for.   *)
Kinds == {"A", "T", "other", "unparsed", "unrouted"}

Frames  == 0 .. NUM_FRAMES - 1
Packets == [id : 1 .. MAX_PACKETS, kind : Kinds]
Batch   == 1 .. BATCH_SIZE

ASSUME RingAssumption ==
  /\ NUM_FRAMES \in Nat
  /\ BATCH_SIZE \in Nat \ {0}
  /\ RING_SIZE \in Nat /\ NUM_FRAMES \div 2 <= RING_SIZE
  /\ FILL_RING_SIZE \in Nat /\ NUM_FRAMES \div 2 <= FILL_RING_SIZE
  /\ MAX_PACKETS \in Nat
  /\ NONE \notin Frames \cup Packets

VARIABLES
  pc,                       (* where main() is                               *)
  g_running,
  held,                     (* what main() has acquired and not given back   *)
  xsks_map,                 (* whether the map leads to the socket           *)
  fill_ring, rx_ring,       (* frames submitted and not yet taken back       *)
  umem,                     (* the packet in each frame                      *)
  filling,                  (* the frame the kernel is copying a packet into *)
  rcvd, i, addrs,           (* locals of the loop                            *)
  total_received, total_packets, parse_failures, total_adds, total_trades,
  offered,                  (* history: how many packets reached the socket  *)
  accepted, handled         (* history: packets published; packets read      *)

rings == <<fill_ring, rx_ring>>
locals == <<rcvd, i, addrs>>
stats == <<total_received, total_packets, parse_failures, total_adds, total_trades>>
setup == <<held, xsks_map>>
history == <<offered, accepted, handled>>
vars == <<pc, g_running, setup, rings, umem, filling, locals, stats, history>>

Init ==
  /\ pc = "load"
  /\ g_running = TRUE
  /\ held = {}
  /\ xsks_map = FALSE
  /\ fill_ring = <<>>
  /\ rx_ring = <<>>
  /\ umem = [f \in Frames |-> NONE]
  /\ filling = NONE
  /\ rcvd = 0
  /\ i = 1
  /\ addrs = [k \in Batch |-> NONE]
  /\ total_received = 0
  /\ total_packets = 0
  /\ parse_failures = 0
  /\ total_adds = 0
  /\ total_trades = 0
  /\ offered = 0
  /\ accepted = <<>>
  /\ handled = <<>>

-----------------------------------------------------------------------------
(* Setting up.  Every stage may fail.                                        *)

Acquire(stage, resources, next) ==
  /\ pc = stage
  /\ held' = held \cup resources
  /\ pc' = next
  /\ UNCHANGED <<g_running, xsks_map, rings, umem, filling, locals, stats, history>>

Fail(stage, next) ==
  /\ pc = stage
  /\ pc' = next
  /\ UNCHANGED <<g_running, setup, rings, umem, filling, locals, stats, history>>

LoadXdpProgram == Acquire("load", {"prog"}, "umem")

(* Nothing is attached then, and main() returns at once. *)
LoadFails == Fail("load", "exit")

InitUmem == Acquire("umem", {"buffer", "umem"}, "socket")

(* init_umem() frees the buffer itself. *)
InitUmemFails == Fail("umem", "detach")

InitXskSocket == Acquire("socket", {"xsk"}, "map")

(* Mutation: without cleanup(). *)
MutInitXskSocketFails == Fail("socket", "exit")

InitXskSocketFails == Fail("socket", "detach")

UpdateXskMap ==
  /\ pc = "map"
  /\ xsks_map' = TRUE
  /\ pc' = "populate"
  /\ UNCHANGED <<g_running, held, rings, umem, filling, locals, stats, history>>

UpdateXskMapFails == Fail("map", "detach")

(* xsk_ring_prod__reserve(): all that was asked for, or nothing. *)
Reserve(n) == IF FILL_RING_SIZE - Len(fill_ring) >= n THEN n ELSE 0

PopulateFillRing ==
  LET ret == Reserve(NUM_FRAMES \div 2)
  IN  /\ pc = "populate"
      /\ fill_ring' = fill_ring \o [k \in 1 .. ret |-> k - 1]
      /\ pc' = "while"
      /\ UNCHANGED <<g_running, setup, rx_ring, umem, filling, locals, stats, history>>

-----------------------------------------------------------------------------
(* The loop *)

While ==
  /\ pc = "while"
  /\ pc' = IF g_running THEN "peek" ELSE "detach"
  /\ UNCHANGED <<g_running, setup, rings, umem, filling, locals, stats, history>>

(* Mutation: more packets than addrs[] has room for. *)
MutPeekAll ==
  LET n == Len(rx_ring)
  IN  /\ pc = "peek"
      /\ rcvd' = n
      /\ i' = 1
      /\ total_received' = total_received + n
      /\ pc' = IF n = 0 THEN "poll" ELSE "for"
      /\ UNCHANGED <<g_running, setup, rings, umem, filling, addrs, history,
                     total_packets, parse_failures, total_adds, total_trades>>

(* Mutation: full batches only. *)
MutPeekFullBatch ==
  LET n == IF Len(rx_ring) < BATCH_SIZE THEN 0 ELSE BATCH_SIZE
  IN  /\ pc = "peek"
      /\ rcvd' = n
      /\ i' = 1
      /\ total_received' = total_received + n
      /\ pc' = IF n = 0 THEN "poll" ELSE "for"
      /\ UNCHANGED <<g_running, setup, rings, umem, filling, addrs, history,
                     total_packets, parse_failures, total_adds, total_trades>>

Peek ==
  LET n == IF Len(rx_ring) < BATCH_SIZE THEN Len(rx_ring) ELSE BATCH_SIZE
  IN  /\ pc = "peek"
      /\ rcvd' = n
      /\ i' = 1
      /\ total_received' = total_received + n
      /\ pc' = IF n = 0 THEN "poll" ELSE "for"
      /\ UNCHANGED <<g_running, setup, rings, umem, filling, addrs, history,
                     total_packets, parse_failures, total_adds, total_trades>>

(* Mutation: without the timeout; the signal came before the call. *)
MutPoll ==
  /\ pc = "poll"
  /\ rx_ring # <<>>
  /\ pc' = "while"
  /\ UNCHANGED <<g_running, setup, rings, umem, filling, locals, stats, history>>

(* poll() ends with a packet, a signal or its timeout: it always ends. *)
Poll ==
  /\ pc = "poll"
  /\ pc' = "while"
  /\ UNCHANGED <<g_running, setup, rings, umem, filling, locals, stats, history>>

(* Mutation: a packet without a book is no failure. *)
MutCount(kind) ==
  LET failed == kind \in {"unparsed", "unrouted"}
  IN  /\ parse_failures' = parse_failures + (IF kind = "unparsed" THEN 1 ELSE 0)
      /\ total_packets' = total_packets + (IF failed THEN 0 ELSE 1)
      /\ total_adds' = total_adds + (IF kind = "A" THEN 1 ELSE 0)
      /\ total_trades' = total_trades + (IF kind = "T" THEN 1 ELSE 0)
      /\ UNCHANGED total_received

Count(kind) ==
  LET failed == kind \in {"unparsed", "unrouted"}
  IN  /\ parse_failures' = parse_failures + (IF failed THEN 1 ELSE 0)
      /\ total_packets' = total_packets + (IF failed THEN 0 ELSE 1)
      /\ total_adds' = total_adds + (IF kind = "A" THEN 1 ELSE 0)
      /\ total_trades' = total_trades + (IF kind = "T" THEN 1 ELSE 0)
      /\ UNCHANGED total_received

(* Mutation: the address is saved after the first check that continues.      *)
MutHandlePacketSkips ==
  LET frame == rx_ring[i]
      packet == umem[frame]
  IN  /\ pc = "for"
      /\ i <= rcvd
      /\ addrs' = IF packet.kind = "unparsed" THEN addrs ELSE [addrs EXCEPT ![i] = frame]
      /\ Count(packet.kind)
      /\ i' = i + 1
      /\ handled' = Append(handled, packet)
      /\ UNCHANGED <<pc, g_running, setup, rings, umem, filling, rcvd, offered, accepted>>

(* Mutation: the frame goes back to the kernel before its batch is released. *)
MutHandlePacketEarly ==
  LET frame == rx_ring[i]
      packet == umem[frame]
  IN  /\ pc = "for"
      /\ i <= rcvd
      /\ fill_ring' = Append(fill_ring, frame)
      /\ Count(packet.kind)
      /\ i' = i + 1
      /\ handled' = Append(handled, packet)
      /\ UNCHANGED <<pc, g_running, setup, rx_ring, umem, filling, rcvd, addrs, offered, accepted>>

(* One turn of the for loop: the address is saved first, whatever becomes of *)
(* the packet, which is read from the frame where it lies.                   *)
HandlePacket ==
  LET frame == rx_ring[i]
      packet == umem[frame]
  IN  /\ pc = "for"
      /\ i <= rcvd
      /\ addrs' = [addrs EXCEPT ![i] = frame]
      /\ Count(packet.kind)
      /\ i' = i + 1
      /\ handled' = Append(handled, packet)
      /\ UNCHANGED <<pc, g_running, setup, rings, umem, filling, rcvd, offered, accepted>>

(* Mutation: all that has been published, not what has been peeked. *)
MutRelease ==
  /\ pc = "for"
  /\ i > rcvd
  /\ rx_ring' = <<>>
  /\ pc' = "replenish"
  /\ UNCHANGED <<g_running, setup, fill_ring, umem, filling, locals, stats, history>>

Release ==
  /\ pc = "for"
  /\ i > rcvd
  /\ rx_ring' = SubSeq(rx_ring, rcvd + 1, Len(rx_ring))
  /\ pc' = "replenish"
  /\ UNCHANGED <<g_running, setup, fill_ring, umem, filling, locals, stats, history>>

Replenish ==
  LET free_slots == Reserve(rcvd)
  IN  /\ pc = "replenish"
      /\ fill_ring' = fill_ring \o [k \in 1 .. free_slots |-> addrs[k]]
      /\ pc' = "while"
      /\ UNCHANGED <<g_running, setup, rx_ring, umem, filling, locals, stats, history>>

-----------------------------------------------------------------------------
(* cleanup() gives back what there is to give back. *)

Free(stage, resource, next) ==
  /\ pc = stage
  /\ held' = held \ {resource}
  /\ pc' = next
  /\ UNCHANGED <<g_running, xsks_map, rings, umem, filling, locals, stats, history>>

DetachProgram == Free("detach", "prog", "delete_xsk")

(* The kernel finishes the packet under way before it lets the socket go,    *)
(* and takes the socket out of the map.                                      *)
DeleteSocket ==
  /\ pc = "delete_xsk"
  /\ filling = NONE
  /\ held' = held \ {"xsk"}
  /\ xsks_map' = FALSE
  /\ pc' = "delete_umem"
  /\ UNCHANGED <<g_running, rings, umem, filling, locals, stats, history>>

DeleteUmem == Free("delete_umem", "umem", "free_buffer")

FreeBuffer == Free("free_buffer", "buffer", "exit")

-----------------------------------------------------------------------------
(* The world around *)

SignalHandler ==
  /\ g_running
  /\ pc # "exit"
  /\ g_running' = FALSE
  /\ UNCHANGED <<pc, setup, rings, umem, filling, locals, stats, history>>

Redirecting == "prog" \in held /\ xsks_map /\ filling = NONE /\ offered < MAX_PACKETS

(* The kernel takes a frame off the fill ring and copies a packet into it,   *)
(* before it looks for room on the rx ring.                                  *)
KernelCopies(kind) ==
  LET frame == Head(fill_ring)
  IN  /\ Redirecting
      /\ fill_ring # <<>>
      /\ fill_ring' = Tail(fill_ring)
      /\ filling' = frame
      /\ umem' = [umem EXCEPT ![frame] = [id |-> offered + 1, kind |-> kind]]
      /\ offered' = offered + 1
      /\ UNCHANGED <<pc, g_running, setup, rx_ring, locals, stats, accepted, handled>>

(* Without a frame to copy it to a packet is lost. *)
KernelDrops ==
  /\ Redirecting
  /\ fill_ring = <<>>
  /\ offered' = offered + 1
  /\ UNCHANGED <<pc, g_running, setup, rings, umem, filling, locals, stats, accepted, handled>>

KernelPublishes ==
  /\ filling # NONE
  /\ Len(rx_ring) < RING_SIZE
  /\ rx_ring' = Append(rx_ring, filling)
  /\ accepted' = Append(accepted, umem[filling])
  /\ filling' = NONE
  /\ UNCHANGED <<pc, g_running, setup, fill_ring, umem, locals, stats, offered, handled>>

-----------------------------------------------------------------------------
Setup ==
  \/ LoadXdpProgram \/ LoadFails
  \/ InitUmem \/ InitUmemFails
  \/ InitXskSocket \/ InitXskSocketFails
  \/ UpdateXskMap \/ UpdateXskMapFails
  \/ PopulateFillRing

Loop == While \/ Peek \/ Poll \/ HandlePacket \/ Release \/ Replenish

Cleanup == DetachProgram \/ DeleteSocket \/ DeleteUmem \/ FreeBuffer

Kernel == (\E kind \in Kinds : KernelCopies(kind)) \/ KernelDrops \/ KernelPublishes

Next == Setup \/ Loop \/ Cleanup \/ Kernel \/ SignalHandler

Spec == Init /\ [][Next]_vars

(* The thread of main() is scheduled again and again, poll() has a timeout,  *)
(* and the kernel finishes the packets it has begun; that packets or signals *)
(* arrive is not assumed.                                                    *)
FairSpec ==
  /\ Spec
  /\ WF_vars(Setup \/ Loop \/ Cleanup)
  /\ WF_vars(KernelPublishes)

-----------------------------------------------------------------------------
(* Properties *)

Stages == {"load", "umem", "socket", "map", "populate", "while", "peek", "poll", "for",
           "replenish", "detach", "delete_xsk", "delete_umem", "free_buffer", "exit"}

(* Type correctness. *)
TypeOK ==
  /\ pc \in Stages
  /\ g_running \in BOOLEAN
  /\ held \subseteq {"prog", "buffer", "umem", "xsk"}
  /\ xsks_map \in BOOLEAN
  /\ fill_ring \in Seq(Frames) /\ rx_ring \in Seq(Frames)
  /\ umem \in [Frames -> Packets \cup {NONE}]
  /\ filling \in Frames \cup {NONE}
  /\ rcvd \in 0 .. BATCH_SIZE
  /\ i \in 1 .. BATCH_SIZE + 1
  /\ addrs \in [Batch -> Frames \cup {NONE}]
  /\ {total_received, total_packets, parse_failures, total_adds, total_trades} \subseteq Nat
  /\ offered \in 0 .. MAX_PACKETS
  /\ accepted \in Seq(Packets) /\ handled \in Seq(Packets)

(* Where the frames in use are: in the rings, in the hands of the kernel, or *)
(* in addrs between release and replenishment.                               *)
Saved == IF pc = "replenish" THEN SubSeq(addrs, 1, rcvd) ELSE <<>>
InKernel == IF filling = NONE THEN <<>> ELSE <<filling>>
Circulating == fill_ring \o InKernel \o rx_ring \o Saved

(* From the moment the fill ring is populated no frame is lost and none is   *)
(* in two places, whatever packets were in them, and the kernel always finds *)
(* room on the rx ring for the packet it has copied.                         *)
FramesConserved ==
  /\ IsInjective(Circulating)
  /\ Len(fill_ring) <= FILL_RING_SIZE
  /\ filling # NONE => Len(rx_ring) < RING_SIZE
  /\ pc \in {"while", "peek", "poll", "for", "replenish"} =>
       ToSet(Circulating) = 0 .. NUM_FRAMES \div 2 - 1

(* A packet that has been published stays as it is until the loop has read   *)
(* it: the rx ring holds exactly the packets accepted and not yet released.  *)
PacketsIntact ==
  LET released == Len(accepted) - Len(rx_ring)
  IN  /\ \A k \in 1 .. Len(rx_ring) : umem[rx_ring[k]] = accepted[released + k]
      /\ pc = "for" => /\ rcvd <= Len(rx_ring)
                       /\ Len(handled) = released + i - 1

(* How many of the packets are of one of the kinds. *)
Among(packets, kinds) ==
  Cardinality({n \in 1 .. Len(packets) : packets[n].kind \in kinds})

(* The statistics account for every packet taken off the rx ring: it is      *)
(* counted once as received, with its batch, and once when it has been read, *)
(* as a packet or as a failure.  Whatever could not be parsed is among the   *)
(* failures; adds and trades are those that reached a book.                  *)
StatsAddUp ==
  /\ total_received = Len(handled) + (IF pc = "for" THEN rcvd - (i - 1) ELSE 0)
  /\ total_packets + parse_failures = Len(handled)
  /\ Among(handled, {"unparsed"}) <= parse_failures
  /\ total_adds = Among(handled, {"A"})
  /\ total_trades = Among(handled, {"T"})

(* "Parse Failures: %lu\n"                                                   *)
ParseFailuresAreUnparsed == parse_failures = Among(handled, {"unparsed"})

(* However setting up ends, what depends on a resource is gone before the    *)
(* resource is, the kernel writes to no buffer that has been freed, and at   *)
(* the end nothing is left behind.                                           *)
ResourcesNested ==
  /\ xsks_map => "xsk" \in held
  /\ filling # NONE => "xsk" \in held
  /\ "xsk" \in held => "umem" \in held
  /\ "umem" \in held => "buffer" \in held
  /\ pc = "exit" => held = {}

(* An accepted packet is handled sooner or later, unless the program is told *)
(* to stop.                                                                  *)
PacketsHandled ==
  \A n \in 1 .. MAX_PACKETS : Len(accepted) >= n ~> (Len(handled) >= n \/ ~g_running)

(* After a signal, whenever it comes, the program ends.                      *)
SignalStopsProgram == ~g_running ~> pc = "exit"

-----------------------------------------------------------------------------
Abstract == INSTANCE PacketFifo

(* The loop handles the accepted packets in their order, each once and as it *)
(* arrived, although frames are reused behind its back.                      *)
RefinesFifo == Abstract!Spec
=============================================================================
