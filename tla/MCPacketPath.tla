---------------------------- MODULE MCPacketPath ----------------------------
(***************************************************************************)
(* Packets for TLC, two queues.  Headers of 20 and 24 bytes, and a length  *)
(* on either side of every bound that one of the parsers checks; one frame *)
(* each for the other ways not to be market data.                          *)
(***************************************************************************)
EXTENDS PacketPath

Message == [type |-> "A", ts_ns |-> 9, price |-> 6, qty |-> 1]

Frame(len, ihl, version) ==
  [len |-> len, h_proto |-> "ipv4", version |-> version, ihl |-> ihl,
   protocol |-> "udp", dest |-> 1234, msg |-> Message]

MCFrames ==
  {Frame(l, 5, 4) : l \in {13, 14, 33, 34, 41, 42, 66, 67}}
    \cup {Frame(l, 6, 4) : l \in {45, 46, 67, 70, 71}}
    \cup {Frame(67, 4, 4), Frame(67, 5, 6), Frame(71, 6, 6)}
    \cup {[Frame(67, 5, 4) EXCEPT !.h_proto = "other"],
          [Frame(67, 5, 4) EXCEPT !.protocol = "other"],
          [Frame(67, 5, 4) EXCEPT !.dest = 0]}
=============================================================================
