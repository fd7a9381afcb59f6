----------------------------- MODULE PacketFifo -----------------------------
(***************************************************************************)
(* What the receive path promises: the packets the kernel accepts are      *)
(* handled one by one, in the order of their arrival, each at most once    *)
(* and with the contents it arrived with.  What has not been accepted is   *)
(* dropped and never seen; packets accepted may stay behind when the       *)
(* program ends.                                                           *)
(***************************************************************************)
EXTENDS Naturals, Sequences

CONSTANT Packets

VARIABLES
  accepted,    (* the packets accepted so far, in order                      *)
  handled      (* the packets handled so far, in order                       *)

vars == <<accepted, handled>>

Init ==
  /\ accepted = <<>>
  /\ handled = <<>>

Accept(p) ==
  /\ accepted' = Append(accepted, p)
  /\ UNCHANGED handled

Handle ==
  /\ Len(handled) < Len(accepted)
  /\ handled' = Append(handled, accepted[Len(handled) + 1])
  /\ UNCHANGED accepted

Next == (\E p \in Packets : Accept(p)) \/ Handle

Spec == Init /\ [][Next]_vars
=============================================================================
