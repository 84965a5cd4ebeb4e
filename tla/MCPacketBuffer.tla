--------------------------- MODULE MCPacketBuffer ---------------------------
(* Two kinds of packets tell orders apart; the ring is full with three. *)
EXTENDS PacketBuffer
=============================================================================
