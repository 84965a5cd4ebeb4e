----------------------------- MODULE PacketFifo -----------------------------
(***************************************************************************)
(* What a PacketBuffer promises the two processes that share it: a FIFO    *)
(* channel of at most Capacity packets that loses, duplicates and reorders *)
(* nothing.  The sender blocks while the channel is full, the receiver     *)
(* while it is empty.                                                      *)
(***************************************************************************)
EXTENDS Naturals, Sequences

CONSTANTS Packet, NoPacket, Capacity

VARIABLES
    sending,   (* the packet of the comm_send in progress, or NoPacket *)
    channel,   (* the packets sent and not received                    *)
    received   (* the packet that comm_recv returned last              *)

fifo_vars == <<sending, channel, received>>

FifoInit == sending = NoPacket /\ channel = <<>> /\ received = NoPacket

Send(p) == /\ sending = NoPacket
           /\ sending' = p
           /\ UNCHANGED <<channel, received>>

Enter == /\ sending # NoPacket
         /\ Len(channel) < Capacity
         /\ channel' = Append(channel, sending)
         /\ sending' = NoPacket
         /\ UNCHANGED received

Leave == /\ channel # <<>>
         /\ received' = Head(channel)
         /\ channel' = Tail(channel)
         /\ UNCHANGED sending

FifoNext == (\E p \in Packet : Send(p)) \/ Enter \/ Leave

FifoSpec == FifoInit /\ [][FifoNext]_fifo_vars

=============================================================================
