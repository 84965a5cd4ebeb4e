---------------------------- MODULE PacketBuffer ----------------------------
(***************************************************************************)
(* packet_buffer.c as comm_send and comm_recv of hsim_comm.c use it: a     *)
(* ring in shared memory between one sending and one receiving process,    *)
(* without locks.  The sender polls pb_is_full and the receiver            *)
(* pb_is_empty; pb_write and pb_read copy a packet and then advance an     *)
(* index.  Each of these is a step of its own.  The stores of a process    *)
(* become visible in program order (x86, and no reordering of memcpy with  *)
(* the volatile index by the compiler).                                    *)
(***************************************************************************)
EXTENDS Naturals, Sequences

CONSTANTS PKT_BUFFER_SIZE, Packet, NoPacket

ASSUME BufferAssumption ==
    /\ PKT_BUFFER_SIZE \in Nat \ {0, 1}
    /\ NoPacket \notin Packet

VARIABLES
    start, end, elems,       (* PacketBuffer                               *)
    snd_at, snd_pkt,         (* place and argument of comm_send            *)
    rcv_at, rcv_pkt,         (* place and packet of comm_recv              *)
    received                 (* the packet that comm_recv returned last    *)

sender == <<snd_at, snd_pkt>>
receiver == <<rcv_at, rcv_pkt, received>>
vars == <<start, end, elems, sender, receiver>>

Index == 0 .. PKT_BUFFER_SIZE - 1

next(i) == (i + 1) % PKT_BUFFER_SIZE

(* Mutant: the sender does not wait for space. *)
pb_is_full_unchecked == FALSE

(* Mutant: the end of the array is taken for the end of the ring. *)
pb_is_full_at_end == next(end) = start \/ end + 1 = PKT_BUFFER_SIZE

pb_is_full == next(end) = start

pb_is_empty == end = start

Init ==
    /\ start = 0 /\ end = 0
    /\ elems = [i \in Index |-> NoPacket]
    /\ snd_at = "idle" /\ snd_pkt = NoPacket
    /\ rcv_at = "idle" /\ rcv_pkt = NoPacket
    /\ received = NoPacket

-----------------------------------------------------------------------------
(* comm_send, in the mode shmem_comm_mode *)

SendCall(p) ==
    /\ snd_at = "idle"
    /\ snd_pkt' = p
    /\ snd_at' = "poll"
    /\ UNCHANGED <<start, end, elems, receiver>>

SendPoll ==
    /\ snd_at = "poll"
    /\ ~pb_is_full
    /\ snd_at' = "copy"
    /\ UNCHANGED <<start, end, elems, snd_pkt, receiver>>

(* usleep, and the next turn of the loop *)
SendSleep == snd_at = "poll" /\ pb_is_full /\ UNCHANGED vars

WriteCopy ==
    /\ snd_at = "copy"
    /\ elems' = [elems EXCEPT ![end] = snd_pkt]
    /\ snd_at' = "advance"
    /\ UNCHANGED <<start, end, snd_pkt, receiver>>

(* Mutant: the index is advanced by both pb_write and its caller. *)
WriteAdvance_twice ==
    /\ snd_at = "advance"
    /\ end' = next(next(end))
    /\ snd_at' = "idle"
    /\ snd_pkt' = NoPacket
    /\ UNCHANGED <<start, elems, receiver>>

WriteAdvance ==
    /\ snd_at = "advance"
    /\ end' = next(end)
    /\ snd_at' = "idle"
    /\ snd_pkt' = NoPacket
    /\ UNCHANGED <<start, elems, receiver>>

-----------------------------------------------------------------------------
(* comm_recv *)

RecvCall ==
    /\ rcv_at = "idle"
    /\ rcv_at' = "poll"
    /\ UNCHANGED <<start, end, elems, sender, rcv_pkt, received>>

RecvPoll ==
    /\ rcv_at = "poll"
    /\ ~pb_is_empty
    /\ rcv_at' = "copy"
    /\ UNCHANGED <<start, end, elems, sender, rcv_pkt, received>>

RecvSleep == rcv_at = "poll" /\ pb_is_empty /\ UNCHANGED vars

ReadCopy ==
    /\ rcv_at = "copy"
    /\ rcv_pkt' = elems[start]
    /\ rcv_at' = "advance"
    /\ UNCHANGED <<start, end, elems, sender, received>>

ReadAdvance ==
    /\ rcv_at = "advance"
    /\ start' = next(start)
    /\ received' = rcv_pkt
    /\ rcv_pkt' = NoPacket
    /\ rcv_at' = "idle"
    /\ UNCHANGED <<end, elems, sender>>

-----------------------------------------------------------------------------
SendStep == SendPoll \/ SendSleep \/ WriteCopy \/ WriteAdvance
RecvStep == RecvPoll \/ RecvSleep \/ ReadCopy \/ ReadAdvance

Next == \/ \E p \in Packet : SendCall(p)
        \/ RecvCall
        \/ SendStep
        \/ RecvStep

(* A call that is made runs; neither process has to make another call. *)
Spec == Init /\ [][Next]_vars /\ WF_vars(SendStep) /\ WF_vars(RecvStep)

-----------------------------------------------------------------------------
(* Properties *)

(* Every variable has its type; in particular the indices are in the ring. *)
TypeOK ==
    /\ start \in Index /\ end \in Index
    /\ elems \in [Index -> Packet \cup {NoPacket}]
    /\ snd_at \in {"idle", "poll", "copy", "advance"}
    /\ rcv_at \in {"idle", "poll", "copy", "advance"}
    /\ snd_pkt \in Packet \cup {NoPacket}
    /\ rcv_pkt \in Packet \cup {NoPacket}
    /\ received \in Packet \cup {NoPacket}

(* The number of packets in the ring and the place of the k-th one. *)
Count == IF end >= start THEN end - start ELSE end + PKT_BUFFER_SIZE - start

Place(k) == IF start + k - 1 < PKT_BUFFER_SIZE THEN start + k - 1
            ELSE start + k - 1 - PKT_BUFFER_SIZE

Contents == [k \in 1 .. Count |-> elems[Place(k)]]

(***************************************************************************)
(* A poll stays valid until the index moves, although the other process    *)
(* runs in between: a sender that saw the ring not full still has a free   *)
(* element, and a receiver that copied the oldest packet still has it at   *)
(* start when it advances.                                                 *)
(***************************************************************************)
PollStaysValid ==
    /\ snd_at \in {"copy", "advance"} => Count < PKT_BUFFER_SIZE - 1
    /\ snd_at = "advance" => elems[end] = snd_pkt
    /\ rcv_at \in {"copy", "advance"} => Count > 0
    /\ rcv_at = "advance" => rcv_pkt = elems[start]

(***************************************************************************)
(* The steps of pb_write and pb_read implement a FIFO channel that holds   *)
(* PKT_BUFFER_SIZE - 1 packets: one element of the ring stays free.        *)
(***************************************************************************)
Fifo == INSTANCE PacketFifo
            WITH Capacity <- PKT_BUFFER_SIZE - 1,
                 sending <- snd_pkt, channel <- Contents, received <- received

ImplementsFifo == Fifo!FifoSpec

(***************************************************************************)
(* With a receiver that keeps calling comm_recv, every comm_send returns:  *)
(* polling does not miss the space that is freed.                          *)
(***************************************************************************)
SendReturns == []<>(rcv_at # "idle") => ((snd_at = "poll") ~> (snd_at = "idle"))

=============================================================================
