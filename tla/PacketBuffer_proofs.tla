------------------------ MODULE PacketBuffer_proofs ------------------------
(***************************************************************************)
(* Proofs about PacketBuffer, for every size of the ring of at least 2 and *)
(* every set of packets: the indices stay in the ring, a poll stays valid  *)
(* until its index moves, and the ring implements a FIFO channel.          *)
(***************************************************************************)
EXTENDS PacketBuffer, SequenceTheorems, TLAPS

Size == PKT_BUFFER_SIZE

(***************************************************************************)
(* next, the index update of pb_write and pb_read, steps through the ring. *)
(***************************************************************************)
LEMMA NextIndex ==
    \A i \in Index : /\ next(i) \in Index
                     /\ next(i) = IF i = Size - 1 THEN 0 ELSE i + 1
<1> TAKE i \in Index
<1>1. Size \in Nat /\ Size > 1 /\ i \in Nat /\ i < Size
  BY BufferAssumption DEF Index, Size
<1>2. CASE i = Size - 1
  BY <1>1, <1>2 DEF next, Index, Size
<1>3. CASE i # Size - 1
  <2>1. i + 1 \in 0 .. Size - 1
    BY <1>1, <1>3
  <2>2. (i + 1) % Size = i + 1
    BY <2>1, <1>1
  <2> QED BY <2>1, <2>2, <1>3 DEF next, Index, Size
<1> QED BY <1>2, <1>3

(***************************************************************************)
(* The places of comm_send and comm_recv, what the packet of the sender is *)
(* at each, and PollStaysValid: the inductive invariant.                   *)
(***************************************************************************)
IInv == /\ TypeOK
        /\ PollStaysValid
        /\ snd_at = "idle" <=> snd_pkt = NoPacket

(* Before the first call the ring is empty and nobody is inside it. *)
LEMMA InitIInv == Init => IInv
<1> SUFFICES ASSUME Init PROVE IInv
  OBVIOUS
<1> USE BufferAssumption
<1>1. TypeOK
  BY DEF Init, TypeOK, Index
<1>2. PollStaysValid
  BY DEF Init, PollStaysValid
<1> QED BY <1>1, <1>2 DEF Init, IInv

(* Every step of the sender and of the receiver keeps the invariant. *)
LEMMA StepIInv == IInv /\ [Next]_vars => IInv'
<1> SUFFICES ASSUME IInv, [Next]_vars PROVE IInv'
  OBVIOUS
<1> USE BufferAssumption DEF IInv, Count, Size
<1>1. /\ next(end) \in Index
      /\ next(end) = IF end = Size - 1 THEN 0 ELSE end + 1
      /\ next(start) \in Index
      /\ next(start) = IF start = Size - 1 THEN 0 ELSE start + 1
  BY NextIndex DEF TypeOK
<1>2. ASSUME NEW p \in Packet, SendCall(p) PROVE IInv'
  BY <1>2 DEF SendCall, TypeOK, PollStaysValid, receiver
<1>3. CASE RecvCall
  BY <1>3 DEF RecvCall, TypeOK, PollStaysValid, sender
<1>4. CASE SendPoll
  BY <1>1, <1>4 DEF SendPoll, pb_is_full, TypeOK, PollStaysValid, receiver, Index
<1>5. CASE WriteCopy
  BY <1>5 DEF WriteCopy, TypeOK, PollStaysValid, receiver, Index
<1>6. CASE WriteAdvance
  BY <1>1, <1>6 DEF WriteAdvance, TypeOK, PollStaysValid, receiver, Index
<1>7. CASE RecvPoll
  BY <1>7 DEF RecvPoll, pb_is_empty, TypeOK, PollStaysValid, sender, Index
<1>8. CASE ReadCopy
  BY <1>8 DEF ReadCopy, TypeOK, PollStaysValid, sender, Index
<1>9. CASE ReadAdvance
  BY <1>1, <1>9 DEF ReadAdvance, TypeOK, PollStaysValid, sender, Index
<1>10. CASE UNCHANGED vars
  BY <1>10 DEF vars, sender, receiver, TypeOK, PollStaysValid
<1> QED BY <1>2, <1>3, <1>4, <1>5, <1>6, <1>7, <1>8, <1>9, <1>10
        DEF Next, SendStep, RecvStep, SendSleep, RecvSleep

(***************************************************************************)
(* The indices that pb_write and pb_read advance stay in the ring, and     *)
(* every packet in it is one that comm_send was given.                     *)
(***************************************************************************)
THEOREM TypeCorrect == Spec => []TypeOK
<1> QED BY InitIInv, StepIInv, PTL DEF Spec, IInv

(***************************************************************************)
(* What pb_is_full and pb_is_empty told a process still holds when it      *)
(* copies and advances, whatever the other process did since.              *)
(***************************************************************************)
THEOREM PollValid == Spec => []PollStaysValid
<1> QED BY InitIInv, StepIInv, PTL DEF Spec, IInv

-----------------------------------------------------------------------------
(* The refinement: Contents is the channel. *)

(* Append and Tail, as functions of the positions of the sequence. *)
LEMMA AppendIsFunction ==
    ASSUME NEW S, NEW s \in Seq(S), NEW e \in S
    PROVE  Append(s, e) = [k \in 1 .. Len(s) + 1 |-> IF k = Len(s) + 1 THEN e ELSE s[k]]
<1>1. DOMAIN Append(s, e) = 1 .. Len(s) + 1
  BY AppendProperties, LenProperties
<1>2. \A k \in 1 .. Len(s) + 1 : Append(s, e)[k] = IF k = Len(s) + 1 THEN e ELSE s[k]
  BY AppendProperties, LenProperties
<1>3. Append(s, e) = [k \in DOMAIN Append(s, e) |-> Append(s, e)[k]]
  BY AppendProperties, LenProperties, ZenonT(60)
<1> QED BY <1>1, <1>2, <1>3

(* Tail, index by index. *)
LEMMA TailIsFunction ==
    ASSUME NEW S, NEW s \in Seq(S), s # <<>>
    PROVE  Tail(s) = [k \in 1 .. Len(s) - 1 |-> s[k + 1]]
<1>1. DOMAIN Tail(s) = 1 .. Len(s) - 1
  BY HeadTailProperties, LenProperties
<1>2. \A k \in 1 .. Len(s) - 1 : Tail(s)[k] = s[k + 1]
  BY HeadTailProperties, LenProperties
<1>3. Tail(s) = [k \in DOMAIN Tail(s) |-> Tail(s)[k]]
  BY HeadTailProperties, LenProperties, ZenonT(60)
<1> QED BY <1>1, <1>2, <1>3

(* The packets of the ring, oldest first, form a sequence of Count packets. *)
LEMMA ContentsIsSeq ==
    ASSUME TypeOK
    PROVE  /\ Count \in 0 .. Size - 1
           /\ Contents \in Seq(Packet \cup {NoPacket})
           /\ Len(Contents) = Count
           /\ DOMAIN Contents = 1 .. Count
           /\ \A k \in 1 .. Count : Place(k) \in Index /\ Contents[k] = elems[Place(k)]
<1> USE BufferAssumption
<1>1. Count \in 0 .. Size - 1
  BY DEF TypeOK, Index, Count, Size
<1>2. \A k \in 1 .. Count : Place(k) \in Index
  BY <1>1 DEF TypeOK, Index, Count, Place, Size
<1>3. \A k \in 1 .. Count : elems[Place(k)] \in Packet \cup {NoPacket}
  BY <1>2 DEF TypeOK
<1>4. Count \in Nat
  BY <1>1 DEF Size
<1> QED BY <1>1, <1>2, <1>3, <1>4 DEF Contents

(* The copy of pb_write goes to an element that is not in the channel. *)
LEMMA CopyKeepsContents ==
    IInv /\ WriteCopy => Contents' = Contents
<1> SUFFICES ASSUME IInv, WriteCopy PROVE Contents' = Contents
  OBVIOUS
<1> USE BufferAssumption
<1>1. Count' = Count
  BY DEF WriteCopy, Count
<1>2. ASSUME NEW k \in 1 .. Count PROVE Place(k) \in Index /\ Place(k) # end
  BY DEF IInv, TypeOK, PollStaysValid, WriteCopy, Count, Place, Index
<1>3. ASSUME NEW k \in 1 .. Count PROVE elems'[Place(k)'] = elems[Place(k)]
  <2>1. Place(k)' = Place(k)
    BY DEF WriteCopy, Place
  <2> QED BY <1>2, <2>1 DEF WriteCopy, IInv, TypeOK
<1> QED BY <1>1, <1>3 DEF Contents

(* The index update of pb_write appends the copied packet. *)
LEMMA AdvanceAppends ==
    IInv /\ WriteAdvance => Contents' = Append(Contents, snd_pkt)
<1> SUFFICES ASSUME IInv, WriteAdvance PROVE Contents' = Append(Contents, snd_pkt)
  OBVIOUS
<1> USE BufferAssumption
<1>1. TypeOK /\ end \in Index /\ start \in Index
  BY DEF IInv, TypeOK
<1>2. Count' = Count + 1 /\ Count \in Nat
  <2>1. next(end) = IF end = Size - 1 THEN 0 ELSE end + 1
    BY <1>1, NextIndex
  <2> QED BY <1>1, <2>1 DEF IInv, PollStaysValid, WriteAdvance, Count, Index, Size
<1>3. \A k \in Nat : Place(k)' = Place(k)
  BY DEF WriteAdvance, Place
<1>4. Place(Count + 1) = end
  BY <1>1 DEF Count, Place, Index, Size
<1>5. elems[end] = snd_pkt /\ elems' = elems
  BY DEF IInv, PollStaysValid, WriteAdvance
<1>6. Contents \in Seq(Packet \cup {NoPacket}) /\ Len(Contents) = Count
  BY <1>1, ContentsIsSeq
<1>7. Append(Contents, snd_pkt) =
        [k \in 1 .. Count + 1 |-> IF k = Count + 1 THEN snd_pkt ELSE Contents[k]]
  BY <1>1, <1>6, <1>2, AppendIsFunction DEF TypeOK
<1>8. Contents' = [k \in 1 .. Count + 1 |-> elems[Place(k)]]
  BY <1>2, <1>3, <1>5 DEF Contents
<1>9. ASSUME NEW k \in 1 .. Count + 1
      PROVE elems[Place(k)] = IF k = Count + 1 THEN snd_pkt ELSE Contents[k]
  BY <1>2, <1>4, <1>5, <1>1, ContentsIsSeq
<1> QED BY <1>7, <1>8, <1>9

(* The index update of pb_read removes the oldest packet. *)
LEMMA AdvanceRemoves ==
    IInv /\ ReadAdvance => /\ Contents # <<>>
                           /\ Contents' = Tail(Contents)
                           /\ rcv_pkt = Head(Contents)
<1> SUFFICES ASSUME IInv, ReadAdvance
             PROVE  /\ Contents # <<>>
                    /\ Contents' = Tail(Contents)
                    /\ rcv_pkt = Head(Contents)
  OBVIOUS
<1> USE BufferAssumption
<1>1. TypeOK /\ end \in Index /\ start \in Index
  BY DEF IInv, TypeOK
<1>2. Count' = Count - 1 /\ Count \in Nat /\ Count > 0
  <2>1. next(start) = IF start = Size - 1 THEN 0 ELSE start + 1
    BY <1>1, NextIndex
  <2> QED BY <1>1, <2>1 DEF IInv, PollStaysValid, ReadAdvance, Count, Index, Size
<1>3. \A k \in 1 .. Count - 1 : Place(k)' = Place(k + 1)
  <2>1. next(start) = IF start = Size - 1 THEN 0 ELSE start + 1
    BY <1>1, NextIndex
  <2>2. Count <= Size - 1
    BY <1>1, ContentsIsSeq DEF Size
  <2> QED BY <1>1, <1>2, <2>1, <2>2 DEF ReadAdvance, Place, Index, Size
<1>4. Contents \in Seq(Packet \cup {NoPacket}) /\ Len(Contents) = Count
  BY <1>1, ContentsIsSeq
<1>5. Contents # <<>>
  BY <1>2, <1>4
<1>6. Head(Contents) = elems[start]
  <2>1. Place(1) = start
    BY <1>1 DEF Place, Index
  <2>2. Head(Contents) = Contents[1]
    BY <1>4, <1>5
  <2> QED BY <1>1, <1>2, <2>1, <2>2, ContentsIsSeq
<1>7. rcv_pkt = elems[start]
  BY DEF IInv, PollStaysValid, ReadAdvance
<1>8. Tail(Contents) = [k \in 1 .. Count - 1 |-> Contents[k + 1]]
  BY <1>4, <1>5, TailIsFunction
<1>9. Contents' = [k \in 1 .. Count - 1 |-> elems[Place(k + 1)]]
  BY <1>2, <1>3 DEF Contents, ReadAdvance
<1>10. ASSUME NEW k \in 1 .. Count - 1 PROVE elems[Place(k + 1)] = Contents[k + 1]
  BY <1>1, <1>2, ContentsIsSeq
<1> QED BY <1>5, <1>6, <1>7, <1>8, <1>9, <1>10

(* The empty ring is the empty channel. *)
LEMMA InitRefines == Init => Fifo!FifoInit
  BY BufferAssumption DEF Init, Fifo!FifoInit, Contents, Count

(* Every step of the ring is a step of the channel or leaves it alone. *)
LEMMA StepRefines == IInv /\ [Next]_vars => [Fifo!FifoNext]_(Fifo!fifo_vars)
<1> SUFFICES ASSUME IInv, [Next]_vars PROVE [Fifo!FifoNext]_(Fifo!fifo_vars)
  OBVIOUS
<1>1. ASSUME start' = start, end' = end, elems' = elems PROVE Contents' = Contents
  BY <1>1 DEF Contents, Count, Place
<1>2. ASSUME NEW p \in Packet, SendCall(p) PROVE Fifo!FifoNext
  BY <1>1, <1>2 DEF SendCall, receiver, IInv, Fifo!FifoNext, Fifo!Send
<1>3. CASE WriteAdvance
  <2>1. Len(Contents) < Size - 1
    BY <1>3, ContentsIsSeq DEF WriteAdvance, IInv, PollStaysValid, Size
  <2>2. snd_pkt # NoPacket
    BY <1>3 DEF WriteAdvance, IInv
  <2> QED BY <1>3, <2>1, <2>2, AdvanceAppends
          DEF WriteAdvance, receiver, Size, Fifo!FifoNext, Fifo!Enter
<1>4. CASE ReadAdvance
  BY <1>4, AdvanceRemoves DEF ReadAdvance, sender, Fifo!FifoNext, Fifo!Leave
<1>5. CASE WriteCopy
  BY <1>5, CopyKeepsContents DEF WriteCopy, receiver, Fifo!fifo_vars
<1>6. CASE RecvCall \/ SendPoll \/ RecvPoll \/ ReadCopy \/ UNCHANGED vars
  BY <1>1, <1>6 DEF RecvCall, SendPoll, RecvPoll, ReadCopy, vars, sender, receiver,
                    Fifo!fifo_vars
<1> QED BY <1>2, <1>3, <1>4, <1>5, <1>6
        DEF Next, SendStep, RecvStep, SendSleep, RecvSleep

(***************************************************************************)
(* pb_write and pb_read, cut into a copy and an index update and called by *)
(* two processes that share nothing but the ring, implement a FIFO channel *)
(* of PKT_BUFFER_SIZE - 1 packets: no packet is lost, duplicated,          *)
(* overwritten or reordered, for every size of the ring.                   *)
(***************************************************************************)
THEOREM RingImplementsFifo == Spec => ImplementsFifo
<1> QED BY InitIInv, StepIInv, InitRefines, StepRefines, PTL
        DEF Spec, ImplementsFifo, Fifo!FifoSpec

=============================================================================
