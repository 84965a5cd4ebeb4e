------------------------------ MODULE HsimStub ------------------------------
(***************************************************************************)
(* The stub (hsim_stub.c) through which the emulated core talks to the     *)
(* simulation kernel, another process: requests go through one packet ring *)
(* and replies through another, system calls through registers in shared   *)
(* memory, and the data of fetch_mem through a one-element buffer.         *)
(*                                                                         *)
(* A ring is the FIFO channel that PacketBuffer implements.  The type of   *)
(* an address is fixed, as MemMap shows for disjoint regions.  The kernel  *)
(* is not part of the repository.  It knows of a request what the packet   *)
(* and the registers hold when it takes the packet.  The stub expects one  *)
(* reply to a blocking read and to every system call but begin, and none   *)
(* to any other packet; a kernel that goes by the comments of PacketType   *)
(* answers the stores too, which are sent as blocking, so the model's      *)
(* kernel may.                                                             *)
(*                                                                         *)
(* The 41 system calls are kept as the cases of hsim_internal_access.      *)
(***************************************************************************)
EXTENDS Integers, Sequences

CONSTANTS
    Shared, Virtual, Unmapped, (* addresses, by their type in the memory map *)
    Value,                     (* of memory and of registers 0 and 2         *)
    Capacity,                  (* of a ring                                  *)
    CycleSpace,                (* cycles are counted modulo 2^64             *)
    MaxCycle,                  (* bound on perfmodel_getSimpleCycle          *)
    MaxDrop,                   (* bound on how much updates of the           *)
                               (* performance model lower it                 *)
    NoticePeriod,              (* of the environment file                    *)
    MaxAccesses,               (* bound on the accesses of the guest         *)
    MaxStrayed                 (* the same once the kernel has strayed       *)

(***************************************************************************)
(* What hsim_internal_access tells apart: served in the stub (get_id,      *)
(* get_num_insts, get_il1_miss, get_il1_access), forwarded to the kernel   *)
(* (27 of them), or ignored (nop, for all those).                          *)
(***************************************************************************)
Local == {"get_num_insts"}
Forwarded == {"hw_lock"}
Syscall == Local \cup Forwarded \cup
    {"nop", "begin", "exit", "set_notice_period", "sleep", "wakeup", "fetch_mem"}

Reg == {0, 2, 7}         (* argument and result, fetch size, syscall number *)
Address == Shared \cup Virtual \cup Unmapped

(***************************************************************************)
(* num is the system call that the registers held when the packet was      *)
(* made; it is not sent, and only the properties look at it.  data is the  *)
(* size of the fetch for fetch_mem.                                        *)
(***************************************************************************)
Packet == [type : {"read", "write", "elapsed", "syscall"}, cycle : 0 .. CycleSpace,
           address : Address \cup Reg, data : Value, blocking : BOOLEAN,
           num : Syscall]

Uninitialized == CycleSpace      (* what a cycle that was never set is shown as *)

NoOp == [type |-> "elapsed", cycle |-> 0, address |-> 7, data |-> 0,
         blocking |-> FALSE, num |-> "nop"]

ASSUME StubAssumption ==
    /\ Value \subseteq Nat /\ 0 \in Value /\ 1 \in Value
    /\ Capacity \in Nat \ {0} /\ MaxCycle \in Nat /\ MaxDrop \in Nat
    /\ NoticePeriod \in Nat /\ MaxAccesses \in Nat /\ MaxStrayed \in 0 .. MaxAccesses
    /\ CycleSpace \in Nat /\ CycleSpace > MaxCycle + MaxDrop + MaxAccesses + 1
    /\ Shared \cap Virtual = {}

VARIABLES
    at, op,                     (* place and access of the guest thread      *)
    tqsim_cpu_cycle, tqsim_last_sync_cycles, comm_notice_period,
    hsim_register,              (* shared                                    *)
    sendBuffer, recvBuffer,     (* shared, the rings                         *)
    sharedBuffer,               (* shared, the size of the data in it        *)
    kernel,                     (* the kernel: its memory, the cycles it was *)
                                (* told, and the reply it owes               *)
    accesses, guest_mem,        (* history: number of accesses, the values   *)
    unsent, dropped,            (* the guest wrote last, the cycles of       *)
                                (* accesses that sent nothing, and by how    *)
                                (* much the estimate was lowered             *)
    stray, strayed              (* history: replies beyond those that are    *)
                                (* waited for; the kernel has answered       *)
                                (* otherwise than the stub expects           *)

clock == <<tqsim_cpu_cycle, tqsim_last_sync_cycles, comm_notice_period>>
shared == <<hsim_register, sendBuffer, recvBuffer, sharedBuffer>>
history == <<accesses, guest_mem, unsent, dropped>>
answers == <<stray, strayed>>
vars == <<at, op, clock, shared, kernel, history, answers>>

(***************************************************************************)
(* hsim_start.  hsim_shmem_initialize sends begin and does not wait; the   *)
(* cycle of that packet is not initialized.                                *)
(***************************************************************************)
Init ==
    /\ at = "run" /\ op = NoOp
    /\ tqsim_cpu_cycle = 0 /\ tqsim_last_sync_cycles = 0 /\ comm_notice_period = NoticePeriod
    /\ hsim_register = [r \in Reg |-> IF r = 7 THEN "begin" ELSE 0]
    /\ sendBuffer = <<[NoOp EXCEPT !.type = "syscall", !.num = "begin",
                                   !.cycle = Uninitialized]>>
    /\ recvBuffer = <<>> /\ sharedBuffer = 0
    /\ kernel = [mem |-> [a \in Shared |-> 0], cycles |-> 0, owes |-> "nothing",
                 size |-> 0]
    /\ accesses = 0 /\ guest_mem = [a \in Shared |-> 0] /\ unsent = 0 /\ dropped = 0
    /\ stray = 0 /\ strayed = FALSE

-----------------------------------------------------------------------------
(* The guest: hsim_access, from its call to its comm_send *)

(***************************************************************************)
(* perfmodel_getSimpleCycle, where the guest calls the stub: it grows, but *)
(* for the updates of the performance model that lower the estimate.       *)
(***************************************************************************)
cycles_now == {c \in 0 .. MaxCycle : tqsim_cpu_cycle - c <= MaxDrop - dropped}

GetCycle(cur) ==
    /\ tqsim_cpu_cycle' = cur
    /\ dropped' = IF cur < tqsim_cpu_cycle THEN dropped + (tqsim_cpu_cycle - cur)
                  ELSE dropped

(* Mutant: the cycles since the start are reported. *)
delta_cycle_total(cur) == IF cur > 0 THEN cur ELSE 1

delta_cycle(cur) == IF cur > tqsim_last_sync_cycles
                    THEN cur - tqsim_last_sync_cycles ELSE 1

(* The call is about to send p. *)
Sending(cur, p) ==
    /\ at' = "send" /\ op' = p
    /\ GetCycle(cur)
    /\ UNCHANGED <<tqsim_last_sync_cycles, sendBuffer, recvBuffer, sharedBuffer, kernel,
                   answers>>

(* The call returns without sending; tqsim_last_sync_cycles is set all the same. *)
NotSending(cur) ==
    /\ GetCycle(cur) /\ tqsim_last_sync_cycles' = cur
    /\ unsent' = unsent + (cur - tqsim_last_sync_cycles)
    /\ UNCHANGED <<at, op, sendBuffer, recvBuffer, sharedBuffer, kernel, answers>>

Accessing ==
    /\ at = "run"
    /\ accesses < IF strayed THEN MaxStrayed ELSE MaxAccesses
    /\ accesses' = accesses + 1

(* Mutant: the data is not copied into the packet. *)
mem_access_no_data(cur, addr, rw, val) ==
    /\ Accessing
    /\ Sending(cur, [type |-> IF rw THEN "write" ELSE "read", cycle |-> delta_cycle(cur),
                     address |-> addr, data |-> 0, blocking |-> TRUE, num |-> "nop"])
    /\ guest_mem' = IF rw THEN [guest_mem EXCEPT ![addr] = val] ELSE guest_mem
    /\ UNCHANGED <<comm_notice_period, hsim_register, unsent>>

(* A helper for a load or a store of a shared address: BlockingAccess. *)
mem_access(cur, addr, rw, val) ==
    /\ Accessing
    /\ Sending(cur, [type |-> IF rw THEN "write" ELSE "read", cycle |-> delta_cycle(cur),
                     address |-> addr, data |-> val, blocking |-> TRUE, num |-> "nop"])
    /\ guest_mem' = IF rw THEN [guest_mem EXCEPT ![addr] = val] ELSE guest_mem
    /\ UNCHANGED <<comm_notice_period, hsim_register, unsent>>

(* A miss in a first-level cache: NonBlockingAccess or InstAccess, no data. *)
miss_access(cur, addr, rw) ==
    /\ Accessing
    /\ IF addr \in Virtual
       THEN /\ Sending(cur, [type |-> IF rw THEN "write" ELSE "read",
                             cycle |-> delta_cycle(cur), address |-> addr, data |-> 0,
                             blocking |-> FALSE, num |-> "nop"])
            /\ UNCHANGED unsent
       ELSE NotSending(cur)
    /\ UNCHANGED <<comm_notice_period, hsim_register, guest_mem>>

(* An address that is neither shared nor local: exit(-1), without hsim_end. *)
IllegalAccess ==
    /\ at = "run"
    /\ at' = "exited"
    /\ UNCHANGED <<op, clock, shared, kernel, history, answers>>

(***************************************************************************)
(* An access to system register reg.  The last register is looked at after *)
(* a read of it too.                                                       *)
(***************************************************************************)
hsim_internal_access(cur, reg, rw, val) ==
    LET regs == IF rw THEN [hsim_register EXCEPT ![reg] = val] ELSE hsim_register
        num  == regs[7]
    IN  /\ Accessing
        /\ IF reg = 7 /\ num \in Forwarded \cup {"sleep", "fetch_mem"}
           THEN /\ Sending(cur, [type |-> "syscall", cycle |-> delta_cycle(cur),
                                 address |-> reg, data |-> regs[2], blocking |-> TRUE,
                                 num |-> num])
                /\ hsim_register' = regs
                /\ UNCHANGED <<comm_notice_period, unsent>>
           ELSE /\ NotSending(cur)
                /\ IF reg = 7 /\ num \in Local
                   THEN \E v \in Value : hsim_register' = [regs EXCEPT ![0] = v]
                   ELSE hsim_register' = regs
                /\ comm_notice_period' = IF reg = 7 /\ num = "set_notice_period"
                                         THEN regs[0] ELSE comm_notice_period
        /\ UNCHANGED guest_mem

-----------------------------------------------------------------------------
notice_due(cur) == cur > tqsim_last_sync_cycles
                   /\ cur - tqsim_last_sync_cycles > comm_notice_period

(* Called for every instruction *)
hsim_notice(cur) ==
    /\ at = "run"
    /\ IF notice_due(cur)
       THEN Sending(cur, [NoOp EXCEPT !.cycle = cur - tqsim_last_sync_cycles])
       ELSE /\ GetCycle(cur)
            /\ UNCHANGED <<at, op, tqsim_last_sync_cycles, sendBuffer, recvBuffer,
                           sharedBuffer, kernel, answers>>
    /\ UNCHANGED <<comm_notice_period, hsim_register, accesses, guest_mem, unsent>>

(* Mutant: the number of the call is not written. *)
hsim_end_unwritten(cur) ==
    /\ at = "run"
    /\ Sending(cur, [NoOp EXCEPT !.type = "syscall", !.num = "exit",
                                 !.cycle = (cur - tqsim_last_sync_cycles) % CycleSpace])
    /\ \E v \in Value : hsim_register' = [hsim_register EXCEPT ![0] = v]
    /\ UNCHANGED <<comm_notice_period, accesses, guest_mem, unsent>>

(* gdb_exit: the registers are written, then exit is sent. *)
hsim_end(cur) ==
    /\ at = "run"
    /\ Sending(cur, [NoOp EXCEPT !.type = "syscall", !.num = "exit",
                                 !.cycle = (cur - tqsim_last_sync_cycles) % CycleSpace])
    /\ \E v \in Value : hsim_register' = [hsim_register EXCEPT ![0] = v, ![7] = "exit"]
    /\ UNCHANGED <<comm_notice_period, accesses, guest_mem, unsent>>

-----------------------------------------------------------------------------
(* The guest: comm_send, comm_recv and the return *)

(* Mutant: reads are not waited for. *)
waits_for_reply_not_read(p) == p.type = "syscall"

waits_for_reply(p) == (p.type = "read" /\ p.blocking) \/ p.type = "syscall"

Return ==
    /\ at' = IF op.num = "exit" THEN "closed" ELSE "run"
    /\ op' = NoOp
    /\ tqsim_last_sync_cycles' = tqsim_cpu_cycle
    /\ UNCHANGED <<tqsim_cpu_cycle, comm_notice_period, history>>

comm_send ==
    /\ at = "send" /\ Len(sendBuffer) < Capacity
    /\ sendBuffer' = Append(sendBuffer, op)
    /\ IF waits_for_reply(op)
       THEN at' = "recv" /\ UNCHANGED <<op, clock, history>>
       ELSE Return
    /\ UNCHANGED <<hsim_register, recvBuffer, sharedBuffer, kernel, answers>>

(* The condition that ends the loop of sleep *)
woken == hsim_register[7] = "wakeup"

(* sleep receives until the register holds wakeup, fetch_mem goes on to the data. *)
comm_recv ==
    /\ at = "recv" /\ recvBuffer # <<>>
    /\ recvBuffer' = Tail(recvBuffer)
    /\ IF op.num = "fetch_mem"
       THEN at' = "data" /\ UNCHANGED <<op, clock, history>>
       ELSE IF op.num = "sleep" /\ ~woken
       THEN UNCHANGED <<at, op, clock, history>>
       ELSE Return
    /\ stray' = IF op.num = "sleep" /\ ~woken THEN stray - 1 ELSE stray
    /\ UNCHANGED <<hsim_register, sendBuffer, sharedBuffer, kernel, strayed>>

(* Mutant: a single byte is taken for none. *)
sp_is_empty_off_by_one == sharedBuffer <= 1

(* The buffer is full whenever it is not empty. *)
sp_is_empty == sharedBuffer = 0

sp_read == sharedBuffer' = 0

comm_recv_data ==
    /\ at = "data" /\ ~sp_is_empty
    /\ sp_read
    /\ Return
    /\ UNCHANGED <<hsim_register, sendBuffer, recvBuffer, kernel, answers>>

-----------------------------------------------------------------------------
(* The kernel, external *)

reply(v) == [NoOp EXCEPT !.data = v]

(* The cycle of p as the kernel reads it *)
cycle_read(p) == IF p.cycle = Uninitialized THEN {0, CycleSpace - 1} ELSE {p.cycle}

(* The packets whose sender waits for a reply *)
Expected(p) == (p.type = "read" /\ p.blocking) \/ (p.type = "syscall" /\ p.num # "begin")

(* p gets a reply or none; begin may have been taken for another call. *)
Answered(p, replied) ==
    /\ stray' = CASE replied /\ ~Expected(p) -> stray + 1
                  [] ~replied /\ Expected(p) -> stray - 1
                  [] OTHER -> stray
    /\ strayed' = \/ strayed
                  \/ replied # Expected(p)
                  \/ p.num = "begin" /\ hsim_register[7] # "begin"

(***************************************************************************)
(* It takes the oldest packet; for a system call it reads the registers,   *)
(* which may hold a later call than the one the packet was sent for.       *)
(* Whether it answers a number that the stub never sends is its affair.    *)
(***************************************************************************)
KernelTake ==
    /\ kernel.owes = "nothing" /\ sendBuffer # <<>> /\ Len(recvBuffer) < Capacity
    /\ sendBuffer' = Tail(sendBuffer)
    /\ \E cycle \in cycle_read(Head(sendBuffer)) :
       LET p    == Head(sendBuffer)
           told == (kernel.cycles + cycle) % CycleSpace
           num  == hsim_register[7]
       IN  \/ /\ p.type = "read"
              /\ recvBuffer' = IF p.blocking THEN Append(recvBuffer, reply(kernel.mem[p.address]))
                               ELSE recvBuffer
              /\ kernel' = [kernel EXCEPT !.cycles = told]
              /\ Answered(p, p.blocking)
              /\ UNCHANGED hsim_register
           \/ /\ p.type = "write"
              /\ \E replied \in {FALSE, p.blocking} :
                    /\ recvBuffer' = IF replied THEN Append(recvBuffer, reply(0))
                                     ELSE recvBuffer
                    /\ Answered(p, replied)
              /\ kernel' = [kernel EXCEPT !.cycles = told,
                                !.mem = IF p.address \in Shared
                                        THEN [@ EXCEPT ![p.address] = p.data] ELSE @]
              /\ UNCHANGED hsim_register
           \/ /\ p.type = "elapsed"
              /\ kernel' = [kernel EXCEPT !.cycles = told]
              /\ UNCHANGED <<hsim_register, recvBuffer, answers>>
           \/ /\ p.type = "syscall" /\ num = "begin"
              /\ Answered(p, FALSE)
              /\ UNCHANGED <<hsim_register, recvBuffer, kernel>>
           \/ /\ p.type = "syscall" /\ num = "sleep"
              /\ kernel' = [kernel EXCEPT !.cycles = told, !.owes = "wakeup"]
              /\ Answered(p, TRUE)
              /\ UNCHANGED <<hsim_register, recvBuffer>>
           \/ /\ p.type = "syscall" /\ num = "fetch_mem"
              /\ kernel' = [kernel EXCEPT !.cycles = told, !.owes = "data",
                                          !.size = hsim_register[2]]
              /\ recvBuffer' = Append(recvBuffer, reply(0))
              /\ Answered(p, TRUE)
              /\ UNCHANGED hsim_register
           \/ /\ p.type = "syscall" /\ num \notin {"begin", "sleep", "fetch_mem"}
              /\ \E v \in Value : hsim_register' = [hsim_register EXCEPT ![0] = v]
              /\ recvBuffer' = Append(recvBuffer, reply(0))
              /\ kernel' = [kernel EXCEPT !.cycles = told]
              /\ Answered(p, TRUE)
           \/ /\ p.type = "syscall"
              /\ num \notin {"begin", "sleep", "fetch_mem", "exit"} \cup Forwarded
              /\ kernel' = [kernel EXCEPT !.cycles = told]
              /\ Answered(p, FALSE)
              /\ UNCHANGED <<hsim_register, recvBuffer>>
    /\ UNCHANGED <<at, op, clock, sharedBuffer, history>>

(* The register is written before the reply is sent. *)
KernelWakeup ==
    /\ kernel.owes = "wakeup" /\ Len(recvBuffer) < Capacity
    /\ hsim_register' = [hsim_register EXCEPT ![7] = "wakeup"]
    /\ recvBuffer' = Append(recvBuffer, reply(0))
    /\ kernel' = [kernel EXCEPT !.owes = "nothing"]
    /\ UNCHANGED <<at, op, clock, sendBuffer, sharedBuffer, history, answers>>

(* comm_send_data on the other side *)
KernelData ==
    /\ kernel.owes = "data" /\ sp_is_empty
    /\ sharedBuffer' = kernel.size
    /\ kernel' = [kernel EXCEPT !.owes = "nothing", !.size = 0]
    /\ UNCHANGED <<at, op, clock, hsim_register, sendBuffer, recvBuffer, history, answers>>

-----------------------------------------------------------------------------
GuestStep == comm_send \/ comm_recv \/ comm_recv_data
KernelStep == KernelTake \/ KernelWakeup \/ KernelData

RegValue(reg) == IF reg = 7 THEN Syscall \ {"begin", "exit", "wakeup"} ELSE Value

Next ==
    \/ \E cur \in cycles_now :
          \/ \E addr \in Shared : \/ mem_access(cur, addr, FALSE, 0)
                                 \/ \E val \in Value : mem_access(cur, addr, TRUE, val)
          \/ \E addr \in Virtual \cup Unmapped, rw \in BOOLEAN : miss_access(cur, addr, rw)
          \/ \E reg \in Reg : \/ hsim_internal_access(cur, reg, FALSE, 0)
                             \/ \E val \in RegValue(reg) :
                                   hsim_internal_access(cur, reg, TRUE, val)
          \/ hsim_notice(cur)
          \/ hsim_end(cur)
    \/ IllegalAccess
    \/ GuestStep
    \/ KernelStep

Spec == Init /\ [][Next]_vars

(* A call that is made runs, and the kernel serves its requests. *)
FairSpec == Spec /\ WF_vars(GuestStep) /\ WF_vars(KernelStep)

-----------------------------------------------------------------------------
(* Properties *)

(* Every variable has its type. *)
TypeOK ==
    /\ at \in {"run", "send", "recv", "data", "closed", "exited"} /\ op \in Packet
    /\ tqsim_cpu_cycle \in 0 .. MaxCycle /\ tqsim_last_sync_cycles \in 0 .. MaxCycle
    /\ comm_notice_period \in Nat
    /\ \A r \in Reg : hsim_register[r] \in IF r = 7 THEN Syscall ELSE Value
    /\ Len(sendBuffer) <= Capacity /\ Len(recvBuffer) <= Capacity
    /\ \A i \in 1 .. Len(sendBuffer) : sendBuffer[i] \in Packet
    /\ sharedBuffer \in Value
    /\ kernel.mem \in [Shared -> Value] /\ kernel.cycles \in 0 .. CycleSpace - 1
    /\ stray \in Int /\ strayed \in BOOLEAN

PacketsWith(P(_)) == Len(SelectSeq(sendBuffer, P))

(***************************************************************************)
(* Replies and data reach the request they answer.  While the guest waits  *)
(* in comm_recv there is exactly one reply, made or to be made, and        *)
(* otherwise none; one left over answers every later request one too       *)
(* early, and only the loop of sleep takes it away.  Left over are the     *)
(* replies to stores (packet_write is "blocking", hsim_packet.h, but       *)
(* mem_access does not wait) and to begin, when the kernel takes it after  *)
(* the guest has written the next call into the register.  Without these,  *)
(* fetch_mem copies the number of bytes that it asked for and leaves no    *)
(* data behind, and when hsim_end unmaps the segments nothing is left in   *)
(* them.                                                                   *)
(***************************************************************************)
RepliesMatch ==
    /\ PacketsWith(Expected) + Len(recvBuffer) + (IF kernel.owes = "wakeup" THEN 1 ELSE 0)
          = stray + (IF at = "recv" THEN 1 ELSE 0)
    /\ ~strayed =>
          /\ stray = 0
          /\ at = "data" /\ sharedBuffer # 0 => sharedBuffer = op.data
          /\ at \in {"run", "closed"} => sharedBuffer = 0 /\ kernel.owes = "nothing"
          /\ at = "closed" => sendBuffer = <<>> /\ recvBuffer = <<>>

(***************************************************************************)
(* Although mem_access does not wait for a write, a later read of the same *)
(* address returns its value, as long as the kernel answers as expected.   *)
(***************************************************************************)
ReadsOwnWrites ==
    ~strayed /\ at = "recv" /\ op.type = "read" /\ recvBuffer # <<>> =>
        Head(recvBuffer).data = guest_mem[op.address]

(***************************************************************************)
(* The registers are shared and written before the packet is sent, behind  *)
(* packets the kernel has not taken.  When it takes the packet of a system *)
(* call, the registers still hold that call, as long as it answers as      *)
(* expected.  Not so for begin: the stub goes on without waiting and may   *)
(* have written the next call.                                             *)
(***************************************************************************)
SyscallIntact ==
    ~strayed =>
        \A i \in 1 .. Len(sendBuffer) :
            sendBuffer[i].type = "syscall" /\ sendBuffer[i].num # "begin" =>
                hsim_register[7] = sendBuffer[i].num

SumCycles == LET sum[i \in 0 .. Len(sendBuffer)] ==
                     IF i = 0 THEN 0
                     ELSE IF sendBuffer[i].num = "begin" THEN sum[i - 1]
                     ELSE sum[i - 1] + sendBuffer[i].cycle
             IN  sum[Len(sendBuffer)]

(***************************************************************************)
(* What the kernel was told, or will find in the ring, is what the guest   *)
(* reported, less the cycles of accesses that send no packet and plus at   *)
(* most one cycle for every access and the drops of the estimate, as long  *)
(* as the kernel answers as expected and takes begin, whose cycle is not   *)
(* initialized, for what it is.  The unsigned difference of hsim_end may   *)
(* wrap; the kernel's unsigned sum sets it right if no cycles were left    *)
(* out before.  The cycles that the guest has not yet reported are at most *)
(* the notice period, whatever accesses and changes of the period there    *)
(* were.                                                                   *)
(***************************************************************************)
CyclesReported ==
    /\ ~strayed /\ (at = "run" \/ (at = "closed" /\ unsent = 0)) =>
          LET told == (kernel.cycles + SumCycles) % CycleSpace
          IN  /\ tqsim_last_sync_cycles <= told + unsent
              /\ told + unsent <= tqsim_last_sync_cycles + accesses + dropped
    /\ at = "run" => tqsim_cpu_cycle <= tqsim_last_sync_cycles + comm_notice_period

(***************************************************************************)
(* Every call of the stub returns while the kernel answers as expected,    *)
(* but for a fetch_mem of 0 bytes: comm_recv_data takes the size 0 for an  *)
(* empty buffer.                                                           *)
(***************************************************************************)
AccessReturns ==
    (at \in {"send", "recv", "data"} /\ ~(op.num = "fetch_mem" /\ op.data = 0))
        ~> (at \in {"run", "closed"} \/ strayed)

=============================================================================
