--------------------------- MODULE TraceAnalyzer ---------------------------
(***************************************************************************)
(* The trace analyzer (trace_analyzer.c with rob.c, dep_mat.c, fu.c and    *)
(* inst_queue.c): a cycle by cycle model of an out-of-order core that      *)
(* replays one sample of instructions and reports the cycles it took.      *)
(*                                                                         *)
(* trace_analysis is sequential.  Its main loop calls the stages commit,   *)
(* writeback, execute, issue and dispatch in this order; one action is one *)
(* iteration of the loop of a stage, and stage, w and pos are the place in *)
(* the code, the remaining width and the place in the queue of the stage.  *)
(*                                                                         *)
(* An Inst that was dispatched is named by its rob_idx.  Its memory is     *)
(* freed when it commits: the entry is then NoInst, and every pointer that *)
(* is left to it dangles.                                                  *)
(***************************************************************************)
EXTENDS Inst, InstQueue, FiniteSets

CONSTANTS
    RobCapacity,     (* perfmodel.core.rob_size                              *)
    FrontendWidth,   (* perfmodel.core.frontend_width: dispatch_width        *)
    BackendWidth,    (* backend_width: issue_width, wb_width, commit_width   *)
    IqSize,          (* perfmodel.core.iq_size, 0 for no limit               *)
    LdqSize,         (* 16 in init_all_queues, likewise StqSize              *)
    StqSize,
    IntAluUnits,     (* perfmodel.numfu.intalu                               *)
    IntMultDivUnits, (* perfmodel.numfu.intmultdiv                           *)
    Ul2Latency,      (* perfmodel.ul2.latency: latency_l1_miss               *)
    TraceCapacity,   (* 1000001 in init_trace_buffer                         *)
    SampleLength,    (* perfmodel.sample.length: instructions of a sample    *)
    Codes,           (* the instructions of the guest program                *)
    Addrs,           (* the words it accesses, not 0                         *)
    NoInst,          (* an entry that holds no allocated Inst                *)
    NumSamples,      (* bound on the analyses of a behaviour                 *)
    MaxCycle         (* bound on the cycles of an analysis                   *)

Slot == 0 .. RobCapacity - 1

FUType == {"SimpleALU", "ComplexALU", "FPUnit", "LoadUnit", "StoreUnit",
           "BranchUnit", "EtcUnit"}

inst_type_fu_type_map ==
    [IntAlu |-> "SimpleALU", IntMult |-> "ComplexALU", IntDiv |-> "ComplexALU",
     SimdFloatAdd |-> "FPUnit", SimdFloatMult |-> "FPUnit",
     SimdFloatMultAcc |-> "FPUnit", MemRead |-> "LoadUnit",
     MemWrite |-> "StoreUnit", Branch |-> "BranchUnit", Syscall |-> "EtcUnit"]

latency ==
    [IntAlu |-> 1, IntMult |-> 3, IntDiv |-> 12, SimdFloatAdd |-> 10,
     SimdFloatMult |-> 12, SimdFloatMultAcc |-> 20, MemRead |-> 2,
     MemWrite |-> 3, Branch |-> 1, Syscall |-> 1]

fu_capacity ==
    [SimpleALU |-> IntAluUnits, ComplexALU |-> IntMultDivUnits, FPUnit |-> 2,
     LoadUnit |-> 1, StoreUnit |-> 1, BranchUnit |-> 1, EtcUnit |-> 1]

fu_num_stage ==
    [SimpleALU |-> IntAluUnits, ComplexALU |-> 3 * IntMultDivUnits,
     FPUnit |-> 10, LoadUnit |-> 1, StoreUnit |-> 3, BranchUnit |-> 1,
     EtcUnit |-> 1]

front_pipeline_depth == 12
max_penalty == 40
default_wb_latency == 2

(***************************************************************************)
(* The accesses of a load or store: one, or one per listed register.       *)
(* Doubleword and VFP transfers, which make more, and PLD, which makes     *)
(* none, are not among the codes.                                          *)
(***************************************************************************)
NumAccesses(code) ==
    CASE code.instr \in {"LD", "ST", "POP", "PUSH"} ->
            IF code.reglist = <<>> THEN 1 ELSE Len(code.reglist)
      [] OTHER -> 0

ASSUME ConfigAssumption ==
    /\ RobCapacity \in Nat \ {0}
    /\ FrontendWidth \in Nat \ {0}
    /\ BackendWidth \in Nat \ {0}
    /\ IqSize \in Nat
    /\ LdqSize \in Nat \ {0}
    /\ StqSize \in Nat \ {0}
    /\ IntAluUnits \in Nat \ {0}
    /\ IntMultDivUnits \in Nat \ {0}
    /\ Ul2Latency \in Nat

ASSUME BoundAssumption ==
    /\ SampleLength \in Nat \ {0}
    /\ NumSamples \in Nat
    /\ MaxCycle \in Nat

ASSUME ProgramAssumption ==
    /\ \A c \in Codes : c \in Code
    /\ Addrs \subseteq Nat \ {0}
    /\ NoInst \notin Inst(Codes)

(* A sample and the micro-operations of one instruction fit in the buffer. *)
ASSUME CapacityAssumption ==
    /\ TraceCapacity \in Nat
    /\ \A c \in Codes : SampleLength + NumAccesses(c) <= TraceCapacity

VARIABLES
    trace_buffer,      (* the recorded sample, a sequence of Inst            *)
    start_idx, end_idx, rob_size, entries,                     (* struct ROB *)
    dep_mat,           (* dep_mat[b] is the set of a with dep_mat[b][a] = 1  *)
    IQ, LDQ, STQ, FUBuffer,                          (* sequences of rob_idx *)
    num_active, num_issue,                                   (* FU occupancy *)
    num_fetched_insts, num_dispatched_insts, num_committed_insts,
    cur_cycle, actual_last_cycle,
    num_mispred_insts,
    sum_mispred_penalty, (* avg_mispred_penalty * num_mispred_insts          *)
    stage, w, pos,       (* control: see above                               *)
    samples,             (* analyses started (bound)                         *)
    num_unsupported      (* history: unsupported instructions of the sample  *)

rob == <<start_idx, end_idx, rob_size, entries>>
queues == <<IQ, LDQ, STQ, FUBuffer>>
fu == <<num_active, num_issue>>
counts == <<num_fetched_insts, num_dispatched_insts, num_committed_insts,
            num_unsupported>>
cycles == <<cur_cycle, actual_last_cycle>>
mispred == <<num_mispred_insts, sum_mispred_penalty>>
control == <<stage, w, pos>>
vars == <<trace_buffer, rob, dep_mat, queues, fu, counts, cycles, mispred,
          control, samples>>


-----------------------------------------------------------------------------
(* rob.c: the ring of instructions in program order from start_idx on. *)

next_idx(i) == (i + 1) % RobCapacity

(* The slots from start_idx up to end_idx: the instructions in flight. *)
Live == {s \in Slot : IF s >= start_idx THEN s < start_idx + rob_size
                      ELSE s + RobCapacity < start_idx + rob_size}

Age(s) == IF s >= start_idx THEN s - start_idx
          ELSE s - start_idx + RobCapacity

(* The slots that the walk from b back to start_idx visits. *)
Older(b) == {a \in Live : Age(a) < Age(b)}

is_rob_full == rob_size = RobCapacity

-----------------------------------------------------------------------------
(* dep_mat.c *)

in_order(start, x, y) ==
    \/ start <= x /\ start <= y /\ x < y
    \/ x < start /\ y < start /\ x < y
    \/ start <= y /\ x < start

is_dependent(a, b) == in_order(start_idx, a, b) /\ a \in dep_mat[b]

can_forward(inst) ==
    /\ inst.state = "Complete"
    /\ inst.type = "MemRead" => inst.remaining_latency <= 1

has_dependency(b) ==
    \E a \in Older(b) : is_dependent(a, b) /\ ~can_forward(entries[a])

(* Mutant: the walk looks at the youngest instruction only. *)
find_regs_dependency_youngest(inst) ==
    {a \in Live : Age(a) = rob_size - 1
                     /\ Elems(inst.src_reg) \cap Elems(entries[a].dst_reg) # {}}

(***************************************************************************)
(* find_regs_dependency for the new instruction inst: for each source      *)
(* register, the youngest instruction in the ROB that writes it.  The      *)
(* countdown of the code only ends the walk once every source is found.    *)
(***************************************************************************)
find_regs_dependency(inst) ==
    {a \in Live :
        \E r \in Elems(inst.src_reg) \ {R_INVLD} :
            /\ r \in Elems(entries[a].dst_reg)
            /\ \A c \in Live : r \in Elems(entries[c].dst_reg) => Age(c) <= Age(a)}

(* Mutant: the search looks at the youngest instruction only. *)
find_mems_dependency_youngest(inst) ==
    LET a     == (start_idx + rob_size - 1) % RobCapacity
        found == {i \in DOMAIN inst.eff_addr :
                     rob_size > 0 /\ inst.eff_addr[i] \in Elems(entries[a].eff_addr)}
    IN  [found |-> found, deps |-> IF found = {} THEN {} ELSE {a}, count |-> 0]

(***************************************************************************)
(* find_mems_dependency for the new instruction inst.  walk[k] is the      *)
(* state of the search after the k youngest instructions: the accesses of  *)
(* inst that were found (the code sets their eff_addr to 0), the           *)
(* instructions they were found in and the countdown.  An access that was  *)
(* found is compared as 0 with the remaining accesses of the same          *)
(* instruction, and counts again for each one that is itself set to 0.     *)
(* The search stops when the countdown is exactly 0.                       *)
(***************************************************************************)
find_mems_dependency(inst) ==
    LET addr(i) == inst.eff_addr[i]
        walk[k \in 0 .. rob_size] ==
            IF k = 0
            THEN [found |-> {}, deps |-> {}, count |-> Len(inst.eff_addr)]
            ELSE LET s     == walk[k - 1]
                     a     == (start_idx + rob_size - k) % RobCapacity
                     other == entries[a].eff_addr
                     new   == {i \in DOMAIN inst.eff_addr \ s.found :
                                  addr(i) # 0 /\ addr(i) \in Elems(other)}
                     again == {p \in new \X DOMAIN other :
                                  /\ other[p[2]] = 0
                                  /\ \E j \in 1 .. p[2] - 1 :
                                        other[j] = addr(p[1])}
                 IN  IF s.count = 0 THEN s
                     ELSE [found |-> s.found \cup new,
                           deps  |-> IF new = {} THEN s.deps ELSE s.deps \cup {a},
                           count |-> s.count - Cardinality(new)
                                             - Cardinality(again)]
    IN  walk[rob_size]

-----------------------------------------------------------------------------
(* fu.c *)

(* Mutant: one more instruction than the unit has inputs and stages. *)
try_FU_off_by_one(f) ==
    num_issue[f] <= fu_capacity[f] /\ num_active[f] <= fu_num_stage[f]

try_FU(f) == num_issue[f] < fu_capacity[f] /\ num_active[f] < fu_num_stage[f]

-----------------------------------------------------------------------------
(* convert_microop: the front of the buffer, decoded and split. *)

nth(regs, i) == IF i \in DOMAIN regs THEN regs[i] ELSE R_INVLD

microop(inst, type, src, dst, addr) ==
    [init_inst(inst.code) EXCEPT !.decoded = TRUE, !.type = type,
                                 !.src_reg = src, !.dst_reg = dst,
                                 !.eff_addr = addr]

(***************************************************************************)
(* One store or load per recorded access and the update of the stack       *)
(* pointer.  The code copies cache_miss when that of the new instruction   *)
(* is set, which it never is.                                              *)
(***************************************************************************)
microops(inst) ==
    LET n == Len(inst.eff_addr)
        access(i) ==
            IF inst.type = "Push"
            THEN microop(inst, "MemWrite", <<nth(inst.src_reg, i)>>, <<>>,
                         <<inst.eff_addr[i]>>)
            ELSE microop(inst, "MemRead", <<SP>>, <<nth(inst.dst_reg, i)>>,
                         <<inst.eff_addr[i]>>)
    IN  [i \in 1 .. n + 1 |->
            IF i <= n THEN access(i) ELSE microop(inst, "IntAlu", <<SP>>, <<SP>>, <<>>)]

decoded_front == decode_inst(Head(trace_buffer))

is_split == decoded_front.type \in {"Pop", "Push"}

converted_buffer ==
    IF is_split
    THEN push_front_insts(Tail(trace_buffer), TraceCapacity,
                          microops(decoded_front))
    ELSE <<decoded_front>> \o Tail(trace_buffer)

(* Mutant: the micro-operations are not counted as fetched. *)
converted_fetched_uncounted == num_fetched_insts

converted_fetched ==
    num_fetched_insts + IF is_split THEN Len(decoded_front.eff_addr) ELSE 0

-----------------------------------------------------------------------------
(***************************************************************************)
(* The recording of one instruction of a sample: push_code, push_memaddr   *)
(* for each access it makes (none when its condition fails), and, for a    *)
(* conditional instruction that ends a translation block, push_bpred.      *)
(***************************************************************************)
recorded_inst(code, n, base, miss, correct) ==
    LET inst == [init_inst(code) EXCEPT
                    !.eff_addr = [i \in 1 .. n |-> base + i - 1],
                    !.cache_miss = miss]
    IN  set_inst_bpred_mispred(inst, ~correct)

RecordInst(code, base, executed, miss, correct) ==
    LET n == IF executed THEN NumAccesses(code) ELSE 0
    IN  /\ stage = "fill"
        /\ samples < NumSamples
        /\ Len(trace_buffer) < SampleLength
        /\ code.cond \/ executed
        /\ n = 0 => ~miss /\ base = (CHOOSE a \in Addrs : TRUE)
        /\ ~correct => code.cond
        /\ trace_buffer' = push_back_inst(trace_buffer, TraceCapacity,
                               recorded_inst(code, n, base, miss, correct))
        /\ UNCHANGED <<rob, dep_mat, queues, fu, counts, cycles, mispred,
                       control, samples>>

(* trace_analysis up to its loop: init_trace_statistics, reset_all_FUs. *)
StartAnalysis ==
    /\ stage = "fill"
    /\ trace_buffer # <<>>
    /\ samples' = samples + 1
    /\ num_fetched_insts' = Len(trace_buffer)
    /\ num_dispatched_insts' = 0
    /\ num_committed_insts' = 0
    /\ num_unsupported' = 0
    /\ num_mispred_insts' = 0
    /\ sum_mispred_penalty' = 0
    /\ cur_cycle' = 0
    /\ actual_last_cycle' = 0
    /\ num_active' = [f \in FUType |-> 0]
    /\ num_issue' = [f \in FUType |-> 0]
    /\ stage' = "commit"
    /\ w' = BackendWidth
    /\ UNCHANGED <<trace_buffer, rob, dep_mat, queues, pos>>

-----------------------------------------------------------------------------
(* commit_insts: the oldest instructions leave the ROB and are freed. *)

can_commit ==
    /\ w > 0
    /\ rob_size # 0
    /\ entries[start_idx].state = "Complete"
    /\ entries[start_idx].remaining_latency = 0

CommitInst ==
    /\ stage = "commit"
    /\ can_commit
    /\ LDQ' = remove_inst(LDQ, start_idx)
    /\ STQ' = remove_inst(STQ, start_idx)
    /\ start_idx' = next_idx(start_idx)
    /\ rob_size' = rob_size - 1
    /\ entries' = [entries EXCEPT ![start_idx] = NoInst]
    /\ num_committed_insts' = num_committed_insts + 1
    /\ w' = w - 1
    /\ UNCHANGED <<trace_buffer, end_idx, dep_mat, IQ, FUBuffer, fu,
                   num_fetched_insts, num_dispatched_insts, num_unsupported,
                   cycles, mispred, stage, pos, samples>>

CommitReturn ==
    /\ stage = "commit"
    /\ ~can_commit
    /\ stage' = "writeback"
    /\ w' = BackendWidth
    /\ pos' = 1
    /\ UNCHANGED <<trace_buffer, rob, dep_mat, queues, fu, counts, cycles,
                   mispred, samples>>

-----------------------------------------------------------------------------
(***************************************************************************)
(* writeback_insts: a completed instruction counts down its writeback      *)
(* latency and leaves FUBuffer at 0.  Those that the loop does not reach   *)
(* because the width is used up do not count down.                         *)
(***************************************************************************)
WritebackInst ==
    /\ stage = "writeback"
    /\ w > 0
    /\ pos \in DOMAIN FUBuffer
    /\ LET s    == FUBuffer[pos]
           left == IF entries[s].state = "Complete"
                   THEN entries[s].remaining_latency - 1
                   ELSE entries[s].remaining_latency
       IN  /\ entries' = [entries EXCEPT ![s].remaining_latency = left]
           /\ IF entries[s].state = "Complete" /\ left = 0
              THEN /\ FUBuffer' = remove_from_list(FUBuffer, pos)
                   /\ w' = w - 1
                   /\ pos' = pos
              ELSE /\ pos' = pos + 1
                   /\ UNCHANGED <<FUBuffer, w>>
    /\ UNCHANGED <<trace_buffer, start_idx, end_idx, rob_size, dep_mat, IQ, LDQ,
                   STQ, fu, counts, cycles, mispred, stage, samples>>

WritebackReturn ==
    /\ stage = "writeback"
    /\ w = 0 \/ pos \notin DOMAIN FUBuffer
    /\ stage' = "execute"
    /\ pos' = 1
    /\ UNCHANGED <<trace_buffer, rob, dep_mat, queues, fu, counts, cycles,
                   mispred, w, samples>>

-----------------------------------------------------------------------------
(* execute_insts *)

writeback_latency(inst) ==
    default_wb_latency
      + IF inst.type # "MemRead" THEN 0
        ELSE 1 + IF inst.cache_miss THEN Ul2Latency ELSE 0

(* execute_inst: one cycle in the functional unit, released at the last. *)
executed_inst(inst) ==
    IF inst.remaining_latency - 1 <= 0
    THEN [inst EXCEPT !.state = "Complete",
                      !.remaining_latency = writeback_latency(inst)]
    ELSE [inst EXCEPT !.remaining_latency = @ - 1]

mispred_penalty(inst) ==
    LET penalty == front_pipeline_depth + cur_cycle - inst.dispatched_cycle
    IN  IF penalty > max_penalty THEN max_penalty ELSE penalty

ExecuteInst ==
    /\ stage = "execute"
    /\ pos \in DOMAIN FUBuffer
    /\ LET s     == FUBuffer[pos]
           f     == inst_type_fu_type_map[entries[s].type]
           inst  == executed_inst(entries[s])
           done  == inst.state = "Complete"
           wrong == done /\ inst.type = "Branch" /\ inst.bpred_mispred
       IN  IF entries[s].state = "Issue"
           THEN /\ entries' = [entries EXCEPT ![s] = inst]
                /\ num_active' = [num_active EXCEPT ![f] = IF done THEN @ - 1 ELSE @]
                /\ num_mispred_insts' = num_mispred_insts + IF wrong THEN 1 ELSE 0
                /\ sum_mispred_penalty' = sum_mispred_penalty
                                  + IF wrong THEN mispred_penalty(inst) ELSE 0
           ELSE UNCHANGED <<entries, num_active, mispred>>
    /\ pos' = pos + 1
    /\ UNCHANGED <<trace_buffer, start_idx, end_idx, rob_size, dep_mat, queues,
                   num_issue, counts, cycles, stage, w, samples>>

ExecuteReturn ==
    /\ stage = "execute"
    /\ pos \notin DOMAIN FUBuffer
    /\ stage' = "issue"
    /\ w' = BackendWidth
    /\ pos' = 1
    /\ UNCHANGED <<trace_buffer, rob, dep_mat, queues, fu, counts, cycles,
                   mispred, samples>>

-----------------------------------------------------------------------------
(* issue_insts: in the order of IQ, every instruction that can go. *)

can_issue(s) ==
    /\ entries[s].state = "Dispatch"
    /\ ~has_dependency(s)
    /\ try_FU(inst_type_fu_type_map[entries[s].type])

IssueInst ==
    /\ stage = "issue"
    /\ w > 0
    /\ pos \in DOMAIN IQ
    /\ can_issue(IQ[pos])
    /\ LET s == IQ[pos]
           f == inst_type_fu_type_map[entries[s].type]
       IN  /\ num_issue' = [num_issue EXCEPT ![f] = @ + 1]
           /\ num_active' = [num_active EXCEPT ![f] = @ + 1]
           /\ IQ' = remove_from_list(IQ, pos)
           /\ FUBuffer' = push_back_inst(FUBuffer, 0, s)
           /\ entries' = [entries EXCEPT
                            ![s].state = "Issue",
                            ![s].remaining_latency = latency[entries[s].type]]
    /\ w' = w - 1
    /\ UNCHANGED <<trace_buffer, start_idx, end_idx, rob_size, dep_mat, LDQ, STQ,
                   counts, cycles, mispred, stage, pos, samples>>

IssueSkip ==
    /\ stage = "issue"
    /\ w > 0
    /\ pos \in DOMAIN IQ
    /\ ~can_issue(IQ[pos])
    /\ pos' = pos + 1
    /\ UNCHANGED <<trace_buffer, rob, dep_mat, queues, fu, counts, cycles,
                   mispred, stage, w, samples>>

IssueReturn ==
    /\ stage = "issue"
    /\ w = 0 \/ pos \notin DOMAIN IQ
    /\ stage' = "dispatch"
    /\ w' = FrontendWidth
    /\ UNCHANGED <<trace_buffer, rob, dep_mat, queues, fu, counts, cycles,
                   mispred, pos, samples>>

-----------------------------------------------------------------------------
(* dispatch_insts: in program order from the buffer into ROB, IQ, LDQ, STQ. *)

dispatch_impossible(inst) ==
    \/ is_rob_full
    \/ is_full_queue(IQ, IqSize)
    \/ inst.type = "MemRead" /\ is_full_queue(LDQ, LdqSize)
    \/ inst.type = "MemWrite" /\ is_full_queue(STQ, StqSize)

can_dispatch ==
    /\ stage = "dispatch"
    /\ w > 0
    /\ trace_buffer # <<>>
    /\ ~dispatch_impossible(Head(converted_buffer))

DispatchInst ==
    /\ can_dispatch
    /\ Head(converted_buffer).type # "Unsupported"
    /\ LET inst == Head(converted_buffer)
           mems == find_mems_dependency(inst)
       IN  /\ entries' = [entries EXCEPT ![end_idx] =
                            [inst EXCEPT
                               !.state = "Dispatch",
                               !.dispatched_cycle = cur_cycle,
                               !.eff_addr = [i \in DOMAIN @ |->
                                   IF i \in mems.found THEN 0 ELSE @[i]]]]
           /\ dep_mat' = [dep_mat EXCEPT ![end_idx] =
                            find_regs_dependency(inst) \cup (mems.deps \cap Slot)]
           /\ IQ' = push_back_inst(IQ, IqSize, end_idx)
           /\ LDQ' = IF inst.type = "MemRead"
                     THEN push_back_inst(LDQ, LdqSize, end_idx) ELSE LDQ
           /\ STQ' = IF inst.type = "MemWrite"
                     THEN push_back_inst(STQ, StqSize, end_idx) ELSE STQ
    /\ end_idx' = next_idx(end_idx)
    /\ rob_size' = rob_size + 1
    /\ trace_buffer' = Tail(converted_buffer)
    /\ num_fetched_insts' = converted_fetched
    /\ num_dispatched_insts' = num_dispatched_insts + 1
    /\ w' = w - 1
    /\ UNCHANGED <<start_idx, FUBuffer, fu, num_committed_insts,
                   num_unsupported, cycles, mispred, stage, pos, samples>>

(* An unsupported instruction is dropped at once and takes no width. *)
DispatchUnsupported ==
    /\ can_dispatch
    /\ Head(converted_buffer).type = "Unsupported"
    /\ trace_buffer' = Tail(converted_buffer)
    /\ num_fetched_insts' = converted_fetched
    /\ num_dispatched_insts' = num_dispatched_insts + 1
    /\ num_committed_insts' = num_committed_insts + 1
    /\ num_unsupported' = num_unsupported + 1
    /\ UNCHANGED <<rob, dep_mat, queues, fu, cycles, mispred, control, samples>>

(* The front is decoded and split even when it cannot be dispatched. *)
DispatchStall ==
    /\ stage = "dispatch"
    /\ w > 0
    /\ trace_buffer # <<>>
    /\ dispatch_impossible(Head(converted_buffer))
    /\ trace_buffer' = converted_buffer
    /\ num_fetched_insts' = converted_fetched
    /\ stage' = "end_cycle"
    /\ UNCHANGED <<rob, dep_mat, queues, fu, num_dispatched_insts,
                   num_committed_insts, num_unsupported, cycles, mispred, w,
                   pos, samples>>

(* Mutant: the loop goes on when the buffer is empty. *)
DispatchReturn_continue ==
    /\ stage = "dispatch"
    /\ w = 0 \/ trace_buffer = <<>>
    /\ IF trace_buffer # <<>> THEN stage' = "end_cycle" ELSE UNCHANGED stage
    /\ UNCHANGED <<trace_buffer, rob, dep_mat, queues, fu, counts, cycles,
                   mispred, w, pos, samples>>

DispatchReturn ==
    /\ stage = "dispatch"
    /\ w = 0 \/ trace_buffer = <<>>
    /\ stage' = "end_cycle"
    /\ UNCHANGED <<trace_buffer, rob, dep_mat, queues, fu, counts, cycles,
                   mispred, w, pos, samples>>

-----------------------------------------------------------------------------
(***************************************************************************)
(* The end of the loop of trace_analysis: reflesh_all_FUs, the cycle       *)
(* counters, the cycle at which everything was dispatched, and the exit    *)
(* once everything has committed.                                          *)
(***************************************************************************)
(* Mutant: the loop ends when everything is dispatched. *)
analysis_done_early == num_dispatched_insts = num_fetched_insts

analysis_done == num_committed_insts = num_fetched_insts

(* Mutant: cur_cycle is read before it is incremented. *)
last_cycle_stale ==
    IF actual_last_cycle = 0 /\ num_dispatched_insts = num_fetched_insts
    THEN cur_cycle ELSE actual_last_cycle

last_cycle ==
    IF actual_last_cycle = 0 /\ num_dispatched_insts = num_fetched_insts
    THEN cur_cycle + 1 ELSE actual_last_cycle

EndCycle ==
    /\ stage = "end_cycle"
    /\ cur_cycle < MaxCycle
    /\ num_issue' = [f \in FUType |-> 0]
    /\ cur_cycle' = cur_cycle + 1
    /\ actual_last_cycle' = last_cycle
    /\ stage' = IF analysis_done THEN "fill" ELSE "commit"
    /\ w' = BackendWidth
    /\ UNCHANGED <<trace_buffer, rob, dep_mat, queues, num_active, counts,
                   mispred, pos, samples>>

(* The guest program ends between two samples. *)
Exited == stage = "fill" /\ UNCHANGED vars

Init ==
    /\ trace_buffer = <<>>
    /\ start_idx = 0 /\ end_idx = 0 /\ rob_size = 0
    /\ entries = [s \in Slot |-> NoInst]
    /\ dep_mat = [s \in Slot |-> {}]
    /\ IQ = <<>> /\ LDQ = <<>> /\ STQ = <<>> /\ FUBuffer = <<>>
    /\ num_active = [f \in FUType |-> 0]
    /\ num_issue = [f \in FUType |-> 0]
    /\ num_fetched_insts = 0 /\ num_dispatched_insts = 0
    /\ num_committed_insts = 0 /\ num_unsupported = 0
    /\ cur_cycle = 0 /\ actual_last_cycle = 0
    /\ num_mispred_insts = 0 /\ sum_mispred_penalty = 0
    /\ stage = "fill" /\ w = 0 /\ pos = 1
    /\ samples = 0

Analysis ==
    \/ CommitInst \/ CommitReturn
    \/ WritebackInst \/ WritebackReturn
    \/ ExecuteInst \/ ExecuteReturn
    \/ IssueInst \/ IssueSkip \/ IssueReturn
    \/ DispatchInst \/ DispatchUnsupported \/ DispatchStall \/ DispatchReturn
    \/ EndCycle

Record ==
    \E code \in Codes, base \in Addrs, executed, miss, correct \in BOOLEAN :
        RecordInst(code, base, executed, miss, correct)

Next == Record \/ StartAnalysis \/ Analysis \/ Exited

(* The analyzer thread is scheduled by the operating system. *)
Spec == Init /\ [][Next]_vars /\ WF_vars(Analysis)

-----------------------------------------------------------------------------
(* Properties *)

Stage == {"fill", "commit", "writeback", "execute", "issue", "dispatch",
          "end_cycle"}

(* Every variable has the type of the C variable it stands for. *)
TypeOK ==
    /\ trace_buffer \in Seq(Inst(Codes))
    /\ start_idx \in Slot /\ end_idx \in Slot
    /\ rob_size \in 0 .. RobCapacity
    /\ entries \in [Slot -> Inst(Codes) \cup {NoInst}]
    /\ dep_mat \in [Slot -> SUBSET Slot]
    /\ IQ \in Seq(Slot) /\ LDQ \in Seq(Slot) /\ STQ \in Seq(Slot)
    /\ FUBuffer \in Seq(Slot)
    /\ num_active \in [FUType -> Int] /\ num_issue \in [FUType -> Nat]
    /\ num_fetched_insts \in Nat /\ num_dispatched_insts \in Nat
    /\ num_committed_insts \in Nat /\ num_unsupported \in Nat
    /\ cur_cycle \in Nat /\ actual_last_cycle \in Nat
    /\ num_mispred_insts \in Nat /\ sum_mispred_penalty \in Int
    /\ stage \in Stage /\ w \in Nat /\ pos \in Nat \ {0}
    /\ samples \in Nat

InState(S) == {s \in Live : entries[s].state \in S}

InFlight == {s \in Live : \/ entries[s].state = "Issue"
                          \/ /\ entries[s].state = "Complete"
                             /\ entries[s].remaining_latency > 0}

OfType(t) == {s \in Live : entries[s].type = t}

(***************************************************************************)
(* commit_insts frees the oldest instruction while IQ, FUBuffer, LDQ and   *)
(* STQ hold pointers to instructions.  No queue ever holds a freed one:    *)
(* each holds, without duplicates, exactly the instructions of the ROB     *)
(* that are in its part of the pipeline, and an instruction is allocated   *)
(* exactly while the ring of the ROB covers it.                            *)
(***************************************************************************)
QueuesMirrorRob ==
    /\ \A s \in Slot : s \in Live <=> entries[s] # NoInst
    /\ NoDuplicates(IQ) /\ Elems(IQ) = InState({"Dispatch"})
    /\ NoDuplicates(FUBuffer) /\ Elems(FUBuffer) = InFlight
    /\ NoDuplicates(LDQ) /\ Elems(LDQ) = OfType("MemRead")
    /\ NoDuplicates(STQ) /\ Elems(STQ) = OfType("MemWrite")

(***************************************************************************)
(* The counters that end the loop of trace_analysis account for every      *)
(* instruction, although convert_microop changes both the number of        *)
(* fetched instructions and the buffer while the sample is replayed: what  *)
(* was not dispatched is in the buffer, what was dispatched and has not    *)
(* committed is in the ROB.                                                *)
(***************************************************************************)
CountsBalance ==
    stage # "fill" =>
        /\ num_dispatched_insts + Len(trace_buffer) = num_fetched_insts
        /\ num_committed_insts + rob_size = num_dispatched_insts

(***************************************************************************)
(* try_FU and release_FU are called from different stages: a functional    *)
(* unit is occupied by exactly the instructions that issued to it and have *)
(* not completed, and takes no more per cycle and in all than it has       *)
(* inputs and stages.                                                      *)
(***************************************************************************)
UnitsBalance ==
    \A f \in FUType :
        /\ num_active[f] = Cardinality({s \in InState({"Issue"}) :
                               inst_type_fu_type_map[entries[s].type] = f})
        /\ num_active[f] <= fu_num_stage[f]
        /\ num_issue[f] <= fu_capacity[f]

(***************************************************************************)
(* trace_analysis does not clear the ROB, the queues or the buffer between *)
(* two samples.  It leaves them empty, so that nothing of a sample leaks   *)
(* into the next one.                                                      *)
(***************************************************************************)
DrainedBetweenSamples ==
    stage = "fill" =>
        /\ rob_size = 0 /\ start_idx = end_idx
        /\ IQ = <<>> /\ LDQ = <<>> /\ STQ = <<>> /\ FUBuffer = <<>>
        /\ \A f \in FUType : num_active[f] = 0

(***************************************************************************)
(* The cycles that trace_analysis returns are never 0, and never fewer     *)
(* than dispatch_width allows for the instructions of the sample that take *)
(* width: the effective dispatch width that perfmodel_update derives is a  *)
(* number, and exceeds the configured width only by unsupported ones.      *)
(***************************************************************************)
ResultWithinWidth ==
    stage = "fill" /\ samples > 0 =>
        /\ actual_last_cycle > 0
        /\ num_dispatched_insts - num_unsupported <= FrontendWidth * actual_last_cycle

(***************************************************************************)
(* The misprediction penalty of a branch counts from its dispatch to its   *)
(* completion.  It is at least front_pipeline_depth and the two cycles     *)
(* that issue and execution take, and at most 40, so that the average is 0 *)
(* (what perfmodel_update takes for no data) only without a misprediction. *)
(***************************************************************************)
PenaltyInRange ==
    /\ sum_mispred_penalty >= (front_pipeline_depth + 2) * num_mispred_insts
    /\ sum_mispred_penalty <= max_penalty * num_mispred_insts

(* The two results that perfmodel_update takes from an analysis. *)
ResultInRange == ResultWithinWidth /\ PenaltyInRange

Issued(s) == /\ s \in Live /\ entries[s].state = "Dispatch"
             /\ entries'[s] # NoInst /\ entries'[s].state = "Issue"

(* The youngest instruction before b in flight that writes register r. *)
IsProducer(a, r, b) ==
    /\ a \in Older(b)
    /\ r \in Elems(entries[a].dst_reg)
    /\ \A c \in Older(b) : r \in Elems(entries[c].dst_reg) => Age(c) <= Age(a)

Operands(b) == Elems(entries[b].src_reg) \ {R_INVLD}

(***************************************************************************)
(* An instruction issues only when the producers of its source registers   *)
(* can forward their results, provided that the ring did not wrap around   *)
(* between the producer and the consumer.  The entries of dep_mat that     *)
(* earlier occupants of the slots left behind never matter.                *)
(***************************************************************************)
OperandsReadyUnwrapped ==
    [][\A b \in Slot : Issued(b) =>
          \A r \in Operands(b), a \in Slot :
              IsProducer(a, r, b) /\ a < b => can_forward(entries[a])]_vars

(***************************************************************************)
(* has_dependency exempts only "the oldest one" from the test: any other   *)
(* instruction issues only when the producers of its source registers can  *)
(* forward their results.                                                  *)
(***************************************************************************)
OperandsReady ==
    [][\A b \in Slot : Issued(b) =>
          \A r \in Operands(b), a \in Slot :
              IsProducer(a, r, b) => can_forward(entries[a])]_vars

(***************************************************************************)
(* convert_push_microop splits a PUSH into stores that "write from regs to *)
(* memory": the i-th store reads the i-th register of the list.            *)
(***************************************************************************)
PushStoresTheListedRegisters ==
    stage = "dispatch" /\ trace_buffer # <<>> =>
        LET inst == decoded_front
        IN  inst.type = "Push" /\ inst.code.reglist # <<>> =>
                \A i \in DOMAIN inst.eff_addr :
                    microops(inst)[i].src_reg = <<inst.code.reglist[i]>>

(***************************************************************************)
(* The loop of trace_analysis ends for every sample: no dependency, full   *)
(* queue or busy functional unit blocks the pipeline for ever.             *)
(***************************************************************************)
AnalysisEnds == (stage # "fill") ~> (stage = "fill")

=============================================================================
