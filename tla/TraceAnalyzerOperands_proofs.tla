-------------------- MODULE TraceAnalyzerOperands_proofs --------------------
(***************************************************************************)
(* Proofs about TraceAnalyzer: the dependency matrix makes an instruction  *)
(* wait for the producers of its operands, up to the wrap of the ring.     *)
(***************************************************************************)
EXTENDS TraceAnalyzer_proofs

(***************************************************************************)
(* The row of an instruction in flight holds the youngest older producer   *)
(* of each of its operands, as long as that producer is in flight.         *)
(***************************************************************************)
ProducersRecorded ==
    \A b \in Live : \A r \in Operands(b), a \in Slot :
        IsProducer(a, r, b) => a \in dep_mat[b]

(* Age counts the instructions in flight that are older. *)
LEMMA AgeRange ==
    ASSUME RingType
    PROVE  \A s \in Slot : Age(s) \in Nat /\ (s \in Live <=> Age(s) < rob_size)
  BY ConfigAssumption DEF RingType, Age, Live, Slot

(* The walk of the instructions older than b is the same after a step that *)
(* leaves the ring and the register lists of the instructions alone.       *)
LEMMA SameProducers ==
    ASSUME ProducersRecorded, UNCHANGED <<start_idx, rob_size, dep_mat>>,
           \A s \in Live : /\ entries'[s].src_reg = entries[s].src_reg
                           /\ entries'[s].dst_reg = entries[s].dst_reg
    PROVE  ProducersRecorded'
<1>1. Live' = Live /\ \A s \in Slot : Age(s)' = Age(s)
  BY DEF Live, Age
<1> SUFFICES ASSUME NEW b \in Live, NEW r \in Operands(b)', NEW a \in Slot, IsProducer(a, r, b)'
             PROVE  a \in dep_mat'[b]
  BY <1>1 DEF ProducersRecorded
<1>2. Live \subseteq Slot
  BY DEF Live
<1>3. Older(b)' = Older(b) /\ Older(b) \subseteq Live
  BY <1>1, <1>2 DEF Older
<1>4. r \in Operands(b)
  BY DEF Operands
<1>5. IsProducer(a, r, b)
  BY <1>1, <1>2, <1>3 DEF IsProducer
<1> QED BY <1>4, <1>5 DEF ProducersRecorded

(* When the oldest instruction is freed, the others keep their producers. *)
LEMMA CommitProducers == IInv /\ ProducersRecorded /\ CommitInst => ProducersRecorded'
<1> SUFFICES ASSUME IInv, ProducersRecorded, CommitInst,
                    NEW b \in Live', NEW r \in Operands(b)', NEW a \in Slot, IsProducer(a, r, b)'
             PROVE  a \in dep_mat'[b]
  BY ZenonT(60) DEF ProducersRecorded
<1>1. /\ start_idx \in Live /\ Live' = Live \ {start_idx} /\ RingType'
  BY RingRemove, SMTT(30) DEF IInv, TypeOK, RingType, CommitInst, can_commit
<1>2. /\ Live \subseteq Slot /\ dep_mat' = dep_mat
      /\ \A t \in Live \ {start_idx} : entries'[t] = entries[t]
  BY DEF IInv, TypeOK, CommitInst, Live
<1>3. \A s \in Live \ {start_idx} : Age(s)' = Age(s) - 1 /\ Age(s) \in Nat
  <2>1. start_idx' = IF start_idx = RobCapacity - 1 THEN 0 ELSE start_idx + 1
    BY NextIdx, ZenonT(60) DEF CommitInst, IInv, TypeOK
  <2> QED BY <1>2, <2>1, ConfigAssumption, SMTT(30) DEF Age, Slot, IInv, TypeOK
<1>4. Age(start_idx) = 0
  BY ConfigAssumption DEF Age, IInv, TypeOK, Slot
<1>5. Older(b)' = Older(b) \ {start_idx} /\ Older(b) \subseteq Live
  BY <1>1, <1>3 DEF Older
<1>6. r \in Operands(b)
  BY <1>1, <1>2 DEF Operands
<1>7. a \in Older(b) /\ a # start_idx /\ a \in Live
  BY <1>5 DEF IsProducer
<1>8. IsProducer(a, r, b)
  <2>1. r \in Elems(entries[a].dst_reg)
    BY <1>2, <1>7 DEF IsProducer
  <2>2. ASSUME NEW c \in Older(b), r \in Elems(entries[c].dst_reg) PROVE Age(c) <= Age(a)
    <3>1. CASE c = start_idx
      BY <1>3, <1>4, <1>7, <3>1, SMTT(30)
    <3>2. CASE c # start_idx
      <4>1. c \in Older(b)' /\ entries'[c] = entries[c]
        BY <1>2, <1>5, <3>2, SMTT(30)
      <4>2. Age(c)' <= Age(a)'
        BY <2>2, <4>1 DEF IsProducer
      <4> QED BY <1>3, <1>5, <1>7, <3>2, <4>2, SMTT(30)
    <3> QED BY <3>1, <3>2
  <2> QED BY <1>7, <2>1, <2>2, ZenonT(60) DEF IsProducer
<1> QED BY <1>1, <1>2, <1>6, <1>8, SMTT(30) DEF ProducersRecorded

(* find_regs_dependency finds the producers of the new instruction, which *)
(* is younger than all the others.                                        *)
LEMMA DispatchProducers == IInv /\ ProducersRecorded /\ DispatchInst => ProducersRecorded'
<1> SUFFICES ASSUME IInv, ProducersRecorded, DispatchInst PROVE ProducersRecorded'
  OBVIOUS
<1> DEFINE inst == Head(converted_buffer)
           mems == find_mems_dependency(inst)
           deps == find_regs_dependency(inst) \cup (mems.deps \cap Slot)
           addrs == [i \in DOMAIN inst.eff_addr |->
                        IF i \in mems.found THEN 0 ELSE inst.eff_addr[i]]
           x == [inst EXCEPT !.state = "Dispatch", !.dispatched_cycle = cur_cycle,
                             !.eff_addr = addrs]
<1>1. /\ entries' = [entries EXCEPT ![end_idx] = x]
      /\ dep_mat' = [dep_mat EXCEPT ![end_idx] = deps]
  BY DEF DispatchInst
<1>2. /\ rob_size # RobCapacity /\ end_idx' = next_idx(end_idx) /\ rob_size' = rob_size + 1
      /\ start_idx' = start_idx
  BY DEF DispatchInst, can_dispatch, dispatch_impossible, is_rob_full
<1>3. x.src_reg = inst.src_reg
  <2>1. inst \in Inst(Codes)
    BY DispatchedBuffer DEF DispatchInst
  <2> HIDE DEF inst, mems, addrs
  <2> QED BY <2>1 DEF Inst
<1>4. find_regs_dependency(inst) \subseteq deps
  BY ZenonT(60)
<1> HIDE DEF inst, mems, deps, addrs, x
<1>5. end_idx \notin Live /\ Live' = Live \cup {end_idx} /\ end_idx \in Slot /\ Live \subseteq Slot
  BY <1>2, RingInsert, SMTT(30) DEF IInv, TypeOK, RingType, Live
<1>6. /\ \A t \in Slot : entries'[t] = IF t = end_idx THEN x ELSE entries[t]
      /\ \A t \in Slot : dep_mat'[t] = IF t = end_idx THEN deps ELSE dep_mat[t]
  BY <1>1 DEF IInv, TypeOK
<1>7. /\ \A s \in Slot : Age(s)' = Age(s)
      /\ \A s \in Live : Age(s) < Age(end_idx) /\ Age(s) \in Nat
      /\ Age(end_idx) \in Nat
  <2>1. \A s \in Slot : Age(s)' = Age(s)
    BY <1>2, SMTT(30) DEF Age
  <2>2. Age(end_idx) = rob_size
    BY <1>2, ConfigAssumption, SMTT(30) DEF IInv, TypeOK, Ring, Age, Slot
  <2>3. \A s \in Slot : Age(s) \in Nat /\ (s \in Live <=> Age(s) < rob_size)
    BY AgeRange DEF IInv, TypeOK, RingType
  <2> QED BY <1>5, <2>1, <2>2, <2>3, SMTT(30)
<1> SUFFICES ASSUME NEW b \in Live', NEW r \in Operands(b)', NEW a \in Slot, IsProducer(a, r, b)'
             PROVE  a \in dep_mat'[b]
  BY DEF ProducersRecorded
<1>8. CASE b = end_idx
  <2>1. Older(b)' = Live
    BY <1>5, <1>7, <1>8, SMTT(30) DEF Older
  <2>2. r \in Elems(inst.src_reg) \ {R_INVLD}
    BY <1>3, <1>5, <1>6, <1>8, SMTT(30) DEF Operands
  <2>3. /\ a \in Live /\ r \in Elems(entries[a].dst_reg)
        /\ \A c \in Live : r \in Elems(entries[c].dst_reg) => Age(c) <= Age(a)
    BY <1>5, <1>6, <1>7, <2>1, SMTT(30) DEF IsProducer
  <2>4. a \in find_regs_dependency(inst)
    BY <2>2, <2>3, SMTT(30) DEF find_regs_dependency
  <2> QED BY <1>4, <1>5, <1>6, <1>8, <2>4, SMTT(30)
<1>9. CASE b # end_idx
  <2>1. b \in Live /\ Older(b)' = Older(b) /\ Older(b) \subseteq Live
    BY <1>5, <1>7, <1>9, SMTT(30) DEF Older
  <2>2. r \in Operands(b)
    BY <1>5, <1>6, <1>9, <2>1, ZenonT(60) DEF Operands
  <2>3. IsProducer(a, r, b)
    BY <1>5, <1>6, <1>7, <2>1, ZenonT(60) DEF IsProducer
  <2> QED BY <1>5, <1>6, <1>9, <2>1, <2>2, <2>3, SMTT(30) DEF ProducersRecorded
<1> QED BY <1>8, <1>9

(* writeback_insts leaves the registers of the instructions alone. *)
LEMMA WritebackProducers == IInv /\ ProducersRecorded /\ WritebackInst => ProducersRecorded'
<1> SUFFICES ASSUME IInv, ProducersRecorded, WritebackInst PROVE ProducersRecorded'
  OBVIOUS
<1>1. PICK s \in Live : \E l : entries' = [entries EXCEPT ![s].remaining_latency = l]
  BY BufferedEntry, ZenonT(60) DEF WritebackInst
<1>2. PICK l : entries' = [entries EXCEPT ![s].remaining_latency = l]
  BY <1>1, ZenonT(60)
<1> DEFINE x == [entries[s] EXCEPT !.remaining_latency = l]
<1>3. x.src_reg = entries[s].src_reg /\ x.dst_reg = entries[s].dst_reg
  BY LiveEntry DEF Inst
<1>4. entries' = [entries EXCEPT ![s] = x]
  BY <1>2, ZenonT(60)
<1> HIDE DEF x
<1>5. \A t \in Live : /\ entries'[t].src_reg = entries[t].src_reg
                      /\ entries'[t].dst_reg = entries[t].dst_reg
  BY <1>3, <1>4, ZenonT(60) DEF IInv, TypeOK, Live
<1>6. UNCHANGED <<start_idx, rob_size, dep_mat>>
  BY DEF WritebackInst
<1> QED BY <1>5, <1>6, SameProducers, ZenonT(60)

(* So does execute_insts. *)
LEMMA ExecuteProducers == IInv /\ ProducersRecorded /\ ExecuteInst => ProducersRecorded'
<1> SUFFICES ASSUME IInv, ProducersRecorded, ExecuteInst PROVE ProducersRecorded'
  OBVIOUS
<1>1. \A x \in Inst(Codes) : /\ executed_inst(x).src_reg = x.src_reg
                             /\ executed_inst(x).dst_reg = x.dst_reg
  <2> SUFFICES ASSUME NEW x \in Inst(Codes)
               PROVE  /\ executed_inst(x).src_reg = x.src_reg
                      /\ executed_inst(x).dst_reg = x.dst_reg
    OBVIOUS
  <2>1. CASE x.remaining_latency - 1 <= 0
    <3>1. executed_inst(x) = [x EXCEPT !.state = "Complete",
                                       !.remaining_latency = writeback_latency(x)]
      BY <2>1 DEF executed_inst
    <3> QED BY <3>1 DEF Inst
  <2>2. CASE ~(x.remaining_latency - 1 <= 0)
    <3>1. executed_inst(x) = [x EXCEPT !.remaining_latency = x.remaining_latency - 1]
      BY <2>2, ZenonT(60) DEF executed_inst
    <3> QED BY <3>1 DEF Inst
  <2> QED BY <2>1, <2>2
<1>2. \/ entries' = entries
      \/ \E s \in Live : entries' = [entries EXCEPT ![s] = executed_inst(entries[s])]
  BY BufferedEntry, ZenonT(60) DEF ExecuteInst
<1>3. \A s \in Live : /\ entries'[s].src_reg = entries[s].src_reg
                      /\ entries'[s].dst_reg = entries[s].dst_reg
  BY <1>1, <1>2, LiveEntry, ZenonT(60) DEF IInv, TypeOK
<1>4. UNCHANGED <<start_idx, rob_size, dep_mat>>
  BY DEF ExecuteInst
<1> QED BY <1>3, <1>4, SameProducers, SMTT(30)

(* What issue_insts does to the instruction that it issues. *)
LEMMA IssuedInst ==
    ASSUME IInv, IssueInst
    PROVE  LET s == IQ[pos]
               x == [entries[s] EXCEPT !.state = "Issue",
                                       !.remaining_latency = latency[entries[s].type]]
           IN  /\ s \in Live /\ can_issue(s)
               /\ entries' = [entries EXCEPT ![s] = x]
               /\ x.src_reg = entries[s].src_reg /\ x.dst_reg = entries[s].dst_reg
<1>1. IQ[pos] \in Live /\ can_issue(IQ[pos])
  BY DEF IInv, QueuesMirrorRob, Elems, InState, IssueInst
<1>2. entries[IQ[pos]] \in Inst(Codes)
  BY <1>1, LiveEntry
<1>3. entries' = [entries EXCEPT ![IQ[pos]] =
                    [entries[IQ[pos]] EXCEPT !.state = "Issue",
                         !.remaining_latency = latency[entries[IQ[pos]].type]]]
  BY ZenonT(60) DEF IssueInst
<1> QED BY <1>1, <1>2, <1>3 DEF Inst

(* issue_insts leaves the registers alone. *)
LEMMA IssueProducers == IInv /\ ProducersRecorded /\ IssueInst => ProducersRecorded'
<1> SUFFICES ASSUME IInv, ProducersRecorded, IssueInst PROVE ProducersRecorded'
  OBVIOUS
<1>1. PICK s \in Live :
        \E x : /\ entries' = [entries EXCEPT ![s] = x]
               /\ x.src_reg = entries[s].src_reg /\ x.dst_reg = entries[s].dst_reg
  BY IssuedInst, ZenonT(60)
<1>2. \A t \in Live : /\ entries'[t].src_reg = entries[t].src_reg
                      /\ entries'[t].dst_reg = entries[t].dst_reg
  BY <1>1 DEF IInv, TypeOK, Live
<1>3. UNCHANGED <<start_idx, rob_size, dep_mat>>
  BY DEF IssueInst
<1> QED BY <1>2, <1>3, SameProducers

(* The remaining steps touch neither the ROB nor the matrix. *)
LEMMA OtherSteps ==
    ASSUME [Next]_vars, ~CommitInst, ~WritebackInst, ~ExecuteInst, ~IssueInst, ~DispatchInst
    PROVE  UNCHANGED <<start_idx, rob_size, entries, dep_mat>>
  BY ZenonT(60) DEF Next, Analysis, Record, RecordInst, StartAnalysis, CommitReturn, WritebackReturn,
         ExecuteReturn, IssueSkip, IssueReturn, DispatchUnsupported, DispatchStall,
         DispatchReturn, EndCycle, Exited, vars, rob

(* Every step keeps the producers recorded. *)
LEMMA StepProducers == IInv /\ ProducersRecorded /\ [Next]_vars => ProducersRecorded'
<1> SUFFICES ASSUME IInv, ProducersRecorded, [Next]_vars PROVE ProducersRecorded'
  OBVIOUS
<1>1. UNCHANGED <<start_idx, rob_size, entries, dep_mat>> => ProducersRecorded'
  BY SameProducers, SMTT(30)
<1> QED BY <1>1, OtherSteps, CommitProducers, WritebackProducers, ExecuteProducers,
           IssueProducers, DispatchProducers

(* At the start there is no instruction in flight. *)
LEMMA InitProducers == Init => ProducersRecorded
  BY ConfigAssumption, SMTT(30) DEF Init, ProducersRecorded, Live, Slot

(* Only issue_insts turns a dispatched instruction into an issued one. *)
LEMMA OnlyIssueIssues ==
    ASSUME IInv, [Next]_vars, NEW b \in Slot, Issued(b)
    PROVE  can_issue(b)
<1>1. b \in Live /\ entries[b].state = "Dispatch" /\ entries'[b] # entries[b]
  BY DEF Issued
<1>2. b \notin InFlight
  BY <1>1, ZenonT(60) DEF InFlight
<1>3. CASE CommitInst
  <2>1. entries[start_idx].state = "Complete"
    BY <1>3 DEF CommitInst, can_commit
  <2>2. entries' = [entries EXCEPT ![start_idx] = NoInst]
    BY <1>3, ZenonT(60) DEF CommitInst
  <2> QED BY <1>1, <2>1, <2>2, ZenonT(60) DEF IInv, TypeOK
<1>4. CASE WritebackInst \/ ExecuteInst
  <2>1. FUBuffer[pos] \in InFlight
    <3>1. pos \in DOMAIN FUBuffer
      BY <1>4, ZenonT(60) DEF WritebackInst, ExecuteInst
    <3> QED BY <3>1, BufferedEntry, ZenonT(60)
  <2>2. \E x : entries' = [entries EXCEPT ![FUBuffer[pos]] = x]
    <3>1. CASE WritebackInst
      BY <3>1, ZenonT(60) DEF WritebackInst
    <3>2. CASE ExecuteInst
      <4>1. entries' = entries
            \/ entries' = [entries EXCEPT ![FUBuffer[pos]] = executed_inst(entries[FUBuffer[pos]])]
        BY <3>2 DEF ExecuteInst
      <4>2. entries = [entries EXCEPT ![FUBuffer[pos]] = entries[FUBuffer[pos]]]
        BY DEF IInv, TypeOK
      <4> QED BY <4>1, <4>2
    <3> QED BY <1>4, <3>1, <3>2, ZenonT(60)
  <2> QED BY <1>1, <1>2, <2>1, <2>2, ZenonT(60) DEF IInv, TypeOK
<1>5. CASE IssueInst
  <2>1. PICK s \in Live : can_issue(s) /\ \E x : entries' = [entries EXCEPT ![s] = x]
    BY <1>5, IssuedInst, ZenonT(60)
  <2> QED BY <1>1, <2>1, SMTT(30) DEF IInv, TypeOK
<1>6. CASE DispatchInst
  <2>1. \E x : entries' = [entries EXCEPT ![end_idx] = x]
    BY <1>6, ZenonT(60) DEF DispatchInst
  <2>2. end_idx \notin Live
    <3>1. rob_size # RobCapacity
      BY <1>6, ZenonT(60) DEF DispatchInst, can_dispatch, dispatch_impossible, is_rob_full
    <3> QED BY <3>1, ConfigAssumption, SMTT(30) DEF IInv, TypeOK, Ring, Live, Slot
  <2> QED BY <1>1, <2>1, <2>2, SMTT(30) DEF IInv, TypeOK
<1> QED BY <1>1, <1>3, <1>4, <1>5, <1>6, OtherSteps, ZenonT(60)

(* An instruction that issues finds its producers able to forward. *)
LEMMA StepOperands ==
    ASSUME IInv, ProducersRecorded, [Next]_vars,
           NEW b \in Slot, Issued(b), NEW r \in Operands(b), NEW a \in Slot,
           IsProducer(a, r, b), a < b
    PROVE  can_forward(entries[a])
<1>1. ~has_dependency(b)
  BY OnlyIssueIssues, ZenonT(60) DEF can_issue
<1>2. a \in Older(b) /\ a \in dep_mat[b]
  BY ZenonT(60) DEF IsProducer, ProducersRecorded, Issued
<1>3. in_order(start_idx, a, b)
  BY <1>2, ConfigAssumption, SMTT(30) DEF in_order, Older, Age, IInv, TypeOK, Slot
<1> QED BY <1>1, <1>2, <1>3, ZenonT(60) DEF has_dependency, is_dependent

(***************************************************************************)
(* The instructions wait for their operands, except for the one case of a  *)
(* ring that wraps between producer and consumer, in which                 *)
(* is_dependent takes the older instruction for the younger one.           *)
(***************************************************************************)
THEOREM OperandsCorrect == Spec => OperandsReadyUnwrapped
<1> DEFINE Ready == \A b \in Slot : Issued(b) =>
                        \A r \in Operands(b), a \in Slot :
                            IsProducer(a, r, b) /\ a < b => can_forward(entries[a])
<1>1. IInv /\ ProducersRecorded /\ [Next]_vars => Ready
  BY StepOperands
<1>2. OperandsReadyUnwrapped <=> [][Ready]_vars
  BY DEF OperandsReadyUnwrapped
<1> HIDE DEF Ready
<1> QED BY <1>1, <1>2, AlwaysIInv, InitProducers, StepProducers, PTL DEF Spec

=============================================================================
