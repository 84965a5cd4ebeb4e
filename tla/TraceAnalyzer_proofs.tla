------------------------ MODULE TraceAnalyzer_proofs ------------------------
(***************************************************************************)
(* Proofs about TraceAnalyzer, for every configuration of the core, every  *)
(* program and every length of the sample: the steps preserve IInv.        *)
(***************************************************************************)
EXTENDS TraceAnalyzer_lemmas

(* Nothing is in flight before the first sample. *)
LEMMA InitIInv == Init => IInv
<1> SUFFICES ASSUME Init PROVE IInv
  OBVIOUS
<1> USE ConfigAssumption
<1>1. TypeOK
  BY DEF Init, TypeOK, Slot, Stage
<1>2. Live = {}
  BY DEF Init, Live, Slot
<1>3. Ring
  BY SMTT(30) DEF Init, Ring
<1>4. QueuesMirrorRob
  <2>1. Elems(<<>>) = {} /\ NoDuplicates(<<>>)
    BY DEF Elems, NoDuplicates
  <2>2. \A s \in Slot : entries[s] = NoInst
    BY DEF Init
  <2> QED BY <1>2, <2>1, <2>2
          DEF Init, QueuesMirrorRob, InState, InFlight, OfType
<1>5. Shape(trace_buffer)
  BY DEF Init, Shape
<1> QED BY <1>1, <1>2, <1>3, <1>4, <1>5, SMTT(30) DEF Init, IInv, LiveInsts, CountsBalance

(* commit_insts: what is freed is in no queue any more. *)
LEMMA CommitIInv == IInv /\ CommitInst => IInv'
<1> SUFFICES ASSUME IInv, CommitInst PROVE IInv'
  BY SMTT(30)
<1> USE ConfigAssumption
<1>1. /\ start_idx \in Live /\ Live' = Live \ {start_idx}
      /\ RingType' /\ Ring'
  BY RingRemove DEF IInv, TypeOK, RingType, CommitInst, can_commit
<1>2. start_idx \in Slot /\ entries \in [Slot -> Inst(Codes) \cup {NoInst}] /\ Live \subseteq Slot
      /\ \A t \in Slot : t \in Live <=> entries[t] # NoInst
  BY DEF IInv, TypeOK, QueuesMirrorRob, Live
<1>3. \A t \in Slot : entries'[t] = IF t = start_idx THEN NoInst ELSE entries[t]
  BY <1>2, ZenonT(60) DEF CommitInst
<1>4. /\ LDQ' \in Seq(Slot) /\ NoDuplicates(LDQ') /\ Elems(LDQ') = Elems(LDQ) \ {start_idx}
      /\ STQ' \in Seq(Slot) /\ NoDuplicates(STQ') /\ Elems(STQ') = Elems(STQ) \ {start_idx}
  BY RemoveInst, ZenonT(60) DEF IInv, TypeOK, QueuesMirrorRob, CommitInst
<1>5. TypeOK'
  BY <1>1, <1>2, <1>4, SMTT(30)
     DEF IInv, TypeOK, RingType, CommitInst, can_commit, fu, cycles, mispred
<1>6. InState({"Dispatch"})' = InState({"Dispatch"}) /\ InFlight' = InFlight
  BY <1>1, <1>2, <1>3, SMTT(30) DEF InState, InFlight, CommitInst, can_commit
<1>7. /\ OfType("MemRead")' = OfType("MemRead") \ {start_idx}
      /\ OfType("MemWrite")' = OfType("MemWrite") \ {start_idx}
  BY <1>1, <1>2, <1>3, ZenonT(60) DEF OfType
<1>8. QueuesMirrorRob'
  <2>1. \A t \in Slot : t \in Live' <=> entries'[t] # NoInst
    BY <1>1, <1>2, <1>3, ZenonT(60)
  <2> QED BY <1>4, <1>6, <1>7, <2>1, SMTT(30) DEF IInv, QueuesMirrorRob, CommitInst
<1>9. LiveInsts'
  BY <1>1, <1>2, <1>3, SMTT(30) DEF IInv, LiveInsts
<1>10. Shape(trace_buffer)' /\ CountsBalance' /\ (stage = "fill" => rob_size = 0)'
  BY DEF IInv, TypeOK, CommitInst, can_commit, Shape, CountsBalance
<1> QED BY <1>1, <1>5, <1>8, <1>9, <1>10, SMTT(30) DEF IInv

(* writeback_insts: an instruction leaves FUBuffer when its latency is 0. *)
LEMMA WritebackIInv == IInv /\ WritebackInst => IInv'
<1> SUFFICES ASSUME IInv, WritebackInst PROVE IInv'
  OBVIOUS
<1> DEFINE s == FUBuffer[pos]
           left == IF entries[s].state = "Complete"
                   THEN entries[s].remaining_latency - 1
                   ELSE entries[s].remaining_latency
           x == [entries[s] EXCEPT !.remaining_latency = left]
<1>1. /\ s \in Live /\ s \in Slot /\ entries[s] \in Inst(Codes) /\ Flying(entries[s])
      /\ pos \in DOMAIN FUBuffer
  BY BufferedEntry, ZenonT(60) DEF WritebackInst
<1>2. left \in Nat
  BY <1>1 DEF Flying, Inst
<1>3. /\ x \in Inst(Codes) /\ x.type = entries[s].type /\ x.state = entries[s].state
      /\ x.remaining_latency = left
  BY <1>1, <1>2, ZenonT(60) DEF Inst
<1>4. entries' = [entries EXCEPT ![s] = x]
  BY DEF WritebackInst
<1>5. entries[s].state \in {"Dispatch", "Issue", "Complete"}
  BY <1>1 DEF IInv, LiveInsts
<1>6. \/ /\ ~Flying(x) /\ FUBuffer' = remove_from_list(FUBuffer, pos)
         /\ w' = w - 1 /\ pos' = pos
      \/ Flying(x) /\ FUBuffer' = FUBuffer /\ w' = w /\ pos' = pos + 1
  <2>1. Flying(x) <=> ~(entries[s].state = "Complete" /\ left = 0)
    <3>1. Flying(x) <=> (entries[s].state = "Issue" \/ (entries[s].state = "Complete" /\ left > 0))
      BY <1>3 DEF Flying
    <3>2. entries[s].state \in {"Issue", "Complete"}
      BY <1>1 DEF Flying
    <3> HIDE DEF x, left, s
    <3> QED BY <1>2, <3>1, <3>2
  <2> HIDE DEF x
  <2>2. CASE Flying(x)
    BY <2>1, <2>2 DEF WritebackInst
  <2>3. CASE ~Flying(x)
    BY <2>1, <2>3 DEF WritebackInst
  <2> QED BY <2>2, <2>3
<1>7. x.state # "Dispatch" /\ UNCHANGED <<start_idx, rob_size>>
  BY <1>1, <1>3, SMTT(30) DEF Flying, WritebackInst
<1> HIDE DEF s, x, left
<1>8. /\ Live' = Live
      /\ entries' \in [Slot -> Inst(Codes) \cup {NoInst}]
      /\ \A t \in Slot : t \in Live' <=> entries'[t] # NoInst
      /\ OfType("MemRead")' = OfType("MemRead")
      /\ OfType("MemWrite")' = OfType("MemWrite")
      /\ InState({"Dispatch"})' = InState({"Dispatch"}) \ {s}
      /\ InFlight' = IF Flying(x) THEN InFlight \cup {s} ELSE InFlight \ {s}
      /\ LiveInsts'
  BY <1>1, <1>3, <1>4, <1>5, <1>7, UpdateEntry, ZenonT(60)
<1>9. InState({"Dispatch"})' = InState({"Dispatch"})
  BY <1>3, <1>7, <1>8 DEF InState
<1>10. /\ FUBuffer' \in Seq(Slot) /\ NoDuplicates(FUBuffer')
       /\ Elems(FUBuffer') = InFlight'
  <2>1. CASE Flying(x)
    <3>1. FUBuffer' = FUBuffer
      BY <1>6, <2>1, ZenonT(60)
    <3>2. s \in InFlight
      BY BufferedEntry, ZenonT(60) DEF WritebackInst, s
    <3> QED BY <1>8, <2>1, <3>1, <3>2, ZenonT(60) DEF IInv, TypeOK, QueuesMirrorRob
  <2>2. CASE ~Flying(x)
    BY <1>1, <1>6, <1>8, <2>2, RemoveFromList, SMTT(30) DEF IInv, TypeOK, QueuesMirrorRob, s
  <2> QED BY <2>1, <2>2
<1>11. TypeOK'
  <2>1. w' \in Nat /\ pos' \in Nat \ {0}
    <3>1. w \in Nat /\ w > 0 /\ pos \in Nat \ {0}
      BY DEF IInv, TypeOK, WritebackInst
    <3> QED BY <1>6, <3>1, SMTT(30)
  <2>2. UNCHANGED <<trace_buffer, start_idx, end_idx, rob_size, dep_mat, IQ, LDQ, STQ, fu,
                    counts, cycles, mispred, stage, samples>>
    BY ZenonT(60) DEF WritebackInst
  <2> QED BY <1>8, <1>10, <2>1, <2>2, ZenonT(60) DEF IInv, TypeOK, fu, counts, cycles, mispred
<1>12. QueuesMirrorRob'
  BY <1>8, <1>9, <1>10, SMTT(30) DEF IInv, QueuesMirrorRob, WritebackInst
<1>13. Ring' /\ Shape(trace_buffer)' /\ CountsBalance' /\ (stage = "fill" => rob_size = 0)'
  BY DEF IInv, WritebackInst, Ring, Shape, CountsBalance, counts
<1> QED BY <1>8, <1>11, <1>12, <1>13, SMTT(30) DEF IInv

(* execute_insts changes the state of an instruction, never its queue. *)
LEMMA ExecuteIInv == IInv /\ ExecuteInst => IInv'
<1> SUFFICES ASSUME IInv, ExecuteInst PROVE IInv'
  OBVIOUS
<1> DEFINE s == FUBuffer[pos]
           x == executed_inst(entries[s])
<1>1. /\ s \in Live /\ s \in Slot /\ entries[s] \in Inst(Codes) /\ Flying(entries[s])
      /\ entries[s].type \in PipelineType
  BY BufferedEntry, ZenonT(60) DEF ExecuteInst
<1>2. Ring' /\ Shape(trace_buffer)' /\ CountsBalance' /\ (stage = "fill" => rob_size = 0)'
  BY DEF IInv, ExecuteInst, Ring, Shape, CountsBalance, counts
<1>3. /\ pos' \in Nat \ {0}
      /\ UNCHANGED <<trace_buffer, start_idx, end_idx, rob_size, dep_mat, num_issue, counts,
                     cycles, stage, w, samples>>
  <2>1. /\ pos \in Nat \ {0} /\ pos' = pos + 1
        /\ UNCHANGED <<trace_buffer, start_idx, end_idx, rob_size, dep_mat, num_issue, counts,
                       cycles, stage, w, samples>>
    BY ZenonT(60) DEF IInv, TypeOK, ExecuteInst
  <2>2. pos' \in Nat \ {0}
    BY <2>1
  <2> QED BY <2>1, <2>2, ZenonT(60)
<1>4. CASE entries[s].state = "Issue"
  <2>1. /\ x \in Inst(Codes) /\ x.type = entries[s].type
        /\ x.state \in {"Issue", "Complete"} /\ Flying(x)
    BY <1>1, <1>4, ExecutedInst, SMTT(30)
  <2>2. /\ entries' = [entries EXCEPT ![s] = x]
        /\ UNCHANGED <<start_idx, rob_size, queues>>
    BY <1>4 DEF ExecuteInst
  <2>3. num_active' \in [FUType -> Int] /\ num_mispred_insts' \in Nat
        /\ sum_mispred_penalty' \in Int
    <3>1. mispred_penalty(x) \in Int
      BY <2>1, PenaltyType, ZenonT(60)
    <3>2. /\ num_active \in [FUType -> Int] /\ num_mispred_insts \in Nat
          /\ sum_mispred_penalty \in Int
      BY ZenonT(60) DEF IInv, TypeOK
    <3>3. \/ num_active' = num_active
          \/ \E f \in FUType : num_active' = [num_active EXCEPT ![f] = num_active[f] - 1]
      <4>1. inst_type_fu_type_map[entries[s].type] \in FUType
        BY <1>1, FUMapType
      <4> HIDE DEF x
      <4> QED BY <1>4, <3>2, <4>1, ZenonT(60) DEF ExecuteInst, x
    <3>4. num_mispred_insts' \in {num_mispred_insts, num_mispred_insts + 1}
      BY <1>4, <3>2 DEF ExecuteInst
    <3>5. sum_mispred_penalty' \in {sum_mispred_penalty, sum_mispred_penalty + mispred_penalty(x)}
      BY <1>4, <3>2 DEF ExecuteInst
    <3> HIDE DEF x, s
    <3> QED BY <3>1, <3>2, <3>3, <3>4, <3>5, SMTT(30)
  <2> HIDE DEF s, x
  <2>4. /\ Live' = Live
        /\ entries' \in [Slot -> Inst(Codes) \cup {NoInst}]
        /\ \A t \in Slot : t \in Live' <=> entries'[t] # NoInst
        /\ OfType("MemRead")' = OfType("MemRead")
        /\ OfType("MemWrite")' = OfType("MemWrite")
        /\ InState({"Dispatch"})' = InState({"Dispatch"}) \ {s}
        /\ InFlight' = InFlight \cup {s}
        /\ LiveInsts'
    BY <1>1, <2>1, <2>2, UpdateEntry, ZenonT(60)
  <2>5. InState({"Dispatch"})' = InState({"Dispatch"}) /\ InFlight' = InFlight
    BY <1>1, <1>4, <2>4, ZenonT(60) DEF InState, InFlight
  <2>6. TypeOK'
    BY <1>3, <2>2, <2>3, <2>4, ZenonT(60) DEF IInv, TypeOK, queues, counts, cycles
  <2>7. QueuesMirrorRob'
    BY <2>2, <2>4, <2>5 DEF IInv, QueuesMirrorRob, queues
  <2> QED BY <1>2, <2>4, <2>6, <2>7, ZenonT(60) DEF IInv
<1>5. CASE entries[s].state # "Issue"
  <2>1. UNCHANGED <<entries, num_active, mispred, start_idx, rob_size, queues>>
    BY <1>5, ZenonT(60) DEF ExecuteInst
  <2>2. TypeOK'
    BY <1>3, <2>1, ZenonT(60) DEF IInv, TypeOK, queues, counts, cycles, mispred
  <2>3. Live' = Live
    BY <2>1, ZenonT(60) DEF Live
  <2>4. QueuesMirrorRob' /\ LiveInsts'
    BY <2>1, <2>3, ZenonT(60) DEF IInv, QueuesMirrorRob, LiveInsts, InState, InFlight, OfType, queues
  <2> QED BY <1>2, <2>2, <2>4, ZenonT(60) DEF IInv
<1> QED BY <1>4, <1>5, ZenonT(60)

(* issue_insts moves an instruction from IQ to FUBuffer. *)
LEMMA IssueIInv == IInv /\ IssueInst => IInv'
<1> SUFFICES ASSUME IInv, IssueInst PROVE IInv'
  OBVIOUS
<1> DEFINE s == IQ[pos]
           x == [entries[s] EXCEPT !.state = "Issue",
                                   !.remaining_latency = latency[entries[s].type]]
<1>1. s \in InState({"Dispatch"}) /\ pos \in DOMAIN IQ
  BY DEF IInv, QueuesMirrorRob, Elems, IssueInst
<1>2. s \in Live /\ entries[s].state = "Dispatch"
  BY <1>1, ZenonT(60) DEF InState
<1>3. s \in Slot /\ entries[s] \in Inst(Codes) /\ entries[s].type \in PipelineType
  BY <1>2, LiveEntry, ZenonT(60) DEF IInv, LiveInsts
<1>4. latency[entries[s].type] \in Nat \ {0} /\ inst_type_fu_type_map[entries[s].type] \in FUType
  BY <1>3, FUMapType, SMTT(30)
<1>5. /\ x \in Inst(Codes) /\ x.type = entries[s].type /\ x.state = "Issue"
  BY <1>3, <1>4, ZenonT(60) DEF Inst, State
<1>6. Flying(x)
  BY <1>5 DEF Flying
<1>7. /\ entries' = [entries EXCEPT ![s] = x] /\ UNCHANGED <<start_idx, rob_size>>
      /\ IQ' = remove_from_list(IQ, pos) /\ FUBuffer' = Append(FUBuffer, s)
  BY ZenonT(60) DEF IssueInst, push_back_inst, is_full_queue
<1>8. num_active' \in [FUType -> Int] /\ num_issue' \in [FUType -> Nat]
  <2> DEFINE f == inst_type_fu_type_map[entries[s].type]
  <2>1. /\ num_issue' = [num_issue EXCEPT ![f] = num_issue[f] + 1]
        /\ num_active' = [num_active EXCEPT ![f] = num_active[f] + 1]
    BY DEF IssueInst
  <2>2. num_active \in [FUType -> Int] /\ num_issue \in [FUType -> Nat] /\ f \in FUType
    BY <1>4, ZenonT(60) DEF IInv, TypeOK
  <2> HIDE DEF f
  <2> QED BY <2>1, <2>2
<1> HIDE DEF s, x
<1>9. /\ Live' = Live
      /\ entries' \in [Slot -> Inst(Codes) \cup {NoInst}]
      /\ \A t \in Slot : t \in Live' <=> entries'[t] # NoInst
      /\ OfType("MemRead")' = OfType("MemRead")
      /\ OfType("MemWrite")' = OfType("MemWrite")
      /\ InState({"Dispatch"})' = InState({"Dispatch"}) \ {s}
      /\ InFlight' = InFlight \cup {s}
      /\ LiveInsts'
  BY <1>2, <1>5, <1>6, <1>7, UpdateEntry, ZenonT(60)
<1>10. /\ IQ' \in Seq(Slot) /\ NoDuplicates(IQ') /\ Elems(IQ') = Elems(IQ) \ {s}
  BY <1>1, <1>7, RemoveFromList DEF IInv, TypeOK, QueuesMirrorRob, s
<1>11. s \notin InFlight
  BY <1>2 DEF InFlight
<1>12. /\ FUBuffer' \in Seq(Slot) /\ NoDuplicates(FUBuffer')
       /\ Elems(FUBuffer') = Elems(FUBuffer) \cup {s}
  BY <1>3, <1>7, <1>11, PushBack, SMTT(30) DEF IInv, TypeOK, QueuesMirrorRob
<1>13. w' \in Nat
  <2>1. w' = w - 1 /\ w > 0
    BY ZenonT(60) DEF IssueInst
  <2> QED BY <2>1, SMTT(30) DEF IInv, TypeOK
<1>14. UNCHANGED <<trace_buffer, start_idx, end_idx, rob_size, dep_mat, LDQ, STQ,
                   counts, cycles, mispred, stage, pos, samples>>
  BY ZenonT(60) DEF IssueInst
<1>15. TypeOK'
  BY <1>8, <1>9, <1>10, <1>12, <1>13, <1>14, ZenonT(60) DEF IInv, TypeOK, counts, cycles, mispred
<1>16. QueuesMirrorRob'
  BY <1>9, <1>10, <1>12, <1>14, SMTT(30) DEF IInv, QueuesMirrorRob
<1>17. Ring' /\ Shape(trace_buffer)' /\ CountsBalance' /\ (stage = "fill" => rob_size = 0)'
  BY <1>14, ZenonT(60) DEF IInv, Ring, Shape, CountsBalance, counts
<1> QED BY <1>9, <1>15, <1>16, <1>17, ZenonT(60) DEF IInv

(* dispatch_insts puts an instruction into a free slot and into its queues. *)
LEMMA DispatchIInv == IInv /\ DispatchInst => IInv'
<1> SUFFICES ASSUME IInv, DispatchInst PROVE IInv'
  OBVIOUS
<1> DEFINE inst == Head(converted_buffer)
           mems == find_mems_dependency(inst)
           deps == find_regs_dependency(inst) \cup (mems.deps \cap Slot)
           addrs == [i \in DOMAIN inst.eff_addr |->
                        IF i \in mems.found THEN 0 ELSE inst.eff_addr[i]]
           x == [inst EXCEPT !.state = "Dispatch", !.dispatched_cycle = cur_cycle,
                             !.eff_addr = addrs]
<1>1. /\ Tail(converted_buffer) \in Seq(Inst(Codes)) /\ Shape(Tail(converted_buffer))
      /\ converted_fetched \in Nat
      /\ num_dispatched_insts + 1 + Len(Tail(converted_buffer)) = converted_fetched
      /\ inst \in Inst(Codes) /\ inst.type \in PipelineType
  BY DispatchedBuffer DEF DispatchInst
<1>2. /\ ~is_full_queue(IQ, IqSize) /\ rob_size # RobCapacity
      /\ inst.type = "MemRead" => ~is_full_queue(LDQ, LdqSize)
      /\ inst.type = "MemWrite" => ~is_full_queue(STQ, StqSize)
  BY DEF DispatchInst, can_dispatch, dispatch_impossible, is_rob_full
<1>3. /\ entries' = [entries EXCEPT ![end_idx] = x]
      /\ dep_mat' = [dep_mat EXCEPT ![end_idx] = deps]
      /\ IQ' = push_back_inst(IQ, IqSize, end_idx)
      /\ LDQ' = IF inst.type = "MemRead" THEN push_back_inst(LDQ, LdqSize, end_idx) ELSE LDQ
      /\ STQ' = IF inst.type = "MemWrite" THEN push_back_inst(STQ, StqSize, end_idx) ELSE STQ
  BY DEF DispatchInst
<1>4. /\ end_idx' = next_idx(end_idx) /\ rob_size' = rob_size + 1
      /\ trace_buffer' = Tail(converted_buffer) /\ num_fetched_insts' = converted_fetched
      /\ num_dispatched_insts' = num_dispatched_insts + 1
      /\ w' = w - 1 /\ w > 0 /\ stage = "dispatch"
      /\ UNCHANGED <<start_idx, FUBuffer, fu, num_committed_insts,
                     num_unsupported, cycles, mispred, stage, pos, samples>>
  BY ZenonT(60) DEF DispatchInst, can_dispatch
<1>5. deps \subseteq Slot
  BY DEF find_regs_dependency, Live
<1>6. x \in Inst(Codes) /\ x.type = inst.type /\ x.state = "Dispatch" /\ x # NoInst
  <2>1. addrs \in Seq(Nat)
    <3>1. inst.eff_addr \in Seq(Nat)
      BY <1>1, ZenonT(60) DEF Inst
    <3> QED BY <3>1, ClearedAddrs, SMTT(30)
  <2>2. cur_cycle \in Nat
    BY DEF IInv, TypeOK
  <2> HIDE DEF addrs, inst, mems
  <2>3. x \in Inst(Codes) /\ x.type = inst.type /\ x.state = "Dispatch"
    BY <1>1, <2>1, <2>2, ZenonT(60) DEF Inst, State
  <2> QED BY <2>3, ProgramAssumption, ZenonT(60)
<1> HIDE DEF inst, mems, deps, addrs, x
<1>7. /\ end_idx \notin Live /\ Live' = Live \cup {end_idx} /\ RingType' /\ Ring'
  BY <1>2, <1>4, RingInsert DEF IInv, TypeOK, RingType
<1>8. /\ end_idx \in Slot /\ Live \subseteq Slot
      /\ entries \in [Slot -> Inst(Codes) \cup {NoInst}]
      /\ \A t \in Slot : t \in Live <=> entries[t] # NoInst
  BY ZenonT(60) DEF IInv, TypeOK, QueuesMirrorRob, Live
<1>9. /\ entries' \in [Slot -> Inst(Codes) \cup {NoInst}]
      /\ \A t \in Slot : entries'[t] = IF t = end_idx THEN x ELSE entries[t]
  BY <1>3, <1>6, <1>8, ZenonT(60)
<1>10. \A t \in Slot : t \in Live' <=> entries'[t] # NoInst
  BY <1>6, <1>7, <1>8, <1>9, ZenonT(60)
<1>11. /\ InState({"Dispatch"})' = InState({"Dispatch"}) \cup {end_idx}
       /\ InFlight' = InFlight
  BY <1>6, <1>7, <1>8, <1>9, ZenonT(60) DEF InState, InFlight
<1>12. \A t \in {"MemRead", "MemWrite"} :
         OfType(t)' = IF inst.type = t THEN OfType(t) \cup {end_idx} ELSE OfType(t)
  BY <1>6, <1>7, <1>8, <1>9, SMTT(30) DEF OfType
<1>13. LiveInsts'
  BY <1>1, <1>6, <1>7, <1>8, <1>9, ZenonT(60) DEF LiveInsts, IInv
<1>14. /\ end_idx \notin Elems(IQ) /\ end_idx \notin Elems(LDQ) /\ end_idx \notin Elems(STQ)
  BY <1>7, ZenonT(60) DEF IInv, QueuesMirrorRob, InState, OfType
<1>15. IQ' \in Seq(Slot) /\ NoDuplicates(IQ') /\ Elems(IQ') = Elems(IQ) \cup {end_idx}
  BY <1>2, <1>3, <1>8, <1>14, PushBackFree, SMTT(30) DEF IInv, TypeOK, QueuesMirrorRob
<1>16. /\ LDQ' \in Seq(Slot) /\ NoDuplicates(LDQ')
       /\ Elems(LDQ') = IF inst.type = "MemRead" THEN Elems(LDQ) \cup {end_idx} ELSE Elems(LDQ)
  BY <1>2, <1>3, <1>8, <1>14, PushBackFree, ZenonT(60) DEF IInv, TypeOK, QueuesMirrorRob
<1>17. /\ STQ' \in Seq(Slot) /\ NoDuplicates(STQ')
       /\ Elems(STQ') = IF inst.type = "MemWrite" THEN Elems(STQ) \cup {end_idx} ELSE Elems(STQ)
  BY <1>2, <1>3, <1>8, <1>14, PushBackFree, ZenonT(60) DEF IInv, TypeOK, QueuesMirrorRob
<1>18. TypeOK'
  <2>1. dep_mat' \in [Slot -> SUBSET Slot]
    BY <1>3, <1>5, ZenonT(60) DEF IInv, TypeOK
  <2>2. w \in Nat /\ num_dispatched_insts \in Nat
    BY ZenonT(60) DEF IInv, TypeOK
  <2>3. w' \in Nat /\ num_dispatched_insts' \in Nat
    BY <1>4, <2>2
  <2> QED BY <1>1, <1>4, <1>7, <1>9, <1>15, <1>16, <1>17, <2>1, <2>3, ZenonT(60)
          DEF IInv, TypeOK, RingType, fu, cycles, mispred
<1>19. QueuesMirrorRob'
  <2>1. Elems(IQ') = InState({"Dispatch"})' /\ Elems(FUBuffer') = InFlight'
    BY <1>4, <1>11, <1>15, ZenonT(60) DEF IInv, QueuesMirrorRob
  <2>2. Elems(LDQ') = OfType("MemRead")' /\ Elems(STQ') = OfType("MemWrite")'
    BY <1>12, <1>16, <1>17, ZenonT(60) DEF IInv, QueuesMirrorRob
  <2>3. NoDuplicates(FUBuffer')
    BY <1>4, ZenonT(60) DEF IInv, QueuesMirrorRob
  <2> QED BY <1>10, <1>15, <1>16, <1>17, <2>1, <2>2, <2>3, ZenonT(60) DEF QueuesMirrorRob
<1>20. Shape(trace_buffer)' /\ CountsBalance' /\ (stage = "fill" => rob_size = 0)'
  <2>1. Shape(trace_buffer)'
    BY <1>1, <1>4, ZenonT(60) DEF Shape
  <2>2. CountsBalance'
    BY <1>1, <1>4 DEF IInv, TypeOK, CountsBalance
  <2> QED BY <1>4, <2>1, <2>2, ZenonT(60)
<1> QED BY <1>7, <1>13, <1>18, <1>19, <1>20, SMTT(30) DEF IInv

(* A step that leaves the ROB and the queues alone. *)
LEMMA SamePipeline ==
    ASSUME IInv, UNCHANGED <<rob, queues>>
    PROVE  Ring' /\ QueuesMirrorRob' /\ LiveInsts'
<1>1. /\ UNCHANGED <<start_idx, end_idx, rob_size, entries>>
      /\ UNCHANGED <<IQ, LDQ, STQ, FUBuffer>>
  BY DEF rob, queues
<1>2. Live' = Live
  BY <1>1, ZenonT(60) DEF Live
<1>3. QueuesMirrorRob'
  BY <1>1, <1>2, ZenonT(60) DEF IInv, QueuesMirrorRob, InState, InFlight, OfType
<1>4. Ring' /\ LiveInsts'
  BY <1>1, <1>2, SMTT(30) DEF IInv, Ring, LiveInsts
<1> QED BY <1>3, <1>4, SMTT(30)

(* Dropping an unsupported instruction keeps the counters in step. *)
LEMMA UnsupportedIInv == IInv /\ DispatchUnsupported => IInv'
<1> SUFFICES ASSUME IInv, DispatchUnsupported PROVE IInv'
  OBVIOUS
<1>1. /\ Tail(converted_buffer) \in Seq(Inst(Codes)) /\ Shape(Tail(converted_buffer))
      /\ converted_fetched \in Nat
      /\ num_dispatched_insts + 1 + Len(Tail(converted_buffer)) = converted_fetched
  BY DispatchedBuffer, SMTT(30) DEF DispatchUnsupported
<1>2. /\ trace_buffer' = Tail(converted_buffer) /\ num_fetched_insts' = converted_fetched
      /\ num_dispatched_insts' = num_dispatched_insts + 1
      /\ num_committed_insts' = num_committed_insts + 1
      /\ num_unsupported' = num_unsupported + 1 /\ stage = "dispatch"
      /\ UNCHANGED <<rob, dep_mat, queues, fu, cycles, mispred, control, samples>>
  BY DEF DispatchUnsupported, can_dispatch
<1>3. Ring' /\ QueuesMirrorRob' /\ LiveInsts'
  BY <1>2, SamePipeline, ZenonT(60)
<1>4. TypeOK'
  BY <1>1, <1>2, SMTT(30) DEF IInv, TypeOK, rob, queues, fu, cycles, mispred, control
<1>5. Shape(trace_buffer)'
  BY <1>1, <1>2, ZenonT(60) DEF Shape
<1>6. CountsBalance' /\ (stage = "fill" => rob_size = 0)'
  BY <1>1, <1>2, SMTT(30) DEF IInv, TypeOK, CountsBalance, rob, control
<1> QED BY <1>3, <1>4, <1>5, <1>6, SMTT(30) DEF IInv

(* The front of the buffer is split although it cannot be dispatched. *)
LEMMA StallIInv == IInv /\ DispatchStall => IInv'
<1> SUFFICES ASSUME IInv, DispatchStall PROVE IInv'
  OBVIOUS
<1>1. /\ trace_buffer' = converted_buffer /\ num_fetched_insts' = converted_fetched
      /\ stage' = "end_cycle" /\ stage = "dispatch" /\ trace_buffer # <<>>
      /\ UNCHANGED <<rob, dep_mat, queues, fu, num_dispatched_insts,
                     num_committed_insts, num_unsupported, cycles, mispred, w, pos, samples>>
  BY ZenonT(60) DEF DispatchStall
<1>2. /\ converted_buffer \in Seq(Inst(Codes))
      /\ Shape(converted_buffer) /\ converted_fetched \in Nat
      /\ Len(converted_buffer) - Len(trace_buffer) = converted_fetched - num_fetched_insts
  BY <1>1, Converted, ZenonT(60) DEF IInv, TypeOK
<1>3. Ring' /\ QueuesMirrorRob' /\ LiveInsts'
  BY <1>1, SamePipeline, ZenonT(60)
<1>4. TypeOK'
  BY <1>1, <1>2, ZenonT(60) DEF IInv, TypeOK, rob, queues, fu, cycles, mispred, Stage
<1>5. Shape(trace_buffer)'
  BY <1>1, <1>2, ZenonT(60) DEF Shape
<1>6. CountsBalance' /\ (stage = "fill" => rob_size = 0)'
  <2>1. Len(converted_buffer) \in Nat /\ Len(trace_buffer) \in Nat
    BY <1>2, LenProperties, ZenonT(60) DEF IInv, TypeOK
  <2>2. /\ num_dispatched_insts \in Nat /\ num_fetched_insts \in Nat
        /\ num_dispatched_insts + Len(trace_buffer) = num_fetched_insts
        /\ num_committed_insts + rob_size = num_dispatched_insts
    BY <1>1 DEF IInv, TypeOK, CountsBalance
  <2>3. num_dispatched_insts + Len(converted_buffer) = converted_fetched
    BY <1>2, <2>1, <2>2, SMTT(30)
  <2> QED BY <1>1, <2>2, <2>3, ZenonT(60) DEF CountsBalance, rob
<1> QED BY <1>3, <1>4, <1>5, <1>6 DEF IInv

(* The recording of an instruction: it has no more accesses than its code. *)
LEMMA RecordIInv == IInv /\ Record => IInv'
<1> SUFFICES ASSUME IInv, NEW c \in Codes, NEW base \in Addrs, NEW executed \in BOOLEAN,
                    NEW miss \in BOOLEAN, NEW correct \in BOOLEAN,
                    RecordInst(c, base, executed, miss, correct)
             PROVE  IInv'
  BY ZenonT(60) DEF Record
<1> DEFINE n == IF executed THEN NumAccesses(c) ELSE 0
           x == recorded_inst(c, n, base, miss, correct)
           b == trace_buffer
<1>1. /\ stage = "fill" /\ Len(b) < SampleLength
      /\ trace_buffer' = push_back_inst(b, TraceCapacity, x)
      /\ UNCHANGED <<rob, dep_mat, queues, fu, counts, cycles, mispred, control, samples>>
  BY ZenonT(60) DEF RecordInst
<1>2. n \in Nat /\ n <= NumAccesses(c) /\ base \in Nat
  BY NumAccessesType, ProgramAssumption, SMTT(30)
<1>3. /\ x \in Inst(Codes) /\ ~x.decoded /\ x.code = c /\ Len(x.eff_addr) = n
  <2> DEFINE addrs == [i \in 1 .. n |-> base + i - 1]
             new == init_inst(c)
  <2>1. addrs \in Seq(Nat) /\ Len(addrs) = n
    <3>1. \A i \in 1 .. n : base + i - 1 \in Nat
      BY <1>2, SMTT(30)
    <3> HIDE DEF n
    <3> QED BY <1>2, <3>1, SMTT(30)
  <2>2. new \in Inst(Codes) /\ ~new.decoded /\ new.code = c
    BY DEF init_inst, Inst, InstTypeName, PipelineType, State
  <2>3. x = [[new EXCEPT !.eff_addr = addrs, !.cache_miss = miss]
                  EXCEPT !.bpred_mispred = ~correct]
    BY DEF recorded_inst, set_inst_bpred_mispred
  <2> DEFINE y == [new EXCEPT !.eff_addr = addrs, !.cache_miss = miss]
  <2> HIDE DEF addrs, new, n, x
  <2>4. y \in Inst(Codes) /\ y.decoded = new.decoded /\ y.code = c /\ y.eff_addr = addrs
    BY <2>1, <2>2, ZenonT(60) DEF Inst
  <2>5. x = [y EXCEPT !.bpred_mispred = ~correct]
    BY <2>3
  <2> HIDE DEF y
  <2>6. x \in Inst(Codes) /\ x.decoded = y.decoded /\ x.code = c /\ x.eff_addr = addrs
    BY <2>4, <2>5, ZenonT(60) DEF Inst
  <2> QED BY <2>1, <2>2, <2>4, <2>6, ZenonT(60)
<1> HIDE DEF x, n
<1>4. /\ b \in Seq(Inst(Codes)) /\ Shape(b) /\ Len(b) \in Nat
      /\ DOMAIN b = 1 .. Len(b)
  BY LenProperties DEF IInv, TypeOK
<1>5. trace_buffer' = Append(b, x)
  <2>1. Len(b) < TraceCapacity
    BY <1>1, <1>4, CapacityAssumption, NumAccessesType, BoundAssumption, SMTT(30)
  <2>2. ~is_full_queue(b, TraceCapacity)
    BY <1>4, <2>1, CapacityAssumption, SMTT(30) DEF is_full_queue
  <2> QED BY <1>1, <2>2, ZenonT(60) DEF push_back_inst
<1>6. Append(b, x) \in Seq(Inst(Codes)) /\ Len(Append(b, x)) = Len(b) + 1
  BY <1>3, <1>4, AppendShape
<1>7. Shape(Append(b, x))
  BY <1>1, <1>2, <1>3, <1>4, AppendShape
<1>8. Ring' /\ QueuesMirrorRob' /\ LiveInsts'
  BY <1>1, SamePipeline, ZenonT(60)
<1>9. TypeOK'
  BY <1>1, <1>5, <1>6, ZenonT(60)
     DEF IInv, TypeOK, rob, queues, fu, counts, cycles, mispred, control
<1>10. Shape(trace_buffer)' /\ CountsBalance' /\ (stage = "fill" => rob_size = 0)'
  <2>1. Shape(trace_buffer)'
    BY <1>5, <1>7, ZenonT(60) DEF Shape
  <2> QED BY <1>1, <2>1, ZenonT(60) DEF IInv, CountsBalance, rob, control
<1> QED BY <1>8, <1>9, <1>10, ZenonT(60) DEF IInv

(* A new analysis starts with the buffer as the only thing to do. *)
LEMMA StartIInv == IInv /\ StartAnalysis => IInv'
<1> SUFFICES ASSUME IInv, StartAnalysis PROVE IInv'
  OBVIOUS
<1>1. Ring' /\ QueuesMirrorRob' /\ LiveInsts'
  BY SamePipeline, ZenonT(60) DEF StartAnalysis
<1>2. Len(trace_buffer) \in Nat /\ BackendWidth \in Nat
  BY LenProperties, ConfigAssumption, ZenonT(60) DEF IInv, TypeOK
<1>3. TypeOK'
  BY <1>2, SMTT(30) DEF IInv, TypeOK, StartAnalysis, rob, queues, Stage
<1>4. Shape(trace_buffer)' /\ CountsBalance' /\ (stage = "fill" => rob_size = 0)'
  BY <1>2, SMTT(30) DEF IInv, StartAnalysis, Shape, CountsBalance, rob
<1> QED BY <1>1, <1>3, <1>4, SMTT(30) DEF IInv

(* The analysis ends when the ROB and the buffer are empty. *)
LEMMA EndIInv == IInv /\ EndCycle => IInv'
<1> SUFFICES ASSUME IInv, EndCycle PROVE IInv'
  OBVIOUS
<1>1. Ring' /\ QueuesMirrorRob' /\ LiveInsts'
  BY SamePipeline, ZenonT(60) DEF EndCycle
<1>2. Len(trace_buffer) \in Nat /\ BackendWidth \in Nat
  BY LenProperties, ConfigAssumption DEF IInv, TypeOK
<1>3. TypeOK'
  BY <1>2, SMTT(30) DEF IInv, TypeOK, EndCycle, last_cycle, rob, queues, counts, mispred, Stage
<1>4. stage' = "fill" => rob_size = 0
  BY <1>2, SMTT(30) DEF IInv, TypeOK, CountsBalance, EndCycle, analysis_done
<1>5. Shape(trace_buffer)' /\ CountsBalance'
  BY <1>2, ZenonT(60) DEF IInv, EndCycle, Shape, CountsBalance, rob, counts
<1> QED BY <1>1, <1>3, <1>4, <1>5, ZenonT(60) DEF IInv, EndCycle, rob

(* The steps from one stage to the next, and over an element of IQ. *)
ControlStep == CommitReturn \/ WritebackReturn \/ ExecuteReturn \/ IssueSkip
               \/ IssueReturn \/ DispatchReturn \/ UNCHANGED vars

(* They change nothing but the control state. *)
LEMMA ControlIInv == IInv /\ ControlStep => IInv'
<1> SUFFICES ASSUME IInv, ControlStep PROVE IInv'
  BY ZenonT(60)
<1>1. /\ UNCHANGED <<trace_buffer, rob, dep_mat, queues, fu, counts, cycles, mispred, samples>>
      /\ stage' \in Stage /\ w' \in Nat /\ pos' \in Nat \ {0}
      /\ stage' = "fill" <=> stage = "fill"
  <2>0. stage \in Stage /\ w \in Nat /\ pos \in Nat \ {0}
        /\ FrontendWidth \in Nat /\ BackendWidth \in Nat
    BY ConfigAssumption DEF IInv, TypeOK
  <2>1. CASE CommitReturn
    BY <2>0, <2>1 DEF CommitReturn, Stage
  <2>2. CASE WritebackReturn
    BY <2>0, <2>2 DEF WritebackReturn, Stage
  <2>3. CASE ExecuteReturn
    BY <2>0, <2>3 DEF ExecuteReturn, Stage
  <2>4. CASE IssueSkip
    BY <2>0, <2>4 DEF IssueSkip, Stage
  <2>5. CASE IssueReturn
    BY <2>0, <2>5 DEF IssueReturn, Stage
  <2>6. CASE DispatchReturn
    BY <2>0, <2>6 DEF DispatchReturn, Stage
  <2>7. CASE UNCHANGED vars
    BY <2>0, <2>7 DEF vars, control
  <2> QED BY <2>1, <2>2, <2>3, <2>4, <2>5, <2>6, <2>7, ZenonT(60) DEF ControlStep
<1>2. Ring' /\ QueuesMirrorRob' /\ LiveInsts'
  BY <1>1, SamePipeline, ZenonT(60)
<1>3. TypeOK'
  BY <1>1, ZenonT(60) DEF IInv, TypeOK, rob, queues, fu, counts, cycles, mispred
<1>4. Shape(trace_buffer)' /\ CountsBalance' /\ (stage = "fill" => rob_size = 0)'
  BY <1>1, ZenonT(60) DEF IInv, Shape, CountsBalance, rob, counts
<1> QED BY <1>2, <1>3, <1>4 DEF IInv

(* Every step of the analyzer keeps the invariant. *)
LEMMA StepIInv == IInv /\ [Next]_vars => IInv'
  BY CommitIInv, WritebackIInv, ExecuteIInv, IssueIInv, DispatchIInv, UnsupportedIInv,
     StallIInv, RecordIInv, StartIInv, EndIInv, ControlIInv, SMTT(30)
     DEF Next, Analysis, ControlStep, Exited

(* The invariant holds in every state of every behaviour. *)
LEMMA AlwaysIInv == Spec => []IInv
  BY InitIInv, StepIInv, PTL DEF Spec

(***************************************************************************)
(* The variables of trace_analyzer.c keep their types, whatever the core   *)
(* and the program are: an index stays in the ring, an instruction that    *)
(* is dispatched has been decoded to a type with a functional unit.        *)
(***************************************************************************)
THEOREM TypeCorrect == Spec => []TypeOK
  BY AlwaysIInv, PTL DEF IInv

(***************************************************************************)
(* No queue ever points to an instruction that commit_insts freed, and     *)
(* each holds exactly the instructions of its part of the pipeline.        *)
(***************************************************************************)
THEOREM QueuesCorrect == Spec => []QueuesMirrorRob
  BY AlwaysIInv, PTL DEF IInv

(***************************************************************************)
(* The counters that end the loop of trace_analysis account for every      *)
(* instruction of the sample.                                              *)
(***************************************************************************)
THEOREM CountsCorrect == Spec => []CountsBalance
  BY AlwaysIInv, PTL DEF IInv

=============================================================================
