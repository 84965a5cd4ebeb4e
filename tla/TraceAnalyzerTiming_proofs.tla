--------------------- MODULE TraceAnalyzerTiming_proofs ---------------------
(***************************************************************************)
(* Proofs about TraceAnalyzer: the numbers that trace_analysis reports,    *)
(* the cycles of a sample and the penalty of its mispredicted branches.    *)
(***************************************************************************)
EXTENDS TraceAnalyzer_proofs

-----------------------------------------------------------------------------
(* The width of the front end. *)

(* The instructions that took width, of the sample being replayed. *)
Taken == num_dispatched_insts - num_unsupported

(***************************************************************************)
(* In each cycle dispatch_insts takes at most FrontendWidth instructions,  *)
(* and none once actual_last_cycle is set.                                 *)
(***************************************************************************)
WidthInv ==
    /\ stage \in {"commit", "writeback", "execute", "issue"} =>
          Taken <= FrontendWidth * cur_cycle
    /\ stage = "dispatch" => Taken + w <= FrontendWidth * (cur_cycle + 1)
    /\ stage = "end_cycle" => Taken <= FrontendWidth * (cur_cycle + 1)
    /\ actual_last_cycle # 0 => /\ num_dispatched_insts = num_fetched_insts
                                /\ Taken <= FrontendWidth * actual_last_cycle
    /\ stage = "fill" /\ samples > 0 => actual_last_cycle > 0

(* The products are numbers, and one cycle more is FrontendWidth more. *)
LEMMA Products ==
    \A n \in Nat : /\ FrontendWidth * n \in Nat
                   /\ FrontendWidth * (n + 1) = FrontendWidth * n + FrontendWidth
  BY ConfigAssumption

(* Once everything is dispatched the buffer is empty. *)
LEMMA NothingLeft ==
    ASSUME IInv, stage # "fill", num_dispatched_insts = num_fetched_insts
    PROVE  trace_buffer = <<>>
<1>1. Len(trace_buffer) = 0
  <2>1. Len(trace_buffer) \in Nat
    BY LenProperties DEF IInv, TypeOK
  <2> QED BY <2>1 DEF IInv, TypeOK, CountsBalance
<1> QED BY <1>1, EmptySeq, SMTT(30) DEF IInv, TypeOK

(* Every step keeps to the width. *)
LEMMA StepWidth == IInv /\ WidthInv /\ [Next]_vars => WidthInv'
<1> SUFFICES ASSUME IInv, WidthInv, [Next]_vars PROVE WidthInv'
  OBVIOUS
<1>1. /\ FrontendWidth * cur_cycle \in Nat /\ FrontendWidth \in Nat
      /\ FrontendWidth * (cur_cycle + 1) = FrontendWidth * cur_cycle + FrontendWidth
      /\ FrontendWidth * 0 \in Nat
  BY Products, ConfigAssumption, SMTT(30) DEF IInv, TypeOK
<1>2. /\ num_dispatched_insts \in Nat /\ num_unsupported \in Nat /\ num_fetched_insts \in Nat
      /\ w \in Nat /\ cur_cycle \in Nat /\ actual_last_cycle \in Nat /\ samples \in Nat
  BY DEF IInv, TypeOK
<1>3. CASE StartAnalysis
  BY <1>1, <1>2, <1>3, SMTT(30) DEF StartAnalysis, WidthInv, Taken
<1>4. CASE Record \/ UNCHANGED vars
  BY <1>4 DEF Record, RecordInst, vars, counts, cycles, control, WidthInv, Taken
<1>5. CASE CommitInst \/ WritebackInst \/ ExecuteInst \/ IssueInst
  <2>1. /\ stage \in {"commit", "writeback", "execute", "issue"}
        /\ UNCHANGED <<stage, num_dispatched_insts, num_unsupported, num_fetched_insts,
                       cycles, samples>>
    BY <1>5, ZenonT(60) DEF CommitInst, WritebackInst, ExecuteInst, IssueInst, counts
  <2> QED BY <2>1, SMTT(30) DEF WidthInv, Taken, cycles
<1>6. CASE CommitReturn \/ WritebackReturn \/ ExecuteReturn \/ IssueSkip
  BY <1>6 DEF CommitReturn, WritebackReturn, ExecuteReturn, IssueSkip, counts, cycles,
              WidthInv, Taken
<1>7. CASE IssueReturn
  BY <1>1, <1>2, <1>7, SMTT(30) DEF IssueReturn, counts, cycles, WidthInv, Taken
<1>8. CASE DispatchInst \/ DispatchUnsupported
  <2>1. /\ stage = "dispatch" /\ stage' = stage /\ trace_buffer # <<>>
        /\ num_dispatched_insts' = num_dispatched_insts + 1
        /\ \/ num_unsupported' = num_unsupported /\ w' = w - 1
           \/ num_unsupported' = num_unsupported + 1 /\ w' = w
        /\ UNCHANGED cycles
    BY <1>8 DEF DispatchInst, DispatchUnsupported, can_dispatch, control
  <2>2. actual_last_cycle = 0
    BY <2>1, NothingLeft, SMTT(30) DEF WidthInv
  <2> QED BY <1>1, <1>2, <2>1, <2>2, SMTT(30) DEF WidthInv, Taken, cycles
<1>9. CASE DispatchStall
  <2>1. /\ stage = "dispatch" /\ stage' = "end_cycle" /\ trace_buffer # <<>>
        /\ UNCHANGED <<num_dispatched_insts, num_unsupported, cycles>>
    BY <1>9 DEF DispatchStall
  <2>2. actual_last_cycle = 0
    BY <2>1, NothingLeft DEF WidthInv
  <2> QED BY <1>1, <1>2, <2>1, <2>2, SMTT(30) DEF WidthInv, Taken, cycles
<1>10. CASE DispatchReturn
  BY <1>1, <1>2, <1>10, SMTT(30) DEF DispatchReturn, counts, cycles, WidthInv, Taken
<1>11. CASE EndCycle
  <2>1. /\ stage = "end_cycle" /\ cur_cycle' = cur_cycle + 1 /\ actual_last_cycle' = last_cycle
        /\ UNCHANGED <<counts, samples>>
        /\ stage' = IF analysis_done THEN "fill" ELSE "commit"
    BY <1>11 DEF EndCycle
  <2>2. analysis_done => num_dispatched_insts = num_fetched_insts
    <3>1. Len(trace_buffer) \in Nat
      BY LenProperties DEF IInv, TypeOK
    <3> QED BY <2>1, <3>1, SMTT(30) DEF analysis_done, IInv, TypeOK, CountsBalance
  <2>3. Taken' = Taken
    BY <2>1, SMTT(30) DEF Taken, counts
  <2>4. CASE actual_last_cycle = 0 /\ num_dispatched_insts = num_fetched_insts
    <3>1. actual_last_cycle' = cur_cycle + 1
      BY <2>1, <2>4, SMTT(30) DEF last_cycle
    <3> QED BY <1>1, <1>2, <2>1, <2>3, <2>4, <3>1, SMTT(30) DEF WidthInv, counts
  <2>5. CASE ~(actual_last_cycle = 0 /\ num_dispatched_insts = num_fetched_insts)
    <3>1. actual_last_cycle' = actual_last_cycle
      BY <2>1, <2>5, SMTT(30) DEF last_cycle
    <3> QED BY <1>1, <1>2, <2>1, <2>2, <2>3, <2>5, <3>1, SMTT(30) DEF WidthInv, counts
  <2> QED BY <2>4, <2>5, SMTT(30)
<1> QED BY <1>3, <1>4, <1>5, <1>6, <1>7, <1>8, <1>9, <1>10, <1>11, SMTT(30)
        DEF Next, Analysis, Exited

(* Nothing was dispatched before the first sample. *)
LEMMA InitWidth == Init => WidthInv
  BY DEF Init, WidthInv

(***************************************************************************)
(* The cycles that trace_analysis returns are never 0 and never fewer than *)
(* the width of the front end allows, for every core and every program.    *)
(***************************************************************************)
THEOREM ResultCorrect == Spec => []ResultWithinWidth
<1>1. IInv /\ WidthInv => ResultWithinWidth
  BY Products, SMTT(30) DEF WidthInv, ResultWithinWidth, Taken, IInv, TypeOK
<1> QED BY <1>1, AlwaysIInv, InitWidth, StepWidth, PTL DEF Spec

-----------------------------------------------------------------------------
(* The penalty of a mispredicted branch. *)

Early == {"commit", "writeback", "execute"}

(* The cycles that are over since x was dispatched, at the least. *)
MinWait(x, at) == IF x.state = "Dispatch" THEN (IF at \in Early \cup {"issue"} THEN 1 ELSE 0)
                  ELSE (IF at \in Early THEN 2 ELSE 1)

(***************************************************************************)
(* An instruction that waits in IQ was dispatched in an earlier cycle when *)
(* issue_insts looks at it, and one that was issued is executed a cycle    *)
(* later, because the stages run in the order execute, issue, dispatch.    *)
(***************************************************************************)
WaitInv == \A s \in Live : entries[s].state \in {"Dispatch", "Issue"} =>
               entries[s].dispatched_cycle + MinWait(entries[s], stage) <= cur_cycle

(* A step that changes no instruction, nor the stage to an earlier one. *)
LEMMA SameWait ==
    ASSUME IInv, WaitInv, UNCHANGED <<rob, cur_cycle>>, stage # "fill",
           stage' = stage \/ stage' \notin Early \/ (stage \in Early /\ stage' \in Early),
           stage' = "issue" => stage \in Early \cup {"issue"}
    PROVE  WaitInv'
<1>1. Live' = Live /\ entries' = entries /\ cur_cycle' = cur_cycle
  BY ZenonT(60) DEF rob, Live
<1>2. \A s \in Live : entries[s].dispatched_cycle \in Nat /\ cur_cycle \in Nat
  BY LiveEntry DEF Inst, IInv, TypeOK
<1> QED BY <1>1, <1>2 DEF WaitInv, MinWait, Early

(* Every step of the pipeline keeps the waiting times. *)
LEMMA StepWait == IInv /\ WaitInv /\ [Next]_vars => WaitInv'
<1> SUFFICES ASSUME IInv, WaitInv, [Next]_vars PROVE WaitInv'
  OBVIOUS
<1>1. /\ Live \subseteq Slot /\ entries \in [Slot -> Inst(Codes) \cup {NoInst}]
      /\ cur_cycle \in Nat
  BY DEF Live, IInv, TypeOK
<1>2. \A s \in Live : entries[s] \in Inst(Codes) /\ entries[s].dispatched_cycle \in Nat
  BY LiveEntry DEF Inst
<1>3. CASE Record \/ StartAnalysis
  <2>1. rob_size = 0 /\ UNCHANGED rob
    BY <1>3, SMTT(30) DEF Record, RecordInst, StartAnalysis, IInv
  <2>2. Live' = {}
    BY <2>1, ConfigAssumption, SMTT(30) DEF IInv, TypeOK, rob, Live, Slot
  <2> QED BY <2>2, SMTT(30) DEF WaitInv
<1>4. CASE UNCHANGED vars
  <2>1. Live' = Live /\ UNCHANGED <<entries, stage, cur_cycle>>
    BY <1>4 DEF vars, rob, cycles, control, Live
  <2> QED BY <2>1 DEF WaitInv, MinWait
<1>5. CASE CommitInst
  <2>1. Live' = Live \ {start_idx}
    BY <1>5, RingRemove, SMTT(30) DEF IInv, TypeOK, RingType, CommitInst, can_commit
  <2>2. /\ \A t \in Live \ {start_idx} : entries'[t] = entries[t]
        /\ UNCHANGED <<cur_cycle, stage>>
    BY <1>1, <1>5, ZenonT(60) DEF CommitInst, cycles
  <2> QED BY <2>1, <2>2, SMTT(30) DEF WaitInv, MinWait
<1>6. CASE WritebackInst
  <2> DEFINE s == FUBuffer[pos]
  <2>1. s \in Live /\ s \in Slot /\ entries[s] \in Inst(Codes)
    BY <1>6, BufferedEntry, ZenonT(60) DEF WritebackInst
  <2>2. PICK left : entries' = [entries EXCEPT ![s] = [entries[s] EXCEPT !.remaining_latency = left]]
    BY <1>6, ZenonT(60) DEF WritebackInst
  <2>3. Live' = Live /\ UNCHANGED <<cur_cycle, stage>>
    BY <1>6 DEF WritebackInst, Live, cycles
  <2> HIDE DEF s
  <2>4. \A t \in Live : /\ entries'[t].state = entries[t].state
                        /\ entries'[t].dispatched_cycle = entries[t].dispatched_cycle
    BY <1>1, <2>1, <2>2 DEF Inst
  <2> QED BY <2>3, <2>4, SMTT(30) DEF WaitInv, MinWait
<1>7. CASE ExecuteInst
  <2> DEFINE s == FUBuffer[pos]
             x == executed_inst(entries[s])
  <2>1. s \in Live /\ s \in Slot /\ entries[s] \in Inst(Codes)
    BY <1>7, BufferedEntry, ZenonT(60) DEF ExecuteInst
  <2>2. Live' = Live /\ UNCHANGED <<cur_cycle, stage>>
    BY <1>7, ZenonT(60) DEF ExecuteInst, Live, cycles
  <2>3. \/ entries' = entries
        \/ entries[s].state = "Issue" /\ entries' = [entries EXCEPT ![s] = x]
    BY <1>7 DEF ExecuteInst
  <2>4. ASSUME entries[s].state = "Issue"
        PROVE  /\ x.state \in {"Issue", "Complete"}
               /\ x.dispatched_cycle = entries[s].dispatched_cycle
    BY <2>1, <2>4, SMTT(30) DEF executed_inst, Inst
  <2> HIDE DEF s, x
  <2>5. \A t \in Live : /\ entries'[t].dispatched_cycle = entries[t].dispatched_cycle
                        /\ entries'[t].state \in {entries[t].state, "Complete"}
    BY <1>1, <2>1, <2>3, <2>4, ZenonT(60)
  <2> QED BY <2>2, <2>5 DEF WaitInv, MinWait
<1>8. CASE IssueInst
  <2> DEFINE s == IQ[pos]
             x == [entries[s] EXCEPT !.state = "Issue",
                                     !.remaining_latency = latency[entries[s].type]]
  <2>1. s \in InState({"Dispatch"})
    BY <1>8 DEF IInv, QueuesMirrorRob, Elems, IssueInst
  <2>2. s \in Live /\ entries[s].state = "Dispatch"
    BY <2>1, ZenonT(60) DEF InState
  <2>3. /\ entries' = [entries EXCEPT ![s] = x] /\ stage = "issue"
        /\ UNCHANGED <<start_idx, rob_size, cycles, stage>>
    BY <1>8, ZenonT(60) DEF IssueInst
  <2>4. x.state = "Issue" /\ x.dispatched_cycle = entries[s].dispatched_cycle
    BY <1>2, <2>2 DEF Inst
  <2>5. Live' = Live /\ cur_cycle' = cur_cycle
    BY <2>3 DEF Live, cycles
  <2> HIDE DEF s, x
  <2>6. \A t \in Live : entries'[t] = IF t = s THEN x ELSE entries[t]
    BY <1>1, <2>3
  <2>7. MinWait(x, stage') = 1 /\ MinWait(entries[s], stage) = 1
    BY <2>2, <2>3, <2>4, ZenonT(60) DEF MinWait, Early
  <2>8. \A t \in Live :
          /\ entries'[t].dispatched_cycle = entries[t].dispatched_cycle
          /\ MinWait(entries'[t], stage') = MinWait(entries[t], stage)
          /\ entries'[t].state \in {"Dispatch", "Issue"} => entries[t].state \in {"Dispatch", "Issue"}
    BY <2>2, <2>3, <2>4, <2>6, <2>7, ZenonT(60)
  <2> QED BY <2>5, <2>8, ZenonT(60) DEF WaitInv
<1>9. CASE DispatchInst
  <2>1. /\ rob_size # RobCapacity /\ end_idx' = next_idx(end_idx) /\ rob_size' = rob_size + 1
        /\ stage = "dispatch" /\ UNCHANGED <<start_idx, cycles, stage>>
    BY <1>9 DEF DispatchInst, can_dispatch, dispatch_impossible, is_rob_full
  <2>2. Live' = Live \cup {end_idx} /\ end_idx \in Slot
    BY <2>1, RingInsert DEF IInv, TypeOK, RingType
  <2>3. PICK x : /\ entries' = [entries EXCEPT ![end_idx] = x]
                 /\ x.state = "Dispatch" /\ x.dispatched_cycle = cur_cycle
    <3> DEFINE inst == Head(converted_buffer)
               mems == find_mems_dependency(inst)
               addrs == [i \in DOMAIN inst.eff_addr |->
                            IF i \in mems.found THEN 0 ELSE inst.eff_addr[i]]
               x == [inst EXCEPT !.state = "Dispatch", !.dispatched_cycle = cur_cycle,
                                 !.eff_addr = addrs]
    <3>1. entries' = [entries EXCEPT ![end_idx] = x]
      BY <1>9 DEF DispatchInst
    <3>2. inst \in Inst(Codes)
      BY <1>9, DispatchedBuffer DEF DispatchInst
    <3> HIDE DEF inst, mems, addrs
    <3>3. x.state = "Dispatch" /\ x.dispatched_cycle = cur_cycle
      BY <3>2 DEF Inst
    <3> HIDE DEF x
    <3> QED BY <3>1, <3>3, ZenonT(60)
  <2>4. \A t \in Slot : entries'[t] = IF t = end_idx THEN x ELSE entries[t]
    BY <1>1, <2>3
  <2> QED BY <1>1, <2>1, <2>2, <2>3, <2>4 DEF WaitInv, MinWait, Early, cycles
<1>10. CASE DispatchUnsupported \/ DispatchStall \/ DispatchReturn
  BY <1>10, SameWait DEF DispatchUnsupported, DispatchStall, DispatchReturn, can_dispatch,
                         cycles, control, Early
<1>11. CASE CommitReturn \/ WritebackReturn \/ ExecuteReturn \/ IssueSkip \/ IssueReturn
  BY <1>11, SameWait DEF CommitReturn, WritebackReturn, ExecuteReturn, IssueSkip,
                         IssueReturn, cycles, Early
<1>12. CASE EndCycle
  <2>1. /\ Live' = Live /\ entries' = entries /\ cur_cycle' = cur_cycle + 1
        /\ stage = "end_cycle"
    BY <1>12, SMTT(30) DEF EndCycle, rob, Live
  <2> QED BY <1>1, <1>2, <2>1, SMTT(30) DEF WaitInv, MinWait, Early
<1> QED BY <1>3, <1>4, <1>5, <1>6, <1>7, <1>8, <1>9, <1>10, <1>11, <1>12, ZenonT(60)
        DEF Next, Analysis, Exited

(* Nothing waits before the first sample. *)
LEMMA InitWait == Init => WaitInv /\ PenaltyInRange
<1> SUFFICES ASSUME Init PROVE WaitInv /\ PenaltyInRange
  BY SMTT(30)
<1>1. Live = {}
  BY ConfigAssumption DEF Init, Live, Slot
<1> QED BY <1>1 DEF Init, WaitInv, PenaltyInRange, front_pipeline_depth, max_penalty

(* Only execute_inst adds to the penalty, for a branch that was issued. *)
LEMMA StepPenalty == IInv /\ WaitInv /\ PenaltyInRange /\ [Next]_vars => PenaltyInRange'
<1> SUFFICES ASSUME IInv, WaitInv, PenaltyInRange, [Next]_vars PROVE PenaltyInRange'
  BY ZenonT(60)
<1> USE DEF front_pipeline_depth, max_penalty
<1>1. CASE ExecuteInst
  <2> DEFINE s == FUBuffer[pos]
             x == executed_inst(entries[s])
             p == mispred_penalty(x)
  <2>1. /\ s \in Live /\ entries[s] \in Inst(Codes) /\ cur_cycle \in Nat
        /\ num_mispred_insts \in Nat /\ sum_mispred_penalty \in Int
    BY <1>1, BufferedEntry, ZenonT(60) DEF ExecuteInst, IInv, TypeOK
  <2>2. \/ UNCHANGED mispred
        \/ /\ entries[s].state = "Issue" /\ stage = "execute"
           /\ num_mispred_insts' = num_mispred_insts + 1
           /\ sum_mispred_penalty' = sum_mispred_penalty + p
    <3>1. CASE entries[s].state # "Issue"
      BY <1>1, <3>1, ZenonT(60) DEF ExecuteInst
    <3>2. CASE entries[s].state = "Issue"
      <4>1. \E wrong \in BOOLEAN :
              /\ stage = "execute"
              /\ num_mispred_insts' = num_mispred_insts + IF wrong THEN 1 ELSE 0
              /\ sum_mispred_penalty' = sum_mispred_penalty + IF wrong THEN p ELSE 0
        BY <1>1, <3>2, ZenonT(60) DEF ExecuteInst
      <4> HIDE DEF s, x, p
      <4> QED BY <2>1, <3>2, <4>1 DEF mispred
    <3> QED BY <3>1, <3>2, ZenonT(60)
  <2>3. CASE UNCHANGED mispred
    BY <2>3, ZenonT(60) DEF mispred, PenaltyInRange
  <2>4. CASE /\ entries[s].state = "Issue" /\ stage = "execute"
             /\ num_mispred_insts' = num_mispred_insts + 1
             /\ sum_mispred_penalty' = sum_mispred_penalty + p
    <3>1. entries[s].dispatched_cycle + 2 <= cur_cycle /\ entries[s].dispatched_cycle \in Nat
      <4>1. MinWait(entries[s], stage) = 2
        BY <2>4, ZenonT(60) DEF MinWait, Early
      <4>2. entries[s].dispatched_cycle + MinWait(entries[s], stage) <= cur_cycle
        BY <2>1, <2>4, ZenonT(60) DEF WaitInv
      <4> QED BY <2>1, <4>1, <4>2, ZenonT(60) DEF Inst
    <3>2. x.dispatched_cycle = entries[s].dispatched_cycle
      BY <2>1, ZenonT(60) DEF executed_inst, Inst
    <3>3. p >= 14 /\ p <= 40 /\ p \in Int
      BY <2>1, <3>1, <3>2, SMTT(30) DEF mispred_penalty
    <3> HIDE DEF p
    <3> QED BY <2>1, <2>4, <3>3, SMTT(30) DEF PenaltyInRange
  <2> QED BY <2>2, <2>3, <2>4, SMTT(30)
<1>2. CASE StartAnalysis
  BY <1>2 DEF StartAnalysis, PenaltyInRange
<1>3. CASE ~ExecuteInst /\ ~StartAnalysis
  <2>1. UNCHANGED mispred
    BY <1>3, ZenonT(60) DEF Next, Analysis, Exited, vars, Record, RecordInst, CommitInst, CommitReturn,
       WritebackInst, WritebackReturn, ExecuteReturn, IssueInst, IssueSkip, IssueReturn,
       DispatchInst, DispatchUnsupported, DispatchStall, DispatchReturn, EndCycle
  <2> QED BY <2>1, ZenonT(60) DEF mispred, PenaltyInRange
<1> QED BY <1>1, <1>2, <1>3, SMTT(30)

(***************************************************************************)
(* The penalty that trace_analysis reports for a mispredicted branch is    *)
(* between front_pipeline_depth + 2 and 40, for every core and program.    *)
(***************************************************************************)
THEOREM PenaltyCorrect == Spec => []PenaltyInRange
  BY AlwaysIInv, InitWait, StepWait, StepPenalty, PTL DEF Spec

(***************************************************************************)
(* Both results that perfmodel_update takes from trace_analysis are in     *)
(* their range at all times.                                               *)
(***************************************************************************)
THEOREM ResultsCorrect == Spec => []ResultInRange
  BY ResultCorrect, PenaltyCorrect, PTL DEF ResultInRange

=============================================================================
