--------------------- MODULE TraceAnalyzerUnits_proofs ---------------------
(***************************************************************************)
(* Proofs about TraceAnalyzer: the occupancy of the functional units, and  *)
(* what is left when an analysis ends.                                     *)
(***************************************************************************)
EXTENDS TraceAnalyzer_proofs, FiniteSetTheorems

(* The instructions that occupy unit f. *)
Occupants(f) == {s \in InState({"Issue"}) : inst_type_fu_type_map[entries[s].type] = f}

(* The slots, and so the occupants of a unit, are finitely many. *)
LEMMA OccupantsFinite ==
    ASSUME NEW f
    PROVE  /\ IsFiniteSet(Occupants(f)) /\ Cardinality(Occupants(f)) \in Nat
           /\ IsFiniteSet(Occupants(f))' /\ Cardinality(Occupants(f))' \in Nat
<1>1. IsFiniteSet(Slot)
  BY ConfigAssumption, FS_Interval, SMTT(30) DEF Slot
<1>2. Occupants(f) \subseteq Slot /\ Occupants(f)' \subseteq Slot
  BY DEF Occupants, InState, Live
<1>3. IsFiniteSet(Occupants(f)) /\ IsFiniteSet(Occupants(f)')
  BY <1>1, <1>2, FS_Subset, SMTT(30)
<1> QED BY <1>3, FS_CardinalityType, SMTT(30)

(* The configured sizes of the units are numbers. *)
LEMMA UnitSizes == \A f \in FUType : fu_capacity[f] \in Nat /\ fu_num_stage[f] \in Nat
  BY ConfigAssumption DEF FUType, fu_capacity, fu_num_stage

(* A step that changes neither the occupants nor num_active. *)
LEMMA SameUnits ==
    ASSUME UnitsBalance, \A f \in FUType : Occupants(f)' = Occupants(f),
           num_active' = num_active,
           num_issue' = num_issue \/ num_issue' = [f \in FUType |-> 0]
    PROVE  UnitsBalance'
<1> SUFFICES ASSUME NEW f \in FUType
             PROVE  /\ num_active'[f] = Cardinality(Occupants(f)')
                    /\ num_active'[f] <= fu_num_stage[f]
                    /\ num_issue'[f] <= fu_capacity[f]
  BY ZenonT(60) DEF UnitsBalance, Occupants, fu_num_stage, fu_capacity
<1>1. /\ num_active[f] = Cardinality(Occupants(f))
      /\ num_active[f] <= fu_num_stage[f]
      /\ num_issue[f] <= fu_capacity[f]
  BY ZenonT(60) DEF UnitsBalance, Occupants
<1>2. num_issue'[f] <= fu_capacity[f]
  BY <1>1, UnitSizes
<1> QED BY <1>1, <1>2, SMTT(30)

(* The steps that keep every instruction in state Issue as it is. *)
LEMMA SameOccupants ==
    ASSUME Live' = Live, \A s \in Live : /\ entries'[s].state = entries[s].state
                                         /\ entries'[s].type = entries[s].type
    PROVE  \A f \in FUType : Occupants(f)' = Occupants(f)
  BY DEF Occupants, InState

(* What completes or issues leaves or enters the occupants of its unit. *)
LEMMA UpdateOccupants ==
    ASSUME IInv, NEW s \in Live, NEW x \in Inst(Codes), x.type = entries[s].type,
           entries' = [entries EXCEPT ![s] = x],
           UNCHANGED <<start_idx, rob_size>>,
           NEW f \in FUType
    PROVE  Occupants(f)' = IF x.state = "Issue" /\ inst_type_fu_type_map[x.type] = f
                           THEN Occupants(f) \cup {s} ELSE Occupants(f) \ {s}
<1>1. Live' = Live /\ Live \subseteq Slot /\ s \in Slot
  BY DEF Live
<1>2. \A t \in Slot : entries'[t] = IF t = s THEN x ELSE entries[t]
  BY <1>1, SMTT(30) DEF IInv, TypeOK
<1> QED BY <1>1, <1>2 DEF Occupants, InState

(* Nothing occupies a unit while the ROB is empty. *)
LEMMA NoOccupants ==
    ASSUME RingType, rob_size = 0
    PROVE  Live = {} /\ \A f \in FUType : Occupants(f) = {} /\ Cardinality(Occupants(f)) = 0
<1>1. Live = {}
  BY ConfigAssumption, SMTT(30) DEF RingType, Live, Slot
<1>2. \A f \in FUType : Occupants(f) = {}
  BY <1>1, SMTT(30) DEF Occupants, InState
<1> QED BY <1>1, <1>2, FS_EmptySet, SMTT(30)

(* commit_insts frees an instruction that has released its unit. *)
LEMMA CommitUnits == IInv /\ UnitsBalance /\ CommitInst => UnitsBalance'
<1> SUFFICES ASSUME IInv, UnitsBalance, CommitInst PROVE UnitsBalance'
  BY SMTT(30)
<1>1. start_idx \in Live /\ Live' = Live \ {start_idx}
  BY RingRemove, ZenonT(60) DEF IInv, TypeOK, RingType, CommitInst, can_commit
<1>2. /\ Live \subseteq Slot
      /\ \A t \in Live \ {start_idx} : entries'[t] = entries[t]
      /\ entries[start_idx].state = "Complete"
  BY DEF IInv, TypeOK, CommitInst, can_commit, Live
<1>3. \A f \in FUType : Occupants(f)' = Occupants(f)
  BY <1>1, <1>2, SMTT(30) DEF Occupants, InState
<1> QED BY <1>3, SameUnits, SMTT(30) DEF CommitInst, fu

(* writeback_insts changes no state. *)
LEMMA WritebackUnits == IInv /\ UnitsBalance /\ WritebackInst => UnitsBalance'
<1> SUFFICES ASSUME IInv, UnitsBalance, WritebackInst PROVE UnitsBalance'
  OBVIOUS
<1> DEFINE s == FUBuffer[pos]
<1>1. s \in Live /\ s \in Slot /\ entries[s] \in Inst(Codes)
  BY BufferedEntry, ZenonT(60) DEF WritebackInst
<1>2. PICK left : entries' = [entries EXCEPT ![s] = [entries[s] EXCEPT !.remaining_latency = left]]
  BY ZenonT(60) DEF WritebackInst
<1>3. UNCHANGED <<start_idx, rob_size, fu>>
  BY DEF WritebackInst
<1> HIDE DEF s
<1>4. Live' = Live /\ Live \subseteq Slot
  BY <1>3 DEF Live
<1>5. \A t \in Live : entries'[t].state = entries[t].state /\ entries'[t].type = entries[t].type
  BY <1>1, <1>2, <1>4, ZenonT(60) DEF IInv, TypeOK, Inst
<1>6. \A f \in FUType : Occupants(f)' = Occupants(f)
  BY <1>4, <1>5, SameOccupants
<1> QED BY <1>3, <1>6, SameUnits, SMTT(30) DEF fu

(* execute_insts releases the unit of the instruction that completes. *)
LEMMA ExecuteUnits == IInv /\ UnitsBalance /\ ExecuteInst => UnitsBalance'
<1> SUFFICES ASSUME IInv, UnitsBalance, ExecuteInst PROVE UnitsBalance'
  OBVIOUS
<1> DEFINE s == FUBuffer[pos]
           x == executed_inst(entries[s])
           g == inst_type_fu_type_map[entries[s].type]
<1>1. s \in Live /\ s \in Slot /\ entries[s] \in Inst(Codes)
  BY BufferedEntry, ZenonT(60) DEF ExecuteInst
<1>2. UNCHANGED <<start_idx, rob_size, num_issue>>
  BY DEF ExecuteInst
<1>3. CASE entries[s].state # "Issue"
  <2>1. UNCHANGED <<entries, num_active>>
    BY <1>3, SMTT(30) DEF ExecuteInst
  <2>2. \A f \in FUType : Occupants(f)' = Occupants(f)
    BY <1>2, <2>1, SMTT(30) DEF Occupants, InState, Live
  <2> QED BY <1>2, <2>1, <2>2, SameUnits, SMTT(30)
<1>4. CASE entries[s].state = "Issue"
  <2>1. x \in Inst(Codes) /\ x.type = entries[s].type /\ x.state \in {"Issue", "Complete"}
    BY <1>1, <1>4, ExecutedInst, ZenonT(60)
  <2>2. /\ entries' = [entries EXCEPT ![s] = x]
        /\ num_active' = [num_active EXCEPT ![g] = IF x.state = "Complete" THEN num_active[g] - 1
                                                   ELSE num_active[g]]
    BY <1>4, ZenonT(60) DEF ExecuteInst
  <2>3. \A f \in FUType : s \in Occupants(f) <=> g = f
    BY <1>1, <1>4, SMTT(30) DEF Occupants, InState
  <2> HIDE DEF s, x, g
  <2>4. \A f \in FUType : Occupants(f)' = IF x.state = "Issue" /\ inst_type_fu_type_map[x.type] = f
                                         THEN Occupants(f) \cup {s} ELSE Occupants(f) \ {s}
    BY <1>1, <1>2, <2>1, <2>2, UpdateOccupants, ZenonT(60)
  <2> SUFFICES ASSUME NEW f \in FUType
               PROVE  /\ num_active'[f] = Cardinality(Occupants(f)')
                      /\ num_active'[f] <= fu_num_stage[f]
                      /\ num_issue'[f] <= fu_capacity[f]
    BY ZenonT(60) DEF UnitsBalance, Occupants, fu_num_stage, fu_capacity
  <2>5. /\ num_active[f] = Cardinality(Occupants(f)) /\ num_active[f] <= fu_num_stage[f]
        /\ num_issue[f] <= fu_capacity[f] /\ fu_num_stage[f] \in Nat
        /\ IsFiniteSet(Occupants(f)) /\ Cardinality(Occupants(f)) \in Nat
    BY UnitSizes, OccupantsFinite, ZenonT(60) DEF UnitsBalance, Occupants
  <2>6. num_active \in [FUType -> Int]
    BY DEF IInv, TypeOK
  <2>7. CASE x.state = "Issue" \/ f # g
    <3>1. Occupants(f)' = Occupants(f)
      BY <2>1, <2>3, <2>4, <2>7, SMTT(30) DEF g
    <3>2. num_active'[f] = num_active[f]
      BY <2>1, <2>2, <2>6, <2>7, ZenonT(60)
    <3> QED BY <1>2, <2>5, <3>1, <3>2
  <2>8. CASE x.state = "Complete" /\ f = g
    <3>1. Occupants(f)' = Occupants(f) \ {s} /\ s \in Occupants(f)
      BY <2>3, <2>4, <2>8, ZenonT(60)
    <3>2. Cardinality(Occupants(f) \ {s}) = Cardinality(Occupants(f)) - 1
      BY <2>5, <3>1, FS_RemoveElement, ZenonT(60)
    <3>3. num_active'[f] = num_active[f] - 1
      BY <2>2, <2>6, <2>8
    <3> QED BY <1>2, <2>5, <3>1, <3>2, <3>3, SMTT(30)
  <2> QED BY <2>1, <2>7, <2>8, SMTT(30)
<1> QED BY <1>3, <1>4, ZenonT(60)

(* try_FU gives issue_insts a unit that has room. *)
LEMMA IssueUnits == IInv /\ UnitsBalance /\ IssueInst => UnitsBalance'
<1> SUFFICES ASSUME IInv, UnitsBalance, IssueInst PROVE UnitsBalance'
  OBVIOUS
<1> DEFINE s == IQ[pos]
           x == [entries[s] EXCEPT !.state = "Issue",
                                   !.remaining_latency = latency[entries[s].type]]
           g == inst_type_fu_type_map[entries[s].type]
<1>1. s \in InState({"Dispatch"})
  BY DEF IInv, QueuesMirrorRob, Elems, IssueInst
<1>2. s \in Live /\ entries[s].state = "Dispatch"
  BY <1>1, ZenonT(60) DEF InState
<1>3. s \in Slot /\ entries[s] \in Inst(Codes) /\ entries[s].type \in PipelineType
  BY <1>2, LiveEntry, ZenonT(60) DEF IInv, LiveInsts
<1>4. latency[entries[s].type] \in Nat \ {0} /\ g \in FUType
  BY <1>3, FUMapType, SMTT(30)
<1>5. /\ x \in Inst(Codes) /\ x.type = entries[s].type /\ x.state = "Issue"
  BY <1>3, <1>4, ZenonT(60) DEF Inst, State
<1>6. /\ entries' = [entries EXCEPT ![s] = x] /\ UNCHANGED <<start_idx, rob_size>>
      /\ num_issue' = [num_issue EXCEPT ![g] = num_issue[g] + 1]
      /\ num_active' = [num_active EXCEPT ![g] = num_active[g] + 1]
      /\ num_issue[g] < fu_capacity[g] /\ num_active[g] < fu_num_stage[g]
  BY ZenonT(60) DEF IssueInst, can_issue, try_FU
<1>7. \A f \in FUType : s \notin Occupants(f)
  BY <1>2 DEF Occupants, InState
<1>8. x.type = entries[s].type => inst_type_fu_type_map[x.type] = g
  OBVIOUS
<1> HIDE DEF s, x, g
<1>9. \A f \in FUType : Occupants(f)' = IF x.state = "Issue" /\ inst_type_fu_type_map[x.type] = f
                                       THEN Occupants(f) \cup {s} ELSE Occupants(f) \ {s}
  BY <1>2, <1>5, <1>6, UpdateOccupants, ZenonT(60)
<1> SUFFICES ASSUME NEW f \in FUType
             PROVE  /\ num_active'[f] = Cardinality(Occupants(f)')
                    /\ num_active'[f] <= fu_num_stage[f]
                    /\ num_issue'[f] <= fu_capacity[f]
  BY DEF UnitsBalance, Occupants, fu_num_stage, fu_capacity
<1>10. /\ num_active[f] = Cardinality(Occupants(f)) /\ num_active[f] <= fu_num_stage[f]
       /\ num_issue[f] <= fu_capacity[f] /\ fu_num_stage[f] \in Nat /\ fu_capacity[f] \in Nat
       /\ IsFiniteSet(Occupants(f)) /\ Cardinality(Occupants(f)) \in Nat
  BY UnitSizes, OccupantsFinite, ZenonT(60) DEF UnitsBalance, Occupants
<1>11. num_active \in [FUType -> Int] /\ num_issue \in [FUType -> Nat]
  BY DEF IInv, TypeOK
<1>12. CASE f # g
  <2>1. Occupants(f)' = Occupants(f)
    BY <1>5, <1>7, <1>8, <1>9, <1>12, SMTT(30)
  <2>2. num_active'[f] = num_active[f] /\ num_issue'[f] = num_issue[f]
    BY <1>6, <1>11, <1>12, ZenonT(60)
  <2> QED BY <1>10, <2>1, <2>2
<1>13. CASE f = g
  <2>1. Occupants(f)' = Occupants(f) \cup {s} /\ s \notin Occupants(f)
    BY <1>5, <1>7, <1>8, <1>9, <1>13, ZenonT(60)
  <2>2. Cardinality(Occupants(f) \cup {s}) = Cardinality(Occupants(f)) + 1
    BY <1>10, <2>1, FS_AddElement, ZenonT(60)
  <2>3. num_active'[f] = num_active[f] + 1 /\ num_issue'[f] = num_issue[f] + 1
    BY <1>6, <1>11, <1>13
  <2>4. num_active[f] < fu_num_stage[f] /\ num_issue[f] < fu_capacity[f]
    BY <1>6, <1>13
  <2>5. num_active'[f] <= fu_num_stage[f] /\ num_issue'[f] <= fu_capacity[f]
    <3>1. /\ num_active[f] \in Int /\ num_issue[f] \in Nat
          /\ fu_num_stage[f] \in Nat /\ fu_capacity[f] \in Nat
      BY <1>10, <1>11, ZenonT(60)
    <3> QED BY <2>3, <2>4, <3>1
  <2> QED BY <1>10, <2>1, <2>2, <2>3, <2>5, ZenonT(60)
<1> QED BY <1>12, <1>13

(* A dispatched instruction occupies no unit yet. *)
LEMMA DispatchUnits == IInv /\ UnitsBalance /\ DispatchInst => UnitsBalance'
<1> SUFFICES ASSUME IInv, UnitsBalance, DispatchInst PROVE UnitsBalance'
  OBVIOUS
<1>1. /\ rob_size # RobCapacity /\ end_idx' = next_idx(end_idx) /\ rob_size' = rob_size + 1
      /\ UNCHANGED <<start_idx, fu>>
  BY SMTT(30) DEF DispatchInst, can_dispatch, dispatch_impossible, is_rob_full
<1>2. end_idx \notin Live /\ Live' = Live \cup {end_idx}
  BY <1>1, RingInsert, SMTT(30) DEF IInv, TypeOK, RingType
<1>3. PICK x : /\ entries' = [entries EXCEPT ![end_idx] = x]
               /\ x.state = "Dispatch"
  <2> DEFINE inst == Head(converted_buffer)
             mems == find_mems_dependency(inst)
             addrs == [i \in DOMAIN inst.eff_addr |->
                          IF i \in mems.found THEN 0 ELSE inst.eff_addr[i]]
             x == [inst EXCEPT !.state = "Dispatch", !.dispatched_cycle = cur_cycle,
                               !.eff_addr = addrs]
  <2>1. entries' = [entries EXCEPT ![end_idx] = x]
    BY DEF DispatchInst
  <2>2. inst \in Inst(Codes)
    BY DispatchedBuffer DEF DispatchInst
  <2> HIDE DEF inst, mems, addrs
  <2>3. x.state = "Dispatch"
    BY <2>2 DEF Inst
  <2> HIDE DEF x
  <2> QED BY <2>1, <2>3, ZenonT(60)
<1>4. \A t \in Slot : entries'[t] = IF t = end_idx THEN x ELSE entries[t]
  BY <1>3 DEF IInv, TypeOK
<1>5. \A f \in FUType : Occupants(f)' = Occupants(f)
  <2>1. Live \subseteq Slot /\ end_idx \in Slot
    BY ZenonT(60) DEF Live, IInv, TypeOK
  <2> QED BY <1>2, <1>3, <1>4, <2>1, SMTT(30) DEF Occupants, InState
<1> QED BY <1>1, <1>5, SameUnits, SMTT(30) DEF fu

(* The units are empty and reset when an analysis starts. *)
LEMMA StartUnits == IInv /\ StartAnalysis => UnitsBalance'
<1> SUFFICES ASSUME IInv, StartAnalysis, NEW f \in FUType
             PROVE  /\ num_active'[f] = Cardinality(Occupants(f)')
                    /\ num_active'[f] <= fu_num_stage[f]
                    /\ num_issue'[f] <= fu_capacity[f]
  BY SMTT(30) DEF UnitsBalance, Occupants, fu_num_stage, fu_capacity
<1>1. Cardinality(Occupants(f)) = 0 /\ Occupants(f)' = Occupants(f)
  <2>1. Cardinality(Occupants(f)) = 0
    BY NoOccupants, SMTT(30) DEF IInv, TypeOK, RingType, StartAnalysis
  <2> QED BY <2>1, SMTT(30) DEF StartAnalysis, rob, Occupants, InState, Live
<1>2. num_active'[f] = 0 /\ num_issue'[f] = 0
  BY SMTT(30) DEF StartAnalysis
<1> QED BY <1>1, <1>2, UnitSizes, SMTT(30)

(* Every step keeps the occupancy of the units in balance. *)
LEMMA StepUnits == IInv /\ UnitsBalance /\ [Next]_vars => UnitsBalance'
<1> SUFFICES ASSUME IInv, UnitsBalance, [Next]_vars PROVE UnitsBalance'
  OBVIOUS
<1>1. ASSUME UNCHANGED rob, num_active' = num_active,
             num_issue' = num_issue \/ num_issue' = [f \in FUType |-> 0]
      PROVE  UnitsBalance'
  <2>1. \A f \in FUType : Occupants(f)' = Occupants(f)
    BY <1>1, SMTT(30) DEF rob, Occupants, InState, Live
  <2> QED BY <1>1, <2>1, SameUnits, ZenonT(60)
<1>2. CASE Record
  BY <1>1, <1>2, SMTT(30) DEF Record, RecordInst, fu
<1>3. CASE DispatchUnsupported \/ DispatchStall
  BY <1>1, <1>3, ZenonT(60) DEF DispatchUnsupported, DispatchStall, fu
<1>4. CASE EndCycle
  BY <1>1, <1>4, SMTT(30) DEF EndCycle
<1>5. CASE CommitReturn \/ WritebackReturn \/ ExecuteReturn \/ IssueSkip
           \/ IssueReturn \/ DispatchReturn
  BY <1>1, <1>5, SMTT(30) DEF CommitReturn, WritebackReturn, ExecuteReturn, IssueSkip, IssueReturn,
                    DispatchReturn, fu
<1>6. CASE UNCHANGED vars
  BY <1>1, <1>6, SMTT(30) DEF vars, fu
<1> QED BY <1>2, <1>3, <1>4, <1>5, <1>6, CommitUnits, WritebackUnits, ExecuteUnits,
           IssueUnits, DispatchUnits, StartUnits, SMTT(30)
        DEF Next, Analysis, Exited

(* All units are free before the first sample. *)
LEMMA InitUnits == Init => UnitsBalance
<1> SUFFICES ASSUME Init, NEW f \in FUType
             PROVE  /\ num_active[f] = Cardinality(Occupants(f))
                    /\ num_active[f] <= fu_num_stage[f]
                    /\ num_issue[f] <= fu_capacity[f]
  BY ZenonT(60) DEF UnitsBalance, Occupants
<1>1. Cardinality(Occupants(f)) = 0
  BY InitIInv, NoOccupants, SMTT(30) DEF IInv, TypeOK, RingType, Init
<1>2. num_active[f] = 0 /\ num_issue[f] = 0
  BY DEF Init
<1> QED BY <1>1, <1>2, UnitSizes, SMTT(30)

(***************************************************************************)
(* try_FU and release_FU balance: a unit is occupied by exactly the        *)
(* instructions that issued to it and have not completed, within its       *)
(* inputs and stages, for every core and program.                          *)
(***************************************************************************)
THEOREM UnitsCorrect == Spec => []UnitsBalance
  BY AlwaysIInv, InitUnits, StepUnits, PTL DEF Spec

(* With the ROB empty every queue is empty, and so is every unit. *)
LEMMA EmptyMeansDrained == IInv /\ UnitsBalance => DrainedBetweenSamples
<1> SUFFICES ASSUME IInv, UnitsBalance, stage = "fill"
             PROVE  /\ rob_size = 0 /\ start_idx = end_idx
                    /\ IQ = <<>> /\ LDQ = <<>> /\ STQ = <<>> /\ FUBuffer = <<>>
                    /\ \A f \in FUType : num_active[f] = 0
  BY ZenonT(60) DEF DrainedBetweenSamples
<1>1. rob_size = 0 /\ RingType
  BY ZenonT(60) DEF IInv, TypeOK, RingType
<1>2. start_idx = end_idx
  BY <1>1, ConfigAssumption, SMTT(30) DEF IInv, Ring, RingType, Slot
<1>3. Live = {} /\ \A f \in FUType : Cardinality(Occupants(f)) = 0
  BY <1>1, NoOccupants, ZenonT(60)
<1>4. Elems(IQ) = {} /\ Elems(LDQ) = {} /\ Elems(STQ) = {} /\ Elems(FUBuffer) = {}
  BY <1>3, ZenonT(60) DEF IInv, QueuesMirrorRob, InState, InFlight, OfType
<1>5. IQ = <<>> /\ LDQ = <<>> /\ STQ = <<>> /\ FUBuffer = <<>>
  BY <1>4, ElemsEmpty, SMTT(30) DEF IInv, TypeOK
<1>6. \A f \in FUType : num_active[f] = 0
  BY <1>3, ZenonT(60) DEF UnitsBalance, Occupants
<1> QED BY <1>1, <1>2, <1>5, <1>6, SMTT(30)

(***************************************************************************)
(* trace_analysis leaves the ROB, the queues and the units empty, although *)
(* it ends on the equality of two counters: nothing of a sample leaks into *)
(* the next one.                                                           *)
(***************************************************************************)
THEOREM SamplesIndependent == Spec => []DrainedBetweenSamples
  BY AlwaysIInv, UnitsCorrect, EmptyMeansDrained, PTL

=============================================================================
