------------------------------ MODULE Sampling ------------------------------
(***************************************************************************)
(* The sampling of a guest program (helper inst_increment of op_helper.c,  *)
(* trace_analyzer_thread_if.c, perfmodel.c and gdb_exit of gdbstub.c).     *)
(*                                                                         *)
(* The guest thread calls inst_increment before each ARM instruction, not  *)
(* before a Thumb one; both then call dcache_access and set_branch_inst.   *)
(* The first ARM instructions of each period are recorded in TraceBuffer.  *)
(* An analyzer thread replays the record while the guest runs on; it is    *)
(* joined at the next period, and its result updates the performance       *)
(* model.  Nothing but this protocol protects TraceBuffer and arg.         *)
(*                                                                         *)
(* at is the place of the guest thread.  inst_increment is cut where the   *)
(* other thread can tell the difference.  ARM instructions are named by    *)
(* the value num_insts has when they are recorded.                         *)
(***************************************************************************)
EXTENDS Integers, Sequences

CONSTANTS
    Lengths,      (* the values perfmodel.sample.length may have             *)
    TraceSize,    (* capacity of TraceBuffer                                 *)
    Period,       (* perfmodel.sample.default_period                         *)
    HalfInt,      (* an int of sample_stat is in -HalfInt .. HalfInt - 1     *)
    MaxInsts,     (* bound on the ARM instructions of the guest program      *)
    MaxAccesses,  (* bound on the data accesses of an ARM instruction and of *)
                  (* the Thumb ones up to the next                           *)
    Cycles,       (* the cycles that an analysis may return                  *)
    None          (* no branch outcome recorded                              *)

ASSUME SamplingAssumption ==
    /\ Lengths \subseteq Nat \ {0}
    /\ TraceSize \in Nat \ {0} /\ Period \in Nat \ {0}
    /\ HalfInt \in Nat /\ \A n \in Lengths : n < HalfInt
    /\ MaxInsts \in Nat \ {0} /\ MaxAccesses \in Nat
    /\ Cycles \subseteq Nat \ {0}
    /\ None \notin Int

VARIABLES
    length,                         (* perfmodel.sample.length, configured   *)
    at,                             (* place of the guest thread             *)
    num_insts, num_sampled_inst, is_sampled,
    is_branch, is_cond,             (* set by the previous instruction       *)
    brancher,                       (* history: the instruction that did     *)
    thumb,                          (* a Thumb instruction executes          *)
    accesses,                       (* data accesses since inst_increment    *)
    num_miss,                       (* mispredictions counted by bpredsim    *)
    sample_stat,                    (* SampledStat of perfmodel.c            *)
    TraceBuffer,                    (* records of instructions               *)
    num_thread, thread, arg,        (* trace_analyzer_thread_if.c            *)
    updates                         (* the calls of perfmodel_update         *)

guest == <<num_insts, num_sampled_inst, is_sampled>>
branch == <<is_branch, is_cond, brancher, num_miss>>
analyzer == <<num_thread, thread, arg>>
vars == <<length, at, guest, branch, thumb, accesses, sample_stat, TraceBuffer,
          analyzer, updates>>

(***************************************************************************)
(* The ARM instruction of the last inst_increment.  It names what happens  *)
(* up to the next one, the events of Thumb instructions included.          *)
(***************************************************************************)
current == num_insts - 1

(* Assignment of a 64-bit value to an int. *)
to_int(n) == ((n + HalfInt) % (2 * HalfInt)) - HalfInt

-----------------------------------------------------------------------------
(* buffer_manager.c: push_bpred and push_memaddr go to newest_inst_elem. *)

(* Mutant: oldest_inst_elem. *)
newest_is_oldest == 1

newest == Len(TraceBuffer)

is_full_queue == Len(TraceBuffer) >= TraceSize

(* An instruction that finds the buffer full is not recorded. *)
push_code(seq) ==
    IF is_full_queue THEN TraceBuffer
    ELSE Append(TraceBuffer, [seq |-> seq, mem |-> <<>>, bpred |-> None, mispred |-> FALSE])

push_bpred(by, correct) ==
    [TraceBuffer EXCEPT ![newest].bpred = by, ![newest].mispred = ~correct]

push_memaddr(by) ==
    [TraceBuffer EXCEPT ![newest].mem = Append(@, by)]

-----------------------------------------------------------------------------
(* perfmodel.c and trace_analyzer_thread_if.c *)

perfmodel_sample_start ==
    sample_stat' = [num_insts |-> to_int(num_insts), num_mispred |-> to_int(num_miss)]

(* Mutant: the mispredictions before the sample are not subtracted. *)
perfmodel_sample_end_total ==
    sample_stat' = [num_insts   |-> to_int(num_insts - sample_stat.num_insts),
                    num_mispred |-> to_int(num_miss)]

perfmodel_sample_end ==
    sample_stat' = [num_insts   |-> to_int(num_insts - sample_stat.num_insts),
                    num_mispred |-> to_int(num_miss - sample_stat.num_mispred)]

(* What perfmodel_update adds to its sums: a sample and its result. *)
perfmodel_update(stat, result) ==
    updates' = Append(updates, [num_insts   |-> stat.num_insts,
                                num_mispred |-> stat.num_mispred,
                                analysed    |-> result])

trace_analyzer_thread_start ==
    /\ num_thread' = num_thread + 1
    /\ thread' = "created"
    /\ UNCHANGED arg

(* Mutant: the result is taken without pthread_join. *)
trace_analyzer_thread_end_unjoined ==
    /\ num_thread' = IF num_thread > 0 THEN num_thread - 1 ELSE 0
    /\ UNCHANGED <<thread, arg>>

(* pthread_join returns when the thread has finished. *)
trace_analyzer_thread_end ==
    /\ num_thread > 0 => thread = "finished"
    /\ num_thread' = IF num_thread > 0 THEN num_thread - 1 ELSE 0
    /\ thread' = IF num_thread > 0 THEN "none" ELSE thread
    /\ UNCHANGED arg

(* cycle and bpred_penalty are 0 in the caller when there was no thread. *)
NoResult == [cycle |-> 0, insts |-> <<>>, mispreds |-> 0]

thread_result == IF num_thread > 0 THEN arg ELSE NoResult

-----------------------------------------------------------------------------
(* The guest thread: inst_increment *)

(***************************************************************************)
(* The outcome of the previous instruction, if it ended a block.  Only     *)
(* conditional ones are predicted; is_cond says so.                        *)
(***************************************************************************)
BranchOutcome(correct) ==
    /\ at = "fetch"
    /\ ~correct => is_branch /\ is_cond
    /\ num_miss' = IF correct THEN num_miss ELSE num_miss + 1
    /\ TraceBuffer' = IF is_branch /\ is_sampled /\ is_cond
                      THEN push_bpred(brancher, correct) ELSE TraceBuffer
    /\ is_branch' = FALSE
    /\ brancher' = None
    /\ at' = "sample"
    /\ UNCHANGED <<length, guest, is_cond, thumb, accesses, sample_stat, analyzer,
                   updates>>

(* The first instruction starts a sample; a full sample is handed over. *)
SampleEnd ==
    /\ at = "sample"
    /\ IF num_insts = 0
       THEN /\ is_sampled' = TRUE
            /\ perfmodel_sample_start
            /\ UNCHANGED <<num_sampled_inst, analyzer>>
       ELSE IF num_sampled_inst = length
       THEN /\ is_sampled' = FALSE
            /\ num_sampled_inst' = 0
            /\ perfmodel_sample_end
            /\ trace_analyzer_thread_start
       ELSE UNCHANGED <<is_sampled, num_sampled_inst, sample_stat, analyzer>>
    /\ at' = "period"
    /\ UNCHANGED <<length, num_insts, branch, thumb, accesses, TraceBuffer, updates>>

(* Mutant: the period starts one instruction late. *)
is_boundary_late == num_insts > 1 /\ num_insts % Period = 1

is_boundary == num_insts # 0 /\ num_insts % Period = 0

(* "blocking and start sampling": the guest waits for the analyzer. *)
PeriodBoundary ==
    /\ at = "period"
    /\ IF is_boundary
       THEN /\ trace_analyzer_thread_end
            /\ perfmodel_update(sample_stat, thread_result)
            /\ is_sampled' = TRUE
            /\ perfmodel_sample_start
       ELSE UNCHANGED <<is_sampled, sample_stat, analyzer, updates>>
    /\ at' = "push"
    /\ UNCHANGED <<length, num_insts, num_sampled_inst, branch, thumb, accesses,
                   TraceBuffer>>

RecordCode ==
    /\ at = "push"
    /\ IF is_sampled
       THEN /\ TraceBuffer' = push_code(num_insts)
            /\ num_sampled_inst' = num_sampled_inst + 1
       ELSE UNCHANGED <<TraceBuffer, num_sampled_inst>>
    /\ num_insts' = num_insts + 1
    /\ accesses' = 0
    /\ at' = "execute"
    /\ UNCHANGED <<length, is_sampled, branch, thumb, sample_stat, analyzer, updates>>

-----------------------------------------------------------------------------
(* The guest thread: the instruction itself *)

dcache_access ==
    /\ at = "execute"
    /\ accesses < MaxAccesses
    /\ accesses' = accesses + 1
    /\ TraceBuffer' = IF is_sampled THEN push_memaddr(current) ELSE TraceBuffer
    /\ UNCHANGED <<length, at, guest, branch, thumb, sample_stat, analyzer, updates>>

(* The next instruction: before an ARM one the block calls inst_increment. *)
Following(to_thumb) ==
    /\ at = "execute"
    /\ num_insts < MaxInsts
    /\ thumb' = to_thumb
    /\ at' = IF to_thumb THEN "execute" ELSE "fetch"
    /\ UNCHANGED <<length, guest, num_miss, accesses, sample_stat, TraceBuffer,
                   analyzer, updates>>

(* The end of a block; bx enters the next one in either state. *)
set_branch_inst(cond, to_thumb) ==
    /\ Following(to_thumb)
    /\ is_branch' = TRUE
    /\ is_cond' = cond
    /\ brancher' = current

(***************************************************************************)
(* The next instruction of a block keeps the state.  One that leaves the   *)
(* block by an exception does not report it, and a signal handler may then *)
(* be entered in either state.                                             *)
(***************************************************************************)
NextInst(to_thumb) ==
    /\ Following(to_thumb)
    /\ UNCHANGED <<is_branch, is_cond, brancher>>

-----------------------------------------------------------------------------
(* gdb_exit: perfmodel_sample_wrapup, which joins the thread it starts. *)

Exit ==
    /\ at = "execute"
    /\ IF is_sampled
       THEN /\ perfmodel_sample_end
            /\ trace_analyzer_thread_start
            /\ at' = "wrapup"
       ELSE /\ at' = "exited"
            /\ UNCHANGED <<sample_stat, analyzer>>
    /\ UNCHANGED <<length, guest, branch, thumb, accesses, TraceBuffer, updates>>

Wrapup ==
    /\ at = "wrapup"
    /\ trace_analyzer_thread_end
    /\ perfmodel_update(sample_stat, thread_result)
    /\ at' = "exited"
    /\ UNCHANGED <<length, guest, branch, thumb, accesses, sample_stat, TraceBuffer>>

Exited == at = "exited" /\ UNCHANGED vars

-----------------------------------------------------------------------------
(***************************************************************************)
(* The analyzer thread.  trace_analysis is modelled by what TraceAnalyzer  *)
(* shows of it: it reads the size of the buffer, empties the buffer from   *)
(* the front and returns a number of cycles that is not 0.                 *)
(***************************************************************************)
AnalysisStart ==
    /\ thread = "created"
    /\ thread' = "running"
    /\ arg' = [arg EXCEPT !.insts = <<>>, !.mispreds = 0]
    /\ UNCHANGED <<length, at, guest, branch, thumb, accesses, sample_stat,
                   TraceBuffer, num_thread, updates>>

(* Mutant: the loop of trace_analysis makes no progress. *)
AnalysisStep_stuck == thread = "running" /\ TraceBuffer # <<>> /\ UNCHANGED vars

AnalysisStep ==
    /\ thread = "running"
    /\ TraceBuffer # <<>>
    /\ LET inst == Head(TraceBuffer)
       IN  arg' = [arg EXCEPT !.insts = Append(@, inst.seq),
                              !.mispreds = @ + IF inst.mispred THEN 1 ELSE 0]
    /\ TraceBuffer' = Tail(TraceBuffer)
    /\ UNCHANGED <<length, at, guest, branch, thumb, accesses, sample_stat, num_thread,
                   thread, updates>>

AnalysisEnd(cycle) ==
    /\ thread = "running"
    /\ TraceBuffer = <<>>
    /\ arg' = [arg EXCEPT !.cycle = cycle]
    /\ thread' = "finished"
    /\ UNCHANGED <<length, at, guest, branch, thumb, accesses, sample_stat,
                   TraceBuffer, num_thread, updates>>

-----------------------------------------------------------------------------
Init ==
    /\ length \in Lengths
    /\ thumb \in BOOLEAN /\ at = IF thumb THEN "execute" ELSE "fetch"
    /\ num_insts = 0 /\ num_sampled_inst = 0 /\ is_sampled = FALSE
    /\ is_branch = FALSE /\ is_cond = FALSE /\ brancher = None
    /\ accesses = 0
    /\ num_miss = 0
    /\ sample_stat = [num_insts |-> 0, num_mispred |-> 0]
    /\ TraceBuffer = <<>>
    /\ num_thread = 0 /\ thread = "none" /\ arg = NoResult
    /\ updates = <<>>

inst_increment ==
    \/ \E correct \in BOOLEAN : BranchOutcome(correct)
    \/ SampleEnd
    \/ PeriodBoundary
    \/ RecordCode

Execute ==
    \/ dcache_access
    \/ \E cond, to_thumb \in BOOLEAN : set_branch_inst(cond, to_thumb)
    \/ \E to_thumb \in BOOLEAN : NextInst(to_thumb)
    \/ Exit

trace_analysis ==
    \/ AnalysisStart
    \/ AnalysisStep
    \/ \E cycle \in Cycles : AnalysisEnd(cycle)

Next == inst_increment \/ Execute \/ Wrapup \/ Exited \/ trace_analysis

(***************************************************************************)
(* The operating system schedules both threads.  The guest program itself  *)
(* need not make progress.                                                 *)
(***************************************************************************)
Spec == /\ Init /\ [][Next]_vars
        /\ WF_vars(inst_increment \/ Wrapup)
        /\ WF_vars(trace_analysis)

-----------------------------------------------------------------------------
(* Properties *)

Place == {"fetch", "sample", "period", "push", "execute", "wrapup", "exited"}
Thread == {"none", "created", "running", "finished"}
Int32 == (-HalfInt) .. (HalfInt - 1)
Result == [cycle : Nat, insts : Seq(Nat), mispreds : Nat]

(* Every variable has the type of the C variable it stands for. *)
TypeOK ==
    /\ at \in Place
    /\ num_insts \in Nat /\ num_sampled_inst \in 0 .. length
    /\ is_sampled \in BOOLEAN /\ is_branch \in BOOLEAN /\ is_cond \in BOOLEAN
    /\ accesses \in Nat /\ num_miss \in Nat
    /\ sample_stat \in [num_insts : Int32, num_mispred : Int32]
    /\ thumb \in BOOLEAN /\ brancher \in Int \cup {None}
    /\ TraceBuffer \in Seq([seq : Nat, mem : Seq(Nat), bpred : Nat \cup {None},
                            mispred : BOOLEAN])
    /\ num_thread \in Nat /\ thread \in Thread /\ arg \in Result
    /\ updates \in Seq([num_insts : Int32, num_mispred : Int32, analysed : Result])

(***************************************************************************)
(* TraceBuffer, arg and the globals of the analyzer have no lock.  There   *)
(* is never more than one analyzer thread, and while it runs the guest     *)
(* neither records an instruction, an access or an outcome nor reads the   *)
(* result: is_sampled is only set after the join.                          *)
(***************************************************************************)
AnalyzerExclusive ==
    /\ num_thread = IF thread = "none" THEN 0 ELSE 1
    /\ thread # "none" => at = "wrapup" \/ ~is_sampled

(***************************************************************************)
(* push_memaddr and push_bpred attach to the newest record whatever is     *)
(* reported.  While a sample is taken the newest record exists and is that *)
(* of the last ARM instruction.  So every access and every outcome of an   *)
(* ARM instruction, also the outcome of the last branch of a sample, which *)
(* is known after the sample has ended, is recorded with the instruction   *)
(* itself.  Thumb instructions have no record: what they do stands in that *)
(* of the ARM instruction before them, never in that of a later one.  A    *)
(* sample that does not fit into the buffer is left out.                   *)
(***************************************************************************)
RecordsOwnEvents ==
    length <= TraceSize =>
        /\ is_sampled /\ num_insts > 0 /\ at \in {"execute", "fetch"} =>
                TraceBuffer # <<>> /\ TraceBuffer[Len(TraceBuffer)].seq = current
        /\ \A i \in DOMAIN TraceBuffer :
                LET inst == TraceBuffer[i]
                IN  /\ \A j \in DOMAIN inst.mem : inst.mem[j] = inst.seq
                    /\ inst.bpred \in {None, inst.seq}

(***************************************************************************)
(* perfmodel_update divides the instructions of sample_stat by the cycles  *)
(* of arg, which two threads wrote at different times and sample_stat      *)
(* holds in an int.  Both are of the same sample: the cycles are not 0,    *)
(* the instructions are the ones that were analysed, and so are the        *)
(* mispredictions that weight the penalty.  A configuration whose sample   *)
(* is longer than its period, which config.c accepts, is left out: the     *)
(* update at the end of the first period then divides 0 by 0.  So is one   *)
(* that does not fit into the buffer.                                      *)
(***************************************************************************)
UpdateMatchesAnalysis ==
    length <= Period /\ length <= TraceSize =>
        \A i \in DOMAIN updates :
            LET u == updates[i]
            IN  /\ u.analysed.cycle > 0
                /\ u.num_insts > 0
                /\ u.num_insts = Len(u.analysed.insts)
                /\ u.num_mispred = u.analysed.mispreds

PeriodsEnded == IF num_insts = 0 THEN 0 ELSE current \div Period

(***************************************************************************)
(* Every period of ARM instructions that has ended has made exactly one    *)
(* update, and the i-th one is about the first instructions of the i-th    *)
(* period when a sample fits in a period.  The sample of the last period   *)
(* only counts when the program ends while it is taken: a result that      *)
(* waits for the next period is lost.                                      *)
(***************************************************************************)
EveryPeriodUpdates ==
    /\ length <= Period =>
          \A i \in DOMAIN updates :
              LET insts == updates[i].analysed.insts
              IN  \A j \in DOMAIN insts : insts[j] = (i - 1) * Period + j - 1
    /\ at \in {"execute", "fetch"} => Len(updates) = PeriodsEnded
    /\ at = "exited" => Len(updates) = PeriodsEnded + IF is_sampled THEN 1 ELSE 0

(***************************************************************************)
(* The guest thread is not blocked for ever in pthread_join, neither at    *)
(* the start of a period nor when the program ends.                        *)
(***************************************************************************)
JoinReturns == /\ (at = "period") ~> (at = "push")
               /\ (at = "wrapup") ~> (at = "exited")

=============================================================================
