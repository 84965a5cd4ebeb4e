------------------------------- MODULE BiMode -------------------------------
(***************************************************************************)
(* The bi-mode branch predictor of the timing model (bpred_bimod.c,        *)
(* sat_counter.c) and its driver bpredsim_access, which every branch of    *)
(* the guest calls through inst_increment.  A choice counter, indexed by   *)
(* the address, selects one of two arrays of direction counters, which are *)
(* indexed by the address and the global history of outcomes.              *)
(***************************************************************************)
EXTENDS Integers, Bitwise

CONSTANTS
    InstShiftAmt,   (* 2: the bits of an address that index nothing          *)
    ChoiceSize,     (* choicePredictorSize, 4096                             *)
    GlobalSize,     (* globalPredictorSize, 4096                             *)
    CtrBits,        (* choiceCtrBits = globalCtrBits, 2                      *)
    RegSpace,       (* 2^32: globalHistoryReg is an unsigned int             *)
    CondPcs,        (* addresses of conditional branches                     *)
    UncondPcs,      (* addresses of unconditional branches                   *)
    MaxLookup       (* bound on num_lookup                                   *)

VARIABLES
    choiceCounters, takenCounters, notTakenCounters,
    globalHistoryReg, historyRegisterMask, num_lookup, num_miss,
    last,           (* history: the latest branch                            *)
    streak          (* history: per choice counter, the latest run of equal  *)
                    (* outcomes                                              *)

pred == <<choiceCounters, takenCounters, notTakenCounters, globalHistoryReg>>
vars == <<pred, historyRegisterMask, num_lookup, num_miss, last, streak>>

MaxVal == 2^CtrBits - 1

(* Mutant: the threshold is the maximum. *)
Threshold_max == 2^CtrBits - 1

Threshold == 2^(CtrBits - 1) - 1

Bit(b) == IF b THEN 1 ELSE 0

(***************************************************************************)
(* mask(4096) shifts a 64-bit one by 4096, which is undefined: the shift   *)
(* instruction takes the count modulo 64 and leaves 0 after the            *)
(* subtraction, a compiler that folds the shift to 0 leaves all ones.      *)
(***************************************************************************)
mask == {0, RegSpace - 1}

increment_counter(c) == IF c < MaxVal THEN c + 1 ELSE c
decrement_counter(c) == IF c > 0 THEN c - 1 ELSE c

trained(c, taken) == IF taken THEN increment_counter(c) ELSE decrement_counter(c)

(* bpred_updateGlobalHistReg *)
shifted(reg, taken) == ((2 * reg + Bit(taken)) % RegSpace) & historyRegisterMask

(* The masks of the indices are the sizes less one. *)
choiceHistoryIdx(addr) == shiftR(addr, InstShiftAmt) & (ChoiceSize - 1)
globalHistoryIdx(addr, reg) == (shiftR(addr, InstShiftAmt) ^^ reg) & (GlobalSize - 1)

(***************************************************************************)
(* bpred_lookup: the history it returns.  It also shifts its prediction    *)
(* into globalHistoryReg, which bpredsim_access below accounts for.        *)
(***************************************************************************)
bpred_lookup(addr) ==
    LET g == globalHistoryIdx(addr, globalHistoryReg)
        takenUsed    == choiceCounters[choiceHistoryIdx(addr)] > Threshold
        takenPred    == takenCounters[g] > Threshold
        notTakenPred == notTakenCounters[g] > Threshold
    IN  [globalHistoryReg |-> globalHistoryReg,
         takenUsed |-> takenUsed,
         finalPred |-> IF takenUsed THEN takenPred ELSE notTakenPred]

(* bpred_uncondBranch, after a lookup that left reg in globalHistoryReg. *)
bpred_uncondBranch(reg) ==
    [globalHistoryReg |-> reg, takenUsed |-> TRUE, finalPred |-> TRUE]

(* Mutant: the choice is updated by every branch. *)
choice_updated_always(history, taken) == TRUE

choice_updated(history, taken) ==
    history.finalPred = taken => history.finalPred = history.takenUsed

(* Mutant: the history keeps the prediction. *)
repaired_never(history, reg, taken, squashed) == reg

(* reg is the value that the calls before bpred_update left. *)
repaired(history, reg, taken, squashed) ==
    IF squashed THEN shifted(history.globalHistoryReg, taken) ELSE reg

bpred_update(addr, taken, history, reg, squashed) ==
    LET c == choiceHistoryIdx(addr)
        g == globalHistoryIdx(addr, history.globalHistoryReg)
        Updated(counters) == [counters EXCEPT ![g] = trained(@, taken)]
    IN  /\ takenCounters' = IF history.takenUsed THEN Updated(takenCounters)
                            ELSE takenCounters
        /\ notTakenCounters' = IF history.takenUsed THEN notTakenCounters
                               ELSE Updated(notTakenCounters)
        /\ choiceCounters' = [choiceCounters EXCEPT ![c] =
              IF choice_updated(history, taken) THEN trained(@, taken) ELSE @]
        /\ globalHistoryReg' = repaired(history, reg, taken, squashed)

-----------------------------------------------------------------------------
NoStreak == [taken |-> FALSE, misses |-> 0, learned |-> FALSE]

(* bpredsim_initialize *)
Init ==
    /\ choiceCounters = [i \in 0 .. ChoiceSize - 1 |-> 0]
    /\ takenCounters = [i \in 0 .. GlobalSize - 1 |-> 0]
    /\ notTakenCounters = [i \in 0 .. GlobalSize - 1 |-> 0]
    /\ globalHistoryReg = 0
    /\ historyRegisterMask \in mask
    /\ num_lookup = 0 /\ num_miss = 0
    /\ last = [addr |-> 0, cond |-> FALSE, taken |-> FALSE, predicted |-> FALSE]
    /\ streak = [i \in 0 .. ChoiceSize - 1 |-> NoStreak]

Executed(addr, cond, taken, predicted) ==
    /\ num_lookup < MaxLookup
    /\ num_lookup' = num_lookup + 1
    /\ last' = [addr |-> addr, cond |-> cond, taken |-> taken, predicted |-> predicted]
    /\ UNCHANGED historyRegisterMask

(* bpredsim_access of a conditional branch *)
Conditional(addr, taken) ==
    LET hist  == bpred_lookup(addr)
        wrong == hist.finalPred # taken
        i     == choiceHistoryIdx(addr)
        run   == IF streak[i].taken = taken THEN streak[i]
                 ELSE [NoStreak EXCEPT !.taken = taken]
    IN  /\ Executed(addr, TRUE, taken, hist.finalPred)
        /\ num_miss' = num_miss + Bit(wrong)
        /\ bpred_update(addr, taken, hist,
                        shifted(globalHistoryReg, hist.finalPred), wrong)
        /\ streak' = [streak EXCEPT ![i] = [run EXCEPT !.misses = @ + Bit(wrong),
                                                       !.learned = @ \/ ~wrong]]

(***************************************************************************)
(* bpredsim_access of an unconditional branch: never counted as a miss.    *)
(* It is taken unless its target is the next instruction.                  *)
(***************************************************************************)
Unconditional(addr, taken) ==
    LET predicted == bpred_lookup(addr).finalPred
        reg       == shifted(globalHistoryReg, predicted)
    IN  /\ Executed(addr, FALSE, taken, predicted)
        /\ bpred_update(addr, taken, bpred_uncondBranch(reg), shifted(reg, TRUE),
                        predicted # taken)
        /\ streak' = [streak EXCEPT ![choiceHistoryIdx(addr)] = NoStreak]
        /\ UNCHANGED num_miss

Next ==
    \/ \E addr \in CondPcs, taken \in BOOLEAN : Conditional(addr, taken)
    \/ \E addr \in UncondPcs, taken \in BOOLEAN : Unconditional(addr, taken)

Spec == Init /\ [][Next]_vars

-----------------------------------------------------------------------------
(* Properties *)

Counter == 0 .. MaxVal

(* The counters stay in their bits and the register under its mask. *)
TypeOK ==
    /\ choiceCounters \in [0 .. ChoiceSize - 1 -> Counter]
    /\ takenCounters \in [0 .. GlobalSize - 1 -> Counter]
    /\ notTakenCounters \in [0 .. GlobalSize - 1 -> Counter]
    /\ globalHistoryReg \in 0 .. historyRegisterMask
    /\ num_lookup \in 0 .. MaxLookup /\ num_miss \in 0 .. num_lookup

(***************************************************************************)
(* bpred_lookup shifts its guess into the global history before the        *)
(* outcome is known.  Whatever it guessed, the history after a conditional *)
(* branch is the one before it with the outcome appended.  A taken         *)
(* unconditional branch appends the guess of its superfluous lookup first; *)
(* one whose target is the next instruction also keeps the "taken" of      *)
(* bpred_uncondBranch, unless the lookup guessed wrong.                    *)
(***************************************************************************)
HistoryHoldsOutcomes ==
    [][num_lookup' # num_lookup =>
          globalHistoryReg' =
             IF last'.cond THEN shifted(globalHistoryReg, last'.taken)
             ELSE shifted(shifted(globalHistoryReg, last'.predicted),
                          last'.taken \/ ~last'.predicted)]_vars

(***************************************************************************)
(* Without history (a mask of 0) the conditional branches of one choice    *)
(* counter that keep one outcome are mispredicted at most four times: the  *)
(* choice may have to change to the other array, which is then as far from *)
(* the outcome as the first was.                                           *)
(***************************************************************************)
LearnsInFour ==
    historyRegisterMask = 0 => \A i \in DOMAIN streak : streak[i].misses <= 4

(***************************************************************************)
(* And what was predicted once is predicted for the rest of the run: the   *)
(* choice does not change under a correct prediction, so that the branch   *)
(* is not handed to the array that has not learned it.                     *)
(***************************************************************************)
LearnedIsKept ==
    historyRegisterMask = 0 =>
        \A addr \in CondPcs :
            LET run == streak[choiceHistoryIdx(addr)]
            IN  run.learned => bpred_lookup(addr).finalPred = run.taken

=============================================================================
