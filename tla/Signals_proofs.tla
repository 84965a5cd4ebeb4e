--------------------------- MODULE Signals_proofs ---------------------------
(***************************************************************************)
(* Proofs about emulated signals, for every number of signals, length of   *)
(* the queue, masks and handlers, and any number of signals that come at   *)
(* any step of process_pending_signals: it never follows a NULL first, and *)
(* a standard signal is kept until its handler has been entered or its     *)
(* frame could not be written.                                             *)
(***************************************************************************)
EXTENDS Signals, TLAPS

(* The table is a table of all signals, and sig is one of them. *)
TableOK ==
    /\ pending \in [Sigs -> BOOLEAN]
    /\ owed \in [Sigs -> BOOLEAN]
    /\ first = [s \in Sigs |-> first[s]]
    /\ sig \in Sigs

(***************************************************************************)
(* A pending signal has an entry, except between the store of k->first and *)
(* that of k->pending for the signal that is dequeued, or after the end.   *)
(***************************************************************************)
PendingHasEntry ==
    \A s \in Sigs :
        pending[s] => first[s] # NULL \/ (s = sig /\ at \in {"test", "reset", "dead"})

(***************************************************************************)
(* The inductive invariant: what is dequeued is pending, so that q is an   *)
(* entry, and what came is pending, being delivered or without a frame.    *)
(***************************************************************************)
IInv == /\ TableOK
        /\ PendingHasEntry
        /\ at = "dequeue" => pending[sig]
        /\ DequeueFindsEntry
        /\ StandardSignalsKept

(* At the start no signal is pending. *)
LEMMA InitIInv == Init => IInv
<1> SUFFICES ASSUME Init PROVE IInv
  OBVIOUS
<1>1. TableOK
  BY SignalsAssumption DEF Init, TableOK, Sigs
<1>2. PendingHasEntry /\ StandardSignalsKept
  BY SignalsAssumption DEF Init, PendingHasEntry, StandardSignalsKept, Sigs
<1> QED BY <1>1, <1>2 DEF Init, IInv, DequeueFindsEntry

(***************************************************************************)
(* queue_signal leaves its signal pending with an entry, unless it is      *)
(* being dequeued, and takes no entry away from another.                   *)
(***************************************************************************)
LEMMA QueueSignal ==
    ASSUME IInv, NEW s \in Sigs, queue_signal(s)
    PROVE  /\ pending' \in [Sigs -> BOOLEAN]
           /\ first' = [t \in Sigs |-> first'[t]]
           /\ \A t \in Sigs : t # s => pending'[t] = pending[t] /\ first'[t] = first[t]
           /\ pending'[s] = TRUE
           /\ first'[s] # NULL \/ (first'[s] = first[s] /\ pending[s])
<1> USE DEF IInv, TableOK
<1>1. s # NULL
  BY SignalsAssumption DEF Sigs, NULL
<1>2. CASE NewEntry(s) = NULL
  <2>1. pending[s] = TRUE
    BY <1>1, <1>2 DEF NewEntry
  <2> QED BY <1>2, <2>1 DEF queue_signal, table
<1>3. CASE NewEntry(s) # NULL
  <2> DEFINE e == NewEntry(s)
  <2>1. Link(s, e)
    BY <1>3 DEF queue_signal
  <2>2. pending' = [pending EXCEPT ![s] = TRUE]
    BY <2>1 DEF Link
  <2>3. CASE e = s \/ first[s] = NULL
    <3>1. first' = [first EXCEPT ![s] = e]
      BY <2>1, <2>3 DEF Link
    <3> QED BY <1>3, <2>2, <3>1
  <2>4. CASE ~(e = s \/ first[s] = NULL)
    <3>1. first' = first
      BY <2>1, <2>4 DEF Link
    <3> QED BY <2>2, <2>4, <3>1
  <2> QED BY <2>3, <2>4
<1> QED BY <1>2, <1>3

(* A signal that is queued, while the thread stays where it is or is sent  *)
(* from the guest to process_pending_signals, keeps the invariant.         *)
LEMMA QueueKeeps ==
    ASSUME IInv, NEW s \in Sigs, queue_signal(s), Came(s),
           UNCHANGED <<sig, q>>,
           at' = at \/ (at = "exec" /\ at' = "process")
    PROVE  IInv'
<1>1. /\ pending' \in [Sigs -> BOOLEAN]
      /\ first' = [t \in Sigs |-> first'[t]]
      /\ \A t \in Sigs : t # s => pending'[t] = pending[t] /\ first'[t] = first[t]
      /\ pending'[s] = TRUE
      /\ first'[s] # NULL \/ (first'[s] = first[s] /\ pending[s])
  BY QueueSignal
<1>2. TableOK'
  BY <1>1 DEF IInv, TableOK, Came
<1>3. PendingHasEntry'
  BY <1>1 DEF IInv, TableOK, PendingHasEntry, NULL
<1>4. (at = "dequeue" => pending[sig])' /\ DequeueFindsEntry'
  BY <1>1 DEF IInv, TableOK, DequeueFindsEntry, NULL
<1>5. StandardSignalsKept'
  <2> SUFFICES ASSUME NEW t \in 1 .. RtMin - 1, owed'[t], at' # "dead"
               PROVE  pending'[t] \/ Delivering(t)' \/ t \in unframed'
    BY DEF StandardSignalsKept
  <2>1. t \in Sigs
    BY SignalsAssumption DEF Sigs
  <2>2. CASE t = s
    BY <1>1, <2>2
  <2>3. CASE t # s
    <3>1. owed[t] /\ at # "dead"
      BY <2>1, <2>3 DEF IInv, TableOK, Came
    <3> QED BY <1>1, <2>1, <2>3, <3>1 DEF IInv, StandardSignalsKept, Delivering, Came
  <2> QED BY <2>2, <2>3
<1> QED BY <1>2, <1>3, <1>4, <1>5 DEF IInv

(* host_signal_handler, at any step of the thread. *)
LEMMA HandlerKeeps ==
    ASSUME IInv, NEW s \in Sigs, host_signal_handler(s) PROVE IInv'
<1>1. CASE handler[s] \in Function /\ queue_signal(s) /\ Came(s) /\ UNCHANGED at
  BY <1>1, QueueKeeps DEF host_signal_handler, locals
<1>2. CASE at' = "dead" /\ UNCHANGED <<table, history>>
  BY <1>2 DEF host_signal_handler, table, locals, history, IInv, TableOK, PendingHasEntry,
              DequeueFindsEntry, StandardSignalsKept, Delivering, NULL
<1> QED BY <1>1, <1>2 DEF host_signal_handler

(* A step of the thread that leaves the table and what came alone, and     *)
(* does not take the thread from the delivery of a signal.                 *)
LEMMA QuietKeeps ==
    ASSUME IInv, UNCHANGED <<pending, first, history>>, sig' \in Sigs,
           sig' = sig \/ at \notin {"dequeue", "unlink", "store", "test", "reset",
                                    "deliver", "frame"},
           at \notin {"test", "reset", "frame", "dead"},
           at = "deliver" => at' \in {"frame", "dead"},
           at \in {"dequeue", "unlink", "store"} =>
               at' \in {"unlink", "store", "test"},
           at' = "dequeue" => pending[sig'],
           at' = "unlink" => q' # NULL
    PROVE  IInv'
<1>1. TableOK'
  BY DEF IInv, TableOK, history
<1>2. PendingHasEntry'
  BY DEF IInv, TableOK, PendingHasEntry, NULL
<1>3. StandardSignalsKept'
  BY DEF IInv, StandardSignalsKept, Delivering, history
<1> QED BY <1>1, <1>2, <1>3 DEF IInv, DequeueFindsEntry

(* The guest: a fault, an interruption, a system call. *)
LEMMA GuestKeeps ==
    ASSUME IInv, (\E s \in Faults : GuestFault(s)) \/ Interrupted \/ GuestSyscall
    PROVE  IInv'
<1>1. CASE UNCHANGED <<table, history, sig, q>> /\ at = "exec" /\ at' \in {"process", "dead"}
  BY <1>1, QuietKeeps DEF table, IInv, TableOK
<1>2. ASSUME NEW s \in Faults, GuestFault(s) PROVE IInv'
  <2>1. s \in Sigs
    BY SignalsAssumption DEF Sigs
  <2>2. CASE queue_signal(s) /\ Came(s) /\ at' = "process"
    BY <1>2, <2>1, <2>2, QueueKeeps DEF GuestFault, locals
  <2> QED BY <1>1, <1>2, <2>2 DEF GuestFault, locals
<1>3. CASE Interrupted
  BY <1>1, <1>3 DEF Interrupted, locals
<1>4. CASE GuestSyscall
  BY <1>1, <1>4 DEF GuestSyscall, do_sigreturn, BadFrame, do_sigaction, do_sigprocmask,
                    OtherSyscall, Syscall, locals
<1> QED BY <1>2, <1>3, <1>4

(* process_pending_signals, each of its steps. *)
LEMMA ProcessKeeps ==
    ASSUME IInv, process_pending_signals PROVE IInv'
<1> USE DEF Step, table, history
<1>0. 1 \in Sigs /\ sig \in Sigs /\ (sig # NSig => sig + 1 \in Sigs)
  BY SignalsAssumption DEF IInv, TableOK, Sigs
<1>1. CASE CheckPending
  BY <1>0, <1>1, QuietKeeps DEF CheckPending
<1>2. CASE Scan
  BY <1>0, <1>2, QuietKeeps DEF Scan
<1>3. CASE ClearPending
  BY <1>0, <1>3, QuietKeeps DEF ClearPending
<1>4. CASE TakeFirst
  <2>1. first[sig] # NULL
    BY <1>0, <1>4 DEF TakeFirst, IInv, PendingHasEntry
  <2> QED BY <1>0, <1>4, <2>1, QuietKeeps DEF TakeFirst
<1>5. CASE LoadNext
  BY <1>0, <1>5, QuietKeeps DEF LoadNext
<1>6. CASE Unlink
  <2>1. TableOK'
    BY <1>6 DEF Unlink, IInv, TableOK
  <2>2. PendingHasEntry'
    BY <1>6 DEF Unlink, IInv, TableOK, PendingHasEntry, NULL
  <2>3. StandardSignalsKept'
    BY <1>6 DEF Unlink, IInv, StandardSignalsKept, Delivering
  <2> QED BY <1>6, <2>1, <2>2, <2>3 DEF Unlink, IInv, DequeueFindsEntry
<1>7. CASE TestFirst
  <2>1. TableOK'
    BY <1>7 DEF TestFirst, IInv, TableOK
  <2>2. PendingHasEntry'
    BY <1>7 DEF TestFirst, IInv, TableOK, PendingHasEntry, NULL
  <2>3. StandardSignalsKept'
    BY <1>7 DEF TestFirst, IInv, StandardSignalsKept, Delivering
  <2> QED BY <1>7, <2>1, <2>2, <2>3 DEF TestFirst, IInv, DequeueFindsEntry
<1>8. CASE ResetPending
  <2>1. TableOK'
    BY <1>8 DEF ResetPending, IInv, TableOK
  <2>2. PendingHasEntry'
    BY <1>8 DEF ResetPending, IInv, TableOK, PendingHasEntry, NULL
  <2>3. StandardSignalsKept'
    BY <1>8, SignalsAssumption
       DEF ResetPending, IInv, TableOK, StandardSignalsKept, Delivering, Sigs
  <2> QED BY <1>8, <2>1, <2>2, <2>3 DEF ResetPending, IInv, DequeueFindsEntry
<1>9. CASE BlockMask
  BY <1>0, <1>9, QuietKeeps DEF BlockMask
<1>10. CASE SetupFrame \/ SetupFrameFails \/ Ignore
  <2>1. /\ UNCHANGED <<pending, first, sig, q>> /\ at' = "free"
        /\ at \in {"frame", "deliver"}
        /\ \/ owed' = [owed EXCEPT ![sig] = FALSE] /\ UNCHANGED unframed
           \/ /\ UNCHANGED owed
              /\ unframed' = IF pending[sig] THEN unframed ELSE unframed \cup {sig}
    BY <1>10 DEF SetupFrame, SetupFrameFails, FrameDone, Ignore
  <2>2. TableOK'
    BY <2>1 DEF IInv, TableOK
  <2>3. PendingHasEntry'
    BY <2>1 DEF IInv, TableOK, PendingHasEntry, NULL
  <2>4. StandardSignalsKept'
    BY <2>1, SignalsAssumption DEF IInv, TableOK, StandardSignalsKept, Delivering, Sigs
  <2> QED BY <2>1, <2>2, <2>3, <2>4 DEF IInv, DequeueFindsEntry
<1>11. CASE Die
  BY <1>0, <1>11, QuietKeeps DEF Die
<1>12. CASE FreeLink
  BY <1>0, <1>12, QuietKeeps DEF FreeLink
<1>13. CASE FreeHead
  BY <1>0, <1>13, QuietKeeps DEF FreeHead
<1> QED BY <1>1, <1>2, <1>3, <1>4, <1>5, <1>6, <1>7, <1>8, <1>9, <1>10, <1>11,
           <1>12, <1>13 DEF process_pending_signals

(* The invariant holds in every behaviour. *)
LEMMA Invariant == Spec => []IInv
<1>1. IInv /\ [Next]_vars => IInv'
  <2> SUFFICES ASSUME IInv, [Next]_vars PROVE IInv'
    OBVIOUS
  <2>1. CASE UNCHANGED vars
    BY <2>1 DEF vars, table, locals, history, IInv, TableOK, PendingHasEntry, DequeueFindsEntry,
                StandardSignalsKept, Delivering, NULL
  <2> QED BY <2>1, HandlerKeeps, GuestKeeps, ProcessKeeps DEF Next
<1> QED BY <1>1, InitIInv, PTL DEF Spec

(***************************************************************************)
(* process_pending_signals never dereferences a NULL k->first, wherever    *)
(* host_signal_handler interrupts it.                                      *)
(***************************************************************************)
THEOREM DequeueCorrect == Spec => []DequeueFindsEntry
<1>1. IInv => DequeueFindsEntry
  BY DEF IInv
<1> QED BY <1>1, Invariant, PTL

(***************************************************************************)
(* A standard signal that comes is in the table, or on the way to its      *)
(* handler, until that has been entered or setup_frame could not write its *)
(* frame: merging it into one that is being dequeued (queue_signal returns *)
(* 0) does not lose it.                                                    *)
(***************************************************************************)
THEOREM StandardCorrect == Spec => []StandardSignalsKept
<1>1. IInv => StandardSignalsKept
  BY DEF IInv
<1> QED BY <1>1, Invariant, PTL
=============================================================================
