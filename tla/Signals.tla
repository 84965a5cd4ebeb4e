------------------------------ MODULE Signals ------------------------------
(***************************************************************************)
(* Emulated signals (linux-user/signal.c) of the guest's only thread.      *)
(* host_signal_handler interrupts the thread between any two steps and     *)
(* queues the signal; process_pending_signals, called by cpu_loop after    *)
(* every return of cpu_exec, dequeues one signal and enters the guest's    *)
(* handler.  The host blocks all signals while host_signal_handler runs,   *)
(* so it is one action; process_pending_signals blocks none, so each of    *)
(* its memory accesses is one.                                             *)
(*                                                                         *)
(* A queue entry is a number: entry sig is the field info of sigtab[sig],  *)
(* the others are the elements of sigqueue_table.                          *)
(***************************************************************************)
EXTENDS Integers, Sequences, FiniteSets

CONSTANTS
    NSig,               \* TARGET_NSIG: signals are 1 .. NSig
    RtMin,              \* TARGET_SIGRTMIN: from here on signals are queued
    SIGSEGV,            \* the signal of a bad access of the guest
    Faults,             \* the signals of the guest's own faults: SIGSEGV, and SIGILL
                        \* and SIGFPE of undefined instructions
    SaMask,             \* SaMask[sig]: sa_mask of the handler of sig
    NoDefer,            \* signals whose handlers have SA_NODEFER
    Masks,              \* masks the guest sets with sigprocmask
    Actions,            \* handlers the guest sets with sigaction
    QueueSize,          \* MAX_SIGQUEUE_SIZE
    MaxArrivals         \* bound: signals that come

ASSUME SignalsAssumption ==
    /\ NSig \in Nat \ {0}
    /\ RtMin \in 1 .. NSig + 1
    /\ SIGSEGV \in Faults
    /\ Faults \subseteq 1 .. RtMin - 1
    /\ SaMask \in [1 .. NSig -> SUBSET (1 .. NSig)]
    /\ NoDefer \subseteq 1 .. NSig
    /\ Masks \subseteq SUBSET (1 .. NSig)
    /\ Actions \subseteq {"fn", "once", "ign", "dfl"}
    /\ QueueSize \in Nat

NULL == 0
Sigs == 1 .. NSig
Entries == 1 .. NSig + QueueSize
Function == {"fn", "once"}

VARIABLES
    pending, first,     \* sigtab[sig]
    next,               \* the links of the entries
    first_free, signal_pending,
    handler,            \* sigact_table[sig]._sa_handler: a function ("fn", or
                        \* "once" with SA_RESETHAND), "ign", "dfl"
    blocked,            \* the signal mask of the thread
    frames,             \* the masks saved on the guest's stack
    exit_request,
    at,                 \* the thread: its place, and locals of process_pending_signals
    sig, q, qnext, old_set,
    arrivals,
    owed,               \* history: sig came, and its handler was not entered since
    unframed            \* history: signals dequeued for a frame that could not be
                        \* written, which have not come again

table == <<pending, first, next, first_free>>
guest == <<handler, blocked, frames>>
locals == <<sig, q, qnext, old_set>>
history == <<owed, unframed>>
vars == <<table, signal_pending, guest, exit_request, at, locals, arrivals, history>>

Init ==
    /\ pending = [s \in Sigs |-> FALSE]
    /\ first = [s \in Sigs |-> NULL]
    /\ next = [e \in Entries |->
                  IF e > NSig /\ e < NSig + QueueSize THEN e + 1 ELSE NULL]
    /\ first_free = IF QueueSize > 0 THEN NSig + 1 ELSE NULL
    /\ signal_pending = FALSE
    /\ handler \in [Sigs -> Actions]
    /\ blocked = {}
    /\ frames = <<>>
    /\ exit_request = FALSE
    /\ at = "exec"
    /\ sig = 1
    /\ q = NULL
    /\ qnext = NULL
    /\ old_set = {}
    /\ arrivals = 0
    /\ owed = [s \in Sigs |-> FALSE]
    /\ unframed = {}

-----------------------------------------------------------------------------
(* queue_signal *)

\* The last entry of the list of s.
LastEntry(s) ==
    LET walk[i \in Entries] ==
            IF i = 1 THEN first[s]
            ELSE IF next[walk[i - 1]] = NULL THEN walk[i - 1]
            ELSE next[walk[i - 1]]
    IN  walk[NSig + QueueSize]

\* The entry for a new signal s, or NULL: a standard signal is queued once.
NewEntry(s) ==
    IF ~pending[s] THEN s ELSE IF s < RtMin THEN NULL ELSE first_free

\* Link entry e for s.  The list may be empty although pending is set: it is
\* being dequeued.
Link(s, e) ==
    /\ first_free' = IF e = s THEN first_free ELSE next[e]
    /\ first' = IF e = s \/ first[s] = NULL THEN [first EXCEPT ![s] = e] ELSE first
    /\ next' = IF e = s \/ first[s] = NULL THEN [next EXCEPT ![e] = NULL]
               ELSE [next EXCEPT ![LastEntry(s)] = e, ![e] = NULL]
    /\ pending' = [pending EXCEPT ![s] = TRUE]
    /\ signal_pending' = TRUE

\* queue_signal for a handled signal; it is not queued when there is no entry.
queue_signal(s) ==
    IF NewEntry(s) # NULL THEN Link(s, NewEntry(s))
    ELSE UNCHANGED <<table, signal_pending>>

\* The guest is owed its handler of s.
Came(s) ==
    /\ owed' = [owed EXCEPT ![s] = TRUE]
    /\ unframed' = unframed \ {s}

\* host_signal_handler.  The kernel runs it for a signal that the thread does
\* not block and that do_sigaction has not made the host ignore.
host_signal_handler(s) ==
    /\ at # "dead"
    /\ arrivals < MaxArrivals
    /\ s \notin blocked \cup {SIGSEGV}
    /\ handler[s] # "ign"
    /\ arrivals' = arrivals + 1
    /\ \/ /\ handler[s] = "dfl"
          /\ at' = "dead"
          /\ UNCHANGED <<table, signal_pending, exit_request, history>>
       \/ /\ handler[s] \in Function
          /\ queue_signal(s)
          /\ exit_request' = (exit_request \/ NewEntry(s) # NULL)
          /\ Came(s)
          /\ UNCHANGED at
    /\ UNCHANGED <<guest, locals>>

-----------------------------------------------------------------------------
(* The guest, in cpu_exec *)

\* cpu_exec returns EXCP_INTERRUPT.
Interrupted ==
    /\ at = "exec"
    /\ exit_request
    /\ exit_request' = FALSE
    /\ at' = "process"
    /\ UNCHANGED <<table, signal_pending, guest, locals, arrivals, history>>

\* A fault of the guest: cpu_loop queues its signal, blocked or not.
GuestFault(s) ==
    /\ at = "exec"
    /\ arrivals < MaxArrivals
    /\ arrivals' = arrivals + 1
    /\ LET action == IF s = SIGSEGV /\ s \in blocked THEN "dfl" ELSE handler[s]
       IN  \/ /\ action = "dfl"
              /\ at' = "dead"
              /\ UNCHANGED <<table, signal_pending, history>>
           \/ /\ action = "ign"
              /\ at' = "process"
              /\ UNCHANGED <<table, signal_pending, history>>
           \/ /\ action \in Function
              /\ queue_signal(s)
              /\ Came(s)
              /\ at' = "process"
    /\ UNCHANGED <<guest, exit_request, locals>>

\* System calls: do_sigreturn leaves a handler, do_sigaction changes one,
\* do_sigprocmask the mask.
Syscall ==
    /\ at = "exec"
    /\ at' = "process"
    /\ UNCHANGED <<table, signal_pending, exit_request, locals, arrivals, history>>

do_sigreturn ==
    /\ Syscall
    /\ frames # <<>>
    /\ blocked' = Head(frames)
    /\ frames' = Tail(frames)
    /\ UNCHANGED handler

\* do_sigreturn where the stack holds no frame: force_sig.
BadFrame ==
    /\ at = "exec"
    /\ at' = "dead"
    /\ UNCHANGED <<table, signal_pending, guest, exit_request, locals, arrivals, history>>

do_sigaction(s, h) ==
    /\ Syscall
    /\ handler' = [handler EXCEPT ![s] = h]
    /\ UNCHANGED <<blocked, frames>>

do_sigprocmask(mask) ==
    /\ Syscall
    /\ blocked' = mask
    /\ UNCHANGED <<handler, frames>>

\* Any other return of cpu_exec, which leaves the signals alone.
OtherSyscall == Syscall /\ UNCHANGED guest

-----------------------------------------------------------------------------
(* process_pending_signals *)

Step(place, nextplace) ==
    /\ at = place
    /\ at' = nextplace
    /\ UNCHANGED <<guest, exit_request, arrivals, old_set>>

\* Nothing may be pending: back to cpu_exec.
CheckPending ==
    /\ Step("process", IF signal_pending THEN "scan" ELSE "exec")
    /\ sig' = 1
    /\ UNCHANGED <<table, signal_pending, q, qnext, history>>

\* Mutant: only the first signal of the table is looked at.
Scan_first ==
    /\ Step("scan", IF pending[sig] THEN "dequeue" ELSE "exec")
    /\ UNCHANGED <<table, signal_pending, sig, q, qnext, history>>

\* The loop over the table.
Scan ==
    /\ Step("scan", IF pending[sig] THEN "dequeue"
                    ELSE IF sig = NSig THEN "clear" ELSE "scan")
    /\ sig' = IF pending[sig] \/ sig = NSig THEN sig ELSE sig + 1
    /\ UNCHANGED <<table, signal_pending, q, qnext, history>>

\* Mutant: the table is cleared too.
ClearPending_table ==
    /\ Step("clear", "exec")
    /\ signal_pending' = FALSE
    /\ pending' = [s \in Sigs |-> FALSE]
    /\ sig' = 1
    /\ UNCHANGED <<first, next, first_free, q, qnext, history>>

\* ts->signal_pending = 0
ClearPending ==
    /\ Step("clear", "exec")
    /\ signal_pending' = FALSE
    /\ sig' = 1
    /\ UNCHANGED <<table, q, qnext, history>>

\* q = k->first
TakeFirst ==
    /\ Step("dequeue", "unlink")
    /\ q' = first[sig]
    /\ UNCHANGED <<table, signal_pending, sig, qnext, history>>

\* k->first = q->next: the load and the store.
LoadNext ==
    /\ Step("unlink", "store")
    /\ qnext' = next[q]
    /\ UNCHANGED <<table, signal_pending, sig, q, history>>

Unlink ==
    /\ Step("store", "test")
    /\ first' = [first EXCEPT ![sig] = qnext]
    /\ qnext' = NULL
    /\ UNCHANGED <<pending, next, first_free, signal_pending, sig, q, history>>

\* Mutant: pending stays set when the list becomes empty.
TestFirst_kept ==
    /\ Step("test", "deliver")
    /\ UNCHANGED <<table, signal_pending, sig, q, qnext, history>>

\* if (!k->first)
TestFirst ==
    /\ Step("test", IF first[sig] = NULL THEN "reset" ELSE "deliver")
    /\ UNCHANGED <<table, signal_pending, sig, q, qnext, history>>

\* k->pending = 0
ResetPending ==
    /\ Step("reset", "deliver")
    /\ pending' = [pending EXCEPT ![sig] = FALSE]
    /\ UNCHANGED <<first, next, first_free, signal_pending, sig, q, qnext, history>>

\* SIGSEGV came although the guest blocks it: it is handled as by default.
ForcedSegv == sig = SIGSEGV /\ SIGSEGV \in blocked

\* The handler of the signal is a function: block its mask.
BlockMask ==
    /\ at = "deliver"
    /\ handler[sig] \in Function /\ ~ForcedSegv
    /\ at' = "frame"
    /\ old_set' = blocked
    /\ blocked' = blocked \cup SaMask[sig] \cup ({sig} \ NoDefer)
    /\ UNCHANGED <<table, signal_pending, handler, frames, exit_request, sig, q, qnext,
                   arrivals, history>>

\* After setup_frame, whatever became of the frame: SA_RESETHAND.
FrameDone ==
    /\ at = "frame"
    /\ at' = "free"
    /\ old_set' = {}
    /\ handler' = IF handler[sig] = "once" THEN [handler EXCEPT ![sig] = "dfl"]
                  ELSE handler
    /\ UNCHANGED <<table, signal_pending, blocked, exit_request, sig, q, qnext, arrivals>>

\* setup_frame: the guest is in its handler.
SetupFrame ==
    /\ FrameDone
    /\ frames' = <<old_set>> \o frames
    /\ owed' = [owed EXCEPT ![sig] = FALSE]
    /\ UNCHANGED unframed

\* setup_frame cannot write to the guest's stack and returns: the guest goes on
\* where it was, with the mask of the handler.
SetupFrameFails ==
    /\ FrameDone
    /\ unframed' = IF pending[sig] THEN unframed ELSE unframed \cup {sig}
    /\ UNCHANGED <<frames, owed>>

\* The handler was changed after the signal was queued.
Ignore ==
    /\ handler[sig] = "ign" /\ ~ForcedSegv
    /\ Step("deliver", "free")
    /\ owed' = [owed EXCEPT ![sig] = FALSE]
    /\ UNCHANGED <<table, signal_pending, sig, q, qnext, unframed>>

Die ==
    /\ handler[sig] = "dfl" \/ ForcedSegv
    /\ Step("deliver", "dead")
    /\ UNCHANGED <<table, signal_pending, sig, q, qnext, history>>

\* if (q != &k->info) free_sigqueue: q->next = ts->first_free
FreeLink ==
    /\ Step("free", IF q # sig THEN "freed" ELSE "exec")
    /\ next' = IF q # sig THEN [next EXCEPT ![q] = first_free] ELSE next
    /\ sig' = IF q # sig THEN sig ELSE 1
    /\ q' = IF q # sig THEN q ELSE NULL
    /\ UNCHANGED <<pending, first, first_free, signal_pending, qnext, history>>

\* ts->first_free = q
FreeHead ==
    /\ Step("freed", "exec")
    /\ first_free' = q
    /\ sig' = 1
    /\ q' = NULL
    /\ UNCHANGED <<pending, first, next, signal_pending, qnext, history>>

process_pending_signals ==
    \/ CheckPending \/ Scan \/ ClearPending
    \/ TakeFirst \/ LoadNext \/ Unlink \/ TestFirst \/ ResetPending
    \/ BlockMask \/ SetupFrame \/ SetupFrameFails \/ Ignore \/ Die
    \/ FreeLink \/ FreeHead

GuestSyscall ==
    \/ do_sigreturn \/ BadFrame
    \/ OtherSyscall
    \/ \E s \in Sigs, h \in Actions : do_sigaction(s, h)
    \/ \E mask \in Masks : do_sigprocmask(mask)

Next ==
    \/ \E s \in Sigs : host_signal_handler(s)
    \/ \E s \in Faults : GuestFault(s)
    \/ Interrupted
    \/ GuestSyscall
    \/ process_pending_signals

\* The thread runs and an exit request is honoured.  What the guest itself does
\* next, a system call or none, nothing guarantees.
Fairness ==
    /\ WF_vars(Interrupted)
    /\ WF_vars(process_pending_signals)

Spec == Init /\ [][Next]_vars /\ Fairness

-----------------------------------------------------------------------------
(* Properties *)

\* A signal is dequeued only where there is one: process_pending_signals never
\* follows a NULL first, whatever arrives between its steps.
DequeueFindsEntry == at = "unlink" => q # NULL

\* The thread has dequeued s and is on the way to its handler.
Delivering(s) ==
    sig = s /\ at \in {"dequeue", "unlink", "store", "test", "reset", "deliver", "frame"}

\* A standard signal that comes is kept in the table until its handler has been
\* entered after it came, even when it is merged into one that is pending or
\* being dequeued; it is given up without that only where setup_frame could not
\* write its frame after it came.
StandardSignalsKept ==
    \A s \in 1 .. RtMin - 1 :
        owed[s] /\ at # "dead" => pending[s] \/ Delivering(s) \/ s \in unframed

\* Kept in the table, but the flag that makes process_pending_signals look is off.
Stranded(s) == pending[s] /\ ~signal_pending /\ at = "exec"

\* The guest goes on coming back to cpu_loop.  A call of process_pending_signals
\* delivers one signal, and nothing makes the guest return for the next one.
GuestReturns == []<>(at = "process")

\* What queue_signal promises, "so that it will be send to the virtual CPU as
\* soon as possible": the handler of a standard signal that came is entered, if
\* its frame can be written and the guest goes on coming back to cpu_loop.
SignalsAreDelivered ==
    GuestReturns =>
        \A s \in 1 .. RtMin - 1 :
            owed[s] ~> (~owed[s] \/ at = "dead" \/ s \in unframed)

\* The same but for a signal that came between the scan of the table and the
\* reset of signal_pending: it stays in the table with the flag off.
DeliveredUnlessStranded ==
    GuestReturns =>
        \A s \in 1 .. RtMin - 1 :
            owed[s] ~> (~owed[s] \/ at = "dead" \/ s \in unframed \/ Stranded(s))
=============================================================================
