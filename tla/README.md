# TQSIM in TLA+

TQSIM adds a timing model to QEMU's user-mode emulation of an ARM core. The
code that QEMU generates calls helpers (`src/src/target-arm/op_helper.c`) for
every instruction, branch and data access. The helpers drive a cache model, a
branch predictor and a sampler. The sampler records a short run of instructions
per period, and a second thread replays the record on a model of an out-of-order
core. In the build with a simulation kernel (`CONFIG_HSIM`), accesses to shared
memory, misses and system calls go to another process through shared memory.

This directory holds specifications of those parts, TLC configurations that
check them on small instances, and TLAPS proofs for instances of any size.
`PROJECT.json` lists, for every definition, the lines it models.

## 1. The parts of the system

| Part | Code | Modules |
|---|---|---|
| Trace analyzer: ROB, dependency matrix, functional units, five stages | `trace_analyzer/{trace_analyzer,rob,dep_mat,fu}.c` | `TraceAnalyzer` |
| Instruction queue: operations, links, element pool | `trace_analyzer/inst_queue.c` | `InstQueue`, `InstElems`, `TraceAnalyzerLinks` |
| Instruction decoding | `trace_analyzer/inst.c` | `Inst` |
| Trace buffer, sampling driver, thread interface, performance model | `op_helper.c`, `buffer_manager.c`, `trace_analyzer_thread_if.c`, `perfmodel.c`, `gdb_exit` of `gdbstub.c` | `Sampling` |
| Packet ring and its users | `packet_buffer.c`, `hsim_comm.c` | `PacketBuffer`, `PacketFifo` |
| Kernel stub, data buffer | `hsim_stub.c`, `hsim_comm.c`, `spm_buffer.c` | `HsimStub` |
| Memory map, environment file | `hsim_mmap.c`, `comm_read_env` of `hsim_stub.c` | `MemMap` |
| Caches | `cache.c`, `cachesim.c`, callers in `op_helper.c` | `Cache`, `CacheSim`, `LRU` |
| Branch predictor | `bpred_bimod.c`, `sat_counter.c`, `bpredsim.c` | `BiMode` |
| Translation block cache, page protection | `translate-all.c`, `exec-all.h` | `TranslationBlocks` |
| Execution loop of the cpu | `cpu-exec.c`, `qom/cpu.c`, `gen-icount.h`, `user-exec.c`, `linux-user/mmap.c` | `CpuExec` |
| Signal emulation | `linux-user/signal.c`, `qemu.h`, `main.c` | `Signals` |

How they interact:

- The guest thread calls `inst_increment` before each ARM instruction. It tells the
  predictor the outcome of the previous branch, accesses the instruction cache
  when the program leaves the fetch buffer, starts and ends samples, and
  records instructions. Loads and stores call `dcache_access`. Thumb instructions
  call everything but `inst_increment`.
- When a sample ends, an analyzer thread empties the record while the guest runs
  on. At the next period the guest joins it and updates the performance model
  with its cycles. There is no lock; `is_sampled` and the join are the protocol.
- The stub sends packets through one ring and receives replies through another.
  Reads and system calls wait for a reply; writes, misses and notices do not.
  The arguments of system calls are in registers that both processes share.
- The cycles that the stub reports come from `perfmodel_getSimpleCycle`, an
  estimate that an update of the performance model may lower.
- Under all of this is QEMU's loop: `cpu_exec` looks up the translated block of
  the guest pc, patches jumps between blocks and runs them. The helpers are
  called from those blocks, so the timing model counts what these blocks
  execute. A host signal asks the loop to leave; `cpu_loop` then makes system
  calls and delivers signals.

What is hard to test here: the unlocked hand-over between two threads; the
polling of a ring by two processes; pointers to instructions that commit has
freed; a loop that ends on the equality of counters; links in lists that are
rearranged by every access; arithmetic at the width of `int`, `uint32_t` and
`uint64_t`; requests in flight while shared registers are rewritten; translated
code that outlives the code it came from; signals between any two instructions of
the code that delivers them. The list of
hazards in `PROJECT.json` names each at its line.

## 2. Modules

Names are those of the code. A definition commented as `Mutant:` is a plausible
mistake that must make the property it is listed with fail; the specifications
do not use it.

**`TraceAnalyzer`** (with `Inst` and `InstQueue`). `trace_analysis` is
sequential, so one action is one iteration of the loop of a stage: `CommitInst`,
`WritebackInst`, `ExecuteInst`, `IssueInst`, `DispatchInst`, their ways to skip
or return, and `EndCycle`. `stage`, `w` and `pos` are the place in the code, the
remaining width and the place in a queue. An instruction is named by its ROB
slot; `NoInst` is freed memory, so that a pointer left behind is visible. Queues
are sequences of slots. `dep_mat[b]` is a row of the matrix, stale columns
included. `find_mems_dependency` clears the addresses it matched, as the code
does. `microops` splits PUSH and POP with the code's register indices. The
floating point average of the penalty is kept as its sum. `RecordInst` fills the
trace buffer with any program over a set of ARM instructions, each with the
accesses of its own registers: `NumAccesses` has one, or one per listed register
(doubleword and VFP transfers make more and PLD none; none of them is among the
codes, nor are Thumb instructions, see `Sampling`).

**`InstElems`** has the functions of `inst_queue.c` on elements with `prev` and
`next`, queue heads and the pool. `elem_from_pool` takes an element from the pool
or from `malloc`, which returns the smallest free address, so that addresses are
used again as soon as they can be; the refill condition of the code is inverted,
and the pool only drains. **`TraceAnalyzerLinks`** joins each action of
`TraceAnalyzer` that touches a queue with the calls the code makes there:
`LinkCommit` is `CommitInst` and the removal through `ldq_elem` and `stq_elem`,
and so on; `inst_elem` is the loop variable of the stages. Every disjunct of
`LinkNext` contains an action of `TraceAnalyzer`, so a behaviour of `LinkSpec` is
one of its `Spec` and the theorems of section 5 hold of it.

**`Sampling`**. The guest thread (`at`), the analyzer thread, and the globals
between them. `inst_increment` is cut where the other thread can tell the
difference. `to_int` is the assignment of a 64-bit count to an `int`.
The translator calls `inst_increment` in the ARM branch of its loop only
(`translate.c:11353`, `11374`). A Thumb instruction (`thumb`) is therefore not
counted in `num_insts` and has no record, but its loads, stores and jumps call
`dcache_access` and `set_branch_inst`: what it reports attaches to the newest
record, that of the last ARM instruction, and its outcome reaches the predictor
with that instruction's pc. `bx` and signal handlers change between the two. A
record that finds the buffer full is dropped (`push_code`).
`perfmodel_update` appends its arguments to `updates`; the averages it computes
from them are floating point and are left out.

**`PacketBuffer`** models `pb_is_full`, `pb_write`, `pb_is_empty` and `pb_read`
as two processes call them: poll, copy and index update are separate steps.
`PacketFifo` is the abstract channel. `PacketBuffer` refines it with the
contents of the ring as the channel.

**`HsimStub`** uses that channel for both rings. Guest actions are the calls
`mem_access`, `miss_access`, `hsim_internal_access`, `hsim_notice` and
`hsim_end` up to their `comm_send`, then `comm_send`, `comm_recv` and
`comm_recv_data`. The system calls are kept as the cases that
`hsim_internal_access` tells apart. The kernel is external. It takes packets in
order, and knows of a request what is in the packet and in the registers when it
takes it: a `begin` that it takes after the guest has written the next call is
served as that call. The cycle of `begin`, which the stub does not initialize, is
0 or all ones. The stub expects one reply to a blocking read and to every system
call but `begin`. It sends stores as blocking too and does not wait for them, so
the kernel may answer them or not. `strayed` says that the kernel has answered
otherwise than the stub expects, `stray` counts the replies too many; these,
`accesses`, `guest_mem`, `unsent` and `dropped` are history.

**`MemMap`** has the list of regions with its pointers, the lookup that moves a
region to the front (and leaves its `prev` alone), the two questions that a load
or store helper asks, `memmap_destroy`, which frees the list, and
`comm_read_env` as a loop over kinds of lines with an uninitialized buffer.

**`Cache`** has the operations on one cache: a set is a doubly linked list of
blocks, and `cacheset_moveBlkAtFirst` performs the assignments of the code in
their order. **`CacheSim`** composes three caches with the fetch buffer of
`inst_increment`. An uninitialized `miss_type` may be anything. **`LRU`** is the
abstract cache: the most recently used tags of each set.

**`BiMode`** has both kinds of branches. `mask(4096)` shifts a 64-bit value by
4096, which is undefined: the register mask is either 0 (the shift instruction
takes the count modulo 64) or all ones (the compiler folds the shift).
`last` and `streak` are history.

**`TranslationBlocks`** has the operations on `tb_ctx`, the page descriptors and
the jump cache as functions from one context to the next: `tb_alloc`,
`tb_flush`, `tb_link_page`, `tb_add_jump`, `tb_jmp_remove`,
`tb_phys_invalidate`, `page_set_flags`, `page_unprotect`, `tb_find_fast`. A block
is a slot of `tbs`; its code is the contents of its one or two pages when it was
translated. The tagged pointers of the jump lists are pairs of slot and tag.
**`CpuExec`** is the cpu thread over that context, one action between any two
places where `cpu_exit` can make a difference; a block does at most one store and
leaves through a direct jump, `exit_tb` or a system call. System calls also write
to guest memory, and unprotect the page first (`LockUserWrite`). It follows the
user-mode ARM build with one guest thread and equal host and guest pages. ARM does
not have `TARGET_HAS_PRECISE_SMC`: a block that overwrites itself runs to its end
with the old code, and keeps its own patched jumps when it is invalidated; `smc`
remembers this until the next lookup. (The guest needs `cacheflush` there, which
`cpu_loop` does not have to act on.) A store is the first instruction of
its block, so a fault restores the pc of the block. `PROT_NONE` is left out of
`Prots`; `munmap` covers the page without rights.

**`Signals`** has the signal table, the queue entries and the mask. The host
blocks signals while `host_signal_handler` runs, so it is one action;
`process_pending_signals` blocks none, so each of its memory accesses is one.
Handlers are functions ("once" has `SA_RESETHAND`), ignored or default; signals
that are ignored by default, or stop the process, behave as "ign", and
`gdb_handlesig` passes a signal on as it does without a debugger. `Faults` are the
signals that `cpu_loop` queues itself, blocked or not: SIGSEGV, and SIGILL and
SIGFPE of undefined instructions. `setup_frame` enters the handler, or returns
without it when the guest's stack cannot be written (`SetupFrameFails`,
`signal.c:1707`, `1728`, `1760`, `1800`): the signal is then gone, its mask is
blocked and `SA_RESETHAND` has taken effect. `owed` and `unframed` are history.

## 3. Runs

State counts are distinct states.

| Run | Bounds | Checks |
|---|---|---|
| `pipeline` (215,198) | two samples of 3 of str, pop, conditional branch, unsupported; ROB 3, width 2, one-entry load and store queues, pool of 2 | queues point to live instructions only, and the linked lists hold them; occupancy of units; counters balance through splitting; nothing leaks between samples; results are in range; operands and earlier accesses are ready at issue when the ring has not wrapped between the two; every analysis ends |
| `operands_wrapped` | 4 of add, mul, ldr, str | violation: see findings |
| `push_registers` | 4 of push, pop, conditional branch, unsupported | violation: see findings |
| `sampling` (757,814) | period 3, samples of 2, 3 and 4, a buffer of 3, 9 ARM instructions with any Thumb ones between them, one access per ARM instruction and what follows it, `int` of 10 values | the threads exclude each other; events go to the record of the last ARM instruction, their own unless they are a Thumb one's; updates combine data of one sample; one per period; the guest returns from every join |
| `packet_buffer` (5,482) | ring of 4, two packets | polls stay valid; the ring is a FIFO channel; sends return |
| `caches` (31,405) | 4 accesses; 2-way first-level caches and a 3-way second level whose number of sets is no power of two; two cycle values | lists stay linked; refinement of `LRU`; the fetch buffer filter changes nothing; misses reach the second level and starred misses are counted |
| `memory_map` (37,656) | 3 regions in 8 addresses that touch, overlap, or reach the top; three files of 5 lines | the list keeps its regions and is freed once; lookups are right, and the two of a helper agree; the file is read to its end |
| `stub` (716,989) | 3 accesses, or 2 once the kernel has strayed; rings of 2, one address per type, cycles up to 2, drops of 1 | replies are those that are waited for and the strays; while there are none: replies and data reach their request, and nothing is left when the rings are unmapped; reads see earlier writes; the kernel finds the call in the registers; the kernel's total, and a bound on what is not reported yet; every call returns |
| `predictor` (364,212) | 10 branches at 3 addresses, an unconditional one sharing a choice counter with a conditional one | repair of the speculative history; at most four mispredictions of a settled branch, and none after the first correct prediction |
| `translation` (802,446) | 2 pages, 3 pcs (one block spans both pages), 2 slots, 2 contents | the block entered runs the code in memory; pages of blocks are protected; patched jumps can be withdrawn; the pc is the guest's; a request stops the blocks |
| `signals` (703,682) | 3 signals (two standard, both also faults; one queued), queue of 1, 3 arrivals, handlers "fn", "once", "ign", one mask | a dequeue finds an entry; a standard signal stays in the table until its handler is entered or its frame fails; if the guest keeps returning it is delivered, unless its frame fails or it is stranded between scan and reset |
| `signal_lost` | 2 standard signals, 2 arrivals | violation: see findings |

`TypeOK` documents the types of the variables; where it is proved, section 5
says so, and no run lists it.

**Why the bounds are enough.** In the analyzer a ROB of 3 wraps around within
two samples, one-entry queues and single units are full as soon as a
second instruction needs them, and a width of 2 lets stages stop in the middle.
Two samples show what the first leaves to the second. A ring of 4 distinguishes
empty, full and wrapped. Three accesses of the stub allow a write, a system call
and a read in flight behind an untaken `begin` and a notice, and fill a ring of
2. Three regions give the list a first, a middle and a last element. Four
accesses fill three ways of a set and evict, or fill two, touch one and evict
the other. Ten branches drive a counter of two bits from one end to the other
and back. Samples shorter than, equal to and longer than the period are three
initial states of `sampling`. Two slots make every third translation a flush, so
that a block in use is flushed and its slot taken; three pcs collide in the jump
cache and two of them in the hash; a pool of 2 is drained by the first sample.
Three arrivals put a second signal of the same number and one of another between
any two steps of a delivery. A buffer of 3 is full for samples of 4 only. Two accesses
after the kernel has strayed are enough for a reply to be taken by the wrong
request and for the next one to find the wrong one too.

**Deadlock** is checked except where the program may stop: the stub after
`hsim_end` or `exit`, the guest process that a signal ends, and the cache and
predictor runs at their bound.

**Fairness.** `WF(Analysis)`: a thread that runs sequential code goes on.
`Sampling` assumes it of the guest's `inst_increment` and wrap-up, and of the
analyzer thread: the scheduler of the host runs both, and a created thread
starts. `PacketBuffer` assumes it of a process inside `pb_write`, `pb_read` or a
polling loop, never that a process makes another call; `SendReturns` names the
receiver's calls as its hypothesis. `HsimStub` assumes it of a call that has been
made and of the kernel's service. `MemMap` assumes it of the loop of
`comm_read_env`. `Signals` assumes it of the thread inside
`process_pending_signals` and of `cpu_exec` honouring `exit_request` (which is what
`RequestStopsBlocks` shows as a safety property). A call of
`process_pending_signals` delivers one signal, and the next one waits for the next
return of `cpu_exec`, which nothing guarantees: a guest may compute for ever. So
`GuestReturns` (the guest comes back to `cpu_loop` again and again) is a hypothesis
of the two delivery properties and not fairness. `CpuExec` states no
fairness: that the loop is left needs the guest's blocks to end, and the form
checked is that no block begins after a request.

## 4. Findings

1. **`in_order` at the wrap-around** (`dep_mat.c:13`, run `operands_wrapped`).
   When the producer is at the end of the ring and the consumer has wrapped to
   its beginning, the third test has its sides swapped and the dependency is
   ignored: the consumer issues before the producer can forward.
   `OperandsReadyUnwrapped` states, and a theorem proves, that there is no other
   way to lose a register dependency.
2. **Registers of PUSH** (`trace_analyzer.c:644`, run `push_registers`). The
   stores into which PUSH is split read `src_reg[i]`, where `src_reg[0]` is SP:
   they read SP and all listed registers but the last.
3. **A signal between scan and reset** (`signal.c:5599`, run `signal_lost`).
   `process_pending_signals` finds no signal in the table, and then resets
   `signal_pending`. A signal that comes between the two is in the table with the
   flag off: it is not delivered until another one comes, although
   `queue_signal` is to send it "as soon as possible". (The function carries a
   comment "FIXME: This is not threadsafe"; one thread suffices.)
   `DeliveredUnlessStranded` shows, for a guest that keeps returning to `cpu_loop`,
   that a standard signal misses its handler only in this way or because its
   frame cannot be written to the guest's stack.

Where the repository does not settle what is right: `hsim_packet.h:13` has
"packet_write, /* blocking */", and the stub sends stores with that type, but
`mem_access` waits for a reply to reads only (`hsim_stub.c:158`). Which of the two
the kernel follows cannot be seen here. If it does not answer stores, replies
match and `ReadsOwnWrites` shows that the core cannot tell that a store returns
early; if it answers them, each answer stays in the ring and is taken by the next
request, which returns the wrong data, and so on until a sleep (`RepliesMatch`
keeps count of them). The same happens when the kernel takes `begin` only after
the guest has written its first call.

Met while modelling, with no statement in the repository to hold against them:
`find_mems_dependency` overwrites a matched address with 0, so that a third
access to an address waits only for the first, and counts a match of LDM or STM
twice; `push_front_inst` leaves `newest_inst_elem` NULL when it fills an empty
buffer, which is harmless only because the buffer is drained before the next
`push_back_inst`; a sample longer than its period makes the first update divide
0 by 0; what Thumb instructions do is recorded with the ARM instruction before
them, whose `eff_addr[16]` a run of them can overfill, since `set_inst_eff_addr`
(`inst.c:140`) does not test it; a handler whose frame cannot be written is not
entered, and nothing is reported; `target_mremap`, `do_shmat` and `do_shmdt` leave blocks of the pages they take
away; a queued signal that comes while the list of its number is being unlinked can
be lost, and `free_sigqueue` can drop entries from the free list; the mask is not
consulted for signals in the table; the caches are read after they are freed when
the program ends; `comm_read_env` does not end
when the last line is a comment; a `fetch_mem` of 0 bytes does not return; an
access that sends no packet loses its cycles; an unconditional branch looks up
the predictor first and shifts the history twice; `mask(4096)` is undefined, and
with the usual result of 0 the predictor has no history.

## 5. Proofs

All constants are arbitrary, subject to the named assumptions of the modules
(`ConfigAssumption`, `BoundAssumption`, `ProgramAssumption`,
`CapacityAssumption`; `CacheAssumption`; `BufferAssumption`: a ring of at least
2 elements; `SignalsAssumption`: the faults, `SIGSEGV` among them, are standard
signals). TLC
evaluates them in every run.

**Packet ring** (`PacketBuffer_proofs`). `TypeCorrect`, `PollValid` and
`RingImplementsFifo`. The inductive invariant is the type invariant with
`PollStaysValid`: a poll is only safe because the other process can move its own
index in the favourable direction, which is what the conjuncts about `Count`
say. The refinement has one lemma per effect on the contents: copying into the
free element changes nothing, moving `end` appends, moving `start` removes.

**Trace analyzer** (`TraceAnalyzer_lemmas`, `TraceAnalyzer_proofs`). `IInv` joins
types, `QueuesMirrorRob` and `CountsBalance` with what they need to be inductive: `Ring` (`end_idx` is
`start_idx` plus `rob_size` modulo the capacity), `LiveInsts` (every slot in
flight holds an instruction in a dispatched state), the shape of the trace
buffer, and facts tied to the place in the code. One lemma per action. From it
`TypeCorrect`, `QueuesCorrect` and `CountsCorrect`.

- `TraceAnalyzerUnits_proofs`: `UnitsCorrect` by counting the occupants of each
  unit; `SamplesIndependent`, since the loop ends only when the ROB is empty and
  the queues mirror the ROB.
- `TraceAnalyzerTiming_proofs`: `ResultCorrect` with `WidthInv` (instructions
  dispatched so far against the cycles elapsed and the width left in this one);
  `PenaltyCorrect` with `WaitInv` (a lower bound on how long an instruction has
  waited, by its state and the stage that runs); `ResultsCorrect` joins the two
  as the property the run checks.
- `TraceAnalyzerOperands_proofs`: `OperandsCorrect` with `ProducersRecorded`
  (the youngest older writer of an operand is in the row of `dep_mat`).

`TraceAnalyzer_lemmas` has the lemmas about the queue operations, the ring, the
decoding and the micro-operations, and the definition of `IInv`.

**Caches** (`CacheSim_proofs`). `SetsLinkedAlways` and `TypeCorrect`, for every
number of sets, associativity and sequence of accesses. `MovedLinked` is the
heart: if an order of the blocks matches the links before
`cacheset_moveBlkAtFirst`, the order with the block moved to its front matches
the links after it. `GoodCache` carries this through `cache_access`.

**Signals** (`Signals_proofs`). `DequeueCorrect` and `StandardCorrect`, for every
number of signals, length of the queue, masks, handlers, faults and sequence of
arrivals. `StandardCorrect` says that a standard signal leaves the table without
its handler being entered only where `setup_frame` fails.
The invariant joins the two properties with the type of the table and
`PendingHasEntry`: a signal that is pending has an entry, except the one being
dequeued between the store of `k->first` and that of `k->pending`. This exception is
why a dequeue is safe although signals come between its steps: the thread itself
leaves the window before it dequeues again.

**Only model-checked:** liveness (`AnalysisEnds`, `JoinReturns`, `SendReturns`,
`AccessReturns`, `EnvIsRead`, `DeliveredUnlessStranded`), which needs fairness; the
refinement of `LRU` and the lists of `TraceAnalyzerLinks`, `MemMap` and
`TranslationBlocks`, which are recursive functions on links; `Sampling`,
`HsimStub`, `BiMode` and `CpuExec`.

## 6. Not modelled

- The functions `destroy_*` and `print_*` of `inst_queue.c`: called by the
  stand-alone test driver only.
- Most of QEMU. The repository contains all of its machines, devices, block
  drivers, front ends and target processors, about 890,000 lines of which the
  simulator builds and runs a small part; of that part, the block cache, the
  execution loop and the signal emulation are modelled because their correctness
  depends on orders of events. The rest of the part is translation between
  formats (instruction sets, system call structures, ELF files).
- In the translation block cache: `PROT_NONE`, several guest threads, system mode,
  `icount`, the debugger, and the `shmat` calls.
- In the signal emulation: frame layouts, `sigaltstack`, `siginfo`, stop signals.
- Sockets and pipes (`hsim_start` selects shared memory), opening segments,
  processor affinity: input and output.
- Configuration files and statistics: they read constants and print results.
- `cache_copy`, `cache_invalidate`, the FIFO and Random policies, the squash
  functions of the predictor, `bpred_2bit_local.c`: no caller in the build.
- Floating point: the averages of the performance model.
- Code generation in QEMU's `target-arm/translate.c`, to which TQSIM adds about
  twenty lines that call the helpers, and the disassembler: their calls and
  results are the inputs of `Sampling` and `TraceAnalyzer`.

## 7. Plan

By importance:

1. `Sampling`: prove `AnalyzerExclusive`, `RecordsOwnEvents` and
   `UpdateMatchesAnalysis`. The invariant relates `num_sampled_inst`,
   `num_insts` and the length of the record at each place of the guest.
2. `HsimStub`: prove `RepliesMatch`, `SyscallIntact` and `ReadsOwnWrites` for
   every capacity and number of accesses.
3. `CpuExec`: prove `PagesProtected`, whose invariant needs no lists, and compose
   the loop with `Signals` through `exit_request`.
4. The end of the program: `Sampling`, `CacheSim` and `HsimStub` composed in the
   order of `gdb_exit`, with the lifetime of the caches that
   `perfmodel_getSimpleCycle` reads after they are freed.
