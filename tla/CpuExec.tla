------------------------------ MODULE CpuExec ------------------------------
(***************************************************************************)
(* The execution loop of the guest cpu (cpu_exec and the ARM cpu_loop)     *)
(* over the cache of translated code: find the block of the guest pc,      *)
(* patch the jump of the block that led there, run blocks that jump to one *)
(* another, and leave for a system call, a fault or a request of cpu_exit, *)
(* which a host signal handler makes between any two steps.  The guest     *)
(* and its system calls store into its code, and remap and protect pages.  *)
(***************************************************************************)
EXTENDS TranslationBlocks

CONSTANTS
    Contents,           \* what a page of code may hold
    Dest                \* Dest[pc][code][n]: where exit n of the code at pc goes

VARIABLES
    ctx,                \* tcg_ctx.tb_ctx, the page descriptors, tb_jmp_cache
    content,            \* the guest's memory: what each page holds, or Gone
    at,                 \* where the cpu thread is
    tb,                 \* the block entered or run
    next_tb,            \* the block and exit that led to the lookup, or NULL
    pc,                 \* env->regs[15] as the loop sees it
    exit_request, tcg_exit_req,
    gpc,                \* history: the pc the guest's program is at
    smc                 \* history: blocks running overwrote code since the lookup

vars == <<ctx, content, at, tb, next_tb, pc, exit_request, tcg_exit_req, gpc, smc>>
cpuvars == <<exit_request, tcg_exit_req>>

Gone == -1
RW == {"VALID", "READ", "WRITE"}
Prots == {RW, RW \ {"WRITE"}}

Init ==
    /\ ctx = EmptyContext([p \in Pages |-> RW \cup {"WRITE_ORG"}])
    /\ content \in [Pages -> Contents]
    /\ at = "top"
    /\ tb = NoTb
    /\ next_tb = NULL
    /\ pc \in PCs
    /\ exit_request = FALSE
    /\ tcg_exit_req = FALSE
    /\ gpc = pc
    /\ smc = FALSE

\* Mutant: the running block is not told.
cpu_exit_quiet ==
    /\ ~exit_request
    /\ exit_request' = TRUE
    /\ UNCHANGED <<ctx, content, at, tb, next_tb, pc, tcg_exit_req, gpc, smc>>

\* cpu_exit, called by host_signal_handler at any time.
cpu_exit ==
    /\ ~(exit_request /\ tcg_exit_req)
    /\ exit_request' = TRUE
    /\ tcg_exit_req' = TRUE
    /\ UNCHANGED <<ctx, content, at, tb, next_tb, pc, gpc, smc>>

\* The cpu returns from the blocks, to the top of the loop or by longjmp.
Return(place) == at' = place /\ tb' = NoTb /\ smc' = FALSE

\* Top of the loop: a request leaves it with EXCP_INTERRUPT.
LeaveOnRequest ==
    /\ at = "top"
    /\ exit_request
    /\ exit_request' = FALSE
    /\ at' = "cpu_loop"
    /\ next_tb' = NULL
    /\ UNCHANGED <<ctx, content, tb, pc, tcg_exit_req, gpc, smc>>

\* After the test, take tb_lock.
PassRequest ==
    /\ at = "top"
    /\ ~exit_request
    /\ at' = "find"
    /\ UNCHANGED <<ctx, content, tb, next_tb, pc, cpuvars, gpc, smc>>

\* The block of pc once tb_find_fast has updated the context.
FoundTb(c) == c.tb_jmp_cache[JmpCacheHash[pc]]

\* The steps of the loop after tb_find_fast: drop next_tb when blocks were
\* invalidated, else patch the jump that led here, unless the block spans two
\* pages.
Chain(c) ==
    LET d == [c EXCEPT !.tb_invalidated_flag = FALSE]
        t == FoundTb(c)
        patch == /\ ~c.tb_invalidated_flag
                 /\ next_tb # NULL
                 /\ c.tbs[t].page_addr[2] = NoPage
    IN  IF patch THEN tb_add_jump(d, next_tb[1], next_tb[2], t) ELSE d

Find ==
    /\ at = "find"
    /\ ~FaultsInTranslation(ctx, pc)
    /\ LET c == tb_find_fast(ctx, pc, content)
       IN  /\ ctx' = Chain(c)
           /\ next_tb' = IF c.tb_invalidated_flag THEN NULL ELSE next_tb
           /\ tb' = FoundTb(c)
    /\ at' = "found"
    /\ smc' = FALSE
    /\ UNCHANGED <<content, pc, cpuvars, gpc>>

\* A fault of the translator leaves the loop by longjmp.
FindFaults ==
    /\ at = "find"
    /\ FaultsInTranslation(ctx, pc)
    /\ ctx' = tb_gen_fault(ctx, pc)
    /\ at' = "cpu_loop"
    /\ next_tb' = NULL
    /\ UNCHANGED <<content, tb, pc, cpuvars, gpc, smc>>

\* The second test of exit_request, then cpu_tb_exec, whose result becomes
\* next_tb.
Start ==
    /\ at = "found"
    /\ \/ exit_request /\ Return("top") /\ UNCHANGED next_tb
       \/ ~exit_request /\ at' = "entry" /\ next_tb' = NULL /\ UNCHANGED <<tb, smc>>
    /\ UNCHANGED <<ctx, content, pc, cpuvars, gpc>>

\* gen_tb_start: a block that finds tcg_exit_req set exits before its first
\* instruction.
Enter ==
    /\ at = "entry"
    /\ at' = IF tcg_exit_req THEN "requested" ELSE "body"
    /\ UNCHANGED <<ctx, content, tb, next_tb, pc, cpuvars, gpc, smc>>

\* Mutant: pc is not restored to the start of the block.
Requested_stale ==
    /\ at = "requested"
    /\ tcg_exit_req' = FALSE
    /\ Return("top")
    /\ UNCHANGED <<ctx, content, next_tb, pc, exit_request, gpc>>

\* cpu_tb_exec and cpu_exec after TB_EXIT_REQUESTED.
Requested ==
    /\ at = "requested"
    /\ pc' = ctx.tbs[tb].pc
    /\ tcg_exit_req' = FALSE
    /\ Return("top")
    /\ UNCHANGED <<ctx, content, next_tb, exit_request, gpc>>

-----------------------------------------------------------------------------
(* What a block does: at most one store, then an exit. *)

\* A store into page p.  A host fault of a protected page goes to
\* handle_cpu_signal, which unprotects the page, and the store is done again.
Store(p, v) ==
    /\ at = "body"
    /\ ctx.host_write[p] \/ CanUnprotect(ctx, p)
    /\ ctx' = IF ctx.host_write[p] THEN ctx ELSE page_unprotect(ctx, p)
    /\ content' = [content EXCEPT ![p] = v]
    /\ smc' = (smc \/ ~ctx.host_write[p])
    /\ at' = "stored"
    /\ UNCHANGED <<tb, next_tb, pc, cpuvars, gpc>>

\* A store the guest may not do: cpu_restore_state sets pc, and the loop is
\* left for SIGSEGV.
StoreFaults(p) ==
    /\ at = "body"
    /\ ~ctx.host_write[p] /\ ~CanUnprotect(ctx, p)
    /\ pc' = ctx.tbs[tb].pc
    /\ Return("cpu_loop")
    /\ UNCHANGED <<ctx, content, next_tb, cpuvars, gpc>>

\* gen_goto_tb: a jump within the page of the block goes to the patched target,
\* pc untouched, or sets pc and returns the block and the exit.
GotoTb(n) ==
    LET b == ctx.tbs[tb]
        dest == Dest[b.pc][b.code][n]
    IN  /\ at \in {"body", "stored"}
        /\ PagesOf[b.pc][1] = PagesOf[dest][1]
        /\ gpc' = dest
        /\ \/ /\ b.jmp_target[n] # NoTb
              /\ tb' = b.jmp_target[n]
              /\ at' = "entry"
              /\ UNCHANGED <<next_tb, pc>>
           \/ /\ b.jmp_target[n] = NoTb
              /\ pc' = dest
              /\ next_tb' = <<tb, n>>
              /\ at' = "top"
              /\ UNCHANGED tb
        /\ UNCHANGED <<ctx, content, cpuvars, smc>>

\* A jump to another page, or an indirect one: exit_tb(0).
ExitTb(dest) ==
    /\ at \in {"body", "stored"}
    /\ pc' = dest
    /\ gpc' = dest
    /\ Return("top")
    /\ UNCHANGED <<ctx, content, next_tb, cpuvars>>

\* A system call leaves the loop with the pc of the next instruction.
Swi(dest) ==
    /\ at \in {"body", "stored"}
    /\ pc' = dest
    /\ gpc' = dest
    /\ Return("syscall")
    /\ UNCHANGED <<ctx, content, next_tb, cpuvars>>

-----------------------------------------------------------------------------
(* cpu_loop: system calls on the address space, and signal delivery. *)

HostProtect(c, p, prot) == [c EXCEPT !.host_write[p] = "WRITE" \in prot]

Syscall(c, mem) ==
    /\ at = "syscall"
    /\ ctx' = c
    /\ content' = mem
    /\ at' = "cpu_loop"
    /\ UNCHANGED <<tb, next_tb, pc, cpuvars, gpc, smc>>

\* target_mmap at a fixed address.
target_mmap(p, v, prot) ==
    Syscall(tb_invalidate_phys_range(
                page_set_flags(HostProtect(ctx, p, prot), p, prot), p),
            [content EXCEPT ![p] = v])

\* target_mprotect of a mapped page.
target_mprotect(p, prot) ==
    /\ content[p] # Gone
    /\ Syscall(page_set_flags(HostProtect(ctx, p, prot), p, prot), content)

target_munmap(p) ==
    Syscall(tb_invalidate_phys_range(
                page_set_flags(HostProtect(ctx, p, {}), p, {}), p),
            [content EXCEPT ![p] = Gone])

\* target_mremap of page p to q, MREMAP_FIXED: the flags move with the page,
\* and only the blocks of the new place are invalidated.
target_mremap(p, q) ==
    LET prot == ctx.flags[p]
        moved == [ctx EXCEPT !.host_write[q] = ctx.host_write[p],
                             !.host_write[p] = FALSE]
        flagged == page_set_flags(page_set_flags(moved, p, {}), q, prot)
    IN  /\ p # q
        /\ content[p] # Gone
        /\ Syscall(tb_invalidate_phys_range(flagged, q),
                   [content EXCEPT ![q] = content[p], ![p] = Gone])

\* A system call, or setup_frame for a signal, writes into guest memory: the
\* page_check_range of lock_user unprotects a page that the cache protected.
LockUserWrite(p, v) ==
    /\ at \in {"syscall", "cpu_loop"}
    /\ {"VALID", "WRITE_ORG"} \subseteq ctx.flags[p]
    /\ ctx' = IF "WRITE" \in ctx.flags[p] THEN ctx ELSE page_unprotect(ctx, p)
    /\ content' = [content EXCEPT ![p] = v]
    /\ at' = "cpu_loop"
    /\ UNCHANGED <<tb, next_tb, pc, cpuvars, gpc, smc>>

\* Any other system call, or one whose page_check_range fails.
OtherSyscall == Syscall(ctx, content)

\* process_pending_signals, which may enter a guest handler, and cpu_exec again.
CpuExecAgain(dest) ==
    /\ at = "cpu_loop"
    /\ pc' = dest
    /\ gpc' = IF dest = pc THEN gpc ELSE dest
    /\ at' = "top"
    /\ UNCHANGED <<ctx, content, tb, next_tb, cpuvars, smc>>

MemorySyscall ==
    \E p \in Pages :
        \/ \E v \in Contents, prot \in Prots : target_mmap(p, v, prot)
        \/ \E prot \in Prots : target_mprotect(p, prot)
        \/ target_munmap(p)
        \/ \E q \in Pages : target_mremap(p, q)
        \/ \E v \in Contents : LockUserWrite(p, v)

CpuStep ==
    \/ LeaveOnRequest \/ PassRequest \/ Find \/ FindFaults \/ Start \/ Enter
    \/ Requested
    \/ \E p \in Pages : StoreFaults(p) \/ \E v \in Contents : Store(p, v)
    \/ \E n \in 0 .. 1 : GotoTb(n)
    \/ \E dest \in PCs : ExitTb(dest) \/ Swi(dest) \/ CpuExecAgain(dest)
    \/ MemorySyscall
    \/ OtherSyscall

Next == CpuStep \/ cpu_exit

Spec == Init /\ [][Next]_vars
-----------------------------------------------------------------------------
(* Properties. *)

AllHashed(c) == UNION {Range(c.tb_phys_hash[h]) : h \in DOMAIN c.tb_phys_hash}

BlockPages(c, t) == {p \in Range(c.tbs[t].page_addr) : p # NoPage}

\* What the block was translated from is what its pages hold.  A page that
\* mremap moved away holds nothing.
Current(t) ==
    LET b == ctx.tbs[t]
    IN  \A i \in DOMAIN b.code : content[b.page_addr[i]] \in {b.code[i], Gone}

\* A block found by a lookup, or by the jumps patched from it, runs the code
\* that is in memory: only blocks that follow a store into code, until the
\* next lookup, may be out of date.  This is what invalidation, the jump cache
\* and the jump lists are for.
ExecutesCurrentCode == at = "body" /\ ~smc => Current(tb)

\* The check of tb_page_check, of the page flags and of the host's protection:
\* no page of a block that a lookup can find may be written without a fault.
PagesProtected ==
    \A t \in AllHashed(ctx) : \A p \in BlockPages(ctx, t) :
        "WRITE" \notin ctx.flags[p] /\ ~ctx.host_write[p]

\* The list of the jumps into t: the pointers from jmp_first up to the head.
JumpsTo(c, t) ==
    LET list == JmpList(c, <<t, 2>>)
    IN  {list[k] : k \in {j \in DOMAIN list :
                             \A i \in 1 .. j : list[i][2] # 2 /\ list[i] # NULL}}

\* A jump patched into a block that a lookup can find leads to another such
\* block, and stands in its list, which ends at its own head: so
\* tb_phys_invalidate undoes every jump into the block, and the walks of
\* tb_jmp_remove and tb_phys_invalidate end.
JumpsWithdrawable ==
    \A t \in AllHashed(ctx) :
        /\ \E k \in 1 .. 2 * MaxBlocks + 1 :
              /\ JmpList(ctx, <<t, 2>>)[k] = <<t, 2>>
              /\ \A j \in 1 .. k - 1 : JmpList(ctx, <<t, 2>>)[j][2] \in 0 .. 1
                                       /\ JmpList(ctx, <<t, 2>>)[j] # NULL
        /\ \A n \in 0 .. 1 : ctx.tbs[t].jmp_target[n] # NoTb =>
              /\ ctx.tbs[t].jmp_target[n] \in AllHashed(ctx)
              /\ <<t, n>> \in JumpsTo(ctx, ctx.tbs[t].jmp_target[n])

\* The loop resumes where the guest's program is, whether the last blocks
\* jumped directly (leaving pc behind), were asked to exit or faulted; and the
\* block entered is the block of that pc.
FollowsGuestPc ==
    /\ at \in {"top", "find", "cpu_loop", "syscall"} => pc = gpc
    /\ at \in {"found", "entry", "requested", "body"} => ctx.tbs[tb].pc = gpc

\* Once cpu_exit has asked the cpu to leave the loop no further block begins,
\* whether blocks were being looked up, entered or jumping to one another.
RequestStopsBlocks == [][at = "entry" /\ at' = "body" => ~exit_request]_vars
=============================================================================
