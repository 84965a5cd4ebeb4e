------------------------- MODULE TranslationBlocks -------------------------
(***************************************************************************)
(* QEMU's cache of translated code (translate-all.c, cpu-exec.c and        *)
(* exec-all.h) as the user-mode ARM build uses it.  The context of the     *)
(* cache is one record: the array of TranslationBlocks, the hash of them   *)
(* by guest pc, the per-cpu jump cache in front of the hash, the list of   *)
(* blocks of every guest page, and the protection of the pages, which is   *)
(* what makes a store into translated code noticed.  The C functions are   *)
(* operators from context to context.                                      *)
(*                                                                         *)
(* A block has two exits.  An exit of a block may be patched to jump to    *)
(* another block without a lookup; the jumps into a block form a circular  *)
(* list through the jmp_next fields of the jumping blocks, headed by the   *)
(* jmp_first field of the target.  A pointer of that list is the pair of a *)
(* block and a tag: 0 or 1 for the exit of a jumping block, 2 for the head.*)
(***************************************************************************)
EXTENDS Integers, Sequences, FiniteSets, SequencesExt

CONSTANTS
    Pages,              \* guest pages, 0 .. n; a host page is a guest page
    PCs,                \* guest addresses at which a block may start
    PagesOf,            \* the pages of the block of a pc: one, or two in order
    PhysHash,           \* tb_phys_hash_func
    JmpCacheHash,       \* tb_jmp_cache_hash_func
    MaxBlocks           \* code_gen_max_blocks

ASSUME BlocksAssumption ==
    /\ MaxBlocks \in Nat \ {0}
    /\ PagesOf \in [PCs -> Seq(Pages)]
    /\ \A pc \in PCs : Len(PagesOf[pc]) \in {1, 2}

NoTb == -1
NoPage == -1
NULL == <<NoTb, 0>>
Slots == 0 .. MaxBlocks - 1

\* A slot of tbs whose fields nobody has set since the last flush.
FreeTb ==
    [pc |-> "", code |-> <<>>, page_addr |-> <<NoPage, NoPage>>,
     jmp_target |-> [n \in 0 .. 1 |-> NoTb],
     jmp_next |-> [n \in 0 .. 1 |-> NULL], jmp_first |-> NULL]

\* page_flush_tb, and the flags the loader gave the pages.
EmptyContext(flags) ==
    [nb_tbs |-> 0, tbs |-> [i \in Slots |-> FreeTb],
     tb_phys_hash |-> [h \in {PhysHash[pc] : pc \in PCs} |-> <<>>],
     tb_jmp_cache |-> [h \in {JmpCacheHash[pc] : pc \in PCs} |-> NoTb],
     first_tb |-> [p \in Pages |-> <<>>],
     flags |-> flags,
     host_write |-> [p \in Pages |-> "WRITE" \in flags[p]],
     tb_invalidated_flag |-> FALSE]

\* tb_flush: forget every block.  The fields of the slots are not read again
\* before tb_link_page sets them.
tb_flush(c) ==
    [EmptyContext(c.flags) EXCEPT !.host_write = c.host_write,
                                  !.tb_invalidated_flag = c.tb_invalidated_flag]

-----------------------------------------------------------------------------
(* The circular lists of jumps. *)

\* The pointer that the field designated by p holds.
Next_jmp(c, p) ==
    IF p[1] = NoTb THEN NULL
    ELSE IF p[2] = 2 THEN c.tbs[p[1]].jmp_first
    ELSE c.tbs[p[1]].jmp_next[p[2]]

\* The pointers met from p on: a list visits every exit at most once, and the
\* head.
JmpList(c, p) ==
    LET walk[i \in 0 .. 2 * MaxBlocks] ==
            IF i = 0 THEN Next_jmp(c, p) ELSE Next_jmp(c, walk[i - 1])
    IN  [i \in 1 .. 2 * MaxBlocks + 1 |-> walk[i - 1]]

\* Store pointer v in the field designated by p.
SetNext(c, p, v) ==
    IF p[2] = 2 THEN [c EXCEPT !.tbs[p[1]].jmp_first = v]
                ELSE [c EXCEPT !.tbs[p[1]].jmp_next[p[2]] = v]

\* tb_add_jump: patch exit n of tb to jump to tb_next, unless it is patched.
tb_add_jump(c, tb, n, tb_next) ==
    IF c.tbs[tb].jmp_next[n] # NULL THEN c
    ELSE [c EXCEPT !.tbs[tb].jmp_target[n] = tb_next,
                   !.tbs[tb].jmp_next[n] = c.tbs[tb_next].jmp_first,
                   !.tbs[tb_next].jmp_first = <<tb, n>>]

\* tb_jmp_remove: take exit n of tb out of the list it is in.  The jump itself
\* stays patched.
tb_jmp_remove(c, tb, n) ==
    LET after == JmpList(c, <<tb, n>>)
        i == CHOOSE k \in DOMAIN after : after[k] = <<tb, n>>
        ptb == IF i = 1 THEN <<tb, n>> ELSE after[i - 1]
    IN  IF c.tbs[tb].jmp_next[n] = NULL THEN c
        ELSE SetNext(SetNext(c, ptb, c.tbs[tb].jmp_next[n]), <<tb, n>>, NULL)

\* The loop of tb_phys_invalidate that suppresses the jumps to tb.
suppress_jumps(c, tb) ==
    LET list == JmpList(c, <<tb, 2>>)
        end == CHOOSE k \in DOMAIN list :
                  list[k][2] = 2 /\ \A j \in 1 .. k - 1 : list[j][2] # 2
        reset(d, p) == [d EXCEPT !.tbs[p[1]].jmp_target[p[2]] = NoTb,
                                 !.tbs[p[1]].jmp_next[p[2]] = NULL]
    IN  [FoldLeft(reset, c, SubSeq(list, 1, end - 1))
            EXCEPT !.tbs[tb].jmp_first = <<tb, 2>>]

-----------------------------------------------------------------------------
(* Invalidation. *)

\* tb_hash_remove and tb_page_remove.
without(list, tb) == SelectSeq(list, LAMBDA q : q # tb)

\* Mutant: the jump cache is not cleared.
tb_phys_invalidate_cached(c, tb, page_addr) ==
    LET b == c.tbs[tb]
        gone == [c EXCEPT
            !.tb_phys_hash[PhysHash[b.pc]] = without(@, tb),
            !.first_tb = [p \in Pages |-> IF p \in Range(b.page_addr) \ {page_addr}
                                          THEN without(@[p], tb) ELSE @[p]],
            !.tb_invalidated_flag = TRUE]
    IN  suppress_jumps(tb_jmp_remove(tb_jmp_remove(gone, tb, 0), tb, 1), tb)

\* tb_phys_invalidate: page_addr is the page whose list the caller clears.
tb_phys_invalidate(c, tb, page_addr) ==
    LET b == c.tbs[tb]
        unhashed ==
            [c EXCEPT !.tb_phys_hash[PhysHash[b.pc]] = without(@, tb)]
        others == {p \in Range(b.page_addr) : p # NoPage /\ p # page_addr}
        unlisted ==
            [unhashed EXCEPT !.first_tb =
                [p \in Pages |-> IF p \in others THEN without(@[p], tb)
                                 ELSE @[p]]]
        uncached ==
            [unlisted EXCEPT
                !.tb_invalidated_flag = TRUE,
                !.tb_jmp_cache[JmpCacheHash[b.pc]] = IF @ = tb THEN NoTb ELSE @]
    IN  suppress_jumps(tb_jmp_remove(tb_jmp_remove(uncached, tb, 0), tb, 1), tb)

\* tb_invalidate_phys_page: invalidate the blocks of page p, then clear its
\* list.
tb_invalidate_phys_page(c, p) ==
    LET invalidate(d, tb) == tb_phys_invalidate(d, tb, p)
    IN  [FoldLeft(invalidate, c, c.first_tb[p]) EXCEPT !.first_tb[p] = <<>>]

\* tb_invalidate_phys_range over whole pages: every block of a page intersects
\* the range, and takes itself out of every list.
tb_invalidate_phys_range(c, p) ==
    LET invalidate(d, tb) == tb_phys_invalidate(d, tb, NoPage)
    IN  FoldLeft(invalidate, c, c.first_tb[p])

\* Mutant: code is invalidated only when the page had no flags before.
page_set_flags_fresh(c, p, flags) ==
    LET new == IF "WRITE" \in flags THEN flags \cup {"WRITE_ORG"} ELSE flags
        d == IF c.flags[p] = {} THEN tb_invalidate_phys_page(c, p) ELSE c
    IN  [d EXCEPT !.flags[p] = new]

\* page_set_flags of one page.
page_set_flags(c, p, flags) ==
    LET new == IF "WRITE" \in flags THEN flags \cup {"WRITE_ORG"} ELSE flags
        d == IF /\ "WRITE" \notin c.flags[p]
                /\ "WRITE" \in flags
                /\ c.first_tb[p] # <<>>
             THEN tb_invalidate_phys_page(c, p) ELSE c
    IN  [d EXCEPT !.flags[p] = new]

\* page_unprotect succeeds on a page that only the cache made read-only.
CanUnprotect(c, p) == "WRITE_ORG" \in c.flags[p] /\ "WRITE" \notin c.flags[p]

page_unprotect(c, p) ==
    [tb_invalidate_phys_page([c EXCEPT !.flags[p] = @ \cup {"WRITE"}], p)
        EXCEPT !.host_write[p] = TRUE]

-----------------------------------------------------------------------------
(* Generation and lookup. *)

\* tb_alloc_page: list the block in the page and write-protect the page.
tb_alloc_page(c, tb, n, p) ==
    LET d == [c EXCEPT !.tbs[tb].page_addr[n] = p,
                       !.first_tb[p] = <<tb>> \o @]
    IN  IF "WRITE" \notin c.flags[p] THEN d
        ELSE [d EXCEPT !.flags[p] = @ \ {"WRITE"}, !.host_write[p] = FALSE]

tb_link_page(c, tb, pages) ==
    LET pc == c.tbs[tb].pc
        hashed == [c EXCEPT !.tb_phys_hash[PhysHash[pc]] = <<tb>> \o @]
        first == tb_alloc_page(hashed, tb, 1, pages[1])
        both == IF Len(pages) = 2 THEN tb_alloc_page(first, tb, 2, pages[2])
                ELSE [first EXCEPT !.tbs[tb].page_addr[2] = NoPage]
    IN  [both EXCEPT !.tbs[tb].jmp_first = <<tb, 2>>,
                     !.tbs[tb].jmp_next = [n \in 0 .. 1 |-> NULL],
                     !.tbs[tb].jmp_target = [n \in 0 .. 1 |-> NoTb]]

\* Mutant: the flush does not raise tb_invalidated_flag.
tb_alloc_quiet(c, pc) ==
    LET d == IF c.nb_tbs < MaxBlocks THEN c ELSE tb_flush(c)
    IN  [d EXCEPT !.tbs[d.nb_tbs].pc = pc, !.nb_tbs = @ + 1]

\* tb_alloc within tb_gen_code: flush when all slots are used.
tb_alloc(c, pc) ==
    LET d == IF c.nb_tbs < MaxBlocks THEN c
             ELSE [tb_flush(c) EXCEPT !.tb_invalidated_flag = TRUE]
    IN  [d EXCEPT !.tbs[d.nb_tbs].pc = pc, !.nb_tbs = @ + 1]

\* The translator reads the guest's code, and faults on a page it cannot read.
CanTranslate(c, pc) == \A p \in Range(PagesOf[pc]) : "READ" \in c.flags[p]

\* tb_gen_code from the contents of the pages.
tb_gen_code(c, pc, content) ==
    LET d == tb_alloc(c, pc)
        tb == d.nb_tbs - 1
        pages == PagesOf[pc]
        code == [i \in DOMAIN pages |-> content[pages[i]]]
    IN  tb_link_page([d EXCEPT !.tbs[tb].code = code], tb, pages)

\* The blocks of pc in its hash chain.
Hashed(c, pc) ==
    SelectSeq(c.tb_phys_hash[PhysHash[pc]], LAMBDA tb : c.tbs[tb].pc = pc)

\* tb_find_slow: the block of pc in the hash, which moves to the head of its
\* chain, or a new one; it enters the jump cache.
tb_find_slow(c, pc, content) ==
    LET z == [c EXCEPT !.tb_invalidated_flag = FALSE]
        found == Hashed(z, pc)
        moved == [z EXCEPT !.tb_phys_hash[PhysHash[pc]] =
                     <<found[1]>> \o without(@, found[1])]
        d == IF found # <<>> THEN moved ELSE tb_gen_code(z, pc, content)
    IN  [d EXCEPT !.tb_jmp_cache[JmpCacheHash[pc]] = Head(d.tb_phys_hash[PhysHash[pc]])]

\* tb_find_fast finds the block in the jump cache.
CacheHit(c, pc) ==
    LET tb == c.tb_jmp_cache[JmpCacheHash[pc]]
    IN  tb # NoTb /\ c.tbs[tb].pc = pc

\* tb_find_slow has to translate, and the translator faults: the slot stays
\* allocated, and nothing is linked.
FaultsInTranslation(c, pc) ==
    ~CacheHit(c, pc) /\ Hashed(c, pc) = <<>> /\ ~CanTranslate(c, pc)

tb_gen_fault(c, pc) == tb_alloc([c EXCEPT !.tb_invalidated_flag = FALSE], pc)

tb_find_fast(c, pc, content) ==
    IF CacheHit(c, pc) THEN c ELSE tb_find_slow(c, pc, content)
=============================================================================
