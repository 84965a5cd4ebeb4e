------------------------- MODULE TraceAnalyzerLinks -------------------------
(***************************************************************************)
(* The trace analyzer together with the linked lists that implement its    *)
(* buffer and queues.  Each action of TraceAnalyzer that touches a queue   *)
(* is joined with the calls of inst_queue.c that the code makes there, in  *)
(* their order.  An Inst of the trace buffer is named by its code, which   *)
(* decoding does not change, a dispatched one by its rob_idx.              *)
(***************************************************************************)
EXTENDS TraceAnalyzer

CONSTANT PoolSize    (* inst_elem_pool_size, 5000 *)

VARIABLES
    heap,       (* the InstElems and the InstQueues, the pool included       *)
    ldq_elem,   (* inst->ldq_elem and inst->stq_elem of the ROB entries      *)
    stq_elem,
    inst_elem,  (* the loop variable of writeback, execute and issue         *)
    eff_addr    (* history: the accesses of the ROB entries as recorded      *)

lvars == <<vars, heap, ldq_elem, stq_elem, inst_elem, eff_addr>>

queue_capacity(q) ==
    CASE q = "trace_buffer" -> TraceCapacity
      [] q = "IQ" -> IqSize
      [] q = "LDQ" -> LdqSize
      [] q = "STQ" -> StqSize
      [] q = "FUBuffer" -> 0

L == INSTANCE InstElems
        WITH Capacity <- queue_capacity,
             Queues <- {"trace_buffer", "IQ", "LDQ", "STQ", "FUBuffer"}

fetched(code) == [code |-> code]
dispatched(s) == [rob_idx |-> s]

LinkInit ==
    /\ Init
    /\ heap = L!init_heap
    /\ ldq_elem = [s \in Slot |-> L!NULL]
    /\ stq_elem = [s \in Slot |-> L!NULL]
    /\ inst_elem = L!NULL
    /\ eff_addr = [s \in Slot |-> <<>>]

next_inst_elem == heap.elem[inst_elem].next

-----------------------------------------------------------------------------
LinkRecord ==
    \E code \in Codes, base \in Addrs, executed, miss, correct \in BOOLEAN :
        /\ RecordInst(code, base, executed, miss, correct)
        /\ heap' = L!push_back_inst(heap, "trace_buffer", fetched(code))
        /\ UNCHANGED <<ldq_elem, stq_elem, inst_elem, eff_addr>>

(* commit_insts removes the elements that the instruction points to. *)
LinkCommit ==
    /\ CommitInst
    /\ LET remove(h, q, e) ==
               IF e = L!NULL THEN h ELSE L!remove_from_list(h, q, e, TRUE)
       IN  heap' = remove(remove(heap, "LDQ", ldq_elem[start_idx]),
                          "STQ", stq_elem[start_idx])
    /\ ldq_elem' = [ldq_elem EXCEPT ![start_idx] = L!NULL]
    /\ stq_elem' = [stq_elem EXCEPT ![start_idx] = L!NULL]
    /\ eff_addr' = [eff_addr EXCEPT ![start_idx] = <<>>]
    /\ UNCHANGED inst_elem

LinkWriteback ==
    /\ WritebackInst
    /\ heap' = IF FUBuffer' = FUBuffer THEN heap
               ELSE L!remove_from_list(heap, "FUBuffer", inst_elem, TRUE)
    /\ inst_elem' = next_inst_elem
    /\ UNCHANGED <<ldq_elem, stq_elem, eff_addr>>

LinkExecute ==
    /\ ExecuteInst
    /\ inst_elem' = next_inst_elem
    /\ UNCHANGED <<heap, ldq_elem, stq_elem, eff_addr>>

LinkIssue ==
    /\ IssueInst
    /\ heap' = L!push_back_inst(L!remove_from_list(heap, "IQ", inst_elem, TRUE),
                                "FUBuffer", heap.elem[inst_elem].inst)
    /\ inst_elem' = next_inst_elem
    /\ UNCHANGED <<ldq_elem, stq_elem, eff_addr>>

LinkIssueSkip ==
    /\ IssueSkip
    /\ inst_elem' = next_inst_elem
    /\ UNCHANGED <<heap, ldq_elem, stq_elem, eff_addr>>

(***************************************************************************)
(* convert_microop: the split instruction is popped and its n + 1          *)
(* micro-operations are pushed in front.                                   *)
(***************************************************************************)
converted_heap ==
    LET code == Head(trace_buffer).code
        pushed[n \in Nat] ==
            IF n = 0 THEN L!pop_front_inst(heap, "trace_buffer")
            ELSE L!push_front_inst(pushed[n - 1], "trace_buffer", fetched(code))
    IN  IF is_split THEN pushed[Len(decoded_front.eff_addr) + 1] ELSE heap

LinkDispatch ==
    /\ DispatchInst
    /\ eff_addr' = [eff_addr EXCEPT ![end_idx] = Head(converted_buffer).eff_addr]
    /\ LET type   == Head(converted_buffer).type
           popped == L!pop_front_inst(converted_heap, "trace_buffer")
           in_iq  == L!push_back_inst(popped, "IQ", dispatched(end_idx))
           q      == IF type = "MemRead" THEN "LDQ" ELSE "STQ"
           e      == L!elem_from_pool(in_iq)
       IN  /\ heap' = IF type \in {"MemRead", "MemWrite"}
                      THEN L!push_back_inst(in_iq, q, dispatched(end_idx)) ELSE in_iq
           /\ ldq_elem' = [ldq_elem EXCEPT ![end_idx] =
                              IF type = "MemRead" THEN e ELSE L!NULL]
           /\ stq_elem' = [stq_elem EXCEPT ![end_idx] =
                              IF type = "MemWrite" THEN e ELSE L!NULL]
    /\ UNCHANGED inst_elem

LinkUnsupported ==
    /\ DispatchUnsupported
    /\ heap' = L!pop_front_inst(converted_heap, "trace_buffer")
    /\ UNCHANGED <<ldq_elem, stq_elem, inst_elem, eff_addr>>

LinkStall ==
    /\ DispatchStall
    /\ heap' = converted_heap
    /\ UNCHANGED <<ldq_elem, stq_elem, inst_elem, eff_addr>>

(* The loops over FUBuffer and IQ start at the oldest element. *)
LinkEnter ==
    /\ \/ CommitReturn /\ inst_elem' = heap.queue["FUBuffer"].oldest
       \/ WritebackReturn /\ inst_elem' = heap.queue["FUBuffer"].oldest
       \/ ExecuteReturn /\ inst_elem' = heap.queue["IQ"].oldest
       \/ IssueReturn /\ inst_elem' = L!NULL
    /\ UNCHANGED <<heap, ldq_elem, stq_elem, eff_addr>>

LinkOther ==
    /\ StartAnalysis \/ DispatchReturn \/ EndCycle \/ Exited
    /\ UNCHANGED <<heap, ldq_elem, stq_elem, inst_elem, eff_addr>>

LinkNext ==
    \/ LinkRecord \/ LinkCommit \/ LinkWriteback \/ LinkExecute \/ LinkIssue
    \/ LinkIssueSkip \/ LinkDispatch \/ LinkUnsupported \/ LinkStall
    \/ LinkEnter \/ LinkOther

LinkSpec == LinkInit /\ [][LinkNext]_lvars /\ WF_vars(Analysis)

-----------------------------------------------------------------------------
(* Properties *)

Fetched(q) == [i \in DOMAIN q |-> fetched(q[i].code)]
Dispatched(q) == [i \in DOMAIN q |-> dispatched(q[i])]

(***************************************************************************)
(* The linked lists hold what the queues hold, in the same order and in    *)
(* both directions, although elements are freed and their addresses used   *)
(* again by another queue inside the loops that walk the lists.  The loop  *)
(* variable is the element at the place the loop has reached, and          *)
(* inst->ldq_elem and inst->stq_elem are the elements of their entry when  *)
(* commit_insts removes them.  No element is lost or in two queues.        *)
(* newest_inst_elem is the last element of every queue; only the trace     *)
(* buffer, when push_front_inst filled it from empty, has none, and it is  *)
(* emptied before the next push_back_inst would need it.                   *)
(***************************************************************************)
LinksHoldTheQueues ==
    LET represents(q, seq) ==
            LET l == L!Links(heap, q)
            IN  /\ L!WellLinked(heap, q)
                /\ L!Insts(heap, q) = seq
                /\ \/ heap.queue[q].newest = IF l = <<>> THEN L!NULL ELSE l[Len(l)]
                   \/ q = "trace_buffer" /\ stage # "fill" /\ heap.queue[q].newest = L!NULL
        cursor(q) ==
            LET l == L!Links(heap, q)
            IN  inst_elem = IF pos \in DOMAIN l THEN l[pos] ELSE L!NULL
        points(elem, q) ==
            \A s \in Live : LET l == L!Links(heap, q) IN
                elem[s] = IF dispatched(s) \in Elems(L!Insts(heap, q))
                          THEN CHOOSE e \in Elems(l) : heap.elem[e].inst = dispatched(s)
                          ELSE L!NULL
    IN  /\ represents("trace_buffer", Fetched(trace_buffer))
        /\ represents("IQ", Dispatched(IQ))
        /\ represents("FUBuffer", Dispatched(FUBuffer))
        /\ represents("LDQ", Dispatched(LDQ))
        /\ represents("STQ", Dispatched(STQ))
        /\ L!WellLinked(heap, L!Pool)
        /\ stage \in {"writeback", "execute"} => cursor("FUBuffer")
        /\ stage = "issue" => cursor("IQ")
        /\ points(ldq_elem, "LDQ") /\ points(stq_elem, "STQ")
        /\ Cardinality(DOMAIN heap.elem) =
             heap.queue[L!Pool].size + Len(trace_buffer) + Len(IQ) + Len(LDQ)
               + Len(STQ) + Len(FUBuffer)

(***************************************************************************)
(* Two accesses to an address are kept in order through dep_mat although   *)
(* find_mems_dependency overwrites the addresses it compares: a load or    *)
(* store issues only when an older one that still shows its address can    *)
(* forward, provided that the ring did not wrap around between the two.    *)
(* One that itself found an older access shows 0 and is not waited for.    *)
(* Instructions of several accesses (LDM, STM) are left out, at b and      *)
(* between the two: one match may count twice there and end the search     *)
(* early, so that it shows an address that an older one shows too.         *)
(***************************************************************************)
AccessesOrderedUnwrapped ==
    [][\A b \in Slot : Issued(b) /\ Len(eff_addr[b]) = 1 =>
          \A a \in Older(b) :
              /\ a < b /\ eff_addr[b][1] \in Elems(entries[a].eff_addr)
              /\ \A c \in Older(b) : a \in Older(c) => Len(eff_addr[c]) <= 1
              => can_forward(entries[a])]_lvars
=============================================================================
