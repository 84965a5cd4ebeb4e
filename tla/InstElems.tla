----------------------------- MODULE InstElems -----------------------------
(***************************************************************************)
(* inst_queue.c at the level of its pointers.  The InstElems of all queues *)
(* live in one heap h: h.elem maps the address of every allocated element  *)
(* to its fields and h.queue maps every queue to the fields of its         *)
(* InstQueue.  NULL is the address 0; a freed address leaves the domain of *)
(* h.elem.  The elements come from inst_elem_pool, a queue of its own, and *)
(* from malloc once the pool is empty.                                     *)
(***************************************************************************)
EXTENDS Naturals, Sequences

CONSTANTS
    PoolSize,      (* inst_elem_pool_size, 5000                              *)
    Capacity(_),   (* the capacity of a queue, 0 for no limit                *)
    Queues         (* the queues other than the pool                         *)

NULL == 0
NullInst == [null |-> NULL]    (* the inst of an element of the pool *)
Pool == "inst_elem_pool"

capacity(q) == IF q = Pool THEN PoolSize ELSE Capacity(q)

is_full_queue(h, q) == capacity(q) # 0 /\ h.queue[q].size >= capacity(q)

init_inst_elem(h, e, inst) ==
    [h EXCEPT !.elem = [a \in DOMAIN @ \cup {e} |->
        IF a = e THEN [inst |-> inst, next |-> NULL, prev |-> NULL] ELSE @[a]]]

free(h, e) == [h EXCEPT !.elem = [a \in DOMAIN @ \ {e} |-> @[a]]]

(* The address of a new element: which one malloc returns is not visible. *)
malloc(h) == CHOOSE a \in 1 .. 1000 :
                /\ a \notin DOMAIN h.elem
                /\ \A b \in 1 .. a - 1 : b \in DOMAIN h.elem

set_elem(h, e, field, value) ==
    IF e = NULL THEN h ELSE [h EXCEPT !.elem[e][field] = value]

push_back_inst_elem(h, q, e) ==
    LET newest == h.queue[q].newest
        linked == set_elem(set_elem(h, e, "next", NULL), e, "prev", newest)
    IN  IF is_full_queue(h, q) THEN h
        ELSE IF h.queue[q].size > 0
        THEN [set_elem(linked, newest, "next", e) EXCEPT
                !.queue[q].newest = e, !.queue[q].size = @ + 1]
        ELSE [linked EXCEPT
                !.queue[q] = [oldest |-> e, newest |-> e, size |-> 1]]

(* Mutant: the newest element is not taken back when it is removed. *)
unlink_newest_kept(h, q, e) ==
    LET n == h.elem[e].next
        p == h.elem[e].prev
        linked == set_elem(set_elem(h, n, "prev", p), p, "next", n)
    IN  [linked EXCEPT
            !.queue[q].oldest = IF @ = e THEN n ELSE @,
            !.elem[e].next = NULL, !.elem[e].prev = NULL]

(* remove_from_list up to the return of the element to the pool. *)
unlink(h, q, e) ==
    LET n == h.elem[e].next
        p == h.elem[e].prev
        linked == set_elem(set_elem(h, n, "prev", p), p, "next", n)
    IN  [linked EXCEPT
            !.queue[q].oldest = IF @ = e THEN n ELSE @,
            !.queue[q].newest = IF @ = e THEN p ELSE @,
            !.elem[e].next = NULL, !.elem[e].prev = NULL]

(* An element goes back to the pool only when the pool is full. *)
remove_from_list(h, q, e, to_pool) ==
    LET u == unlink(h, q, e)
        v == IF ~to_pool THEN u
             ELSE IF is_full_queue(u, Pool) THEN push_back_inst_elem(u, Pool, e)
             ELSE free(u, e)
    IN  [v EXCEPT !.queue[q].size = @ - 1]

elem_from_pool(h) ==
    IF h.queue[Pool].oldest # NULL THEN h.queue[Pool].oldest ELSE malloc(h)

get_inst_elem_from_pool(h, inst) ==
    LET e == elem_from_pool(h)
    IN  init_inst_elem(IF e \in DOMAIN h.elem
                       THEN remove_from_list(h, Pool, e, FALSE) ELSE h, e, inst)

push_back_inst(h, q, inst) ==
    IF is_full_queue(h, q) THEN h
    ELSE push_back_inst_elem(get_inst_elem_from_pool(h, inst), q, elem_from_pool(h))

(***************************************************************************)
(* push_front_inst takes an element before it tests the capacity, so that  *)
(* the element is lost when the queue is full, and leaves newest_inst_elem *)
(* as it is when the queue is empty.                                       *)
(***************************************************************************)
push_front_inst(h, q, inst) ==
    LET e == elem_from_pool(h)
        oldest == h.queue[q].oldest
        g == get_inst_elem_from_pool(h, inst)
        linked == set_elem(g, e, "next", oldest)
    IN  IF is_full_queue(h, q) THEN g
        ELSE [set_elem(linked, IF h.queue[q].size > 0 THEN oldest ELSE NULL, "prev", e)
                EXCEPT !.queue[q].oldest = e, !.queue[q].size = @ + 1]

pop_front_inst(h, q) ==
    IF h.queue[q].oldest = NULL THEN h
    ELSE remove_from_list(h, q, h.queue[q].oldest, TRUE)

(* init_all_queues and init_inst_elem_pool. *)
init_heap ==
    LET empty == [elem  |-> [a \in {} |-> NULL],
                  queue |-> [q \in Queues \cup {Pool} |->
                               [oldest |-> NULL, newest |-> NULL, size |-> 0]]]
        filled[n \in 0 .. PoolSize] ==
            IF n = 0 THEN empty
            ELSE push_back_inst_elem(init_inst_elem(filled[n - 1], n, NullInst), Pool, n)
    IN  filled[PoolSize]

-----------------------------------------------------------------------------
(* The elements that next_inst_elem links, from the oldest one on. *)
Links(h, q) ==
    LET n == h.queue[q].size
        walk[k \in 1 .. n] ==
            IF k = 1 THEN h.queue[q].oldest
            ELSE IF walk[k - 1] \in DOMAIN h.elem THEN h.elem[walk[k - 1]].next ELSE NULL
    IN  walk

(* The links of q are those of a list of the elements Links(h, q). *)
WellLinked(h, q) ==
    LET l == Links(h, q)
        n == Len(l)
    IN  /\ \A i \in 1 .. n :
              /\ l[i] \in DOMAIN h.elem
              /\ h.elem[l[i]].prev = IF i = 1 THEN NULL ELSE l[i - 1]
        /\ IF n = 0 THEN h.queue[q].oldest = NULL ELSE h.elem[l[n]].next = NULL

Insts(h, q) == [i \in 1 .. Len(Links(h, q)) |-> h.elem[Links(h, q)[i]].inst]
=============================================================================
