----------------------------- MODULE InstQueue -----------------------------
(***************************************************************************)
(* The operations of inst_queue.c on an InstQueue, seen as the sequence of *)
(* the instructions linked from oldest_inst_elem to newest_inst_elem.  An  *)
(* InstElem is a position of the sequence.  A capacity of 0 means that the *)
(* queue is not bounded.                                                   *)
(***************************************************************************)
EXTENDS Naturals, Sequences

is_full_queue(q, capacity) == capacity # 0 /\ Len(q) >= capacity

(* A push on a full queue returns NULL and leaves the queue as it is. *)
push_back_inst(q, capacity, inst) ==
    IF is_full_queue(q, capacity) THEN q ELSE Append(q, inst)

(***************************************************************************)
(* push_front_inst called for the members of insts from the last one to    *)
(* the first one.  It silently drops an instruction when the queue is      *)
(* full, so the members that fit are the ones that are pushed first.       *)
(***************************************************************************)
push_front_insts(q, capacity, insts) ==
    LET n == Len(insts)
        k == IF capacity = 0 \/ Len(q) + n <= capacity THEN n
             ELSE IF Len(q) >= capacity THEN 0 ELSE capacity - Len(q)
    IN  SubSeq(insts, n - k + 1, n) \o q

(* Mutant: the element after the one at position i is unlinked. *)
remove_from_list_next(q, i) ==
    [j \in 1 .. Len(q) - 1 |-> IF j <= i THEN q[j] ELSE q[j + 1]]

(* remove_from_list unlinks the element at position i. *)
remove_from_list(q, i) ==
    [j \in 1 .. Len(q) - 1 |-> IF j < i THEN q[j] ELSE q[j + 1]]

Elems(q) == {q[i] : i \in DOMAIN q}

NoDuplicates(q) == \A i, j \in DOMAIN q : q[i] = q[j] => i = j

(***************************************************************************)
(* remove_from_list for a caller that keeps the address of the InstElem    *)
(* of inst, or NULL when inst was never put in the queue.                  *)
(***************************************************************************)
remove_inst(q, inst) ==
    IF inst \in Elems(q)
    THEN remove_from_list(q, CHOOSE i \in DOMAIN q : q[i] = inst)
    ELSE q

=============================================================================
