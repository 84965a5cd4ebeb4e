-------------------------------- MODULE LRU --------------------------------
(***************************************************************************)
(* What a cache promises: each set keeps the Assoc most recently used tags *)
(* (Cache_policy LRU, "perfect LRU", of cache.h), and an access misses     *)
(* exactly when its tag is not among them.                                 *)
(***************************************************************************)
EXTENDS Naturals, Sequences

CONSTANTS Sets, Tags, Assoc

VARIABLES
    stack,      (* the tags of each set, most recently used first *)
    accesses, misses,
    requested   (* the set and tag requested last, of this or another cache *)

Touch(s, t) ==
    LET used == <<t>> \o SelectSeq(stack[s], LAMBDA u : u # t)
    IN  /\ stack' = [stack EXCEPT ![s] =
                        IF Len(used) > Assoc THEN SubSeq(used, 1, Assoc) ELSE used]
        /\ misses' = misses + IF \E i \in DOMAIN stack[s] : stack[s][i] = t THEN 0 ELSE 1
        /\ accesses' = accesses + 1
        /\ requested' = <<s, t>>

Init == stack = [s \in Sets |-> <<>>] /\ accesses = 0 /\ misses = 0

Next == \E s \in Sets, t \in Tags : Touch(s, t)

Spec == Init /\ [][Next]_<<stack, accesses, misses>>

=============================================================================
