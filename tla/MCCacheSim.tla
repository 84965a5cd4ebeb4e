----------------------------- MODULE MCCacheSim -----------------------------
(* Small caches and programs for TLC. *)
EXTENDS CacheSim

OneSet == [nset |-> 1, bsize |-> 4, assoc |-> 2]
TwoSets == [nset |-> 2, bsize |-> 4, assoc |-> 2]
(* log2 rounds down: the third set is never used. *)
OddSets == [nset |-> 3, bsize |-> 4, assoc |-> 3]

(* Three lines of one set of il1, and a pc inside the first of them. *)
SomePcs == {4, 6, 12, 20}
(* Four lines for the two ways of dl1. *)
SomeAddrs == {4, 8, 12, 20}
AllCaches == {"il1", "dl1", "ul2"}

=============================================================================
