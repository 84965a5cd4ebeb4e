------------------------------- MODULE Cache -------------------------------
(***************************************************************************)
(* A cache of the timing model (cache.c).  It stores no data: a set is a   *)
(* doubly linked list of assoc blocks with the most recently used block    *)
(* first, and an access answers whether it hits.                           *)
(*                                                                         *)
(* c is the configuration of a cache, cache its state (Cache_t), set one   *)
(* of its sets (Cache_set_t with the blocks it links).  A block is named   *)
(* by a number, NULL is 0.  cachesim.c uses LRU replacement only.          *)
(***************************************************************************)
EXTENDS Integers, Sequences

CONSTANTS
    RobSize,   (* perfmodel.core.rob_size                                    *)
    IdSpace    (* an instruction id is in 0 .. IdSpace - 1 (uint64_t)        *)

NULL == 0
NoId == IdSpace - 1                                    (* (uint64_t)-1       *)

Config == [nset : Nat \ {0}, bsize : Nat \ {0}, assoc : Nat \ {0}]
Blk(c) == 1 .. c.assoc
SetIdx(c) == 0 .. c.nset - 1

CacheSet(c) == [first_blk : Blk(c), last_blk : Blk(c),
                prev_blk : [Blk(c) -> Blk(c) \cup {NULL}],
                next_blk : [Blk(c) -> Blk(c) \cup {NULL}],
                valid : [Blk(c) -> BOOLEAN], tag : [Blk(c) -> Nat]]

-----------------------------------------------------------------------------
(* cache_initialize: the address is split into tag, set index and offset. *)

(* (int)log2((double)n) *)
log2(n) == CHOOSE k \in 0 .. n : 2^k <= n /\ n < 2^(k + 1)

idx_span(c) == 2^log2(c.nset)
line(c, addr) == addr \div 2^log2(c.bsize)
set_idx(c, addr) == line(c, addr) % idx_span(c)
set_tag(c, addr) == line(c, addr) \div idx_span(c)

cacheset_initialize(c) ==
    [first_blk |-> 1, last_blk |-> c.assoc,
     prev_blk |-> [b \in Blk(c) |-> b - 1],
     next_blk |-> [b \in Blk(c) |-> IF b = c.assoc THEN NULL ELSE b + 1],
     valid |-> [b \in Blk(c) |-> FALSE], tag |-> [b \in Blk(c) |-> 0]]

(* Mutant: last_miss_inst_id starts at 0. *)
cache_initialize_zero(c) ==
    [cache_set |-> [i \in SetIdx(c) |-> cacheset_initialize(c)],
     num_access |-> 0, num_miss |-> 0, num_read_miss |-> 0,
     num_miss_star |-> 0, last_miss_inst_id |-> 0]

cache_initialize(c) ==
    [cache_set |-> [i \in SetIdx(c) |-> cacheset_initialize(c)],
     num_access |-> 0, num_miss |-> 0, num_read_miss |-> 0,
     num_miss_star |-> 0, last_miss_inst_id |-> NoId]

-----------------------------------------------------------------------------
(* Mutant: last_blk is not updated when the last block moves. *)
cacheset_moveBlkAtFirst_keep_last(set, b) ==
    LET p == set.prev_blk[b]
        n == set.next_blk[b]
    IN  IF set.first_blk = b THEN set
        ELSE [set EXCEPT !.first_blk = b,
                         !.prev_blk = [x \in DOMAIN @ |-> IF x = b THEN NULL
                                         ELSE IF x = set.first_blk THEN b
                                         ELSE IF x = n THEN p ELSE @[x]],
                         !.next_blk = [x \in DOMAIN @ |-> IF x = b THEN set.first_blk
                                         ELSE IF x = p THEN n ELSE @[x]]]

(***************************************************************************)
(* Unlink b, then link it before the first block.  The assignments are     *)
(* made in this order; a later one overwrites an earlier one.              *)
(***************************************************************************)
cacheset_moveBlkAtFirst(set, b) ==
    LET p      == set.prev_blk[b]
        n      == set.next_blk[b]
        first  == IF p # NULL THEN set.first_blk ELSE n
        next_1 == IF p # NULL THEN [set.next_blk EXCEPT ![p] = n] ELSE set.next_blk
        prev_1 == IF n # NULL THEN [set.prev_blk EXCEPT ![n] = p] ELSE set.prev_blk
        prev_2 == [prev_1 EXCEPT ![b] = NULL]
    IN  IF set.first_blk = b THEN set
        ELSE [first_blk |-> b,
              last_blk  |-> IF n # NULL THEN set.last_blk ELSE p,
              prev_blk  |-> [prev_2 EXCEPT ![first] = b],
              next_blk  |-> [next_1 EXCEPT ![b] = first],
              valid     |-> set.valid,
              tag       |-> set.tag]

(* The blocks in the order of the list, as far as the links lead. *)
blk_at(c, set) ==
    LET at[k \in Blk(c)] == IF k = 1 THEN set.first_blk
                            ELSE IF at[k - 1] = NULL THEN NULL
                            ELSE set.next_blk[at[k - 1]]
    IN  at

matches(set, b, tag) == set.valid[b] /\ set.tag[b] = tag

(* The block at which the walk of cache_access along the list stops. *)
hit_blk(c, set, tag) ==
    LET at == blk_at(c, set)
    IN  {b \in Blk(c) : \E k \in Blk(c) :
            /\ at[k] = b /\ matches(set, b, tag)
            /\ \A j \in 1 .. k - 1 : ~matches(set, at[j], tag)}

(* A miss takes the block at the end of the list. *)
fill_blk(set, b, tag) ==
    [set EXCEPT !.valid = [@ EXCEPT ![b] = TRUE], !.tag = [@ EXCEPT ![b] = tag]]

(* Mutant: a hit does not move the block, as for the policy FIFO. *)
accessed_set_fifo(set, hit, b, tag) ==
    IF hit THEN set ELSE cacheset_moveBlkAtFirst(fill_blk(set, b, tag), b)

accessed_set(set, hit, b, tag) ==
    cacheset_moveBlkAtFirst(IF hit THEN set ELSE fill_blk(set, b, tag), b)

(***************************************************************************)
(* cache_access.  num_miss_star counts the read misses that are more than  *)
(* RobSize ids after the previous one; the difference is unsigned.         *)
(***************************************************************************)
cache_access(c, cache, inst_id, type, addr) ==
    LET idx  == set_idx(c, addr)
        tag  == set_tag(c, addr)
        set  == cache.cache_set[idx]
        at   == hit_blk(c, set, tag)
        hit  == at # {}
        blk  == IF hit THEN CHOOSE b \in at : TRUE ELSE set.last_blk
        last == cache.last_miss_inst_id
        read == ~hit /\ type = "Read"
        star == read /\ (last = NoId \/ (inst_id - last) % IdSpace > RobSize)
        one(cond) == IF cond THEN 1 ELSE 0
    IN  [hit   |-> hit,
         cache |-> [cache_set |-> [cache.cache_set EXCEPT ![idx] =
                                              accessed_set(set, hit, blk, tag)],
                    num_access        |-> cache.num_access + 1,
                    num_miss          |-> cache.num_miss + one(~hit),
                    num_read_miss     |-> cache.num_read_miss + one(read),
                    num_miss_star     |-> cache.num_miss_star + one(star),
                    last_miss_inst_id |-> IF read THEN inst_id ELSE last]]

-----------------------------------------------------------------------------
(***************************************************************************)
(* set is a doubly linked list of all its blocks, first to last, in the    *)
(* order ord.                                                              *)
(***************************************************************************)
Links(c, set, ord) ==
    /\ set.first_blk = ord[1] /\ set.last_blk = ord[c.assoc]
    /\ \A b \in Blk(c) : \E k \in Blk(c) : ord[k] = b
    /\ \A j, k \in Blk(c) : j # k => ord[j] # ord[k]
    /\ \A k \in Blk(c) :
          /\ set.next_blk[ord[k]] = IF k = c.assoc THEN NULL ELSE ord[k + 1]
          /\ set.prev_blk[ord[k]] = IF k = 1 THEN NULL ELSE ord[k - 1]

WellFormed(c, set) == \E ord \in [Blk(c) -> Blk(c)] : Links(c, set, ord)

(* The tags of the valid blocks, most recently used first. *)
used_tags(c, set) ==
    LET at == blk_at(c, set)
        IsValid(k) == at[k] # NULL /\ set.valid[at[k]]
        tags[k \in 0 .. c.assoc] ==
            IF k = 0 THEN <<>>
            ELSE IF IsValid(k) THEN Append(tags[k - 1], set.tag[at[k]])
            ELSE tags[k - 1]
    IN  tags[c.assoc]

=============================================================================
