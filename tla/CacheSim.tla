------------------------------ MODULE CacheSim ------------------------------
(***************************************************************************)
(* The cache hierarchy of the timing model (cachesim.c) and its callers in *)
(* op_helper.c: an instruction cache, a data cache and, in the build       *)
(* without a simulation kernel (no CONFIG_HSIM), a unified second level.   *)
(* inst_increment accesses the instruction cache only when the program     *)
(* leaves the fetch buffer that it accessed last.                          *)
(***************************************************************************)
EXTENDS Cache

CONSTANTS
    Il1, Dl1, Ul2,    (* the configurations of the caches                    *)
    Exist,            (* those of "il1", "dl1", "ul2" that are configured    *)
    Hsim,             (* CONFIG_HSIM                                         *)
    FetchBufferSize,  (* 64                                                  *)
    Pcs, Addrs, Ids,  (* program counters, data addresses, cycles            *)
    MaxAccesses       (* bound on the accesses                               *)

CacheMissType == {"L1Hit", "L1Miss", "L2Miss"}

ASSUME CacheAssumption ==
    /\ \A c \in {Il1, Dl1, Ul2} : c \in Config /\ idx_span(c) \in 1 .. c.nset
    /\ \A c \in {Il1, Dl1, Ul2}, a \in Pcs \cup Addrs :
          set_tag(c, a) \in Nat /\ line(c, a) \in Nat
    /\ FetchBufferSize \in Nat \ {0}
    /\ Exist \subseteq {"il1", "dl1", "ul2"} /\ Hsim \in BOOLEAN
    /\ Pcs \subseteq Nat /\ Addrs \subseteq Nat
    /\ \A pc \in Pcs : pc >= FetchBufferSize
    /\ \A pc \in Pcs : pc - (pc % FetchBufferSize) \in Pcs
    /\ RobSize \in Nat /\ IdSpace \in Nat \ {0}
    /\ Ids \subseteq 0 .. IdSpace - 2 /\ MaxAccesses \in Nat

VARIABLES
    il1_cache, dl1_cache, ul2_cache, previous_pc,
    last_addr         (* history: the address accessed last *)

vars == <<il1_cache, dl1_cache, ul2_cache, previous_pc, last_addr>>

fetchbufferalignpc(addr) == addr - (addr % FetchBufferSize)

InBound == il1_cache.num_access + dl1_cache.num_access < MaxAccesses

Init ==
    /\ il1_cache = cache_initialize(Il1)
    /\ dl1_cache = cache_initialize(Dl1)
    /\ ul2_cache = cache_initialize(Ul2)
    /\ previous_pc = 0 /\ last_addr = 0

ul2_access(id, type, addr, miss_type) ==
    IF "ul2" \in Exist /\ ~Hsim /\ miss_type = "L1Miss"
    THEN ul2_cache' = cache_access(Ul2, ul2_cache, id, type, addr).cache
    ELSE UNCHANGED ul2_cache

(* miss_type is uninitialized when the first level is not configured. *)
cachesim_iaccess(id, addr) ==
    LET a == cache_access(Il1, il1_cache, id, "Read", fetchbufferalignpc(addr))
    IN  \E miss_type \in CacheMissType :
            /\ IF "il1" \in Exist
               THEN /\ il1_cache' = a.cache
                    /\ miss_type = IF a.hit THEN "L1Hit" ELSE "L1Miss"
               ELSE UNCHANGED il1_cache
            /\ ul2_access(id, "Read", fetchbufferalignpc(addr), miss_type)

(* Mutant: data is looked up in the instruction cache. *)
cachesim_daccess_il1(id, addr, type) ==
    LET a == cache_access(Il1, il1_cache, id, type, addr)
    IN  /\ il1_cache' = a.cache
        /\ ul2_access(id, type, addr, IF a.hit THEN "L1Hit" ELSE "L1Miss")
        /\ UNCHANGED dl1_cache

cachesim_daccess(id, addr, type) ==
    LET a == cache_access(Dl1, dl1_cache, id, type, addr)
    IN  /\ \E miss_type \in CacheMissType :
              /\ IF "dl1" \in Exist
                 THEN /\ dl1_cache' = a.cache
                      /\ miss_type = IF a.hit THEN "L1Hit" ELSE "L1Miss"
                 ELSE UNCHANGED dl1_cache
              /\ ul2_access(id, type, addr, miss_type)
        /\ UNCHANGED il1_cache

(* inst_increment; nothing changes while pc stays in the fetch buffer. *)
Fetch(id, pc) ==
    /\ InBound
    /\ previous_pc # fetchbufferalignpc(pc)
    /\ cachesim_iaccess(id, pc)
    /\ previous_pc' = fetchbufferalignpc(pc)
    /\ last_addr' = fetchbufferalignpc(pc)
    /\ UNCHANGED dl1_cache

(* dcache_access *)
DataAccess(id, addr, type) ==
    /\ InBound
    /\ cachesim_daccess(id, addr, type)
    /\ last_addr' = addr
    /\ UNCHANGED previous_pc

Next ==
    \/ \E id \in Ids, pc \in Pcs : Fetch(id, pc)
    \/ \E id \in Ids, addr \in Addrs, type \in {"Read", "Write"} :
          DataAccess(id, addr, type)

Spec == Init /\ [][Next]_vars

-----------------------------------------------------------------------------
(* Properties *)

CacheState(c) == [cache_set : [SetIdx(c) -> CacheSet(c)],
                  num_access : Nat, num_miss : Nat, num_read_miss : Nat,
                  num_miss_star : Nat, last_miss_inst_id : 0 .. IdSpace - 1]

(* Every variable has its C type. *)
TypeOK ==
    /\ il1_cache \in CacheState(Il1)
    /\ dl1_cache \in CacheState(Dl1)
    /\ ul2_cache \in CacheState(Ul2)
    /\ previous_pc \in Nat /\ last_addr \in Nat

(***************************************************************************)
(* After any sequence of accesses the blocks of every set are still one    *)
(* doubly linked list that holds each block once: cacheset_moveBlkAtFirst  *)
(* loses no block, closes no cycle on which cache_access would run for     *)
(* ever, and last_blk, the victim of the next miss, is its end.            *)
(***************************************************************************)
SetsLinked ==
    /\ \A i \in SetIdx(Il1) : WellFormed(Il1, il1_cache.cache_set[i])
    /\ \A i \in SetIdx(Dl1) : WellFormed(Dl1, dl1_cache.cache_set[i])
    /\ \A i \in SetIdx(Ul2) : WellFormed(Ul2, ul2_cache.cache_set[i])

stacks(c, cache) == [i \in SetIdx(c) |-> used_tags(c, cache.cache_set[i])]
tags(c) == {set_tag(c, a) : a \in Pcs \cup Addrs}
request(c) == <<set_idx(c, last_addr), set_tag(c, last_addr)>>

L1I == INSTANCE LRU WITH
    Sets <- SetIdx(Il1), Tags <- tags(Il1), Assoc <- Il1.assoc,
    stack <- stacks(Il1, il1_cache), accesses <- il1_cache.num_access,
    misses <- il1_cache.num_miss, requested <- request(Il1)
L1D == INSTANCE LRU WITH
    Sets <- SetIdx(Dl1), Tags <- tags(Dl1), Assoc <- Dl1.assoc,
    stack <- stacks(Dl1, dl1_cache), accesses <- dl1_cache.num_access,
    misses <- dl1_cache.num_miss, requested <- request(Dl1)
L2 == INSTANCE LRU WITH
    Sets <- SetIdx(Ul2), Tags <- tags(Ul2), Assoc <- Ul2.assoc,
    stack <- stacks(Ul2, ul2_cache), accesses <- ul2_cache.num_access,
    misses <- ul2_cache.num_miss, requested <- request(Ul2)

(***************************************************************************)
(* The linked lists implement what cache.h promises: "replace least        *)
(* recently used block (perfect LRU)".                                     *)
(***************************************************************************)
ImplementLRU == L1I!Spec /\ L1D!Spec /\ L2!Spec

(***************************************************************************)
(* The counters that perfmodel_getCycle weighs.  With both first levels    *)
(* configured, the second level sees exactly their misses, and nothing in  *)
(* a build in which the simulation kernel models it: the estimate adds the *)
(* penalties of the two levels, which is right only then.  num_miss_star   *)
(* leaves out only misses that another one overlaps: there is one as soon  *)
(* as there is a read miss, whatever the cycles are.                       *)
(***************************************************************************)
MissesCounted ==
    /\ {"il1", "dl1", "ul2"} \subseteq Exist =>
          ul2_cache.num_access =
              IF Hsim THEN 0 ELSE il1_cache.num_miss + dl1_cache.num_miss
    /\ \A cache \in {il1_cache, dl1_cache, ul2_cache} :
          /\ cache.num_miss_star <= cache.num_read_miss
          /\ cache.num_read_miss <= cache.num_miss
          /\ cache.num_read_miss > 0 => cache.num_miss_star > 0

(***************************************************************************)
(* inst_increment does not access the instruction cache while the program  *)
(* stays in the fetch buffer.  The access that it saves would hit and      *)
(* leave the order of the blocks alone.                                    *)
(***************************************************************************)
FetchFilterSound ==
    "il1" \in Exist /\ previous_pc # 0 =>
        LET a == cache_access(Il1, il1_cache, 0, "Read", previous_pc)
        IN  a.hit /\ a.cache.cache_set = il1_cache.cache_set

=============================================================================
