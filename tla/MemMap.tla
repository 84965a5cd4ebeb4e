------------------------------- MODULE MemMap -------------------------------
(***************************************************************************)
(* The memory map of the stub (hsim_mmap.c): a linked list of regions, in  *)
(* which a lookup moves the region it finds to the front; comm_read_env of *)
(* hsim_stub.c, which fills the list from the environment file before the  *)
(* guest runs; and the calls of the load and store helpers of op_helper.c. *)
(*                                                                         *)
(* Addresses are in 0 .. AddrSpace - 1 (uint32_t).  The k-th Memorymap     *)
(* line of the file is region k; NULL is 0.                                *)
(***************************************************************************)
EXTENDS Naturals, Sequences

CONSTANTS
    AddrSpace,      (* 2^32                                                 *)
    SysRegs,        (* the addresses of the system registers                *)
    NumRegions,     (* number of Memorymap lines of the environment file    *)
    Layouts,        (* possible contents of these lines                     *)
    Files           (* possible files, as the kinds of their lines          *)

NULL == 0
NoAddr == AddrSpace
Region == 1 .. NumRegions
Address == 0 .. AddrSpace - 1
MemoryType == {"VIRTUAL", "INTERNAL", "LOCAL", "SCRATCHPAD", "SHARED_C",
               "SHARED_NC", "UNKNOWN"}
LineKind == {"comment", "Memorymap", "other"}
SharedType == {"SCRATCHPAD", "SHARED_C", "SHARED_NC"}

ASSUME MapAssumption ==
    /\ AddrSpace \in Nat /\ NumRegions \in Nat /\ SysRegs \subseteq Address
    /\ Layouts \subseteq [Region -> [base : Address, size : Address, type : MemoryType]]
    /\ \A f \in Files : /\ f \in Seq(LineKind)
                       /\ Len(SelectSeq(f, LAMBDA k : k = "Memorymap")) = NumRegions

VARIABLES
    region,                        (* base, size and type of every region    *)
    file, line, buf, configured,   (* comm_read_env: the lines read, the     *)
                                   (* kind of the one in buf, and whether it *)
                                   (* returned                               *)
    mem_region_head, next, prev,
    added,                         (* number of regions in the list          *)
    freed,                         (* the regions that were freed            *)
    asked, answer                  (* the address of the helper in progress  *)
                                   (* and what memmap_is_shared answered     *)

links == <<mem_region_head, next, prev>>
env == <<region, file, line, buf, configured, added, freed>>
vars == <<env, links, asked, answer>>

(* buf is not initialized. *)
Init ==
    /\ region \in Layouts /\ file \in Files
    /\ line = 0 /\ buf \in {"comment", "other"} /\ configured = FALSE
    /\ mem_region_head = NULL
    /\ next = [r \in Region |-> NULL] /\ prev = [r \in Region |-> NULL]
    /\ added = 0 /\ freed = {}
    /\ asked = NoAddr /\ answer = FALSE

-----------------------------------------------------------------------------
(* The regions in the order of the list, as far as the links lead. *)
walk == LET at[k \in Region] == IF k = 1 THEN mem_region_head
                                ELSE IF at[k - 1] = NULL THEN NULL ELSE next[at[k - 1]]
        IN  at

last_region == LET at == walk
               IN  CHOOSE r \in Region : next[r] = NULL /\ \E k \in Region : at[k] = r

memmap_add_region(r) ==
    LET tail == last_region
    IN  IF mem_region_head = NULL
        THEN mem_region_head' = r /\ UNCHANGED <<next, prev>>
        ELSE /\ next' = [next EXCEPT ![tail] = r]
             /\ prev' = [prev EXCEPT ![r] = tail]
             /\ UNCHANGED mem_region_head

(* Mutant: the first address of a region is not in it. *)
contains_after(r, addr) ==
    LET m == region[r]
    IN  addr > m.base /\ addr < (m.base + m.size) % AddrSpace

(* base + size is computed in 32 bits. *)
contains(r, addr) ==
    LET m == region[r]
    IN  addr >= m.base /\ addr < (m.base + m.size) % AddrSpace

(* The region at which the walk of memmap_find_mem_region stops. *)
found(addr) ==
    LET at == walk
        K  == {k \in Region : at[k] # NULL /\ contains(at[k], addr)}
    IN  IF K = {} THEN NULL ELSE at[CHOOSE k \in K : \A j \in K : k <= j]

(* Mutant: the link back from the old head is not set. *)
pull_up_no_prev(r) ==
    IF r # NULL /\ r # mem_region_head
    THEN LET p == prev[r]
             n == next[r]
         IN  /\ next' = [next EXCEPT ![p] = n, ![r] = mem_region_head]
             /\ prev' = IF n # NULL THEN [prev EXCEPT ![n] = p] ELSE prev
             /\ mem_region_head' = r
    ELSE UNCHANGED links

(***************************************************************************)
(* "pull up recent region to top".  The region keeps its old prev, which   *)
(* nothing reads while it is the head.                                     *)
(***************************************************************************)
pull_up(r) ==
    IF r # NULL /\ r # mem_region_head
    THEN LET p == prev[r]
             n == next[r]
             prev_1 == IF n # NULL THEN [prev EXCEPT ![n] = p] ELSE prev
         IN  /\ next' = [next EXCEPT ![p] = n, ![r] = mem_region_head]
             /\ prev' = [prev_1 EXCEPT ![mem_region_head] = r]
             /\ mem_region_head' = r
    ELSE UNCHANGED links

memmap_find_mem_region(addr) == pull_up(found(addr))

is_shared(addr) ==
    addr \in SysRegs \/ (found(addr) # NULL /\ region[found(addr)].type \in SharedType)

get_type(addr) ==
    IF addr \in SysRegs THEN "INTERNAL"
    ELSE IF found(addr) # NULL THEN region[found(addr)].type ELSE "UNKNOWN"

-----------------------------------------------------------------------------
(* fgets returns NULL *)
at_eof == line = Len(file)

(***************************************************************************)
(* A turn of the loop of comm_read_env.  At the end of the file buf still  *)
(* holds the line before, and is tested for a comment first.               *)
(***************************************************************************)
ReadLine ==
    /\ ~configured /\ ~at_eof
    /\ buf' = file[line + 1] /\ line' = line + 1
    /\ IF buf' = "Memorymap"
       THEN memmap_add_region(added + 1) /\ added' = added + 1
       ELSE UNCHANGED <<links, added>>
    /\ UNCHANGED <<region, file, configured, freed, asked, answer>>

ReadAgain == ~configured /\ at_eof /\ buf = "comment" /\ UNCHANGED vars

(* Mutant: the end of the file is not noticed. *)
ReadEnd_again == ~configured /\ at_eof /\ UNCHANGED vars

ReadEnd ==
    /\ ~configured /\ at_eof /\ buf # "comment"
    /\ configured' = TRUE
    /\ UNCHANGED <<region, file, line, buf, added, freed, links, asked, answer>>

(* A helper for a load or a store asks first; the lookup is done always. *)
memmap_is_shared(addr) ==
    /\ configured /\ freed = {} /\ asked = NoAddr
    /\ memmap_find_mem_region(addr)
    /\ asked' = addr /\ answer' = is_shared(addr)
    /\ UNCHANGED env

(* hsim_access, for the address of the helper or of a fetched instruction *)
memmap_get_type(addr) ==
    /\ configured /\ freed = {} /\ asked \in {addr, NoAddr}
    /\ IF addr \in SysRegs THEN UNCHANGED links ELSE memmap_find_mem_region(addr)
    /\ asked' = NoAddr /\ answer' = FALSE
    /\ UNCHANGED env

(* The helper returns without an access: hsim_isshared, or a hit in the cache. *)
HelperReturn ==
    /\ asked # NoAddr
    /\ asked' = NoAddr /\ answer' = FALSE
    /\ UNCHANGED <<env, links>>

(* hsim_end frees the regions in the order of the list. *)
memmap_destroy ==
    /\ configured /\ freed = {} /\ asked = NoAddr
    /\ freed' = {r \in Region : \E k \in Region : walk[k] = r}
    /\ UNCHANGED <<region, file, line, buf, configured, added, links, asked, answer>>

Exited == freed # {} /\ UNCHANGED vars

Next == \/ ReadLine \/ ReadAgain \/ ReadEnd
        \/ \E addr \in Address : memmap_is_shared(addr) \/ memmap_get_type(addr)
        \/ HelperReturn \/ memmap_destroy \/ Exited

Spec == Init /\ [][Next]_vars

(* hsim_start runs comm_read_env to its end. *)
FairSpec == Spec /\ WF_vars(ReadLine \/ ReadEnd)

-----------------------------------------------------------------------------
(* Properties *)

(* Every variable has its type. *)
TypeOK ==
    /\ region \in Layouts /\ file \in Files /\ line \in 0 .. Len(file)
    /\ buf \in LineKind /\ configured \in BOOLEAN
    /\ mem_region_head \in Region \cup {NULL}
    /\ next \in [Region -> Region \cup {NULL}]
    /\ prev \in [Region -> Region \cup {NULL}]
    /\ added \in 0 .. NumRegions /\ freed \subseteq Region
    /\ asked \in Address \cup {NoAddr} /\ answer \in BOOLEAN

(***************************************************************************)
(* After any sequence of lookups the list holds every region that was      *)
(* added once and ends, and the links back agree with it wherever          *)
(* memmap_find_mem_region reads them; memmap_destroy, which follows them   *)
(* while it frees, reaches every region and each one once.                 *)
(***************************************************************************)
ListHoldsTheRegions ==
    LET at == walk
    IN  /\ {at[k] : k \in 1 .. added} = 1 .. added
        /\ added > 0 => next[at[added]] = NULL
        /\ \A k \in 2 .. added : prev[at[k]] = at[k - 1]
        /\ freed \in {{}, 1 .. added}

(* What the lines of the file say: addr is one of the size bytes from base. *)
covers(r, addr) == addr \in region[r].base .. region[r].base + region[r].size - 1

EndsBelowTop == \A r \in Region : region[r].base + region[r].size < AddrSpace

(***************************************************************************)
(* A lookup finds a region that covers the address if there is one,        *)
(* however often the list was rearranged, provided no region reaches the   *)
(* top of the address space, where base + size is 0.  The helpers ask      *)
(* memmap_is_shared and hsim_access asks again: the second answer agrees   *)
(* with the first, also where regions overlap, so that an access taken for *)
(* shared is never dropped as "unknown mem type".                          *)
(***************************************************************************)
LookupFindsRegion ==
    /\ configured /\ EndsBelowTop =>
          \A addr \in Address :
              IF \E r \in Region : covers(r, addr)
              THEN found(addr) # NULL /\ covers(found(addr), addr)
              ELSE found(addr) = NULL
    /\ asked # NoAddr =>
          IF answer THEN get_type(asked) \in SharedType \cup {"INTERNAL"}
          ELSE get_type(asked) \notin SharedType

(***************************************************************************)
(* hsim_start returns, and with all regions of the file in the list, if    *)
(* the last line of the file is no comment.                                *)
(***************************************************************************)
EnvIsRead ==
    (file # <<>> /\ file[Len(file)] # "comment") ~> (configured /\ added = NumRegions)

=============================================================================
