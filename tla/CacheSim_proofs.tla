-------------------------- MODULE CacheSim_proofs --------------------------
(***************************************************************************)
(* Proofs about CacheSim: the lists of the sets survive every sequence of  *)
(* accesses, for caches of every size.                                     *)
(***************************************************************************)
EXTENDS CacheSim, TLAPS

(***************************************************************************)
(* ord is an order of 1 .. n, and next and prev are the links of the list  *)
(* in this order.                                                          *)
(***************************************************************************)
IsOrder(n, ord) ==
    /\ ord \in [1 .. n -> 1 .. n]
    /\ \A b \in 1 .. n : \E k \in 1 .. n : ord[k] = b
    /\ \A j, k \in 1 .. n : j # k => ord[j] # ord[k]

IsChain(n, ord, next, prev) ==
    \A k \in 1 .. n : /\ next[ord[k]] = IF k = n THEN 0 ELSE ord[k + 1]
                      /\ prev[ord[k]] = IF k = 1 THEN 0 ELSE ord[k - 1]

(* The order of the list after its p-th block moved to the front. *)
Moved(n, ord, p) == [k \in 1 .. n |-> IF k = 1 THEN ord[p]
                                      ELSE IF k <= p THEN ord[k - 1] ELSE ord[k]]

(* The blocks that move one place back keep their order. *)
LEMMA MovedOrder ==
    ASSUME NEW n \in Nat, NEW ord, IsOrder(n, ord), NEW p \in 1 .. n
    PROVE  IsOrder(n, Moved(n, ord, p))
<1> DEFINE new == Moved(n, ord, p)
<1>1. \A k \in 1 .. n : new[k] = IF k = 1 THEN ord[p]
                                 ELSE IF k <= p THEN ord[k - 1] ELSE ord[k]
  BY DEF Moved
<1>2. new \in [1 .. n -> 1 .. n]
  <2>1. \A k \in 1 .. n : k # 1 => k - 1 \in 1 .. n
    OBVIOUS
  <2>2. \A k \in 1 .. n : (IF k = 1 THEN ord[p]
                           ELSE IF k <= p THEN ord[k - 1] ELSE ord[k]) \in 1 .. n
    BY <2>1, ZenonT(60) DEF IsOrder
  <2> QED BY <2>2 DEF Moved
<1> HIDE DEF new
<1>3. ASSUME NEW b \in 1 .. n PROVE \E k \in 1 .. n : new[k] = b
  <2>1. PICK k \in 1 .. n : ord[k] = b
    BY DEF IsOrder
  <2>2. CASE k = p
    <3>1. 1 \in 1 .. n
      OBVIOUS
    <3> QED BY <1>1, <2>1, <2>2, <3>1
  <2>3. CASE k < p
    <3>1. k + 1 \in 1 .. n /\ k + 1 # 1 /\ k + 1 <= p /\ (k + 1) - 1 = k
      BY <2>3
    <3>2. new[k + 1] = ord[(k + 1) - 1]
      BY <1>1, <3>1
    <3> QED BY <2>1, <3>1, <3>2
  <2>4. CASE k > p
    <3>1. k # 1 /\ ~(k <= p)
      BY <2>4
    <3>2. new[k] = ord[k]
      BY <1>1, <3>1
    <3> QED BY <2>1, <3>2
  <2> QED BY <2>2, <2>3, <2>4
<1>4. ASSUME NEW j \in 1 .. n, NEW k \in 1 .. n, j < k PROVE new[j] # new[k]
  <2>1. \A x, y \in 1 .. n : x # y => ord[x] # ord[y]
    BY DEF IsOrder
  <2>2. new[k] = IF k <= p THEN ord[k - 1] ELSE ord[k]
    BY <1>1, <1>4
  <2>3. CASE j = 1
    <3>1. new[j] = ord[p]
      BY <1>1, <2>3
    <3>2. CASE k <= p
      <4>1. k - 1 \in 1 .. n /\ k - 1 # p
        BY <1>4, <3>2
      <4> QED BY <2>1, <2>2, <3>1, <3>2, <4>1
    <3>3. CASE ~(k <= p)
      BY <2>1, <2>2, <3>1, <3>3
    <3> QED BY <3>2, <3>3
  <2>4. CASE j # 1
    <3>1. new[j] = IF j <= p THEN ord[j - 1] ELSE ord[j]
      BY <1>1, <2>4
    <3>2. j - 1 \in 1 .. n /\ k - 1 \in 1 .. n
      BY <1>4, <2>4
    <3>3. CASE k <= p
      <4>1. j <= p /\ j - 1 # k - 1
        BY <1>4, <3>3
      <4> QED BY <2>1, <2>2, <3>1, <3>2, <3>3, <4>1
    <3>4. CASE ~(k <= p) /\ j <= p
      <4>1. j - 1 # k
        BY <1>4
      <4> QED BY <2>1, <2>2, <3>1, <3>2, <3>4, <4>1
    <3>5. CASE ~(k <= p) /\ ~(j <= p)
      <4>1. j # k
        BY <1>4
      <4> QED BY <2>1, <2>2, <3>1, <3>5, <4>1
    <3> QED BY <3>3, <3>4, <3>5
  <2> QED BY <2>3, <2>4
<1>5. \A j, k \in 1 .. n : j # k => j < k \/ k < j
  OBVIOUS
<1>6. \A j, k \in 1 .. n : j # k => new[j] # new[k]
  BY <1>4, <1>5
<1> QED BY <1>2, <1>3, <1>6, ZenonT(60) DEF IsOrder, new

(* Block b, between q and nx, was moved before f. *)
Relinked(n, next, prev, b, q, f, nx, next2, prev2) ==
    \A x \in 1 .. n :
        /\ next2[x] = IF x = b THEN f ELSE IF x = q THEN nx ELSE next[x]
        /\ prev2[x] = IF x = f THEN b ELSE IF x = b THEN 0
                      ELSE IF x = nx THEN q ELSE prev[x]

(* Unlinking the p-th block b and linking it before the first block f. *)
LEMMA MovedChain ==
    ASSUME NEW n \in Nat, NEW ord, IsOrder(n, ord), NEW p \in 1 .. n, p # 1,
           NEW next, NEW prev, IsChain(n, ord, next, prev),
           NEW b, b = ord[p], NEW q, q = ord[p - 1], NEW f, f = ord[1],
           NEW nx, nx = IF p = n THEN 0 ELSE ord[p + 1],
           NEW next2, NEW prev2, Relinked(n, next, prev, b, q, f, nx, next2, prev2)
    PROVE  IsChain(n, Moved(n, ord, p), next2, prev2)
<1> DEFINE new == Moved(n, ord, p)
<1>1. \A k \in 1 .. n : new[k] = IF k = 1 THEN b
                                 ELSE IF k <= p THEN ord[k - 1] ELSE ord[k]
  BY DEF Moved
<1> HIDE DEF new
<1>2. \A i, j \in 1 .. n : ord[i] = ord[j] => i = j
  BY DEF IsOrder
<1>3. \A j \in 1 .. n : ord[j] \in 1 .. n
  BY ZenonT(60) DEF IsOrder
<1>4. p - 1 \in 1 .. n /\ 1 \in 1 .. n /\ (p # n => p + 1 \in 1 .. n)
  OBVIOUS
<1>5. \A j \in 1 .. n : /\ ord[j] = b <=> j = p
                        /\ ord[j] = f <=> j = 1
                        /\ ord[j] = q <=> j = p - 1
  BY <1>2, <1>4
<1>6. \A j \in 1 .. n : ord[j] = nx <=> j = p + 1
  <2>1. CASE p = n
    BY <1>3, <2>1
  <2>2. CASE p # n
    BY <1>2, <1>4, <2>2
  <2> QED BY <2>1, <2>2
<1>7. \A j \in 1 .. n : /\ next[ord[j]] = IF j = n THEN 0 ELSE ord[j + 1]
                        /\ prev[ord[j]] = IF j = 1 THEN 0 ELSE ord[j - 1]
  BY DEF IsChain
<1>8. \A j \in 1 .. n :
        /\ next2[ord[j]] = IF j = p THEN f ELSE IF j = p - 1 THEN nx
                           ELSE IF j = n THEN 0 ELSE ord[j + 1]
        /\ prev2[ord[j]] = IF j = 1 THEN b ELSE IF j = p THEN 0
                           ELSE IF j = p + 1 THEN q ELSE ord[j - 1]
  BY <1>3, <1>5, <1>6, <1>7 DEF Relinked
<1> SUFFICES ASSUME NEW k \in 1 .. n
             PROVE  /\ next2[new[k]] = IF k = n THEN 0 ELSE new[k + 1]
                    /\ prev2[new[k]] = IF k = 1 THEN 0 ELSE new[k - 1]
  BY DEF IsChain, new
<1>9. CASE k = 1
  <2>1. new[k] = ord[p] /\ k # n
    BY <1>1, <1>9
  <2>2. 2 \in 1 .. n /\ 2 <= p
    OBVIOUS
  <2>3. new[2] = ord[2 - 1]
    BY <1>1, <2>2
  <2> QED BY <1>8, <1>9, <2>1, <2>3
<1>10. CASE k # 1 /\ k <= p
  <2>1. k - 1 \in 1 .. n /\ new[k] = ord[k - 1]
    BY <1>1, <1>10
  <2>2. next2[ord[k - 1]] = IF k = n THEN 0 ELSE new[k + 1]
    <3>1. CASE k = p
      <4>1. next2[ord[k - 1]] = nx
        BY <1>8, <2>1, <3>1
      <4>2. k # n => new[k + 1] = ord[k + 1]
        BY <1>1, <3>1
      <4> QED BY <3>1, <4>1, <4>2
    <3>2. CASE k # p
      <4>1. next2[ord[k - 1]] = ord[(k - 1) + 1]
        BY <1>8, <1>10, <2>1, <3>2
      <4>2. k # n /\ k + 1 \in 1 .. n /\ k + 1 # 1 /\ k + 1 <= p /\ (k + 1) - 1 = k
        BY <1>10, <3>2
      <4>3. new[k + 1] = ord[(k + 1) - 1]
        BY <1>1, <4>2
      <4> QED BY <4>1, <4>2, <4>3
    <3> QED BY <3>1, <3>2
  <2>3. prev2[ord[k - 1]] = new[k - 1]
    <3>1. CASE k - 1 = 1
      BY <1>1, <1>8, <2>1, <3>1
    <3>2. CASE k - 1 # 1
      <4>1. prev2[ord[k - 1]] = ord[(k - 1) - 1]
        BY <1>8, <1>10, <2>1, <3>2
      <4>2. new[k - 1] = ord[(k - 1) - 1]
        BY <1>1, <1>10, <2>1, <3>2
      <4> QED BY <4>1, <4>2
    <3> QED BY <3>1, <3>2
  <2> QED BY <1>10, <2>1, <2>2, <2>3
<1>11. CASE k > p
  <2>1. new[k] = ord[k] /\ (k # n => new[k + 1] = ord[k + 1])
    BY <1>1, <1>11
  <2>2. next2[ord[k]] = IF k = n THEN 0 ELSE ord[k + 1]
    BY <1>8, <1>11
  <2>3. prev2[ord[k]] = IF k = p + 1 THEN q ELSE ord[k - 1]
    BY <1>8, <1>11
  <2>4. new[k - 1] = IF k = p + 1 THEN ord[p - 1] ELSE ord[k - 1]
    <3>1. CASE k = p + 1
      <4>1. k - 1 = p
        BY <3>1
      <4>2. new[p] = ord[p - 1]
        BY <1>1
      <4> QED BY <3>1, <4>1, <4>2
    <3>2. CASE k # p + 1
      <4>1. k - 1 \in 1 .. n /\ k - 1 # 1 /\ ~(k - 1 <= p)
        BY <1>11, <3>2
      <4> QED BY <1>1, <3>2, <4>1
    <3> QED BY <3>1, <3>2
  <2> QED BY <1>11, <2>1, <2>2, <2>3, <2>4
<1> QED BY <1>9, <1>10, <1>11

(* The links of a set, apart from its other fields. *)
Linked(n, first, last, next, prev) ==
    \E ord : /\ IsOrder(n, ord) /\ IsChain(n, ord, next, prev)
             /\ first = ord[1] /\ last = ord[n]

(* WellFormed says that the links are one list of all the blocks. *)
LEMMA WellFormedLinked ==
    ASSUME NEW c, NEW set
    PROVE  WellFormed(c, set) <=> Linked(c.assoc, set.first_blk, set.last_blk,
                                         set.next_blk, set.prev_blk)
<1>1. ASSUME NEW ord
      PROVE  (ord \in [Blk(c) -> Blk(c)] /\ Links(c, set, ord)) <=>
             (/\ IsOrder(c.assoc, ord)
              /\ IsChain(c.assoc, ord, set.next_blk, set.prev_blk)
              /\ set.first_blk = ord[1] /\ set.last_blk = ord[c.assoc])
  BY ZenonT(60) DEF Links, IsOrder, IsChain, Blk, NULL
<1> QED BY <1>1, ZenonT(60) DEF WellFormed, Linked

(* The links that cacheset_moveBlkAtFirst writes. *)
LEMMA MovedLinked ==
    ASSUME NEW n \in Nat \ {0}, NEW first, NEW last,
           NEW next \in [1 .. n -> (1 .. n) \cup {0}],
           NEW prev \in [1 .. n -> (1 .. n) \cup {0}],
           Linked(n, first, last, next, prev), NEW b \in 1 .. n, b # first,
           NEW p, p = prev[b], NEW nx, nx = next[b]
    PROVE  LET next_1 == [next EXCEPT ![p] = nx]
               prev_1 == IF nx # 0 THEN [prev EXCEPT ![nx] = p] ELSE prev
               prev_2 == [prev_1 EXCEPT ![b] = 0]
               next2  == [next_1 EXCEPT ![b] = first]
               prev2  == [prev_2 EXCEPT ![first] = b]
               last2  == IF nx # 0 THEN last ELSE p
           IN  /\ p \in 1 .. n /\ first \in 1 .. n /\ last2 \in 1 .. n
               /\ next2 \in [1 .. n -> (1 .. n) \cup {0}]
               /\ prev2 \in [1 .. n -> (1 .. n) \cup {0}]
               /\ Linked(n, b, last2, next2, prev2)
<1>1. PICK ord : /\ IsOrder(n, ord) /\ IsChain(n, ord, next, prev)
                 /\ first = ord[1] /\ last = ord[n]
  BY DEF Linked
<1>2. ord \in [1 .. n -> 1 .. n]
  BY <1>1, ZenonT(60) DEF IsOrder
<1>3. PICK k \in 1 .. n : ord[k] = b
  BY <1>1 DEF IsOrder
<1>4. k # 1 /\ k - 1 \in 1 .. n /\ (k # n => k + 1 \in 1 .. n)
  BY <1>1, <1>3
<1>5. p = ord[k - 1] /\ nx = IF k = n THEN 0 ELSE ord[k + 1]
  BY <1>1, <1>3, <1>4, ZenonT(60) DEF IsChain
<1>6. p \in 1 .. n /\ first \in 1 .. n /\ last \in 1 .. n /\ nx \in (1 .. n) \cup {0}
  BY <1>1, <1>2, <1>4, <1>5
<1> DEFINE next_1 == [next EXCEPT ![p] = nx]
           prev_1 == IF nx # 0 THEN [prev EXCEPT ![nx] = p] ELSE prev
           prev_2 == [prev_1 EXCEPT ![b] = 0]
           next2  == [next_1 EXCEPT ![b] = first]
           prev2  == [prev_2 EXCEPT ![first] = b]
           last2  == IF nx # 0 THEN last ELSE p
<1>7. next2 \in [1 .. n -> (1 .. n) \cup {0}] /\ last2 \in 1 .. n
  BY <1>6
<1>8. prev_1 \in [1 .. n -> (1 .. n) \cup {0}]
  BY <1>6
<1>9. prev2 \in [1 .. n -> (1 .. n) \cup {0}]
  <2> HIDE DEF prev_1
  <2> QED BY <1>6, <1>8
<1>10. Relinked(n, next, prev, b, p, first, nx, next2, prev2)
  <2>1. \A x \in 1 .. n : prev_1[x] = IF x = nx THEN p ELSE prev[x]
    BY <1>6
  <2>2. \A x \in 1 .. n : prev2[x] = IF x = first THEN b ELSE IF x = b THEN 0
                                     ELSE prev_1[x]
    <3> HIDE DEF prev_1
    <3> QED BY <1>6, <1>8
  <2>3. \A x \in 1 .. n : next2[x] = IF x = b THEN first ELSE IF x = p THEN nx
                                     ELSE next[x]
    BY <1>6
  <2> HIDE DEF prev_1, prev2, next2
  <2> QED BY <2>1, <2>2, <2>3 DEF Relinked
<1> DEFINE new == Moved(n, ord, k)
<1>11. new[1] = b /\ new[n] = last2
  <2>1. new[1] = b
    BY <1>3 DEF Moved
  <2>2. n # 1 /\ k <= n
    BY <1>4
  <2>3. new[n] = IF n = 1 THEN ord[k] ELSE IF n <= k THEN ord[n - 1] ELSE ord[n]
    BY DEF Moved
  <2> HIDE DEF new
  <2>4. CASE k = n
    <3>1. new[n] = ord[k - 1] /\ nx = 0
      BY <1>5, <2>2, <2>3, <2>4
    <3> QED BY <1>5, <2>1, <3>1
  <2>5. CASE k # n
    <3>1. ~(n <= k) /\ nx \in 1 .. n
      BY <1>2, <1>4, <1>5, <2>2, <2>5
    <3>2. new[n] = ord[n] /\ nx # 0
      BY <2>2, <2>3, <3>1
    <3> QED BY <1>1, <2>1, <3>2
  <2> QED BY <2>4, <2>5
<1> HIDE DEF next_1, prev_1, prev_2, next2, prev2, last2, new
<1>12. IsOrder(n, new)
  BY <1>1, MovedOrder DEF new
<1>13. IsChain(n, new, next2, prev2)
  <2>1. n \in Nat /\ b = ord[k] /\ k # 1 /\ k \in 1 .. n
    BY <1>3, <1>4
  <2> QED BY <1>1, <1>5, <1>10, <2>1, MovedChain, ZenonT(60) DEF new
<1>14. Linked(n, b, last2, next2, prev2)
  BY <1>11, <1>12, <1>13 DEF Linked
<1> QED BY <1>6, <1>7, <1>9, <1>14, ZenonT(60) DEF next_1, prev_1, prev_2, next2, prev2, last2

-----------------------------------------------------------------------------
(* The operations of cache.c *)

(* cacheset_moveBlkAtFirst keeps a set one list of all its blocks. *)
LEMMA MoveKeepsSet ==
    ASSUME NEW c \in Config, NEW set \in CacheSet(c), WellFormed(c, set),
           NEW b \in Blk(c)
    PROVE  /\ cacheset_moveBlkAtFirst(set, b) \in CacheSet(c)
           /\ WellFormed(c, cacheset_moveBlkAtFirst(set, b))
<1> DEFINE n    == c.assoc
           next == set.next_blk
           prev == set.prev_blk
           p    == prev[b]
           nx   == next[b]
           new  == cacheset_moveBlkAtFirst(set, b)
<1>1. n \in Nat \ {0} /\ Blk(c) = 1 .. n
  BY DEF Config, Blk
<1>2. /\ next \in [1 .. n -> (1 .. n) \cup {0}]
      /\ prev \in [1 .. n -> (1 .. n) \cup {0}]
      /\ set.valid \in [1 .. n -> BOOLEAN] /\ set.tag \in [1 .. n -> Nat]
  BY DEF CacheSet, Blk, NULL
<1>3. Linked(n, set.first_blk, set.last_blk, next, prev)
  BY WellFormedLinked
<1>4. CASE set.first_blk = b
  BY <1>4 DEF cacheset_moveBlkAtFirst
<1>5. CASE set.first_blk # b
  <2> DEFINE next_1 == [next EXCEPT ![p] = nx]
             prev_1 == IF nx # 0 THEN [prev EXCEPT ![nx] = p] ELSE prev
             prev_2 == [prev_1 EXCEPT ![b] = 0]
             next2  == [next_1 EXCEPT ![b] = set.first_blk]
             prev2  == [prev_2 EXCEPT ![set.first_blk] = b]
             last2  == IF nx # 0 THEN set.last_blk ELSE p
  <2>1. /\ p \in 1 .. n /\ set.first_blk \in 1 .. n /\ last2 \in 1 .. n
        /\ next2 \in [1 .. n -> (1 .. n) \cup {0}]
        /\ prev2 \in [1 .. n -> (1 .. n) \cup {0}]
        /\ Linked(n, b, last2, next2, prev2)
    <3> HIDE DEF n, next, prev
    <3>1. b \in 1 .. n
      BY <1>1
    <3> QED BY <1>1, <1>2, <1>3, <1>5, <3>1, MovedLinked, ZenonT(60)
  <2>2. p # 0
    BY <1>1, <2>1
  <2>3. new = [first_blk |-> b, last_blk |-> last2, prev_blk |-> prev2,
               next_blk |-> next2, valid |-> set.valid, tag |-> set.tag]
    BY <1>5, <2>2, ZenonT(60) DEF cacheset_moveBlkAtFirst, NULL
  <2> HIDE DEF n, next, prev, next_1, prev_1, prev_2, next2, prev2, last2, new
  <2>4. new \in CacheSet(c)
    BY <1>1, <1>2, <2>1, <2>3, ZenonT(60) DEF CacheSet, NULL
  <2>5. Linked(c.assoc, new.first_blk, new.last_blk, new.next_blk, new.prev_blk)
    BY <2>1, <2>3 DEF n
  <2>6. WellFormed(c, new)
    BY <2>5, WellFormedLinked
  <2> QED BY <2>4, <2>6, SMTT(30) DEF new
<1> QED BY <1>4, <1>5

(* Filling a block leaves the links alone. *)
LEMMA FillKeepsSet ==
    ASSUME NEW c \in Config, NEW set \in CacheSet(c), WellFormed(c, set),
           NEW b \in Blk(c), NEW tag \in Nat
    PROVE  /\ fill_blk(set, b, tag) \in CacheSet(c)
           /\ WellFormed(c, fill_blk(set, b, tag))
<1> DEFINE new == fill_blk(set, b, tag)
<1>1. new \in CacheSet(c)
  BY ZenonT(60) DEF fill_blk, CacheSet
<1>2. /\ new.first_blk = set.first_blk /\ new.last_blk = set.last_blk
      /\ new.next_blk = set.next_blk /\ new.prev_blk = set.prev_blk
  BY DEF fill_blk, CacheSet
<1> HIDE DEF new
<1>3. WellFormed(c, new)
  BY <1>2, WellFormedLinked, ZenonT(60)
<1> QED BY <1>1, <1>3 DEF new

(* The state of a cache, with every set one list of its blocks. *)
GoodCache(c, cache) ==
    /\ cache \in CacheState(c)
    /\ \A i \in SetIdx(c) : WellFormed(c, cache.cache_set[i])

(* cacheset_initialize links the blocks in the order of their numbers. *)
LEMMA InitKeepsSet ==
    ASSUME NEW c \in Config
    PROVE  /\ cacheset_initialize(c) \in CacheSet(c)
           /\ WellFormed(c, cacheset_initialize(c))
<1> DEFINE set == cacheset_initialize(c)
           ord == [k \in Blk(c) |-> k]
<1>1. c.assoc \in Nat \ {0}
  BY DEF Config
<1>2. set \in CacheSet(c)
  BY <1>1 DEF cacheset_initialize, CacheSet, Blk, NULL
<1>3. ord \in [Blk(c) -> Blk(c)]
  OBVIOUS
<1>4. Links(c, set, ord)
  BY <1>1 DEF Links, cacheset_initialize, Blk, NULL
<1> QED BY <1>2, <1>3, <1>4 DEF WellFormed

(* cache_initialize makes a good cache. *)
LEMMA InitGood ==
    ASSUME NEW c \in Config, IdSpace \in Nat \ {0}
    PROVE  GoodCache(c, cache_initialize(c))
<1>1. NoId \in 0 .. IdSpace - 1
  BY DEF NoId
<1>2. cacheset_initialize(c) \in CacheSet(c) /\ WellFormed(c, cacheset_initialize(c))
  BY InitKeepsSet
<1> QED BY <1>1, <1>2 DEF GoodCache, CacheState, cache_initialize

(* cache_access keeps a cache good: it moves a block of the accessed set. *)
LEMMA AccessGood ==
    ASSUME NEW c \in Config, idx_span(c) \in 1 .. c.nset,
           NEW cache, GoodCache(c, cache), IdSpace \in Nat \ {0},
           NEW id \in 0 .. IdSpace - 1, NEW type,
           NEW addr, line(c, addr) \in Nat, set_tag(c, addr) \in Nat
    PROVE  GoodCache(c, cache_access(c, cache, id, type, addr).cache)
<1> DEFINE idx  == set_idx(c, addr)
           tag  == set_tag(c, addr)
           set  == cache.cache_set[idx]
           at   == hit_blk(c, set, tag)
           hit  == at # {}
           blk  == IF hit THEN CHOOSE b \in at : TRUE ELSE set.last_blk
           base == IF hit THEN set ELSE fill_blk(set, blk, tag)
           moved == cacheset_moveBlkAtFirst(base, blk)
           last == cache.last_miss_inst_id
           read == ~hit /\ type = "Read"
           star == read /\ (last = NoId \/ (id - last) % IdSpace > RobSize)
           one(cond) == IF cond THEN 1 ELSE 0
           new  == cache_access(c, cache, id, type, addr).cache
<1>1. c.nset \in Nat \ {0}
  BY DEF Config
<1>2. idx \in SetIdx(c)
  <2> HIDE DEF idx
  <2>1. idx = line(c, addr) % idx_span(c)
    BY DEF set_idx, idx
  <2>2. idx \in 0 .. idx_span(c) - 1
    BY <1>1, <2>1
  <2> QED BY <1>1, <2>2 DEF SetIdx
<1>3. set \in CacheSet(c) /\ WellFormed(c, set)
  BY <1>2 DEF GoodCache, CacheState
<1>4. blk \in Blk(c)
  <2>1. at \subseteq Blk(c)
    BY SMTT(30) DEF hit_blk
  <2>2. set.last_blk \in Blk(c)
    BY <1>3 DEF CacheSet
  <2> HIDE DEF at, set
  <2> QED BY <2>1, <2>2
<1>5. base \in CacheSet(c) /\ WellFormed(c, base)
  <2> HIDE DEF blk, set, hit
  <2> QED BY <1>3, <1>4, FillKeepsSet
<1>6. moved \in CacheSet(c) /\ WellFormed(c, moved)
  <2> HIDE DEF base, blk
  <2> QED BY <1>4, <1>5, MoveKeepsSet, SMTT(30)
<1>7. new = [cache_set         |-> [cache.cache_set EXCEPT ![idx] = moved],
             num_access        |-> cache.num_access + 1,
             num_miss          |-> cache.num_miss + one(~hit),
             num_read_miss     |-> cache.num_read_miss + one(read),
             num_miss_star     |-> cache.num_miss_star + one(star),
             last_miss_inst_id |-> IF read THEN id ELSE last]
  BY ZenonT(60) DEF cache_access, accessed_set
<1> HIDE DEF idx, tag, set, at, hit, blk, base, moved, read, star, new
<1>8. /\ cache.cache_set \in [SetIdx(c) -> CacheSet(c)]
      /\ cache.num_access \in Nat /\ cache.num_miss \in Nat
      /\ cache.num_read_miss \in Nat /\ cache.num_miss_star \in Nat
      /\ last \in 0 .. IdSpace - 1
      /\ \A i \in SetIdx(c) : WellFormed(c, cache.cache_set[i])
  BY ZenonT(60) DEF GoodCache, CacheState
<1> HIDE DEF last
<1>9. new \in CacheState(c)
  BY <1>2, <1>6, <1>7, <1>8, SMTT(30) DEF CacheState
<1>10. \A i \in SetIdx(c) : new.cache_set[i] = IF i = idx THEN moved
                                               ELSE cache.cache_set[i]
  BY <1>2, <1>7, <1>8
<1>11. \A i \in SetIdx(c) : WellFormed(c, new.cache_set[i])
  BY <1>6, <1>8, <1>10, ZenonT(60)
<1> QED BY <1>9, <1>11 DEF GoodCache, new

-----------------------------------------------------------------------------
(* The hierarchy *)

GoodCaches ==
    /\ GoodCache(Il1, il1_cache) /\ GoodCache(Dl1, dl1_cache)
    /\ GoodCache(Ul2, ul2_cache) /\ previous_pc \in Nat /\ last_addr \in Nat

(* An access to one of the caches, with what is known of its arguments. *)
LEMMA AccessOf ==
    ASSUME NEW c \in {Il1, Dl1, Ul2}, NEW cache, GoodCache(c, cache),
           NEW id \in Ids, NEW type, NEW addr \in Pcs \cup Addrs
    PROVE  GoodCache(c, cache_access(c, cache, id, type, addr).cache)
<1>1. /\ c \in Config /\ idx_span(c) \in 1 .. c.nset /\ IdSpace \in Nat \ {0}
      /\ line(c, addr) \in Nat /\ set_tag(c, addr) \in Nat
  BY CacheAssumption
<1>2. id \in 0 .. IdSpace - 1
  BY CacheAssumption
<1> QED BY <1>1, <1>2, AccessGood

(* Both operations of cachesim.c access good caches only. *)
LEMMA StepGood == GoodCaches /\ [Next]_vars => GoodCaches'
<1> SUFFICES ASSUME GoodCaches, [Next]_vars PROVE GoodCaches'
  OBVIOUS
<1>1. ASSUME NEW id \in Ids, NEW type, NEW addr \in Pcs \cup Addrs, NEW miss_type,
             ul2_access(id, type, addr, miss_type)
      PROVE  GoodCache(Ul2, ul2_cache')
  <2>1. GoodCache(Ul2, cache_access(Ul2, ul2_cache, id, type, addr).cache)
    BY AccessOf DEF GoodCaches
  <2> QED BY <1>1, <2>1 DEF ul2_access, GoodCaches
<1>2. ASSUME NEW id \in Ids, NEW pc \in Pcs, Fetch(id, pc)
      PROVE  GoodCaches'
  <2> DEFINE a == fetchbufferalignpc(pc)
  <2>1. a \in Pcs /\ a \in Nat
    BY CacheAssumption DEF fetchbufferalignpc
  <2>2. /\ dl1_cache' = dl1_cache /\ previous_pc' = a /\ last_addr' = a
        /\ \/ il1_cache' = cache_access(Il1, il1_cache, id, "Read", a).cache
           \/ il1_cache' = il1_cache
        /\ \E miss_type \in CacheMissType : ul2_access(id, "Read", a, miss_type)
    BY <1>2, ZenonT(60) DEF Fetch, cachesim_iaccess
  <2> HIDE DEF a
  <2>3. GoodCache(Il1, cache_access(Il1, il1_cache, id, "Read", a).cache)
    BY <2>1, AccessOf DEF GoodCaches
  <2>4. GoodCache(Ul2, ul2_cache')
    BY <1>1, <2>1, <2>2
  <2> QED BY <2>1, <2>2, <2>3, <2>4 DEF GoodCaches
<1>3. ASSUME NEW id \in Ids, NEW addr \in Addrs, NEW type, DataAccess(id, addr, type)
      PROVE  GoodCaches'
  <2>1. /\ il1_cache' = il1_cache /\ previous_pc' = previous_pc /\ last_addr' = addr
        /\ \/ dl1_cache' = cache_access(Dl1, dl1_cache, id, type, addr).cache
           \/ dl1_cache' = dl1_cache
        /\ \E miss_type \in CacheMissType : ul2_access(id, type, addr, miss_type)
    BY <1>3, ZenonT(60) DEF DataAccess, cachesim_daccess
  <2>2. GoodCache(Dl1, cache_access(Dl1, dl1_cache, id, type, addr).cache)
    BY AccessOf DEF GoodCaches
  <2>3. GoodCache(Ul2, ul2_cache')
    BY <1>1, <2>1
  <2>4. addr \in Nat
    BY CacheAssumption
  <2> QED BY <2>1, <2>2, <2>3, <2>4 DEF GoodCaches
<1>4. CASE UNCHANGED vars
  BY <1>4 DEF vars, GoodCaches
<1> QED BY <1>2, <1>3, <1>4 DEF Next

(* Every state of the caches is good. *)
LEMMA AlwaysGood == Spec => []GoodCaches
<1>1. Init => GoodCaches
  <2>1. \A c \in {Il1, Dl1, Ul2} : GoodCache(c, cache_initialize(c))
    BY CacheAssumption, InitGood
  <2> QED BY <2>1 DEF Init, GoodCaches
<1> QED BY <1>1, StepGood, PTL DEF Spec

(***************************************************************************)
(* The fields of cache.h keep their types, whatever the sizes of the       *)
(* caches and the accesses are.                                            *)
(***************************************************************************)
THEOREM TypeCorrect == Spec => []TypeOK
<1>1. GoodCaches => TypeOK
  BY DEF GoodCaches, GoodCache, TypeOK
<1> QED BY <1>1, AlwaysGood, PTL

(***************************************************************************)
(* cache_access never breaks the list of a set: for every size and         *)
(* associativity of the three caches and every sequence of accesses, the   *)
(* list holds every block once, first to last.                             *)
(***************************************************************************)
THEOREM SetsLinkedAlways == Spec => []SetsLinked
<1>1. GoodCaches => SetsLinked
  BY DEF GoodCaches, GoodCache, SetsLinked
<1> QED BY <1>1, AlwaysGood, PTL

=============================================================================
