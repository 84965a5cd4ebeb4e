------------------------ MODULE TraceAnalyzer_lemmas ------------------------
(***************************************************************************)
(* Lemmas about the operators of InstQueue, Inst and TraceAnalyzer, the    *)
(* inductive invariant of TraceAnalyzer and what it says of a state.  The  *)
(* steps are in TraceAnalyzer_proofs.                                      *)
(***************************************************************************)
EXTENDS TraceAnalyzer, SequenceTheorems, TLAPS

-----------------------------------------------------------------------------
(* The operations of an InstQueue: what they do to the sequence and to the *)
(* set of the instructions that are linked.                                *)

(* The members of a queue of S are in S. *)
LEMMA ElemsType ==
    ASSUME NEW S, NEW q \in Seq(S)
    PROVE  /\ Elems(q) \subseteq S
           /\ DOMAIN q = 1 .. Len(q)
           /\ Len(q) \in Nat
  BY LenProperties DEF Elems

(* Only the empty queue has no members. *)
LEMMA ElemsEmpty ==
    ASSUME NEW S, NEW q \in Seq(S)
    PROVE  Elems(q) = {} <=> q = <<>>
<1>1. ASSUME q = <<>> PROVE Elems(q) = {}
  BY <1>1 DEF Elems
<1>2. ASSUME q # <<>> PROVE q[1] \in Elems(q)
  BY <1>2, EmptySeq, LenProperties DEF Elems
<1> QED BY <1>1, <1>2

(* Append adds its argument, and nothing else, to the members. *)
LEMMA PushBack ==
    ASSUME NEW S, NEW q \in Seq(S), NEW e \in S
    PROVE  /\ Append(q, e) \in Seq(S)
           /\ Elems(Append(q, e)) = Elems(q) \cup {e}
           /\ NoDuplicates(q) /\ e \notin Elems(q) => NoDuplicates(Append(q, e))
<1> DEFINE r == Append(q, e)
<1>1. /\ r \in Seq(S) /\ Len(r) = Len(q) + 1 /\ Len(q) \in Nat
      /\ DOMAIN r = 1 .. Len(q) + 1 /\ DOMAIN q = 1 .. Len(q)
      /\ \A i \in 1 .. Len(q) : r[i] = q[i]
      /\ r[Len(q) + 1] = e
  BY AppendProperties, LenProperties
<1> HIDE DEF r
<1>2. Elems(r) = Elems(q) \cup {e}
  <2>1. ASSUME NEW i \in DOMAIN r PROVE r[i] \in Elems(q) \cup {e}
    <3>1. CASE i \in 1 .. Len(q)
      BY <1>1, <3>1 DEF Elems
    <3>2. CASE i = Len(q) + 1
      BY <1>1, <3>2
    <3> QED BY <1>1, <3>1, <3>2
  <2>2. ASSUME NEW i \in DOMAIN q PROVE q[i] \in Elems(r)
    BY <1>1 DEF Elems
  <2>3. e \in Elems(r)
    BY <1>1 DEF Elems
  <2> QED BY <2>1, <2>2, <2>3 DEF Elems
<1>3. ASSUME NoDuplicates(q), e \notin Elems(q) PROVE NoDuplicates(r)
  <2> SUFFICES ASSUME NEW i \in DOMAIN r, NEW j \in DOMAIN r, r[i] = r[j] PROVE i = j
    BY DEF NoDuplicates
  <2>1. CASE i \in 1 .. Len(q) /\ j \in 1 .. Len(q)
    BY <1>1, <1>3, <2>1 DEF NoDuplicates
  <2>2. CASE i = Len(q) + 1 /\ j \in 1 .. Len(q)
    BY <1>1, <1>3, <2>2 DEF Elems
  <2>3. CASE i \in 1 .. Len(q) /\ j = Len(q) + 1
    BY <1>1, <1>3, <2>3 DEF Elems
  <2> QED BY <1>1, <2>1, <2>2, <2>3
<1> QED BY <1>1, <1>2, <1>3 DEF r

(* remove_from_list takes out the element at position i and no other. *)
LEMMA RemoveFromList ==
    ASSUME NEW S, NEW q \in Seq(S), NEW i \in DOMAIN q
    PROVE  /\ remove_from_list(q, i) \in Seq(S)
           /\ NoDuplicates(q) =>
                 /\ NoDuplicates(remove_from_list(q, i))
                 /\ Elems(remove_from_list(q, i)) = Elems(q) \ {q[i]}
<1> DEFINE r == remove_from_list(q, i)
           n == Len(q)
           at(j) == IF j < i THEN j ELSE j + 1
<1>1. n \in Nat /\ n > 0 /\ DOMAIN q = 1 .. n /\ i \in 1 .. n /\ q \in [1 .. n -> S]
  BY LenProperties
<1>2. \A j \in 1 .. n - 1 : at(j) \in 1 .. n /\ at(j) # i
  BY <1>1
<1>3. r = [j \in 1 .. n - 1 |-> q[at(j)]]
  BY <1>1 DEF remove_from_list
<1>4. \A j, k \in 1 .. n - 1 : at(j) = at(k) => j = k
  BY <1>1
<1>5. \A k \in 1 .. n : k # i => \E j \in 1 .. n - 1 : at(j) = k
  <2> TAKE k \in 1 .. n
  <2> HAVE k # i
  <2>1. CASE k < i
    BY <1>1, <2>1
  <2>2. CASE k > i
    <3>1. k - 1 \in 1 .. n - 1 /\ at(k - 1) = k
      BY <1>1, <2>2
    <3> QED BY <3>1
  <2> QED BY <1>1, <2>1, <2>2
<1> HIDE DEF at, r
<1>6. r \in Seq(S)
  <2>1. n - 1 \in Nat /\ \A j \in 1 .. n - 1 : q[at(j)] \in S
    BY <1>1, <1>2
  <2> QED BY <2>1, <1>3
<1>7. DOMAIN r = 1 .. n - 1 /\ \A j \in 1 .. n - 1 : r[j] = q[at(j)]
  BY <1>3
<1>8. ASSUME NoDuplicates(q) PROVE NoDuplicates(r)
  BY <1>1, <1>2, <1>4, <1>7, <1>8 DEF NoDuplicates
<1>9. ASSUME NoDuplicates(q) PROVE Elems(r) = Elems(q) \ {q[i]}
  <2>1. ASSUME NEW j \in 1 .. n - 1 PROVE q[at(j)] \in Elems(q) \ {q[i]}
    BY <1>1, <1>2, <1>9 DEF NoDuplicates, Elems
  <2>2. ASSUME NEW k \in 1 .. n, q[k] # q[i] PROVE \E j \in 1 .. n - 1 : q[k] = r[j]
    <3>1. PICK j \in 1 .. n - 1 : at(j) = k
      BY <1>5, <2>2
    <3> QED BY <3>1, <1>7
  <2> QED BY <1>1, <1>7, <2>1, <2>2, SMTT(30) DEF Elems
<1> QED BY <1>6, <1>8, <1>9 DEF r

(* remove_inst takes out its argument if the queue holds it. *)
LEMMA RemoveInst ==
    ASSUME NEW S, NEW q \in Seq(S), NEW e
    PROVE  /\ remove_inst(q, e) \in Seq(S)
           /\ NoDuplicates(q) =>
                 /\ NoDuplicates(remove_inst(q, e))
                 /\ Elems(remove_inst(q, e)) = Elems(q) \ {e}
<1>1. CASE e \in Elems(q)
  <2> DEFINE i == CHOOSE j \in DOMAIN q : q[j] = e
  <2>1. i \in DOMAIN q /\ q[i] = e
    BY <1>1 DEF Elems
  <2>2. remove_inst(q, e) = remove_from_list(q, i)
    BY <1>1 DEF remove_inst
  <2> HIDE DEF i
  <2> QED BY <2>1, <2>2, RemoveFromList
<1>2. CASE e \notin Elems(q)
  BY <1>2 DEF remove_inst
<1> QED BY <1>1, <1>2

(* push_front_insts keeps every instruction when there is room for all. *)
LEMMA PushFrontFits ==
    ASSUME NEW S, NEW q \in Seq(S), NEW insts \in Seq(S), NEW capacity \in Nat,
           Len(q) + Len(insts) <= capacity
    PROVE  push_front_insts(q, capacity, insts) = insts \o q
<1>1. SubSeq(insts, 1, Len(insts)) = insts
  BY SubSeqFull
<1>2. Len(insts) \in Nat /\ Len(insts) - Len(insts) + 1 = 1
  BY LenProperties
<1> QED BY <1>1, <1>2, ZenonT(60) DEF push_front_insts

-----------------------------------------------------------------------------
(* The ring of the ROB. *)

(* next_idx steps through the slots and wraps around after the last one. *)
LEMMA NextIdx ==
    \A i \in Slot : /\ next_idx(i) \in Slot
                    /\ next_idx(i) = IF i = RobCapacity - 1 THEN 0 ELSE i + 1
<1> TAKE i \in Slot
<1>1. RobCapacity \in Nat /\ RobCapacity > 0 /\ i \in Nat /\ i < RobCapacity
  BY ConfigAssumption DEF Slot
<1>2. CASE i = RobCapacity - 1
  BY <1>1, <1>2 DEF next_idx, Slot
<1>3. CASE i # RobCapacity - 1
  <2>1. i + 1 \in 0 .. RobCapacity - 1
    BY <1>1, <1>3
  <2>2. (i + 1) % RobCapacity = i + 1
    BY <2>1, <1>1
  <2> QED BY <2>1, <2>2, <1>3 DEF next_idx, Slot
<1> QED BY <1>2, <1>3

(* end_idx is rob_size slots after start_idx. *)
Ring == end_idx = IF start_idx + rob_size < RobCapacity THEN start_idx + rob_size
                  ELSE start_idx + rob_size - RobCapacity

RingType == start_idx \in Slot /\ end_idx \in Slot /\ rob_size \in 0 .. RobCapacity

(* rob_remove_inst takes the oldest slot out of the ring. *)
LEMMA RingRemove ==
    ASSUME RingType, Ring, rob_size # 0,
           start_idx' = next_idx(start_idx), rob_size' = rob_size - 1, end_idx' = end_idx
    PROVE  /\ start_idx \in Live /\ Live' = Live \ {start_idx}
           /\ RingType' /\ Ring'
<1> USE ConfigAssumption DEF RingType
<1>1. /\ next_idx(start_idx) \in Slot
      /\ next_idx(start_idx) = IF start_idx = RobCapacity - 1 THEN 0 ELSE start_idx + 1
  BY NextIdx
<1>2. start_idx \in Live
  BY DEF Live, Slot
<1>3. Live' = Live \ {start_idx}
  BY <1>1 DEF Live, Slot
<1>4. RingType' /\ Ring'
  BY <1>1 DEF Ring, Slot
<1> QED BY <1>2, <1>3, <1>4

(* rob_insert_inst adds the slot at end_idx, which was free. *)
LEMMA RingInsert ==
    ASSUME RingType, Ring, rob_size # RobCapacity,
           end_idx' = next_idx(end_idx), rob_size' = rob_size + 1, start_idx' = start_idx
    PROVE  /\ end_idx \notin Live /\ Live' = Live \cup {end_idx}
           /\ RingType' /\ Ring'
<1> USE ConfigAssumption DEF RingType
<1>1. /\ next_idx(end_idx) \in Slot
      /\ next_idx(end_idx) = IF end_idx = RobCapacity - 1 THEN 0 ELSE end_idx + 1
  BY NextIdx
<1>2. end_idx \notin Live
  BY DEF Live, Slot, Ring
<1>3. Live' = Live \cup {end_idx}
  BY DEF Live, Slot, Ring
<1>4. RingType' /\ Ring'
  BY <1>1 DEF Ring, Slot
<1> QED BY <1>2, <1>3, <1>4

-----------------------------------------------------------------------------
(* Decoding and the micro-operations. *)

(* The register lists of an instruction are lists of numbers. *)
LEMMA RegLists ==
    ASSUME NEW c \in Code, NEW t
    PROVE  src_regs(c, t) \in Seq(Int) /\ dst_regs(c, t) \in Seq(Int)
<1>1. \A r \in Regs \cup {R_INVLD} : Reg(r) \in Seq(Int)
  BY DEF Reg, Regs, PC, R_INVLD
<1>2. c.reglist \in Seq(Int)
  <2>1. c.reglist \in Seq(Regs)
    BY DEF Code
  <2>2. c.reglist \in [1 .. Len(c.reglist) -> Regs] /\ Len(c.reglist) \in Nat
    BY <2>1, LenProperties
  <2>3. \A i \in 1 .. Len(c.reglist) : c.reglist[i] \in Int
    <3>1. Regs \subseteq Int
      BY DEF Regs, PC
    <3> QED BY <2>1, <3>1, ElementOfSeq, ZenonT(60)
  <2>4. c.reglist = [i \in 1 .. Len(c.reglist) |-> c.reglist[i]]
    BY <2>2
  <2> QED BY <2>2, <2>3, <2>4
<1>3. \A x, y \in Seq(Int) : x \o y \in Seq(Int)
  BY ConcatProperties
<1>4. Reg(c.Rt) \in Seq(Int) /\ Reg(c.Rn) \in Seq(Int) /\ Reg(c.Rd) \in Seq(Int)
      /\ Reg(c.Rm) \in Seq(Int)
  BY <1>1 DEF Code
<1>5. <<CondFlags>> \in Seq(Int) /\ <<>> \in Seq(Int)
  BY DEF CondFlags
<1> HIDE DEF Reg
<1>6. src_regs(c, t) \in Seq(Int)
  <2> DEFINE a == (CASE t \in {"MemRead", "Pop"}   -> Reg(c.Rn)
               [] t \in {"MemWrite", "Push"} -> Reg(c.Rt) \o Reg(c.Rn) \o c.reglist
               [] OTHER                         -> Reg(c.Rm) \o Reg(c.Rn) \o c.reglist)
             b == IF c.cond THEN <<CondFlags>> ELSE <<>>
  <2>1. a \in Seq(Int)
    <3>1. CASE t \in {"MemRead", "Pop"}
      BY <3>1, <1>4
    <3>2. CASE t \in {"MemWrite", "Push"}
      BY <3>2, <1>2, <1>3, <1>4
    <3>3. CASE t \notin {"MemRead", "Pop", "MemWrite", "Push"}
      BY <3>3, <1>2, <1>3, <1>4
    <3> QED BY <3>1, <3>2, <3>3
  <2>2. b \in Seq(Int)
    BY <1>5
  <2>3. src_regs(c, t) = a \o b
    BY DEF src_regs
  <2> HIDE DEF a, b
  <2> QED BY <2>1, <2>2, <2>3, <1>3
<1>7. dst_regs(c, t) \in Seq(Int)
  <2> DEFINE a == (CASE t \in {"MemRead", "Pop"}   -> Reg(c.Rt) \o c.reglist
               [] t \in {"MemWrite", "Push"} -> <<>>
               [] OTHER                         -> Reg(c.Rd))
             b == IF c.S \/ c.instr = "CMP" THEN <<CondFlags>> ELSE <<>>
  <2>1. a \in Seq(Int)
    <3>1. CASE t \in {"MemRead", "Pop"}
      BY <3>1, <1>2, <1>3, <1>4
    <3>2. CASE t \in {"MemWrite", "Push"}
      BY <3>2, <1>5
    <3>3. CASE t \notin {"MemRead", "Pop", "MemWrite", "Push"}
      BY <3>3, <1>4
    <3> QED BY <3>1, <3>2, <3>3
  <2>2. b \in Seq(Int)
    BY <1>5
  <2>3. dst_regs(c, t) = a \o b
    BY DEF dst_regs
  <2> HIDE DEF a, b
  <2> QED BY <2>1, <2>2, <2>3, <1>3
<1> QED BY <1>6, <1>7

(* decode_inst returns a decoded instruction and keeps code and accesses. *)
LEMMA DecodeType ==
    ASSUME NEW inst \in Inst(Codes)
    PROVE  /\ decode_inst(inst) \in Inst(Codes)
           /\ decode_inst(inst).decoded
           /\ decode_inst(inst).code = inst.code
           /\ decode_inst(inst).eff_addr = inst.eff_addr
           /\ inst.decoded => decode_inst(inst) = inst
<1>1. CASE inst.decoded
  BY <1>1 DEF decode_inst
<1>2. CASE ~inst.decoded
  <2> DEFINE type == DecodedType[inst.code.instr]
             src == IF type = "Unsupported" THEN inst.src_reg ELSE src_regs(inst.code, type)
             dst == IF type = "Unsupported" THEN inst.dst_reg ELSE dst_regs(inst.code, type)
  <2>1. inst.code \in Codes /\ inst.code \in Code
    BY ProgramAssumption DEF Inst
  <2>2. inst.code.instr \in DOMAIN DecodedType
    BY <2>1 DEF Code
  <2>3. type \in InstTypeName
    BY <2>2 DEF DecodedType, InstTypeName, PipelineType
  <2>4. src \in Seq(Int) /\ dst \in Seq(Int)
    BY <2>1, RegLists DEF Inst
  <2>5. decode_inst(inst) = [inst EXCEPT !.decoded = TRUE, !.type = type,
                                         !.src_reg = src, !.dst_reg = dst]
    BY <1>2 DEF decode_inst
  <2> HIDE DEF type, src, dst
  <2> QED BY <1>2, <2>1, <2>3, <2>4, <2>5, ZenonT(60) DEF Inst
<1> QED BY <1>1, <1>2

(* The micro-operations of a PUSH or POP: one per access and one more, all *)
(* decoded, of types that the pipeline executes.                           *)
LEMMA MicroopsType ==
    ASSUME NEW inst \in Inst(Codes)
    PROVE  /\ microops(inst) \in Seq(Inst(Codes))
           /\ Len(microops(inst)) = Len(inst.eff_addr) + 1
           /\ \A i \in 1 .. Len(inst.eff_addr) + 1 :
                 microops(inst)[i].decoded /\ microops(inst)[i].type \in PipelineType
<1> DEFINE n == Len(inst.eff_addr)
           m == microops(inst)
<1>1. n \in Nat /\ inst.code \in Codes /\ \A i \in 1 .. n : inst.eff_addr[i] \in Nat
  BY LenProperties DEF Inst
<1>2. \A type \in PipelineType, src \in Seq(Int), dst \in Seq(Int), addr \in Seq(Nat) :
        LET op == microop(inst, type, src, dst, addr)
        IN  op \in Inst(Codes) /\ op.decoded /\ op.type \in PipelineType
  <2> TAKE type \in PipelineType, src \in Seq(Int), dst \in Seq(Int), addr \in Seq(Nat)
  <2> DEFINE new == init_inst(inst.code)
  <2>1. new \in Inst(Codes)
    BY <1>1 DEF init_inst, Inst, InstTypeName, PipelineType, State
  <2>2. microop(inst, type, src, dst, addr) =
          [new EXCEPT !.decoded = TRUE, !.type = type, !.src_reg = src, !.dst_reg = dst,
                      !.eff_addr = addr]
    BY DEF microop
  <2> HIDE DEF new
  <2> DEFINE op == microop(inst, type, src, dst, addr)
  <2>3. op \in Inst(Codes)
    BY <2>1, <2>2, ZenonT(60) DEF Inst, InstTypeName
  <2>4. op.decoded
    BY <2>1, <2>2 DEF Inst
  <2>5. op.type = type
    BY <2>1, <2>2 DEF Inst
  <2> QED BY <2>3, <2>4, <2>5
<1>3. ASSUME NEW i \in 1 .. n
      PROVE  nth(inst.src_reg, i) \in Int /\ nth(inst.dst_reg, i) \in Int
  <2>1. inst.src_reg \in Seq(Int) /\ inst.dst_reg \in Seq(Int)
    BY DEF Inst
  <2>2. /\ DOMAIN inst.src_reg = 1 .. Len(inst.src_reg)
        /\ DOMAIN inst.dst_reg = 1 .. Len(inst.dst_reg)
    BY <2>1, LenProperties
  <2> QED BY <2>1, <2>2, ElementOfSeq DEF nth, R_INVLD
<1>4. ASSUME NEW i \in 1 .. n + 1
      PROVE  m[i] \in Inst(Codes) /\ m[i].decoded /\ m[i].type \in PipelineType
  <2>1. CASE i <= n /\ inst.type = "Push"
    <3>1. m[i] = microop(inst, "MemWrite", <<nth(inst.src_reg, i)>>, <<>>, <<inst.eff_addr[i]>>)
      BY <2>1, <1>1 DEF microops
    <3>2. i \in 1 .. n
      BY <2>1, <1>1
    <3>3. /\ <<nth(inst.src_reg, i)>> \in Seq(Int) /\ <<>> \in Seq(Int)
          /\ <<inst.eff_addr[i]>> \in Seq(Nat) /\ "MemWrite" \in PipelineType
      BY <3>2, <1>1, <1>3, SMTT(30) DEF PipelineType
    <3> HIDE DEF m
    <3> QED BY <3>1, <3>3, <1>2, ZenonT(60)
  <2>2. CASE i <= n /\ inst.type # "Push"
    <3>1. m[i] = microop(inst, "MemRead", <<SP>>, <<nth(inst.dst_reg, i)>>, <<inst.eff_addr[i]>>)
      BY <2>2, <1>1 DEF microops
    <3>2. i \in 1 .. n
      BY <2>2, <1>1
    <3>3. /\ <<nth(inst.dst_reg, i)>> \in Seq(Int) /\ <<SP>> \in Seq(Int)
          /\ <<inst.eff_addr[i]>> \in Seq(Nat) /\ "MemRead" \in PipelineType
      BY <3>2, <1>1, <1>3 DEF PipelineType, SP
    <3> HIDE DEF m
    <3> QED BY <3>1, <3>3, <1>2, ZenonT(60)
  <2>3. CASE ~(i <= n)
    <3>1. m[i] = microop(inst, "IntAlu", <<SP>>, <<SP>>, <<>>)
      BY <2>3, <1>1 DEF microops
    <3>2. <<SP>> \in Seq(Int) /\ <<>> \in Seq(Nat) /\ "IntAlu" \in PipelineType
      BY DEF PipelineType, SP
    <3> HIDE DEF m
    <3> QED BY <3>1, <3>2, <1>2, ZenonT(60)
  <2> QED BY <2>1, <2>2, <2>3
<1>5. m = [i \in 1 .. n + 1 |-> m[i]]
  BY DEF microops
<1> HIDE DEF m
<1>6. m \in Seq(Inst(Codes)) /\ Len(m) = n + 1
  <2>1. n + 1 \in Nat
    BY <1>1
  <2>2. [i \in 1 .. n + 1 |-> m[i]] \in Seq(Inst(Codes))
    BY <2>1, <1>4
  <2>3. Len([i \in 1 .. n + 1 |-> m[i]]) = n + 1
    BY <2>1, SMTT(30)
  <2> QED BY <2>2, <2>3, <1>5
<1> QED BY <1>4, <1>6 DEF m

(***************************************************************************)
(* The trace buffer: what was decoded has been split, and an instruction   *)
(* that was not decoded made at most the accesses of its code and stands   *)
(* within the last SampleLength, because micro-operations are only pushed  *)
(* in front of it.  This makes push_front_inst always find room.           *)
(***************************************************************************)
Shape(b) ==
    \A i \in 1 .. Len(b) :
        /\ b[i].decoded => b[i].type \in PipelineType \cup {"Unsupported"}
        /\ ~b[i].decoded => /\ Len(b[i].eff_addr) <= NumAccesses(b[i].code)
                            /\ Len(b) - i + 1 <= SampleLength

(* The tail of a well-shaped buffer is well shaped. *)
LEMMA TailShape ==
    ASSUME NEW b \in Seq(Inst(Codes)), b # <<>>, Shape(b)
    PROVE  Tail(b) \in Seq(Inst(Codes)) /\ Shape(Tail(b)) /\ Len(Tail(b)) = Len(b) - 1
<1>1. /\ Tail(b) \in Seq(Inst(Codes)) /\ Len(Tail(b)) = Len(b) - 1
      /\ \A i \in 1 .. Len(Tail(b)) : Tail(b)[i] = b[i + 1]
      /\ Len(b) \in Nat
  BY HeadTailProperties, LenProperties
<1>2. ASSUME NEW i \in 1 .. Len(Tail(b))
      PROVE  i + 1 \in 1 .. Len(b) /\ Len(b) - (i + 1) + 1 = Len(Tail(b)) - i + 1
  BY <1>1
<1> QED BY <1>1, <1>2, BoundAssumption, SMTT(30) DEF Shape

(* A load or store makes a natural number of accesses. *)
LEMMA NumAccessesType == \A c \in Codes : NumAccesses(c) \in Nat
<1> TAKE c \in Codes
<1>1. c.reglist \in Seq(Regs)
  BY ProgramAssumption DEF Code
<1>2. Len(c.reglist) \in Nat
  BY <1>1, LenProperties
<1>3. CASE c.instr \in {"LD", "ST", "POP", "PUSH"}
  <2>1. NumAccesses(c) = IF c.reglist = <<>> THEN 1 ELSE Len(c.reglist)
    BY <1>3 DEF NumAccesses
  <2> QED BY <2>1, <1>2
<1>4. CASE c.instr \notin {"LD", "ST", "POP", "PUSH"}
  <2>1. NumAccesses(c) = 0
    BY <1>4 DEF NumAccesses
  <2> QED BY <2>1
<1> QED BY <1>3, <1>4

(* What convert_microop puts in front of the rest of the buffer. *)
LEMMA PrependShape ==
    ASSUME NEW b \in Seq(Inst(Codes)), Shape(b), NEW ops \in Seq(Inst(Codes)), ops # <<>>,
           \A i \in 1 .. Len(ops) :
              ops[i].decoded /\ ops[i].type \in PipelineType \cup {"Unsupported"}
    PROVE  /\ ops \o b \in Seq(Inst(Codes)) /\ ops \o b # <<>> /\ Shape(ops \o b)
           /\ Len(ops \o b) = Len(ops) + Len(b)
           /\ Head(ops \o b) \in Inst(Codes)
           /\ Head(ops \o b).type \in PipelineType \cup {"Unsupported"}
<1> DEFINE c == ops \o b
<1>1. /\ c \in Seq(Inst(Codes)) /\ Len(c) = Len(ops) + Len(b)
      /\ \A i \in 1 .. Len(ops) + Len(b) :
            c[i] = IF i <= Len(ops) THEN ops[i] ELSE b[i - Len(ops)]
      /\ Len(ops) \in Nat /\ Len(ops) > 0 /\ Len(b) \in Nat
  BY ConcatProperties, LenProperties, EmptySeq, SMTT(30)
<1> HIDE DEF c
<1>2. c # <<>>
  BY <1>1, SMTT(30)
<1>3. Shape(c)
  <2> SUFFICES ASSUME NEW i \in 1 .. Len(c)
               PROVE  /\ c[i].decoded => c[i].type \in PipelineType \cup {"Unsupported"}
                      /\ ~c[i].decoded => /\ Len(c[i].eff_addr) <= NumAccesses(c[i].code)
                                          /\ Len(c) - i + 1 <= SampleLength
    BY DEF Shape
  <2>1. CASE i <= Len(ops)
    <3>1. c[i] = ops[i] /\ i \in 1 .. Len(ops)
      BY <1>1, <2>1, SMTT(30)
    <3> QED BY <3>1
  <2>2. CASE i > Len(ops)
    <3> DEFINE j == i - Len(ops)
    <3>1. c[i] = b[j] /\ j \in 1 .. Len(b) /\ Len(b) - j + 1 = Len(c) - i + 1
      BY <1>1, <2>2
    <3> HIDE DEF j
    <3> QED BY <3>1 DEF Shape
  <2> QED BY <1>1, <2>1, <2>2, SMTT(30)
<1>4. Head(c) = ops[1] /\ 1 \in 1 .. Len(ops)
  BY <1>1, <1>2
<1> QED BY <1>1, <1>2, <1>3, <1>4, ElementOfSeq, SMTT(30) DEF c

(* A recorded instruction behind the ones of the buffer. *)
LEMMA AppendShape ==
    ASSUME NEW b \in Seq(Inst(Codes)), NEW x \in Inst(Codes)
    PROVE  /\ Append(b, x) \in Seq(Inst(Codes)) /\ Len(Append(b, x)) = Len(b) + 1
           /\ /\ Shape(b) /\ Len(b) < SampleLength
              /\ ~x.decoded /\ Len(x.eff_addr) <= NumAccesses(x.code)
              => Shape(Append(b, x))
<1> DEFINE a == Append(b, x)
<1>1. /\ a \in Seq(Inst(Codes)) /\ Len(a) = Len(b) + 1
      /\ \A i \in 1 .. Len(b) : a[i] = b[i]
      /\ a[Len(b) + 1] = x
  BY AppendProperties
<1>2. Len(b) \in Nat
  BY LenProperties
<1> HIDE DEF a
<1>3. ASSUME Shape(b), Len(b) < SampleLength, ~x.decoded, Len(x.eff_addr) <= NumAccesses(x.code)
      PROVE  Shape(a)
  <2> SUFFICES ASSUME NEW i \in 1 .. Len(a)
               PROVE  /\ a[i].decoded => a[i].type \in PipelineType \cup {"Unsupported"}
                      /\ ~a[i].decoded => /\ Len(a[i].eff_addr) <= NumAccesses(a[i].code)
                                          /\ Len(a) - i + 1 <= SampleLength
    BY DEF Shape
  <2>1. Len(a) - i + 1 <= SampleLength
    BY <1>1, <1>2, <1>3, BoundAssumption
  <2>2. CASE i \in 1 .. Len(b)
    BY <1>1, <1>3, <2>1, <2>2 DEF Shape
  <2>3. CASE i = Len(b) + 1
    BY <1>1, <1>3, <2>1, <2>3
  <2> QED BY <1>1, <1>2, <2>2, <2>3
<1> QED BY <1>1, <1>3 DEF a

(* The effect of decode_inst and convert_microop on the buffer.  The push *)
(* of the micro-operations drops none of them.                            *)
LEMMA Converted ==
    ASSUME trace_buffer \in Seq(Inst(Codes)), trace_buffer # <<>>, Shape(trace_buffer),
           num_fetched_insts \in Nat
    PROVE  /\ converted_buffer \in Seq(Inst(Codes))
           /\ converted_buffer # <<>>
           /\ Shape(converted_buffer)
           /\ converted_fetched \in Nat
           /\ Len(converted_buffer) - Len(trace_buffer) = converted_fetched - num_fetched_insts
           /\ Head(converted_buffer) \in Inst(Codes)
           /\ Head(converted_buffer).type \in PipelineType \cup {"Unsupported"}
<1> DEFINE h == Head(trace_buffer)
           d == decoded_front
           rest == Tail(trace_buffer)
<1>1. /\ h = trace_buffer[1] /\ h \in Inst(Codes)
      /\ Len(trace_buffer) \in Nat /\ 1 \in 1 .. Len(trace_buffer)
  <2>1. Len(trace_buffer) \in Nat \ {0}
    BY EmptySeq
  <2> QED BY <2>1, HeadTailProperties
<1>2. rest \in Seq(Inst(Codes)) /\ Shape(rest) /\ Len(rest) = Len(trace_buffer) - 1
  BY TailShape, SMTT(30)
<1>3. /\ d \in Inst(Codes) /\ d.decoded /\ d.code = h.code /\ d.eff_addr = h.eff_addr
      /\ h.decoded => d = h
  BY <1>1, DecodeType DEF decoded_front
<1>4. Len(d.eff_addr) \in Nat
  BY <1>3, LenProperties, ZenonT(60) DEF Inst
<1> HIDE DEF h, d, rest
<1>5. CASE is_split
  <2>1. ~h.decoded
    BY <1>1, <1>3, <1>5 DEF is_split, Shape, d, PipelineType
  <2>2. Len(d.eff_addr) <= NumAccesses(d.code) /\ Len(trace_buffer) <= SampleLength
    BY <1>1, <1>3, <2>1, BoundAssumption, SMTT(30) DEF Shape
  <2>3. d.code \in Codes
    BY <1>3, ZenonT(60) DEF Inst
  <2> DEFINE ops == microops(d)
  <2>4. /\ ops \in Seq(Inst(Codes)) /\ Len(ops) = Len(d.eff_addr) + 1
        /\ \A i \in 1 .. Len(ops) : ops[i].decoded /\ ops[i].type \in PipelineType
    BY <1>3, MicroopsType
  <2> HIDE DEF ops
  <2>5. Len(rest) + Len(ops) <= TraceCapacity
    <3>1. /\ SampleLength + NumAccesses(d.code) <= TraceCapacity /\ NumAccesses(d.code) \in Nat
          /\ SampleLength \in Nat /\ TraceCapacity \in Nat
      BY <2>3, BoundAssumption, CapacityAssumption, NumAccessesType, ZenonT(60)
    <3>2. Len(rest) = Len(trace_buffer) - 1 /\ Len(ops) = Len(d.eff_addr) + 1
      BY <1>2, <2>4
    <3> QED BY <1>1, <1>4, <2>2, <3>1, <3>2
  <2>6. converted_buffer = ops \o rest
    <3>1. push_front_insts(rest, TraceCapacity, ops) = ops \o rest
      BY <1>2, <2>4, <2>5, PushFrontFits, CapacityAssumption, ZenonT(60)
    <3> QED BY <1>5, <3>1 DEF converted_buffer, ops, d, rest
  <2>7. converted_fetched = num_fetched_insts + Len(d.eff_addr)
    BY <1>5 DEF converted_fetched, d
  <2>8. ops # <<>>
    BY <2>4, <1>4
  <2>9. /\ ops \o rest \in Seq(Inst(Codes)) /\ ops \o rest # <<>>
        /\ Shape(ops \o rest) /\ Len(ops \o rest) = Len(ops) + Len(rest)
        /\ Head(ops \o rest) \in Inst(Codes)
        /\ Head(ops \o rest).type \in PipelineType \cup {"Unsupported"}
    BY <1>2, <2>4, <2>8, PrependShape, ZenonT(60)
  <2>10. /\ converted_fetched \in Nat
         /\ Len(ops \o rest) - Len(trace_buffer) = converted_fetched - num_fetched_insts
    BY <1>1, <1>2, <1>4, <2>4, <2>7, <2>9
  <2> QED BY <2>6, <2>9, <2>10
<1>6. CASE ~is_split
  <2>1. converted_buffer = <<d>> \o rest
    BY <1>6 DEF converted_buffer, d, rest
  <2>2. converted_fetched = num_fetched_insts
    BY <1>6 DEF converted_fetched
  <2>3. d.type \in PipelineType \cup {"Unsupported"}
    BY <1>3, <1>6 DEF is_split, d, Inst, InstTypeName
  <2>4. /\ <<d>> \in Seq(Inst(Codes)) /\ <<d>> # <<>> /\ Len(<<d>>) = 1
        /\ \A i \in 1 .. Len(<<d>>) : <<d>>[i] = d
    BY <1>3
  <2>5. /\ <<d>> \o rest \in Seq(Inst(Codes)) /\ <<d>> \o rest # <<>>
        /\ Shape(<<d>> \o rest) /\ Len(<<d>> \o rest) = 1 + Len(rest)
        /\ Head(<<d>> \o rest) \in Inst(Codes)
        /\ Head(<<d>> \o rest).type \in PipelineType \cup {"Unsupported"}
    BY <1>2, <1>3, <2>3, <2>4, PrependShape, ZenonT(60)
  <2> QED BY <1>1, <1>2, <2>1, <2>2, <2>5
<1> QED BY <1>5, <1>6

-----------------------------------------------------------------------------
(***************************************************************************)
(* The inductive invariant.  QueuesMirrorRob is not inductive by itself:   *)
(* it needs the geometry of the ring (a dispatched instruction takes a     *)
(* free slot), the states and types of the instructions in flight (what    *)
(* commits is in no queue but LDQ or STQ), and the shape of the buffer     *)
(* (what is dispatched has been split).                                    *)
(***************************************************************************)
LiveInsts == \A s \in Live : /\ entries[s].state \in {"Dispatch", "Issue", "Complete"}
                             /\ entries[s].type \in PipelineType

IInv == /\ TypeOK
        /\ Ring
        /\ QueuesMirrorRob
        /\ LiveInsts
        /\ Shape(trace_buffer)
        /\ CountsBalance
        /\ stage = "fill" => rob_size = 0

(* An instruction in flight is allocated. *)
LEMMA LiveEntry ==
    ASSUME IInv, NEW s \in Live
    PROVE  s \in Slot /\ entries[s] \in Inst(Codes)
  BY DEF IInv, TypeOK, QueuesMirrorRob, Live

Flying(x) == x.state = "Issue" \/ (x.state = "Complete" /\ x.remaining_latency > 0)

(* A stage that changes one instruction in flight and keeps its type. *)
LEMMA UpdateEntry ==
    ASSUME IInv, NEW s \in Live, NEW x \in Inst(Codes), x.type = entries[s].type,
           entries' = [entries EXCEPT ![s] = x],
           UNCHANGED <<start_idx, rob_size>>
    PROVE  /\ Live' = Live
           /\ entries' \in [Slot -> Inst(Codes) \cup {NoInst}]
           /\ \A t \in Slot : t \in Live' <=> entries'[t] # NoInst
           /\ OfType("MemRead")' = OfType("MemRead")
           /\ OfType("MemWrite")' = OfType("MemWrite")
           /\ InState({"Dispatch"})' = IF x.state = "Dispatch"
                                       THEN InState({"Dispatch"}) \cup {s}
                                       ELSE InState({"Dispatch"}) \ {s}
           /\ InFlight' = IF Flying(x) THEN InFlight \cup {s} ELSE InFlight \ {s}
           /\ x.state \in {"Dispatch", "Issue", "Complete"} => LiveInsts'
<1>1. Live' = Live
  BY DEF Live
<1>2. s \in Slot /\ entries \in [Slot -> Inst(Codes) \cup {NoInst}] /\ Live \subseteq Slot
      /\ \A t \in Slot : t \in Live <=> entries[t] # NoInst
  BY DEF IInv, TypeOK, QueuesMirrorRob, Live
<1>3. x # NoInst
  BY ProgramAssumption
<1>4. entries' \in [Slot -> Inst(Codes) \cup {NoInst}]
  BY <1>2
<1>5. \A t \in Slot : entries'[t] = IF t = s THEN x ELSE entries[t]
  BY <1>2
<1>6. \A t \in Slot : t \in Live' <=> entries'[t] # NoInst
  BY <1>1, <1>2, <1>3, <1>5
<1>7. /\ OfType("MemRead")' = OfType("MemRead")
      /\ OfType("MemWrite")' = OfType("MemWrite")
  BY <1>1, <1>2, <1>5 DEF OfType
<1>8. InState({"Dispatch"})' = IF x.state = "Dispatch"
                              THEN InState({"Dispatch"}) \cup {s}
                              ELSE InState({"Dispatch"}) \ {s}
  BY <1>1, <1>2, <1>5 DEF InState
<1>9. InFlight' = IF Flying(x) THEN InFlight \cup {s} ELSE InFlight \ {s}
  BY <1>1, <1>2, <1>5 DEF InFlight, Flying
<1>10. x.state \in {"Dispatch", "Issue", "Complete"} => LiveInsts'
  BY <1>1, <1>2, <1>5 DEF LiveInsts, IInv
<1> QED BY <1>1, <1>4, <1>6, <1>7, <1>8, <1>9, <1>10

(* An instruction of FUBuffer is in flight. *)
LEMMA BufferedEntry ==
    ASSUME IInv, pos \in DOMAIN FUBuffer
    PROVE  /\ FUBuffer[pos] \in Live /\ FUBuffer[pos] \in Slot /\ FUBuffer[pos] \in InFlight
           /\ entries[FUBuffer[pos]] \in Inst(Codes) /\ Flying(entries[FUBuffer[pos]])
           /\ entries[FUBuffer[pos]].type \in PipelineType
<1>1. FUBuffer[pos] \in InFlight
  BY DEF IInv, QueuesMirrorRob, Elems
<1>2. FUBuffer[pos] \in Live /\ Flying(entries[FUBuffer[pos]])
  BY <1>1 DEF InFlight, Flying
<1> QED BY <1>1, <1>2, LiveEntry, SMTT(30) DEF IInv, LiveInsts

(* execute_inst counts down and, at the last cycle, sets a latency above 0. *)
LEMMA ExecutedInst ==
    ASSUME NEW inst \in Inst(Codes), inst.state = "Issue"
    PROVE  /\ executed_inst(inst) \in Inst(Codes)
           /\ executed_inst(inst).type = inst.type
           /\ executed_inst(inst).state \in {"Issue", "Complete"}
           /\ Flying(executed_inst(inst))
<1>1. writeback_latency(inst) \in Nat /\ writeback_latency(inst) > 0
  BY ConfigAssumption DEF writeback_latency, default_wb_latency, Inst
<1>2. CASE inst.remaining_latency - 1 <= 0
  <2>1. executed_inst(inst) = [inst EXCEPT !.state = "Complete",
                                           !.remaining_latency = writeback_latency(inst)]
    BY <1>2 DEF executed_inst
  <2> QED BY <1>1, <2>1, ZenonT(60) DEF Inst, Flying, State
<1>3. CASE ~(inst.remaining_latency - 1 <= 0)
  <2>1. executed_inst(inst) = [inst EXCEPT !.remaining_latency = inst.remaining_latency - 1]
    BY <1>3 DEF executed_inst
  <2>2. inst.remaining_latency - 1 \in Nat
    BY <1>3, SMTT(30) DEF Inst
  <2> QED BY <2>1, <2>2, ZenonT(60) DEF Inst, Flying, State
<1> QED BY <1>2, <1>3

(* Every type that the pipeline executes has a functional unit. *)
LEMMA FUMapType ==
    \A t \in PipelineType : inst_type_fu_type_map[t] \in FUType /\ latency[t] \in Nat \ {0}
  BY DEF PipelineType, inst_type_fu_type_map, FUType, latency

(* The penalty of a branch is a number. *)
LEMMA PenaltyType ==
    ASSUME IInv, NEW inst \in Inst(Codes)
    PROVE  mispred_penalty(inst) \in Int
  BY SMTT(30) DEF IInv, TypeOK, Inst, mispred_penalty, front_pipeline_depth, max_penalty

(* What the buffer and the counters are after an instruction left it. *)
LEMMA DispatchedBuffer ==
    ASSUME IInv, can_dispatch
    PROVE  /\ Tail(converted_buffer) \in Seq(Inst(Codes))
           /\ Shape(Tail(converted_buffer))
           /\ converted_fetched \in Nat
           /\ num_dispatched_insts + 1 + Len(Tail(converted_buffer)) = converted_fetched
           /\ Head(converted_buffer) \in Inst(Codes)
           /\ Head(converted_buffer).type \in PipelineType \cup {"Unsupported"}
<1>1. /\ trace_buffer \in Seq(Inst(Codes)) /\ trace_buffer # <<>> /\ Shape(trace_buffer)
      /\ num_fetched_insts \in Nat /\ num_dispatched_insts \in Nat
      /\ num_dispatched_insts + Len(trace_buffer) = num_fetched_insts
  BY DEF IInv, TypeOK, can_dispatch, CountsBalance
<1>2. /\ converted_buffer \in Seq(Inst(Codes)) /\ converted_buffer # <<>>
      /\ Shape(converted_buffer) /\ converted_fetched \in Nat
      /\ Len(converted_buffer) - Len(trace_buffer) = converted_fetched - num_fetched_insts
      /\ Head(converted_buffer) \in Inst(Codes)
      /\ Head(converted_buffer).type \in PipelineType \cup {"Unsupported"}
  BY <1>1, Converted
<1>3. /\ Tail(converted_buffer) \in Seq(Inst(Codes)) /\ Shape(Tail(converted_buffer))
      /\ Len(Tail(converted_buffer)) = Len(converted_buffer) - 1
  BY <1>2, TailShape
<1>4. Len(converted_buffer) \in Nat /\ Len(trace_buffer) \in Nat
  BY <1>1, <1>2, LenProperties
<1> QED BY <1>1, <1>2, <1>3, <1>4

(* The accesses of an instruction, with the ones that were found set to 0. *)
LEMMA ClearedAddrs ==
    ASSUME NEW a \in Seq(Nat), NEW found
    PROVE  [i \in DOMAIN a |-> IF i \in found THEN 0 ELSE a[i]] \in Seq(Nat)
<1>1. DOMAIN a = 1 .. Len(a) /\ Len(a) \in Nat /\ \A i \in 1 .. Len(a) : a[i] \in Nat
  BY LenProperties, SMTT(30)
<1> QED BY <1>1

(* A push on a queue that has room. *)
LEMMA PushBackFree ==
    ASSUME NEW q \in Seq(Slot), NEW c, NEW e \in Slot, ~is_full_queue(q, c)
    PROVE  /\ push_back_inst(q, c, e) \in Seq(Slot)
           /\ Elems(push_back_inst(q, c, e)) = Elems(q) \cup {e}
           /\ NoDuplicates(q) /\ e \notin Elems(q) => NoDuplicates(push_back_inst(q, c, e))
  BY PushBack DEF push_back_inst

=============================================================================
