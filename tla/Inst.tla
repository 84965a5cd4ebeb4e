-------------------------------- MODULE Inst --------------------------------
(***************************************************************************)
(* The instruction record of inst.h and the operators of inst.c.  A code   *)
(* is what the disassembler returns for an instruction word: the mnemonic  *)
(* up to the case groups of decode_inst, the register fields, whether the  *)
(* instruction is conditional and whether it sets the flags.               *)
(***************************************************************************)
EXTENDS Integers, Sequences

R_INVLD == -1
SP == 13
PC == 15
CondFlags == 17

Regs == 0 .. PC

(* The types that the pipeline executes, and the ones decoding can return. *)
PipelineType == {"IntAlu", "IntMult", "IntDiv", "SimdFloatAdd",
                 "SimdFloatMult", "SimdFloatMultAcc", "MemRead", "MemWrite",
                 "Branch", "Syscall"}
InstTypeName == PipelineType \cup {"Pop", "Push", "Unsupported"}

(* The switch of decode_inst: the type of each group of mnemonics. *)
DecodedType ==
    [ALU  |-> "IntAlu",       SHIFT |-> "IntAlu",        CMP  |-> "Branch",
     MUL  |-> "IntMult",      DIV   |-> "IntDiv",        VADD |-> "SimdFloatAdd",
     VMUL |-> "SimdFloatMult", VMLA |-> "SimdFloatMultAcc",
     LD   |-> "MemRead",      ST    |-> "MemWrite",
     POP  |-> "Pop",          PUSH  |-> "Push",
     B    |-> "Branch",       SVC   |-> "Syscall",       UNDEF |-> "Unsupported"]

Code == [instr : DOMAIN DecodedType, Rt : Regs \cup {R_INVLD},
         Rn : Regs \cup {R_INVLD}, Rd : Regs \cup {R_INVLD},
         Rm : Regs \cup {R_INVLD}, reglist : Seq(Regs),
         cond : BOOLEAN, S : BOOLEAN]

State == {"Ready", "Dispatch", "Issue", "Complete"}

Inst(Codes) ==
    [code : Codes, decoded : BOOLEAN, type : InstTypeName, state : State,
     src_reg : Seq(Int), dst_reg : Seq(Int), eff_addr : Seq(Nat),
     cache_miss : BOOLEAN, bpred_mispred : BOOLEAN,
     remaining_latency : Nat, dispatched_cycle : Nat]

init_inst(code) ==
    [code |-> code, decoded |-> FALSE, type |-> "IntAlu", state |-> "Ready",
     src_reg |-> <<>>, dst_reg |-> <<>>, eff_addr |-> <<>>,
     cache_miss |-> FALSE, bpred_mispred |-> FALSE,
     remaining_latency |-> 0, dispatched_cycle |-> 0]

set_inst_bpred_mispred(inst, mispred) == [inst EXCEPT !.bpred_mispred = mispred]

Reg(r) == IF r = R_INVLD THEN <<>> ELSE <<r>>

src_regs(code, type) ==
    (CASE type \in {"MemRead", "Pop"}   -> Reg(code.Rn)
       [] type \in {"MemWrite", "Push"} -> Reg(code.Rt) \o Reg(code.Rn) \o code.reglist
       [] OTHER                         -> Reg(code.Rm) \o Reg(code.Rn) \o code.reglist)
    \o (IF code.cond THEN <<CondFlags>> ELSE <<>>)

dst_regs(code, type) ==
    (CASE type \in {"MemRead", "Pop"}   -> Reg(code.Rt) \o code.reglist
       [] type \in {"MemWrite", "Push"} -> <<>>
       [] OTHER                         -> Reg(code.Rd))
    \o (IF code.S \/ code.instr = "CMP" THEN <<CondFlags>> ELSE <<>>)

(* An unsupported instruction keeps the empty register lists of init_inst. *)
decode_inst(inst) ==
    LET type == DecodedType[inst.code.instr]
    IN  IF inst.decoded THEN inst
        ELSE [inst EXCEPT
                !.decoded = TRUE,
                !.type    = type,
                !.src_reg = IF type = "Unsupported" THEN @
                            ELSE src_regs(inst.code, type),
                !.dst_reg = IF type = "Unsupported" THEN @
                            ELSE dst_regs(inst.code, type)]

=============================================================================
