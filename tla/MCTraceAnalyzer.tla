-------------------------- MODULE MCTraceAnalyzer --------------------------
(* Small programs and cores for the trace analyzer. *)
EXTENDS TraceAnalyzerLinks

code(instr, Rt, Rn, Rd, Rm, reglist, cond, S) ==
    [instr |-> instr, Rt |-> Rt, Rn |-> Rn, Rd |-> Rd, Rm |-> Rm,
     reglist |-> reglist, cond |-> cond, S |-> S]

add   == code("ALU", -1, 2, 1, -1, <<>>, FALSE, FALSE)
mul   == code("MUL", -1, 1, 2, 1, <<>>, FALSE, FALSE)
ldr   == code("LD", 1, 2, -1, -1, <<>>, FALSE, FALSE)
str   == code("ST", 1, 2, -1, -1, <<>>, FALSE, FALSE)
ldm   == code("LD", -1, 1, -1, -1, <<1, 2>>, FALSE, FALSE)
push  == code("PUSH", -1, 13, -1, -1, <<1, 2>>, FALSE, FALSE)
pop   == code("POP", -1, 13, -1, -1, <<1, 2>>, FALSE, FALSE)
cmp   == code("CMP", -1, 1, -1, 2, <<>>, FALSE, FALSE)
bne   == code("B", -1, -1, -1, -1, <<>>, TRUE, FALSE)
vld   == code("UNDEF", -1, -1, -1, -1, <<>>, FALSE, FALSE)

Arith == {add, mul, ldr, str}
Stack == {push, pop, bne, vld}
Mixed == {str, pop, bne, vld}
OneAddr == {1}
=============================================================================
