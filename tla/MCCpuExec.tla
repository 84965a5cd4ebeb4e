----------------------------- MODULE MCCpuExec -----------------------------
(* Three block addresses on two pages: a and b, in page 0, jump to          *)
(* themselves and to each other; s starts in page 0 and runs into page 1.   *)
EXTENDS CpuExec

MCPages == 0 .. 1
MCPCs == {"a", "b", "s"}
MCPagesOf == [x \in MCPCs |-> IF x = "s" THEN <<0, 1>> ELSE <<0>>]
MCPhysHash == [x \in MCPCs |-> IF x = "a" THEN 0 ELSE 1]
MCJmpCacheHash == [x \in MCPCs |-> 0]
\* Which exit goes where depends on the code.
MCDest ==
    [x \in MCPCs |->
        [code \in {<<0>>, <<1>>} \cup {<<u, v>> : u, v \in {0, 1}} |->
            [n \in 0 .. 1 |->
                IF n = code[1] THEN "a" ELSE IF x = "b" THEN "s" ELSE "b"]]]
=============================================================================
