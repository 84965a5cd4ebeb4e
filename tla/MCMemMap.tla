------------------------------ MODULE MCMemMap ------------------------------
(* Instances of MemMap for TLC. *)
EXTENDS MemMap

(***************************************************************************)
(* Regions that touch, leave gaps, overlap or reach the top of an address  *)
(* space of 8; its last address is a system register.                      *)
(***************************************************************************)
SomeLayouts ==
    {l \in [Region -> [base : {0, 2, 5}, size : {2, 3}, type : {"VIRTUAL", "SHARED_C"}]] :
        l[1].type = "SHARED_C" /\ l[2].type = "VIRTUAL"}

LastAddress == {7}

(* The lines of the regions, and a comment or another line around them. *)
SomeFiles ==
    {<<"Memorymap", "comment", "Memorymap", "Memorymap", "other">>,
     <<"Memorymap", "other", "Memorymap", "Memorymap", "comment">>,
     <<"comment", "comment", "Memorymap", "Memorymap", "Memorymap">>}

=============================================================================
