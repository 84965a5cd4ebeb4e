------------------------------ MODULE MCBiMode ------------------------------
(* A few branches for TLC. *)
EXTENDS BiMode

(* Two choice counters; 4 and 12 share one, conditional and not. *)
Conditionals == {4, 8}
Unconditionals == {12}

=============================================================================
