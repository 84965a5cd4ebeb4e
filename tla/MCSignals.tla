----------------------------- MODULE MCSignals -----------------------------
(* SIGSEGV, another standard signal and a real-time signal. *)
EXTENDS Signals

MCSaMask == [s \in 1 .. NSig |-> IF s = 3 THEN {2} ELSE {}]
MCMasks == {{1, 2}}
=============================================================================
