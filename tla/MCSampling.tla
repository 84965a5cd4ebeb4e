----------------------------- MODULE MCSampling -----------------------------
(* A short guest program and the result of its analyses. *)
EXTENDS Sampling

OneCycle == {1}
ShortEqualLong == {2, 3, 4}
=============================================================================
