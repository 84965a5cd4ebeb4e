----------------------------- MODULE MCHsimStub -----------------------------
(* Instances of HsimStub for TLC. *)
EXTENDS HsimStub

CONSTANTS s1, v1, u1

OneShared == {s1}
OneVirtual == {v1}
OneUnmapped == {u1}
None == {}
Bits == {0, 1}

=============================================================================
