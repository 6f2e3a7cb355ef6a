------------------------------ MODULE MCBuffers ------------------------------
(* Buffers for TLC.                                                          *)
EXTENDS Buffers, TLC

MCInitials == {<<"a">>}
MCSizes    == {1}
Symmetry   == Permutations(Holders)
=============================================================================
