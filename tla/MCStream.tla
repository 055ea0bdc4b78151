------------------------------ MODULE MCStream ------------------------------
(* Two publishers, a client with up to two connections, a cap of one.      *)
EXTENDS EventStream, TLC

Symmetry == Permutations(Publishers) \cup Permutations(Conns)
=============================================================================
