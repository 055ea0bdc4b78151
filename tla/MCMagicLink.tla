---------------------------- MODULE MCMagicLink ----------------------------
(* Two users, one IP, two request-link calls and two verify calls at once. *)
EXTENDS MagicLink, TLC

Symmetry == Permutations(Tokens) \cup Permutations(Requests) \cup Permutations(Verifiers)
=============================================================================
