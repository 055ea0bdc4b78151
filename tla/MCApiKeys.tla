------------------------------ MODULE MCApiKeys ------------------------------
(***************************************************************************)
(* Instances of ApiKeys for TLC.                                           *)
(***************************************************************************)
EXTENDS ApiKeys, TLC

\* Requests and callers are interchangeable, and so are the keys Unkey hands out.
KeySymmetry == Permutations(KeyIds) \cup Permutations(Handlers)
=============================================================================
