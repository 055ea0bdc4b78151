----------------------------- MODULE MCWebhooks -----------------------------
(* Webhooks with the sets and bounds of its configuration.                   *)
EXTENDS Webhooks, TLC

Symmetric == Permutations(Hooks) \cup Permutations(Requests)

=============================================================================
