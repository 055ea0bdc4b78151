---------------------------- MODULE MCLifecycle ----------------------------
(* Lifecycle with the bounds of its configuration.                           *)
EXTENDS Lifecycle
=============================================================================
