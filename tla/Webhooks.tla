------------------------------ MODULE Webhooks ------------------------------
(* Webhook registrations (internal/api/handlers/webhooks.go): concurrent     *)
(* transactions that count a key's webhooks and insert one under an advisory *)
(* lock, next to deletions and rollbacks. The fan-out of a price change to   *)
(* the registered webhooks is not modelled: no binary of this commit gives   *)
(* the reconciler the asynq client it takes; see the README.                 *)
EXTENDS Naturals, FiniteSets

CONSTANTS
  Keys,          \* API keys
  Requests,      \* concurrent POST /v1/webhooks handlers
  Hooks,         \* webhook ids
  MaxPerKey,     \* maxWebhooksPerKey (5)
  MaxFaults,     \* bound: failed calls and crashes
  None

ASSUME WebhooksAssumption ==
  /\ IsFiniteSet(Hooks)
  /\ None \notin Keys \cup Requests \cup Hooks
  /\ MaxPerKey \in Nat

VARIABLES
  owner,     \* committed rows: hook -> API key, or None
  deleted,   \* rows with deleted_at set
  request,   \* the transactions of the handlers
  lock,      \* pg_advisory_xact_lock per key
  faults

vars == <<owner, deleted, request, lock, faults>>

IdleRequest == [pc |-> "idle", key |-> None, hook |-> None]

ActiveOf(k) == {h \in Hooks : owner[h] = k /\ h \notin deleted}

-----------------------------------------------------------------------------
(* Registration.                                                             *)

\* Mutant: the transaction goes straight to its INSERT.
BeginUnlocked(r) ==
  /\ request[r].pc = "idle"
  /\ \E k \in Keys : request' = [request EXCEPT ![r] = [pc |-> "locked", key |-> k, hook |-> None]]
  /\ UNCHANGED <<owner, deleted, lock, faults>>

\* A valid https URL, a fresh secret, and the transaction with its lock.
LockKey(r) ==
  /\ request[r].pc = "idle"
  /\ \E k \in Keys :
       /\ lock[k] = None
       /\ lock' = [lock EXCEPT ![k] = r]
       /\ request' = [request EXCEPT ![r] = [pc |-> "locked", key |-> k, hook |-> None]]
  /\ UNCHANGED <<owner, deleted, faults>>

\* The INSERT counts the committed rows; it inserts a row or answers 409.
Insert(r) ==
  /\ request[r].pc = "locked"
  /\ LET k == request[r].key
         used == {request[q].hook : q \in Requests}
     IN IF Cardinality(ActiveOf(k)) < MaxPerKey
        THEN /\ \E h \in Hooks : /\ owner[h] = None
                                 /\ h \notin used
                                 /\ request' = [request EXCEPT ![r].pc = "inserted", ![r].hook = h]
             /\ UNCHANGED lock
        ELSE /\ request' = [request EXCEPT ![r] = IdleRequest]
             /\ lock' = [lock EXCEPT ![k] = IF @ = r THEN None ELSE @]
  /\ UNCHANGED <<owner, deleted, faults>>

CommitHook(r) ==
  /\ request[r].pc = "inserted"
  /\ owner' = [owner EXCEPT ![request[r].hook] = request[r].key]
  /\ request' = [request EXCEPT ![r] = IdleRequest]
  /\ lock' = [lock EXCEPT ![request[r].key] = IF @ = r THEN None ELSE @]
  /\ UNCHANGED <<deleted, faults>>

\* The connection or the process fails; the transaction rolls back.
Rollback(r) ==
  /\ request[r].pc # "idle"
  /\ faults < MaxFaults
  /\ faults' = faults + 1
  /\ request' = [request EXCEPT ![r] = IdleRequest]
  /\ lock' = [lock EXCEPT ![request[r].key] = IF @ = r THEN None ELSE @]
  /\ UNCHANGED <<owner, deleted>>

\* DELETE /v1/webhooks/:id, scoped to the calling key.
DeleteWebhook(k, h) ==
  /\ h \in ActiveOf(k)
  /\ deleted' = deleted \cup {h}
  /\ UNCHANGED <<owner, request, lock, faults>>

-----------------------------------------------------------------------------
Init ==
  /\ owner = [h \in Hooks |-> None]
  /\ deleted = {}
  /\ request = [r \in Requests |-> IdleRequest]
  /\ lock = [k \in Keys |-> None]
  /\ faults = 0

Next ==
  \/ \E r \in Requests : LockKey(r) \/ Insert(r) \/ CommitHook(r) \/ Rollback(r)
  \/ \E k \in Keys, h \in Hooks : DeleteWebhook(k, h)

Spec == Init /\ [][Next]_vars

-----------------------------------------------------------------------------
(* Properties.                                                               *)

(* Registrations that count and insert at the same time, next to deletions   *)
(* and rollbacks, never give a key more than its cap of active webhooks.     *)
WebhookCapHolds == \A k \in Keys : Cardinality(ActiveOf(k)) <= MaxPerKey

\* The types of what registration works on.
TypeOK ==
  /\ owner \in [Hooks -> Keys \cup {None}]
  /\ deleted \subseteq Hooks
  /\ request \in [Requests -> [pc : {"idle", "locked", "inserted"},
                              key : Keys \cup {None}, hook : Hooks \cup {None}]]
  /\ lock \in [Keys -> Requests \cup {None}]

\* A transaction that is open holds the lock of its key.
OpenHoldsLock ==
  \A r \in Requests : request[r].pc # "idle" =>
    request[r].key \in Keys /\ lock[request[r].key] = r

\* The room that an insert found is still there when it commits.
RoomIsKept ==
  \A r \in Requests : request[r].pc = "inserted" =>
    /\ request[r].hook \in Hooks
    /\ Cardinality(ActiveOf(request[r].key)) < MaxPerKey

(* What makes the cap inductive: the count of an INSERT is of committed rows *)
(* only, so it is the lock that keeps it true until the commit.              *)
CapInv == TypeOK /\ OpenHoldsLock /\ RoomIsKept /\ WebhookCapHolds
=============================================================================
