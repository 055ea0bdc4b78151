--------------------------- MODULE WebhookProofs ---------------------------
(***************************************************************************)
(* The cap on webhooks, for any number of keys, requests and faults.       *)
(* ActiveOf counts committed rows; the advisory lock carries the count     *)
(* from the INSERT to the COMMIT.                                          *)
(***************************************************************************)
EXTENDS Webhooks, FiniteSetTheorems, TLAPS

\* The webhooks of a key are finitely many.
LEMMA ActiveFinite ==
  ASSUME NEW k
  PROVE  IsFiniteSet(ActiveOf(k)) /\ Cardinality(ActiveOf(k)) \in Nat
  <1>1. ActiveOf(k) \subseteq Hooks
    BY DEF ActiveOf
  <1>2. IsFiniteSet(ActiveOf(k))
    BY <1>1, FS_Subset, WebhooksAssumption
  <1> QED
    BY <1>2, FS_CardinalityType

\* A stuttering step keeps the invariant.
LEMMA CapFrame ==
  ASSUME CapInv, UNCHANGED <<owner, deleted, request, lock>>
  PROVE  CapInv'
  <1>1. \A k : ActiveOf(k)' = ActiveOf(k)
    BY DEF ActiveOf
  <1> QED
    BY <1>1 DEF CapInv, TypeOK, OpenHoldsLock, RoomIsKept, WebhookCapHolds

\* Taking a lock that is free opens a transaction beside the others.
LEMMA LockKeepsCap ==
  ASSUME CapInv, NEW r \in Requests, LockKey(r)
  PROVE  CapInv'
  <1> USE DEF CapInv, TypeOK
  <1>1. PICK k \in Keys :
          /\ lock[k] = None
          /\ lock' = [lock EXCEPT ![k] = r]
          /\ request' = [request EXCEPT ![r] = [pc |-> "locked", key |-> k, hook |-> None]]
    BY DEF LockKey
  <1>2. owner' = owner /\ deleted' = deleted /\ \A j : ActiveOf(j)' = ActiveOf(j)
    BY DEF LockKey, ActiveOf
  <1>3. TypeOK'
    BY <1>1, <1>2
  <1>4. OpenHoldsLock'
    BY <1>1, WebhooksAssumption DEF OpenHoldsLock
  <1>5. RoomIsKept'
    BY <1>1, <1>2 DEF RoomIsKept
  <1>6. WebhookCapHolds'
    BY <1>2 DEF WebhookCapHolds
  <1> QED
    BY <1>3, <1>4, <1>5, <1>6

\* A transaction that ends gives up its own lock and nobody else's.
LEMMA EndKeepsCap ==
  ASSUME CapInv, NEW r \in Requests, request[r].pc # "idle",
         request' = [request EXCEPT ![r] = IdleRequest],
         lock' = [lock EXCEPT ![request[r].key] = IF @ = r THEN None ELSE @]
  PROVE  /\ request' \in [Requests -> [pc : {"idle", "locked", "inserted"},
                                       key : Keys \cup {None}, hook : Hooks \cup {None}]]
         /\ lock' \in [Keys -> Requests \cup {None}]
         /\ OpenHoldsLock'
         /\ \A q \in Requests : request'[q].pc # "idle" =>
              q # r /\ request'[q] = request[q] /\ request[q].key # request[r].key
  <1> USE DEF CapInv, TypeOK
  <1>1. request[r].key \in Keys /\ lock[request[r].key] = r
    BY DEF OpenHoldsLock
  <1>2. /\ request' \in [Requests -> [pc : {"idle", "locked", "inserted"},
                                      key : Keys \cup {None}, hook : Hooks \cup {None}]]
        /\ lock' \in [Keys -> Requests \cup {None}]
    BY DEF IdleRequest
  <1>3. ASSUME NEW q \in Requests, request'[q].pc # "idle"
        PROVE  q # r /\ request'[q] = request[q] /\ request[q].key # request[r].key
    BY <1>1, <1>3 DEF IdleRequest, OpenHoldsLock
  <1>4. OpenHoldsLock'
    BY <1>1, <1>3 DEF OpenHoldsLock
  <1> QED
    BY <1>2, <1>3, <1>4

\* The INSERT finds room, or the transaction ends with 409.
LEMMA InsertKeepsCap ==
  ASSUME CapInv, NEW r \in Requests, Insert(r)
  PROVE  CapInv'
  <1> USE DEF CapInv, TypeOK
  <1> DEFINE k == request[r].key
  <1>1. owner' = owner /\ deleted' = deleted /\ \A j : ActiveOf(j)' = ActiveOf(j)
    BY DEF Insert, ActiveOf
  <1>2. WebhookCapHolds'
    BY <1>1 DEF WebhookCapHolds
  <1>3. CASE Cardinality(ActiveOf(k)) < MaxPerKey
    <2>1. PICK h \in Hooks : request' = [request EXCEPT ![r].pc = "inserted", ![r].hook = h]
      BY <1>3 DEF Insert
    <2>2. lock' = lock
      BY <1>3 DEF Insert
    <2>3. TypeOK'
      BY <1>1, <2>1, <2>2
    <2>4. \A q \in Requests : request'[q].key = request[q].key
      BY <2>1
    <2>5. \A q \in Requests : request'[q].pc # "idle" => request[q].pc # "idle"
      BY <2>1 DEF Insert
    <2>6. OpenHoldsLock'
      BY <2>2, <2>4, <2>5 DEF OpenHoldsLock
    <2>7. RoomIsKept'
      BY <1>1, <1>3, <2>1, <2>4 DEF RoomIsKept
    <2> QED
      BY <1>2, <2>3, <2>6, <2>7
  <1>4. CASE ~ (Cardinality(ActiveOf(k)) < MaxPerKey)
    <2>1. /\ request[r].pc # "idle"
          /\ request' = [request EXCEPT ![r] = IdleRequest]
          /\ lock' = [lock EXCEPT ![request[r].key] = IF @ = r THEN None ELSE @]
      BY <1>4 DEF Insert
    <2>2. TypeOK' /\ OpenHoldsLock'
      BY <1>1, <2>1, EndKeepsCap
    <2>3. RoomIsKept'
      BY <1>1, <2>1, EndKeepsCap DEF RoomIsKept
    <2> QED
      BY <1>2, <2>2, <2>3
  <1> QED
    BY <1>3, <1>4

\* The row that commits fills the room its transaction found; no other open
\* transaction counted rows of that key.
LEMMA CommitKeepsCap ==
  ASSUME CapInv, NEW r \in Requests, CommitHook(r)
  PROVE  CapInv'
  <1> USE DEF CapInv, TypeOK
  <1>1. PICK k \in Keys, h \in Hooks :
          request[r].key = k /\ request[r].hook = h /\ Cardinality(ActiveOf(k)) < MaxPerKey
    BY DEF CommitHook, OpenHoldsLock, RoomIsKept
  <1>2. /\ request[r].pc # "idle" /\ deleted' = deleted
        /\ owner' = [owner EXCEPT ![h] = k]
        /\ request' = [request EXCEPT ![r] = IdleRequest]
        /\ lock' = [lock EXCEPT ![request[r].key] = IF @ = r THEN None ELSE @]
    BY <1>1 DEF CommitHook
  <1>3. TypeOK' /\ OpenHoldsLock'
    BY <1>1, <1>2, EndKeepsCap
  <1>4. ASSUME NEW j \in Keys, j # k
        PROVE  /\ Cardinality(ActiveOf(j)') <= Cardinality(ActiveOf(j))
               /\ Cardinality(ActiveOf(j)') \in Nat /\ Cardinality(ActiveOf(j)) \in Nat
    <2>1. ActiveOf(j)' \subseteq ActiveOf(j)
      BY <1>1, <1>2, <1>4 DEF ActiveOf
    <2> QED
      BY <2>1, ActiveFinite, FS_Subset, FS_CardinalityType
  <1>5. Cardinality(ActiveOf(k)') <= MaxPerKey
    <2>1. ActiveOf(k)' \subseteq ActiveOf(k) \cup {h}
      BY <1>1, <1>2 DEF ActiveOf
    <2>2. IsFiniteSet(ActiveOf(k)) /\ Cardinality(ActiveOf(k)) \in Nat
      BY ActiveFinite
    <2>3. /\ IsFiniteSet(ActiveOf(k) \cup {h})
          /\ \/ Cardinality(ActiveOf(k) \cup {h}) = Cardinality(ActiveOf(k))
             \/ Cardinality(ActiveOf(k) \cup {h}) = Cardinality(ActiveOf(k)) + 1
      BY <2>2, FS_AddElement
    <2>4. /\ Cardinality(ActiveOf(k)') <= Cardinality(ActiveOf(k) \cup {h})
          /\ Cardinality(ActiveOf(k)') \in Nat
      BY <2>1, <2>3, FS_Subset, FS_CardinalityType
    <2> QED
      BY <1>1, <2>2, <2>3, <2>4, WebhooksAssumption
  <1>6. RoomIsKept'
    <2> SUFFICES ASSUME NEW q \in Requests, request'[q].pc = "inserted"
                 PROVE  /\ request'[q].hook \in Hooks
                        /\ Cardinality(ActiveOf(request[q].key)') < MaxPerKey
      BY DEF RoomIsKept
    <2>1. request'[q] = request[q] /\ request[q].key # k
      BY <1>1, <1>2, EndKeepsCap
    <2>2. PICK j \in Keys : /\ request[q].key = j /\ request[q].hook \in Hooks
                            /\ Cardinality(ActiveOf(j)) < MaxPerKey
      BY <2>1 DEF OpenHoldsLock, RoomIsKept
    <2>3. Cardinality(ActiveOf(j)') < MaxPerKey
      BY <1>4, <2>1, <2>2, WebhooksAssumption
    <2>4. ActiveOf(request[q].key)' = ActiveOf(j)'
      BY <2>1, <2>2 DEF ActiveOf
    <2> QED
      BY <2>1, <2>2, <2>3, <2>4
  <1>7. WebhookCapHolds'
    BY <1>4, <1>5, WebhooksAssumption DEF WebhookCapHolds
  <1> QED
    BY <1>3, <1>6, <1>7

\* A deletion only makes room.
LEMMA DeleteKeepsCap ==
  ASSUME CapInv, NEW k \in Keys, NEW h \in Hooks, DeleteWebhook(k, h)
  PROVE  CapInv'
  <1> USE DEF CapInv, TypeOK
  <1>1. owner' = owner /\ request' = request /\ lock' = lock /\ deleted' = deleted \cup {h}
    BY DEF DeleteWebhook
  <1>2. \A j \in Keys : ActiveOf(j)' \subseteq ActiveOf(j)
    BY <1>1 DEF ActiveOf
  <1>3. \A j \in Keys : /\ Cardinality(ActiveOf(j)') <= Cardinality(ActiveOf(j))
                        /\ Cardinality(ActiveOf(j)) \in Nat /\ Cardinality(ActiveOf(j)') \in Nat
    BY <1>2, ActiveFinite, FS_Subset, FS_CardinalityType
  <1>4. TypeOK' /\ OpenHoldsLock'
    BY <1>1 DEF OpenHoldsLock
  <1>5. RoomIsKept'
    BY <1>1, <1>3, WebhooksAssumption DEF RoomIsKept, OpenHoldsLock
  <1>6. WebhookCapHolds'
    BY <1>3, WebhooksAssumption DEF WebhookCapHolds
  <1> QED
    BY <1>4, <1>5, <1>6

\* A transaction that fails leaves the rows as they are.
LEMMA RollbackKeepsCap ==
  ASSUME CapInv, NEW r \in Requests, Rollback(r)
  PROVE  CapInv'
  <1> USE DEF CapInv, TypeOK
  <1>1. /\ request[r].pc # "idle" /\ owner' = owner /\ deleted' = deleted
        /\ request' = [request EXCEPT ![r] = IdleRequest]
        /\ lock' = [lock EXCEPT ![request[r].key] = IF @ = r THEN None ELSE @]
    BY DEF Rollback
  <1>2. \A j : ActiveOf(j)' = ActiveOf(j)
    BY <1>1 DEF ActiveOf
  <1>3. TypeOK' /\ OpenHoldsLock'
    BY <1>1, EndKeepsCap
  <1>4. RoomIsKept'
    BY <1>1, <1>2, EndKeepsCap DEF RoomIsKept
  <1>5. WebhookCapHolds'
    BY <1>2 DEF WebhookCapHolds
  <1> QED
    BY <1>3, <1>4, <1>5

\* No registration, deletion or rollback breaks CapInv.
THEOREM CapStep == CapInv /\ [Next]_vars => CapInv'
  <1> SUFFICES ASSUME CapInv, [Next]_vars PROVE CapInv'
    OBVIOUS
  <1>1. CASE \E r \in Requests : LockKey(r) \/ Insert(r) \/ CommitHook(r) \/ Rollback(r)
    BY <1>1, LockKeepsCap, InsertKeepsCap, CommitKeepsCap, RollbackKeepsCap
  <1>2. CASE \E k \in Keys, h \in Hooks : DeleteWebhook(k, h)
    BY <1>2, DeleteKeepsCap
  <1>3. CASE UNCHANGED vars
    BY <1>3, CapFrame DEF vars
  <1> QED
    BY <1>1, <1>2, <1>3 DEF Next

\* CreateWebhook: however registrations of any number of keys interleave with
\* each other, with deletions and with rollbacks, no key exceeds its cap.
THEOREM CapSafe == Spec => []WebhookCapHolds
  <1>1. Init => CapInv
    <2> SUFFICES ASSUME Init PROVE CapInv
      OBVIOUS
    <2>1. \A k \in Keys : ActiveOf(k) = {}
      BY WebhooksAssumption DEF Init, ActiveOf
    <2>2. WebhookCapHolds
      BY <2>1, FS_EmptySet, WebhooksAssumption DEF WebhookCapHolds
    <2>3. TypeOK /\ OpenHoldsLock /\ RoomIsKept
      BY DEF Init, IdleRequest, TypeOK, OpenHoldsLock, RoomIsKept
    <2> QED
      BY <2>2, <2>3 DEF CapInv
  <1>2. CapInv => WebhookCapHolds
    BY DEF CapInv
  <1> QED
    BY <1>1, <1>2, CapStep, PTL DEF Spec
=============================================================================
