------------------------------ MODULE ApiKeys ------------------------------
(***************************************************************************)
(* One API key per identity, kept in two places that share no transaction: *)
(* the keys live at Unkey, and api_keys_registry says whose they are. The  *)
(* issue-key and regenerate-key handlers change both in turn; the Auth     *)
(* middleware of every API request asks Unkey and caches the answer.       *)
(*                                                                         *)
(* Each database, Redis or Unkey call is a step, so the requests of one    *)
(* session, from two tabs or a double click, interleave.                   *)
(***************************************************************************)
EXTENDS Naturals, FiniteSets

CONSTANTS
  Identities,      \* holders of a signup session
  KeyIds,          \* provider key ids, in the supply of Unkey
  NoKey,
  Handlers,        \* goroutines that serve issue-key and regenerate-key
  Callers,         \* goroutines that serve authenticated API requests
  Cooldown,        \* RegenerateCooldown
  UnkeyTTL,        \* how long a verification is cached
  MaxDelay,        \* the longest time between Unkey's answer and its caching
  MaxClock, MaxFaults, MaxLost   \* bounds of a behaviour

ASSUME KeysAssumption ==
  /\ NoKey \notin KeyIds
  /\ {Cooldown, MaxDelay, MaxClock, MaxFaults, MaxLost} \subseteq Nat
  /\ UnkeyTTL \in Nat \ {0}
  /\ Identities # {}

VARIABLES
  registry,    \* api_keys_registry, by provider key id
  live,        \* the keys Unkey accepts
  cooldown,    \* Redis: when the regeneration cooldown of an identity ends
  pc, req,     \* per handler: control point and locals
  cache,       \* Redis: the cached verifications, by key
  auth,        \* per caller: the key it verifies, Unkey's answer and its time
  revealed,    \* keys whose plaintext was returned to their owner
  deadAt,      \* history variable: when a key was deleted at Unkey, or Never
  accepted,    \* history variable: the last time a key was accepted
  misread,     \* history variable: when a failed call was taken for a refusal, by key
  now, faults, lost

keyVars == <<registry, live, cooldown, pc, req, revealed, deadAt>>
authVars == <<cache, auth, accepted, misread>>
vars == <<keyVars, authVars, now, faults, lost>>

-----------------------------------------------------------------------------
Record == [owner : Identities, status : {"none", "active", "revoked"}]

Request == [owner : Identities, old : KeyIds \cup {NoKey}, new : KeyIds \cup {NoKey}]

Locations == {"idle", "lookup", "create", "insert", "undo", "retire"}

IdleRequest == [owner |-> CHOOSE i \in Identities : TRUE, old |-> NoKey, new |-> NoKey]

IdleCall == [key |-> NoKey, valid |-> FALSE, at |-> 0]

Never == MaxClock + 1

ActiveKeys(i) == {k \in KeyIds : registry[k].status = "active" /\ registry[k].owner = i}

\* A call that fails without an effect.
Fault == faults < MaxFaults /\ faults' = faults + 1 /\ UNCHANGED lost

\* A step of which n calls fail.
Failures(n) == faults + n <= MaxFaults /\ faults' = faults + n /\ UNCHANGED lost

\* A call that takes effect and whose answer is lost: a timeout, a dropped connection.
Lost == lost < MaxLost /\ lost' = lost + 1 /\ UNCHANGED faults

Works == UNCHANGED <<faults, lost>>

Goto(h, l) == pc' = [pc EXCEPT ![h] = l]

Answer(h) == Goto(h, "idle") /\ req' = [req EXCEPT ![h] = IdleRequest]

-----------------------------------------------------------------------------
(* issue-key. An identity that has a key gets its metadata: no step.        *)
StartIssue(h, i) ==
  /\ pc[h] = "idle"
  /\ ActiveKeys(i) = {}
  /\ req' = [req EXCEPT ![h].owner = i]
  /\ Goto(h, "create")
  /\ UNCHANGED <<registry, live, cooldown, revealed, deadAt, authVars, now, faults, lost>>

(* regenerate-key. The cooldown is taken first (SET NX), and fails open.    *)
StartRegenerate(h, i) ==
  /\ pc[h] = "idle"
  /\ \/ /\ cooldown[i] <= now
        /\ cooldown' = [cooldown EXCEPT ![i] = now + Cooldown]
        /\ Works
     \/ Fault /\ UNCHANGED cooldown
  /\ req' = [req EXCEPT ![h].owner = i]
  /\ Goto(h, "lookup")
  /\ UNCHANGED <<registry, live, revealed, deadAt, authVars, now>>

\* The key to replace: the active one, if any.
OldKey(i) == IF ActiveKeys(i) = {} THEN {NoKey} ELSE ActiveKeys(i)

\* Mutant: revoking the old key before there is a new one.
LookupAndRevoke(h) ==
  /\ pc[h] = "lookup"
  /\ \E k \in OldKey(req[h].owner) : /\ req' = [req EXCEPT ![h].old = k]
                                     /\ live' = live \ {k}
  /\ Goto(h, "create")
  /\ UNCHANGED <<registry, cooldown, revealed, deadAt, authVars, now, faults, lost>>

Lookup(h) ==
  /\ pc[h] = "lookup"
  /\ \/ /\ \E k \in OldKey(req[h].owner) : req' = [req EXCEPT ![h].old = k]
        /\ Goto(h, "create")
        /\ Works
     \/ Fault /\ Answer(h)
  /\ UNCHANGED <<registry, live, cooldown, revealed, deadAt, authVars, now>>

\* Unkey never hands out a key id twice.
Fresh(k) ==
  /\ registry[k].status = "none" /\ k \notin live /\ deadAt[k] = Never

CreateKey(h) ==
  /\ pc[h] = "create"
  /\ \/ /\ \E k \in KeyIds : /\ Fresh(k)
                             /\ live' = live \cup {k}
                             /\ req' = [req EXCEPT ![h].new = k]
        /\ Goto(h, "insert")
        /\ Works
     \/ Fault /\ Answer(h) /\ UNCHANGED live
     \/ /\ Lost /\ Answer(h)
        /\ \E k \in KeyIds : Fresh(k) /\ live' = live \cup {k}
  /\ UNCHANGED <<registry, cooldown, revealed, deadAt, authVars, now>>

\* Mutant: the registry without its partial unique index.
NoActiveIndex(r) == TRUE

\* One active key per identity, once the old one is revoked.
MayInsert(r) == ActiveKeys(r.owner) \subseteq {r.old}

\* InsertKey, or the transaction of RevokeAndInsertKey when there is an old key.
Registered(r) ==
  [k \in KeyIds |->
    IF k = r.new THEN [owner |-> r.owner, status |-> "active"]
    ELSE IF k = r.old /\ k \in ActiveKeys(r.owner) THEN [registry[k] EXCEPT !.status = "revoked"]
    ELSE registry[k]]

InsertKey(h) ==
  /\ pc[h] = "insert"
  /\ \/ /\ MayInsert(req[h])
        /\ registry' = Registered(req[h])
        /\ IF req[h].old = NoKey
             THEN revealed' = revealed \cup {req[h].new} /\ Answer(h)
             ELSE Goto(h, "retire") /\ UNCHANGED <<req, revealed>>
        /\ Works
     \/ /\ ~MayInsert(req[h]) /\ Works          \* ErrDuplicateActiveKey
        /\ Goto(h, "undo")
        /\ UNCHANGED <<registry, req, revealed>>
     \/ /\ Fault
        /\ Goto(h, "undo")
        /\ UNCHANGED <<registry, req, revealed>>
     \/ /\ MayInsert(req[h]) /\ Lost
        /\ registry' = Registered(req[h])
        /\ Goto(h, "undo")
        /\ UNCHANGED <<req, revealed>>
  /\ UNCHANGED <<live, cooldown, deadAt, authVars, now>>

\* keys.deleteKey, best effort.
RevokeKey(k) ==
  \/ /\ live' = live \ {k}
     /\ deadAt' = [deadAt EXCEPT ![k] = IF k \in live THEN now ELSE @]
     /\ Works
  \/ Fault /\ UNCHANGED <<live, deadAt>>

\* Mutant: a failed insert answered without the clean-up.
LeaveDangling(h) ==
  /\ pc[h] = "undo"
  /\ Answer(h)
  /\ UNCHANGED <<registry, live, cooldown, revealed, deadAt, authVars, now, faults, lost>>

\* Mutant: cleaning up the old key instead of the new one.
UndoOld(h) ==
  /\ pc[h] = "undo"
  /\ RevokeKey(IF req[h].old = NoKey THEN req[h].new ELSE req[h].old)
  /\ Answer(h)
  /\ UNCHANGED <<registry, cooldown, revealed, authVars, now>>

\* The new key could not be registered: revoke it and report the error.
UndoCreate(h) ==
  /\ pc[h] = "undo"
  /\ RevokeKey(req[h].new)
  /\ Answer(h)
  /\ UNCHANGED <<registry, cooldown, revealed, authVars, now>>

\* The registry has moved to the new key: revoke the old one, return the new one.
RetireOld(h) ==
  /\ pc[h] = "retire"
  /\ RevokeKey(req[h].old)
  /\ revealed' = revealed \cup {req[h].new}
  /\ Answer(h)
  /\ UNCHANGED <<registry, cooldown, authVars, now>>

-----------------------------------------------------------------------------
(* The Auth middleware. Only a key that was revealed is ever presented.     *)

Cached(k) == now < cache[k].until

\* Mutant: a hit that renews the entry.
CacheHitRenews(c, k) ==
  /\ auth[c] = IdleCall /\ k \in revealed /\ Cached(k)
  /\ cache' = [cache EXCEPT ![k].until = now + UnkeyTTL]
  /\ accepted' = [accepted EXCEPT ![k] = IF cache[k].valid THEN now ELSE @]
  /\ UNCHANGED <<keyVars, auth, misread, now, faults, lost>>

CacheHit(c, k) ==
  /\ auth[c] = IdleCall /\ k \in revealed /\ Cached(k)
  /\ accepted' = [accepted EXCEPT ![k] = IF cache[k].valid THEN now ELSE @]
  /\ UNCHANGED <<keyVars, cache, auth, misread, now, faults, lost>>

\* Unkey answers with what it holds at this moment.
Asked(c, k, v) == auth' = [auth EXCEPT ![c] = [key |-> k, valid |-> v, at |-> now]]

\* On a miss, or when Redis cannot be read, ask Unkey. A call that fails is
\* answered 401 and not cached if it fails visibly: no answer, no JSON, or an
\* "error" object in it. The HTTP status is not looked at, so any other failure
\* decodes as valid = false and is an answer like any other.
VerifyKey(c, k) ==
  LET unread == IF Cached(k) THEN 1 ELSE 0 IN      \* the GET of Redis that failed
  /\ auth[c] = IdleCall /\ k \in revealed
  /\ \/ Asked(c, k, k \in live) /\ Failures(unread) /\ UNCHANGED misread
     \/ Failures(unread + 1) /\ UNCHANGED <<auth, misread>>
     \/ /\ Failures(unread + 1)
        /\ Asked(c, k, FALSE)
        /\ misread' = [misread EXCEPT ![k] = @ \cup {now}]
  /\ UNCHANGED <<keyVars, cache, accepted, now>>

\* Cache Unkey's answer, best effort, and act on it.
CacheAnswer(c) ==
  LET a == auth[c] IN
  /\ a # IdleCall
  /\ \/ cache' = [cache EXCEPT ![a.key] = [valid |-> a.valid, until |-> now + UnkeyTTL]] /\ Works
     \/ Fault /\ UNCHANGED cache
  /\ accepted' = [accepted EXCEPT ![a.key] = IF a.valid THEN now ELSE @]
  /\ auth' = [auth EXCEPT ![c] = IdleCall]
  /\ UNCHANGED <<keyVars, misread, now>>

-----------------------------------------------------------------------------
Tick ==
  /\ now < MaxClock
  /\ \A c \in Callers : auth[c] # IdleCall => now < auth[c].at + MaxDelay
  /\ now' = now + 1
  /\ UNCHANGED <<keyVars, authVars, faults, lost>>

\* The API process dies: every request in flight is gone.
Crash ==
  /\ Fault
  /\ pc' = [h \in Handlers |-> "idle"]
  /\ req' = [h \in Handlers |-> IdleRequest]
  /\ auth' = [c \in Callers |-> IdleCall]
  /\ UNCHANGED <<registry, live, cooldown, revealed, deadAt, cache, accepted, misread, now>>

Init ==
  /\ registry = [k \in KeyIds |-> [owner |-> IdleRequest.owner, status |-> "none"]]
  /\ live = {} /\ revealed = {}
  /\ cooldown = [i \in Identities |-> 0]
  /\ pc = [h \in Handlers |-> "idle"]
  /\ req = [h \in Handlers |-> IdleRequest]
  /\ cache = [k \in KeyIds |-> [valid |-> FALSE, until |-> 0]]
  /\ auth = [c \in Callers |-> IdleCall]
  /\ deadAt = [k \in KeyIds |-> Never]
  /\ accepted = [k \in KeyIds |-> 0]
  /\ misread = [k \in KeyIds |-> {}]
  /\ now = 0 /\ faults = 0 /\ lost = 0

Next ==
  \/ \E h \in Handlers, i \in Identities : StartIssue(h, i) \/ StartRegenerate(h, i)
  \/ \E h \in Handlers : \/ Lookup(h) \/ CreateKey(h) \/ InsertKey(h)
                         \/ UndoCreate(h) \/ RetireOld(h)
  \/ \E c \in Callers, k \in KeyIds : CacheHit(c, k) \/ VerifyKey(c, k)
  \/ \E c \in Callers : CacheAnswer(c)
  \/ Tick
  \/ Crash

Spec == Init /\ [][Next]_vars

-----------------------------------------------------------------------------
(* Every variable keeps its type; in particular CreateKey never lets a        *)
(* handler go on to insert, undo or retire without a key id to do it with.    *)
TypeOK ==
  /\ registry \in [KeyIds -> Record]
  /\ live \subseteq KeyIds /\ revealed \subseteq KeyIds
  /\ cooldown \in [Identities -> Nat]
  /\ pc \in [Handlers -> Locations]
  /\ req \in [Handlers -> Request]
  /\ cache \in [KeyIds -> [valid : BOOLEAN, until : Nat]]
  /\ auth \in [Callers -> [key : KeyIds \cup {NoKey}, valid : BOOLEAN, at : Nat]]
  /\ deadAt \in [KeyIds -> Nat]
  /\ accepted \in [KeyIds -> Nat]
  /\ misread \in [KeyIds -> SUBSET Nat]
  /\ now \in Nat /\ faults \in Nat /\ lost \in Nat
  /\ \A h \in Handlers : /\ pc[h] \in {"insert", "undo", "retire"} => req[h].new \in KeyIds
                         /\ pc[h] = "retire" => req[h].old \in KeyIds

(* Concurrent issue-key and regenerate-key requests of one identity leave it  *)
(* one active key, whichever of them read the registry first.                 *)
OneActiveKey ==
  \A i \in Identities : \A j, k \in ActiveKeys(i) : j = k

(* No key stays valid at Unkey behind the registry's back: while every call   *)
(* works, a live key is registered as active or is in the hands of a request  *)
(* that is about to register it or to revoke it.                              *)
LiveKeysAccounted ==
  faults = 0 /\ lost = 0 => \A k \in live :
    \/ registry[k].status = "active"
    \/ \E h \in Handlers : \/ pc[h] \in {"insert", "undo"} /\ req[h].new = k
                           \/ pc[h] = "retire" /\ req[h].old = k

\* The key a request replaces is, or was, a registered key of its owner.
OldKeysRegistered ==
  \A h \in Handlers :
    /\ pc[h] \in {"idle", "lookup"} => req[h].old = NoKey
    /\ req[h].old # NoKey => /\ registry[req[h].old].status # "none"
                             /\ registry[req[h].old].owner = req[h].owner

(* Every request owns the key it works on: what it is about to insert is live,  *)
(* unregistered and nobody else's, what it is about to delete at Unkey is not    *)
(* active in the registry. This is what makes ActiveKeyLive inductive.           *)
RequestsOwnTheirKeys ==
  /\ OldKeysRegistered
  /\ \A h \in Handlers :
       /\ pc[h] = "insert" => req[h].new \in live /\ registry[req[h].new].status = "none"
       /\ pc[h] = "undo" => /\ req[h].new \in live \/ registry[req[h].new].status # "none"
                            /\ lost = 0 => registry[req[h].new].status = "none"
       /\ pc[h] = "retire" => registry[req[h].old].status = "revoked"
  /\ \A h, g \in Handlers :
       h # g /\ {pc[h], pc[g]} \subseteq {"insert", "undo"} => req[h].new # req[g].new

(* The registry never calls a dead key active, whatever fails and whenever    *)
(* the process dies, as long as no answer of a successful call is lost.       *)
ActiveKeyLive ==
  lost = 0 => \A k \in KeyIds : registry[k].status = "active" => k \in live

(* "Safe order: CREATE new key first, THEN revoke old one": an identity that  *)
(* has a working key has one after every step of a rotation.                  *)
HolderKeepsAKey ==
  [][lost' = 0 => \A i \in Identities :
       ActiveKeys(i) \cap live # {} => ActiveKeys(i)' \cap live' # {}]_vars

(* "caches the result for 30 s": a deleted key is refused at the latest when  *)
(* an answer that was on its way is cached and has expired.                   *)
StaleAcceptanceBounded ==
  \A k \in KeyIds : accepted[k] < deadAt[k] + UnkeyTTL + MaxDelay

(* The holder of a live key whose verification failed is not locked out for   *)
(* longer than one entry lasts, however often they try meanwhile: the cache   *)
(* calls a live key invalid only within UnkeyTTL (and the delay of an answer  *)
(* on its way) of a failed call that was taken for a refusal.                 *)
LockoutBounded ==
  \A k \in live : Cached(k) /\ ~cache[k].valid =>
    \E t \in misread[k] : now < t + UnkeyTTL + MaxDelay
=============================================================================
