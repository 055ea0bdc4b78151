----------------------------- MODULE KeyProofs -----------------------------
(***************************************************************************)
(* Theorems about ApiKeys: for any number of identities, keys, concurrent  *)
(* requests, failed calls and crashes an identity has one active key, and  *)
(* as long as no answer is lost that key works; and the cache of the Auth  *)
(* middleware forgets a revoked key in time and locks out no live one.     *)
(***************************************************************************)
EXTENDS ApiKeys, TLAPS

\* The empty request is a request (Identities is not empty).
LEMMA IdleTyped == IdleRequest \in Request
  BY KeysAssumption DEF IdleRequest, Request

\* The bound of a behaviour and the history value after it are numbers.
LEMMA NeverNat == Never \in Nat
  BY KeysAssumption DEF Never

\* The first state is well typed.
LEMMA InitType == Init => TypeOK
  BY IdleTyped, NeverNat, KeysAssumption
     DEF Init, TypeOK, Record, Locations, IdleCall, Request

\* What a caller remembers.
CallState == [key : KeyIds \cup {NoKey}, valid : BOOLEAN, at : Nat]

\* The last conjunct of TypeOK: a request past CreateKey has a key.
RequestsTyped ==
  \A h \in Handlers : /\ pc[h] \in {"insert", "undo", "retire"} => req[h].new \in KeyIds
                      /\ pc[h] = "retire" => req[h].old \in KeyIds

\* Remembering an old or a new key keeps a request a request.
LEMMA SetKey ==
  ASSUME NEW r \in Request, NEW k \in KeyIds \cup {NoKey}
  PROVE  [r EXCEPT !.old = k] \in Request /\ [r EXCEPT !.new = k] \in Request
  BY DEF Request

\* The registry after an insert is a registry.
LEMMA RegisteredTyped ==
  ASSUME TypeOK, NEW h \in Handlers, pc[h] = "insert"
  PROVE  Registered(req[h]) \in [KeyIds -> Record]
  <1>1. req[h].owner \in Identities
    BY DEF TypeOK, Request
  <1>2. \A k \in KeyIds : [registry[k] EXCEPT !.status = "revoked"] \in Record
    BY DEF TypeOK, Record
  <1>3. \A k \in KeyIds : registry[k] \in Record
    BY DEF TypeOK
  <1>4. [owner |-> req[h].owner, status |-> "active"] \in Record
    BY <1>1 DEF Record
  <1> QED
    BY <1>2, <1>3, <1>4 DEF Registered

\* A caller that has Unkey's answer remembers a key, a Boolean and a time.
LEMMA AskedTyped ==
  ASSUME TypeOK, NEW c \in Callers, NEW k \in KeyIds, NEW v \in BOOLEAN, Asked(c, k, v)
  PROVE  auth' \in [Callers -> CallState]
  <1>2. [key |-> k, valid |-> v, at |-> now] \in CallState
    BY Zenon DEF TypeOK, CallState
  <1> QED
    BY <1>2 DEF TypeOK, Asked, CallState

\* A verification changes the caller alone, and the record of the calls that failed.
LEMMA VerifyEffect ==
  ASSUME TypeOK, NEW c \in Callers, NEW k \in KeyIds, VerifyKey(c, k)
  PROVE  /\ UNCHANGED <<keyVars, cache, accepted, now, lost>>
         /\ faults' \in Nat /\ faults' >= faults
         /\ \/ UNCHANGED <<auth, misread>>
            \/ Asked(c, k, k \in live) /\ UNCHANGED misread
            \/ Asked(c, k, FALSE) /\ misread' = [misread EXCEPT ![k] = @ \cup {now}]
  <1>1. UNCHANGED <<keyVars, cache, accepted, now>>
    BY DEF VerifyKey
  <1>2. /\ \E n \in {0, 1, 2} : Failures(n)
        /\ \/ UNCHANGED <<auth, misread>>
           \/ Asked(c, k, k \in live) /\ UNCHANGED misread
           \/ Asked(c, k, FALSE) /\ misread' = [misread EXCEPT ![k] = @ \cup {now}]
    <2> DEFINE unread == IF Cached(k) THEN 1 ELSE 0
    <2>1. unread \in {0, 1} /\ unread + 1 \in {1, 2}
      OBVIOUS
    <2>2. /\ Failures(unread) \/ Failures(unread + 1)
          /\ \/ UNCHANGED <<auth, misread>>
             \/ Asked(c, k, k \in live) /\ UNCHANGED misread
             \/ Asked(c, k, FALSE) /\ misread' = [misread EXCEPT ![k] = @ \cup {now}]
      BY Zenon DEF VerifyKey
    <2> HIDE DEF unread
    <2> QED
      BY <2>1, <2>2
  <1>3. UNCHANGED lost /\ faults' \in Nat /\ faults' >= faults
    BY <1>2 DEF Failures, TypeOK
  <1> QED
    BY <1>1, <1>2, <1>3

\* Every step of a request, a caller, the clock and a crash keeps the types.
THEOREM KeyTypeStep == TypeOK /\ [Next]_vars => TypeOK'
<1> SUFFICES ASSUME TypeOK, [Next]_vars PROVE TypeOK'
  OBVIOUS
<1> USE IdleTyped, NeverNat, KeysAssumption
<1>1. ASSUME NEW h \in Handlers, NEW i \in Identities, StartIssue(h, i) PROVE TypeOK'
  BY <1>1 DEF TypeOK, StartIssue, Goto, Locations, Request, authVars
<1>2. ASSUME NEW h \in Handlers, NEW i \in Identities, StartRegenerate(h, i) PROVE TypeOK'
  <2>1. cooldown' \in [Identities -> Nat]
    BY <1>2 DEF TypeOK, StartRegenerate
  <2>2. pc' \in [Handlers -> Locations]
    BY <1>2 DEF TypeOK, StartRegenerate, Goto, Locations
  <2>3. req' \in [Handlers -> Request]
    BY <1>2 DEF TypeOK, StartRegenerate, Request
  <2>4. faults' \in Nat /\ lost' \in Nat
    BY <1>2 DEF TypeOK, StartRegenerate, Fault, Works
  <2>5. RequestsTyped'
    BY <1>2 DEF TypeOK, StartRegenerate, Goto, Request, RequestsTyped
  <2> QED
    BY <1>2, <2>1, <2>2, <2>3, <2>4, <2>5 DEF TypeOK, StartRegenerate, authVars, RequestsTyped
<1>3. ASSUME NEW h \in Handlers, Lookup(h) PROVE TypeOK'
  <2>1. OldKey(req[h].owner) \subseteq KeyIds \cup {NoKey}
    BY DEF OldKey, ActiveKeys
  <2>2. pc' \in [Handlers -> Locations]
    BY <1>3 DEF TypeOK, Lookup, Goto, Answer, Locations
  <2>3. req' \in [Handlers -> Request]
    <3>1. CASE Answer(h)
      BY <3>1 DEF TypeOK, Answer
    <3>2. CASE \E k \in OldKey(req[h].owner) : req' = [req EXCEPT ![h].old = k]
      <4>1. PICK k \in OldKey(req[h].owner) : req' = [req EXCEPT ![h].old = k]
        BY <3>2
      <4>2. req[h] \in Request /\ k \in KeyIds \cup {NoKey}
        BY <2>1 DEF TypeOK
      <4>3. [req[h] EXCEPT !.old = k] \in Request
        BY <4>2, SetKey
      <4> QED
        BY <4>1, <4>3 DEF TypeOK
    <3> QED
      BY <1>3, <3>1, <3>2 DEF Lookup
  <2>4. faults' \in Nat /\ lost' \in Nat
    BY <1>3 DEF TypeOK, Lookup, Fault, Works
  <2>5. RequestsTyped'
    BY <1>3 DEF TypeOK, Lookup, Goto, Answer, Request, RequestsTyped
  <2> QED
    BY <1>3, <2>2, <2>3, <2>4, <2>5 DEF TypeOK, Lookup, authVars, RequestsTyped
<1>4. ASSUME NEW h \in Handlers, CreateKey(h) PROVE TypeOK'
  <2>1. live' \subseteq KeyIds
    BY <1>4 DEF TypeOK, CreateKey
  <2>2. pc' \in [Handlers -> Locations]
    BY <1>4 DEF TypeOK, CreateKey, Goto, Answer, Locations
  <2>3. req' \in [Handlers -> Request]
    <3>1. CASE Answer(h)
      BY <3>1 DEF TypeOK, Answer
    <3>2. CASE \E k \in KeyIds : req' = [req EXCEPT ![h].new = k]
      <4>1. PICK k \in KeyIds : req' = [req EXCEPT ![h].new = k]
        BY <3>2
      <4>2. req[h] \in Request /\ k \in KeyIds \cup {NoKey}
        BY <4>1 DEF TypeOK
      <4>3. [req[h] EXCEPT !.new = k] \in Request
        BY <4>2, SetKey
      <4> QED
        BY <4>1, <4>3 DEF TypeOK
    <3> QED
      BY <1>4, <3>1, <3>2 DEF CreateKey
  <2>4. faults' \in Nat /\ lost' \in Nat
    BY <1>4 DEF TypeOK, CreateKey, Fault, Lost, Works
  <2>5. RequestsTyped'
    BY <1>4 DEF TypeOK, CreateKey, Goto, Answer, Request, RequestsTyped
  <2> QED
    BY <1>4, <2>1, <2>2, <2>3, <2>4, <2>5 DEF TypeOK, CreateKey, authVars, RequestsTyped
<1>5. ASSUME NEW h \in Handlers, InsertKey(h) PROVE TypeOK'
  <2>1. registry' \in [KeyIds -> Record]
    BY <1>5, RegisteredTyped DEF TypeOK, InsertKey
  <2>2. pc' \in [Handlers -> Locations] /\ req' \in [Handlers -> Request]
    BY <1>5 DEF TypeOK, InsertKey, Goto, Answer, Locations
  <2>3. revealed' \subseteq KeyIds
    BY <1>5 DEF TypeOK, InsertKey
  <2>4. faults' \in Nat /\ lost' \in Nat
    BY <1>5 DEF TypeOK, InsertKey, Fault, Lost, Works
  <2>5. RequestsTyped'
    BY <1>5 DEF TypeOK, InsertKey, Goto, Answer, Request, RequestsTyped
  <2> QED
    BY <1>5, <2>1, <2>2, <2>3, <2>4, <2>5 DEF TypeOK, InsertKey, authVars, RequestsTyped
<1>6. ASSUME NEW h \in Handlers, UndoCreate(h) PROVE TypeOK'
  <2>1. faults' \in Nat /\ lost' \in Nat /\ live' \subseteq KeyIds /\ deadAt' \in [KeyIds -> Nat]
    BY <1>6 DEF TypeOK, UndoCreate, RevokeKey, Fault, Works
  <2>2. pc' \in [Handlers -> Locations] /\ req' \in [Handlers -> Request] /\ RequestsTyped'
    BY <1>6 DEF TypeOK, UndoCreate, Goto, Answer, Locations, RequestsTyped
  <2> QED
    BY <1>6, <2>1, <2>2 DEF TypeOK, UndoCreate, authVars, RequestsTyped
<1>7. ASSUME NEW h \in Handlers, RetireOld(h) PROVE TypeOK'
  <2>1. faults' \in Nat /\ lost' \in Nat /\ live' \subseteq KeyIds /\ deadAt' \in [KeyIds -> Nat]
    BY <1>7 DEF TypeOK, RetireOld, RevokeKey, Fault, Works
  <2>2. pc' \in [Handlers -> Locations] /\ req' \in [Handlers -> Request] /\ RequestsTyped'
    BY <1>7 DEF TypeOK, RetireOld, Goto, Answer, Locations, RequestsTyped
  <2>3. revealed' \subseteq KeyIds
    BY <1>7 DEF TypeOK, RetireOld
  <2> QED
    BY <1>7, <2>1, <2>2, <2>3 DEF TypeOK, RetireOld, authVars, RequestsTyped
<1>8. ASSUME NEW c \in Callers, NEW k \in KeyIds, CacheHit(c, k) PROVE TypeOK'
  <2>1. accepted' \in [KeyIds -> Nat]
    BY <1>8 DEF TypeOK, CacheHit
  <2> QED
    BY <1>8, <2>1 DEF TypeOK, CacheHit, keyVars
<1>9. ASSUME NEW c \in Callers, NEW k \in KeyIds, VerifyKey(c, k) PROVE TypeOK'
  <2>0. /\ UNCHANGED <<keyVars, cache, accepted, now, lost>>
        /\ faults' \in Nat
        /\ \/ UNCHANGED <<auth, misread>>
           \/ Asked(c, k, k \in live) /\ UNCHANGED misread
           \/ Asked(c, k, FALSE) /\ misread' = [misread EXCEPT ![k] = @ \cup {now}]
    BY <1>9, VerifyEffect
  <2>1. auth' \in [Callers -> CallState]
    <3>1. (k \in live) \in BOOLEAN /\ FALSE \in BOOLEAN
      OBVIOUS
    <3>2. CASE Asked(c, k, k \in live)
      BY <3>1, <3>2, AskedTyped
    <3>3. CASE Asked(c, k, FALSE)
      BY <3>1, <3>3, AskedTyped
    <3>4. CASE UNCHANGED auth
      BY <3>4 DEF TypeOK, CallState
    <3> QED
      BY <2>0, <3>2, <3>3, <3>4
  <2>3. misread' \in [KeyIds -> SUBSET Nat]
    <3>1. misread[k] \cup {now} \in SUBSET Nat
      BY DEF TypeOK
    <3> QED
      BY <2>0, <3>1 DEF TypeOK
  <2> QED
    BY <2>0, <2>1, <2>3 DEF TypeOK, keyVars, CallState
<1>13. ASSUME NEW c \in Callers, CacheAnswer(c) PROVE TypeOK'
  <2>1. auth[c] \in CallState
    BY DEF TypeOK, CallState
  <2>2. cache' \in [KeyIds -> [valid : BOOLEAN, until : Nat]]
    <3>1. [valid |-> auth[c].valid, until |-> now + UnkeyTTL] \in [valid : BOOLEAN, until : Nat]
      BY <2>1 DEF TypeOK, CallState
    <3> QED
      BY <1>13, <3>1 DEF TypeOK, CacheAnswer
  <2>3. accepted' \in [KeyIds -> Nat]
    BY <1>13 DEF TypeOK, CacheAnswer
  <2>4. auth' \in [Callers -> CallState]
    BY <1>13 DEF TypeOK, CacheAnswer, IdleCall, CallState
  <2>5. faults' \in Nat /\ lost' \in Nat
    BY <1>13 DEF TypeOK, CacheAnswer, Fault, Works
  <2> QED
    BY <1>13, <2>2, <2>3, <2>4, <2>5 DEF TypeOK, CacheAnswer, keyVars, CallState
<1>10. ASSUME Tick PROVE TypeOK'
  BY <1>10 DEF TypeOK, Tick, keyVars, authVars
<1>11. ASSUME Crash PROVE TypeOK'
  BY <1>11 DEF TypeOK, Crash, Fault, IdleCall, Locations
<1>12. ASSUME UNCHANGED vars PROVE TypeOK'
  BY <1>12 DEF TypeOK, vars, keyVars, authVars
<1> QED
  BY <1>1, <1>2, <1>3, <1>4, <1>5, <1>6, <1>7, <1>8, <1>9, <1>10, <1>11, <1>12, <1>13 DEF Next

-----------------------------------------------------------------------------
(* The inductive invariant. ActiveKeyLive alone is not preserved: a request  *)
(* about to delete a key must be known not to hold an active one.            *)
KeyInv == TypeOK /\ RequestsOwnTheirKeys /\ OneActiveKey /\ ActiveKeyLive /\ LiveKeysAccounted

\* KeyInv without the types.
KeySafety == RequestsOwnTheirKeys /\ OneActiveKey /\ ActiveKeyLive /\ LiveKeysAccounted

\* A request that holds a key holds it as before.
SameHolders ==
  \A h \in Handlers :
    (pc[h] \in {"insert", "undo", "retire"} \/ pc'[h] \in {"insert", "undo", "retire"})
      => pc'[h] = pc[h] /\ req'[h] = req[h]

\* What a request remembers as the key to replace stays a registered key of its owner.
LEMMA OldKeyStep ==
  ASSUME KeyInv, [Next]_vars PROVE OldKeysRegistered'
<1> USE DEF KeyInv, RequestsOwnTheirKeys
<1>1. ASSUME NEW h \in Handlers, NEW i \in Identities, StartIssue(h, i) \/ StartRegenerate(h, i)
      PROVE OldKeysRegistered'
  BY <1>1 DEF StartIssue, StartRegenerate, Goto, OldKeysRegistered, TypeOK, Request
<1>2. ASSUME NEW h \in Handlers, Lookup(h) PROVE OldKeysRegistered'
  BY <1>2 DEF Lookup, Answer, Goto, OldKey, ActiveKeys, OldKeysRegistered, TypeOK, Request, IdleRequest
<1>3. ASSUME NEW h \in Handlers, CreateKey(h) PROVE OldKeysRegistered'
  <2>1. \A g \in Handlers : \/ req'[g] = IdleRequest /\ pc'[g] = "idle"
                            \/ req'[g] = req[g] /\ pc'[g] = pc[g]
                            \/ /\ req'[g].old = req[g].old /\ req'[g].owner = req[g].owner
                               /\ pc'[g] = "insert"
    BY <1>3 DEF CreateKey, Answer, Goto, TypeOK, Request
  <2>2. UNCHANGED registry /\ IdleRequest.old = NoKey
    BY <1>3 DEF CreateKey, IdleRequest
  <2> QED
    BY <2>1, <2>2 DEF OldKeysRegistered
<1>4. ASSUME NEW h \in Handlers, InsertKey(h) PROVE OldKeysRegistered'
  <2>1. registry[req[h].new].status = "none"
    BY <1>4 DEF InsertKey
  <2>2. \A k \in KeyIds : registry[k].status # "none"
          => registry'[k].status # "none" /\ registry'[k].owner = registry[k].owner
    <3>1. CASE registry' = registry
      BY <3>1
    <3>2. CASE registry' = Registered(req[h])
      BY <2>1, <3>2 DEF Registered, TypeOK, Record
    <3> QED
      BY <1>4, <3>1, <3>2 DEF InsertKey
  <2>3. \A g \in Handlers : \/ req'[g] = IdleRequest /\ pc'[g] = "idle"
                            \/ req'[g] = req[g] /\ pc'[g] = pc[g]
                            \/ req'[g] = req[g] /\ pc'[g] \in {"undo", "retire"}
    BY <1>4 DEF InsertKey, Answer, Goto, TypeOK
  <2>4. IdleRequest.old = NoKey
    BY DEF IdleRequest
  <2>5. \A g \in Handlers : req[g].old # NoKey => req[g].old \in KeyIds
    BY DEF TypeOK, Request
  <2> QED
    BY <2>2, <2>3, <2>4, <2>5 DEF OldKeysRegistered
<1>5. ASSUME NEW h \in Handlers, UndoCreate(h) \/ RetireOld(h) PROVE OldKeysRegistered'
  BY <1>5 DEF UndoCreate, RetireOld, Answer, Goto, OldKeysRegistered, IdleRequest, TypeOK
<1>6. ASSUME NEW c \in Callers, NEW k \in KeyIds, CacheHit(c, k) \/ VerifyKey(c, k)
      PROVE OldKeysRegistered'
  BY <1>6 DEF CacheHit, VerifyKey, keyVars, OldKeysRegistered
<1>7. ASSUME NEW c \in Callers, CacheAnswer(c) PROVE OldKeysRegistered'
  BY <1>7 DEF CacheAnswer, keyVars, OldKeysRegistered
<1>8. ASSUME Tick \/ UNCHANGED vars PROVE OldKeysRegistered'
  BY <1>8 DEF Tick, vars, keyVars, OldKeysRegistered
<1>9. ASSUME Crash PROVE OldKeysRegistered'
  BY <1>9 DEF Crash, OldKeysRegistered, IdleRequest
<1> QED
  BY <1>1, <1>2, <1>3, <1>4, <1>5, <1>6, <1>7, <1>8, <1>9 DEF Next

\* A step that leaves registry, Unkey and the holders of keys alone is safe.
LEMMA QuietStep ==
  ASSUME KeyInv, OldKeysRegistered', UNCHANGED <<registry, live>>, SameHolders,
         faults \in Nat, lost' = lost, faults' \in Nat, faults' >= faults
  PROVE  KeySafety'
  <1>1. RequestsOwnTheirKeys'
    BY DEF KeyInv, SameHolders, RequestsOwnTheirKeys
  <1>2. OneActiveKey'
    BY DEF KeyInv, OneActiveKey, ActiveKeys
  <1>3. ActiveKeyLive'
    BY DEF KeyInv, ActiveKeyLive
  <1>4. LiveKeysAccounted'
    BY DEF KeyInv, SameHolders, LiveKeysAccounted
  <1> QED
    BY <1>1, <1>2, <1>3, <1>4 DEF KeySafety

\* A fresh key at Unkey is registered for nobody and held by nobody.
LEMMA CreateKeySafe ==
  ASSUME KeyInv, OldKeysRegistered', NEW h \in Handlers, CreateKey(h) PROVE KeySafety'
  <1> USE DEF KeyInv
  <1>1. CASE Fault /\ Answer(h) /\ UNCHANGED live
    <2>1. SameHolders
      BY <1>1 DEF CreateKey, Answer, Goto, SameHolders, TypeOK
    <2> QED
      BY <1>1, <2>1, QuietStep DEF CreateKey, Fault, TypeOK
  <1>2. CASE Lost /\ Answer(h) /\ \E k \in KeyIds : Fresh(k) /\ live' = live \cup {k}
    <2>1. lost' # 0
      BY <1>2 DEF Lost, TypeOK
    <2>2. RequestsOwnTheirKeys'
      BY <1>2, <2>1 DEF CreateKey, Answer, Goto, TypeOK, RequestsOwnTheirKeys
    <2>3. OneActiveKey'
      BY <1>2 DEF CreateKey, OneActiveKey, ActiveKeys
    <2> QED
      BY <2>1, <2>2, <2>3 DEF KeySafety, ActiveKeyLive, LiveKeysAccounted
  <1>3. CASE /\ \E k \in KeyIds : /\ Fresh(k)
                                  /\ live' = live \cup {k}
                                  /\ req' = [req EXCEPT ![h].new = k]
             /\ Goto(h, "insert")
             /\ Works
    <2>1. PICK k \in KeyIds : Fresh(k) /\ live' = live \cup {k} /\ req' = [req EXCEPT ![h].new = k]
      BY <1>3
    <2>2. /\ registry' = registry /\ lost' = lost /\ faults' = faults
          /\ pc'[h] = "insert" /\ req'[h].new = k /\ pc[h] = "create"
          /\ \A g \in Handlers \ {h} : pc'[g] = pc[g] /\ req'[g] = req[g]
      BY <1>3, <2>1 DEF CreateKey, Goto, Works, TypeOK, Request
    <2>3. k \notin live /\ registry[k].status = "none"
      BY <2>1 DEF Fresh
    <2>4. \A g \in Handlers : pc[g] \in {"insert", "undo"} => req[g].new # k
      BY <2>3 DEF RequestsOwnTheirKeys
    <2>5. RequestsOwnTheirKeys'
      BY <2>1, <2>2, <2>3, <2>4 DEF RequestsOwnTheirKeys
    <2>6. OneActiveKey'
      BY <2>2 DEF OneActiveKey, ActiveKeys
    <2>7. ActiveKeyLive'
      BY <2>1, <2>2 DEF ActiveKeyLive
    <2>8. LiveKeysAccounted'
      BY <2>1, <2>2 DEF LiveKeysAccounted
    <2> QED
      BY <2>5, <2>6, <2>7, <2>8 DEF KeySafety
  <1> QED
    BY <1>1, <1>2, <1>3 DEF CreateKey

\* What committing the insert does to the registry: the owner's only active key is the new one.
LEMMA RegisteredIs ==
  ASSUME KeyInv, NEW h \in Handlers, pc[h] = "insert", MayInsert(req[h]),
         registry' = Registered(req[h])
  PROVE  /\ registry'[req[h].new] = [owner |-> req[h].owner, status |-> "active"]
         /\ \A k \in KeyIds \ {req[h].new} :
              /\ registry'[k].owner = registry[k].owner
              /\ registry'[k].status = IF k \in ActiveKeys(req[h].owner) THEN "revoked"
                                       ELSE registry[k].status
         /\ ActiveKeys(req[h].owner) \subseteq {req[h].old}
  <1>1. req[h].new \in KeyIds
    BY DEF KeyInv, TypeOK
  <1>2. ActiveKeys(req[h].owner) \subseteq {req[h].old}
    BY DEF MayInsert
  <1>3. \A k \in KeyIds : /\ [registry[k] EXCEPT !.status = "revoked"].owner = registry[k].owner
                          /\ [registry[k] EXCEPT !.status = "revoked"].status = "revoked"
    BY DEF KeyInv, TypeOK, Record
  <1> QED
    BY <1>1, <1>2, <1>3 DEF Registered

\* The unique index and the transaction keep the registry, Unkey and the holders in step.
LEMMA InsertKeySafe ==
  ASSUME KeyInv, OldKeysRegistered', NEW h \in Handlers, InsertKey(h) PROVE KeySafety'
  <1> USE DEF KeyInv
  <1> DEFINE r == req[h]
  <1>0. /\ pc[h] = "insert" /\ r.new \in KeyIds /\ r.new \in live
        /\ registry[r.new].status = "none" /\ live' = live
    BY DEF InsertKey, TypeOK, RequestsOwnTheirKeys
  <1>1. CASE /\ Goto(h, "undo") /\ UNCHANGED <<registry, req>>
             /\ lost' = lost /\ (faults' = faults \/ faults' = faults + 1)
    <2>1. /\ pc'[h] = "undo" /\ req' = req /\ registry' = registry
          /\ \A g \in Handlers \ {h} : pc'[g] = pc[g]
      BY <1>1 DEF Goto, TypeOK
    <2>2. RequestsOwnTheirKeys'
      BY <1>0, <1>1, <2>1 DEF RequestsOwnTheirKeys
    <2>3. OneActiveKey' /\ ActiveKeyLive'
      BY <1>0, <1>1 DEF OneActiveKey, ActiveKeys, ActiveKeyLive
    <2>4. LiveKeysAccounted'
      <3>1. faults' = 0 => faults = 0
        BY <1>1 DEF TypeOK
      <3> QED
        BY <1>0, <1>1, <2>1, <3>1 DEF LiveKeysAccounted
    <2> QED
      BY <2>2, <2>3, <2>4 DEF KeySafety
  <1>2. CASE MayInsert(r) /\ registry' = Registered(r)
    <2>1. /\ registry'[r.new] = [owner |-> r.owner, status |-> "active"]
          /\ \A k \in KeyIds \ {r.new} :
               /\ registry'[k].owner = registry[k].owner
               /\ registry'[k].status = IF k \in ActiveKeys(r.owner) THEN "revoked"
                                        ELSE registry[k].status
          /\ ActiveKeys(r.owner) \subseteq {r.old}
      BY <1>0, <1>2, RegisteredIs
    <2>2. \A g \in Handlers \ {h} : pc'[g] = pc[g] /\ req'[g] = req[g]
      BY DEF InsertKey, Goto, Answer, TypeOK
    <2>3. \/ pc'[h] = "idle" /\ r.old = NoKey /\ lost' = lost /\ faults' = faults
          \/ pc'[h] = "retire" /\ req'[h] = r /\ r.old # NoKey /\ lost' = lost /\ faults' = faults
          \/ pc'[h] = "undo" /\ req'[h] = r /\ lost' # 0
      <3>1. registry' # registry
        BY <1>0, <2>1
      <3> QED
        BY <1>0, <1>2, <3>1 DEF InsertKey, Goto, Answer, Works, Fault, Lost, TypeOK
    <2>4. OneActiveKey'
      BY <1>0, <2>1 DEF OneActiveKey, ActiveKeys
    <2>5. ActiveKeyLive'
      BY <1>0, <2>1, <2>3 DEF ActiveKeyLive, ActiveKeys
    <2>6. \A g \in Handlers \ {h} : pc[g] \in {"insert", "undo"} => req[g].new # r.new
      BY <1>0 DEF RequestsOwnTheirKeys
    <2>7. RequestsOwnTheirKeys'
      <3>1. r.old # NoKey => r.old \in KeyIds \ {r.new} /\ registry'[r.old].status = "revoked"
        <4>1. r.old # NoKey => r.old \in KeyIds /\ registry[r.old] \in Record
          BY DEF TypeOK, Request
        <4>2. r.old # NoKey => registry[r.old].status # "none" /\ registry[r.old].owner = r.owner
          BY DEF RequestsOwnTheirKeys, OldKeysRegistered
        <4> QED
          BY <1>0, <2>1, <4>1, <4>2 DEF ActiveKeys, Record
      <3>2. \A g \in Handlers \ {h} :
              /\ pc'[g] = "insert" => req'[g].new \in live' /\ registry'[req'[g].new].status = "none"
              /\ pc'[g] = "undo" => /\ req'[g].new \in live' \/ registry'[req'[g].new].status # "none"
                                    /\ lost' = 0 => registry'[req'[g].new].status = "none"
              /\ pc'[g] = "retire" => registry'[req'[g].old].status = "revoked"
        <4> SUFFICES ASSUME NEW g \in Handlers \ {h} PROVE
              /\ pc[g] = "insert" => req[g].new \in live /\ registry'[req[g].new].status = "none"
              /\ pc[g] = "undo" => /\ req[g].new \in live \/ registry'[req[g].new].status # "none"
                                   /\ lost' = 0 => registry'[req[g].new].status = "none"
              /\ pc[g] = "retire" => registry'[req[g].old].status = "revoked"
          BY <1>0, <2>2
        <4>1. pc[g] \in {"insert", "undo"} => req[g].new \in KeyIds \ {r.new}
          BY <2>6 DEF TypeOK
        <4>2. pc[g] = "retire" => req[g].old \in KeyIds \ {r.new}
          BY <1>0 DEF TypeOK, RequestsOwnTheirKeys
        <4>3. lost' = 0 => lost = 0
          BY <2>3
        <4> QED
          BY <2>1, <4>1, <4>2, <4>3 DEF RequestsOwnTheirKeys, ActiveKeys
      <3>3. \A g \in Handlers \ {h} :
              {pc'[h], pc'[g]} \subseteq {"insert", "undo"} => req'[h].new # req'[g].new
        BY <2>2, <2>3, <2>6
      <3> QED
        BY <1>0, <2>1, <2>2, <2>3, <3>1, <3>2, <3>3 DEF RequestsOwnTheirKeys
    <2>8. LiveKeysAccounted'
      <3> SUFFICES ASSUME faults' = 0, lost' = 0, NEW k \in live PROVE
             \/ registry'[k].status = "active"
             \/ \E g \in Handlers : \/ pc'[g] \in {"insert", "undo"} /\ req'[g].new = k
                                    \/ pc'[g] = "retire" /\ req'[g].old = k
        BY <1>0 DEF LiveKeysAccounted
      <3>1. k \in KeyIds /\ faults = 0 /\ lost = 0
        BY <2>3 DEF TypeOK
      <3>2. CASE k = r.new
        BY <2>1, <3>2
      <3>3. CASE k # r.new /\ registry[k].status = "active" /\ k \notin ActiveKeys(r.owner)
        BY <2>1, <3>1, <3>3
      <3>4. CASE k \in ActiveKeys(r.owner)
        BY <2>1, <2>3, <3>1, <3>4, KeysAssumption
      <3>5. CASE k # r.new /\ registry[k].status # "active"
        BY <1>0, <2>2, <3>1, <3>5 DEF LiveKeysAccounted
      <3> QED
        BY <3>2, <3>3, <3>4, <3>5
    <2> QED
      BY <2>4, <2>5, <2>7, <2>8 DEF KeySafety
  <1> QED
    BY <1>1, <1>2 DEF InsertKey, Works, Fault

\* Deleting a key at Unkey is safe when its request is the one to delete it and it is not active.
LEMMA RevokeSafe ==
  ASSUME KeyInv, OldKeysRegistered', NEW h \in Handlers, UndoCreate(h) \/ RetireOld(h)
  PROVE  KeySafety'
  <1> USE DEF KeyInv
  <1> DEFINE k == IF pc[h] = "undo" THEN req[h].new ELSE req[h].old
  <1>1. /\ k \in KeyIds
        /\ \/ pc[h] = "undo" /\ (lost = 0 => registry[k].status = "none")
           \/ pc[h] = "retire" /\ registry[k].status = "revoked"
    BY DEF UndoCreate, RetireOld, TypeOK, RequestsOwnTheirKeys
  <1>2. /\ registry' = registry /\ lost' = lost
        /\ \/ live' = live \ {k} /\ faults' = faults
           \/ live' = live /\ faults' = faults + 1
    BY DEF UndoCreate, RetireOld, RevokeKey, Works, Fault
  <1>3. /\ pc'[h] = "idle"
        /\ \A g \in Handlers \ {h} : pc'[g] = pc[g] /\ req'[g] = req[g]
    BY DEF UndoCreate, RetireOld, Answer, Goto, TypeOK
  <1>4. \A g \in Handlers \ {h} : pc[g] = "insert" => req[g].new # k
    BY <1>1 DEF RequestsOwnTheirKeys
  <1>5. \A g \in Handlers \ {h} : pc[g] = "undo" => req[g].new # k \/ registry[k].status = "revoked"
    BY <1>1 DEF RequestsOwnTheirKeys
  <1>6. RequestsOwnTheirKeys'
    BY <1>2, <1>3, <1>4, <1>5 DEF RequestsOwnTheirKeys
  <1>7. OneActiveKey'
    BY <1>2 DEF OneActiveKey, ActiveKeys
  <1>8. ActiveKeyLive'
    BY <1>1, <1>2 DEF ActiveKeyLive
  <1>9. LiveKeysAccounted'
    <2> SUFFICES ASSUME faults' = 0, lost' = 0, NEW j \in live' PROVE
           \/ registry'[j].status = "active"
           \/ \E g \in Handlers : \/ pc'[g] \in {"insert", "undo"} /\ req'[g].new = j
                                  \/ pc'[g] = "retire" /\ req'[g].old = j
      BY DEF LiveKeysAccounted
    <2>1. faults = 0 /\ lost = 0 /\ j \in live /\ j # k
      BY <1>2 DEF TypeOK
    <2> QED
      BY <1>1, <1>2, <1>3, <2>1 DEF LiveKeysAccounted
  <1> QED
    BY <1>6, <1>7, <1>8, <1>9 DEF KeySafety

\* Every step preserves the invariant: two stores without a common transaction stay in step
\* under any interleaving of requests, failed calls and crashes.
THEOREM KeyStep == KeyInv /\ [Next]_vars => KeyInv'
<1> SUFFICES ASSUME KeyInv, [Next]_vars PROVE KeySafety'
  BY KeyTypeStep DEF KeyInv, KeySafety
<1>0. OldKeysRegistered' /\ faults \in Nat
  BY OldKeyStep DEF KeyInv, TypeOK
<1>1. ASSUME NEW h \in Handlers, NEW i \in Identities, StartIssue(h, i) PROVE KeySafety'
  <2>1. SameHolders
    BY <1>1 DEF StartIssue, Goto, SameHolders, KeyInv, TypeOK
  <2> QED
    BY <1>0, <1>1, <2>1, QuietStep DEF StartIssue
<1>2. ASSUME NEW h \in Handlers, NEW i \in Identities, StartRegenerate(h, i) PROVE KeySafety'
  <2>1. SameHolders
    BY <1>2 DEF StartRegenerate, Goto, SameHolders, KeyInv, TypeOK
  <2> QED
    BY <1>0, <1>2, <2>1, QuietStep DEF StartRegenerate, Fault, Works
<1>3. ASSUME NEW h \in Handlers, Lookup(h) PROVE KeySafety'
  <2>1. SameHolders
    BY <1>3 DEF Lookup, Goto, Answer, SameHolders, KeyInv, TypeOK
  <2> QED
    BY <1>0, <1>3, <2>1, QuietStep DEF Lookup, Fault, Works
<1>4. ASSUME NEW h \in Handlers, CreateKey(h) PROVE KeySafety'
  BY <1>0, <1>4, CreateKeySafe
<1>5. ASSUME NEW h \in Handlers, InsertKey(h) PROVE KeySafety'
  BY <1>0, <1>5, InsertKeySafe
<1>6. ASSUME NEW h \in Handlers, UndoCreate(h) \/ RetireOld(h) PROVE KeySafety'
  BY <1>0, <1>6, RevokeSafe
<1>7. ASSUME NEW c \in Callers, NEW k \in KeyIds, CacheHit(c, k) \/ VerifyKey(c, k) PROVE KeySafety'
  <2>1. SameHolders
    BY <1>7 DEF CacheHit, VerifyKey, keyVars, SameHolders
  <2>2. faults \in Nat /\ lost' = lost /\ faults' \in Nat /\ faults' >= faults
    <3>1. CASE CacheHit(c, k)
      BY <3>1 DEF CacheHit, KeyInv, TypeOK
    <3>2. CASE VerifyKey(c, k)
      BY <3>2, VerifyEffect DEF KeyInv, TypeOK
    <3> QED
      BY <1>7, <3>1, <3>2
  <2> QED
    BY <1>0, <1>7, <2>1, <2>2, QuietStep DEF CacheHit, VerifyKey, keyVars
<1>8. ASSUME NEW c \in Callers, CacheAnswer(c) PROVE KeySafety'
  <2>1. SameHolders
    BY <1>8 DEF CacheAnswer, keyVars, SameHolders
  <2> QED
    BY <1>0, <1>8, <2>1, QuietStep DEF CacheAnswer, keyVars, Fault, Works
<1>9. ASSUME Tick \/ UNCHANGED vars PROVE KeySafety'
  <2>1. SameHolders
    BY <1>9 DEF Tick, vars, keyVars, SameHolders
  <2> QED
    BY <1>0, <1>9, <2>1, QuietStep DEF Tick, vars, keyVars
<1>10. ASSUME Crash PROVE KeySafety'
  <2>1. \A h \in Handlers : pc'[h] = "idle"
    BY <1>10 DEF Crash
  <2>2. RequestsOwnTheirKeys'
    BY <1>0, <2>1 DEF RequestsOwnTheirKeys
  <2>3. OneActiveKey' /\ ActiveKeyLive'
    BY <1>10 DEF Crash, Fault, KeyInv, OneActiveKey, ActiveKeys, ActiveKeyLive
  <2>4. LiveKeysAccounted'
    BY <1>0, <1>10 DEF Crash, Fault, LiveKeysAccounted
  <2> QED
    BY <2>2, <2>3, <2>4 DEF KeySafety
<1> QED
  BY <1>1, <1>2, <1>3, <1>4, <1>5, <1>6, <1>7, <1>8, <1>9, <1>10 DEF Next

\* The invariant holds before the first request.
LEMMA KeyInit == Init => KeyInv
  <1> SUFFICES ASSUME Init PROVE KeyInv
    OBVIOUS
  <1>1. \A h \in Handlers : pc[h] = "idle" /\ req[h].old = NoKey
    BY DEF Init, IdleRequest
  <1>2. \A k \in KeyIds : registry[k].status = "none"
    BY DEF Init
  <1>3. RequestsOwnTheirKeys
    BY <1>1 DEF RequestsOwnTheirKeys, OldKeysRegistered
  <1>4. OneActiveKey /\ ActiveKeyLive /\ LiveKeysAccounted
    BY <1>2 DEF Init, OneActiveKey, ActiveKeys, ActiveKeyLive, LiveKeysAccounted
  <1> QED
    BY <1>3, <1>4, InitType DEF KeyInv

\* Whatever requests race, whatever fails and whenever the process dies, an identity has at most
\* one active key; without lost answers that key works, and without failures no other key does.
THEOREM KeysSafe == Spec => [](OneActiveKey /\ ActiveKeyLive /\ LiveKeysAccounted)
  <1>1. KeyInv => OneActiveKey /\ ActiveKeyLive /\ LiveKeysAccounted
    BY DEF KeyInv
  <1> QED
    BY <1>1, KeyInit, KeyStep, PTL DEF Spec

\* "Safe order: CREATE new key first, THEN revoke old one": no step of a rotation takes away the
\* working key of an identity without leaving it another.
THEOREM RotationKeepsAKey == Spec => HolderKeepsAKey
  <1>1. ASSUME KeyInv, KeyInv', [Next]_vars
        PROVE  lost' = 0 => \A i \in Identities :
                 ActiveKeys(i) \cap live # {} => ActiveKeys(i)' \cap live' # {}
    <2> SUFFICES ASSUME lost' = 0, NEW i \in Identities, ActiveKeys(i) # {}
                 PROVE  \E k \in ActiveKeys(i)' : k \in live'
      OBVIOUS
    <2>1. \A k \in ActiveKeys(i)' : k \in live'
      BY <1>1 DEF KeyInv, ActiveKeyLive, ActiveKeys
    <2>2. CASE registry' = registry
      BY <2>1, <2>2 DEF ActiveKeys
    <2>3. CASE \E h \in Handlers : /\ pc[h] = "insert" /\ MayInsert(req[h])
                                   /\ registry' = Registered(req[h])
      <3>1. PICK h \in Handlers : /\ pc[h] = "insert" /\ MayInsert(req[h])
                                  /\ registry' = Registered(req[h])
        BY <2>3
      <3>2. req[h].new \in KeyIds
        BY <1>1, <3>1 DEF KeyInv, TypeOK
      <3>3. registry[req[h].new].status = "none"
        BY <1>1, <3>1 DEF KeyInv, RequestsOwnTheirKeys
      <3>4. CASE req[h].owner = i
        <4>1. req[h].new \in ActiveKeys(i)'
          <5>1. registry'[req[h].new] = [owner |-> i, status |-> "active"]
            BY <1>1, <3>1, <3>4, RegisteredIs
          <5> QED
            BY <3>2, <5>1 DEF ActiveKeys
        <4> QED
          BY <2>1, <4>1
      <3>5. CASE req[h].owner # i
        <4>1. PICK k \in ActiveKeys(i) : TRUE
          OBVIOUS
        <4>2. k \in ActiveKeys(i)'
          BY <1>1, <3>1, <3>3, <3>5, <4>1, RegisteredIs DEF ActiveKeys
        <4> QED
          BY <2>1, <4>2
      <3> QED
        BY <3>4, <3>5
    <2> QED
      BY <1>1, <2>2, <2>3
         DEF Next, vars, keyVars, StartIssue, StartRegenerate, Lookup, CreateKey, InsertKey,
             UndoCreate, RetireOld, CacheHit, VerifyKey, CacheAnswer, Tick, Crash
  <1> QED
    BY <1>1, KeyInit, KeyStep, PTL DEF Spec, HolderKeepsAKey
-----------------------------------------------------------------------------
(* The cached verifications. What a cached answer, or one on its way to the *)
(* cache, may still say depends on when the key was deleted.                *)

\* Unkey deleted the key.
Gone(k) == deadAt[k] # Never

\* A key that may be presented exists at Unkey or did.
RevealedInv ==
  /\ \A k \in live : ~ Gone(k)
  /\ \A k \in revealed : k \in live \/ Gone(k)
  /\ \A h \in Handlers : pc[h] = "retire" => req[h].new \in live \/ Gone(req[h].new)

\* An answer of Unkey that a caller holds is at most MaxDelay old.
AnswerInv ==
  \A c \in Callers : auth[c] # IdleCall =>
    /\ auth[c].key \in KeyIds
    /\ auth[c].at <= now /\ now <= auth[c].at + MaxDelay
    /\ auth[c].valid => auth[c].at <= deadAt[auth[c].key]
    /\ ~ auth[c].valid => Gone(auth[c].key) \/ auth[c].at \in misread[auth[c].key]

\* An entry of the cache ends UnkeyTTL after an answer that was right when it was given,
\* or that came from a call that failed.
EntryInv ==
  \A k \in KeyIds :
    /\ cache[k].until <= now + UnkeyTTL
    /\ cache[k].valid => cache[k].until <= deadAt[k] + UnkeyTTL + MaxDelay
    /\ cache[k].until > 0 /\ ~ cache[k].valid =>
         Gone(k) \/ \E t \in misread[k] : cache[k].until <= t + UnkeyTTL + MaxDelay

PastInv == now <= MaxClock /\ \A k \in KeyIds : accepted[k] <= now

CacheInv == RevealedInv /\ AnswerInv /\ EntryInv /\ PastInv /\ StaleAcceptanceBounded

\* The numbers of the cache.
LEMMA CacheTypes ==
  ASSUME TypeOK
  PROVE  /\ now \in Nat /\ MaxClock \in Nat /\ Never = MaxClock + 1
         /\ MaxDelay \in Nat /\ UnkeyTTL \in Nat /\ UnkeyTTL > 0
         /\ \A k \in KeyIds : deadAt[k] \in Nat /\ accepted[k] \in Nat /\ cache[k].until \in Nat
         /\ \A c \in Callers : auth[c].at \in Nat
         /\ \A k \in KeyIds : misread[k] \subseteq Nat
  BY KeysAssumption DEF TypeOK, Never

\* Before the first request nothing is cached, held or revealed.
LEMMA CacheInit == Init => CacheInv
  BY KeysAssumption DEF Init, CacheInv, RevealedInv, AnswerInv, EntryInv, PastInv,
     StaleAcceptanceBounded, Never

\* A step that deletes live keys, and touches neither the cache nor a caller.
LEMMA DeletionBounded ==
  ASSUME TypeOK, CacheInv, UNCHANGED authVars, UNCHANGED now,
         \A k \in KeyIds : deadAt'[k] = deadAt[k] \/ (k \in live /\ deadAt'[k] = now)
  PROVE  AnswerInv' /\ EntryInv' /\ PastInv' /\ StaleAcceptanceBounded'
  <1> USE CacheTypes DEF authVars
  <1>1. \A k \in KeyIds : Gone(k) => deadAt'[k] = deadAt[k]
    BY DEF CacheInv, RevealedInv
  <1>2. \A k \in KeyIds : Gone(k) => Gone(k)'
    BY <1>1 DEF Gone
  <1>3. AnswerInv'
    BY <1>2 DEF CacheInv, AnswerInv
  <1>4. EntryInv'
    BY <1>2 DEF CacheInv, EntryInv
  <1>5. PastInv'
    BY DEF CacheInv, PastInv
  <1>6. StaleAcceptanceBounded'
    BY DEF CacheInv, PastInv, StaleAcceptanceBounded
  <1> QED
    BY <1>3, <1>4, <1>5, <1>6

\* A key that is deleted leaves the live ones and gets its time.
LEMMA RevokeEffect ==
  ASSUME TypeOK, CacheInv, NEW k \in KeyIds, RevokeKey(k)
  PROVE  /\ \A j \in KeyIds : deadAt'[j] = deadAt[j] \/ (j \in live /\ deadAt'[j] = now)
         /\ \A j \in KeyIds : j \in live \/ Gone(j) => j \in live' \/ Gone(j)'
         /\ \A j \in live' : ~ Gone(j)'
  <1>1. now # Never
    BY CacheTypes DEF CacheInv, PastInv
  <1>2. CASE UNCHANGED <<live, deadAt>>
    BY <1>2 DEF Gone, CacheInv, RevealedInv
  <1>3. CASE /\ live' = live \ {k}
             /\ deadAt' = [deadAt EXCEPT ![k] = IF k \in live THEN now ELSE @]
    <2>1. /\ \A j \in KeyIds : j # k => deadAt'[j] = deadAt[j]
          /\ deadAt'[k] = IF k \in live THEN now ELSE deadAt[k]
      BY <1>3 DEF TypeOK
    <2>2. live \subseteq KeyIds
      BY DEF TypeOK
    <2> QED
      BY <1>1, <1>3, <2>1, <2>2 DEF Gone, CacheInv, RevealedInv
  <1> QED
    BY <1>2, <1>3 DEF RevokeKey

\* A handler's step keeps what the cache may say.
LEMMA HandlerCache ==
  ASSUME KeyInv, CacheInv, NEW h \in Handlers,
         \/ \E i \in Identities : StartIssue(h, i) \/ StartRegenerate(h, i)
         \/ Lookup(h) \/ CreateKey(h) \/ InsertKey(h) \/ UndoCreate(h) \/ RetireOld(h)
  PROVE  CacheInv'
  <1> USE DEF KeyInv
  <1>1. UNCHANGED authVars /\ UNCHANGED now
    BY DEF StartIssue, StartRegenerate, Lookup, CreateKey, InsertKey, UndoCreate, RetireOld, authVars
  <1>2. ASSUME RevealedInv',
               \A k \in KeyIds : deadAt'[k] = deadAt[k] \/ (k \in live /\ deadAt'[k] = now)
        PROVE  CacheInv'
    BY <1>1, <1>2, DeletionBounded DEF CacheInv
  <1>3. \A g \in Handlers : g # h => pc'[g] = pc[g] /\ req'[g] = req[g]
    BY DEF StartIssue, StartRegenerate, Lookup, CreateKey, InsertKey, UndoCreate, RetireOld,
       Goto, Answer, TypeOK
  <1>4. CASE \/ \E i \in Identities : StartIssue(h, i) \/ StartRegenerate(h, i)
             \/ Lookup(h)
    <2>1. UNCHANGED <<live, revealed, deadAt>> /\ pc'[h] # "retire"
      BY <1>4 DEF StartIssue, StartRegenerate, Lookup, Goto, Answer, TypeOK
    <2>2. RevealedInv'
      BY <1>3, <2>1 DEF CacheInv, RevealedInv, Gone
    <2> QED
      BY <1>2, <2>1, <2>2
  <1>5. CASE CreateKey(h)
    <2>1. UNCHANGED <<revealed, deadAt>> /\ pc'[h] # "retire"
      BY <1>5 DEF CreateKey, Goto, Answer, TypeOK
    <2>2. live \subseteq live' /\ \A k \in live' : k \in live \/ Fresh(k)
      BY <1>5 DEF CreateKey
    <2>3. RevealedInv'
      BY <1>3, <2>1, <2>2 DEF CacheInv, RevealedInv, Gone, Fresh
    <2> QED
      BY <1>2, <2>1, <2>3
  <1>6. CASE InsertKey(h)
    <2>1. /\ UNCHANGED <<live, deadAt>> /\ req[h].new \in live
          /\ revealed' \subseteq revealed \cup {req[h].new}
          /\ pc'[h] = "retire" => req'[h] = req[h]
      BY <1>6 DEF InsertKey, Goto, Answer, TypeOK, RequestsOwnTheirKeys
    <2>2. RevealedInv'
      BY <1>3, <2>1 DEF CacheInv, RevealedInv, Gone
    <2> QED
      BY <1>2, <2>1, <2>2
  <1>7. CASE UndoCreate(h) \/ RetireOld(h)
    <2>1. PICK k \in KeyIds : RevokeKey(k)
      BY <1>7 DEF UndoCreate, RetireOld, TypeOK
    <2>2. /\ pc'[h] = "idle"
          /\ revealed' = revealed \/ (pc[h] = "retire" /\ revealed' = revealed \cup {req[h].new})
      BY <1>7 DEF UndoCreate, RetireOld, Goto, Answer, TypeOK
    <2>3. /\ \A j \in KeyIds : j \in live \/ Gone(j) => j \in live' \/ Gone(j)'
          /\ \A j \in live' : ~ Gone(j)'
          /\ \A j \in KeyIds : deadAt'[j] = deadAt[j] \/ (j \in live /\ deadAt'[j] = now)
      BY <2>1, RevokeEffect
    <2>4. \A j \in revealed' : j \in KeyIds /\ (j \in live \/ Gone(j))
      BY <2>2 DEF CacheInv, RevealedInv, TypeOK
    <2>5. \A g \in Handlers : pc[g] = "retire" =>
            req[g].new \in KeyIds /\ (req[g].new \in live \/ Gone(req[g].new))
      BY DEF CacheInv, RevealedInv, TypeOK
    <2>6. \A g \in Handlers : pc'[g] = "retire" => req'[g].new \in live' \/ Gone(req[g].new)'
      <3> SUFFICES ASSUME NEW g \in Handlers, pc'[g] = "retire"
                   PROVE  req'[g].new \in live' \/ Gone(req[g].new)'
        OBVIOUS
      <3>1. pc[g] = "retire" /\ req'[g] = req[g]
        BY <1>3, <2>2
      <3>2. PICK j \in KeyIds : j = req[g].new /\ (j \in live \/ Gone(j))
        BY <2>5, <3>1
      <3>3. j \in live' \/ Gone(j)'
        BY <2>3, <3>2
      <3> QED
        BY <3>1, <3>2, <3>3 DEF Gone
    <2>7. RevealedInv'
      BY <2>3, <2>4, <2>6 DEF RevealedInv
    <2> QED
      BY <1>2, <2>3, <2>7
  <1> QED
    BY <1>4, <1>5, <1>6, <1>7

\* A caller's step keeps what the cache may say.
LEMMA CallerCache ==
  ASSUME TypeOK, CacheInv, NEW c \in Callers,
         CacheAnswer(c) \/ \E k \in KeyIds : CacheHit(c, k) \/ VerifyKey(c, k)
  PROVE  CacheInv'
  <1> USE CacheTypes
  <1>0. UNCHANGED <<live, revealed, deadAt, pc, req, now>>
    BY DEF CacheHit, VerifyKey, CacheAnswer, keyVars
  <1>1. RevealedInv'
    BY <1>0 DEF CacheInv, RevealedInv, Gone
  <1>2. \A k \in KeyIds : Gone(k)' <=> Gone(k)
    BY <1>0 DEF Gone
  <1>3. ASSUME NEW k \in KeyIds, CacheHit(c, k) PROVE CacheInv'
    <2>1. /\ UNCHANGED <<cache, auth, misread>> /\ now < cache[k].until
          /\ \A j \in KeyIds : \/ accepted'[j] = accepted[j]
                               \/ j = k /\ cache[k].valid /\ accepted'[j] = now
      BY <1>3 DEF CacheHit, Cached, TypeOK
    <2>2. AnswerInv' /\ EntryInv'
      BY <1>0, <1>2, <2>1 DEF CacheInv, AnswerInv, EntryInv
    <2>3. cache[k].valid => now < deadAt[k] + UnkeyTTL + MaxDelay
      BY <2>1 DEF CacheInv, EntryInv
    <2>4. PastInv' /\ StaleAcceptanceBounded'
      BY <1>0, <2>1, <2>3 DEF CacheInv, PastInv, StaleAcceptanceBounded
    <2> QED
      BY <1>1, <2>2, <2>4 DEF CacheInv
  <1>4. ASSUME NEW k \in KeyIds, VerifyKey(c, k) PROVE CacheInv'
    <2>1. /\ UNCHANGED <<cache, accepted>> /\ k \in revealed
          /\ \/ UNCHANGED auth
             \/ Asked(c, k, k \in live)
             \/ Asked(c, k, FALSE) /\ now \in misread'[k]
          /\ \A j \in KeyIds : misread[j] \subseteq misread'[j]
      <3>1. k \in revealed
        BY <1>4 DEF VerifyKey
      <3>2. misread \in [KeyIds -> SUBSET Nat]
        BY DEF TypeOK
      <3>3. /\ UNCHANGED <<cache, accepted>>
            /\ \/ UNCHANGED <<auth, misread>>
               \/ Asked(c, k, k \in live) /\ UNCHANGED misread
               \/ Asked(c, k, FALSE) /\ misread' = [misread EXCEPT ![k] = @ \cup {now}]
        BY <1>4, VerifyEffect
      <3> QED
        BY <3>1, <3>2, <3>3
    <2>2. EntryInv' /\ PastInv' /\ StaleAcceptanceBounded'
      BY <1>0, <1>2, <2>1 DEF CacheInv, EntryInv, PastInv, StaleAcceptanceBounded
    <2>3. AnswerInv'
      <3>1. CASE UNCHANGED auth
        BY <1>0, <1>2, <2>1, <3>1 DEF CacheInv, AnswerInv
      <3>2. CASE Asked(c, k, k \in live)
        <4>1. \A d \in Callers : d # c => auth'[d] = auth[d]
          BY <3>2 DEF Asked, TypeOK
        <4>2. /\ auth'[c].key = k /\ auth'[c].at = now
              /\ auth'[c].valid <=> k \in live
          BY <3>2 DEF Asked, TypeOK
        <4>3. k \in live => now <= deadAt[k]
          BY DEF CacheInv, RevealedInv, PastInv, Gone
        <4>4. k \notin live => Gone(k)
          BY <2>1 DEF CacheInv, RevealedInv
        <4>5. /\ auth'[c].valid => auth'[c].at <= deadAt'[auth'[c].key]
              /\ ~ auth'[c].valid => deadAt'[auth'[c].key] # Never
          BY <1>0, <4>2, <4>3, <4>4 DEF Gone
        <4> QED
          BY <1>0, <1>2, <2>1, <4>1, <4>2, <4>5 DEF CacheInv, AnswerInv, Gone
      <3>3. CASE Asked(c, k, FALSE) /\ now \in misread'[k]
        <4>1. \A d \in Callers : d # c => auth'[d] = auth[d]
          BY <3>3 DEF Asked, TypeOK
        <4>2. auth'[c].key = k /\ auth'[c].at = now /\ ~ auth'[c].valid
          BY <3>3 DEF Asked, TypeOK
        <4> QED
          BY <1>0, <1>2, <2>1, <3>3, <4>1, <4>2 DEF CacheInv, AnswerInv
      <3> QED
        BY <2>1, <3>1, <3>2, <3>3
    <2> QED
      BY <1>1, <2>2, <2>3 DEF CacheInv
  <1>5. CASE CacheAnswer(c)
    <2>1. PICK a : a = auth[c]
      OBVIOUS
    <2>2. /\ a # IdleCall /\ auth'[c] = IdleCall
          /\ \A d \in Callers : d # c => auth'[d] = auth[d]
      BY <1>5, <2>1 DEF CacheAnswer, TypeOK
    <2>3. /\ a.key \in KeyIds /\ a.at \in Nat /\ a.at <= now /\ now <= a.at + MaxDelay
          /\ a.valid => a.at <= deadAt[a.key]
          /\ ~ a.valid => Gone(a.key) \/ a.at \in misread[a.key]
          /\ UNCHANGED misread
      BY <1>5, <2>1, <2>2 DEF CacheInv, AnswerInv, CacheAnswer
    <2>4. \A j \in KeyIds : \/ accepted'[j] = accepted[j]
                            \/ j = a.key /\ a.valid /\ accepted'[j] = now
      BY <1>5, <2>1 DEF CacheAnswer, TypeOK
    <2>5. \A j \in KeyIds :
            \/ cache'[j] = cache[j]
            \/ j = a.key /\ (cache'[j].valid <=> a.valid) /\ cache'[j].until = now + UnkeyTTL
      BY <1>5, <2>1 DEF CacheAnswer, TypeOK
    <2>6. AnswerInv'
      BY <1>0, <1>2, <2>2, <2>3 DEF CacheInv, AnswerInv
    <2>7. EntryInv'
      BY <1>0, <1>2, <2>3, <2>5 DEF CacheInv, EntryInv
    <2>8. a.valid => now < deadAt[a.key] + UnkeyTTL + MaxDelay
      BY <2>3
    <2>9. PastInv' /\ StaleAcceptanceBounded'
      BY <1>0, <2>3, <2>4, <2>8 DEF CacheInv, PastInv, StaleAcceptanceBounded
    <2> QED
      BY <1>1, <2>6, <2>7, <2>9 DEF CacheInv
  <1> QED
    BY <1>3, <1>4, <1>5

\* What the cache may say is preserved by every step.
LEMMA CacheStep == KeyInv /\ CacheInv /\ [Next]_vars => CacheInv'
  <1> SUFFICES ASSUME KeyInv, CacheInv, [Next]_vars PROVE CacheInv'
    OBVIOUS
  <1>0. TypeOK
    BY DEF KeyInv
  <1>1. CASE Tick
    <2>1. /\ UNCHANGED <<live, revealed, deadAt, pc, req, cache, auth, accepted, misread>>
          /\ now' = now + 1 /\ now < MaxClock
          /\ \A c \in Callers : auth[c] # IdleCall => now < auth[c].at + MaxDelay
      BY <1>1 DEF Tick, keyVars, authVars
    <2> QED
      BY <1>0, <2>1, CacheTypes DEF CacheInv, RevealedInv, AnswerInv, EntryInv, PastInv,
         StaleAcceptanceBounded, Gone
  <1>2. CASE Crash
    BY <1>2 DEF Crash, CacheInv, RevealedInv, AnswerInv, EntryInv, PastInv,
       StaleAcceptanceBounded, Gone
  <1>3. CASE UNCHANGED vars
    BY <1>3 DEF vars, keyVars, authVars, CacheInv, RevealedInv, AnswerInv, EntryInv, PastInv,
       StaleAcceptanceBounded, Gone
  <1>4. ASSUME NEW h \in Handlers,
               \/ \E i \in Identities : StartIssue(h, i) \/ StartRegenerate(h, i)
               \/ Lookup(h) \/ CreateKey(h) \/ InsertKey(h) \/ UndoCreate(h) \/ RetireOld(h)
        PROVE  CacheInv'
    BY <1>4, HandlerCache
  <1>5. ASSUME NEW c \in Callers,
               CacheAnswer(c) \/ \E k \in KeyIds : CacheHit(c, k) \/ VerifyKey(c, k)
        PROVE  CacheInv'
    BY <1>0, <1>5, CallerCache
  <1> QED
    BY <1>1, <1>2, <1>3, <1>4, <1>5 DEF Next

\* The invariants of the two stores and of the cache hold in every state.
THEOREM CacheInvariant == Spec => [](KeyInv /\ CacheInv)
  BY KeyInit, CacheInit, KeyStep, CacheStep, PTL DEF Spec

(* "caches the result for 30 s": whatever callers race with the revocation *)
(* of a key, it is accepted for the last time before the cache entry of an *)
(* answer that was on its way when Unkey deleted the key has expired.      *)
THEOREM RevokedKeysRefused == Spec => []StaleAcceptanceBounded
  <1>1. CacheInv => StaleAcceptanceBounded
    BY DEF CacheInv
  <1> QED
    BY <1>1, CacheInvariant, PTL

(* Whatever calls fail, are taken for refusals or are cached late, and     *)
(* however often the holder tries: the cache of the Auth middleware calls a *)
(* live key invalid no longer than one entry lasts after such a call.       *)
THEOREM LockoutEnds == Spec => []LockoutBounded
  <1>1. ASSUME TypeOK, CacheInv PROVE LockoutBounded
    <2> SUFFICES ASSUME NEW k \in live, now < cache[k].until, ~cache[k].valid
                 PROVE  \E t \in misread[k] : now < t + UnkeyTTL + MaxDelay
      BY DEF LockoutBounded, Cached
    <2>1. k \in KeyIds /\ ~ Gone(k)
      BY <1>1 DEF CacheInv, RevealedInv, TypeOK
    <2>2. cache[k].until > 0
      BY <1>1, <2>1, CacheTypes
    <2>3. PICK t \in misread[k] : cache[k].until <= t + UnkeyTTL + MaxDelay
      BY <1>1, <2>1, <2>2 DEF CacheInv, EntryInv
    <2>4. t \in Nat
      BY <1>1, <2>1, <2>3, CacheTypes
    <2> QED
      BY <1>1, <2>1, <2>3, <2>4, CacheTypes
  <1>2. KeyInv => TypeOK
    BY DEF KeyInv
  <1> QED
    BY <1>1, <1>2, CacheInvariant, PTL

(* Concurrent issue-key and regenerate-key requests of one identity leave  *)
(* it one active key, whichever of them read the registry first.           *)
THEOREM SingleActiveKey == Spec => []OneActiveKey
  BY KeysSafe, PTL

(* While every call works, no key stays valid at Unkey behind the back of  *)
(* the registry.                                                           *)
THEOREM NoStrayKey == Spec => []LiveKeysAccounted
  BY KeysSafe, PTL
=============================================================================
