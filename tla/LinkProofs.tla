---------------------------- MODULE LinkProofs ----------------------------
(***************************************************************************)
(* Theorems about MagicLink: for any number of addresses, tokens and       *)
(* concurrent request-link and verify calls the handlers implement         *)
(* OneTimeLink, no link is burnt, and the cooldown keeps its word.         *)
(***************************************************************************)
EXTENDS MagicLink, SequenceTheorems, TLAPS

-----------------------------------------------------------------------------
(* Types.                                                                  *)

\* The bound of the clock and the value after it are numbers.
LEMMA NeverNat == /\ Never \in Nat /\ MaxClock \in Nat /\ Never = MaxClock + 1
                  /\ MagicLinkTTL \in Nat /\ ResendCooldown \in Nat /\ SessionTTL \in Nat
                  /\ Hour \in Nat /\ MaxDelay \in Nat
  BY LinkAssumption DEF Never

\* A call that is not there is a call, and so is a row that is not there.
LEMMA IdleTyped ==
  IdleRequest \in RequestState /\ IdleVerify \in VerifyState /\ NoRow \in Token
  BY NeverNat DEF IdleRequest, IdleVerify, NoRow, Token, RequestState, VerifyState

\* The first state is well typed.
LEMMA InitType == Init => TypeOK
  <1> SUFFICES ASSUME Init PROVE TypeOK
    OBVIOUS
  <1>1. sessions \in [Tokens -> Seq(Session)]
    BY EmptySeq DEF Init
  <1> QED
    BY <1>1, IdleTyped, NeverNat
       DEF Init, TypeOK, RequestTypeOK, VerifyTypeOK, SharedTypeOK

\* The fields of a row.
LEMMA RowFields ==
  ASSUME NEW w \in Token
  PROVE  w.owner \in Emails \cup {NoEmail} /\ w.expires \in Nat /\ w.used \in 0..Never
  BY DEF Token

\* What a call does to the counters of failures.
LEMMA CountersTyped ==
  ASSUME faults \in Nat, lost \in Nat, Works \/ Fault \/ Lost
  PROVE  /\ faults' \in Nat /\ lost' \in Nat
         /\ faults' >= faults /\ lost' >= lost
  BY DEF Works, Fault, Lost

\* Every step of a request-link call keeps the types.
LEMMA RequestType ==
  ASSUME TypeOK, NEW r \in Requests, RequestStep(r)
  PROVE  TypeOK'
  <1> USE NeverNat, IdleTyped DEF TypeOK
  <1>1. ASSUME NEW i \in IPs, NEW e \in Emails, StartRequest(r, i, e) PROVE TypeOK'
    <2>1. Counted(i) \in [n : Nat, until : Nat]
      BY DEF Counted, RequestTypeOK, SharedTypeOK
    <2>2. ipCount' \in [IPs -> [n : Nat, until : Nat]]
      BY <1>1, <2>1 DEF StartRequest, RequestTypeOK
    <2>3. [email |-> e, token |-> NoToken, at |-> now] \in RequestState
      BY DEF RequestState, SharedTypeOK
    <2>4. RequestTypeOK'
      BY <1>1, <2>2, <2>3 DEF StartRequest, Admit, Refuse, Goto, RequestTypeOK
    <2>5. SharedTypeOK'
      BY <1>1, CountersTyped DEF StartRequest, SharedTypeOK
    <2> QED
      BY <1>1, <2>4, <2>5 DEF StartRequest, verifyVars, VerifyTypeOK
  <1>2. CASE CheckCooldown(r)
    <2>1. SharedTypeOK'
      BY <1>2, CountersTyped DEF CheckCooldown, SharedTypeOK
    <2>2. req' \in [Requests -> RequestState]
      BY <1>2 DEF CheckCooldown, Answer, Goto, RequestTypeOK
    <2>3. resendAt' \in [Emails -> Nat]
      BY <1>2 DEF CheckCooldown, RequestTypeOK, SharedTypeOK
    <2>4. RequestTypeOK'
      BY <1>2, <2>2, <2>3 DEF CheckCooldown, Answer, Goto, RequestTypeOK
    <2> QED
      BY <1>2, <2>1, <2>4 DEF CheckCooldown, verifyVars, VerifyTypeOK
  <1>3. CASE UpsertIdentity(r)
    <2>1. identity' \in [Emails -> {"none", "unverified", "verified"}]
      BY <1>3 DEF UpsertIdentity, SharedTypeOK
    <2>2. SharedTypeOK'
      BY <1>3, <2>1, CountersTyped DEF UpsertIdentity, SharedTypeOK
    <2>3. RequestTypeOK'
      BY <1>3 DEF UpsertIdentity, Answer, Goto, RequestTypeOK
    <2> QED
      BY <1>3, <2>2, <2>3 DEF UpsertIdentity, verifyVars, VerifyTypeOK
  <1>4. CASE InsertToken(r)
    <2>1. [owner |-> req[r].email, expires |-> now + MagicLinkTTL, used |-> Never] \in Token
      BY <1>4 DEF InsertToken, Token, RequestTypeOK, SharedTypeOK
    <2>2. tokens' \in [Tokens -> Token]
      BY <1>4, <2>1 DEF InsertToken, SharedTypeOK
    <2>3. SharedTypeOK'
      BY <1>4, <2>2, CountersTyped DEF InsertToken, SharedTypeOK
    <2>4. \A t \in Tokens : /\ [req[r] EXCEPT !.token = t] \in RequestState
                            /\ [req[r] EXCEPT !.token = t].email = req[r].email
                            /\ [req[r] EXCEPT !.token = t].token = t
      BY DEF RequestState, RequestTypeOK
    <2>5. /\ pc' \in [Requests -> {"idle", "cooldown", "upsert", "insert", "send"}]
          /\ req' \in [Requests -> RequestState]
      BY <1>4, <2>4 DEF InsertToken, Answer, Goto, RequestTypeOK
    <2>6. \A q \in Requests : q # r => pc'[q] = pc[q] /\ req'[q] = req[q]
      BY <1>4 DEF InsertToken, Answer, Goto, RequestTypeOK
    <2>7. pc'[r] # "idle" => req'[r].email \in Emails /\ req'[r].token \in Tokens
      <3>1. CASE Answer(r)
        BY <3>1 DEF Answer, Goto, RequestTypeOK
      <3>2. ASSUME NEW t \in Tokens, req' = [req EXCEPT ![r].token = t]
            PROVE  req'[r].email \in Emails /\ req'[r].token \in Tokens
        <4>1. req'[r] = [req[r] EXCEPT !.token = t]
          BY <3>2 DEF RequestTypeOK
        <4> QED
          BY <1>4, <2>4, <4>1 DEF InsertToken, RequestTypeOK
      <3> QED
        BY <1>4, <3>1, <3>2 DEF InsertToken
    <2>8. RequestTypeOK'
      BY <1>4, <2>5, <2>6, <2>7 DEF InsertToken, RequestTypeOK
    <2> QED
      BY <1>4, <2>3, <2>8 DEF InsertToken, verifyVars, VerifyTypeOK
  <1>5. CASE SendMagicLink(r)
    <2>1. SharedTypeOK'
      BY <1>5, CountersTyped DEF SendMagicLink, SharedTypeOK
    <2>2. sent' \in [Tokens -> 0..Never]
      BY <1>5 DEF SendMagicLink, RequestTypeOK, SharedTypeOK
    <2>3. RequestTypeOK'
      BY <1>5, <2>2 DEF SendMagicLink, Answer, Goto, RequestTypeOK
    <2> QED
      BY <1>5, <2>1, <2>3 DEF SendMagicLink, verifyVars, VerifyTypeOK
  <1> QED
    BY <1>1, <1>2, <1>3, <1>4, <1>5 DEF RequestStep

\* Every step of a verify call keeps the types.
LEMMA VerifyType ==
  ASSUME TypeOK, NEW v \in Verifiers, VerifyStep(v)
  PROVE  TypeOK'
  <1> USE NeverNat, IdleTyped DEF TypeOK
  <1>1. ASSUME NEW t \in Tokens, StartVerify(v, t) PROVE TypeOK'
    <2>1. [token |-> t, at |-> now, usedAt |-> Never] \in VerifyState
      BY DEF VerifyState, SharedTypeOK
    <2>2. VerifyTypeOK'
      BY <1>1, <2>1 DEF StartVerify, VGoto, VerifyTypeOK
    <2> QED
      BY <1>1, <2>2 DEF StartVerify, requestVars, RequestTypeOK, SharedTypeOK
  <1>2. CASE SelectForUpdate(v)
    <2>1. SharedTypeOK'
      BY <1>2, CountersTyped DEF SelectForUpdate, SharedTypeOK
    <2>2. VerifyTypeOK'
      BY <1>2 DEF SelectForUpdate, VGoto, Redirect, VerifyTypeOK
    <2> QED
      BY <1>2, <2>1, <2>2 DEF SelectForUpdate, requestVars, RequestTypeOK
  <1>3. CASE MarkUsed(v)
    <2>1. SharedTypeOK'
      BY <1>3, CountersTyped DEF MarkUsed, SharedTypeOK
    <2>2. /\ [ver[v] EXCEPT !.usedAt = now] \in VerifyState
          /\ [ver[v] EXCEPT !.usedAt = now].token = ver[v].token
      <3>1. ver[v] \in VerifyState /\ now \in 0..Never
        BY DEF VerifyTypeOK, SharedTypeOK
      <3> QED
        BY <3>1 DEF VerifyState
    <2>3. VerifyTypeOK'
      BY <1>3, <2>2 DEF MarkUsed, VGoto, Redirect, VerifyTypeOK
    <2> QED
      BY <1>3, <2>1, <2>3 DEF MarkUsed, requestVars, RequestTypeOK
  <1>4. CASE CommitToken(v)
    <2>1. \A w \in Token : [w EXCEPT !.used = ver[v].usedAt] \in Token
      BY DEF Token, VerifyTypeOK, VerifyState
    <2>2. tokens' \in [Tokens -> Token]
      BY <1>4, <2>1 DEF CommitToken, Consumed, SharedTypeOK
    <2>3. SharedTypeOK'
      BY <1>4, <2>2, CountersTyped DEF CommitToken, SharedTypeOK
    <2>4. VerifyTypeOK'
      BY <1>4 DEF CommitToken, VGoto, Redirect, VerifyTypeOK
    <2> QED
      BY <1>4, <2>3, <2>4 DEF CommitToken, requestVars, RequestTypeOK
  <1>5. CASE MarkEmailVerified(v)
    <2>1. identity' \in [Emails -> {"none", "unverified", "verified"}]
      BY <1>5 DEF MarkEmailVerified, SharedTypeOK
    <2>2. SharedTypeOK'
      BY <1>5, <2>1, CountersTyped DEF MarkEmailVerified, SharedTypeOK
    <2>3. VerifyTypeOK'
      BY <1>5 DEF MarkEmailVerified, VGoto, Redirect, VerifyTypeOK
    <2> QED
      BY <1>5, <2>2, <2>3 DEF MarkEmailVerified, requestVars, RequestTypeOK
  <1>6. CASE SetSessionCookie(v)
    <2> DEFINE t == ver[v].token
               s == [email |-> tokens[t].owner, until |-> now + SessionTTL]
    <2>1. SharedTypeOK'
      BY <1>6, CountersTyped DEF SetSessionCookie, SharedTypeOK
    <2>2. t \in Tokens /\ tokens[t] \in Token /\ sessions[t] \in Seq(Session)
      BY <1>6 DEF SetSessionCookie, VerifyTypeOK, SharedTypeOK
    <2>3. s \in Session
      BY <2>2, RowFields DEF Session, SharedTypeOK
    <2>4. Append(sessions[t], s) \in Seq(Session)
      BY <2>2, <2>3, AppendProperties
    <2>5. sessions' \in [Tokens -> Seq(Session)]
      BY <1>6, <2>4 DEF SetSessionCookie, VerifyTypeOK
    <2>6. VerifyTypeOK'
      BY <1>6, <2>5 DEF SetSessionCookie, VGoto, Redirect, VerifyTypeOK
    <2> QED
      BY <1>6, <2>1, <2>6 DEF SetSessionCookie, requestVars, RequestTypeOK
  <1> QED
    BY <1>1, <1>2, <1>3, <1>4, <1>5, <1>6 DEF VerifyStep

\* TypeOK is an invariant of every step.
THEOREM LinkTypeStep == TypeOK /\ [Next]_vars => TypeOK'
  <1> SUFFICES ASSUME TypeOK, [Next]_vars PROVE TypeOK'
    OBVIOUS
  <1>1. CASE Restart
    <2>1. SharedTypeOK'
      BY <1>1, CountersTyped DEF Restart, TypeOK, SharedTypeOK
    <2> QED
      BY <1>1, <2>1, IdleTyped DEF Restart, TypeOK, RequestTypeOK, VerifyTypeOK
  <1>2. CASE Tick
    BY <1>2, NeverNat
       DEF Tick, TypeOK, RequestTypeOK, VerifyTypeOK, SharedTypeOK, requestVars, verifyVars
  <1>3. CASE UNCHANGED vars
    BY <1>3 DEF vars, TypeOK, RequestTypeOK, VerifyTypeOK, SharedTypeOK, requestVars, verifyVars
  <1> QED
    BY <1>1, <1>2, <1>3, RequestType, VerifyType DEF Next

-----------------------------------------------------------------------------
(* The life of a link: the inductive invariant of the refinement.          *)

Minted(t) == tokens[t].owner \in Emails

InTransaction(v) == vpc[v] \in {"update", "commit"}

Opening(v) == vpc[v] \in {"mark", "open"}

\* A token that was mailed, or is about to be, has its row.
MailInv ==
  /\ \A r \in Requests : pc[r] = "send" => tokens[req[r].token].owner = req[r].email
  /\ \A t \in Tokens : sent[t] # Never => Minted(t)

\* What a verify call knows about its token at each control point.
VerifierInv ==
  \A v \in Verifiers : LET t == ver[v].token IN
    /\ vpc[v] # "idle" => Minted(t)
    /\ InTransaction(v) => tokens[t].used = Never
    /\ vpc[v] = "commit" => ver[v].usedAt # Never /\ ver[v].usedAt < tokens[t].expires
    /\ Opening(v) => tokens[t].used # Never /\ sessions[t] = <<>>

\* The row lock admits one transaction per token, and one call opens its session.
ExclusiveInv ==
  \A v, w \in Verifiers : v # w /\ ver[v].token = ver[w].token =>
    ~ (InTransaction(v) /\ InTransaction(w)) /\ ~ (Opening(v) /\ Opening(w))

\* A token opens nothing before it is used, and is used in its term.
RowInv ==
  \A t \in Tokens :
    /\ tokens[t].used = Never => sessions[t] = <<>>
    /\ tokens[t].used # Never => tokens[t].used < tokens[t].expires

LinkInv == MailInv /\ VerifierInv /\ ExclusiveInv /\ RowInv


\* The first state of a link.
LEMMA LinkInit0 == Init => LinkInv
  BY LinkAssumption DEF Init, LinkInv, MailInv, VerifierInv, ExclusiveInv, RowInv,
     InTransaction, Opening, NoRow

\* What the insert of a token does to the table.
LEMMA MintEffect ==
  ASSUME TypeOK, NEW r \in Requests, pc[r] # "idle",
         NEW t \in Tokens, tokens[t] = NoRow,
         tokens' = [tokens EXCEPT ![t] = [owner |-> req[r].email,
                      expires |-> now + MagicLinkTTL, used |-> Never]]
  PROVE  /\ tokens'[t].owner = req[r].email /\ tokens'[t].used = Never
         /\ req[r].email \in Emails
         /\ tokens[t].owner = NoEmail /\ tokens[t].used = Never
         /\ ~ Minted(t)
         /\ \A u \in Tokens : u # t => tokens'[u] = tokens[u]
  BY LinkAssumption DEF TypeOK, RequestTypeOK, SharedTypeOK, NoRow, Minted

\* What the commit of a verify call does to the table.
LEMMA ConsumeEffect ==
  ASSUME TypeOK, NEW v \in Verifiers, vpc[v] # "idle", tokens' = Consumed(v),
         NEW t, t = ver[v].token
  PROVE  /\ t \in Tokens
         /\ tokens'[t].used = ver[v].usedAt
         /\ tokens'[t].owner = tokens[t].owner /\ tokens'[t].expires = tokens[t].expires
         /\ \A u \in Tokens : u # t => tokens'[u] = tokens[u]
  <1>1. t \in Tokens /\ tokens \in [Tokens -> Token]
    BY DEF TypeOK, VerifyTypeOK, SharedTypeOK
  <1>2. tokens'[t] = [tokens[t] EXCEPT !.used = ver[v].usedAt]
    BY <1>1 DEF Consumed
  <1>3. tokens[t] \in Token
    BY <1>1
  <1> QED
    BY <1>1, <1>2, <1>3 DEF Consumed, Token

\* A verify call moves one control point; the others stay where they are.
LEMMA VerifierFrame ==
  ASSUME TypeOK, NEW v \in Verifiers, VerifyStep(v)
  PROVE  /\ UNCHANGED <<requestVars, now>>
         /\ \A w \in Verifiers : w # v => vpc'[w] = vpc[w] /\ ver'[w] = ver[w]
         /\ faults' >= faults /\ lost' >= lost /\ faults \in Nat /\ lost \in Nat
  <1>1. /\ UNCHANGED <<requestVars, now>>
        /\ \A w \in Verifiers : w # v => vpc'[w] = vpc[w] /\ ver'[w] = ver[w]
    BY DEF VerifyStep, StartVerify, SelectForUpdate, MarkUsed, CommitToken, MarkEmailVerified,
           SetSessionCookie, VGoto, Redirect, TypeOK, VerifyTypeOK
  <1>2. Works \/ Fault \/ Lost
    BY DEF VerifyStep, StartVerify, SelectForUpdate, MarkUsed, CommitToken, MarkEmailVerified,
           SetSessionCookie, Works
  <1> QED
    BY <1>1, <1>2, CountersTyped DEF TypeOK, SharedTypeOK

\* A request-link call moves one control point, and touches no verify call.
LEMMA RequestFrame ==
  ASSUME TypeOK, NEW r \in Requests, RequestStep(r)
  PROVE  /\ UNCHANGED <<verifyVars, now>>
         /\ \A q \in Requests : q # r => pc'[q] = pc[q] /\ req'[q] = req[q]
         /\ faults' >= faults /\ lost' >= lost /\ faults \in Nat /\ lost \in Nat
  <1>1. /\ UNCHANGED <<verifyVars, now>>
        /\ \A q \in Requests : q # r => pc'[q] = pc[q] /\ req'[q] = req[q]
    BY DEF RequestStep, StartRequest, Admit, Refuse, CheckCooldown, UpsertIdentity, InsertToken,
           SendMagicLink, Goto, Answer, TypeOK, RequestTypeOK
  <1>2. Works \/ Fault \/ Lost
    BY DEF RequestStep, StartRequest, CheckCooldown, UpsertIdentity, InsertToken, SendMagicLink
  <1> QED
    BY <1>1, <1>2, CountersTyped DEF TypeOK, SharedTypeOK

\* Every step of a request-link call keeps the life of every link.
LEMMA RequestLinkInv ==
  ASSUME TypeOK, LinkInv, NEW r \in Requests, RequestStep(r)
  PROVE  LinkInv'
  <1>0. UNCHANGED <<vpc, ver, sessions>>
    BY RequestFrame DEF verifyVars
  <1>1. ASSUME UNCHANGED tokens PROVE VerifierInv' /\ ExclusiveInv' /\ RowInv'
    BY <1>0, <1>1 DEF LinkInv, VerifierInv, ExclusiveInv, RowInv, InTransaction, Opening, Minted
  <1>2. ASSUME UNCHANGED <<tokens, sent>>, pc'[r] # "send" PROVE LinkInv'
    <2>1. MailInv'
      BY <1>2, RequestFrame DEF LinkInv, MailInv, Minted
    <2> QED
      BY <1>1, <1>2, <2>1 DEF LinkInv
  <1>3. CASE \E i \in IPs, e \in Emails : StartRequest(r, i, e)
    BY <1>2, <1>3 DEF StartRequest, Admit, Refuse, Goto, TypeOK, RequestTypeOK
  <1>4. CASE CheckCooldown(r)
    BY <1>2, <1>4 DEF CheckCooldown, Answer, Goto, TypeOK, RequestTypeOK
  <1>5. CASE UpsertIdentity(r)
    BY <1>2, <1>5 DEF UpsertIdentity, Answer, Goto, TypeOK, RequestTypeOK
  <1>6. CASE InsertToken(r)
    <2>1. CASE Fault /\ Answer(r) /\ UNCHANGED tokens
      BY <1>2, <1>6, <2>1 DEF InsertToken, Answer, Goto, TypeOK, RequestTypeOK
    <2>2. ASSUME NEW t \in Tokens, tokens[t] = NoRow,
                 tokens' = [tokens EXCEPT ![t] = [owner |-> req[r].email,
                              expires |-> now + MagicLinkTTL, used |-> Never]],
                 req' = [req EXCEPT ![r].token = t]
          PROVE  LinkInv'
      <3>1. /\ tokens'[t].owner = req[r].email /\ tokens'[t].used = Never
            /\ req[r].email \in Emails
            /\ tokens[t].used = Never /\ ~ Minted(t)
            /\ \A u \in Tokens : u # t => tokens'[u] = tokens[u]
        BY <1>6, <2>2, MintEffect DEF InsertToken
      <3>2. \A v \in Verifiers : vpc[v] # "idle" => ver[v].token \in Tokens /\ ver[v].token # t
        BY <3>1 DEF LinkInv, VerifierInv, TypeOK, VerifyTypeOK
      <3>3. VerifierInv'
        BY <1>0, <3>1, <3>2 DEF LinkInv, VerifierInv, InTransaction, Opening, Minted
      <3>4. ExclusiveInv'
        BY <1>0 DEF LinkInv, ExclusiveInv, InTransaction, Opening
      <3>5. RowInv'
        BY <1>0, <3>1 DEF LinkInv, RowInv
      <3>6. req'[r].token = t /\ req'[r].email = req[r].email
        <4>1. req'[r] = [req[r] EXCEPT !.token = t] /\ req[r] \in RequestState
          BY <2>2 DEF TypeOK, RequestTypeOK
        <4> QED
          BY <4>1 DEF RequestState
      <3>7. \A q \in Requests : q # r /\ pc[q] = "send" =>
               req[q].token \in Tokens /\ req[q].email \in Emails
        BY DEF TypeOK, RequestTypeOK
      <3>8. \A q \in Requests : q # r /\ pc[q] = "send" => req[q].token # t
        BY <3>1, <3>7 DEF LinkInv, MailInv, Minted
      <3>9. UNCHANGED sent
        BY <1>6 DEF InsertToken
      <3>10. MailInv'
        BY <3>1, <3>6, <3>7, <3>8, <3>9, RequestFrame DEF LinkInv, MailInv, Minted
      <3> QED
        BY <3>3, <3>4, <3>5, <3>10 DEF LinkInv
    <2> QED
      BY <1>6, <2>1, <2>2 DEF InsertToken
  <1>7. CASE SendMagicLink(r)
    <2>1. UNCHANGED tokens /\ pc'[r] = "idle" /\ pc[r] = "send"
      BY <1>7 DEF SendMagicLink, Answer, Goto, TypeOK, RequestTypeOK
    <2>2. req[r].token \in Tokens /\ Minted(req[r].token)
      BY <2>1 DEF LinkInv, MailInv, Minted, TypeOK, RequestTypeOK
    <2>3. \A t \in Tokens : sent'[t] # sent[t] => t = req[r].token
      BY <1>7 DEF SendMagicLink, TypeOK, RequestTypeOK
    <2>4. MailInv'
      BY <2>1, <2>2, <2>3, RequestFrame DEF LinkInv, MailInv, Minted
    <2> QED
      BY <1>1, <2>1, <2>4 DEF LinkInv
  <1> QED
    BY <1>3, <1>4, <1>5, <1>6, <1>7 DEF RequestStep

\* Every step of a verify call keeps the life of every link.
LEMMA VerifyLinkInv ==
  ASSUME TypeOK, LinkInv, NEW v \in Verifiers, VerifyStep(v)
  PROVE  LinkInv'
  <1> USE DEF InTransaction, Opening
  <1>0. UNCHANGED <<pc, req, sent>>
    BY VerifierFrame DEF requestVars
  <1>1. ASSUME UNCHANGED <<tokens, sessions>>, vpc'[v] = "idle" PROVE LinkInv'
    <2>1. MailInv' /\ RowInv'
      BY <1>0, <1>1 DEF LinkInv, MailInv, RowInv, Minted
    <2>2. VerifierInv'
      BY <1>1, VerifierFrame DEF LinkInv, VerifierInv, Minted
    <2>3. ExclusiveInv'
      BY <1>1, VerifierFrame DEF LinkInv, ExclusiveInv
    <2> QED
      BY <2>1, <2>2, <2>3 DEF LinkInv
  <1>2. ASSUME NEW t \in Tokens, StartVerify(v, t) PROVE LinkInv'
    <2>1. UNCHANGED <<tokens, sessions>> /\ vpc'[v] = "select" /\ ver'[v].token = t /\ Minted(t)
      BY <1>2 DEF StartVerify, VGoto, TypeOK, VerifyTypeOK, LinkInv, MailInv
    <2>2. MailInv' /\ RowInv'
      BY <1>0, <2>1 DEF LinkInv, MailInv, RowInv, Minted
    <2>3. VerifierInv'
      BY <2>1, VerifierFrame DEF LinkInv, VerifierInv, Minted
    <2>4. ExclusiveInv'
      BY <2>1, VerifierFrame DEF LinkInv, ExclusiveInv
    <2> QED
      BY <2>2, <2>3, <2>4 DEF LinkInv
  <1>3. CASE SelectForUpdate(v)
    <2> DEFINE t == ver[v].token
    <2>1. CASE Redirect(v)
      BY <1>1, <1>3, <2>1 DEF SelectForUpdate, Redirect, VGoto, TypeOK, VerifyTypeOK
    <2>2. CASE RowFree(v, t) /\ Unused(t) /\ VGoto(v, "update") /\ UNCHANGED ver
      <3>1. UNCHANGED <<tokens, sessions, ver>> /\ vpc'[v] = "update" /\ vpc[v] = "select"
        BY <1>3, <2>2 DEF SelectForUpdate, VGoto, TypeOK, VerifyTypeOK
      <3>2. MailInv' /\ RowInv'
        BY <1>0, <3>1 DEF LinkInv, MailInv, RowInv, Minted
      <3>3. VerifierInv'
        BY <2>2, <3>1, VerifierFrame DEF LinkInv, VerifierInv, Minted, Unused
      <3>4. ExclusiveInv'
        BY <2>2, <3>1, VerifierFrame DEF LinkInv, ExclusiveInv, RowFree
      <3> QED
        BY <3>2, <3>3, <3>4 DEF LinkInv
    <2> QED
      BY <1>3, <2>1, <2>2 DEF SelectForUpdate
  <1>4. CASE MarkUsed(v)
    <2> DEFINE t == ver[v].token
    <2>1. CASE Redirect(v)
      BY <1>1, <1>4, <2>1 DEF MarkUsed, Redirect, VGoto, TypeOK, VerifyTypeOK
    <2>2. CASE InTerm(t) /\ VGoto(v, "commit") /\ ver' = [ver EXCEPT ![v].usedAt = now]
      <3>1. UNCHANGED <<tokens, sessions>> /\ vpc'[v] = "commit" /\ vpc[v] = "update"
        BY <1>4, <2>2 DEF MarkUsed, VGoto, TypeOK, VerifyTypeOK
      <3>2. ver'[v].token = ver[v].token /\ ver'[v].usedAt = now
        <4>1. ver'[v] = [ver[v] EXCEPT !.usedAt = now] /\ ver[v] \in VerifyState
          BY <2>2 DEF TypeOK, VerifyTypeOK
        <4> QED
          BY <4>1 DEF VerifyState
      <3>3. now # Never
        BY NeverNat DEF TypeOK, SharedTypeOK
      <3>4. MailInv' /\ RowInv'
        BY <1>0, <3>1 DEF LinkInv, MailInv, RowInv, Minted
      <3>5. VerifierInv'
        BY <2>2, <3>1, <3>2, <3>3, VerifierFrame DEF LinkInv, VerifierInv, Minted, InTerm
      <3>6. ExclusiveInv'
        BY <3>1, <3>2, VerifierFrame DEF LinkInv, ExclusiveInv
      <3> QED
        BY <3>4, <3>5, <3>6 DEF LinkInv
    <2> QED
      BY <1>4, <2>1, <2>2 DEF MarkUsed
  <1>5. CASE CommitToken(v)
    <2> DEFINE t == ver[v].token
    <2>1. CASE Redirect(v) /\ UNCHANGED tokens
      BY <1>1, <1>5, <2>1 DEF CommitToken, Redirect, VGoto, TypeOK, VerifyTypeOK
    <2>2. CASE tokens' = Consumed(v)
      <3>1. vpc[v] = "commit" /\ UNCHANGED sessions
        BY <1>5 DEF CommitToken
      <3>2. PICK l : l = t
        OBVIOUS
      <3>3. /\ l \in Tokens /\ tokens'[l].used = ver[v].usedAt
            /\ tokens'[l].owner = tokens[l].owner /\ tokens'[l].expires = tokens[l].expires
            /\ \A u \in Tokens : u # l => tokens'[u] = tokens[u]
        BY <2>2, <3>1, <3>2, ConsumeEffect
      <3>4. /\ tokens[l].used = Never /\ sessions[l] = <<>>
            /\ ver[v].usedAt # Never /\ ver[v].usedAt < tokens[l].expires
        BY <3>1, <3>2, <3>3 DEF LinkInv, VerifierInv, RowInv
      <3>5. \/ vpc'[v] = "idle"
            \/ vpc'[v] = "mark" /\ ver'[v] = ver[v]
        BY <1>5, <3>1 DEF CommitToken, VGoto, Redirect, TypeOK, VerifyTypeOK
      <3>6. \A w \in Verifiers : w # v /\ ver[w].token = l => ~ InTransaction(w) /\ ~ Opening(w)
        BY <3>1, <3>2, <3>3, <3>4 DEF LinkInv, ExclusiveInv, VerifierInv
      <3>7. \A w \in Verifiers : vpc[w] # "idle" => ver[w].token \in Tokens
        BY DEF TypeOK, VerifyTypeOK
      <3>8. RowInv'
        BY <3>1, <3>3, <3>4 DEF LinkInv, RowInv
      <3>9. MailInv'
        <4>1. \A u \in Tokens : tokens'[u].owner = tokens[u].owner
          BY <3>3
        <4>2. \A q \in Requests : pc[q] = "send" => req[q].token \in Tokens
          BY DEF TypeOK, RequestTypeOK
        <4> QED
          BY <1>0, <4>1, <4>2 DEF LinkInv, MailInv, Minted
      <3>10. ASSUME NEW w \in Verifiers, w # v
             PROVE  /\ vpc'[w] # "idle" => Minted(ver[w].token)'
                    /\ InTransaction(w)' => tokens'[ver'[w].token].used = Never
                    /\ vpc'[w] = "commit" =>
                         ver'[w].usedAt # Never /\ ver'[w].usedAt < tokens'[ver'[w].token].expires
                    /\ Opening(w)' =>
                         tokens'[ver'[w].token].used # Never /\ sessions'[ver'[w].token] = <<>>
        <4>1. vpc'[w] = vpc[w] /\ ver'[w] = ver[w]
          BY <3>10, VerifierFrame
        <4>2. CASE ver[w].token = l
          BY <3>3, <3>6, <3>10, <4>1, <4>2 DEF LinkInv, VerifierInv, Minted
        <4>3. CASE ver[w].token # l
          BY <3>1, <3>3, <3>7, <4>1, <4>3 DEF LinkInv, VerifierInv, Minted
        <4> QED
          BY <4>2, <4>3
      <3>11. /\ vpc'[v] # "idle" => Minted(ver[v].token)'
             /\ Opening(v)' =>
                  tokens'[ver'[v].token].used # Never /\ sessions'[ver'[v].token] = <<>>
        BY <3>1, <3>2, <3>3, <3>4, <3>5 DEF LinkInv, VerifierInv, Minted
      <3>12. VerifierInv'
        BY <3>5, <3>10, <3>11 DEF VerifierInv
      <3>13. ExclusiveInv'
        BY <3>2, <3>5, <3>6, VerifierFrame DEF LinkInv, ExclusiveInv
      <3> QED
        BY <3>8, <3>9, <3>12, <3>13 DEF LinkInv
    <2> QED
      BY <1>5, <2>1, <2>2 DEF CommitToken
  <1>6. CASE MarkEmailVerified(v)
    <2>1. CASE Redirect(v)
      BY <1>1, <1>6, <2>1 DEF MarkEmailVerified, Redirect, VGoto, TypeOK, VerifyTypeOK
    <2>2. CASE VGoto(v, "open") /\ UNCHANGED ver
      <3>1. UNCHANGED <<tokens, sessions, ver>> /\ vpc'[v] = "open" /\ vpc[v] = "mark"
        BY <1>6, <2>2 DEF MarkEmailVerified, VGoto, TypeOK, VerifyTypeOK
      <3>2. MailInv' /\ RowInv'
        BY <1>0, <3>1 DEF LinkInv, MailInv, RowInv, Minted
      <3>3. VerifierInv'
        BY <3>1, VerifierFrame DEF LinkInv, VerifierInv, Minted
      <3>4. ExclusiveInv'
        BY <3>1, VerifierFrame DEF LinkInv, ExclusiveInv
      <3> QED
        BY <3>2, <3>3, <3>4 DEF LinkInv
    <2> QED
      BY <1>6, <2>1, <2>2 DEF MarkEmailVerified
  <1>7. CASE SetSessionCookie(v)
    <2> DEFINE t == ver[v].token
    <2>1. vpc[v] = "open" /\ vpc'[v] = "idle" /\ UNCHANGED tokens
      BY <1>7 DEF SetSessionCookie, Redirect, VGoto, TypeOK, VerifyTypeOK
    <2>2. PICK l : l = t
      OBVIOUS
    <2>3. \A u \in Tokens : u # l => sessions'[u] = sessions[u]
      BY <1>7, <2>2 DEF SetSessionCookie, TypeOK, VerifyTypeOK
    <2>4. \A w \in Verifiers : w # v /\ ver[w].token = l => ~ Opening(w)
      BY <2>1, <2>2 DEF LinkInv, ExclusiveInv
    <2>5. tokens[l].used # Never
      BY <2>1, <2>2 DEF LinkInv, VerifierInv
    <2>6. \A w \in Verifiers : vpc[w] # "idle" => ver[w].token \in Tokens
      BY DEF TypeOK, VerifyTypeOK
    <2>7. MailInv'
      BY <1>0, <2>1 DEF LinkInv, MailInv, Minted
    <2>8. RowInv'
      BY <2>1, <2>3, <2>5 DEF LinkInv, RowInv
    <2>9. VerifierInv'
      BY <2>1, <2>3, <2>4, <2>6, VerifierFrame DEF LinkInv, VerifierInv, Minted
    <2>10. ExclusiveInv'
      BY <2>1, VerifierFrame DEF LinkInv, ExclusiveInv
    <2> QED
      BY <2>7, <2>8, <2>9, <2>10 DEF LinkInv
  <1> QED
    BY <1>2, <1>3, <1>4, <1>5, <1>6, <1>7 DEF VerifyStep

\* LinkInv is an invariant of every step.
LEMMA LinkInvStep == TypeOK /\ LinkInv /\ [Next]_vars => LinkInv'
  <1> SUFFICES ASSUME TypeOK, LinkInv, [Next]_vars PROVE LinkInv'
    OBVIOUS
  <1>1. CASE Restart
    BY <1>1 DEF Restart, LinkInv, MailInv, VerifierInv, ExclusiveInv, RowInv,
       InTransaction, Opening, Minted
  <1>2. CASE Tick \/ UNCHANGED vars
    BY <1>2 DEF Tick, vars, requestVars, verifyVars, LinkInv, MailInv, VerifierInv, ExclusiveInv,
       RowInv, InTransaction, Opening, Minted
  <1> QED
    BY <1>1, <1>2, RequestLinkInv, VerifyLinkInv DEF Next

-----------------------------------------------------------------------------
(* The refinement.                                                         *)

\* The addresses of no cookie.
LEMMA NoCookieEmails == [k \in DOMAIN <<>> |-> <<>>[k].email] = <<>>
  OBVIOUS

\* The address of one cookie.
LEMMA OneCookieEmail ==
  ASSUME NEW c, NEW o, c.email = o
  PROVE  [k \in DOMAIN <<c>> |-> <<c>>[k].email] = <<o>>
  OBVIOUS

\* No token is used after its term.
LEMMA NoneLate ==
  ASSUME NEW rows \in [Tokens -> Token],
         \A t \in Tokens : rows[t].used # Never => rows[t].used < rows[t].expires
  PROVE  {t \in Tokens : rows[t].used # Never /\ rows[t].used >= rows[t].expires} = {}
  <1> SUFFICES ASSUME NEW t \in Tokens, rows[t].used # Never
               PROVE  ~ (rows[t].used >= rows[t].expires)
    OBVIOUS
  <1>1. rows[t].used \in Nat /\ rows[t].expires \in Nat
    BY NeverNat, RowFields
  <1> QED
    BY <1>1

\* The initial states of the handlers are initial states of the one-time link.
LEMMA LinkRefinesInit == Init => Link!LinkInit
  <1> SUFFICES ASSUME Init PROVE Link!LinkInit
    OBVIOUS
  <1>1. \A t \in Tokens : tokens[t].owner = NoEmail /\ tokens[t].used = Never /\ sessions[t] = <<>>
    BY DEF Init, NoRow
  <1> QED
    BY <1>1, NoCookieEmails DEF Link!LinkInit

\* Nobody is accepted late, before a step or after it.
LEMMA LateEmpty ==
  ASSUME TypeOK, TypeOK', LinkInv, LinkInv'
  PROVE  /\ {t \in Tokens : tokens[t].used # Never /\ tokens[t].used >= tokens[t].expires} = {}
         /\ {t \in Tokens : tokens'[t].used # Never /\ tokens'[t].used >= tokens'[t].expires} = {}
  <1>1. tokens \in [Tokens -> Token] /\ tokens' \in [Tokens -> Token]
    BY DEF TypeOK, SharedTypeOK
  <1>2. \A t \in Tokens : tokens[t].used # Never => tokens[t].used < tokens[t].expires
    BY DEF LinkInv, RowInv
  <1>3. \A t \in Tokens : tokens'[t].used # Never => tokens'[t].used < tokens'[t].expires
    BY DEF LinkInv, RowInv
  <1> QED
    BY <1>1, <1>2, <1>3, NoneLate

\* A step that leaves the owners, the used tokens and the sessions alone is no step of a link.
LEMMA LinkStutters ==
  ASSUME TypeOK, TypeOK', LinkInv, LinkInv', UNCHANGED <<tokens, sessions>>
  PROVE  UNCHANGED Link!linkVars
  BY DEF Link!linkVars

\* The insert of a token mints a link.
LEMMA InsertMints ==
  ASSUME TypeOK, TypeOK', LinkInv, LinkInv', NEW r \in Requests, InsertToken(r)
  PROVE  [Link!LinkNext]_(Link!linkVars)
  <1>1. CASE UNCHANGED tokens
    BY <1>1, LinkStutters DEF InsertToken, verifyVars
  <1>2. ASSUME NEW t \in Tokens, tokens[t] = NoRow,
               tokens' = [tokens EXCEPT ![t] = [owner |-> req[r].email,
                            expires |-> now + MagicLinkTTL, used |-> Never]]
        PROVE  Link!MintLink(t)
    <2>1. /\ tokens'[t].owner = req[r].email /\ tokens'[t].used = Never
          /\ req[r].email \in Emails /\ tokens[t].owner = NoEmail /\ tokens[t].used = Never
          /\ \A u \in Tokens : u # t => tokens'[u] = tokens[u]
      BY <1>2, MintEffect DEF InsertToken
    <2>2. UNCHANGED sessions
      BY DEF InsertToken, verifyVars
    <2>3. [u \in Tokens |-> tokens'[u].owner] =
            [[u \in Tokens |-> tokens[u].owner] EXCEPT ![t] = req[r].email]
      BY <2>1
    <2>4. {u \in Tokens : tokens'[u].used # Never} = {u \in Tokens : tokens[u].used # Never}
      BY <2>1
    <2> QED
      BY <2>1, <2>2, <2>3, <2>4, LateEmpty DEF Link!MintLink
  <1> QED
    BY <1>1, <1>2 DEF InsertToken, Link!LinkNext

\* The commit of a verify call spends the link.
LEMMA CommitSpends ==
  ASSUME TypeOK, TypeOK', LinkInv, LinkInv', NEW v \in Verifiers, CommitToken(v)
  PROVE  [Link!LinkNext]_(Link!linkVars)
  <1>1. CASE UNCHANGED tokens
    BY <1>1, LinkStutters DEF CommitToken
  <1>2. CASE tokens' = Consumed(v)
    <2>1. PICK t : t = ver[v].token
      OBVIOUS
    <2>2. /\ t \in Tokens /\ tokens'[t].used = ver[v].usedAt
          /\ tokens'[t].owner = tokens[t].owner
          /\ \A u \in Tokens : u # t => tokens'[u] = tokens[u]
      BY <1>2, <2>1, ConsumeEffect DEF CommitToken
    <2>3. tokens[t].owner \in Emails /\ tokens[t].used = Never /\ ver[v].usedAt # Never
      BY <2>1 DEF CommitToken, LinkInv, VerifierInv, Minted, InTransaction
    <2>4. UNCHANGED sessions
      BY DEF CommitToken
    <2>5. [u \in Tokens |-> tokens'[u].owner] = [u \in Tokens |-> tokens[u].owner]
      BY <2>2
    <2>6. {u \in Tokens : tokens'[u].used # Never} = {u \in Tokens : tokens[u].used # Never} \cup {t}
      BY <2>2, <2>3
    <2>7. Link!SpendLink(t)
      BY <2>2, <2>3, <2>4, <2>5, <2>6, LateEmpty, LinkAssumption DEF Link!SpendLink
    <2> QED
      BY <2>2, <2>7 DEF Link!LinkNext
  <1> QED
    BY <1>1, <1>2 DEF CommitToken

\* The cookie opens the one session of the link, for the address of its row.
LEMMA CookieOpens ==
  ASSUME TypeOK, TypeOK', LinkInv, LinkInv', NEW v \in Verifiers, SetSessionCookie(v)
  PROVE  [Link!LinkNext]_(Link!linkVars)
  <1>0. UNCHANGED tokens
    BY DEF SetSessionCookie
  <1>1. CASE UNCHANGED sessions
    BY <1>0, <1>1, LinkStutters
  <1>2. CASE sessions' = [sessions EXCEPT ![ver[v].token] =
               Append(@, [email |-> tokens[ver[v].token].owner, until |-> now + SessionTTL])]
    <2>1. PICK t, s : t = ver[v].token /\ s = [email |-> tokens[t].owner, until |-> now + SessionTTL]
      OBVIOUS
    <2>2. t \in Tokens /\ tokens[t].used # Never /\ sessions[t] = <<>>
      BY <2>1 DEF SetSessionCookie, LinkInv, VerifierInv, Opening, TypeOK, VerifyTypeOK
    <2>3. /\ sessions'[t] = <<s>>
          /\ \A u \in Tokens : u # t => sessions'[u] = sessions[u]
      BY <1>2, <2>1, <2>2 DEF TypeOK, VerifyTypeOK
    <2>4. s.email = tokens[t].owner
      BY <2>1
    <2>5. [k \in DOMAIN sessions'[t] |-> sessions'[t][k].email] = <<tokens[t].owner>>
      BY <2>3, <2>4, OneCookieEmail
    <2>6. [u \in Tokens |-> [k \in DOMAIN sessions'[u] |-> sessions'[u][k].email]] =
            [[u \in Tokens |-> [k \in DOMAIN sessions[u] |-> sessions[u][k].email]]
              EXCEPT ![t] = <<tokens[t].owner>>]
      BY <2>2, <2>3, <2>5
    <2>7. [k \in DOMAIN sessions[t] |-> sessions[t][k].email] = <<>>
      BY <2>2, NoCookieEmails
    <2>8. Link!OpenSession(t)
      BY <1>0, <2>2, <2>6, <2>7, LateEmpty DEF Link!OpenSession
    <2> QED
      BY <2>2, <2>8 DEF Link!LinkNext
  <1> QED
    BY <1>1, <1>2 DEF SetSessionCookie

\* Every step of the handlers is a step of the one-time link, or none of its business.
LEMMA LinkRefinesStep ==
  ASSUME TypeOK, TypeOK', LinkInv, LinkInv', [Next]_vars
  PROVE  [Link!LinkNext]_(Link!linkVars)
  <1>1. ASSUME NEW r \in Requests, RequestStep(r) PROVE [Link!LinkNext]_(Link!linkVars)
    <2>1. CASE InsertToken(r)
      BY <2>1, InsertMints
    <2>2. CASE ~ InsertToken(r)
      <3>1. UNCHANGED <<tokens, sessions>>
        BY <1>1, <2>2 DEF RequestStep, StartRequest, CheckCooldown, UpsertIdentity, SendMagicLink,
           verifyVars
      <3> QED
        BY <3>1, LinkStutters
    <2> QED
      BY <2>1, <2>2
  <1>2. ASSUME NEW v \in Verifiers, VerifyStep(v) PROVE [Link!LinkNext]_(Link!linkVars)
    <2>1. CASE CommitToken(v)
      BY <2>1, CommitSpends
    <2>2. CASE SetSessionCookie(v)
      BY <2>2, CookieOpens
    <2>3. CASE ~ CommitToken(v) /\ ~ SetSessionCookie(v)
      <3>1. UNCHANGED <<tokens, sessions>>
        BY <1>2, <2>3 DEF VerifyStep, StartVerify, SelectForUpdate, MarkUsed, MarkEmailVerified
      <3> QED
        BY <3>1, LinkStutters
    <2> QED
      BY <2>1, <2>2, <2>3
  <1>3. CASE Restart \/ Tick \/ UNCHANGED vars
    <2>1. UNCHANGED <<tokens, sessions>>
      BY <1>3 DEF Restart, Tick, vars, verifyVars
    <2> QED
      BY <2>1, LinkStutters
  <1> QED
    BY <1>1, <1>2, <1>3 DEF Next

\* The types and the life of a link hold in every state.
THEOREM LinkInvariant == Spec => [](TypeOK /\ LinkInv)
  <1>1. TypeOK /\ LinkInv /\ [Next]_vars => (TypeOK /\ LinkInv)'
    BY LinkTypeStep, LinkInvStep
  <1> QED
    BY <1>1, InitType, LinkInit0, PTL DEF Spec

(* RequestLink and Verify implement the one-time link: for any number of   *)
(* users, tokens and calls, and with any failures and restarts, a token is *)
(* consumed at most once and in its term, and opens at most one session,   *)
(* that of the address it was minted for.                                  *)
THEOREM LinkRefinement == Spec => LinkIsOneTime
  <1>1. TypeOK /\ LinkInv /\ (TypeOK /\ LinkInv)' /\ [Next]_vars => [Link!LinkNext]_(Link!linkVars)
    BY LinkRefinesStep
  <1> QED
    BY <1>1, LinkInvariant, LinkRefinesInit, PTL DEF Spec, LinkIsOneTime, Link!LinkSpec

-----------------------------------------------------------------------------
(* No link is burnt.                                                       *)

\* As long as nothing fails, a used token has its session or a call that opens it.
LEMMA BurnStep ==
  ASSUME TypeOK, LinkNotBurnt, [Next]_vars
  PROVE  LinkNotBurnt'
  <1> SUFFICES ASSUME faults' = 0, lost' = 0, NEW t \in Tokens, tokens'[t].used # Never
               PROVE  Serving(t)' \/ sessions'[t] # <<>>
    BY DEF LinkNotBurnt
  <1>0. ASSUME faults = 0, lost = 0, tokens[t].used # Never PROVE Serving(t) \/ sessions[t] # <<>>
    BY <1>0 DEF LinkNotBurnt
  <1>1. ASSUME NEW r \in Requests, RequestStep(r) PROVE Serving(t)' \/ sessions'[t] # <<>>
    <2>1. faults = 0 /\ lost = 0 /\ UNCHANGED <<vpc, ver, sessions>>
      BY <1>1, RequestFrame DEF verifyVars
    <2>2. tokens[t].used # Never
      <3>1. CASE InsertToken(r)
        <4>1. ASSUME NEW u \in Tokens, tokens[u] = NoRow,
                     tokens' = [tokens EXCEPT ![u] = [owner |-> req[r].email,
                                  expires |-> now + MagicLinkTTL, used |-> Never]]
              PROVE  tokens[t].used # Never
          BY <3>1, <4>1, MintEffect DEF InsertToken
        <4> QED
          BY <3>1, <4>1 DEF InsertToken
      <3>2. CASE ~ InsertToken(r)
        BY <1>1, <3>2 DEF RequestStep, StartRequest, CheckCooldown, UpsertIdentity, SendMagicLink
      <3> QED
        BY <3>1, <3>2
    <2> QED
      BY <1>0, <2>1, <2>2 DEF Serving
  <1>2. ASSUME NEW v \in Verifiers, VerifyStep(v) PROVE Serving(t)' \/ sessions'[t] # <<>>
    <2>1. faults = 0 /\ lost = 0 /\ ~ Fault /\ ~ Lost
      BY <1>2, VerifierFrame DEF Fault, Lost
    <2>2. \A w \in Verifiers : w # v => vpc'[w] = vpc[w] /\ ver'[w] = ver[w]
      BY <1>2, VerifierFrame
    <2>3. CASE CommitToken(v)
      <3>1. PICK u : u = ver[v].token
        OBVIOUS
      <3>2. /\ tokens' = Consumed(v) /\ vpc'[v] = "mark" /\ ver'[v] = ver[v] /\ vpc[v] = "commit"
            /\ UNCHANGED sessions
        BY <2>1, <2>3 DEF CommitToken, VGoto, TypeOK, VerifyTypeOK
      <3>3. \A x \in Tokens : x # u => tokens'[x] = tokens[x]
        BY <3>1, <3>2, ConsumeEffect
      <3>4. CASE t = u
        BY <3>1, <3>2, <3>4 DEF Serving
      <3>5. CASE t # u
        BY <1>0, <2>1, <2>2, <3>1, <3>2, <3>3, <3>5 DEF Serving
      <3> QED
        BY <3>4, <3>5
    <2>4. CASE SetSessionCookie(v)
      <3>1. PICK u, s : /\ u = ver[v].token
                        /\ s = [email |-> tokens[u].owner, until |-> now + SessionTTL]
        OBVIOUS
      <3>2. /\ sessions' = [sessions EXCEPT ![u] = Append(@, s)]
            /\ UNCHANGED tokens /\ vpc[v] = "open"
        BY <2>1, <2>4, <3>1 DEF SetSessionCookie
      <3>3. sessions \in [Tokens -> Seq(Session)]
        BY DEF TypeOK, VerifyTypeOK
      <3>4. CASE t = u
        <4>1. sessions[t] \in Seq(Session) /\ sessions'[t] = Append(sessions[t], s)
          BY <3>2, <3>3, <3>4
        <4> QED
          BY <4>1
      <3>5. CASE t # u
        <4>1. sessions'[t] = sessions[t]
          BY <3>2, <3>3, <3>5
        <4> QED
          BY <1>0, <2>1, <2>2, <3>1, <3>2, <3>5, <4>1 DEF Serving
      <3> QED
        BY <3>4, <3>5
    <2>5. CASE MarkEmailVerified(v)
      <3>1. /\ UNCHANGED <<tokens, sessions, ver>> /\ vpc'[v] = "open" /\ vpc[v] = "mark"
        BY <2>1, <2>5 DEF MarkEmailVerified, VGoto, TypeOK, VerifyTypeOK
      <3> QED
        BY <1>0, <2>1, <2>2, <3>1 DEF Serving
    <2>6. CASE ~ CommitToken(v) /\ ~ SetSessionCookie(v) /\ ~ MarkEmailVerified(v)
      <3>1. UNCHANGED <<tokens, sessions>> /\ vpc[v] \notin {"mark", "open"}
        BY <1>2, <2>6 DEF VerifyStep, StartVerify, SelectForUpdate, MarkUsed
      <3> QED
        BY <1>0, <2>1, <2>2, <3>1 DEF Serving
    <2> QED
      BY <2>3, <2>4, <2>5, <2>6
  <1>3. CASE Restart
    BY <1>3 DEF Restart, Fault, TypeOK, SharedTypeOK
  <1>4. CASE Tick \/ UNCHANGED vars
    BY <1>0, <1>4 DEF Tick, vars, verifyVars, Serving
  <1> QED
    BY <1>1, <1>2, <1>3, <1>4 DEF Next

(* Unless a call fails, no interleaving of Verify calls burns a link: one  *)
(* that is consumed has opened its session, or the call that consumed it   *)
(* is about to.                                                            *)
THEOREM NoLinkBurnt == Spec => []LinkNotBurnt
  <1>1. Init => LinkNotBurnt
    BY DEF Init, LinkNotBurnt, NoRow
  <1>2. TypeOK /\ LinkNotBurnt /\ [Next]_vars => LinkNotBurnt'
    BY BurnStep
  <1> QED
    BY <1>1, <1>2, LinkInvariant, PTL DEF Spec

-----------------------------------------------------------------------------
(* The cooldown.                                                           *)

\* A call that has the cooldown of its address behind it.
PastCooldown(r) == pc[r] \in {"upsert", "insert", "send"}

Mailed(e, t) == tokens[t].owner = e /\ sent[t] # Never

ClockInv ==
  /\ \A r \in Requests : pc[r] # "idle" => req[r].at <= now /\ now <= req[r].at + MaxDelay
  /\ \A t \in Tokens : sent[t] # Never => sent[t] <= now
  /\ \A e \in Emails : resendAt[e] <= now + ResendCooldown

\* What a call that took the cooldown has taken, and that another mail is no nearer.
HolderInv ==
  \A r \in Requests : LET e == req[r].email IN
    PastCooldown(r) =>
      /\ resendAt[e] >= req[r].at + ResendCooldown
      /\ \A t \in Tokens : Mailed(e, t) => now + MaxDelay >= sent[t] + ResendCooldown

\* Two calls of one address hold the cooldown at once only if a call may outlast it.
RivalInv ==
  \A q, r \in Requests :
    /\ q # r /\ PastCooldown(q) /\ PastCooldown(r) /\ req[q].email = req[r].email
    => MaxDelay >= ResendCooldown

\* The cooldown outlasts the last mail.
OutlastInv ==
  \A e \in Emails, t \in Tokens :
    Mailed(e, t) => resendAt[e] + MaxDelay >= sent[t] + ResendCooldown

\* A cooldown that is held was taken for a mail.
TakenInv ==
  \A e \in Emails : resendAt[e] > now =>
    \/ \E r \in Requests : PastCooldown(r) /\ req[r].email = e
    \/ \E t \in Tokens : Mailed(e, t) /\ sent[t] + ResendCooldown >= resendAt[e]

CooldownInv == HolderInv /\ RivalInv /\ OutlastInv /\ TakenInv

\* The fields of a call, and the numbers of the cooldown.
LEMMA CooldownTypes ==
  ASSUME TypeOK
  PROVE  /\ now \in Nat /\ now < Never
         /\ \A r \in Requests : req[r].at \in Nat
         /\ \A r \in Requests : pc[r] # "idle" => req[r].email \in Emails
         /\ \A e \in Emails : resendAt[e] \in Nat
         /\ \A t \in Tokens : sent[t] \in Nat
  <1>1. \A r \in Requests : req[r] \in RequestState
    BY DEF TypeOK, RequestTypeOK
  <1> QED
    BY <1>1, NeverNat DEF TypeOK, RequestTypeOK, SharedTypeOK, RequestState

\* ClockInv is an invariant of every step.
LEMMA ClockStep ==
  ASSUME TypeOK, ClockInv, [Next]_vars
  PROVE  ClockInv'
  <1> USE CooldownTypes, NeverNat
  <1>1. ASSUME NEW r \in Requests, RequestStep(r) PROVE ClockInv'
    <2>1. UNCHANGED now /\ \A q \in Requests : q # r => pc'[q] = pc[q] /\ req'[q] = req[q]
      BY <1>1, RequestFrame
    <2>2. \A t \in Tokens : sent'[t] # Never => sent'[t] <= now
      BY <1>1 DEF RequestStep, StartRequest, CheckCooldown, UpsertIdentity, InsertToken,
         SendMagicLink, ClockInv, TypeOK, RequestTypeOK
    <2>3. \A e \in Emails : resendAt'[e] <= now + ResendCooldown
      BY <1>1 DEF RequestStep, StartRequest, Admit, Refuse, CheckCooldown, UpsertIdentity,
         InsertToken, SendMagicLink, ClockInv, TypeOK, RequestTypeOK
    <2>4. pc'[r] # "idle" => req'[r].at <= now /\ now <= req'[r].at + MaxDelay
      <3>1. CASE \E i \in IPs, e \in Emails : StartRequest(r, i, e)
        BY <3>1 DEF StartRequest, Admit, Refuse, Goto, TypeOK, RequestTypeOK
      <3>2. CASE InsertToken(r)
        <4>1. ASSUME NEW t \in Tokens, req' = [req EXCEPT ![r].token = t]
              PROVE  req'[r].at = req[r].at
          <5>1. req[r] \in RequestState /\ req'[r] = [req[r] EXCEPT !.token = t]
            BY <4>1 DEF TypeOK, RequestTypeOK
          <5> QED
            BY <5>1 DEF RequestState
        <4> QED
          BY <3>2, <4>1 DEF InsertToken, Answer, Goto, ClockInv, TypeOK, RequestTypeOK
      <3>3. CASE CheckCooldown(r) \/ UpsertIdentity(r) \/ SendMagicLink(r)
        BY <3>3 DEF CheckCooldown, UpsertIdentity, SendMagicLink, Answer, Goto, ClockInv,
           TypeOK, RequestTypeOK
      <3> QED
        BY <1>1, <3>1, <3>2, <3>3 DEF RequestStep
    <2> QED
      BY <2>1, <2>2, <2>3, <2>4 DEF ClockInv
  <1>2. ASSUME NEW v \in Verifiers, VerifyStep(v) PROVE ClockInv'
    BY <1>2, VerifierFrame DEF requestVars, ClockInv
  <1>3. CASE Restart
    BY <1>3 DEF Restart, ClockInv
  <1>4. CASE Tick
    BY <1>4 DEF Tick, requestVars, ClockInv
  <1>5. CASE UNCHANGED vars
    BY <1>5 DEF vars, requestVars, ClockInv
  <1> QED
    BY <1>1, <1>2, <1>3, <1>4, <1>5 DEF Next

\* A step that takes no cooldown, sends no mail and moves no call past its cooldown.
LEMMA CooldownFrame ==
  ASSUME CooldownInv, UNCHANGED <<resendAt, sent, now>>,
         \A q \in Requests : PastCooldown(q)' <=> PastCooldown(q),
         \A q \in Requests : PastCooldown(q) =>
           req'[q].email = req[q].email /\ req'[q].at = req[q].at,
         \A t \in Tokens : sent[t] # Never => tokens'[t].owner = tokens[t].owner
  PROVE  CooldownInv'
  <1>1. \A t \in Tokens : \A e : Mailed(e, t)' <=> Mailed(e, t)
    BY DEF Mailed
  <1>2. HolderInv'
    BY <1>1 DEF CooldownInv, HolderInv
  <1>3. RivalInv'
    BY DEF CooldownInv, RivalInv
  <1>4. OutlastInv'
    BY <1>1 DEF CooldownInv, OutlastInv
  <1>5. TakenInv'
    BY <1>1 DEF CooldownInv, TakenInv
  <1> QED
    BY <1>2, <1>3, <1>4, <1>5 DEF CooldownInv

\* A call that finds the cooldown free takes it.
LEMMA CooldownTaken ==
  ASSUME TypeOK, ClockInv, CooldownInv, NEW r \in Requests, NEW e \in Emails,
         pc[r] = "cooldown", e = req[r].email, ~ CooldownHeld(e),
         resendAt' = [resendAt EXCEPT ![e] = now + ResendCooldown],
         pc' = [pc EXCEPT ![r] = "upsert"], UNCHANGED <<req, sent, tokens, now>>
  PROVE  CooldownInv'
  <1> USE CooldownTypes, NeverNat
  <1>1. resendAt[e] <= now /\ resendAt'[e] = now + ResendCooldown
    BY DEF CooldownHeld, TypeOK, RequestTypeOK
  <1>2. \A x \in Emails : /\ resendAt'[x] >= resendAt[x]
                          /\ x # e => resendAt'[x] = resendAt[x]
    BY <1>1 DEF TypeOK, RequestTypeOK
  <1>3. /\ PastCooldown(r)'
        /\ \A q \in Requests : q # r => (PastCooldown(q)' <=> PastCooldown(q))
        /\ \A q \in Requests : PastCooldown(q) => PastCooldown(q)'
    BY DEF PastCooldown, TypeOK, RequestTypeOK
  <1>4. \A q \in Requests : PastCooldown(q) => pc[q] # "idle" /\ req[q].email \in Emails
    BY DEF PastCooldown
  <1>5. \A x, t : Mailed(x, t)' <=> Mailed(x, t)
    BY DEF Mailed
  <1>6. \A t \in Tokens : Mailed(e, t) => now + MaxDelay >= sent[t] + ResendCooldown
    BY <1>1 DEF CooldownInv, OutlastInv
  <1>7. req[r].at <= now
    BY DEF ClockInv
  <1>8. HolderInv'
    <2> SUFFICES ASSUME NEW q \in Requests, PastCooldown(q)'
                 PROVE  /\ resendAt'[req[q].email] >= req[q].at + ResendCooldown
                        /\ \A t \in Tokens : Mailed(req[q].email, t) =>
                             now + MaxDelay >= sent[t] + ResendCooldown
      BY <1>5 DEF HolderInv
    <2>1. CASE q = r
      BY <1>1, <1>6, <1>7, <2>1
    <2>2. CASE q # r
      <3>1. PastCooldown(q) /\ req[q].email \in Emails
        BY <1>3, <1>4, <2>2
      <3>2. /\ resendAt[req[q].email] >= req[q].at + ResendCooldown
            /\ \A t \in Tokens : Mailed(req[q].email, t) =>
                 now + MaxDelay >= sent[t] + ResendCooldown
        BY <3>1 DEF CooldownInv, HolderInv
      <3>3. resendAt'[req[q].email] \in Nat
        BY <1>1, <1>2, <3>1
      <3> QED
        BY <1>2, <3>1, <3>2, <3>3
    <2> QED
      BY <2>1, <2>2
  <1>9. RivalInv'
    <2>1. ASSUME NEW q \in Requests, q # r, PastCooldown(q), req[q].email = e
          PROVE  MaxDelay >= ResendCooldown
      <3>1. resendAt[e] >= req[q].at + ResendCooldown
        BY <2>1 DEF CooldownInv, HolderInv
      <3>2. now <= req[q].at + MaxDelay
        BY <1>4, <2>1 DEF ClockInv
      <3> QED
        BY <1>1, <3>1, <3>2
    <2>2. \A p, q \in Requests :
            /\ p # q /\ PastCooldown(p) /\ PastCooldown(q) /\ req[p].email = req[q].email
            => MaxDelay >= ResendCooldown
      BY DEF CooldownInv, RivalInv
    <2> QED
      BY <1>3, <2>1, <2>2 DEF RivalInv
  <1>10. OutlastInv'
    <2>1. \A x \in Emails : resendAt'[x] \in Nat
      BY <1>1, <1>2
    <2> QED
      BY <1>2, <1>5, <2>1 DEF CooldownInv, OutlastInv
  <1>11. TakenInv'
    <2> SUFFICES ASSUME NEW x \in Emails, resendAt'[x] > now
                 PROVE  \/ \E q \in Requests : PastCooldown(q)' /\ req[q].email = x
                        \/ \E t \in Tokens : Mailed(x, t) /\ sent[t] + ResendCooldown >= resendAt'[x]
      BY <1>5 DEF TakenInv
    <2>1. CASE x = e
      BY <1>3, <2>1
    <2>2. CASE x # e
      BY <1>2, <1>3, <2>2 DEF CooldownInv, TakenInv
    <2> QED
      BY <2>1, <2>2
  <1> QED
    BY <1>8, <1>9, <1>10, <1>11 DEF CooldownInv

\* A call that is about to send has a row of its own address.
LEMMA MailRow ==
  ASSUME TypeOK, LinkInv, NEW r \in Requests, pc[r] = "send"
  PROVE  /\ req[r].token \in Tokens /\ req[r].email \in Emails
         /\ tokens[req[r].token].owner = req[r].email
         /\ now # Never
  BY NeverNat DEF TypeOK, RequestTypeOK, SharedTypeOK, LinkInv, MailInv

\* A mail that goes out leaves the cooldown in force.
LEMMA CooldownMailed ==
  ASSUME TypeOK, LinkInv, ClockInv, CooldownInv, NEW r \in Requests, pc[r] = "send",
         NEW t, t = req[r].token, NEW e, e = req[r].email,
         sent' = [sent EXCEPT ![t] = now], pc'[r] = "idle",
         \A q \in Requests : q # r => pc'[q] = pc[q] /\ req'[q] = req[q],
         UNCHANGED <<resendAt, tokens, now>>
  PROVE  CooldownInv'
  <1>0. /\ t \in Tokens /\ e \in Emails /\ tokens[t].owner = e
        /\ sent'[t] = now /\ now # Never
        /\ \A u \in Tokens : u # t => sent'[u] = sent[u]
    BY MailRow DEF TypeOK, RequestTypeOK
  <1>1. /\ t \in Tokens /\ e \in Emails /\ tokens[t].owner = e
        /\ sent'[t] = now
        /\ \A u \in Tokens : u # t => sent'[u] = sent[u]
        /\ \A x : \A u \in Tokens :
             Mailed(x, u)' <=> (u = t /\ x = e) \/ (u # t /\ Mailed(x, u))
    BY <1>0 DEF Mailed
  <1> USE CooldownTypes, NeverNat
  <1>2. /\ PastCooldown(r) /\ ~ PastCooldown(r)'
        /\ \A q \in Requests : q # r => (PastCooldown(q)' <=> PastCooldown(q))
    BY DEF PastCooldown
  <1>3. resendAt[e] >= req[r].at + ResendCooldown
    BY <1>2 DEF CooldownInv, HolderInv
  <1>4. now <= req[r].at + MaxDelay /\ resendAt[e] <= now + ResendCooldown
    BY <1>1 DEF ClockInv
  <1>5. ASSUME NEW q \in Requests, PastCooldown(q)'
        PROVE  /\ q # r /\ PastCooldown(q) /\ req'[q] = req[q]
               /\ req[q].email = e => MaxDelay >= ResendCooldown
    BY <1>2, <1>5 DEF CooldownInv, RivalInv
  <1>6. HolderInv'
    <2> SUFFICES ASSUME NEW q \in Requests, PastCooldown(q)'
                 PROVE  /\ resendAt[req'[q].email] >= req'[q].at + ResendCooldown
                        /\ \A u \in Tokens : Mailed(req[q].email, u)' =>
                             now + MaxDelay >= sent'[u] + ResendCooldown
      BY DEF HolderInv
    <2>1. /\ PastCooldown(q) /\ req'[q] = req[q]
          /\ req[q].email = e => MaxDelay >= ResendCooldown
      BY <1>5
    <2>2. /\ resendAt[req[q].email] >= req[q].at + ResendCooldown
          /\ \A u \in Tokens : Mailed(req[q].email, u) =>
               now + MaxDelay >= sent[u] + ResendCooldown
      BY <2>1 DEF CooldownInv, HolderInv
    <2>3. ASSUME NEW u \in Tokens, Mailed(req[q].email, u)'
          PROVE  now + MaxDelay >= sent'[u] + ResendCooldown
      <3>1. (u = t /\ req[q].email = e) \/ (u # t /\ Mailed(req[q].email, u))
        BY <1>1, <2>1, <2>3
      <3> QED
        BY <1>1, <2>1, <2>2, <3>1
    <2> QED
      BY <2>1, <2>2, <2>3
  <1>7. RivalInv'
    BY <1>5 DEF CooldownInv, RivalInv
  <1>8. OutlastInv'
    <2>1. resendAt[e] + MaxDelay >= now + ResendCooldown
      BY <1>1, <1>3, <1>4
    <2> QED
      BY <1>1, <2>1 DEF CooldownInv, OutlastInv
  <1>9. TakenInv'
    <2> SUFFICES ASSUME NEW x \in Emails, resendAt[x] > now
                 PROVE  \/ \E q \in Requests : PastCooldown(q)' /\ req'[q].email = x
                        \/ \E u \in Tokens : /\ Mailed(x, u)'
                                             /\ sent'[u] + ResendCooldown >= resendAt[x]
      BY DEF TakenInv
    <2>1. CASE x = e
      BY <1>1, <1>4, <2>1
    <2>2. CASE x # e
      <3>1. CASE \E q \in Requests : PastCooldown(q) /\ req[q].email = x
        BY <1>2, <2>2, <3>1
      <3>2. CASE \E u \in Tokens : Mailed(x, u) /\ sent[u] + ResendCooldown >= resendAt[x]
        <4>1. PICK u \in Tokens : Mailed(x, u) /\ sent[u] + ResendCooldown >= resendAt[x]
          BY <3>2
        <4>2. u # t
          BY <1>1, <2>2, <4>1 DEF Mailed
        <4> QED
          BY <1>1, <4>1, <4>2
      <3> QED
        BY <3>1, <3>2 DEF CooldownInv, TakenInv
    <2> QED
      BY <2>1, <2>2
  <1> QED
    BY <1>6, <1>7, <1>8, <1>9 DEF CooldownInv

\* While nothing fails, a step of a request-link call keeps the cooldown's word.
LEMMA CooldownRequest ==
  ASSUME TypeOK, LinkInv, ClockInv, CooldownInv, faults' = 0, NEW r \in Requests, RequestStep(r)
  PROVE  CooldownInv'
  <1>0. /\ \A q \in Requests : q # r => pc'[q] = pc[q] /\ req'[q] = req[q]
        /\ UNCHANGED now /\ ~ Fault
    BY RequestFrame DEF Fault
  <1>1. ASSUME UNCHANGED <<resendAt, sent, tokens>>, PastCooldown(r)' <=> PastCooldown(r),
               PastCooldown(r) => req'[r] = req[r]
        PROVE  CooldownInv'
    <2>1. \A q \in Requests : PastCooldown(q)' <=> PastCooldown(q)
      BY <1>0, <1>1 DEF PastCooldown
    <2>2. \A q \in Requests : PastCooldown(q) =>
            req'[q].email = req[q].email /\ req'[q].at = req[q].at
      BY <1>0, <1>1
    <2> QED
      BY <1>0, <1>1, <2>1, <2>2, CooldownFrame
  <1>2. CASE \E i \in IPs, e \in Emails : StartRequest(r, i, e)
    <2>1. UNCHANGED <<resendAt, sent, tokens>> /\ ~ PastCooldown(r) /\ ~ PastCooldown(r)'
      BY <1>2 DEF StartRequest, Admit, Refuse, Goto, PastCooldown, TypeOK, RequestTypeOK
    <2> QED
      BY <1>1, <2>1
  <1>3. CASE CheckCooldown(r)
    <2>1. CASE Answer(r) /\ UNCHANGED resendAt
      <3>1. UNCHANGED <<resendAt, sent, tokens>> /\ ~ PastCooldown(r) /\ ~ PastCooldown(r)'
        BY <1>3, <2>1 DEF CheckCooldown, Answer, Goto, PastCooldown, TypeOK, RequestTypeOK
      <3> QED
        BY <1>1, <3>1
    <2>2. CASE ~ (Answer(r) /\ UNCHANGED resendAt)
      <3>1. PICK e : e = req[r].email
        OBVIOUS
      <3>2. /\ pc[r] = "cooldown" /\ ~ CooldownHeld(e)
            /\ resendAt' = [resendAt EXCEPT ![e] = now + ResendCooldown]
            /\ pc' = [pc EXCEPT ![r] = "upsert"] /\ UNCHANGED <<req, sent, tokens, now>>
        BY <1>0, <1>3, <2>2, <3>1 DEF CheckCooldown, Goto
      <3>3. e \in Emails
        BY <3>1, <3>2, CooldownTypes
      <3> QED
        BY <3>1, <3>2, <3>3, CooldownTaken
    <2> QED
      BY <2>1, <2>2
  <1>4. CASE UpsertIdentity(r)
    <2>1. UNCHANGED <<resendAt, sent, tokens, req>> /\ PastCooldown(r) /\ PastCooldown(r)'
      BY <1>0, <1>4 DEF UpsertIdentity, Goto, PastCooldown, TypeOK, RequestTypeOK
    <2> QED
      BY <1>1, <2>1
  <1>5. CASE InsertToken(r)
    <2>1. PICK t \in Tokens :
            /\ tokens[t] = NoRow
            /\ tokens' = [tokens EXCEPT ![t] = [owner |-> req[r].email,
                            expires |-> now + MagicLinkTTL, used |-> Never]]
            /\ req' = [req EXCEPT ![r].token = t]
            /\ Goto(r, "send")
      BY <1>0, <1>5 DEF InsertToken
    <2>2. ~ Minted(t) /\ \A u \in Tokens : u # t => tokens'[u] = tokens[u]
      BY <1>5, <2>1, MintEffect DEF InsertToken
    <2>3. \A u \in Tokens : sent[u] # Never => tokens'[u].owner = tokens[u].owner
      BY <2>2 DEF LinkInv, MailInv
    <2>4. req'[r].email = req[r].email /\ req'[r].at = req[r].at
      <3>1. req[r] \in RequestState /\ req'[r] = [req[r] EXCEPT !.token = t]
        BY <2>1 DEF TypeOK, RequestTypeOK
      <3> QED
        BY <3>1 DEF RequestState
    <2>5. PastCooldown(r) /\ PastCooldown(r)'
      BY <1>5, <2>1 DEF InsertToken, Goto, PastCooldown, TypeOK, RequestTypeOK
    <2>6. \A q \in Requests : PastCooldown(q)' <=> PastCooldown(q)
      BY <1>0, <2>5 DEF PastCooldown
    <2>7. \A q \in Requests : PastCooldown(q) =>
            req'[q].email = req[q].email /\ req'[q].at = req[q].at
      BY <1>0, <2>4
    <2>8. UNCHANGED <<resendAt, sent, now>>
      BY <1>5 DEF InsertToken
    <2> QED
      BY <2>3, <2>6, <2>7, <2>8, CooldownFrame
  <1>6. CASE SendMagicLink(r)
    <2>1. PICK t, e : t = req[r].token /\ e = req[r].email
      OBVIOUS
    <2>2. /\ pc[r] = "send" /\ sent' = [sent EXCEPT ![t] = now]
          /\ pc'[r] = "idle" /\ UNCHANGED <<resendAt, tokens, now>>
      BY <1>0, <1>6, <2>1 DEF SendMagicLink, Answer, Goto, TypeOK, RequestTypeOK
    <2> QED
      BY <1>0, <2>1, <2>2, CooldownMailed
  <1> QED
    BY <1>2, <1>3, <1>4, <1>5, <1>6 DEF RequestStep

\* A verify call leaves the owners alone.
LEMMA OwnersStay ==
  ASSUME TypeOK, NEW v \in Verifiers, VerifyStep(v)
  PROVE  \A t \in Tokens : tokens'[t].owner = tokens[t].owner
  <1>1. CASE CommitToken(v)
    BY <1>1, ConsumeEffect DEF CommitToken
  <1>2. CASE ~ CommitToken(v)
    BY <1>2 DEF VerifyStep, StartVerify, SelectForUpdate, MarkUsed, MarkEmailVerified, SetSessionCookie
  <1> QED
    BY <1>1, <1>2

\* While nothing fails, every step keeps the cooldown's word.
LEMMA CooldownStep ==
  ASSUME TypeOK, LinkInv, ClockInv, faults = 0 => CooldownInv, [Next]_vars
  PROVE  (faults = 0 => CooldownInv)'
  <1> SUFFICES ASSUME faults' = 0 PROVE CooldownInv'
    OBVIOUS
  <1>1. ASSUME NEW r \in Requests, RequestStep(r) PROVE CooldownInv'
    BY <1>1, RequestFrame, CooldownRequest
  <1>2. ASSUME NEW v \in Verifiers, VerifyStep(v) PROVE CooldownInv'
    <2>1. faults = 0 /\ UNCHANGED <<pc, req, resendAt, sent, now>>
      BY <1>2, VerifierFrame DEF requestVars
    <2>2. \A q \in Requests : PastCooldown(q)' <=> PastCooldown(q)
      BY <2>1 DEF PastCooldown
    <2> QED
      BY <1>2, <2>1, <2>2, OwnersStay, CooldownFrame
  <1>3. CASE Restart
    BY <1>3 DEF Restart, Fault, TypeOK, SharedTypeOK
  <1>4. CASE UNCHANGED vars
    <2>1. UNCHANGED <<pc, req, resendAt, sent, tokens, now, faults>>
      BY <1>4 DEF vars, requestVars
    <2> QED
      BY <2>1 DEF CooldownInv, HolderInv, RivalInv, OutlastInv, TakenInv, PastCooldown, Mailed
  <1>5. CASE Tick
    <2>1. faults = 0 /\ UNCHANGED <<pc, req, resendAt, sent, tokens>> /\ now' = now + 1
      BY <1>5 DEF Tick, requestVars
    <2>2. \A q \in Requests : PastCooldown(q)' <=> PastCooldown(q)
      BY <2>1 DEF PastCooldown
    <2>3. \A x, t : Mailed(x, t)' <=> Mailed(x, t)
      BY <2>1 DEF Mailed
    <2>4. CooldownInv
      BY <2>1
    <2> USE CooldownTypes, NeverNat
    <2>5. HolderInv'
      BY <2>1, <2>2, <2>3, <2>4 DEF CooldownInv, HolderInv
    <2>6. RivalInv' /\ OutlastInv'
      BY <2>1, <2>2, <2>3, <2>4 DEF CooldownInv, RivalInv, OutlastInv
    <2>7. TakenInv'
      BY <2>1, <2>2, <2>3, <2>4 DEF CooldownInv, TakenInv
    <2> QED
      BY <2>5, <2>6, <2>7 DEF CooldownInv
  <1> QED
    BY <1>1, <1>2, <1>3, <1>4, <1>5 DEF Next

\* While nothing fails, a step leaves the mails of one address apart.
LEMMA SpacedStep ==
  ASSUME TypeOK, LinkInv, ClockInv, faults = 0 => CooldownInv, MailsSpaced, [Next]_vars
  PROVE  MailsSpaced'
  <1> SUFFICES ASSUME faults' = 0, NEW t \in Tokens, NEW u \in Tokens,
                      t # u, tokens'[t].owner = tokens'[u].owner,
                      sent'[t] # Never, sent'[u] # Never, sent'[t] <= sent'[u]
               PROVE  sent'[u] + MaxDelay >= sent'[t] + ResendCooldown
    BY DEF MailsSpaced
  <1>1. ASSUME faults = 0, sent'[t] = sent[t], sent'[u] = sent[u],
               sent[t] # Never => tokens'[t].owner = tokens[t].owner,
               sent[u] # Never => tokens'[u].owner = tokens[u].owner
        PROVE  sent'[u] + MaxDelay >= sent'[t] + ResendCooldown
    BY <1>1 DEF MailsSpaced
  <1>2. ASSUME NEW r \in Requests, RequestStep(r)
        PROVE  sent'[u] + MaxDelay >= sent'[t] + ResendCooldown
    <2>0. faults = 0 /\ ~ Fault
      BY <1>2, RequestFrame DEF Fault
    <2>1. CASE InsertToken(r)
      <3>1. PICK l \in Tokens :
              /\ tokens[l] = NoRow
              /\ tokens' = [tokens EXCEPT ![l] = [owner |-> req[r].email,
                              expires |-> now + MagicLinkTTL, used |-> Never]]
        BY <2>0, <2>1 DEF InsertToken
      <3>2. ~ Minted(l) /\ \A x \in Tokens : x # l => tokens'[x] = tokens[x]
        BY <2>1, <3>1, MintEffect DEF InsertToken
      <3>3. UNCHANGED sent
        BY <2>1 DEF InsertToken
      <3> QED
        BY <1>1, <2>0, <3>2, <3>3 DEF LinkInv, MailInv
    <2>2. CASE SendMagicLink(r)
      <3>1. PICK l, e : l = req[r].token /\ e = req[r].email
        OBVIOUS
      <3>2. /\ pc[r] = "send" /\ sent' = [sent EXCEPT ![l] = now]
            /\ UNCHANGED <<tokens, now>>
        BY <2>0, <2>2, <3>1 DEF SendMagicLink
      <3>3. /\ l \in Tokens /\ e \in Emails /\ tokens[l].owner = e
            /\ sent'[l] = now /\ now # Never
            /\ \A x \in Tokens : x # l => sent'[x] = sent[x]
        BY <3>1, <3>2, MailRow DEF TypeOK, RequestTypeOK
      <3>4. ASSUME NEW x \in Tokens, x # l, tokens[x].owner = e, sent[x] # Never
            PROVE  now + MaxDelay >= sent[x] + ResendCooldown /\ sent[x] <= now
        BY <2>0, <3>1, <3>2, <3>4
           DEF CooldownInv, HolderInv, PastCooldown, Mailed, ClockInv
      <3>5. CASE t = l
        <4>1. u # l /\ tokens[u].owner = e /\ sent[u] # Never /\ sent'[u] = sent[u]
          BY <3>2, <3>3, <3>5
        <4>2. now + MaxDelay >= sent[u] + ResendCooldown /\ sent[u] <= now
          BY <3>4, <4>1
        <4>3. sent[u] = now
          BY <3>3, <3>5, <4>1, <4>2, CooldownTypes
        <4> QED
          BY <3>3, <3>5, <4>1, <4>2, <4>3
      <3>6. CASE u = l
        <4>1. t # l /\ tokens[t].owner = e /\ sent[t] # Never /\ sent'[t] = sent[t]
          BY <3>2, <3>3, <3>6
        <4> QED
          BY <3>3, <3>4, <3>6, <4>1
      <3>7. CASE t # l /\ u # l
        BY <1>1, <2>0, <3>2, <3>3, <3>7
      <3> QED
        BY <3>5, <3>6, <3>7
    <2>3. CASE ~ InsertToken(r) /\ ~ SendMagicLink(r)
      <3>1. UNCHANGED <<sent, tokens>>
        BY <1>2, <2>3 DEF RequestStep, StartRequest, CheckCooldown, UpsertIdentity
      <3> QED
        BY <1>1, <2>0, <3>1
    <2> QED
      BY <2>1, <2>2, <2>3
  <1>3. ASSUME NEW v \in Verifiers, VerifyStep(v)
        PROVE  sent'[u] + MaxDelay >= sent'[t] + ResendCooldown
    BY <1>1, <1>3, VerifierFrame, OwnersStay DEF requestVars
  <1>4. CASE Restart
    BY <1>4 DEF Restart, Fault, TypeOK, SharedTypeOK
  <1>5. CASE Tick \/ UNCHANGED vars
    BY <1>1, <1>5 DEF Tick, vars, requestVars
  <1> QED
    BY <1>2, <1>3, <1>4, <1>5 DEF Next

\* The cooldown holds what its word needs in every state.
THEOREM CooldownInvariant == Spec => [](ClockInv /\ (faults = 0 => CooldownInv))
  <1>1. Init => ClockInv
    BY NeverNat DEF Init, ClockInv
  <1>2. Init => CooldownInv
    BY NeverNat DEF Init, CooldownInv, HolderInv, RivalInv, OutlastInv, TakenInv, PastCooldown, Mailed
  <1>3. TypeOK /\ ClockInv /\ [Next]_vars => ClockInv'
    BY ClockStep
  <1>4. TypeOK /\ LinkInv /\ ClockInv /\ (faults = 0 => CooldownInv) /\ [Next]_vars
          => (faults = 0 => CooldownInv)'
    BY CooldownStep
  <1> QED
    BY <1>1, <1>2, <1>3, <1>4, LinkInvariant, PTL DEF Spec

(* ResendCooldown protects an inbox: while Redis answers, any two mails to *)
(* one address are at least the cooldown apart, less the time a call takes *)
(* from CheckResendCooldown to the mail.                                   *)
THEOREM MailsStaySpaced == Spec => []MailsSpaced
  <1>1. Init => MailsSpaced
    BY DEF Init, MailsSpaced
  <1>2. TypeOK /\ LinkInv /\ ClockInv /\ (faults = 0 => CooldownInv) /\ MailsSpaced /\ [Next]_vars
          => MailsSpaced'
    BY SpacedStep
  <1> QED
    BY <1>1, <1>2, LinkInvariant, CooldownInvariant, PTL DEF Spec

(* A request-link call that is answered without a mail is told the truth:  *)
(* unless a call failed, a link was mailed since the cooldown of the       *)
(* address was taken, or is on its way.                                    *)
THEOREM SuppressionIsHonest == Spec => []SuppressedWasMailed
  <1>1. (faults = 0 => CooldownInv) => SuppressedWasMailed
    BY DEF CooldownInv, TakenInv, SuppressedWasMailed, Underway, PastCooldown, Mailed
  <1> QED
    BY <1>1, CooldownInvariant, PTL

=============================================================================
