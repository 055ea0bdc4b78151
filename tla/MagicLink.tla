----------------------------- MODULE MagicLink -----------------------------
(***************************************************************************)
(* Sign-in by magic link. request-link passes the abuse controls in Redis, *)
(* stores a token and mails it; verify consumes the token in a PostgreSQL  *)
(* transaction, marks the address verified and opens a session. Every      *)
(* round trip is a step, so the requests of impatient users interleave.    *)
(*                                                                         *)
(* The session is a signed cookie without server state: it is the input of *)
(* the handlers in ApiKeys. One clock stands for the clocks of the API, of *)
(* Redis and of PostgreSQL.                                                *)
(***************************************************************************)
EXTENDS Naturals, Sequences

CONSTANTS
  Emails, Disposable,   \* addresses, and those on a denylisted domain
  NoEmail,
  IPs,
  Tokens, NoToken,      \* the supply of GenerateRawToken
  Requests,             \* goroutines that serve request-link
  Verifiers,            \* goroutines that serve verify
  MaxRequestsPerHour, Hour, ResendCooldown,   \* AbuseConfig
  MagicLinkTTL, SessionTTL,
  MaxDelay,             \* the longest a request-link call takes
  MaxClock, MaxFailures   \* bounds of a behaviour

ASSUME LinkAssumption ==
  /\ NoEmail \notin Emails /\ NoToken \notin Tokens /\ IPs # {}
  /\ {MaxRequestsPerHour, Hour, ResendCooldown, MagicLinkTTL, SessionTTL,
      MaxDelay, MaxClock, MaxFailures} \subseteq Nat
  /\ MaxDelay <= ResendCooldown

VARIABLES
  ipCount,     \* Redis: requests of an IP in its window, and when that ends
  resendAt,    \* Redis: when the resend cooldown of an address ends
  identity,    \* api_identities: no row, a row, or one with email_verified_at
  tokens,      \* magic_link_tokens
  pc, req,     \* per request-link call: control point and locals
  vpc, ver,    \* per verify call: control point and locals
  sent,        \* when a token was mailed, or Never
  sessions,    \* per token, the cookies handed out for it
  now, faults, lost

requestVars == <<ipCount, resendAt, pc, req, sent>>
verifyVars == <<vpc, ver, sessions>>
vars == <<requestVars, verifyVars, identity, tokens, now, faults, lost>>

-----------------------------------------------------------------------------
Never == MaxClock + 1

Token == [owner : Emails \cup {NoEmail}, expires : Nat, used : 0..Never]

RequestState == [email : Emails \cup {NoEmail}, token : Tokens \cup {NoToken}, at : Nat]

VerifyState == [token : Tokens \cup {NoToken}, at : Nat, usedAt : 0..Never]

Session == [email : Emails \cup {NoEmail}, until : Nat]

NoRow == [owner |-> NoEmail, expires |-> 0, used |-> Never]

IdleRequest == [email |-> NoEmail, token |-> NoToken, at |-> 0]

IdleVerify == [token |-> NoToken, at |-> 0, usedAt |-> Never]

\* A call that fails without an effect.
Fault == faults + lost < MaxFailures /\ faults' = faults + 1 /\ UNCHANGED lost

\* A call that takes effect and whose answer is lost.
Lost == faults + lost < MaxFailures /\ lost' = lost + 1 /\ UNCHANGED faults

Works == UNCHANGED <<faults, lost>>

Goto(r, l) == pc' = [pc EXCEPT ![r] = l]

Answer(r) == Goto(r, "idle") /\ req' = [req EXCEPT ![r] = IdleRequest]

VGoto(v, l) == vpc' = [vpc EXCEPT ![v] = l]

Redirect(v) == VGoto(v, "idle") /\ ver' = [ver EXCEPT ![v] = IdleVerify]

-----------------------------------------------------------------------------
(* request-link.                                                           *)

\* The script counts a request and gives a new counter its TTL, in one step.
Counted(i) ==
  IF now < ipCount[i].until THEN [ipCount[i] EXCEPT !.n = @ + 1]
  ELSE [n |-> 1, until |-> now + Hour]

Admit(r, e) ==
  /\ Goto(r, "cooldown")
  /\ req' = [req EXCEPT ![r] = [email |-> e, token |-> NoToken, at |-> now]]
  /\ UNCHANGED resendAt

\* Mutant: the cooldown is taken before the IP limit has its say.
RefuseAfterCooldown(e) ==
  /\ resendAt' = [resendAt EXCEPT ![e] = IF @ <= now THEN now + ResendCooldown ELSE @]
  /\ UNCHANGED <<pc, req>>

\* 429: nothing but the counter has changed.
Refuse(e) == UNCHANGED <<pc, req, resendAt>>

\* The bound on the counter: a second refusal in one window would only count on.
Bounded(i) == now < ipCount[i].until => ipCount[i].n <= MaxRequestsPerHour

\* The address passes the denylist, then the IP limit, which fails open.
StartRequest(r, i, e) ==
  /\ pc[r] = "idle" /\ e \notin Disposable /\ Bounded(i)
  /\ \/ /\ ipCount' = [ipCount EXCEPT ![i] = Counted(i)]
        /\ IF Counted(i).n > MaxRequestsPerHour THEN Refuse(e) ELSE Admit(r, e)
        /\ Works
     \/ Fault /\ Admit(r, e) /\ UNCHANGED ipCount
  /\ UNCHANGED <<sent, verifyVars, identity, tokens, now>>

\* Mutant: the cooldown protects addresses that are verified, not strangers.
CooldownOfVerified(e) == identity[e] = "verified" /\ resendAt[e] > now

CooldownHeld(e) == resendAt[e] > now

\* SET NX, which fails open. A held cooldown ends the call as if it had sent.
CheckCooldown(r) ==
  LET e == req[r].email IN
  /\ pc[r] = "cooldown"
  /\ \/ /\ ~ CooldownHeld(e)
        /\ resendAt' = [resendAt EXCEPT ![e] = now + ResendCooldown]
        /\ Goto(r, "upsert") /\ Works /\ UNCHANGED req
     \/ CooldownHeld(e) /\ Answer(r) /\ Works /\ UNCHANGED resendAt
     \/ Fault /\ Goto(r, "upsert") /\ UNCHANGED <<req, resendAt>>
  /\ UNCHANGED <<ipCount, sent, verifyVars, identity, tokens, now>>

UpsertIdentity(r) ==
  LET e == req[r].email IN
  /\ pc[r] = "upsert"
  /\ \/ /\ identity' = [identity EXCEPT ![e] = IF @ = "none" THEN "unverified" ELSE @]
        /\ Goto(r, "insert") /\ Works /\ UNCHANGED req
     \/ Fault /\ Answer(r) /\ UNCHANGED identity
  /\ UNCHANGED <<ipCount, resendAt, sent, verifyVars, tokens, now>>

\* GenerateRawToken never repeats itself; a failed insert leaves the call.
InsertToken(r) ==
  /\ pc[r] = "insert"
  /\ \/ \E t \in Tokens :
          /\ tokens[t] = NoRow
          /\ tokens' = [tokens EXCEPT ![t] = [owner |-> req[r].email,
                          expires |-> now + MagicLinkTTL, used |-> Never]]
          /\ req' = [req EXCEPT ![r].token = t]
          /\ Goto(r, "send") /\ Works
     \/ Fault /\ Answer(r) /\ UNCHANGED tokens
  /\ UNCHANGED <<ipCount, resendAt, sent, verifyVars, identity, now>>

\* The caller hears the same answer whether or not the mail went out.
SendMagicLink(r) ==
  /\ pc[r] = "send"
  /\ \/ (Works \/ Lost) /\ sent' = [sent EXCEPT ![req[r].token] = now]
     \/ Fault /\ UNCHANGED sent
  /\ Answer(r)
  /\ UNCHANGED <<ipCount, resendAt, verifyVars, identity, tokens, now>>

-----------------------------------------------------------------------------
(* verify.                                                                 *)

\* A link that was mailed is opened, perhaps twice, perhaps by a scanner.
StartVerify(v, t) ==
  /\ vpc[v] = "idle" /\ sent[t] # Never
  /\ ver' = [ver EXCEPT ![v] = [token |-> t, at |-> now, usedAt |-> Never]]
  /\ VGoto(v, "select")
  /\ UNCHANGED <<requestVars, sessions, identity, tokens, now, faults, lost>>

\* FOR UPDATE: the row is locked from the select to the end of the transaction.
RowFree(v, t) == \A w \in Verifiers \ {v} : vpc[w] \in {"update", "commit"} => ver[w].token # t

Unused(t) == tokens[t].used = Never

\* clock_timestamp() may be computed before the wait for the row lock.
SelectForUpdate(v) ==
  LET t == ver[v].token IN
  /\ vpc[v] = "select"
  /\ \/ RowFree(v, t) /\ Works
        /\ \E serverNow \in {ver[v].at, now} :
             IF Unused(t) /\ serverNow < tokens[t].expires
             THEN VGoto(v, "update") /\ UNCHANGED ver
             ELSE Redirect(v)
     \/ Fault /\ Redirect(v)
  /\ UNCHANGED <<requestVars, sessions, identity, tokens, now>>

\* Mutant: the update trusts the expiry check of the select.
ExpiryChecked(t) == TRUE

InTerm(t) == now < tokens[t].expires

MarkUsed(v) ==
  LET t == ver[v].token IN
  /\ vpc[v] = "update"
  /\ \/ /\ Works
        /\ IF Unused(t) /\ InTerm(t)
           THEN VGoto(v, "commit") /\ ver' = [ver EXCEPT ![v].usedAt = now]
           ELSE Redirect(v)
     \/ Fault /\ Redirect(v)
  /\ UNCHANGED <<requestVars, sessions, identity, tokens, now>>

Consumed(v) == [tokens EXCEPT ![ver[v].token].used = ver[v].usedAt]

CommitToken(v) ==
  /\ vpc[v] = "commit"
  /\ \/ tokens' = Consumed(v) /\ VGoto(v, "mark") /\ Works /\ UNCHANGED ver
     \/ tokens' = Consumed(v) /\ Redirect(v) /\ Lost
     \/ Fault /\ Redirect(v) /\ UNCHANGED tokens
  /\ UNCHANGED <<requestVars, sessions, identity, now>>

\* Mutant: marking an address that is verified already is an error.
MarkEmailVerifiedOnce(v) ==
  LET e == tokens[ver[v].token].owner IN
  /\ vpc[v] = "mark"
  /\ IF identity[e] = "unverified" THEN VGoto(v, "open") /\ UNCHANGED ver ELSE Redirect(v)
  /\ identity' = [identity EXCEPT ![e] = "verified"]
  /\ UNCHANGED <<requestVars, sessions, tokens, now, faults, lost>>

MarkEmailVerified(v) ==
  LET e == tokens[ver[v].token].owner IN
  /\ vpc[v] = "mark"
  /\ \/ /\ identity' = [identity EXCEPT ![e] = "verified"]
        /\ VGoto(v, "open") /\ Works /\ UNCHANGED ver
     \/ Fault /\ Redirect(v) /\ UNCHANGED identity
  /\ UNCHANGED <<requestVars, sessions, tokens, now>>

\* GetIdentityByID, then the cookie.
SetSessionCookie(v) ==
  LET t == ver[v].token IN
  /\ vpc[v] = "open"
  /\ \/ /\ sessions' = [sessions EXCEPT ![t] =
                          Append(@, [email |-> tokens[t].owner, until |-> now + SessionTTL])]
        /\ Works
     \/ Fault /\ UNCHANGED sessions
  /\ Redirect(v)
  /\ UNCHANGED <<requestVars, identity, tokens, now>>

-----------------------------------------------------------------------------
\* The API process restarts: calls in progress vanish, open transactions roll back.
Restart ==
  /\ Fault
  /\ \E r \in Requests : pc[r] # "idle" \/ \E v \in Verifiers : vpc[v] # "idle"
  /\ pc' = [r \in Requests |-> "idle"] /\ req' = [r \in Requests |-> IdleRequest]
  /\ vpc' = [v \in Verifiers |-> "idle"] /\ ver' = [v \in Verifiers |-> IdleVerify]
  /\ UNCHANGED <<ipCount, resendAt, sent, sessions, identity, tokens, now>>

Tick ==
  /\ now < MaxClock
  /\ \A r \in Requests : pc[r] # "idle" => now < req[r].at + MaxDelay
  /\ now' = now + 1
  /\ UNCHANGED <<requestVars, verifyVars, identity, tokens, faults, lost>>

Init ==
  /\ ipCount = [i \in IPs |-> [n |-> 0, until |-> 0]]
  /\ resendAt = [e \in Emails |-> 0]
  /\ identity = [e \in Emails |-> "none"]
  /\ tokens = [t \in Tokens |-> NoRow]
  /\ pc = [r \in Requests |-> "idle"] /\ req = [r \in Requests |-> IdleRequest]
  /\ vpc = [v \in Verifiers |-> "idle"] /\ ver = [v \in Verifiers |-> IdleVerify]
  /\ sent = [t \in Tokens |-> Never]
  /\ sessions = [t \in Tokens |-> <<>>]
  /\ now = 0 /\ faults = 0 /\ lost = 0

RequestStep(r) ==
  \/ \E i \in IPs, e \in Emails : StartRequest(r, i, e)
  \/ CheckCooldown(r) \/ UpsertIdentity(r) \/ InsertToken(r) \/ SendMagicLink(r)

VerifyStep(v) ==
  \/ \E t \in Tokens : StartVerify(v, t)
  \/ SelectForUpdate(v) \/ MarkUsed(v) \/ CommitToken(v)
  \/ MarkEmailVerified(v) \/ SetSessionCookie(v)

Next ==
  \/ \E r \in Requests : RequestStep(r)
  \/ \E v \in Verifiers : VerifyStep(v)
  \/ Restart \/ Tick

Spec == Init /\ [][Next]_vars

-----------------------------------------------------------------------------
(* Properties.                                                             *)

RequestTypeOK ==
  /\ ipCount \in [IPs -> [n : Nat, until : Nat]]
  /\ resendAt \in [Emails -> Nat]
  /\ pc \in [Requests -> {"idle", "cooldown", "upsert", "insert", "send"}]
  /\ req \in [Requests -> RequestState]
  /\ \A r \in Requests : /\ pc[r] # "idle" => req[r].email \in Emails
                         /\ pc[r] = "send" => req[r].token \in Tokens
  /\ sent \in [Tokens -> 0..Never]

VerifyTypeOK ==
  /\ vpc \in [Verifiers -> {"idle", "select", "update", "commit", "mark", "open"}]
  /\ ver \in [Verifiers -> VerifyState]
  /\ \A v \in Verifiers : vpc[v] # "idle" => ver[v].token \in Tokens
  /\ sessions \in [Tokens -> Seq(Session)]

SharedTypeOK ==
  /\ identity \in [Emails -> {"none", "unverified", "verified"}]
  /\ tokens \in [Tokens -> Token]
  /\ now \in 0..MaxClock /\ faults \in Nat /\ lost \in Nat

\* The variables have their types.
TypeOK == RequestTypeOK /\ VerifyTypeOK /\ SharedTypeOK

Link == INSTANCE OneTimeLink WITH
  Links <- Tokens, Owners <- Emails, NoOwner <- NoEmail,
  owner <- [t \in Tokens |-> tokens[t].owner],
  spent <- {t \in Tokens : tokens[t].used # Never},
  late <- {t \in Tokens : tokens[t].used # Never /\ tokens[t].used >= tokens[t].expires},
  opened <- [t \in Tokens |-> [k \in DOMAIN sessions[t] |-> sessions[t][k].email]]

(* ConsumeToken and Verify implement the one-time link: whoever opens it,  *)
(* how often, and however long a request waits for the row, a token is     *)
(* consumed once, in its term, and opens one session of its own address.   *)
LinkIsOneTime == Link!LinkSpec

Serving(t) == \E v \in Verifiers : ver[v].token = t /\ vpc[v] \in {"mark", "open"}

(* A consumed link has opened its session or is about to, unless a call    *)
(* failed: no interleaving of Verify calls, of a new or a returning user,  *)
(* burns the link for nothing.                                             *)
LinkNotBurnt ==
  faults = 0 /\ lost = 0 =>
    \A t \in Tokens : tokens[t].used # Never => Serving(t) \/ sessions[t] # <<>>

Underway(e) == \E r \in Requests : pc[r] # "idle" /\ req[r].email = e

(* RequestLink answers "you'll receive a sign-in link" without sending     *)
(* one while the cooldown of the address is held. Unless a call failed,    *)
(* that is no lie: a link was mailed since the cooldown was taken, or is   *)
(* on its way, though the cooldown is taken before the work.               *)
SuppressedWasMailed ==
  faults = 0 =>
    \A e \in Emails : resendAt[e] > now =>
      \/ Underway(e)
      \/ \E t \in Tokens : /\ tokens[t].owner = e
                           /\ sent[t] # Never /\ sent[t] + ResendCooldown >= resendAt[e]

(* ResendCooldown protects an inbox: while Redis answers, two mails to one *)
(* address are at least the cooldown apart, less the time a call may take. *)
MailsSpaced ==
  faults = 0 =>
    \A t, u \in Tokens :
      /\ t # u /\ tokens[t].owner = tokens[u].owner
      /\ sent[t] # Never /\ sent[u] # Never /\ sent[t] <= sent[u]
      => sent[u] + MaxDelay >= sent[t] + ResendCooldown
=============================================================================
