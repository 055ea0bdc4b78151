----------------------------- MODULE Reconciler -----------------------------
(***************************************************************************)
(* The scrape -> diff -> reconcile -> verify pipeline of the worker.       *)
(*                                                                         *)
(* Workers are asynq's goroutines. Each runs runPipeline for one batch of  *)
(* sources at a time; all share one Reconciler: the in-memory pending map  *)
(* (guarded by a mutex), its mirror in a Redis hash (written outside the   *)
(* mutex), and the PostgreSQL tables of PriceStore. Each database or Redis *)
(* round trip and each critical section is a step, so the steps of two     *)
(* workers interleave exactly where the code lets them.                    *)
(***************************************************************************)
EXTENDS PriceStore, MultiSource

CONSTANTS
  Workers,             \* asynq worker goroutines
  UnderlyingProvider,  \* [Sources -> [Models -> provider]], NoProvider where a source is direct
  NoProvider,
  Batches,             \* the sets of sources whose diffs reach one Reconcile call
  Overlap,             \* may two tasks of one source run at the same time?
  PendingTTL,          \* pendingTTL, in clock units
  MaxFetches, MaxClock, MaxFaults, MaxRestarts   \* bounds of a behaviour

\* effectiveProvider: the underlying provider, or the source's own name.
EffectiveProvider(d) ==
  LET u == UnderlyingProvider[d.source][d.model] IN IF u # NoProvider THEN u ELSE d.source

Providers == {EffectiveProvider(r) : r \in [source : Sources, model : Models]}

Keys == Models \X Fields \X Providers

Diffs == [source : Sources, model : Models, field : Fields, value : Values]

KeyOf(d) == <<d.model, d.field, EffectiveProvider(d)>>

ASSUME ReconcilerAssumption ==
  /\ Batches \subseteq SUBSET Sources
  /\ Overlap \in BOOLEAN
  /\ {PendingTTL, MaxFetches, MaxClock, MaxFaults, MaxRestarts} \subseteq Nat
  /\ IsFiniteSet(Sources)
  /\ Rank \in [Sources -> Nat] /\ \A s, t \in Sources : Rank[s] = Rank[t] => s = t

VARIABLES
  pc, job,     \* per worker: control point and the locals of its task
  pending,     \* Reconciler.pending
  mirror,      \* the Redis hash reconciler:pending
  expires,     \* when Redis drops that hash, NoExpiry without a TTL
  loaded,      \* Reconciler.pendingLoaded
  events,      \* history indices announced by publishEvent, in order
  now,         \* wall clock
  fetches, faults, restarts,   \* how much of each bound is used
  sightings,   \* history variable: times the gate saw a value for a key
  confirms,    \* history variable: times the gate confirmed it
  lapsed       \* history variable: keys whose live entry Redis dropped with the hash

boundVars == <<fetches, faults, restarts>>
ghostVars == <<sightings, confirms, lapsed>>
vars == <<storeVars, pc, job, pending, mirror, expires, loaded, events, now, boundVars, ghostVars>>

-----------------------------------------------------------------------------
Entry == [value : Values, count : Nat, seen : Nat]

NoEntry == [value |-> 0, count |-> 0, seen |-> 0]   \* the key is not in the map

NoDiff == [source |-> CHOOSE s \in Sources : TRUE, model |-> CHOOSE m \in Models : TRUE,
           field |-> "input", value |-> 0]

EmptyMap == [k \in Keys |-> NoEntry]

NoExpiry == MaxClock + PendingTTL + 1   \* later than any deadline

Locations == {"idle", "load", "merge", "sweep", "evict", "resolve", "group", "gate", "hset",
              "expire", "hdel", "read", "write", "event", "verify"}

IdleJob == [listed |-> {}, diffs |-> {}, todo |-> {}, cur |-> NoDiff, sibling |-> 0,
            found |-> FALSE, via |-> "first", conf |-> "low",
            row |-> [f \in Fields |-> 0], entry |-> NoEntry, swept |-> {}, wrote |-> 0,
            snap |-> EmptyMap]

Stale(e) == e.count > 0 /\ e.seen + PendingTTL < now

Groups(D) == {<<d.model, d.field>> : d \in D}

GroupOf(D, g) == {d \in D : d.model = g[1] /\ d.field = g[2]}

\* The value this cycle scraped for the other field (cycleVals), 0 if none.
SiblingValues(D, g) ==
  LET sib == GroupOf(D, <<g[1], OtherField(g[2])>>)
  IN  IF sib = {} THEN {0} ELSE {d.value : d \in sib}

\* A round trip that fails; the code logs it and carries on.
Fault == faults < MaxFaults /\ faults' = faults + 1

\* Redis removes a hash with its last field, and the TTL with it.
KeepDeadline == expires' = IF mirror' = EmptyMap THEN NoExpiry ELSE expires

Goto(w, l) == pc' = [pc EXCEPT ![w] = l]

\* The locals of one group go out of scope at the end of its iteration.
EndGroup(w, todo) ==
  /\ job' = [job EXCEPT ![w] = [IdleJob EXCEPT !.listed = job[w].listed,
                                               !.diffs = job[w].diffs, !.todo = todo]]
  /\ pc' = [pc EXCEPT ![w] = IF todo = {} THEN "verify" ELSE "group"]

-----------------------------------------------------------------------------
(* runPipeline up to Reconcile: fetch, EnsureModels, read the stored rows   *)
(* of the source and diff them. Up to here a failure returns an error and  *)
(* asynq runs the task again: no price state has changed.                  *)

\* diff.Diff: a first price only when positive, a stored one when it differs.
Changed(row, f, v) == IF row.conf = "none" THEN v > 0 ELSE v # row[f]

DiffOf(scraped) ==
  {d \in Diffs :
     /\ <<d.source, d.model>> \in DOMAIN scraped
     /\ d.value = scraped[<<d.source, d.model>>][d.field]
     /\ Changed(prices[d.model][d.source], d.field, d.value)}

\* A fetch without a single model is an error.
Listings(S) == {L \in SUBSET (S \X Models) : \A s \in S : \E m \in Models : <<s, m>> \in L}

\* Mutant: a schedule so dense that a task starts while its predecessor runs.
DenseSchedule(S) == TRUE

\* The cron entries of a source are at least 6 hours apart and its startup task
\* is unique for a day; Overlap = TRUE adds what neither excludes: a retry, or a
\* startup task, next to a cron task.
NotRunning(S) == \A v \in Workers : {p[1] : p \in job[v].listed} \cap S = {}

Scrape(w) ==
  /\ pc[w] = "idle"
  /\ fetches < MaxFetches
  /\ fetches' = fetches + 1
  /\ \E S \in Batches : \E listed \in Listings(S) : \E scraped \in [listed -> Quotes] :
       LET D == DiffOf(scraped) IN
       /\ Overlap \/ NotRunning(S)
       /\ job' = [job EXCEPT ![w] = [IdleJob EXCEPT !.listed = listed, !.diffs = D,
                                                    !.todo = Groups(D)]]
       /\ Goto(w, IF D = {} THEN "verify" ELSE IF loaded THEN "sweep" ELSE "load")
  /\ UNCHANGED <<storeVars, pending, mirror, expires, loaded, events, now, faults, restarts, ghostVars>>

-----------------------------------------------------------------------------
(* loadPendingFromRedis, once per process: HGETALL without the lock, then  *)
(* a merge under it that skips stale entries and keeps what is in memory.  *)

ReadMirror(w) ==
  /\ pc[w] = "load"
  /\ \/ /\ job' = [job EXCEPT ![w].snap = mirror]
        /\ Goto(w, "merge")
        /\ UNCHANGED faults
     \/ Goto(w, "sweep") /\ Fault /\ UNCHANGED job
  /\ UNCHANGED <<storeVars, pending, mirror, expires, loaded, events, now, fetches, restarts, ghostVars>>

MergeMirror(w) ==
  /\ pc[w] = "merge"
  /\ pending' = IF loaded THEN pending
                ELSE [k \in Keys |-> IF pending[k].count = 0 /\ ~Stale(job[w].snap[k])
                                       THEN job[w].snap[k] ELSE pending[k]]
  /\ loaded' = TRUE
  /\ job' = [job EXCEPT ![w].snap = EmptyMap]
  /\ Goto(w, "sweep")
  /\ UNCHANGED <<storeVars, mirror, expires, events, now, boundVars, ghostVars>>

(* sweepStalePending under the lock, then its HDEL outside it. Resolving    *)
(* the source ids follows: the diffs of a source that fails are dropped.    *)
Sweep(w) ==
  LET swept == {k \in Keys : Stale(pending[k])} IN
  /\ pc[w] = "sweep"
  /\ pending' = [k \in Keys |-> IF k \in swept THEN NoEntry ELSE pending[k]]
  /\ job' = [job EXCEPT ![w].swept = swept]
  /\ Goto(w, IF swept = {} THEN "resolve" ELSE "evict")
  /\ UNCHANGED <<storeVars, mirror, expires, loaded, events, now, boundVars, ghostVars>>

EvictMirror(w) ==
  /\ pc[w] = "evict"
  /\ \/ /\ mirror' = [k \in Keys |-> IF k \in job[w].swept THEN NoEntry ELSE mirror[k]]
        /\ KeepDeadline
        /\ UNCHANGED faults
     \/ Fault /\ UNCHANGED <<mirror, expires>>
  /\ job' = [job EXCEPT ![w].swept = {}]
  /\ Goto(w, "resolve")
  /\ UNCHANGED <<storeVars, pending, loaded, events, now, fetches, restarts, ghostVars>>

Without(D, s) == {d \in D : d.source # s}

ResolveSources(w) ==
  /\ pc[w] = "resolve"
  /\ \/ Goto(w, "group") /\ UNCHANGED <<job, faults>>
     \/ \E s \in {d.source : d \in job[w].diffs} :
          /\ Fault
          /\ job' = [job EXCEPT ![w].diffs = Without(job[w].diffs, s),
                                ![w].todo = Groups(Without(job[w].diffs, s))]
          /\ Goto(w, IF Without(job[w].diffs, s) = {} THEN "verify" ELSE "group")
  /\ UNCHANGED <<storeVars, pending, mirror, expires, loaded, events, now, fetches, restarts, ghostVars>>

-----------------------------------------------------------------------------
(* The loop over (model, field) groups, in the random order of a Go map.    *)

\* LookupModelID fails (or EnsureModels failed for this row): skip the group.
SkipGroup(w) ==
  /\ pc[w] = "group"
  /\ Fault
  /\ \E g \in job[w].todo : EndGroup(w, job[w].todo \ {g})
  /\ UNCHANGED <<storeVars, pending, mirror, expires, loaded, events, now, fetches, restarts, ghostVars>>

Independent(G) == \E d, e \in G : EffectiveProvider(d) # EffectiveProvider(e)

(* processSingleSource, before the lock: is there a stored row? A failed    *)
(* lookup counts as "yes".                                                  *)
LookupExisting(w) ==
  /\ pc[w] = "group"
  /\ \E g \in job[w].todo : LET G == GroupOf(job[w].diffs, g) IN
       /\ ~Independent(G)
       /\ \E d \in First(G), sib \in SiblingValues(job[w].diffs, g), found \in BOOLEAN :
            /\ \/ found = Exists(d.model, d.source) /\ UNCHANGED faults
               \/ found /\ Fault
            /\ job' = [job EXCEPT ![w].todo = @ \ {g}, ![w].cur = d, ![w].sibling = sib,
                                  ![w].found = found]
  /\ Goto(w, "gate")
  /\ UNCHANGED <<storeVars, pending, mirror, expires, loaded, events, now, fetches, restarts, ghostVars>>

(* processMultiSource: flag the widest pair when it exceeds 5%, then publish *)
(* the verdict, if any.                                                      *)
DecideMulti(w) ==
  /\ pc[w] = "group"
  /\ \E g \in job[w].todo : LET G == GroupOf(job[w].diffs, g) IN
       /\ Independent(G)
       /\ \/ ~Flags(G) /\ UNCHANGED <<review, faults>>
          \/ /\ Flags(G)
             /\ \E p \in WorstPair(G) : FlagDiscrepancy(g[1], g[2], p[1], p[2])
             /\ UNCHANGED faults
          \/ Flags(G) /\ Fault /\ UNCHANGED review
       /\ \/ Verdict(G) = {} /\ EndGroup(w, job[w].todo \ {g})
          \/ \E v \in Verdict(G), sib \in SiblingValues(job[w].diffs, g) :
               /\ job' = [job EXCEPT ![w].todo = @ \ {g}, ![w].cur = v.diff, ![w].sibling = sib,
                                     ![w].via = "agree", ![w].conf = v.conf]
               /\ Goto(w, "read")
  /\ UNCHANGED <<prices, history, pending, mirror, expires, loaded, events, now, fetches, restarts, ghostVars>>

-----------------------------------------------------------------------------
(* The two-fetch gate of processSingleSource: one critical section.         *)

Sighted(k, v) == sightings' = [sightings EXCEPT ![k][v] = @ + 1]

BrandNew(w, e) == ~job[w].found /\ e.count = 0

\* Mutant: the second case without its comparison of values.
AnyPending(e, v) == e.count > 0

Matches(e, v) == e.count > 0 /\ e.value = v

\* Mutant: a confirmed entry that stays in the map.
KeepPending(k) == UNCHANGED pending

DropPending(k) == pending' = [pending EXCEPT ![k] = NoEntry]

Gate(w) ==
  LET d == job[w].cur
      k == KeyOf(d)
      e == pending[k]
      new == [value |-> d.value, count |-> IF Matches(e, d.value) THEN e.count + 1 ELSE 1,
              seen |-> now] IN
  /\ pc[w] = "gate"
  /\ Sighted(k, d.value)
  /\ \/ /\ BrandNew(w, e)                      \* publish at once
        /\ job' = [job EXCEPT ![w].via = "first", ![w].conf = "low"]
        /\ Goto(w, "read")
        /\ UNCHANGED <<pending, confirms>>
     \/ /\ ~BrandNew(w, e)                     \* second matching fetch
        /\ Matches(e, d.value) /\ new.count >= 2
        /\ DropPending(k)
        /\ job' = [job EXCEPT ![w].via = "confirm", ![w].conf = "medium"]
        /\ confirms' = [confirms EXCEPT ![k][d.value] = @ + 1]
        /\ Goto(w, "hdel")
     \/ /\ ~BrandNew(w, e)                     \* hold it until it is seen again
        /\ ~(Matches(e, d.value) /\ new.count >= 2)
        /\ pending' = [pending EXCEPT ![k] = new]
        /\ job' = [job EXCEPT ![w].entry = new]
        /\ Goto(w, "hset")
        /\ UNCHANGED confirms
  /\ UNCHANGED <<storeVars, mirror, expires, loaded, events, now, boundVars, lapsed>>

(* The mirror is written after the lock is released: HSET, then EXPIRE of    *)
(* the whole hash. A failed HSET, carried out or not, skips the EXPIRE.      *)
PersistPending(w) ==
  LET written == [mirror EXCEPT ![KeyOf(job[w].cur)] = job[w].entry] IN
  /\ pc[w] = "hset"
  /\ \/ mirror' = written /\ Goto(w, "expire") /\ UNCHANGED <<job, faults>>
     \/ Fault /\ mirror' \in {mirror, written} /\ EndGroup(w, job[w].todo)
  /\ lapsed' = lapsed \ {KeyOf(job[w].cur)}
  /\ UNCHANGED <<storeVars, pending, expires, loaded, events, now, fetches, restarts, sightings,
                 confirms>>

\* Mutant: a TTL that is set once and does not roll.
SetTTLOnce(w) ==
  /\ pc[w] = "expire"
  /\ expires' = IF mirror # EmptyMap /\ expires = NoExpiry THEN now + PendingTTL ELSE expires
  /\ EndGroup(w, job[w].todo)
  /\ UNCHANGED <<storeVars, pending, mirror, loaded, events, now, boundVars, ghostVars>>

\* EXPIRE does nothing when the hash is gone meanwhile.
RefreshTTL(w) ==
  /\ pc[w] = "expire"
  /\ \/ expires' = (IF mirror = EmptyMap THEN expires ELSE now + PendingTTL) /\ UNCHANGED faults
     \/ Fault /\ UNCHANGED expires
  /\ EndGroup(w, job[w].todo)
  /\ UNCHANGED <<storeVars, pending, mirror, loaded, events, now, fetches, restarts, ghostVars>>

\* Mutant: confirming without the HDEL.
DeletePendingInMemoryOnly(w) ==
  /\ pc[w] = "hdel"
  /\ Goto(w, "read")
  /\ UNCHANGED <<storeVars, job, pending, mirror, expires, loaded, events, now, boundVars, ghostVars>>

DeletePending(w) ==
  /\ pc[w] = "hdel"
  /\ \/ /\ mirror' = [mirror EXCEPT ![KeyOf(job[w].cur)] = NoEntry]
        /\ KeepDeadline
        /\ UNCHANGED faults
     \/ Fault /\ UNCHANGED <<mirror, expires>>
  /\ Goto(w, "read")
  /\ UNCHANGED <<storeVars, job, pending, loaded, events, now, fetches, restarts, ghostVars>>

-----------------------------------------------------------------------------
(* publish: read the stored row again, complete the snapshot, refuse one    *)
(* with a zero, write it, announce it.                                      *)

\* Mutant: completing from this cycle's value first.
CompletedFromCycle(d, cur, sibling) ==
  LET o == OtherField(d.field) IN
  [f \in Fields |-> IF f = d.field THEN d.value
                    ELSE IF sibling > 0 THEN sibling ELSE cur[o]]

Completed(d, cur, sibling) ==
  LET o == OtherField(d.field) IN
  [f \in Fields |-> IF f = d.field THEN d.value
                    ELSE IF cur[o] > 0 THEN cur[o] ELSE sibling]

\* Mutant: one column is enough.
AnyPrice(row) == row["input"] > 0 \/ row["output"] > 0

\* The incomplete-price guard.
Complete(row) == row["input"] > 0 /\ row["output"] > 0

ReadCurrent(w) ==
  LET d == job[w].cur IN
  /\ pc[w] = "read"
  /\ \E cur \in {prices[d.model][d.source], NoRow} :
       LET row == Completed(d, cur, job[w].sibling) IN
       /\ \/ cur = prices[d.model][d.source] /\ UNCHANGED faults
          \/ cur = NoRow /\ Fault
       /\ IF Complete(row)
            THEN /\ job' = [job EXCEPT ![w].row = row]
                 /\ Goto(w, "write")
            ELSE EndGroup(w, job[w].todo)
  /\ UNCHANGED <<storeVars, pending, mirror, expires, loaded, events, now, fetches, restarts, ghostVars>>

SnapshotOf(w) ==
  [model |-> job[w].cur.model, source |-> job[w].cur.source,
   input |-> job[w].row["input"], output |-> job[w].row["output"],
   conf |-> job[w].conf, via |-> job[w].via, field |-> job[w].cur.field]

PublishPrice(w) ==
  /\ pc[w] = "write"
  /\ \/ /\ WritePrice(SnapshotOf(w), now)
        /\ job' = [job EXCEPT ![w].wrote = Len(history) + 1]
        /\ Goto(w, "event")
        /\ UNCHANGED faults
     \/ /\ Fault
        /\ \/ UNCHANGED <<prices, history>>
           \/ WritePrice(SnapshotOf(w), now)      \* committed, and the answer was lost
        /\ EndGroup(w, job[w].todo)
  /\ UNCHANGED <<review, pending, mirror, expires, loaded, events, now, fetches, restarts, ghostVars>>

\* Mutant: announcing changes only, not first prices.
AnnounceChanges(w) ==
  IF job[w].via = "first" THEN UNCHANGED events ELSE events' = Append(events, job[w].wrote)

Announce(w) == events' = Append(events, job[w].wrote)

\* publishEvent, as one step.
PublishEvent(w) ==
  /\ pc[w] = "event"
  /\ \/ Announce(w) /\ UNCHANGED faults
     \/ Fault /\ UNCHANGED events
  /\ EndGroup(w, job[w].todo)
  /\ UNCHANGED <<storeVars, pending, mirror, expires, loaded, now, fetches, restarts, ghostVars>>

(* MarkVerified stamps every listed row of the source, changed or not.      *)
MarkVerified(w) ==
  /\ pc[w] = "verify"
  /\ \/ /\ prices' = [m \in Models |-> [s \in Sources |->
              IF <<s, m>> \in job[w].listed /\ Exists(m, s)
                THEN [prices[m][s] EXCEPT !.verified = now] ELSE prices[m][s]]]
        /\ UNCHANGED faults
     \/ Fault /\ UNCHANGED prices
  /\ job' = [job EXCEPT ![w] = IdleJob]
  /\ Goto(w, "idle")
  /\ UNCHANGED <<history, review, pending, mirror, expires, loaded, events, now, fetches, restarts, ghostVars>>

-----------------------------------------------------------------------------
\* Redis drops the hash with all its entries when its deadline has passed.
DropHash ==
  /\ mirror' = EmptyMap
  /\ expires' = NoExpiry
  /\ lapsed' = lapsed \cup {k \in Keys : mirror[k].count > 0 /\ mirror[k].seen + PendingTTL >= now'}

Tick ==
  /\ now < MaxClock
  /\ now' = now + 1
  /\ IF now' > expires THEN DropHash ELSE UNCHANGED <<mirror, expires, lapsed>>
  /\ UNCHANGED <<storeVars, pc, job, pending, loaded, events, boundVars, sightings, confirms>>

\* The process dies and starts again: only PostgreSQL and Redis survive.
Restart ==
  /\ restarts < MaxRestarts
  /\ restarts' = restarts + 1
  /\ pc' = [w \in Workers |-> "idle"]
  /\ job' = [w \in Workers |-> IdleJob]
  /\ pending' = EmptyMap
  /\ loaded' = FALSE
  /\ UNCHANGED <<storeVars, mirror, expires, events, now, fetches, faults, ghostVars>>

WorkerStep(w) ==
  \/ ReadMirror(w) \/ MergeMirror(w) \/ Sweep(w) \/ EvictMirror(w) \/ ResolveSources(w)
  \/ SkipGroup(w) \/ LookupExisting(w) \/ DecideMulti(w) \/ Gate(w)
  \/ PersistPending(w) \/ RefreshTTL(w) \/ DeletePending(w)
  \/ ReadCurrent(w) \/ PublishPrice(w) \/ PublishEvent(w) \/ MarkVerified(w)

ReconcilerInit ==
  /\ StoreInit
  /\ pc = [w \in Workers |-> "idle"]
  /\ job = [w \in Workers |-> IdleJob]
  /\ pending = EmptyMap
  /\ mirror = EmptyMap
  /\ expires = NoExpiry
  /\ loaded = FALSE
  /\ events = << >>
  /\ now = 0
  /\ fetches = 0 /\ faults = 0 /\ restarts = 0
  /\ sightings = [k \in Keys |-> [v \in Values |-> 0]]
  /\ confirms = [k \in Keys |-> [v \in Values |-> 0]]
  /\ lapsed = {}

ReconcilerNext == (\E w \in Workers : Scrape(w) \/ WorkerStep(w)) \/ Tick
=============================================================================
