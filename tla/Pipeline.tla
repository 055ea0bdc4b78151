------------------------------ MODULE Pipeline ------------------------------
(***************************************************************************)
(* The worker's reconciler and the operator's review queue, running over   *)
(* the same tables.                                                        *)
(***************************************************************************)
EXTENDS Reconciler, ReviewQueue

systemVars == <<vars, approving>>

\* The API process serves the operators; it shares only the tables with the worker.
Operator ==
  /\ \/ \E i \in DOMAIN review : BeginApprove(i) \/ Reject(i)
     \/ \E a \in approving : CommitApprove(a) \/ RollbackApprove(a)
  /\ UNCHANGED <<pc, job, pending, mirror, expires, loaded, events, now, boundVars, ghostVars>>

Init == ReconcilerInit /\ approving = {}

\* One life of the worker process.
Next == (ReconcilerNext /\ UNCHANGED approving) \/ Operator

Spec == Init /\ [][Next]_systemVars

\* Crashes and deploys of the worker included.
NextRestart == Next \/ (Restart /\ UNCHANGED approving)

SpecRestart == Init /\ [][NextRestart]_systemVars

\* asynq keeps running the tasks it has started.
FairSpec == Spec /\ \A w \in Workers : WF_vars(WorkerStep(w))
-----------------------------------------------------------------------------
PendingMap == [Keys -> Entry]
DiffSets == SUBSET Diffs
PricePair == [Fields -> Nat]

Job == [listed : SUBSET (Sources \X Models), diffs : DiffSets,
        todo : SUBSET (Models \X Fields), cur : Diffs, sibling : Values, found : BOOLEAN,
        via : Origins, conf : Confidences, row : PricePair, entry : Entry,
        swept : SUBSET Keys, wrote : Nat, snap : PendingMap]

\* The tables and the worker's state.
WorkerTypeOK ==
  /\ StoreTypeOK
  /\ pc \in [Workers -> Locations]
  /\ job \in [Workers -> Job]
  /\ pending \in PendingMap
  /\ mirror \in PendingMap
  /\ expires \in Nat
  /\ loaded \in BOOLEAN
  /\ events \in Seq(Nat)
  /\ now \in Nat
  /\ fetches \in Nat /\ faults \in Nat /\ restarts \in Nat
  /\ sightings \in [Keys -> [Values -> Nat]]
  /\ confirms \in [Keys -> [Values -> Nat]]
  /\ lapsed \subseteq Keys

(* Every variable keeps its type. In particular every snapshot carries one of *)
(* the three confidences, and an open Approve locks an existing review entry. *)
TypeOK == WorkerTypeOK /\ ApprovingTypeOK
-----------------------------------------------------------------------------
Column(h, f) == IF f = "input" THEN h.input ELSE h.output

SnapKey(h) == <<h.model, h.field, EffectiveProvider(h)>>

\* The column shows c because of a value that the gate saw twice.
SightedTwice(k, c) == \E v \in Values : Stored(v) = c /\ sightings[k][v] >= 2

SameRow(i, j) == history[i].model = history[j].model /\ history[i].source = history[j].source

\* Indices j < i such that history[j] is the row history[i] replaced.
Replaced(i) == {j \in 1..(i - 1) : SameRow(i, j) /\ \A k \in (j + 1)..(i - 1) : ~SameRow(i, k)}

(* price_history never holds a zero: publish refuses an incomplete row even *)
(* when the stored row could not be read or is still missing a column.      *)
NoZeroPrice ==
  \A i \in DOMAIN history : history[i].input > 0 /\ history[i].output > 0

(* prices always shows the latest snapshot of price_history, whichever of   *)
(* the two writers (reconciler, operator) wrote last.                       *)
RowIsLatestSnapshot ==
  \A m \in Models, s \in Sources :
    LET mine == {i \in DOMAIN history : history[i].model = m /\ history[i].source = s} IN
    IF mine = {} THEN ~Exists(m, s)
    ELSE \E i \in mine : /\ \A j \in mine : j <= i
                         /\ prices[m][s].input = history[i].input
                         /\ prices[m][s].output = history[i].output
                         /\ prices[m][s].conf = history[i].conf

(* The two-fetch gate pays for every confirmation with two sightings of its *)
(* own, however the tasks interleave. The one exception is what a restart   *)
(* loads from a mirror that was behind the map: one sighting per key and    *)
(* restart may be counted twice, and one more in the first life when the    *)
(* Redis of its first batch failed and the mirror was loaded later.         *)
TwoSightingsPerConfirmation ==
  \A k \in Keys, v \in Values :
    sightings[k][v] + restarts + (IF faults = 0 THEN 0 ELSE 1)
      >= 2 * confirms[k][v] + (IF pending[k].count > 0 /\ pending[k].value = v THEN 1 ELSE 0)

(* A medium single-source write has two sightings of its value behind it.   *)
ConfirmedWasSightedTwice ==
  \A i \in DOMAIN history : history[i].via = "confirm" =>
    SightedTwice(SnapKey(history[i]), Column(history[i], history[i].field))

(* The gate over its whole state: whatever holds a pending entry (the map,   *)
(* its Redis mirror, a worker's copy of either) holds a value that was       *)
(* sighted; a worker on its way to publish a confirmed value carries one     *)
(* that was sighted twice into the row it is about to write; and so every    *)
(* confirmed row has two sightings behind it, across restarts, failed Redis  *)
(* calls and the expiry of the mirror.                                       *)
Seen(k, e) == e.count > 0 => sightings[k][e.value] >= 1

LocalsSighted(w) ==
  LET d == job[w].cur IN
  /\ \A k \in Keys : Seen(k, job[w].snap[k])
  /\ pc[w] = "hset" => Seen(KeyOf(d), job[w].entry)
  /\ pc[w] \in {"hdel", "read", "write"} /\ job[w].via = "confirm"
       => sightings[KeyOf(d)][d.value] >= 2
  /\ pc[w] = "write" => job[w].row[d.field] = d.value

GateInv ==
  /\ \A k \in Keys : Seen(k, pending[k]) /\ Seen(k, mirror[k])
  /\ \A w \in Workers : LocalsSighted(w)
  /\ ConfirmedWasSightedTwice

(* "a single noisy scrape cannot overwrite a confirmed value": a column of  *)
(* an existing row changes to a new value through the gate only when that   *)
(* value was sighted twice for that column, the sibling column included.    *)
SingleScrapeCannotOverwrite ==
  \A i \in DOMAIN history : history[i].via \in {"first", "confirm"} =>
    \A j \in Replaced(i), f \in Fields :
      LET h == history[i] IN
      Column(h, f) # Column(history[j], f) =>
        SightedTwice(<<h.model, f, EffectiveProvider(h)>>, Column(h, f))

(* A committed change of a row is announced once, and after the changes of  *)
(* that row it follows.                                                     *)
AnnouncedInCommitOrder ==
  \A a, b \in DOMAIN events : a < b =>
    /\ events[a] # events[b]
    /\ SameRow(events[a], events[b]) => events[a] < events[b]

AllIdle == \A w \in Workers : pc[w] = "idle"

(* Between tasks the Redis mirror holds the pending map, so a restart resumes *)
(* the gate where it stopped. What differs is stale: a mirrored entry that    *)
(* will not be loaded, or an entry of the map that the next batch sweeps and  *)
(* that Redis has dropped with the whole hash; only a hash that expires       *)
(* between an HSET and its EXPIRE, or after a crash there, takes a live entry *)
(* with it. (One worker, no failed Redis call.)                               *)
MirrorMatchesPending ==
  AllIdle /\ loaded /\ faults = 0 => \A k \in Keys :
    \/ mirror[k] = pending[k]
    \/ pending[k] = NoEntry /\ Stale(mirror[k])
    \/ mirror[k] = NoEntry /\ (Stale(pending[k]) \/ k \in lapsed)

(* "rolling pendingTTL": Redis does not drop the hash while an entry in it is *)
(* within its own lifetime, however the HSETs and EXPIREs of several tasks    *)
(* interleave; the entry whose EXPIRE is still to come is the exception. (In  *)
(* one life, no failed Redis call.)                                           *)
HashOutlivesItsEntries ==
  faults = 0 /\ restarts = 0 => \A k \in Keys : mirror[k].count > 0 =>
    \/ mirror[k].seen + PendingTTL <= expires
    \/ \E w \in Workers : pc[w] = "expire" /\ KeyOf(job[w].cur) = k

\* Only one source reports for the key.
SoleSource(k) ==
  \A s, t \in Sources :
    /\ EffectiveProvider([source |-> s, model |-> k[1]]) = k[3]
    /\ EffectiveProvider([source |-> t, model |-> k[1]]) = k[3]
    => s = t

(* The mirror keeps no sighting that the map has used up: of a key with one   *)
(* source, what a restart would load is what the map holds, unless a task is  *)
(* on its way to mirror its decision. It holds with any number of workers as  *)
(* long as the tasks of a source do not overlap and no Redis call fails.      *)
MirrorKeepsNoGhost ==
  faults = 0 /\ loaded => \A k \in Keys :
    SoleSource(k) /\ mirror[k].count > 0 /\ ~Stale(mirror[k]) =>
      \/ mirror[k] = pending[k]
      \/ \E w \in Workers : pc[w] \in {"hset", "hdel"} /\ KeyOf(job[w].cur) = k

(* "stale - let it lapse; sweep will HDEL it below": after the sweep of a     *)
(* batch, without a failed call, the mirror holds no stale entry.             *)
StaleEntriesSwept ==
  [][\A w \in Workers :
       pc[w] \in {"sweep", "evict"} /\ pc'[w] = "resolve" /\ faults' = faults
       => \A k \in Keys : ~Stale(mirror'[k])]_vars

(* "the unchanged field value is preserved": a write for one column carries  *)
(* the other column over from the row it replaces.                           *)
UnchangedColumnPreserved ==
  \A i \in DOMAIN history : \A j \in Replaced(i) :
    LET o == OtherField(history[i].field) IN Column(history[i], o) = Column(history[j], o)

(* "the reconciler (which only fires on a change)": a write that replaces a   *)
(* row changes the column it is for.                                          *)
WritesChangeTheColumn ==
  \A i \in DOMAIN history : \A j \in Replaced(i) :
    Column(history[i], history[i].field) # Column(history[j], history[i].field)

-----------------------------------------------------------------------------
(* Review queue *)

(* Every pair of sources in one batch that differs by more than 5% leaves a  *)
(* pending review for its column, whichever pair the code picks to record.   *)
DisagreementFlagged ==
  [][\A w \in Workers : pc[w] = "group" =>
       \A g \in job[w].todo \ job'[w].todo : faults' = faults => LET G == GroupOf(job[w].diffs, g) IN
         Independent(G) /\ (\E d, e \in G : Discrepant(d.value, e.value))
           => PendingReview(g[1], g[2])']_vars

(* A review entry is decided once and never rewritten, and while it is open  *)
(* no second entry is opened for the same column.                            *)
ReviewDecidedOnce ==
  [][/\ \A i \in DOMAIN review :
          /\ i \in DOMAIN review'
          /\ [review'[i] EXCEPT !.status = review[i].status] = review[i]
          /\ review[i].status # "pending" => review'[i] = review[i]
     /\ \A i, j \in DOMAIN review' :
          /\ i # j
          /\ review'[i].status = "pending" /\ review'[j].status = "pending"
          => <<review'[i].model, review'[i].field>> # <<review'[j].model, review'[j].field>>]_review

(* "Any source disagreement exceeding 5% -> flagged to the review queue": of  *)
(* two independent sources whose stored prices differ by more than 5%, the    *)
(* operator has been told.                                                    *)
StoredDisagreementReviewed ==
  AllIdle => \A m \in Models, f \in Fields, s, t \in Sources :
    /\ EffectiveProvider([source |-> s, model |-> m]) # EffectiveProvider([source |-> t, model |-> m])
    /\ Exists(m, s) /\ Exists(m, t)
    /\ Discrepant(Column(prices[m][s], f), Column(prices[m][t], f))
    => \E i \in DOMAIN review : review[i].model = m /\ review[i].field = f

-----------------------------------------------------------------------------
(* Every committed snapshot of the reconciler is eventually announced.      *)
CommitsAnnounced ==
  \A n \in 1..(2 * MaxFetches) :
    Len(history) >= n ~> \E i \in DOMAIN events : events[i] = n
=============================================================================
