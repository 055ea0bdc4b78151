--------------------------- MODULE PipelineProofs ---------------------------
(***************************************************************************)
(* Theorems about Pipeline, for every set of models, sources and workers,  *)
(* every number of fetches, faults and restarts:                           *)
(*                                                                         *)
(*  1. types;                                                              *)
(*  2. the two-fetch gate: what it holds was sighted, and it pays two      *)
(*     sightings for each confirmation;                                    *)
(*  3. the tables: prices shows the latest rows of price_history, and a    *)
(*     review entry is decided once;                                       *)
(*  4. the threshold: a batch that disagrees by more than 5% reaches the   *)
(*     review queue;                                                       *)
(*  5. what holds because of the schedule: announcements in commit order,  *)
(*     no zero price, the column a write is not for;                       *)
(*  6. the Redis mirror: the hash outlives its entries, and keeps no       *)
(*     sighting that the map has used up.                                  *)
(***************************************************************************)
EXTENDS Pipeline, FiniteSetTheorems, TLAPS

-----------------------------------------------------------------------------
(* Types of the operators the actions are built from.                      *)

\* Quoted prices are natural numbers.
LEMMA ValuesNat == Values \subseteq Nat /\ 0 \in Values
  BY StoreAssumption DEF Values, Fields

\* Rounding yields a natural number.
LEMMA StoredType == ASSUME NEW v \in Nat PROVE Stored(v) \in Nat
  <1>1. Scale \in Nat /\ Scale > 0
    BY StoreAssumption
  <1>2. 2 * v + Scale \in Nat /\ 2 * Scale \in Nat /\ 2 * Scale > 0
    BY <1>1
  <1>3. \A a, b \in Nat : b > 0 => a \div b \in Nat
    OBVIOUS
  <1>4. (2 * v + Scale) \div (2 * Scale) \in Nat
    BY <1>2, <1>3
  <1>5. \A a, b \in Nat : a * b \in Nat
    OBVIOUS
  <1> QED
    BY <1>1, <1>4, <1>5 DEF Stored

\* The default of the local "cur" is a diff.
LEMMA NoDiffType == NoDiff \in Diffs
  <1>1. (CHOOSE s \in Sources : TRUE) \in Sources
    BY StoreAssumption
  <1>2. (CHOOSE m \in Models : TRUE) \in Models
    BY StoreAssumption
  <1> QED
    BY <1>1, <1>2, ValuesNat DEF NoDiff, Diffs, Fields

\* An absent entry, and the map of absent entries, are well typed.
LEMMA NoEntryType == NoEntry \in Entry /\ EmptyMap \in PendingMap
  BY ValuesNat DEF NoEntry, Entry, EmptyMap, PendingMap

\* A hash without a TTL has a deadline too, one that the clock never passes.
LEMMA NoExpiryType == NoExpiry \in Nat
  BY ReconcilerAssumption DEF NoExpiry

\* The answer of LookupCurrentPrice for a missing row is a row.
LEMMA NoRowType == NoRow \in Row
  BY ValuesNat DEF NoRow, Row

\* Counting one more sighting keeps a table of counters well typed.
LEMMA CountType ==
  ASSUME NEW F \in [Keys -> [Values -> Nat]], NEW k \in Keys, NEW v \in Values
  PROVE  [F EXCEPT ![k][v] = @ + 1] \in [Keys -> [Values -> Nat]]
  <1>1. [F[k] EXCEPT ![v] = @ + 1] \in [Values -> Nat]
    OBVIOUS
  <1> QED
    BY <1>1

\* The locals of an idle worker are well typed.
LEMMA IdleJobType == IdleJob \in Job
  BY NoDiffType, NoEntryType, ValuesNat DEF IdleJob, Job, Origins, Confidences, DiffSets, PricePair

\* The gate key of a diff, or of a snapshot, is a key.
LEMMA ProviderType ==
  ASSUME NEW d, d.source \in Sources, d.model \in Models
  PROVE  EffectiveProvider(d) \in Providers
  <1> DEFINE r == [source |-> d.source, model |-> d.model]
  <1>1. r \in [source : Sources, model : Models]
    OBVIOUS
  <1>2. EffectiveProvider(d) = EffectiveProvider(r)
    BY DEF EffectiveProvider
  <1> QED
    BY <1>1, <1>2 DEF Providers

\* The gate key of a diff is a key.
LEMMA KeyType == ASSUME NEW d \in Diffs PROVE KeyOf(d) \in Keys
  BY ProviderType DEF KeyOf, Keys, Diffs

\* The work list of a batch.
LEMMA GroupsType == ASSUME NEW D \in SUBSET Diffs PROVE Groups(D) \in SUBSET (Models \X Fields)
  BY DEF Groups, Diffs

\* The sibling value of a group is a quoted price, or 0.
LEMMA SiblingType ==
  ASSUME NEW D \in SUBSET Diffs, NEW g PROVE SiblingValues(D, g) \subseteq Values
  BY ValuesNat DEF SiblingValues, GroupOf, Diffs

\* A completed snapshot has two prices.
LEMMA CompletedType ==
  ASSUME NEW d \in Diffs, NEW row \in Row, NEW v \in Values
  PROVE  Completed(d, row, v) \in [Fields -> Nat]
  BY ValuesNat DEF Completed, Diffs, Row, OtherField, Fields

\* The multi-source verdict publishes a diff of its own group.
LEMMA VerdictType ==
  ASSUME NEW D \in SUBSET Diffs, NEW v \in Verdict(D)
  PROVE  v.diff \in D /\ v.conf \in {"high", "medium"}
  BY DEF Verdict, First, Consensus

\* Ending a group keeps the job well typed.
LEMMA EndGroupType ==
  ASSUME WorkerTypeOK, NEW w \in Workers, NEW t \in SUBSET (Models \X Fields), EndGroup(w, t)
  PROVE  job' \in [Workers -> Job] /\ pc' \in [Workers -> Locations]
  BY IdleJobType DEF EndGroup, WorkerTypeOK, Job, Locations

\* The transaction of WritePrice keeps both tables well typed.
LEMMA WriteType ==
  ASSUME WorkerTypeOK, NEW snap \in Snapshot, NEW t \in Nat, WritePrice(snap, t)
  PROVE  prices' \in [Models -> [Sources -> Row]] /\ history' \in Seq(Snapshot)
  <1>0. Stored(snap.input) \in Nat /\ Stored(snap.output) \in Nat
    BY StoredType DEF Snapshot
  <1>1. RowOf(snap, t) \in Row
    BY <1>0 DEF RowOf, Snapshot, Row
  <1>2. Rounded(snap) \in Snapshot
    BY <1>0 DEF Rounded, Snapshot
  <1>3. snap.model \in Models /\ snap.source \in Sources
    BY DEF Snapshot
  <1> QED
    BY <1>1, <1>2, <1>3 DEF WritePrice, WorkerTypeOK, StoreTypeOK

\* Updating one local of one worker keeps all jobs well typed.
LEMMA JobField ==
  ASSUME NEW J \in [Workers -> Job], NEW w \in Workers
  PROVE
    /\ \A x \in DiffSets : [J EXCEPT ![w].diffs = x] \in [Workers -> Job]
    /\ \A x \in SUBSET (Models \X Fields) : [J EXCEPT ![w].todo = x] \in [Workers -> Job]
    /\ \A x \in Diffs : [J EXCEPT ![w].cur = x] \in [Workers -> Job]
    /\ \A x \in Values : [J EXCEPT ![w].sibling = x] \in [Workers -> Job]
    /\ \A x \in BOOLEAN : [J EXCEPT ![w].found = x] \in [Workers -> Job]
    /\ \A x \in Origins : [J EXCEPT ![w].via = x] \in [Workers -> Job]
    /\ \A x \in Confidences : [J EXCEPT ![w].conf = x] \in [Workers -> Job]
    /\ \A x \in PricePair : [J EXCEPT ![w].row = x] \in [Workers -> Job]
    /\ \A x \in Entry : [J EXCEPT ![w].entry = x] \in [Workers -> Job]
    /\ \A x \in SUBSET Keys : [J EXCEPT ![w].swept = x] \in [Workers -> Job]
    /\ \A x \in Nat : [J EXCEPT ![w].wrote = x] \in [Workers -> Job]
    /\ \A x \in PendingMap : [J EXCEPT ![w].snap = x] \in [Workers -> Job]
  <1>1. ASSUME NEW x \in DiffSets PROVE [J EXCEPT ![w].diffs = x] \in [Workers -> Job]
    <2>1. [J[w] EXCEPT !.diffs = x] \in Job
      BY DEF Job
    <2> QED
      BY <2>1
  <1>2. ASSUME NEW x \in SUBSET (Models \X Fields) PROVE [J EXCEPT ![w].todo = x] \in [Workers -> Job]
    <2>1. [J[w] EXCEPT !.todo = x] \in Job
      BY DEF Job
    <2> QED
      BY <2>1
  <1>3. ASSUME NEW x \in Diffs PROVE [J EXCEPT ![w].cur = x] \in [Workers -> Job]
    <2>1. [J[w] EXCEPT !.cur = x] \in Job
      BY DEF Job
    <2> QED
      BY <2>1
  <1>4. ASSUME NEW x \in Values PROVE [J EXCEPT ![w].sibling = x] \in [Workers -> Job]
    <2>1. [J[w] EXCEPT !.sibling = x] \in Job
      BY DEF Job
    <2> QED
      BY <2>1
  <1>5. ASSUME NEW x \in BOOLEAN PROVE [J EXCEPT ![w].found = x] \in [Workers -> Job]
    <2>1. [J[w] EXCEPT !.found = x] \in Job
      BY DEF Job
    <2> QED
      BY <2>1
  <1>6. ASSUME NEW x \in Origins PROVE [J EXCEPT ![w].via = x] \in [Workers -> Job]
    <2>1. [J[w] EXCEPT !.via = x] \in Job
      BY DEF Job
    <2> QED
      BY <2>1
  <1>7. ASSUME NEW x \in Confidences PROVE [J EXCEPT ![w].conf = x] \in [Workers -> Job]
    <2>1. [J[w] EXCEPT !.conf = x] \in Job
      BY DEF Job
    <2> QED
      BY <2>1
  <1>8. ASSUME NEW x \in PricePair PROVE [J EXCEPT ![w].row = x] \in [Workers -> Job]
    <2>1. [J[w] EXCEPT !.row = x] \in Job
      BY DEF Job
    <2> QED
      BY <2>1
  <1>9. ASSUME NEW x \in Entry PROVE [J EXCEPT ![w].entry = x] \in [Workers -> Job]
    <2>1. [J[w] EXCEPT !.entry = x] \in Job
      BY DEF Job
    <2> QED
      BY <2>1
  <1>10. ASSUME NEW x \in SUBSET Keys PROVE [J EXCEPT ![w].swept = x] \in [Workers -> Job]
    <2>1. [J[w] EXCEPT !.swept = x] \in Job
      BY DEF Job
    <2> QED
      BY <2>1
  <1>11. ASSUME NEW x \in Nat PROVE [J EXCEPT ![w].wrote = x] \in [Workers -> Job]
    <2>1. [J[w] EXCEPT !.wrote = x] \in Job
      BY DEF Job
    <2> QED
      BY <2>1
  <1>12. ASSUME NEW x \in PendingMap PROVE [J EXCEPT ![w].snap = x] \in [Workers -> Job]
    <2>1. [J[w] EXCEPT !.snap = x] \in Job
      BY DEF Job
    <2> QED
      BY <2>1
  <1> QED
    BY <1>1, <1>2, <1>3, <1>4, <1>5, <1>6, <1>7, <1>8, <1>9, <1>10, <1>11, <1>12

\* What the two actions that pick a group do to it, without their guards.
LEMMA LookupShape ==
  ASSUME NEW w \in Workers, LookupExisting(w)
  PROVE  \E g \in job[w].todo :
           \E d \in First(GroupOf(job[w].diffs, g)), sib \in SiblingValues(job[w].diffs, g),
              found \in BOOLEAN :
             job' = [job EXCEPT ![w].todo = @ \ {g}, ![w].cur = d, ![w].sibling = sib,
                                ![w].found = found]
  <1>1. PICK g \in job[w].todo : LET G == GroupOf(job[w].diffs, g) IN
          /\ ~Independent(G)
          /\ \E d \in First(G), sib \in SiblingValues(job[w].diffs, g), found \in BOOLEAN :
               /\ \/ found = Exists(d.model, d.source) /\ UNCHANGED faults
                  \/ found /\ Fault
               /\ job' = [job EXCEPT ![w].todo = @ \ {g}, ![w].cur = d, ![w].sibling = sib,
                                     ![w].found = found]
    BY Zenon DEF LookupExisting
  <1>2. PICK d \in First(GroupOf(job[w].diffs, g)), sib \in SiblingValues(job[w].diffs, g),
             found \in BOOLEAN :
          /\ \/ found = Exists(d.model, d.source) /\ UNCHANGED faults
             \/ found /\ Fault
          /\ job' = [job EXCEPT ![w].todo = @ \ {g}, ![w].cur = d, ![w].sibling = sib,
                                ![w].found = found]
    BY <1>1, Zenon
  <1> QED
    BY <1>2, Zenon

\* The same for the multi-source decision.
LEMMA DecideShape ==
  ASSUME NEW w \in Workers, DecideMulti(w)
  PROVE  \E g \in job[w].todo :
           /\ \/ UNCHANGED review
              \/ \E p \in WorstPair(GroupOf(job[w].diffs, g)) :
                   FlagDiscrepancy(g[1], g[2], p[1], p[2])
           /\ \/ EndGroup(w, job[w].todo \ {g})
              \/ \E v \in Verdict(GroupOf(job[w].diffs, g)), sib \in SiblingValues(job[w].diffs, g) :
                   /\ job' = [job EXCEPT ![w].todo = @ \ {g}, ![w].cur = v.diff, ![w].sibling = sib,
                                         ![w].via = "agree", ![w].conf = v.conf]
                   /\ Goto(w, "read")
  BY DEF DecideMulti

-----------------------------------------------------------------------------
\* Type correctness is preserved by every action of the worker and of the operator,
\* and by a restart. Each step types the worker's locals, its control point and the
\* variables the action changes.
THEOREM TypeStep == TypeOK /\ [Next \/ Restart]_vars => WorkerTypeOK'
  <1> SUFFICES ASSUME WorkerTypeOK, ApprovingTypeOK, [Next \/ Restart]_vars PROVE WorkerTypeOK'
    BY DEF TypeOK
  <1>t. job \in [Workers -> Job]
    BY DEF WorkerTypeOK
  <1>1. ASSUME NEW w \in Workers, Scrape(w) PROVE WorkerTypeOK'
    <2>1. job' \in [Workers -> Job]
      <3>0. PICK S \in Batches : \E listed \in Listings(S) : \E scraped \in [listed -> Quotes] :
              job' = [job EXCEPT ![w] = [IdleJob EXCEPT !.listed = listed,
                                           !.diffs = DiffOf(scraped), !.todo = Groups(DiffOf(scraped))]]
        BY <1>1 DEF Scrape
      <3>a. PICK listed \in Listings(S) : \E scraped \in [listed -> Quotes] :
              job' = [job EXCEPT ![w] = [IdleJob EXCEPT !.listed = listed,
                                           !.diffs = DiffOf(scraped), !.todo = Groups(DiffOf(scraped))]]
        BY <3>0
      <3>b. PICK scraped \in [listed -> Quotes] :
              job' = [job EXCEPT ![w] = [IdleJob EXCEPT !.listed = listed,
                                           !.diffs = DiffOf(scraped), !.todo = Groups(DiffOf(scraped))]]
        BY <3>a
      <3>1. DiffOf(scraped) \in DiffSets /\ Groups(DiffOf(scraped)) \in SUBSET (Models \X Fields)
        BY GroupsType DEF DiffOf, DiffSets
      <3>2. listed \in SUBSET (Sources \X Models)
        BY ReconcilerAssumption DEF Listings
      <3>3. [IdleJob EXCEPT !.listed = listed, !.diffs = DiffOf(scraped),
                            !.todo = Groups(DiffOf(scraped))] \in Job
        BY <3>1, <3>2, IdleJobType DEF Job
      <3> QED
        BY <1>t, <3>b, <3>3
    <2>2. pc' \in [Workers -> Locations]
      BY <1>1 DEF Scrape, Goto, Locations, WorkerTypeOK
    <2>3. fetches' \in Nat
      BY <1>1 DEF Scrape, WorkerTypeOK
    <2>u. UNCHANGED <<prices, history, review, pending, mirror, expires, loaded, events, now, faults, restarts, sightings, confirms, lapsed>>
      BY <1>1 DEF Scrape, storeVars, boundVars, ghostVars
    <2> QED
      BY <2>1, <2>2, <2>3, <2>u DEF WorkerTypeOK, StoreTypeOK
  <1>2. ASSUME NEW w \in Workers, ReadMirror(w) PROVE WorkerTypeOK'
    <2>1. job' \in [Workers -> Job]
      <3>1. CASE job' = [job EXCEPT ![w].snap = mirror]
        <4>1. mirror \in PendingMap
          BY DEF WorkerTypeOK
        <4> QED
          BY <1>t, <3>1, <4>1, JobField
      <3>2. CASE UNCHANGED job
        BY <1>t, <3>2
      <3> QED
        BY <1>2, <3>1, <3>2 DEF ReadMirror
    <2>2. pc' \in [Workers -> Locations]
      BY <1>2 DEF ReadMirror, Goto, Locations, WorkerTypeOK
    <2>f. faults' \in Nat
      <3>1. faults' = faults \/ Fault
        BY <1>2 DEF ReadMirror
      <3> QED
        BY <3>1 DEF Fault, WorkerTypeOK
    <2>u. UNCHANGED <<prices, history, review, pending, mirror, expires, loaded, events, now, fetches, restarts, sightings, confirms, lapsed>>
      BY <1>2 DEF ReadMirror, storeVars, boundVars, ghostVars
    <2> QED
      BY <2>1, <2>2, <2>f, <2>u DEF WorkerTypeOK, StoreTypeOK
  <1>3. ASSUME NEW w \in Workers, MergeMirror(w) PROVE WorkerTypeOK'
    <2>1. job' \in [Workers -> Job]
      BY <1>3, <1>t, JobField, NoEntryType DEF MergeMirror
    <2>2. pc' \in [Workers -> Locations]
      BY <1>3 DEF MergeMirror, Goto, Locations, WorkerTypeOK
    <2>3. pending' \in PendingMap
      <3>1. job[w].snap \in [Keys -> Entry] /\ pending \in [Keys -> Entry]
        BY <1>t DEF Job, PendingMap, WorkerTypeOK
      <3> QED
        BY <1>3, <3>1 DEF MergeMirror, PendingMap
    <2>4. loaded' \in BOOLEAN
      BY <1>3 DEF MergeMirror
    <2>u. UNCHANGED <<prices, history, review, mirror, expires, events, now, fetches, faults, restarts, sightings, confirms, lapsed>>
      BY <1>3 DEF MergeMirror, storeVars, boundVars, ghostVars
    <2> QED
      BY <2>1, <2>2, <2>3, <2>4, <2>u DEF WorkerTypeOK, StoreTypeOK
  <1>4. ASSUME NEW w \in Workers, Sweep(w) PROVE WorkerTypeOK'
    <2>1. job' \in [Workers -> Job]
      BY <1>4, <1>t, JobField DEF Sweep
    <2>2. pc' \in [Workers -> Locations]
      BY <1>4 DEF Sweep, Goto, Locations, WorkerTypeOK
    <2>3. pending' \in PendingMap
      BY <1>4, NoEntryType DEF Sweep, PendingMap, WorkerTypeOK
    <2>u. UNCHANGED <<prices, history, review, mirror, expires, loaded, events, now, fetches, faults, restarts, sightings, confirms, lapsed>>
      BY <1>4 DEF Sweep, storeVars, boundVars, ghostVars
    <2> QED
      BY <2>1, <2>2, <2>3, <2>u DEF WorkerTypeOK, StoreTypeOK
  <1>5. ASSUME NEW w \in Workers, EvictMirror(w) PROVE WorkerTypeOK'
    <2>1. job' \in [Workers -> Job]
      BY <1>5, <1>t, JobField DEF EvictMirror
    <2>2. pc' \in [Workers -> Locations]
      BY <1>5 DEF EvictMirror, Goto, Locations, WorkerTypeOK
    <2>3. mirror' \in PendingMap
      BY <1>5, NoEntryType DEF EvictMirror, PendingMap, WorkerTypeOK
    <2>4. expires' \in Nat
      BY <1>5, NoExpiryType DEF EvictMirror, KeepDeadline, WorkerTypeOK
    <2>f. faults' \in Nat
      <3>1. faults' = faults \/ Fault
        BY <1>5 DEF EvictMirror
      <3> QED
        BY <3>1 DEF Fault, WorkerTypeOK
    <2>u. UNCHANGED <<prices, history, review, pending, loaded, events, now, fetches, restarts, sightings, confirms, lapsed>>
      BY <1>5 DEF EvictMirror, storeVars, boundVars, ghostVars
    <2> QED
      BY <2>1, <2>2, <2>3, <2>4, <2>f, <2>u DEF WorkerTypeOK, StoreTypeOK
  <1>6. ASSUME NEW w \in Workers, ResolveSources(w) PROVE WorkerTypeOK'
    <2>1. job' \in [Workers -> Job]
      <3>1. CASE UNCHANGED job
        BY <1>t, <3>1
      <3>2. ASSUME NEW s, job' = [job EXCEPT ![w].diffs = Without(job[w].diffs, s),
                                             ![w].todo = Groups(Without(job[w].diffs, s))]
            PROVE  job' \in [Workers -> Job]
        <4> DEFINE D == Without(job[w].diffs, s)
        <4>1. D \in DiffSets /\ Groups(D) \in SUBSET (Models \X Fields)
          BY <1>t, GroupsType DEF Job, DiffSets, Without
        <4>2. [job EXCEPT ![w].diffs = D] \in [Workers -> Job]
          BY <1>t, <4>1, JobField
        <4>3. [[job EXCEPT ![w].diffs = D] EXCEPT ![w].todo = Groups(D)] \in [Workers -> Job]
          BY <4>1, <4>2, JobField
        <4> QED
          BY <1>t, <3>2, <4>3
      <3> QED
        BY <1>6, <3>1, <3>2, Zenon DEF ResolveSources
    <2>2. pc' \in [Workers -> Locations]
      BY <1>6 DEF ResolveSources, Goto, Locations, WorkerTypeOK
    <2>f. faults' \in Nat
      <3>1. faults' = faults \/ Fault
        BY <1>6 DEF ResolveSources
      <3> QED
        BY <3>1 DEF Fault, WorkerTypeOK
    <2>u. UNCHANGED <<prices, history, review, pending, mirror, expires, loaded, events, now, fetches, restarts, sightings, confirms, lapsed>>
      BY <1>6 DEF ResolveSources, storeVars, boundVars, ghostVars
    <2> QED
      BY <2>1, <2>2, <2>f, <2>u DEF WorkerTypeOK, StoreTypeOK
  <1>7. ASSUME NEW w \in Workers, SkipGroup(w) PROVE WorkerTypeOK'
    <2>0. job[w].todo \in SUBSET (Models \X Fields)
      BY <1>t DEF Job
    <2>1. job' \in [Workers -> Job] /\ pc' \in [Workers -> Locations]
      BY <1>7, <2>0, EndGroupType DEF SkipGroup
    <2>f. faults' \in Nat
      <3>1. faults' = faults \/ Fault
        BY <1>7 DEF SkipGroup
      <3> QED
        BY <3>1 DEF Fault, WorkerTypeOK
    <2>u. UNCHANGED <<prices, history, review, pending, mirror, expires, loaded, events, now, fetches, restarts, sightings, confirms, lapsed>>
      BY <1>7 DEF SkipGroup, storeVars, boundVars, ghostVars
    <2> QED
      BY <2>1, <2>f, <2>u DEF WorkerTypeOK, StoreTypeOK
  <1>8. ASSUME NEW w \in Workers, LookupExisting(w) PROVE WorkerTypeOK'
    <2>1. job' \in [Workers -> Job]
      <3>a. PICK g \in job[w].todo :
              \E d \in First(GroupOf(job[w].diffs, g)), sib \in SiblingValues(job[w].diffs, g),
                 found \in BOOLEAN :
                job' = [job EXCEPT ![w].todo = @ \ {g}, ![w].cur = d, ![w].sibling = sib,
                                   ![w].found = found]
        BY <1>8, LookupShape
      <3>c. PICK d \in First(GroupOf(job[w].diffs, g)), sib \in SiblingValues(job[w].diffs, g),
               found \in BOOLEAN :
              job' = [job EXCEPT ![w].todo = @ \ {g}, ![w].cur = d, ![w].sibling = sib,
                                 ![w].found = found]
        BY <3>a
      <3>1. /\ job[w].todo \ {g} \in SUBSET (Models \X Fields)
            /\ d \in Diffs
            /\ sib \in Values
        BY <1>t, SiblingType DEF Job, First, GroupOf, DiffSets
      <3> DEFINE J1 == [job EXCEPT ![w].todo = @ \ {g}]
                 J2 == [J1 EXCEPT ![w].cur = d]
                 J3 == [J2 EXCEPT ![w].sibling = sib]
      <3>2. J1 \in [Workers -> Job]
        BY <1>t, <3>1, JobField
      <3>3. J2 \in [Workers -> Job]
        BY <3>1, <3>2, JobField
      <3>4. J3 \in [Workers -> Job]
        BY <3>1, <3>3, JobField
      <3>5. [J3 EXCEPT ![w].found = found] \in [Workers -> Job]
        BY <3>4, JobField
      <3> QED
        BY <1>t, <3>c, <3>5
    <2>2. pc' \in [Workers -> Locations]
      BY <1>8 DEF LookupExisting, Goto, Locations, WorkerTypeOK
    <2>f. faults' \in Nat
      <3>1. faults' = faults \/ Fault
        BY <1>8 DEF LookupExisting
      <3> QED
        BY <3>1 DEF Fault, WorkerTypeOK
    <2>u. UNCHANGED <<prices, history, review, pending, mirror, expires, loaded, events, now, fetches, restarts, sightings, confirms, lapsed>>
      BY <1>8 DEF LookupExisting, storeVars, boundVars, ghostVars
    <2> QED
      BY <2>1, <2>2, <2>f, <2>u DEF WorkerTypeOK, StoreTypeOK
  <1>9. ASSUME NEW w \in Workers, DecideMulti(w) PROVE WorkerTypeOK'
    <2>0. PICK g \in job[w].todo :
            /\ \/ UNCHANGED review
               \/ \E p \in WorstPair(GroupOf(job[w].diffs, g)) :
                    FlagDiscrepancy(g[1], g[2], p[1], p[2])
            /\ \/ EndGroup(w, job[w].todo \ {g})
               \/ \E v \in Verdict(GroupOf(job[w].diffs, g)), sib \in SiblingValues(job[w].diffs, g) :
                    /\ job' = [job EXCEPT ![w].todo = @ \ {g}, ![w].cur = v.diff, ![w].sibling = sib,
                                          ![w].via = "agree", ![w].conf = v.conf]
                    /\ Goto(w, "read")
      BY <1>9, DecideShape
    <2>a. /\ GroupOf(job[w].diffs, g) \in SUBSET Diffs
          /\ job[w].diffs \in SUBSET Diffs
          /\ job[w].todo \ {g} \in SUBSET (Models \X Fields)
          /\ g \in Models \X Fields
      BY <1>t DEF Job, GroupOf, DiffSets
    <2>1. job' \in [Workers -> Job] /\ pc' \in [Workers -> Locations]
      <3>1. CASE EndGroup(w, job[w].todo \ {g})
        BY <2>a, <3>1, EndGroupType
      <3>2. ASSUME NEW v \in Verdict(GroupOf(job[w].diffs, g)),
                   NEW sib \in SiblingValues(job[w].diffs, g),
                   job' = [job EXCEPT ![w].todo = @ \ {g}, ![w].cur = v.diff, ![w].sibling = sib,
                                      ![w].via = "agree", ![w].conf = v.conf],
                   Goto(w, "read")
            PROVE  job' \in [Workers -> Job] /\ pc' \in [Workers -> Locations]
        <4>1. v.diff \in Diffs /\ v.conf \in Confidences /\ sib \in Values
          BY <2>a, VerdictType, SiblingType DEF Confidences
        <4> DEFINE J1 == [job EXCEPT ![w].todo = @ \ {g}]
                   J2 == [J1 EXCEPT ![w].cur = v.diff]
                   J3 == [J2 EXCEPT ![w].sibling = sib]
                   J4 == [J3 EXCEPT ![w].via = "agree"]
        <4>2. J1 \in [Workers -> Job]
          BY <1>t, <2>a, JobField
        <4>3. J2 \in [Workers -> Job]
          BY <4>1, <4>2, JobField
        <4>4. J3 \in [Workers -> Job]
          BY <4>1, <4>3, JobField
        <4>5. J4 \in [Workers -> Job]
          BY <4>4, JobField DEF Origins
        <4>6. [J4 EXCEPT ![w].conf = v.conf] \in [Workers -> Job]
          BY <4>1, <4>5, JobField
        <4>7. job' \in [Workers -> Job]
          BY <1>t, <3>2, <4>6
        <4> QED
          BY <3>2, <4>7 DEF Goto, Locations, WorkerTypeOK
      <3> QED
        BY <2>0, <3>1, <3>2
    <2>2. review' \in Seq(ReviewEntry)
      <3>0. review \in Seq(ReviewEntry)
        BY DEF WorkerTypeOK, StoreTypeOK
      <3>1. CASE UNCHANGED review
        BY <3>0, <3>1
      <3>2. ASSUME NEW p \in WorstPair(GroupOf(job[w].diffs, g)),
                   FlagDiscrepancy(g[1], g[2], p[1], p[2])
            PROVE  review' \in Seq(ReviewEntry)
        <4> DEFINE r == [model |-> g[1], field |-> g[2], sourceA |-> p[1].source,
                         sourceB |-> p[2].source, valueA |-> Stored(p[1].value),
                         valueB |-> Stored(p[2].value),
                         status |-> "pending"]
        <4>1. p[1] \in Diffs /\ p[2] \in Diffs
          BY <2>a DEF WorstPair, OrderedPairs
        <4>2. r \in ReviewEntry
          BY <2>a, <4>1, ValuesNat, StoredType DEF ReviewEntry, Diffs
        <4>3. review' = review \/ review' = Append(review, r)
          BY <3>2 DEF FlagDiscrepancy
        <4> HIDE DEF r
        <4> QED
          BY <3>0, <4>2, <4>3
      <3> QED
        BY <2>0, <3>1, <3>2
    <2>f. faults' \in Nat
      <3>1. faults' = faults \/ Fault
        BY <1>9 DEF DecideMulti
      <3> QED
        BY <3>1 DEF Fault, WorkerTypeOK
    <2>u. UNCHANGED <<prices, history, pending, mirror, expires, loaded, events, now, fetches, restarts, sightings, confirms, lapsed>>
      BY <1>9 DEF DecideMulti, storeVars, boundVars, ghostVars
    <2> QED
      BY <2>1, <2>2, <2>f, <2>u DEF WorkerTypeOK, StoreTypeOK
  <1>10. ASSUME NEW w \in Workers, Gate(w) PROVE WorkerTypeOK'
    <2> DEFINE d == job[w].cur
               k == KeyOf(d)
               same == Matches(pending[k], d.value)
               new == [value |-> d.value, count |-> IF same THEN pending[k].count + 1 ELSE 1,
                       seen |-> now]
    <2>0. d \in Diffs /\ k \in Keys /\ d.value \in Values
      BY <1>t, KeyType DEF Job, Diffs
    <2>n. new \in Entry
      BY <2>0 DEF Entry, Matches, WorkerTypeOK, PendingMap
    <2>1. job' \in [Workers -> Job]
      <3>1. ASSUME NEW v \in Origins, NEW c \in Confidences,
                   job' = [job EXCEPT ![w].via = v, ![w].conf = c]
            PROVE  job' \in [Workers -> Job]
        <4>1. [job EXCEPT ![w].via = v] \in [Workers -> Job]
          BY <1>t, JobField
        <4>2. [[job EXCEPT ![w].via = v] EXCEPT ![w].conf = c] \in [Workers -> Job]
          BY <4>1, JobField
        <4> QED
          BY <1>t, <3>1, <4>2
      <3>2. CASE job' = [job EXCEPT ![w].entry = new]
        BY <1>t, <3>2, <2>n, JobField
      <3> QED
        BY <1>10, <3>1, <3>2 DEF Gate, Origins, Confidences
    <2>2. pc' \in [Workers -> Locations]
      BY <1>10 DEF Gate, Goto, Locations, WorkerTypeOK
    <2>3. pending' \in PendingMap
      BY <1>10, <2>0, <2>n, NoEntryType DEF Gate, DropPending, PendingMap, WorkerTypeOK
    <2>4. \A F \in [Keys -> [Values -> Nat]] :
            [F EXCEPT ![k][d.value] = @ + 1] \in [Keys -> [Values -> Nat]]
      BY <2>0, CountType
    <2>5. sightings' \in [Keys -> [Values -> Nat]]
      BY <1>10, <2>4 DEF Gate, Sighted, WorkerTypeOK
    <2>6. confirms' \in [Keys -> [Values -> Nat]]
      <3>1. \/ confirms' = confirms
            \/ confirms' = [confirms EXCEPT ![k][d.value] = @ + 1]
        BY <1>10, Zenon DEF Gate
      <3>2. confirms \in [Keys -> [Values -> Nat]]
        BY DEF WorkerTypeOK
      <3> QED
        BY <2>4, <3>1, <3>2
    <2>u. UNCHANGED <<prices, history, review, mirror, expires, loaded, events, now, fetches, faults, restarts, lapsed>>
      BY <1>10 DEF Gate, storeVars, boundVars, ghostVars
    <2> QED
      BY <2>1, <2>2, <2>3, <2>5, <2>6, <2>u DEF WorkerTypeOK, StoreTypeOK
  <1>11. ASSUME NEW w \in Workers, PersistPending(w) PROVE WorkerTypeOK'
    <2>0. job[w].todo \in SUBSET (Models \X Fields)
      BY <1>t DEF Job
    <2>1. job' \in [Workers -> Job] /\ pc' \in [Workers -> Locations]
      <3>1. CASE EndGroup(w, job[w].todo)
        BY <2>0, <3>1, EndGroupType
      <3>2. CASE Goto(w, "expire") /\ UNCHANGED job
        BY <1>t, <3>2 DEF Goto, Locations, WorkerTypeOK
      <3> QED
        BY <1>11, <3>1, <3>2 DEF PersistPending
    <2>2. mirror' \in PendingMap
      <3>1. KeyOf(job[w].cur) \in Keys /\ job[w].entry \in Entry
        BY <1>t, KeyType DEF Job
      <3> QED
        BY <1>11, <3>1 DEF PersistPending, PendingMap, WorkerTypeOK
    <2>3. lapsed' \subseteq Keys
      BY <1>11 DEF PersistPending, WorkerTypeOK
    <2>f. faults' \in Nat
      <3>1. faults' = faults \/ Fault
        BY <1>11 DEF PersistPending
      <3> QED
        BY <3>1 DEF Fault, WorkerTypeOK
    <2>u. UNCHANGED <<prices, history, review, pending, expires, loaded, events, now, fetches, restarts, sightings, confirms>>
      BY <1>11 DEF PersistPending, storeVars, boundVars, ghostVars
    <2> QED
      BY <2>1, <2>2, <2>3, <2>f, <2>u DEF WorkerTypeOK, StoreTypeOK
  <1>21. ASSUME NEW w \in Workers, RefreshTTL(w) PROVE WorkerTypeOK'
    <2>0. job[w].todo \in SUBSET (Models \X Fields)
      BY <1>t DEF Job
    <2>1. job' \in [Workers -> Job] /\ pc' \in [Workers -> Locations]
      BY <1>21, <2>0, EndGroupType DEF RefreshTTL
    <2>2. expires' \in Nat
      BY <1>21, ReconcilerAssumption DEF RefreshTTL, WorkerTypeOK
    <2>f. faults' \in Nat
      <3>1. faults' = faults \/ Fault
        BY <1>21 DEF RefreshTTL
      <3> QED
        BY <3>1 DEF Fault, WorkerTypeOK
    <2>u. UNCHANGED <<prices, history, review, pending, mirror, loaded, events, now, fetches, restarts, sightings, confirms, lapsed>>
      BY <1>21 DEF RefreshTTL, storeVars, boundVars, ghostVars
    <2> QED
      BY <2>1, <2>2, <2>f, <2>u DEF WorkerTypeOK, StoreTypeOK
  <1>12. ASSUME NEW w \in Workers, DeletePending(w) PROVE WorkerTypeOK'
    <2>2. pc' \in [Workers -> Locations]
      BY <1>12 DEF DeletePending, Goto, Locations, WorkerTypeOK
    <2>3. mirror' \in PendingMap
      BY <1>12, NoEntryType DEF DeletePending, PendingMap, WorkerTypeOK
    <2>4. expires' \in Nat
      BY <1>12, NoExpiryType DEF DeletePending, KeepDeadline, WorkerTypeOK
    <2>f. faults' \in Nat
      <3>1. faults' = faults \/ Fault
        BY <1>12 DEF DeletePending
      <3> QED
        BY <3>1 DEF Fault, WorkerTypeOK
    <2>u. UNCHANGED <<prices, history, review, job, pending, loaded, events, now, fetches, restarts, sightings, confirms, lapsed>>
      BY <1>12 DEF DeletePending, storeVars, boundVars, ghostVars
    <2> QED
      BY <2>2, <2>3, <2>4, <2>f, <2>u DEF WorkerTypeOK, StoreTypeOK
  <1>13. ASSUME NEW w \in Workers, ReadCurrent(w) PROVE WorkerTypeOK'
    <2>0. PICK cur \in {prices[job[w].cur.model][job[w].cur.source], NoRow} :
            \/ /\ job' = [job EXCEPT ![w].row = Completed(job[w].cur, cur, job[w].sibling)]
               /\ Goto(w, "write")
            \/ EndGroup(w, job[w].todo)
      BY <1>13 DEF ReadCurrent
    <2>a. job[w].cur \in Diffs /\ job[w].sibling \in Values /\ job[w].todo \in SUBSET (Models \X Fields)
      BY <1>t DEF Job
    <2>b. cur \in Row
      BY <2>a, NoRowType DEF Diffs, WorkerTypeOK, StoreTypeOK
    <2>1. job' \in [Workers -> Job] /\ pc' \in [Workers -> Locations]
      <3>1. CASE EndGroup(w, job[w].todo)
        BY <3>1, <2>a, EndGroupType
      <3>2. CASE /\ job' = [job EXCEPT ![w].row = Completed(job[w].cur, cur, job[w].sibling)]
                 /\ Goto(w, "write")
        <4>1. Completed(job[w].cur, cur, job[w].sibling) \in PricePair
          BY <2>a, <2>b, CompletedType DEF PricePair
        <4> QED
          BY <1>t, <3>2, <4>1, JobField DEF Goto, Locations, WorkerTypeOK
      <3> QED
        BY <2>0, <3>1, <3>2
    <2>f. faults' \in Nat
      <3>1. faults' = faults \/ Fault
        BY <1>13 DEF ReadCurrent
      <3> QED
        BY <3>1 DEF Fault, WorkerTypeOK
    <2>u. UNCHANGED <<prices, history, review, pending, mirror, expires, loaded, events, now, fetches, restarts, sightings, confirms, lapsed>>
      BY <1>13 DEF ReadCurrent, storeVars, boundVars, ghostVars
    <2> QED
      BY <2>1, <2>f, <2>u DEF WorkerTypeOK, StoreTypeOK
  <1>14. ASSUME NEW w \in Workers, PublishPrice(w) PROVE WorkerTypeOK'
    <2>0. job[w].todo \in SUBSET (Models \X Fields)
      BY <1>t DEF Job
    <2>s. SnapshotOf(w) \in Snapshot
      BY <1>t DEF SnapshotOf, Snapshot, Job, Diffs, Fields, PricePair
    <2>1. job' \in [Workers -> Job] /\ pc' \in [Workers -> Locations]
      <3>1. CASE EndGroup(w, job[w].todo)
        BY <2>0, <3>1, EndGroupType
      <3>2. CASE job' = [job EXCEPT ![w].wrote = Len(history) + 1] /\ Goto(w, "event")
        <4>1. Len(history) + 1 \in Nat
          BY DEF WorkerTypeOK, StoreTypeOK
        <4> QED
          BY <1>t, <3>2, <4>1, JobField DEF Goto, Locations, WorkerTypeOK
      <3> QED
        BY <1>14, <3>1, <3>2 DEF PublishPrice
    <2>2. prices' \in [Models -> [Sources -> Row]] /\ history' \in Seq(Snapshot)
      <3>1. CASE WritePrice(SnapshotOf(w), now)
        BY <2>s, <3>1, WriteType DEF WorkerTypeOK
      <3> QED
        BY <1>14, <3>1 DEF PublishPrice, WorkerTypeOK, StoreTypeOK
    <2>f. faults' \in Nat
      <3>1. faults' = faults \/ Fault
        BY <1>14 DEF PublishPrice
      <3> QED
        BY <3>1 DEF Fault, WorkerTypeOK
    <2>u. UNCHANGED <<review, pending, mirror, expires, loaded, events, now, fetches, restarts, sightings, confirms, lapsed>>
      BY <1>14 DEF PublishPrice, storeVars, boundVars, ghostVars
    <2> QED
      BY <2>1, <2>2, <2>f, <2>u DEF WorkerTypeOK, StoreTypeOK
  <1>15. ASSUME NEW w \in Workers, PublishEvent(w) PROVE WorkerTypeOK'
    <2>0. job[w].todo \in SUBSET (Models \X Fields)
      BY <1>t DEF Job
    <2>1. job' \in [Workers -> Job] /\ pc' \in [Workers -> Locations]
      BY <1>15, <2>0, EndGroupType DEF PublishEvent
    <2>2. events' \in Seq(Nat)
      <3>1. events \in Seq(Nat) /\ job[w].wrote \in Nat
        BY <1>t DEF Job, WorkerTypeOK
      <3>2. events' = events \/ events' = Append(events, job[w].wrote)
        BY <1>15 DEF PublishEvent, Announce
      <3> QED
        BY <3>1, <3>2
    <2>f. faults' \in Nat
      <3>1. faults' = faults \/ Fault
        BY <1>15 DEF PublishEvent, Announce
      <3> QED
        BY <3>1 DEF Fault, WorkerTypeOK
    <2>u. UNCHANGED <<prices, history, review, pending, mirror, expires, loaded, now, fetches, restarts, sightings, confirms, lapsed>>
      BY <1>15 DEF PublishEvent, storeVars, boundVars, ghostVars
    <2> QED
      BY <2>1, <2>2, <2>f, <2>u DEF WorkerTypeOK, StoreTypeOK
  <1>16. ASSUME NEW w \in Workers, MarkVerified(w) PROVE WorkerTypeOK'
    <2>1. job' \in [Workers -> Job] /\ pc' \in [Workers -> Locations]
      BY <1>16, IdleJobType DEF MarkVerified, Goto, Locations, WorkerTypeOK
    <2>2. prices' \in [Models -> [Sources -> Row]]
      <3>1. \A r \in Row : [r EXCEPT !.verified = now] \in Row
        BY DEF Row, WorkerTypeOK
      <3>2. prices \in [Models -> [Sources -> Row]]
        BY DEF WorkerTypeOK, StoreTypeOK
      <3>3. CASE UNCHANGED prices
        BY <3>2, <3>3
      <3>4. CASE prices' = [m \in Models |-> [s \in Sources |->
                   IF <<s, m>> \in job[w].listed /\ Exists(m, s)
                     THEN [prices[m][s] EXCEPT !.verified = now] ELSE prices[m][s]]]
        BY <3>1, <3>2, <3>4
      <3> QED
        BY <1>16, <3>3, <3>4 DEF MarkVerified
    <2>f. faults' \in Nat
      <3>1. faults' = faults \/ Fault
        BY <1>16 DEF MarkVerified
      <3> QED
        BY <3>1 DEF Fault, WorkerTypeOK
    <2>u. UNCHANGED <<history, review, pending, mirror, expires, loaded, events, now, fetches, restarts, sightings, confirms, lapsed>>
      BY <1>16 DEF MarkVerified, storeVars, boundVars, ghostVars
    <2> QED
      BY <2>1, <2>2, <2>f, <2>u DEF WorkerTypeOK, StoreTypeOK
  <1>17. ASSUME Tick PROVE WorkerTypeOK'
    <2>1. now' \in Nat
      BY <1>17 DEF Tick, WorkerTypeOK
    <2>2. mirror' \in PendingMap /\ expires' \in Nat /\ lapsed' \subseteq Keys
      <3>1. CASE UNCHANGED <<mirror, expires, lapsed>>
        BY <3>1 DEF WorkerTypeOK
      <3>2. CASE DropHash
        BY <3>2, NoExpiryType, NoEntryType DEF DropHash, WorkerTypeOK
      <3> QED
        BY <1>17, <3>1, <3>2 DEF Tick
    <2>u. UNCHANGED <<prices, history, review, pc, job, pending, loaded, events, fetches, faults, restarts, sightings, confirms>>
      BY <1>17 DEF Tick, storeVars, boundVars, ghostVars
    <2> QED
      BY <2>1, <2>2, <2>u DEF WorkerTypeOK, StoreTypeOK
  <1>18. ASSUME Restart PROVE WorkerTypeOK'
    <2>1. job' \in [Workers -> Job] /\ pc' \in [Workers -> Locations]
      BY <1>18, IdleJobType DEF Restart, Locations
    <2>2. pending' \in PendingMap
      BY <1>18, NoEntryType DEF Restart
    <2>3. loaded' \in BOOLEAN
      BY <1>18 DEF Restart
    <2>4. restarts' \in Nat
      BY <1>18 DEF Restart, WorkerTypeOK
    <2>u. UNCHANGED <<prices, history, review, mirror, expires, events, now, fetches, faults, sightings, confirms, lapsed>>
      BY <1>18 DEF Restart, storeVars, boundVars, ghostVars
    <2> QED
      BY <2>1, <2>2, <2>3, <2>4, <2>u DEF WorkerTypeOK, StoreTypeOK
  <1>19. ASSUME Operator PROVE WorkerTypeOK'
    <2>a. review \in Seq(ReviewEntry) /\ prices \in [Models -> [Sources -> Row]]
          /\ history \in Seq(Snapshot)
      BY DEF WorkerTypeOK, StoreTypeOK
    <2>1. ASSUME NEW i \in DOMAIN review, NEW st \in {"resolved", "overridden"}, Decide(i, st)
          PROVE  review' \in Seq(ReviewEntry)
      <3>0. review[i] \in ReviewEntry
        BY <2>a
      <3>1. [review[i] EXCEPT !.status = st] \in ReviewEntry
        BY <3>0 DEF ReviewEntry
      <3> QED
        BY <2>1, <2>a, <3>1 DEF Decide
    <2>2. ASSUME NEW a \in approving, CommitApprove(a) PROVE StoreTypeOK'
      <3>0. a.entry \in DOMAIN review /\ a.row \in Row
        BY DEF ApprovingTypeOK
      <3> DEFINE r == review[a.entry]
                 row == prices[r.model][r.sourceA]
                 snap == [model |-> r.model, source |-> r.sourceA,
                          input |-> IF r.field = "input" THEN r.valueA ELSE a.row.input,
                          output |-> IF r.field = "output" THEN r.valueA ELSE a.row.output,
                          conf |-> "high", via |-> "review", field |-> r.field]
      <3>1. r \in ReviewEntry
        BY <2>a, <3>0
      <3>2. row \in Row
        BY <2>a, <3>1 DEF ReviewEntry
      <3>3. snap \in Snapshot /\ row.verified \in Nat
        BY <3>0, <3>1, <3>2 DEF ReviewEntry, Row, Snapshot, Origins, Confidences
      <3>4. WritePrice(snap, row.verified) /\ Decide(a.entry, "resolved")
        BY <2>2 DEF CommitApprove
      <3> HIDE DEF snap
      <3> QED
        BY <2>1, <3>0, <3>3, <3>4, WriteType DEF StoreTypeOK
    <2>3. ASSUME NEW i \in DOMAIN review, Reject(i) PROVE StoreTypeOK'
      BY <2>a, <2>1, <2>3 DEF Reject, StoreTypeOK
    <2>4. ASSUME UNCHANGED storeVars PROVE StoreTypeOK'
      BY <2>a, <2>4 DEF storeVars, StoreTypeOK
    <2>5. StoreTypeOK'
      BY <1>19, <2>2, <2>3, <2>4 DEF Operator, BeginApprove, RollbackApprove
    <2>u. UNCHANGED <<pc, job, pending, mirror, expires, loaded, events, now, fetches, faults, restarts, sightings, confirms, lapsed>>
      BY <1>19 DEF Operator, boundVars, ghostVars
    <2> QED
      BY <2>5, <2>u DEF WorkerTypeOK
  <1>20. ASSUME UNCHANGED vars PROVE WorkerTypeOK'
    BY <1>20 DEF vars, storeVars, boundVars, ghostVars, WorkerTypeOK, StoreTypeOK
  <1> QED
    BY <1>1, <1>2, <1>3, <1>4, <1>5, <1>6, <1>7, <1>8, <1>9, <1>10, <1>11, <1>12, <1>13, <1>14,
       <1>15, <1>16, <1>17, <1>18, <1>19, <1>20, <1>21
    DEF Next, ReconcilerNext, WorkerStep

\* A step of the whole system, seen from the tables and the worker.
LEMMA StepIsWorkerStep == [NextRestart]_systemVars => [Next \/ Restart]_vars
  BY DEF NextRestart, systemVars

\* The queue never shrinks, and an open Approve holds a row it read.
LEMMA ApprovingStep == TypeOK /\ [NextRestart]_systemVars => ApprovingTypeOK'
  <1> SUFFICES ASSUME TypeOK, [NextRestart]_systemVars PROVE ApprovingTypeOK'
    OBVIOUS
  <1>t. /\ review \in Seq(ReviewEntry) /\ prices \in [Models -> [Sources -> Row]]
        /\ approving \subseteq [entry : DOMAIN review, row : Row]
    BY DEF TypeOK, WorkerTypeOK, StoreTypeOK, ApprovingTypeOK
  <1>0. ASSUME DOMAIN review \subseteq DOMAIN review', approving' \subseteq approving
        PROVE  ApprovingTypeOK'
    BY <1>0, <1>t DEF ApprovingTypeOK
  <1>1. ASSUME NEW w \in Workers, DecideMulti(w) PROVE DOMAIN review \subseteq DOMAIN review'
    <2>1. review' = review \/ \E r : review' = Append(review, r)
      BY <1>1, DecideShape DEF FlagDiscrepancy
    <2> QED
      BY <1>t, <2>1
  <1>2. ASSUME NEW w \in Workers, Scrape(w) \/ WorkerStep(w)
        PROVE  DOMAIN review \subseteq DOMAIN review'
    BY <1>1, <1>2 DEF WorkerStep, Scrape, ReadMirror, MergeMirror, Sweep, EvictMirror, ResolveSources,
       SkipGroup, LookupExisting, Gate, PersistPending, RefreshTTL, DeletePending, ReadCurrent,
       PublishPrice, PublishEvent, MarkVerified, storeVars
  <1>3. CASE ReconcilerNext /\ UNCHANGED approving
    BY <1>0, <1>2, <1>3 DEF ReconcilerNext, Tick, storeVars
  <1>4. CASE Restart /\ UNCHANGED approving
    BY <1>0, <1>4 DEF Restart, storeVars
  <1>5. ASSUME NEW i \in DOMAIN review, BeginApprove(i) PROVE ApprovingTypeOK'
    <2>0. review[i] \in ReviewEntry
      BY <1>t
    <2>1. review[i].model \in Models /\ review[i].sourceA \in Sources
      BY <2>0 DEF ReviewEntry
    <2>2. prices[review[i].model][review[i].sourceA] \in Row
      BY <1>t, <2>1
    <2> QED
      BY <1>5, <1>t, <2>2 DEF BeginApprove, ApprovingTypeOK, storeVars
  <1>6. ASSUME NEW i \in DOMAIN review, Reject(i) PROVE ApprovingTypeOK'
    BY <1>0, <1>6, <1>t DEF Reject, Decide
  <1>7. ASSUME NEW a \in approving, CommitApprove(a) \/ RollbackApprove(a) PROVE ApprovingTypeOK'
    BY <1>0, <1>7, <1>t DEF CommitApprove, RollbackApprove, Decide, storeVars
  <1>8. CASE UNCHANGED systemVars
    BY <1>0, <1>8 DEF systemVars, vars, storeVars
  <1> QED
    BY <1>3, <1>4, <1>5, <1>6, <1>7, <1>8 DEF NextRestart, Next, Operator

\* Every reachable state is well typed, restarts included.
THEOREM TypeCorrect == SpecRestart => []TypeOK
  <1>1. Init => TypeOK
    <2> SUFFICES ASSUME Init PROVE TypeOK
      OBVIOUS
    <2> USE DEF Init, ReconcilerInit, StoreInit
    <2>1. StoreTypeOK
      BY NoRowType DEF StoreTypeOK
    <2>2. pc \in [Workers -> Locations] /\ job \in [Workers -> Job]
      BY IdleJobType DEF Locations
    <2>3. pending \in PendingMap /\ mirror \in PendingMap
      BY NoEntryType
    <2>4. sightings \in [Keys -> [Values -> Nat]] /\ confirms \in [Keys -> [Values -> Nat]]
      OBVIOUS
    <2>5. events \in Seq(Nat)
      OBVIOUS
    <2>7. loaded \in BOOLEAN /\ lapsed \subseteq Keys /\ expires \in Nat
      BY NoExpiryType
    <2>6. now \in Nat /\ fetches \in Nat /\ faults \in Nat /\ restarts \in Nat
      OBVIOUS
    <2>8. ApprovingTypeOK
      BY DEF ApprovingTypeOK
    <2> HIDE DEF Init, ReconcilerInit, StoreInit
    <2> QED
      BY <2>1, <2>2, <2>3, <2>4, <2>5, <2>6, <2>7, <2>8 DEF TypeOK, WorkerTypeOK
  <1>2. TypeOK /\ [NextRestart]_systemVars => TypeOK'
    BY TypeStep, ApprovingStep, StepIsWorkerStep DEF TypeOK
  <1> QED
    BY <1>1, <1>2, PTL DEF SpecRestart

-----------------------------------------------------------------------------
(* Sightings only grow, so what was sighted stays sighted. The lemmas say   *)
(* which parts of GateInv a step can disturb.                               *)

SightingsGrow == \A k \in Keys, v \in Values : sightings'[k][v] >= sightings[k][v]

OthersIdle(w) == \A v \in Workers : v # w => job'[v] = job[v] /\ pc'[v] = pc[v]

\* A step that sights nothing loses no sighting.
LEMMA SameSightings == ASSUME WorkerTypeOK, UNCHANGED sightings PROVE SightingsGrow
  BY DEF SightingsGrow, WorkerTypeOK

\* What was sighted stays sighted.
LEMMA SeenStays ==
  ASSUME WorkerTypeOK, WorkerTypeOK', SightingsGrow, NEW k \in Keys, NEW e \in Entry, Seen(k, e)
  PROVE  e.count > 0 => sightings'[k][e.value] >= 1
  <1>1. e.value \in Values
    BY DEF Entry
  <1>2. /\ sightings'[k][e.value] >= sightings[k][e.value]
        /\ sightings[k][e.value] \in Nat /\ sightings'[k][e.value] \in Nat
    BY <1>1 DEF SightingsGrow, WorkerTypeOK
  <1> QED
    BY <1>2 DEF Seen

\* Entries that stay where they are.
LEMMA EntriesStay ==
  ASSUME WorkerTypeOK, WorkerTypeOK', GateInv, SightingsGrow
  PROVE  /\ UNCHANGED pending => \A k \in Keys : Seen(k, pending[k])'
         /\ UNCHANGED mirror => \A k \in Keys : Seen(k, mirror[k])'
  <1>1. ASSUME UNCHANGED pending, NEW k \in Keys PROVE Seen(k, pending[k])'
    BY <1>1, SeenStays DEF Seen, GateInv, WorkerTypeOK, PendingMap
  <1>2. ASSUME UNCHANGED mirror, NEW k \in Keys PROVE Seen(k, mirror[k])'
    BY <1>2, SeenStays DEF Seen, GateInv, WorkerTypeOK, PendingMap
  <1> QED
    BY <1>1, <1>2

\* A worker's copy of the mirror stays sighted.
LEMMA SnapsStay ==
  ASSUME WorkerTypeOK, WorkerTypeOK', GateInv, SightingsGrow, NEW w \in Workers, job'[w].snap = job[w].snap
  PROVE  \A k \in Keys : Seen(k, job[w].snap[k])'
  <1> SUFFICES ASSUME NEW k \in Keys PROVE Seen(k, job[w].snap[k])'
    OBVIOUS
  <1>1. job[w].snap[k] \in Entry
    BY DEF WorkerTypeOK, Job, PendingMap
  <1>2. Seen(k, job[w].snap[k])
    BY DEF GateInv, LocalsSighted
  <1> QED
    BY <1>1, <1>2, SeenStays DEF Seen

\* Appending a snapshot keeps the property if it holds of the new one.
LEMMA ConfirmedStays ==
  ASSUME WorkerTypeOK, WorkerTypeOK', GateInv, SightingsGrow, NEW i \in DOMAIN history,
         history[i].via = "confirm"
  PROVE  \E v \in Values : /\ Stored(v) = Column(history[i], history[i].field)
                           /\ sightings'[SnapKey(history[i])][v] >= 2
  <1> DEFINE h == history[i]
  <1>0. h \in Snapshot
    BY DEF WorkerTypeOK, StoreTypeOK
  <1>1. SnapKey(h) \in Keys
    BY <1>0, ProviderType DEF SnapKey, Keys, Snapshot
  <1>2. PICK v \in Values : Stored(v) = Column(h, h.field) /\ sightings[SnapKey(h)][v] >= 2
    BY DEF GateInv, ConfirmedWasSightedTwice, SightedTwice
  <1>3. /\ sightings'[SnapKey(h)][v] >= sightings[SnapKey(h)][v]
        /\ sightings'[SnapKey(h)][v] \in Nat /\ sightings[SnapKey(h)][v] \in Nat
    BY <1>1 DEF SightingsGrow, WorkerTypeOK
  <1> QED
    BY <1>2, <1>3

\* An unchanged log stays confirmed.
LEMMA HistoryStays ==
  ASSUME WorkerTypeOK, WorkerTypeOK', GateInv, SightingsGrow, UNCHANGED history
  PROVE  ConfirmedWasSightedTwice'
  BY ConfirmedStays DEF ConfirmedWasSightedTwice, SightedTwice, SnapKey, Column

\* A step of worker w preserves GateInv if it does so for w's own locals and for
\* the shared state.
LEMMA GateFrame ==
  ASSUME WorkerTypeOK, WorkerTypeOK', GateInv, SightingsGrow, NEW w \in Workers,
         OthersIdle(w), LocalsSighted(w)',
         \A k \in Keys : Seen(k, pending[k])',
         \A k \in Keys : Seen(k, mirror[k])',
         ConfirmedWasSightedTwice'
  PROVE  GateInv'
  <1>1. ASSUME NEW v \in Workers, v # w PROVE LocalsSighted(v)'
    <2>1. job'[v] = job[v] /\ pc'[v] = pc[v]
      BY <1>1 DEF OthersIdle
    <2>2. \A k \in Keys : Seen(k, job[v].snap[k])'
      BY <2>1, SnapsStay
    <2>3. /\ job[v].entry \in Entry /\ job[v].cur \in Diffs
          /\ KeyOf(job[v].cur) \in Keys /\ job[v].cur.value \in Values
      BY KeyType DEF WorkerTypeOK, Job, Diffs
    <2>4. LocalsSighted(v)
      BY DEF GateInv
    <2>5. (pc[v] = "hset" => Seen(KeyOf(job[v].cur), job[v].entry))'
      BY <2>1, <2>3, <2>4, SeenStays DEF Seen, LocalsSighted
    <2>6. /\ sightings'[KeyOf(job[v].cur)][job[v].cur.value]
               >= sightings[KeyOf(job[v].cur)][job[v].cur.value]
          /\ sightings'[KeyOf(job[v].cur)][job[v].cur.value] \in Nat
          /\ sightings[KeyOf(job[v].cur)][job[v].cur.value] \in Nat
      BY <2>3 DEF SightingsGrow, WorkerTypeOK
    <2>7. (pc[v] \in {"hdel", "read", "write"} /\ job[v].via = "confirm"
             => sightings[KeyOf(job[v].cur)][job[v].cur.value] >= 2)'
      BY <2>1, <2>4, <2>6 DEF LocalsSighted
    <2> QED
      BY <2>1, <2>2, <2>4, <2>5, <2>7 DEF LocalsSighted
  <1> QED
    BY <1>1 DEF GateInv

\* Away from the control points between the gate and the write, only the copy of
\* the mirror matters.
LEMMA QuietLocals ==
  ASSUME WorkerTypeOK, NEW w \in Workers, pc'[w] \notin {"hset", "hdel", "read", "write"},
         \A k \in Keys : Seen(k, job[w].snap[k])'
  PROVE  LocalsSighted(w)'
  BY DEF LocalsSighted

\* The empty map holds no sighting.
LEMMA EmptySeen == \A k \in Keys : ~(NoEntry.count > 0) /\ EmptyMap[k] = NoEntry
  BY DEF EmptyMap, NoEntry

\* At the end of a group a worker has nothing left to account for.
LEMMA EndGroupLocals ==
  ASSUME WorkerTypeOK, NEW w \in Workers, NEW t, EndGroup(w, t)
  PROVE  LocalsSighted(w)' /\ OthersIdle(w)
  <1>1. job'[w].snap = EmptyMap
    BY DEF EndGroup, WorkerTypeOK, Job, IdleJob
  <1>2. pc'[w] \in {"verify", "group"}
    BY DEF EndGroup, WorkerTypeOK
  <1>3. OthersIdle(w)
    BY DEF EndGroup, OthersIdle, WorkerTypeOK
  <1> QED
    BY <1>1, <1>2, <1>3, QuietLocals, EmptySeen DEF Seen


\* Counting a sighting raises one counter and lowers none.
LEMMA CountGrows ==
  ASSUME NEW F \in [Keys -> [Values -> Nat]], NEW k \in Keys, NEW v \in Values,
         NEW j \in Keys, NEW u \in Values
  PROVE  [F EXCEPT ![k][v] = @ + 1][j][u] >= F[j][u]
  <1>1. F[j][u] \in Nat /\ F[j] \in [Values -> Nat]
    OBVIOUS
  <1>2. CASE j = k /\ u = v
    <2>1. [F EXCEPT ![k][v] = @ + 1][j][u] = F[j][u] + 1
      BY <1>2
    <2> QED
      BY <1>1, <2>1
  <1>3. CASE ~(j = k /\ u = v)
    <2>1. [F EXCEPT ![k][v] = @ + 1][j][u] = F[j][u]
      BY <1>3
    <2> QED
      BY <1>1, <2>1
  <1> QED
    BY <1>2, <1>3

-----------------------------------------------------------------------------
\* Every step preserves GateInv: one step per action, and under it the locals of
\* the worker and whatever of pending, mirror and history the action changes.
THEOREM GateStep == WorkerTypeOK /\ WorkerTypeOK' /\ GateInv /\ [Next \/ Restart]_vars => GateInv'
  <1> SUFFICES ASSUME WorkerTypeOK, WorkerTypeOK', GateInv, [Next \/ Restart]_vars PROVE GateInv'
    OBVIOUS
  <1>1. ASSUME NEW w \in Workers, Scrape(w) PROVE GateInv'
    <2>1. UNCHANGED <<sightings, history, pending, mirror>>
      BY <1>1 DEF Scrape, storeVars, ghostVars
    <2>2. SightingsGrow
      BY <2>1, SameSightings
    <2>3. /\ \E r \in Job : r.snap = EmptyMap /\ job' = [job EXCEPT ![w] = r]
          /\ \E l \in {"verify", "sweep", "load"} : pc' = [pc EXCEPT ![w] = l]
      <3>1. PICK L, D : /\ job' = [job EXCEPT ![w] = [IdleJob EXCEPT !.listed = L, !.diffs = D,
                                                                     !.todo = Groups(D)]]
                        /\ Goto(w, IF D = {} THEN "verify" ELSE IF loaded THEN "sweep" ELSE "load")
        BY <1>1 DEF Scrape
      <3> DEFINE r == [IdleJob EXCEPT !.listed = L, !.diffs = D, !.todo = Groups(D)]
      <3>2. r.snap = EmptyMap
        BY DEF IdleJob
      <3>3. r = job'[w] /\ job'[w] \in Job
        BY <3>1 DEF WorkerTypeOK
      <3> QED
        BY <3>1, <3>2, <3>3 DEF Goto
    <2>4. OthersIdle(w) /\ job'[w].snap = EmptyMap /\ pc'[w] \in {"verify", "sweep", "load"}
      BY <2>3 DEF OthersIdle, WorkerTypeOK
    <2>5. LocalsSighted(w)'
      BY <2>4, QuietLocals, EmptySeen DEF Seen
    <2> QED
      BY <2>1, <2>2, <2>4, <2>5, EntriesStay, HistoryStays, GateFrame
  <1>2. ASSUME NEW w \in Workers, ReadMirror(w) PROVE GateInv'
    <2>1. UNCHANGED <<sightings, history, pending, mirror>> /\ OthersIdle(w)
      BY <1>2 DEF ReadMirror, storeVars, ghostVars, Goto, OthersIdle, WorkerTypeOK
    <2>2. SightingsGrow
      BY <2>1, SameSightings
    <2>3. pc'[w] \in {"merge", "sweep"} /\ job'[w].snap \in {mirror, job[w].snap}
      BY <1>2 DEF ReadMirror, Goto, WorkerTypeOK, Job
    <2>4. \A k \in Keys : Seen(k, job[w].snap[k])'
      BY <2>1, <2>2, <2>3, EntriesStay, SnapsStay DEF Seen
    <2>5. LocalsSighted(w)'
      BY <2>3, <2>4, QuietLocals
    <2> QED
      BY <2>1, <2>2, <2>5, EntriesStay, HistoryStays, GateFrame
  <1>3. ASSUME NEW w \in Workers, MergeMirror(w) PROVE GateInv'
    <2>1. UNCHANGED <<sightings, history, mirror>> /\ OthersIdle(w)
      BY <1>3 DEF MergeMirror, storeVars, ghostVars, Goto, OthersIdle, WorkerTypeOK
    <2>2. SightingsGrow
      BY <2>1, SameSightings
    <2>3. pc'[w] = "sweep" /\ job'[w].snap = EmptyMap
      BY <1>3 DEF MergeMirror, Goto, WorkerTypeOK, Job
    <2>4. LocalsSighted(w)'
      BY <2>3, QuietLocals, EmptySeen DEF Seen
    <2>5. ASSUME NEW k \in Keys PROVE Seen(k, pending[k])'
      <3>1. pending'[k] \in {pending[k], job[w].snap[k]}
        BY <1>3 DEF MergeMirror, WorkerTypeOK, PendingMap
      <3>2. Seen(k, pending[k]) /\ Seen(k, job[w].snap[k])
        BY DEF GateInv, LocalsSighted
      <3> QED
        BY <2>1, <3>1, <3>2 DEF Seen
    <2> QED
      BY <2>1, <2>2, <2>4, <2>5, EntriesStay, HistoryStays, GateFrame
  <1>4. ASSUME NEW w \in Workers, Sweep(w) PROVE GateInv'
    <2>1. UNCHANGED <<sightings, history, mirror>> /\ OthersIdle(w)
      BY <1>4 DEF Sweep, storeVars, ghostVars, Goto, OthersIdle, WorkerTypeOK
    <2>2. SightingsGrow
      BY <2>1, SameSightings
    <2>3. pc'[w] \in {"resolve", "evict"} /\ job'[w].snap = job[w].snap
      BY <1>4 DEF Sweep, Goto, WorkerTypeOK, Job
    <2>4. LocalsSighted(w)'
      BY <2>2, <2>3, SnapsStay, QuietLocals
    <2>5. ASSUME NEW k \in Keys PROVE Seen(k, pending[k])'
      <3>1. pending'[k] \in {pending[k], NoEntry}
        BY <1>4 DEF Sweep
      <3>2. Seen(k, pending[k])
        BY DEF GateInv
      <3> QED
        BY <2>1, <3>1, <3>2, EmptySeen DEF Seen
    <2> QED
      BY <2>1, <2>2, <2>4, <2>5, EntriesStay, HistoryStays, GateFrame
  <1>5. ASSUME NEW w \in Workers, EvictMirror(w) PROVE GateInv'
    <2>1. UNCHANGED <<sightings, history, pending>> /\ OthersIdle(w)
      BY <1>5 DEF EvictMirror, storeVars, ghostVars, Goto, OthersIdle, WorkerTypeOK
    <2>2. SightingsGrow
      BY <2>1, SameSightings
    <2>3. pc'[w] = "resolve" /\ job'[w].snap = job[w].snap
      BY <1>5 DEF EvictMirror, Goto, WorkerTypeOK, Job
    <2>4. LocalsSighted(w)'
      BY <2>2, <2>3, SnapsStay, QuietLocals
    <2>5. ASSUME NEW k \in Keys PROVE Seen(k, mirror[k])'
      <3>1. mirror'[k] \in {mirror[k], NoEntry}
        BY <1>5 DEF EvictMirror
      <3>2. Seen(k, mirror[k])
        BY DEF GateInv
      <3> QED
        BY <2>1, <3>1, <3>2, EmptySeen DEF Seen
    <2> QED
      BY <2>1, <2>2, <2>4, <2>5, EntriesStay, HistoryStays, GateFrame
  <1>6. ASSUME NEW w \in Workers, ResolveSources(w) PROVE GateInv'
    <2>1. UNCHANGED <<sightings, history, pending, mirror>>
      BY <1>6 DEF ResolveSources, storeVars, ghostVars
    <2>2. SightingsGrow
      BY <2>1, SameSightings
    <2>3. /\ OthersIdle(w) /\ job'[w].snap = job[w].snap
          /\ pc'[w] \in {"verify", "group"}
      <3>1. CASE UNCHANGED job /\ Goto(w, "group")
        BY <3>1 DEF Goto, OthersIdle, WorkerTypeOK
      <3>2. ASSUME NEW s, job' = [job EXCEPT ![w].diffs = Without(job[w].diffs, s),
                                             ![w].todo = Groups(Without(job[w].diffs, s))],
                   Goto(w, IF Without(job[w].diffs, s) = {} THEN "verify" ELSE "group")
            PROVE  OthersIdle(w) /\ job'[w].snap = job[w].snap /\ pc'[w] \in {"verify", "group"}
        BY <3>2 DEF Goto, OthersIdle, WorkerTypeOK, Job
      <3> QED
        BY <1>6, <3>1, <3>2, Zenon DEF ResolveSources
    <2>4. LocalsSighted(w)'
      BY <2>2, <2>3, SnapsStay, QuietLocals
    <2> QED
      BY <2>1, <2>2, <2>3, <2>4, EntriesStay, HistoryStays, GateFrame
  <1>7. ASSUME NEW w \in Workers, SkipGroup(w) PROVE GateInv'
    <2>1. UNCHANGED <<sightings, history, pending, mirror>>
      BY <1>7 DEF SkipGroup, storeVars, ghostVars
    <2>2. SightingsGrow
      BY <2>1, SameSightings
    <2>3. LocalsSighted(w)' /\ OthersIdle(w)
      BY <1>7, EndGroupLocals DEF SkipGroup
    <2> QED
      BY <2>1, <2>2, <2>3, EntriesStay, HistoryStays, GateFrame
  <1>8. ASSUME NEW w \in Workers, LookupExisting(w) PROVE GateInv'
    <2>1. UNCHANGED <<sightings, history, pending, mirror>>
      BY <1>8 DEF LookupExisting, storeVars, ghostVars
    <2>2. SightingsGrow
      BY <2>1, SameSightings
    <2>3. OthersIdle(w) /\ job'[w].snap = job[w].snap /\ pc'[w] = "gate"
      <3>1. PICK g \in job[w].todo :
              \E d \in First(GroupOf(job[w].diffs, g)), sib \in SiblingValues(job[w].diffs, g),
                 found \in BOOLEAN :
                job' = [job EXCEPT ![w].todo = @ \ {g}, ![w].cur = d, ![w].sibling = sib,
                                   ![w].found = found]
        BY <1>8, LookupShape
      <3>2. Goto(w, "gate")
        BY <1>8 DEF LookupExisting
      <3> QED
        BY <3>1, <3>2 DEF Goto, OthersIdle, WorkerTypeOK, Job
    <2>4. LocalsSighted(w)'
      BY <2>2, <2>3, SnapsStay, QuietLocals
    <2> QED
      BY <2>1, <2>2, <2>3, <2>4, EntriesStay, HistoryStays, GateFrame
  <1>9. ASSUME NEW w \in Workers, DecideMulti(w) PROVE GateInv'
    <2>1. UNCHANGED <<sightings, history, pending, mirror>>
      BY <1>9 DEF DecideMulti, ghostVars
    <2>2. SightingsGrow
      BY <2>1, SameSightings
    <2>3. OthersIdle(w) /\ LocalsSighted(w)'
      <3>0. PICK g \in job[w].todo :
              \/ EndGroup(w, job[w].todo \ {g})
              \/ \E v \in Verdict(GroupOf(job[w].diffs, g)), sib \in SiblingValues(job[w].diffs, g) :
                   /\ job' = [job EXCEPT ![w].todo = @ \ {g}, ![w].cur = v.diff, ![w].sibling = sib,
                                         ![w].via = "agree", ![w].conf = v.conf]
                   /\ Goto(w, "read")
        BY <1>9, DecideShape
      <3>1. CASE EndGroup(w, job[w].todo \ {g})
        BY <3>1, EndGroupLocals
      <3>2. ASSUME NEW v \in Verdict(GroupOf(job[w].diffs, g)),
                   NEW sib \in SiblingValues(job[w].diffs, g),
                   job' = [job EXCEPT ![w].todo = @ \ {g}, ![w].cur = v.diff, ![w].sibling = sib,
                                      ![w].via = "agree", ![w].conf = v.conf],
                   Goto(w, "read")
            PROVE  OthersIdle(w) /\ LocalsSighted(w)'
        <4>1. /\ OthersIdle(w) /\ pc'[w] = "read"
              /\ job'[w].snap = job[w].snap /\ job'[w].via = "agree"
          BY <3>2 DEF Goto, OthersIdle, WorkerTypeOK, Job
        <4>2. \A k \in Keys : Seen(k, job[w].snap[k])'
          BY <2>2, <4>1, SnapsStay
        <4> QED
          BY <4>1, <4>2 DEF LocalsSighted
      <3> QED
        BY <3>0, <3>1, <3>2
    <2> QED
      BY <2>1, <2>2, <2>3, EntriesStay, HistoryStays, GateFrame
  <1>10. ASSUME NEW w \in Workers, Gate(w) PROVE GateInv'
    <2> DEFINE d == job[w].cur
               k == KeyOf(d)
               same == Matches(pending[k], d.value)
               new == [value |-> d.value, count |-> IF same THEN pending[k].count + 1 ELSE 1,
                       seen |-> now]
    <2>0. d \in Diffs /\ k \in Keys /\ d.value \in Values
      BY KeyType DEF WorkerTypeOK, Job, Diffs
    <2>1. sightings' = [sightings EXCEPT ![k][d.value] = @ + 1]
      BY <1>10 DEF Gate, Sighted
    <2>2. SightingsGrow
      <3>1. sightings \in [Keys -> [Values -> Nat]]
        BY DEF WorkerTypeOK
      <3> QED
        BY <2>0, <2>1, <3>1, CountGrows DEF SightingsGrow
    <2>3. /\ sightings[k][d.value] \in Nat
          /\ sightings'[k][d.value] = sightings[k][d.value] + 1
      BY <2>0, <2>1 DEF WorkerTypeOK
    <2>4. UNCHANGED <<history, mirror>>
      BY <1>10 DEF Gate, storeVars
    <2>5. /\ OthersIdle(w)
          /\ job'[w].snap = job[w].snap /\ job'[w].cur = d
          /\ \/ pc'[w] = "read" /\ job'[w].via = "first"
             \/ pc'[w] = "hdel" /\ same
             \/ pc'[w] = "hset" /\ job'[w].entry = new
      <3>1. \/ job' = [job EXCEPT ![w].via = "first", ![w].conf = "low"] /\ Goto(w, "read")
            \/ /\ job' = [job EXCEPT ![w].via = "confirm", ![w].conf = "medium"]
               /\ Goto(w, "hdel") /\ same
            \/ job' = [job EXCEPT ![w].entry = new] /\ Goto(w, "hset")
        BY <1>10, Zenon DEF Gate
      <3>2. CASE job' = [job EXCEPT ![w].via = "first", ![w].conf = "low"] /\ Goto(w, "read")
        BY <3>2 DEF Goto, OthersIdle, WorkerTypeOK, Job
      <3>3. CASE /\ job' = [job EXCEPT ![w].via = "confirm", ![w].conf = "medium"]
                 /\ Goto(w, "hdel") /\ same
        BY <3>3 DEF Goto, OthersIdle, WorkerTypeOK, Job
      <3>4. CASE job' = [job EXCEPT ![w].entry = new] /\ Goto(w, "hset")
        <4> HIDE DEF new
        <4> QED
          BY <3>4 DEF Goto, OthersIdle, WorkerTypeOK, Job
      <3> QED
        BY <3>1, <3>2, <3>3, <3>4
    <2>6. LocalsSighted(w)'
      <3>1. \A j \in Keys : Seen(j, job[w].snap[j])'
        BY <2>2, <2>5, SnapsStay
      <3>2. CASE pc'[w] = "read" /\ job'[w].via = "first"
        BY <3>1, <3>2 DEF LocalsSighted
      <3>3. CASE pc'[w] = "hdel" /\ same
        <4>1. sightings[k][d.value] >= 1
          BY <2>0, <3>3 DEF GateInv, Seen, Matches
        <4> QED
          BY <2>3, <2>5, <3>1, <3>3, <4>1 DEF LocalsSighted
      <3>4. CASE pc'[w] = "hset" /\ job'[w].entry = new
        BY <2>3, <2>5, <3>1, <3>4 DEF LocalsSighted, Seen
      <3> QED
        BY <2>5, <3>2, <3>3, <3>4
    <2>7. ASSUME NEW j \in Keys PROVE Seen(j, pending[j])'
      <3>1. pending'[j] = pending[j] \/ pending'[j] = NoEntry \/ (j = k /\ pending'[j] = new)
        BY <1>10 DEF Gate, DropPending, WorkerTypeOK, PendingMap
      <3>2. pending[j].count > 0 => sightings'[j][pending[j].value] >= 1
        BY <2>2, SeenStays DEF GateInv, WorkerTypeOK, PendingMap
      <3> QED
        BY <2>3, <3>1, <3>2, EmptySeen DEF Seen
    <2> QED
      BY <2>2, <2>4, <2>5, <2>6, <2>7, EntriesStay, HistoryStays, GateFrame
  <1>11. ASSUME NEW w \in Workers, PersistPending(w) PROVE GateInv'
    <2>1. UNCHANGED <<sightings, history, pending>>
      BY <1>11 DEF PersistPending, storeVars
    <2>2. SightingsGrow
      BY <2>1, SameSightings
    <2>3. OthersIdle(w) /\ LocalsSighted(w)'
      <3>1. CASE EndGroup(w, job[w].todo)
        BY <3>1, EndGroupLocals
      <3>2. CASE Goto(w, "expire") /\ UNCHANGED job
        <4>1. OthersIdle(w) /\ job'[w].snap = job[w].snap /\ pc'[w] = "expire"
          BY <3>2 DEF Goto, OthersIdle, WorkerTypeOK
        <4> QED
          BY <2>2, <4>1, SnapsStay, QuietLocals
      <3> QED
        BY <1>11, <3>1, <3>2 DEF PersistPending
    <2>4. ASSUME NEW k \in Keys PROVE Seen(k, mirror[k])'
      <3>1. \/ mirror'[k] = mirror[k]
            \/ k = KeyOf(job[w].cur) /\ mirror'[k] = job[w].entry
        BY <1>11 DEF PersistPending, WorkerTypeOK, PendingMap
      <3>2. Seen(k, mirror[k]) /\ Seen(KeyOf(job[w].cur), job[w].entry)
        BY <1>11 DEF GateInv, LocalsSighted, PersistPending
      <3> QED
        BY <2>1, <3>1, <3>2 DEF Seen
    <2> QED
      BY <2>1, <2>2, <2>3, <2>4, EntriesStay, HistoryStays, GateFrame
  <1>12. ASSUME NEW w \in Workers, DeletePending(w) PROVE GateInv'
    <2>1. UNCHANGED <<sightings, history, pending, job>>
      BY <1>12 DEF DeletePending, storeVars, ghostVars
    <2>2. SightingsGrow
      BY <2>1, SameSightings
    <2>3. OthersIdle(w) /\ pc[w] = "hdel" /\ pc'[w] = "read"
      BY <1>12 DEF DeletePending, OthersIdle, Goto, WorkerTypeOK
    <2>4. LocalsSighted(w)'
      BY <2>1, <2>3 DEF GateInv, LocalsSighted, Seen
    <2>5. ASSUME NEW k \in Keys PROVE Seen(k, mirror[k])'
      <3>1. mirror'[k] \in {mirror[k], NoEntry}
        BY <1>12 DEF DeletePending, WorkerTypeOK, PendingMap
      <3>2. Seen(k, mirror[k])
        BY DEF GateInv
      <3> QED
        BY <2>1, <3>1, <3>2, EmptySeen DEF Seen
    <2> QED
      BY <2>1, <2>2, <2>3, <2>4, <2>5, EntriesStay, HistoryStays, GateFrame
  <1>13. ASSUME NEW w \in Workers, ReadCurrent(w) PROVE GateInv'
    <2>1. UNCHANGED <<sightings, history, pending, mirror>> /\ pc[w] = "read"
      BY <1>13 DEF ReadCurrent, storeVars, ghostVars
    <2>2. SightingsGrow
      BY <2>1, SameSightings
    <2>3. OthersIdle(w) /\ LocalsSighted(w)'
      <3>1. CASE EndGroup(w, job[w].todo)
        BY <3>1, EndGroupLocals
      <3>2. ASSUME NEW cur, Goto(w, "write"),
                   job' = [job EXCEPT ![w].row = Completed(job[w].cur, cur, job[w].sibling)]
            PROVE  OthersIdle(w) /\ LocalsSighted(w)'
        <4>0. job[w].cur.field \in Fields
          BY DEF WorkerTypeOK, Job, Diffs
        <4>1. /\ OthersIdle(w) /\ pc'[w] = "write"
              /\ job'[w].snap = job[w].snap /\ job'[w].cur = job[w].cur /\ job'[w].via = job[w].via
              /\ job'[w].row = Completed(job[w].cur, cur, job[w].sibling)
          BY <3>2 DEF Goto, OthersIdle, WorkerTypeOK, Job
        <4>2. job'[w].row[job[w].cur.field] = job[w].cur.value
          BY <4>0, <4>1 DEF Completed
        <4>3. LocalsSighted(w)
          BY DEF GateInv
        <4> QED
          BY <2>1, <4>1, <4>2, <4>3 DEF LocalsSighted, Seen
      <3> QED
        BY <1>13, <3>1, <3>2 DEF ReadCurrent
    <2> QED
      BY <2>1, <2>2, <2>3, EntriesStay, HistoryStays, GateFrame
  <1>14. ASSUME NEW w \in Workers, PublishPrice(w) PROVE GateInv'
    <2>1. UNCHANGED <<sightings, pending, mirror>> /\ pc[w] = "write"
      BY <1>14 DEF PublishPrice, ghostVars
    <2>2. SightingsGrow
      BY <2>1, SameSightings
    <2>3. OthersIdle(w) /\ LocalsSighted(w)'
      <3>1. CASE EndGroup(w, job[w].todo)
        BY <3>1, EndGroupLocals
      <3>2. CASE job' = [job EXCEPT ![w].wrote = Len(history) + 1] /\ Goto(w, "event")
        <4>1. OthersIdle(w) /\ job'[w].snap = job[w].snap /\ pc'[w] = "event"
          BY <3>2 DEF Goto, OthersIdle, WorkerTypeOK, Job
        <4> QED
          BY <2>2, <4>1, SnapsStay, QuietLocals
      <3> QED
        BY <1>14, <3>1, <3>2 DEF PublishPrice
    <2>4. ConfirmedWasSightedTwice'
      <3>1. CASE UNCHANGED history
        BY <2>2, <3>1, HistoryStays
      <3>2. CASE history' = Append(history, Rounded(SnapshotOf(w)))
        <4> DEFINE h == Rounded(SnapshotOf(w))
                   d == job[w].cur
        <4>a. SnapshotOf(w) \in Snapshot
          BY DEF WorkerTypeOK, SnapshotOf, Snapshot, Job, Diffs, Fields, PricePair
        <4>0. h \in Snapshot
          BY <4>a, StoredType DEF Rounded, Snapshot
        <4>1. history \in Seq(Snapshot) /\ h.field \in Fields
          BY <4>0 DEF WorkerTypeOK, StoreTypeOK, Snapshot
        <4>2. /\ SnapKey(h) = KeyOf(d) /\ h.via = job[w].via
              /\ Column(h, h.field) = Stored(job[w].row[d.field])
          BY <4>1 DEF SnapKey, KeyOf, EffectiveProvider, Rounded, SnapshotOf, Column, Fields
        <4>3. h.via = "confirm" => SightedTwice(SnapKey(h), Column(h, h.field))
          <5>1. d.value \in Values
            BY DEF WorkerTypeOK, Job, Diffs
          <5> QED
            BY <2>1, <4>2, <5>1 DEF GateInv, LocalsSighted, SightedTwice
        <4> HIDE DEF h
        <4>4. ASSUME NEW i \in DOMAIN history', history'[i].via = "confirm"
              PROVE  SightedTwice(SnapKey(history'[i]), Column(history'[i], history'[i].field))
          <5>0. history' = Append(history, h) /\ i \in DOMAIN history'
            BY <3>2, <4>4 DEF h
          <5>1. \/ i \in DOMAIN history /\ history'[i] = history[i]
                \/ history'[i] = h
            BY <4>0, <4>1, <5>0
          <5> QED
            BY <4>3, <4>4, <5>1 DEF GateInv, ConfirmedWasSightedTwice
        <4> QED
          BY <2>1, <4>4 DEF ConfirmedWasSightedTwice, SightedTwice, SnapKey, Column
      <3> QED
        BY <1>14, <3>1, <3>2 DEF PublishPrice, WritePrice
    <2> QED
      BY <2>1, <2>2, <2>3, <2>4, EntriesStay, GateFrame
  <1>15. ASSUME NEW w \in Workers, PublishEvent(w) PROVE GateInv'
    <2>1. UNCHANGED <<sightings, history, pending, mirror>>
      BY <1>15 DEF PublishEvent, storeVars, ghostVars
    <2>2. SightingsGrow
      BY <2>1, SameSightings
    <2>3. OthersIdle(w) /\ LocalsSighted(w)'
      BY <1>15, EndGroupLocals DEF PublishEvent
    <2> QED
      BY <2>1, <2>2, <2>3, EntriesStay, HistoryStays, GateFrame
  <1>16. ASSUME NEW w \in Workers, MarkVerified(w) PROVE GateInv'
    <2>1. UNCHANGED <<sightings, history, pending, mirror>>
      BY <1>16 DEF MarkVerified, ghostVars
    <2>2. SightingsGrow
      BY <2>1, SameSightings
    <2>3. OthersIdle(w) /\ job'[w].snap = EmptyMap /\ pc'[w] = "idle"
      BY <1>16 DEF MarkVerified, OthersIdle, Goto, WorkerTypeOK, IdleJob
    <2>4. LocalsSighted(w)'
      BY <2>3, QuietLocals, EmptySeen DEF Seen
    <2> QED
      BY <2>1, <2>2, <2>3, <2>4, EntriesStay, HistoryStays, GateFrame
  <1>17. ASSUME UNCHANGED <<sightings, history, pending, mirror, pc, job>> PROVE GateInv'
    <2>1. SightingsGrow
      BY <1>17, SameSightings
    <2> QED
      BY <1>17, <2>1, EntriesStay, HistoryStays
      DEF GateInv, LocalsSighted, Seen
  <1>18. ASSUME Restart PROVE GateInv'
    <2>1. UNCHANGED <<sightings, history, mirror>>
      BY <1>18 DEF Restart, storeVars, ghostVars
    <2>2. SightingsGrow
      BY <2>1, SameSightings
    <2>3. ASSUME NEW w \in Workers PROVE LocalsSighted(w)'
      <3>1. job'[w].snap = EmptyMap /\ pc'[w] = "idle"
        BY <1>18 DEF Restart, IdleJob
      <3> QED
        BY <3>1, QuietLocals, EmptySeen DEF Seen
    <2>4. \A k \in Keys : Seen(k, pending[k])'
      BY <1>18, EmptySeen DEF Restart, Seen
    <2> QED
      BY <2>1, <2>2, <2>3, <2>4, EntriesStay, HistoryStays DEF GateInv
  <1>19. ASSUME Operator PROVE GateInv'
    <2>1. UNCHANGED <<sightings, pending, mirror, pc, job>>
      BY <1>19 DEF Operator, ghostVars
    <2>2. SightingsGrow
      BY <2>1, SameSightings
    <2>3. ConfirmedWasSightedTwice'
      <3>1. CASE UNCHANGED history
        BY <2>2, <3>1, HistoryStays
      <3>2. ASSUME NEW h, h.via # "confirm", history' = Append(history, h)
            PROVE  ConfirmedWasSightedTwice'
        <4>1. history \in Seq(Snapshot)
          BY DEF WorkerTypeOK, StoreTypeOK
        <4>2. ASSUME NEW i \in DOMAIN history', history'[i].via = "confirm"
              PROVE  SightedTwice(SnapKey(history'[i]), Column(history'[i], history'[i].field))
          <5>1. i \in DOMAIN history /\ history'[i] = history[i]
            BY <3>2, <4>1, <4>2
          <5> QED
            BY <4>2, <5>1 DEF GateInv, ConfirmedWasSightedTwice
        <4> QED
          BY <2>1, <4>2 DEF ConfirmedWasSightedTwice, SightedTwice, SnapKey, Column
      <3>3. \/ UNCHANGED history
            \/ \E h : h.via # "confirm" /\ history' = Append(history, h)
        BY <1>19 DEF Operator, BeginApprove, CommitApprove, RollbackApprove, Reject, WritePrice,
           Rounded, storeVars
      <3> QED
        BY <3>1, <3>2, <3>3
    <2> QED
      BY <2>1, <2>2, <2>3, EntriesStay DEF GateInv, LocalsSighted, Seen
  <1>20. ASSUME Tick PROVE GateInv'
    <2>1. UNCHANGED <<sightings, history, pending, pc, job>>
      BY <1>20 DEF Tick, storeVars
    <2>2. SightingsGrow
      BY <2>1, SameSightings
    <2>3. CASE UNCHANGED mirror
      BY <1>17, <2>1, <2>3
    <2>4. CASE DropHash
      <3>1. \A k \in Keys : Seen(k, mirror[k])'
        BY <2>4, EmptySeen DEF DropHash, Seen
      <3> QED
        BY <2>1, <2>2, <3>1, EntriesStay, HistoryStays DEF GateInv, LocalsSighted, Seen
    <2> QED
      BY <1>20, <2>3, <2>4 DEF Tick
  <1>22. ASSUME NEW w \in Workers, RefreshTTL(w) PROVE GateInv'
    <2>1. UNCHANGED <<sightings, history, pending, mirror>>
      BY <1>22 DEF RefreshTTL, storeVars, ghostVars
    <2>2. SightingsGrow
      BY <2>1, SameSightings
    <2>3. OthersIdle(w) /\ LocalsSighted(w)'
      BY <1>22, EndGroupLocals DEF RefreshTTL
    <2> QED
      BY <2>1, <2>2, <2>3, EntriesStay, HistoryStays, GateFrame
  <1>21. ASSUME UNCHANGED vars PROVE GateInv'
    BY <1>17, <1>21 DEF vars, storeVars, ghostVars
  <1> QED
    BY <1>1, <1>2, <1>3, <1>4, <1>5, <1>6, <1>7, <1>8, <1>9, <1>10, <1>11, <1>12, <1>13, <1>14,
       <1>15, <1>16, <1>18, <1>19, <1>20, <1>21, <1>22
    DEF Next, ReconcilerNext, WorkerStep

\* What the gate holds, in its map, its mirror or a worker's hands, was sighted, and two
\* sightings of its value stand behind every write it confirmed, whatever the
\* interleaving, the failed calls, the expiry of the mirror and the restarts.
THEOREM OnlySightedHeld == SpecRestart => []GateInv
  <1>1. Init => GateInv
    BY DEF Init, ReconcilerInit, StoreInit, GateInv, LocalsSighted, Seen, IdleJob, EmptyMap, NoEntry,
           ConfirmedWasSightedTwice
  <1>2. TypeOK /\ TypeOK' /\ GateInv /\ [NextRestart]_systemVars => GateInv'
    BY GateStep, StepIsWorkerStep DEF TypeOK
  <1> QED
    BY <1>1, <1>2, TypeCorrect, PTL DEF SpecRestart

-----------------------------------------------------------------------------
\* The only statement any action issues against price_history is an append.
LEMMA HistoryStep ==
  ASSUME [Next \/ Restart]_vars
  PROVE  UNCHANGED history \/ \E h : history' = Append(history, h)
  <1>1. ASSUME NEW w \in Workers, Scrape(w) \/ WorkerStep(w)
        PROVE  UNCHANGED history \/ \E h : history' = Append(history, h)
    BY <1>1 DEF WorkerStep, Scrape, ReadMirror, MergeMirror, Sweep, EvictMirror, ResolveSources,
       SkipGroup, LookupExisting, DecideMulti, Gate, PersistPending, RefreshTTL, DeletePending, ReadCurrent,
       PublishPrice, PublishEvent, MarkVerified, WritePrice, storeVars
  <1>2. CASE Operator
    BY <1>2 DEF Operator, BeginApprove, CommitApprove, RollbackApprove, Reject, WritePrice, storeVars
  <1>3. CASE Tick \/ Restart \/ UNCHANGED vars
    BY <1>3 DEF Tick, Restart, vars, storeVars
  <1> QED
    BY <1>1, <1>2, <1>3 DEF Next, ReconcilerNext

-----------------------------------------------------------------------------
(* The account of the gate: a confirmation has two sightings of its own, but  *)
(* for what a load can give back. In the first life, before any failed call,   *)
(* no worker gets past the load before it is over, so what it reads is empty,  *)
(* and a second load is skipped. Every later load can put one sighting back    *)
(* that was used: it is owed from the restart, or the first failed call, on.   *)

BeforeLoad ==
  /\ pending = EmptyMap /\ mirror = EmptyMap
  /\ \A w \in Workers : pc[w] \in {"idle", "load", "merge", "verify"} /\ job[w].snap = EmptyMap

LoadInv == faults = 0 /\ restarts = 0 /\ ~loaded => BeforeLoad

\* The counts of failed calls and of restarts only grow.
LEMMA BoundsGrow ==
  ASSUME WorkerTypeOK, [Next \/ Restart]_vars, faults' = 0, restarts' = 0
  PROVE  faults = 0 /\ restarts = 0 /\ ~Fault /\ ~Restart
  <1>1. faults \in Nat /\ restarts \in Nat
    BY DEF WorkerTypeOK
  <1>2. ~Fault /\ ~Restart
    BY <1>1 DEF Fault, Restart
  <1>3. ASSUME NEW w \in Workers, Scrape(w) \/ WorkerStep(w)
        PROVE  UNCHANGED <<faults, restarts>>
    BY <1>2, <1>3 DEF WorkerStep, Scrape, ReadMirror, MergeMirror, Sweep, EvictMirror, ResolveSources,
       SkipGroup, LookupExisting, DecideMulti, Gate, PersistPending, RefreshTTL, DeletePending, ReadCurrent,
       PublishPrice, PublishEvent, MarkVerified, boundVars
  <1>4. CASE Operator \/ Tick \/ UNCHANGED vars
    BY <1>2, <1>4 DEF Operator, Tick, vars, boundVars
  <1> QED
    BY <1>2, <1>3, <1>4 DEF Next, ReconcilerNext

\* Until a load is over no worker reaches the gate.
LEMMA LoadStep ==
  ASSUME WorkerTypeOK, LoadInv, [Next \/ Restart]_vars
  PROVE  LoadInv'
  <1> SUFFICES ASSUME faults' = 0, restarts' = 0, ~loaded' PROVE BeforeLoad'
    BY DEF LoadInv
  <1>1. faults = 0 /\ restarts = 0 /\ ~Fault /\ ~Restart
    BY BoundsGrow
  <1>2. ~loaded
    <2>1. ASSUME NEW w \in Workers, Scrape(w) \/ WorkerStep(w) PROVE ~loaded
      BY <2>1 DEF WorkerStep, Scrape, ReadMirror, MergeMirror, Sweep, EvictMirror, ResolveSources,
         SkipGroup, LookupExisting, DecideMulti, Gate, PersistPending, RefreshTTL, DeletePending, ReadCurrent,
         PublishPrice, PublishEvent, MarkVerified
    <2>2. CASE Operator \/ Tick \/ UNCHANGED vars
      BY <2>2 DEF Operator, Tick, vars
    <2> QED
      BY <1>1, <2>1, <2>2 DEF Next, ReconcilerNext
  <1>3. BeforeLoad
    BY <1>1, <1>2 DEF LoadInv
  <1>4. ASSUME NEW w \in Workers, UNCHANGED <<pending, mirror>>, OthersIdle(w),
               pc'[w] \in {"idle", "load", "merge", "verify"}, job'[w].snap = EmptyMap
        PROVE  BeforeLoad'
    BY <1>3, <1>4 DEF BeforeLoad, OthersIdle
  <1>5. ASSUME NEW w \in Workers, Scrape(w) PROVE BeforeLoad'
    <2>1. PICK L, D : /\ job' = [job EXCEPT ![w] = [IdleJob EXCEPT !.listed = L, !.diffs = D,
                                                                   !.todo = Groups(D)]]
                      /\ Goto(w, IF D = {} THEN "verify" ELSE IF loaded THEN "sweep" ELSE "load")
      BY <1>5 DEF Scrape
    <2>2. job'[w].snap = EmptyMap
      BY <2>1 DEF IdleJob, WorkerTypeOK
    <2>3. pc'[w] \in {"verify", "load"} /\ OthersIdle(w)
      BY <2>1, <1>2 DEF Goto, OthersIdle, WorkerTypeOK
    <2> QED
      BY <1>4, <1>5, <2>2, <2>3 DEF Scrape
  <1>6. ASSUME NEW w \in Workers, ReadMirror(w) PROVE BeforeLoad'
    <2>1. job' = [job EXCEPT ![w].snap = mirror] /\ Goto(w, "merge")
      BY <1>1, <1>6 DEF ReadMirror
    <2>2. job'[w].snap = EmptyMap /\ pc'[w] = "merge" /\ OthersIdle(w)
      BY <1>3, <2>1 DEF BeforeLoad, Goto, OthersIdle, WorkerTypeOK, Job
    <2> QED
      BY <1>4, <1>6, <2>2 DEF ReadMirror
  <1>7. ASSUME NEW w \in Workers, MarkVerified(w) PROVE BeforeLoad'
    <2>1. job'[w].snap = EmptyMap /\ pc'[w] = "idle" /\ OthersIdle(w)
      BY <1>7 DEF MarkVerified, Goto, OthersIdle, WorkerTypeOK, IdleJob
    <2> QED
      BY <1>4, <1>7, <2>1 DEF MarkVerified
  <1>8. ASSUME NEW w \in Workers, WorkerStep(w) PROVE ReadMirror(w) \/ MarkVerified(w)
    <2>1. pc[w] \in {"idle", "load", "merge", "verify"}
      BY <1>3 DEF BeforeLoad
    <2>2. ~MergeMirror(w)
      BY DEF MergeMirror
    <2> QED
      BY <1>8, <2>1, <2>2 DEF WorkerStep, Sweep, EvictMirror, ResolveSources,
         SkipGroup, LookupExisting, DecideMulti, Gate, PersistPending, RefreshTTL, DeletePending, ReadCurrent,
         PublishPrice, PublishEvent
  <1>9. CASE Operator \/ Tick \/ UNCHANGED vars
    BY <1>3, <1>9 DEF BeforeLoad, Operator, Tick, DropHash, vars
  <1> QED
    BY <1>1, <1>5, <1>6, <1>7, <1>8, <1>9 DEF Next, ReconcilerNext

\* A load that is still to come, and that may read what the map has used up.
Owed == IF ~loaded /\ ~(faults = 0 /\ restarts = 0) THEN 1 ELSE 0

\* The sightings that loads have given back so far, at most.
Credit == restarts + (IF faults = 0 THEN 0 ELSE 1) - Owed

\* The account of one key and one value, with a credit of x sightings.
Paid(k, v, x) ==
  sightings[k][v] + x
    >= 2 * confirms[k][v] + (IF pending[k].count > 0 /\ pending[k].value = v THEN 1 ELSE 0)

AccountInv == \A k \in Keys, v \in Values : Paid(k, v, Credit)

\* An entry that stays or goes changes no account for the worse.
LEMMA PaidStays ==
  ASSUME WorkerTypeOK, NEW k \in Keys, NEW v \in Values, NEW x \in Int, Paid(k, v, x),
         UNCHANGED <<sightings, confirms>>, pending'[k] = pending[k] \/ pending'[k] = NoEntry
  PROVE  Paid(k, v, x)'
  BY DEF Paid, NoEntry, WorkerTypeOK

\* What a load puts into the map is one sighting of the key.
LEMMA PaidOnce ==
  ASSUME WorkerTypeOK, NEW k \in Keys, NEW v \in Values, NEW x \in Int, Paid(k, v, x),
         UNCHANGED <<sightings, confirms>>
  PROVE  Paid(k, v, x + 1)'
  BY DEF Paid, WorkerTypeOK

\* The critical section of the gate keeps the account of every key and value.
LEMMA GateKeepsAccount ==
  ASSUME WorkerTypeOK, NEW w \in Workers, Gate(w), NEW k \in Keys, NEW v \in Values,
         NEW x \in Int, Paid(k, v, x)
  PROVE  Paid(k, v, x)'
  <1> DEFINE d == job[w].cur
             j == KeyOf(d)
             u == d.value
  <1>1. j \in Keys /\ u \in Values
    BY KeyType DEF WorkerTypeOK, Job, Diffs
  <1>2. /\ sightings \in [Keys -> [Values -> Nat]] /\ confirms \in [Keys -> [Values -> Nat]]
        /\ pending \in [Keys -> Entry] /\ pending[k] \in Entry
        /\ sightings[k][v] \in Nat /\ confirms[k][v] \in Nat
    BY DEF WorkerTypeOK, PendingMap
  <1>3. sightings' = [sightings EXCEPT ![j][u] = @ + 1]
    BY DEF Gate, Sighted
  <1>4. \/ UNCHANGED <<pending, confirms>>
        \/ /\ Matches(pending[j], u)
           /\ pending' = [pending EXCEPT ![j] = NoEntry]
           /\ confirms' = [confirms EXCEPT ![j][u] = @ + 1]
        \/ /\ ~Matches(pending[j], u) /\ UNCHANGED confirms
           /\ pending' = [pending EXCEPT ![j] = [value |-> u, count |-> 1, seen |-> now]]
    <2>1. pending[j].count \in Nat
      BY <1>1, <1>2 DEF Entry
    <2>2. Matches(pending[j], u) => pending[j].count + 1 >= 2
      BY <2>1 DEF Matches
    <2> QED
      BY <2>2 DEF Gate, DropPending
  <1>5. CASE ~(k = j)
    <2>1. sightings'[k] = sightings[k] /\ confirms'[k] = confirms[k] /\ pending'[k] = pending[k]
      BY <1>1, <1>2, <1>3, <1>4, <1>5
    <2> QED
      BY <2>1 DEF Paid
  <1>6. CASE k = j /\ v # u
    <2>1. sightings'[k][v] = sightings[k][v] /\ confirms'[k][v] = confirms[k][v]
      BY <1>1, <1>2, <1>3, <1>4, <1>6
    <2>2. \/ pending'[k] = pending[k] \/ pending'[k] = NoEntry
          \/ pending'[k] = [value |-> u, count |-> 1, seen |-> now]
      BY <1>1, <1>2, <1>4, <1>6
    <2> QED
      BY <1>2, <1>6, <2>1, <2>2 DEF Paid, NoEntry
  <1>7. CASE k = j /\ v = u
    <2>1. sightings'[k][v] = sightings[k][v] + 1
      BY <1>1, <1>2, <1>3, <1>7
    <2>2. CASE UNCHANGED <<pending, confirms>>
      BY <1>2, <2>1, <2>2 DEF Paid
    <2>3. CASE /\ Matches(pending[j], u)
               /\ pending' = [pending EXCEPT ![j] = NoEntry]
               /\ confirms' = [confirms EXCEPT ![j][u] = @ + 1]
      <3>1. confirms'[k][v] = confirms[k][v] + 1 /\ pending'[k] = NoEntry
        BY <1>1, <1>2, <1>7, <2>3
      <3> QED
        BY <1>2, <1>7, <2>1, <2>3, <3>1 DEF Paid, NoEntry, Matches
    <2>4. CASE /\ ~Matches(pending[j], u) /\ UNCHANGED confirms
               /\ pending' = [pending EXCEPT ![j] = [value |-> u, count |-> 1, seen |-> now]]
      BY <1>1, <1>2, <1>7, <2>1, <2>4 DEF Paid, Matches
    <2> QED
      BY <1>4, <2>2, <2>3, <2>4
  <1> QED
    BY <1>5, <1>6, <1>7

\* A merge of what was loaded changes nothing.
LEMMA MergeIsIdle ==
  ASSUME WorkerTypeOK, LoadInv, faults = 0, restarts = 0, NEW w \in Workers, MergeMirror(w),
         NEW k \in Keys
  PROVE  pending'[k] = pending[k]
  <1>1. CASE loaded
    BY <1>1 DEF MergeMirror
  <1>2. CASE ~loaded
    <2>1. pending[k] = NoEntry /\ job[w].snap[k] = NoEntry
      BY <1>2, EmptySeen DEF LoadInv, BeforeLoad
    <2>2. pending' = [j \in Keys |-> IF pending[j].count = 0 /\ ~Stale(job[w].snap[j])
                                       THEN job[w].snap[j] ELSE pending[j]]
      BY <1>2 DEF MergeMirror
    <2> QED
      BY <2>1, <2>2
  <1> QED
    BY <1>1, <1>2

\* Without a load or a restart the credit does not shrink.
LEMMA CreditStays ==
  ASSUME WorkerTypeOK, UNCHANGED <<loaded, restarts>>, faults' = faults \/ faults' = faults + 1
  PROVE  Credit \in Int /\ Credit' \in Int /\ Credit <= Credit'
  BY DEF Credit, Owed, WorkerTypeOK

\* What a step of a worker does to the bounds: one fault at most, and only a load sets
\* "loaded".
LEMMA FaultStep ==
  ASSUME WorkerTypeOK, NEW w \in Workers, Scrape(w) \/ WorkerStep(w)
  PROVE  /\ UNCHANGED restarts
         /\ faults' = faults \/ faults' = faults + 1
         /\ ~MergeMirror(w) => UNCHANGED loaded
  BY DEF WorkerStep, Scrape, ReadMirror, MergeMirror, Sweep, EvictMirror, ResolveSources,
     SkipGroup, LookupExisting, DecideMulti, Gate, PersistPending, RefreshTTL, DeletePending, ReadCurrent,
     PublishPrice, PublishEvent, MarkVerified, boundVars, Fault

\* Only the gate counts; the sweep drops entries, the load puts one sighting of a key
\* back and uses what it owed, a restart drops the map and owes a load.
LEMMA AccountStep ==
  ASSUME WorkerTypeOK, WorkerTypeOK', LoadInv, AccountInv, [Next \/ Restart]_vars
  PROVE  AccountInv'
  <1> SUFFICES ASSUME NEW k \in Keys, NEW v \in Values
               PROVE  Paid(k, v, Credit)'
    BY DEF AccountInv
  <1>t. /\ restarts \in Nat /\ faults \in Nat /\ restarts' \in Nat /\ faults' \in Nat
        /\ loaded \in BOOLEAN /\ loaded' \in BOOLEAN
    BY DEF WorkerTypeOK
  <1>0. Credit \in Int /\ Credit' \in Int
    BY <1>t DEF Credit, Owed
  <1>x. PICK x \in Int : x = Credit
    BY <1>0
  <1>y. PICK y \in Int : y = Credit'
    BY <1>0
  <1>1. Paid(k, v, x)
    BY <1>x DEF AccountInv
  <1>2. ASSUME x <= y, Paid(k, v, x)' PROVE Paid(k, v, Credit)'
    <2>1. Paid(k, v, y)'
      BY <1>2 DEF Paid, WorkerTypeOK
    <2> QED
      BY <2>1, <1>y DEF Paid
  <1>3. ASSUME NEW w \in Workers, Gate(w) PROVE Paid(k, v, Credit)'
    <2>1. x <= y
      BY <1>3, <1>x, <1>y, FaultStep, CreditStays DEF WorkerStep, Gate
    <2> QED
      BY <1>1, <1>2, <1>3, <2>1, GateKeepsAccount
  <1>4. ASSUME NEW w \in Workers, MergeMirror(w) PROVE Paid(k, v, Credit)'
    <2>0. UNCHANGED <<sightings, confirms, faults, restarts>> /\ loaded'
      BY <1>4 DEF MergeMirror, ghostVars, boundVars
    <2>1. CASE Owed = 0
      <3>1. pending'[k] = pending[k]
        <4>1. CASE loaded
          BY <1>4, <4>1 DEF MergeMirror
        <4>2. CASE faults = 0 /\ restarts = 0
          BY <1>4, <4>2, MergeIsIdle
        <4> QED
          BY <2>1, <4>1, <4>2 DEF Owed
      <3>2. x = y
        BY <1>x, <1>y, <2>0, <2>1 DEF Credit, Owed
      <3> QED
        BY <1>1, <1>2, <2>0, <3>1, <3>2, PaidStays
    <2>2. CASE Owed = 1
      <3>1. y = x + 1
        BY <1>t, <1>x, <1>y, <2>0, <2>2 DEF Credit, Owed
      <3>2. Paid(k, v, x + 1)'
        BY <1>1, <2>0, PaidOnce
      <3> QED
        BY <1>y, <3>1, <3>2 DEF Paid
    <2> QED
      BY <2>1, <2>2 DEF Owed
  <1>5. ASSUME UNCHANGED <<loaded, restarts, sightings, confirms>>,
               faults' = faults \/ faults' = faults + 1,
               pending'[k] = pending[k] \/ pending'[k] = NoEntry
        PROVE  Paid(k, v, Credit)'
    <2>1. x <= y
      BY <1>5, <1>x, <1>y, CreditStays
    <2> QED
      BY <1>1, <1>2, <1>5, <2>1, PaidStays
  <1>6. ASSUME NEW w \in Workers, Scrape(w) \/ WorkerStep(w), ~Gate(w), ~MergeMirror(w)
        PROVE  Paid(k, v, Credit)'
    <2>1. /\ UNCHANGED <<sightings, confirms>>
          /\ pending'[k] = pending[k] \/ pending'[k] = NoEntry
      BY <1>6 DEF WorkerStep, Scrape, ReadMirror, Sweep, EvictMirror, ResolveSources,
         SkipGroup, LookupExisting, DecideMulti, PersistPending, RefreshTTL, DeletePending, ReadCurrent,
         PublishPrice, PublishEvent, MarkVerified, ghostVars
    <2> QED
      BY <1>5, <1>6, <2>1, FaultStep
  <1>7. CASE Operator \/ Tick \/ UNCHANGED vars
    BY <1>5, <1>7 DEF Operator, Tick, vars, ghostVars, boundVars
  <1>8. CASE Restart
    <2>1. /\ UNCHANGED <<sightings, confirms, faults>> /\ restarts' = restarts + 1
          /\ pending'[k] = NoEntry /\ ~loaded'
      BY <1>8, EmptySeen DEF Restart, ghostVars
    <2>2. x <= y
      BY <1>t, <1>x, <1>y, <2>1 DEF Credit, Owed
    <2> QED
      BY <1>1, <1>2, <2>1, <2>2, PaidStays
  <1> QED
    BY <1>3, <1>4, <1>6, <1>7, <1>8 DEF Next, ReconcilerNext

\* A confirmation has two sightings of its own, whatever the interleaving of the
\* workers: failed calls and restarts included, a sighting is counted a second time
\* only by a load, once per key and restart and once more after a failed call.
THEOREM SightingsCountedOnce == SpecRestart => []TwoSightingsPerConfirmation
  <1>1. Init => LoadInv /\ AccountInv
    BY DEF Init, ReconcilerInit, LoadInv, BeforeLoad, IdleJob, AccountInv, Paid, Credit, Owed,
           EmptyMap, NoEntry
  <1>2. TypeOK /\ TypeOK' /\ LoadInv /\ AccountInv /\ [NextRestart]_systemVars
          => LoadInv' /\ AccountInv'
    BY LoadStep, AccountStep, StepIsWorkerStep DEF TypeOK
  <1>3. TypeOK /\ AccountInv => TwoSightingsPerConfirmation
    <2> SUFFICES ASSUME TypeOK, AccountInv, NEW k \in Keys, NEW v \in Values
                 PROVE  sightings[k][v] + restarts + (IF faults = 0 THEN 0 ELSE 1)
                          >= 2 * confirms[k][v] + (IF pending[k].count > 0 /\ pending[k].value = v
                                                     THEN 1 ELSE 0)
      BY DEF TwoSightingsPerConfirmation
    <2>1. Paid(k, v, Credit)
      BY DEF AccountInv
    <2> QED
      BY <2>1 DEF Paid, Credit, Owed, TypeOK, WorkerTypeOK
  <1> QED
    BY <1>1, <1>2, <1>3, TypeCorrect, PTL DEF SpecRestart

-----------------------------------------------------------------------------
(* The tables. What any step of the system does to prices and price_history,  *)
(* and to the review queue.                                                   *)

\* prices is written together with price_history, or only stamped.
LEMMA StoreStep ==
  ASSUME TypeOK, [NextRestart]_systemVars
  PROVE  \/ \E snap \in Snapshot, t \in Nat : WritePrice(snap, t)
         \/ /\ UNCHANGED history
            /\ \A m \in Models, s \in Sources :
                 /\ prices'[m][s].input = prices[m][s].input
                 /\ prices'[m][s].output = prices[m][s].output
                 /\ prices'[m][s].conf = prices[m][s].conf
  <1> DEFINE Written == \E snap \in Snapshot, t \in Nat : WritePrice(snap, t)
             Same == /\ UNCHANGED history
                     /\ \A m \in Models, s \in Sources :
                          /\ prices'[m][s].input = prices[m][s].input
                          /\ prices'[m][s].output = prices[m][s].output
                          /\ prices'[m][s].conf = prices[m][s].conf
  <1>t. /\ review \in Seq(ReviewEntry) /\ prices \in [Models -> [Sources -> Row]]
        /\ job \in [Workers -> Job] /\ now \in Nat
        /\ approving \subseteq [entry : DOMAIN review, row : Row]
    BY DEF TypeOK, WorkerTypeOK, StoreTypeOK, ApprovingTypeOK
  <1>0. ASSUME UNCHANGED <<prices, history>> PROVE Same
    BY <1>0
  <1>1. ASSUME NEW w \in Workers, PublishPrice(w) PROVE Written \/ Same
    <2>1. SnapshotOf(w) \in Snapshot
      BY <1>t DEF SnapshotOf, Snapshot, Job, Diffs, Fields, PricePair
    <2>2. WritePrice(SnapshotOf(w), now) \/ UNCHANGED <<prices, history>>
      BY <1>1 DEF PublishPrice
    <2> QED
      BY <1>0, <1>t, <2>1, <2>2
  <1>2. ASSUME NEW w \in Workers, MarkVerified(w) PROVE Same
    <2>1. CASE UNCHANGED prices
      BY <1>2, <2>1 DEF MarkVerified
    <2>2. CASE prices' = [m \in Models |-> [s \in Sources |->
                 IF <<s, m>> \in job[w].listed /\ Exists(m, s)
                   THEN [prices[m][s] EXCEPT !.verified = now] ELSE prices[m][s]]]
      <3>1. ASSUME NEW m \in Models, NEW s \in Sources
            PROVE  /\ prices'[m][s].input = prices[m][s].input
                   /\ prices'[m][s].output = prices[m][s].output
                   /\ prices'[m][s].conf = prices[m][s].conf
        <4>1. prices[m][s] \in Row
          BY <1>t
        <4>2. prices'[m][s] \in {prices[m][s], [prices[m][s] EXCEPT !.verified = now]}
          BY <2>2
        <4> QED
          BY <4>1, <4>2 DEF Row
      <3> QED
        BY <1>2, <3>1 DEF MarkVerified
    <2> QED
      BY <1>2, <2>1, <2>2 DEF MarkVerified
  <1>3. ASSUME NEW w \in Workers, Scrape(w) \/ WorkerStep(w) PROVE Written \/ Same
    <2>1. PublishPrice(w) \/ MarkVerified(w) \/ UNCHANGED <<prices, history>>
      BY <1>3 DEF WorkerStep, Scrape, ReadMirror, MergeMirror, Sweep, EvictMirror, ResolveSources,
         SkipGroup, LookupExisting, DecideMulti, Gate, PersistPending, RefreshTTL, DeletePending, ReadCurrent,
         PublishEvent, storeVars
    <2> QED
      BY <1>0, <1>1, <1>2, <2>1
  <1>4. ASSUME NEW a \in approving, CommitApprove(a) PROVE Written
    <2> DEFINE r == review[a.entry]
               row == prices[r.model][r.sourceA]
               snap == [model |-> r.model, source |-> r.sourceA,
                        input |-> IF r.field = "input" THEN r.valueA ELSE a.row.input,
                        output |-> IF r.field = "output" THEN r.valueA ELSE a.row.output,
                        conf |-> "high", via |-> "review", field |-> r.field]
    <2>0. a.entry \in DOMAIN review /\ a.row \in Row
      BY <1>t
    <2>1. r \in ReviewEntry
      BY <1>t, <2>0
    <2>2. row \in Row
      BY <1>t, <2>1 DEF ReviewEntry
    <2>3. snap \in Snapshot /\ row.verified \in Nat
      BY <2>0, <2>1, <2>2 DEF ReviewEntry, Row, Snapshot, Origins, Confidences
    <2>4. WritePrice(snap, row.verified)
      BY <1>4 DEF CommitApprove
    <2> QED
      BY <2>3, <2>4
  <1>5. CASE Operator
    <2>1. (\E a \in approving : CommitApprove(a)) \/ UNCHANGED <<prices, history>>
      BY <1>5 DEF Operator, BeginApprove, Reject, RollbackApprove, storeVars
    <2> QED
      BY <1>0, <1>4, <2>1
  <1>6. CASE Tick \/ Restart \/ UNCHANGED systemVars
    <2>1. UNCHANGED <<prices, history>>
      BY <1>6 DEF Tick, Restart, systemVars, vars, storeVars
    <2> QED
      BY <1>0, <2>1
  <1> QED
    BY <1>3, <1>5, <1>6 DEF NextRestart, Next, ReconcilerNext

\* The snapshots of one row of prices.
SnapsOf(m, s) == {i \in DOMAIN history : history[i].model = m /\ history[i].source = s}

\* What RowIsLatestSnapshot says of one row.
ShowsLatest(m, s) ==
  IF SnapsOf(m, s) = {} THEN ~Exists(m, s)
  ELSE \E i \in SnapsOf(m, s) : /\ \A j \in SnapsOf(m, s) : j <= i
                                /\ prices[m][s].input = history[i].input
                                /\ prices[m][s].output = history[i].output
                                /\ prices[m][s].conf = history[i].conf

\* The transaction of WritePrice keeps every row and its last snapshot together.
LEMMA WriteShowsLatest ==
  ASSUME StoreTypeOK, NEW snap \in Snapshot, NEW t \in Nat, WritePrice(snap, t),
         NEW m \in Models, NEW s \in Sources, ShowsLatest(m, s)
  PROVE  ShowsLatest(m, s)'
  <1> DEFINE n == Len(history) + 1
             h == Rounded(snap)
  <1>1. /\ history \in Seq(Snapshot) /\ prices \in [Models -> [Sources -> Row]]
        /\ snap.model \in Models /\ snap.source \in Sources
    BY DEF StoreTypeOK, Snapshot
  <1>2. /\ h.model = snap.model /\ h.source = snap.source /\ h.conf = snap.conf
        /\ h.input = Stored(snap.input) /\ h.output = Stored(snap.output)
    BY DEF Rounded, Snapshot
  <1>3. history' = Append(history, h)
    BY DEF WritePrice
  <1> HIDE DEF h
  <1>4. /\ Len(history) \in Nat /\ DOMAIN history = 1..Len(history) /\ DOMAIN history' = 1..n
        /\ history'[n] = h /\ \A i \in DOMAIN history : history'[i] = history[i]
    BY <1>1, <1>3
  <1>5. CASE m = snap.model /\ s = snap.source
    <2>1. n \in SnapsOf(m, s)' /\ \A j \in SnapsOf(m, s)' : j <= n
      BY <1>2, <1>4, <1>5 DEF SnapsOf
    <2>2. prices'[m][s] = RowOf(snap, t)
      BY <1>1, <1>5 DEF WritePrice
    <2>3. /\ prices'[m][s].input = history'[n].input
          /\ prices'[m][s].output = history'[n].output
          /\ prices'[m][s].conf = history'[n].conf
      BY <1>2, <1>4, <2>2 DEF RowOf
    <2> QED
      BY <2>1, <2>3 DEF ShowsLatest
  <1>6. CASE ~(m = snap.model /\ s = snap.source)
    <2>1. SnapsOf(m, s)' = SnapsOf(m, s)
      BY <1>2, <1>4, <1>6 DEF SnapsOf
    <2>2. prices'[m][s] = prices[m][s]
      BY <1>1, <1>6 DEF WritePrice
    <2>3. \A i \in SnapsOf(m, s) : history'[i] = history[i]
      BY <1>4 DEF SnapsOf
    <2> QED
      BY <2>1, <2>2, <2>3 DEF ShowsLatest, Exists
  <1> QED
    BY <1>5, <1>6

\* prices and price_history never disagree, whoever wrote last and whatever
\* failed: each row shows its last snapshot, and a row without one does not exist.
THEOREM RowsShowTheLog == SpecRestart => []RowIsLatestSnapshot
  <1>1. Init => RowIsLatestSnapshot
    BY DEF Init, ReconcilerInit, StoreInit, RowIsLatestSnapshot, Exists, NoRow
  <1>2. ASSUME TypeOK, RowIsLatestSnapshot, [NextRestart]_systemVars,
               NEW m \in Models, NEW s \in Sources
        PROVE  ShowsLatest(m, s)'
    <2>1. ShowsLatest(m, s)
      BY <1>2 DEF RowIsLatestSnapshot, ShowsLatest, SnapsOf
    <2>2. ASSUME NEW snap \in Snapshot, NEW t \in Nat, WritePrice(snap, t) PROVE ShowsLatest(m, s)'
      BY <1>2, <2>1, <2>2, WriteShowsLatest DEF TypeOK, WorkerTypeOK
    <2>3. ASSUME /\ UNCHANGED history
                 /\ prices'[m][s].input = prices[m][s].input
                 /\ prices'[m][s].output = prices[m][s].output
                 /\ prices'[m][s].conf = prices[m][s].conf
          PROVE  ShowsLatest(m, s)'
      BY <2>1, <2>3 DEF ShowsLatest, SnapsOf, Exists
    <2> QED
      BY <1>2, <2>2, <2>3, StoreStep
  <1>3. TypeOK /\ RowIsLatestSnapshot /\ [NextRestart]_systemVars => RowIsLatestSnapshot'
    BY <1>2 DEF RowIsLatestSnapshot, ShowsLatest, SnapsOf
  <1> QED
    BY <1>1, <1>3, TypeCorrect, PTL DEF SpecRestart

-----------------------------------------------------------------------------
(* The review queue. *)

\* No column has two open entries: what the partial unique index keeps.
OneOpenPerColumn ==
  \A i, j \in DOMAIN review :
    i # j /\ review[i].status = "pending" /\ review[j].status = "pending"
      => <<review[i].model, review[i].field>> # <<review[j].model, review[j].field>>

\* A step leaves the queue alone, flags a column or decides an entry.
LEMMA ReviewStep ==
  ASSUME TypeOK, [NextRestart]_systemVars
  PROVE  \/ UNCHANGED review
         \/ \E m, f, a, b : FlagDiscrepancy(m, f, a, b)
         \/ \E i, status : Decide(i, status) /\ status # "pending"
  <1>1. ASSUME NEW w \in Workers, DecideMulti(w)
        PROVE  UNCHANGED review \/ \E m, f, a, b : FlagDiscrepancy(m, f, a, b)
    BY <1>1, DecideShape, Zenon
  <1>2. ASSUME NEW w \in Workers, Scrape(w) \/ WorkerStep(w)
        PROVE  UNCHANGED review \/ \E m, f, a, b : FlagDiscrepancy(m, f, a, b)
    <2>1. DecideMulti(w) \/ UNCHANGED review
      BY <1>2 DEF WorkerStep, Scrape, ReadMirror, MergeMirror, Sweep, EvictMirror, ResolveSources,
         SkipGroup, LookupExisting, Gate, PersistPending, RefreshTTL, DeletePending, ReadCurrent,
         PublishPrice, PublishEvent, MarkVerified, storeVars
    <2> QED
      BY <1>1, <2>1
  <1>3. CASE Operator
    <2>1. ASSUME NEW i, Reject(i) PROVE \E j, status : Decide(j, status) /\ status # "pending"
      <3>1. Decide(i, "overridden")
        BY <2>1 DEF Reject
      <3> QED
        BY <3>1
    <2>2. ASSUME NEW a, CommitApprove(a)
          PROVE  \E j, status : Decide(j, status) /\ status # "pending"
      <3>1. Decide(a.entry, "resolved")
        BY <2>2 DEF CommitApprove
      <3> QED
        BY <3>1
    <2>3. \/ \E i \in DOMAIN review : Reject(i)
          \/ \E a \in approving : CommitApprove(a)
          \/ UNCHANGED review
      BY <1>3 DEF Operator, BeginApprove, RollbackApprove, storeVars
    <2> QED
      BY <2>1, <2>2, <2>3
  <1>4. CASE Tick \/ Restart \/ UNCHANGED systemVars
    BY <1>4 DEF Tick, Restart, systemVars, vars, storeVars
  <1> QED
    BY <1>2, <1>3, <1>4 DEF NextRestart, Next, ReconcilerNext

\* The queue before and after a step: entries keep their content, a decided one its
\* status too, and the index still holds.
QueueStep ==
  /\ OneOpenPerColumn'
  /\ \A i \in DOMAIN review :
       /\ i \in DOMAIN review'
       /\ [review'[i] EXCEPT !.status = review[i].status] = review[i]
       /\ review[i].status # "pending" => review'[i] = review[i]

\* Every step is such a step.
LEMMA QueueKept ==
  ASSUME TypeOK, OneOpenPerColumn, [NextRestart]_systemVars
  PROVE  QueueStep
  <1>t. review \in Seq(ReviewEntry)
    BY DEF TypeOK, WorkerTypeOK, StoreTypeOK
  <1>0. ASSUME NEW r \in ReviewEntry PROVE [r EXCEPT !.status = r.status] = r
    BY <1>0 DEF ReviewEntry
  <1>1. CASE UNCHANGED review
    BY <1>t, <1>0, <1>1 DEF QueueStep, OneOpenPerColumn
  <1>2. ASSUME NEW m, NEW f, NEW a, NEW b, FlagDiscrepancy(m, f, a, b), ~UNCHANGED review
        PROVE  QueueStep
    <2>1. PICK r : /\ r.model = m /\ r.field = f /\ ~PendingReview(m, f)
                   /\ review' = Append(review, r)
      <3> DEFINE r == [model |-> m, field |-> f, sourceA |-> a.source, sourceB |-> b.source,
                       valueA |-> Stored(a.value), valueB |-> Stored(b.value), status |-> "pending"]
      <3>1. ~PendingReview(m, f) /\ review' = Append(review, r)
        BY <1>2 DEF FlagDiscrepancy
      <3>2. r.model = m /\ r.field = f
        OBVIOUS
      <3> HIDE DEF r
      <3> QED
        BY <3>1, <3>2
    <2>2. /\ Len(review) \in Nat /\ DOMAIN review = 1..Len(review)
          /\ DOMAIN review' = 1..(Len(review) + 1) /\ review'[Len(review) + 1] = r
          /\ \A i \in DOMAIN review : review'[i] = review[i]
      BY <1>t, <2>1
    <2>3. \A i \in DOMAIN review :
            review[i].status = "pending" => <<review[i].model, review[i].field>> # <<m, f>>
      BY <2>1 DEF PendingReview
    <2>4. OneOpenPerColumn'
      <3> SUFFICES ASSUME NEW i \in DOMAIN review', NEW j \in DOMAIN review', i # j,
                          review'[i].status = "pending", review'[j].status = "pending"
                   PROVE  <<review'[i].model, review'[i].field>> # <<review'[j].model, review'[j].field>>
        BY DEF OneOpenPerColumn
      <3>1. CASE i \in DOMAIN review /\ j \in DOMAIN review
        BY <2>2, <3>1 DEF OneOpenPerColumn
      <3>2. CASE i = Len(review) + 1 /\ j \in DOMAIN review
        BY <2>1, <2>2, <2>3, <3>2
      <3>3. CASE i \in DOMAIN review /\ j = Len(review) + 1
        BY <2>1, <2>2, <2>3, <3>3
      <3> QED
        BY <2>2, <3>1, <3>2, <3>3
    <2>5. ASSUME NEW i \in DOMAIN review
          PROVE  /\ i \in DOMAIN review' /\ review'[i] = review[i]
                 /\ [review'[i] EXCEPT !.status = review[i].status] = review[i]
      BY <1>t, <1>0, <2>2, <2>5
    <2> QED
      BY <2>4, <2>5 DEF QueueStep
  <1>3. ASSUME NEW i, NEW status, Decide(i, status), status # "pending" PROVE QueueStep
    <2>1. /\ i \in DOMAIN review /\ review[i].status = "pending"
          /\ review' = [review EXCEPT ![i].status = status]
      BY <1>3 DEF Decide, Pending
    <2>2. /\ DOMAIN review' = DOMAIN review
          /\ review'[i] = [review[i] EXCEPT !.status = status]
          /\ \A j \in DOMAIN review : j # i => review'[j] = review[j]
      BY <1>t, <2>1
    <2>3. review[i] \in ReviewEntry
      BY <1>t, <2>1
    <2>4. review'[i].status = status
          /\ [review'[i] EXCEPT !.status = review[i].status] = review[i]
      BY <2>2, <2>3 DEF ReviewEntry
    <2>5. OneOpenPerColumn'
      <3>1. ASSUME NEW j \in DOMAIN review', review'[j].status = "pending"
            PROVE  j \in DOMAIN review /\ review'[j] = review[j]
        BY <1>3, <2>2, <2>4, <3>1
      <3> QED
        BY <3>1 DEF OneOpenPerColumn
    <2>6. ASSUME NEW j \in DOMAIN review
          PROVE  /\ j \in DOMAIN review'
                 /\ [review'[j] EXCEPT !.status = review[j].status] = review[j]
                 /\ review[j].status # "pending" => review'[j] = review[j]
      <3>1. review[j] \in ReviewEntry
        BY <1>t, <2>6
      <3> QED
        BY <1>0, <2>1, <2>2, <2>4, <3>1
    <2> QED
      BY <2>5, <2>6 DEF QueueStep
  <1> QED
    BY <1>1, <1>2, <1>3, ReviewStep

\* A review entry is decided once and never rewritten, and no column has two open
\* entries, whatever two operators and the worker do at the same time.
THEOREM EntriesDecidedOnce == SpecRestart => ReviewDecidedOnce
  <1>1. Init => OneOpenPerColumn
    BY DEF Init, ReconcilerInit, StoreInit, OneOpenPerColumn
  <1>2. TypeOK /\ OneOpenPerColumn /\ [NextRestart]_systemVars => QueueStep
    BY QueueKept
  <1>3. QueueStep => OneOpenPerColumn'
    BY DEF QueueStep
  <1>4. QueueStep =>
          [/\ \A i \in DOMAIN review :
                /\ i \in DOMAIN review'
                /\ [review'[i] EXCEPT !.status = review[i].status] = review[i]
                /\ review[i].status # "pending" => review'[i] = review[i]
           /\ \A i, j \in DOMAIN review' :
                /\ i # j
                /\ review'[i].status = "pending" /\ review'[j].status = "pending"
                => <<review'[i].model, review'[i].field>> # <<review'[j].model, review'[j].field>>]_review
    BY DEF QueueStep, OneOpenPerColumn
  <1> QED
    BY <1>1, <1>2, <1>3, <1>4, TypeCorrect, PTL DEF SpecRestart, ReviewDecidedOnce

-----------------------------------------------------------------------------
(* Disagreement is flagged. Wider compares fractions by cross multiplication: *)
(* the widest pair of a group exists and is discrepant if any pair is.        *)

\* Multiplication is monotonic.
LEMMA TimesMonotonic ==
  ASSUME NEW a \in Nat, NEW b \in Nat, NEW c \in Nat, a <= b
  PROVE  a * c <= b * c
  OBVIOUS

\* Strictly so with a positive factor.
LEMMA TimesStrict ==
  ASSUME NEW a \in Nat, NEW b \in Nat, NEW c \in Nat, a < b, c > 0
  PROVE  a * c < b * c
  OBVIOUS

\* A common factor can be left out.
LEMMA TimesCancel ==
  ASSUME NEW a \in Nat, NEW b \in Nat, NEW c \in Nat, a * c < b * c
  PROVE  a < b
  <1>1. CASE b <= a
    <2>1. b * c <= a * c
      BY <1>1, TimesMonotonic
    <2>2. a * c \in Nat /\ b * c \in Nat
      OBVIOUS
    <2> QED
      BY <2>1, <2>2
  <1> QED
    BY <1>1

\* c/d <= a/b and e/f < c/d give e/f < a/b.
LEMMA Fractions ==
  ASSUME NEW a \in Nat, NEW b \in Nat, NEW c \in Nat, NEW d \in Nat, NEW e \in Nat, NEW f \in Nat,
         b > 0, d > 0, f > 0, c * b <= a * d, c * f > e * d
  PROVE  a * f > e * b
  <1>1. (c * b) * f <= (a * d) * f
    BY TimesMonotonic
  <1>2. (e * d) * b < (c * f) * b
    BY TimesStrict
  <1>3. (c * f) * b = (c * b) * f /\ (e * d) * b = (e * b) * d /\ (a * d) * f = (a * f) * d
    OBVIOUS
  <1>4. (e * b) * d < (a * f) * d
    <2>1. (c * b) * f \in Nat /\ (e * b) * d \in Nat /\ (a * f) * d \in Nat
      OBVIOUS
    <2> QED
      BY <1>1, <1>2, <1>3, <2>1
  <1> QED
    BY <1>4, TimesCancel

PairGap(p) == Gap(p[1].value, p[2].value)

PairHi(p) == Hi(p[1].value, p[2].value)

\* The fraction of a pair has a positive denominator.
LEMMA PairType ==
  ASSUME NEW G \in SUBSET Diffs, NEW p \in OrderedPairs(G)
  PROVE  /\ p[1] \in G /\ p[2] \in G
         /\ PairGap(p) \in Nat /\ PairHi(p) \in Nat /\ PairHi(p) > 0
         /\ Rank[p[1].source] \in Nat /\ Rank[p[2].source] \in Nat
         /\ p[1].source \in Sources /\ p[2].source \in Sources
  <1>1. p \in G \X G /\ Hi(p[1].value, p[2].value) > 0
    BY DEF OrderedPairs
  <1>2. p[1] \in Diffs /\ p[2] \in Diffs
    BY <1>1
  <1>3. /\ p[1].value \in Nat /\ p[2].value \in Nat
        /\ p[1].source \in Sources /\ p[2].source \in Sources
    BY <1>2, ValuesNat DEF Diffs
  <1>4. PairGap(p) \in Nat /\ PairHi(p) \in Nat /\ PairHi(p) > 0
    <2>1. \A a, b \in Nat : Gap(a, b) \in Nat /\ Hi(a, b) \in Nat
      BY DEF Gap, Hi
    <2> QED
      BY <1>1, <1>3, <2>1 DEF PairGap, PairHi
  <1>5. Rank[p[1].source] \in Nat /\ Rank[p[2].source] \in Nat
    BY <1>3, ReconcilerAssumption
  <1> QED
    BY <1>1, <1>3, <1>4, <1>5

\* A pair as wide as one that is wider than a third is wider than the third.
LEMMA WiderThird ==
  ASSUME NEW G \in SUBSET Diffs, NEW p \in OrderedPairs(G), NEW q \in OrderedPairs(G),
         NEW r \in OrderedPairs(G), ~Wider(r, p), Wider(r, q)
  PROVE  Wider(p, q)
  <1>1. /\ PairGap(p) \in Nat /\ PairHi(p) \in Nat /\ PairHi(p) > 0
        /\ PairGap(q) \in Nat /\ PairHi(q) \in Nat /\ PairHi(q) > 0
        /\ PairGap(r) \in Nat /\ PairHi(r) \in Nat /\ PairHi(r) > 0
    BY PairType
  <1>2. PairGap(r) * PairHi(q) > PairGap(q) * PairHi(r)
    BY DEF Wider, PairGap, PairHi
  <1>3. ~(PairGap(r) * PairHi(p) > PairGap(p) * PairHi(r))
    BY DEF Wider, PairGap, PairHi
  <1>4. PairGap(r) * PairHi(p) <= PairGap(p) * PairHi(r)
    <2>1. \A x, y \in Nat : x * y \in Nat
      OBVIOUS
    <2>2. PairGap(r) * PairHi(p) \in Nat /\ PairGap(p) * PairHi(r) \in Nat
      BY <1>1, <2>1
    <2> QED
      BY <1>3, <2>2
  <1>5. PairGap(p) * PairHi(q) > PairGap(q) * PairHi(p)
    BY <1>1, <1>2, <1>4, Fractions
  <1> QED
    BY <1>5 DEF Wider, PairGap, PairHi

\* No pair is wider than one that it is less wide than, nor than itself.
LEMMA WiderStrict ==
  ASSUME NEW G \in SUBSET Diffs, NEW p \in OrderedPairs(G), NEW q \in OrderedPairs(G)
  PROVE  ~(Wider(p, q) /\ Wider(q, p))
  <1>1. /\ PairGap(p) \in Nat /\ PairHi(p) \in Nat /\ PairGap(q) \in Nat /\ PairHi(q) \in Nat
    BY PairType
  <1>2. \A x, y \in Nat : x * y \in Nat
    OBVIOUS
  <1>3. PairGap(p) * PairHi(q) \in Nat /\ PairGap(q) * PairHi(p) \in Nat
    BY <1>1, <1>2
  <1>4. ~(/\ PairGap(p) * PairHi(q) > PairGap(q) * PairHi(p)
          /\ PairGap(q) * PairHi(p) > PairGap(p) * PairHi(q))
    BY <1>3
  <1> QED
    BY <1>4 DEF Wider, PairGap, PairHi

\* A set of naturals has a smallest member.
LEMMA Smallest ==
  ASSUME NEW T \in SUBSET Nat, T # {}
  PROVE  \E x \in T : \A y \in T : x <= y
  <1>1. PICK x \in T : \A y \in T : ~(<<y, x>> \in OpToRel(<, Nat))
    BY NatLessThanWellFounded, WFMin
  <1>2. ASSUME NEW y \in T PROVE x <= y
    <2>1. ~(y < x)
      BY <1>1 DEF OpToRel
    <2> QED
      BY <2>1
  <1> QED
    BY <1>2

\* A finite group has a pair that none is wider than: the one with the fewest wider pairs.
LEMMA WidestExists ==
  ASSUME NEW G \in SUBSET Diffs, IsFiniteSet(G), OrderedPairs(G) # {}
  PROVE  \E p \in OrderedPairs(G) : \A q \in OrderedPairs(G) : ~Wider(q, p)
  <1> DEFINE P == OrderedPairs(G)
             Above(p) == {q \in P : Wider(q, p)}
             Ranks == {Cardinality(Above(p)) : p \in P}
  <1>1. IsFiniteSet(P)
    <2>1. IsFiniteSet(G \X G)
      BY FS_Product
    <2>2. P \in SUBSET (G \X G)
      BY DEF OrderedPairs
    <2> QED
      BY <2>1, <2>2, FS_Subset
  <1>2. ASSUME NEW p \in P PROVE IsFiniteSet(Above(p)) /\ Cardinality(Above(p)) \in Nat
    <2>1. Above(p) \in SUBSET P
      OBVIOUS
    <2>2. IsFiniteSet(Above(p))
      BY <1>1, <2>1, FS_Subset
    <2> QED
      BY <2>2, FS_CardinalityType
  <1>3. PICK n \in Ranks : \A k \in Ranks : n <= k
    <2>1. Ranks \in SUBSET Nat /\ Ranks # {}
      BY <1>2
    <2> HIDE DEF Ranks
    <2> QED
      BY <2>1, Smallest
  <1>4. PICK p \in P : n = Cardinality(Above(p))
    OBVIOUS
  <1>5. ASSUME NEW q \in P, Wider(q, p) PROVE FALSE
    <2>1. Above(q) \in SUBSET Above(p)
      <3>1. ASSUME NEW r \in P, Wider(r, q) PROVE Wider(r, p)
        <4>1. ~Wider(q, r)
          BY <3>1, WiderStrict
        <4> QED
          BY <1>5, <4>1, WiderThird
      <3> QED
        BY <3>1
    <2>2. q \in Above(p) /\ q \notin Above(q)
      BY <1>5, WiderStrict
    <2>3. Above(q) # Above(p)
      BY <2>2
    <2>4. Cardinality(Above(q)) <= Cardinality(Above(p)) /\ Cardinality(Above(q)) # Cardinality(Above(p))
      <3>1. IsFiniteSet(Above(p))
        BY <1>2
      <3> HIDE DEF Above
      <3> QED
        BY <2>1, <2>3, <3>1, FS_Subset
    <2>5. Cardinality(Above(p)) <= Cardinality(Above(q))
      BY <1>3, <1>4
    <2>6. Cardinality(Above(p)) \in Nat /\ Cardinality(Above(q)) \in Nat
      BY <1>2
    <2> HIDE DEF Above
    <2> QED
      BY <2>4, <2>5, <2>6
  <1> QED
    BY <1>5

\* The pair the code settles on: the widest, the earliest of several.
LEMMA WorstExists ==
  ASSUME NEW G \in SUBSET Diffs, IsFiniteSet(G), OrderedPairs(G) # {}
  PROVE  WorstPair(G) # {}
  <1> DEFINE P == OrderedPairs(G)
             T == {p \in P : \A q \in P : ~Wider(q, p)}
             A == {Rank[p[1].source] : p \in T}
  <1>1. T # {}
    BY WidestExists
  <1>2. PICK a \in A : \A x \in A : a <= x
    <2>1. A \in SUBSET Nat /\ A # {}
      BY <1>1, PairType
    <2> HIDE DEF A
    <2> QED
      BY <2>1, Smallest
  <1> DEFINE U == {p \in T : Rank[p[1].source] = a}
             B == {Rank[p[2].source] : p \in U}
  <1>3. PICK b \in B : \A x \in B : b <= x
    <2>1. B \in SUBSET Nat /\ B # {}
      BY <1>2, PairType
    <2> HIDE DEF B
    <2> QED
      BY <2>1, Smallest
  <1>4. PICK p \in U : b = Rank[p[2].source]
    OBVIOUS
  <1>5. p \in T /\ p \in P /\ Rank[p[1].source] = a
    BY <1>4
  <1>6. ASSUME NEW q \in P PROVE Wider(p, q) \/ (~Wider(q, p) /\ Earlier(p, q))
    <2>1. CASE q \in T
      <3>1. ~Wider(q, p)
        BY <1>5
      <3>2. a <= Rank[q[1].source]
        BY <1>2, <2>1
      <3>3. a \in Nat /\ Rank[q[1].source] \in Nat
        BY <1>5, PairType
      <3>4. CASE Rank[q[1].source] = a
        <4>1. p[1].source = q[1].source
          <5>1. p[1].source \in Sources /\ q[1].source \in Sources
            BY <1>5, PairType
          <5> QED
            BY <1>5, <3>4, <5>1, ReconcilerAssumption
        <4>2. b <= Rank[q[2].source]
          BY <1>3, <2>1, <3>4
        <4> QED
          BY <1>4, <3>1, <4>1, <4>2 DEF Earlier
      <3>5. CASE Rank[q[1].source] # a
        <4>1. Rank[p[1].source] < Rank[q[1].source]
          BY <1>5, <3>2, <3>3, <3>5
        <4> QED
          BY <3>1, <4>1 DEF Earlier
      <3> QED
        BY <3>4, <3>5
    <2>2. CASE q \notin T
      <3>1. PICK r \in P : Wider(r, q)
        BY <2>2
      <3>2. ~Wider(r, p)
        BY <1>5
      <3> QED
        BY <1>5, <3>1, <3>2, WiderThird
    <2> QED
      BY <2>1, <2>2
  <1> QED
    BY <1>5, <1>6 DEF WorstPair

\* If any two of a group differ by more than the threshold, so does the pair that is flagged.
LEMMA DisagreementFlags ==
  ASSUME NEW G \in SUBSET Diffs, IsFiniteSet(G), \A x, y \in G : x.source = y.source => x = y,
         NEW d \in G, NEW e \in G, Discrepant(d.value, e.value)
  PROVE  Flags(G)
  <1>1. /\ d.value \in Nat /\ e.value \in Nat /\ d.source \in Sources /\ e.source \in Sources
        /\ Rank[d.source] \in Nat /\ Rank[e.source] \in Nat
    <2>1. d \in Diffs /\ e \in Diffs
      OBVIOUS
    <2>2. /\ d.value \in Nat /\ e.value \in Nat /\ d.source \in Sources /\ e.source \in Sources
      BY <2>1, ValuesNat DEF Diffs
    <2> QED
      BY <2>2, ReconcilerAssumption
  <1>2. d.value # e.value /\ Hi(d.value, e.value) > 0
    BY <1>1 DEF Discrepant, Gap, Hi
  <1>3. Hi(e.value, d.value) = Hi(d.value, e.value) /\ Gap(e.value, d.value) = Gap(d.value, e.value)
    BY <1>1 DEF Gap, Hi
  <1>4. d.source # e.source
    BY <1>2
  <1>5. Rank[d.source] # Rank[e.source]
    BY <1>1, <1>4, ReconcilerAssumption
  <1>6. PICK q \in OrderedPairs(G) : 20 * PairGap(q) > PairHi(q)
    <2>1. CASE Rank[d.source] < Rank[e.source]
      <3>1. <<d, e>> \in OrderedPairs(G)
        BY <1>2, <2>1 DEF OrderedPairs
      <3> QED
        BY <3>1 DEF PairGap, PairHi, Discrepant
    <2>2. CASE Rank[e.source] < Rank[d.source]
      <3>1. <<e, d>> \in OrderedPairs(G)
        BY <1>2, <1>3, <2>2 DEF OrderedPairs
      <3>2. 20 * Gap(e.value, d.value) > Hi(e.value, d.value)
        BY <1>3 DEF Discrepant
      <3> QED
        BY <3>1, <3>2 DEF PairGap, PairHi
    <2> QED
      BY <1>1, <1>5, <2>1, <2>2
  <1>7. PICK p \in WorstPair(G) : TRUE
    BY <1>6, WorstExists
  <1>8. p \in OrderedPairs(G) /\ ~Wider(q, p)
    <2>1. p \in OrderedPairs(G) /\ (Wider(p, q) \/ ~Wider(q, p))
      BY <1>6, <1>7 DEF WorstPair
    <2> QED
      BY <1>6, <2>1, WiderStrict
  <1>9. /\ PairGap(p) \in Nat /\ PairHi(p) \in Nat /\ PairHi(p) > 0
        /\ PairGap(q) \in Nat /\ PairHi(q) \in Nat /\ PairHi(q) > 0
    BY <1>6, <1>8, PairType
  <1>10. PairGap(q) * PairHi(p) <= PairGap(p) * PairHi(q)
    <2>1. \A x, y \in Nat : x * y \in Nat
      OBVIOUS
    <2>2. PairGap(q) * PairHi(p) \in Nat /\ PairGap(p) * PairHi(q) \in Nat
      BY <1>9, <2>1
    <2>3. ~(PairGap(q) * PairHi(p) > PairGap(p) * PairHi(q))
      BY <1>8 DEF Wider, PairGap, PairHi
    <2> QED
      BY <2>2, <2>3
  <1>11. PairGap(q) * 20 > 1 * PairHi(q)
    BY <1>6, <1>9
  <1>12. PairGap(p) * 20 > 1 * PairHi(p)
    BY <1>9, <1>10, <1>11, Fractions
  <1>13. Discrepant(p[1].value, p[2].value)
    <2>1. 20 * PairGap(p) > PairHi(p)
      BY <1>9, <1>12
    <2> QED
      BY <2>1 DEF PairGap, PairHi, Discrepant
  <1> QED
    BY <1>2, <1>7, <1>13 DEF Flags, AllAgree

\* A scrape has one diff for each source, model and column.
OneDiffPerColumn(D) ==
  \A d, e \in D : d.source = e.source /\ d.model = e.model /\ d.field = e.field => d = e

DiffsInv == \A w \in Workers : OneDiffPerColumn(job[w].diffs)

\* The diffs of one column are finitely many, one for each source.
LEMMA GroupFinite ==
  ASSUME NEW D \in SUBSET Diffs, OneDiffPerColumn(D), NEW g
  PROVE  /\ GroupOf(D, g) \in SUBSET Diffs /\ IsFiniteSet(GroupOf(D, g))
         /\ \A x, y \in GroupOf(D, g) : x.source = y.source => x = y
  <1> DEFINE G == GroupOf(D, g)
             src == [d \in G |-> d.source]
  <1>1. G \in SUBSET D
    BY DEF GroupOf
  <1>2. \A x, y \in G : x.source = y.source => x = y
    BY DEF GroupOf, OneDiffPerColumn
  <1>3. src \in Injection(G, Sources)
    <2>1. \A d \in G : d.source \in Sources
      BY <1>1 DEF Diffs
    <2>2. src \in [G -> Sources]
      BY <2>1
    <2> QED
      BY <1>2, <2>2 DEF Injection, IsInjective
  <1>4. IsFiniteSet(G)
    <2> HIDE DEF G, src
    <2> QED
      BY <1>3, ReconcilerAssumption, FS_Injection
  <1> QED
    BY <1>1, <1>2, <1>4

\* Assignments to other locals of a task leave its diffs and groups alone.
LEMMA DiffsOfJob ==
  ASSUME NEW r \in Job
  PROVE  /\ \A x : [r EXCEPT !.snap = x].diffs = r.diffs
         /\ \A x : [r EXCEPT !.swept = x].diffs = r.diffs
         /\ \A x : [r EXCEPT !.entry = x].diffs = r.diffs
         /\ \A x : [r EXCEPT !.row = x].diffs = r.diffs
         /\ \A x : [r EXCEPT !.wrote = x].diffs = r.diffs
         /\ \A x, y : [r EXCEPT !.via = x, !.conf = y].diffs = r.diffs
         /\ \A x, y : [r EXCEPT !.diffs = x, !.todo = y].diffs = x
         /\ \A x, c, s, b : LET n == [r EXCEPT !.todo = x, !.cur = c, !.sibling = s, !.found = b]
                            IN n.diffs = r.diffs /\ n.todo = x
         /\ \A x, c, s, v, k :
              LET n == [r EXCEPT !.todo = x, !.cur = c, !.sibling = s, !.via = v, !.conf = k]
              IN n.diffs = r.diffs /\ n.todo = x
  BY DEF Job

\* So does the end of a group, but for the groups that are left.
LEMMA EndGroupDiffs ==
  ASSUME job \in [Workers -> Job], NEW w \in Workers, NEW left, EndGroup(w, left)
  PROVE  /\ job'[w].diffs = job[w].diffs /\ job'[w].todo = left
         /\ \A v \in Workers \ {w} : job'[v] = job[v]
  <1>1. job' = [job EXCEPT ![w] = [IdleJob EXCEPT !.listed = job[w].listed,
                                                  !.diffs = job[w].diffs, !.todo = left]]
    BY DEF EndGroup
  <1>2. \A l, d, x : LET n == [IdleJob EXCEPT !.listed = l, !.diffs = d, !.todo = x]
                     IN n.diffs = d /\ n.todo = x
    BY DEF IdleJob
  <1> QED
    BY <1>1, <1>2

\* A single-source group is taken off the list, and only that one.
LEMMA LookupTakes ==
  ASSUME job \in [Workers -> Job], NEW w \in Workers, LookupExisting(w)
  PROVE  \E g \in job[w].todo :
           /\ ~Independent(GroupOf(job[w].diffs, g))
           /\ job'[w].diffs = job[w].diffs /\ job'[w].todo = job[w].todo \ {g}
           /\ \A v \in Workers \ {w} : job'[v] = job[v]
  <1>1. PICK g \in job[w].todo : LET G == GroupOf(job[w].diffs, g) IN
          /\ ~Independent(G)
          /\ \E d \in First(G), sib \in SiblingValues(job[w].diffs, g), found \in BOOLEAN :
               /\ \/ found = Exists(d.model, d.source) /\ UNCHANGED faults
                  \/ found /\ Fault
               /\ job' = [job EXCEPT ![w].todo = @ \ {g}, ![w].cur = d, ![w].sibling = sib,
                                     ![w].found = found]
    BY Zenon DEF LookupExisting
  <1>2. PICK d \in First(GroupOf(job[w].diffs, g)), sib \in SiblingValues(job[w].diffs, g),
             found \in BOOLEAN :
          job' = [job EXCEPT ![w].todo = @ \ {g}, ![w].cur = d, ![w].sibling = sib,
                             ![w].found = found]
    BY <1>1, Zenon
  <1>3. job' = [job EXCEPT ![w] = [job[w] EXCEPT !.todo = job[w].todo \ {g}, !.cur = d,
                                                 !.sibling = sib, !.found = found]]
    BY <1>2
  <1>4. job[w] \in Job
    OBVIOUS
  <1>5. /\ job'[w].diffs = job[w].diffs /\ job'[w].todo = job[w].todo \ {g}
        /\ \A v \in Workers \ {w} : job'[v] = job[v]
    BY <1>3, <1>4, DiffsOfJob
  <1>6. ~Independent(GroupOf(job[w].diffs, g))
    BY <1>1, Zenon
  <1> QED
    BY <1>5, <1>6, Zenon

\* So is a multi-source group, and a group that flags leaves its entry unless the
\* INSERT fails.
LEMMA DecideTakes ==
  ASSUME job \in [Workers -> Job], NEW w \in Workers, DecideMulti(w)
  PROVE  \E g \in job[w].todo :
           /\ \/ ~Flags(GroupOf(job[w].diffs, g))
              \/ \E a, b : FlagDiscrepancy(g[1], g[2], a, b)
              \/ Fault
           /\ job'[w].diffs = job[w].diffs /\ job'[w].todo = job[w].todo \ {g}
           /\ \A v \in Workers \ {w} : job'[v] = job[v]
  <1>0. PICK g \in job[w].todo : LET G == GroupOf(job[w].diffs, g) IN
          /\ Independent(G)
          /\ \/ ~Flags(G) /\ UNCHANGED <<review, faults>>
             \/ /\ Flags(G)
                /\ \E p \in WorstPair(G) : FlagDiscrepancy(g[1], g[2], p[1], p[2])
                /\ UNCHANGED faults
             \/ Flags(G) /\ Fault /\ UNCHANGED review
          /\ \/ Verdict(G) = {} /\ EndGroup(w, job[w].todo \ {g})
             \/ \E v \in Verdict(G), sib \in SiblingValues(job[w].diffs, g) :
                  /\ job' = [job EXCEPT ![w].todo = @ \ {g}, ![w].cur = v.diff, ![w].sibling = sib,
                                        ![w].via = "agree", ![w].conf = v.conf]
                  /\ Goto(w, "read")
    BY Zenon DEF DecideMulti
  <1> DEFINE G == GroupOf(job[w].diffs, g)
  <1>1. /\ \/ ~Flags(G)
           \/ \E p \in WorstPair(G) : FlagDiscrepancy(g[1], g[2], p[1], p[2])
           \/ Fault
        /\ \/ EndGroup(w, job[w].todo \ {g})
           \/ \E v \in Verdict(G), sib \in SiblingValues(job[w].diffs, g) :
                job' = [job EXCEPT ![w].todo = @ \ {g}, ![w].cur = v.diff, ![w].sibling = sib,
                                   ![w].via = "agree", ![w].conf = v.conf]
    BY <1>0, Zenon
  <1>2. /\ job'[w].diffs = job[w].diffs /\ job'[w].todo = job[w].todo \ {g}
        /\ \A v \in Workers \ {w} : job'[v] = job[v]
    <2>1. CASE EndGroup(w, job[w].todo \ {g})
      BY <2>1, EndGroupDiffs
    <2>2. ASSUME NEW v \in Verdict(GroupOf(job[w].diffs, g)),
                 NEW sib \in SiblingValues(job[w].diffs, g),
                 job' = [job EXCEPT ![w].todo = @ \ {g}, ![w].cur = v.diff, ![w].sibling = sib,
                                    ![w].via = "agree", ![w].conf = v.conf]
          PROVE  /\ job'[w].diffs = job[w].diffs /\ job'[w].todo = job[w].todo \ {g}
                 /\ \A x \in Workers \ {w} : job'[x] = job[x]
      <3>1. job' = [job EXCEPT ![w] = [job[w] EXCEPT !.todo = job[w].todo \ {g}, !.cur = v.diff,
                                                     !.sibling = sib, !.via = "agree",
                                                     !.conf = v.conf]]
        BY <2>2
      <3>2. job[w] \in Job
        OBVIOUS
      <3> QED
        BY <3>1, <3>2, DiffsOfJob
    <2> QED
      BY <1>1, <2>1, <2>2, Zenon
  <1>3. \/ ~Flags(GroupOf(job[w].diffs, g))
        \/ \E a, b : FlagDiscrepancy(g[1], g[2], a, b)
        \/ Fault
    BY <1>1, Zenon
  <1> QED
    BY <1>2, <1>3, Zenon

\* A task loses diffs and gains none.
LEMMA TaskDiffs ==
  ASSUME WorkerTypeOK, NEW w \in Workers, WorkerStep(w)
  PROVE  /\ job'[w].diffs \subseteq job[w].diffs
         /\ \A v \in Workers \ {w} : job'[v] = job[v]
  <1>0. job \in [Workers -> Job] /\ job[w] \in Job
    BY DEF WorkerTypeOK
  <1>1. ASSUME NEW n, job' = [job EXCEPT ![w] = n], n.diffs \subseteq job[w].diffs
        PROVE  /\ job'[w].diffs \subseteq job[w].diffs
               /\ \A v \in Workers \ {w} : job'[v] = job[v]
    BY <1>0, <1>1
  <1>2. ASSUME UNCHANGED job
        PROVE  /\ job'[w].diffs \subseteq job[w].diffs
               /\ \A v \in Workers \ {w} : job'[v] = job[v]
    BY <1>2
  <1>3. ASSUME NEW left, EndGroup(w, left)
        PROVE  /\ job'[w].diffs \subseteq job[w].diffs
               /\ \A v \in Workers \ {w} : job'[v] = job[v]
    BY <1>0, <1>3, EndGroupDiffs
  <1>4. CASE ReadMirror(w)
    <2>1. UNCHANGED job \/ job' = [job EXCEPT ![w] = [job[w] EXCEPT !.snap = mirror]]
      BY <1>0, <1>4 DEF ReadMirror
    <2>2. CASE job' = [job EXCEPT ![w] = [job[w] EXCEPT !.snap = mirror]]
      BY <1>0, <1>1, <2>2, DiffsOfJob
    <2> QED
      BY <1>2, <2>1, <2>2
  <1>5. CASE MergeMirror(w)
    <2>1. job' = [job EXCEPT ![w] = [job[w] EXCEPT !.snap = EmptyMap]]
      BY <1>0, <1>5 DEF MergeMirror
    <2> QED
      BY <1>0, <1>1, <2>1, DiffsOfJob
  <1>6. CASE Sweep(w)
    <2>1. \E x : job' = [job EXCEPT ![w] = [job[w] EXCEPT !.swept = x]]
      BY <1>0, <1>6 DEF Sweep
    <2> QED
      BY <1>0, <1>1, <2>1, DiffsOfJob
  <1>7. CASE EvictMirror(w)
    <2>1. job' = [job EXCEPT ![w] = [job[w] EXCEPT !.swept = {}]]
      BY <1>0, <1>7 DEF EvictMirror
    <2> QED
      BY <1>0, <1>1, <2>1, DiffsOfJob
  <1>8. CASE ResolveSources(w)
    <2>1. ASSUME NEW s, job' = [job EXCEPT ![w].diffs = Without(job[w].diffs, s),
                                           ![w].todo = Groups(Without(job[w].diffs, s))]
          PROVE  /\ job'[w].diffs \subseteq job[w].diffs
                 /\ \A v \in Workers \ {w} : job'[v] = job[v]
      <3> DEFINE D == Without(job[w].diffs, s)
      <3>1. job' = [job EXCEPT ![w] = [job[w] EXCEPT !.diffs = D, !.todo = Groups(D)]]
        BY <1>0, <2>1
      <3>2. D \subseteq job[w].diffs
        BY DEF Without
      <3> HIDE DEF D
      <3> QED
        BY <1>0, <1>1, <3>1, <3>2, DiffsOfJob
    <2> QED
      BY <1>2, <1>8, <2>1 DEF ResolveSources
  <1>9. CASE SkipGroup(w)
    BY <1>3, <1>9 DEF SkipGroup
  <1>10. CASE LookupExisting(w)
    BY <1>0, <1>10, LookupTakes
  <1>11. CASE DecideMulti(w)
    BY <1>0, <1>11, DecideTakes
  <1>12. CASE Gate(w)
    <2>1. \/ job' = [job EXCEPT ![w] = [job[w] EXCEPT !.via = "first", !.conf = "low"]]
          \/ job' = [job EXCEPT ![w] = [job[w] EXCEPT !.via = "confirm", !.conf = "medium"]]
          \/ \E x : job' = [job EXCEPT ![w] = [job[w] EXCEPT !.entry = x]]
      BY <1>0, <1>12 DEF Gate
    <2>2. ASSUME NEW x, NEW y, job' = [job EXCEPT ![w] = [job[w] EXCEPT !.via = x, !.conf = y]]
          PROVE  /\ job'[w].diffs \subseteq job[w].diffs
                 /\ \A v \in Workers \ {w} : job'[v] = job[v]
      BY <1>0, <1>1, <2>2, DiffsOfJob
    <2>3. ASSUME NEW x, job' = [job EXCEPT ![w] = [job[w] EXCEPT !.entry = x]]
          PROVE  /\ job'[w].diffs \subseteq job[w].diffs
                 /\ \A v \in Workers \ {w} : job'[v] = job[v]
      BY <1>0, <1>1, <2>3, DiffsOfJob
    <2> QED
      BY <2>1, <2>2, <2>3
  <1>13. CASE PersistPending(w)
    BY <1>2, <1>3, <1>13 DEF PersistPending
  <1>19. CASE RefreshTTL(w)
    BY <1>3, <1>19 DEF RefreshTTL
  <1>14. CASE DeletePending(w)
    BY <1>2, <1>14 DEF DeletePending
  <1>15. CASE ReadCurrent(w)
    <2>1. \/ \E x : job' = [job EXCEPT ![w] = [job[w] EXCEPT !.row = x]]
          \/ EndGroup(w, job[w].todo)
      BY <1>0, <1>15 DEF ReadCurrent
    <2>2. ASSUME NEW x, job' = [job EXCEPT ![w] = [job[w] EXCEPT !.row = x]]
          PROVE  /\ job'[w].diffs \subseteq job[w].diffs
                 /\ \A v \in Workers \ {w} : job'[v] = job[v]
      BY <1>0, <1>1, <2>2, DiffsOfJob
    <2> QED
      BY <1>3, <2>1, <2>2
  <1>16. CASE PublishPrice(w)
    <2>1. \/ job' = [job EXCEPT ![w] = [job[w] EXCEPT !.wrote = Len(history) + 1]]
          \/ EndGroup(w, job[w].todo)
      BY <1>0, <1>16 DEF PublishPrice
    <2>2. CASE job' = [job EXCEPT ![w] = [job[w] EXCEPT !.wrote = Len(history) + 1]]
      BY <1>0, <1>1, <2>2, DiffsOfJob
    <2> QED
      BY <1>3, <2>1, <2>2
  <1>17. CASE PublishEvent(w)
    BY <1>3, <1>17 DEF PublishEvent
  <1>18. CASE MarkVerified(w)
    <2>1. job' = [job EXCEPT ![w] = IdleJob]
      BY <1>18 DEF MarkVerified
    <2>2. IdleJob.diffs = {}
      BY DEF IdleJob
    <2> QED
      BY <1>1, <2>1, <2>2
  <1> QED
    BY <1>4, <1>5, <1>6, <1>7, <1>8, <1>9, <1>10, <1>11, <1>12, <1>13, <1>14, <1>15, <1>16, <1>17, <1>18, <1>19
    DEF WorkerStep

\* A scrape reads one value per source, model and column.
LEMMA DiffsStep ==
  ASSUME WorkerTypeOK, DiffsInv, [Next \/ Restart]_vars
  PROVE  DiffsInv'
  <1>1. ASSUME NEW w \in Workers, WorkerStep(w) PROVE DiffsInv'
    BY <1>1, TaskDiffs DEF DiffsInv, OneDiffPerColumn
  <1>2. ASSUME NEW w \in Workers, Scrape(w) PROVE DiffsInv'
    <2>1. PICK listed, scraped :
            job' = [job EXCEPT ![w] = [IdleJob EXCEPT !.listed = listed, !.diffs = DiffOf(scraped),
                                                      !.todo = Groups(DiffOf(scraped))]]
      BY <1>2 DEF Scrape
    <2>2. \A l, d, x : [IdleJob EXCEPT !.listed = l, !.diffs = d, !.todo = x].diffs = d
      BY DEF IdleJob
    <2>3. job'[w].diffs = DiffOf(scraped) /\ \A v \in Workers \ {w} : job'[v] = job[v]
      BY <2>1, <2>2 DEF WorkerTypeOK
    <2>4. OneDiffPerColumn(DiffOf(scraped))
      <3>1. ASSUME NEW d \in Diffs, NEW e \in Diffs, d.source = e.source, d.model = e.model,
                   d.field = e.field, d.value = e.value
            PROVE  d = e
        BY <3>1 DEF Diffs
      <3> QED
        BY <3>1 DEF OneDiffPerColumn, DiffOf
    <2> QED
      BY <2>3, <2>4 DEF DiffsInv
  <1>3. CASE Restart
    <2>1. job' = [w \in Workers |-> IdleJob]
      BY <1>3 DEF Restart
    <2>2. IdleJob.diffs = {}
      BY DEF IdleJob
    <2> QED
      BY <2>1, <2>2 DEF DiffsInv, OneDiffPerColumn
  <1>4. CASE Operator \/ Tick \/ UNCHANGED vars
    <2>1. UNCHANGED job
      BY <1>4 DEF Operator, Tick, vars
    <2> QED
      BY <2>1 DEF DiffsInv
  <1> QED
    BY <1>1, <1>2, <1>3, <1>4 DEF Next, ReconcilerNext

\* What the INSERT of FlagDiscrepancy leaves behind: an open entry for the column.
LEMMA FlagLeavesEntry ==
  ASSUME review \in Seq(ReviewEntry), NEW m, NEW f, NEW a, NEW b, FlagDiscrepancy(m, f, a, b)
  PROVE  PendingReview(m, f)'
  <1>1. CASE PendingReview(m, f)
    <2>1. review' = review
      BY <1>1 DEF FlagDiscrepancy
    <2> QED
      BY <1>1, <2>1 DEF PendingReview
  <1>2. CASE ~PendingReview(m, f)
    <2> DEFINE r == [model |-> m, field |-> f, sourceA |-> a.source, sourceB |-> b.source,
                     valueA |-> Stored(a.value), valueB |-> Stored(b.value), status |-> "pending"]
    <2>1. review' = Append(review, r)
      BY <1>2 DEF FlagDiscrepancy
    <2>2. r.model = m /\ r.field = f /\ r.status = "pending"
      OBVIOUS
    <2> HIDE DEF r
    <2>3. Len(review) + 1 \in DOMAIN review' /\ review'[Len(review) + 1] = r
      BY <2>1
    <2> QED
      BY <2>2, <2>3 DEF PendingReview
  <1> QED
    BY <1>1, <1>2

\* A group that disagrees is in the queue once its task has taken it.
LEMMA DisagreementStep ==
  ASSUME WorkerTypeOK, DiffsInv, [Next]_vars, NEW w \in Workers, pc[w] = "group",
         NEW g \in job[w].todo, g \notin job'[w].todo, faults' = faults,
         Independent(GroupOf(job[w].diffs, g)),
         NEW d \in GroupOf(job[w].diffs, g), NEW e \in GroupOf(job[w].diffs, g),
         Discrepant(d.value, e.value)
  PROVE  PendingReview(g[1], g[2])'
  <1>0. job \in [Workers -> Job] /\ faults \in Nat /\ review \in Seq(ReviewEntry)
    BY DEF WorkerTypeOK, StoreTypeOK
  <1>1. ~Fault
    BY <1>0 DEF Fault
  <1>2. job'[w] # job[w]
    OBVIOUS
  <1>3. Flags(GroupOf(job[w].diffs, g))
    <2>1. job[w].diffs \in SUBSET Diffs /\ OneDiffPerColumn(job[w].diffs)
      BY <1>0 DEF DiffsInv, Job, DiffSets
    <2> QED
      BY <2>1, GroupFinite, DisagreementFlags
  <1>4. WorkerStep(w)
    <2>1. ASSUME NEW v \in Workers, WorkerStep(v) PROVE v = w
      BY <1>2, <2>1, TaskDiffs
    <2>2. ASSUME NEW v \in Workers, Scrape(v) PROVE FALSE
      <3>1. v # w
        BY <2>2 DEF Scrape
      <3>2. \E n : job' = [job EXCEPT ![v] = n]
        BY <2>2 DEF Scrape
      <3> QED
        BY <1>0, <1>2, <3>1, <3>2
    <2>3. CASE Operator \/ Tick \/ UNCHANGED vars
      <3>1. UNCHANGED job
        BY <2>3 DEF Operator, Tick, vars
      <3> QED
        BY <1>2, <3>1
    <2> QED
      BY <2>1, <2>2, <2>3 DEF Next, ReconcilerNext
  <1>5. LookupExisting(w) \/ DecideMulti(w)
    <2>1. ~SkipGroup(w)
      BY <1>1 DEF SkipGroup
    <2>2. /\ ~ReadMirror(w) /\ ~MergeMirror(w) /\ ~Sweep(w) /\ ~EvictMirror(w)
          /\ ~ResolveSources(w) /\ ~Gate(w) /\ ~PersistPending(w) /\ ~RefreshTTL(w)
          /\ ~DeletePending(w)
      BY DEF ReadMirror, MergeMirror, Sweep, EvictMirror, ResolveSources, Gate, PersistPending,
             RefreshTTL, DeletePending
    <2>3. /\ ~ReadCurrent(w) /\ ~PublishPrice(w) /\ ~PublishEvent(w) /\ ~MarkVerified(w)
      BY DEF ReadCurrent, PublishPrice, PublishEvent, MarkVerified
    <2> QED
      BY <1>4, <2>1, <2>2, <2>3 DEF WorkerStep
  <1>6. ~LookupExisting(w)
    <2> SUFFICES ASSUME LookupExisting(w) PROVE FALSE
      OBVIOUS
    <2>1. PICK h \in job[w].todo : /\ ~Independent(GroupOf(job[w].diffs, h))
                                  /\ job'[w].todo = job[w].todo \ {h}
      BY <1>0, LookupTakes
    <2> QED
      BY <2>1
  <1>7. PICK h \in job[w].todo : /\ \/ ~Flags(GroupOf(job[w].diffs, h))
                                   \/ \E a, b : FlagDiscrepancy(h[1], h[2], a, b)
                                   \/ Fault
                                /\ job'[w].todo = job[w].todo \ {h}
    BY <1>0, <1>5, <1>6, DecideTakes
  <1>8. g = h
    BY <1>7
  <1>9. PICK a, b : FlagDiscrepancy(g[1], g[2], a, b)
    BY <1>1, <1>3, <1>7, <1>8
  <1> QED
    BY <1>0, <1>9, FlagLeavesEntry

\* In one life of the worker, a batch in which two independent sources differ by more
\* than 5% is in the review queue as soon as processMultiSource is through with the
\* group, unless the INSERT failed: the pair the code flags is the widest one, so it
\* exceeds the threshold whenever any pair of the group does.
THEOREM DisagreementIsFlagged == Spec => DisagreementFlagged
  <1>1. Init => DiffsInv
    <2>1. IdleJob.diffs = {}
      BY DEF IdleJob
    <2> QED
      BY <2>1 DEF Init, ReconcilerInit, DiffsInv, OneDiffPerColumn
  <1>2. TypeOK /\ DiffsInv /\ [Next]_systemVars => DiffsInv'
    <2>1. [Next]_systemVars => [Next \/ Restart]_vars
      BY DEF systemVars
    <2> QED
      BY <2>1, DiffsStep DEF TypeOK
  <1>3. TypeOK /\ DiffsInv /\ [Next]_systemVars =>
          [\A w \in Workers : pc[w] = "group" =>
             \A g \in job[w].todo \ job'[w].todo : faults' = faults =>
               LET G == GroupOf(job[w].diffs, g) IN
               Independent(G) /\ (\E d, e \in G : Discrepant(d.value, e.value))
                 => PendingReview(g[1], g[2])']_vars
    <2>1. [Next]_systemVars => [Next]_vars
      BY DEF systemVars
    <2> QED
      BY <2>1, DisagreementStep DEF TypeOK
  <1>4. Spec => SpecRestart
    <2>1. [Next]_systemVars => [NextRestart]_systemVars
      BY DEF NextRestart
    <2> QED
      BY <2>1, PTL DEF Spec, SpecRestart
  <1> QED
    BY <1>1, <1>2, <1>3, <1>4, TypeCorrect, PTL DEF Spec, DisagreementFlagged

-----------------------------------------------------------------------------
(* The schedule. A task works on the diffs of the rows it listed, and where   *)
(* no two tasks of a source run at once, a row is in the hands of one task.   *)

\* The locations at which a task holds a diff.
OpenGroup == {"gate", "hset", "expire", "hdel", "read", "write", "event"}

TaskInv ==
  \A w \in Workers :
    /\ \A d \in job[w].diffs : <<d.source, d.model>> \in job[w].listed
    /\ pc[w] \in OpenGroup => <<job[w].cur.source, job[w].cur.model>> \in job[w].listed

\* Assignments to the other locals of a task leave its listing, diffs and diff alone.
LEMMA TaskOfJob ==
  ASSUME NEW r \in Job
  PROVE  /\ \A x : LET n == [r EXCEPT !.snap = x] IN n.listed = r.listed /\ n.cur = r.cur
         /\ \A x : LET n == [r EXCEPT !.swept = x] IN n.listed = r.listed /\ n.cur = r.cur
         /\ \A x : LET n == [r EXCEPT !.entry = x] IN n.listed = r.listed /\ n.cur = r.cur
         /\ \A x : LET n == [r EXCEPT !.row = x] IN n.listed = r.listed /\ n.cur = r.cur
         /\ \A x : LET n == [r EXCEPT !.wrote = x] IN n.listed = r.listed /\ n.cur = r.cur
  BY DEF Job

\* What the steps of a task keep of it.
Steady(w) ==
  /\ OthersIdle(w)
  /\ job'[w].listed = job[w].listed \/ (job'[w] = IdleJob /\ pc'[w] = "idle")
  /\ pc'[w] \in OpenGroup => \/ pc[w] \in OpenGroup /\ job'[w].cur = job[w].cur
                             \/ pc[w] = "group" /\ job'[w].cur \in job[w].diffs

\* A step that only moves on and changes a local.
LEMMA SteadyMove ==
  ASSUME WorkerTypeOK, NEW w \in Workers, NEW n, NEW l,
         job' = [job EXCEPT ![w] = n], pc' = [pc EXCEPT ![w] = l],
         n.listed = job[w].listed,
         l \in OpenGroup => \/ pc[w] \in OpenGroup /\ n.cur = job[w].cur
                            \/ pc[w] = "group" /\ n.cur \in job[w].diffs
  PROVE  Steady(w)
  <1>1. job'[w] = n /\ pc'[w] = l /\ OthersIdle(w)
    BY DEF WorkerTypeOK, OthersIdle
  <1> QED
    BY <1>1 DEF Steady

\* The end of a group.
LEMMA SteadyEnd ==
  ASSUME WorkerTypeOK, NEW w \in Workers, NEW left, EndGroup(w, left)
  PROVE  Steady(w)
  <1> DEFINE n == [IdleJob EXCEPT !.listed = job[w].listed, !.diffs = job[w].diffs, !.todo = left]
             l == IF left = {} THEN "verify" ELSE "group"
  <1>1. job' = [job EXCEPT ![w] = n] /\ pc' = [pc EXCEPT ![w] = l]
    BY DEF EndGroup
  <1>2. n.listed = job[w].listed
    BY DEF IdleJob
  <1>3. l \notin OpenGroup
    BY DEF OpenGroup
  <1> HIDE DEF n, l
  <1> QED
    BY <1>1, <1>2, <1>3, SteadyMove

\* The lookup of the existing price takes one diff out of the task's diffs and works on it.
LEMMA LookupMove ==
  ASSUME WorkerTypeOK, NEW w \in Workers, LookupExisting(w)
  PROVE  \E g, d, sib, found :
           /\ found \in BOOLEAN /\ d \in GroupOf(job[w].diffs, g)
           /\ job' = [job EXCEPT ![w] = [job[w] EXCEPT !.todo = job[w].todo \ {g}, !.cur = d,
                                                       !.sibling = sib, !.found = found]]
           /\ ~found => ~Exists(d.model, d.source)
           /\ pc' = [pc EXCEPT ![w] = "gate"]
  <1>1. PICK g \in job[w].todo : LET G == GroupOf(job[w].diffs, g) IN
          /\ ~Independent(G)
          /\ \E d \in First(G), sib \in SiblingValues(job[w].diffs, g), found \in BOOLEAN :
               /\ \/ found = Exists(d.model, d.source) /\ UNCHANGED faults
                  \/ found /\ Fault
               /\ job' = [job EXCEPT ![w].todo = @ \ {g}, ![w].cur = d, ![w].sibling = sib,
                                     ![w].found = found]
    BY Zenon DEF LookupExisting
  <1>2. PICK d \in First(GroupOf(job[w].diffs, g)), sib \in SiblingValues(job[w].diffs, g),
             found \in BOOLEAN :
          /\ found \/ found = Exists(d.model, d.source)
          /\ job' = [job EXCEPT ![w].todo = @ \ {g}, ![w].cur = d, ![w].sibling = sib,
                                ![w].found = found]
    BY <1>1, Zenon
  <1>3. job' = [job EXCEPT ![w] = [job[w] EXCEPT !.todo = job[w].todo \ {g}, !.cur = d,
                                                 !.sibling = sib, !.found = found]]
    BY <1>2 DEF WorkerTypeOK
  <1>4. d \in GroupOf(job[w].diffs, g)
    BY <1>2 DEF First
  <1>5. ~found => ~Exists(d.model, d.source)
    BY <1>2, Zenon
  <1>6. pc' = [pc EXCEPT ![w] = "gate"]
    BY DEF LookupExisting, Goto
  <1> QED
    BY <1>3, <1>4, <1>5, <1>6, Zenon

\* The decision about a group works on one of its diffs, or on none.
LEMMA DecideMove ==
  ASSUME WorkerTypeOK, NEW w \in Workers, DecideMulti(w)
  PROVE  \E g \in job[w].todo :
           /\ Independent(GroupOf(job[w].diffs, g))
           /\ \/ EndGroup(w, job[w].todo \ {g})
              \/ \E d, sib, k :
                   /\ d \in GroupOf(job[w].diffs, g)
                   /\ job' = [job EXCEPT ![w] = [job[w] EXCEPT !.todo = job[w].todo \ {g}, !.cur = d,
                                                   !.sibling = sib, !.via = "agree", !.conf = k]]
                   /\ pc' = [pc EXCEPT ![w] = "read"]
  <1>1. PICK g \in job[w].todo : LET G == GroupOf(job[w].diffs, g) IN
          /\ Independent(G)
          /\ \/ ~Flags(G) /\ UNCHANGED <<review, faults>>
             \/ /\ Flags(G)
                /\ \E p \in WorstPair(G) : FlagDiscrepancy(g[1], g[2], p[1], p[2])
                /\ UNCHANGED faults
             \/ Flags(G) /\ Fault /\ UNCHANGED review
          /\ \/ Verdict(G) = {} /\ EndGroup(w, job[w].todo \ {g})
             \/ \E v \in Verdict(G), sib \in SiblingValues(job[w].diffs, g) :
                  /\ job' = [job EXCEPT ![w].todo = @ \ {g}, ![w].cur = v.diff, ![w].sibling = sib,
                                        ![w].via = "agree", ![w].conf = v.conf]
                  /\ Goto(w, "read")
    BY Zenon DEF DecideMulti
  <1> DEFINE G == GroupOf(job[w].diffs, g)
  <1>2. /\ Independent(G)
        /\ \/ EndGroup(w, job[w].todo \ {g})
           \/ \E v \in Verdict(G), sib \in SiblingValues(job[w].diffs, g) :
                /\ job' = [job EXCEPT ![w].todo = @ \ {g}, ![w].cur = v.diff, ![w].sibling = sib,
                                      ![w].via = "agree", ![w].conf = v.conf]
                /\ Goto(w, "read")
    BY <1>1, Zenon
  <1>3. ASSUME NEW v \in Verdict(G), NEW sib \in SiblingValues(job[w].diffs, g),
               job' = [job EXCEPT ![w].todo = @ \ {g}, ![w].cur = v.diff, ![w].sibling = sib,
                                  ![w].via = "agree", ![w].conf = v.conf],
               Goto(w, "read")
        PROVE  /\ v.diff \in G
               /\ job' = [job EXCEPT ![w] = [job[w] EXCEPT !.todo = job[w].todo \ {g}, !.cur = v.diff,
                                               !.sibling = sib, !.via = "agree", !.conf = v.conf]]
               /\ pc' = [pc EXCEPT ![w] = "read"]
    <2>1. v.diff \in G
      BY DEF Verdict, First, Consensus
    <2>2. job' = [job EXCEPT ![w] = [job[w] EXCEPT !.todo = job[w].todo \ {g}, !.cur = v.diff,
                                               !.sibling = sib, !.via = "agree", !.conf = v.conf]]
      BY <1>3 DEF WorkerTypeOK
    <2> QED
      BY <1>3, <2>1, <2>2 DEF Goto
  <1> QED
    BY <1>2, <1>3, Zenon

\* Every step of a task keeps its listing and its diff until the task is over.
LEMMA StepSteady ==
  ASSUME WorkerTypeOK, NEW w \in Workers, WorkerStep(w)
  PROVE  Steady(w)
  <1>0. job \in [Workers -> Job] /\ job[w] \in Job /\ pc \in [Workers -> Locations]
    BY DEF WorkerTypeOK
  <1>f. \A g, d : d \in GroupOf(job[w].diffs, g) => d \in job[w].diffs
    BY DEF GroupOf
  <1>u. job' = job => job' = [job EXCEPT ![w] = job[w]]
    BY <1>0
  <1>1. CASE ReadMirror(w)
    <2>1. \/ /\ job' = [job EXCEPT ![w] = [job[w] EXCEPT !.snap = mirror]]
             /\ pc' = [pc EXCEPT ![w] = "merge"]
          \/ job' = job /\ pc' = [pc EXCEPT ![w] = "sweep"]
      BY <1>0, <1>1 DEF ReadMirror, Goto
    <2>2. "merge" \notin OpenGroup /\ "sweep" \notin OpenGroup
      BY DEF OpenGroup
    <2>3. CASE /\ job' = [job EXCEPT ![w] = [job[w] EXCEPT !.snap = mirror]]
               /\ pc' = [pc EXCEPT ![w] = "merge"]
      BY <1>0, <2>2, <2>3, TaskOfJob, SteadyMove
    <2>4. CASE job' = job /\ pc' = [pc EXCEPT ![w] = "sweep"]
      BY <1>u, <2>2, <2>4, SteadyMove
    <2> QED
      BY <2>1, <2>3, <2>4
  <1>2. CASE MergeMirror(w)
    <2>1. /\ job' = [job EXCEPT ![w] = [job[w] EXCEPT !.snap = EmptyMap]]
          /\ pc' = [pc EXCEPT ![w] = "sweep"]
      BY <1>0, <1>2 DEF MergeMirror, Goto
    <2>2. "sweep" \notin OpenGroup
      BY DEF OpenGroup
    <2> QED
      BY <1>0, <2>1, <2>2, TaskOfJob, SteadyMove
  <1>3. CASE Sweep(w)
    <2>1. PICK x, l : /\ job' = [job EXCEPT ![w] = [job[w] EXCEPT !.swept = x]]
                      /\ pc' = [pc EXCEPT ![w] = l]
                      /\ l \in {"resolve", "evict"}
      BY <1>0, <1>3 DEF Sweep, Goto
    <2>2. l \notin OpenGroup
      BY <2>1 DEF OpenGroup
    <2> QED
      BY <1>0, <2>1, <2>2, TaskOfJob, SteadyMove
  <1>4. CASE EvictMirror(w)
    <2>1. /\ job' = [job EXCEPT ![w] = [job[w] EXCEPT !.swept = {}]]
          /\ pc' = [pc EXCEPT ![w] = "resolve"]
      BY <1>0, <1>4 DEF EvictMirror, Goto
    <2>2. "resolve" \notin OpenGroup
      BY DEF OpenGroup
    <2> QED
      BY <1>0, <2>1, <2>2, TaskOfJob, SteadyMove
  <1>5. CASE ResolveSources(w)
    <2>1. CASE job' = job /\ pc' = [pc EXCEPT ![w] = "group"]
      <3>1. "group" \notin OpenGroup
        BY DEF OpenGroup
      <3> QED
        BY <1>u, <2>1, <3>1, SteadyMove
    <2>2. ASSUME NEW s, job' = [job EXCEPT ![w].diffs = Without(job[w].diffs, s),
                                           ![w].todo = Groups(Without(job[w].diffs, s))],
                 NEW l \in {"verify", "group"}, pc' = [pc EXCEPT ![w] = l]
          PROVE  Steady(w)
      <3> DEFINE D == Without(job[w].diffs, s)
      <3>1. job' = [job EXCEPT ![w] = [job[w] EXCEPT !.diffs = D, !.todo = Groups(D)]]
        BY <1>0, <2>2
      <3>2. l \notin OpenGroup
        BY <2>2 DEF OpenGroup
      <3> DEFINE n == [job[w] EXCEPT !.diffs = D, !.todo = Groups(D)]
      <3> HIDE DEF D
      <3>3. n.listed = job[w].listed
        BY <1>0 DEF Job
      <3> HIDE DEF n
      <3> QED
        BY <2>2, <3>1, <3>2, <3>3, SteadyMove DEF n
    <2> QED
      BY <1>5, <2>1, <2>2 DEF ResolveSources, Goto
  <1>6. CASE SkipGroup(w)
    BY <1>6, SteadyEnd DEF SkipGroup
  <1>7. CASE LookupExisting(w)
    <2>1. PICK g, d, sib, found :
             /\ d \in GroupOf(job[w].diffs, g)
             /\ job' = [job EXCEPT ![w] = [job[w] EXCEPT !.todo = job[w].todo \ {g}, !.cur = d,
                                                         !.sibling = sib, !.found = found]]
             /\ pc' = [pc EXCEPT ![w] = "gate"]
      BY <1>7, LookupMove
    <2>2. pc[w] = "group"
      BY <1>7 DEF LookupExisting
    <2> DEFINE n == [job[w] EXCEPT !.todo = job[w].todo \ {g}, !.cur = d,
                                   !.sibling = sib, !.found = found]
    <2>3. n.listed = job[w].listed /\ n.cur = d
      BY <1>0 DEF Job
    <2>4. job' = [job EXCEPT ![w] = n]
      BY <2>1
    <2> HIDE DEF n
    <2> QED
      BY <1>f, <2>1, <2>2, <2>3, <2>4, SteadyMove
  <1>8. CASE DecideMulti(w)
    <2>1. PICK g \in job[w].todo :
             \/ EndGroup(w, job[w].todo \ {g})
             \/ \E d, sib, k :
                   /\ d \in GroupOf(job[w].diffs, g)
                   /\ job' = [job EXCEPT ![w] = [job[w] EXCEPT !.todo = job[w].todo \ {g}, !.cur = d,
                                                   !.sibling = sib, !.via = "agree", !.conf = k]]
                   /\ pc' = [pc EXCEPT ![w] = "read"]
      BY <1>8, DecideMove
    <2>2. pc[w] = "group"
      BY <1>8 DEF DecideMulti
    <2>3. ASSUME NEW d \in GroupOf(job[w].diffs, g), NEW sib, NEW k,
                 job' = [job EXCEPT ![w] = [job[w] EXCEPT !.todo = job[w].todo \ {g}, !.cur = d,
                                              !.sibling = sib, !.via = "agree", !.conf = k]],
                 pc' = [pc EXCEPT ![w] = "read"]
          PROVE  Steady(w)
      <3> DEFINE n == [job[w] EXCEPT !.todo = job[w].todo \ {g}, !.cur = d,
                                     !.sibling = sib, !.via = "agree", !.conf = k]
      <3>1. n.listed = job[w].listed /\ n.cur = d
        BY <1>0 DEF Job
      <3>2. job' = [job EXCEPT ![w] = n]
        BY <2>3
      <3> HIDE DEF n
      <3> QED
        BY <1>f, <2>2, <2>3, <3>1, <3>2, SteadyMove
    <2> QED
      BY <2>1, <2>3, SteadyEnd
  <1>9. CASE Gate(w)
    <2>0. pc[w] \in OpenGroup
      BY <1>9 DEF Gate, OpenGroup
    <2>1. \/ /\ job' = [job EXCEPT ![w] = [job[w] EXCEPT !.via = "first", !.conf = "low"]]
             /\ pc' = [pc EXCEPT ![w] = "read"]
          \/ /\ job' = [job EXCEPT ![w] = [job[w] EXCEPT !.via = "confirm", !.conf = "medium"]]
             /\ pc' = [pc EXCEPT ![w] = "hdel"]
          \/ \E x : /\ job' = [job EXCEPT ![w] = [job[w] EXCEPT !.entry = x]]
                    /\ pc' = [pc EXCEPT ![w] = "hset"]
      BY <1>0, <1>9 DEF Gate, Goto
    <2>2. ASSUME NEW x, NEW y, NEW l, job' = [job EXCEPT ![w] = [job[w] EXCEPT !.via = x, !.conf = y]],
                 pc' = [pc EXCEPT ![w] = l]
          PROVE  Steady(w)
      <3> DEFINE n == [job[w] EXCEPT !.via = x, !.conf = y]
      <3>1. n.listed = job[w].listed /\ n.cur = job[w].cur
        BY <1>0 DEF Job
      <3>2. job' = [job EXCEPT ![w] = n]
        BY <2>2
      <3> HIDE DEF n
      <3> QED
        BY <2>0, <2>2, <3>1, <3>2, SteadyMove
    <2>3. ASSUME NEW x, job' = [job EXCEPT ![w] = [job[w] EXCEPT !.entry = x]],
                 pc' = [pc EXCEPT ![w] = "hset"]
          PROVE  Steady(w)
      BY <1>0, <2>0, <2>3, TaskOfJob, SteadyMove
    <2> QED
      BY <2>1, <2>2, <2>3
  <1>10. CASE PersistPending(w)
    <2>0. pc[w] \in OpenGroup
      BY <1>10 DEF PersistPending, OpenGroup
    <2>1. (job' = job /\ pc' = [pc EXCEPT ![w] = "expire"]) \/ EndGroup(w, job[w].todo)
      BY <1>10 DEF PersistPending, Goto
    <2> QED
      BY <1>u, <2>0, <2>1, SteadyMove, SteadyEnd
  <1>16. CASE RefreshTTL(w)
    BY <1>16, SteadyEnd DEF RefreshTTL
  <1>11. CASE DeletePending(w)
    <2>1. job' = job /\ pc' = [pc EXCEPT ![w] = "read"] /\ pc[w] \in OpenGroup
      BY <1>11 DEF DeletePending, Goto, OpenGroup
    <2> QED
      BY <1>u, <2>1, SteadyMove
  <1>12. CASE ReadCurrent(w)
    <2>0. pc[w] \in OpenGroup
      BY <1>12 DEF ReadCurrent, OpenGroup
    <2>1. \/ \E x : /\ job' = [job EXCEPT ![w] = [job[w] EXCEPT !.row = x]]
                    /\ pc' = [pc EXCEPT ![w] = "write"]
          \/ EndGroup(w, job[w].todo)
      BY <1>0, <1>12 DEF ReadCurrent, Goto
    <2>2. ASSUME NEW x, job' = [job EXCEPT ![w] = [job[w] EXCEPT !.row = x]],
                 pc' = [pc EXCEPT ![w] = "write"]
          PROVE  Steady(w)
      BY <1>0, <2>0, <2>2, TaskOfJob, SteadyMove
    <2> QED
      BY <2>1, <2>2, SteadyEnd
  <1>13. CASE PublishPrice(w)
    <2>0. pc[w] \in OpenGroup
      BY <1>13 DEF PublishPrice, OpenGroup
    <2>1. \/ /\ job' = [job EXCEPT ![w] = [job[w] EXCEPT !.wrote = Len(history) + 1]]
             /\ pc' = [pc EXCEPT ![w] = "event"]
          \/ EndGroup(w, job[w].todo)
      BY <1>0, <1>13 DEF PublishPrice, Goto
    <2>2. CASE /\ job' = [job EXCEPT ![w] = [job[w] EXCEPT !.wrote = Len(history) + 1]]
               /\ pc' = [pc EXCEPT ![w] = "event"]
      BY <1>0, <2>0, <2>2, TaskOfJob, SteadyMove
    <2> QED
      BY <2>1, <2>2, SteadyEnd
  <1>14. CASE PublishEvent(w)
    BY <1>14, SteadyEnd DEF PublishEvent
  <1>15. CASE MarkVerified(w)
    <2>1. job' = [job EXCEPT ![w] = IdleJob] /\ pc' = [pc EXCEPT ![w] = "idle"]
      BY <1>15 DEF MarkVerified, Goto
    <2>2. job'[w] = IdleJob /\ pc'[w] = "idle" /\ OthersIdle(w)
      BY <1>0, <2>1 DEF OthersIdle
    <2> QED
      BY <2>2 DEF Steady, OpenGroup
  <1> QED
    BY <1>1, <1>2, <1>3, <1>4, <1>5, <1>6, <1>7, <1>8, <1>9, <1>10, <1>11, <1>12, <1>13, <1>14, <1>15, <1>16
    DEF WorkerStep

\* A scrape starts a task on one batch.
LEMMA ScrapeMove ==
  ASSUME WorkerTypeOK, NEW w \in Workers, Scrape(w)
  PROVE  \E S \in Batches : \E listed \in Listings(S) :
           /\ Overlap \/ NotRunning(S)
           /\ OthersIdle(w) /\ pc[w] = "idle" /\ pc'[w] \notin OpenGroup
           /\ job'[w].listed = listed
           /\ \A d \in job'[w].diffs : <<d.source, d.model>> \in listed
  <1>1. PICK S \in Batches : \E listed \in Listings(S) : \E scraped \in [listed -> Quotes] :
          /\ Overlap \/ NotRunning(S)
          /\ job' = [job EXCEPT ![w] = [IdleJob EXCEPT !.listed = listed, !.diffs = DiffOf(scraped),
                                                       !.todo = Groups(DiffOf(scraped))]]
          /\ Goto(w, IF DiffOf(scraped) = {} THEN "verify" ELSE IF loaded THEN "sweep" ELSE "load")
    BY Zenon DEF Scrape
  <1>2. PICK listed \in Listings(S) : \E scraped \in [listed -> Quotes] :
          /\ Overlap \/ NotRunning(S)
          /\ job' = [job EXCEPT ![w] = [IdleJob EXCEPT !.listed = listed, !.diffs = DiffOf(scraped),
                                                       !.todo = Groups(DiffOf(scraped))]]
          /\ Goto(w, IF DiffOf(scraped) = {} THEN "verify" ELSE IF loaded THEN "sweep" ELSE "load")
    BY <1>1, Zenon
  <1>3. PICK scraped \in [listed -> Quotes] :
          /\ Overlap \/ NotRunning(S)
          /\ job' = [job EXCEPT ![w] = [IdleJob EXCEPT !.listed = listed, !.diffs = DiffOf(scraped),
                                                       !.todo = Groups(DiffOf(scraped))]]
          /\ Goto(w, IF DiffOf(scraped) = {} THEN "verify" ELSE IF loaded THEN "sweep" ELSE "load")
    BY <1>2, Zenon
  <1> DEFINE D == DiffOf(scraped)
             n == [IdleJob EXCEPT !.listed = listed, !.diffs = D, !.todo = Groups(D)]
  <1>4. \A d \in D : <<d.source, d.model>> \in listed
    BY DEF DiffOf
  <1>5. OthersIdle(w) /\ pc'[w] \notin OpenGroup
    BY <1>3 DEF Goto, OthersIdle, OpenGroup, WorkerTypeOK
  <1> HIDE DEF D
  <1>6. n.listed = listed /\ n.diffs = D
    BY DEF IdleJob
  <1>7. job'[w] = n
    BY <1>3 DEF WorkerTypeOK, D
  <1>8. pc[w] = "idle"
    BY DEF Scrape
  <1> QED
    BY <1>3, <1>4, <1>5, <1>6, <1>7, <1>8

\* A task works on rows that it listed.
LEMMA TaskStep ==
  ASSUME WorkerTypeOK, TaskInv, [Next \/ Restart]_vars
  PROVE  TaskInv'
  <1>1. ASSUME NEW w \in Workers, WorkerStep(w) PROVE TaskInv'
    <2>1. Steady(w) /\ job'[w].diffs \subseteq job[w].diffs
      BY <1>1, StepSteady, TaskDiffs
    <2>2. IdleJob.diffs = {} /\ "idle" \notin OpenGroup
      BY DEF IdleJob, OpenGroup
    <2>3. /\ \A d \in job'[w].diffs : <<d.source, d.model>> \in job'[w].listed
          /\ pc'[w] \in OpenGroup => <<job'[w].cur.source, job'[w].cur.model>> \in job'[w].listed
      BY <2>1, <2>2 DEF Steady, TaskInv
    <2>4. \A v \in Workers \ {w} : job'[v] = job[v] /\ pc'[v] = pc[v]
      BY <2>1 DEF Steady, OthersIdle
    <2> QED
      BY <2>3, <2>4 DEF TaskInv
  <1>2. ASSUME NEW w \in Workers, Scrape(w) PROVE TaskInv'
    BY <1>2, ScrapeMove DEF TaskInv, OthersIdle
  <1>3. CASE Restart
    <2>1. IdleJob.diffs = {} /\ "idle" \notin OpenGroup
      BY DEF IdleJob, OpenGroup
    <2> QED
      BY <1>3, <2>1 DEF Restart, TaskInv
  <1>4. CASE Operator \/ Tick \/ UNCHANGED vars
    <2>1. UNCHANGED <<job, pc>>
      BY <1>4 DEF Operator, Tick, vars
    <2> QED
      BY <2>1 DEF TaskInv
  <1> QED
    BY <1>1, <1>2, <1>3, <1>4 DEF Next, ReconcilerNext

-----------------------------------------------------------------------------
(* Cron entries apart: no two tasks have a source in common.                  *)

\* The schedule of the deployment: the cron entries of a source do not overlap.
TasksApart == ~Overlap

ApartInv ==
  \A v, w \in Workers : v # w => \A p \in job[v].listed, q \in job[w].listed : p[1] # q[1]

\* A task starts with sources that no running task has, and lists none later.
LEMMA ApartStep ==
  ASSUME TasksApart, WorkerTypeOK, ApartInv, [Next \/ Restart]_vars
  PROVE  ApartInv'
  <1>0. IdleJob.listed = {}
    BY DEF IdleJob
  <1>1. ASSUME NEW w \in Workers, WorkerStep(w) PROVE ApartInv'
    <2>1. Steady(w)
      BY <1>1, StepSteady
    <2>2. \A v \in Workers : job'[v].listed \subseteq job[v].listed
      BY <1>0, <2>1 DEF Steady, OthersIdle
    <2> QED
      BY <2>2 DEF ApartInv
  <1>2. ASSUME NEW w \in Workers, Scrape(w) PROVE ApartInv'
    <2>1. PICK S \in Batches : \E listed \in Listings(S) :
            NotRunning(S) /\ OthersIdle(w) /\ job'[w].listed = listed
      BY <1>2, ScrapeMove DEF TasksApart
    <2>2. \A p \in job'[w].listed : p[1] \in S
      BY <2>1 DEF Listings
    <2>3. \A v \in Workers : \A q \in job[v].listed : q[1] \notin S
      BY <2>1 DEF NotRunning
    <2>4. \A v \in Workers \ {w} : job'[v] = job[v]
      BY <2>1 DEF OthersIdle
    <2> QED
      BY <2>2, <2>3, <2>4 DEF ApartInv
  <1>3. CASE Restart
    BY <1>0, <1>3 DEF Restart, ApartInv
  <1>4. CASE Operator \/ Tick \/ UNCHANGED vars
    <2>1. UNCHANGED job
      BY <1>4 DEF Operator, Tick, vars
    <2> QED
      BY <2>1 DEF ApartInv
  <1> QED
    BY <1>1, <1>2, <1>3, <1>4 DEF Next, ReconcilerNext

\* So the row that a task is about to write is in no other task's hands.
LEMMA RowsApart ==
  ASSUME TaskInv, ApartInv, NEW v \in Workers, NEW w \in Workers, v # w,
         pc[v] \in OpenGroup, pc[w] \in OpenGroup
  PROVE  job[v].cur.source # job[w].cur.source
  <1>1. /\ <<job[v].cur.source, job[v].cur.model>> \in job[v].listed
        /\ <<job[w].cur.source, job[w].cur.model>> \in job[w].listed
    BY DEF TaskInv
  <1> QED
    BY <1>1 DEF ApartInv

-----------------------------------------------------------------------------
(* Announcements. An event carries the number of a committed snapshot, and a  *)
(* task that has committed one is the next to announce that row.              *)

\* The snapshot n of a row of source s follows every announced one of its row.
FollowsAnnounced(n, s) ==
  /\ n \in DOMAIN history /\ history[n].source = s
  /\ \A a \in DOMAIN events : events[a] # n /\ (SameRow(events[a], n) => events[a] < n)

EventInv ==
  /\ \A a \in DOMAIN events : events[a] \in DOMAIN history
  /\ \A w \in Workers : pc[w] = "event" => FollowsAnnounced(job[w].wrote, job[w].cur.source)
  /\ AnnouncedInCommitOrder

\* The log before and after a step.
LogGrows ==
  /\ DOMAIN history \subseteq DOMAIN history'
  /\ \A i \in DOMAIN history : history'[i] = history[i]

\* No step takes a snapshot away.
LEMMA LogStep == ASSUME WorkerTypeOK, [Next \/ Restart]_vars PROVE LogGrows
  <1>1. history \in Seq(Snapshot)
    BY DEF WorkerTypeOK, StoreTypeOK
  <1> QED
    BY <1>1, HistoryStep DEF LogGrows

\* Whether two snapshots are of one row is settled when they are committed.
LEMMA SameRowStays ==
  ASSUME LogGrows, NEW i \in DOMAIN history, NEW j \in DOMAIN history
  PROVE  SameRow(i, j)' <=> SameRow(i, j)
  BY DEF LogGrows, SameRow

\* A step that announces and commits nothing leaves the order alone.
LEMMA EventFrame ==
  ASSUME WorkerTypeOK, EventInv, LogGrows, UNCHANGED events,
         \A w \in Workers : pc'[w] = "event" => pc[w] = "event" /\ job'[w] = job[w]
  PROVE  EventInv'
  <1>1. \A i, j \in DOMAIN history : SameRow(i, j)' <=> SameRow(i, j)
    BY SameRowStays
  <1>2. \A a \in DOMAIN events : events[a] \in DOMAIN history
    BY DEF EventInv
  <1>3. \A a \in DOMAIN events' : events'[a] \in DOMAIN history'
    BY <1>2 DEF LogGrows
  <1>4. AnnouncedInCommitOrder'
    BY <1>1, <1>2 DEF EventInv, AnnouncedInCommitOrder
  <1>5. ASSUME NEW w \in Workers, pc'[w] = "event"
        PROVE  FollowsAnnounced(job[w].wrote, job[w].cur.source)'
    <2>1. FollowsAnnounced(job[w].wrote, job[w].cur.source) /\ job'[w] = job[w]
      BY <1>5 DEF EventInv
    <2> QED
      BY <1>1, <1>2, <2>1 DEF LogGrows, FollowsAnnounced
  <1> QED
    BY <1>3, <1>4, <1>5 DEF EventInv

\* Only publishEvent announces, and only a commit is followed by an announcement.
LEMMA EventSteps ==
  ASSUME WorkerTypeOK, NEW w \in Workers, WorkerStep(w), ~PublishPrice(w), ~PublishEvent(w)
  PROVE  UNCHANGED events /\ pc'[w] # "event"
  <1>0. pc \in [Workers -> Locations]
    BY DEF WorkerTypeOK
  <1>1. CASE ReadMirror(w) \/ MergeMirror(w) \/ Sweep(w) \/ EvictMirror(w) \/ ResolveSources(w)
    BY <1>0, <1>1 DEF ReadMirror, MergeMirror, Sweep, EvictMirror, ResolveSources, Goto
  <1>2. CASE SkipGroup(w) \/ LookupExisting(w) \/ DecideMulti(w)
    BY <1>0, <1>2 DEF SkipGroup, LookupExisting, DecideMulti, Goto, EndGroup
  <1>3. CASE Gate(w) \/ PersistPending(w) \/ RefreshTTL(w) \/ DeletePending(w) \/ ReadCurrent(w) \/ MarkVerified(w)
    BY <1>0, <1>3 DEF Gate, PersistPending, RefreshTTL, DeletePending, ReadCurrent, MarkVerified, Goto, EndGroup
  <1> QED
    BY <1>1, <1>2, <1>3 DEF WorkerStep

\* The transaction of publish, seen from the log.
LEMMA PublishMove ==
  ASSUME WorkerTypeOK, NEW w \in Workers, PublishPrice(w)
  PROVE  \/ /\ WritePrice(SnapshotOf(w), now)
            /\ job'[w].wrote = Len(history) + 1 /\ job'[w].cur = job[w].cur
            /\ pc'[w] = "event" /\ OthersIdle(w)
         \/ /\ UNCHANGED <<prices, history>> \/ WritePrice(SnapshotOf(w), now)
            /\ pc'[w] # "event" /\ OthersIdle(w)
  <1>0. job \in [Workers -> Job] /\ job[w] \in Job /\ pc \in [Workers -> Locations]
    BY DEF WorkerTypeOK
  <1>1. CASE /\ WritePrice(SnapshotOf(w), now)
             /\ job' = [job EXCEPT ![w].wrote = Len(history) + 1]
             /\ Goto(w, "event")
    <2> DEFINE n == [job[w] EXCEPT !.wrote = Len(history) + 1]
    <2>1. job' = [job EXCEPT ![w] = n]
      BY <1>0, <1>1
    <2>2. n.wrote = Len(history) + 1 /\ n.cur = job[w].cur
      BY <1>0 DEF Job
    <2> HIDE DEF n
    <2> QED
      BY <1>0, <1>1, <2>1, <2>2 DEF Goto, OthersIdle
  <1>2. CASE /\ EndGroup(w, job[w].todo)
             /\ UNCHANGED <<prices, history>> \/ WritePrice(SnapshotOf(w), now)
    BY <1>0, <1>2 DEF EndGroup, OthersIdle
  <1> QED
    BY <1>1, <1>2 DEF PublishPrice

\* The announcement: the events of a row stay in the order of its snapshots.
LEMMA EventStep ==
  ASSUME WorkerTypeOK, TaskInv, ApartInv, EventInv, [Next \/ Restart]_vars
  PROVE  EventInv'
  <1>0. /\ LogGrows /\ history \in Seq(Snapshot) /\ events \in Seq(Nat)
        /\ pc \in [Workers -> Locations] /\ job \in [Workers -> Job]
    BY LogStep DEF WorkerTypeOK, StoreTypeOK
  <1>1. ASSUME NEW w \in Workers, PublishPrice(w) PROVE EventInv'
    <2>1. CASE pc'[w] # "event" /\ OthersIdle(w)
      <3>1. UNCHANGED events
        BY <1>1 DEF PublishPrice
      <3> QED
        BY <1>0, <2>1, <3>1, EventFrame DEF OthersIdle
    <2>2. CASE /\ WritePrice(SnapshotOf(w), now)
               /\ job'[w].wrote = Len(history) + 1 /\ job'[w].cur = job[w].cur
               /\ pc'[w] = "event" /\ OthersIdle(w)
      <3> DEFINE n == Len(history) + 1
                 h == Rounded(SnapshotOf(w))
      <3>1. UNCHANGED events
        BY <1>1 DEF PublishPrice
      <3>2. history' = Append(history, h)
        BY <2>2 DEF WritePrice
      <3>3. h.source = job[w].cur.source
        BY DEF Rounded, SnapshotOf
      <3> HIDE DEF h
      <3>4. n \in DOMAIN history' /\ history'[n] = h /\ \A i \in DOMAIN history : i < n /\ i \in Nat
        BY <1>0, <3>2
      <3>5. \A a \in DOMAIN events : events[a] \in DOMAIN history
        BY DEF EventInv
      <3>6. FollowsAnnounced(job[w].wrote, job[w].cur.source)'
        BY <2>2, <3>1, <3>3, <3>4, <3>5 DEF FollowsAnnounced
      <3>7. \A i, j \in DOMAIN history : SameRow(i, j)' <=> SameRow(i, j)
        BY <1>0, SameRowStays
      <3>8. ASSUME NEW v \in Workers, pc'[v] = "event", v # w
            PROVE  FollowsAnnounced(job[v].wrote, job[v].cur.source)'
        <4>1. job'[v] = job[v] /\ FollowsAnnounced(job[v].wrote, job[v].cur.source)
          BY <2>2, <3>8 DEF EventInv, OthersIdle
        <4> QED
          BY <1>0, <3>1, <3>5, <3>7, <4>1 DEF LogGrows, FollowsAnnounced
      <3>9. AnnouncedInCommitOrder'
        BY <3>1, <3>5, <3>7 DEF EventInv, AnnouncedInCommitOrder
      <3>10. \A a \in DOMAIN events' : events'[a] \in DOMAIN history'
        BY <1>0, <3>1, <3>5 DEF LogGrows
      <3> QED
        BY <3>6, <3>8, <3>9, <3>10 DEF EventInv
    <2> QED
      BY <1>1, <2>1, <2>2, PublishMove
  <1>2. ASSUME NEW w \in Workers, PublishEvent(w) PROVE EventInv'
    <2> DEFINE n == job[w].wrote
    <2>1. /\ pc[w] = "event" /\ EndGroup(w, job[w].todo) /\ UNCHANGED history
          /\ events' = Append(events, n) \/ UNCHANGED events
      BY <1>2 DEF PublishEvent, Announce, storeVars
    <2>2. OthersIdle(w) /\ pc'[w] # "event"
      BY <1>0, <2>1 DEF EndGroup, OthersIdle
    <2>3. CASE UNCHANGED events
      BY <1>0, <2>2, <2>3, EventFrame DEF OthersIdle
    <2>4. CASE events' = Append(events, n)
      <3>1. FollowsAnnounced(n, job[w].cur.source)
        BY <2>1 DEF EventInv
      <3> HIDE DEF n
      <3>2. /\ DOMAIN events' = DOMAIN events \cup {Len(events) + 1}
            /\ events'[Len(events) + 1] = n
            /\ \A a \in DOMAIN events : events'[a] = events[a] /\ a < Len(events) + 1 /\ a \in Nat
            /\ Len(events) \in Nat
        BY <1>0, <2>4, <3>1, SMTT(30) DEF FollowsAnnounced
      <3>3. \A i, j : SameRow(i, j)' <=> SameRow(i, j)
        BY <2>1 DEF SameRow
      <3>4. \A a \in DOMAIN events' : events'[a] \in DOMAIN history'
        BY <2>1, <3>1, <3>2 DEF EventInv, FollowsAnnounced
      <3>5. AnnouncedInCommitOrder'
        <4> SUFFICES ASSUME NEW a \in DOMAIN events', NEW b \in DOMAIN events', a < b
                     PROVE  events'[a] # events'[b] /\ (SameRow(events'[a], events'[b]) => events'[a] < events'[b])
          BY <3>3 DEF AnnouncedInCommitOrder
        <4>1. a \in DOMAIN events
          BY <3>2
        <4>2. CASE b \in DOMAIN events
          BY <3>2, <4>1, <4>2 DEF EventInv, AnnouncedInCommitOrder
        <4>3. CASE b = Len(events) + 1
          BY <3>1, <3>2, <4>1, <4>3 DEF FollowsAnnounced
        <4> QED
          BY <3>2, <4>2, <4>3
      <3>6. ASSUME NEW v \in Workers, pc'[v] = "event"
            PROVE  FollowsAnnounced(job[v].wrote, job[v].cur.source)'
        <4>1. v # w /\ pc[v] = "event" /\ job'[v] = job[v]
          BY <2>2, <3>6 DEF OthersIdle
        <4>2. FollowsAnnounced(job[v].wrote, job[v].cur.source)
          BY <4>1 DEF EventInv
        <4>3. job[v].cur.source # job[w].cur.source
          BY <2>1, <4>1, RowsApart DEF OpenGroup
        <4>4. ~SameRow(n, job[v].wrote) /\ n # job[v].wrote
          BY <3>1, <4>2, <4>3 DEF FollowsAnnounced, SameRow
        <4> QED
          BY <2>1, <3>2, <3>3, <4>1, <4>2, <4>4 DEF FollowsAnnounced
      <3> QED
        BY <3>4, <3>5, <3>6 DEF EventInv
    <2> QED
      BY <2>1, <2>3, <2>4
  <1>3. ASSUME NEW w \in Workers, WorkerStep(w), ~PublishPrice(w), ~PublishEvent(w) PROVE EventInv'
    <2>1. UNCHANGED events /\ pc'[w] # "event" /\ OthersIdle(w)
      BY <1>3, EventSteps, StepSteady DEF Steady
    <2> QED
      BY <1>0, <2>1, EventFrame DEF OthersIdle
  <1>4. ASSUME NEW w \in Workers, Scrape(w) PROVE EventInv'
    <2>1. UNCHANGED events /\ OthersIdle(w) /\ pc'[w] # "event"
      BY <1>4, ScrapeMove DEF Scrape, OpenGroup
    <2> QED
      BY <1>0, <2>1, EventFrame DEF OthersIdle
  <1>5. CASE Restart
    <2>1. UNCHANGED events /\ \A w \in Workers : pc'[w] # "event"
      BY <1>5 DEF Restart
    <2> QED
      BY <1>0, <2>1, EventFrame
  <1>6. CASE Operator \/ Tick \/ UNCHANGED vars
    <2>1. UNCHANGED <<events, pc, job>>
      BY <1>6 DEF Operator, Tick, vars
    <2> QED
      BY <1>0, <2>1, EventFrame
  <1> QED
    BY <1>1, <1>2, <1>3, <1>4, <1>5, <1>6 DEF Next, ReconcilerNext

\* Where the tasks of a source do not overlap, the changes of a row are announced once
\* each and in the order in which they were committed, although other tasks, operators and
\* restarts come between a commit and its announcement (publishEvent).
THEOREM InCommitOrder == TasksApart => (SpecRestart => []AnnouncedInCommitOrder)
  <1> SUFFICES ASSUME TasksApart PROVE SpecRestart => []AnnouncedInCommitOrder
    OBVIOUS
  <1>1. Init => TaskInv /\ ApartInv /\ EventInv
    <2>1. IdleJob.listed = {} /\ IdleJob.diffs = {} /\ "idle" \notin OpenGroup
      BY DEF IdleJob, OpenGroup
    <2> QED
      BY <2>1 DEF Init, ReconcilerInit, TaskInv, ApartInv, EventInv, AnnouncedInCommitOrder
  <1>2. /\ TypeOK /\ TaskInv /\ ApartInv /\ EventInv /\ [NextRestart]_systemVars
        => TaskInv' /\ ApartInv' /\ EventInv'
    BY TaskStep, ApartStep, EventStep, StepIsWorkerStep DEF TypeOK
  <1>3. EventInv => AnnouncedInCommitOrder
    BY DEF EventInv
  <1> QED
    BY <1>1, <1>2, <1>3, TypeCorrect, PTL DEF SpecRestart

-----------------------------------------------------------------------------
(* One source per task, as runPipeline calls Reconcile: no two sources meet   *)
(* in a batch, so nothing is flagged and no operator writes a price.          *)

OneSourceTasks == \A S \in Batches : \A s, t \in S : s = t

OneSourceInv == \A w \in Workers : \A p, q \in job[w].listed : p[1] = q[1]

QueueEmpty == review = << >> /\ approving = {}

\* A task lists what its one source quotes, and nothing later.
LEMMA OneSourceStep ==
  ASSUME OneSourceTasks, WorkerTypeOK, OneSourceInv, [Next \/ Restart]_vars
  PROVE  OneSourceInv'
  <1>0. IdleJob.listed = {}
    BY DEF IdleJob
  <1>1. ASSUME NEW w \in Workers, WorkerStep(w) PROVE OneSourceInv'
    <2>1. \A v \in Workers : job'[v].listed \subseteq job[v].listed
      BY <1>0, <1>1, StepSteady DEF Steady, OthersIdle
    <2> QED
      BY <2>1 DEF OneSourceInv
  <1>2. ASSUME NEW w \in Workers, Scrape(w) PROVE OneSourceInv'
    <2>1. PICK S \in Batches : \E listed \in Listings(S) : OthersIdle(w) /\ job'[w].listed = listed
      BY <1>2, ScrapeMove
    <2>2. \A p \in job'[w].listed : p[1] \in S
      BY <2>1 DEF Listings
    <2> QED
      BY <2>1, <2>2 DEF OneSourceInv, OneSourceTasks, OthersIdle
  <1>3. CASE Restart
    BY <1>0, <1>3 DEF Restart, OneSourceInv
  <1>4. CASE Operator \/ Tick \/ UNCHANGED vars
    <2>1. UNCHANGED job
      BY <1>4 DEF Operator, Tick, vars
    <2> QED
      BY <2>1 DEF OneSourceInv
  <1> QED
    BY <1>1, <1>2, <1>3, <1>4 DEF Next, ReconcilerNext

\* A task of one source never reaches processMultiSource.
LEMMA NeverMulti ==
  ASSUME WorkerTypeOK, TaskInv, OneSourceInv, NEW w \in Workers
  PROVE  ~DecideMulti(w)
  <1> SUFFICES ASSUME DecideMulti(w) PROVE FALSE
    OBVIOUS
  <1>1. PICK g : Independent(GroupOf(job[w].diffs, g))
    BY DecideMove
  <1>2. PICK d \in GroupOf(job[w].diffs, g), e \in GroupOf(job[w].diffs, g) :
          EffectiveProvider(d) # EffectiveProvider(e)
    BY <1>1 DEF Independent
  <1>3. d \in job[w].diffs /\ e \in job[w].diffs /\ d.model = e.model
    BY DEF GroupOf
  <1>4. <<d.source, d.model>> \in job[w].listed /\ <<e.source, e.model>> \in job[w].listed
    BY <1>3 DEF TaskInv
  <1>5. d.source = e.source
    BY <1>4 DEF OneSourceInv
  <1> QED
    BY <1>2, <1>3, <1>5 DEF EffectiveProvider

\* With one source in a task nothing is flagged, so that no approval is ever open.
LEMMA QueueStaysEmpty ==
  ASSUME TypeOK, TaskInv, OneSourceInv, QueueEmpty, [NextRestart]_systemVars
  PROVE  QueueEmpty' /\ ~Operator
  <1>1. ~Operator
    BY DEF QueueEmpty, Operator
  <1>2. ASSUME NEW w \in Workers, Scrape(w) \/ WorkerStep(w) PROVE UNCHANGED review
    <2>1. ~DecideMulti(w)
      BY NeverMulti DEF TypeOK
    <2> QED
      BY <1>2, <2>1 DEF WorkerStep, Scrape, ReadMirror, MergeMirror, Sweep, EvictMirror, ResolveSources,
         SkipGroup, LookupExisting, Gate, PersistPending, RefreshTTL, DeletePending, ReadCurrent,
         PublishPrice, PublishEvent, MarkVerified, storeVars
  <1> QED
    BY <1>1, <1>2 DEF NextRestart, Next, ReconcilerNext, Restart, Tick, systemVars, vars, storeVars,
       QueueEmpty

-----------------------------------------------------------------------------
(* No zero price. A row is written only when it is complete, and what a       *)
(* column has rounded once it keeps.                                          *)

\* No quoted price is so small that its column rounds it to zero.
PricesKeepDigits == \A v \in Values : v > 0 => Stored(v) > 0

Kept(c) == c > 0 /\ Stored(c) = c

\* Integer division of a multiple and a remainder.
LEMMA DivisionExact ==
  ASSUME NEW b \in Nat \ {0}, NEW q \in Nat, NEW r \in Nat, r < b
  PROVE  (b * q + r) \div b = q
  OBVIOUS

\* Rounding is idempotent: a price read from its column is written back unchanged.
LEMMA StoredTwice == ASSUME NEW v \in Nat PROVE Stored(Stored(v)) = Stored(v)
  <1> DEFINE k == (2 * v + Scale) \div (2 * Scale)
  <1>1. Scale \in Nat \ {0}
    BY StoreAssumption
  <1>2. 2 * Scale \in Nat \ {0} /\ Scale < 2 * Scale /\ 2 * v + Scale \in Nat
    BY <1>1
  <1>3. \A a \in Nat, b \in Nat \ {0} : a \div b \in Nat
    OBVIOUS
  <1>4. k \in Nat
    BY <1>2, <1>3
  <1> HIDE DEF k
  <1>5. 2 * (k * Scale) + Scale = (2 * Scale) * k + Scale
    BY <1>1, <1>4
  <1>6. (2 * (k * Scale) + Scale) \div (2 * Scale) = k
    BY <1>1, <1>2, <1>4, <1>5, DivisionExact
  <1> QED
    BY <1>6 DEF Stored, k

PositiveInv ==
  /\ \A i \in DOMAIN history : Kept(history[i].input) /\ Kept(history[i].output)
  /\ \A m \in Models, s \in Sources :
       /\ prices[m][s].input = 0 \/ Kept(prices[m][s].input)
       /\ prices[m][s].output = 0 \/ Kept(prices[m][s].output)
  /\ \A w \in Workers : pc[w] = "write" =>
       Stored(job[w].row["input"]) > 0 /\ Stored(job[w].row["output"]) > 0

\* Which step of a task leads where.
LEMMA ComesFrom ==
  ASSUME WorkerTypeOK, NEW w \in Workers, WorkerStep(w)
  PROVE  /\ pc'[w] = "merge" => ReadMirror(w)
         /\ pc'[w] = "evict" => Sweep(w)
         /\ pc'[w] = "gate" => LookupExisting(w)
         /\ pc'[w] \in {"hset", "hdel"} => Gate(w)
         /\ pc'[w] = "read" => Gate(w) \/ DeletePending(w) \/ DecideMulti(w)
         /\ pc'[w] = "write" => ReadCurrent(w)
         /\ pc'[w] = "event" => PublishPrice(w)
         /\ pc'[w] = "expire" => PersistPending(w)
         /\ pc'[w] # "load"
  <1>0. pc \in [Workers -> Locations]
    BY DEF WorkerTypeOK
  <1>e. ASSUME NEW left, EndGroup(w, left) PROVE pc'[w] \in {"verify", "group"}
    BY <1>0, <1>e DEF EndGroup
  <1>1. MergeMirror(w) \/ EvictMirror(w) \/ ResolveSources(w) \/ MarkVerified(w)
          => pc'[w] \in {"sweep", "resolve", "group", "verify", "idle"}
    BY <1>0 DEF MergeMirror, EvictMirror, ResolveSources, MarkVerified, Goto
  <1>2. SkipGroup(w) \/ RefreshTTL(w) \/ PublishEvent(w) => pc'[w] \in {"verify", "group"}
    BY <1>e DEF SkipGroup, RefreshTTL, PublishEvent
  <1>11. PersistPending(w) => pc'[w] \in {"verify", "group", "expire"}
    BY <1>0, <1>e DEF PersistPending, Goto
  <1>3. ReadMirror(w) => pc'[w] \in {"merge", "sweep"}
    BY <1>0 DEF ReadMirror, Goto
  <1>4. Sweep(w) => pc'[w] \in {"resolve", "evict"}
    BY <1>0 DEF Sweep, Goto
  <1>5. LookupExisting(w) => pc'[w] = "gate"
    BY <1>0 DEF LookupExisting, Goto
  <1>6. DecideMulti(w) => pc'[w] \in {"verify", "group", "read"}
    BY <1>0, <1>e DEF DecideMulti, Goto
  <1>7. Gate(w) => pc'[w] \in {"read", "hdel", "hset"}
    BY <1>0 DEF Gate, Goto
  <1>8. DeletePending(w) => pc'[w] = "read"
    BY <1>0 DEF DeletePending, Goto
  <1>9. ReadCurrent(w) => pc'[w] \in {"verify", "group", "write"}
    BY <1>0, <1>e DEF ReadCurrent, Goto
  <1>10. PublishPrice(w) => pc'[w] \in {"verify", "group", "event"}
    BY <1>0, <1>e DEF PublishPrice, Goto
  <1> QED
    BY <1>1, <1>2, <1>3, <1>4, <1>5, <1>6, <1>7, <1>8, <1>9, <1>10, <1>11
    DEF WorkerStep

\* A step that commits no snapshot changes no price.
LEMMA QuietStore ==
  ASSUME TypeOK, [NextRestart]_systemVars, UNCHANGED history, NEW m \in Models, NEW s \in Sources
  PROVE  /\ prices'[m][s].input = prices[m][s].input
         /\ prices'[m][s].output = prices[m][s].output
         /\ prices'[m][s].conf = prices[m][s].conf
  <1>1. history \in Seq(Snapshot)
    BY DEF TypeOK, WorkerTypeOK, StoreTypeOK
  <1>2. ASSUME NEW snap \in Snapshot, NEW t \in Nat, WritePrice(snap, t) PROVE FALSE
    <2>1. history' = Append(history, Rounded(snap))
      BY <1>2 DEF WritePrice
    <2>2. Len(history') = Len(history) + 1 /\ Len(history) \in Nat
      BY <1>1, <2>1
    <2> QED
      BY <2>2
  <1> QED
    BY <1>2, StoreStep

\* The worker commits in publish and nowhere else.
LEMMA CommitIsPublish ==
  ASSUME TypeOK, [NextRestart]_systemVars, ~Operator, \A w \in Workers : ~PublishPrice(w)
  PROVE  UNCHANGED history
  <1>1. ASSUME NEW w \in Workers, Scrape(w) \/ WorkerStep(w) PROVE UNCHANGED history
    BY <1>1 DEF WorkerStep, Scrape, ReadMirror, MergeMirror, Sweep, EvictMirror, ResolveSources,
       SkipGroup, LookupExisting, DecideMulti, Gate, PersistPending, RefreshTTL, DeletePending, ReadCurrent,
       PublishEvent, MarkVerified, storeVars
  <1> QED
    BY <1>1 DEF NextRestart, Next, ReconcilerNext, Restart, Tick, systemVars, vars, storeVars

\* What a task reads, and what it makes of it.
LEMMA ReadMove ==
  ASSUME WorkerTypeOK, NEW w \in Workers, ReadCurrent(w), pc'[w] = "write"
  PROVE  LET d == job[w].cur IN
         \E cur \in {prices[d.model][d.source], NoRow} :
           /\ cur = prices[d.model][d.source] \/ Fault
           /\ Complete(Completed(d, cur, job[w].sibling))
           /\ job'[w].row = Completed(d, cur, job[w].sibling)
           /\ job'[w].via = job[w].via /\ job'[w].cur = d
           /\ UNCHANGED history /\ OthersIdle(w)
  <1> DEFINE d == job[w].cur
  <1>0. job \in [Workers -> Job] /\ job[w] \in Job /\ pc \in [Workers -> Locations]
    BY DEF WorkerTypeOK
  <1>1. PICK cur \in {prices[d.model][d.source], NoRow} :
          LET row == Completed(d, cur, job[w].sibling) IN
          /\ \/ cur = prices[d.model][d.source] /\ UNCHANGED faults
             \/ cur = NoRow /\ Fault
          /\ IF Complete(row)
               THEN /\ job' = [job EXCEPT ![w].row = row]
                    /\ Goto(w, "write")
               ELSE EndGroup(w, job[w].todo)
    BY DEF ReadCurrent
  <1> DEFINE row == Completed(d, cur, job[w].sibling)
             n == [job[w] EXCEPT !.row = row]
  <1>2. ~EndGroup(w, job[w].todo)
    BY <1>0 DEF EndGroup
  <1>3. /\ Complete(row) /\ job' = [job EXCEPT ![w].row = row] /\ Goto(w, "write")
        /\ cur = prices[d.model][d.source] \/ Fault
    BY <1>1, <1>2
  <1> HIDE DEF row
  <1>4. n.row = row /\ n.via = job[w].via /\ n.cur = job[w].cur
    BY <1>0 DEF Job
  <1>5. job' = [job EXCEPT ![w] = n]
    BY <1>0, <1>3
  <1> HIDE DEF n
  <1>6. job'[w] = n /\ OthersIdle(w)
    BY <1>0, <1>3, <1>5 DEF Goto, OthersIdle
  <1>7. UNCHANGED history
    BY DEF ReadCurrent, storeVars
  <1> QED
    BY <1>3, <1>4, <1>6, <1>7 DEF row

\* A complete row survives rounding.
LEMMA CompletedKept ==
  ASSUME PricesKeepDigits, NEW d \in Diffs, NEW cur \in Row, NEW v \in Values,
         cur.input = 0 \/ Kept(cur.input), cur.output = 0 \/ Kept(cur.output),
         Complete(Completed(d, cur, v))
  PROVE  LET row == Completed(d, cur, v) IN Stored(row["input"]) > 0 /\ Stored(row["output"]) > 0
  <1>0. d.value \in Values /\ cur.input \in Nat /\ cur.output \in Nat /\ v \in Nat /\ d.value \in Nat
    BY ValuesNat DEF Diffs, Row
  <1>1. \A x \in Values : x > 0 => Stored(x) > 0
    BY DEF PricesKeepDigits
  <1>2. CASE d.field = "input"
    <2>1. /\ Completed(d, cur, v)["input"] = d.value
          /\ Completed(d, cur, v)["output"] = IF cur.output > 0 THEN cur.output ELSE v
      BY <1>2 DEF Completed, OtherField, Fields
    <2> QED
      BY <1>0, <1>1, <2>1 DEF Complete, Kept
  <1>3. CASE d.field = "output"
    <2>1. /\ Completed(d, cur, v)["output"] = d.value
          /\ Completed(d, cur, v)["input"] = IF cur.input > 0 THEN cur.input ELSE v
      BY <1>3 DEF Completed, OtherField, Fields
    <2> QED
      BY <1>0, <1>1, <2>1 DEF Complete, Kept
  <1> QED
    BY <1>2, <1>3 DEF Diffs, Fields

\* Whatever fails, a snapshot without a zero is completed to one without a zero.
LEMMA PositiveStep ==
  ASSUME PricesKeepDigits, TypeOK, PositiveInv, [NextRestart]_systemVars, ~Operator
  PROVE  PositiveInv'
  <1>0. /\ history \in Seq(Snapshot) /\ prices \in [Models -> [Sources -> Row]]
        /\ job \in [Workers -> Job] /\ pc \in [Workers -> Locations] /\ WorkerTypeOK
    BY DEF TypeOK, WorkerTypeOK, StoreTypeOK
  <1>1. ASSUME UNCHANGED history,
               \A w \in Workers : pc'[w] = "write" =>
                 Stored(job'[w].row["input"]) > 0 /\ Stored(job'[w].row["output"]) > 0
        PROVE  PositiveInv'
    BY <1>1, QuietStore DEF PositiveInv
  <1>2. ASSUME NEW w \in Workers, PublishPrice(w) PROVE PositiveInv'
    <2>0. pc[w] = "write" /\ pc'[w] # "write" /\ OthersIdle(w)
      <3>1. pc[w] = "write"
        BY <1>2 DEF PublishPrice
      <3>2. WorkerStep(w)
        BY <1>2 DEF WorkerStep
      <3>3. ~ReadCurrent(w)
        BY <3>1 DEF ReadCurrent
      <3> QED
        BY <1>0, <3>1, <3>2, <3>3, ComesFrom, StepSteady DEF Steady
    <2>1. \A v \in Workers : pc'[v] = "write" =>
            Stored(job'[v].row["input"]) > 0 /\ Stored(job'[v].row["output"]) > 0
      BY <2>0 DEF OthersIdle, PositiveInv
    <2>2. CASE UNCHANGED history
      BY <1>1, <2>1, <2>2
    <2>3. CASE WritePrice(SnapshotOf(w), now)
      <3> DEFINE snap == SnapshotOf(w)
                 h == Rounded(snap)
                 r == RowOf(snap, now)
      <3>1. /\ snap \in Snapshot
            /\ snap.input = job[w].row["input"] /\ snap.output = job[w].row["output"]
        BY <1>0 DEF SnapshotOf, Snapshot, Job, Diffs, Fields, PricePair
      <3>2. Kept(Stored(snap.input)) /\ Kept(Stored(snap.output))
        <4>1. Stored(snap.input) > 0 /\ Stored(snap.output) > 0
          BY <2>0, <3>1 DEF PositiveInv
        <4>2. snap.input \in Nat /\ snap.output \in Nat
          BY <3>1 DEF Snapshot
        <4> QED
          BY <4>1, <4>2, StoredTwice DEF Kept
      <3> HIDE DEF snap
      <3>3. Kept(h.input) /\ Kept(h.output) /\ Kept(r.input) /\ Kept(r.output)
        BY <3>1, <3>2 DEF Rounded, RowOf, Snapshot
      <3> HIDE DEF h, r
      <3>4. /\ history' = Append(history, h)
            /\ prices' = [prices EXCEPT ![snap.model][snap.source] = r]
        BY <2>3 DEF WritePrice, snap, h, r
      <3>5. snap.model \in Models /\ snap.source \in Sources
        BY <3>1 DEF Snapshot
      <3>6. \A i \in DOMAIN history' : Kept(history'[i].input) /\ Kept(history'[i].output)
        <4>1. \A i \in DOMAIN history' : (i \in DOMAIN history /\ history'[i] = history[i]) \/ history'[i] = h
          BY <1>0, <3>4
        <4> QED
          BY <3>3, <4>1 DEF PositiveInv
      <3>7. \A m \in Models, s \in Sources : prices'[m][s] = prices[m][s] \/ prices'[m][s] = r
        BY <1>0, <3>4, <3>5
      <3> QED
        BY <2>1, <3>3, <3>6, <3>7 DEF PositiveInv
    <2> QED
      BY <1>2, <2>2, <2>3 DEF PublishPrice
  <1>3. ASSUME \A w \in Workers : ~PublishPrice(w) PROVE UNCHANGED history
    BY <1>3, CommitIsPublish
  <1>4. ASSUME NEW w \in Workers, WorkerStep(w), UNCHANGED history PROVE PositiveInv'
    <2>1. OthersIdle(w)
      BY <1>0, <1>4, StepSteady DEF Steady
    <2>2. ASSUME pc'[w] = "write"
          PROVE  Stored(job'[w].row["input"]) > 0 /\ Stored(job'[w].row["output"]) > 0
      <3> DEFINE d == job[w].cur
      <3>1. ReadCurrent(w)
        BY <1>0, <1>4, <2>2, ComesFrom
      <3>2. PICK cur \in {prices[d.model][d.source], NoRow} :
              /\ Complete(Completed(d, cur, job[w].sibling))
              /\ job'[w].row = Completed(d, cur, job[w].sibling)
        BY <1>0, <2>2, <3>1, ReadMove
      <3>3. d \in Diffs /\ job[w].sibling \in Values /\ d.model \in Models /\ d.source \in Sources
        BY <1>0 DEF Job, Diffs
      <3>4. cur \in Row /\ (cur.input = 0 \/ Kept(cur.input)) /\ (cur.output = 0 \/ Kept(cur.output))
        <4>1. NoRow \in Row /\ NoRow.input = 0 /\ NoRow.output = 0
          BY NoRowType DEF NoRow
        <4> QED
          BY <1>0, <3>2, <3>3, <4>1 DEF PositiveInv
      <3> QED
        BY <3>2, <3>3, <3>4, CompletedKept
    <2> QED
      BY <1>1, <1>4, <2>1, <2>2 DEF OthersIdle, PositiveInv
  <1>5. ASSUME NEW w \in Workers, Scrape(w) PROVE PositiveInv'
    <2>1. OthersIdle(w) /\ pc'[w] # "write"
      BY <1>0, <1>5, ScrapeMove DEF OpenGroup
    <2>2. UNCHANGED history
      BY <1>5 DEF Scrape, storeVars
    <2> QED
      BY <1>1, <2>1, <2>2 DEF OthersIdle, PositiveInv
  <1>6. CASE Restart
    BY <1>1, <1>6 DEF Restart, storeVars
  <1>7. CASE Tick \/ UNCHANGED systemVars
    <2>1. UNCHANGED <<history, pc, job>>
      BY <1>7 DEF Tick, systemVars, vars, storeVars
    <2> QED
      BY <1>1, <2>1 DEF PositiveInv
  <1> QED
    BY <1>2, <1>3, <1>4, <1>5, <1>6, <1>7 DEF NextRestart, Next, ReconcilerNext

\* Where a task reconciles one source and no quoted price rounds to zero, price_history never
\* holds a zero price: publish refuses an incomplete row, also when the stored row could not be
\* read, and completes a row only with columns that keep their digits. The rounding hypothesis
\* is needed: the guard tests the price before its column rounds it.
THEOREM NoZeroWritten ==
  OneSourceTasks /\ PricesKeepDigits => (SpecRestart => []NoZeroPrice)
  <1> SUFFICES ASSUME OneSourceTasks, PricesKeepDigits PROVE SpecRestart => []NoZeroPrice
    OBVIOUS
  <1>1. Init => TaskInv /\ OneSourceInv /\ QueueEmpty /\ PositiveInv
    <2>1. IdleJob.listed = {} /\ IdleJob.diffs = {} /\ "idle" \notin OpenGroup
      BY DEF IdleJob, OpenGroup
    <2>2. NoRow.input = 0 /\ NoRow.output = 0
      BY DEF NoRow
    <2> QED
      BY <2>1, <2>2 DEF Init, ReconcilerInit, StoreInit, TaskInv, OneSourceInv, QueueEmpty, PositiveInv
  <1>2. /\ TypeOK /\ TaskInv /\ OneSourceInv /\ QueueEmpty /\ PositiveInv /\ [NextRestart]_systemVars
        => TaskInv' /\ OneSourceInv' /\ QueueEmpty' /\ PositiveInv'
    BY TaskStep, OneSourceStep, QueueStaysEmpty, PositiveStep, StepIsWorkerStep DEF TypeOK
  <1>3. PositiveInv => NoZeroPrice
    BY DEF PositiveInv, NoZeroPrice, Kept
  <1> QED
    BY <1>1, <1>2, <1>3, TypeCorrect, PTL DEF SpecRestart

-----------------------------------------------------------------------------
(* The other column. What a task read of its row still stands when it writes, *)
(* because no other task has the row.                                         *)

\* The two price columns of a row, and whether there is one.
SameColumns(m, s) ==
  /\ prices'[m][s].conf = prices[m][s].conf
  /\ \A f \in Fields : prices'[m][s][f] = prices[m][s][f]

\* What a task knows of its row: first means that there is none, and without a failed read the
\* other column of the snapshot is the stored one.
RowKnown(w) ==
  LET d == job[w].cur IN
  /\ pc[w] = "gate" /\ ~job[w].found => ~Exists(d.model, d.source)
  /\ pc[w] = "hdel" => job[w].via = "confirm"
  /\ pc[w] \in {"read", "write"} /\ job[w].via = "first" => ~Exists(d.model, d.source)
  /\ faults = 0 /\ pc[w] = "write" /\ Exists(d.model, d.source)
       => job[w].row[OtherField(d.field)] = prices[d.model][d.source][OtherField(d.field)]

ColumnInv == \A w \in Workers : RowKnown(w)

\* A row that is there shows positive, exactly kept prices.
LEMMA ShownKept ==
  ASSUME RowIsLatestSnapshot, PositiveInv, NEW m \in Models, NEW s \in Sources, Exists(m, s)
  PROVE  Kept(prices[m][s].input) /\ Kept(prices[m][s].output)
  <1>1. \E i \in DOMAIN history : /\ prices[m][s].input = history[i].input
                                  /\ prices[m][s].output = history[i].output
    BY DEF RowIsLatestSnapshot
  <1> QED
    BY <1>1 DEF PositiveInv

\* A task of another source leaves what is known of a row alone.
LEMMA KnownStays ==
  ASSUME WorkerTypeOK, NEW w \in Workers, RowKnown(w), job'[w] = job[w], pc'[w] = pc[w],
         faults' = 0 => faults = 0, 
         pc[w] \in OpenGroup => SameColumns(job[w].cur.model, job[w].cur.source)
  PROVE  RowKnown(w)'
  <1>1. OtherField(job[w].cur.field) \in Fields
    BY DEF OtherField, Fields
  <1>2. {"gate", "hdel", "read", "write"} \subseteq OpenGroup
    BY DEF OpenGroup
  <1> QED
    BY <1>1, <1>2 DEF RowKnown, SameColumns, Exists

\* The steps of a task that lead to its gate and away from it.
LEMMA GateMove ==
  ASSUME WorkerTypeOK, NEW w \in Workers, Gate(w)
  PROVE  /\ job'[w].cur = job[w].cur /\ UNCHANGED <<prices, history>>
         /\ pc'[w] = "read" => ~job[w].found
         /\ pc'[w] = "hdel" => job'[w].via = "confirm"
  <1>0. job \in [Workers -> Job] /\ job[w] \in Job /\ pc \in [Workers -> Locations]
    BY DEF WorkerTypeOK
  <1>1. \/ /\ ~job[w].found
           /\ job' = [job EXCEPT ![w] = [job[w] EXCEPT !.via = "first", !.conf = "low"]]
           /\ pc' = [pc EXCEPT ![w] = "read"]
        \/ /\ job' = [job EXCEPT ![w] = [job[w] EXCEPT !.via = "confirm", !.conf = "medium"]]
           /\ pc' = [pc EXCEPT ![w] = "hdel"]
        \/ \E x : /\ job' = [job EXCEPT ![w] = [job[w] EXCEPT !.entry = x]]
                  /\ pc' = [pc EXCEPT ![w] = "hset"]
    BY <1>0 DEF Gate, Goto, BrandNew
  <1>2. \A x, y : LET n == [job[w] EXCEPT !.via = x, !.conf = y] IN n.cur = job[w].cur /\ n.via = x
    BY <1>0 DEF Job
  <1>3. \A x : [job[w] EXCEPT !.entry = x].cur = job[w].cur
    BY <1>0 DEF Job
  <1>4. UNCHANGED <<prices, history>>
    BY DEF Gate, storeVars
  <1>5. CASE /\ ~job[w].found
             /\ job' = [job EXCEPT ![w] = [job[w] EXCEPT !.via = "first", !.conf = "low"]]
             /\ pc' = [pc EXCEPT ![w] = "read"]
    BY <1>0, <1>2, <1>4, <1>5
  <1>6. CASE /\ job' = [job EXCEPT ![w] = [job[w] EXCEPT !.via = "confirm", !.conf = "medium"]]
             /\ pc' = [pc EXCEPT ![w] = "hdel"]
    BY <1>0, <1>2, <1>4, <1>6
  <1>7. CASE \E x : /\ job' = [job EXCEPT ![w] = [job[w] EXCEPT !.entry = x]]
                    /\ pc' = [pc EXCEPT ![w] = "hset"]
    BY <1>0, <1>3, <1>4, <1>7
  <1> QED
    BY <1>1, <1>5, <1>6, <1>7

\* A step other than a commit leaves every column alone.
LEMMA QuietColumns ==
  ASSUME TypeOK, [NextRestart]_systemVars, UNCHANGED history, NEW m \in Models, NEW s \in Sources
  PROVE  SameColumns(m, s)
  BY QuietStore DEF SameColumns, Fields

\* A commit changes the columns of its own row only.
LEMMA CommitColumns ==
  ASSUME TypeOK, NEW w \in Workers, PublishPrice(w), NEW m \in Models, NEW s \in Sources,
         s # job[w].cur.source
  PROVE  SameColumns(m, s)
  <1>0. /\ job[w] \in Job /\ prices \in [Models -> [Sources -> Row]]
    BY DEF TypeOK, WorkerTypeOK, StoreTypeOK
  <1>1. job[w].cur.model \in Models /\ job[w].cur.source \in Sources
    BY <1>0 DEF Job, Diffs
  <1>2. \/ UNCHANGED prices
        \/ prices' = [prices EXCEPT ![job[w].cur.model][job[w].cur.source] = RowOf(SnapshotOf(w), now)]
    BY DEF PublishPrice, WritePrice, SnapshotOf
  <1>3. prices'[m][s] = prices[m][s]
    BY <1>0, <1>1, <1>2
  <1> QED
    BY <1>3 DEF SameColumns, Exists

\* Failed round trips are counted and never forgotten.
LEMMA FaultsStay ==
  ASSUME WorkerTypeOK, [Next \/ Restart]_vars, faults' = 0
  PROVE  faults = 0 /\ ~Fault
  <1>1. faults \in Nat
    BY DEF WorkerTypeOK
  <1>2. ~Fault
    BY <1>1 DEF Fault
  <1>3. ASSUME NEW w \in Workers, Scrape(w) \/ WorkerStep(w)
        PROVE  UNCHANGED faults
    BY <1>2, <1>3 DEF WorkerStep, Scrape, ReadMirror, MergeMirror, Sweep, EvictMirror, ResolveSources,
       SkipGroup, LookupExisting, DecideMulti, Gate, PersistPending, RefreshTTL, DeletePending, ReadCurrent,
       PublishPrice, PublishEvent, MarkVerified, boundVars
  <1> QED
    BY <1>2, <1>3 DEF Next, ReconcilerNext, Operator, Tick, Restart, vars, boundVars

\* The task that takes a step: what it learns of its row.
LEMMA OwnRowKnown ==
  ASSUME TypeOK, TaskInv, OneSourceInv, QueueEmpty, PositiveInv, RowIsLatestSnapshot, ColumnInv,
         [NextRestart]_systemVars, NEW w \in Workers, WorkerStep(w)
  PROVE  RowKnown(w)'
  <1> DEFINE d == job[w].cur
             e == job'[w].cur
  <1>0. /\ WorkerTypeOK /\ job \in [Workers -> Job] /\ job[w] \in Job /\ pc \in [Workers -> Locations]
        /\ d \in Diffs /\ d.model \in Models /\ d.source \in Sources
        /\ prices \in [Models -> [Sources -> Row]] /\ [Next \/ Restart]_vars
    BY StepIsWorkerStep DEF TypeOK, WorkerTypeOK, StoreTypeOK, Job, Diffs
  <1>1. RowKnown(w)
    BY DEF ColumnInv
  <1>2. ASSUME pc'[w] = "gate", ~job'[w].found PROVE prices'[e.model][e.source].conf = "none"
    <2>1. LookupExisting(w)
      BY <1>0, <1>2, ComesFrom
    <2>2. PICK g, c, sib, found :
            /\ found \in BOOLEAN /\ c \in GroupOf(job[w].diffs, g)
            /\ job' = [job EXCEPT ![w] = [job[w] EXCEPT !.todo = job[w].todo \ {g}, !.cur = c,
                                                        !.sibling = sib, !.found = found]]
            /\ ~found => ~Exists(c.model, c.source)
      BY <1>0, <2>1, LookupMove
    <2> DEFINE n == [job[w] EXCEPT !.todo = job[w].todo \ {g}, !.cur = c,
                                   !.sibling = sib, !.found = found]
    <2>3. n.cur = c /\ n.found = found
      BY <1>0 DEF Job
    <2>4. job'[w] = n
      BY <1>0, <2>2
    <2> HIDE DEF n
    <2>5. c.model \in Models /\ c.source \in Sources
      <3>1. c \in job[w].diffs
        BY <2>2 DEF GroupOf
      <3> QED
        BY <1>0, <3>1 DEF Job, DiffSets, Diffs
    <2>6. UNCHANGED history
      BY <2>1 DEF LookupExisting, storeVars
    <2>7. SameColumns(c.model, c.source)
      BY <2>5, <2>6, QuietColumns
    <2> QED
      BY <1>2, <2>2, <2>3, <2>4, <2>7 DEF SameColumns, Exists
  <1>3. ASSUME pc'[w] = "hdel" PROVE job'[w].via = "confirm"
    BY <1>0, <1>3, ComesFrom, GateMove
  <1>4. ASSUME pc'[w] = "read", job'[w].via = "first" PROVE prices'[e.model][e.source].conf = "none"
    <2>1. ~DecideMulti(w)
      BY <1>0, NeverMulti
    <2>2. CASE Gate(w)
      <3>1. e = d /\ UNCHANGED history /\ ~job[w].found /\ pc[w] = "gate"
        BY <1>0, <1>4, <2>2, GateMove DEF Gate
      <3>2. SameColumns(d.model, d.source)
        BY <1>0, <3>1, QuietColumns
      <3> QED
        BY <1>1, <3>1, <3>2 DEF RowKnown, SameColumns, Exists
    <2>3. CASE DeletePending(w)
      <3>1. job' = job /\ pc[w] = "hdel"
        BY <2>3 DEF DeletePending
      <3> QED
        BY <1>1, <1>4, <3>1 DEF RowKnown
    <2> QED
      BY <1>0, <1>4, <2>1, <2>2, <2>3, ComesFrom
  <1>5. ASSUME pc'[w] = "write"
        PROVE  /\ job'[w].via = "first" => prices'[e.model][e.source].conf = "none"
               /\ faults' = 0 /\ prices'[e.model][e.source].conf # "none"
                    => job'[w].row[OtherField(e.field)] = prices'[e.model][e.source][OtherField(e.field)]
    <2>1. ReadCurrent(w) /\ pc[w] = "read"
      BY <1>0, <1>5, ComesFrom DEF ReadCurrent
    <2>2. PICK cur \in {prices[d.model][d.source], NoRow} :
            /\ cur = prices[d.model][d.source] \/ Fault
            /\ job'[w].row = Completed(d, cur, job[w].sibling)
            /\ job'[w].via = job[w].via /\ e = d
            /\ UNCHANGED history
      BY <1>0, <1>5, <2>1, ReadMove
    <2>3. SameColumns(d.model, d.source)
      BY <1>0, <2>2, QuietColumns
    <2>4. job'[w].via = "first" => prices'[e.model][e.source].conf = "none"
      BY <1>1, <2>1, <2>2, <2>3 DEF RowKnown, SameColumns, Exists
    <2>5. ASSUME faults' = 0, Exists(d.model, d.source)
          PROVE  job'[w].row[OtherField(d.field)] = prices'[d.model][d.source][OtherField(d.field)]
      <3> DEFINE o == OtherField(d.field)
      <3>1. cur = prices[d.model][d.source]
        BY <1>0, <2>2, <2>5, FaultsStay
      <3>2. o \in Fields /\ o # d.field
        BY <1>0 DEF Diffs, OtherField, Fields
      <3>3. cur[o] > 0
        BY <1>0, <2>5, <3>1, <3>2, ShownKept DEF Kept, Fields
      <3>4. job'[w].row[o] = cur[o]
        BY <2>2, <3>2, <3>3 DEF Completed
      <3> QED
        BY <2>3, <3>1, <3>2, <3>4 DEF SameColumns, Exists
    <2> QED
      BY <2>2, <2>3, <2>4, <2>5 DEF SameColumns, Exists
  <1> QED
    BY <1>2, <1>3, <1>4, <1>5 DEF RowKnown, Exists

\* What every task knows of its row survives every step.
LEMMA ColumnStep ==
  ASSUME TypeOK, TaskInv, ApartInv, OneSourceInv, QueueEmpty, PositiveInv, RowIsLatestSnapshot,
         ColumnInv, [NextRestart]_systemVars
  PROVE  ColumnInv'
  <1>0. /\ WorkerTypeOK /\ job \in [Workers -> Job] /\ pc \in [Workers -> Locations]
        /\ [Next \/ Restart]_vars /\ ~Operator /\ (faults' = 0 => faults = 0)
    BY StepIsWorkerStep, FaultsStay, QueueStaysEmpty DEF TypeOK, WorkerTypeOK
  <1>a. \A w \in Workers : job[w].cur.model \in Models /\ job[w].cur.source \in Sources
    BY <1>0 DEF Job, Diffs
  <1>1. ASSUME NEW w \in Workers, UNCHANGED history, job'[w] = job[w], pc'[w] = pc[w]
        PROVE  RowKnown(w)'
    BY <1>0, <1>a, <1>1, QuietColumns, KnownStays DEF ColumnInv
  <1>2. ASSUME NEW w \in Workers, pc'[w] \notin OpenGroup PROVE RowKnown(w)'
    BY <1>2 DEF RowKnown, OpenGroup
  <1>3. ASSUME NEW v \in Workers, WorkerStep(v), NEW w \in Workers PROVE RowKnown(w)'
    <2>1. CASE w = v
      BY <1>3, <2>1, OwnRowKnown
    <2>2. CASE w # v
      <3>1. job'[w] = job[w] /\ pc'[w] = pc[w]
        BY <1>0, <1>3, <2>2, StepSteady DEF Steady, OthersIdle
      <3>2. CASE PublishPrice(v)
        <4>1. pc[v] \in OpenGroup
          BY <3>2 DEF PublishPrice, OpenGroup
        <4>2. ASSUME pc[w] \in OpenGroup PROVE SameColumns(job[w].cur.model, job[w].cur.source)
          <5>1. job[w].cur.source # job[v].cur.source
            BY <2>2, <4>1, <4>2, RowsApart
          <5> QED
            BY <1>a, <3>2, <5>1, CommitColumns
        <4> QED
          BY <1>0, <3>1, <4>2, KnownStays DEF ColumnInv
      <3>3. CASE ~PublishPrice(v)
        <4>1. UNCHANGED history
          BY <1>3, <3>3 DEF WorkerStep, ReadMirror, MergeMirror, Sweep, EvictMirror, ResolveSources,
             SkipGroup, LookupExisting, DecideMulti, Gate, PersistPending, RefreshTTL, DeletePending, ReadCurrent,
             PublishEvent, MarkVerified, storeVars
        <4> QED
          BY <1>1, <3>1, <4>1
      <3> QED
        BY <3>2, <3>3
    <2> QED
      BY <2>1, <2>2
  <1>4. ASSUME NEW v \in Workers, Scrape(v), NEW w \in Workers PROVE RowKnown(w)'
    <2>1. OthersIdle(v) /\ pc'[v] \notin OpenGroup /\ UNCHANGED history
      BY <1>0, <1>4, ScrapeMove DEF Scrape, storeVars
    <2> QED
      BY <1>1, <1>2, <2>1 DEF OthersIdle
  <1>5. ASSUME Restart, NEW w \in Workers PROVE RowKnown(w)'
    <2>1. pc'[w] = "idle"
      BY <1>5 DEF Restart
    <2> QED
      BY <1>2, <2>1 DEF OpenGroup
  <1>6. ASSUME Tick \/ UNCHANGED systemVars, NEW w \in Workers PROVE RowKnown(w)'
    <2>1. UNCHANGED <<history, pc, job>>
      BY <1>6 DEF Tick, systemVars, vars, storeVars
    <2> QED
      BY <1>1, <2>1
  <1> QED
    BY <1>0, <1>3, <1>4, <1>5, <1>6 DEF ColumnInv, NextRestart, Next, ReconcilerNext

-----------------------------------------------------------------------------
\* A first price has no predecessor, and without a failed round trip the column that a snapshot
\* is not for is its predecessor's.
LogInv ==
  /\ \A i \in DOMAIN history : history[i].via = "first" => Replaced(i) = {}
  /\ faults = 0 => UnchangedColumnPreserved

\* The predecessor of a snapshot is settled when the snapshot is committed.
LEMMA ReplacedStays ==
  ASSUME LogGrows, NEW i \in DOMAIN history, history \in Seq(Snapshot)
  PROVE  Replaced(i)' = Replaced(i) /\ Replaced(i) \subseteq DOMAIN history
  <1>1. i \in Nat /\ \A k \in 1..(i - 1) : k \in DOMAIN history
    OBVIOUS
  <1>2. \A k \in 1..(i - 1) : SameRow(i, k)' <=> SameRow(i, k)
    BY <1>1, SameRowStays
  <1>3. \A j \in 1..(i - 1) : \A k \in (j + 1)..(i - 1) : k \in 1..(i - 1)
    BY <1>1
  <1> QED
    BY <1>1, <1>2, <1>3 DEF Replaced

\* The row that a new snapshot replaces is the one that prices shows.
LEMMA ReplacesShown ==
  ASSUME history \in Seq(Snapshot), RowIsLatestSnapshot, NEW h \in Snapshot,
         history' = Append(history, h), NEW j, NEW n, n = Len(history) + 1, j \in Replaced(n)'
  PROVE  /\ j \in DOMAIN history
         /\ Exists(h.model, h.source)
         /\ prices[h.model][h.source].input = history[j].input
         /\ prices[h.model][h.source].output = history[j].output
  <1> DEFINE m == h.model
             s == h.source
             mine == {i \in DOMAIN history : history[i].model = m /\ history[i].source = s}
  <1>0. m \in Models /\ s \in Sources
    BY DEF Snapshot
  <1>1. /\ history'[n] = h /\ Len(history) \in Nat
        /\ \A i \in DOMAIN history : history'[i] = history[i] /\ i \in 1..(n - 1)
        /\ 1..(n - 1) = DOMAIN history
    OBVIOUS
  <1> DEFINE Same(a, b) == history'[a].model = history'[b].model /\ history'[a].source = history'[b].source
  <1>2. /\ j \in 1..(n - 1) /\ Same(n, j)
        /\ \A k \in (j + 1)..(n - 1) : ~Same(n, k)
    BY DEF Replaced, SameRow
  <1>3. \A i \in DOMAIN history : Same(n, i) <=> i \in mine
    BY <1>1
  <1>4. j \in mine /\ \A k \in mine : k <= j
    BY <1>1, <1>2, <1>3
  <1>5. Exists(m, s) \/ mine = {}
    <2>1. CASE mine # {}
      <3>1. PICK i \in mine : prices[m][s].conf = history[i].conf
        BY <1>0, <2>1 DEF RowIsLatestSnapshot
      <3>2. history[i] \in Snapshot
        OBVIOUS
      <3>3. history[i].conf \in Confidences
        BY <3>2 DEF Snapshot
      <3> QED
        BY <3>1, <3>3 DEF Exists, Confidences
    <2> QED
      BY <2>1
  <1>6. PICK i \in mine : /\ \A k \in mine : k <= i
                          /\ prices[m][s].input = history[i].input
                          /\ prices[m][s].output = history[i].output
    BY <1>0, <1>4 DEF RowIsLatestSnapshot
  <1>7. i = j
    BY <1>4, <1>6
  <1> QED
    BY <1>4, <1>5, <1>6, <1>7

\* A commit keeps the column that it is not for.
LEMMA LogCommit ==
  ASSUME TypeOK, PositiveInv, RowIsLatestSnapshot, ColumnInv, LogInv, LogGrows,
         faults' = 0 => faults = 0,
         NEW w \in Workers, pc[w] = "write", WritePrice(SnapshotOf(w), now)
  PROVE  LogInv'
  <1> DEFINE d == job[w].cur
             snap == SnapshotOf(w)
             h == Rounded(snap)
  <1>0. history \in Seq(Snapshot) /\ job[w] \in Job /\ d \in Diffs
    BY DEF TypeOK, WorkerTypeOK, StoreTypeOK, Job
  <1>1. /\ snap \in Snapshot
        /\ snap.input = job[w].row["input"] /\ snap.output = job[w].row["output"]
        /\ snap.model = d.model /\ snap.source = d.source /\ snap.via = job[w].via /\ snap.field = d.field
    BY <1>0 DEF SnapshotOf, Snapshot, Job, Diffs, Fields, PricePair
  <1>2. history' = Append(history, h)
    BY DEF WritePrice
  <1> HIDE DEF snap
  <1>3. /\ h \in Snapshot /\ h.input = Stored(snap.input) /\ h.output = Stored(snap.output)
        /\ h.model = snap.model /\ h.source = snap.source /\ h.via = snap.via /\ h.field = snap.field
    BY <1>1, StoredType DEF Rounded, Snapshot
  <1> HIDE DEF h
  <1>4. PICK n : n = Len(history) + 1
    OBVIOUS
  <1>5. /\ DOMAIN history' = DOMAIN history \cup {n} /\ history'[n] = h
        /\ \A i \in DOMAIN history : history'[i] = history[i]
    BY <1>0, <1>2, <1>3, <1>4
  <1>6. \A i \in DOMAIN history : Replaced(i)' = Replaced(i) /\ Replaced(i) \subseteq DOMAIN history
    BY <1>0, ReplacedStays
  <1>7. \A j \in Replaced(n)' : /\ j \in DOMAIN history
                                /\ Exists(d.model, d.source)
                                /\ prices[d.model][d.source].input = history[j].input
                                /\ prices[d.model][d.source].output = history[j].output
    BY <1>0, <1>1, <1>2, <1>3, <1>4, ReplacesShown
  <1>8. RowKnown(w)
    BY DEF ColumnInv
  <1>9. \A i \in DOMAIN history' : history'[i].via = "first" => Replaced(i)' = {}
    <2>1. history'[n].via = "first" => Replaced(n)' = {}
      BY <1>1, <1>3, <1>5, <1>7, <1>8 DEF RowKnown
    <2> QED
      BY <1>5, <1>6, <2>1 DEF LogInv
  <1>10. ASSUME faults' = 0 PROVE UnchangedColumnPreserved'
    <2>1. ASSUME NEW j \in Replaced(n)'
          PROVE  LET o == OtherField(h.field) IN Column(h, o) = Column(history[j], o)
      <3> DEFINE o == OtherField(d.field)
      <3>1. job[w].row[o] = prices[d.model][d.source][o]
        BY <1>7, <1>8, <1>10, <2>1 DEF RowKnown
      <3>2. d.model \in Models /\ d.source \in Sources /\ o \in Fields
        BY <1>0 DEF Diffs, OtherField, Fields
      <3>3. Kept(prices[d.model][d.source].input) /\ Kept(prices[d.model][d.source].output)
        BY <1>7, <2>1, <3>2, ShownKept
      <3>4. OtherField(h.field) = o
        BY <1>1, <1>3
      <3>5. CASE o = "input"
        <4>1. h.input = Stored(prices[d.model][d.source].input)
          BY <1>1, <1>3, <3>1, <3>5
        <4>2. h.input = history[j].input
          BY <1>7, <2>1, <3>3, <4>1 DEF Kept
        <4> QED
          BY <3>4, <3>5, <4>2 DEF Column
      <3>6. CASE o = "output"
        <4>1. h.output = Stored(prices[d.model][d.source].output)
          BY <1>1, <1>3, <3>1, <3>6
        <4>2. h.output = history[j].output
          BY <1>7, <2>1, <3>3, <4>1 DEF Kept
        <4> QED
          BY <3>4, <3>6, <4>2 DEF Column
      <3> QED
        BY <3>2, <3>5, <3>6 DEF Fields
    <2>2. UnchangedColumnPreserved
      BY <1>10 DEF LogInv
    <2>3. ASSUME NEW i \in DOMAIN history', NEW j \in Replaced(i)'
          PROVE  LET o == OtherField(history'[i].field) IN Column(history'[i], o) = Column(history'[j], o)
      <3>1. CASE i = n
        <4>1. history'[i] = h /\ history'[j] = history[j]
          BY <1>5, <1>7, <2>3, <3>1
        <4> QED
          BY <2>1, <2>3, <3>1, <4>1
      <3>2. CASE i \in DOMAIN history
        <4>1. j \in Replaced(i) /\ history'[i] = history[i] /\ history'[j] = history[j]
          BY <1>5, <1>6, <2>3, <3>2
        <4> QED
          BY <2>2, <3>2, <4>1 DEF UnchangedColumnPreserved
      <3> QED
        BY <1>5, <3>1, <3>2
    <2> QED
      BY <2>3 DEF UnchangedColumnPreserved, Column
  <1> QED
    BY <1>9, <1>10 DEF LogInv

\* Every step keeps the log so.
LEMMA LogInvStep ==
  ASSUME TypeOK, TaskInv, OneSourceInv, QueueEmpty, PositiveInv, RowIsLatestSnapshot, ColumnInv, LogInv,
         [NextRestart]_systemVars
  PROVE  LogInv'
  <1>0. /\ WorkerTypeOK /\ ~Operator /\ (faults' = 0 => faults = 0) /\ LogGrows
    BY StepIsWorkerStep, FaultsStay, QueueStaysEmpty, LogStep DEF TypeOK
  <1>1. CASE UNCHANGED history
    <2>1. \A i : Replaced(i)' = Replaced(i)
      BY <1>1 DEF Replaced, SameRow
    <2> QED
      BY <1>0, <1>1, <2>1 DEF LogInv, UnchangedColumnPreserved
  <1>2. ASSUME NEW w \in Workers, PublishPrice(w) PROVE LogInv'
    <2>1. pc[w] = "write" /\ (WritePrice(SnapshotOf(w), now) \/ UNCHANGED history)
      BY <1>2 DEF PublishPrice
    <2> QED
      BY <1>0, <1>1, <2>1, LogCommit
  <1> QED
    BY <1>0, <1>1, <1>2, CommitIsPublish

\* Everything that the two theorems below rest on.
RowInv ==
  /\ TaskInv /\ ApartInv /\ OneSourceInv /\ QueueEmpty
  /\ PositiveInv /\ RowIsLatestSnapshot /\ ColumnInv /\ LogInv

\* What the deployed schedule makes of the tables, in every reachable state.
LEMMA RowInvHolds ==
  ASSUME OneSourceTasks, TasksApart, PricesKeepDigits
  PROVE  SpecRestart => []RowInv
  <1>1. Init => TaskInv /\ ApartInv /\ OneSourceInv /\ QueueEmpty /\ PositiveInv /\ ColumnInv /\ LogInv
    <2>1. IdleJob.listed = {} /\ IdleJob.diffs = {} /\ "idle" \notin OpenGroup
      BY DEF IdleJob, OpenGroup
    <2>2. NoRow.input = 0 /\ NoRow.output = 0
      BY DEF NoRow
    <2> SUFFICES ASSUME Init
                 PROVE  /\ TaskInv /\ ApartInv /\ OneSourceInv /\ QueueEmpty
                        /\ PositiveInv /\ ColumnInv /\ LogInv
      OBVIOUS
    <2>3. TaskInv /\ ApartInv /\ OneSourceInv /\ QueueEmpty /\ PositiveInv
      BY <2>1, <2>2 DEF Init, ReconcilerInit, StoreInit, TaskInv, ApartInv, OneSourceInv, QueueEmpty,
         PositiveInv
    <2>4. ColumnInv
      BY DEF Init, ReconcilerInit, ColumnInv, RowKnown
    <2>5. LogInv
      BY DEF Init, ReconcilerInit, StoreInit, LogInv, UnchangedColumnPreserved
    <2> QED
      BY <2>3, <2>4, <2>5
  <1>2. /\ TypeOK /\ TaskInv /\ ApartInv /\ OneSourceInv /\ QueueEmpty /\ PositiveInv /\ ColumnInv /\ LogInv
        /\ RowIsLatestSnapshot /\ [NextRestart]_systemVars
        => TaskInv' /\ ApartInv' /\ OneSourceInv' /\ QueueEmpty' /\ PositiveInv' /\ ColumnInv' /\ LogInv'
    <2> SUFFICES ASSUME TypeOK, TaskInv, ApartInv, OneSourceInv, QueueEmpty, PositiveInv, ColumnInv, LogInv,
                        RowIsLatestSnapshot, [NextRestart]_systemVars
                 PROVE  /\ TaskInv' /\ ApartInv' /\ OneSourceInv' /\ QueueEmpty'
                        /\ PositiveInv' /\ ColumnInv' /\ LogInv'
      OBVIOUS
    <2>1. TaskInv' /\ ApartInv' /\ OneSourceInv'
      BY TaskStep, ApartStep, OneSourceStep, StepIsWorkerStep DEF TypeOK
    <2>2. QueueEmpty' /\ PositiveInv'
      BY QueueStaysEmpty, PositiveStep
    <2>3. ColumnInv' /\ LogInv'
      BY ColumnStep, LogInvStep
    <2> QED
      BY <2>1, <2>2, <2>3
  <1> QED
    BY <1>1, <1>2, TypeCorrect, RowsShowTheLog, PTL DEF SpecRestart, RowInv

\* Where the tasks of a source do not overlap and no round trip has failed, a write for one
\* column carries the other column over from the row it replaces, across restarts and whatever
\* the other tasks do between publish's read and its transaction.
THEOREM OtherColumnKept ==
  OneSourceTasks /\ TasksApart /\ PricesKeepDigits
    => (SpecRestart => [](faults = 0 => UnchangedColumnPreserved))
  <1> SUFFICES ASSUME OneSourceTasks, TasksApart, PricesKeepDigits
               PROVE  SpecRestart => [](faults = 0 => UnchangedColumnPreserved)
    OBVIOUS
  <1>1. RowInv => (faults = 0 => UnchangedColumnPreserved)
    BY DEF RowInv, LogInv
  <1> QED
    BY <1>1, RowInvHolds, PTL

\* "a single noisy scrape cannot overwrite a confirmed value", for both columns of a row: under
\* the same schedule every column that a write of the gate changes was sighted twice with its
\* new value, the column that the write is not for included.
THEOREM NoiseKeptOut ==
  OneSourceTasks /\ TasksApart /\ PricesKeepDigits
    => (SpecRestart => [](faults = 0 => SingleScrapeCannotOverwrite))
  <1> SUFFICES ASSUME OneSourceTasks, TasksApart, PricesKeepDigits
               PROVE  SpecRestart => [](faults = 0 => SingleScrapeCannotOverwrite)
    OBVIOUS
  <1>1. ASSUME TypeOK, RowInv, GateInv, faults = 0
        PROVE  SingleScrapeCannotOverwrite
    <2>0. history \in Seq(Snapshot)
      BY <1>1 DEF TypeOK, WorkerTypeOK, StoreTypeOK
    <2> SUFFICES ASSUME NEW i \in DOMAIN history, history[i].via \in {"first", "confirm"},
                        NEW j \in Replaced(i), NEW f \in Fields,
                        Column(history[i], f) # Column(history[j], f)
                 PROVE  SightedTwice(<<history[i].model, f, EffectiveProvider(history[i])>>,
                                     Column(history[i], f))
      BY DEF SingleScrapeCannotOverwrite
    <2>1. history[i].via = "confirm"
      BY <1>1 DEF RowInv, LogInv
    <2>2. f # OtherField(history[i].field)
      BY <1>1 DEF RowInv, LogInv, UnchangedColumnPreserved
    <2>3. history[i].field \in Fields
      <3>1. history[i] \in Snapshot
        BY <2>0
      <3> QED
        BY <3>1 DEF Snapshot
    <2>4. f = history[i].field
      BY <2>2, <2>3 DEF Fields, OtherField
    <2> QED
      BY <1>1, <2>1, <2>4 DEF GateInv, ConfirmedWasSightedTwice, SnapKey
  <1> QED
    BY <1>1, RowInvHolds, TypeCorrect, OnlySightedHeld, PTL

-----------------------------------------------------------------------------
(* The mirror. What an HSET writes was seen no later than now, and its EXPIRE *)
(* moves the deadline of the hash past everything in it.                      *)

SeenInv ==
  /\ \A k \in Keys : mirror[k].seen <= now
  /\ \A w \in Workers : pc[w] = "hset" => job[w].entry.seen <= now

HashInv == SeenInv /\ HashOutlivesItsEntries

\* A worker that is not about to set the TTL, in a step away from the hash.
LEMMA HashFrame ==
  ASSUME WorkerTypeOK, WorkerTypeOK', HashInv, UNCHANGED <<mirror, expires>>, now' >= now,
         faults' = 0 /\ restarts' = 0 => faults = 0 /\ restarts = 0,
         NEW w \in Workers, OthersIdle(w), pc[w] # "expire",
         pc'[w] = "hset" => job'[w].entry.seen <= now'
  PROVE  HashInv'
  <1>0. now \in Nat /\ now' \in Nat /\ mirror \in [Keys -> Entry] /\ job \in [Workers -> Job]
    BY DEF WorkerTypeOK, PendingMap
  <1>1. ASSUME NEW k \in Keys PROVE mirror'[k].seen <= now'
    <2>1. mirror[k].seen \in Nat /\ mirror[k].seen <= now
      BY <1>0 DEF HashInv, SeenInv, Entry
    <2> QED
      BY <1>0, <2>1
  <1>2. ASSUME NEW v \in Workers, pc'[v] = "hset" PROVE job'[v].entry.seen <= now'
    <2>1. CASE v = w
      BY <1>2, <2>1
    <2>2. CASE v # w
      <3>1. job'[v] = job[v] /\ job[v].entry.seen \in Nat /\ job[v].entry.seen <= now
        BY <1>0, <1>2, <2>2 DEF HashInv, SeenInv, OthersIdle, Job, Entry
      <3> QED
        BY <1>0, <3>1
    <2> QED
      BY <2>1, <2>2
  <1>3. ASSUME faults' = 0, restarts' = 0, NEW k \in Keys, mirror'[k].count > 0
        PROVE  \/ mirror'[k].seen + PendingTTL <= expires'
               \/ \E v \in Workers : pc'[v] = "expire" /\ KeyOf(job'[v].cur) = k
    <2>1. \/ mirror[k].seen + PendingTTL <= expires
          \/ \E v \in Workers : pc[v] = "expire" /\ KeyOf(job[v].cur) = k
      BY <1>3 DEF HashInv, HashOutlivesItsEntries
    <2> QED
      BY <2>1 DEF OthersIdle
  <1> QED
    BY <1>1, <1>2, <1>3 DEF HashInv, SeenInv, HashOutlivesItsEntries

\* Every step keeps the deadline of the hash behind its entries.
LEMMA HashStep ==
  ASSUME WorkerTypeOK, WorkerTypeOK', HashInv, [Next \/ Restart]_vars
  PROVE  HashInv'
  <1>0. /\ now \in Nat /\ now' \in Nat /\ faults \in Nat /\ restarts \in Nat /\ PendingTTL \in Nat
        /\ mirror \in [Keys -> Entry] /\ mirror' \in [Keys -> Entry]
        /\ job \in [Workers -> Job] /\ pc \in [Workers -> Locations] /\ expires \in Nat
    BY ReconcilerAssumption DEF WorkerTypeOK, PendingMap
  <1>e. ~(NoEntry.count > 0) /\ NoEntry.seen = 0
    BY DEF NoEntry
  <1>k. \A w \in Workers : KeyOf(job[w].cur) \in Keys
    BY <1>0, KeyType DEF Job
  \* A step of a worker that removes entries, and the deadline with the last of them.
  <1>1. ASSUME NEW w \in Workers, OthersIdle(w), pc[w] # "expire", pc'[w] # "hset",
               now' = now, UNCHANGED restarts, faults' = 0 => faults = 0,
               \A k \in Keys : mirror'[k] = mirror[k] \/ mirror'[k] = NoEntry,
               expires' = expires \/ mirror' = EmptyMap
        PROVE  HashInv'
    <2>1. SeenInv'
      BY <1>0, <1>1, <1>e DEF HashInv, SeenInv, OthersIdle
    <2>2. ASSUME faults' = 0, restarts' = 0, NEW k \in Keys, mirror'[k].count > 0
          PROVE  \/ mirror'[k].seen + PendingTTL <= expires'
                 \/ \E v \in Workers : pc'[v] = "expire" /\ KeyOf(job'[v].cur) = k
      <3>1. mirror'[k] = mirror[k] /\ expires' = expires
        BY <1>1, <1>e, <2>2, EmptySeen
      <3>2. \/ mirror[k].seen + PendingTTL <= expires
            \/ \E v \in Workers : pc[v] = "expire" /\ KeyOf(job[v].cur) = k
        BY <1>1, <2>2, <3>1 DEF HashInv, HashOutlivesItsEntries
      <3> QED
        BY <1>1, <3>1, <3>2 DEF OthersIdle
    <2> QED
      BY <2>1, <2>2 DEF HashInv, HashOutlivesItsEntries
  <1>2. ASSUME NEW w \in Workers, EvictMirror(w) \/ DeletePending(w) PROVE HashInv'
    <2>1. OthersIdle(w)
      BY <1>2, StepSteady DEF WorkerStep, Steady
    <2>2. /\ pc[w] # "expire" /\ pc'[w] # "hset" /\ now' = now
          /\ UNCHANGED restarts /\ (faults' = 0 => faults = 0)
      BY <1>0, <1>2 DEF EvictMirror, DeletePending, Goto, Fault
    <2>3. \A k \in Keys : mirror'[k] = mirror[k] \/ mirror'[k] = NoEntry
      BY <1>0, <1>2 DEF EvictMirror, DeletePending
    <2>4. expires' = expires \/ mirror' = EmptyMap
      BY <1>2 DEF EvictMirror, DeletePending, KeepDeadline
    <2> QED
      BY <1>1, <2>1, <2>2, <2>3, <2>4
  <1>3. ASSUME NEW w \in Workers, Gate(w) PROVE HashInv'
    <2>1. OthersIdle(w)
      BY <1>3, StepSteady DEF WorkerStep, Steady
    <2>2. /\ UNCHANGED <<mirror, expires, now, faults, restarts>> /\ pc[w] # "expire"
      BY <1>3 DEF Gate, boundVars
    <2>3. ASSUME pc'[w] = "hset" PROVE job'[w].entry.seen <= now'
      <3>1. PICK n : job' = [job EXCEPT ![w].entry = n] /\ n.seen = now
        BY <1>0, <1>3, <2>3 DEF Gate, Goto
      <3>2. job'[w].entry = n
        BY <1>0, <3>1 DEF Job
      <3> QED
        BY <1>0, <2>2, <3>1, <3>2
    <2>4. now' >= now
      BY <1>0, <2>2
    <2> QED
      BY <2>1, <2>2, <2>3, <2>4, HashFrame
  <1>4. ASSUME NEW w \in Workers, PersistPending(w) PROVE HashInv'
    <2> DEFINE k == KeyOf(job[w].cur)
    <2>1. OthersIdle(w)
      BY <1>4, StepSteady DEF WorkerStep, Steady
    <2>2. /\ pc[w] = "hset" /\ UNCHANGED <<expires, now, restarts>>
          /\ \/ mirror' = [mirror EXCEPT ![k] = job[w].entry]
             \/ UNCHANGED mirror
      BY <1>4 DEF PersistPending
    <2>3. SeenInv'
      <3>1. pc'[w] # "hset"
        BY <1>0, <1>4 DEF PersistPending, Goto, EndGroup
      <3>2. job[w].entry.seen <= now
        BY <2>2 DEF HashInv, SeenInv
      <3> QED
        BY <1>0, <2>1, <2>2, <3>1, <3>2 DEF HashInv, SeenInv, OthersIdle
    <2>4. ASSUME faults' = 0, restarts' = 0, NEW j \in Keys, mirror'[j].count > 0
          PROVE  \/ mirror'[j].seen + PendingTTL <= expires'
                 \/ \E v \in Workers : pc'[v] = "expire" /\ KeyOf(job'[v].cur) = j
      <3>1. pc'[w] = "expire" /\ job' = job /\ faults = 0 /\ restarts = 0
        BY <1>0, <1>4, <2>2, <2>4 DEF PersistPending, Goto, Fault
      <3>2. CASE j = k
        BY <3>1, <3>2
      <3>3. CASE j # k
        <4>1. mirror'[j] = mirror[j]
          BY <1>0, <2>2, <3>3
        <4>2. \/ mirror[j].seen + PendingTTL <= expires
              \/ \E v \in Workers : pc[v] = "expire" /\ KeyOf(job[v].cur) = j
          BY <2>4, <3>1, <4>1 DEF HashInv, HashOutlivesItsEntries
        <4> QED
          BY <2>1, <2>2, <3>1, <4>1, <4>2 DEF OthersIdle
      <3> QED
        BY <3>2, <3>3
    <2> QED
      BY <2>3, <2>4 DEF HashInv, HashOutlivesItsEntries
  <1>5. ASSUME NEW w \in Workers, RefreshTTL(w) PROVE HashInv'
    <2>1. OthersIdle(w)
      BY <1>5, StepSteady DEF WorkerStep, Steady
    <2>2. UNCHANGED <<mirror, now, restarts>> /\ pc'[w] # "hset"
      BY <1>0, <1>5 DEF RefreshTTL, EndGroup
    <2>3. SeenInv'
      BY <2>1, <2>2 DEF HashInv, SeenInv, OthersIdle
    <2>4. ASSUME faults' = 0, NEW k \in Keys, mirror'[k].count > 0
          PROVE  mirror'[k].seen + PendingTTL <= expires'
      <3>1. expires' = now + PendingTTL
        BY <1>0, <1>5, <2>2, <2>4, EmptySeen DEF RefreshTTL, Fault
      <3>2. mirror[k].seen <= now /\ mirror[k].seen \in Nat
        BY <1>0 DEF HashInv, SeenInv, Entry
      <3> QED
        BY <1>0, <2>2, <3>1, <3>2
    <2> QED
      BY <2>3, <2>4 DEF HashInv, HashOutlivesItsEntries
  <1>6. ASSUME NEW w \in Workers, WorkerStep(w), ~EvictMirror(w), ~DeletePending(w), ~Gate(w),
               ~PersistPending(w), ~RefreshTTL(w)
        PROVE  HashInv'
    <2>1. OthersIdle(w) /\ pc'[w] # "hset"
      BY <1>6, StepSteady, ComesFrom DEF Steady
    <2>2. UNCHANGED <<mirror, expires, now, restarts>> /\ pc[w] # "expire"
      BY <1>6 DEF WorkerStep, ReadMirror, MergeMirror, Sweep, ResolveSources, SkipGroup, LookupExisting,
         DecideMulti, ReadCurrent, PublishPrice, PublishEvent, MarkVerified, boundVars
    <2>3. (faults' = 0 => faults = 0) /\ now' >= now
      BY <1>0, <1>6, <2>2, FaultStep
    <2> QED
      BY <2>1, <2>2, <2>3, HashFrame
  <1>7. ASSUME NEW w \in Workers, Scrape(w) PROVE HashInv'
    <2>1. OthersIdle(w) /\ pc[w] # "expire" /\ pc'[w] # "hset"
      BY <1>7, ScrapeMove DEF OpenGroup
    <2>2. UNCHANGED <<mirror, expires, now, faults, restarts>>
      BY <1>7 DEF Scrape
    <2>3. now' >= now
      BY <1>0, <2>2
    <2> QED
      BY <2>1, <2>2, <2>3, HashFrame
  <1>8. CASE Tick
    <2>1. UNCHANGED <<pc, job, faults, restarts>> /\ now' = now + 1
      BY <1>8 DEF Tick, boundVars
    <2>2. \/ UNCHANGED <<mirror, expires>>
          \/ mirror' = EmptyMap
      BY <1>8 DEF Tick, DropHash
    <2>3. SeenInv'
      <3>1. ASSUME NEW k \in Keys PROVE mirror'[k].seen <= now'
        <4>1. mirror'[k].seen <= now /\ mirror'[k].seen \in Nat
          BY <1>0, <1>e, <2>2, EmptySeen DEF HashInv, SeenInv, Entry
        <4> QED
          BY <1>0, <2>1, <4>1
      <3>2. ASSUME NEW w \in Workers, pc[w] = "hset" PROVE job[w].entry.seen <= now'
        <4>1. job[w].entry.seen <= now /\ job[w].entry.seen \in Nat
          BY <1>0, <3>2 DEF HashInv, SeenInv, Job, Entry
        <4> QED
          BY <1>0, <2>1, <4>1
      <3> QED
        BY <2>1, <3>1, <3>2 DEF SeenInv
    <2>4. HashOutlivesItsEntries'
      <3>1. CASE UNCHANGED <<mirror, expires>>
        BY <2>1, <3>1 DEF HashInv, HashOutlivesItsEntries
      <3>2. CASE mirror' = EmptyMap
        BY <3>2, EmptySeen DEF HashOutlivesItsEntries
      <3> QED
        BY <2>2, <3>1, <3>2
    <2> QED
      BY <2>3, <2>4 DEF HashInv
  <1>9. CASE Restart
    <2>1. UNCHANGED <<mirror, now>> /\ restarts' # 0 /\ \A w \in Workers : pc'[w] = "idle"
      BY <1>0, <1>9 DEF Restart
    <2> QED
      BY <2>1 DEF HashInv, SeenInv, HashOutlivesItsEntries
  <1>10. CASE Operator \/ UNCHANGED vars
    <2>1. UNCHANGED <<mirror, expires, now, pc, job, faults, restarts>>
      BY <1>10 DEF Operator, vars, boundVars
    <2> QED
      BY <2>1 DEF HashInv, SeenInv, HashOutlivesItsEntries
  <1> QED
    BY <1>2, <1>3, <1>4, <1>5, <1>6, <1>7, <1>8, <1>9, <1>10 DEF Next, ReconcilerNext

\* "rolling pendingTTL": with any number of tasks at work on the hash, each HSET of one between
\* the HSET and the EXPIRE of another, Redis does not drop the hash within the lifetime of an
\* entry in it, but for the entry whose own EXPIRE is still to come.
THEOREM RollingTTL == SpecRestart => []HashOutlivesItsEntries
  <1>1. Init => HashInv
    BY EmptySeen DEF Init, ReconcilerInit, HashInv, SeenInv, HashOutlivesItsEntries, NoEntry
  <1>2. TypeOK /\ TypeOK' /\ HashInv /\ [NextRestart]_systemVars => HashInv'
    BY HashStep, StepIsWorkerStep DEF TypeOK
  <1>3. HashInv => HashOutlivesItsEntries
    BY DEF HashInv
  <1> QED
    BY <1>1, <1>2, <1>3, TypeCorrect, PTL DEF SpecRestart

-----------------------------------------------------------------------------
(* No used-up sighting in the mirror. Of a key with one source, what the hash *)
(* holds and a load would take is what the map holds, or one task is between  *)
(* its decision about the key and the HSET or HDEL that mirrors it.           *)

Live(k) == mirror[k].count > 0 /\ ~Stale(mirror[k])

Deciding(w, k) == pc[w] \in {"hset", "hdel"} /\ KeyOf(job[w].cur) = k

GhostFree ==
  /\ ~loaded =>
       /\ pending = EmptyMap
       /\ \A w \in Workers : pc[w] \in {"idle", "load", "merge", "verify"}
       /\ \A w \in Workers : pc[w] = "merge" => \A k \in Keys : Live(k) => job[w].snap[k] = mirror[k]
  /\ \A w \in Workers : pc[w] = "hset" /\ SoleSource(KeyOf(job[w].cur)) =>
       pending[KeyOf(job[w].cur)] = job[w].entry \/ Stale(job[w].entry)
  /\ loaded => \A k \in Keys : SoleSource(k) /\ Live(k) =>
       mirror[k] = pending[k] \/ \E w \in Workers : Deciding(w, k)

GhostInv == faults = 0 => GhostFree

\* What is stale stays stale.
LEMMA StaleStays ==
  ASSUME WorkerTypeOK, WorkerTypeOK', now' >= now, NEW e \in Entry, Stale(e)
  PROVE  e.count > 0 /\ e.seen + PendingTTL < now'
  BY ReconcilerAssumption DEF Stale, Entry, WorkerTypeOK

\* So what is live was live before.
LEMMA LiveWas ==
  ASSUME WorkerTypeOK, WorkerTypeOK', now' >= now, NEW k \in Keys, Live(k)', mirror'[k] = mirror[k]
  PROVE  Live(k)
  <1>1. mirror[k] \in Entry
    BY DEF WorkerTypeOK, PendingMap
  <1> QED
    BY <1>1, StaleStays DEF Live, Stale

\* Two tasks that are apart are not about to write the same key, when it has one source.
LEMMA OneDecides ==
  ASSUME WorkerTypeOK, TaskInv, ApartInv, NEW v \in Workers, NEW w \in Workers,
         pc[v] \in OpenGroup, pc[w] \in OpenGroup,
         KeyOf(job[v].cur) = KeyOf(job[w].cur), SoleSource(KeyOf(job[w].cur))
  PROVE  v = w
  <1>1. job[v].cur \in Diffs /\ job[w].cur \in Diffs
    BY DEF WorkerTypeOK, Job
  <1> DEFINE d == job[v].cur
             e == job[w].cur
             k == KeyOf(e)
  <1>2. /\ d.source \in Sources /\ e.source \in Sources
        /\ k[1] = e.model /\ k[3] = EffectiveProvider(e)
        /\ k[1] = d.model /\ k[3] = EffectiveProvider(d)
    BY <1>1 DEF KeyOf, Diffs
  <1>3. /\ EffectiveProvider([source |-> d.source, model |-> k[1]]) = k[3]
        /\ EffectiveProvider([source |-> e.source, model |-> k[1]]) = k[3]
    BY <1>2 DEF EffectiveProvider
  <1>4. d.source = e.source
    BY <1>2, <1>3 DEF SoleSource
  <1> QED
    BY <1>4, RowsApart

\* The entry that a task is about to mirror is the one in the map, or has lapsed: a step that
\* lets the entries of the map be, or sweeps stale ones, keeps that.
LEMMA HeldStays ==
  ASSUME WorkerTypeOK, WorkerTypeOK', GhostFree, now' >= now, NEW w \in Workers,
         pc'[w] = "hset", pc[w] = "hset", job'[w] = job[w], SoleSource(KeyOf(job[w].cur)),
         LET k == KeyOf(job[w].cur) IN
           pending'[k] = pending[k] \/ (Stale(pending[k]) /\ pending'[k] = NoEntry)
  PROVE  (pending[KeyOf(job[w].cur)] = job[w].entry \/ Stale(job[w].entry))'
  <1>1. job[w].entry \in Entry
    BY DEF WorkerTypeOK, Job
  <1>2. pending[KeyOf(job[w].cur)] = job[w].entry \/ Stale(job[w].entry)
    BY DEF GhostFree
  <1> QED
    BY <1>1, <1>2, StaleStays DEF Stale

\* A step away from the map and the mirror, of a worker that has no decision to mirror.
LEMMA GhostFrame ==
  ASSUME WorkerTypeOK, WorkerTypeOK', GhostFree, UNCHANGED <<pending, mirror, loaded>>, now' >= now,
         NEW w \in Workers, OthersIdle(w), pc[w] \notin {"hset", "hdel"}, pc'[w] \notin {"hset", "hdel"},
         ~loaded => pc'[w] \in {"idle", "load", "merge", "verify"},
         ~loaded /\ pc'[w] = "merge" => job'[w].snap = mirror
  PROVE  GhostFree'
  <1>1. ~loaded' => /\ pending' = EmptyMap
                    /\ \A v \in Workers : pc'[v] \in {"idle", "load", "merge", "verify"}
    BY DEF GhostFree, OthersIdle
  <1>2. ASSUME ~loaded', NEW v \in Workers, pc'[v] = "merge", NEW k \in Keys, Live(k)'
        PROVE  job'[v].snap[k] = mirror'[k]
    <2>1. CASE v = w
      BY <1>2, <2>1
    <2>2. CASE v # w
      <3>1. job'[v] = job[v] /\ pc[v] = "merge" /\ Live(k)
        BY <1>2, <2>2, LiveWas DEF OthersIdle
      <3> QED
        BY <1>2, <3>1 DEF GhostFree
    <2> QED
      BY <2>1, <2>2
  <1>3. ASSUME NEW v \in Workers, pc'[v] = "hset", SoleSource(KeyOf(job'[v].cur))
        PROVE  (pending[KeyOf(job[v].cur)] = job[v].entry \/ Stale(job[v].entry))'
    <2>1. pc[v] = "hset" /\ job'[v] = job[v]
      BY <1>3 DEF OthersIdle
    <2> QED
      BY <1>3, <2>1, HeldStays
  <1>4. ASSUME loaded', NEW k \in Keys, SoleSource(k), Live(k)'
        PROVE  mirror'[k] = pending'[k] \/ \E v \in Workers : Deciding(v, k)'
    <2>1. mirror[k] = pending[k] \/ \E v \in Workers : Deciding(v, k)
      BY <1>4, LiveWas DEF GhostFree
    <2> QED
      BY <2>1 DEF Deciding, OthersIdle
  <1> QED
    BY <1>1, <1>2, <1>3, <1>4 DEF GhostFree

\* The critical section of the gate: the task that decides about the key is the one to mirror it.
LEMMA GhostGate ==
  ASSUME WorkerTypeOK, WorkerTypeOK', TaskInv, ApartInv, GhostFree, NEW w \in Workers, Gate(w)
  PROVE  GhostFree'
  <1> DEFINE d == job[w].cur
             k == KeyOf(d)
  <1>n. now \in Nat
    BY DEF WorkerTypeOK
  <1>t. now' = now
    BY DEF Gate
  <1>j. pc \in [Workers -> Locations] /\ job \in [Workers -> Job] /\ pending \in [Keys -> Entry]
    BY DEF WorkerTypeOK, PendingMap
  <1>k. k \in Keys
    BY <1>j, KeyType DEF Job
  <1>0. /\ pc \in [Workers -> Locations] /\ job \in [Workers -> Job] /\ pending \in [Keys -> Entry]
        /\ k \in Keys /\ now' >= now
    BY <1>n, <1>t, <1>j, <1>k
  <1>1. /\ pc[w] = "gate" /\ UNCHANGED <<mirror, loaded, now>> /\ loaded
    BY DEF Gate, GhostFree
  <1>2. OthersIdle(w) /\ job'[w].cur = d
    <2>1. Steady(w) /\ pc'[w] \in {"read", "hdel", "hset"}
      BY <1>0, StepSteady DEF WorkerStep, Gate, Goto
    <2> QED
      BY <1>1, <2>1 DEF Steady, OpenGroup
  <1>3. \/ pc'[w] = "read" /\ UNCHANGED pending
        \/ pc'[w] = "hdel" /\ pending' = [pending EXCEPT ![k] = NoEntry]
        \/ pc'[w] = "hset" /\ pending' = [pending EXCEPT ![k] = job'[w].entry]
    <2>1. CASE BrandNew(w, pending[k])
      BY <1>0, <2>1 DEF Gate, Goto
    <2>2. CASE ~BrandNew(w, pending[k]) /\ Goto(w, "hdel")
      BY <1>0, <2>2 DEF Gate, Goto, DropPending
    <2>3. ASSUME NEW n, Goto(w, "hset"), pending' = [pending EXCEPT ![k] = n],
                 job' = [job EXCEPT ![w].entry = n]
          PROVE  pc'[w] = "hset" /\ pending' = [pending EXCEPT ![k] = job'[w].entry]
      <3>1. job'[w].entry = n
        BY <1>0, <2>3 DEF Job
      <3> QED
        BY <1>0, <2>3, <3>1 DEF Goto
    <2>4. \/ BrandNew(w, pending[k])
          \/ ~BrandNew(w, pending[k]) /\ Goto(w, "hdel")
          \/ \E n : /\ Goto(w, "hset") /\ pending' = [pending EXCEPT ![k] = n]
                    /\ job' = [job EXCEPT ![w].entry = n]
      BY DEF Gate
    <2> QED
      BY <2>1, <2>2, <2>3, <2>4
  <1>4. ASSUME NEW j \in Keys, j # k PROVE pending'[j] = pending[j]
    BY <1>0, <1>3, <1>4
  <1>5. ASSUME NEW v \in Workers, pc'[v] = "hset", SoleSource(KeyOf(job'[v].cur))
        PROVE  (pending[KeyOf(job[v].cur)] = job[v].entry \/ Stale(job[v].entry))'
    <2>1. CASE v = w
      BY <1>0, <1>2, <1>3, <1>5, <2>1
    <2>2. CASE v # w
      <3>1. pc[v] = "hset" /\ job'[v] = job[v]
        BY <1>2, <1>5, <2>2 DEF OthersIdle
      <3>2. KeyOf(job[v].cur) # k
        BY <1>1, <1>5, <2>2, <3>1, OneDecides DEF OpenGroup
      <3>3. KeyOf(job[v].cur) \in Keys
        BY <1>0, KeyType DEF Job
      <3> QED
        BY <1>0, <1>4, <1>5, <3>1, <3>2, <3>3, HeldStays
    <2> QED
      BY <2>1, <2>2
  <1>6. ASSUME NEW j \in Keys, SoleSource(j), Live(j)'
        PROVE  mirror'[j] = pending'[j] \/ \E v \in Workers : Deciding(v, j)'
    <2>1. mirror[j] = pending[j] \/ \E v \in Workers : Deciding(v, j)
      BY <1>0, <1>1, <1>6, LiveWas DEF GhostFree
    <2>2. \A v \in Workers : Deciding(v, j) => Deciding(v, j)'
      BY <1>1, <1>2 DEF Deciding, OthersIdle
    <2>3. CASE pc'[w] = "read"
      BY <1>1, <1>3, <2>1, <2>2, <2>3
    <2>4. CASE pc'[w] # "read" /\ j = k
      BY <1>2, <1>3, <2>4 DEF Deciding
    <2>5. CASE j # k
      BY <1>1, <1>4, <2>1, <2>2, <2>5
    <2> QED
      BY <2>3, <2>4, <2>5
  <1> QED
    BY <1>1, <1>5, <1>6 DEF GhostFree

\* The round trips that write the mirror: what they leave live is what the map holds.
LEMMA GhostMirrored ==
  ASSUME WorkerTypeOK, WorkerTypeOK', GhostFree, NEW w \in Workers, ~Fault,
         EvictMirror(w) \/ PersistPending(w) \/ DeletePending(w)
  PROVE  GhostFree'
  <1> DEFINE k == KeyOf(job[w].cur)
  <1>0. /\ pc \in [Workers -> Locations] /\ job \in [Workers -> Job] /\ mirror \in [Keys -> Entry]
        /\ k \in Keys
    BY KeyType DEF WorkerTypeOK, Job, PendingMap
  <1>1. /\ OthersIdle(w) /\ UNCHANGED <<pending, loaded, now>> /\ loaded /\ now' >= now
        /\ pc'[w] \in {"resolve", "expire", "read"}
    <2>1. OthersIdle(w)
      BY StepSteady DEF WorkerStep, Steady
    <2>2. UNCHANGED <<pending, loaded, now>> /\ pc[w] \in {"evict", "hset", "hdel"}
      BY DEF EvictMirror, PersistPending, DeletePending
    <2>3. loaded
      BY <2>2 DEF GhostFree
    <2>5. now' >= now
      BY <2>2 DEF WorkerTypeOK
    <2>4. pc'[w] \in {"resolve", "expire", "read"}
      BY <1>0 DEF EvictMirror, PersistPending, DeletePending, Goto
    <2> QED
      BY <2>1, <2>2, <2>3, <2>4, <2>5
  <1>2. ASSUME NEW v \in Workers, pc'[v] = "hset", SoleSource(KeyOf(job'[v].cur))
        PROVE  (pending[KeyOf(job[v].cur)] = job[v].entry \/ Stale(job[v].entry))'
    <2>1. pc[v] = "hset" /\ job'[v] = job[v]
      BY <1>1, <1>2 DEF OthersIdle
    <2> QED
      BY <1>1, <1>2, <2>1, HeldStays
  <1>3. ASSUME NEW j \in Keys, SoleSource(j), Live(j)'
        PROVE  mirror'[j] = pending'[j] \/ \E v \in Workers : Deciding(v, j)'
    <2>1. ASSUME mirror'[j] = mirror[j], pc[w] \in {"hset", "hdel"} => j # k
          PROVE  mirror'[j] = pending'[j] \/ \E v \in Workers : Deciding(v, j)'
      <3>1. mirror[j] = pending[j] \/ \E v \in Workers : Deciding(v, j)
        BY <1>1, <1>3, <2>1, LiveWas DEF GhostFree
      <3> QED
        BY <1>1, <2>1, <3>1 DEF Deciding, OthersIdle
    <2>2. CASE EvictMirror(w)
      <3>1. mirror'[j] = mirror[j] \/ mirror'[j] = NoEntry
        BY <1>0, <2>2 DEF EvictMirror
      <3>2. mirror'[j] = mirror[j]
        BY <1>3, <3>1, EmptySeen DEF Live
      <3>3. pc[w] = "evict"
        BY <2>2 DEF EvictMirror
      <3> QED
        BY <2>1, <3>2, <3>3
    <2>3. CASE DeletePending(w)
      <3>1. mirror' = [mirror EXCEPT ![k] = NoEntry]
        BY <2>3 DEF DeletePending
      <3>2. j # k
        BY <1>0, <1>3, <3>1, EmptySeen DEF Live
      <3> QED
        BY <1>0, <2>1, <3>1, <3>2
    <2>4. CASE PersistPending(w)
      <3>1. mirror' = [mirror EXCEPT ![k] = job[w].entry] /\ pc[w] = "hset"
        BY <2>4 DEF PersistPending
      <3>2. CASE j # k
        BY <1>0, <2>1, <3>1, <3>2
      <3>3. CASE j = k
        <4>1. mirror'[j] = job[w].entry /\ job[w].entry \in Entry
          BY <1>0, <3>1, <3>3 DEF Job
        <4>2. ~Stale(job[w].entry)
          BY <1>1, <1>3, <4>1 DEF Live, Stale
        <4> QED
          BY <1>1, <1>3, <3>1, <3>3, <4>1, <4>2 DEF GhostFree
      <3> QED
        BY <3>2, <3>3
    <2> QED
      BY <2>2, <2>3, <2>4
  <1> QED
    BY <1>1, <1>2, <1>3 DEF GhostFree

\* A load takes what is live into the map; a sweep drops what is not.
LEMMA GhostLoaded ==
  ASSUME WorkerTypeOK, WorkerTypeOK', GhostFree, NEW w \in Workers, MergeMirror(w) \/ Sweep(w)
  PROVE  GhostFree'
  <1>0. /\ pc \in [Workers -> Locations] /\ job \in [Workers -> Job] /\ mirror \in [Keys -> Entry]
        /\ pending \in [Keys -> Entry]
    BY DEF WorkerTypeOK, PendingMap
  <1>1. /\ OthersIdle(w) /\ UNCHANGED <<mirror, now>> /\ now' >= now
        /\ pc[w] \in {"merge", "sweep"} /\ pc'[w] \in {"sweep", "resolve", "evict"}
    <2>1. OthersIdle(w)
      BY StepSteady DEF WorkerStep, Steady
    <2>2. UNCHANGED <<mirror, now>> /\ pc[w] \in {"merge", "sweep"}
      BY DEF MergeMirror, Sweep
    <2>3. pc'[w] \in {"sweep", "resolve", "evict"}
      BY <1>0 DEF MergeMirror, Sweep, Goto
    <2> QED
      BY <2>1, <2>2, <2>3 DEF WorkerTypeOK
  <1>2. loaded'
    BY DEF MergeMirror, Sweep, GhostFree
  <1>3. ASSUME loaded, NEW k \in Keys
        PROVE  pending'[k] = pending[k] \/ (Stale(pending[k]) /\ pending'[k] = NoEntry)
    BY <1>0, <1>3 DEF MergeMirror, Sweep
  <1>4. ASSUME NEW v \in Workers, pc'[v] = "hset", SoleSource(KeyOf(job'[v].cur))
        PROVE  (pending[KeyOf(job[v].cur)] = job[v].entry \/ Stale(job[v].entry))'
    <2>1. pc[v] = "hset" /\ job'[v] = job[v]
      BY <1>1, <1>4 DEF OthersIdle
    <2>2. loaded
      BY <2>1 DEF GhostFree
    <2>3. KeyOf(job[v].cur) \in Keys
      BY <1>0, KeyType DEF Job
    <2> QED
      BY <1>1, <1>3, <1>4, <2>1, <2>2, <2>3, HeldStays
  <1>5. ASSUME NEW k \in Keys, SoleSource(k), Live(k)'
        PROVE  mirror'[k] = pending'[k] \/ \E v \in Workers : Deciding(v, k)'
    <2>1. Live(k) /\ mirror[k] \in Entry
      BY <1>0, <1>1, <1>5, LiveWas
    <2>2. CASE loaded
      <3>1. mirror[k] = pending[k] \/ \E v \in Workers : Deciding(v, k)
        BY <1>5, <2>1, <2>2 DEF GhostFree
      <3>2. CASE mirror[k] = pending[k]
        <4>1. ~Stale(pending[k])
          BY <2>1, <3>2 DEF Live
        <4> QED
          BY <1>1, <1>3, <2>2, <3>2, <4>1
      <3>3. CASE \E v \in Workers : Deciding(v, k)
        BY <1>1, <3>3 DEF Deciding, OthersIdle
      <3> QED
        BY <3>1, <3>2, <3>3
    <2>3. CASE ~loaded
      <3>1. MergeMirror(w)
        BY <2>3 DEF GhostFree, Sweep
      <3>2. job[w].snap[k] = mirror[k] /\ pending[k] = NoEntry
        BY <2>1, <2>3, <3>1, EmptySeen DEF GhostFree, MergeMirror
      <3>3. pending'[k] = mirror[k]
        BY <2>1, <2>3, <3>1, <3>2 DEF MergeMirror, Live, NoEntry
      <3> QED
        BY <1>1, <3>3
    <2> QED
      BY <2>2, <2>3
  <1> QED
    BY <1>2, <1>4, <1>5 DEF GhostFree

\* Every step of tasks that are apart.
LEMMA GhostStep ==
  ASSUME WorkerTypeOK, WorkerTypeOK', TaskInv, ApartInv, GhostInv, [Next \/ Restart]_vars
  PROVE  GhostInv'
  <1> SUFFICES ASSUME faults' = 0 PROVE GhostFree'
    BY DEF GhostInv
  <1>0. /\ faults \in Nat /\ now \in Nat /\ now' \in Nat
        /\ pc \in [Workers -> Locations] /\ job \in [Workers -> Job]
    BY DEF WorkerTypeOK
  <1>f. faults = 0 /\ ~Fault
    <2>1. ~Fault
      BY <1>0 DEF Fault
    <2>2. ASSUME NEW w \in Workers, Scrape(w) \/ WorkerStep(w) PROVE faults = 0
      BY <1>0, <2>2, FaultStep
    <2>3. ASSUME Operator \/ Tick \/ Restart \/ UNCHANGED vars PROVE faults = 0
      BY <2>3 DEF Operator, Tick, Restart, vars, boundVars
    <2> QED
      BY <2>1, <2>2, <2>3 DEF Next, ReconcilerNext
  <1>1. GhostFree
    BY <1>f DEF GhostInv
  <1>2. ASSUME NEW w \in Workers, WorkerStep(w),
               ~MergeMirror(w), ~Sweep(w), ~EvictMirror(w), ~Gate(w), ~PersistPending(w), ~DeletePending(w)
        PROVE  GhostFree'
    <2>1. OthersIdle(w) /\ pc'[w] \notin {"hset", "hdel"}
      BY <1>2, StepSteady, ComesFrom DEF Steady
    <2>2. UNCHANGED <<pending, mirror, loaded, now>> /\ pc[w] \notin {"hset", "hdel"}
      BY <1>2 DEF WorkerStep, ReadMirror, ResolveSources, SkipGroup, LookupExisting, DecideMulti,
         RefreshTTL, ReadCurrent, PublishPrice, PublishEvent, MarkVerified
    <2>3. pc'[w] = "merge" => job'[w].snap = mirror
      <3>1. pc'[w] = "merge" => ReadMirror(w)
        BY <1>2, ComesFrom
      <3>2. ReadMirror(w) => job' = [job EXCEPT ![w].snap = mirror]
        BY <1>f DEF ReadMirror
      <3>3. job' = [job EXCEPT ![w].snap = mirror] => job'[w].snap = mirror
        BY <1>0 DEF Job
      <3> QED
        BY <3>1, <3>2, <3>3
    <2>4. ~loaded => pc'[w] \in {"idle", "load", "merge", "verify"}
      <3>1. ~loaded => ReadMirror(w) \/ MarkVerified(w)
        BY <1>1, <1>2 DEF GhostFree, WorkerStep, ResolveSources, SkipGroup, LookupExisting, DecideMulti,
           RefreshTTL, ReadCurrent, PublishPrice, PublishEvent
      <3> QED
        BY <1>0, <1>f, <3>1 DEF ReadMirror, MarkVerified, Goto
    <2>5. now' >= now
      BY <1>0, <2>2
    <2> QED
      BY <1>1, <2>1, <2>2, <2>3, <2>4, <2>5, GhostFrame
  <1>3. ASSUME NEW w \in Workers, MergeMirror(w) \/ Sweep(w) PROVE GhostFree'
    BY <1>1, <1>3, GhostLoaded
  <1>4. ASSUME NEW w \in Workers, EvictMirror(w) \/ PersistPending(w) \/ DeletePending(w) PROVE GhostFree'
    BY <1>1, <1>4, <1>f, GhostMirrored
  <1>5. ASSUME NEW w \in Workers, Gate(w) PROVE GhostFree'
    BY <1>1, <1>5, GhostGate
  <1>6. ASSUME NEW w \in Workers, Scrape(w) PROVE GhostFree'
    <2>1. OthersIdle(w) /\ pc[w] = "idle"
      BY <1>6, ScrapeMove
    <2>2. /\ UNCHANGED <<pending, mirror, loaded, now>>
          /\ pc'[w] \in {"verify", "sweep", "load"} /\ (~loaded => pc'[w] # "sweep")
      BY <1>0, <1>6 DEF Scrape, Goto
    <2>3. now' >= now
      BY <1>0, <2>2
    <2> QED
      BY <1>1, <2>1, <2>2, <2>3, GhostFrame
  <1>7. CASE Tick \/ Operator \/ UNCHANGED vars
    <2>1. UNCHANGED <<pending, loaded, pc, job>> /\ now' >= now
      BY <1>0, <1>7 DEF Tick, Operator, vars
    <2>2. \A k \in Keys : mirror'[k] = mirror[k] \/ mirror'[k] = NoEntry
      BY <1>7, EmptySeen DEF Tick, DropHash, Operator, vars
    <2>3. \A k \in Keys : Live(k)' => Live(k) /\ mirror'[k] = mirror[k]
      BY <2>1, <2>2, EmptySeen, LiveWas DEF Live
    <2>4. ASSUME NEW v \in Workers, pc'[v] = "hset", SoleSource(KeyOf(job'[v].cur))
          PROVE  (pending[KeyOf(job[v].cur)] = job[v].entry \/ Stale(job[v].entry))'
      BY <1>1, <2>1, <2>4, HeldStays
    <2> QED
      BY <1>1, <2>1, <2>3, <2>4 DEF GhostFree, Deciding
  <1>8. CASE Restart
    <2>1. pending' = EmptyMap /\ ~loaded' /\ \A w \in Workers : pc'[w] = "idle"
      BY <1>8 DEF Restart
    <2> QED
      BY <2>1 DEF GhostFree
  <1> QED
    BY <1>2, <1>3, <1>4, <1>5, <1>6, <1>7, <1>8 DEF Next, ReconcilerNext

\* Where the tasks of a source do not overlap and no Redis call fails, the mirror keeps no
\* sighting of a key with one source that the gate has used for a confirmation or replaced: with
\* any number of tasks at work, what a restart would load is what the map holds, but for a key
\* whose decision is still on its way to Redis.
THEOREM MirrorWithoutGhosts == TasksApart => (SpecRestart => []MirrorKeepsNoGhost)
  <1> SUFFICES ASSUME TasksApart PROVE SpecRestart => []MirrorKeepsNoGhost
    OBVIOUS
  <1>1. Init => TaskInv /\ ApartInv /\ GhostInv
    <2>1. IdleJob.listed = {} /\ IdleJob.diffs = {} /\ "idle" \notin OpenGroup
      BY DEF IdleJob, OpenGroup
    <2> QED
      BY <2>1 DEF Init, ReconcilerInit, TaskInv, ApartInv, GhostInv, GhostFree
  <1>2. /\ TypeOK /\ TypeOK' /\ TaskInv /\ ApartInv /\ GhostInv /\ [NextRestart]_systemVars
        => TaskInv' /\ ApartInv' /\ GhostInv'
    BY TaskStep, ApartStep, GhostStep, StepIsWorkerStep DEF TypeOK
  <1>3. GhostInv => MirrorKeepsNoGhost
    BY DEF GhostInv, GhostFree, MirrorKeepsNoGhost, Live, Deciding
  <1> QED
    BY <1>1, <1>2, <1>3, TypeCorrect, PTL DEF SpecRestart

=============================================================================
