----------------------------- MODULE Capability -----------------------------
(* Benchmark evidence and the capability scores derived from it: the         *)
(* leaderboard scrapers (internal/scraper/swebench, livecodebench) and the   *)
(* ingest tool append evidence rows, and every one of them, like the daily   *)
(* recompute task, then replaces each model's capability rows in a           *)
(* transaction of its own (internal/intelligence/aggregator.go).             *)
EXTENDS Integers, FiniteSets, FiniteSetsExt

CONSTANTS
  Models,        \* rows of the models table
  NoModel,       \* a leaderboard name that slugmap or the table does not know
  NoName,        \* source_model_name NULL, which sorts after every name
  Dimensions,    \* capability dimensions
  Weights,       \* DimensionBenchmarks: dimension -> benchmark -> weight
  Boards,        \* what a leaderboard may publish: source -> set of boards
  Manual,        \* entries an operator may ingest by hand
  StaleAfter,    \* StalenessThresholdDays, in clock units
  MaxClock,      \* bound of the clock
  MaxChanges,    \* bound: board updates, ingests and deletions of evidence
  MaxFaults,     \* bound: failed calls and crashes of the worker
  MaxActive,     \* bound: tasks that overlap
  None           \* no task holds the lock

Scrapers == {"swebench", "livecodebench"}

Tasks == Scrapers \cup {"recompute", "tool"}

\* The tool refuses a model that is not in the table.
ASSUME CapabilityAssumption ==
  /\ None \notin Tasks
  /\ \A e \in Manual : e.model \in Models

VARIABLES
  clock,
  board,       \* leaderboard entries each source shows now
  evidence,    \* model_benchmark_scores, per model
  rev,         \* ghost: number of changes of a model's evidence
  scores,      \* model_capability_scores: per model, a row per active dimension
  basis,       \* ghost: revision and time each model's scores were computed from
  lock,        \* holder of pg_advisory_xact_lock(1280068944, model)
  task,        \* the tasks of the worker and the ingest tool
  changes, faults

vars == <<clock, board, evidence, rev, scores, basis, lock, task, changes, faults>>

env == <<clock, board, changes, faults>>

Idle == [pc |-> "idle", todo |-> {}, models |-> {}, model |-> NoModel, rows |-> <<>>, rev |-> 0, at |-> 0]

\* The loop over the models that are left; without any, the task is done.
Loop(left) == [Idle EXCEPT !.pc = IF left = {} THEN "idle" ELSE "models", !.models = left]

-----------------------------------------------------------------------------
(* Choosing the entries of a leaderboard.                                    *)

(* Entries are kept that name one model with a slug in the table; SWE-bench  *)
(* entries need a positive score and a date besides. One entry is selected   *)
(* for each model.                                                           *)

\* SWE-bench: the best score, the latest date, the first name.
BetterResolvedEntry(e, f) ==
  \/ e.score > f.score
  \/ e.score = f.score /\ e.date > f.date
  \/ e.score = f.score /\ e.date = f.date /\ e.name < f.name

ResolvedEntries == {e \in board["swebench"] : e.model \in Models /\ e.score > 0}

SelectBestEntries ==
  {e \in ResolvedEntries :
     \A f \in ResolvedEntries : f.model = e.model => ~BetterResolvedEntry(f, e)}

\* A score of an agent system is weak evidence about its base model.
EntryRow(e) ==
  [model |-> e.model, bench |-> "swebench", score |-> e.score, name |-> e.name,
   conf |-> 0, date |-> e.date, seen |-> clock, version |-> e]

\* LiveCodeBench: the most questions, the first name.
BetterResolvedModel(e, f) ==
  e.count > f.count \/ (e.count = f.count /\ e.name < f.name)

ResolvedModels == {e \in board["livecodebench"] : e.model \in Models}

SelectBestResolvedModels ==
  {e \in ResolvedModels :
     \A f \in ResolvedModels : f.model = e.model => ~BetterResolvedModel(f, e)}

\* The board carries no date: it is that of the observation.
ModelRow(e) ==
  [model |-> e.model, bench |-> "livecodebench", score |-> e.score, name |-> e.name,
   conf |-> 2, date |-> clock, seen |-> clock, version |-> e]

\* The rows a scrape of the source upserts.
Observed(src) ==
  IF src = "swebench" THEN {EntryRow(e) : e \in SelectBestEntries}
                      ELSE {ModelRow(e) : e \in SelectBestResolvedModels}

\* The row the tool makes of its flags.
ManualRow(e) ==
  [model |-> e.model, bench |-> e.bench, score |-> e.score, name |-> NoName,
   conf |-> e.conf, date |-> e.date, seen |-> clock, version |-> e]

-----------------------------------------------------------------------------
(* Evidence.                                                                 *)

\* The unique key: the benchmark and a version that hashes the content, which
\* for LiveCodeBench does not include the date.
SameVersion(r, s) == r.bench = s.bench /\ r.version = s.version

\* UpsertBenchmarkScore: insert, or move last_observed_at of the row forward.
Upserted(rows, r) ==
  LET old == {s \in rows : SameVersion(s, r)}
  IN IF old = {} THEN rows \cup {r}
     ELSE (rows \ old) \cup {[s EXCEPT !.seen = IF @ < r.seen THEN r.seen ELSE @] : s \in old}

\* The order of GetActiveBenchmarkScores; confidence sorts as text: high, low,
\* medium.
Precedes(r, s) ==
  \/ r.seen > s.seen
  \/ /\ r.seen = s.seen
     /\ \/ r.date > s.date
        \/ r.date = s.date /\ r.score > s.score
        \/ r.date = s.date /\ r.score = s.score /\ r.name < s.name
        \/ /\ r.date = s.date /\ r.score = s.score /\ r.name = s.name
           /\ r.conf # s.conf /\ (r.conf = 2 \/ s.conf = 1)

First(rows) == CHOOSE r \in rows : \A s \in rows : ~Precedes(s, r)

\* One active row per benchmark; the hash decides between rows that tie.
Active(rows) == {First({r \in rows : r.bench = b}) : b \in {r.bench : r \in rows}}

-----------------------------------------------------------------------------
(* Aggregation.                                                              *)

Contributing(d, rows) == {r \in Active(rows) : r.bench \in DOMAIN Weights[d]}

LowerConfidence(a, b) == IF b < a THEN b ELSE a

\* Confidence from coverage alone: 0 low, 1 medium, 2 high.
Coverage(d, n) ==
  IF n >= Cardinality(DOMAIN Weights[d]) THEN 2 ELSE IF n >= 2 THEN 1 ELSE 0

Confidence(d, used) ==
  LowerConfidence(Coverage(d, Cardinality(used)), Min({r.conf : r \in used} \cup {2}))

\* Aggregate: the weighted mean as a pair (sum, weight), confidence, count and
\* freshness of the oldest evaluation.
Aggregate(d, rows, now) ==
  LET used == Contributing(d, rows)
  IN [sum |-> MapThenSumSet(LAMBDA r : r.score * Weights[d][r.bench], used),
      weight |-> MapThenSumSet(LAMBDA r : Weights[d][r.bench], used),
      conf |-> Confidence(d, used),
      count |-> Cardinality(used),
      stale |-> now - Min({r.date : r \in used}) > StaleAfter]

\* The rows a recomputation writes: dimensions without evidence have none.
Computed(rows, now) ==
  [d \in {x \in Dimensions : Contributing(x, rows) # {}} |-> Aggregate(d, rows, now)]

-----------------------------------------------------------------------------
(* The tasks.                                                                *)

\* A task may start.
Startable(t) ==
  /\ task[t].pc = "idle"
  /\ Cardinality({u \in Tasks : task[u].pc # "idle"}) < MaxActive

\* A scrape task is queued at start and on its schedule: fetch the board,
\* stamp the observation, resolve and select.
Fetch(t) ==
  /\ Startable(t)
  /\ t \in Scrapers
  /\ task' = [task EXCEPT ![t].pc = "upsert", ![t].todo = Observed(t)]
  /\ UNCHANGED <<env, evidence, rev, scores, basis, lock>>

\* What an upsert of the row r does to the evidence.
Record(r) ==
  /\ evidence' = [evidence EXCEPT ![r.model] = Upserted(@, r)]
  /\ rev' = [rev EXCEPT ![r.model] = IF evidence'[r.model] = evidence[r.model] THEN @ ELSE @ + 1]

\* One statement per row, each its own transaction, in no particular order.
Upsert(t) ==
  /\ task[t].pc = "upsert"
  /\ \E r \in task[t].todo :
       /\ Record(r)
       /\ task' = [task EXCEPT ![t].todo = @ \ {r}]
  /\ UNCHANGED <<env, scores, basis, lock>>

\* The tool records one entry and goes on to recompute its model.
Ingest ==
  /\ Startable("tool")
  /\ changes < MaxChanges
  /\ changes' = changes + 1
  /\ \E r \in Manual :
       /\ Record(ManualRow(r))
       /\ task' = [task EXCEPT !["tool"] = Loop({r.model})]
  /\ UNCHANGED <<clock, board, faults, scores, basis, lock>>

\* Mutant: only models that already have derived rows.
WithScores == {m \in Models : scores[m] # <<>>}

\* Models with evidence, and models that only have derived rows left.
ToRecompute == {m \in Models : evidence[m] # {} \/ scores[m] # <<>>}

\* computeAllCapabilityScores: after the scrape, or as the daily task.
List(t) ==
  /\ \/ t = "recompute" /\ Startable(t)
     \/ t \in Scrapers /\ task[t].pc = "upsert" /\ task[t].todo = {}
  /\ task' = [task EXCEPT ![t] = Loop(ToRecompute)]
  /\ UNCHANGED <<env, evidence, rev, scores, basis, lock>>

\* Mutant: the transaction takes no lock.
LockNothing(t) ==
  /\ task[t].pc = "models"
  /\ \E m \in task[t].models :
       /\ lock' = lock
       /\ task' = [task EXCEPT ![t].pc = "locked", ![t].model = m]
  /\ UNCHANGED <<env, evidence, rev, scores, basis>>

\* The transaction's first statement: the model's advisory lock.
Lock(t) ==
  /\ task[t].pc = "models"
  /\ \E m \in task[t].models :
       /\ lock[m] = None
       /\ lock' = [lock EXCEPT ![m] = t]
       /\ task' = [task EXCEPT ![t].pc = "locked", ![t].model = m]
  /\ UNCHANGED <<env, evidence, rev, scores, basis>>

\* The evidence as committed when the statement runs, and the results from it.
Read(t) ==
  /\ task[t].pc = "locked"
  /\ LET m == task[t].model
     IN task' = [task EXCEPT ![t].pc = "computed", ![t].rev = rev[m], ![t].at = clock,
                             ![t].rows = Computed(evidence[m], clock)]
  /\ UNCHANGED <<env, evidence, rev, scores, basis, lock>>

\* UpsertCapabilityScore for each result: the other rows stay.
WithResults(m, rows) ==
  [d \in DOMAIN rows \cup DOMAIN scores[m] |-> IF d \in DOMAIN rows THEN rows[d] ELSE scores[m][d]]

\* Mutant: rows of dimensions that lost their evidence stay.
UpsertOnly(m, rows) == WithResults(m, rows)

\* The upserts, then the DELETE of every row that is not among the results.
Replaced(m, rows) == [d \in DOMAIN rows |-> WithResults(m, rows)[d]]

Commit(t) ==
  /\ task[t].pc = "computed"
  /\ LET m == task[t].model
     IN /\ scores' = [scores EXCEPT ![m] = Replaced(m, task[t].rows)]
        /\ basis' = [basis EXCEPT ![m] = [rev |-> task[t].rev, at |-> task[t].at]]
        /\ lock' = [lock EXCEPT ![m] = IF @ = t THEN None ELSE @]
        /\ task' = [task EXCEPT ![t] = Loop(task[t].models \ {m})]
  /\ UNCHANGED <<env, evidence, rev>>

\* A call of one task fails, or the process ends under all of them: open
\* transactions roll back and give up their locks. asynq retries a task.
Fail ==
  /\ faults < MaxFaults
  /\ faults' = faults + 1
  /\ \E S \in {{t} : t \in Tasks} \cup {Tasks \ {"tool"}} :
       /\ \E t \in S : task[t].pc # "idle"
       /\ task' = [t \in Tasks |-> IF t \in S THEN Idle ELSE task[t]]
       /\ lock' = [m \in Models |-> IF lock[m] \in S THEN None ELSE lock[m]]
  /\ UNCHANGED <<clock, board, changes, evidence, rev, scores, basis>>

-----------------------------------------------------------------------------
(* What happens around them.                                                 *)

Publish ==
  /\ changes < MaxChanges
  /\ changes' = changes + 1
  /\ \E src \in Scrapers : \E b \in Boards[src] \ {board[src]} : board' = [board EXCEPT ![src] = b]
  /\ UNCHANGED <<clock, faults, evidence, rev, scores, basis, lock, task>>

\* Evidence withdrawn by an operator.
Withdraw ==
  /\ changes < MaxChanges
  /\ changes' = changes + 1
  /\ \E m \in Models : \E r \in evidence[m] :
       /\ evidence' = [evidence EXCEPT ![m] = @ \ {r}]
       /\ rev' = [rev EXCEPT ![m] = @ + 1]
  /\ UNCHANGED <<clock, board, faults, scores, basis, lock, task>>

Tick ==
  /\ clock < MaxClock
  /\ clock' = clock + 1
  /\ UNCHANGED <<board, changes, faults, evidence, rev, scores, basis, lock, task>>

Init ==
  /\ clock = 0
  /\ board \in [Scrapers -> UNION {Boards[s] : s \in Scrapers}]
  /\ \A s \in Scrapers : board[s] \in Boards[s]
  /\ evidence = [m \in Models |-> {}]
  /\ rev = [m \in Models |-> 0]
  /\ scores = [m \in Models |-> <<>>]
  /\ basis = [m \in Models |-> [rev |-> 0, at |-> 0]]
  /\ lock = [m \in Models |-> None]
  /\ task = [t \in Tasks |-> Idle]
  /\ changes = 0 /\ faults = 0

Step(t) == Fetch(t) \/ Upsert(t) \/ List(t) \/ Lock(t) \/ Read(t) \/ Commit(t)

Next == (\E t \in Tasks : Step(t)) \/ Ingest \/ Fail \/ Publish \/ Withdraw \/ Tick

\* The steps of a running task.
Runs(t) == Upsert(t) \/ List(t) \/ Lock(t) \/ Read(t) \/ Commit(t)

(* Fairness: a running task goes on; the daily recompute is queued again and *)
(* again, and is granted the lock it waits for among others.                 *)
Fairness ==
  /\ \A t \in Tasks : WF_vars(Runs(t))
  /\ SF_vars(List("recompute") \/ Lock("recompute"))

Spec == Init /\ [][Next]_vars /\ Fairness

-----------------------------------------------------------------------------
(* Properties.                                                               *)

(* Overlapping recomputations: a model's capability rows are never replaced  *)
(* by rows computed from an older state of its evidence (aggregator.go:      *)
(* "cannot commit results derived from an older evidence snapshot").         *)
NoStaleOverwrite == [][\A m \in Models : basis'[m].rev >= basis[m].rev]_vars

\* Scores that are what the evidence supports: computed from it, or none at
\* all for a model whose evidence came and went before anyone looked.
UpToDate(m) == basis[m].rev = rev[m] \/ (evidence[m] = {} /\ scores[m] = <<>>)

(* Evidence that changed reaches the scores, whichever task wrote it and     *)
(* whatever failed between the evidence and the recomputation.               *)
EvidenceReflected == \A m \in Models : ~UpToDate(m) ~> UpToDate(m)

(* Scores computed from the present evidence are exactly what it supports:   *)
(* one row for each dimension that has evidence, none for the others.        *)
ScoresMatchEvidence ==
  \A m \in Models :
    basis[m].rev = rev[m] => scores[m] = Computed(evidence[m], basis[m].at)

=============================================================================
