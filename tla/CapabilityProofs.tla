-------------------------- MODULE CapabilityProofs --------------------------
(***************************************************************************)
(* Theorems about Capability: for any models, boards and weights, and with *)
(* the scrapers, the recompute task and the tool overlapping and failing   *)
(* as they like, a recomputation never replaces newer scores, and scores   *)
(* of the present evidence are exactly what it supports.                   *)
(***************************************************************************)
EXTENDS Capability, TLAPS

Labels == {"idle", "upsert", "models", "locked", "computed"}

\* A task is a record of the seven fields of Idle.
IsTask(k) ==
  /\ k = [pc |-> k.pc, todo |-> k.todo, models |-> k.models, model |-> k.model,
          rows |-> k.rows, rev |-> k.rev, at |-> k.at]
  /\ k.pc \in Labels /\ k.models \subseteq Models

ShapeInv ==
  /\ task = [t \in Tasks |-> task[t]] /\ \A t \in Tasks : IsTask(task[t])
  /\ lock \in [Models -> Tasks \cup {None}]
  /\ rev \in [Models -> Nat]
  /\ basis \in [Models -> [rev : Nat, at : Nat]]
  /\ scores = [m \in Models |-> scores[m]]
  /\ evidence = [m \in Models |-> evidence[m]]
  /\ clock \in Nat

Holds(t) == task[t].pc \in {"locked", "computed"}

\* An open transaction holds the lock of its model.
LockInv ==
  \A t \in Tasks : Holds(t) => task[t].model \in Models /\ lock[task[t].model] = t

\* What a transaction read is no older than what the table holds.
ReadInv ==
  \A t \in Tasks : LET m == task[t].model IN
    task[t].pc = "computed" =>
      /\ task[t].rev \in Nat /\ task[t].at \in Nat
      /\ basis[m].rev <= task[t].rev /\ task[t].rev <= rev[m]
      /\ task[t].rev = rev[m] => task[t].rows = Computed(evidence[m], task[t].at)

(* The inductive invariant: the lock carries what was read to the commit.   *)
AggregatorInv ==
  /\ ShapeInv /\ LockInv /\ ReadInv
  /\ \A m \in Models : basis[m].rev <= rev[m]
  /\ ScoresMatchEvidence

-----------------------------------------------------------------------------
(* The operators.                                                          *)

\* A task that is done, and one that has models left, are tasks.
LEMMA LoopShape ==
  ASSUME NEW left \in SUBSET Models
  PROVE  /\ IsTask(Idle) /\ Idle.pc = "idle"
         /\ IsTask(Loop(left)) /\ Loop(left).pc \in {"idle", "models"}
  <1>1. IsTask(Idle) /\ Idle.pc = "idle" /\ Idle.models = {}
    BY DEF IsTask, Labels, Idle
  <1>2. PICK l \in {"idle", "models"} : Loop(left) = [Idle EXCEPT !.pc = l, !.models = left]
    BY DEF Loop
  <1>3. Loop(left) = [pc |-> l, todo |-> {}, models |-> left, model |-> NoModel, rows |-> <<>>,
                      rev |-> 0, at |-> 0]
    BY <1>2 DEF Idle
  <1> QED
    BY <1>1, <1>3 DEF IsTask, Labels

\* No evidence supports no score.
LEMMA NothingComputed == ASSUME NEW n PROVE Computed({}, n) = <<>>
  <1>1. Active({}) = {}
    BY DEF Active
  <1>2. {x \in Dimensions : Contributing(x, {}) # {}} = {}
    BY <1>1 DEF Contributing
  <1> QED
    BY <1>2 DEF Computed

\* The upserts and the DELETE leave the rows of the recomputation, whatever was there.
LEMMA ReplacedExactly ==
  ASSUME NEW m, NEW e, NEW n
  PROVE  Replaced(m, Computed(e, n)) = Computed(e, n)
  <1>1. PICK rows : rows = Computed(e, n)
    OBVIOUS
  <1>2. rows = [d \in DOMAIN rows |-> rows[d]]
    BY <1>1 DEF Computed
  <1>3. \A d \in DOMAIN rows : WithResults(m, rows)[d] = rows[d]
    BY DEF WithResults
  <1>4. Replaced(m, rows) = rows
    BY <1>2, <1>3 DEF Replaced
  <1> QED
    BY <1>1, <1>4

-----------------------------------------------------------------------------
(* The steps.                                                              *)

\* One task moves; what it moves to is a task.
LEMMA ShapeFrame ==
  ASSUME ShapeInv, NEW t \in Tasks, NEW k, IsTask(k), task' = [task EXCEPT ![t] = k]
  PROVE  /\ task' = [u \in Tasks |-> task'[u]] /\ \A u \in Tasks : IsTask(task'[u])
         /\ task'[t] = k /\ \A u \in Tasks : u # t => task'[u] = task[u]
  <1>1. task'[t] = k /\ \A u \in Tasks : u # t => task'[u] = task[u]
    BY DEF ShapeInv
  <1>2. DOMAIN task' = Tasks
    BY DEF ShapeInv
  <1> QED
    BY <1>1, <1>2 DEF ShapeInv

\* A step that recomputes nothing: evidence may move on, and its revision with it.
LEMMA Carry ==
  ASSUME AggregatorInv, ShapeInv', LockInv', UNCHANGED <<scores, basis>>,
         \A m \in Models : \/ evidence'[m] = evidence[m] /\ rev'[m] = rev[m]
                           \/ rev'[m] = rev[m] + 1,
         \A t \in Tasks : task'[t].pc = "computed" =>
           /\ task[t].pc = "computed" /\ task'[t].rev = task[t].rev /\ task'[t].at = task[t].at
           /\ task'[t].rows = task[t].rows /\ task'[t].model = task[t].model
  PROVE  AggregatorInv'
  <1>1. \A m \in Models : /\ rev[m] \in Nat /\ rev'[m] \in Nat /\ rev'[m] >= rev[m]
                          /\ basis[m].rev \in Nat
    BY DEF AggregatorInv, ShapeInv
  <1>2. \A m \in Models : basis[m].rev <= rev'[m]
    BY <1>1 DEF AggregatorInv
  <1>3. ScoresMatchEvidence'
    <2> SUFFICES ASSUME NEW m \in Models, basis[m].rev = rev'[m]
                 PROVE  scores[m] = Computed(evidence'[m], basis[m].at)
      BY DEF ScoresMatchEvidence
    <2>1. rev'[m] = rev[m] /\ evidence'[m] = evidence[m]
      BY <1>1 DEF AggregatorInv
    <2> QED
      BY <2>1 DEF AggregatorInv, ScoresMatchEvidence
  <1>4. ReadInv'
    <2> SUFFICES ASSUME NEW t \in Tasks, task'[t].pc = "computed", NEW m, m = task'[t].model
                 PROVE  /\ task'[t].rev \in Nat /\ task'[t].at \in Nat
                        /\ basis[m].rev <= task'[t].rev /\ task'[t].rev <= rev'[m]
                        /\ task'[t].rev = rev'[m] =>
                             task'[t].rows = Computed(evidence'[m], task'[t].at)
      BY DEF ReadInv
    <2>1. /\ task[t].pc = "computed" /\ task'[t].rev = task[t].rev /\ task'[t].at = task[t].at
          /\ task'[t].rows = task[t].rows /\ m = task[t].model
      OBVIOUS
    <2>2. m \in Models
      BY <2>1 DEF AggregatorInv, LockInv, Holds
    <2>3. /\ task[t].rev \in Nat /\ task[t].at \in Nat
          /\ basis[m].rev <= task[t].rev /\ task[t].rev <= rev[m]
          /\ task[t].rev = rev[m] => task[t].rows = Computed(evidence[m], task[t].at)
      BY <2>1 DEF AggregatorInv, ReadInv
    <2>4. task[t].rev = rev'[m] => rev'[m] = rev[m] /\ evidence'[m] = evidence[m]
      BY <1>1, <2>2, <2>3
    <2> QED
      BY <1>1, <2>1, <2>2, <2>3, <2>4
  <1> QED
    BY <1>2, <1>3, <1>4 DEF AggregatorInv

\* What recording a row does to the evidence of each model.
LEMMA RecordEffect ==
  ASSUME ShapeInv, NEW r, Record(r)
  PROVE  /\ rev' \in [Models -> Nat] /\ evidence' = [m \in Models |-> evidence'[m]]
         /\ \A m \in Models : \/ evidence'[m] = evidence[m] /\ rev'[m] = rev[m]
                              \/ rev'[m] = rev[m] + 1
  <1>1. DOMAIN evidence' = Models /\ evidence' = [m \in Models |-> evidence'[m]]
    BY DEF Record, ShapeInv
  <1>2. \A m \in Models : m # r.model => evidence'[m] = evidence[m]
    BY DEF Record, ShapeInv
  <1>3. \A m \in Models :
          rev'[m] = IF m = r.model /\ evidence'[m] # evidence[m] THEN rev[m] + 1 ELSE rev[m]
    BY DEF Record, ShapeInv
  <1>4. rev' \in [Models -> Nat]
    <2>1. rev' = [m \in Models |-> rev'[m]]
      BY DEF Record, ShapeInv
    <2>2. \A m \in Models : rev'[m] \in Nat
      BY <1>3 DEF ShapeInv
    <2> QED
      BY <2>1, <2>2
  <1> QED
    BY <1>1, <1>2, <1>3, <1>4

\* A step of one task that takes and gives up no lock.
LEMMA TaskStep ==
  ASSUME AggregatorInv, NEW t \in Tasks, NEW k, IsTask(k), task' = [task EXCEPT ![t] = k],
         k.pc \notin {"locked", "computed"},
         UNCHANGED <<scores, basis, lock>>, clock' \in Nat,
         rev' \in [Models -> Nat], evidence' = [m \in Models |-> evidence'[m]],
         \A m \in Models : \/ evidence'[m] = evidence[m] /\ rev'[m] = rev[m]
                           \/ rev'[m] = rev[m] + 1
  PROVE  AggregatorInv'
  <1>1. /\ task' = [u \in Tasks |-> task'[u]] /\ \A u \in Tasks : IsTask(task'[u])
        /\ task'[t] = k /\ \A u \in Tasks : u # t => task'[u] = task[u]
    BY ShapeFrame DEF AggregatorInv
  <1>2. ShapeInv'
    BY <1>1 DEF AggregatorInv, ShapeInv, IsTask
  <1>3. LockInv'
    BY <1>1 DEF AggregatorInv, LockInv, Holds
  <1>4. \A u \in Tasks : task'[u].pc = "computed" => task'[u] = task[u]
    BY <1>1
  <1> QED
    BY <1>2, <1>3, <1>4, Carry

\* The evidence stays when nothing is recorded.
LEMMA SameEvidence ==
  ASSUME ShapeInv, UNCHANGED <<evidence, rev>>
  PROVE  /\ rev' \in [Models -> Nat] /\ evidence' = [m \in Models |-> evidence'[m]]
         /\ \A m \in Models : \/ evidence'[m] = evidence[m] /\ rev'[m] = rev[m]
                              \/ rev'[m] = rev[m] + 1
  BY DEF ShapeInv

\* Fetching a board, upserting a row and listing the models are such steps.
LEMMA ScrapeSteps ==
  ASSUME AggregatorInv, NEW t \in Tasks, Fetch(t) \/ Upsert(t) \/ List(t)
  PROVE  AggregatorInv'
  <1>0. ShapeInv /\ clock \in Nat /\ IsTask(task[t])
    BY DEF AggregatorInv, ShapeInv
  <1>1. CASE Fetch(t)
    <2>1. PICK k : k = [task[t] EXCEPT !.pc = "upsert", !.todo = Observed(t)]
      OBVIOUS
    <2>2. task' = [task EXCEPT ![t] = k] /\ UNCHANGED <<clock, evidence, rev, scores, basis, lock>>
      BY <1>1, <2>1 DEF Fetch, env
    <2>3. IsTask(k) /\ k.pc = "upsert"
      BY <1>0, <2>1 DEF IsTask, Labels
    <2> QED
      BY <1>0, <2>2, <2>3, SameEvidence, TaskStep
  <1>2. CASE Upsert(t)
    <2>1. PICK r \in task[t].todo : Record(r) /\ task' = [task EXCEPT ![t].todo = @ \ {r}]
      BY <1>2 DEF Upsert
    <2>2. PICK k : k = [task[t] EXCEPT !.todo = @ \ {r}]
      OBVIOUS
    <2>3. task' = [task EXCEPT ![t] = k] /\ UNCHANGED <<clock, scores, basis, lock>>
      BY <1>2, <2>1, <2>2 DEF Upsert, env
    <2>4. IsTask(k) /\ k.pc = "upsert"
      BY <1>0, <1>2, <2>2 DEF IsTask, Labels, Upsert
    <2>5. /\ rev' \in [Models -> Nat] /\ evidence' = [m \in Models |-> evidence'[m]]
          /\ \A m \in Models : \/ evidence'[m] = evidence[m] /\ rev'[m] = rev[m]
                               \/ rev'[m] = rev[m] + 1
      BY <1>0, <2>1, RecordEffect
    <2> QED
      BY <1>0, <2>3, <2>4, <2>5, TaskStep
  <1>3. CASE List(t)
    <2>1. ToRecompute \subseteq Models
      BY DEF ToRecompute
    <2>2. /\ task' = [task EXCEPT ![t] = Loop(ToRecompute)]
          /\ UNCHANGED <<clock, evidence, rev, scores, basis, lock>>
      BY <1>3 DEF List, env
    <2>3. PICK k : k = Loop(ToRecompute)
      OBVIOUS
    <2>4. IsTask(k) /\ k.pc \in {"idle", "models"}
      BY <2>1, <2>3, LoopShape
    <2> QED
      BY <1>0, <2>2, <2>3, <2>4, SameEvidence, TaskStep
  <1> QED
    BY <1>1, <1>2, <1>3

\* The tool records a row of a model that exists and goes on to recompute it.
LEMMA IngestStep ==
  ASSUME AggregatorInv, Ingest
  PROVE  AggregatorInv'
  <1>0. ShapeInv /\ clock \in Nat /\ "tool" \in Tasks
    BY DEF AggregatorInv, ShapeInv, Tasks
  <1>1. PICK e \in Manual : /\ Record(ManualRow(e))
                            /\ task' = [task EXCEPT !["tool"] = Loop({e.model})]
    BY DEF Ingest
  <1>2. PICK k : k = Loop({e.model})
    OBVIOUS
  <1>3. IsTask(k) /\ k.pc \in {"idle", "models"}
    BY <1>2, LoopShape, CapabilityAssumption
  <1>4. PICK r : r = ManualRow(e)
    OBVIOUS
  <1>5. /\ rev' \in [Models -> Nat] /\ evidence' = [m \in Models |-> evidence'[m]]
        /\ \A m \in Models : \/ evidence'[m] = evidence[m] /\ rev'[m] = rev[m]
                             \/ rev'[m] = rev[m] + 1
    BY <1>0, <1>1, <1>4, RecordEffect
  <1>6. UNCHANGED <<clock, scores, basis, lock>>
    BY DEF Ingest
  <1> QED
    BY <1>0, <1>1, <1>2, <1>3, <1>5, <1>6, TaskStep

\* A transaction that begins takes a lock nobody holds.
LEMMA LockStep ==
  ASSUME AggregatorInv, NEW t \in Tasks, Lock(t)
  PROVE  AggregatorInv'
  <1>0. ShapeInv /\ IsTask(task[t])
    BY DEF AggregatorInv, ShapeInv
  <1>1. PICK m \in task[t].models :
          /\ lock[m] = None
          /\ lock' = [lock EXCEPT ![m] = t]
          /\ task' = [task EXCEPT ![t].pc = "locked", ![t].model = m]
    BY DEF Lock
  <1>2. PICK k : k = [task[t] EXCEPT !.pc = "locked", !.model = m]
    OBVIOUS
  <1>3. task' = [task EXCEPT ![t] = k] /\ UNCHANGED <<clock, evidence, rev, scores, basis>>
    BY <1>1, <1>2 DEF Lock, env
  <1>4. IsTask(k) /\ k.pc = "locked" /\ k.model = m /\ m \in Models
    BY <1>0, <1>2 DEF IsTask, Labels
  <1>5. /\ task' = [u \in Tasks |-> task'[u]] /\ \A u \in Tasks : IsTask(task'[u])
        /\ task'[t] = k /\ \A u \in Tasks : u # t => task'[u] = task[u]
    BY <1>0, <1>3, <1>4, ShapeFrame
  <1>6. lock'[m] = t /\ \A n \in Models : n # m => lock'[n] = lock[n]
    BY <1>0, <1>1, <1>4 DEF ShapeInv
  <1>7. ShapeInv'
    BY <1>0, <1>1, <1>3, <1>5 DEF ShapeInv, IsTask
  <1>8. LockInv'
    <2>1. ASSUME NEW u \in Tasks, u # t, Holds(u)
          PROVE  task[u].model \in Models /\ lock[task[u].model] = u /\ task[u].model # m
      BY <1>1, <2>1, CapabilityAssumption DEF AggregatorInv, LockInv
    <2>2. ASSUME NEW u \in Tasks, Holds(u)'
          PROVE  task'[u].model \in Models /\ lock'[task'[u].model] = u
      <3>1. CASE u = t
        BY <1>4, <1>5, <1>6, <3>1
      <3>2. CASE u # t
        BY <1>5, <1>6, <2>1, <2>2, <3>2 DEF Holds
      <3> QED
        BY <3>1, <3>2
    <2> QED
      BY <2>2 DEF LockInv
  <1>9. \A u \in Tasks : task'[u].pc = "computed" => task'[u] = task[u]
    BY <1>4, <1>5
  <1> QED
    BY <1>0, <1>3, <1>7, <1>8, <1>9, SameEvidence, Carry

\* The read pairs the results with the revision of the evidence they come from.
LEMMA ReadStep ==
  ASSUME AggregatorInv, NEW t \in Tasks, Read(t)
  PROVE  AggregatorInv'
  <1>0. ShapeInv /\ IsTask(task[t]) /\ task[t].pc = "locked" /\ clock \in Nat
    BY DEF AggregatorInv, ShapeInv, Read
  <1>1. PICK m, c : m = task[t].model /\ c = Computed(evidence[m], clock)
    OBVIOUS
  <1>2. m \in Models /\ lock[m] = t
    BY <1>0, <1>1 DEF AggregatorInv, LockInv, Holds
  <1>3. PICK k : k = [task[t] EXCEPT !.pc = "computed", !.rev = rev[m], !.at = clock, !.rows = c]
    OBVIOUS
  <1>4. task' = [task EXCEPT ![t] = k]
        /\ UNCHANGED <<clock, evidence, rev, scores, basis, lock>>
    BY <1>1, <1>3 DEF Read, env
  <1>5. /\ IsTask(k) /\ k.pc = "computed" /\ k.model = m /\ k.rev = rev[m] /\ k.at = clock
        /\ k.rows = c
    BY <1>0, <1>1, <1>3 DEF IsTask, Labels
  <1>6. /\ task' = [u \in Tasks |-> task'[u]] /\ \A u \in Tasks : IsTask(task'[u])
        /\ task'[t] = k /\ \A u \in Tasks : u # t => task'[u] = task[u]
    BY <1>0, <1>4, <1>5, ShapeFrame
  <1>7. ShapeInv'
    BY <1>0, <1>4, <1>6 DEF ShapeInv, IsTask
  <1>8. LockInv'
    BY <1>2, <1>4, <1>5, <1>6 DEF AggregatorInv, LockInv, Holds
  <1>9. ReadInv'
    <2>1. rev[m] \in Nat /\ basis[m].rev <= rev[m] /\ basis[m].rev \in Nat
      BY <1>0, <1>2 DEF AggregatorInv, ShapeInv
    <2>2. /\ k.rev \in Nat /\ k.at \in Nat /\ basis[m].rev <= k.rev /\ k.rev <= rev[m]
          /\ k.rows = Computed(evidence[m], k.at)
      BY <1>0, <1>1, <1>5, <2>1
    <2> QED
      BY <1>4, <1>5, <1>6, <2>2 DEF AggregatorInv, ReadInv
  <1>10. ScoresMatchEvidence' /\ \A m1 \in Models : basis'[m1].rev <= rev'[m1]
    BY <1>4 DEF AggregatorInv, ScoresMatchEvidence
  <1> QED
    BY <1>7, <1>8, <1>9, <1>10 DEF AggregatorInv

\* The commit replaces rows that are no newer, and nobody else has read this model.
LEMMA CommitStep ==
  ASSUME AggregatorInv, NEW t \in Tasks, Commit(t)
  PROVE  AggregatorInv' /\ \A m \in Models : basis'[m].rev >= basis[m].rev
  <1>0. ShapeInv /\ IsTask(task[t]) /\ task[t].pc = "computed"
    BY DEF AggregatorInv, ShapeInv, Commit
  <1>1. PICK m : m = task[t].model
    OBVIOUS
  <1>2. m \in Models /\ lock[m] = t
    BY <1>0, <1>1 DEF AggregatorInv, LockInv, Holds
  <1>3. /\ task[t].rev \in Nat /\ task[t].at \in Nat
        /\ basis[m].rev <= task[t].rev /\ task[t].rev <= rev[m]
        /\ task[t].rev = rev[m] => task[t].rows = Computed(evidence[m], task[t].at)
    BY <1>0, <1>1 DEF AggregatorInv, ReadInv
  <1>4. PICK k : k = Loop(task[t].models \ {m})
    OBVIOUS
  <1>5. /\ scores' = [scores EXCEPT ![m] = Replaced(m, task[t].rows)]
        /\ basis' = [basis EXCEPT ![m] = [rev |-> task[t].rev, at |-> task[t].at]]
        /\ lock' = [lock EXCEPT ![m] = IF @ = t THEN None ELSE @]
        /\ task' = [task EXCEPT ![t] = k]
        /\ UNCHANGED <<clock, evidence, rev>>
    BY <1>1, <1>4 DEF Commit, env
  <1>6. IsTask(k) /\ k.pc \in {"idle", "models"}
    <2>1. task[t].models \ {m} \in SUBSET Models
      BY <1>0 DEF IsTask
    <2> QED
      BY <1>4, <2>1, LoopShape
  <1>7. /\ task' = [u \in Tasks |-> task'[u]] /\ \A u \in Tasks : IsTask(task'[u])
        /\ task'[t] = k /\ \A u \in Tasks : u # t => task'[u] = task[u]
    BY <1>0, <1>5, <1>6, ShapeFrame
  <1>8. /\ scores'[m] = Replaced(m, task[t].rows)
        /\ \A n \in Models : n # m => scores'[n] = scores[n]
    BY <1>0, <1>2, <1>5 DEF ShapeInv
  <1>9. /\ basis'[m].rev = task[t].rev /\ basis'[m].at = task[t].at
        /\ \A n \in Models : n # m => basis'[n] = basis[n]
    BY <1>0, <1>2, <1>5 DEF ShapeInv
  <1>10. \A n \in Models : n # m => lock'[n] = lock[n]
    BY <1>0, <1>5 DEF ShapeInv
  <1>11. ASSUME NEW u \in Tasks, Holds(u)'
         PROVE  u # t /\ task'[u] = task[u] /\ Holds(u) /\ task[u].model # m
    <2>1. u # t /\ task'[u] = task[u] /\ Holds(u)
      BY <1>6, <1>7, <1>11 DEF Holds
    <2> QED
      BY <1>2, <2>1 DEF AggregatorInv, LockInv
  <1>12. ShapeInv'
    <2>1. basis' \in [Models -> [rev : Nat, at : Nat]]
      BY <1>0, <1>3, <1>5 DEF ShapeInv
    <2>2. lock' \in [Models -> Tasks \cup {None}]
      BY <1>0, <1>5 DEF ShapeInv
    <2>3. scores' = [n \in Models |-> scores'[n]]
      BY <1>0, <1>5 DEF ShapeInv
    <2> QED
      BY <1>0, <1>5, <1>7, <2>1, <2>2, <2>3 DEF ShapeInv, IsTask
  <1>13. LockInv'
    BY <1>10, <1>11 DEF AggregatorInv, LockInv
  <1>14. ReadInv'
    <2> SUFFICES ASSUME NEW u \in Tasks, task'[u].pc = "computed", NEW n, n = task'[u].model
                 PROVE  /\ task'[u].rev \in Nat /\ task'[u].at \in Nat
                        /\ basis'[n].rev <= task'[u].rev /\ task'[u].rev <= rev'[n]
                        /\ task'[u].rev = rev'[n] =>
                             task'[u].rows = Computed(evidence'[n], task'[u].at)
      BY DEF ReadInv
    <2>1. task'[u] = task[u] /\ Holds(u) /\ n # m
      BY <1>11 DEF Holds
    <2>2. n \in Models
      BY <2>1 DEF AggregatorInv, LockInv
    <2> QED
      BY <1>5, <1>9, <2>1, <2>2 DEF AggregatorInv, ReadInv
  <1>15. ScoresMatchEvidence'
    <2> SUFFICES ASSUME NEW n \in Models, basis'[n].rev = rev'[n]
                 PROVE  scores'[n] = Computed(evidence'[n], basis'[n].at)
      BY DEF ScoresMatchEvidence
    <2>1. CASE n = m
      <3>1. task[t].rows = Computed(evidence[m], task[t].at)
        BY <1>3, <1>5, <1>9, <2>1
      <3>2. Replaced(m, task[t].rows) = task[t].rows
        BY <3>1, ReplacedExactly
      <3> QED
        BY <1>5, <1>8, <1>9, <2>1, <3>1, <3>2
    <2>2. CASE n # m
      BY <1>5, <1>8, <1>9, <2>2 DEF AggregatorInv, ScoresMatchEvidence
    <2> QED
      BY <2>1, <2>2
  <1>16. \A n \in Models : basis'[n].rev <= rev'[n] /\ basis'[n].rev >= basis[n].rev
    <2>1. \A n \in Models : basis[n].rev \in Nat
      BY <1>0 DEF ShapeInv
    <2> QED
      BY <1>3, <1>5, <1>9, <2>1 DEF AggregatorInv
  <1> QED
    BY <1>12, <1>13, <1>14, <1>15, <1>16 DEF AggregatorInv

\* A failed call or a crash rolls back, and gives up the locks of those it ends.
LEMMA FailStep ==
  ASSUME AggregatorInv, Fail
  PROVE  AggregatorInv'
  <1>0. ShapeInv /\ clock \in Nat
    BY DEF AggregatorInv, ShapeInv
  <1>1. PICK S : /\ task' = [t \in Tasks |-> IF t \in S THEN Idle ELSE task[t]]
                 /\ lock' = [m \in Models |-> IF lock[m] \in S THEN None ELSE lock[m]]
    BY DEF Fail
  <1>2. UNCHANGED <<clock, evidence, rev, scores, basis>>
    BY DEF Fail
  <1>3. IsTask(Idle) /\ Idle.pc = "idle"
    BY LoopShape
  <1>4. \A t \in Tasks : task'[t] = Idle \/ (t \notin S /\ task'[t] = task[t])
    BY <1>1
  <1>5. ShapeInv'
    <2>1. task' = [t \in Tasks |-> task'[t]]
      BY <1>1
    <2>2. \A t \in Tasks : IsTask(task'[t])
      BY <1>0, <1>3, <1>4 DEF ShapeInv
    <2>3. lock' \in [Models -> Tasks \cup {None}]
      BY <1>0, <1>1 DEF ShapeInv
    <2> QED
      BY <1>0, <1>2, <2>1, <2>2, <2>3 DEF ShapeInv, IsTask
  <1>6. LockInv'
    BY <1>1, <1>3, <1>4 DEF AggregatorInv, LockInv, Holds
  <1>7. \A t \in Tasks : task'[t].pc = "computed" => task'[t] = task[t]
    BY <1>3, <1>4
  <1> QED
    BY <1>0, <1>2, <1>5, <1>6, <1>7, SameEvidence, Carry

\* Boards, operators and the clock touch no task.
LEMMA AroundStep ==
  ASSUME AggregatorInv, Publish \/ Withdraw \/ Tick \/ UNCHANGED vars
  PROVE  AggregatorInv'
  <1>0. ShapeInv
    BY DEF AggregatorInv
  <1>1. UNCHANGED <<scores, basis, lock, task>> /\ clock' \in Nat
    BY <1>0 DEF Publish, Withdraw, Tick, vars, ShapeInv
  <1>2. /\ rev' \in [Models -> Nat] /\ evidence' = [m \in Models |-> evidence'[m]]
        /\ \A m \in Models : \/ evidence'[m] = evidence[m] /\ rev'[m] = rev[m]
                             \/ rev'[m] = rev[m] + 1
    BY <1>0 DEF Publish, Withdraw, Tick, vars, ShapeInv
  <1>3. ShapeInv'
    BY <1>0, <1>1, <1>2 DEF ShapeInv, IsTask
  <1>4. LockInv'
    BY <1>1 DEF AggregatorInv, LockInv, Holds
  <1> QED
    BY <1>1, <1>2, <1>3, <1>4, Carry

\* The invariant holds before the first scrape.
LEMMA AggregatorInit == Init => AggregatorInv
  <1> SUFFICES ASSUME Init PROVE AggregatorInv
    OBVIOUS
  <1>1. IsTask(Idle) /\ Idle.pc = "idle"
    BY LoopShape
  <1>2. \A t \in Tasks : task[t] = Idle
    BY DEF Init
  <1>3. ShapeInv
    BY <1>1, <1>2 DEF Init, ShapeInv
  <1>4. LockInv /\ ReadInv
    BY <1>1, <1>2 DEF LockInv, ReadInv, Holds
  <1>5. \A m \in Models : basis[m].rev <= rev[m] /\ evidence[m] = {} /\ scores[m] = <<>>
    BY DEF Init
  <1>6. ScoresMatchEvidence
    BY <1>5, NothingComputed DEF ScoresMatchEvidence
  <1> QED
    BY <1>3, <1>4, <1>5, <1>6 DEF AggregatorInv

\* Only a commit moves the basis of a model's scores, and never back.
LEMMA AggregatorStep ==
  ASSUME AggregatorInv, [Next]_vars
  PROVE  AggregatorInv' /\ \A m \in Models : basis'[m].rev >= basis[m].rev
  <1>1. \A m \in Models : basis[m].rev \in Nat
    BY DEF AggregatorInv, ShapeInv
  <1>2. ASSUME NEW t \in Tasks, Step(t)
        PROVE  AggregatorInv' /\ \A m \in Models : basis'[m].rev >= basis[m].rev
    <2>1. CASE Commit(t)
      BY <2>1, CommitStep
    <2>2. CASE ~ Commit(t)
      <3>1. AggregatorInv'
        BY <1>2, <2>2, ScrapeSteps, LockStep, ReadStep DEF Step
      <3>2. UNCHANGED basis
        BY <1>2, <2>2 DEF Step, Fetch, Upsert, List, Lock, Read
      <3> QED
        BY <1>1, <3>1, <3>2
    <2> QED
      BY <2>1, <2>2
  <1>3. CASE Ingest \/ Fail \/ Publish \/ Withdraw \/ Tick \/ UNCHANGED vars
    <2>1. AggregatorInv'
      BY <1>3, IngestStep, FailStep, AroundStep
    <2>2. UNCHANGED basis
      BY <1>3 DEF Ingest, Fail, Publish, Withdraw, Tick, vars
    <2> QED
      BY <1>1, <2>1, <2>2
  <1> QED
    BY <1>2, <1>3 DEF Next

\* Locks, reads and scores stay in step in every state.
THEOREM AggregatorInvariant == Spec => []AggregatorInv
  <1>1. AggregatorInv /\ [Next]_vars => AggregatorInv'
    BY AggregatorStep
  <1> QED
    BY <1>1, AggregatorInit, PTL DEF Spec

(* computeCapabilityScoresWithBenchmarks: rows that were computed from the *)
(* present evidence of a model are exactly what it supports, one for each  *)
(* dimension with evidence and none for the others, whichever tasks        *)
(* overlapped, failed or were retried on the way.                          *)
THEOREM ScoresExact == Spec => []ScoresMatchEvidence
  <1>1. AggregatorInv => ScoresMatchEvidence
    BY DEF AggregatorInv
  <1> QED
    BY <1>1, AggregatorInvariant, PTL

(* "cannot commit results derived from an older evidence snapshot": with   *)
(* the advisory lock taken before the read, no overlap of scrapers, of the *)
(* daily task and of the tool replaces scores by older ones.               *)
THEOREM NeverStale == Spec => NoStaleOverwrite
  <1>1. AggregatorInv /\ [Next]_vars => \A m \in Models : basis'[m].rev >= basis[m].rev
    BY AggregatorStep
  <1> QED
    BY <1>1, AggregatorInvariant, PTL DEF Spec, NoStaleOverwrite

=============================================================================
