----------------------------- MODULE MCPipeline -----------------------------
(***************************************************************************)
(* Instances of Pipeline for TLC.                                          *)
(***************************************************************************)
EXTENDS Pipeline, TLC

Q(i, o) == [input |-> i, output |-> o]

\* One task per source, as runPipeline calls Reconcile.
OneSourceBatches == {{s} : s \in Sources}

\* openrouter passes openai's prices through, so it shares openai's gate key.
AggregatorProvider ==
  [s \in Sources |-> [m \in Models |-> IF s = "openrouter" THEN "openai" ELSE NoProvider]]

Alphabetical ==
  [s \in Sources |-> CASE s = "huggingface" -> 1 [] s = "litellm" -> 2
                       [] s = "openai" -> 3 [] s = "openrouter" -> 4]

\* A change of one column and of both.
GateQuotes == {Q(1, 1), Q(2, 1), Q(2, 2)}

\* A source that sometimes reports no output price.
FreeQuotes == {Q(1, 1), Q(2, 2), Q(2, 0)}

\* One price with more decimals than the column keeps.
FineQuotes == {Q(10, 10), Q(14, 10)}

\* Both columns move together.
BothColumns == {Q(1, 1), Q(2, 2)}

\* The input price changes, the output price does not.
InputChanges == {Q(1, 1), Q(2, 1)}

\* The workers are interchangeable.
WorkerSymmetry == Permutations(Workers)

\* What the mirror depends on: the log, the events and the history variables are only
\* written, and with one source in a batch the review queue stays empty.
MirrorView == <<prices, pc, job, pending, mirror, expires, loaded, now, boundVars>>

\* A batch with the diffs of every source, as Reconcile is called in its tests.
JointBatch == {Sources}

\* 20 and 21 are within 5% of each other, 40 is not.
ReviewQuotes == {Q(20, 20), Q(21, 20), Q(40, 20)}
=============================================================================
