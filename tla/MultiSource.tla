----------------------------- MODULE MultiSource -----------------------------
(***************************************************************************)
(* What processMultiSource decides for one (model, field) group of diffs   *)
(* that come from at least two distinct effective providers: which pair of *)
(* sources to flag, and which value to publish with which confidence.      *)
(*                                                                         *)
(* A group is a set of diffs [source, model, field, value] with one diff   *)
(* per source. The code sorts the group by source name; Rank gives that    *)
(* order.                                                                  *)
(***************************************************************************)
EXTENDS Naturals, FiniteSets

CONSTANT Rank   \* alphabetical position of each source name

\* groupDiffs[0] after the sort (any of them if a source is listed twice).
First(G) == {d \in G : \A e \in G : Rank[d.source] <= Rank[e.source]}

AllAgree(G) == \A d, e \in G : d.value = e.value

-----------------------------------------------------------------------------
(* The pair with the largest relative difference |a - b| / max(a, b); the  *)
(* fractions are compared by cross multiplication.                         *)

Hi(a, b) == IF a > b THEN a ELSE b

Gap(a, b) == IF a > b THEN a - b ELSE b - a

\* models.DiscrepancyThreshold = 0.05
Discrepant(a, b) == 20 * Gap(a, b) > Hi(a, b)

OrderedPairs(G) == {p \in G \X G : /\ Rank[p[1].source] < Rank[p[2].source]
                                   /\ Hi(p[1].value, p[2].value) > 0}

Wider(p, q) == Gap(p[1].value, p[2].value) * Hi(q[1].value, q[2].value)
                 > Gap(q[1].value, q[2].value) * Hi(p[1].value, p[2].value)

Earlier(p, q) ==
  \/ Rank[p[1].source] < Rank[q[1].source]
  \/ p[1].source = q[1].source /\ Rank[p[2].source] <= Rank[q[2].source]

\* Mutant: comparing the first two sources only.
FirstPair(G) == {p \in OrderedPairs(G) : \A q \in OrderedPairs(G) : Earlier(p, q)}

WorstPair(G) ==
  {p \in OrderedPairs(G) : \A q \in OrderedPairs(G) :
    Wider(p, q) \/ (~Wider(q, p) /\ Earlier(p, q))}

-----------------------------------------------------------------------------
(* The largest cluster of equal values, the earliest source winning ties.  *)

Support(G, d) == Cardinality({e \in G : e.value = d.value})

Consensus(G) ==
  {d \in G : \A e \in G :
    \/ Support(G, e) < Support(G, d)
    \/ /\ Support(G, e) = Support(G, d)
       /\ Rank[d.source] <= Rank[e.source]}

-----------------------------------------------------------------------------
Flags(G) ==
  /\ ~AllAgree(G)
  /\ \E p \in WorstPair(G) : Discrepant(p[1].value, p[2].value)

\* The published diff and its confidence: at most one.
Verdict(G) ==
  IF AllAgree(G) THEN {[diff |-> d, conf |-> "high"] : d \in First(G)}
  ELSE IF ~Flags(G) THEN {[diff |-> d, conf |-> "medium"] : d \in First(G)}
  ELSE {[diff |-> d, conf |-> "high"] : d \in {c \in Consensus(G) : Support(G, c) >= 2}}
=============================================================================
