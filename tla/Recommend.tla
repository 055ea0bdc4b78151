----------------------------- MODULE Recommend -----------------------------
(* GET /v1/recommend over the capability table that Capability maintains: a  *)
(* pool of candidates from the price tables, ranked by a composite of their  *)
(* capability scores (internal/api/handlers/recommend.go, internal/          *)
(* intelligence/scorer.go). A request reads the table in one query, so its   *)
(* answer is a function of the table as it is then.                          *)
EXTENDS Capability, SequencesExt

CONSTANTS
  Catalog,     \* models that are offered: price, confirmed_at, context window, modality
  Rivals,      \* the capability rows of those whose evidence does not change here
  Wishes,      \* the requests that are looked at
  Primary,     \* useCaseDimensions: use case -> primary dimensions
  Modality,    \* useCaseModalityMap: use case -> modality, or Unset
  Unset,       \* no filter
  NoUseCase,   \* a request without use_case
  PoolSize,    \* LIMIT 200
  MinScore,    \* minCapabilityScore
  Grain        \* scores are compared in units of 1 / Grain

ASSUME RecommendAssumption ==
  /\ DOMAIN Catalog = Models \cup DOMAIN Rivals /\ Models \cap DOMAIN Rivals = {}
  /\ PoolSize \in Nat \ {0} /\ MinScore \in Nat \ {0} /\ Grain \in Nat \ {0}

-----------------------------------------------------------------------------
(* The pool.                                                                 *)

\* The most recently confirmed first, the cheaper of two first.
MoreRecent(m, n) ==
  \/ Catalog[m].confirmed > Catalog[n].confirmed
  \/ Catalog[m].confirmed = Catalog[n].confirmed /\ Catalog[m].price < Catalog[n].price

Eligible(w) ==
  {m \in DOMAIN Catalog :
     /\ Catalog[m].context >= w.context
     /\ w.maxPrice = Unset \/ Catalog[m].price <= w.maxPrice
     /\ Modality[w.useCase] \in {Unset, Catalog[m].modality}}

\* RecommendModels: what ORDER BY ... LIMIT may answer. The filter of the task
\* comes after the LIMIT.
Pools(w) ==
  LET ordered == {s \in SetToSeqs(Eligible(w)) : \A i, j \in DOMAIN s : i < j => ~MoreRecent(s[j], s[i])}
      OfTask(m) == w.modality \in {Unset, Catalog[m].modality}
  IN {SelectSeq(SubSeq(s, 1, Min({PoolSize, Len(s)})), OfTask) : s \in ordered}

PoolsOf == [w \in Wishes |-> Pools(w)]

-----------------------------------------------------------------------------
(* The composite score.                                                      *)

\* GetCapabilityScoresForModels: the rows of the models, here tab, with the rows that
\* the capability tasks have written.
TableOf(live) == live @@ Rivals

ScoreOf(tab, m, d) == (tab[m][d].sum * Grain) \div tab[m][d].weight

\* dimensionWeights, in eighths.
DimensionWeight(w, d) ==
  LET primary == d \in Primary[w.useCase]
  IN CASE w.priority = "quality" -> IF primary THEN 16 ELSE 1
       [] w.priority = "cost"    -> IF primary THEN 6 ELSE 2
       [] w.priority = "speed"   -> IF primary THEN 4 ELSE 2
       [] OTHER                  -> IF primary THEN 8 ELSE 2

\* ScoreModel: the weighted mean over the dimensions the model has a row for, as
\* a pair. Without any it is 0. A mean of scores is within their bounds.
ScoreModel(w, tab, m) ==
  [sum    |-> MapThenSumSet(LAMBDA d : ScoreOf(tab, m, d) * DimensionWeight(w, d), DOMAIN tab[m]),
   weight |-> MapThenSumSet(LAMBDA d : DimensionWeight(w, d), DOMAIN tab[m])]

HasScore(c) == c.sum > 0

\* Mutant: the price decides between models that have scores.
CheaperFirst(c, m, n) ==
  \/ HasScore(c[m]) /\ ~HasScore(c[n])
  \/ HasScore(c[m]) /\ HasScore(c[n]) /\ Catalog[m].price < Catalog[n].price
  \/ ~HasScore(c[m]) /\ ~HasScore(c[n]) /\ MoreRecent(m, n)

\* The comparison of the sort, of models with the composites c. Scores that differ
\* do so by more than its epsilon.
RanksBefore(c, m, n) ==
  \/ HasScore(c[m]) /\ ~HasScore(c[n])
  \/ /\ HasScore(c[m]) /\ HasScore(c[n])
     /\ LET a == c[m].sum * c[n].weight
            b == c[n].sum * c[m].weight
        IN a > b \/ (a = b /\ Catalog[m].price < Catalog[n].price)
  \/ ~HasScore(c[m]) /\ ~HasScore(c[n]) /\ MoreRecent(m, n)

-----------------------------------------------------------------------------
(* The answer.                                                               *)

\* sort.SliceStable.
Ranked(w, tab, pool) ==
  LET c == [m \in ToSet(pool) |-> ScoreModel(w, tab, m)]
      Before(i, j) == \/ RanksBefore(c, pool[i], pool[j])
                      \/ i < j /\ ~RanksBefore(c, pool[j], pool[i])
      above == [j \in DOMAIN pool |-> Cardinality({i \in DOMAIN pool : Before(i, j)})]
  IN [k \in DOMAIN pool |-> pool[CHOOSE j \in DOMAIN pool : above[j] = k - 1]]

\* Models below the threshold are dropped, unless that would leave none.
Gate(wanted, d, tab, list) ==
  LET Supports(m) == d \in DOMAIN tab[m] /\ ScoreOf(tab, m, d) >= MinScore * Grain
      supporting  == SelectSeq(list, Supports)
  IN IF wanted /\ supporting # <<>> THEN supporting ELSE list

Gated(w, tab, list) ==
  Gate(w.structured, "structured_output", tab, Gate(w.tools, "tool_use", tab, list))

TopK(w, list) == SubSeq(list, 1, Min({w.topK, Len(list)}))

\* recommendPriceBased returns the pool as it is; recommendCapabilityBased ranks,
\* filters and cuts. (Warnings and rationales describe the answer and are left out.)
Answer(w, tab, pool) ==
  IF w.useCase = NoUseCase THEN pool ELSE TopK(w, Gated(w, tab, Ranked(w, tab, pool)))

-----------------------------------------------------------------------------
(* Properties.                                                               *)

Meets(tab, m, d) == d \in DOMAIN tab[m] /\ ScoreOf(tab, m, d) >= MinScore * Grain

\* n is known by the same dimensions as m and is nowhere better; m is better
\* somewhere, or cheaper.
Outclasses(tab, m, n) ==
  /\ DOMAIN tab[m] = DOMAIN tab[n]
  /\ \A d \in DOMAIN tab[n] : ScoreOf(tab, m, d) >= ScoreOf(tab, n, d)
  /\ \E d \in DOMAIN tab[m] : ScoreOf(tab, m, d) > 0
  /\ \/ \E d \in DOMAIN tab[m] : ScoreOf(tab, m, d) > ScoreOf(tab, n, d)
     \/ Catalog[m].price < Catalog[n].price

\* A model is never recommended ahead of, or instead of, a candidate that
\* outclasses it; and one without the tool use that was required is recommended
\* only when no candidate has it.
Sound(w, tab, pool) ==
  LET answer == Answer(w, tab, pool)
  IN \A i \in DOMAIN answer, c \in DOMAIN pool :
       /\ Outclasses(tab, pool[c], answer[i]) => \E j \in 1..(i - 1) : answer[j] = pool[c]
       /\ w.tools /\ Meets(tab, pool[c], "tool_use") => Meets(tab, answer[i], "tool_use")

(* Whatever the capability tasks have written, in whatever order, when they  *)
(* come to rest every request for a use case, with its priority and its      *)
(* requirements, is answered soundly from the rows they leave behind.        *)
RecommendationSound ==
  (\A t \in Tasks : task[t].pc = "idle") =>
    \A tab \in {TableOf(scores)}, w \in Wishes : w.useCase # NoUseCase =>
      \A pool \in PoolsOf[w] : Sound(w, tab, pool)
=============================================================================
