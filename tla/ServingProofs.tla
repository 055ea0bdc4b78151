--------------------------- MODULE ServingProofs ---------------------------
(***************************************************************************)
(* Theorems about Serving, for any number of writers, clients, models and  *)
(* rows and any page size: how old an answer with prices can be, that its  *)
(* metadata fits its prices although rows are committed between the two    *)
(* queries of a handler, and that a client that pages through a list       *)
(* misses nothing although rows are committed between its pages.           *)
(***************************************************************************)
EXTENDS Serving, FiniteSetTheorems, TLAPS


-----------------------------------------------------------------------------
(* The CHOOSEs of LatestOf and Foremost find what they look for.           *)

\* A set of naturals has a smallest member.
LEMMA Smallest ==
  ASSUME NEW T \in SUBSET Nat, T # {}
  PROVE  \E x \in T : \A y \in T : x <= y
  <1>1. PICK x \in T : \A y \in T : ~(<<y, x>> \in OpToRel(<, Nat))
    BY NatLessThanWellFounded, WFMin
  <1>2. ASSUME NEW y \in T PROVE x <= y
    <2>1. ~(y < x)
      BY <1>1 DEF OpToRel
    <2> QED
      BY <2>1
  <1> QED
    BY <1>2

\* A bounded one has a largest.
LEMMA Largest ==
  ASSUME NEW T \in SUBSET Nat, T # {}, NEW b \in Nat, \A y \in T : y <= b
  PROVE  \E x \in T : \A y \in T : y <= x
  <1> DEFINE U == {b - y : y \in T}
  <1>1. U \in SUBSET Nat /\ U # {}
    <2>1. ASSUME NEW y \in T PROVE b - y \in Nat
      <3>1. y \in Nat /\ y <= b
        OBVIOUS
      <3> QED
        BY <3>1
    <2>2. U \in SUBSET Nat
      BY <2>1
    <2> QED
      BY <2>2
  <1>2. PICK u \in U : \A v \in U : u <= v
    BY <1>1, Smallest
  <1>3. PICK x \in T : u = b - x
    OBVIOUS
  <1>4. ASSUME NEW y \in T PROVE y <= x
    <2>1. b - y \in U
      OBVIOUS
    <2>2. b - x <= b - y
      BY <1>2, <1>3, <2>1
    <2> QED
      BY <2>2
  <1> QED
    BY <1>4

Row == [model : Models, source : Sources, pair : Pairs, at : Nat]

\* LatestOf is a row that none is confirmed after.
LEMMA LatestExists ==
  ASSUME NEW h \in Seq(Row), NEW R \in SUBSET DOMAIN h, R # {}, NEW b \in Nat,
         \A i \in DOMAIN h : h[i].at <= b
  PROVE  LatestOf(h, R) \in R /\ \A j \in R : h[j].at <= h[LatestOf(h, R)].at
  <1>0. /\ \A i \in R : h[i].at \in Nat /\ h[i].at <= b
        /\ \A i \in R : i \in Nat
    <2>1. DOMAIN h = 1..Len(h) /\ Len(h) \in Nat /\ \A i \in DOMAIN h : h[i] \in Row
      OBVIOUS
    <2>2. ASSUME NEW i \in R PROVE i \in Nat /\ h[i] \in Row /\ h[i].at <= b
      BY <2>1
    <2>3. \A r \in Row : r.at \in Nat
      BY DEF Row
    <2> QED
      BY <2>2, <2>3
  <1> DEFINE A == {h[i].at : i \in R}
  <1>1. PICK t \in A : \A u \in A : u <= t
    <2>1. A \in SUBSET Nat /\ A # {} /\ \A u \in A : u <= b
      BY <1>0
    <2> QED
      BY <2>1, Largest
  <1> DEFINE I == {i \in R : h[i].at = t}
  <1>2. PICK i \in I : \A j \in I : i <= j
    <2>1. I \in SUBSET Nat /\ I # {}
      BY <1>0
    <2> QED
      BY <2>1, Smallest
  <1>3. i \in R /\ \A j \in R : h[j].at < h[i].at \/ (h[j].at = h[i].at /\ i <= j)
    <2>1. i \in R /\ h[i].at = t
      OBVIOUS
    <2>2. ASSUME NEW j \in R PROVE h[j].at < h[i].at \/ (h[j].at = h[i].at /\ i <= j)
      <3>1. h[j].at <= t /\ h[j].at \in Nat /\ t \in Nat
        BY <1>0, <1>1
      <3>2. CASE h[j].at = t
        BY <1>2, <2>1, <3>2
      <3>3. CASE h[j].at # t
        BY <2>1, <3>1, <3>3
      <3> QED
        BY <3>2, <3>3
    <2> QED
      BY <2>1, <2>2
  <1> DEFINE Last(k) == \A j \in R : h[j].at < h[k].at \/ (h[j].at = h[k].at /\ k <= j)
  <1>4. LatestOf(h, R) \in R /\ Last(LatestOf(h, R))
    <2>1. LatestOf(h, R) = CHOOSE k \in R : Last(k)
      BY DEF LatestOf
    <2>2. \E k \in R : Last(k)
      BY <1>3
    <2> HIDE DEF Last
    <2> QED
      BY <2>1, <2>2
  <1>5. ASSUME NEW j \in R PROVE h[j].at <= h[LatestOf(h, R)].at
    <2>1. h[j].at \in Nat /\ h[LatestOf(h, R)].at \in Nat
      BY <1>0, <1>4
    <2> QED
      BY <1>4, <2>1
  <1> QED
    BY <1>4, <1>5

\* The metadata of a model with rows: it is confirmed by the last of them, and medium only
\* while that or the verification is recent.
LEMMA MetaOf ==
  ASSUME NEW h \in Seq(Row), NEW m, RowsOf(h, m) # {}, NEW b \in Nat,
         \A i \in DOMAIN h : h[i].at <= b, NEW v \in Nat, NEW t \in Nat
  PROVE  LET meta == ComputeTrustMeta(h, m, v, t)
         IN /\ meta.confirmed \in Nat /\ meta.confirmed <= b
            /\ \A i \in RowsOf(h, m) : h[i].at <= meta.confirmed
            /\ meta.confidence = "medium" =>
                 t <= meta.confirmed + StaleAfter \/ t <= v + StaleAfter
  <1> DEFINE R == RowsOf(h, m)
             l == LatestOf(h, R)
             a == FreshnessAnchor(h[l].at, v)
             meta == ComputeTrustMeta(h, m, v, t)
  <1>1. R \in SUBSET DOMAIN h
    BY DEF RowsOf
  <1>2. l \in R /\ \A j \in R : h[j].at <= h[l].at
    BY <1>1, LatestExists
  <1>3. h[l].at \in Nat /\ h[l].at <= b
    <2>1. l \in DOMAIN h
      BY <1>1, <1>2
    <2> HIDE DEF l
    <2>2. h[l] \in Row
      BY <2>1
    <2> QED
      BY <2>1, <2>2 DEF Row
  <1>4. /\ meta.confirmed = h[l].at
        /\ meta.confidence = "medium" => t - a <= StaleAfter
    BY DEF ComputeTrustMeta
  <1>5. a = h[l].at \/ a = v
    BY DEF FreshnessAnchor
  <1>6. StaleAfter \in Nat
    BY ServingAssumption
  <1> HIDE DEF a, l, R, meta
  <1>7. meta.confidence = "medium" => t <= h[l].at + StaleAfter \/ t <= v + StaleAfter
    BY <1>3, <1>4, <1>5, <1>6
  <1> QED
    BY <1>2, <1>3, <1>4, <1>7 DEF R, meta

\* Foremost is the model that none is confirmed after.
LEMMA ForemostExists ==
  ASSUME NEW metas, DOMAIN metas # {}, NEW b \in Nat,
         \A m \in DOMAIN metas : metas[m].confirmed \in Nat /\ metas[m].confirmed <= b
  PROVE  /\ Foremost(metas) \in DOMAIN metas
         /\ \A n \in DOMAIN metas : metas[n].confirmed <= metas[Foremost(metas)].confirmed
  <1> DEFINE A == {metas[m].confirmed : m \in DOMAIN metas}
  <1>1. PICK t \in A : \A u \in A : u <= t
    <2>1. A \in SUBSET Nat /\ A # {} /\ \A u \in A : u <= b
      OBVIOUS
    <2> QED
      BY <2>1, Largest
  <1>2. \E m \in DOMAIN metas : \A n \in DOMAIN metas : metas[n].confirmed <= metas[m].confirmed
    BY <1>1
  <1> QED
    BY <1>2 DEF Foremost

-----------------------------------------------------------------------------
(* The inductive invariant.                                                *)

Open == [open : {TRUE}, model : Models, source : Sources, pair : Pairs, at : Nat]

TableTypeOK ==
  /\ asked \in Endpoints /\ clock \in Nat
  /\ history \in Seq(Row)
  /\ writing \in [Writers -> Open \cup {NoWrite}]
  /\ verified \in [Models -> [Sources -> Nat]] /\ seenAt \in [Models -> [Sources -> Nat]]

\* A stamp lies in the past, and a row is verified no later than its model was listed.
StampInv ==
  /\ \A i \in DOMAIN history : history[i].at <= clock
  /\ \A w \in Writers : writing[w].open => writing[w].at <= clock
  /\ \A m \in Models, s \in Sources : verified[m][s] <= seenAt[m][s] /\ seenAt[m][s] <= clock

\* The confirmation time of a body covers all of its prices, and a body called medium rests
\* on a confirmation or a listing that was recent when its prices were read.
BodyFits(b, h, seen, t) ==
  /\ b.read \in Nat /\ b.read <= t /\ b.meta.confirmed \in Nat
  /\ b.of \in DOMAIN b.rows
  /\ \A m \in DOMAIN b.rows : /\ m \in Models /\ b.rows[m] \in RowsOf(h, m)
                              /\ h[b.rows[m]].at <= b.meta.confirmed
  /\ b.meta.confidence = "medium" =>
       \/ b.read <= b.meta.confirmed + StaleAfter
       \/ b.read <= seen[b.of][h[b.rows[b.of]].source] + StaleAfter

\* Between its queries a handler holds rows of the table, and stamps that are no later than
\* the listing they record.
RowsFit(r, h, seen) ==
  /\ DOMAIN r.rows = r.query.arg
  /\ \A m \in r.query.arg : /\ r.rows[m] \in RowsOf(h, m)
                            /\ r.stamps[m] \in Nat
                            /\ r.stamps[m] <= seen[m][h[r.rows[m]].source]

\* No request outlives its timeout.
RequestInv(c) ==
  /\ req[c].pc \in {"idle", "meta", "store"}
  /\ req[c].pc # "idle" =>
       /\ req[c].query \in Queries /\ req[c].query.path = asked
       /\ req[c].start \in Nat /\ req[c].start <= clock /\ clock <= req[c].start + Timeout
  /\ req[c].pc = "meta" => asked \in Priced /\ RowsFit(req[c], history, seenAt)
  /\ req[c].pc = "store" /\ asked \in Priced =>
       BodyFits(req[c].body, history, seenAt, clock) /\ req[c].body.read = req[c].start

\* No entry outlives its lifetime, which begins within the timeout of the request that stored it.
EntryInv(q) ==
  cache[q].filled /\ q.path \in Priced =>
    /\ cache[q].expires \in Nat /\ clock <= cache[q].expires
    /\ cache[q].expires <= cache[q].body.read + Timeout + TTL
    /\ BodyFits(cache[q].body, history, seenAt, clock)

RequestsInv ==
  /\ DOMAIN req = Clients /\ DOMAIN cache = Queries
  /\ \A c \in Clients : RequestInv(c)
  /\ \A q \in Queries : EntryInv(q)

TablesInv == TableTypeOK /\ StampInv

AnswerInv == TablesInv /\ RequestsInv

-----------------------------------------------------------------------------
(* What other steps do to an answer.                                       *)

\* The log is appended to, listings and the clock only move forward.
Advances(h, g, seen, seen2, t, t2) ==
  /\ \A i \in DOMAIN h : i \in DOMAIN g /\ g[i] = h[i] /\ h[i].source \in Sources
  /\ \A m \in Models, s \in Sources :
       seen[m][s] \in Nat /\ seen2[m][s] \in Nat /\ seen[m][s] <= seen2[m][s]
  /\ t \in Nat /\ t2 \in Nat /\ t <= t2

\* A body stays true of the tables it was read from.
LEMMA BodyStays ==
  ASSUME NEW b, NEW h, NEW g, NEW seen, NEW seen2, NEW t, NEW t2,
         Advances(h, g, seen, seen2, t, t2), BodyFits(b, h, seen, t)
  PROVE  BodyFits(b, g, seen2, t2)
  <1>1. ASSUME NEW m \in DOMAIN b.rows
        PROVE  /\ m \in Models /\ b.rows[m] \in RowsOf(g, m)
               /\ g[b.rows[m]] = h[b.rows[m]]
               /\ h[b.rows[m]].source \in Sources
               /\ g[b.rows[m]].at <= b.meta.confirmed
    BY <1>1 DEF BodyFits, Advances, RowsOf
  <1>2. b.read <= t2
    BY DEF BodyFits, Advances
  <1>3. ASSUME b.meta.confidence = "medium"
        PROVE  \/ b.read <= b.meta.confirmed + StaleAfter
               \/ b.read <= seen2[b.of][g[b.rows[b.of]].source] + StaleAfter
    <2> DEFINE s == h[b.rows[b.of]].source
    <2>1. b.of \in Models /\ s \in Sources /\ g[b.rows[b.of]].source = s
      BY <1>1 DEF BodyFits
    <2>2. seen[b.of][s] \in Nat /\ seen2[b.of][s] \in Nat /\ seen[b.of][s] <= seen2[b.of][s]
      BY <2>1 DEF Advances
    <2>3. b.read <= b.meta.confirmed + StaleAfter \/ b.read <= seen[b.of][s] + StaleAfter
      BY <1>3 DEF BodyFits
    <2>4. b.read \in Nat /\ StaleAfter \in Nat
      BY ServingAssumption DEF BodyFits
    <2> HIDE DEF s
    <2>5. b.read <= b.meta.confirmed + StaleAfter \/ b.read <= seen2[b.of][s] + StaleAfter
      BY <2>2, <2>3, <2>4
    <2> QED
      BY <2>1, <2>5
  <1> QED
    BY <1>1, <1>2, <1>3 DEF BodyFits

\* So do the rows a handler holds between its queries.
LEMMA RowsStay ==
  ASSUME NEW r, NEW h, NEW g, NEW seen, NEW seen2, NEW t, NEW t2,
         r.query.arg \subseteq Models,
         Advances(h, g, seen, seen2, t, t2), RowsFit(r, h, seen)
  PROVE  RowsFit(r, g, seen2)
  <1>1. ASSUME NEW m \in r.query.arg
        PROVE  /\ r.rows[m] \in RowsOf(g, m)
               /\ r.stamps[m] \in Nat
               /\ r.stamps[m] <= seen2[m][g[r.rows[m]].source]
    <2> DEFINE s == h[r.rows[m]].source
    <2>1. r.rows[m] \in RowsOf(g, m) /\ s \in Sources /\ g[r.rows[m]].source = s
      BY DEF RowsFit, Advances, RowsOf
    <2>2. r.stamps[m] \in Nat /\ r.stamps[m] <= seen[m][s]
      BY DEF RowsFit
    <2>3. seen[m][s] \in Nat /\ seen2[m][s] \in Nat /\ seen[m][s] <= seen2[m][s]
      BY <2>1 DEF Advances
    <2> HIDE DEF s
    <2>4. r.stamps[m] <= seen2[m][s]
      BY <2>2, <2>3
    <2> QED
      BY <2>1, <2>2, <2>4
  <1> QED
    BY <1>1 DEF RowsFit

\* A query for prices names models, and at least one.
LEMMA PricedQuery ==
  ASSUME NEW q \in Queries, q.path \in Priced
  PROVE  q.arg \subseteq Models /\ q.arg # {}
  <1>1. CASE q.path = "model"
    BY <1>1 DEF Queries
  <1>2. CASE q.path = "compare"
    <2>1. q.arg \in {S \in SUBSET Models : Cardinality(S) > 1}
      BY <1>2 DEF Queries
    <2>2. Cardinality({}) = 0
      BY FS_EmptySet
    <2> QED
      BY <2>1, <2>2
  <1> QED
    BY <1>1, <1>2 DEF Priced

Advance == Advances(history, history', seenAt, seenAt', clock, clock')

\* A request that a step leaves alone stays as it should be, if its deadline allows the step.
LEMMA RequestStays ==
  ASSUME NEW c \in Clients, RequestInv(c), Advance, asked' = asked, req'[c] = req[c],
         req[c].pc # "idle" => clock' <= req[c].start + Timeout
  PROVE  RequestInv(c)'
  <1>1. req[c].pc # "idle" =>
          /\ req[c].query \in Queries /\ req[c].query.path = asked
          /\ req[c].start \in Nat /\ req[c].start <= clock'
    <2>1. req[c].pc # "idle" => req[c].start \in Nat /\ req[c].start <= clock
      BY DEF RequestInv
    <2>2. clock \in Nat /\ clock' \in Nat /\ clock <= clock'
      BY DEF Advance, Advances
    <2> QED
      BY <2>1, <2>2 DEF RequestInv
  <1>2. req[c].pc = "meta" => asked \in Priced /\ RowsFit(req[c], history', seenAt')
    <2> SUFFICES ASSUME req[c].pc = "meta"
                 PROVE  asked \in Priced /\ RowsFit(req[c], history', seenAt')
      OBVIOUS
    <2>1. asked \in Priced /\ RowsFit(req[c], history, seenAt)
      BY DEF RequestInv
    <2>2. req[c].query.arg \subseteq Models
      BY <1>1, <2>1, PricedQuery
    <2> QED
      BY <2>1, <2>2, RowsStay DEF Advance
  <1>3. req[c].pc = "store" /\ asked \in Priced =>
          BodyFits(req[c].body, history', seenAt', clock') /\ req[c].body.read = req[c].start
    BY BodyStays DEF RequestInv, Advance
  <1> QED
    BY <1>1, <1>2, <1>3 DEF RequestInv, Queries

\* Likewise for an entry of the cache.
LEMMA EntryStays ==
  ASSUME NEW q \in Queries, EntryInv(q), Advance, cache'[q] = cache[q],
         cache[q].filled /\ q.path \in Priced => clock' <= cache[q].expires
  PROVE  EntryInv(q)'
  BY BodyStays DEF EntryInv, Advance

-----------------------------------------------------------------------------
(* The tables.                                                             *)

TableVars == <<clock, history, writing, verified, seenAt, asked>>

\* The fields of a committed snapshot.
LEMMA RowFields ==
  ASSUME TablesInv, NEW i \in DOMAIN history
  PROVE  /\ history[i] \in Row
         /\ history[i].source \in Sources /\ history[i].at \in Nat /\ history[i].at <= clock
  <1>1. \A r \in Row : r.source \in Sources /\ r.at \in Nat
    BY DEF Row
  <1>2. history[i] \in Row
    BY DEF TablesInv, TableTypeOK
  <1>3. history[i].at <= clock
    BY DEF TablesInv, StampInv
  <1> QED
    BY <1>1, <1>2, <1>3

\* Steps of clients leave the tables alone.
LEMMA TablesIdle ==
  ASSUME TablesInv, UNCHANGED TableVars
  PROVE  TablesInv' /\ Advance /\ asked' = asked
  <1>1. TablesInv'
    BY DEF TablesInv, TableTypeOK, StampInv, TableVars
  <1>2. \A i \in DOMAIN history : history[i].source \in Sources
    BY RowFields
  <1>3. \A m \in Models, s \in Sources : seenAt[m][s] \in Nat
    BY DEF TablesInv, TableTypeOK
  <1> QED
    BY <1>1, <1>2, <1>3 DEF Advance, Advances, TableVars, TablesInv, TableTypeOK

\* A stamp is the present time.
LEMMA StampStep ==
  ASSUME TablesInv, NEW w \in Writers, NEW m \in Models, NEW s \in Sources, NEW p \in Pairs,
         StampPrice(w, m, s, p)
  PROVE  TablesInv' /\ Advance /\ asked' = asked
  <1>1. UNCHANGED <<clock, history, verified, seenAt, asked>>
    BY DEF StampPrice
  <1>2. TableTypeOK'
    <2> DEFINE new == [open |-> TRUE, model |-> m, source |-> s, pair |-> p, at |-> clock]
    <2>1. new \in Open
      BY DEF Open, TablesInv, TableTypeOK
    <2>2. writing' = [writing EXCEPT ![w] = new]
      BY DEF StampPrice
    <2> HIDE DEF new
    <2> QED
      BY <1>1, <2>1, <2>2 DEF TablesInv, TableTypeOK
  <1>3. \A v \in Writers : writing'[v].open => writing'[v].at <= clock
    <2> TAKE v \in Writers
    <2>1. clock <= clock
      BY DEF TablesInv, TableTypeOK
    <2> QED
      BY <2>1 DEF StampPrice, TablesInv, TableTypeOK, StampInv
  <1>4. StampInv'
    BY <1>1, <1>3 DEF TablesInv, StampInv
  <1>5. Advance
    <2>1. \A i \in DOMAIN history : history[i].source \in Sources
      BY RowFields
    <2> QED
      BY <1>1, <2>1 DEF Advance, Advances, TablesInv, TableTypeOK
  <1> QED
    BY <1>1, <1>2, <1>4, <1>5 DEF TablesInv

\* What a commit appends and stamps.
LEMMA CommitStep ==
  ASSUME TablesInv, NEW w \in Writers, CommitPrice(w)
  PROVE  TablesInv' /\ Advance /\ asked' = asked
  <1> DEFINE row == [model |-> writing[w].model, source |-> writing[w].source,
                     pair |-> writing[w].pair, at |-> writing[w].at]
  <1>1. writing[w] \in Open
    BY DEF CommitPrice, TablesInv, TableTypeOK, NoWrite
  <1>2. /\ row \in Row /\ row.at <= clock
        /\ row.model \in Models /\ row.source \in Sources /\ row.at \in Nat
    BY <1>1 DEF Open, Row, CommitPrice, TablesInv, StampInv
  <1>3. /\ history' = Append(history, row)
        /\ verified' = [verified EXCEPT ![row.model][row.source] = row.at]
        /\ seenAt' = [seenAt EXCEPT ![row.model][row.source] = IF @ > row.at THEN @ ELSE row.at]
        /\ writing' = [writing EXCEPT ![w] = NoWrite]
        /\ clock' = clock /\ asked' = asked
    BY DEF CommitPrice
  <1> HIDE DEF row
  <1>4. \A r \in Row : r.source \in Sources /\ r.at \in Nat
    BY DEF Row
  <1>5. /\ history' \in Seq(Row)
        /\ \A i \in DOMAIN history' : (i \in DOMAIN history /\ history'[i] = history[i]) \/ history'[i] = row
        /\ \A i \in DOMAIN history :
             i \in DOMAIN history' /\ history'[i] = history[i] /\ history[i] \in Row
    BY <1>2, <1>3 DEF TablesInv, TableTypeOK
  <1>6. /\ verified' \in [Models -> [Sources -> Nat]] /\ seenAt' \in [Models -> [Sources -> Nat]]
        /\ writing' \in [Writers -> Open \cup {NoWrite}]
    BY <1>2, <1>3 DEF TablesInv, TableTypeOK
  <1>7. ASSUME NEW m \in Models, NEW s \in Sources
        PROVE  /\ seenAt[m][s] \in Nat /\ seenAt'[m][s] \in Nat
               /\ seenAt[m][s] <= seenAt'[m][s] /\ seenAt'[m][s] <= clock
               /\ verified'[m][s] <= seenAt'[m][s]
    <2>0. /\ seenAt[m][s] \in Nat /\ verified[m][s] \in Nat /\ clock \in Nat
          /\ verified[m][s] <= seenAt[m][s] /\ seenAt[m][s] <= clock
      BY DEF TablesInv, TableTypeOK, StampInv
    <2>1. CASE m = row.model /\ s = row.source
      <3>1. /\ verified'[m][s] = row.at
            /\ seenAt'[m][s] = IF seenAt[m][s] > row.at THEN seenAt[m][s] ELSE row.at
        BY <1>3, <2>1 DEF TablesInv, TableTypeOK
      <3> QED
        BY <1>2, <2>0, <3>1
    <2>2. CASE ~(m = row.model /\ s = row.source)
      <3>1. verified'[m][s] = verified[m][s] /\ seenAt'[m][s] = seenAt[m][s]
        BY <1>3, <2>2 DEF TablesInv, TableTypeOK
      <3> QED
        BY <2>0, <3>1
    <2> QED
      BY <2>1, <2>2
  <1>8. \A i \in DOMAIN history' : history'[i].at <= clock
    BY <1>2, <1>5 DEF TablesInv, StampInv
  <1>9. \A v \in Writers : writing'[v].open => writing'[v].at <= clock
    BY <1>3 DEF TablesInv, TableTypeOK, StampInv, NoWrite
  <1>10. TablesInv'
    BY <1>3, <1>5, <1>6, <1>7, <1>8, <1>9 DEF TablesInv, TableTypeOK, StampInv
  <1>11. Advance
    BY <1>3, <1>4, <1>5, <1>7 DEF Advance, Advances, TablesInv, TableTypeOK
  <1> QED
    BY <1>3, <1>10, <1>11

\* A scrape lists models now, and stamps none that it does not list.
LEMMA VerifyStep ==
  ASSUME TablesInv, NEW s \in Sources, NEW listed \in SUBSET Models, MarkVerified(s, listed)
  PROVE  TablesInv' /\ Advance /\ asked' = asked
  <1>1. UNCHANGED <<clock, history, writing, asked>>
    BY DEF MarkVerified
  <1>2. /\ verified' = [m \in Models |->
                          IF m \in StampedRows(s, listed) THEN [verified[m] EXCEPT ![s] = clock]
                                                          ELSE verified[m]]
        /\ seenAt' = [m \in Models |-> IF m \in listed THEN [seenAt[m] EXCEPT ![s] = clock]
                                                       ELSE seenAt[m]]
    BY DEF MarkVerified
  <1>3. StampedRows(s, listed) \subseteq listed
    BY DEF StampedRows
  <1>4. verified' \in [Models -> [Sources -> Nat]] /\ seenAt' \in [Models -> [Sources -> Nat]]
    <2>1. verified \in [Models -> [Sources -> Nat]] /\ seenAt \in [Models -> [Sources -> Nat]]
          /\ clock \in Nat
      BY DEF TablesInv, TableTypeOK
    <2> QED
      BY <1>2, <2>1
  <1>5. ASSUME NEW m \in Models, NEW t \in Sources
        PROVE  /\ seenAt[m][t] \in Nat /\ seenAt'[m][t] \in Nat
               /\ seenAt[m][t] <= seenAt'[m][t] /\ seenAt'[m][t] <= clock
               /\ verified'[m][t] <= seenAt'[m][t]
    <2>0. /\ seenAt[m][t] \in Nat /\ verified[m][t] \in Nat /\ clock \in Nat
          /\ verified[m][t] <= seenAt[m][t] /\ seenAt[m][t] <= clock
          /\ verified[m] \in [Sources -> Nat] /\ seenAt[m] \in [Sources -> Nat]
      BY DEF TablesInv, TableTypeOK, StampInv
    <2>1. /\ verified'[m][t] = IF m \in StampedRows(s, listed) /\ t = s THEN clock ELSE verified[m][t]
          /\ seenAt'[m][t] = IF m \in listed /\ t = s THEN clock ELSE seenAt[m][t]
      BY <1>2, <2>0
    <2>2. CASE m \in listed /\ t = s
      BY <2>0, <2>1, <2>2
    <2>3. CASE ~(m \in listed /\ t = s)
      BY <1>3, <2>0, <2>1, <2>3
    <2> QED
      BY <2>2, <2>3
  <1>6. TablesInv'
    BY <1>1, <1>4, <1>5 DEF TablesInv, TableTypeOK, StampInv
  <1>7. Advance
    <2>1. \A i \in DOMAIN history : history[i].source \in Sources
      BY RowFields
    <2> QED
      BY <1>1, <1>5, <2>1 DEF Advance, Advances, TablesInv, TableTypeOK
  <1> QED
    BY <1>1, <1>6, <1>7

\* Time passes.
LEMMA TickTables ==
  ASSUME TablesInv, Tick
  PROVE  TablesInv' /\ Advance /\ asked' = asked
  <1>1. UNCHANGED <<history, writing, verified, seenAt, asked>> /\ clock' = clock + 1
    BY DEF Tick
  <1>2. clock \in Nat /\ clock' \in Nat /\ clock <= clock'
    BY <1>1 DEF TablesInv, TableTypeOK
  <1>3. \A i \in DOMAIN history : history[i].source \in Sources /\ history[i].at \in Nat
    BY RowFields
  <1>4. \A i \in DOMAIN history : history[i].at <= clock'
    BY <1>2, <1>3 DEF TablesInv, StampInv
  <1>5. ASSUME NEW w \in Writers, writing[w].open PROVE writing[w].at <= clock'
    <2>1. writing[w] \in Open
      BY <1>5 DEF TablesInv, TableTypeOK, NoWrite
    <2>2. writing[w].at \in Nat /\ writing[w].at <= clock
      BY <1>5, <2>1 DEF Open, TablesInv, StampInv
    <2> QED
      BY <1>2, <2>2
  <1>6. ASSUME NEW m \in Models, NEW s \in Sources
        PROVE  seenAt[m][s] \in Nat /\ verified[m][s] <= seenAt[m][s] /\ seenAt[m][s] <= clock'
    <2>1. seenAt[m][s] \in Nat /\ verified[m][s] <= seenAt[m][s] /\ seenAt[m][s] <= clock
      BY DEF TablesInv, TableTypeOK, StampInv
    <2> QED
      BY <1>2, <2>1
  <1>7. TablesInv'
    BY <1>1, <1>2, <1>4, <1>5, <1>6 DEF TablesInv, TableTypeOK, StampInv
  <1>8. Advance
    BY <1>1, <1>2, <1>3, <1>6 DEF Advance, Advances
  <1> QED
    BY <1>1, <1>7, <1>8

-----------------------------------------------------------------------------
(* The requests and the cache.                                             *)

\* The writers move neither.
LEMMA RequestsIdle ==
  ASSUME RequestsInv, Advance, asked' = asked, clock' = clock, req' = req, cache' = cache
  PROVE  RequestsInv'
  <1>1. ASSUME NEW c \in Clients PROVE RequestInv(c)'
    <2>1. req[c].pc # "idle" => clock' <= req[c].start + Timeout
      BY DEF RequestsInv, RequestInv
    <2> QED
      BY <2>1, RequestStays DEF RequestsInv
  <1>2. ASSUME NEW q \in Queries PROVE EntryInv(q)'
    <2>1. cache[q].filled /\ q.path \in Priced => clock' <= cache[q].expires
      BY DEF RequestsInv, EntryInv
    <2> QED
      BY <2>1, EntryStays DEF RequestsInv
  <1> QED
    BY <1>1, <1>2 DEF RequestsInv

\* A step of one request leaves the others alone.
LEMMA OneRequest ==
  ASSUME RequestsInv, Advance, asked' = asked, clock' = clock, cache' = cache,
         NEW c \in Clients, RequestInv(c)', NEW r, req' = [req EXCEPT ![c] = r]
  PROVE  RequestsInv'
  <1>1. ASSUME NEW d \in Clients PROVE RequestInv(d)'
    <2>1. CASE d = c
      BY <2>1
    <2>2. CASE d # c
      <3>1. req'[d] = req[d]
        BY <2>2
      <3>2. req[d].pc # "idle" => clock' <= req[d].start + Timeout
        BY DEF RequestsInv, RequestInv
      <3> QED
        BY <3>1, <3>2, RequestStays DEF RequestsInv
    <2> QED
      BY <2>1, <2>2
  <1>2. ASSUME NEW q \in Queries PROVE EntryInv(q)'
    <2>1. cache[q].filled /\ q.path \in Priced => clock' <= cache[q].expires
      BY DEF RequestsInv, EntryInv
    <2> QED
      BY <2>1, EntryStays DEF RequestsInv
  <1>3. DOMAIN req' = Clients /\ DOMAIN cache' = Queries
    BY DEF RequestsInv
  <1> QED
    BY <1>1, <1>2, <1>3 DEF RequestsInv

\* The first query of a handler for prices.
LEMMA ReadRowsStep ==
  ASSUME AnswerInv, NEW c \in Clients, NEW q \in Queries, ReadPriceRows(c, q)
  PROVE  AnswerInv'
  <1>1. UNCHANGED TableVars /\ cache' = cache
    BY DEF ReadPriceRows, TableVars
  <1>2. TablesInv' /\ Advance /\ asked' = asked
    BY <1>1, TablesIdle DEF AnswerInv
  <1>3. PICK rows \in [q.arg -> DOMAIN history] :
          /\ \A m \in q.arg : rows[m] \in Displayed(history, m)
          /\ req' = [req EXCEPT ![c] =
                       [pc |-> "meta", query |-> q, start |-> clock, rows |-> rows,
                        stamps |-> [m \in q.arg |-> verified[m][history[rows[m]].source]],
                        base |-> Len(history)]]
    BY DEF ReadPriceRows
  <1> DEFINE new == [pc |-> "meta", query |-> q, start |-> clock, rows |-> rows,
                     stamps |-> [m \in q.arg |-> verified[m][history[rows[m]].source]],
                     base |-> Len(history)]
  <1>4. q.path = asked /\ q.path \in Priced /\ q.arg \subseteq Models
    BY PricedQuery DEF ReadPriceRows, Wants
  <1>5. RowsFit(new, history, seenAt)
    <2>1. ASSUME NEW m \in q.arg
          PROVE  /\ rows[m] \in RowsOf(history, m)
                 /\ verified[m][history[rows[m]].source] \in Nat
                 /\ verified[m][history[rows[m]].source] <= seenAt[m][history[rows[m]].source]
      <3>1. rows[m] \in RowsOf(history, m)
        BY <1>3 DEF Displayed, PriceRows
      <3>2. rows[m] \in DOMAIN history
        BY <1>3
      <3>3. history[rows[m]].source \in Sources
        BY <3>2, RowFields DEF AnswerInv
      <3>4. m \in Models
        BY <1>4
      <3> QED
        BY <3>1, <3>3, <3>4 DEF AnswerInv, TablesInv, TableTypeOK, StampInv
    <2>2. DOMAIN rows = q.arg
      BY <1>3
    <2> QED
      BY <2>1, <2>2 DEF RowsFit
  <1>6. req'[c] = new
    BY <1>3 DEF AnswerInv, RequestsInv
  <1>7. /\ new.pc = "meta" /\ new.query = q /\ new.start = clock
    OBVIOUS
  <1>8. clock \in Nat /\ clock <= clock + Timeout
    BY ServingAssumption DEF AnswerInv, TablesInv, TableTypeOK
  <1> HIDE DEF new
  <1>9. RequestInv(c)'
    BY <1>1, <1>4, <1>5, <1>6, <1>7, <1>8 DEF RequestInv, TableVars
  <1>10. req' = [req EXCEPT ![c] = new]
    BY <1>3 DEF new
  <1>11. RequestsInv'
    BY <1>1, <1>2, <1>9, <1>10, OneRequest DEF AnswerInv, TableVars
  <1> QED
    BY <1>2, <1>11 DEF AnswerInv

\* The second one: what the metadata says of the rows read before it.
LEMMA ReadHistoryStep ==
  ASSUME AnswerInv, NEW c \in Clients, ReadHistory(c)
  PROVE  AnswerInv'
  <1>1. UNCHANGED TableVars /\ cache' = cache
    BY DEF ReadHistory, TableVars
  <1>2. TablesInv' /\ Advance /\ asked' = asked
    BY <1>1, TablesIdle DEF AnswerInv
  <1> DEFINE r == req[c]
             metas == [m \in r.query.arg |->
                         ComputeTrustMeta(history, m, r.stamps[m], clock)]
             top == Foremost(metas)
             body == [rows |-> r.rows, of |-> top, meta |-> metas[top], read |-> r.start]
             new == [pc |-> "store", query |-> r.query, start |-> r.start, body |-> body]
  <1>3. req' = [req EXCEPT ![c] = new]
    BY DEF ReadHistory, RowsThenHistory
  <1>4. /\ r.pc = "meta" /\ r.query \in Queries /\ r.query.path = asked /\ asked \in Priced
        /\ r.start \in Nat /\ r.start <= clock /\ clock <= r.start + Timeout
        /\ RowsFit(r, history, seenAt)
    BY DEF ReadHistory, AnswerInv, RequestsInv, RequestInv
  <1>5. r.query.arg \subseteq Models /\ r.query.arg # {}
    BY <1>4, PricedQuery
  <1>6. /\ clock \in Nat /\ StaleAfter \in Nat /\ history \in Seq(Row)
        /\ \A i \in DOMAIN history : history[i].at <= clock
    BY ServingAssumption DEF AnswerInv, TablesInv, TableTypeOK, StampInv
  <1> HIDE DEF r
  <1>7. ASSUME NEW m \in r.query.arg
        PROVE  /\ metas[m].confirmed \in Nat /\ metas[m].confirmed <= clock
               /\ \A i \in RowsOf(history, m) : history[i].at <= metas[m].confirmed
               /\ metas[m].confidence = "medium" =>
                    clock <= metas[m].confirmed + StaleAfter \/ clock <= r.stamps[m] + StaleAfter
    <2>1. RowsOf(history, m) # {} /\ r.stamps[m] \in Nat
      BY <1>4 DEF RowsFit
    <2>2. metas[m] = ComputeTrustMeta(history, m, r.stamps[m], clock)
      OBVIOUS
    <2> HIDE DEF metas
    <2> QED
      BY <1>6, <2>1, <2>2, MetaOf
  <1>8. DOMAIN metas = r.query.arg
    OBVIOUS
  <1> HIDE DEF metas
  <1>9. /\ top \in r.query.arg
        /\ \A n \in r.query.arg : metas[n].confirmed <= metas[top].confirmed
    BY <1>5, <1>6, <1>7, <1>8, ForemostExists
  <1> HIDE DEF top
  <1>10. ASSUME NEW m \in r.query.arg
         PROVE  /\ m \in Models /\ r.rows[m] \in RowsOf(history, m)
                /\ history[r.rows[m]].at <= metas[top].confirmed
    <2>1. r.rows[m] \in RowsOf(history, m)
      BY <1>4 DEF RowsFit
    <2>2. r.rows[m] \in DOMAIN history
      BY <2>1 DEF RowsOf
    <2>3. history[r.rows[m]].at \in Nat
      BY <2>2, RowFields DEF AnswerInv
    <2>4. /\ metas[m].confirmed \in Nat /\ metas[top].confirmed \in Nat
          /\ history[r.rows[m]].at <= metas[m].confirmed
          /\ metas[m].confirmed <= metas[top].confirmed
      BY <1>7, <1>9, <2>1
    <2>5. history[r.rows[m]].at <= metas[top].confirmed
      BY <2>3, <2>4
    <2> QED
      BY <1>5, <2>1, <2>5
  <1>11. ASSUME metas[top].confidence = "medium"
         PROVE  \/ r.start <= metas[top].confirmed + StaleAfter
                \/ r.start <= seenAt[top][history[r.rows[top]].source] + StaleAfter
    <2> DEFINE seen == seenAt[top][history[r.rows[top]].source]
    <2>1. clock <= metas[top].confirmed + StaleAfter \/ clock <= r.stamps[top] + StaleAfter
      BY <1>7, <1>9, <1>11
    <2>2. r.stamps[top] \in Nat /\ r.stamps[top] <= seen
      BY <1>4, <1>9 DEF RowsFit
    <2>3. metas[top].confirmed \in Nat
      BY <1>7, <1>9
    <2>4. seen \in Nat
      <3>1. r.rows[top] \in DOMAIN history /\ top \in Models
        BY <1>9, <1>10 DEF RowsOf
      <3>2. history[r.rows[top]].source \in Sources
        BY <3>1, RowFields DEF AnswerInv
      <3> QED
        BY <3>1, <3>2 DEF AnswerInv, TablesInv, TableTypeOK
    <2> HIDE DEF seen
    <2>5. r.start <= metas[top].confirmed + StaleAfter \/ r.start <= seen + StaleAfter
      BY <1>4, <1>6, <2>1, <2>2, <2>3, <2>4
    <2> QED
      BY <2>5 DEF seen
  <1>12. BodyFits(body, history, seenAt, clock)
    <2>1. /\ body.rows = r.rows /\ body.of = top /\ body.meta = metas[top] /\ body.read = r.start
      OBVIOUS
    <2>2. DOMAIN r.rows = r.query.arg
      BY <1>4 DEF RowsFit
    <2>3. metas[top].confirmed \in Nat
      BY <1>7, <1>9
    <2> HIDE DEF body
    <2> QED
      BY <1>4, <1>9, <1>10, <1>11, <2>1, <2>2, <2>3 DEF BodyFits
  <1>13. /\ new.pc = "store" /\ new.query = r.query /\ new.start = r.start /\ new.body = body
         /\ body.read = r.start
    OBVIOUS
  <1> HIDE DEF new, body
  <1>14. req'[c] = new
    BY <1>3 DEF AnswerInv, RequestsInv
  <1>15. RequestInv(c)'
    BY <1>1, <1>4, <1>12, <1>13, <1>14 DEF RequestInv, TableVars
  <1>16. RequestsInv'
    BY <1>1, <1>2, <1>3, <1>15, OneRequest DEF AnswerInv, TableVars
  <1> QED
    BY <1>2, <1>16 DEF AnswerInv

\* The query of a list handler.
LEMMA ReadListStep ==
  ASSUME AnswerInv, NEW c \in Clients, NEW q \in Queries, ReadList(c, q)
  PROVE  AnswerInv'
  <1>1. UNCHANGED TableVars /\ cache' = cache
    BY DEF ReadList, TableVars
  <1>2. TablesInv' /\ Advance /\ asked' = asked
    BY <1>1, TablesIdle DEF AnswerInv
  <1>3. PICK page \in Pages(q) :
          req' = [req EXCEPT ![c] = [pc |-> "store", query |-> q, start |-> clock,
                                     body |-> [page |-> page, base |-> Len(history)]]]
    BY DEF ReadList
  <1> DEFINE new == [pc |-> "store", query |-> q, start |-> clock,
                     body |-> [page |-> page, base |-> Len(history)]]
  <1>4. q.path = asked /\ q.path \notin Priced
    BY DEF ReadList, Wants
  <1>5. req'[c] = new
    BY <1>3 DEF AnswerInv, RequestsInv
  <1>6. new.pc = "store" /\ new.query = q /\ new.start = clock
    OBVIOUS
  <1>7. clock \in Nat /\ clock <= clock + Timeout
    BY ServingAssumption DEF AnswerInv, TablesInv, TableTypeOK
  <1> HIDE DEF new
  <1>8. RequestInv(c)'
    BY <1>1, <1>4, <1>5, <1>6, <1>7 DEF RequestInv, TableVars
  <1>9. req' = [req EXCEPT ![c] = new]
    BY <1>3 DEF new
  <1>10. RequestsInv'
    BY <1>1, <1>2, <1>8, <1>9, OneRequest DEF AnswerInv, TableVars
  <1> QED
    BY <1>2, <1>10 DEF AnswerInv

\* A handler whose query fails at the deadline.
LEMMA FailStep ==
  ASSUME AnswerInv, NEW c \in Clients, HandlerFails(c)
  PROVE  AnswerInv'
  <1>1. UNCHANGED TableVars /\ cache' = cache /\ req' = [req EXCEPT ![c] = Idle]
    BY DEF HandlerFails, TableVars
  <1>2. TablesInv' /\ Advance /\ asked' = asked
    BY <1>1, TablesIdle DEF AnswerInv
  <1>3. req'[c] = Idle
    BY <1>1 DEF AnswerInv, RequestsInv
  <1>4. RequestInv(c)'
    BY <1>3 DEF RequestInv, Idle
  <1>5. RequestsInv'
    BY <1>1, <1>2, <1>4, OneRequest DEF AnswerInv, TableVars
  <1> QED
    BY <1>2, <1>5 DEF AnswerInv

\* An answer is stored with the lifetime of its route, or only returned.
LEMMA StoreStep ==
  ASSUME AnswerInv, NEW c \in Clients, StoreAndAnswer(c)
  PROVE  AnswerInv'
  <1>1. UNCHANGED TableVars /\ req' = [req EXCEPT ![c] = Idle]
    BY DEF StoreAndAnswer, TableVars
  <1>2. TablesInv' /\ Advance /\ asked' = asked
    BY <1>1, TablesIdle DEF AnswerInv
  <1>3. ASSUME NEW d \in Clients PROVE RequestInv(d)'
    <2>1. CASE d = c
      <3>1. req'[d] = Idle
        BY <1>1, <2>1 DEF AnswerInv, RequestsInv
      <3> QED
        BY <3>1 DEF RequestInv, Idle
    <2>2. CASE d # c
      <3>1. req'[d] = req[d]
        BY <1>1, <2>2
      <3>2. req[d].pc # "idle" => clock' <= req[d].start + Timeout
        BY <1>1 DEF AnswerInv, RequestsInv, RequestInv, TableVars
      <3> QED
        BY <1>2, <3>1, <3>2, RequestStays DEF AnswerInv, RequestsInv
    <2> QED
      BY <2>1, <2>2
  <1> DEFINE new == [filled |-> TRUE, body |-> req[c].body, expires |-> Expiry]
  <1>4. cache' = cache \/ cache' = [cache EXCEPT ![req[c].query] = new]
    BY DEF StoreAndAnswer
  <1>5. /\ req[c].query \in Queries /\ req[c].query.path = asked
        /\ req[c].start \in Nat /\ clock <= req[c].start + Timeout
        /\ asked \in Priced => /\ BodyFits(req[c].body, history, seenAt, clock)
                               /\ req[c].body.read = req[c].start
    BY DEF StoreAndAnswer, AnswerInv, RequestsInv, RequestInv
  <1>6. ASSUME NEW q \in Queries PROVE EntryInv(q)'
    <2>1. CASE cache'[q] = cache[q]
      <3>1. cache[q].filled /\ q.path \in Priced => clock' <= cache[q].expires
        BY <1>1 DEF AnswerInv, RequestsInv, EntryInv, TableVars
      <3> QED
        BY <1>2, <2>1, <3>1, EntryStays DEF AnswerInv, RequestsInv
    <2>2. CASE cache'[q] # cache[q]
      <3>1. q = req[c].query /\ cache'[q] = new
        BY <1>4, <2>2 DEF AnswerInv, RequestsInv
      <3>2. new.body = req[c].body /\ new.expires = clock + TTL
        BY DEF Expiry
      <3>3. /\ clock \in Nat /\ TTL \in Nat /\ Timeout \in Nat
            /\ new.expires \in Nat /\ clock <= new.expires
        BY <3>2, ServingAssumption DEF AnswerInv, TablesInv, TableTypeOK
      <3>4. ASSUME q.path \in Priced
            PROVE  /\ new.expires <= new.body.read + Timeout + TTL
                   /\ BodyFits(new.body, history, seenAt, clock)
        <4>1. BodyFits(new.body, history, seenAt, clock) /\ new.body.read = req[c].start
          BY <1>5, <3>1, <3>2, <3>4
        <4> HIDE DEF new
        <4>2. new.expires <= req[c].start + Timeout + TTL
          BY <1>5, <3>2, <3>3
        <4> QED
          BY <4>1, <4>2
      <3> HIDE DEF new
      <3> QED
        BY <1>1, <3>1, <3>3, <3>4 DEF EntryInv, TableVars
    <2> QED
      BY <2>1, <2>2
  <1>7. DOMAIN req' = Clients /\ DOMAIN cache' = Queries
    BY <1>1, <1>4 DEF AnswerInv, RequestsInv
  <1>8. RequestsInv'
    BY <1>3, <1>6, <1>7 DEF RequestsInv
  <1> QED
    BY <1>2, <1>8 DEF AnswerInv

\* The clock stops at deadlines, and takes expired entries with it.
LEMMA TickStep ==
  ASSUME AnswerInv, Tick
  PROVE  AnswerInv'
  <1>1. TablesInv' /\ Advance /\ asked' = asked
    BY TickTables DEF AnswerInv
  <1>2. /\ clock' = clock + 1 /\ clock \in Nat /\ Timeout \in Nat /\ req' = req
        /\ cache' = [q \in Queries |-> IF cache[q].filled /\ cache[q].expires <= clock'
                                          THEN NoEntry ELSE cache[q]]
    BY ServingAssumption DEF Tick, AnswerInv, TablesInv, TableTypeOK
  <1>3. ASSUME NEW c \in Clients PROVE RequestInv(c)'
    <2>1. ASSUME req[c].pc # "idle" PROVE clock' <= req[c].start + Timeout
      <3>1. req[c] # Idle
        BY <2>1 DEF Idle
      <3>2. ~(clock - req[c].start >= Timeout)
        BY <3>1 DEF Tick, Deadline
      <3>3. req[c].start \in Nat
        BY <2>1 DEF AnswerInv, RequestsInv, RequestInv
      <3> QED
        BY <1>2, <3>2, <3>3
    <2> QED
      BY <1>1, <1>2, <2>1, RequestStays DEF AnswerInv, RequestsInv
  <1>4. ASSUME NEW q \in Queries PROVE EntryInv(q)'
    <2>1. CASE cache'[q] = NoEntry
      BY <2>1 DEF EntryInv, NoEntry
    <2>2. CASE cache'[q] # NoEntry
      <3>1. cache'[q] = cache[q] /\ (cache[q].filled => ~(cache[q].expires <= clock'))
        BY <1>2, <2>2
      <3>2. cache[q].filled /\ q.path \in Priced => clock' <= cache[q].expires
        <4>1. cache[q].filled /\ q.path \in Priced => cache[q].expires \in Nat
          BY DEF AnswerInv, RequestsInv, EntryInv
        <4> QED
          BY <1>2, <3>1, <4>1
      <3> QED
        BY <1>1, <3>1, <3>2, EntryStays DEF AnswerInv, RequestsInv
    <2> QED
      BY <2>1, <2>2
  <1>5. DOMAIN req' = Clients /\ DOMAIN cache' = Queries
    BY <1>2 DEF AnswerInv, RequestsInv
  <1> QED
    BY <1>1, <1>3, <1>4, <1>5 DEF AnswerInv, RequestsInv

-----------------------------------------------------------------------------
(* Every answer, at any time.                                              *)

\* models.id numbers the models from 1 on, without a gap.
LEMMA RanksTaken ==
  ASSUME NEW i \in 1..Cardinality(Models)
  PROVE  (CHOOSE m \in Models : Rank[m] = i) \in Models
  <1> DEFINE N == Cardinality(Models)
  <1>1. IsFiniteSet(Models) /\ N \in Nat
    BY ServingAssumption, FS_CardinalityType
  <1>2. Rank \in Injection(Models, 1..N)
    BY ServingAssumption DEF Injection, IsInjective
  <1>3. IsFiniteSet(1..N) /\ Cardinality(1..N) = N
    <2> HIDE DEF N
    <2>1. IsFiniteSet(1..N) /\ Cardinality(1..N) = IF 1 > N THEN 0 ELSE N - 1 + 1
      BY <1>1, FS_Interval
    <2> QED
      BY <1>1, <2>1
  <1>4. Rank \in Surjection(Models, 1..N)
    BY <1>2, <1>3, FS_Injection
  <1>5. \E m \in Models : Rank[m] = i
    BY <1>4 DEF Surjection
  <1> QED
    BY <1>5

\* The tables of an initial state: one source has published.
LEMMA TablesInit ==
  ASSUME Init
  PROVE  TablesInv
  <1>1. PICK s \in Sources, p \in Pairs :
          /\ history = [i \in 1..(IF asked = "model" THEN 1 ELSE Cardinality(Models)) |->
                          [model |-> CHOOSE m \in Models : Rank[m] = i, source |-> s,
                           pair |-> p, at |-> 1]]
          /\ verified = [m \in Models |-> [t \in Sources |->
                           IF RowsOf(history, m) # {} /\ t = s THEN 1 ELSE 0]]
          /\ seenAt = verified
    BY DEF Init
  <1> DEFINE n == IF asked = "model" THEN 1 ELSE Cardinality(Models)
             pick(i) == CHOOSE m \in Models : Rank[m] = i
             row(i) == [model |-> pick(i), source |-> s, pair |-> p, at |-> 1]
  <1>2. n \in Nat /\ n <= Cardinality(Models)
    <2>1. Cardinality(Models) \in Nat /\ Cardinality(Models) # 0
      BY ServingAssumption, FS_CardinalityType, FS_EmptySet
    <2> QED
      BY <2>1
  <1>3. ASSUME NEW i \in 1..n PROVE row(i) \in Row
    <2>1. i \in 1..Cardinality(Models)
      <3>1. Cardinality(Models) \in Nat
        BY ServingAssumption, FS_CardinalityType
      <3> HIDE DEF n
      <3> QED
        BY <1>2, <3>1
    <2>2. pick(i) \in Models
      BY <2>1, RanksTaken
    <2> HIDE DEF pick
    <2> QED
      BY <2>2 DEF Row
  <1>4. history = [i \in 1..n |-> row(i)]
    BY <1>1
  <1>5. \A i \in 1..n : row(i).at = 1
    OBVIOUS
  <1> HIDE DEF n, row
  <1>6. history \in Seq(Row) /\ DOMAIN history = 1..n
    BY <1>2, <1>3, <1>4
  <1>7. \A i \in DOMAIN history : history[i].at <= 1
    BY <1>4, <1>5, <1>6
  <1>8. /\ verified \in [Models -> [Sources -> Nat]]
        /\ \A m \in Models, t \in Sources : verified[m][t] <= 1 /\ verified[m][t] <= verified[m][t]
    BY <1>1
  <1>9. /\ clock = 1 /\ asked \in Endpoints /\ writing = [w \in Writers |-> NoWrite]
    BY DEF Init
  <1>10. TableTypeOK
    BY <1>1, <1>6, <1>8, <1>9 DEF TableTypeOK
  <1>11. \A w \in Writers : ~writing[w].open
    BY <1>9 DEF NoWrite
  <1>12. StampInv
    BY <1>1, <1>7, <1>8, <1>9, <1>11 DEF StampInv
  <1> QED
    BY <1>10, <1>12 DEF TablesInv

\* The invariant of the answers, preserved by every step: a stamp or a listing never lies in
\* the future, a handler holds rows that were in the table with stamps their listing covers,
\* a request is younger than RequestTimeout and a cache entry than its lifetime.
THEOREM AnswerInvariant == Spec => []AnswerInv
  <1>1. ASSUME Init PROVE AnswerInv
    <2>1. TablesInv
      BY <1>1, TablesInit
    <2>2. req = [c \in Clients |-> Idle] /\ cache = [q \in Queries |-> NoEntry]
      BY <1>1 DEF Init
    <2>3. \A c \in Clients : RequestInv(c)
      BY <2>2 DEF RequestInv, Idle
    <2>4. \A q \in Queries : EntryInv(q)
      BY <2>2 DEF EntryInv, NoEntry
    <2> QED
      BY <2>1, <2>2, <2>3, <2>4 DEF AnswerInv, RequestsInv
  <1>2. ASSUME AnswerInv, [Next]_vars PROVE AnswerInv'
    <2>1. ASSUME NEW w \in Writers, NEW m \in Models, NEW s \in Sources, NEW p \in Pairs,
                 StampPrice(w, m, s, p)
          PROVE  AnswerInv'
      <3>1. TablesInv' /\ Advance /\ asked' = asked
        BY <1>2, <2>1, StampStep DEF AnswerInv
      <3>2. clock' = clock /\ req' = req /\ cache' = cache
        BY <2>1 DEF StampPrice
      <3> QED
        BY <1>2, <3>1, <3>2, RequestsIdle DEF AnswerInv
    <2>2. ASSUME NEW w \in Writers, CommitPrice(w) PROVE AnswerInv'
      <3>1. TablesInv' /\ Advance /\ asked' = asked
        BY <1>2, <2>2, CommitStep DEF AnswerInv
      <3>2. clock' = clock /\ req' = req /\ cache' = cache
        BY <2>2 DEF CommitPrice
      <3> QED
        BY <1>2, <3>1, <3>2, RequestsIdle DEF AnswerInv
    <2>3. ASSUME NEW s \in Sources, NEW listed \in SUBSET Models, MarkVerified(s, listed)
          PROVE  AnswerInv'
      <3>1. TablesInv' /\ Advance /\ asked' = asked
        BY <1>2, <2>3, VerifyStep DEF AnswerInv
      <3>2. clock' = clock /\ req' = req /\ cache' = cache
        BY <2>3 DEF MarkVerified
      <3> QED
        BY <1>2, <3>1, <3>2, RequestsIdle DEF AnswerInv
    <2>4. ASSUME NEW c \in Clients, NEW q \in Queries, ReadPriceRows(c, q) PROVE AnswerInv'
      BY <1>2, <2>4, ReadRowsStep
    <2>5. ASSUME NEW c \in Clients, NEW q \in Queries, ReadList(c, q) PROVE AnswerInv'
      BY <1>2, <2>5, ReadListStep
    <2>6. ASSUME UNCHANGED TableVars, req' = req, cache' = cache PROVE AnswerInv'
      <3>1. TablesInv' /\ Advance /\ asked' = asked
        BY <1>2, <2>6, TablesIdle DEF AnswerInv
      <3>2. clock' = clock
        BY <2>6 DEF TableVars
      <3> QED
        BY <1>2, <2>6, <3>1, <3>2, RequestsIdle DEF AnswerInv
    <2>7. ASSUME NEW c \in Clients, NEW q \in Queries, CacheHit(c, q) PROVE AnswerInv'
      BY <2>6, <2>7 DEF CacheHit, TableVars
    <2>8. ASSUME NEW c \in Clients, ReadHistory(c) PROVE AnswerInv'
      BY <1>2, <2>8, ReadHistoryStep
    <2>9. ASSUME NEW c \in Clients, HandlerFails(c) PROVE AnswerInv'
      BY <1>2, <2>9, FailStep
    <2>10. ASSUME NEW c \in Clients, StoreAndAnswer(c) PROVE AnswerInv'
      BY <1>2, <2>10, StoreStep
    <2>11. CASE BeginWalk
      BY <2>6, <2>11 DEF BeginWalk, TableVars
    <2>12. CASE Tick
      BY <1>2, <2>12, TickStep
    <2>13. CASE UNCHANGED vars
      BY <2>6, <2>13 DEF vars, TableVars
    <2> QED
      BY <1>2, <2>1, <2>2, <2>3, <2>4, <2>5, <2>7, <2>8, <2>9, <2>10, <2>11, <2>12, <2>13 DEF Next
  <1> QED
    BY <1>1, <1>2, PTL DEF Spec

\* A body a client can be given now was read within a lifetime and a timeout.
LEMMA AnswerFits ==
  ASSUME AnswerInv, NEW b \in Answers
  PROVE  BodyFits(b, history, seenAt, clock) /\ clock <= b.read + Timeout + TTL
  <1>0. clock \in Nat /\ Timeout \in Nat /\ TTL \in Nat
    BY ServingAssumption DEF AnswerInv, TablesInv, TableTypeOK
  <1>1. ASSUME NEW c \in Clients, req[c].pc = "store", asked \in Priced, b = req[c].body
        PROVE  BodyFits(b, history, seenAt, clock) /\ clock <= b.read + Timeout + TTL
    <2>1. /\ BodyFits(b, history, seenAt, clock) /\ b.read = req[c].start
          /\ req[c].start \in Nat /\ clock <= req[c].start + Timeout
      BY <1>1 DEF AnswerInv, RequestsInv, RequestInv
    <2>2. clock <= req[c].start + Timeout + TTL
      BY <1>0, <2>1
    <2> QED
      BY <2>1, <2>2
  <1>2. ASSUME NEW q \in Queries, q.path \in Priced, cache[q].filled, b = cache[q].body
        PROVE  BodyFits(b, history, seenAt, clock) /\ clock <= b.read + Timeout + TTL
    <2>1. /\ cache[q].expires \in Nat /\ clock <= cache[q].expires
          /\ cache[q].expires <= b.read + Timeout + TTL
          /\ BodyFits(b, history, seenAt, clock)
      BY <1>2 DEF AnswerInv, RequestsInv, EntryInv
    <2>2. b.read \in Nat
      BY <2>1 DEF BodyFits
    <2>3. clock <= b.read + Timeout + TTL
      BY <1>0, <2>1, <2>2
    <2> QED
      BY <2>1, <2>3
  <1> QED
    BY <1>1, <1>2 DEF Answers

\* An answer with prices is never older than a cache lifetime and a request timeout, however
\* many writers and clients race (StalenessBounded).
THEOREM AnswersNotStale == Spec => []StalenessBounded
  <1>1. ASSUME AnswerInv PROVE StalenessBounded
    <2>1. ASSUME NEW b \in Answers PROVE clock - b.read <= TTL + Timeout
      <3>1. clock <= b.read + Timeout + TTL
        BY <1>1, AnswerFits
      <3>2. b.read \in Nat
        BY <1>1, AnswerFits DEF BodyFits
      <3>3. clock \in Nat /\ Timeout \in Nat /\ TTL \in Nat
        BY <1>1, ServingAssumption DEF AnswerInv, TablesInv, TableTypeOK
      <3> QED
        BY <3>1, <3>2, <3>3
    <2> QED
      BY <2>1 DEF StalenessBounded
  <1> QED
    BY <1>1, AnswerInvariant, PTL

\* The confirmation time of an answer is never older than that of a price it carries, although
\* rows and history are read by two queries (MetaNotOlderThanPrice).
THEOREM MetaCoversPrices == Spec => []MetaNotOlderThanPrice
  <1>1. ASSUME AnswerInv PROVE MetaNotOlderThanPrice
    BY <1>1, AnswerFits DEF BodyFits, MetaNotOlderThanPrice
  <1> QED
    BY <1>1, AnswerInvariant, PTL

\* An answer marked medium rests on a confirmation, or on a listing by the row's source, that
\* is no older than the rule's 24 hours and what cache and request may add (MediumIsFresh).
THEOREM MediumMeansFresh == Spec => []MediumIsFresh
  <1>1. ASSUME AnswerInv PROVE MediumIsFresh
    <2>1. ASSUME NEW b \in Answers, b.meta.confidence = "medium"
          PROVE  LET row == history[b.rows[b.of]]
                 IN \/ clock - b.meta.confirmed <= StaleAfter + TTL + Timeout
                    \/ clock - seenAt[row.model][row.source] <= StaleAfter + TTL + Timeout
      <3> DEFINE row == history[b.rows[b.of]]
                 seen == seenAt[b.of][row.source]
      <3>1. /\ BodyFits(b, history, seenAt, clock) /\ clock <= b.read + Timeout + TTL
        BY <1>1, AnswerFits
      <3>2. /\ clock \in Nat /\ Timeout \in Nat /\ TTL \in Nat /\ StaleAfter \in Nat
            /\ b.read \in Nat /\ b.meta.confirmed \in Nat
        BY <1>1, <3>1, ServingAssumption DEF AnswerInv, TablesInv, TableTypeOK, BodyFits
      <3>3. b.of \in Models /\ b.rows[b.of] \in DOMAIN history /\ row.model = b.of
        BY <3>1 DEF BodyFits, RowsOf
      <3>4. seen \in Nat
        <4>1. row.source \in Sources
          BY <1>1, <3>3, RowFields DEF AnswerInv
        <4> QED
          BY <1>1, <3>3, <4>1 DEF AnswerInv, TablesInv, TableTypeOK
      <3>5. b.read <= b.meta.confirmed + StaleAfter \/ b.read <= seen + StaleAfter
        BY <2>1, <3>1 DEF BodyFits
      <3> HIDE DEF row, seen
      <3>6. \/ clock - b.meta.confirmed <= StaleAfter + TTL + Timeout
            \/ clock - seen <= StaleAfter + TTL + Timeout
        BY <3>1, <3>2, <3>4, <3>5
      <3> QED
        BY <3>3, <3>6 DEF row, seen
    <2> QED
      BY <2>1 DEF MediumIsFresh
  <1> QED
    BY <1>1, AnswerInvariant, PTL
-----------------------------------------------------------------------------
(* The lists. What a page holds of the log that it was read from.           *)

\* The log when it had n rows.
LEMMA CutLog ==
  ASSUME NEW h \in Seq(Row), NEW n \in 0..Len(h)
  PROVE  /\ SubSeq(h, 1, n) \in Seq(Row) /\ DOMAIN SubSeq(h, 1, n) = 1..n
         /\ \A i \in 1..n : SubSeq(h, 1, n)[i] = h[i] /\ i \in DOMAIN h
         /\ \A r \in Row : SubSeq(Append(h, r), 1, n) = SubSeq(h, 1, n)
  <1>1. Len(h) \in Nat /\ DOMAIN h = 1..Len(h)
    OBVIOUS
  <1>2. \A i \in 1..n : i \in DOMAIN h
    BY <1>1
  <1>3. /\ SubSeq(h, 1, n) \in Seq(Row) /\ Len(SubSeq(h, 1, n)) = n
        /\ \A i \in 1..n : SubSeq(h, 1, n)[i] = h[i]
    BY <1>1
  <1>4. ASSUME NEW r \in Row PROVE SubSeq(Append(h, r), 1, n) = SubSeq(h, 1, n)
    <2>1. Append(h, r) \in Seq(Row) /\ Len(Append(h, r)) = Len(h) + 1 /\ \A i \in 1..n : Append(h, r)[i] = h[i]
      BY <1>1
    <2>2. /\ SubSeq(Append(h, r), 1, n) \in Seq(Row) /\ Len(SubSeq(Append(h, r), 1, n)) = n
          /\ \A i \in 1..n : SubSeq(Append(h, r), 1, n)[i] = Append(h, r)[i]
      BY <1>1, <2>1
    <2> QED
      BY <1>3, <2>1, <2>2
  <1>5. DOMAIN SubSeq(h, 1, n) = 1..n
    BY <1>3
  <1> QED
    BY <1>2, <1>3, <1>4, <1>5

\* The log when it had all its rows.
LEMMA WholeLog == ASSUME NEW h \in Seq(Row) PROVE SubSeq(h, 1, Len(h)) = h
  <1>1. Len(h) \in 0..Len(h) /\ Len(h) \in Nat
    OBVIOUS
  <1>2. /\ SubSeq(h, 1, Len(h)) \in Seq(Row) /\ DOMAIN SubSeq(h, 1, Len(h)) = 1..Len(h)
        /\ \A i \in 1..Len(h) : SubSeq(h, 1, Len(h))[i] = h[i]
    BY <1>1, CutLog
  <1> QED
    BY <1>1, <1>2

\* ORDER BY confirmed_at DESC LIMIT n.
LEMMA NewestFacts ==
  ASSUME NEW h, NEW rows, IsFiniteSet(rows), NEW n \in Nat, NEW p \in Newest(h, rows, n)
  PROVE  /\ p \subseteq rows /\ IsFiniteSet(p) /\ Cardinality(p) \in Nat /\ Cardinality(rows) \in Nat
         /\ Cardinality(p) = IF Cardinality(rows) < n THEN Cardinality(rows) ELSE n
         /\ Cardinality(p) < n => p = rows
         /\ Cardinality(rows) <= n => p = rows
         /\ \A i \in p, j \in rows \ p : h[j].at <= h[i].at
  <1>1. /\ p \in SUBSET rows /\ \A i \in p, j \in rows \ p : h[j].at <= h[i].at
        /\ Cardinality(p) = IF Cardinality(rows) < n THEN Cardinality(rows) ELSE n
    BY DEF Newest
  <1>2. IsFiniteSet(p) /\ (Cardinality(rows) = Cardinality(p) => rows = p)
    BY <1>1, FS_Subset
  <1>3. Cardinality(p) \in Nat /\ Cardinality(rows) \in Nat
    BY <1>2, FS_CardinalityType
  <1> QED
    BY <1>1, <1>2, <1>3

Candidates(h, before) == {i \in ListedChanges(h, Since) : before = NoCursor \/ h[i].at < before}

\* A change lies after the start of the window.
LEMMA ListedType ==
  ASSUME NEW h \in Seq(Row)
  PROVE  /\ ListedChanges(h, Since) \subseteq DOMAIN h
         /\ \A i \in ListedChanges(h, Since) : h[i].at \in Nat /\ h[i].at > 0
  <1>1. \A i \in DOMAIN h : h[i].at \in Nat
    <2>1. \A i \in DOMAIN h : h[i] \in Row
      OBVIOUS
    <2> QED
      BY <2>1 DEF Row
  <1> QED
    BY <1>1 DEF ListedChanges, ChangesAmong, Since

\* A page of the feed: the newest changes before the cursor, all of them when no more are
\* announced, and otherwise a cursor that no change left out is confirmed after.
LEMMA PageFacts ==
  ASSUME NEW h \in Seq(Row), NEW before \in Nat,
         NEW page \in ChangePages(h, Since, before, PageSize)
  PROVE  /\ page.rows \subseteq Candidates(h, before)
         /\ page.more \in BOOLEAN /\ page.cursor \in Nat
         /\ ~page.more => page.rows = Candidates(h, before)
         /\ page.more => /\ page.cursor \in Nat \ {NoCursor}
                         /\ \A i \in page.rows : page.cursor <= h[i].at
                         /\ \E i \in page.rows : page.cursor = h[i].at
                         /\ \A j \in Candidates(h, before) \ page.rows : h[j].at <= page.cursor
  <1> DEFINE C == Candidates(h, before)
  <1>0. PageSize \in Nat \ {0}
    BY ServingAssumption
  <1>1. PICK fetched \in Newest(h, C, FetchSize(PageSize)) : \E p \in Newest(h, fetched, PageSize) :
          page = [rows |-> p, more |-> Cardinality(fetched) > PageSize,
                  cursor |-> IF p = {} THEN before ELSE LastStamp(h, p)]
    BY DEF ChangePages, Candidates
  <1>2. PICK p \in Newest(h, fetched, PageSize) :
          page = [rows |-> p, more |-> Cardinality(fetched) > PageSize,
                  cursor |-> IF p = {} THEN before ELSE LastStamp(h, p)]
    BY <1>1
  <1>3. /\ page.rows = p /\ page.more = (Cardinality(fetched) > PageSize)
        /\ page.cursor = IF p = {} THEN before ELSE LastStamp(h, p)
    BY <1>2
  <1>4. /\ C \subseteq DOMAIN h /\ \A i \in C : h[i].at \in Nat /\ h[i].at > 0
    BY ListedType DEF Candidates
  <1>5. IsFiniteSet(C)
    <2>1. Len(h) \in Nat /\ DOMAIN h = 1..Len(h)
      OBVIOUS
    <2>2. IsFiniteSet(1..Len(h))
      BY <2>1, FS_Interval
    <2> QED
      BY <1>4, <2>1, <2>2, FS_Subset
  <1> HIDE DEF C
  <1>6. FetchSize(PageSize) = PageSize + 1 /\ PageSize + 1 \in Nat
    BY <1>0 DEF FetchSize
  <1>7. /\ fetched \subseteq C /\ IsFiniteSet(fetched) /\ Cardinality(fetched) \in Nat
        /\ Cardinality(fetched) < PageSize + 1 => fetched = C
        /\ \A i \in fetched, j \in C \ fetched : h[j].at <= h[i].at
    BY <1>1, <1>5, <1>6, NewestFacts
  <1>8. /\ p \subseteq fetched /\ IsFiniteSet(p) /\ Cardinality(p) \in Nat
        /\ Cardinality(p) = IF Cardinality(fetched) < PageSize THEN Cardinality(fetched) ELSE PageSize
        /\ Cardinality(fetched) <= PageSize => p = fetched
        /\ \A i \in p, j \in fetched \ p : h[j].at <= h[i].at
    BY <1>0, <1>7, NewestFacts
  <1>a. page.more \in BOOLEAN /\ (page.more <=> Cardinality(fetched) > PageSize)
    <2>1. (Cardinality(fetched) > PageSize) \in BOOLEAN
      BY <1>0, <1>7
    <2> QED
      BY <1>3, <2>1, Zenon
  <1>b. \/ page.more /\ Cardinality(fetched) > PageSize /\ Cardinality(p) = PageSize
        \/ ~page.more /\ Cardinality(fetched) <= PageSize /\ Cardinality(fetched) < PageSize + 1
    <2>1. \/ Cardinality(fetched) > PageSize /\ Cardinality(p) = PageSize
          \/ /\ ~(Cardinality(fetched) > PageSize)
             /\ Cardinality(fetched) <= PageSize /\ Cardinality(fetched) < PageSize + 1
      BY <1>0, <1>7, <1>8
    <2> QED
      BY <1>a, <2>1
  <1>9. ~page.more => page.rows = C
    <2>1. CASE page.more
      BY <2>1
    <2>2. CASE ~page.more
      BY <1>3, <1>7, <1>8, <1>b, <2>2
    <2> QED
      BY <2>1, <2>2
  <1>10. ASSUME p # {} PROVE page.cursor \in {h[i].at : i \in p} /\ \A i \in p : page.cursor <= h[i].at
    <2> DEFINE T == {h[i].at : i \in p}
    <2>1. T \in SUBSET Nat /\ T # {}
      BY <1>4, <1>7, <1>8, <1>10
    <2>2. \E t \in T : \A y \in T : t <= y
      BY <2>1, Smallest
    <2>3. \E t \in T : \A i \in p : t <= h[i].at
      BY <2>2
    <2>4. LastStamp(h, p) \in T /\ \A i \in p : LastStamp(h, p) <= h[i].at
      BY <2>3 DEF LastStamp
    <2> QED
      BY <1>3, <1>10, <2>4
  <1>11. ASSUME page.more
         PROVE  /\ page.cursor \in Nat \ {NoCursor}
                /\ \A i \in page.rows : page.cursor <= h[i].at
                /\ \E i \in page.rows : page.cursor = h[i].at
                /\ \A j \in C \ page.rows : h[j].at <= page.cursor
    <2>1. Cardinality(p) = PageSize
      BY <1>b, <1>11
    <2>2. p # {}
      BY <1>0, <2>1, FS_EmptySet
    <2>3. PICK i \in p : page.cursor = h[i].at
      BY <1>10, <2>2
    <2>4. \A j \in C \ p : h[j].at <= h[i].at
      BY <1>7, <1>8
    <2>5. page.cursor \in Nat \ {NoCursor}
      BY <1>4, <1>7, <1>8, <2>3 DEF NoCursor
    <2> QED
      BY <1>3, <1>10, <2>2, <2>3, <2>4, <2>5
  <1>12. page.cursor \in Nat
    BY <1>3, <1>4, <1>7, <1>8, <1>10
  <1>13. page.rows \subseteq C /\ page.more \in BOOLEAN
    BY <1>3, <1>7, <1>8, <1>a
  <1> QED
    BY <1>9, <1>11, <1>12, <1>13 DEF C
-----------------------------------------------------------------------------
(* Walks. A page in a request or in the cache is one that some earlier      *)
(* state of the log could have answered with.                              *)

\* Pages(q), of the log h.
PagesOf(h, q) ==
  IF q.path = "changes"
    THEN ChangePages(h, Since, q.arg, PageSize)
    ELSE {[rows |-> ModelPage(h, q.arg, PageSize, Rank),
           more |-> q.arg * PageSize < Cardinality(Models), cursor |-> q.arg + 1]}

ListBody(h, b, q) ==
  /\ b.base \in 0..Len(h)
  /\ b.page \in PagesOf(SubSeq(h, 1, b.base), q)

\* The walker asks for the page that its walk is at.
BodiesInv ==
  /\ \A c \in Clients : asked \notin Priced /\ req[c] # Idle =>
       req[c].pc = "store" /\ ListBody(history, req[c].body, req[c].query)
  /\ \A q \in Queries : q.path \notin Priced /\ cache[q].filled => ListBody(history, cache[q].body, q)
  /\ asked \notin Priced /\ req[Walker] # Idle =>
       walk.path = asked /\ ~walk.over /\ req[Walker].query.arg = walk.next

\* The rows a page can have.
Items(h) == IF asked = "changes" THEN DOMAIN h ELSE Models

WalkTypeOK ==
  walk # NotWalking =>
    /\ asked \notin Priced
    /\ walk \in [path : {asked}, rows : SUBSET Items(history), again : BOOLEAN, over : BOOLEAN,
                 cached : BOOLEAN, base : 0..Len(history), next : Nat]

WalkInv == BodiesInv /\ WalkTypeOK

Behind(t) == walk.next # NoCursor /\ t >= walk.next

Untied(i) == \A j \in RecentChanges \ {i} : history[j].at # history[i].at

\* What a walk through the feed holds is confirmed at or after its cursor, and nothing
\* there is missing.
FeedWalkInv ==
  walk.path = "changes" =>
    /\ ~walk.over /\ walk.next = NoCursor => walk.rows = {}
    /\ ~walk.over => \A i \in walk.rows : Behind(history[i].at)
    /\ ~walk.again
    /\ \A i \in StableChanges : (walk.over \/ Behind(history[i].at)) /\ Untied(i) => i \in walk.rows

Grows(h, g) == g = h \/ \E r \in Row : g = Append(h, r)

\* A commit leaves what is before it.
LEMMA GrownLog ==
  ASSUME NEW h \in Seq(Row), NEW g, Grows(h, g)
  PROVE  /\ g \in Seq(Row) /\ Len(h) \in Nat /\ Len(g) \in Nat /\ Len(h) <= Len(g)
         /\ DOMAIN h = 1..Len(h) /\ DOMAIN g = 1..Len(g) /\ DOMAIN h \subseteq DOMAIN g
         /\ \A i \in DOMAIN h : g[i] = h[i]
         /\ \A n \in 0..Len(h) : SubSeq(g, 1, n) = SubSeq(h, 1, n)
  <1>1. CASE g = h
    BY <1>1
  <1>2. ASSUME NEW r \in Row, g = Append(h, r)
        PROVE  /\ g \in Seq(Row) /\ Len(h) \in Nat /\ Len(g) \in Nat /\ Len(h) <= Len(g)
               /\ DOMAIN h = 1..Len(h) /\ DOMAIN g = 1..Len(g) /\ DOMAIN h \subseteq DOMAIN g
               /\ \A i \in DOMAIN h : g[i] = h[i]
               /\ \A n \in 0..Len(h) : SubSeq(g, 1, n) = SubSeq(h, 1, n)
    <2>1. /\ g \in Seq(Row) /\ Len(h) \in Nat /\ Len(g) \in Nat /\ Len(h) <= Len(g)
          /\ DOMAIN h = 1..Len(h) /\ DOMAIN g = 1..Len(g) /\ DOMAIN h \subseteq DOMAIN g
          /\ \A i \in DOMAIN h : g[i] = h[i]
      BY <1>2
    <2>2. \A n \in 0..Len(h) : SubSeq(g, 1, n) = SubSeq(h, 1, n)
      BY <1>2, CutLog
    <2> QED
      BY <2>1, <2>2
  <1> QED
    BY <1>1, <1>2 DEF Grows

\* A page that the log could once have been answered with stays one as the log grows.
LEMMA ListBodyStays ==
  ASSUME NEW h \in Seq(Row), NEW g, Grows(h, g), NEW b, NEW q, ListBody(h, b, q)
  PROVE  ListBody(g, b, q)
  <1>1. b.base \in 0..Len(h) /\ b.page \in PagesOf(SubSeq(h, 1, b.base), q)
    BY DEF ListBody
  <1>2. /\ SubSeq(g, 1, b.base) = SubSeq(h, 1, b.base)
        /\ Len(h) \in Nat /\ Len(g) \in Nat /\ Len(h) <= Len(g)
    BY <1>1, GrownLog
  <1>3. b.base \in 0..Len(g)
    BY <1>1, <1>2
  <1> QED
    BY <1>1, <1>2, <1>3, Zenon DEF ListBody

\* The arguments of the list endpoints are numbers.
LEMMA ListQuery ==
  ASSUME NEW q \in Queries, q.path \notin Priced
  PROVE  q.path \in {"changes", "models"} /\ q.arg \in Nat /\ (q.path = "models" => q.arg >= 1)
  <1>1. Cardinality(Models) \in Nat /\ MaxClock["changes"] \in Nat
    BY ServingAssumption, FS_CardinalityType DEF Endpoints
  <1>2. CASE q.path = "changes"
    <2>1. q.arg \in 0..MaxClock["changes"]
      BY <1>2 DEF Queries
    <2> QED
      BY <1>1, <1>2, <2>1
  <1>3. CASE q.path = "models"
    <2>1. q.arg \in 1..(Cardinality(Models) + 1)
      BY <1>3 DEF Queries
    <2> QED
      BY <1>1, <1>3, <2>1
  <1>4. q.path \in {"model", "compare", "changes", "models"}
    BY DEF Queries
  <1> QED
    BY <1>2, <1>3, <1>4 DEF Priced

\* The items of a page, and the cursor that comes with it.
LEMMA PageType ==
  ASSUME NEW h \in Seq(Row), NEW q \in Queries, q.path \notin Priced, NEW page \in PagesOf(h, q)
  PROVE  /\ page.rows \subseteq (IF q.path = "changes" THEN DOMAIN h ELSE Models)
         /\ page.more \in BOOLEAN /\ page.cursor \in Nat
  <1>1. q.path \in {"changes", "models"} /\ q.arg \in Nat
    BY ListQuery
  <1>2. CASE q.path = "changes"
    <2>1. page \in ChangePages(h, Since, q.arg, PageSize)
      BY <1>2 DEF PagesOf
    <2>2. page.rows \subseteq Candidates(h, q.arg) /\ page.more \in BOOLEAN /\ page.cursor \in Nat
      BY <1>1, <2>1, PageFacts
    <2>3. Candidates(h, q.arg) \subseteq DOMAIN h
      BY ListedType DEF Candidates
    <2> QED
      BY <1>2, <2>2, <2>3
  <1>3. CASE q.path = "models"
    <2>1. page = [rows |-> ModelPage(h, q.arg, PageSize, Rank),
                  more |-> q.arg * PageSize < Cardinality(Models), cursor |-> q.arg + 1]
      BY <1>3 DEF PagesOf
    <2>2. /\ page.rows = ModelPage(h, q.arg, PageSize, Rank) /\ page.cursor = q.arg + 1
          /\ page.more = (q.arg * PageSize < Cardinality(Models))
      BY <2>1
    <2>3. ModelPage(h, q.arg, PageSize, Rank) \subseteq Models
      BY DEF ModelPage
    <2>4. (q.arg * PageSize < Cardinality(Models)) \in BOOLEAN
      <3>1. Cardinality(Models) \in Nat /\ q.arg * PageSize \in Nat
        BY <1>1, ServingAssumption, FS_CardinalityType
      <3> QED
        BY <3>1
    <2>5. page.more \in BOOLEAN
      BY <2>2, <2>4, Zenon
    <2>6. page.cursor \in Nat
      BY <1>1, <2>2
    <2> QED
      BY <1>3, <2>2, <2>3, <2>5, <2>6
  <1> QED
    BY <1>1, <1>2, <1>3

\* Steps that leave the walk alone, and requests and entries as they are or away.
LEMMA WalkIdle ==
  ASSUME TablesInv, WalkInv, Grows(history, history'), UNCHANGED <<walk, asked>>,
         \A c \in Clients : req'[c] = req[c] \/ req'[c] = Idle,
         \A q \in Queries : cache'[q] = cache[q] \/ cache'[q] = NoEntry
  PROVE  WalkInv'
  <1>0. history \in Seq(Row) /\ Walker \in Clients
    BY DEF TablesInv, TableTypeOK, Clients
  <1>1. ASSUME NEW c \in Clients, asked \notin Priced, req'[c] # Idle
        PROVE  req'[c].pc = "store" /\ ListBody(history', req'[c].body, req'[c].query)
    <2>1. req'[c] = req[c] /\ req[c].pc = "store" /\ ListBody(history, req[c].body, req[c].query)
      BY <1>1 DEF WalkInv, BodiesInv
    <2>2. ListBody(history', req[c].body, req[c].query)
      BY <1>0, <2>1, ListBodyStays
    <2> QED
      BY <2>1, <2>2
  <1>2. ASSUME NEW q \in Queries, q.path \notin Priced, cache'[q].filled
        PROVE  ListBody(history', cache'[q].body, q)
    <2>1. cache'[q] = cache[q]
      BY <1>2 DEF NoEntry
    <2>2. ListBody(history, cache[q].body, q)
      BY <1>2, <2>1 DEF WalkInv, BodiesInv
    <2> QED
      BY <1>0, <2>1, <2>2, ListBodyStays
  <1>3. asked \notin Priced /\ req'[Walker] # Idle =>
          walk.path = asked /\ ~walk.over /\ req'[Walker].query.arg = walk.next
    BY <1>0 DEF WalkInv, BodiesInv
  <1>4. BodiesInv'
    BY <1>1, <1>2, <1>3 DEF BodiesInv
  <1>5. WalkTypeOK'
    <2>1. /\ DOMAIN history \subseteq DOMAIN history'
          /\ Len(history) \in Nat /\ Len(history') \in Nat /\ Len(history) <= Len(history')
      BY <1>0, GrownLog
    <2>2. Items(history) \subseteq Items(history)' /\ 0..Len(history) \subseteq 0..Len(history')
      BY <2>1 DEF Items
    <2> QED
      BY <2>2 DEF WalkInv, WalkTypeOK
  <1> QED
    BY <1>4, <1>5 DEF WalkInv

\* What the walker does with a page it is given.
TakesPage(b, q, cached) ==
  /\ ListBody(history, b, q) /\ q \in Queries /\ q.path = asked /\ asked \notin Priced
  /\ walk.path = asked /\ ~walk.over /\ q.arg = walk.next /\ cached \in BOOLEAN
  /\ walk' = Taken(b, cached) /\ UNCHANGED <<history, asked>>

\* The walk after a page: its items are added, and its cursor is the next to ask for.
LEMMA TakenFields ==
  ASSUME TablesInv, WalkTypeOK, NEW b, NEW q, NEW cached, TakesPage(b, q, cached)
  PROVE  /\ history \in Seq(Row) /\ b.base \in 0..Len(history) /\ Len(history) \in Nat
         /\ SubSeq(history, 1, b.base) \in Seq(Row) /\ b.page \in PagesOf(SubSeq(history, 1, b.base), q)
         /\ b.page.rows \subseteq Items(SubSeq(history, 1, b.base))
         /\ b.page.rows \subseteq Items(history)
         /\ b.page.more \in BOOLEAN /\ b.page.cursor \in Nat
         /\ walk # NotWalking
         /\ walk \in [path : {asked}, rows : SUBSET Items(history), again : BOOLEAN, over : BOOLEAN,
                      cached : BOOLEAN, base : 0..Len(history), next : Nat]
         /\ walk' = [path |-> asked, rows |-> walk.rows \cup b.page.rows,
                     again |-> walk.again \/ walk.rows \cap b.page.rows # {},
                     over |-> ~b.page.more, cached |-> walk.cached \/ cached,
                     base |-> IF b.base < walk.base THEN b.base ELSE walk.base,
                     next |-> b.page.cursor]
  <1>1. history \in Seq(Row) /\ b.base \in 0..Len(history) /\ Len(history) \in Nat
    BY DEF TakesPage, ListBody, TablesInv, TableTypeOK
  <1>2. /\ SubSeq(history, 1, b.base) \in Seq(Row)
        /\ DOMAIN SubSeq(history, 1, b.base) \subseteq DOMAIN history
    <2>1. /\ SubSeq(history, 1, b.base) \in Seq(Row) /\ DOMAIN SubSeq(history, 1, b.base) = 1..b.base
          /\ \A i \in 1..b.base : i \in DOMAIN history
      BY <1>1, CutLog
    <2> QED
      BY <2>1
  <1>3. b.page \in PagesOf(SubSeq(history, 1, b.base), q)
    BY DEF TakesPage, ListBody
  <1>4. /\ b.page.rows \subseteq Items(SubSeq(history, 1, b.base))
        /\ b.page.more \in BOOLEAN /\ b.page.cursor \in Nat
    <2>1. q \in Queries /\ q.path \notin Priced /\ q.path = asked
      BY DEF TakesPage
    <2> QED
      BY <1>2, <1>3, <2>1, PageType DEF Items
  <1>5. b.page.rows \subseteq Items(history)
    BY <1>2, <1>4 DEF Items
  <1>6. walk # NotWalking
    <2>1. asked \in Endpoints /\ walk.path = asked
      BY DEF TakesPage, TablesInv, TableTypeOK
    <2> QED
      BY <2>1 DEF Endpoints, NotWalking
  <1>7. walk \in [path : {asked}, rows : SUBSET Items(history), again : BOOLEAN, over : BOOLEAN,
                  cached : BOOLEAN, base : 0..Len(history), next : Nat]
    BY <1>6 DEF WalkTypeOK
  <1>8. walk' = [path |-> asked, rows |-> walk.rows \cup b.page.rows,
                 again |-> walk.again \/ walk.rows \cap b.page.rows # {},
                 over |-> ~b.page.more, cached |-> walk.cached \/ cached,
                 base |-> IF b.base < walk.base THEN b.base ELSE walk.base,
                 next |-> b.page.cursor]
    <2>1. walk' = Taken(b, cached)
      BY DEF TakesPage
    <2> QED
      BY <1>7, <2>1 DEF Taken
  <1> QED
    BY <1>1, <1>2, <1>3, <1>4, <1>5, <1>6, <1>7, <1>8

\* The walk stays well typed.
LEMMA TakenType ==
  ASSUME TablesInv, WalkTypeOK, NEW b, NEW q, NEW cached, TakesPage(b, q, cached)
  PROVE  WalkTypeOK'
  <1>1. asked' = asked /\ history' = history /\ asked \notin Priced /\ cached \in BOOLEAN
    BY DEF TakesPage
  <1> DEFINE new == [path |-> asked, rows |-> walk.rows \cup b.page.rows,
                     again |-> walk.again \/ walk.rows \cap b.page.rows # {},
                     over |-> ~b.page.more, cached |-> walk.cached \/ cached,
                     base |-> IF b.base < walk.base THEN b.base ELSE walk.base,
                     next |-> b.page.cursor]
  <1>2. new \in [path : {asked}, rows : SUBSET Items(history), again : BOOLEAN, over : BOOLEAN,
                 cached : BOOLEAN, base : 0..Len(history), next : Nat]
    <2>1. walk.rows \cup b.page.rows \in SUBSET Items(history)
      BY TakenFields
    <2>2. /\ (walk.again \/ walk.rows \cap b.page.rows # {}) \in BOOLEAN
          /\ (~b.page.more) \in BOOLEAN /\ (walk.cached \/ cached) \in BOOLEAN
      OBVIOUS
    <2>3. (IF b.base < walk.base THEN b.base ELSE walk.base) \in 0..Len(history)
      BY TakenFields
    <2>4. b.page.cursor \in Nat
      BY TakenFields
    <2> QED
      BY <2>1, <2>2, <2>3, <2>4, Zenon
  <1>3. walk' = new
    BY TakenFields
  <1>4. Items(history)' = Items(history)
    BY <1>1 DEF Items
  <1> QED
    BY <1>1, <1>2, <1>3, <1>4 DEF WalkTypeOK

\* The rows a commit adds were not there before.
LEMMA CommitGrows ==
  ASSUME TablesInv, NEW w \in Writers, CommitPrice(w)
  PROVE  Grows(history, history')
  <1> DEFINE row == [model |-> writing[w].model, source |-> writing[w].source,
                     pair |-> writing[w].pair, at |-> writing[w].at]
  <1>1. writing[w] \in Open
    BY DEF CommitPrice, TablesInv, TableTypeOK, NoWrite
  <1>2. row \in Row
    BY <1>1 DEF Open, Row
  <1>3. history' = Append(history, row)
    BY DEF CommitPrice
  <1> QED
    BY <1>2, <1>3 DEF Grows

\* A page is read from the log as it is.
LEMMA ReadListWalk ==
  ASSUME TablesInv, WalkInv, NEW c \in Clients, NEW q \in Queries, ReadList(c, q),
         DOMAIN req = Clients
  PROVE  WalkInv'
  <1>0. history \in Seq(Row) /\ Walker \in Clients /\ history' = history /\ walk' = walk
        /\ asked' = asked /\ cache' = cache /\ q.path = asked /\ asked \notin Priced
    BY DEF TablesInv, TableTypeOK, Clients, ReadList, Wants
  <1>1. PICK page \in Pages(q) :
          req' = [req EXCEPT ![c] = [pc |-> "store", query |-> q, start |-> clock,
                                     body |-> [page |-> page, base |-> Len(history)]]]
    BY DEF ReadList
  <1> DEFINE new == [pc |-> "store", query |-> q, start |-> clock,
                     body |-> [page |-> page, base |-> Len(history)]]
  <1>2. new.pc = "store" /\ new.query = q /\ ListBody(history, new.body, q)
    <2>1. page \in PagesOf(SubSeq(history, 1, Len(history)), q)
      BY <1>0, WholeLog DEF Pages, PagesOf
    <2>2. Len(history) \in 0..Len(history)
      BY <1>0
    <2>3. new.body.page = page /\ new.body.base = Len(history)
      OBVIOUS
    <2>4. new.pc = "store" /\ new.query = q
      OBVIOUS
    <2> HIDE DEF new
    <2> QED
      BY <2>1, <2>2, <2>3, <2>4 DEF ListBody
  <1>3. \A d \in Clients : req'[d] = IF d = c THEN new ELSE req[d]
    BY <1>1
  <1> HIDE DEF new
  <1>4. \A d \in Clients : req'[d] # Idle =>
          req'[d].pc = "store" /\ ListBody(history, req'[d].body, req'[d].query)
    BY <1>0, <1>2, <1>3 DEF WalkInv, BodiesInv
  <1>5. req'[Walker] # Idle =>
          walk.path = asked /\ ~walk.over /\ req'[Walker].query.arg = walk.next
    <2>1. CASE c = Walker
      <3>1. Walker \notin Asking
        BY <1>0, ServingAssumption DEF Asking
      <3>2. walk.path = asked /\ ~walk.over /\ q.arg = walk.next
        BY <2>1, <3>1 DEF ReadList, Wants
      <3> QED
        BY <1>0, <1>2, <1>3, <2>1, <3>2
    <2>2. CASE c # Walker
      BY <1>0, <1>3, <2>2 DEF WalkInv, BodiesInv
    <2> QED
      BY <2>1, <2>2
  <1> QED
    BY <1>0, <1>4, <1>5 DEF WalkInv, BodiesInv, WalkTypeOK, Items

\* An answer is stored as it was computed.
LEMMA StoreWalk ==
  ASSUME TablesInv, WalkInv, NEW c \in Clients, StoreAndAnswer(c),
         RequestInv(c), DOMAIN req = Clients, DOMAIN cache = Queries
  PROVE  /\ WalkInv'
         /\ \/ UNCHANGED <<history, walk, asked>>
            \/ TakesPage(req[c].body, req[c].query, FALSE)
  <1>1. /\ history' = history /\ asked' = asked /\ req[c].pc = "store"
        /\ req' = [req EXCEPT ![c] = Idle] /\ history \in Seq(Row)
        /\ walk' = IF c \in Asking THEN walk ELSE Taken(req[c].body, FALSE)
        /\ req[c] # Idle /\ req[c].query \in Queries /\ req[c].query.path = asked
        /\ Walker \in Clients
    BY DEF StoreAndAnswer, Idle, RequestInv, TablesInv, TableTypeOK, Clients
  <1>2. cache' \in {cache, [cache EXCEPT ![req[c].query] =
                              [filled |-> TRUE, body |-> req[c].body, expires |-> Expiry]]}
    BY DEF StoreAndAnswer
  <1>3. asked \notin Priced => ListBody(history, req[c].body, req[c].query)
    BY <1>1 DEF WalkInv, BodiesInv
  <1>4. ASSUME NEW q \in Queries, q.path \notin Priced, cache'[q].filled
        PROVE  ListBody(history, cache'[q].body, q)
    <2>1. CASE cache'[q] = cache[q]
      BY <1>4, <2>1 DEF WalkInv, BodiesInv
    <2>2. CASE q = req[c].query /\ cache'[q].body = req[c].body
      BY <1>1, <1>3, <1>4, <2>2
    <2>3. cache'[q] = cache[q] \/ (q = req[c].query /\ cache'[q].body = req[c].body)
      BY <1>2
    <2> QED
      BY <2>1, <2>2, <2>3
  <1>5. \A d \in Clients : req'[d] = IF d = c THEN Idle ELSE req[d]
    BY <1>1
  <1>6. \A d \in Clients : asked \notin Priced /\ req'[d] # Idle =>
          req'[d].pc = "store" /\ ListBody(history, req'[d].body, req'[d].query)
    BY <1>5 DEF WalkInv, BodiesInv
  <1>7. CASE c \in Asking
    <2>1. walk' = walk
      BY <1>1, <1>7
    <2>2. asked \notin Priced /\ req'[Walker] # Idle =>
            walk.path = asked /\ ~walk.over /\ req'[Walker].query.arg = walk.next
      BY <1>1, <1>5 DEF WalkInv, BodiesInv
    <2> QED
      BY <1>1, <1>4, <1>6, <2>1, <2>2 DEF WalkInv, BodiesInv, WalkTypeOK, Items
  <1>8. CASE c \notin Asking
    <2>1. c = Walker /\ asked \notin Priced
      BY <1>8 DEF Asking, Clients
    <2>2. TakesPage(req[c].body, req[c].query, FALSE)
      BY <1>1, <1>3, <1>8, <2>1 DEF TakesPage, WalkInv, BodiesInv
    <2>3. WalkTypeOK'
      BY <2>2, TakenType DEF WalkInv
    <2>4. req'[Walker] = Idle
      BY <1>5, <2>1
    <2> QED
      BY <1>1, <1>4, <1>6, <2>2, <2>3, <2>4 DEF WalkInv, BodiesInv
  <1> QED
    BY <1>7, <1>8

\* A hit hands the walker a page that some handler has read.
LEMMA HitWalk ==
  ASSUME TablesInv, WalkInv, NEW c \in Clients, NEW q \in Queries, CacheHit(c, q)
  PROVE  WalkInv' /\ TakesPage(cache[q].body, q, TRUE)
  <1>1. /\ history' = history /\ asked' = asked /\ req' = req /\ cache' = cache
        /\ c \notin Asking /\ req[c] = Idle /\ q.path = asked /\ cache[q].filled
        /\ walk.path = asked /\ ~walk.over /\ q.arg = walk.next
        /\ walk' = Taken(cache[q].body, TRUE)
    BY DEF CacheHit, Wants
  <1>2. c = Walker /\ asked \notin Priced
    BY <1>1 DEF Asking, Clients
  <1>3. TakesPage(cache[q].body, q, TRUE)
    BY <1>1, <1>2 DEF TakesPage, WalkInv, BodiesInv
  <1>4. WalkTypeOK'
    BY <1>3, TakenType DEF WalkInv
  <1> QED
    BY <1>1, <1>2, <1>3, <1>4 DEF WalkInv, BodiesInv

\* A walk begins with no request in flight.
LEMMA BeginWalkStep ==
  ASSUME TablesInv, WalkInv, BeginWalk
  PROVE  WalkInv'
  <1>1. /\ history' = history /\ asked' = asked /\ req' = req /\ cache' = cache
        /\ asked \notin Priced /\ walk = NotWalking
        /\ walk' = [path |-> asked, rows |-> {}, again |-> FALSE, over |-> FALSE, cached |-> FALSE,
                    base |-> Len(history), next |-> IF asked = "changes" THEN NoCursor ELSE 1]
    BY DEF BeginWalk
  <1>2. req[Walker] = Idle
    <2>1. walk.path # asked
      BY <1>1 DEF NotWalking, TablesInv, TableTypeOK, Endpoints
    <2> QED
      BY <1>1, <2>1 DEF WalkInv, BodiesInv
  <1>3. Len(history) \in 0..Len(history)
    BY DEF TablesInv, TableTypeOK
  <1>4. WalkTypeOK'
    BY <1>1, <1>3 DEF WalkTypeOK, Items, NoCursor
  <1> QED
    BY <1>1, <1>2, <1>4 DEF WalkInv, BodiesInv

\* A step that the walker takes no page in.
Aside == Grows(history, history') /\ UNCHANGED <<walk, asked>>

\* A step takes a page, begins a walk, or lets the log grow at most.
LEMMA WalkSteps ==
  ASSUME AnswerInv, WalkInv, [Next]_vars
  PROVE  /\ WalkInv'
         /\ \/ Aside
            \/ BeginWalk
            \/ \E b, q, cached : TakesPage(b, q, cached)
  <1>0. TablesInv /\ DOMAIN req = Clients /\ DOMAIN cache = Queries /\ \A c \in Clients : RequestInv(c)
    BY DEF AnswerInv, RequestsInv
  <1>1. ASSUME Aside, req' = req, cache' = cache PROVE WalkInv'
    BY <1>0, <1>1, WalkIdle DEF Aside
  <1>2. ASSUME NEW w \in Writers, NEW m \in Models, NEW s \in Sources, NEW p \in Pairs,
               StampPrice(w, m, s, p)
        PROVE  WalkInv' /\ Aside
    BY <1>1, <1>2 DEF StampPrice, Aside, Grows
  <1>3. ASSUME NEW w \in Writers, CommitPrice(w) PROVE WalkInv' /\ Aside
    <2>1. Grows(history, history')
      BY <1>0, <1>3, CommitGrows
    <2>2. UNCHANGED <<walk, asked, req, cache>>
      BY <1>3 DEF CommitPrice
    <2> QED
      BY <1>1, <2>1, <2>2 DEF Aside
  <1>4. ASSUME NEW s \in Sources, NEW listed \in SUBSET Models, MarkVerified(s, listed)
        PROVE  WalkInv' /\ Aside
    BY <1>1, <1>4 DEF MarkVerified, Aside, Grows
  <1>5. ASSUME asked \in Priced, UNCHANGED <<history, walk, asked, cache>> PROVE WalkInv' /\ Aside
    <2>1. Aside
      BY <1>5 DEF Aside, Grows
    <2> QED
      BY <1>5, <2>1 DEF WalkInv, BodiesInv, WalkTypeOK, Items
  <1>6. ASSUME NEW c \in Clients, NEW q \in Queries, ReadPriceRows(c, q) PROVE WalkInv' /\ Aside
    BY <1>5, <1>6 DEF ReadPriceRows, Wants
  <1>7. ASSUME NEW c \in Clients, NEW q \in Queries, ReadList(c, q) PROVE WalkInv' /\ Aside
    <2>1. Aside
      BY <1>7 DEF ReadList, Aside, Grows
    <2> QED
      BY <1>0, <1>7, <2>1, ReadListWalk
  <1>8. ASSUME NEW c \in Clients, NEW q \in Queries, CacheHit(c, q)
        PROVE  WalkInv' /\ TakesPage(cache[q].body, q, TRUE)
    BY <1>0, <1>8, HitWalk
  <1>9. ASSUME NEW c \in Clients, ReadHistory(c) PROVE WalkInv' /\ Aside
    BY <1>0, <1>5, <1>9 DEF ReadHistory, RequestInv
  <1>10. ASSUME NEW c \in Clients, HandlerFails(c) PROVE WalkInv' /\ Aside
    BY <1>0, <1>5, <1>10 DEF HandlerFails, RequestInv
  <1>11. ASSUME NEW c \in Clients, StoreAndAnswer(c)
         PROVE  /\ WalkInv'
                /\ Aside \/ TakesPage(req[c].body, req[c].query, FALSE)
    BY <1>0, <1>11, StoreWalk DEF Aside, Grows
  <1>12. ASSUME BeginWalk PROVE WalkInv' /\ BeginWalk
    BY <1>0, <1>12, BeginWalkStep
  <1>13. ASSUME Tick PROVE WalkInv' /\ Aside
    <2>1. /\ Aside /\ req' = req
          /\ cache' = [q \in Queries |-> IF cache[q].filled /\ cache[q].expires <= clock'
                                           THEN NoEntry ELSE cache[q]]
      BY <1>13 DEF Tick, Aside, Grows
    <2>2. \A q \in Queries : cache'[q] = cache[q] \/ cache'[q] = NoEntry
      BY <2>1
    <2> QED
      BY <1>0, <2>1, <2>2, WalkIdle DEF Aside
  <1>14. ASSUME UNCHANGED vars PROVE WalkInv' /\ Aside
    BY <1>1, <1>14 DEF vars, Aside, Grows
  <1>15. CASE Next
    <2>1. ASSUME NEW c \in Clients, NEW q \in Queries,
                 ReadPriceRows(c, q) \/ ReadList(c, q) \/ CacheHit(c, q)
          PROVE  /\ WalkInv'
                 /\ Aside \/ \E b, r, cached : TakesPage(b, r, cached)
      BY <1>6, <1>7, <1>8, <2>1
    <2>2. ASSUME NEW c \in Clients, ReadHistory(c) \/ HandlerFails(c) \/ StoreAndAnswer(c)
          PROVE  /\ WalkInv'
                 /\ Aside \/ \E b, r, cached : TakesPage(b, r, cached)
      BY <1>9, <1>10, <1>11, <2>2
    <2> QED
      BY <1>2, <1>3, <1>4, <1>12, <1>13, <1>15, <2>1, <2>2 DEF Next
  <1> QED
    BY <1>14, <1>15
-----------------------------------------------------------------------------
(* GET /v1/changes, page by page.                                          *)

\* A commit makes no change stable, and leaves the recent ones recent.
LEMMA FeedAside ==
  ASSUME TablesInv, WalkInv, FeedWalkInv, Aside
  PROVE  FeedWalkInv'
  <1> SUFFICES ASSUME walk.path = "changes" PROVE FeedWalkInv'
    BY DEF FeedWalkInv, Aside
  <1>1. /\ walk' = walk /\ asked' = asked /\ history \in Seq(Row) /\ Grows(history, history')
        /\ walk.rows \subseteq DOMAIN history /\ walk.base \in 0..Len(history)
    <2>1. walk # NotWalking
      BY DEF NotWalking
    <2>2. /\ walk.path = asked /\ walk.rows \subseteq Items(history)
          /\ walk.base \in 0..Len(history)
      BY <2>1 DEF WalkInv, WalkTypeOK
    <2> QED
      BY <2>2 DEF Aside, TablesInv, TableTypeOK, Items
  <1>2. /\ Len(history) \in Nat /\ Len(history') \in Nat /\ Len(history) <= Len(history')
        /\ DOMAIN history = 1..Len(history)
        /\ DOMAIN history \subseteq DOMAIN history' /\ \A i \in DOMAIN history : history'[i] = history[i]
        /\ \A n \in 0..Len(history) : SubSeq(history', 1, n) = SubSeq(history, 1, n)
    BY <1>1, GrownLog
  <1>3. \A n \in 0..Len(history) : ListedAt(n)' = ListedAt(n) /\ ListedAt(n) \subseteq DOMAIN history
    <2> TAKE n \in 0..Len(history)
    <2>1. ListedAt(n)' = ListedAt(n)
      BY <1>2 DEF ListedAt
    <2>2. /\ SubSeq(history, 1, n) \in Seq(Row) /\ DOMAIN SubSeq(history, 1, n) = 1..n
          /\ \A i \in 1..n : i \in DOMAIN history
      BY <1>1, CutLog
    <2> QED
      BY <2>1, <2>2, ListedType DEF ListedAt
  <1>4. StableChanges' \subseteq StableChanges
    <2> SUFFICES ASSUME NEW i \in StableChanges' PROVE i \in StableChanges
      OBVIOUS
    <2>1. \A n \in walk.base..Len(history') : i \in ListedAt(n)'
      BY <1>1 DEF StableChanges
    <2>2. \A n \in walk.base..Len(history) : n \in walk.base..Len(history') /\ n \in 0..Len(history)
      BY <1>1, <1>2
    <2>3. \A n \in walk.base..Len(history) : i \in ListedAt(n)
      BY <1>3, <2>1, <2>2
    <2>4. walk.base \in walk.base..Len(history)
      BY <1>1
    <2>5. i \in DOMAIN history
      BY <1>1, <1>3, <2>3, <2>4
    <2> QED
      BY <2>3, <2>5 DEF StableChanges
  <1>5. RecentChanges \subseteq RecentChanges'
    <2> SUFFICES ASSUME NEW i \in RecentChanges PROVE i \in RecentChanges'
      OBVIOUS
    <2>1. PICK n \in walk.base..Len(history) : i \in ListedAt(n)
      BY DEF RecentChanges
    <2>2. n \in walk.base..Len(history') /\ n \in 0..Len(history)
      BY <1>1, <1>2
    <2>3. i \in ListedAt(n)' /\ i \in DOMAIN history'
      BY <1>2, <1>3, <2>1, <2>2 DEF RecentChanges
    <2> QED
      BY <1>1, <2>2, <2>3 DEF RecentChanges
  <1>6. ASSUME NEW i \in StableChanges', (walk'.over \/ Behind(history[i].at)') /\ Untied(i)'
        PROVE  i \in walk'.rows
    <2>1. i \in StableChanges /\ i \in DOMAIN history /\ history'[i] = history[i]
      BY <1>2, <1>4, <1>6 DEF StableChanges
    <2>2. Untied(i)
      BY <1>2, <1>5, <1>6, <2>1 DEF Untied, RecentChanges
    <2>3. walk.over \/ Behind(history[i].at)
      BY <1>1, <1>6, <2>1 DEF Behind
    <2> QED
      BY <1>1, <2>1, <2>2, <2>3 DEF FeedWalkInv
  <1>7. ~walk'.over => \A i \in walk'.rows : Behind(history[i].at)'
    BY <1>1, <1>2 DEF FeedWalkInv, Behind
  <1> QED
    BY <1>1, <1>2, <1>6, <1>7 DEF FeedWalkInv, Behind

\* The page that follows the cursor holds what is listed from there to the next cursor.
LEMMA FeedTaken ==
  ASSUME TablesInv, WalkInv, FeedWalkInv, NEW b, NEW q, NEW cached, TakesPage(b, q, cached)
  PROVE  FeedWalkInv'
  <1> SUFFICES ASSUME asked = "changes" PROVE FeedWalkInv'
    BY TakenFields DEF FeedWalkInv, WalkInv
  <1> DEFINE g == SubSeq(history, 1, b.base)
             before == walk.next
             page == b.page
  <1>1. /\ history' = history /\ asked' = asked /\ q.path = "changes" /\ q.arg = before
        /\ walk.path = "changes" /\ ~walk.over
    BY DEF TakesPage
  <1>2. /\ g \in Seq(Row) /\ b.base \in 0..Len(history) /\ Len(history) \in Nat
        /\ walk.base \in 0..Len(history)
        /\ before \in Nat /\ page \in PagesOf(g, q) /\ walk.rows \subseteq DOMAIN history
        /\ page.rows \subseteq DOMAIN history
        /\ walk' = [path |-> asked, rows |-> walk.rows \cup page.rows,
                    again |-> walk.again \/ walk.rows \cap page.rows # {},
                    over |-> ~page.more, cached |-> walk.cached \/ cached,
                    base |-> IF b.base < walk.base THEN b.base ELSE walk.base,
                    next |-> page.cursor]
    BY TakenFields DEF WalkInv, Items
  <1>3. page \in ChangePages(g, Since, before, PageSize)
    BY <1>1, <1>2 DEF PagesOf
  <1>4. /\ page.rows \subseteq Candidates(g, before)
        /\ page.more \in BOOLEAN /\ page.cursor \in Nat
        /\ ~page.more => page.rows = Candidates(g, before)
        /\ page.more => /\ page.cursor \in Nat \ {NoCursor}
                        /\ \A i \in page.rows : page.cursor <= g[i].at
                        /\ \E i \in page.rows : page.cursor = g[i].at
                        /\ \A j \in Candidates(g, before) \ page.rows : g[j].at <= page.cursor
    BY <1>2, <1>3, PageFacts
  <1>5. /\ DOMAIN g = 1..b.base /\ \A i \in DOMAIN g : g[i] = history[i] /\ i \in DOMAIN history
        /\ ListedChanges(g, Since) \subseteq DOMAIN g
    <2>1. /\ DOMAIN g = 1..b.base
          /\ \A i \in 1..b.base : g[i] = history[i] /\ i \in DOMAIN history
      BY <1>2, CutLog DEF TablesInv, TableTypeOK
    <2> QED
      BY <1>2, <2>1, ListedType
  <1>6. \A i \in DOMAIN history : history[i].at \in Nat
    BY RowFields
  <1>7. /\ Candidates(g, before) \subseteq DOMAIN history
        /\ \A i \in Candidates(g, before) :
             g[i] = history[i] /\ (before = NoCursor \/ history[i].at < before)
        /\ \A i \in ListedAt(b.base) : before = NoCursor \/ history[i].at < before => i \in Candidates(g, before)
        /\ Candidates(g, before) \subseteq ListedAt(b.base)
    BY <1>5 DEF Candidates, ListedAt
  <1> HIDE DEF g, page, before
  <1>8. /\ walk'.rows = walk.rows \cup page.rows /\ walk'.over = (~page.more) /\ walk'.next = page.cursor
        /\ walk'.again = (walk.again \/ walk.rows \cap page.rows # {}) /\ walk'.path = "changes"
        /\ walk'.base \in 0..Len(history) /\ walk'.base <= b.base /\ walk'.base <= walk.base
    <2> DEFINE low == IF b.base < walk.base THEN b.base ELSE walk.base
    <2>1. low \in 0..Len(history) /\ low <= b.base /\ low <= walk.base
      BY <1>2
    <2>2. walk'.base = low
      BY <1>2
    <2> HIDE DEF low
    <2> QED
      BY <1>2, <2>1, <2>2
  <1>9. StableChanges' \subseteq StableChanges /\ StableChanges' \subseteq ListedAt(b.base)
    <2> SUFFICES ASSUME NEW i \in StableChanges' PROVE i \in StableChanges /\ i \in ListedAt(b.base)
      OBVIOUS
    <2>1. i \in DOMAIN history /\ \A n \in walk'.base..Len(history) : i \in ListedAt(n)
      BY <1>1 DEF StableChanges, ListedAt
    <2>2. /\ b.base \in walk'.base..Len(history)
          /\ \A n \in walk.base..Len(history) : n \in walk'.base..Len(history)
      BY <1>2, <1>8
    <2> QED
      BY <2>1, <2>2 DEF StableChanges
  <1>10. RecentChanges \subseteq RecentChanges' /\ page.rows \subseteq RecentChanges'
    <2>1. ASSUME NEW i \in DOMAIN history, NEW n \in walk'.base..Len(history), i \in ListedAt(n)
          PROVE  i \in RecentChanges'
      BY <1>1, <2>1 DEF RecentChanges, ListedAt
    <2>2. /\ b.base \in walk'.base..Len(history)
          /\ \A n \in walk.base..Len(history) : n \in walk'.base..Len(history)
      BY <1>2, <1>8
    <2> QED
      BY <1>4, <1>7, <2>1, <2>2 DEF RecentChanges
  <1>11. before = NoCursor => walk.rows = {}
    BY <1>1 DEF FeedWalkInv, before
  <1>12. before # NoCursor => \A i \in walk.rows : history[i].at >= before
    BY <1>1 DEF FeedWalkInv, Behind, before
  <1>13. ~walk'.again
    <2>1. walk.rows \cap page.rows = {}
      <3> SUFFICES ASSUME NEW i \in walk.rows, i \in page.rows PROVE FALSE
        OBVIOUS
      <3>1. before # NoCursor
        BY <1>11
      <3>2. history[i].at >= before /\ history[i].at < before /\ history[i].at \in Nat
        BY <1>2, <1>4, <1>6, <1>7, <1>12, <3>1
      <3> QED
        BY <1>2, <3>2
    <2> QED
      BY <1>1, <1>8, <2>1 DEF FeedWalkInv
  <1>14. ASSUME ~walk'.over
         PROVE  walk'.next # NoCursor /\ \A i \in walk'.rows : history[i].at >= walk'.next
    <2>1. page.more
      BY <1>8, <1>14
    <2>2. \A i \in page.rows : page.cursor <= history[i].at /\ history[i].at \in Nat
      BY <1>4, <1>6, <1>7, <2>1
    <2>3. PICK k \in page.rows : page.cursor = history[k].at
      BY <1>4, <1>7, <2>1
    <2>4. ASSUME NEW i \in walk.rows PROVE history[i].at >= page.cursor
      <3>1. before # NoCursor
        BY <1>11
      <3>2. history[i].at >= before /\ page.cursor < before
        BY <1>4, <1>7, <1>12, <2>3, <3>1
      <3>3. history[i].at \in Nat /\ before \in Nat /\ page.cursor \in Nat
        BY <1>2, <1>4, <1>6
      <3> QED
        BY <3>2, <3>3
    <2> QED
      BY <1>4, <1>8, <2>1, <2>2, <2>4
  <1>15. ASSUME NEW i \in StableChanges', walk'.over \/ Behind(history[i].at)', Untied(i)'
         PROVE  i \in walk'.rows
    <2>1. i \in StableChanges /\ i \in ListedAt(b.base) /\ i \in DOMAIN history /\ history[i].at \in Nat
      BY <1>6, <1>9, <1>15 DEF StableChanges
    <2>2. Untied(i)
      BY <1>1, <1>10, <1>15 DEF Untied
    <2>3. CASE before # NoCursor /\ history[i].at >= before
      BY <1>1, <1>8, <2>1, <2>2, <2>3 DEF FeedWalkInv, Behind, before
    <2>4. CASE before = NoCursor \/ history[i].at < before
      <3>1. i \in Candidates(g, before)
        BY <1>7, <2>1, <2>4
      <3>2. CASE ~page.more
        BY <1>4, <1>8, <3>1, <3>2
      <3>3. CASE page.more
        <4> SUFFICES ASSUME i \notin page.rows PROVE FALSE
          BY <1>8
        <4>1. PICK k \in page.rows : page.cursor = history[k].at
          BY <1>4, <1>7, <3>3
        <4>2. history[i].at <= page.cursor
          BY <1>4, <1>7, <3>1, <3>3
        <4>3. history[i].at >= page.cursor
          BY <1>1, <1>8, <1>15, <3>3 DEF Behind
        <4>4. history[i].at = history[k].at
          BY <1>4, <2>1, <4>1, <4>2, <4>3
        <4>5. k \in RecentChanges' /\ k # i
          BY <1>10
        <4> QED
          BY <1>1, <1>15, <4>4, <4>5 DEF Untied
      <3> QED
        BY <3>2, <3>3
    <2> QED
      BY <1>2, <2>1, <2>3, <2>4
  <1>16. ~walk'.over => \A i \in walk'.rows : Behind(history[i].at)'
    BY <1>1, <1>14 DEF Behind
  <1> QED
    BY <1>1, <1>13, <1>14, <1>15, <1>16 DEF FeedWalkInv, Behind

\* Every page, on its way, in the cache or just taken, is one that an earlier state of the
\* log could have been answered with, and the walker asks for the pages in order.
THEOREM WalksFollowLog == Spec => [](AnswerInv /\ WalkInv)
  <1>1. ASSUME Init PROVE WalkInv
    <2>1. /\ req = [c \in Clients |-> Idle] /\ cache = [q \in Queries |-> NoEntry]
          /\ walk = NotWalking /\ Walker \in Clients
      BY <1>1 DEF Init, Clients
    <2> QED
      BY <2>1 DEF WalkInv, BodiesInv, WalkTypeOK, NoEntry
  <1>2. ASSUME AnswerInv, WalkInv, [Next]_vars PROVE WalkInv'
    BY <1>2, WalkSteps
  <1> QED
    BY <1>1, <1>2, AnswerInvariant, PTL DEF Spec

\* CursorWalkComplete: the pages a client is given, from GET /v1/changes or from the cache,
\* hold no change twice, and every change that was listed throughout and shares its stamp with
\* none, up to the last cursor; at the end of the walk those are all of them.
THEOREM CursorWalkMissesNone == Spec => []CursorWalkComplete
  <1>1. Init => FeedWalkInv
    BY DEF Init, FeedWalkInv, NotWalking
  <1>2. ASSUME AnswerInv, WalkInv, FeedWalkInv, [Next]_vars PROVE FeedWalkInv'
    <2>1. TablesInv
      BY <1>2 DEF AnswerInv
    <2>2. CASE BeginWalk
      <3>1. \/ walk'.path # "changes"
            \/ /\ ~walk'.over /\ walk'.next = NoCursor /\ walk'.rows = {} /\ ~walk'.again
        BY <2>2 DEF BeginWalk
      <3> QED
        BY <3>1 DEF FeedWalkInv, Behind
    <2> QED
      BY <1>2, <2>1, <2>2, WalkSteps, FeedAside, FeedTaken
  <1>3. FeedWalkInv => CursorWalkComplete
    BY DEF FeedWalkInv, CursorWalkComplete, WalkOver, Untied
  <1> QED
    BY <1>1, <1>2, <1>3, WalksFollowLog, PTL DEF Spec
-----------------------------------------------------------------------------
(* GET /v1/models, page by page.                                           *)

\* The models that the list has before m.
Above(h, m) == {n \in Models : ListedBefore(h, n, m, Rank)}

Still(m) == \A i \in RowsOf(history, m) : i <= walk.base

\* The log that the walker's page in flight was read from.
ReadFrom == SubSeq(history, 1, req[Walker].body.base)

Passed == (walk.next - 1) * PageSize

\* A model the walk has not met, and that was not published again, stands behind the part of
\* the list that the walk has passed, and already did when the page in flight was read.
Ahead(m) ==
  /\ ~walk.over /\ Passed <= Cardinality(Above(history, m))
  /\ req[Walker] # Idle => /\ Passed <= Cardinality(Above(ReadFrom, m))
                           /\ Above(ReadFrom, m) \subseteq Above(history, m)

AllShown == asked = "models" => \A m \in Models : RowsOf(history, m) # {}

PageWalkInv ==
  /\ AllShown
  /\ walk.path = "models" /\ req[Walker] # Idle => walk.base <= req[Walker].body.base
  /\ walk.path = "models" /\ ~walk.cached /\ StampsForward =>
       \A m \in Models \ walk.rows : Still(m) => Ahead(m)

\* Every model with a row is shown with a price that no row of prices is confirmed after.
LEMMA ShownIsMax ==
  ASSUME NEW h \in Seq(Row), NEW m, RowsOf(h, m) # {}, NEW b \in Nat,
         \A i \in DOMAIN h : h[i].at <= b
  PROVE  /\ Displayed(h, m) # {} /\ ShownAt(h, m) \in Nat
         /\ \E i \in RowsOf(h, m) : ShownAt(h, m) = h[i].at
         /\ \A i \in PriceRows(h, m) : h[i].at <= ShownAt(h, m)
  <1>1. /\ Len(h) \in Nat /\ DOMAIN h = 1..Len(h) /\ \A i \in DOMAIN h : h[i] \in Row
    OBVIOUS
  <1>2. \A i \in DOMAIN h : h[i].at \in Nat
    BY <1>1 DEF Row
  <1>3. PriceRows(h, m) # {}
    <2>1. RowsOf(h, m) \in SUBSET Nat /\ \A i \in RowsOf(h, m) : i <= Len(h)
      BY <1>1 DEF RowsOf
    <2>2. PICK i \in RowsOf(h, m) : \A j \in RowsOf(h, m) : j <= i
      BY <1>1, <2>1, Largest
    <2> QED
      BY <2>2 DEF PriceRows
  <1>4. PriceRows(h, m) \subseteq RowsOf(h, m) /\ RowsOf(h, m) \subseteq DOMAIN h
    BY DEF PriceRows, RowsOf
  <1>5. Displayed(h, m) # {}
    <2> DEFINE T == {h[i].at : i \in PriceRows(h, m)}
    <2>1. T \in SUBSET Nat /\ T # {} /\ \A t \in T : t <= b
      BY <1>2, <1>3, <1>4
    <2>2. PICK t \in T : \A u \in T : u <= t
      BY <2>1, Largest
    <2>3. PICK i \in PriceRows(h, m) : t = h[i].at
      BY <2>2
    <2>4. \A j \in PriceRows(h, m) : h[j].at <= h[i].at
      BY <2>2, <2>3
    <2> QED
      BY <2>3, <2>4 DEF Displayed
  <1>6. PICK i \in Displayed(h, m) : ShownAt(h, m) = h[i].at
    <2>1. (CHOOSE i \in Displayed(h, m) : TRUE) \in Displayed(h, m)
      BY <1>5
    <2> QED
      BY <2>1 DEF ShownAt
  <1>7. i \in PriceRows(h, m) /\ \A j \in PriceRows(h, m) : h[j].at <= h[i].at
    BY DEF Displayed
  <1> QED
    BY <1>2, <1>4, <1>5, <1>6, <1>7

\* A snapshot of another model changes nothing about m's place among the prices.
LEMMA ShownElsewhere ==
  ASSUME NEW h \in Seq(Row), NEW r \in Row, NEW m, r.model # m, RowsOf(h, m) # {},
         NEW b \in Nat, \A i \in DOMAIN h : h[i].at <= b
  PROVE  RowsOf(Append(h, r), m) = RowsOf(h, m) /\ ShownAt(Append(h, r), m) = ShownAt(h, m)
  <1> DEFINE g == Append(h, r)
  <1>1. /\ Len(h) \in Nat /\ DOMAIN h = 1..Len(h) /\ DOMAIN g = 1..(Len(h) + 1)
        /\ g[Len(h) + 1] = r /\ \A i \in 1..Len(h) : g[i] = h[i]
    OBVIOUS
  <1> HIDE DEF g
  <1>2. RowsOf(g, m) = RowsOf(h, m) /\ \A i \in RowsOf(h, m) : g[i] = h[i]
    <2>1. \A i \in DOMAIN g : i \in DOMAIN h \/ i = Len(h) + 1
      BY <1>1
    <2>2. \A i \in DOMAIN h : i \in DOMAIN g /\ g[i] = h[i]
      BY <1>1
    <2> QED
      BY <1>1, <2>1, <2>2 DEF RowsOf
  <1>3. PriceRows(g, m) = PriceRows(h, m) /\ PriceRows(h, m) \subseteq RowsOf(h, m)
    BY <1>2 DEF PriceRows
  <1>4. Displayed(g, m) = Displayed(h, m) /\ Displayed(h, m) \subseteq RowsOf(h, m)
    BY <1>2, <1>3 DEF Displayed
  <1>5. ShownAt(g, m) = ShownAt(h, m)
    <2>1. (CHOOSE i \in Displayed(h, m) : TRUE) \in Displayed(h, m)
      BY ShownIsMax
    <2> QED
      BY <1>2, <1>4, <2>1 DEF ShownAt
  <1> QED
    BY <1>2, <1>5 DEF g

\* One that is not stamped before the last of its model moves it forward.
LEMMA ShownForward ==
  ASSUME NEW h \in Seq(Row), NEW r \in Row, RowsOf(h, r.model) # {},
         NEW b \in Nat, \A i \in DOMAIN Append(h, r) : Append(h, r)[i].at <= b,
         \A i \in RowsOf(h, r.model) : h[i].at <= r.at
  PROVE  ShownAt(h, r.model) <= ShownAt(Append(h, r), r.model)
  <1> DEFINE g == Append(h, r)
             k == Len(h) + 1
             m == r.model
  <1>1. /\ g \in Seq(Row) /\ Len(h) \in Nat /\ DOMAIN h = 1..Len(h) /\ DOMAIN g = 1..k /\ k \in DOMAIN g
        /\ g[k] = r /\ \A i \in DOMAIN h : i \in DOMAIN g /\ g[i] = h[i]
    OBVIOUS
  <1>2. r.at \in Nat /\ \A i \in DOMAIN h : h[i].at \in Nat
    <2>1. \A i \in DOMAIN h : h[i] \in Row
      OBVIOUS
    <2> QED
      BY <2>1 DEF Row
  <1>3. \A i \in DOMAIN g : g[i].at <= b
    OBVIOUS
  <1>4. \A i \in DOMAIN h : h[i].at <= b
    BY <1>1, <1>3
  <1> HIDE DEF g
  <1>5. k \in PriceRows(g, m)
    <2>1. k \in RowsOf(g, m) /\ \A j \in RowsOf(g, m) : j <= k
      BY <1>1 DEF RowsOf
    <2> QED
      BY <2>1 DEF PriceRows
  <1>6. r.at <= ShownAt(g, m) /\ ShownAt(g, m) \in Nat
    <2>1. RowsOf(g, m) # {}
      BY <1>5 DEF PriceRows
    <2> HIDE DEF k
    <2> QED
      BY <1>1, <1>3, <1>5, <2>1, ShownIsMax
  <1>7. ShownAt(h, m) <= r.at /\ ShownAt(h, m) \in Nat
    BY <1>4, ShownIsMax
  <1> QED
    BY <1>2, <1>6, <1>7 DEF g

\* A commit that is stamped after its model's rows moves no other model forward.
LEMMA AboveGrows ==
  ASSUME NEW h \in Seq(Row), NEW r \in Row, \A m \in Models : RowsOf(h, m) # {},
         NEW b \in Nat, \A i \in DOMAIN Append(h, r) : Append(h, r)[i].at <= b,
         \A i \in RowsOf(h, r.model) : h[i].at <= r.at,
         NEW m \in Models, r.model # m
  PROVE  Above(h, m) \subseteq Above(Append(h, r), m)
  <1> DEFINE g == Append(h, r)
  <1>1. \A i \in DOMAIN h : i \in DOMAIN g /\ g[i] = h[i]
    OBVIOUS
  <1>2. \A i \in DOMAIN g : g[i].at <= b
    OBVIOUS
  <1>3. \A i \in DOMAIN h : h[i].at <= b
    BY <1>1, <1>2
  <1>4. r.model \in Models
    BY DEF Row
  <1>5. \A n \in Models : ShownAt(h, n) \in Nat
    BY <1>3, ShownIsMax
  <1>6. \A n \in Models : n # r.model => ShownAt(g, n) = ShownAt(h, n)
    BY <1>3, ShownElsewhere
  <1>7. ShownAt(h, r.model) <= ShownAt(g, r.model) /\ ShownAt(g, r.model) \in Nat
    <2>1. ShownAt(h, r.model) <= ShownAt(g, r.model)
      BY <1>2, <1>4, ShownForward
    <2>2. g \in Seq(Row)
      OBVIOUS
    <2>3. RowsOf(g, r.model) # {}
      <3>1. RowsOf(h, r.model) \subseteq RowsOf(g, r.model)
        BY <1>1 DEF RowsOf
      <3> QED
        BY <1>4, <3>1
    <2> HIDE DEF g
    <2> QED
      BY <1>2, <2>1, <2>2, <2>3, ShownIsMax
  <1> HIDE DEF g
  <1>8. ASSUME NEW n \in Above(h, m) PROVE n \in Above(g, m)
    <2>1. n \in Models /\ (ShownAt(h, n) > ShownAt(h, m) \/ (ShownAt(h, n) = ShownAt(h, m) /\ Rank[n] < Rank[m]))
      BY <1>8 DEF Above, ListedBefore
    <2>2. ShownAt(g, m) = ShownAt(h, m) /\ ShownAt(h, m) \in Nat
      BY <1>5, <1>6
    <2>3. ShownAt(h, n) <= ShownAt(g, n) /\ ShownAt(h, n) \in Nat /\ ShownAt(g, n) \in Nat
      BY <1>5, <1>6, <1>7, <2>1
    <2>4. ShownAt(g, n) > ShownAt(g, m) \/ (ShownAt(g, n) = ShownAt(g, m) /\ Rank[n] < Rank[m])
      BY <2>1, <2>2, <2>3
    <2> QED
      BY <2>1, <2>4 DEF Above, ListedBefore
  <1> QED
    BY <1>8 DEF g

\* The models before one are finitely many.
LEMMA AboveFinite ==
  ASSUME NEW h, NEW m
  PROVE  IsFiniteSet(Above(h, m)) /\ Cardinality(Above(h, m)) \in Nat /\ Above(h, m) \subseteq Models
  <1>1. Above(h, m) \subseteq Models
    BY DEF Above
  <1>2. IsFiniteSet(Above(h, m))
    BY <1>1, ServingAssumption, FS_Subset
  <1> QED
    BY <1>1, <1>2, FS_CardinalityType

\* The part of the list that a walk has passed is a number of models.
LEMMA PassedType ==
  ASSUME WalkInv, walk.path = "models"
  PROVE  walk # NotWalking /\ walk.next \in Nat /\ PageSize \in Nat /\ Passed \in Int
  <1>1. walk # NotWalking
    BY DEF NotWalking
  <1>2. walk.next \in Nat
    BY <1>1 DEF WalkInv, WalkTypeOK
  <1>3. PageSize \in Nat
    BY ServingAssumption
  <1> QED
    BY <1>1, <1>2, <1>3 DEF Passed

\* The lists are not among the endpoints of prices.
LEMMA PricedNot == "models" \notin Priced /\ "changes" \notin Priced
  BY DEF Priced

Own == req[Walker]

\* What a step is to a walk through the models.
LEMMA ModelWalkSteps ==
  ASSUME AnswerInv, WalkInv, [Next]_vars, asked = "models"
  PROVE  \/ Aside /\ Own' \in {Own, Idle}
         \/ UNCHANGED <<history, walk, asked>> /\ Own'.body.base = Len(history)
         \/ BeginWalk /\ Own = Idle /\ Own' = Idle
         \/ TakesPage(Own.body, Own.query, FALSE) /\ Own # Idle /\ Own' = Idle
         \/ \E b, q : TakesPage(b, q, TRUE) /\ Own = Idle /\ Own' = Idle
  <1>0. /\ TablesInv /\ DOMAIN req = Clients /\ DOMAIN cache = Queries /\ \A c \in Clients : RequestInv(c)
        /\ asked \notin Priced /\ Walker \in Clients /\ Asking = Others /\ Walker \notin Others
    BY ServingAssumption DEF AnswerInv, RequestsInv, Priced, Asking, Clients
  <1>1. ASSUME NEW w \in Writers, NEW m \in Models, NEW s \in Sources, NEW p \in Pairs,
               StampPrice(w, m, s, p)
        PROVE  Aside /\ Own' = Own
    BY <1>1 DEF StampPrice, Aside, Grows, Own
  <1>2. ASSUME NEW w \in Writers, CommitPrice(w) PROVE Aside /\ Own' = Own
    <2>1. Grows(history, history')
      BY <1>0, <1>2, CommitGrows
    <2> QED
      BY <1>2, <2>1 DEF CommitPrice, Aside, Own
  <1>3. ASSUME NEW c \in Clients, NEW q \in Queries, ReadList(c, q)
        PROVE  \/ Aside /\ Own' = Own
               \/ UNCHANGED <<history, walk, asked>> /\ Own'.body.base = Len(history)
    <2>1. PICK page \in Pages(q) :
            req' = [req EXCEPT ![c] = [pc |-> "store", query |-> q, start |-> clock,
                                       body |-> [page |-> page, base |-> Len(history)]]]
      BY <1>3 DEF ReadList
    <2>2. UNCHANGED <<history, walk, asked>>
      BY <1>3 DEF ReadList
    <2>3. CASE c = Walker
      <3> DEFINE new == [pc |-> "store", query |-> q, start |-> clock,
                         body |-> [page |-> page, base |-> Len(history)]]
      <3>1. new.body.base = Len(history)
        OBVIOUS
      <3>2. Own' = new
        BY <1>0, <2>1, <2>3 DEF Own
      <3> QED
        BY <2>2, <3>1, <3>2
    <2>4. CASE c # Walker
      BY <1>0, <2>1, <2>2, <2>4 DEF Own, Aside, Grows
    <2> QED
      BY <2>3, <2>4
  <1>4. ASSUME NEW c \in Clients, NEW q \in Queries, CacheHit(c, q)
        PROVE  TakesPage(cache[q].body, q, TRUE) /\ Own = Idle /\ Own' = Idle
    <2>1. TakesPage(cache[q].body, q, TRUE)
      BY <1>0, <1>4, HitWalk
    <2>2. c \notin Asking /\ req[c] = Idle /\ req' = req
      BY <1>4 DEF CacheHit, Wants
    <2>3. c = Walker
      BY <1>0, <2>2 DEF Clients
    <2> QED
      BY <2>1, <2>2, <2>3 DEF Own
  <1>5. ASSUME NEW c \in Clients, StoreAndAnswer(c)
        PROVE  \/ Aside /\ Own' \in {Own, Idle}
               \/ TakesPage(Own.body, Own.query, FALSE) /\ Own # Idle /\ Own' = Idle
    <2>1. /\ req' = [req EXCEPT ![c] = Idle] /\ history' = history /\ asked' = asked
          /\ req[c].pc = "store"
          /\ c \in Asking => walk' = walk
      BY <1>5 DEF StoreAndAnswer
    <2>2. \/ UNCHANGED <<history, walk, asked>>
          \/ TakesPage(req[c].body, req[c].query, FALSE)
      BY <1>0, <1>5, StoreWalk
    <2>3. CASE UNCHANGED <<history, walk, asked>>
      BY <1>0, <2>1, <2>3 DEF Own, Aside, Grows
    <2>4. CASE c \in Asking
      BY <2>1, <2>3, <2>4
    <2>5. CASE c \notin Asking /\ TakesPage(req[c].body, req[c].query, FALSE)
      <3>1. c = Walker
        BY <1>0, <2>5 DEF Clients
      <3>2. TakesPage(Own.body, Own.query, FALSE)
        BY <2>5, <3>1 DEF Own
      <3>3. Own.pc = "store" /\ Own' = Idle
        BY <1>0, <2>1, <3>1 DEF Own
      <3>4. Own # Idle
        BY <3>3 DEF Idle
      <3> QED
        BY <3>2, <3>3, <3>4
    <2> QED
      BY <2>2, <2>3, <2>4, <2>5
  <1>6. ASSUME BeginWalk PROVE Own = Idle /\ Own' = Idle
    <2>1. walk = NotWalking /\ req' = req
      BY <1>6 DEF BeginWalk
    <2>2. walk.path # asked
      BY <2>1 DEF NotWalking
    <2> QED
      BY <1>0, <2>1, <2>2 DEF WalkInv, BodiesInv, Own
  <1>7. ASSUME Tick \/ UNCHANGED vars PROVE Aside /\ Own' = Own
    BY <1>7 DEF Tick, vars, Aside, Grows, Own
  <1>8. \A s \in Sources, listed \in SUBSET Models : ~MarkVerified(s, listed)
    BY <1>0 DEF MarkVerified
  <1>9. \A c \in Clients, q \in Queries : ~ReadPriceRows(c, q)
    BY <1>0 DEF ReadPriceRows, Wants
  <1>10. \A c \in Clients : ~ReadHistory(c) /\ ~HandlerFails(c)
    BY <1>0 DEF ReadHistory, HandlerFails, RequestInv
  <1>11. CASE Next
    BY <1>1, <1>2, <1>3, <1>4, <1>5, <1>6, <1>7, <1>8, <1>9, <1>10, <1>11 DEF Next
  <1> QED
    BY <1>7, <1>11

\* Commits of other models, stamped in order, leave a model ahead of the walk.
LEMMA AheadAside ==
  ASSUME TablesInv, TablesInv', WalkInv, PageWalkInv, asked = "models", Aside,
         Own' \in {Own, Idle}
  PROVE  PageWalkInv'
  <1>0. /\ walk' = walk /\ asked' = asked /\ history \in Seq(Row) /\ Grows(history, history')
        /\ \A m \in Models : RowsOf(history, m) # {}
    BY DEF Aside, TablesInv, TableTypeOK, PageWalkInv, AllShown
  <1>1. /\ Len(history) \in Nat /\ Len(history') \in Nat /\ Len(history) <= Len(history')
        /\ DOMAIN history = 1..Len(history) /\ DOMAIN history' = 1..Len(history')
        /\ DOMAIN history \subseteq DOMAIN history' /\ \A i \in DOMAIN history : history'[i] = history[i]
        /\ \A n \in 0..Len(history) : SubSeq(history', 1, n) = SubSeq(history, 1, n)
    BY <1>0, GrownLog
  <1>2. \A m \in Models : RowsOf(history, m) \subseteq RowsOf(history', m)
    BY <1>1 DEF RowsOf
  <1>3. AllShown'
    BY <1>0, <1>2 DEF AllShown
  <1>4. walk'.path = "models" /\ Own' # Idle => walk'.base <= Own'.body.base
    BY <1>0 DEF PageWalkInv, Own
  <1>5. ASSUME walk.path = "models", ~walk.cached, StampsForward', NEW m \in Models \ walk.rows, Still(m)'
        PROVE  Ahead(m)'
    <2>1. walk.base \in 0..Len(history)
      <3>1. walk # NotWalking
        BY <1>5 DEF NotWalking
      <3> QED
        BY <3>1 DEF WalkInv, WalkTypeOK
    <2>2. StampsForward
      <3>1. \A i \in DOMAIN history : \A j \in 1..(i - 1) : j \in DOMAIN history
        BY <1>1
      <3> QED
        BY <1>0, <1>1, <1>5, <3>1 DEF StampsForward
    <2>3. Still(m)
      BY <1>0, <1>2, <1>5 DEF Still
    <2>4. Ahead(m)
      BY <1>5, <2>2, <2>3 DEF PageWalkInv
    <2>5. Above(history, m) \subseteq Above(history', m)
      <3>1. CASE history' = history
        BY <3>1
      <3>2. ASSUME NEW r \in Row, history' = Append(history, r)
            PROVE  Above(history, m) \subseteq Above(history', m)
        <4> DEFINE k == Len(history) + 1
        <4>1. k \in DOMAIN history' /\ history'[k] = r /\ k > walk.base /\ \A j \in DOMAIN history : j \in 1..(k - 1)
          BY <1>0, <1>1, <2>1, <3>2
        <4>2. r.model # m
          <5>1. r.model = m => k \in RowsOf(history', m)
            BY <4>1 DEF RowsOf
          <5>2. \A i \in RowsOf(history', m) : i <= walk.base
            BY <1>0, <1>5 DEF Still
          <5> QED
            BY <1>1, <2>1, <4>1, <5>1, <5>2
        <4>3. \A j \in RowsOf(history, r.model) : history[j].at <= r.at
          <5> TAKE j \in RowsOf(history, r.model)
          <5>1. j \in DOMAIN history /\ history[j].model = r.model
            BY DEF RowsOf
          <5>2. j \in 1..(k - 1) /\ history'[j] = history[j]
            BY <1>1, <4>1, <5>1
          <5> HIDE DEF k
          <5> QED
            BY <1>0, <1>5, <4>1, <5>1, <5>2 DEF StampsForward
        <4>4. clock' \in Nat /\ \A i \in DOMAIN history' : history'[i].at <= clock'
          BY DEF TablesInv, TableTypeOK, StampInv
        <4>5. \A i \in DOMAIN Append(history, r) : Append(history, r)[i].at <= clock'
          BY <3>2, <4>4
        <4> HIDE DEF k
        <4> QED
          BY <1>0, <3>2, <4>2, <4>3, <4>4, <4>5, AboveGrows
      <3> QED
        BY <1>0, <3>1, <3>2 DEF Grows
    <2>6. Cardinality(Above(history, m)) <= Cardinality(Above(history', m))
      BY <2>5, AboveFinite, FS_Subset
    <2>7. Passed <= Cardinality(Above(history', m))
      <3>1. Passed \in Int
        BY <1>5, PassedType
      <3>2. Cardinality(Above(history, m)) \in Nat /\ Cardinality(Above(history', m)) \in Nat
        BY AboveFinite
      <3> QED
        BY <2>4, <2>6, <3>1, <3>2 DEF Ahead
    <2>8. ASSUME Own' # Idle
          PROVE  /\ Passed <= Cardinality(Above(ReadFrom', m))
                 /\ Above(ReadFrom', m) \subseteq Above(history', m)
      <3>1. Own' = Own /\ Own # Idle
        BY <2>8
      <3>2. Own.body.base \in 0..Len(history)
        BY <3>1, PricedNot DEF Own, WalkInv, BodiesInv, ListBody, Clients
      <3>3. ReadFrom' = ReadFrom
        BY <1>1, <3>1, <3>2 DEF ReadFrom, Own
      <3> QED
        BY <2>4, <2>5, <3>1, <3>3 DEF Ahead, Own
    <2> QED
      BY <1>0, <2>4, <2>7, <2>8 DEF Ahead, Own, Passed
  <1> QED
    BY <1>0, <1>3, <1>4, <1>5 DEF PageWalkInv, Own

\* A behaviour asks for one endpoint.
LEMMA AskedStays ==
  ASSUME [Next]_vars
  PROVE  asked' = asked
  BY DEF Next, vars, StampPrice, CommitPrice, MarkVerified, ReadPriceRows, ReadList, CacheHit,
         ReadHistory, HandlerFails, StoreAndAnswer, BeginWalk, Tick

\* A page read now shows the list as it is now.
LEMMA AheadRead ==
  ASSUME TablesInv, WalkInv, PageWalkInv, asked = "models",
         UNCHANGED <<history, walk, asked>>, Own'.body.base = Len(history)
  PROVE  PageWalkInv'
  <1>1. history \in Seq(Row) /\ history' = history /\ walk' = walk /\ asked' = asked
    BY DEF TablesInv, TableTypeOK
  <1>2. ReadFrom' = history
    BY <1>1, WholeLog DEF ReadFrom, Own
  <1>3. walk.path = "models" => walk.base <= Len(history)
    BY PassedType DEF WalkInv, WalkTypeOK
  <1>4. AllShown'
    BY <1>1 DEF PageWalkInv, AllShown
  <1>5. ASSUME walk.path = "models", ~walk.cached, StampsForward', NEW m \in Models \ walk.rows, Still(m)'
        PROVE  Ahead(m)'
    <2>1. StampsForward /\ Still(m)
      BY <1>1, <1>5 DEF StampsForward, Still
    <2>2. Ahead(m)
      BY <1>5, <2>1 DEF PageWalkInv
    <2> QED
      BY <1>1, <1>2, <2>2 DEF Ahead, Passed
  <1> QED
    BY <1>1, <1>3, <1>4, <1>5 DEF PageWalkInv, Own

\* A model that is not on the page stands behind it.
LEMMA AheadTaken ==
  ASSUME TablesInv, WalkInv, PageWalkInv, asked = "models",
         TakesPage(Own.body, Own.query, FALSE), Own # Idle, Own' = Idle
  PROVE  PageWalkInv'
  <1> DEFINE b == Own.body
             q == Own.query
             page == b.page
             n == walk.next
             no == FALSE
  <1>1. /\ history' = history /\ asked' = asked /\ q.path = "models" /\ q.arg = n
        /\ walk.path = "models" /\ q \in Queries
    BY DEF TakesPage
  <1>a. TakesPage(b, q, no) /\ WalkTypeOK /\ ReadFrom = SubSeq(history, 1, b.base)
    BY DEF WalkInv, ReadFrom, Own
  <1>2. /\ page \in PagesOf(ReadFrom, q) /\ b.base \in Nat
        /\ walk.next \in Nat /\ walk.base \in Nat
        /\ walk' = [path |-> asked, rows |-> walk.rows \cup page.rows,
                    again |-> walk.again \/ walk.rows \cap page.rows # {},
                    over |-> ~page.more, cached |-> walk.cached \/ no,
                    base |-> IF b.base < walk.base THEN b.base ELSE walk.base,
                    next |-> page.cursor]
    <2> HIDE DEF b, q, no
    <2> QED
      BY <1>a, TakenFields
  <1>3. page = [rows |-> ModelPage(ReadFrom, n, PageSize, Rank),
                more |-> n * PageSize < Cardinality(Models), cursor |-> n + 1]
    BY <1>1, <1>2 DEF PagesOf
  <1>4. walk.base <= b.base /\ b.base \in Nat
    BY <1>1, <1>2 DEF PageWalkInv, Own
  <1> HIDE DEF page, b, q
  <1>5. walk'.base = walk.base
    BY <1>2, <1>4
  <1>6. /\ walk'.rows = walk.rows \cup page.rows /\ walk'.next = n + 1 /\ walk'.over = (~page.more)
        /\ walk'.cached = (walk.cached \/ no)
        /\ page.rows = ModelPage(ReadFrom, n, PageSize, Rank)
        /\ page.more = (n * PageSize < Cardinality(Models))
    BY <1>2, <1>3
  <1>7. /\ n \in Nat /\ PageSize \in Nat /\ n * PageSize \in Nat /\ Passed = (n - 1) * PageSize
        /\ Passed' = n * PageSize
    <2>1. PageSize \in Nat /\ n \in Nat
      BY <1>2, ServingAssumption
    <2>2. Passed' = (n + 1 - 1) * PageSize /\ n + 1 - 1 = n
      BY <1>6, <2>1 DEF Passed
    <2> HIDE DEF n
    <2>3. n * PageSize \in Nat
      BY <2>1
    <2> QED
      BY <2>1, <2>2, <2>3 DEF Passed, n
  <1>8. ASSUME ~walk'.cached, StampsForward', NEW m \in Models, m \notin walk'.rows, Still(m)'
        PROVE  Ahead(m)'
    <2>1. StampsForward /\ Still(m) /\ ~walk.cached
      BY <1>1, <1>5, <1>6, <1>8 DEF StampsForward, Still
    <2>2. Ahead(m) /\ m \notin page.rows
      BY <1>1, <1>6, <1>8, <2>1 DEF PageWalkInv
    <2> DEFINE above == Cardinality(Above(ReadFrom, m))
               now == Cardinality(Above(history, m))
    <2>3. Passed <= above /\ Above(ReadFrom, m) \subseteq Above(history, m)
      BY <2>2 DEF Ahead, Own
    <2>4. above \in Nat /\ now \in Nat /\ above <= now
      BY <2>3, AboveFinite, FS_Subset
    <2>5. ~(above < n * PageSize)
      BY <1>6, <1>7, <2>2, <2>3 DEF ModelPage, Above
    <2>6. now < Cardinality(Models)
      <3>1. m \notin Above(history, m)
        <4>1. ShownAt(history, m) \in Nat
          <5>1. RowsOf(history, m) # {}
            BY DEF PageWalkInv, AllShown
          <5> QED
            BY <5>1, ShownIsMax DEF TablesInv, TableTypeOK, StampInv
        <4>2. Rank[m] \in Nat
          <5>1. Cardinality(Models) \in Nat /\ Rank[m] \in 1..Cardinality(Models)
            BY ServingAssumption, FS_CardinalityType
          <5> QED
            BY <5>1
        <4> QED
          BY <4>1, <4>2 DEF Above, ListedBefore
      <3>2. Above(history, m) \subseteq Models /\ Above(history, m) # Models
        BY <3>1, AboveFinite
      <3>3. Cardinality(Models) \in Nat /\ Cardinality(Above(history, m)) # Cardinality(Models)
            /\ Cardinality(Above(history, m)) <= Cardinality(Models)
        BY <3>2, ServingAssumption, FS_Subset, FS_CardinalityType
      <3> QED
        BY <2>4, <3>3
    <2> HIDE DEF above, now, n
    <2>7. n * PageSize <= now /\ n * PageSize < Cardinality(Models)
      <3>1. Cardinality(Models) \in Nat
        BY ServingAssumption, FS_CardinalityType
      <3> QED
        BY <1>7, <2>4, <2>5, <2>6, <3>1
    <2>8. page.more
      BY <1>6, <2>7
    <2>9. ~walk'.over
      BY <1>6, <2>8
    <2> QED
      BY <1>1, <1>7, <2>7, <2>9 DEF Ahead, now, Own
  <1>9. AllShown'
    BY <1>1 DEF PageWalkInv, AllShown
  <1> QED
    BY <1>8, <1>9 DEF PageWalkInv, Own

\* A walk begins at the top of the list.
LEMMA AheadBegin ==
  ASSUME TablesInv, PageWalkInv, asked = "models", BeginWalk, Own' = Idle
  PROVE  PageWalkInv'
  <1>1. history' = history /\ asked' = asked /\ ~walk'.over /\ walk'.next = 1
    BY DEF BeginWalk
  <1>2. AllShown'
    BY <1>1 DEF PageWalkInv, AllShown
  <1>3. Passed' = 0
    <2>1. Passed' = (1 - 1) * PageSize /\ PageSize \in Nat
      BY <1>1, ServingAssumption DEF Passed
    <2> QED
      BY <2>1
  <1>4. \A m \in Models : Ahead(m)'
    BY <1>1, <1>3, AboveFinite DEF Ahead, Own
  <1> QED
    BY <1>2, <1>4 DEF PageWalkInv, Own

\* Initially every model of the list has a row.
LEMMA AllShownInit ==
  ASSUME Init
  PROVE  AllShown
  <1> SUFFICES ASSUME asked = "models", NEW m \in Models PROVE RowsOf(history, m) # {}
    BY DEF AllShown
  <1>1. PICK s \in Sources, p \in Pairs :
          history = [i \in 1..Cardinality(Models) |->
                       [model |-> CHOOSE k \in Models : Rank[k] = i, source |-> s, pair |-> p, at |-> 1]]
    BY DEF Init
  <1>2. Rank[m] \in 1..Cardinality(Models)
    BY ServingAssumption
  <1>3. (CHOOSE k \in Models : Rank[k] = Rank[m]) = m
    <2>1. \A k \in Models : Rank[k] = Rank[m] => k = m
      BY ServingAssumption
    <2> QED
      BY <2>1
  <1>4. Rank[m] \in DOMAIN history /\ history[Rank[m]].model = m
    BY <1>1, <1>2, <1>3
  <1> QED
    BY <1>4 DEF RowsOf

\* OffsetWalkComplete: while no row of prices is replaced by one stamped earlier, a model that
\* is not published again only moves back in GET /v1/models, so that it cannot slip past the
\* page number of a client that reads every page from the database.
THEOREM OffsetWalkMissesNone == Spec => []OffsetWalkComplete
  <1> DEFINE Inv == PageWalkInv \/ asked # "models"
  <1>1. ASSUME Init PROVE Inv
    <2>1. AllShown
      BY <1>1, AllShownInit
    <2>2. walk.path = "none"
      BY <1>1 DEF Init, NotWalking
    <2> QED
      BY <2>1, <2>2 DEF PageWalkInv
  <1>2. ASSUME AnswerInv, AnswerInv', WalkInv, Inv, [Next]_vars PROVE Inv'
    <2>1. TablesInv /\ TablesInv'
      BY <1>2 DEF AnswerInv
    <2>2. asked' = asked
      BY <1>2, AskedStays
    <2>3. CASE asked = "models"
      <3>1. CASE Aside /\ Own' \in {Own, Idle}
        BY <1>2, <2>1, <2>3, <3>1, AheadAside
      <3>2. CASE UNCHANGED <<history, walk, asked>> /\ Own'.body.base = Len(history)
        BY <1>2, <2>1, <2>3, <3>2, AheadRead
      <3>3. CASE BeginWalk /\ Own = Idle /\ Own' = Idle
        BY <1>2, <2>1, <2>3, <3>3, AheadBegin
      <3>4. CASE TakesPage(Own.body, Own.query, FALSE) /\ Own # Idle /\ Own' = Idle
        BY <1>2, <2>1, <2>3, <3>4, AheadTaken
      <3>5. ASSUME NEW b, NEW q, TakesPage(b, q, TRUE), Own' = Idle PROVE Inv'
        <4> DEFINE yes == TRUE
        <4>0. WalkTypeOK /\ TakesPage(b, q, yes) /\ history' = history
          BY <1>2, <3>5 DEF WalkInv, TakesPage
        <4>1. walk'.cached = (walk.cached \/ yes)
          <5> HIDE DEF yes
          <5> QED
            BY <2>1, <4>0, TakenFields
        <4>2. AllShown'
          BY <1>2, <2>2, <2>3, <4>0 DEF PageWalkInv, AllShown
        <4> QED
          BY <3>5, <4>1, <4>2 DEF PageWalkInv, Own
      <3> HIDE DEF Inv
      <3> QED
        BY <1>2, <2>3, <3>1, <3>2, <3>3, <3>4, <3>5, ModelWalkSteps
    <2> QED
      BY <2>2, <2>3
  <1>3. ASSUME AnswerInv, WalkInv, Inv PROVE OffsetWalkComplete
    <2> SUFFICES ASSUME WalkOver("models"), ~walk.cached, StampsForward, NEW m \in Models \ walk.rows
                 PROVE  \E i \in RowsOf(history, m) : i > walk.base
      BY DEF OffsetWalkComplete
    <2>1. walk.path = "models" /\ walk.over
      BY DEF WalkOver
    <2>2. asked = "models" /\ walk.base \in 0..Len(history)
      BY <1>3, <2>1, PassedType DEF WalkInv, WalkTypeOK
    <2>3. ~Still(m)
      BY <1>3, <2>1, <2>2 DEF PageWalkInv, Ahead
    <2>4. PICK i \in RowsOf(history, m) : ~(i <= walk.base)
      BY <2>3 DEF Still
    <2>5. i \in Nat /\ walk.base \in Nat
      BY <1>3, <2>2, <2>4 DEF RowsOf, AnswerInv, TablesInv, TableTypeOK
    <2> QED
      BY <2>4, <2>5
  <1> QED
    BY <1>1, <1>2, <1>3, WalksFollowLog, PTL DEF Spec
=============================================================================
