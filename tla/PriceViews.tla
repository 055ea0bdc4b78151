----------------------------- MODULE PriceViews -----------------------------
(***************************************************************************)
(* What the read-only handlers compute from price_history and prices: the  *)
(* price a model is shown with, its trust metadata, the change feed and    *)
(* the two kinds of paging. All operators are functions of a log h of      *)
(* committed snapshots, in commit order; "at" is confirmed_at, stamped     *)
(* before the transaction that commits the row, so h need not be sorted by *)
(* it.                                                                     *)
(***************************************************************************)
EXTENDS Integers, Sequences, FiniteSets

CONSTANTS
  Models,
  Sources,
  Pairs,        \* (input, output) price pairs
  StaleAfter    \* the 24 hours of the medium-confidence rule

RowsOf(h, m) == {i \in DOMAIN h : h[i].model = m}

\* The row of (m, s) in prices: PublishPrice upserts it with every snapshot, so it is the
\* last one committed, whatever its stamp.
PriceRows(h, m) ==
  {i \in RowsOf(h, m) : \A j \in RowsOf(h, m) : h[j].source = h[i].source => j <= i}

\* LATERAL (... ORDER BY confirmed_at DESC LIMIT 1); a tie is broken as PostgreSQL likes.
Displayed(h, m) ==
  {i \in PriceRows(h, m) : \A j \in PriceRows(h, m) : h[j].at <= h[i].at}

-----------------------------------------------------------------------------
(* Trust metadata *)

\* The first row, in confirmed_at order, that no row is confirmed after.
LatestOf(h, rows) ==
  CHOOSE i \in rows : \A j \in rows : \/ h[j].at < h[i].at
                                      \/ h[j].at = h[i].at /\ i <= j

\* verifiedAt is never earlier than the last change.
FreshnessAnchor(latest, verified) == IF verified > latest THEN verified ELSE latest

ComputeTrustMeta(h, m, verified, now) ==
  LET rows   == RowsOf(h, m)
      latest == LatestOf(h, rows)
      anchor == FreshnessAnchor(h[latest].at, verified)
      agreed == {h[i].source : i \in {j \in rows : h[j].pair = h[latest].pair}}
  IN IF rows = {} THEN [confirmed |-> 0, verified |-> 0, confidence |-> "low"]
     ELSE [confirmed  |-> h[latest].at,
           verified   |-> anchor,
           confidence |-> IF Cardinality(agreed) >= 2 THEN "high"
                          ELSE IF now - anchor <= StaleAfter THEN "medium" ELSE "low"]

-----------------------------------------------------------------------------
(* The change feed *)

Earlier(h, i, j) == h[i].at < h[j].at \/ (h[i].at = h[j].at /\ i < j)

\* LAG(...) OVER (PARTITION BY model_id ORDER BY confirmed_at): the row before i among rows.
Lag(h, rows, i) ==
  {j \in rows : /\ h[j].model = h[i].model /\ Earlier(h, j, i)
                /\ ~\E k \in rows : h[k].model = h[i].model /\ Earlier(h, j, k) /\ Earlier(h, k, i)}

ChangesAmong(h, rows) == {i \in rows : \E j \in Lag(h, rows, i) : h[j].pair # h[i].pair}

\* The window is cut out first (WHERE confirmed_at > $1) and LAG looks no further back.
ListedChanges(h, since) == ChangesAmong(h, {i \in DOMAIN h : h[i].at > since})

\* The subsets of rows a query may answer with ORDER BY confirmed_at DESC LIMIT n.
Newest(h, rows, n) ==
  {p \in SUBSET rows : /\ Cardinality(p) = IF Cardinality(rows) < n THEN Cardinality(rows) ELSE n
                       /\ \A i \in p, j \in rows \ p : h[j].at <= h[i].at}

\* confirmed_at of the last item of a page.
LastStamp(h, p) == CHOOSE t \in {h[i].at : i \in p} : \A i \in p : t <= h[i].at

\* Mutant: no extra row, so that a full page looks like the last one.
FetchPageOnly(limit) == limit

\* One row more than asked for tells whether there are more.
FetchSize(limit) == limit + 1

NoCursor == 0

\* The pages a request may be answered with. X-Next-Cursor is the stamp of the last item.
ChangePages(h, since, before, limit) ==
  LET candidates == {i \in ListedChanges(h, since) : before = NoCursor \/ h[i].at < before}
  IN UNION {{[rows |-> page, more |-> Cardinality(fetched) > limit,
              cursor |-> IF page = {} THEN before ELSE LastStamp(h, page)] :
               page \in Newest(h, fetched, limit)} :
             fetched \in Newest(h, candidates, FetchSize(limit))}

-----------------------------------------------------------------------------
(* The model list *)

ShownAt(h, m) == LET i == CHOOSE i \in Displayed(h, m) : TRUE IN h[i].at

\* Mutant: the least recently confirmed first.
OldestFirst(h, m, n, rank) ==
  ShownAt(h, m) < ShownAt(h, n) \/ (ShownAt(h, m) = ShownAt(h, n) /\ rank[m] < rank[n])

\* ORDER BY COALESCE(p.confirmed_at, m.created_at) DESC, ..., m.id
ListedBefore(h, m, n, rank) ==
  ShownAt(h, m) > ShownAt(h, n) \/ (ShownAt(h, m) = ShownAt(h, n) /\ rank[m] < rank[n])

\* LIMIT limit OFFSET (page - 1) * limit
ModelPage(h, page, limit, rank) ==
  {m \in Models : LET above == Cardinality({n \in Models : ListedBefore(h, n, m, rank)})
                  IN (page - 1) * limit <= above /\ above < page * limit}
=============================================================================
