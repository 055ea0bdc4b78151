----------------------------- MODULE PriceStore -----------------------------
(***************************************************************************)
(* The PostgreSQL tables that hold prices, and the statements the rest of  *)
(* the system issues against them.                                         *)
(*                                                                         *)
(*   prices        one current row per (model, source)                     *)
(*   price_history the append-only log of confirmed snapshots              *)
(*   review_queue  discrepancies waiting for an operator                   *)
(*                                                                         *)
(* PublishPrice is one transaction that writes without reading, and        *)
(* FlagDiscrepancy one statement: each is one step.                        *)
(***************************************************************************)
EXTENDS Naturals, Sequences

CONSTANTS
  Models,    \* model slugs
  Sources,   \* rows of the sources table
  Quotes,    \* what a scraper can report for a model: [input, output] prices
  Scale      \* the step of a NUMERIC(20, 10) price column, in units of a quoted price

Fields == {"input", "output"}

ASSUME StoreAssumption ==
  /\ Models # {} /\ Sources # {}
  /\ Quotes \subseteq [Fields -> Nat]
  /\ Scale \in Nat \ {0}

VARIABLES
  prices,    \* [Models -> [Sources -> Row]]
  history,   \* sequence of Snapshot
  review     \* sequence of ReviewEntry

storeVars == <<prices, history, review>>

-----------------------------------------------------------------------------
(* A price is a natural number of the code's epsilon, 1e-12, the smallest   *)
(* difference the code tells apart; 0 stands for "no price". The columns    *)
(* keep ten decimals, so PostgreSQL rounds what is written to a multiple of *)
(* Scale (100 epsilons in the deployed schema).                             *)

Stored(v) == ((2 * v + Scale) \div (2 * Scale)) * Scale

Values == {0} \cup {q[f] : q \in Quotes, f \in Fields}

Confidences == {"low", "medium", "high"}

\* conf = "none" is the absent row: LookupCurrentPrice answers 0, 0, false.
Row == [input : Nat, output : Nat, conf : Confidences \cup {"none"}, verified : Nat]

NoRow == [input |-> 0, output |-> 0, conf |-> "none", verified |-> 0]

\* "via" and "field" are history variables: which rule decided the write, and
\* for which column. price_history itself stores neither.
Origins == {"first", "confirm", "agree", "review"}

Snapshot == [model : Models, source : Sources, input : Nat, output : Nat,
             conf : Confidences, via : Origins, field : Fields]

ReviewEntry == [model : Models, field : Fields, sourceA : Sources, sourceB : Sources,
                valueA : Nat, valueB : Nat, status : {"pending", "resolved", "overridden"}]

Exists(m, s) == prices[m][s].conf # "none"

OtherField(f) == IF f = "input" THEN "output" ELSE "input"

-----------------------------------------------------------------------------
(* Statements *)

\* What the columns keep of a snapshot.
Rounded(snap) == [snap EXCEPT !.input = Stored(@), !.output = Stored(@)]

RowOf(snap, verified) ==
  [input |-> Stored(snap.input), output |-> Stored(snap.output),
   conf |-> snap.conf, verified |-> verified]

\* Mutant: INSERT ... ON CONFLICT DO NOTHING, an existing row keeps its prices.
WritePriceOnce(snap, verified) ==
  /\ history' = Append(history, Rounded(snap))
  /\ prices' = [prices EXCEPT ![snap.model][snap.source] =
                  IF Exists(snap.model, snap.source) THEN @ ELSE RowOf(snap, verified)]

\* The snapshot and the current row are written by one transaction.
WritePrice(snap, verified) ==
  /\ history' = Append(history, Rounded(snap))
  /\ prices' = [prices EXCEPT ![snap.model][snap.source] = RowOf(snap, verified)]

\* Mutant: without the partial unique index.
NoPendingIndex(m, f) == FALSE

\* ON CONFLICT (model_id, field) WHERE status = 'pending' DO NOTHING
PendingReview(m, f) ==
  \E i \in DOMAIN review : /\ review[i].model = m
                           /\ review[i].field = f
                           /\ review[i].status = "pending"

FlagDiscrepancy(m, f, a, b) ==
  review' = IF PendingReview(m, f)
              THEN review
              ELSE Append(review, [model |-> m, field |-> f,
                                   sourceA |-> a.source, sourceB |-> b.source,
                                   valueA |-> Stored(a.value), valueB |-> Stored(b.value),
                                   status |-> "pending"])

StoreTypeOK ==
  /\ prices \in [Models -> [Sources -> Row]]
  /\ history \in Seq(Snapshot)
  /\ review \in Seq(ReviewEntry)

StoreInit ==
  /\ prices = [m \in Models |-> [s \in Sources |-> NoRow]]
  /\ history = << >>
  /\ review = << >>
=============================================================================
