----------------------------- MODULE ReviewQueue -----------------------------
(***************************************************************************)
(* The operator's decisions on flagged discrepancies (internal/review).    *)
(* Approve is a READ COMMITTED transaction: it locks the review entry and  *)
(* reads the current price, which it does not lock, then writes and        *)
(* commits. Two operators, and the worker, may act between the two. Reject *)
(* is one UPDATE, which waits for the lock of an open Approve. A request   *)
(* for an entry that is not pending is refused and changes nothing.        *)
(***************************************************************************)
EXTENDS PriceStore

VARIABLE approving   \* open Approve transactions: the entry locked, the row read

Pending(i) == i \in DOMAIN review /\ review[i].status = "pending"

Locked(i) == \E a \in approving : a.entry = i

Decide(i, status) ==
  /\ Pending(i)
  /\ review' = [review EXCEPT ![i].status = status]

\* SELECT ... FOR UPDATE, and the row of source A (zeros when there is none).
BeginApprove(i) ==
  /\ Pending(i) /\ ~Locked(i)
  /\ approving' = approving \cup
       {[entry |-> i, row |-> prices[review[i].model][review[i].sourceA]]}
  /\ UNCHANGED storeVars

\* The value of source A is published next to the other column as it was read.
\* last_verified_at is left alone.
CommitApprove(a) ==
  LET r == review[a.entry] IN
  /\ Decide(a.entry, "resolved")
  /\ WritePrice([model |-> r.model, source |-> r.sourceA,
                 input |-> IF r.field = "input" THEN r.valueA ELSE a.row.input,
                 output |-> IF r.field = "output" THEN r.valueA ELSE a.row.output,
                 conf |-> "high", via |-> "review", field |-> r.field],
                prices[r.model][r.sourceA].verified)
  /\ approving' = approving \ {a}

\* A statement fails, or the API process dies.
RollbackApprove(a) ==
  /\ approving' = approving \ {a}
  /\ UNCHANGED storeVars

Reject(i) ==
  /\ ~Locked(i)
  /\ Decide(i, "overridden")
  /\ UNCHANGED <<prices, history, approving>>

ApprovingTypeOK == approving \subseteq [entry : DOMAIN review, row : Row]
=============================================================================
