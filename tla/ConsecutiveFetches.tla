------------------------- MODULE ConsecutiveFetches -------------------------
(***************************************************************************)
(* Pipeline with a history variable: for every gate key, the values its    *)
(* sources reported, scrape by scrape. A scrape that agrees with the       *)
(* stored row produces no diff and never reaches the gate, but it is a     *)
(* report all the same.                                                    *)
(***************************************************************************)
EXTENDS Pipeline

VARIABLE reports   \* [Keys -> Seq(Nat)]

LogInit == Init /\ reports = [k \in Keys |-> << >>]

\* What the scrape that worker w starts in this step reports for column f.
ReportOf(w, m, f, s) ==
  LET D == {d \in job'[w].diffs : d.model = m /\ d.field = f /\ d.source = s} IN
  IF D = {} THEN Column(prices[m][s], f) ELSE (CHOOSE d \in D : TRUE).value

\* The (source, model) pairs of the scrape that worker w starts whose prices count for key k.
Listed(w, k) ==
  IF pc[w] # "idle" THEN {}
  ELSE {p \in job'[w].listed : /\ p[2] = k[1]
                                /\ EffectiveProvider([source |-> p[1], model |-> p[2]]) = k[3]}

LogNext ==
  /\ Next
  /\ reports' = [k \in Keys |->
       IF \A w \in Workers : Listed(w, k) = {} THEN reports[k]
       ELSE LET w == CHOOSE w \in Workers : Listed(w, k) # {}
                p == CHOOSE p \in Listed(w, k) : TRUE
            IN  Append(reports[k], ReportOf(w, k[1], k[2], p[1]))]

LogSpec == LogInit /\ [][LogNext]_<<systemVars, reports>>

(* "held until 2 consecutive matching fetches confirm it": the two fetches  *)
(* that confirm a value are the last two fetches of that key.               *)
ConfirmedByConsecutiveFetches ==
  [][\A k \in Keys, v \in Values : confirms'[k][v] > confirms[k][v] =>
       LET n == Len(reports[k]) IN
       n >= 2 /\ reports[k][n] = v /\ reports[k][n - 1] = v]_vars
=============================================================================
