------------------------------ MODULE Serving ------------------------------
(***************************************************************************)
(* Reading prices: the worker commits snapshots and verification stamps,   *)
(* and clients read them through RequestTimeout, the response cache and a  *)
(* handler of one query (GET /v1/changes), or of several that no           *)
(* transaction holds together (GET /v1/models, /v1/models/:id and          *)
(* /v1/compare).                                                           *)
(* One client walks a paged list from its first page to its last; the      *)
(* others ask for whatever they like and so fill the cache.                *)
(***************************************************************************)
EXTENDS PriceViews

CONSTANTS
  Writers,      \* scrape tasks and approvals that publish concurrently
  Walker,       \* the client that pages
  Others,       \* the other clients
  Rank,         \* models.id, the last sort key, in order from 1
  TTL,          \* cache lifetime of the routes
  Timeout,      \* RequestTimeout
  PageSize,
  MaxRequests,  \* bound: requests of the clients that do not walk, per endpoint
  MaxClock,     \* bound, per endpoint
  MaxRows,      \* bound: snapshots, per endpoint
  MaxScrapes    \* bound

Endpoints == {"model", "compare", "changes", "models"}

\* The endpoints that answer with prices, and those that a client pages through.
Priced == {"model", "compare"}

Clients == {Walker} \cup Others

ASSUME ServingAssumption ==
  /\ Walker \notin Others /\ Models # {} /\ IsFiniteSet(Models)
  /\ Rank \in [Models -> 1..Cardinality(Models)]
  /\ \A m, n \in Models : m # n => Rank[m] # Rank[n]
  /\ TTL \in Nat /\ Timeout \in Nat /\ StaleAfter \in Nat /\ PageSize \in Nat \ {0}
  /\ MaxRequests \in [Endpoints -> Nat] /\ MaxClock \in [Endpoints -> Nat]
  /\ MaxRows \in [Endpoints -> Nat] /\ MaxScrapes \in Nat

VARIABLES
  clock,
  history,    \* price_history, in commit order
  writing,    \* [Writers -> the stamped row of an open transaction, or NoWrite]
  verified,   \* [Models -> [Sources -> prices.last_verified_at]]
  seenAt,     \* history variable: when a source last listed a model
  cache,      \* [Queries -> Entry]
  req,        \* [Clients -> the request in flight]
  asked,      \* the endpoint this behaviour is about, see Init
  issued,     \* requests of the other clients so far
  scrapes,    \* verifying scrapes so far
  walk        \* the walker's progress

vars == <<clock, history, writing, verified, seenAt, cache, req, asked, issued, scrapes, walk>>

NoWrite == [open |-> FALSE]

\* The cache key: path and query string. The feed is asked for from time 0 on.
Queries == [path : {"model"}, arg : {{m} : m \in Models}]
             \cup [path : {"compare"}, arg : {S \in SUBSET Models : Cardinality(S) > 1}]
             \cup [path : {"changes"}, arg : 0..MaxClock["changes"]]
             \cup [path : {"models"}, arg : 1..(Cardinality(Models) + 1)]

Since == 0

\* Bodies carry a history variable: when the price was read, or the length of the log that a
\* page was read from.
NoEntry == [filled |-> FALSE]

Idle == [pc |-> "idle"]

NotWalking == [path |-> "none"]

-----------------------------------------------------------------------------
(* The worker *)

\* PublishPrice, of a pair that differs from the stored one (diff.Diff): the stamp is taken
\* first, the transaction commits later.
StampPrice(w, m, s, p) ==
  /\ ~writing[w].open
  /\ \A i \in PriceRows(history, m) : history[i].source = s => history[i].pair # p
  /\ Len(history) + Cardinality({v \in Writers : writing[v].open}) < MaxRows[asked]
  /\ writing' = [writing EXCEPT ![w] =
                   [open |-> TRUE, model |-> m, source |-> s, pair |-> p, at |-> clock]]
  /\ UNCHANGED <<clock, history, verified, seenAt, cache, req, issued, walk, asked, scrapes>>

\* A publish is also a verification of the row. Approve leaves last_verified_at alone, which
\* no reader can tell: the freshness anchor is never earlier than the row's confirmed_at.
CommitPrice(w) ==
  /\ writing[w].open
  /\ LET row == [model |-> writing[w].model, source |-> writing[w].source,
                 pair |-> writing[w].pair, at |-> writing[w].at]
     IN /\ history' = Append(history, row)
        /\ verified' = [verified EXCEPT ![row.model][row.source] = row.at]
        /\ seenAt' = [seenAt EXCEPT ![row.model][row.source] = IF @ > row.at THEN @ ELSE row.at]
  /\ writing' = [writing EXCEPT ![w] = NoWrite]
  /\ UNCHANGED <<clock, cache, req, issued, walk, asked, scrapes>>

\* Mutant: every row of the source is stamped, listed or not.
StampedWithoutSlugs(s, listed) ==
  {m \in Models : \E i \in RowsOf(history, m) : history[i].source = s}

\* ... WHERE s.name = $1 AND m.slug = ANY($2)
StampedRows(s, listed) ==
  {m \in listed : \E i \in RowsOf(history, m) : history[i].source = s}

\* The end of a scrape of source s that listed these models. No new stamp where the update
\* fails, which is only logged: the stamps stay as they are and the models were listed.
MarkVerified(s, listed) ==
  /\ asked \in Priced /\ scrapes < MaxScrapes
  /\ scrapes' = scrapes + 1
  /\ \A m \in listed : \E i \in RowsOf(history, m) : history[i].source = s
  /\ verified' = [m \in Models |->
                    IF m \in StampedRows(s, listed) THEN [verified[m] EXCEPT ![s] = clock]
                                                    ELSE verified[m]]
  /\ seenAt' = [m \in Models |-> IF m \in listed THEN [seenAt[m] EXCEPT ![s] = clock]
                                                 ELSE seenAt[m]]
  /\ verified' # verified
  /\ UNCHANGED <<clock, history, writing, cache, req, issued, walk, asked>>

-----------------------------------------------------------------------------
(* A request begins with the lookup of its cache key. It goes on to its     *)
(* handler when the key is absent, expired or of an old format, or when     *)
(* Redis fails (fail open), which can happen at any time; as nothing else   *)
(* depends on the lookup, a miss and the first query are one step.          *)

\* The walker pages; where there is nothing to page through, all clients just ask.
Asking == IF asked \in Priced THEN Clients ELSE Others

Wants(c, q) ==
  /\ req[c] = Idle /\ q.path = asked
  /\ IF c \in Asking THEN issued < MaxRequests[asked] /\ issued' = issued + 1
                     ELSE walk.path = asked /\ ~walk.over /\ q.arg = walk.next /\ issued' = issued

\* GetModel, GetModelBySlug, CompareModels and CompareModelsBySlugs, first query: the price
\* row of each model with its verification stamp.
ReadPriceRows(c, q) ==
  /\ q.path \in Priced
  /\ Wants(c, q)
  /\ \E rows \in [q.arg -> DOMAIN history] :
       /\ \A m \in q.arg : rows[m] \in Displayed(history, m)
       /\ req' = [req EXCEPT ![c] =
                    [pc |-> "meta", query |-> q, start |-> clock, rows |-> rows,
                     stamps |-> [m \in q.arg |-> verified[m][history[rows[m]].source]],
                     base |-> Len(history)]]
  /\ UNCHANGED <<clock, history, writing, verified, seenAt, cache, walk, asked, scrapes>>

\* Mutant: the history is read first, the price rows second.
HistoryThenRows(c) ==
  [rows |-> [m \in req[c].query.arg |-> CHOOSE i \in Displayed(history, m) : TRUE],
   log |-> SubSeq(history, 1, req[c].base)]

\* What the two queries found: GetPriceHistory, or the batch, is the second.
RowsThenHistory(c) == [rows |-> req[c].rows, log |-> history]

\* "Aggregate meta: use the most recently confirmed model's meta."
Foremost(metas) ==
  CHOOSE m \in DOMAIN metas : \A n \in DOMAIN metas : metas[n].confirmed <= metas[m].confirmed

ReadHistory(c) ==
  /\ req[c].pc = "meta"
  /\ LET found == RowsThenHistory(c)
         metas == [m \in req[c].query.arg |->
                     ComputeTrustMeta(found.log, m, req[c].stamps[m], clock)]
     IN req' = [req EXCEPT ![c] =
                  [pc |-> "store", query |-> @.query, start |-> @.start,
                   body |-> [rows |-> found.rows, of |-> Foremost(metas),
                             meta |-> metas[Foremost(metas)], read |-> @.start]]]
  /\ UNCHANGED <<clock, history, writing, verified, seenAt, cache, issued, walk, asked, scrapes>>

\* What the one query of a list endpoint may answer. /v1/models reads the metadata of the
\* rows in a query of its own, which paging does not look at.
Pages(q) ==
  IF q.path = "changes"
    THEN ChangePages(history, Since, q.arg, PageSize)
    ELSE {[rows |-> ModelPage(history, q.arg, PageSize, Rank),
           more |-> q.arg * PageSize < Cardinality(Models), cursor |-> q.arg + 1]}

ReadList(c, q) ==
  /\ q.path \notin Priced
  /\ Wants(c, q)
  /\ \E page \in Pages(q) :
       req' = [req EXCEPT ![c] = [pc |-> "store", query |-> q, start |-> clock,
                                  body |-> [page |-> page, base |-> Len(history)]]]
  /\ UNCHANGED <<clock, history, writing, verified, seenAt, cache, walk, asked, scrapes>>

\* The deadline set by RequestTimeout, which every store and cache call inherits: no request
\* runs past it.
Deadline(c) == req[c] # Idle /\ clock - req[c].start >= Timeout

\* At the deadline the handler's query fails and it answers 500, which is not cached.
HandlerFails(c) ==
  /\ Deadline(c) /\ req[c].pc = "meta"
  /\ req' = [req EXCEPT ![c] = Idle]
  /\ UNCHANGED <<clock, history, writing, verified, seenAt, cache, issued, walk, asked, scrapes>>

\* The walker takes a page, from its handler or from the cache.
Taken(body, cached) ==
  [walk EXCEPT !.rows = @ \cup body.page.rows,
               !.again = @ \/ walk.rows \cap body.page.rows # {},
               !.cached = @ \/ cached,
               !.over = ~body.page.more, !.next = body.page.cursor,
               !.base = IF body.base < @ THEN body.base ELSE @]

\* Mutant: SET without an expiry.
Forever == MaxClock[asked] + 1

Expiry == clock + TTL

\* The 200 answer is stored under its key and returned; when the SET fails, only returned.
StoreAndAnswer(c) ==
  /\ req[c].pc = "store"
  /\ cache' \in {cache, [cache EXCEPT ![req[c].query] =
                           [filled |-> TRUE, body |-> req[c].body, expires |-> Expiry]]}
  /\ walk' = IF c \in Asking THEN walk ELSE Taken(req[c].body, FALSE)
  /\ req' = [req EXCEPT ![c] = Idle]
  /\ UNCHANGED <<clock, history, writing, verified, seenAt, issued, asked, scrapes>>

\* A hit is answered from the entry, whose lifetime it leaves alone. Only the walker's matter:
\* to the others it changes nothing.
CacheHit(c, q) ==
  /\ c \notin Asking
  /\ Wants(c, q)
  /\ cache[q].filled
  /\ walk' = Taken(cache[q].body, TRUE)
  /\ UNCHANGED <<clock, history, writing, verified, seenAt, cache, req, asked, scrapes>>

BeginWalk ==
  /\ asked \notin Priced /\ walk = NotWalking
  /\ walk' = [path |-> asked, rows |-> {}, again |-> FALSE, over |-> FALSE, cached |-> FALSE,
              base |-> Len(history), next |-> IF asked = "changes" THEN NoCursor ELSE 1]
  /\ UNCHANGED <<clock, history, writing, verified, seenAt, cache, req, issued, asked, scrapes>>

-----------------------------------------------------------------------------
\* Redis drops an entry when its lifetime is over.
Tick ==
  /\ clock < MaxClock[asked]
  /\ \A c \in Clients : ~Deadline(c)
  /\ clock' = clock + 1
  /\ cache' = [q \in Queries |-> IF cache[q].filled /\ cache[q].expires <= clock'
                                    THEN NoEntry ELSE cache[q]]
  /\ UNCHANGED <<history, writing, verified, seenAt, req, issued, walk, asked, scrapes>>

\* One source has published every model once, or, where no list is asked for, the first
\* model only. Answers of one endpoint have no effect on those of another, whose cache keys
\* are its own, so that every behaviour asks for one; and as paging does not look at the
\* verification stamps, only the behaviours that ask for prices set them.
Init ==
  /\ clock = 1
  /\ asked \in Endpoints
  /\ \E s \in Sources, p \in Pairs :
       /\ history = [i \in 1..(IF asked = "model" THEN 1 ELSE Cardinality(Models)) |->
                       [model |-> CHOOSE m \in Models : Rank[m] = i, source |-> s, pair |-> p,
                        at |-> 1]]
       /\ verified = [m \in Models |-> [t \in Sources |->
                        IF RowsOf(history, m) # {} /\ t = s THEN 1 ELSE 0]]
       /\ seenAt = verified
  /\ writing = [w \in Writers |-> NoWrite]
  /\ cache = [q \in Queries |-> NoEntry]
  /\ req = [c \in Clients |-> Idle]
  /\ issued = 0
  /\ scrapes = 0
  /\ walk = NotWalking

Next ==
  \/ \E w \in Writers, m \in Models, s \in Sources, p \in Pairs : StampPrice(w, m, s, p)
  \/ \E w \in Writers : CommitPrice(w)
  \/ \E s \in Sources, listed \in SUBSET Models : MarkVerified(s, listed)
  \/ \E c \in Clients, q \in Queries : ReadPriceRows(c, q) \/ ReadList(c, q) \/ CacheHit(c, q)
  \/ \E c \in Clients : ReadHistory(c) \/ HandlerFails(c) \/ StoreAndAnswer(c)
  \/ BeginWalk
  \/ Tick

Spec == Init /\ [][Next]_vars

-----------------------------------------------------------------------------
(* Properties *)

\* The bodies a client asking for prices can be given now.
Answers == {req[c].body : c \in {d \in Clients : req[d].pc = "store" /\ asked \in Priced}}
             \cup {cache[q].body : q \in {k \in Queries : k.path \in Priced /\ cache[k].filled}}

\* StalenessBounded: however a price update races with a request that read the old row and
\* stores it afterwards, and whoever is answered from the cache later, the prices in an answer
\* of GET /v1/models/:id or /v1/compare were the current ones at most a cache lifetime and a request timeout
\* before the answer is given (Cache, RequestTimeout).
StalenessBounded == \A body \in Answers : clock - body.read <= TTL + Timeout

\* MetaNotOlderThanPrice: GetModel and CompareModels read the price rows and the history in two
\* queries that no transaction holds together. Because the rows come first and every row of
\* prices is committed with its snapshot, the confirmation time an answer reports is never
\* older than that of any price it carries.
MetaNotOlderThanPrice ==
  \A body \in Answers : \A m \in DOMAIN body.rows : history[body.rows[m]].at <= body.meta.confirmed

\* MediumIsFresh: an answer marked "medium" carries a price, the one its metadata is taken
\* from, that was confirmed, or whose model was listed by the row's source, no longer ago
\* than the 24 hours of the rule plus what the cache and the request may add
\* (ComputeTrustMeta, MarkVerified, Cache).
MediumIsFresh ==
  \A body \in Answers :
    LET row == history[body.rows[body.of]]
    IN body.meta.confidence = "medium" =>
         \/ clock - body.meta.confirmed <= StaleAfter + TTL + Timeout
         \/ clock - seenAt[row.model][row.source] <= StaleAfter + TTL + Timeout

WalkOver(path) == walk.path = path /\ walk.over

\* What the table listed when it held its first n rows.
ListedAt(n) == ListedChanges(SubSeq(history, 1, n), Since)

\* The changes that some state, and that every state, of the table has listed since the oldest
\* of the walk's pages was read.
RecentChanges == {i \in DOMAIN history : \E n \in walk.base..Len(history) : i \in ListedAt(n)}

StableChanges == {i \in DOMAIN history : \A n \in walk.base..Len(history) : i \in ListedAt(n)}

\* CursorWalkComplete: a client that follows X-Next-Cursor until X-Has-More is false gets no
\* change twice, and misses none that has been listed since the oldest of its pages was read,
\* although rows are committed during the walk, some with a stamp in the part it
\* has behind it, and pages come from the cache. (A change that shares its confirmed_at with
\* another one may fall between two pages, as the cursor is strict, and that also when a later
\* commit has delisted the other one in the meantime.)
CursorWalkComplete ==
  WalkOver("changes") =>
    /\ ~walk.again
    /\ \A i \in StableChanges :
         (\A j \in RecentChanges \ {i} : history[j].at # history[i].at) => i \in walk.rows

\* No publish of the walk replaced a row of prices by one stamped earlier, which PublishPrice
\* and Approve can do to each other: the stamp is older than the transaction.
StampsForward ==
  \A i \in DOMAIN history : i > walk.base =>
    \A j \in 1..(i - 1) : history[j].model = history[i].model => history[j].at <= history[i].at

\* OffsetWalkComplete: a client that reads /v1/models page by page, each from the database,
\* misses no model whose price was not published again during the walk: a publish moves its
\* model forward in the list and shifts others only towards the pages still to be read.
OffsetWalkComplete ==
  WalkOver("models") /\ ~walk.cached /\ StampsForward =>
    \A m \in Models \ walk.rows : \E i \in RowsOf(history, m) : i > walk.base

\* EveryChangeListed: "Since restricts results to changes confirmed after this time": a
\* snapshot confirmed after it whose price pair differs from the model's snapshot before it
\* is listed.
EveryChangeListed ==
  \A since \in 0..clock :
    \A i \in ChangesAmong(history, DOMAIN history) :
      history[i].at > since => i \in ListedChanges(history, since)
=============================================================================
