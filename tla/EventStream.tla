---------------------------- MODULE EventStream ----------------------------
(***************************************************************************)
(* The stream of price changes. The worker's publishEvent numbers an event *)
(* in Redis, publishes it and keeps it in a bounded replay buffer, without *)
(* a lock. StreamChanges takes a slot of the API key, replays the buffer   *)
(* from Last-Event-ID, subscribes, and then writes what arrives.           *)
(*                                                                         *)
(* One client is followed across its connections: it reconnects with the   *)
(* last id it received. Its earlier connections live on at the server      *)
(* until a write to them fails.                                            *)
(***************************************************************************)
EXTENDS Integers, Sequences, FiniteSets

CONSTANTS
  Publishers,      \* tasks of the worker inside publishEvent
  Conns,           \* stream goroutines of the API, all of one API key
  None,
  Matching,        \* the event ids that pass the client's filters
  MaxConnsPerKey,  \* sseMaxConnsPerKey
  ConnTTL,         \* sseConnTTL, in ticks
  MaxBeat,         \* ticks between two heartbeats, a blocked write included
  BufferSize,      \* redisBufferMaxSize
  ChannelSize,     \* messages the Redis client holds for a subscriber
  MaxEvents, MaxFaults   \* bounds of a behaviour

ASSUME StreamAssumption ==
  /\ None \notin Conns \cup Nat /\ Matching \subseteq Nat
  /\ {MaxConnsPerKey, ConnTTL, MaxBeat, BufferSize, ChannelSize,
      MaxEvents, MaxFaults} \subseteq Nat
  /\ MaxBeat < ConnTTL

VARIABLES
  seq,        \* Redis: price:changes:seq
  buffer,     \* Redis: the ids in price:changes:buffer
  pub,        \* per publisher: its event and what it does next with it
  published,  \* ids whose PUBLISH is over
  count, ttl, \* Redis: sse:conn:{key} and the ticks it has left, or Forever
  st, conn,   \* per stream goroutine: control point and locals
  got,        \* per stream goroutine: the ids its client received on it, in order
  cur,        \* the client's current connection, or None
  last, seen, \* the client: the last id it received (or None), and all of them
  excused,    \* history variable: ids the client had no way to receive
  lapsed,     \* history variable: the key ran out under a stream that had not just refreshed it
  faults

eventVars == <<seq, buffer, pub, published>>
slotVars == <<count, ttl, lapsed>>
clientVars == <<got, cur, last, seen>>
vars == <<eventVars, slotVars, clientVars, st, conn, excused, faults>>

-----------------------------------------------------------------------------
\* A missing key reads as 0 and, once created by INCR or DECR, has no TTL.
Forever == ConnTTL + 1

Closed == [from |-> None, counted |-> FALSE, over |-> FALSE,
           beaten |-> FALSE, age |-> 0, queue |-> <<>>]

Fault == faults < MaxFaults /\ faults' = faults + 1

Stage(c, l) == st' = [st EXCEPT ![c] = l]

\* The ids of S in ascending order.
Ascending(S) ==
  [k \in 1..Cardinality(S) |-> CHOOSE e \in S : Cardinality({f \in S : f <= e}) = k]

-----------------------------------------------------------------------------
(* publishEvent: three calls in a row, fire and forget.                    *)

\* Mutant: the event is stored first and published then.
StoreThenPublish(step) ==
  CASE step = "number" -> "store" [] step = "store" -> "publish" [] step = "publish" -> "idle"

\* The order of the calls.
CallAfter(step) ==
  CASE step = "number" -> "publish" [] step = "publish" -> "store" [] step = "store" -> "idle"

\* INCR; when it fails there is no event.
NumberEvent(p) ==
  /\ pub[p].step = "idle" /\ seq < MaxEvents
  /\ seq' = seq + 1
  /\ pub' = [pub EXCEPT ![p] = [id |-> seq + 1, step |-> CallAfter("number")]]
  /\ UNCHANGED <<buffer, published, slotVars, clientVars, st, conn, excused, faults>>

HasRoom(c) == st[c] = "live" /\ Len(conn[c].queue) < ChannelSize

\* The client's stream has read the buffer and cannot take the event any more.
Unheard == cur # None /\ st[cur] \in {"replaying", "live"} /\ ~ HasRoom(cur)

\* PUBLISH. A failing one, or a subscription that is reconnecting, loses the
\* event for the streams that are live; it is stored all the same.
PublishEvent(p) ==
  LET e == pub[p].id IN
  /\ pub[p].step = "publish"
  /\ pub' = [pub EXCEPT ![p].step = CallAfter("publish")]
  /\ published' = published \cup {e}
  /\ \/ /\ conn' = [c \in Conns |->
                     IF HasRoom(c) THEN [conn[c] EXCEPT !.queue = Append(@, e)] ELSE conn[c]]
        /\ excused' = IF Unheard THEN excused \cup {e} ELSE excused
        /\ UNCHANGED faults
     \/ /\ Fault /\ UNCHANGED conn
        /\ excused' = IF cur # None THEN excused \cup {e} ELSE excused
  /\ UNCHANGED <<seq, buffer, slotVars, clientVars, st>>

\* ZREMRANGEBYRANK 0 -(BufferSize + 1).
Newest(S) == {e \in S : Cardinality({f \in S : f > e}) < BufferSize}

\* ZADD, the trim, and the buffer's TTL.
StoreEvent(p) ==
  /\ pub[p].step = "store"
  /\ pub' = [pub EXCEPT ![p].step = CallAfter("store")]
  /\ \/ buffer' = Newest(buffer \cup {pub[p].id}) /\ UNCHANGED faults
     \/ Fault /\ UNCHANGED buffer
  /\ UNCHANGED <<seq, published, slotVars, clientVars, st, conn, excused>>

-----------------------------------------------------------------------------
(* StreamChanges.                                                          *)

\* INCR; one that fails, or whose answer is lost, lets the stream in uncounted.
Connect(c) ==
  /\ st[c] = "off" /\ cur = None
  /\ cur' = c
  /\ \/ /\ count' = count + 1
        /\ conn' = [conn EXCEPT ![c] = [Closed EXCEPT
                      !.from = last, !.counted = TRUE, !.over = count + 1 > MaxConnsPerKey]]
        /\ Stage(c, "expire") /\ UNCHANGED faults
     \/ /\ Fault /\ count' \in {count, count + 1}
        /\ conn' = [conn EXCEPT ![c] = [Closed EXCEPT !.from = last]]
        /\ Stage(c, "open")
  /\ UNCHANGED <<eventVars, ttl, lapsed, got, last, seen, excused>>

\* EXPIRE, whose failure is ignored.
Refresh ==
  \/ ttl' = ConnTTL /\ UNCHANGED faults
  \/ Fault /\ UNCHANGED ttl

\* The safety-net TTL, for a connection over the limit as well.
RefreshOnConnect(c) ==
  /\ st[c] = "expire"
  /\ Refresh
  /\ Stage(c, IF conn[c].over THEN "reject" ELSE "open")
  /\ UNCHANGED <<eventVars, count, lapsed, clientVars, conn, excused>>

Hangup(c) ==
  /\ Stage(c, "off")
  /\ conn' = [conn EXCEPT ![c] = Closed]
  /\ got' = [got EXCEPT ![c] = <<>>]
  /\ cur' = IF cur = c THEN None ELSE cur

\* 429. A failing DECR is ignored.
Reject(c) ==
  /\ st[c] = "reject"
  /\ \/ count' = count - 1 /\ UNCHANGED faults
     \/ Fault /\ UNCHANGED count
  /\ Hangup(c)
  /\ UNCHANGED <<eventVars, ttl, lapsed, last, seen, excused>>

\* Mutant: the lower bound of the replay steps over one event too many.
ReplayAfterNext(c) == {e \in buffer : e > conn[c].from + 1}

\* Only above Last-Event-ID, and only when the client sent one.
Missed(c) == {e \in buffer : e > conn[c].from}

\* What the buffer no longer holds, or does not hold yet, or counts as received.
OutOfReach(c) ==
  {e \in published \ seen : conn[c].from = None \/ e \notin buffer \/ e <= conn[c].from}

\* The first write succeeds; ZRANGE reads what is to be replayed. It may fail.
Replay(c) ==
  /\ st[c] = "open"
  /\ Stage(c, "replaying")
  /\ \/ /\ conn' = [conn EXCEPT ![c].queue =
                      IF conn[c].from = None THEN <<>> ELSE Ascending(Missed(c))]
        /\ excused' = IF cur = c THEN excused \cup OutOfReach(c) ELSE excused
        /\ UNCHANGED faults
     \/ /\ Fault /\ UNCHANGED conn
        /\ excused' = IF cur = c THEN excused \cup (published \ seen) ELSE excused
  /\ UNCHANGED <<eventVars, slotVars, clientVars>>

\* One event is written; to a client that is gone it may still seem to succeed.
Write(c) ==
  LET e == Head(conn[c].queue) IN
  /\ st[c] \in {"replaying", "live"} /\ conn[c].queue # <<>>
  /\ conn' = [conn EXCEPT ![c].queue = Tail(@)]
  /\ IF cur = c /\ e \in Matching
     THEN /\ got' = [got EXCEPT ![c] = Append(@, e)]
          /\ last' = e /\ seen' = seen \cup {e}
     ELSE UNCHANGED <<got, last, seen>>
  /\ UNCHANGED <<eventVars, slotVars, cur, st, excused, faults>>

Subscribe(c) ==
  /\ st[c] = "replaying" /\ conn[c].queue = <<>>
  /\ Stage(c, "live")
  /\ conn' = [conn EXCEPT ![c].age = 0]
  /\ UNCHANGED <<eventVars, slotVars, clientVars, excused, faults>>

\* Mutant: the heartbeat does not keep the slot.
BeatOnly(c) ==
  /\ st[c] = "live"
  /\ conn' = [conn EXCEPT ![c].age = 0, ![c].beaten = TRUE]
  /\ UNCHANGED <<eventVars, slotVars, clientVars, st, excused, faults>>

\* A heartbeat goes out and keeps the slot's key alive.
Heartbeat(c) ==
  /\ st[c] = "live"
  /\ IF conn[c].counted THEN Refresh ELSE UNCHANGED <<ttl, faults>>
  /\ conn' = [conn EXCEPT ![c].age = 0, ![c].beaten = (faults' = faults)]
  /\ UNCHANGED <<eventVars, count, lapsed, clientVars, st, excused>>

\* A write to a client that is gone fails: the deferred calls run. DECR may fail.
WriteFails(c) ==
  /\ st[c] \in {"open", "replaying", "live"} /\ cur # c
  /\ \/ count' = (IF conn[c].counted THEN count - 1 ELSE count) /\ UNCHANGED faults
     \/ conn[c].counted /\ Fault /\ UNCHANGED count
  /\ Hangup(c)
  /\ UNCHANGED <<eventVars, ttl, lapsed, last, seen, excused>>

-----------------------------------------------------------------------------
\* The client goes away, and reconnects when it likes.
Disconnect ==
  /\ cur # None /\ st[cur] \in {"open", "replaying", "live"}
  /\ cur' = None
  /\ UNCHANGED <<eventVars, slotVars, got, last, seen, st, conn, excused, faults>>

\* The API restarts: no deferred call runs.
Crash ==
  /\ Fault
  /\ \E c \in Conns : st[c] # "off"
  /\ st' = [c \in Conns |-> "off"] /\ conn' = [c \in Conns |-> Closed]
  /\ got' = [c \in Conns |-> <<>>] /\ cur' = None
  /\ UNCHANGED <<eventVars, slotVars, last, seen, excused>>

Holding == {c \in Conns : st[c] # "off" /\ conn[c].counted}

\* Time passes; a stream in its loop is never without a heartbeat for long.
Tick ==
  /\ \A c \in Conns : st[c] = "live" => conn[c].age < MaxBeat
  /\ conn' = [c \in Conns |-> IF st[c] = "live" THEN [conn[c] EXCEPT !.age = @ + 1] ELSE conn[c]]
  /\ ttl' = IF ttl = Forever THEN Forever ELSE IF ttl = 1 THEN Forever ELSE ttl - 1
  /\ count' = IF ttl = 1 THEN 0 ELSE count
  /\ lapsed' = (lapsed \/ (ttl = 1 /\ \E c \in Holding : ~ conn[c].beaten))
  /\ UNCHANGED <<eventVars, clientVars, st, excused, faults>>

Init ==
  /\ seq = 0 /\ buffer = {} /\ published = {}
  /\ pub = [p \in Publishers |-> [id |-> 0, step |-> "idle"]]
  /\ count = 0 /\ ttl = Forever
  /\ st = [c \in Conns |-> "off"] /\ conn = [c \in Conns |-> Closed]
  /\ got = [c \in Conns |-> <<>>]
  /\ cur = None /\ last = None /\ seen = {}
  /\ excused = {} /\ lapsed = FALSE /\ faults = 0

StreamStep(c) ==
  \/ Connect(c) \/ RefreshOnConnect(c) \/ Reject(c) \/ Replay(c) \/ Write(c)
  \/ Subscribe(c) \/ Heartbeat(c) \/ WriteFails(c)

Next ==
  \/ \E p \in Publishers : NumberEvent(p) \/ PublishEvent(p) \/ StoreEvent(p)
  \/ \E c \in Conns : StreamStep(c)
  \/ Disconnect \/ Crash \/ Tick

Spec == Init /\ [][Next]_vars

(* Handlers run to their end, time passes, a client that has no connection *)
(* tries again, and TCP gives up on a peer that does not answer.           *)
Fairness ==
  /\ WF_vars(Tick)
  /\ \A c \in Conns :
       /\ WF_vars(Connect(c)) /\ WF_vars(RefreshOnConnect(c)) /\ WF_vars(Reject(c))
       /\ WF_vars(Replay(c)) /\ WF_vars(Write(c)) /\ WF_vars(Subscribe(c))
       /\ WF_vars(Heartbeat(c)) /\ SF_vars(WriteFails(c))

FairSpec == Spec /\ Fairness

-----------------------------------------------------------------------------
(* Properties.                                                             *)

(* One connection never delivers an event twice: what Replay reads was     *)
(* published before it was stored, hence before the stream subscribed.     *)
OncePerConnection ==
  \A c \in Conns : \A i, j \in DOMAIN got[c] : i # j => got[c][i] # got[c][j]

(* What Last-Event-ID reconnection amounts to. A client that is live and   *)
(* has read its queue lacks only events that are still being published,    *)
(* that its filters drop, or that it had no way to receive: their PUBLISH  *)
(* fell between its replay and its subscription, into a full channel or    *)
(* was lost, or at the replay they were out of the buffer or numbered      *)
(* below the id it came with.                                              *)
OnlyExcusedMissed ==
  cur # None /\ st[cur] = "live" /\ conn[cur].queue = <<>> =>
    (published \cap Matching) \ seen \subseteq excused

(* No more than MaxConnsPerKey streams of a key hold a slot, whatever      *)
(* fails, unless the key runs out before a stream's first heartbeat or     *)
(* after one whose EXPIRE failed.                                          *)
CapHolds == ~ lapsed => Cardinality({c \in Holding : ~ conn[c].over}) <= MaxConnsPerKey

(* sse.go: the TTL "prevents count leaks if a server crash prevents the    *)
(* defer from running": a slot that no stream holds is returned some time. *)
LeakIsTemporary == (count > Cardinality(Holding)) ~> (count <= Cardinality(Holding))
=============================================================================
