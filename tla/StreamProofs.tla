---------------------------- MODULE StreamProofs ----------------------------
(***************************************************************************)
(* The stream of price changes for any number of publishers, connections   *)
(* and events: no connection delivers an event twice, a client lacks only  *)
(* what it had no way to receive, and the slots of a key are not oversold. *)
(***************************************************************************)
EXTENDS EventStream, FiniteSetTheorems, TLAPS

-----------------------------------------------------------------------------
(* Ascending lists a finite set, each member once.                         *)

RankIn(S, e) == Cardinality({f \in S : f <= e})

\* The rank counts the members of S up to e, so that it grows with e and is onto.
LEMMA Ranks ==
  ASSUME NEW S \in SUBSET Nat, IsFiniteSet(S)
  PROVE  /\ \A e \in S : RankIn(S, e) \in 1..Cardinality(S)
         /\ \A d, e \in S : d # e => RankIn(S, d) # RankIn(S, e)
         /\ \A k \in 1..Cardinality(S) : \E e \in S : RankIn(S, e) = k
  <1> DEFINE n == Cardinality(S)
             UpTo(e) == {f \in S : f <= e}
             r == [e \in S |-> RankIn(S, e)]
  <1>0. n \in Nat
    BY FS_CardinalityType
  <1>1. ASSUME NEW e \in S
        PROVE  IsFiniteSet(UpTo(e)) /\ RankIn(S, e) \in 1..n
    <2>1. UpTo(e) \in SUBSET S
      OBVIOUS
    <2>2. IsFiniteSet(UpTo(e)) /\ Cardinality(UpTo(e)) <= n
      BY <2>1, FS_Subset
    <2>3. e \in UpTo(e)
      OBVIOUS
    <2>4. Cardinality(UpTo(e)) \in Nat /\ Cardinality(UpTo(e)) # 0
      BY <2>2, <2>3, FS_CardinalityType, FS_EmptySet
    <2> QED
      BY <1>0, <2>2, <2>4 DEF RankIn
  <1>2. ASSUME NEW d \in S, NEW e \in S, d < e PROVE RankIn(S, d) < RankIn(S, e)
    <2>0. e <= e /\ ~(e <= d) /\ \A f \in S : f <= d => f <= e
      <3>1. d \in Nat /\ e \in Nat /\ \A f \in S : f \in Nat
        OBVIOUS
      <3> QED
        BY <1>2, <3>1
    <2>1. UpTo(d) \in SUBSET UpTo(e) /\ e \in UpTo(e) /\ e \notin UpTo(d)
      BY <2>0
    <2>2. /\ Cardinality(UpTo(d)) <= Cardinality(UpTo(e))
          /\ Cardinality(UpTo(d)) # Cardinality(UpTo(e))
      BY <1>1, <2>1, FS_Subset
    <2>3. Cardinality(UpTo(d)) \in Nat /\ Cardinality(UpTo(e)) \in Nat
      BY <1>1, FS_CardinalityType
    <2> QED
      BY <2>2, <2>3 DEF RankIn
  <1>3. ASSUME NEW d \in S, NEW e \in S, d # e PROVE RankIn(S, d) # RankIn(S, e)
    <2>1. d < e \/ e < d
      BY <1>3
    <2>2. RankIn(S, d) \in Nat /\ RankIn(S, e) \in Nat
      <3>1. RankIn(S, d) \in 1..n /\ RankIn(S, e) \in 1..n
        BY <1>1
      <3> QED
        BY <3>1
    <2> QED
      BY <1>2, <2>1, <2>2
  <1>4. r \in Injection(S, 1..n)
    BY <1>1, <1>3 DEF Injection, IsInjective
  <1>5. IsFiniteSet(1..n) /\ Cardinality(1..n) = n
    BY <1>0, FS_Interval
  <1>6. r \in Surjection(S, 1..n)
    BY <1>4, <1>5, FS_Injection
  <1>7. \A k \in 1..n : \E e \in S : RankIn(S, e) = k
    BY <1>6 DEF Surjection
  <1> QED
    BY <1>1, <1>3, <1>7

\* Ascending is a sequence of the members of S, without repetition and complete.
LEMMA AscendingLists ==
  ASSUME NEW S \in SUBSET Nat, IsFiniteSet(S)
  PROVE  /\ Ascending(S) \in Seq(Nat) /\ DOMAIN Ascending(S) = 1..Len(Ascending(S))
         /\ \A k \in DOMAIN Ascending(S) : Ascending(S)[k] \in S
         /\ \A i, j \in DOMAIN Ascending(S) : i # j => Ascending(S)[i] # Ascending(S)[j]
         /\ \A e \in S : \E k \in DOMAIN Ascending(S) : Ascending(S)[k] = e
  <1> DEFINE n == Cardinality(S)
             a == Ascending(S)
  <1>0. n \in Nat
    BY FS_CardinalityType
  <1>1. ASSUME NEW k \in 1..n PROVE a[k] \in S /\ RankIn(S, a[k]) = k
    <2>1. \E e \in S : RankIn(S, e) = k
      BY Ranks
    <2>2. a[k] = CHOOSE e \in S : RankIn(S, e) = k
      BY DEF Ascending, RankIn
    <2> QED
      BY <2>1, <2>2
  <1>2. DOMAIN a = 1..n
    BY DEF Ascending
  <1>3. a \in Seq(Nat) /\ Len(a) = n
    <2>1. a = [k \in 1..n |-> a[k]]
      BY DEF Ascending
    <2>2. \A k \in 1..n : a[k] \in Nat
      BY <1>1
    <2> HIDE DEF a
    <2> QED
      BY <1>0, <2>1, <2>2
  <1>4. ASSUME NEW e \in S PROVE \E k \in 1..n : a[k] = e
    <2>1. RankIn(S, e) \in 1..n
      BY Ranks
    <2>2. a[RankIn(S, e)] \in S /\ RankIn(S, a[RankIn(S, e)]) = RankIn(S, e)
      BY <1>1, <2>1
    <2>3. a[RankIn(S, e)] = e
      BY <2>2, Ranks
    <2> QED
      BY <2>1, <2>3
  <1> QED
    BY <1>1, <1>2, <1>3, <1>4

-----------------------------------------------------------------------------
(* The inductive invariants.                                               *)

Stages == {"off", "expire", "open", "reject", "replaying", "live"}

Conn == [from : Nat \cup {None}, counted : BOOLEAN, over : BOOLEAN, beaten : BOOLEAN,
         age : Nat, queue : Seq(Nat)]

Publication == [id : Nat, step : {"idle", "publish", "store"}]

EventTypeOK ==
  /\ seq \in Nat /\ published \in SUBSET Nat
  /\ buffer \in SUBSET Nat /\ IsFiniteSet(buffer)
  /\ pub \in [Publishers -> Publication]

ConnTypeOK ==
  /\ st \in [Conns -> Stages] /\ conn \in [Conns -> Conn] /\ got \in [Conns -> Seq(Nat)]
  /\ cur \in Conns \cup {None} /\ last \in Nat \cup {None}

SlotTypeOK == count \in Int /\ ttl \in 1..Forever /\ lapsed \in BOOLEAN /\ faults \in Nat

StreamTypeOK == EventTypeOK /\ ConnTypeOK /\ SlotTypeOK

\* An id is handed out once, published once, and stored only after that.
IdsInv ==
  /\ \A e \in published : e <= seq
  /\ buffer \subseteq published
  /\ \A p \in Publishers :
       /\ pub[p].step # "idle" => pub[p].id <= seq
       /\ pub[p].step = "publish" => pub[p].id \notin published
       /\ pub[p].step = "store" => pub[p].id \in published
  /\ \A p, q \in Publishers :
       p # q /\ pub[p].step # "idle" /\ pub[q].step # "idle" => pub[p].id # pub[q].id

Members(s) == {s[i] : i \in DOMAIN s}

Distinct(s) == \A i, j \in DOMAIN s : i # j => s[i] # s[j]

\* What a connection has delivered and what it is about to deliver: published events,
\* none of them twice.
DeliveryInv(c) ==
  /\ st[c] \notin {"replaying", "live"} => conn[c].queue = <<>> /\ got[c] = <<>>
  /\ Distinct(conn[c].queue) /\ Distinct(got[c])
  /\ Members(conn[c].queue) \cap Members(got[c]) = {}
  /\ Members(conn[c].queue) \subseteq published /\ Members(got[c]) \subseteq published

\* From its replay on, the client lacks only what waits for it and what is excused.
MissedInv ==
  cur # None /\ st[cur] \in {"replaying", "live"} =>
    (published \cap Matching) \ seen \subseteq excused \cup Members(conn[cur].queue)

\* The key outlives the next heartbeat of a stream whose last one refreshed it.
BeatInv ==
  \A c \in Conns :
    /\ st[c] # "live" => ~conn[c].beaten
    /\ st[c] = "live" /\ conn[c].counted /\ conn[c].beaten => ttl + conn[c].age >= ConnTTL

\* Only a counted connection is refused.
CountedInv == \A c \in Conns : st[c] \in {"expire", "reject"} => conn[c].counted

\* The streams that hold a slot are counted.
SlotInv == ~lapsed => IsFiniteSet(Holding) /\ count >= Cardinality(Holding) /\ CapHolds

-----------------------------------------------------------------------------
(* Type correctness.                                                       *)

\* The initial locals of a stream.
LEMMA ClosedType == Closed \in Conn /\ Closed.queue = <<>> /\ ~Closed.beaten /\ ~Closed.counted
  BY DEF Closed, Conn

\* The bounds are natural numbers and a heartbeat comes before the key runs out.
LEMMA Bounds ==
  /\ MaxConnsPerKey \in Nat /\ ConnTTL \in Nat /\ MaxBeat \in Nat /\ BufferSize \in Nat
  /\ MaxFaults \in Nat /\ MaxBeat < ConnTTL /\ Forever = ConnTTL + 1
  /\ None \notin Conns /\ None \notin Nat
  BY StreamAssumption DEF Forever

\* Changing one local of a stream keeps its record well typed and the other locals as they are.
LEMMA ConnField ==
  ASSUME NEW r \in Conn
  PROVE  /\ \A q \in Seq(Nat) : /\ [r EXCEPT !.queue = q] \in Conn
                                /\ [r EXCEPT !.queue = q] = [from |-> r.from, counted |-> r.counted,
                                     over |-> r.over, beaten |-> r.beaten, age |-> r.age, queue |-> q]
         /\ \A a \in Nat : /\ [r EXCEPT !.age = a] \in Conn
                           /\ [r EXCEPT !.age = a] = [from |-> r.from, counted |-> r.counted,
                                over |-> r.over, beaten |-> r.beaten, age |-> a, queue |-> r.queue]
  BY DEF Conn

\* A stream that begins, counted or not.
LEMMA OpenedType ==
  ASSUME NEW r \in Conn, NEW f \in Nat \cup {None}, NEW b \in BOOLEAN, NEW a \in BOOLEAN
  PROVE  /\ [r EXCEPT !.from = f, !.counted = b, !.over = a] \in Conn
         /\ [r EXCEPT !.from = f] \in Conn
  BY DEF Conn

\* The trim of the buffer only drops ids.
LEMMA BufferTrim ==
  ASSUME EventTypeOK, NEW e \in Nat
  PROVE  /\ Newest(buffer \cup {e}) \subseteq buffer \cup {e}
         /\ IsFiniteSet(Newest(buffer \cup {e}))
  <1>1. IsFiniteSet(buffer \cup {e})
    BY FS_AddElement DEF EventTypeOK
  <1>2. Newest(buffer \cup {e}) \in SUBSET (buffer \cup {e})
    BY DEF Newest
  <1> QED
    BY <1>1, <1>2, FS_Subset

\* What the client missed is a finite set of ids.
LEMMA MissedType ==
  ASSUME EventTypeOK, NEW c \in Conns
  PROVE  /\ Missed(c) \in SUBSET Nat /\ IsFiniteSet(Missed(c)) /\ Missed(c) \subseteq buffer
         /\ Ascending(Missed(c)) \in Seq(Nat)
  <1>1. Missed(c) \in SUBSET buffer
    BY DEF Missed
  <1>2. Missed(c) \in SUBSET Nat /\ IsFiniteSet(Missed(c))
    BY <1>1, FS_Subset DEF EventTypeOK
  <1> QED
    BY <1>1, <1>2, AscendingLists

\* The publishers' state stays well typed.
LEMMA EventTypeStep ==
  ASSUME StreamTypeOK, [Next]_vars
  PROVE  EventTypeOK'
  <1>1. ASSUME NEW p \in Publishers, NumberEvent(p) PROVE EventTypeOK'
    <2>1. [id |-> seq + 1, step |-> CallAfter("number")] \in Publication
      BY DEF StreamTypeOK, EventTypeOK, Publication, CallAfter
    <2> QED
      BY <1>1, <2>1 DEF NumberEvent, StreamTypeOK, EventTypeOK
  <1>2. ASSUME NEW p \in Publishers, PublishEvent(p) PROVE EventTypeOK'
    <2>1. pub[p] \in Publication /\ pub[p].id \in Nat
      BY DEF StreamTypeOK, EventTypeOK, Publication
    <2>2. [pub[p] EXCEPT !.step = CallAfter("publish")] \in Publication
      BY <2>1 DEF Publication, CallAfter
    <2>3. pub' = [pub EXCEPT ![p] = [pub[p] EXCEPT !.step = CallAfter("publish")]]
      BY <1>2 DEF PublishEvent, StreamTypeOK, EventTypeOK
    <2> QED
      BY <1>2, <2>1, <2>2, <2>3 DEF PublishEvent, StreamTypeOK, EventTypeOK
  <1>3. ASSUME NEW p \in Publishers, StoreEvent(p) PROVE EventTypeOK'
    <2>1. pub[p] \in Publication /\ pub[p].id \in Nat
      BY DEF StreamTypeOK, EventTypeOK, Publication
    <2>2. [pub[p] EXCEPT !.step = CallAfter("store")] \in Publication
      BY <2>1 DEF Publication, CallAfter
    <2>3. pub' = [pub EXCEPT ![p] = [pub[p] EXCEPT !.step = CallAfter("store")]]
      BY <1>3 DEF StoreEvent, StreamTypeOK, EventTypeOK
    <2>4. buffer' = buffer \/ buffer' = Newest(buffer \cup {pub[p].id})
      BY <1>3 DEF StoreEvent
    <2>5. buffer' \in SUBSET Nat /\ IsFiniteSet(buffer')
      BY <2>1, <2>4, BufferTrim DEF StreamTypeOK, EventTypeOK
    <2> QED
      BY <1>3, <2>2, <2>3, <2>5 DEF StoreEvent, StreamTypeOK, EventTypeOK
  <1>4. ASSUME UNCHANGED eventVars PROVE EventTypeOK'
    BY <1>4 DEF eventVars, StreamTypeOK, EventTypeOK
  <1>5. ASSUME NEW c \in Conns, StreamStep(c) PROVE UNCHANGED eventVars
    BY <1>5 DEF StreamStep, Connect, RefreshOnConnect, Reject, Replay, Write, Subscribe, Heartbeat,
       WriteFails
  <1>6. CASE Disconnect \/ Crash \/ Tick \/ UNCHANGED vars
    BY <1>4, <1>6 DEF Disconnect, Crash, Tick, vars
  <1> QED
    BY <1>1, <1>2, <1>3, <1>4, <1>5, <1>6 DEF Next

\* The slot's key stays well typed.
LEMMA SlotTypeStep ==
  ASSUME StreamTypeOK, [Next]_vars
  PROVE  SlotTypeOK'
  <1>0. count \in Int /\ ttl \in 1..(ConnTTL + 1) /\ lapsed \in BOOLEAN /\ faults \in Nat
    BY Bounds DEF StreamTypeOK, SlotTypeOK
  <1>1. faults' \in Nat
    <2>1. Fault => faults' \in Nat
      BY <1>0 DEF Fault
    <2>2. ASSUME NEW p \in Publishers, NumberEvent(p) \/ PublishEvent(p) \/ StoreEvent(p)
          PROVE  faults' = faults \/ Fault
      BY <2>2 DEF NumberEvent, PublishEvent, StoreEvent
    <2>3. ASSUME NEW c \in Conns, StreamStep(c) PROVE faults' = faults \/ Fault
      BY <2>3 DEF StreamStep, Connect, RefreshOnConnect, Reject, Replay, Write, Subscribe, Heartbeat,
         WriteFails, Refresh
    <2>4. CASE Disconnect \/ Crash \/ Tick \/ UNCHANGED vars
      BY <1>0, <2>1, <2>4 DEF Disconnect, Crash, Tick, vars
    <2> QED
      BY <1>0, <2>1, <2>2, <2>3, <2>4 DEF Next
  <1>2. count' \in Int
    <2>1. ASSUME NEW c \in Conns, StreamStep(c) PROVE count' \in Int
      BY <1>0, <2>1 DEF StreamStep, Connect, RefreshOnConnect, Reject, Replay, Write, Subscribe, Heartbeat,
         WriteFails, slotVars
    <2>2. ASSUME NEW p \in Publishers, NumberEvent(p) \/ PublishEvent(p) \/ StoreEvent(p)
          PROVE  count' \in Int
      BY <1>0, <2>2 DEF NumberEvent, PublishEvent, StoreEvent, slotVars
    <2>3. CASE Disconnect \/ Crash \/ Tick \/ UNCHANGED vars
      BY <1>0, <2>3 DEF Disconnect, Crash, Tick, vars, slotVars
    <2> QED
      BY <2>1, <2>2, <2>3 DEF Next
  <1>3. ttl' \in 1..(ConnTTL + 1)
    <2>0. ConnTTL \in 1..(ConnTTL + 1)
      BY Bounds
    <2>1. ASSUME NEW c \in Conns, StreamStep(c) PROVE ttl' \in {ttl, ConnTTL}
      BY <2>1 DEF StreamStep, Connect, RefreshOnConnect, Reject, Replay, Write, Subscribe, Heartbeat,
         WriteFails, Refresh, slotVars
    <2>2. ASSUME NEW p \in Publishers, NumberEvent(p) \/ PublishEvent(p) \/ StoreEvent(p)
          PROVE  ttl' = ttl
      BY <2>2 DEF NumberEvent, PublishEvent, StoreEvent, slotVars
    <2>3. CASE Tick
      BY <1>0, <2>3, Bounds DEF Tick
    <2>4. CASE Disconnect \/ Crash \/ UNCHANGED vars
      BY <1>0, <2>4 DEF Disconnect, Crash, vars, slotVars
    <2> QED
      BY <1>0, <2>0, <2>1, <2>2, <2>3, <2>4 DEF Next
  <1>4. lapsed' \in BOOLEAN
    <2>1. ASSUME NEW c \in Conns, StreamStep(c) PROVE lapsed' = lapsed
      BY <2>1 DEF StreamStep, Connect, RefreshOnConnect, Reject, Replay, Write, Subscribe, Heartbeat,
         WriteFails, Refresh, slotVars
    <2>2. ASSUME NEW p \in Publishers, NumberEvent(p) \/ PublishEvent(p) \/ StoreEvent(p)
          PROVE  lapsed' = lapsed
      BY <2>2 DEF NumberEvent, PublishEvent, StoreEvent, slotVars
    <2>3. CASE Tick
      BY <1>0, <2>3 DEF Tick
    <2>4. CASE Disconnect \/ Crash \/ UNCHANGED vars
      BY <1>0, <2>4 DEF Disconnect, Crash, vars, slotVars
    <2> QED
      BY <1>0, <2>1, <2>2, <2>3, <2>4 DEF Next
  <1> QED
    BY <1>1, <1>2, <1>3, <1>4, Bounds DEF SlotTypeOK

\* A PUBLISH appends to some queues, and changes nothing else of a connection.
LEMMA PublishQueues ==
  ASSUME StreamTypeOK, NEW p \in Publishers, PublishEvent(p), NEW c \in Conns
  PROVE  /\ conn' \in [Conns -> Conn] /\ pub[p].id \in Nat
         /\ \/ conn'[c] = conn[c]
            \/ /\ HasRoom(c)
               /\ conn'[c] = [conn[c] EXCEPT !.queue = Append(conn[c].queue, pub[p].id)]
  <1>0. pub[p].id \in Nat /\ conn \in [Conns -> Conn]
    BY DEF StreamTypeOK, EventTypeOK, ConnTypeOK, Publication
  <1> DEFINE With(d) == [conn[d] EXCEPT !.queue = Append(conn[d].queue, pub[p].id)]
  <1>1. ASSUME NEW d \in Conns PROVE With(d) \in Conn
    <2>1. conn[d] \in Conn /\ conn[d].queue \in Seq(Nat)
      BY <1>0 DEF Conn
    <2>2. Append(conn[d].queue, pub[p].id) \in Seq(Nat)
      BY <1>0, <2>1
    <2> QED
      BY <2>1, <2>2, ConnField
  <1>2. \/ UNCHANGED conn
        \/ conn' = [d \in Conns |-> IF HasRoom(d) THEN With(d) ELSE conn[d]]
    <2>1. \A d \in Conns : With(d) = [conn[d] EXCEPT !.queue = Append(@, pub[p].id)]
      OBVIOUS
    <2> QED
      BY <2>1 DEF PublishEvent
  <1> HIDE DEF With
  <1>3. conn' \in [Conns -> Conn]
    BY <1>0, <1>1, <1>2
  <1>4. conn'[c] = conn[c] \/ (HasRoom(c) /\ conn'[c] = With(c))
    BY <1>2
  <1> QED
    BY <1>0, <1>3, <1>4 DEF With

\* Time only ages the streams that are in their loop.
LEMMA TickAges ==
  ASSUME StreamTypeOK, Tick, NEW c \in Conns
  PROVE  /\ conn' \in [Conns -> Conn]
         /\ conn'[c] = IF st[c] = "live" THEN [conn[c] EXCEPT !.age = conn[c].age + 1] ELSE conn[c]
  <1>0. conn \in [Conns -> Conn]
    BY DEF StreamTypeOK, ConnTypeOK
  <1> DEFINE Older(d) == [conn[d] EXCEPT !.age = conn[d].age + 1]
  <1>1. ASSUME NEW d \in Conns PROVE Older(d) \in Conn
    <2>1. conn[d] \in Conn /\ conn[d].age + 1 \in Nat
      BY <1>0 DEF Conn
    <2> QED
      BY <2>1, ConnField
  <1>2. conn' = [d \in Conns |-> IF st[d] = "live" THEN Older(d) ELSE conn[d]]
    <2>1. \A d \in Conns : Older(d) = [conn[d] EXCEPT !.age = @ + 1]
      OBVIOUS
    <2> QED
      BY <2>1 DEF Tick
  <1> HIDE DEF Older
  <1>3. conn' \in [Conns -> Conn]
    BY <1>0, <1>1, <1>2
  <1>4. conn'[c] = IF st[c] = "live" THEN Older(c) ELSE conn[c]
    BY <1>2
  <1> QED
    BY <1>3, <1>4 DEF Older

\* The replay fills the queue with what was missed, or with nothing.
LEMMA ReplayQueue ==
  ASSUME StreamTypeOK, NEW c \in Conns, Replay(c)
  PROVE  \E q \in Seq(Nat) :
           /\ conn' = [conn EXCEPT ![c] = [conn[c] EXCEPT !.queue = q]]
           /\ \/ q = conn[c].queue /\ UNCHANGED conn
              \/ q = IF conn[c].from = None THEN <<>> ELSE Ascending(Missed(c))
  <1>0. conn \in [Conns -> Conn] /\ conn[c] \in Conn /\ conn[c].queue \in Seq(Nat)
    BY DEF StreamTypeOK, ConnTypeOK, Conn
  <1>1. CASE UNCHANGED conn
    <2>1. [conn[c] EXCEPT !.queue = conn[c].queue] = conn[c]
      BY <1>0 DEF Conn
    <2> QED
      BY <1>0, <1>1, <2>1
  <1>2. CASE conn' = [conn EXCEPT ![c].queue = IF conn[c].from = None THEN <<>> ELSE Ascending(Missed(c))]
    <2> DEFINE q == IF conn[c].from = None THEN <<>> ELSE Ascending(Missed(c))
    <2>1. q \in Seq(Nat)
      BY MissedType DEF StreamTypeOK
    <2>2. conn' = [conn EXCEPT ![c] = [conn[c] EXCEPT !.queue = q]]
      BY <1>0, <1>2
    <2> QED
      BY <2>1, <2>2
  <1> QED
    BY <1>1, <1>2 DEF Replay

\* The connections stay well typed.
LEMMA ConnTypeStep ==
  ASSUME StreamTypeOK, [Next]_vars
  PROVE  ConnTypeOK'
  <1> USE DEF StreamTypeOK
  <1>0. /\ st \in [Conns -> Stages] /\ conn \in [Conns -> Conn] /\ got \in [Conns -> Seq(Nat)]
        /\ cur \in Conns \cup {None} /\ last \in Nat \cup {None}
    BY DEF ConnTypeOK
  <1>1. ASSUME NEW c \in Conns PROVE conn[c] \in Conn /\ conn[c].queue \in Seq(Nat) /\ got[c] \in Seq(Nat)
    BY <1>0 DEF Conn
  <1>2. ASSUME NEW p \in Publishers, NumberEvent(p) \/ StoreEvent(p) PROVE ConnTypeOK'
    BY <1>0, <1>2 DEF NumberEvent, StoreEvent, ConnTypeOK, clientVars
  <1>3. ASSUME NEW p \in Publishers, PublishEvent(p) PROVE ConnTypeOK'
    <2>1. conn' \in [Conns -> Conn]
      <3>1. CASE Conns = {}
        <4>1. conn' = conn \/ conn' = [c \in Conns |-> IF HasRoom(c) THEN [conn[c] EXCEPT !.queue = Append(@, pub[p].id)] ELSE conn[c]]
          BY <1>3 DEF PublishEvent
        <4> QED
          BY <1>0, <3>1, <4>1
      <3>2. CASE Conns # {}
        BY <1>3, <3>2, PublishQueues
      <3> QED
        BY <3>1, <3>2
    <2> QED
      BY <1>0, <1>3, <2>1 DEF PublishEvent, ConnTypeOK, clientVars
  <1>4. ASSUME NEW c \in Conns, Connect(c) PROVE ConnTypeOK'
    <2>1. ASSUME NEW a \in BOOLEAN
          PROVE  /\ [Closed EXCEPT !.from = last, !.counted = TRUE, !.over = a] \in Conn
                 /\ [Closed EXCEPT !.from = last] \in Conn
      BY <1>0, ClosedType, OpenedType
    <2>2. (count + 1 > MaxConnsPerKey) \in BOOLEAN
      BY Bounds DEF SlotTypeOK
    <2>3. conn' \in [Conns -> Conn]
      BY <1>0, <1>4, <2>1, <2>2 DEF Connect
    <2>4. st' \in [Conns -> Stages]
      BY <1>0, <1>4 DEF Connect, Stage, Stages
    <2> QED
      BY <1>0, <1>4, <2>3, <2>4 DEF Connect, ConnTypeOK
  <1>5. ASSUME NEW c \in Conns, RefreshOnConnect(c) PROVE ConnTypeOK'
    BY <1>0, <1>5 DEF RefreshOnConnect, Stage, Stages, ConnTypeOK, clientVars
  <1>6. ASSUME NEW c \in Conns, Reject(c) \/ WriteFails(c) PROVE ConnTypeOK'
    <2>1. <<>> \in Seq(Nat)
      OBVIOUS
    <2>2. Hangup(c) /\ UNCHANGED last
      BY <1>6 DEF Reject, WriteFails
    <2> QED
      BY <1>0, <2>1, <2>2, ClosedType DEF Hangup, Stage, Stages, ConnTypeOK
  <1>7. ASSUME NEW c \in Conns, Replay(c) PROVE ConnTypeOK'
    <2>1. PICK q \in Seq(Nat) : conn' = [conn EXCEPT ![c] = [conn[c] EXCEPT !.queue = q]]
      BY <1>7, ReplayQueue
    <2>2. [conn[c] EXCEPT !.queue = q] \in Conn
      BY <1>1, ConnField
    <2>3. conn' \in [Conns -> Conn]
      BY <1>0, <2>1, <2>2
    <2> QED
      BY <1>0, <1>7, <2>3 DEF Replay, Stage, Stages, ConnTypeOK, clientVars
  <1>8. ASSUME NEW c \in Conns, Write(c) PROVE ConnTypeOK'
    <2>1. Tail(conn[c].queue) \in Seq(Nat) /\ Head(conn[c].queue) \in Nat
      BY <1>1, <1>8 DEF Write
    <2>2. [conn[c] EXCEPT !.queue = Tail(conn[c].queue)] \in Conn
      BY <1>1, <2>1, ConnField
    <2>3. conn' = [conn EXCEPT ![c] = [conn[c] EXCEPT !.queue = Tail(conn[c].queue)]]
      BY <1>0, <1>8 DEF Write
    <2>4. Append(got[c], Head(conn[c].queue)) \in Seq(Nat)
      BY <1>1, <2>1
    <2>5. got' \in [Conns -> Seq(Nat)] /\ last' \in Nat \cup {None}
      BY <1>0, <1>8, <2>1, <2>4 DEF Write
    <2> QED
      BY <1>0, <1>8, <2>2, <2>3, <2>5 DEF Write, ConnTypeOK
  <1>9. ASSUME NEW c \in Conns, Subscribe(c) PROVE ConnTypeOK'
    <2>1. [conn[c] EXCEPT !.age = 0] \in Conn
      BY <1>1, ConnField
    <2>2. conn' = [conn EXCEPT ![c] = [conn[c] EXCEPT !.age = 0]]
      BY <1>0, <1>9 DEF Subscribe
    <2> QED
      BY <1>0, <1>9, <2>1, <2>2 DEF Subscribe, Stage, Stages, ConnTypeOK, clientVars
  <1>10. ASSUME NEW c \in Conns, Heartbeat(c) PROVE ConnTypeOK'
    <2>1. [conn[c] EXCEPT !.age = 0, !.beaten = (faults' = faults)] \in Conn
      BY <1>1 DEF Conn
    <2>2. conn' = [conn EXCEPT ![c] = [conn[c] EXCEPT !.age = 0, !.beaten = (faults' = faults)]]
      BY <1>0, <1>10 DEF Heartbeat
    <2> QED
      BY <1>0, <1>10, <2>1, <2>2 DEF Heartbeat, ConnTypeOK, clientVars
  <1>11. CASE Disconnect
    BY <1>0, <1>11 DEF Disconnect, ConnTypeOK
  <1>12. CASE Crash
    <2>1. <<>> \in Seq(Nat)
      OBVIOUS
    <2> QED
      BY <1>0, <1>12, <2>1, ClosedType DEF Crash, Stages, ConnTypeOK
  <1>13. CASE Tick
    <2>1. conn' \in [Conns -> Conn]
      <3>1. CASE Conns = {}
        BY <1>0, <1>13, <3>1 DEF Tick
      <3>2. CASE Conns # {}
        BY <1>13, <3>2, TickAges
      <3> QED
        BY <3>1, <3>2
    <2> QED
      BY <1>0, <1>13, <2>1 DEF Tick, ConnTypeOK, clientVars
  <1>14. CASE UNCHANGED vars
    BY <1>0, <1>14 DEF vars, clientVars, ConnTypeOK
  <1> QED
    BY <1>2, <1>3, <1>4, <1>5, <1>6, <1>7, <1>8, <1>9, <1>10, <1>11, <1>12, <1>13, <1>14
    DEF Next, StreamStep

\* All of it.
LEMMA StreamTypeStep == StreamTypeOK /\ [Next]_vars => StreamTypeOK'
  BY EventTypeStep, ConnTypeStep, SlotTypeStep DEF StreamTypeOK

-----------------------------------------------------------------------------
(* Ids.                                                                    *)

\* INCR gives every event a number of its own; the order of the calls of one publisher
\* does the rest.
LEMMA IdsStep ==
  ASSUME StreamTypeOK, IdsInv, [Next]_vars
  PROVE  IdsInv'
  <1>0. /\ seq \in Nat /\ published \in SUBSET Nat /\ pub \in [Publishers -> Publication]
        /\ \A q \in Publishers : pub[q].id \in Nat
    BY DEF StreamTypeOK, EventTypeOK, Publication
  <1>1. ASSUME NEW p \in Publishers, NumberEvent(p) PROVE IdsInv'
    <2>1. /\ seq' = seq + 1 /\ UNCHANGED <<buffer, published>>
          /\ pub' = [pub EXCEPT ![p] = [id |-> seq + 1, step |-> "publish"]]
      BY <1>1 DEF NumberEvent, CallAfter
    <2>2. pub'[p].id = seq + 1 /\ pub'[p].step = "publish"
      BY <1>0, <2>1
    <2>3. \A q \in Publishers : q # p => pub'[q] = pub[q]
      BY <1>0, <2>1
    <2>4. seq + 1 \notin published
      BY <1>0 DEF IdsInv
    <2>5. \A q \in Publishers : q # p /\ pub[q].step # "idle" => pub[q].id <= seq /\ pub[q].id # seq + 1
      BY <1>0 DEF IdsInv
    <2>6. \A e \in published : e <= seq + 1
      BY <1>0 DEF IdsInv
    <2>7. ASSUME NEW q \in Publishers
          PROVE  /\ pub'[q].step # "idle" => pub'[q].id <= seq'
                 /\ pub'[q].step = "publish" => pub'[q].id \notin published'
                 /\ pub'[q].step = "store" => pub'[q].id \in published'
      <3>1. CASE q = p
        BY <1>0, <2>1, <2>2, <2>4, <3>1
      <3>2. CASE q # p
        BY <1>0, <2>1, <2>3, <2>5, <3>2 DEF IdsInv
      <3> QED
        BY <3>1, <3>2
    <2>8. ASSUME NEW q \in Publishers, NEW r \in Publishers, q # r,
                 pub'[q].step # "idle", pub'[r].step # "idle"
          PROVE  pub'[q].id # pub'[r].id
      BY <2>2, <2>3, <2>5, <2>8 DEF IdsInv
    <2>9. buffer' \subseteq published' /\ \A e \in published' : e <= seq'
      BY <2>1, <2>6 DEF IdsInv
    <2> QED
      BY <2>7, <2>8, <2>9 DEF IdsInv
  <1>2. ASSUME NEW p \in Publishers, PublishEvent(p) PROVE IdsInv'
    <2>1. /\ pub[p].step = "publish" /\ UNCHANGED <<seq, buffer>>
          /\ pub' = [pub EXCEPT ![p].step = "store"]
          /\ published' = published \cup {pub[p].id}
      BY <1>2 DEF PublishEvent, CallAfter
    <2>2. pub'[p].id = pub[p].id /\ pub'[p].step = "store"
      BY <1>0, <2>1 DEF Publication
    <2>3. \A q \in Publishers : q # p => pub'[q] = pub[q]
      BY <1>0, <2>1
    <2> QED
      BY <2>1, <2>2, <2>3 DEF IdsInv
  <1>3. ASSUME NEW p \in Publishers, StoreEvent(p) PROVE IdsInv'
    <2>1. /\ pub[p].step = "store" /\ UNCHANGED <<seq, published>>
          /\ pub' = [pub EXCEPT ![p].step = "idle"]
      BY <1>3 DEF StoreEvent, CallAfter
    <2>2. pub'[p].id = pub[p].id /\ pub'[p].step = "idle"
      BY <1>0, <2>1 DEF Publication
    <2>3. \A q \in Publishers : q # p => pub'[q] = pub[q]
      BY <1>0, <2>1
    <2>4. buffer' \subseteq buffer \cup {pub[p].id}
      BY <1>0, <1>3, BufferTrim DEF StoreEvent, StreamTypeOK
    <2> QED
      BY <2>1, <2>2, <2>3, <2>4 DEF IdsInv
  <1>4. ASSUME UNCHANGED eventVars PROVE IdsInv'
    BY <1>4 DEF eventVars, IdsInv
  <1>5. ASSUME NEW c \in Conns, StreamStep(c) PROVE UNCHANGED eventVars
    BY <1>5 DEF StreamStep, Connect, RefreshOnConnect, Reject, Replay, Write, Subscribe, Heartbeat,
       WriteFails
  <1>6. CASE Disconnect \/ Crash \/ Tick \/ UNCHANGED vars
    BY <1>4, <1>6 DEF Disconnect, Crash, Tick, vars
  <1> QED
    BY <1>1, <1>2, <1>3, <1>4, <1>5, <1>6 DEF Next

-----------------------------------------------------------------------------
(* Queues.                                                                 *)

\* Appending a new element.
LEMMA AppendMember ==
  ASSUME NEW s \in Seq(Nat), NEW e \in Nat
  PROVE  /\ Members(Append(s, e)) = Members(s) \cup {e}
         /\ Distinct(s) /\ e \notin Members(s) => Distinct(Append(s, e))
  <1>1. /\ Len(s) \in Nat /\ DOMAIN s = 1..Len(s) /\ DOMAIN Append(s, e) = 1..(Len(s) + 1)
        /\ Append(s, e)[Len(s) + 1] = e /\ \A i \in 1..Len(s) : Append(s, e)[i] = s[i]
    OBVIOUS
  <1>2. \A i \in 1..(Len(s) + 1) : i \in 1..Len(s) \/ i = Len(s) + 1
    BY <1>1
  <1>3. Len(s) + 1 \in 1..(Len(s) + 1) /\ 1..Len(s) \subseteq 1..(Len(s) + 1)
    BY <1>1
  <1>4. Members(Append(s, e)) = Members(s) \cup {e}
    BY <1>1, <1>2, <1>3 DEF Members
  <1>5. ASSUME Distinct(s), e \notin Members(s), NEW i \in 1..(Len(s) + 1), NEW j \in 1..(Len(s) + 1), i # j
        PROVE  Append(s, e)[i] # Append(s, e)[j]
    BY <1>1, <1>2, <1>5 DEF Distinct, Members
  <1> QED
    BY <1>1, <1>4, <1>5 DEF Distinct

\* Taking the first element away.
LEMMA TailMembers ==
  ASSUME NEW s \in Seq(Nat), s # <<>>
  PROVE  /\ Members(s) = Members(Tail(s)) \cup {Head(s)}
         /\ Distinct(s) => Distinct(Tail(s)) /\ Head(s) \notin Members(Tail(s))
  <1>1. /\ Len(s) \in Nat /\ DOMAIN s = 1..Len(s) /\ Len(s) >= 1 /\ Head(s) = s[1]
        /\ DOMAIN Tail(s) = 1..(Len(s) - 1) /\ \A i \in 1..(Len(s) - 1) : Tail(s)[i] = s[i + 1]
    OBVIOUS
  <1>2. ASSUME NEW i \in 1..Len(s), i # 1
        PROVE  i - 1 \in 1..(Len(s) - 1) /\ s[i] = Tail(s)[i - 1]
    <2>1. i - 1 \in 1..(Len(s) - 1) /\ (i - 1) + 1 = i
      BY <1>1, <1>2
    <2> QED
      BY <1>1, <2>1
  <1>3. \A i \in 1..(Len(s) - 1) : i + 1 \in 1..Len(s) /\ i + 1 # 1
    BY <1>1
  <1>4. Members(s) = Members(Tail(s)) \cup {Head(s)}
    <2>1. ASSUME NEW x \in Members(s) PROVE x \in Members(Tail(s)) \cup {Head(s)}
      <3>1. PICK i \in 1..Len(s) : x = s[i]
        BY <1>1, <2>1 DEF Members
      <3>2. CASE i = 1
        BY <1>1, <3>1, <3>2
      <3>3. CASE i # 1
        BY <1>1, <1>2, <3>1, <3>3 DEF Members
      <3> QED
        BY <3>2, <3>3
    <2>2. ASSUME NEW x \in Members(Tail(s)) PROVE x \in Members(s)
      BY <1>1, <1>3, <2>2 DEF Members
    <2>3. Head(s) \in Members(s)
      BY <1>1 DEF Members
    <2> QED
      BY <2>1, <2>2, <2>3
  <1>5. ASSUME Distinct(s) PROVE Distinct(Tail(s)) /\ Head(s) \notin Members(Tail(s))
    <2>1. ASSUME NEW i \in 1..(Len(s) - 1), NEW j \in 1..(Len(s) - 1), i # j
          PROVE  Tail(s)[i] # Tail(s)[j]
      <3>1. i + 1 # j + 1 /\ i + 1 \in 1..Len(s) /\ j + 1 \in 1..Len(s)
        BY <1>1, <2>1
      <3> QED
        BY <1>1, <1>5, <3>1 DEF Distinct
    <2>2. ASSUME NEW i \in 1..(Len(s) - 1) PROVE Tail(s)[i] # Head(s)
      BY <1>1, <1>3, <1>5 DEF Distinct
    <2> QED
      BY <1>1, <2>1, <2>2 DEF Distinct, Members
  <1> QED
    BY <1>4, <1>5

\* An empty queue has no members.
LEMMA NoMembers == Members(<<>>) = {} /\ Distinct(<<>>)
  BY DEF Members, Distinct

\* A step of one stream leaves the others alone.
LEMMA OtherConns ==
  ASSUME StreamTypeOK, NEW d \in Conns, StreamStep(d), NEW c \in Conns, c # d
  PROVE  conn'[c] = conn[c] /\ got'[c] = got[c] /\ st'[c] = st[c]
  <1>0. st \in [Conns -> Stages] /\ conn \in [Conns -> Conn] /\ got \in [Conns -> Seq(Nat)]
    BY DEF StreamTypeOK, ConnTypeOK
  <1>1. conn'[c] = conn[c]
    BY <1>0 DEF StreamStep, Connect, RefreshOnConnect, Reject, Replay, Write, Subscribe, Heartbeat,
       WriteFails, Hangup
  <1>2. got'[c] = got[c]
    BY <1>0 DEF StreamStep, Connect, RefreshOnConnect, Reject, Replay, Write, Subscribe, Heartbeat,
       WriteFails, Hangup, clientVars
  <1>3. st'[c] = st[c]
    BY <1>0 DEF StreamStep, Connect, RefreshOnConnect, Reject, Replay, Write, Subscribe, Heartbeat,
       WriteFails, Hangup, Stage
  <1> QED
    BY <1>1, <1>2, <1>3

\* What a step of a stream does to its own queue and to what it delivered.
LEMMA OwnQueue ==
  ASSUME StreamTypeOK, NEW c \in Conns, StreamStep(c)
  PROVE  \/ conn'[c].queue = <<>> /\ got'[c] = <<>> /\ (Connect(c) \/ Reject(c) \/ WriteFails(c))
         \/ Replay(c)
         \/ Write(c)
         \/ /\ conn'[c].queue = conn[c].queue /\ got'[c] = got[c]
            /\ st'[c] \notin {"replaying", "live"} => st[c] \notin {"replaying", "live"}
            /\ RefreshOnConnect(c) \/ Subscribe(c) \/ Heartbeat(c)
         \/ Connect(c) /\ conn'[c].queue = <<>> /\ got'[c] = got[c]
  <1>0. /\ st \in [Conns -> Stages] /\ conn \in [Conns -> Conn] /\ got \in [Conns -> Seq(Nat)]
        /\ conn[c] \in Conn
    BY DEF StreamTypeOK, ConnTypeOK
  <1>1. CASE Connect(c)
    <2>1. \/ conn'[c] = [Closed EXCEPT !.from = last]
          \/ conn'[c] = [Closed EXCEPT !.from = last, !.counted = TRUE, !.over = count + 1 > MaxConnsPerKey]
      BY <1>0, <1>1 DEF Connect
    <2>2. conn'[c].queue = <<>>
      BY <2>1 DEF Closed
    <2> QED
      BY <1>1, <2>2 DEF Connect
  <1>2. CASE Reject(c) \/ WriteFails(c)
    <2>1. Hangup(c)
      BY <1>2 DEF Reject, WriteFails
    <2>2. conn'[c] = Closed /\ got'[c] = <<>>
      BY <1>0, <2>1 DEF Hangup
    <2> QED
      BY <1>2, <2>2, ClosedType
  <1>3. CASE RefreshOnConnect(c)
    BY <1>0, <1>3 DEF RefreshOnConnect, Stage, clientVars
  <1>4. CASE Subscribe(c)
    <2>1. conn'[c] = [conn[c] EXCEPT !.age = 0]
      BY <1>0, <1>4 DEF Subscribe
    <2>2. conn'[c].queue = conn[c].queue
      BY <1>0, <2>1, ConnField
    <2> QED
      BY <1>0, <1>4, <2>2 DEF Subscribe, Stage, clientVars
  <1>5. CASE Heartbeat(c)
    <2>1. conn'[c] = [conn[c] EXCEPT !.age = 0, !.beaten = (faults' = faults)]
      BY <1>0, <1>5 DEF Heartbeat
    <2>2. conn'[c].queue = conn[c].queue
      BY <1>0, <2>1 DEF Conn
    <2> QED
      BY <1>0, <1>5, <2>2 DEF Heartbeat, clientVars
  <1> QED
    BY <1>1, <1>2, <1>3, <1>4, <1>5 DEF StreamStep

\* No queue gets an event it already had or delivered.
LEMMA DeliveryStep ==
  ASSUME StreamTypeOK, StreamTypeOK', IdsInv, [Next]_vars, NEW c \in Conns, DeliveryInv(c)
  PROVE  DeliveryInv(c)'
  <1>0. /\ st \in [Conns -> Stages] /\ conn \in [Conns -> Conn] /\ got \in [Conns -> Seq(Nat)]
        /\ conn[c] \in Conn /\ conn[c].queue \in Seq(Nat) /\ got[c] \in Seq(Nat)
    BY DEF StreamTypeOK, ConnTypeOK, Conn
  <1>f. ASSUME conn'[c].queue = conn[c].queue, got'[c] = got[c], published \subseteq published',
               st'[c] \notin {"replaying", "live"} => st[c] \notin {"replaying", "live"}
        PROVE  DeliveryInv(c)'
    BY <1>f DEF DeliveryInv
  <1>e. ASSUME conn'[c].queue = <<>>, got'[c] = <<>> PROVE DeliveryInv(c)'
    BY <1>e, NoMembers DEF DeliveryInv
  <1>1. ASSUME NEW p \in Publishers, NumberEvent(p) \/ StoreEvent(p) PROVE DeliveryInv(c)'
    BY <1>f, <1>1 DEF NumberEvent, StoreEvent, clientVars
  <1>2. ASSUME NEW p \in Publishers, PublishEvent(p) PROVE DeliveryInv(c)'
    <2> DEFINE e == pub[p].id
    <2>1. /\ e \in Nat /\ published' = published \cup {e} /\ UNCHANGED <<st, got>>
          /\ e \notin published
      BY <1>2, PublishQueues DEF PublishEvent, clientVars, IdsInv
    <2>2. CASE conn'[c] = conn[c]
      BY <1>f, <2>1, <2>2
    <2>3. CASE HasRoom(c) /\ conn'[c] = [conn[c] EXCEPT !.queue = Append(conn[c].queue, e)]
      <3>1. conn'[c].queue = Append(conn[c].queue, e)
        BY <1>0, <2>3 DEF Conn
      <3>2. e \notin Members(conn[c].queue) /\ e \notin Members(got[c])
        BY <2>1 DEF DeliveryInv
      <3>3. /\ Distinct(conn'[c].queue)
            /\ Members(conn'[c].queue) = Members(conn[c].queue) \cup {e}
        BY <1>0, <2>1, <3>1, <3>2, AppendMember DEF DeliveryInv
      <3>4. st'[c] = "live"
        BY <2>1, <2>3 DEF HasRoom
      <3> QED
        BY <2>1, <3>2, <3>3, <3>4 DEF DeliveryInv
    <2> QED
      BY <1>2, <2>2, <2>3, PublishQueues
  <1>3. ASSUME Replay(c) PROVE DeliveryInv(c)'
    <2>1. got'[c] = <<>> /\ st'[c] = "replaying" /\ UNCHANGED published
      BY <1>0, <1>3 DEF Replay, DeliveryInv, Stage, clientVars, eventVars
    <2>2. PICK q \in Seq(Nat) :
            /\ conn' = [conn EXCEPT ![c] = [conn[c] EXCEPT !.queue = q]]
            /\ \/ q = conn[c].queue
               \/ q = IF conn[c].from = None THEN <<>> ELSE Ascending(Missed(c))
      BY <1>3, ReplayQueue
    <2>3. conn'[c].queue = q
      BY <1>0, <2>2 DEF Conn
    <2>4. conn[c].queue = <<>>
      BY <1>3 DEF Replay, DeliveryInv
    <2>5. Distinct(Ascending(Missed(c))) /\ Members(Ascending(Missed(c))) \subseteq published
      <3>1. /\ Missed(c) \in SUBSET Nat /\ IsFiniteSet(Missed(c)) /\ Missed(c) \subseteq published
        BY MissedType DEF StreamTypeOK, IdsInv
      <3> QED
        BY <3>1, AscendingLists DEF Distinct, Members
    <2>6. Distinct(q) /\ Members(q) \subseteq published
      BY <2>2, <2>4, <2>5, NoMembers
    <2> QED
      BY <2>1, <2>3, <2>6, NoMembers DEF DeliveryInv
  <1>4. ASSUME Write(c) PROVE DeliveryInv(c)'
    <2> DEFINE q == conn[c].queue
               e == Head(q)
    <2>1. /\ q # <<>> /\ e \in Nat /\ st'[c] = st[c] /\ st[c] \in {"replaying", "live"}
          /\ UNCHANGED published
      BY <1>0, <1>4 DEF Write, eventVars
    <2>2. conn'[c].queue = Tail(q)
      <3>1. conn'[c] = [conn[c] EXCEPT !.queue = Tail(q)] /\ Tail(q) \in Seq(Nat)
        BY <1>0, <1>4, <2>1 DEF Write
      <3> QED
        BY <1>0, <3>1 DEF Conn
    <2>3. /\ Members(q) = Members(Tail(q)) \cup {e}
          /\ Distinct(Tail(q)) /\ e \notin Members(Tail(q))
      BY <1>0, <2>1, TailMembers DEF DeliveryInv
    <2>4. got'[c] = got[c] \/ got'[c] = Append(got[c], e)
      BY <1>0, <1>4 DEF Write
    <2>5. e \notin Members(got[c]) /\ e \in published
      BY <2>3 DEF DeliveryInv
    <2>6. /\ Distinct(Append(got[c], e)) /\ Members(Append(got[c], e)) = Members(got[c]) \cup {e}
      BY <1>0, <2>1, <2>5, AppendMember DEF DeliveryInv
    <2> HIDE DEF e
    <2> QED
      BY <2>1, <2>2, <2>3, <2>4, <2>5, <2>6 DEF DeliveryInv
  <1>5. ASSUME StreamStep(c) PROVE DeliveryInv(c)'
    <2>1. UNCHANGED published
      BY <1>5 DEF StreamStep, Connect, RefreshOnConnect, Reject, Replay, Write, Subscribe, Heartbeat,
         WriteFails, eventVars
    <2>2. ASSUME Connect(c), got'[c] = got[c] PROVE got'[c] = <<>>
      BY <2>2 DEF Connect, DeliveryInv
    <2> QED
      BY <1>3, <1>4, <1>5, <1>e, <1>f, <2>1, <2>2, OwnQueue
  <1>6. ASSUME NEW d \in Conns, StreamStep(d), d # c PROVE DeliveryInv(c)'
    <2>1. UNCHANGED published
      BY <1>6 DEF StreamStep, Connect, RefreshOnConnect, Reject, Replay, Write, Subscribe, Heartbeat,
         WriteFails, eventVars
    <2> QED
      BY <1>6, <1>f, <2>1, OtherConns
  <1>7. CASE Tick
    <2>1. conn'[c].queue = conn[c].queue
      <3>1. \/ conn'[c] = conn[c]
            \/ conn'[c] = [conn[c] EXCEPT !.age = conn[c].age + 1]
        BY <1>7, TickAges
      <3>2. [conn[c] EXCEPT !.age = conn[c].age + 1].queue = conn[c].queue
        BY <1>0 DEF Conn
      <3> QED
        BY <3>1, <3>2
    <2> QED
      BY <1>7, <1>f, <2>1 DEF Tick, clientVars, eventVars
  <1>8. CASE Crash
    <2>1. conn'[c] = Closed /\ got'[c] = <<>>
      BY <1>8 DEF Crash
    <2> QED
      BY <1>e, <2>1, ClosedType
  <1>9. CASE Disconnect \/ UNCHANGED vars
    BY <1>9, <1>f DEF Disconnect, vars, clientVars, eventVars
  <1> QED
    BY <1>1, <1>2, <1>5, <1>6, <1>7, <1>8, <1>9 DEF Next

\* Every reachable state is well typed, ids are used once and queues hold no event twice.
THEOREM StreamInvariant ==
  Spec => [](StreamTypeOK /\ IdsInv /\ \A c \in Conns : DeliveryInv(c))
  <1> DEFINE Inv == StreamTypeOK /\ IdsInv /\ \A c \in Conns : DeliveryInv(c)
  <1>1. Init => Inv
    <2> SUFFICES ASSUME Init PROVE Inv
      OBVIOUS
    <2>1. EventTypeOK
      BY FS_EmptySet DEF Init, EventTypeOK, Publication
    <2>2. ConnTypeOK
      <3>1. <<>> \in Seq(Nat)
        OBVIOUS
      <3> QED
        BY <3>1, ClosedType DEF Init, ConnTypeOK, Stages
    <2>3. SlotTypeOK
      <3>1. Forever \in 1..Forever
        BY Bounds
      <3>2. count = 0 /\ ttl = Forever /\ lapsed = FALSE /\ faults = 0
        BY DEF Init
      <3>3. lapsed \in BOOLEAN
        BY <3>2
      <3>4. count \in Int /\ faults \in Nat /\ ttl \in 1..Forever
        BY <3>1, <3>2
      <3> QED
        BY <3>3, <3>4 DEF SlotTypeOK
    <2>4. IdsInv
      BY DEF Init, IdsInv
    <2>5. \A c \in Conns : DeliveryInv(c)
      BY ClosedType, NoMembers DEF Init, DeliveryInv
    <2> QED
      BY <2>1, <2>2, <2>3, <2>4, <2>5 DEF StreamTypeOK
  <1>2. Inv /\ [Next]_vars => Inv'
    BY StreamTypeStep, IdsStep, DeliveryStep
  <1> QED
    BY <1>1, <1>2, PTL DEF Spec

\* One connection never delivers an event twice, for any number of publishers,
\* connections and events, whatever is lost and however often the API restarts.
THEOREM NoDuplicates == Spec => []OncePerConnection
  <1>1. (\A c \in Conns : DeliveryInv(c)) => OncePerConnection
    BY DEF DeliveryInv, Distinct, OncePerConnection
  <1> QED
    BY <1>1, StreamInvariant, PTL

-----------------------------------------------------------------------------
(* What a client misses.                                                   *)

\* Every way an event can fail to reach the queue of the client's stream is excused.
LEMMA MissedStep ==
  ASSUME StreamTypeOK, IdsInv, MissedInv, [Next]_vars
  PROVE  MissedInv'
  <1> DEFINE R == {"replaying", "live"}
             Lacking == (published \cap Matching) \ seen
  <1> SUFFICES ASSUME NEW c \in Conns, cur' = c, st'[c] \in R
               PROVE  Lacking' \subseteq excused' \cup Members(conn'[c].queue)
    <2>1. MissedInv' \/ (cur' # None /\ st'[cur'] \in R)
      BY DEF MissedInv
    <2>2. cur' \in Conns \cup {None}
      BY ConnTypeStep DEF ConnTypeOK
    <2> QED
      BY <2>1, <2>2 DEF MissedInv
  <1>0. /\ st \in [Conns -> Stages] /\ conn \in [Conns -> Conn] /\ got \in [Conns -> Seq(Nat)]
        /\ conn[c] \in Conn /\ conn[c].queue \in Seq(Nat) /\ c # None
    BY Bounds DEF StreamTypeOK, ConnTypeOK, Conn
  <1>m. cur = c /\ st[c] \in R => Lacking \subseteq excused \cup Members(conn[c].queue)
    BY <1>0 DEF MissedInv
  <1>f. ASSUME cur = c, st[c] \in R, conn'[c].queue = conn[c].queue, UNCHANGED published,
               seen \subseteq seen', excused \subseteq excused'
        PROVE  Lacking' \subseteq excused' \cup Members(conn'[c].queue)
    BY <1>f, <1>m
  <1>1. ASSUME NEW p \in Publishers, NumberEvent(p) \/ StoreEvent(p)
        PROVE  Lacking' \subseteq excused' \cup Members(conn'[c].queue)
    BY <1>f, <1>1 DEF NumberEvent, StoreEvent, clientVars
  <1>2. ASSUME NEW p \in Publishers, PublishEvent(p)
        PROVE  Lacking' \subseteq excused' \cup Members(conn'[c].queue)
    <2> DEFINE e == pub[p].id
    <2>1. /\ e \in Nat /\ published' = published \cup {e} /\ UNCHANGED <<st, cur, seen>>
          /\ excused \subseteq excused'
      BY <1>2, PublishQueues DEF PublishEvent, clientVars
    <2>2. Lacking \subseteq excused \cup Members(conn[c].queue) /\ cur = c
      BY <1>m, <2>1
    <2>3. CASE e \in excused' /\ conn'[c] = conn[c]
      BY <2>1, <2>2, <2>3
    <2>4. CASE conn'[c] = [conn[c] EXCEPT !.queue = Append(conn[c].queue, e)]
      <3>1. conn'[c].queue = Append(conn[c].queue, e)
        BY <1>0, <2>4 DEF Conn
      <3>2. Members(conn'[c].queue) = Members(conn[c].queue) \cup {e}
        BY <1>0, <2>1, <3>1, AppendMember
      <3> QED
        BY <2>1, <2>2, <3>2
    <2>5. \/ e \in excused' /\ conn'[c] = conn[c]
          \/ conn'[c] = [conn[c] EXCEPT !.queue = Append(conn[c].queue, e)]
      <3>1. CASE UNCHANGED conn /\ excused' = IF cur # None THEN excused \cup {e} ELSE excused
        BY <1>0, <2>2, <3>1
      <3>2. CASE /\ conn' = [d \in Conns |->
                      IF HasRoom(d) THEN [conn[d] EXCEPT !.queue = Append(@, e)] ELSE conn[d]]
                 /\ excused' = IF Unheard THEN excused \cup {e} ELSE excused
        <4>1. CASE HasRoom(c)
          BY <3>2, <4>1
        <4>2. CASE ~HasRoom(c)
          BY <1>0, <2>1, <2>2, <3>2, <4>2 DEF Unheard
        <4> QED
          BY <4>1, <4>2
      <3> QED
        BY <1>2, <3>1, <3>2 DEF PublishEvent
    <2> QED
      BY <2>3, <2>4, <2>5
  <1>3. ASSUME Replay(c)
        PROVE  Lacking' \subseteq excused' \cup Members(conn'[c].queue)
    <2>1. UNCHANGED <<published, seen, cur>> /\ cur = c
      BY <1>3 DEF Replay, eventVars, clientVars
    <2>2. CASE excused' = excused \cup (published \ seen)
      BY <2>1, <2>2
    <2>3. CASE /\ conn' = [conn EXCEPT ![c].queue =
                             IF conn[c].from = None THEN <<>> ELSE Ascending(Missed(c))]
               /\ excused' = excused \cup OutOfReach(c)
      <3> SUFFICES ASSUME NEW e \in published \ seen, e \notin OutOfReach(c)
                   PROVE  e \in Members(conn'[c].queue)
        BY <2>1, <2>3
      <3>1. e \in Nat /\ buffer \in SUBSET Nat /\ EventTypeOK
        BY DEF StreamTypeOK, EventTypeOK
      <3>2. conn[c].from # None /\ e \in buffer /\ ~(e <= conn[c].from)
        BY DEF OutOfReach
      <3>3. conn[c].from \in Nat
        BY <1>0, <3>2 DEF Conn
      <3>4. e \in Missed(c)
        BY <3>1, <3>2, <3>3 DEF Missed
      <3>5. e \in Members(Ascending(Missed(c))) /\ Ascending(Missed(c)) \in Seq(Nat)
        BY <3>1, <3>4, MissedType, AscendingLists DEF Members
      <3>6. conn'[c].queue = Ascending(Missed(c))
        <4>1. conn'[c] = [conn[c] EXCEPT !.queue = Ascending(Missed(c))]
          BY <1>0, <2>3, <3>2
        <4> QED
          BY <1>0, <3>5, <4>1 DEF Conn
      <3> QED
        BY <3>5, <3>6
    <2> QED
      BY <1>3, <2>1, <2>2, <2>3 DEF Replay
  <1>4. ASSUME Write(c)
        PROVE  Lacking' \subseteq excused' \cup Members(conn'[c].queue)
    <2> DEFINE q == conn[c].queue
               e == Head(q)
    <2>1. /\ q # <<>> /\ UNCHANGED <<published, cur, st, excused>>
          /\ e \in Matching => seen' = seen \cup {e}
          /\ seen \subseteq seen'
      BY <1>4 DEF Write, eventVars
    <2>2. conn'[c].queue = Tail(q)
      <3>1. conn'[c] = [conn[c] EXCEPT !.queue = Tail(q)] /\ Tail(q) \in Seq(Nat)
        BY <1>0, <1>4, <2>1 DEF Write
      <3> QED
        BY <1>0, <3>1 DEF Conn
    <2>3. Members(q) = Members(Tail(q)) \cup {e}
      BY <1>0, <2>1, TailMembers
    <2>4. Lacking \subseteq excused \cup Members(q)
      BY <1>m, <2>1
    <2> HIDE DEF e
    <2> QED
      BY <2>1, <2>2, <2>3, <2>4
  <1>5. ASSUME StreamStep(c)
        PROVE  Lacking' \subseteq excused' \cup Members(conn'[c].queue)
    <2>1. ~Connect(c) /\ ~Reject(c) /\ ~WriteFails(c) /\ ~RefreshOnConnect(c)
      BY <1>0 DEF Connect, Reject, WriteFails, RefreshOnConnect, Hangup, Stage
    <2>2. CASE Subscribe(c) \/ Heartbeat(c)
      <3>1. conn'[c].queue = conn[c].queue
        <4>1. \/ conn'[c] = [conn[c] EXCEPT !.age = 0]
              \/ conn'[c] = [conn[c] EXCEPT !.age = 0, !.beaten = (faults' = faults)]
          BY <1>0, <2>2 DEF Subscribe, Heartbeat
        <4> QED
          BY <1>0, <4>1 DEF Conn
      <3> QED
        BY <1>f, <2>2, <3>1 DEF Subscribe, Heartbeat, eventVars, clientVars
    <2> QED
      BY <1>3, <1>4, <1>5, <2>1, <2>2 DEF StreamStep
  <1>6. ASSUME NEW d \in Conns, StreamStep(d), d # c
        PROVE  Lacking' \subseteq excused' \cup Members(conn'[c].queue)
    <2>1. conn'[c] = conn[c] /\ st'[c] = st[c]
      BY <1>6, OtherConns
    <2>2. cur = c /\ UNCHANGED <<published>> /\ seen \subseteq seen' /\ excused \subseteq excused'
      BY <1>0, <1>6 DEF StreamStep, Connect, RefreshOnConnect, Reject, Replay, Write, Subscribe, Heartbeat,
         WriteFails, Hangup, eventVars, clientVars
    <2> QED
      BY <1>f, <2>1, <2>2
  <1>7. CASE Tick
    <2>1. \/ conn'[c] = conn[c]
          \/ conn'[c] = [conn[c] EXCEPT !.age = conn[c].age + 1]
      BY <1>7, TickAges
    <2>2. [conn[c] EXCEPT !.age = conn[c].age + 1].queue = conn[c].queue
      BY <1>0 DEF Conn
    <2> QED
      BY <1>7, <1>f, <2>1, <2>2 DEF Tick, clientVars, eventVars
  <1>8. CASE Disconnect \/ Crash \/ UNCHANGED vars
    BY <1>0, <1>8, <1>f DEF Disconnect, Crash, vars, clientVars, eventVars
  <1> QED
    BY <1>1, <1>2, <1>5, <1>6, <1>7, <1>8 DEF Next

\* A live client with an empty queue lacks only events it had no way to receive.
THEOREM NothingElseMissed == Spec => []OnlyExcusedMissed
  <1> DEFINE Inv == StreamTypeOK /\ IdsInv /\ MissedInv
  <1>1. Init => MissedInv
    BY DEF Init, MissedInv
  <1>2. Inv /\ [Next]_vars => MissedInv'
    BY MissedStep
  <1>3. MissedInv => OnlyExcusedMissed
    BY NoMembers DEF MissedInv, OnlyExcusedMissed
  <1> QED
    BY <1>1, <1>2, <1>3, StreamInvariant, PTL DEF Spec

-----------------------------------------------------------------------------
(* The slots of a key.                                                     *)

\* No step but a tick moves a stream's clock back to the key's, and a heartbeat that
\* counts has just set the key's.
LEMMA BeatStep ==
  ASSUME StreamTypeOK, BeatInv, [Next]_vars
  PROVE  BeatInv'
  <1> SUFFICES ASSUME NEW c \in Conns
               PROVE  /\ st'[c] # "live" => ~conn'[c].beaten
                      /\ st'[c] = "live" /\ conn'[c].counted /\ conn'[c].beaten
                           => ttl' + conn'[c].age >= ConnTTL
    BY DEF BeatInv
  <1> DEFINE Goal == /\ st'[c] # "live" => ~conn'[c].beaten
                     /\ st'[c] = "live" /\ conn'[c].counted /\ conn'[c].beaten
                          => ttl' + conn'[c].age >= ConnTTL
  <1>0. /\ st \in [Conns -> Stages] /\ conn \in [Conns -> Conn] /\ got \in [Conns -> Seq(Nat)]
        /\ conn[c] \in Conn /\ conn[c].age \in Nat /\ ttl \in Nat /\ ttl >= 1 /\ ttl <= ConnTTL + 1
        /\ ConnTTL \in Nat /\ Forever = ConnTTL + 1
    BY Bounds DEF StreamTypeOK, ConnTypeOK, SlotTypeOK, Conn
  <1>b. /\ st[c] # "live" => ~conn[c].beaten
        /\ st[c] = "live" /\ conn[c].counted /\ conn[c].beaten => ttl + conn[c].age >= ConnTTL
    BY DEF BeatInv
  <1>f. ASSUME st'[c] = st[c], conn'[c].beaten = conn[c].beaten, conn'[c].counted = conn[c].counted,
               conn'[c].age = conn[c].age, ttl' \in {ttl, ConnTTL}
        PROVE  Goal
    BY <1>0, <1>b, <1>f
  <1>n. ASSUME ~conn'[c].beaten PROVE Goal
    BY <1>n
  <1>1. ASSUME NEW p \in Publishers, NumberEvent(p) \/ StoreEvent(p) PROVE Goal
    BY <1>f, <1>1 DEF NumberEvent, StoreEvent, slotVars
  <1>2. ASSUME NEW p \in Publishers, PublishEvent(p) PROVE Goal
    <2>1. conn'[c].beaten = conn[c].beaten /\ conn'[c].counted = conn[c].counted /\ conn'[c].age = conn[c].age
      <3>1. \/ conn'[c] = conn[c]
            \/ conn'[c] = [conn[c] EXCEPT !.queue = Append(conn[c].queue, pub[p].id)]
        BY <1>2, PublishQueues
      <3> QED
        BY <1>0, <3>1 DEF Conn
    <2> QED
      BY <1>2, <1>f, <2>1 DEF PublishEvent, slotVars
  <1>3. ASSUME Connect(c) PROVE Goal
    <2>1. \/ conn'[c] = [Closed EXCEPT !.from = last]
          \/ conn'[c] = [Closed EXCEPT !.from = last, !.counted = TRUE, !.over = count + 1 > MaxConnsPerKey]
      BY <1>0, <1>3 DEF Connect
    <2>2. ~conn'[c].beaten
      BY <2>1 DEF Closed
    <2> QED
      BY <1>n, <2>2
  <1>4. ASSUME Reject(c) \/ WriteFails(c) PROVE Goal
    <2>1. Hangup(c)
      BY <1>4 DEF Reject, WriteFails
    <2>2. conn'[c] = Closed
      BY <1>0, <2>1 DEF Hangup
    <2> QED
      BY <1>n, <2>2, ClosedType
  <1>5. ASSUME RefreshOnConnect(c) PROVE Goal
    <2>1. ~conn'[c].beaten
      BY <1>5, <1>b DEF RefreshOnConnect
    <2> QED
      BY <1>n, <2>1
  <1>6. ASSUME Replay(c) PROVE Goal
    <2>1. PICK q \in Seq(Nat) : conn' = [conn EXCEPT ![c] = [conn[c] EXCEPT !.queue = q]]
      BY <1>6, ReplayQueue
    <2>2. conn'[c].beaten = conn[c].beaten
      BY <1>0, <2>1 DEF Conn
    <2> QED
      BY <1>6, <1>b, <1>n, <2>2 DEF Replay
  <1>7. ASSUME Write(c) PROVE Goal
    <2>1. conn'[c] = [conn[c] EXCEPT !.queue = Tail(conn[c].queue)]
      BY <1>0, <1>7 DEF Write
    <2>2. conn'[c].beaten = conn[c].beaten /\ conn'[c].counted = conn[c].counted /\ conn'[c].age = conn[c].age
      BY <1>0, <2>1 DEF Conn
    <2> QED
      BY <1>7, <1>f, <2>2 DEF Write, slotVars
  <1>8. ASSUME Subscribe(c) PROVE Goal
    <2>1. conn'[c] = [conn[c] EXCEPT !.age = 0] /\ st[c] = "replaying"
      BY <1>0, <1>8 DEF Subscribe
    <2>2. conn'[c].beaten = conn[c].beaten
      BY <1>0, <2>1 DEF Conn
    <2> QED
      BY <1>b, <1>n, <2>1, <2>2
  <1>9. ASSUME Heartbeat(c) PROVE Goal
    <2>0. faults \in Nat
      BY DEF StreamTypeOK, SlotTypeOK
    <2>1. conn'[c] = [conn[c] EXCEPT !.age = 0, !.beaten = (faults' = faults)] /\ st'[c] = "live"
      BY <1>0, <1>9 DEF Heartbeat
    <2>2. /\ conn'[c].beaten => faults' = faults
          /\ conn'[c].counted = conn[c].counted /\ conn'[c].age = 0
      BY <1>0, <2>1 DEF Conn
    <2>3. conn[c].counted => ttl' = ConnTTL \/ faults' # faults
      BY <1>9, <2>0 DEF Heartbeat, Refresh, Fault
    <2> QED
      BY <1>0, <2>1, <2>2, <2>3
  <1>10. ASSUME NEW d \in Conns, StreamStep(d), d # c PROVE Goal
    <2>1. ttl' \in {ttl, ConnTTL}
      BY <1>10 DEF StreamStep, Connect, RefreshOnConnect, Reject, Replay, Write, Subscribe, Heartbeat,
         WriteFails, Refresh, slotVars
    <2> QED
      BY <1>10, <1>f, <2>1, OtherConns
  <1>11. CASE Tick
    <2>1. /\ ttl' = IF ttl = Forever THEN Forever ELSE IF ttl = 1 THEN Forever ELSE ttl - 1
          /\ st'[c] = st[c]
      BY <1>11 DEF Tick
    <2>2. CASE st[c] = "live"
      <3>1. conn'[c] = [conn[c] EXCEPT !.age = conn[c].age + 1]
        BY <1>11, <2>2, TickAges
      <3>2. /\ conn'[c].beaten = conn[c].beaten /\ conn'[c].counted = conn[c].counted
            /\ conn'[c].age = conn[c].age + 1
        BY <1>0, <3>1 DEF Conn
      <3>3. ttl' >= ttl - 1 /\ ttl' \in Nat
        BY <1>0, <2>1
      <3> QED
        BY <1>0, <1>b, <2>1, <2>2, <3>2, <3>3
    <2>3. CASE st[c] # "live"
      <3>1. conn'[c] = conn[c]
        BY <1>11, <2>3, TickAges
      <3> QED
        BY <1>b, <1>n, <2>3, <3>1
    <2> QED
      BY <2>2, <2>3
  <1>12. CASE Crash
    <2>1. conn'[c] = Closed
      BY <1>12 DEF Crash
    <2> QED
      BY <1>n, <2>1, ClosedType
  <1>13. CASE Disconnect \/ UNCHANGED vars
    BY <1>13, <1>f DEF Disconnect, vars, slotVars
  <1> QED
    BY <1>1, <1>2, <1>3, <1>4, <1>5, <1>6, <1>7, <1>8, <1>9, <1>10, <1>11, <1>12, <1>13
    DEF Next, StreamStep

\* The limit is compared only where INCR answered.
LEMMA CountedStep ==
  ASSUME StreamTypeOK, CountedInv, [Next]_vars
  PROVE  CountedInv'
  <1> SUFFICES ASSUME NEW c \in Conns, st'[c] \in {"expire", "reject"} PROVE conn'[c].counted
    BY DEF CountedInv
  <1>0. st \in [Conns -> Stages] /\ conn \in [Conns -> Conn] /\ conn[c] \in Conn
    BY DEF StreamTypeOK, ConnTypeOK
  <1>1. ASSUME NEW p \in Publishers, NumberEvent(p) \/ StoreEvent(p) PROVE conn'[c].counted
    BY <1>1 DEF NumberEvent, StoreEvent, CountedInv
  <1>2. ASSUME NEW p \in Publishers, PublishEvent(p) PROVE conn'[c].counted
    <2>1. st[c] \in {"expire", "reject"}
      BY <1>2 DEF PublishEvent
    <2>2. conn'[c] = conn[c]
      BY <1>2, <2>1, PublishQueues DEF HasRoom
    <2> QED
      BY <2>1, <2>2 DEF CountedInv
  <1>3. ASSUME StreamStep(c) PROVE conn'[c].counted
    <2>1. Connect(c) \/ RefreshOnConnect(c)
      BY <1>0, <1>3 DEF StreamStep, Connect, RefreshOnConnect, Reject, Replay, Write, Subscribe, Heartbeat,
         WriteFails, Hangup, Stage
    <2>2. CASE RefreshOnConnect(c)
      BY <2>2 DEF RefreshOnConnect, CountedInv
    <2>3. CASE Connect(c)
      <3>1. conn'[c] = [Closed EXCEPT !.from = last, !.counted = TRUE, !.over = count + 1 > MaxConnsPerKey]
        BY <1>0, <2>3 DEF Connect, Stage
      <3> QED
        BY <3>1 DEF Closed
    <2> QED
      BY <2>1, <2>2, <2>3
  <1>4. ASSUME NEW d \in Conns, StreamStep(d), d # c PROVE conn'[c].counted
    BY <1>4, OtherConns DEF CountedInv
  <1>5. CASE Tick
    <2>1. st[c] \in {"expire", "reject"}
      BY <1>5 DEF Tick
    <2>2. conn'[c] = conn[c]
      BY <1>5, <2>1, TickAges
    <2> QED
      BY <2>1, <2>2 DEF CountedInv
  <1>6. CASE Crash \/ Disconnect \/ UNCHANGED vars
    BY <1>6 DEF Crash, Disconnect, vars, CountedInv
  <1> QED
    BY <1>1, <1>2, <1>3, <1>4, <1>5, <1>6 DEF Next

Holds(d) == st[d] # "off" /\ conn[d].counted

\* A step that gives no slot away and takes none back.
LEMMA SlotFrame ==
  ASSUME StreamTypeOK, StreamTypeOK', SlotInv, ~lapsed, count' >= count,
         \A d \in Conns : (Holds(d)' <=> Holds(d)) /\ conn'[d].over = conn[d].over
  PROVE  SlotInv'
  <1>1. Holding' = Holding
    BY DEF Holding, Holds
  <1>2. {d \in Holding' : ~conn'[d].over} = {d \in Holding : ~conn[d].over}
    BY <1>1 DEF Holding
  <1>3. IsFiniteSet(Holding) /\ count >= Cardinality(Holding) /\ CapHolds
    BY DEF SlotInv
  <1>4. count \in Int /\ count' \in Int /\ Cardinality(Holding) \in Nat
    BY <1>3, FS_CardinalityType DEF StreamTypeOK, SlotTypeOK
  <1>5. CapHolds'
    BY <1>2, <1>3 DEF CapHolds
  <1> QED
    BY <1>1, <1>3, <1>4, <1>5 DEF SlotInv

\* A stream that ends gives at most its own slot back.
LEMMA SlotLeave ==
  ASSUME StreamTypeOK, StreamTypeOK', SlotInv, ~lapsed, NEW c \in Conns, Hangup(c),
         count' >= IF conn[c].counted THEN count - 1 ELSE count, st[c] # "off"
  PROVE  SlotInv'
  <1>0. /\ st \in [Conns -> Stages] /\ conn \in [Conns -> Conn] /\ count \in Int /\ count' \in Int
    BY DEF StreamTypeOK, ConnTypeOK, SlotTypeOK
  <1>1. st'[c] = "off" /\ \A d \in Conns : d # c => st'[d] = st[d] /\ conn'[d] = conn[d]
    BY <1>0 DEF Hangup, Stage
  <1>2. Holding' = Holding \ {c}
    BY <1>1 DEF Holding
  <1>3. {d \in Holding' : ~conn'[d].over} \in SUBSET {d \in Holding : ~conn[d].over}
    BY <1>1, <1>2 DEF Holding
  <1>4. IsFiniteSet(Holding) /\ count >= Cardinality(Holding) /\ CapHolds
    BY DEF SlotInv
  <1>5. /\ IsFiniteSet(Holding') /\ Cardinality(Holding) \in Nat /\ Cardinality(Holding') \in Nat
        /\ Cardinality(Holding') = IF c \in Holding THEN Cardinality(Holding) - 1 ELSE Cardinality(Holding)
    BY <1>2, <1>4, FS_RemoveElement, FS_CardinalityType
  <1>6. c \in Holding <=> conn[c].counted
    BY DEF Holding
  <1>7. count' >= Cardinality(Holding')
    <2>1. CASE conn[c].counted
      BY <1>0, <1>4, <1>5, <1>6, <2>1
    <2>2. CASE ~conn[c].counted
      BY <1>0, <1>4, <1>5, <1>6, <2>2
    <2> QED
      BY <2>1, <2>2
  <1>8. CapHolds'
    <2> DEFINE K == {d \in Holding : ~conn[d].over}
    <2>1. K \in SUBSET Holding
      OBVIOUS
    <2>2. IsFiniteSet(K)
      BY <1>4, <2>1, FS_Subset
    <2>3. IsFiniteSet(K') /\ Cardinality(K') <= Cardinality(K)
      BY <1>3, <2>2, FS_Subset
    <2>4. Cardinality(K) \in Nat /\ Cardinality(K') \in Nat /\ Cardinality(K) <= MaxConnsPerKey
      BY <1>4, <2>2, <2>3, FS_CardinalityType DEF CapHolds
    <2>5. Cardinality(K') <= MaxConnsPerKey
      BY <2>3, <2>4, Bounds
    <2> QED
      BY <2>5 DEF CapHolds
  <1> QED
    BY <1>5, <1>7, <1>8 DEF SlotInv

\* A stream that begins is counted before the limit is compared.
LEMMA SlotTake ==
  ASSUME StreamTypeOK, StreamTypeOK', SlotInv, ~lapsed, NEW c \in Conns, Connect(c)
  PROVE  SlotInv'
  <1>0. /\ st \in [Conns -> Stages] /\ conn \in [Conns -> Conn] /\ count \in Int /\ count' \in Int
        /\ st[c] = "off" /\ MaxConnsPerKey \in Nat
    BY Bounds DEF StreamTypeOK, ConnTypeOK, SlotTypeOK, Connect
  <1>1. st'[c] # "off" /\ \A d \in Conns : d # c => st'[d] = st[d] /\ conn'[d] = conn[d]
    BY <1>0 DEF Connect, Stage
  <1>2. IsFiniteSet(Holding) /\ count >= Cardinality(Holding) /\ CapHolds
    BY DEF SlotInv
  <1>3. c \notin Holding
    BY <1>0 DEF Holding
  <1> DEFINE K == {d \in Holding : ~conn[d].over}
  <1>k. K \in SUBSET Holding
    OBVIOUS
  <1>4. Cardinality(K) <= MaxConnsPerKey /\ Cardinality(Holding) \in Nat
    BY <1>2, FS_CardinalityType DEF CapHolds
  <1>5. CASE /\ count' = count + 1
             /\ conn'[c] = [Closed EXCEPT !.from = last, !.counted = TRUE,
                                          !.over = count + 1 > MaxConnsPerKey]
    <2>1. conn'[c].counted /\ (~conn'[c].over => count + 1 <= MaxConnsPerKey)
      <3>1. conn'[c].counted /\ conn'[c].over = (count + 1 > MaxConnsPerKey)
        BY <1>5 DEF Closed
      <3>2. ~conn'[c].over => ~(count + 1 > MaxConnsPerKey)
        BY <3>1
      <3>3. ~(count + 1 > MaxConnsPerKey) => count + 1 <= MaxConnsPerKey
        BY <1>0
      <3> QED
        BY <3>1, <3>2, <3>3
    <2>2. Holding' = Holding \cup {c}
      BY <1>1, <2>1 DEF Holding
    <2>3. IsFiniteSet(Holding') /\ Cardinality(Holding') = Cardinality(Holding) + 1
      BY <1>2, <1>3, <2>2, FS_AddElement
    <2>4. count' >= Cardinality(Holding')
      BY <1>0, <1>2, <1>4, <1>5, <2>3
    <2>5. CASE conn'[c].over
      <3>1. K' = K
        BY <1>1, <1>3, <2>2, <2>5 DEF Holding
      <3>2. CapHolds'
        BY <1>4, <3>1 DEF CapHolds
      <3> QED
        BY <2>3, <2>4, <3>2 DEF SlotInv
    <2>6. CASE ~conn'[c].over
      <3>1. K' \in SUBSET Holding'
        OBVIOUS
      <3>2. IsFiniteSet(K') /\ Cardinality(K') <= Cardinality(Holding')
        BY <2>3, <3>1, FS_Subset
      <3>3. Cardinality(K') \in Nat
        BY <3>2, FS_CardinalityType
      <3>4. Cardinality(K') <= MaxConnsPerKey
        BY <1>0, <1>4, <1>5, <2>1, <2>3, <2>4, <2>6, <3>2, <3>3
      <3>5. CapHolds'
        BY <3>4 DEF CapHolds
      <3> QED
        BY <2>3, <2>4, <3>5 DEF SlotInv
    <2> QED
      BY <2>5, <2>6
  <1>6. CASE count' \in {count, count + 1} /\ conn'[c] = [Closed EXCEPT !.from = last]
    <2>1. ~conn'[c].counted
      BY <1>6 DEF Closed
    <2>2. Holding' = Holding
      BY <1>1, <1>3, <2>1 DEF Holding
    <2>3. K' = K
      BY <1>1, <1>3, <2>2 DEF Holding
    <2>4. CapHolds'
      BY <1>4, <2>3 DEF CapHolds
    <2>5. count' >= Cardinality(Holding')
      BY <1>0, <1>2, <1>4, <1>6, <2>2
    <2> QED
      BY <1>2, <2>2, <2>4, <2>5 DEF SlotInv
  <1> QED
    BY <1>0, <1>5, <1>6 DEF Connect

\* Without a holder there is nothing to count.
LEMMA NoHolders ==
  ASSUME Holding' = {}, count' >= 0
  PROVE  SlotInv'
  <1>1. {d \in Holding' : ~conn'[d].over} = {}
    OBVIOUS
  <1>2. CapHolds'
    BY <1>1, FS_EmptySet, Bounds DEF CapHolds
  <1> QED
    BY <1>2, FS_EmptySet DEF SlotInv

\* Every step keeps the slots counted, or lets the key lapse.
LEMMA SlotStep ==
  ASSUME StreamTypeOK, StreamTypeOK', BeatInv, CountedInv, SlotInv, [Next]_vars
  PROVE  SlotInv'
  <1> SUFFICES ASSUME ~lapsed' PROVE SlotInv'
    BY DEF SlotInv
  <1>0. /\ st \in [Conns -> Stages] /\ conn \in [Conns -> Conn] /\ count \in Int /\ ttl \in Nat
        /\ \A d \in Conns : conn[d] \in Conn
        /\ ConnTTL \in Nat /\ MaxBeat \in Nat /\ MaxBeat < ConnTTL
    BY Bounds DEF StreamTypeOK, ConnTypeOK, SlotTypeOK
  <1>c. count >= count /\ count + 1 >= count /\ count - 1 >= count - 1 /\ count >= count - 1
    BY <1>0
  <1>1. ASSUME NEW p \in Publishers, NumberEvent(p) \/ StoreEvent(p) PROVE SlotInv'
    BY <1>1, <1>c, SlotFrame DEF NumberEvent, StoreEvent, slotVars, Holds
  <1>2. ASSUME NEW p \in Publishers, PublishEvent(p) PROVE SlotInv'
    <2>1. ~lapsed /\ count' >= count /\ UNCHANGED st
      BY <1>2, <1>c DEF PublishEvent, slotVars
    <2>2. ASSUME NEW d \in Conns PROVE conn'[d].counted = conn[d].counted /\ conn'[d].over = conn[d].over
      <3>1. \/ conn'[d] = conn[d]
            \/ conn'[d] = [conn[d] EXCEPT !.queue = Append(conn[d].queue, pub[p].id)]
        BY <1>2, PublishQueues
      <3> QED
        BY <1>0, <3>1 DEF Conn
    <2> QED
      BY <2>1, <2>2, SlotFrame DEF Holds
  <1>3. ASSUME NEW c \in Conns, StreamStep(c) PROVE SlotInv'
    <2>1. ~lapsed
      BY <1>3 DEF StreamStep, Connect, RefreshOnConnect, Reject, Replay, Write, Subscribe, Heartbeat,
         WriteFails, slotVars
    <2>2. CASE Connect(c)
      BY <2>1, <2>2, SlotTake
    <2>3. CASE WriteFails(c)
      <3>1. /\ Hangup(c) /\ st[c] # "off"
            /\ count' = count \/ (conn[c].counted /\ count' = count - 1)
        BY <2>3 DEF WriteFails
      <3>2. count' >= IF conn[c].counted THEN count - 1 ELSE count
        BY <1>0, <3>1
      <3> QED
        BY <2>1, <3>1, <3>2, SlotLeave
    <2>4. CASE Reject(c)
      <3>1. /\ Hangup(c) /\ st[c] # "off" /\ conn[c].counted
            /\ count' = count \/ count' = count - 1
        BY <2>4 DEF Reject, CountedInv
      <3>2. count' >= IF conn[c].counted THEN count - 1 ELSE count
        BY <1>0, <3>1
      <3> QED
        BY <2>1, <3>1, <3>2, SlotLeave
    <2>5. CASE RefreshOnConnect(c) \/ Replay(c) \/ Write(c) \/ Subscribe(c) \/ Heartbeat(c)
      <3>1. UNCHANGED count /\ st'[c] # "off" /\ st[c] # "off"
        BY <1>0, <2>5 DEF RefreshOnConnect, Replay, Write, Subscribe, Heartbeat, Stage, slotVars
      <3>2. conn'[c].counted = conn[c].counted /\ conn'[c].over = conn[c].over
        <4>1. CASE Replay(c)
          <5>1. PICK q \in Seq(Nat) : conn' = [conn EXCEPT ![c] = [conn[c] EXCEPT !.queue = q]]
            BY <4>1, ReplayQueue
          <5> QED
            BY <1>0, <5>1 DEF Conn
        <4>2. CASE RefreshOnConnect(c) \/ Write(c) \/ Subscribe(c) \/ Heartbeat(c)
          <5>1. \/ conn'[c] = conn[c]
                \/ conn'[c] = [conn[c] EXCEPT !.queue = Tail(conn[c].queue)]
                \/ conn'[c] = [conn[c] EXCEPT !.age = 0]
                \/ conn'[c] = [conn[c] EXCEPT !.age = 0, !.beaten = (faults' = faults)]
            BY <1>0, <4>2 DEF RefreshOnConnect, Write, Subscribe, Heartbeat
          <5> QED
            BY <1>0, <5>1 DEF Conn
        <4> QED
          BY <2>5, <4>1, <4>2
      <3>3. ASSUME NEW d \in Conns
            PROVE  (Holds(d)' <=> Holds(d)) /\ conn'[d].over = conn[d].over
        <4>1. CASE d = c
          BY <3>1, <3>2, <4>1 DEF Holds
        <4>2. CASE d # c
          BY <1>3, <4>2, OtherConns DEF Holds
        <4> QED
          BY <4>1, <4>2
      <3> QED
        BY <1>c, <2>1, <3>1, <3>3, SlotFrame
    <2> QED
      BY <1>3, <2>2, <2>3, <2>4, <2>5 DEF StreamStep
  <1>4. CASE Tick
    <2>1. ~lapsed /\ UNCHANGED st /\ (ttl = 1 => \A c \in Holding : conn[c].beaten)
      BY <1>4 DEF Tick
    <2>2. ASSUME NEW d \in Conns PROVE conn'[d].counted = conn[d].counted /\ conn'[d].over = conn[d].over
      <3>1. conn'[d] = conn[d] \/ conn'[d] = [conn[d] EXCEPT !.age = conn[d].age + 1]
        BY <1>4, TickAges
      <3> QED
        BY <1>0, <3>1 DEF Conn
    <2>3. CASE ttl # 1
      <3>1. count' >= count
        BY <1>4, <1>c, <2>3 DEF Tick
      <3> QED
        BY <2>1, <2>2, <3>1, SlotFrame DEF Holds
    <2>4. CASE ttl = 1
      <3>1. ASSUME NEW c \in Holding PROVE FALSE
        <4>1. c \in Conns /\ conn[c].beaten /\ conn[c].counted
          BY <2>1, <2>4 DEF Holding
        <4>2. st[c] = "live" /\ ttl + conn[c].age >= ConnTTL
          BY <4>1 DEF BeatInv
        <4>3. conn[c].age < MaxBeat /\ conn[c].age \in Nat
          BY <1>0, <1>4, <4>1, <4>2 DEF Tick, Conn
        <4> QED
          BY <1>0, <2>4, <4>2, <4>3
      <3>2. Holding' = {} /\ count' = 0
        BY <1>4, <2>1, <2>2, <2>4, <3>1 DEF Tick, Holding
      <3> QED
        BY <3>2, NoHolders
    <2> QED
      BY <2>3, <2>4
  <1>5. CASE Crash
    <2>1. ~lapsed /\ UNCHANGED count /\ Holding' = {}
      BY <1>5 DEF Crash, slotVars, Holding
    <2>2. count >= 0
      <3>1. count >= Cardinality(Holding) /\ Cardinality(Holding) \in Nat
        BY <2>1, FS_CardinalityType DEF SlotInv
      <3> QED
        BY <1>0, <3>1
    <2> QED
      BY <2>1, <2>2, NoHolders
  <1>6. CASE Disconnect \/ UNCHANGED vars
    <2>1. ~lapsed /\ count' >= count /\ \A d \in Conns : (Holds(d)' <=> Holds(d)) /\ conn'[d].over = conn[d].over
      BY <1>6, <1>c DEF Disconnect, vars, slotVars, Holds
    <2> QED
      BY <2>1, SlotFrame
  <1> QED
    BY <1>1, <1>2, <1>3, <1>4, <1>5, <1>6 DEF Next

\* No more streams than MaxConnsPerKey hold a slot of a key, whatever fails and however
\* often the API restarts, while the key does not run out under a stream that waits for
\* its first heartbeat or whose last one failed.
THEOREM SlotsNotOversold == Spec => []CapHolds
  <1> DEFINE Inv == BeatInv /\ CountedInv /\ SlotInv
  <1>1. Init => Inv
    <2> SUFFICES ASSUME Init PROVE Inv
      OBVIOUS
    <2>1. BeatInv /\ CountedInv
      BY ClosedType DEF Init, BeatInv, CountedInv
    <2>2. Holding = {} /\ count = 0
      BY DEF Init, Holding
    <2>3. {c \in Holding : ~conn[c].over} = {}
      BY <2>2
    <2>4. CapHolds
      <3>1. Cardinality({c \in Holding : ~conn[c].over}) = 0
        BY <2>3, FS_EmptySet
      <3> QED
        BY <3>1, Bounds DEF CapHolds
    <2> QED
      BY <2>1, <2>2, <2>4, FS_EmptySet DEF SlotInv
  <1>2. StreamTypeOK /\ StreamTypeOK' /\ Inv /\ [Next]_vars => Inv'
    BY BeatStep, CountedStep, SlotStep
  <1>3. Inv => CapHolds
    BY DEF SlotInv, CapHolds
  <1> QED
    BY <1>1, <1>2, <1>3, StreamInvariant, PTL DEF Spec
=============================================================================
