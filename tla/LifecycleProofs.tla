-------------------------- MODULE LifecycleProofs --------------------------
(***************************************************************************)
(* Theorems about Lifecycle, for every number of attempts, retries,        *)
(* deployments and faults: the counters keep within their bounds, and a    *)
(* worker that closes its pool has told every sampler to stop, and waited  *)
(* for them if its shutdown was neither late nor ended by an error.        *)
(***************************************************************************)
EXTENDS Lifecycle, TLAPS

-----------------------------------------------------------------------------
(* Types *)

Places == {"down", "connect", "serving", "health", "drain", "abort", "metrics", "tripped",
           "stopping", "closing"} \cup Samplers

\* A process that is still connecting has an attempt left: ConnectWithRetry gives up at the last.
AttemptLeft == \A s \in Services : pc[s] = "connect" => attempts[s] < MaxAttempts

TypeInv == TypeOK /\ AttemptLeft

\* The parts of TypeOK that an exit touches.
LEMMA ExitType ==
  ASSUME TypeOK, NEW s \in Services, NEW c \in {0, 1}, Exit(s, c)
  PROVE  /\ pc' \in [Services -> Places] /\ code' \in [Services -> {0, 1}]
         /\ live' \subseteq Samplers /\ cancelled' \subseteq Samplers
         /\ busy' \subseteq Samplers \cup PoolUsers /\ late' \in BOOLEAN
         /\ leaked' \in BOOLEAN /\ consecutive' \in 0 .. Threshold
         /\ pc'[s] = "down" /\ \A t \in Services : t # s => pc'[t] = pc[t]
  <1>1. 0 \in 0 .. Threshold
    BY LifecycleAssumption
  <1>2. pc \in [Services -> Places]
    BY DEF TypeOK, Places
  <1>3. "down" \in Places
    BY DEF Places
  <1>4. pc' \in [Services -> Places] /\ pc'[s] = "down" /\ \A t \in Services : t # s => pc'[t] = pc[t]
    BY <1>2, <1>3 DEF Exit, Goto
  <1>5. code' \in [Services -> {0, 1}]
    BY DEF Exit, TypeOK
  <1>6. CASE s = "worker"
    BY <1>4, <1>5, <1>6 DEF Exit, TypeOK, api
  <1>7. CASE s # "worker"
    BY <1>1, <1>4, <1>5, <1>7 DEF Exit, TypeOK, worker
  <1> QED
    BY <1>6, <1>7

\* A step to a place inside the process.
LEMMA GotoType ==
  ASSUME TypeOK, NEW s \in Services, NEW p \in Places, Goto(s, p)
  PROVE  /\ pc' \in [Services -> Places] /\ pc'[s] = p
         /\ \A t \in Services : t # s => pc'[t] = pc[t]
  BY DEF TypeOK, Places, Goto

\* A phase of the worker's shutdown is one of its places.
LEMMA EnterType ==
  ASSUME TypeOK, NEW p \in Places, EnterPhase(p)
  PROVE  /\ pc' \in [Services -> Places] /\ pc'["worker"] = p
         /\ \A t \in Services : t # "worker" => pc'[t] = pc[t]
         /\ cancelled' \subseteq Samplers /\ UNCHANGED <<live, busy, late>>
  <1>1. Goto("worker", p) /\ "worker" \in Services
    BY DEF EnterPhase, Services
  <1>2. cancelled' \subseteq Samplers /\ UNCHANGED <<live, busy, late>>
    BY DEF EnterPhase, TypeOK
  <1> QED
    BY <1>1, <1>2, GotoType

\* The phases follow one another inside the process.
LEMMA PhaseType == ASSUME NEW p \in Shutdown PROVE Phase[p] \in Places \ {"connect"}
  BY DEF Shutdown, Phase, Places, Samplers

\* What the platform does to a process.
LEMMA ServiceType ==
  ASSUME TypeInv, NEW s \in Services, ServiceStep(s)
  PROVE  TypeInv'
  <1>0. /\ TypeOK /\ AttemptLeft /\ pc \in [Services -> Places]
        /\ MaxAttempts \in Nat \ {0} /\ MaxRetries \in Nat /\ MaxDeploys \in Nat /\ MaxFaults \in Nat
    BY LifecycleAssumption DEF TypeInv, TypeOK, Places
  <1>1. CASE Start(s)
    <2>1. "connect" \in Places
      BY DEF Places
    <2>2. /\ pc' \in [Services -> Places] /\ pc'[s] = "connect"
          /\ \A t \in Services : t # s => pc'[t] = pc[t]
      BY <1>0, <1>1, <2>1, GotoType DEF Start
    <2>3. /\ attempts' = [attempts EXCEPT ![s] = 0] /\ signalled' = [signalled EXCEPT ![s] = FALSE]
          /\ UNCHANGED <<code, platform, worker, api>>
      BY <1>1 DEF Start
    <2>4. retries' \in [Services -> 0 .. MaxRetries]
      <3>1. retries \in [Services -> 0 .. MaxRetries] /\ 0 \in 0 .. MaxRetries
        BY <1>0 DEF TypeOK
      <3>2. \/ retries' = [retries EXCEPT ![s] = 0]
            \/ retries[s] < MaxRetries /\ retries' = [retries EXCEPT ![s] = retries[s] + 1]
        BY <1>1, <3>1 DEF Start
      <3>3. retries[s] < MaxRetries => retries[s] + 1 \in 0 .. MaxRetries
        BY <1>0, <3>1
      <3> QED
        BY <3>1, <3>2, <3>3
    <2>5. /\ attempts' \in [Services -> 0 .. MaxAttempts] /\ attempts'[s] = 0
          /\ \A t \in Services : t # s => attempts'[t] = attempts[t]
      BY <1>0, <2>3 DEF TypeOK
    <2>6. AttemptLeft'
      BY <1>0, <2>2, <2>5 DEF AttemptLeft
    <2> QED
      BY <1>0, <2>2, <2>3, <2>4, <2>5, <2>6 DEF TypeInv, TypeOK, platform, worker, api, Places
  <1>2. CASE Sigterm(s)
    <2>1. deploys' \in 0 .. MaxDeploys
      BY <1>0, <1>2 DEF Sigterm, TypeOK
    <2>2. /\ UNCHANGED <<dbUp, faults, attempts, retries>>
          /\ signalled' \in [Services -> BOOLEAN]
      BY <1>0, <1>2 DEF Sigterm, TypeOK
    <2>3. CASE Exit(s, 1)
      <3>1. AttemptLeft'
        BY <1>0, <2>2, <2>3, ExitType DEF AttemptLeft
      <3> QED
        BY <1>0, <2>1, <2>2, <2>3, <3>1, ExitType DEF TypeInv, TypeOK, Places
    <2>4. ASSUME NEW p \in {"health", "stopping"}, Goto(s, p), UNCHANGED <<code, worker, api>>
          PROVE  TypeInv'
      <3>0. p \in Places /\ p # "connect"
        BY DEF Places
      <3>1. /\ pc' \in [Services -> Places] /\ pc'[s] = p
            /\ \A t \in Services : t # s => pc'[t] = pc[t]
        BY <1>0, <2>4, <3>0, GotoType
      <3>2. AttemptLeft'
        BY <1>0, <2>2, <3>0, <3>1 DEF AttemptLeft
      <3> QED
        BY <1>0, <2>1, <2>2, <2>4, <3>1, <3>2 DEF TypeInv, TypeOK, worker, api, Places
    <2>5. CASE UNCHANGED <<pc, code, worker, api>>
      BY <1>0, <2>1, <2>2, <2>5 DEF TypeInv, TypeOK, AttemptLeft, worker, api
    <2>6. \/ Exit(s, 1)
          \/ \E p \in {"health", "stopping"} : Goto(s, p) /\ UNCHANGED <<code, worker, api>>
          \/ UNCHANGED <<pc, code, worker, api>>
      BY <1>2, Zenon DEF Sigterm
    <2> QED
      BY <2>3, <2>4, <2>5, <2>6
  <1>3. CASE Sigkill(s)
    <2>1. Exit(s, 1) /\ UNCHANGED <<platform, attempts, signalled, retries>>
      BY <1>3 DEF Sigkill
    <2>2. AttemptLeft'
      BY <1>0, <2>1, ExitType DEF AttemptLeft
    <2> QED
      BY <1>0, <2>1, <2>2, ExitType DEF TypeInv, TypeOK, platform, Places
  <1>4. CASE Connect(s)
    <2>0. pc[s] = "connect" /\ UNCHANGED <<platform, signalled, retries>>
      BY <1>4 DEF Connect
    <2>1. CASE Serve(s)
      <3>0. "serving" \in Places
        BY DEF Places
      <3>1. /\ pc' \in [Services -> Places] /\ pc'[s] = "serving"
            /\ \A t \in Services : t # s => pc'[t] = pc[t]
        BY <1>0, <2>1, <3>0, GotoType DEF Serve
      <3>2. /\ UNCHANGED <<code, attempts, cancelled, busy, late, api>>
            /\ live' \subseteq Samplers
        BY <1>0, <2>1 DEF Serve, worker, TypeOK
      <3>3. AttemptLeft'
        BY <1>0, <3>1, <3>2 DEF AttemptLeft
      <3> QED
        BY <1>0, <2>0, <3>1, <3>2, <3>3 DEF TypeInv, TypeOK, platform, api, Places
    <2>2. CASE /\ attempts' = [attempts EXCEPT ![s] = @ + 1]
               /\ IF attempts'[s] = MaxAttempts THEN Exit(s, 1) ELSE UNCHANGED <<pc, code, worker, api>>
      <3>1. attempts \in [Services -> 0 .. MaxAttempts] /\ attempts[s] < MaxAttempts
        BY <1>0, <2>0 DEF TypeOK, AttemptLeft
      <3>2. /\ attempts' \in [Services -> 0 .. MaxAttempts] /\ attempts'[s] \in 0 .. MaxAttempts
            /\ \A t \in Services : t # s => attempts'[t] = attempts[t]
        <4>1. attempts[s] + 1 \in 0 .. MaxAttempts
          BY <1>0, <3>1
        <4> QED
          BY <2>2, <3>1, <4>1
      <3>3. CASE attempts'[s] = MaxAttempts
        <4>1. Exit(s, 1)
          BY <2>2, <3>3
        <4>2. AttemptLeft'
          BY <1>0, <3>2, <4>1, ExitType DEF AttemptLeft
        <4> QED
          BY <1>0, <2>0, <3>2, <4>1, <4>2, ExitType DEF TypeInv, TypeOK, platform, Places
      <3>4. CASE attempts'[s] # MaxAttempts
        <4>1. UNCHANGED <<pc, code, worker, api>>
          BY <2>2, <3>4
        <4>2. AttemptLeft'
          BY <1>0, <3>2, <3>4, <4>1 DEF AttemptLeft
        <4> QED
          BY <1>0, <2>0, <3>2, <4>1, <4>2 DEF TypeInv, TypeOK, platform, worker, api
      <3> QED
        BY <3>3, <3>4
    <2> QED
      BY <1>4, <2>1, <2>2 DEF Connect
  <1>5. CASE StartupFails(s)
    <2>1. Exit(s, 1) /\ UNCHANGED <<dbUp, deploys, attempts, signalled, retries>>
      BY <1>5 DEF StartupFails
    <2>2. faults' \in 0 .. MaxFaults
      BY <1>0, <1>5 DEF StartupFails, TypeOK
    <2>3. AttemptLeft'
      BY <1>0, <2>1, ExitType DEF AttemptLeft
    <2> QED
      BY <1>0, <2>1, <2>2, <2>3, ExitType DEF TypeInv, TypeOK, Places
  <1> QED
    BY <1>1, <1>2, <1>3, <1>4, <1>5 DEF ServiceStep

\* The steps of the worker while it serves and on its way out.
LEMMA WorkerType == ASSUME TypeInv, WorkerStep PROVE TypeInv'
  <1>0. /\ TypeOK /\ AttemptLeft /\ pc \in [Services -> Places] /\ MaxFaults \in Nat
        /\ "worker" \in Services
    BY LifecycleAssumption DEF TypeInv, TypeOK, Places, Services
  <1>1. CASE WorkerActivity
    <2>1. UNCHANGED <<platform, pc, attempts, code, signalled, retries, api, cancelled, late>>
      BY <1>1 DEF WorkerActivity, BeginSample, SamplerReturns, BeginWork, EndWork
    <2>2. live' \subseteq Samplers /\ busy' \subseteq Samplers \cup PoolUsers
      BY <1>0, <1>1 DEF WorkerActivity, BeginSample, SamplerReturns, BeginWork, EndWork, TypeOK, PoolUsers
    <2> QED
      BY <1>0, <2>1, <2>2 DEF TypeInv, TypeOK, AttemptLeft, platform, api
  <1>2. ASSUME NEW p \in Places \ {"connect"}, EnterPhase(p), UNCHANGED <<dbUp, deploys, attempts, signalled, retries, api>>,
               code' \in [Services -> {0, 1}], faults' \in 0 .. MaxFaults
        PROVE  TypeInv'
    <2>1. AttemptLeft'
      BY <1>0, <1>2, EnterType DEF AttemptLeft
    <2> QED
      BY <1>0, <1>2, <2>1, EnterType DEF TypeInv, TypeOK, api, Places
  <1>3. {"abort", "closing"} \subseteq Places \ {"connect"}
    BY DEF Places
  <1>4. CASE HealthListenerFails
    <2>1. faults' \in 0 .. MaxFaults /\ code' \in [Services -> {0, 1}]
      BY <1>0, <1>4 DEF HealthListenerFails, TypeOK
    <2> QED
      BY <1>2, <1>3, <1>4, <2>1 DEF HealthListenerFails
  <1>5. CASE WorkerShutdown
    <2>0. UNCHANGED <<dbUp, deploys, faults, attempts, signalled, retries, api>>
      BY <1>5 DEF WorkerShutdown, platform
    <2>1. CASE Deadline
      BY <1>0, <2>0, <2>1 DEF Deadline, TypeInv, TypeOK, AttemptLeft, api
    <2>2. faults' \in 0 .. MaxFaults
      BY <1>0, <2>0 DEF TypeOK
    <2>3. ASSUME NEW c \in {0, 1}, code' = [code EXCEPT !["worker"] = c] PROVE code' \in [Services -> {0, 1}]
      BY <1>0, <2>3 DEF TypeOK
    <2>4. CASE NextPhase
      <3>1. PICK p \in Places \ {"connect"}, c \in {0, 1} :
              EnterPhase(p) /\ code' = [code EXCEPT !["worker"] = c]
        BY <1>3, <2>4, PhaseType DEF NextPhase, Working
      <3> QED
        BY <1>2, <2>0, <2>2, <2>3, <3>1
    <2>5. CASE ReturnHealthErr
      BY <1>2, <1>3, <2>0, <2>2, <2>3, <2>5 DEF ReturnHealthErr
    <2> QED
      BY <1>5, <2>1, <2>4, <2>5 DEF WorkerShutdown
  <1>6. CASE WorkerCloses
    <2>1. /\ Exit("worker", code["worker"]) /\ UNCHANGED <<platform, attempts, signalled, retries>>
          /\ code["worker"] \in {0, 1}
      BY <1>0, <1>6 DEF WorkerCloses, TypeOK
    <2>2. AttemptLeft'
      BY <1>0, <2>1, ExitType DEF AttemptLeft
    <2> QED
      BY <1>0, <2>1, <2>2, ExitType DEF TypeInv, TypeOK, platform, Places
  <1> QED
    BY <1>1, <1>4, <1>5, <1>6 DEF WorkerStep

\* The API's own steps.
LEMMA ApiType == ASSUME TypeInv, ApiStep PROVE TypeInv'
  <1>0. /\ TypeOK /\ AttemptLeft /\ pc \in [Services -> Places] /\ MaxFaults \in Nat
        /\ Threshold \in Nat \ {0} /\ "api" \in Services
    BY LifecycleAssumption DEF TypeInv, TypeOK, Places, Services
  <1>1. CASE PoolLeaks
    BY <1>0, <1>1 DEF PoolLeaks, TypeInv, TypeOK, AttemptLeft, worker
  <1>2. ASSUME NEW p \in Places \ {"connect"}, Goto("api", p),
               UNCHANGED <<dbUp, deploys, attempts, signalled, retries, worker, leaked>>,
               consecutive' \in 0 .. Threshold, code' \in [Services -> {0, 1}], faults' \in 0 .. MaxFaults
        PROVE  TypeInv'
    <2>1. AttemptLeft'
      BY <1>0, <1>2, GotoType DEF AttemptLeft
    <2> QED
      BY <1>0, <1>2, <2>1, GotoType DEF TypeInv, TypeOK, worker, Places
  <1>3. {"tripped", "closing"} \subseteq Places \ {"connect"}
    BY DEF Places
  <1>4. CASE Probe
    <2>1. consecutive' \in 0 .. Threshold
      BY <1>0, <1>4 DEF Probe, Observe, TypeOK
    <2>2. CASE UNCHANGED pc
      BY <1>0, <1>4, <2>1, <2>2 DEF Probe, TypeInv, TypeOK, AttemptLeft, worker, platform
    <2>3. CASE Goto("api", "tripped")
      <3>1. /\ UNCHANGED <<dbUp, deploys, attempts, signalled, retries, worker, leaked>>
            /\ faults' \in 0 .. MaxFaults /\ code' \in [Services -> {0, 1}]
        BY <1>0, <1>4 DEF Probe, platform, TypeOK
      <3> QED
        BY <1>2, <1>3, <2>1, <2>3, <3>1
    <2> QED
      BY <1>4, <2>2, <2>3 DEF Probe
  <1>5. CASE ListenFails \/ ApiStops
    <2>1. /\ Goto("api", "closing") /\ UNCHANGED <<dbUp, deploys, attempts, signalled, retries, worker, leaked, consecutive>>
          /\ code' = [code EXCEPT !["api"] = 0] /\ faults' \in 0 .. MaxFaults
      BY <1>0, <1>5 DEF ListenFails, ApiStops, platform, api, TypeOK
    <2>2. code' \in [Services -> {0, 1}] /\ consecutive' \in 0 .. Threshold
      BY <1>0, <2>1 DEF TypeOK
    <2> QED
      BY <1>2, <1>3, <2>1, <2>2
  <1>6. CASE TripExits \/ ApiCloses
    <2>1. PICK c \in {0, 1} : Exit("api", c) /\ UNCHANGED <<platform, attempts, signalled, retries>>
      BY <1>0, <1>6 DEF TripExits, ApiCloses, TypeOK
    <2>2. AttemptLeft'
      BY <1>0, <2>1, ExitType DEF AttemptLeft
    <2> QED
      BY <1>0, <2>1, <2>2, ExitType DEF TypeInv, TypeOK, platform, Places
  <1> QED
    BY <1>1, <1>4, <1>5, <1>6 DEF ApiStep

\* Every step keeps the types and leaves a starting process the attempts it may still make.
LEMMA TypeStep == TypeInv /\ [Next]_vars => TypeInv'
  <1> SUFFICES ASSUME TypeInv, [Next]_vars PROVE TypeInv'
    OBVIOUS
  <1>1. CASE DbFails \/ DbRecovers
    <2>1. TypeOK /\ AttemptLeft /\ MaxFaults \in Nat
      BY LifecycleAssumption DEF TypeInv
    <2>2. faults' \in 0 .. MaxFaults
      <3>1. faults \in 0 .. MaxFaults
        BY <2>1 DEF TypeOK
      <3>2. (faults < MaxFaults /\ faults' = faults + 1) \/ faults' = faults
        BY <1>1 DEF DbFails, DbRecovers
      <3> QED
        BY <2>1, <3>1, <3>2
    <2>4. dbUp' \in BOOLEAN
      BY <1>1, Zenon DEF DbFails, DbRecovers
    <2>3. UNCHANGED <<pc, attempts, code, signalled, retries, worker, api, deploys>>
      BY <1>1 DEF DbFails, DbRecovers
    <2> QED
      BY <2>1, <2>2, <2>3, <2>4 DEF TypeInv, TypeOK, AttemptLeft, worker, api
  <1>2. CASE UNCHANGED vars
    BY <1>2 DEF vars, TypeInv, TypeOK, AttemptLeft
  <1> QED
    BY <1>1, <1>2, ServiceType, WorkerType, ApiType DEF Next

\* Every variable keeps its type: no start takes more than MaxAttempts attempts, the watchdog's
\* count never passes its threshold and the platform grants no more restarts than its policy.
THEOREM LifecycleTypes == Spec => []TypeOK
  <1>1. Init => TypeInv
    <2>1. "connect" \in Places
      BY DEF Places
    <2>2. /\ 0 \in 0 .. MaxAttempts /\ 0 \in 0 .. MaxRetries /\ 0 \in 0 .. Threshold
          /\ 0 \in 0 .. MaxDeploys /\ 0 \in 0 .. MaxFaults /\ 0 < MaxAttempts
      BY LifecycleAssumption
    <2> SUFFICES ASSUME Init PROVE TypeInv
      OBVIOUS
    <2>3. AttemptLeft
      BY <2>2 DEF Init, AttemptLeft
    <2>4. TypeOK
      BY <2>1, <2>2 DEF Init, TypeOK, Places
    <2> QED
      BY <2>3, <2>4 DEF TypeInv
  <1>2. TypeInv => TypeOK
    BY DEF TypeInv
  <1> QED
    BY <1>1, <1>2, TypeStep, PTL DEF Spec

-----------------------------------------------------------------------------
(* The worker's shutdown. Every phase that is not skipped leaves a stopped   *)
(* sampler behind, and no sampler starts again before the process does.      *)

\* The samplers whose goroutines the shutdown has waited for before the phase p.
Stopped == [freshness |-> {}, benchmark |-> {"freshness"}, queue |-> {"freshness", "benchmark"},
            metrics |-> Samplers]

QuietInv ==
  /\ busy \cap Samplers \subseteq live
  /\ pc["worker"] \in DOMAIN Stopped /\ ~late => live \cap Stopped[pc["worker"]] = {}
  /\ pc["worker"] = "closing" => /\ cancelled = Samplers
                                 /\ code["worker"] = 0 /\ ~late => live = {}

\* Steps of the API, of the platform on the API, and of the database are not the worker's.
LEMMA QuietElsewhere ==
  ASSUME QuietInv, UNCHANGED worker, pc'["worker"] = pc["worker"], code'["worker"] = code["worker"]
  PROVE  QuietInv'
  BY DEF QuietInv, worker

\* Nor does anything survive the end of the worker.
LEMMA QuietExit ==
  ASSUME TypeOK, QuietInv, NEW s \in Services, NEW c, Exit(s, c)
  PROVE  QuietInv'
  <1>1. CASE s = "worker"
    <2>1. pc'["worker"] = "down" /\ live' = {} /\ busy' = {}
      BY <1>1 DEF Exit, Goto, TypeOK
    <2>2. "down" \notin DOMAIN Stopped
      BY DEF Stopped
    <2> QED
      BY <2>1, <2>2 DEF QuietInv
  <1>2. CASE s # "worker"
    <2>1. UNCHANGED worker /\ pc'["worker"] = pc["worker"] /\ code'["worker"] = code["worker"]
      BY <1>2 DEF Exit, Goto, TypeOK, Services
    <2> QED
      BY <2>1, QuietElsewhere
  <1> QED
    BY <1>1, <1>2

\* What the platform does to a process leaves the samplers as they were, or all stopped.
LEMMA QuietService ==
  ASSUME TypeOK, QuietInv, NEW s \in Services, ServiceStep(s)
  PROVE  QuietInv'
  <1>0. /\ "connect" \notin DOMAIN Stopped /\ "serving" \notin DOMAIN Stopped /\ "health" \notin DOMAIN Stopped
        /\ "worker" \in Services
    BY DEF Stopped, Services
  <1>1. ASSUME NEW p \in {"connect", "serving", "health", "stopping"}, Goto(s, p), UNCHANGED <<code, busy, cancelled, late>>,
               live' = live \/ (live' = Samplers /\ s = "worker"), 
               s = "worker" => p # "stopping"
        PROVE  QuietInv'
    <2>1. CASE s = "worker"
      <3>1. pc'["worker"] = p
        BY <1>1, <2>1 DEF Goto, TypeOK
      <3>2. busy \cap Samplers \subseteq live'
        BY <1>1 DEF QuietInv
      <3> QED
        BY <1>0, <1>1, <2>1, <3>1, <3>2 DEF QuietInv
    <2>2. CASE s # "worker"
      <3>1. pc'["worker"] = pc["worker"]
        BY <1>0, <1>1, <2>2 DEF Goto, TypeOK
      <3> QED
        BY <1>1, <2>2, <3>1, QuietElsewhere DEF worker
    <2> QED
      BY <2>1, <2>2
  <1>2. CASE Start(s)
    BY <1>1, <1>2 DEF Start, worker
  <1>3. CASE Sigterm(s)
    <2>1. \/ Exit(s, 1)
          \/ Goto(s, "health") /\ s = "worker" /\ UNCHANGED <<code, worker>>
          \/ Goto(s, "stopping") /\ s = "api" /\ UNCHANGED <<code, worker>>
          \/ UNCHANGED <<pc, code, worker>>
      BY <1>3, Zenon DEF Sigterm
    <2>2. CASE Goto(s, "health") /\ s = "worker" /\ UNCHANGED <<code, worker>>
      BY <1>1, <2>2 DEF worker
    <2>3. CASE Goto(s, "stopping") /\ s = "api" /\ UNCHANGED <<code, worker>>
      BY <1>1, <2>3 DEF worker
    <2> QED
      BY <2>1, <2>2, <2>3, QuietExit, QuietElsewhere
  <1>4. CASE Sigkill(s) \/ StartupFails(s)
    BY <1>4, QuietExit DEF Sigkill, StartupFails
  <1>5. CASE Connect(s)
    <2>1. Serve(s) \/ Exit(s, 1) \/ UNCHANGED <<pc, code, worker>>
      BY <1>5 DEF Connect
    <2>2. CASE Serve(s)
      BY <1>1, <2>2 DEF Serve, worker
    <2> QED
      BY <2>1, <2>2, QuietExit, QuietElsewhere
  <1> QED
    BY <1>2, <1>3, <1>4, <1>5 DEF ServiceStep

\* A phase that ends within the budget leaves one sampler fewer.
LEMMA QuietPhase ==
  ASSUME TypeOK, QuietInv, NextPhase
  PROVE  QuietInv'
  <1> DEFINE p == pc["worker"]
  <1>0. /\ p \in Shutdown /\ pc \in [Services -> Places] /\ "worker" \in Services
        /\ code \in [Services -> {0, 1}] /\ live \subseteq Samplers
    BY DEF NextPhase, Working, TypeOK, Places, Services
  <1>1. ASSUME Finished(p) \/ late, EnterPhase(Phase[p]), code' = [code EXCEPT !["worker"] = 0]
        PROVE  QuietInv'
    <2>1. /\ pc'["worker"] = Phase[p] /\ UNCHANGED <<live, busy, late>>
          /\ Phase[p] = "closing" => cancelled' = Samplers
      BY <1>0, <1>1 DEF EnterPhase, Goto, Samplers
    <2>2. \/ p \in {"health", "drain"} /\ Phase[p] \in {"drain", "freshness"}
          \/ p = "freshness" /\ Phase[p] = "benchmark"
          \/ p = "benchmark" /\ Phase[p] = "queue"
          \/ p = "queue" /\ Phase[p] = "metrics"
          \/ p = "metrics" /\ Phase[p] = "closing"
      BY <1>0 DEF Shutdown, Phase, Samplers
    <2>3. p \in Samplers /\ ~late => p \notin live
      BY <1>1 DEF Finished, Samplers
    <2>4. p \in DOMAIN Stopped /\ ~late => live \cap Stopped[p] = {}
      BY DEF QuietInv
    <2> HIDE DEF p
    <2>5. ASSUME ~late, Phase[p] \in DOMAIN Stopped PROVE live \cap Stopped[Phase[p]] = {}
      BY <1>0, <2>2, <2>3, <2>4, <2>5 DEF Stopped, Samplers
    <2>6. ASSUME ~late, Phase[p] = "closing" PROVE live = {}
      BY <1>0, <2>2, <2>4, <2>6 DEF Stopped
    <2>7. "closing" \notin DOMAIN Stopped
      BY DEF Stopped
    <2> QED
      BY <2>1, <2>5, <2>6, <2>7 DEF QuietInv
  <1>2. ASSUME EnterPhase("closing"), code' = [code EXCEPT !["worker"] = 1] PROVE QuietInv'
    <2>1. /\ pc'["worker"] = "closing" /\ UNCHANGED <<live, busy, late>> /\ cancelled' = Samplers
          /\ code'["worker"] = 1
      BY <1>0, <1>2 DEF EnterPhase, Goto, Samplers
    <2>2. "closing" \notin DOMAIN Stopped
      BY DEF Stopped
    <2> QED
      BY <2>1, <2>2 DEF QuietInv
  <1> QED
    BY <1>1, <1>2 DEF NextPhase

\* The worker's own steps: each phase of the shutdown waits for one sampler more.
LEMMA QuietWorker ==
  ASSUME TypeOK, QuietInv, WorkerStep
  PROVE  QuietInv'
  <1>0. "worker" \in Services
    BY DEF Services
  <1>1. CASE WorkerActivity
    <2>1. UNCHANGED <<pc, code, cancelled, late>>
      BY <1>1 DEF WorkerActivity, BeginSample, SamplerReturns, BeginWork, EndWork
    <2>2. live' \subseteq live /\ busy' \cap Samplers \subseteq live'
      BY <1>1 DEF WorkerActivity, BeginSample, SamplerReturns, BeginWork, EndWork, QuietInv, Samplers
    <2> QED
      BY <2>1, <2>2 DEF QuietInv
  <1>2. CASE HealthListenerFails
    <2>1. pc'["worker"] = "abort" /\ UNCHANGED <<live, busy, late>>
      BY <1>0, <1>2 DEF HealthListenerFails, EnterPhase, Goto, TypeOK
    <2>2. "abort" \notin DOMAIN Stopped
      BY DEF Stopped
    <2> QED
      BY <2>1, <2>2 DEF QuietInv
  <1>3. CASE Deadline
    <2>1. UNCHANGED <<live, cancelled, busy, pc, code>> /\ late'
      BY <1>3 DEF Deadline
    <2> QED
      BY <2>1 DEF QuietInv
  <1>4. CASE ReturnHealthErr
    <2>1. /\ pc'["worker"] = "closing" /\ UNCHANGED <<live, busy, late>> /\ cancelled' = Samplers
          /\ code'["worker"] = 1
      BY <1>0, <1>4 DEF ReturnHealthErr, EnterPhase, Goto, Samplers, TypeOK
    <2>2. "closing" \notin DOMAIN Stopped
      BY DEF Stopped
    <2> QED
      BY <2>1, <2>2 DEF QuietInv
  <1>5. CASE WorkerCloses
    BY <1>0, <1>5, QuietExit DEF WorkerCloses
  <1> QED
    BY <1>1, <1>2, <1>3, <1>4, <1>5, QuietPhase DEF WorkerStep, WorkerShutdown

\* The API's steps are not the worker's.
LEMMA QuietApi ==
  ASSUME TypeOK, QuietInv, ApiStep
  PROVE  QuietInv'
  <1>0. "worker" \in Services /\ "api" \in Services
    BY DEF Services
  <1>1. CASE TripExits \/ ApiCloses
    BY <1>0, <1>1, QuietExit DEF TripExits, ApiCloses
  <1>2. CASE PoolLeaks \/ Probe \/ ListenFails \/ ApiStops
    <2>1. UNCHANGED worker /\ pc'["worker"] = pc["worker"] /\ code'["worker"] = code["worker"]
      BY <1>0, <1>2 DEF PoolLeaks, Probe, ListenFails, ApiStops, Goto, TypeOK
    <2> QED
      BY <2>1, QuietElsewhere
  <1> QED
    BY <1>1, <1>2 DEF ApiStep

\* However the worker comes to close its pool, the stop functions of run (called by the shutdown
\* or deferred) have cancelled every sampler's context. A sampler that still runs then means that
\* the budget of the shutdown was spent, or that run() returned an error: it waits for no sampler
\* after its health listener failed, and none after its drain timed out.
THEOREM ShutdownQuiet == Spec => []PoolClosesQuiet
  <1>1. Init => QuietInv
    <2>1. "connect" \notin DOMAIN Stopped
      BY DEF Stopped
    <2> QED
      BY <2>1 DEF Init, QuietInv, Services
  <1>2. ASSUME TypeOK, QuietInv, [Next]_vars PROVE QuietInv'
    <2>1. CASE DbFails \/ DbRecovers \/ UNCHANGED vars
      <3>1. UNCHANGED <<pc, code, worker>>
        BY <2>1 DEF DbFails, DbRecovers, vars, worker
      <3> QED
        BY <1>2, <3>1, QuietElsewhere
    <2> QED
      BY <1>2, <2>1, QuietService, QuietWorker, QuietApi DEF Next
  <1>3. ASSUME TypeOK, QuietInv PROVE PoolClosesQuiet
    BY <1>3 DEF QuietInv, PoolClosesQuiet, TypeOK, Services
  <1> QED
    BY <1>1, <1>2, <1>3, LifecycleTypes, PTL DEF Spec

=============================================================================
