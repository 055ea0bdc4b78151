------------------------------ MODULE Lifecycle ------------------------------
(* The lives of the two processes of a deployment: cmd/worker and cmd/api.   *)
(* Each connects to the database, serves, and leaves through one of several  *)
(* paths (a signal, a listener that failed, the API's watchdog); the         *)
(* platform decides from the exit code whether it comes back (railway.json:  *)
(* restartPolicyType ON_FAILURE, restartPolicyMaxRetries). The two share the *)
(* database and nothing else.                                                *)
EXTENDS Naturals, FiniteSets

CONSTANTS
  MaxAttempts,   \* connection attempts at startup (ConnectWithRetry: 5)
  Threshold,     \* failed probes that trip the watchdog (watchdogFailureThreshold: 3)
  MaxRetries,    \* restarts the platform grants (restartPolicyMaxRetries: 10)
  MaxDeploys,    \* bound: deployments, each of which sends a SIGTERM
  MaxFaults      \* bound: outages, leaks and failed listeners

ASSUME LifecycleAssumption ==
  /\ MaxAttempts \in Nat \ {0}
  /\ Threshold \in Nat \ {0}
  /\ MaxRetries \in Nat
  /\ MaxDeploys \in Nat
  /\ MaxFaults \in Nat

VARIABLES
  dbUp,        \* the database answers
  pc,          \* where each process is
  attempts,    \* connection attempts of the current start
  code,        \* exit code of the last exit of each process
  signalled,   \* the platform has sent SIGTERM to this instance
  retries,     \* restarts after a failure in this deployment
  \* The worker.
  live,        \* sampler goroutines that have not returned
  cancelled,   \* samplers whose context is cancelled
  busy,        \* samples, tasks and health pings in progress
  late,        \* the 15 s shutdown budget is spent
  \* The API.
  leaked,      \* every pool connection is held and never returned
  consecutive, \* Watchdog.consecutive
  deploys,     \* deployments so far
  faults       \* faults so far

platform == <<dbUp, deploys, faults>>

worker == <<live, cancelled, busy, late>>

api == <<leaked, consecutive>>

vars == <<dbUp, pc, attempts, code, signalled, retries, live, cancelled, busy,
          late, leaked, consecutive, deploys, faults>>

Services == {"worker", "api"}

\* The samplers in the order in which a shutdown stops them. Two of them query
\* the database; the queue sampler talks to Redis only.
Samplers == {"freshness", "benchmark", "queue"}

\* Activities that hold a pool connection, which pgxpool.Close waits for.
PoolUsers == {"freshness", "benchmark", "task", "ping"}

\* The variables have their types.
TypeOK ==
  /\ dbUp \in BOOLEAN
  /\ pc \in [Services -> {"down", "connect", "serving", "health", "drain",
                          "abort", "metrics", "tripped", "stopping", "closing"}
                         \cup Samplers]
  /\ attempts \in [Services -> 0 .. MaxAttempts]
  /\ code \in [Services -> {0, 1}]
  /\ signalled \in [Services -> BOOLEAN]
  /\ retries \in [Services -> 0 .. MaxRetries]
  /\ live \subseteq Samplers
  /\ cancelled \subseteq Samplers
  /\ busy \subseteq Samplers \cup PoolUsers
  /\ late \in BOOLEAN
  /\ leaked \in BOOLEAN
  /\ consecutive \in 0 .. Threshold
  /\ deploys \in 0 .. MaxDeploys
  /\ faults \in 0 .. MaxFaults

Goto(s, where) == pc' = [pc EXCEPT ![s] = where]

\* A process ends: its goroutines, its connections and its counters go with it.
Exit(s, c) ==
  /\ Goto(s, "down")
  /\ code' = [code EXCEPT ![s] = c]
  /\ IF s = "worker"
     THEN live' = {} /\ cancelled' = {} /\ busy' = {} /\ late' = FALSE /\ UNCHANGED api
     ELSE leaked' = FALSE /\ consecutive' = 0 /\ UNCHANGED worker

-----------------------------------------------------------------------------
(* The platform and the faults.                                              *)

\* A new deployment replaces the instance it signalled; a failed instance is
\* restarted while the policy has retries left; a process that ended with 0 by
\* itself stays down.
Start(s) ==
  /\ pc[s] = "down"
  /\ \/ /\ signalled[s]
        /\ retries' = [retries EXCEPT ![s] = 0]
     \/ /\ ~signalled[s]
        /\ code[s] = 1
        /\ retries[s] < MaxRetries
        /\ retries' = [retries EXCEPT ![s] = @ + 1]
  /\ signalled' = [signalled EXCEPT ![s] = FALSE]
  /\ attempts' = [attempts EXCEPT ![s] = 0]
  /\ Goto(s, "connect")
  /\ UNCHANGED <<code, platform, worker, api>>

\* SIGTERM ends a process that has not installed its handler, starts the
\* graceful shutdown of a serving one, and is ignored by one already leaving.
Sigterm(s) ==
  /\ pc[s] # "down"
  /\ ~signalled[s]
  /\ deploys < MaxDeploys
  /\ deploys' = deploys + 1
  /\ signalled' = [signalled EXCEPT ![s] = TRUE]
  /\ CASE pc[s] = "connect" -> Exit(s, 1)
       [] pc[s] = "serving" /\ s = "worker" -> Goto(s, "health") /\ UNCHANGED <<code, worker, api>>
       [] pc[s] = "serving" /\ s = "api" -> Goto(s, "stopping") /\ UNCHANGED <<code, worker, api>>
       [] OTHER -> UNCHANGED <<pc, code, worker, api>>
  /\ UNCHANGED <<dbUp, faults, attempts, retries>>

\* The platform kills what is still there when its grace period ends.
Sigkill(s) ==
  /\ signalled[s]
  /\ pc[s] # "down"
  /\ Exit(s, 1)
  /\ UNCHANGED <<platform, attempts, signalled, retries>>

DbFails ==
  /\ dbUp
  /\ faults < MaxFaults
  /\ faults' = faults + 1
  /\ dbUp' = FALSE
  /\ UNCHANGED <<pc, attempts, code, signalled, retries, worker, api, deploys>>

DbRecovers ==
  /\ ~dbUp
  /\ dbUp' = TRUE
  /\ UNCHANGED <<pc, attempts, code, signalled, retries, worker, api, deploys, faults>>

-----------------------------------------------------------------------------
(* Startup, the same in both programs.                                       *)

\* What a process that reached the end of its startup runs with.
Serve(s) ==
  /\ Goto(s, "serving")
  /\ IF s = "worker" THEN live' = Samplers /\ UNCHANGED <<cancelled, busy, late, api>>
                     ELSE UNCHANGED <<worker, api>>
  /\ UNCHANGED <<code, attempts>>

\* One attempt of ConnectWithRetry; the last one that fails ends the process.
Connect(s) ==
  /\ pc[s] = "connect"
  /\ \/ dbUp /\ Serve(s)
     \/ /\ ~dbUp
        /\ attempts' = [attempts EXCEPT ![s] = @ + 1]
        /\ IF attempts'[s] = MaxAttempts THEN Exit(s, 1) ELSE UNCHANGED <<pc, code, worker, api>>
  /\ UNCHANGED <<platform, signalled, retries>>

\* Anything else at startup that is fatal: Redis, the scheduler, asynq's Start.
StartupFails(s) ==
  /\ pc[s] = "connect"
  /\ faults < MaxFaults
  /\ faults' = faults + 1
  /\ Exit(s, 1)
  /\ UNCHANGED <<dbUp, deploys, attempts, signalled, retries>>

-----------------------------------------------------------------------------
(* The worker at work: samplers on their tickers, tasks, health pings.       *)

Working(p) == pc["worker"] \in p

\* A tick: a sampler whose context is cancelled takes no further sample.
BeginSample(s) ==
  /\ s \in live \ (busy \cup cancelled)
  /\ busy' = busy \cup {s}
  /\ UNCHANGED <<live, cancelled, late>>

\* Tasks are fetched until asynq's Shutdown, pings arrive until the listener's.
BeginWork(x) ==
  /\ x \notin busy
  /\ \/ x = "task" /\ Working({"serving", "health"})
     \/ x = "ping" /\ Working({"serving"})
  /\ busy' = busy \cup {x}
  /\ UNCHANGED <<live, cancelled, late>>

\* Queries end by an answer, their timeout or a cancelled context; a ping has
\* no deadline of its own and may last until the connection is given up.
EndWork(x) ==
  /\ x \in busy
  /\ busy' = busy \ {x}
  /\ UNCHANGED <<live, cancelled, late>>

\* The goroutine sees its context done and closes its done channel.
SamplerReturns(s) ==
  /\ s \in live \cap cancelled
  /\ s \notin busy
  /\ live' = live \ {s}
  /\ UNCHANGED <<cancelled, busy, late>>

WorkerActivity ==
  /\ \/ \E s \in Samplers : BeginSample(s) \/ SamplerReturns(s)
     \/ \E x \in {"task", "ping"} : BeginWork(x)
     \/ \E x \in busy : EndWork(x)
  /\ UNCHANGED <<platform, pc, attempts, code, signalled, retries, api>>

-----------------------------------------------------------------------------
(* The worker's way out.                                                     *)

\* The phases that wait under the one budget, in order.
Shutdown == {"health", "drain", "metrics"} \cup Samplers

Phase == [health |-> "drain", drain |-> "freshness", freshness |-> "benchmark",
          benchmark |-> "queue", queue |-> "metrics", metrics |-> "closing"]

\* The 15 s of shutdownCtx, and the 10 s of the exit after a listener failure.
Deadline ==
  /\ Working(Shutdown \cup {"abort"})
  /\ ~late
  /\ late' = TRUE
  /\ UNCHANGED <<live, cancelled, busy, pc, code>>

\* Mutant: the stop functions are called and their goroutines not waited for.
FinishedOrCancelled(p) ==
  CASE p = "health" -> "ping" \notin busy
    [] p \in Samplers -> p \in cancelled
    [] OTHER -> TRUE

\* What the phase p waits for. asynq's Shutdown gives a task up after 8 s, so
\* it ends with the task done or abandoned.
Finished(p) ==
  CASE p = "health" -> "ping" \notin busy
    [] p \in Samplers -> p \notin live
    [] OTHER -> TRUE

\* Entering a sampler's phase calls its stop function before the wait.
EnterPhase(p) ==
  /\ Goto("worker", p)
  /\ cancelled' = CASE p \in Samplers -> cancelled \cup {p}
                    [] p = "closing" -> Samplers
                    [] OTHER -> cancelled
  /\ UNCHANGED <<live, busy, late>>

\* A phase that times out is skipped, except the drain: it ends the shutdown.
NextPhase ==
  /\ Working(Shutdown)
  /\ LET p == pc["worker"]
     IN \/ /\ Finished(p) \/ late
           /\ EnterPhase(Phase[p])
           /\ code' = [code EXCEPT !["worker"] = 0]
        \/ /\ p = "drain" /\ late
           /\ EnterPhase("closing")
           /\ code' = [code EXCEPT !["worker"] = 1]

\* The health listener fails: drain for at most 10 s and return the error.
HealthListenerFails ==
  /\ Working({"serving"})
  /\ faults < MaxFaults
  /\ faults' = faults + 1
  /\ EnterPhase("abort")
  /\ UNCHANGED <<dbUp, deploys, attempts, code, signalled, retries, api>>

\* Mutant: the error is logged and run() returns nil.
AbortAsStop ==
  /\ Working({"abort"})
  /\ EnterPhase("closing")
  /\ code' = [code EXCEPT !["worker"] = 0]

ReturnHealthErr ==
  /\ Working({"abort"})
  /\ EnterPhase("closing")
  /\ code' = [code EXCEPT !["worker"] = 1]

WorkerShutdown ==
  /\ Deadline \/ NextPhase \/ ReturnHealthErr
  /\ UNCHANGED <<platform, attempts, signalled, retries, api>>

\* The deferred db.Close waits for every connection to come back, outside the
\* budget of the shutdown.
WorkerCloses ==
  /\ Working({"closing"})
  /\ busy \cap PoolUsers = {}
  /\ Exit("worker", code["worker"])
  /\ UNCHANGED <<platform, attempts, signalled, retries>>

-----------------------------------------------------------------------------
(* The API: the watchdog and its ways out.                                   *)

\* Requests stop returning their connections: the pool is exhausted for good.
PoolLeaks ==
  /\ pc["api"] = "serving"
  /\ ~leaked
  /\ faults < MaxFaults
  /\ faults' = faults + 1
  /\ leaked' = TRUE
  /\ UNCHANGED <<dbUp, deploys, pc, attempts, code, signalled, retries, worker, consecutive>>

\* Checker.Check as the watchdog uses it: the pool's Ping within its timeout.
DBOK == dbUp /\ ~leaked

\* Watchdog.Observe: the new count, 0 after a success and after a trip.
Observe(healthy) == IF healthy \/ consecutive + 1 >= Threshold THEN 0 ELSE consecutive + 1

\* A tick of runWatchdog; a trip is queued for main.
Probe ==
  /\ pc["api"] = "serving"
  /\ consecutive' = Observe(DBOK)
  /\ IF ~DBOK /\ consecutive + 1 >= Threshold THEN Goto("api", "tripped") ELSE UNCHANGED pc
  /\ UNCHANGED <<platform, attempts, code, signalled, retries, worker, leaked>>

\* Mutant: main returns through its defers instead of calling os.Exit.
TripReturns ==
  /\ pc["api"] = "tripped"
  /\ Goto("api", "closing")
  /\ code' = [code EXCEPT !["api"] = 1]
  /\ UNCHANGED <<platform, attempts, signalled, retries, worker, api>>

\* The trip: a bounded shutdown and flush, then os.Exit, which runs no defer.
TripExits ==
  /\ pc["api"] = "tripped"
  /\ Exit("api", 1)
  /\ UNCHANGED <<platform, attempts, signalled, retries>>

\* app.Listen failed: main returns, so the exit code is 0.
ListenFails ==
  /\ pc["api"] = "serving"
  /\ faults < MaxFaults
  /\ faults' = faults + 1
  /\ Goto("api", "closing")
  /\ code' = [code EXCEPT !["api"] = 0]
  /\ UNCHANGED <<dbUp, deploys, attempts, signalled, retries, worker, api>>

\* The signal: ShutdownWithTimeout(10 s), then the defers.
ApiStops ==
  /\ pc["api"] = "stopping"
  /\ Goto("api", "closing")
  /\ code' = [code EXCEPT !["api"] = 0]
  /\ UNCHANGED <<platform, attempts, signalled, retries, worker, api>>

\* db.Close waits for the connections, so with a leaked pool it never returns.
ApiCloses ==
  /\ pc["api"] = "closing"
  /\ ~leaked
  /\ Exit("api", code["api"])
  /\ UNCHANGED <<platform, attempts, signalled, retries>>

-----------------------------------------------------------------------------
Init ==
  /\ dbUp = TRUE
  /\ pc = [s \in Services |-> "connect"]
  /\ attempts = [s \in Services |-> 0]
  /\ code = [s \in Services |-> 0]
  /\ signalled = [s \in Services |-> FALSE]
  /\ retries = [s \in Services |-> 0]
  /\ live = {} /\ cancelled = {} /\ busy = {} /\ late = FALSE
  /\ leaked = FALSE /\ consecutive = 0
  /\ deploys = 0 /\ faults = 0

ServiceStep(s) == Start(s) \/ Sigterm(s) \/ Sigkill(s) \/ Connect(s) \/ StartupFails(s)

WorkerStep == WorkerActivity \/ HealthListenerFails \/ WorkerShutdown \/ WorkerCloses

ApiStep == PoolLeaks \/ Probe \/ TripExits \/ ListenFails \/ ApiStops \/ ApiCloses

Next == (\E s \in Services : ServiceStep(s)) \/ DbFails \/ DbRecovers \/ WorkerStep \/ ApiStep

(* Fairness: a process that can go on does; timers fire, samples, tasks and  *)
(* pings end (all under a timeout, a cancelled context or TCP's own); the    *)
(* platform starts what its policy says and kills what outstays its grace.   *)
(* Nothing is assumed of faults, deployments, new work or the database.      *)
Fairness ==
  /\ \A s \in Services : WF_vars(Start(s)) /\ WF_vars(Connect(s)) /\ WF_vars(Sigkill(s))
  /\ WF_vars(WorkerShutdown) /\ WF_vars(WorkerCloses)
  /\ \A x \in Samplers \cup PoolUsers :
       WF_vars(EndWork(x) /\ UNCHANGED <<platform, pc, attempts, code, signalled, retries, api>>)
  /\ WF_vars(Probe) /\ WF_vars(TripExits) /\ WF_vars(ApiStops) /\ WF_vars(ApiCloses)

Spec == Init /\ [][Next]_vars /\ Fairness

-----------------------------------------------------------------------------
(* Properties.                                                               *)

(* A worker that leaves comes back, whatever made it leave and however its   *)
(* shutdown went, unless the platform's retries are used up: no path out of  *)
(* run() that the platform did not ask for ends with exit code 0.            *)
ComesBack ==
  pc["worker"] # "serving" ~>
    (pc["worker"] = "serving" \/ retries["worker"] = MaxRetries)

(* A leaked connection pool does not outlast the watchdog: the process is    *)
(* replaced, although closing the pool gracefully would wait forever. The    *)
(* exceptions are a listener that failed, whose exit waits for the pool, and *)
(* retries that are used up.                                                 *)
WedgeIsCured ==
  (leaked /\ pc["api"] = "serving") ~>
    (~leaked \/ (pc["api"] = "closing" /\ code["api"] = 0 /\ ~signalled["api"]))

(* However the worker comes to close its pool, every sampler has been told   *)
(* to stop. One that still runs then, perhaps in the middle of a query, means *)
(* that the 15 s budget was spent, or that run() returned an error: after a   *)
(* failed health listener, and after a drain that timed out, nothing waits    *)
(* for the samplers.                                                          *)
PoolClosesQuiet ==
  pc["worker"] = "closing" =>
    /\ cancelled = Samplers
    /\ live # {} \/ busy \cap Samplers # {} => late \/ code["worker"] = 1

=============================================================================
