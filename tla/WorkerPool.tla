----------------------------- MODULE WorkerPool -----------------------------
(***************************************************************************)
(* The processes of the server and who watches whom.  The main process     *)
(* runs the Supervisor (src/pyqgisserver/zeromq/supervisor.py) and the     *)
(* healthcheck of WorkerPoolServer (src/pyqgisserver/qgspool.py); the pool *)
(* process runs run_worker_pool over Pool (src/pyqgisserver/zeromq/        *)
(* pool.py); the workers tell the supervisor when they are busy.           *)
(*                                                                         *)
(* Pids are numbered in the order of fork and not reused.  Timers are not  *)
(* timed: the timer of a job that has not ended may fire, which for a job  *)
(* that would have ended counts as a fault.                                *)
(*                                                                         *)
(* Definitions named Mut_... are faulty variants of the one that follows   *)
(* them, kept to show that the properties reject them.                     *)
(***************************************************************************)
EXTENDS Naturals, Sequences, FiniteSets

CONSTANTS
    NumWorkers,   \* size of the pool
    MaxPid,       \* bound on the processes forked
    MaxJobs,      \* bound on the jobs of a worker
    MaxFaults     \* bound on what goes wrong

ASSUME PoolAssumption ==
    /\ NumWorkers \in Nat \ {0}
    /\ MaxPid \in Nat
    /\ MaxJobs \in Nat
    /\ MaxFaults \in Nat

Pids == 1..MaxPid

VARIABLES
    main,       \* "running", "stopping" (in WorkerPoolServer.terminate) or "down"
    \* Supervisor
    busy,       \* per pid: the job of the timer in _busy, or 0
    timers,     \* the pending timers, as <<pid, job>>
    \* the pool process
    pool,       \* "forking", "running", "joining", "exited", "aborted" or "killed"
    procs,      \* Pool._pool
    spawned,    \* number of workers forked
    early,      \* less than EARLY_FAILURE_DELAY since the start
    \* the workers
    proc,       \* per pid: see States
    job,        \* per pid: number of requests received
    linked,     \* pids whose socket to the supervisor is connected
    wire,       \* per pid: messages to the supervisor
    told,       \* pids whose last BUSY was sent
    graceful,   \* pids that inherited the SIGTERM handler of the pool process
    asked,      \* pids with a SIGTERM to handle when QGIS returns
    faults

supervisorVars == <<busy, timers>>
poolVars == <<pool, procs, spawned, early>>
workerVars == <<proc, job, linked, wire, told, graceful, asked>>
vars == <<main, supervisorVars, poolVars, workerVars, faults>>

(* "stalled" is a handler that never returns; "exited" is exit code 0 and  *)
(* "failed" any other.                                                     *)
States == {"none", "starting", "idle", "busy", "stalled", "exited", "failed"}

Alive(p) == proc[p] \in {"starting", "idle", "busy", "stalled"}

Dead(p) == proc[p] \in {"exited", "failed"}

Init ==
    /\ main = "running"
    /\ busy = [p \in Pids |-> 0]
    /\ timers = {}
    /\ pool = "forking"
    /\ procs = {}
    /\ spawned = 0
    /\ early = TRUE
    /\ proc = [p \in Pids |-> "none"]
    /\ job = [p \in Pids |-> 0]
    /\ linked = {}
    /\ wire = [p \in Pids |-> <<>>]
    /\ told = {}
    /\ graceful = {}
    /\ asked = {}
    /\ faults = 0

Fault ==
    /\ faults < MaxFaults
    /\ faults' = faults + 1

(* Process p stops with exit code 0 or another.                            *)
Stops(p, how) == proc' = [proc EXCEPT ![p] = how]

-----------------------------------------------------------------------------
(* Client._send: DONTWAIT and IMMEDIATE drop the message while the socket  *)
(* is not connected.                                                       *)
Notify(p, msg, n) ==
    wire' = IF p \in linked THEN [wire EXCEPT ![p] = Append(@, [msg |-> msg, job |-> n])] ELSE wire

(* init_server is done and the worker enters its loop; or it fails.        *)
WorkerStarts(p) ==
    /\ proc[p] = "starting"
    /\ Stops(p, "idle")
    /\ UNCHANGED <<main, supervisorVars, poolVars, job, linked, wire, told, graceful, asked, faults>>

(* The socket of Client is connected, at some point after its creation.    *)
Link(p) ==
    /\ proc[p] \in {"idle", "busy"}
    /\ linked' = linked \cup {p}
    /\ UNCHANGED <<main, supervisorVars, poolVars, proc, job, wire, told, graceful, asked, faults>>

(* A request is received: notify_busy.                                     *)
StartJob(p) ==
    /\ proc[p] = "idle"
    /\ main # "down"
    /\ job[p] < MaxJobs
    /\ job' = [job EXCEPT ![p] = @ + 1]
    /\ Stops(p, "busy")
    /\ Notify(p, "BUSY", job'[p])
    /\ told' = IF p \in linked THEN told \cup {p} ELSE told \ {p}
    /\ UNCHANGED <<main, supervisorVars, poolVars, linked, graceful, asked, faults>>

(* handle_message is over: notify_done.  The worker goes on, unless the    *)
(* SIGTERM of the pool is pending.                                         *)
EndJob(p) ==
    /\ proc[p] = "busy"
    /\ Stops(p, IF p \in asked THEN "exited" ELSE "idle")
    /\ Notify(p, "DONE", job[p])
    /\ UNCHANGED <<main, supervisorVars, poolVars, job, linked, told, graceful, asked, faults>>

(* The same with an error 500, after which the worker leaves its loop.     *)
FailJob(p) ==
    /\ Fault
    /\ proc[p] = "busy"
    /\ Stops(p, "exited")
    /\ Notify(p, "DONE", job[p])
    /\ UNCHANGED <<main, supervisorVars, poolVars, job, linked, told, graceful, asked>>

(* The worker leaves its loop on RESTART.                                  *)
LeaveOnRestart(p) ==
    /\ Fault
    /\ proc[p] = "idle"
    /\ Stops(p, "exited")
    /\ UNCHANGED <<main, supervisorVars, poolVars, job, linked, wire, told, graceful, asked>>

Stall(p) ==
    /\ Fault
    /\ proc[p] = "busy"
    /\ Stops(p, "stalled")
    /\ UNCHANGED <<main, supervisorVars, poolVars, job, linked, wire, told, graceful, asked>>

(* A crash, an error of init_server, or the SIGKILL of check_oom_status.   *)
Crash(p) ==
    /\ Fault
    /\ Alive(p)
    /\ Stops(p, "failed")
    /\ UNCHANGED <<main, supervisorVars, poolVars, job, linked, wire, told, graceful, asked>>

-----------------------------------------------------------------------------
Mut_RecvPopsOnly(p) ==
    LET m == Head(wire[p]) IN
    /\ main = "running"
    /\ wire[p] # <<>>
    /\ wire' = [wire EXCEPT ![p] = Tail(@)]
    /\ busy' = [busy EXCEPT ![p] = IF m.msg = "BUSY" THEN m.job ELSE 0]
    /\ timers' = IF m.msg = "BUSY" THEN timers \cup {<<p, m.job>>} ELSE timers
    /\ UNCHANGED <<main, poolVars, proc, job, linked, told, graceful, asked, faults>>

(* Supervisor._run_async: BUSY arms a timer, DONE cancels the one in the   *)
(* dictionary, if any.                                                     *)
Recv(p) ==
    LET m == Head(wire[p]) IN
    /\ main = "running"
    /\ wire[p] # <<>>
    /\ wire' = [wire EXCEPT ![p] = Tail(@)]
    /\ busy' = [busy EXCEPT ![p] = IF m.msg = "BUSY" THEN m.job ELSE 0]
    /\ timers' = IF m.msg = "BUSY" THEN timers \cup {<<p, m.job>>} ELSE timers \ {<<p, busy[p]>>}
    /\ UNCHANGED <<main, poolVars, proc, job, linked, told, graceful, asked, faults>>

Mut_KillBySigterm(p, n) ==
    /\ main = "running"
    /\ <<p, n>> \in timers
    /\ IF proc[p] \in {"idle", "busy"} THEN Fault ELSE UNCHANGED faults
    /\ timers' = timers \ {<<p, n>>}
    /\ busy' = [busy EXCEPT ![p] = 0]
    /\ proc' = IF busy[p] # 0 /\ Alive(p) /\ proc[p] # "stalled" THEN [proc EXCEPT ![p] = "failed"] ELSE proc
    /\ UNCHANGED <<main, poolVars, job, linked, wire, told, graceful, asked>>

(* kill: the entry is deleted, which raises when there is none, and the    *)
(* process gets SIGKILL if it is there.                                    *)
Kill(p, n) ==
    /\ main = "running"
    /\ <<p, n>> \in timers
    /\ IF proc[p] \in {"idle", "busy"} THEN Fault ELSE UNCHANGED faults
    /\ timers' = timers \ {<<p, n>>}
    /\ busy' = [busy EXCEPT ![p] = 0]
    /\ proc' = IF busy[p] # 0 /\ Alive(p) THEN [proc EXCEPT ![p] = "failed"] ELSE proc
    /\ UNCHANGED <<main, poolVars, job, linked, wire, told, graceful, asked>>

-----------------------------------------------------------------------------
Mut_ForkOneMore(n, S) ==
    LET new == (spawned + 1)..(spawned + n + 1) IN
    /\ n \in Nat
    /\ spawned + n <= MaxPid
    /\ spawned' = spawned + n + 1
    /\ procs' = S \cup new
    /\ proc' = [p \in Pids |-> IF p \in new THEN "starting" ELSE proc[p]]

(* The next n processes, forked by _repopulate_pool.                       *)
Fork(n, S) ==
    LET new == (spawned + 1)..(spawned + n) IN
    /\ n \in Nat
    /\ spawned + n <= MaxPid
    /\ spawned' = spawned + n
    /\ procs' = S \cup new
    /\ proc' = [p \in Pids |-> IF p \in new THEN "starting" ELSE proc[p]]

(* Pool.__init__, before the SIGTERM handler of run_worker_pool is set.    *)
ForkFirst ==
    /\ pool = "forking"
    /\ procs = {}
    /\ Fork(NumWorkers, {})
    /\ UNCHANGED <<main, supervisorVars, pool, early, job, linked, wire, told, graceful, asked, faults>>

SetHandler ==
    /\ pool = "forking"
    /\ procs # {}
    /\ pool' = "running"
    /\ UNCHANGED <<main, supervisorVars, procs, spawned, early, workerVars, faults>>

EarlyDelayOver ==
    /\ early
    /\ early' = FALSE
    /\ UNCHANGED <<main, supervisorVars, pool, procs, spawned, workerVars, faults>>

Exited == {p \in procs : Dead(p)}

(* _join_exited_workers finds an early failure: SIGABRT, which nothing     *)
(* handles, ends the pool process there and then.                          *)
Abort ==
    /\ pool = "running"
    /\ early
    /\ \E p \in procs : proc[p] = "failed"
    /\ pool' = "aborted"
    /\ UNCHANGED <<main, supervisorVars, procs, spawned, early, workerVars, faults>>

Mut_MaintainFailuresOnly ==
    /\ pool = "running"
    /\ \E p \in procs : proc[p] = "failed"
    /\ ~ early
    /\ Fork(Cardinality({p \in procs : proc[p] = "failed"}), {p \in procs : proc[p] # "failed"})
    /\ graceful' = graceful \cup (procs' \ procs)
    /\ UNCHANGED <<main, supervisorVars, pool, early, job, linked, wire, told, asked, faults>>

(* maintain_pool: the exited workers are joined and replaced.              *)
Maintain ==
    /\ pool = "running"
    /\ Exited # {}
    /\ ~ (early /\ \E p \in procs : proc[p] = "failed")
    /\ Fork(NumWorkers - Cardinality(procs \ Exited), procs \ Exited)
    /\ graceful' = graceful \cup (procs' \ procs)
    /\ UNCHANGED <<main, supervisorVars, pool, early, job, linked, wire, told, asked, faults>>

Mut_JoinNobody ==
    /\ pool = "joining"
    /\ pool' = "exited"
    /\ UNCHANGED <<main, supervisorVars, procs, spawned, early, workerVars, faults>>

(* Pool._terminate_pool joins its workers; the pool process ends.          *)
JoinWorkers ==
    /\ pool = "joining"
    /\ \A p \in procs : Dead(p)
    /\ pool' = "exited"
    /\ UNCHANGED <<main, supervisorVars, procs, spawned, early, workerVars, faults>>

-----------------------------------------------------------------------------
Mut_OnSigtermIgnored(p) == proc[p]

(* The effect of SIGTERM on a worker: the default one, or SystemExit, as   *)
(* soon as the interpreter runs.                                           *)
OnSigterm(p) ==
    CASE p \notin procs \/ ~ Alive(p) -> proc[p]
      [] p \in procs /\ Alive(p) /\ p \notin graceful -> "failed"
      [] p \in procs /\ proc[p] \in {"starting", "idle"} /\ p \in graceful -> "exited"
      [] OTHER -> proc[p]

(* Supervisor.stop: every timer is cancelled.                              *)
StopSupervisor ==
    /\ busy' = [p \in Pids |-> 0]
    /\ timers' = {}

(* WorkerPoolServer.terminate, after the server got SIGTERM or an error    *)
(* ended its loop: the supervisor is stopped, and the pool process, if it  *)
(* runs, is sent SIGTERM.  Its handler sends SIGTERM to the workers.       *)
TerminateServer ==
    /\ main = "running"
    /\ main' = "stopping"
    /\ StopSupervisor
    /\ pool' = CASE pool = "forking" -> "killed" [] pool = "running" -> "joining" [] OTHER -> pool
    /\ proc' = IF pool = "running" THEN [p \in Pids |-> OnSigterm(p)] ELSE proc
    /\ asked' = IF pool = "running" THEN procs \cap graceful ELSE asked
    /\ UNCHANGED <<procs, spawned, early, job, linked, wire, told, graceful, faults>>

(* healthcheck: SystemExit when the pool process failed.                   *)
HealthCheck ==
    /\ pool \in {"aborted", "killed"}
    /\ TerminateServer

(* WorkerPoolServer._terminate_pool joins the pool process.                *)
JoinPool ==
    /\ main = "stopping"
    /\ pool \in {"exited", "aborted", "killed"}
    /\ main' = "down"
    /\ UNCHANGED <<supervisorVars, poolVars, workerVars, faults>>

-----------------------------------------------------------------------------
WorkerStep(p) == WorkerStarts(p) \/ Link(p) \/ EndJob(p)

WorkerFault(p) == FailJob(p) \/ LeaveOnRestart(p) \/ Stall(p) \/ Crash(p)

PoolStep == ForkFirst \/ SetHandler \/ EarlyDelayOver \/ Abort \/ Maintain \/ JoinWorkers

Next ==
    \/ \E p \in Pids : WorkerStep(p) \/ StartJob(p) \/ WorkerFault(p) \/ Recv(p)
    \/ \E p \in Pids, n \in 1..MaxJobs : Kill(p, n)
    \/ PoolStep
    \/ TerminateServer
    \/ HealthCheck
    \/ JoinPool

(* Processes run, the supervisor reads its socket and its timers fire; a   *)
(* worker's socket is connected in the end.                                *)
Fairness ==
    /\ \A p \in Pids :
         /\ WF_vars(WorkerStarts(p)) /\ WF_vars(Link(p)) /\ WF_vars(EndJob(p))
         /\ WF_vars(Recv(p))
         /\ \A n \in 1..MaxJobs : WF_vars(Kill(p, n))
    /\ WF_vars(PoolStep)
    /\ WF_vars(HealthCheck)
    /\ WF_vars(JoinPool)

SafetySpec == Init /\ [][Next]_vars

Spec == SafetySpec /\ Fairness

-----------------------------------------------------------------------------
Message == [msg : {"BUSY", "DONE"}, job : Nat]

(* Type correctness; the pool never forks beyond its bound of processes.   *)
TypeOK ==
    /\ main \in {"running", "stopping", "down"}
    /\ busy \in [Pids -> Nat]
    /\ timers \subseteq Pids \X Nat
    /\ pool \in {"forking", "running", "joining", "exited", "aborted", "killed"}
    /\ procs \subseteq Pids
    /\ spawned \in 0..MaxPid
    /\ early \in BOOLEAN
    /\ proc \in [Pids -> States]
    /\ job \in [Pids -> Nat]
    /\ linked \subseteq Pids
    /\ wire \in [Pids -> Seq(Message)]
    /\ told \subseteq Pids
    /\ graceful \subseteq Pids
    /\ asked \subseteq Pids
    /\ faults \in Nat

(* A pending timer is the one its worker's entry holds, so that DONE       *)
(* cancels it and kill finds an entry to delete; and it is the timer of    *)
(* the job its worker is on, or whose DONE is still unread.  No worker is  *)
(* killed on account of a job the supervisor was told is over.             *)
KillsOnlyTheLate ==
    \A t \in timers :
       LET p == t[1]
           n == t[2]
       IN  /\ busy[p] = n
           /\ \/ Dead(p)
              \/ proc[p] \in {"busy", "stalled"} /\ job[p] = n
              \/ \E i \in DOMAIN wire[p] : wire[p][i] = [msg |-> "DONE", job |-> n]

(* No worker outlives an orderly stop: when the main process is down after *)
(* the pool process ended by itself, no worker is left.                    *)
OrderlyStop == main = "down" /\ pool = "exited" => \A p \in Pids : ~ Alive(p)

(* A worker whose handler never returns is killed, once the supervisor was *)
(* told of its request.                                                    *)
StalledIsKilled ==
    \A p \in Pids :
       proc[p] = "stalled" /\ p \in told ~> proc[p] # "stalled" \/ main # "running"

(* The pool is brought back to its size whatever its workers died of, or   *)
(* the server stops.                                                       *)
PoolRecovers ==
    []<>(main # "running" \/ Cardinality({p \in procs : Alive(p)}) = NumWorkers)

(* A stop ends, unless a replacement worker, which handles SIGTERM in the  *)
(* interpreter, is in a handler that never returns.                        *)
StopEnds ==
    main = "stopping" ~> main = "down" \/ \E p \in graceful : proc[p] = "stalled"

(* Pool.__init__: "Ensure that pool is terminated is called at process     *)
(* exit".  When an early failure aborted the pool process and the server   *)
(* stopped for it, no worker is left.                                      *)
AbortLeavesNoWorker == main = "down" /\ pool = "aborted" => \A p \in Pids : ~ Alive(p)
=============================================================================
