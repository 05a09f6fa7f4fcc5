-------------------------------- MODULE Server --------------------------------
(***************************************************************************)
(* run_server of src/pyqgisserver/runtime.py: it starts the broker and the *)
(* pool processes and the parts of the main process, serves until it is    *)
(* told to stop or something fails, and takes down what was started.       *)
(*                                                                         *)
(* What these parts do is in the other modules; here the broker and the    *)
(* pool are processes that start, end, fail and handle SIGTERM.            *)
(*                                                                         *)
(* Definitions named Mut_... are faulty variants of the one that follows   *)
(* them, kept to show that the properties reject them.                     *)
(***************************************************************************)
EXTENDS Naturals, Sequences, SequencesExt

CONSTANT MaxFaults   \* bound on failures and signals

ASSUME ServerAssumption == MaxFaults \in Nat

VARIABLES
    options,      \* "management" is enabled, there are "workers"
    main,         \* "starting", "serving", "stopping", "exiting", "exited" or "killed"
    step,         \* position in Steps or in Teardown
    started,      \* the parts that run and that run_server knows of
    worker_pool,  \* run_server holds a WorkerPoolServer
    broker,       \* broker process: "none", "running", "stopping" or "ended"
    pool,         \* pool process: the same, or "failed"
    exit_code,
    faults

mainVars == <<options, main, step, started, worker_pool, exit_code>>
childVars == <<broker, pool>>
vars == <<mainVars, childVars, faults>>

(* What run_server starts, in order.  create_poolserver forks the pool     *)
(* process and then creates its WorkerPoolServer.                          *)
Steps == <<"broker", "pool", "poolserver", "sockets", "application", "http",
           "management", "supervisor", "observer", "signal">>

(* A part is passed over when its option is off.                           *)
Wanted(part) ==
    /\ part = "management" => "management" \in options
    /\ part \in {"pool", "poolserver", "supervisor"} => "workers" \in options

Mut_TeardownBrokerFirst == <<"http", "management", "application", "observer", "broker", "poolserver">>

(* What it stops, in order.                                                *)
Teardown == <<"http", "management", "application", "observer", "poolserver", "broker">>

Init ==
    /\ options \in SUBSET {"management", "workers"}
    /\ main = "starting"
    /\ step = 1
    /\ started = {}
    /\ worker_pool = FALSE
    /\ broker = "none"
    /\ pool = "none"
    /\ exit_code = 0
    /\ faults = 0

Fault ==
    /\ faults < MaxFaults
    /\ faults' = faults + 1

-----------------------------------------------------------------------------
(* A step of the start succeeds; with the last one the signal handler is   *)
(* installed and _main waits for its event.                                *)
Start ==
    LET new == {part \in {Steps[step]} : Wanted(part)}
        last == step = Len(Steps)
    IN  /\ main = "starting"
        /\ main' = IF last THEN "serving" ELSE main
        /\ step' = IF last THEN 1 ELSE step + 1
        /\ started' = started \cup (new \cap (ToSet(Teardown) \cup {"supervisor"}))
        /\ worker_pool' = (worker_pool \/ "poolserver" \in new)
        /\ broker' = IF "broker" \in new THEN "running" ELSE broker
        /\ pool' = IF "pool" \in new THEN "running" ELSE pool
        /\ UNCHANGED <<options, exit_code, faults>>

(* The try statement is left with an exit code.                            *)
Leave(code) ==
    /\ main' = "stopping"
    /\ step' = 1
    /\ exit_code' = code
    /\ UNCHANGED <<options, started, worker_pool, childVars>>

(* A step raises an exception: a port in use, a directory that may not be  *)
(* written.                                                                *)
StartFails ==
    /\ Fault
    /\ main = "starting"
    /\ Leave(1)

Interrupt ==
    /\ Fault
    /\ main \in {"starting", "serving"}
    /\ Leave(15)

(* SIGTERM sets the event that _main waits for.                            *)
Terminate ==
    /\ Fault
    /\ main = "serving"
    /\ Leave(0)

(* SIGTERM while the loop has no handler for it: before the last step of   *)
(* the start, and once asyncio.run is left.                                *)
Killed ==
    /\ Fault
    /\ main \in {"starting", "stopping", "exiting"}
    /\ main' = "killed"
    /\ UNCHANGED <<options, step, started, worker_pool, childVars, exit_code>>

Mut_HealthCheckLogsOnly ==
    /\ main = "serving"
    /\ "supervisor" \in started
    /\ pool = "failed"
    /\ UNCHANGED vars

(* healthcheck raises SystemExit(1), which leaves the loop.                *)
HealthCheck ==
    /\ main = "serving"
    /\ "supervisor" \in started
    /\ pool = "failed"
    /\ Leave(1)
    /\ UNCHANGED faults

-----------------------------------------------------------------------------
Alive(process) == process \in {"running", "stopping"}

Told(process) == IF process = "running" THEN "stopping" ELSE process

Mut_StopForgetsSupervisor(part) ==
    /\ step' = step + 1
    /\ started' = started \ {part}
    /\ pool' = IF part = "poolserver" /\ worker_pool THEN Told(pool) ELSE pool
    /\ broker' = IF part = "broker" THEN Told(broker) ELSE broker
    /\ UNCHANGED <<options, main, worker_pool, exit_code, faults>>

(* A part is stopped, if it was started.  The one of the pool is           *)
(* WorkerPoolServer.terminate: it stops the supervisor, and the pool       *)
(* process gets SIGTERM if it runs.                                        *)
TakeDown(part) ==
    /\ step' = step + 1
    /\ started' = started \ (IF part = "poolserver" THEN {"poolserver", "supervisor"} ELSE {part})
    /\ pool' = IF part = "poolserver" /\ worker_pool THEN Told(pool) ELSE pool
    /\ broker' = IF part = "broker" THEN Told(broker) ELSE broker
    /\ UNCHANGED <<options, main, worker_pool, exit_code, faults>>

(* A process that was told to stop is joined before the teardown goes on.  *)
Joined ==
    step > 1 =>
        /\ Teardown[step - 1] = "poolserver" /\ worker_pool => ~ Alive(pool)
        /\ Teardown[step - 1] = "broker" => ~ Alive(broker)

Stop ==
    /\ main = "stopping"
    /\ Joined
    /\ step <= Len(Teardown)
    /\ TakeDown(Teardown[step])

StopEnds ==
    /\ main = "stopping"
    /\ Joined
    /\ step > Len(Teardown)
    /\ main' = "exiting"
    /\ UNCHANGED <<options, step, started, worker_pool, exit_code, childVars, faults>>

(* A keyboard interrupt during the teardown leaves run_server.  At the     *)
(* exit, the Finalize of the WorkerPoolServer still stops the pool.        *)
InterruptAgain ==
    /\ Fault
    /\ main = "stopping"
    /\ main' = "exiting"
    /\ pool' = IF worker_pool THEN Told(pool) ELSE pool
    /\ UNCHANGED <<options, step, started, worker_pool, exit_code, broker>>

(* sys.exit: multiprocessing waits for the processes that are left.        *)
Exit ==
    /\ main = "exiting"
    /\ ~ Alive(broker)
    /\ ~ Alive(pool)
    /\ main' = "exited"
    /\ UNCHANGED <<options, step, started, worker_pool, exit_code, childVars, faults>>

-----------------------------------------------------------------------------
(* run_broker ends: its SIGTERM handler raises SystemExit,                 *)
BrokerStops ==
    /\ broker = "stopping"
    /\ broker' = "ended"
    /\ UNCHANGED <<mainVars, pool, faults>>

(* or it could not bind its sockets, or crashed: nobody looks at it.       *)
BrokerDies ==
    /\ Fault
    /\ broker = "running"
    /\ broker' = "ended"
    /\ UNCHANGED <<mainVars, pool>>

(* run_worker_pool ends after SIGTERM, with code 0.                        *)
PoolStops ==
    /\ pool = "stopping"
    /\ pool' = "ended"
    /\ UNCHANGED <<mainVars, broker, faults>>

(* It aborts on an early failure, or crashes.                              *)
PoolFails ==
    /\ Fault
    /\ Alive(pool)
    /\ pool' = "failed"
    /\ UNCHANGED <<mainVars, broker>>

(* A signal is sent to the pool process from outside.                      *)
PoolSignalled ==
    /\ Fault
    /\ pool = "running"
    /\ pool' = Told(pool)
    /\ UNCHANGED <<mainVars, broker>>

-----------------------------------------------------------------------------
Next ==
    \/ Start \/ StartFails \/ Interrupt \/ Terminate \/ Killed \/ HealthCheck
    \/ Stop \/ StopEnds \/ InterruptAgain \/ Exit
    \/ BrokerStops \/ BrokerDies \/ PoolStops \/ PoolFails \/ PoolSignalled

(* The processes run: the main one goes on with its start, its teardown    *)
(* and its timers, the broker and the pool handle SIGTERM.                 *)
Fairness ==
    /\ WF_vars(Start) /\ WF_vars(HealthCheck) /\ WF_vars(Stop) /\ WF_vars(StopEnds) /\ WF_vars(Exit)
    /\ WF_vars(BrokerStops) /\ WF_vars(PoolStops)

SafetySpec == Init /\ [][Next]_vars

Spec == SafetySpec /\ Fairness

-----------------------------------------------------------------------------
(* Properties.                                                             *)

(* Type correctness; the supervisor runs only beside a WorkerPoolServer.   *)
TypeOK ==
    /\ options \subseteq {"management", "workers"}
    /\ main \in {"starting", "serving", "stopping", "exiting", "exited", "killed"}
    /\ step \in 1..(Len(Steps) + 1)
    /\ started \subseteq ToSet(Teardown) \cup {"supervisor"}
    /\ "supervisor" \in started => "poolserver" \in started
    /\ worker_pool \in BOOLEAN
    /\ broker \in {"none", "running", "stopping", "ended"}
    /\ pool \in {"none", "running", "stopping", "ended", "failed"}
    /\ exit_code \in {0, 1, 15}
    /\ faults \in 0..MaxFaults

(* Whatever step failed and whenever the server was interrupted, the       *)
(* teardown stops every part that was started: the broker is not given up  *)
(* before the pool has ended, and it has been told to stop when all is     *)
(* over.  The pool process of which the WorkerPoolServer could not be      *)
(* created is the exception, and a teardown that is itself interrupted.    *)
TeardownComplete ==
    /\ main \in {"exiting", "exited"} /\ step > Len(Teardown) => started = {} /\ broker # "running"
    /\ worker_pool /\ "broker" \notin started => ~ Alive(pool)

(* Once the pool process has failed, or the teardown has begun, the server *)
(* exits, unless it has to wait for a process that nothing stops: a pool   *)
(* without a WorkerPoolServer, or the broker of an interrupted teardown.   *)
ShutdownEnds ==
    (main = "serving" /\ pool = "failed") \/ main = "stopping"
        ~> \/ main \in {"exited", "killed"}
           \/ ~ worker_pool /\ Alive(pool)
           \/ main = "exiting" /\ step <= Len(Teardown) /\ Alive(broker)
=============================================================================
