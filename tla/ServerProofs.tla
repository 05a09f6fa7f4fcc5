---------------------------- MODULE ServerProofs ----------------------------
(***************************************************************************)
(* Type correctness and TeardownComplete of Server, for any number of      *)
(* failures and signals and every configuration.                           *)
(*                                                                         *)
(* The argument: the start comes to the pool only after the broker         *)
(* (StartInv), and the teardown, which goes through the parts in its own   *)
(* order, has let go of all the parts that it has passed (StopInv).        *)
(***************************************************************************)
EXTENDS Server, TLAPS

(* How far the start is: nothing runs before the first step, the broker    *)
(* does after it, and after the third the WorkerPoolServer that the        *)
(* supervisor needs.                                                       *)
StartInv ==
    /\ main = "starting" => step <= Len(Steps)
    /\ main = "starting" /\ step = 1 => worker_pool = FALSE /\ pool = "none"
    /\ main = "starting" /\ step > 1 => "broker" \in started
    /\ main = "starting" /\ step > 3 /\ "workers" \in options => "poolserver" \in started

(* How far the teardown is: what it has passed does not run, and the       *)
(* supervisor goes with the pool.                                          *)
StopInv ==
    main \in {"stopping", "exiting", "exited"} =>
        /\ step <= Len(Teardown) + 1
        /\ \A i \in 1..Len(Teardown) : i < step => Teardown[i] \notin started
        /\ step > 5 => "supervisor" \notin started

(* The broker is told to stop when it is let go of, and the pool ends      *)
(* before that.                                                            *)
BrokerInv ==
    /\ broker = "running" => "broker" \in started
    /\ worker_pool = TRUE /\ "broker" \notin started => ~ Alive(pool)

ServerInv == TypeOK /\ StartInv /\ StopInv /\ BrokerInv

-----------------------------------------------------------------------------
(* The two orders, spelled out.                                            *)
LEMMA Orders ==
    /\ Len(Steps) = 10 /\ Len(Teardown) = 6
    /\ Steps[1] = "broker" /\ Steps[2] = "pool" /\ Steps[3] = "poolserver"
    /\ Steps[4] = "sockets" /\ Steps[5] = "application" /\ Steps[6] = "http"
    /\ Steps[7] = "management" /\ Steps[8] = "supervisor" /\ Steps[9] = "observer"
    /\ Steps[10] = "signal"
    /\ Teardown[1] = "http" /\ Teardown[2] = "management" /\ Teardown[3] = "application"
    /\ Teardown[4] = "observer" /\ Teardown[5] = "poolserver" /\ Teardown[6] = "broker"
    /\ ToSet(Teardown) = {"http", "management", "application", "observer", "poolserver", "broker"}
<1>1. /\ Len(Steps) = 10
      /\ Steps[1] = "broker" /\ Steps[2] = "pool" /\ Steps[3] = "poolserver"
      /\ Steps[4] = "sockets" /\ Steps[5] = "application" /\ Steps[6] = "http"
      /\ Steps[7] = "management" /\ Steps[8] = "supervisor" /\ Steps[9] = "observer"
      /\ Steps[10] = "signal"
  BY DEF Steps
<1>2. /\ Len(Teardown) = 6 /\ DOMAIN Teardown = 1..6
      /\ Teardown[1] = "http" /\ Teardown[2] = "management" /\ Teardown[3] = "application"
      /\ Teardown[4] = "observer" /\ Teardown[5] = "poolserver" /\ Teardown[6] = "broker"
  BY DEF Teardown
<1>3. ToSet(Teardown) = {Teardown[i] : i \in 1..6}
  BY <1>2 DEF ToSet
<1>4. ToSet(Teardown) = {"http", "management", "application", "observer", "poolserver", "broker"}
  <2> DEFINE names == {"http", "management", "application", "observer", "poolserver", "broker"}
  <2>1. \A i \in 1..6 : i = 1 \/ i = 2 \/ i = 3 \/ i = 4 \/ i = 5 \/ i = 6
    OBVIOUS
  <2>2. \A i \in 1..6 : Teardown[i] \in names
    BY <1>2, <2>1
  <2>3. \A name \in names : \E i \in 1..6 : Teardown[i] = name
    BY <1>2
  <2> QED
    BY <1>3, <2>2, <2>3
<1> QED
  BY <1>1, <1>2, <1>4

(* The initial states satisfy the invariant.                               *)
LEMMA ServerInit == Init => ServerInv
<1> SUFFICES ASSUME Init PROVE ServerInv
  OBVIOUS
<1>1. /\ options \subseteq {"management", "workers"} /\ main = "starting" /\ step = 1
      /\ started = {} /\ broker = "none" /\ pool = "none" /\ exit_code = 0 /\ faults = 0
  BY DEF Init
<1>2. worker_pool = FALSE
  BY DEF Init
<1>3. worker_pool \in BOOLEAN
  BY <1>2, Zenon
<1>4. TypeOK
  BY <1>1, <1>3, Orders, ServerAssumption DEF TypeOK
<1>5. StartInv
  BY <1>1, <1>2, Orders DEF StartInv
<1>6. StopInv
  BY <1>1 DEF StopInv
<1>7. BrokerInv
  BY <1>1 DEF BrokerInv, Alive
<1> QED
  BY <1>4, <1>5, <1>6, <1>7 DEF ServerInv

(* A step of the start keeps it.                                           *)
LEMMA StartStep ==
    ASSUME ServerInv, Start
    PROVE  ServerInv'
<1> USE DEF ServerInv
<1>1. /\ options \subseteq {"management", "workers"} /\ step \in 1..11
      /\ started \subseteq {"http", "management", "application", "observer", "poolserver",
                            "broker", "supervisor"}
      /\ "supervisor" \in started => "poolserver" \in started
      /\ broker \in {"none", "running", "stopping", "ended"}
      /\ pool \in {"none", "running", "stopping", "ended", "failed"}
      /\ exit_code \in {0, 1, 15} /\ faults \in 0..MaxFaults /\ worker_pool \in BOOLEAN
  BY Orders DEF TypeOK
<1>2. PICK new : new = {part \in {Steps[step]} : Wanted(part)}
  OBVIOUS
<1>3. /\ main = "starting"
      /\ main' = IF step = 10 THEN "serving" ELSE main
      /\ step' = IF step = 10 THEN 1 ELSE step + 1
      /\ started' = started \cup (new \cap {"http", "management", "application", "observer",
                                            "poolserver", "broker", "supervisor"})
      /\ broker' = IF "broker" \in new THEN "running" ELSE broker
      /\ pool' = IF "pool" \in new THEN "running" ELSE pool
      /\ options' = options /\ exit_code' = exit_code /\ faults' = faults
  BY <1>2, Orders DEF Start
<1>4. worker_pool' = (worker_pool \/ "poolserver" \in new)
  BY <1>2 DEF Start
<1>5. step \in 1..10
  BY <1>1, <1>3, Orders DEF StartInv
<1>6. /\ "broker" \in new <=> step = 1
      /\ "pool" \in new => step = 2
      /\ "poolserver" \in new <=> step = 3 /\ "workers" \in options
      /\ "supervisor" \in new => step = 8 /\ "workers" \in options
  <2>1. \/ step = 1 \/ step = 2 \/ step = 3 \/ step = 4 \/ step = 5
        \/ step = 6 \/ step = 7 \/ step = 8 \/ step = 9 \/ step = 10
    BY <1>5
  <2> QED
    BY <1>2, <2>1, Orders DEF Wanted
<1>7. worker_pool' \in BOOLEAN
  BY <1>4, Zenon
<1>8. TypeOK'
  <2>1. main' \in {"starting", "serving"} /\ step' \in 1..11
    BY <1>3, <1>5
  <2>2. "supervisor" \in started' => "poolserver" \in started'
    BY <1>1, <1>3, <1>5, <1>6 DEF StartInv
  <2>3. started' \subseteq {"http", "management", "application", "observer", "poolserver",
                            "broker", "supervisor"}
    BY <1>1, <1>3
  <2>4. started' \subseteq ToSet(Teardown) \cup {"supervisor"}
    BY <2>3, Orders
  <2> QED
    BY <1>1, <1>3, <1>7, <2>1, <2>2, <2>4, Orders DEF TypeOK
<1>9. StartInv'
  <2>1. main' = "starting" => step' = step + 1 /\ step < 10
    BY <1>3, <1>5
  <2>2. main' = "starting" => step' # 1 /\ step' <= 10
    BY <1>5, <2>1
  <2>3. "broker" \in started'
    BY <1>3, <1>5, <1>6 DEF StartInv
  <2>4. main' = "starting" /\ step' > 3 /\ "workers" \in options' => "poolserver" \in started'
    <3>1. main' = "starting" /\ step' > 3 => step = 3 \/ step > 3
      BY <1>5, <2>1
    <3> QED
      BY <1>3, <1>6, <3>1 DEF StartInv
  <2> QED
    BY <2>2, <2>3, <2>4, Orders DEF StartInv
<1>10. StopInv'
  BY <1>3 DEF StopInv
<1>11. BrokerInv'
  <2>1. "broker" \in started'
    BY <1>3, <1>5, <1>6 DEF StartInv
  <2> QED
    BY <2>1 DEF BrokerInv
<1> QED
  BY <1>8, <1>9, <1>10, <1>11

(* So does the way from the start, or from serving, to the teardown.       *)
LEMMA LeaveStep ==
    ASSUME ServerInv, NEW code \in {0, 1, 15}, Leave(code), faults' \in 0..MaxFaults
    PROVE  ServerInv'
<1> USE DEF ServerInv
<1>1. /\ main' = "stopping" /\ step' = 1 /\ exit_code' = code
      /\ options' = options /\ started' = started /\ worker_pool' = worker_pool
      /\ broker' = broker /\ pool' = pool
  BY DEF Leave, childVars
<1>2. TypeOK'
  BY <1>1, Orders DEF TypeOK
<1>3. StartInv' /\ StopInv'
  BY <1>1, Orders DEF StartInv, StopInv
<1>4. BrokerInv'
  BY <1>1 DEF BrokerInv, Alive
<1> QED
  BY <1>2, <1>3, <1>4

(* A part is taken down: the pool has ended when the broker's turn comes.  *)
LEMMA StopStep ==
    ASSUME ServerInv, Stop
    PROVE  ServerInv'
<1> USE DEF ServerInv
<1>1. main = "stopping" /\ Joined /\ step <= 6 /\ TakeDown(Teardown[step])
  BY Orders DEF Stop
<1>2. step \in 1..6
  BY <1>1, Orders DEF TypeOK
<1>3. PICK part : part = Teardown[step]
  OBVIOUS
<1>4. /\ step' = step + 1
      /\ started' = started \ (IF part = "poolserver" THEN {"poolserver", "supervisor"} ELSE {part})
      /\ pool' = IF part = "poolserver" /\ worker_pool THEN Told(pool) ELSE pool
      /\ broker' = IF part = "broker" THEN Told(broker) ELSE broker
      /\ options' = options /\ main' = main /\ worker_pool' = worker_pool
      /\ exit_code' = exit_code /\ faults' = faults
  BY <1>1, <1>3 DEF TakeDown
<1>5. /\ part = "poolserver" <=> step = 5
      /\ part = "broker" <=> step = 6
  <2>1. step = 1 \/ step = 2 \/ step = 3 \/ step = 4 \/ step = 5 \/ step = 6
    BY <1>2
  <2> QED
    BY <1>3, <2>1, Orders
<1>6. /\ broker' \in {"none", "running", "stopping", "ended"}
      /\ pool' \in {"none", "running", "stopping", "ended", "failed"}
      /\ Alive(pool)' <=> Alive(pool)
      /\ broker' = "running" => broker = "running" /\ part # "broker"
  BY <1>4 DEF TypeOK, Told, Alive
<1>7. TypeOK'
  <2>1. step' \in 1..11
    BY <1>2, <1>4
  <2>2. "supervisor" \in started' => "poolserver" \in started'
    BY <1>4, <1>5 DEF TypeOK
  <2> QED
    BY <1>1, <1>4, <1>6, <2>1, <2>2, Orders DEF TypeOK
<1>8. StartInv'
  BY <1>1, <1>4 DEF StartInv
<1>9. StopInv'
  <2>1. ASSUME NEW i \in 1..6, i < step' PROVE Teardown[i] \notin started'
    <3>1. i < step \/ i = step
      BY <1>2, <1>4, <2>1
    <3>2. CASE i < step
      BY <1>1, <1>4, <3>2, Orders DEF StopInv
    <3>3. CASE i = step
      BY <1>3, <1>4, <3>3
    <3> QED
      BY <3>1, <3>2, <3>3
  <2>2. ASSUME step' > 5 PROVE "supervisor" \notin started'
    <3>1. step = 5 \/ step > 5
      BY <1>2, <1>4, <2>2
    <3> QED
      BY <1>1, <1>4, <1>5, <3>1 DEF StopInv
  <2>3. step' <= 7
    BY <1>2, <1>4
  <2> QED
    BY <2>1, <2>2, <2>3, Orders DEF StopInv
<1>10. BrokerInv'
  <2>1. broker' = "running" => "broker" \in started'
    BY <1>4, <1>6 DEF BrokerInv
  <2>2. ASSUME worker_pool = TRUE, "broker" \notin started' PROVE ~ Alive(pool)
    <3>1. CASE part = "broker"
      <4>1. step = 6 /\ step - 1 = 5
        BY <1>5, <3>1
      <4>2. Teardown[step - 1] = "poolserver" /\ step > 1
        BY <4>1, Orders
      <4> QED
        BY <1>1, <2>2, <4>2 DEF Joined
    <3>2. CASE part # "broker"
      <4>1. "broker" \notin started
        BY <1>4, <2>2, <3>2
      <4> QED
        BY <2>2, <4>1 DEF BrokerInv
    <3> QED
      BY <3>1, <3>2
  <2> QED
    BY <1>4, <1>6, <2>1, <2>2 DEF BrokerInv
<1> QED
  BY <1>7, <1>8, <1>9, <1>10

(* A process ends, fails or is told to stop, and what main does about the  *)
(* parts stays: no such step starts a process.                             *)
LEMMA ProcessStep ==
    ASSUME ServerInv,
           options' = options, step' = step, started' = started, worker_pool' = worker_pool,
           exit_code' = exit_code, faults' \in 0..MaxFaults,
           main' = main \/ main' \in {"exited", "killed"} \/ (main = "stopping" /\ main' = "exiting"),
           main' = "exited" => main \in {"exiting", "exited"},
           broker' \in {broker, "ended"},
           \/ pool' = pool
           \/ Alive(pool) /\ pool' \in {"ended", "failed"}
           \/ pool = "running" /\ pool' = "stopping"
    PROVE  ServerInv'
<1> USE DEF ServerInv
<1>1. Alive(pool)' => Alive(pool)
  BY DEF Alive
<1>2. main \in {"starting", "serving", "stopping", "exiting", "exited", "killed"}
  BY DEF TypeOK
<1>3. TypeOK'
  BY <1>2 DEF TypeOK
<1>4. StartInv'
  <2>1. main' = "starting" => main = "starting"
    OBVIOUS
  <2>2. main' = "starting" /\ step = 1 => pool' = "none"
    BY <2>1 DEF StartInv, Alive
  <2> QED
    BY <2>1, <2>2 DEF StartInv
<1>5. StopInv'
  BY <1>2 DEF StopInv
<1>6. BrokerInv'
  BY <1>1 DEF BrokerInv
<1> QED
  BY <1>3, <1>4, <1>5, <1>6

(* Every step keeps the invariant.                                         *)
LEMMA ServerStep == ServerInv /\ [Next]_vars => ServerInv'
<1> SUFFICES ASSUME ServerInv, [Next]_vars PROVE ServerInv'
  OBVIOUS
<1>0. faults \in 0..MaxFaults /\ MaxFaults \in Nat
  BY ServerAssumption DEF ServerInv, TypeOK
<1>1. Fault => faults' \in 0..MaxFaults
  BY <1>0 DEF Fault
<1>2. CASE Start
  BY <1>2, StartStep
<1>3. CASE StartFails
  BY <1>1, <1>3, LeaveStep DEF StartFails
<1>4. CASE Interrupt
  BY <1>1, <1>4, LeaveStep DEF Interrupt
<1>5. CASE Terminate
  BY <1>1, <1>5, LeaveStep DEF Terminate
<1>6. CASE HealthCheck
  BY <1>0, <1>6, LeaveStep DEF HealthCheck
<1>7. CASE Stop
  BY <1>7, StopStep
<1>8. CASE Killed \/ StopEnds \/ InterruptAgain \/ Exit
  <2>1. /\ options' = options /\ step' = step /\ started' = started
        /\ worker_pool' = worker_pool /\ exit_code' = exit_code /\ broker' = broker
        /\ faults' \in 0..MaxFaults
    BY <1>0, <1>1, <1>8 DEF Killed, StopEnds, InterruptAgain, Exit, childVars
  <2>2. /\ main' \in {"exited", "killed"} \/ (main = "stopping" /\ main' = "exiting")
        /\ main' = "exited" => main \in {"exiting", "exited"}
    BY <1>8 DEF Killed, StopEnds, InterruptAgain, Exit
  <2>3. pool' = pool \/ (pool = "running" /\ pool' = "stopping")
    BY <1>8 DEF Killed, StopEnds, InterruptAgain, Exit, childVars, Told
  <2> QED
    BY <2>1, <2>2, <2>3, ProcessStep
<1>9. CASE BrokerStops \/ BrokerDies \/ PoolStops \/ PoolFails \/ PoolSignalled
  <2>1. /\ options' = options /\ step' = step /\ started' = started
        /\ worker_pool' = worker_pool /\ exit_code' = exit_code /\ main' = main
        /\ faults' \in 0..MaxFaults
    BY <1>0, <1>1, <1>9
    DEF BrokerStops, BrokerDies, PoolStops, PoolFails, PoolSignalled, mainVars
  <2>2. /\ broker' \in {broker, "ended"}
        /\ \/ pool' = pool
           \/ Alive(pool) /\ pool' \in {"ended", "failed"}
           \/ pool = "running" /\ pool' = "stopping"
    BY <1>9 DEF BrokerStops, BrokerDies, PoolStops, PoolFails, PoolSignalled, Told, Alive
  <2>3. main' = "exited" => main \in {"exiting", "exited"}
    BY <2>1
  <2> QED
    BY <2>1, <2>2, <2>3, ProcessStep
<1>10. CASE UNCHANGED vars
  BY <1>0, <1>10, ProcessStep DEF vars, mainVars, childVars
<1> QED
  BY <1>2, <1>3, <1>4, <1>5, <1>6, <1>7, <1>8, <1>9, <1>10 DEF Next

(* The invariant holds always.                                             *)
LEMMA ServerAlways == Spec => []ServerInv
BY ServerInit, ServerStep, PTL DEF Spec, SafetySpec

(* Type correctness: in particular run_server has a supervisor only beside *)
(* a WorkerPoolServer, also while it is taking both down.                  *)
THEOREM TypeCorrect == Spec => []TypeOK
<1>1. ServerInv => TypeOK
  BY DEF ServerInv
<1> QED
  BY <1>1, ServerAlways, PTL

(* Whatever step of run_server failed, and whenever a signal came, the     *)
(* teardown stops every part that was started, and lets the broker go only *)
(* once the pool it serves has ended.                                      *)
THEOREM TeardownCompleteCorrect == Spec => []TeardownComplete
<1>1. ServerInv => TeardownComplete
  <2> SUFFICES ASSUME ServerInv PROVE TeardownComplete
    OBVIOUS
  <2> USE DEF ServerInv
  <2>1. ASSUME main \in {"exiting", "exited"}, step > Len(Teardown)
        PROVE  started = {} /\ broker # "running"
    <3>1. step > 6 /\ step \in 1..11
      BY <2>1, Orders DEF TypeOK
    <3>2. step > 5 /\ \A i \in 1..6 : i < step
      BY <3>1
    <3>3. "supervisor" \notin started /\ \A i \in 1..6 : Teardown[i] \notin started
      BY <2>1, <3>2, Orders DEF StopInv
    <3>4. started = {}
      BY <3>3, Orders DEF TypeOK
    <3> QED
      BY <3>4 DEF BrokerInv
  <2>2. worker_pool \in BOOLEAN
    BY DEF TypeOK
  <2>3. worker_pool /\ "broker" \notin started => ~ Alive(pool)
    BY <2>2 DEF BrokerInv
  <2> QED
    BY <2>1, <2>3 DEF TeardownComplete
<1> QED
  BY <1>1, ServerAlways, PTL
=============================================================================
