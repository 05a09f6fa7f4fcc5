-------------------------- MODULE WorkerPoolProofs --------------------------
(***************************************************************************)
(* Proofs about WorkerPool, for any number of workers, processes and jobs: *)
(* the supervisor kills only for a job that is late, a stop leaves no      *)
(* worker behind, and the pool has the size it was given.                  *)
(***************************************************************************)
EXTENDS WorkerPool, FiniteSetTheorems, TLAPS

(* What a worker is doing, as far as its notifications tell.               *)
Working(p, n) == Dead(p) \/ (proc[p] \in {"busy", "stalled"} /\ job[p] = n)

Done(n) == [msg |-> "DONE", job |-> n]

(* The messages of one worker.  A BUSY is followed by the DONE of its job, *)
(* or is the last message of a worker still on it; the same holds of the   *)
(* BUSY the supervisor read last, if its timer is pending.                 *)
Alternates(p) ==
    /\ \A i \in DOMAIN wire[p] : wire[p][i].msg = "BUSY" =>
         /\ wire[p][i].job # 0
         /\ i = 1 => busy[p] = 0
         /\ i + 1 \in DOMAIN wire[p] => wire[p][i + 1] = Done(wire[p][i].job)
         /\ i = Len(wire[p]) => Working(p, wire[p][i].job)
    /\ busy[p] # 0 =>
         IF wire[p] = <<>> THEN Working(p, busy[p]) ELSE wire[p][1] = Done(busy[p])

(* Each pending timer is the one its worker's entry holds.                 *)
TimerHeld == \A p \in Pids, n \in Nat : <<p, n>> \in timers => n # 0 /\ busy[p] = n

(* A worker that is not connected has said nothing.                        *)
Silent == \A p \in Pids \ linked : wire[p] = <<>> /\ busy[p] = 0

Forked == \A p \in Pids : proc[p] # "none" => p <= spawned

IInv ==
    /\ TypeOK
    /\ TimerHeld
    /\ Forked
    /\ Silent
    /\ \A p \in Pids : Alternates(p)

-----------------------------------------------------------------------------
(* A notification keeps the messages well formed.                          *)
LEMMA NotifyType ==
  ASSUME wire \in [Pids -> Seq(Message)], NEW p \in Pids, NEW n \in Nat,
         NEW msg \in {"BUSY", "DONE"}, Notify(p, msg, n)
  PROVE  wire' \in [Pids -> Seq(Message)]
<1>1. [msg |-> msg, job |-> n] \in Message
  BY DEF Message
<1>2. Append(wire[p], [msg |-> msg, job |-> n]) \in Seq(Message)
  BY <1>1
<1>3. QED
  BY <1>2 DEF Notify

(* New processes are numbered within bounds.                               *)
LEMMA ForkType ==
  ASSUME TypeOK, NEW n, NEW S \in SUBSET Pids, Fork(n, S)
  PROVE  spawned' \in 0..MaxPid /\ procs' \subseteq Pids /\ proc' \in [Pids -> States]
<1> DEFINE new == (spawned + 1)..(spawned + n)
<1>1. n \in Nat /\ spawned \in Nat /\ MaxPid \in Nat /\ spawned + n <= MaxPid
  BY PoolAssumption DEF Fork, TypeOK
<1>2. spawned' \in 0..MaxPid
  BY <1>1 DEF Fork
<1>3. new \subseteq Pids
  BY <1>1 DEF Pids
<1>4. procs' \subseteq Pids
  BY <1>3 DEF Fork
<1>5. proc' \in [Pids -> States]
  BY DEF Fork, TypeOK, States
<1>6. QED
  BY <1>2, <1>4, <1>5

(* Types are preserved by every step.                                      *)
LEMMA TypeStep == TypeOK /\ [Next]_vars => TypeOK'
<1> SUFFICES ASSUME TypeOK, [Next]_vars PROVE TypeOK'
  OBVIOUS
<1> USE PoolAssumption DEF TypeOK, States
<1>1. ASSUME NEW p \in Pids, WorkerStarts(p) PROVE TypeOK'
  BY <1>1 DEF WorkerStarts, Stops, supervisorVars, poolVars
<1>2. ASSUME NEW p \in Pids, Link(p) PROVE TypeOK'
  BY <1>2 DEF Link, supervisorVars, poolVars
<1>3. ASSUME NEW p \in Pids, EndJob(p) PROVE TypeOK'
  BY <1>3, NotifyType DEF EndJob, Stops, supervisorVars, poolVars
<1>4. ASSUME NEW p \in Pids, StartJob(p) PROVE TypeOK'
  <2>1. job'[p] \in Nat
    BY <1>4 DEF StartJob
  <2>2. wire' \in [Pids -> Seq(Message)]
    BY <1>4, <2>1, NotifyType DEF StartJob
  <2>3. QED
    BY <1>4, <2>1, <2>2 DEF StartJob, Stops, supervisorVars, poolVars
<1>5. ASSUME NEW p \in Pids, WorkerFault(p) PROVE TypeOK'
  <2>1. CASE FailJob(p)
    BY <2>1, NotifyType DEF FailJob, Fault, Stops, supervisorVars, poolVars
  <2>2. CASE LeaveOnRestart(p)
    BY <2>2 DEF LeaveOnRestart, Fault, Stops, supervisorVars, poolVars
  <2>3. CASE Stall(p)
    BY <2>3 DEF Stall, Fault, Stops, supervisorVars, poolVars
  <2>4. CASE Crash(p)
    BY <2>4 DEF Crash, Fault, Stops, supervisorVars, poolVars
  <2>5. QED
    BY <1>5, <2>1, <2>2, <2>3, <2>4 DEF WorkerFault
<1>6. ASSUME NEW p \in Pids, Recv(p) PROVE TypeOK'
  <2>1. Head(wire[p]) \in Message /\ Tail(wire[p]) \in Seq(Message)
    BY <1>6 DEF Recv
  <2>2. Head(wire[p]).job \in Nat
    BY <2>1 DEF Message
  <2>3. QED
    BY <1>6, <2>1, <2>2 DEF Recv, poolVars
<1>7. ASSUME NEW p \in Pids, NEW n \in 1..MaxJobs, Kill(p, n) PROVE TypeOK'
  BY <1>7 DEF Kill, Fault, poolVars
<1>8. CASE PoolStep
  <2>1. CASE ForkFirst
    <3>1. spawned' \in 0..MaxPid /\ procs' \subseteq Pids /\ proc' \in [Pids -> States]
      BY <2>1, ForkType DEF ForkFirst
    <3>2. QED
      BY <2>1, <3>1 DEF ForkFirst, supervisorVars
  <2>2. CASE Maintain
    <3>1. procs \ Exited \subseteq Pids
      OBVIOUS
    <3>2. spawned' \in 0..MaxPid /\ procs' \subseteq Pids /\ proc' \in [Pids -> States]
      BY <2>2, <3>1, ForkType DEF Maintain
    <3>3. QED
      BY <2>2, <3>2 DEF Maintain, supervisorVars
  <2>3. CASE SetHandler \/ EarlyDelayOver \/ Abort \/ JoinWorkers
    BY <2>3 DEF SetHandler, EarlyDelayOver, Abort, JoinWorkers, supervisorVars, workerVars
  <2>4. QED
    BY <1>8, <2>1, <2>2, <2>3 DEF PoolStep
<1>9. CASE TerminateServer
  BY <1>9 DEF TerminateServer, StopSupervisor, OnSigterm
<1>10. CASE HealthCheck
  BY <1>9, <1>10 DEF HealthCheck
<1>11. CASE JoinPool
  BY <1>11 DEF JoinPool, supervisorVars, poolVars, workerVars
<1>12. CASE UNCHANGED vars
  BY <1>12 DEF vars, supervisorVars, poolVars, workerVars
<1>13. QED
  BY <1>1, <1>2, <1>3, <1>4, <1>5, <1>6, <1>7, <1>8, <1>9, <1>10, <1>11, <1>12
     DEF Next, WorkerStep

-----------------------------------------------------------------------------
(* What keeps the messages of p in order when none is sent or read.        *)
LEMMA AlternatesFrame ==
  ASSUME NEW p \in Pids, Alternates(p), wire'[p] = wire[p],
         busy'[p] \in {busy[p], 0},
         \A n : Working(p, n) => Working(p, n)'
  PROVE  Alternates(p)'
  BY DEF Alternates, Done

(* A worker that starts or ends a job and tells so.                        *)
LEMMA AlternatesAppend ==
  ASSUME NEW p \in Pids, TypeOK, Alternates(p),
         NEW m \in Message, wire'[p] = Append(wire[p], m), busy'[p] = busy[p],
         \/ m.msg = "BUSY" /\ m.job # 0 /\ proc[p] = "idle" /\ Working(p, m.job)'
         \/ m.msg = "DONE" /\ m.job = job[p] /\ proc[p] = "busy"
  PROVE  Alternates(p)'
<1>1. wire[p] \in Seq(Message) /\ Len(wire[p]) \in Nat
  BY DEF TypeOK
<1>2. /\ Len(wire'[p]) = Len(wire[p]) + 1
      /\ DOMAIN wire'[p] = 1..(Len(wire[p]) + 1)
      /\ DOMAIN wire[p] = 1..Len(wire[p])
      /\ wire'[p][Len(wire[p]) + 1] = m
      /\ \A i \in 1..Len(wire[p]) : wire'[p][i] = wire[p][i]
      /\ wire'[p] # <<>>
  BY <1>1
<1>3. \A n : proc[p] = "idle" => ~ Working(p, n)
  BY DEF Working, Dead
<1>4. \A n : proc[p] = "busy" /\ Working(p, n) => n = job[p]
  BY DEF Working, Dead
<1>5. m.msg = "DONE" => m = Done(m.job)
  BY DEF Message, Done
<1>6. ASSUME NEW i \in DOMAIN wire'[p], wire'[p][i].msg = "BUSY"
      PROVE  /\ wire'[p][i].job # 0
             /\ i = 1 => busy'[p] = 0
             /\ i + 1 \in DOMAIN wire'[p] => wire'[p][i + 1] = Done(wire'[p][i].job)
             /\ (i = Len(wire[p]) => Working(p, wire[p][i].job))'
  <2>1. CASE i = Len(wire[p]) + 1
    <3>1. m.msg = "BUSY" /\ proc[p] = "idle"
      BY <1>2, <1>6, <2>1
    <3>2. i = 1 => busy[p] = 0
      BY <1>1, <1>2, <1>3, <2>1, <3>1 DEF Alternates
    <3>3. i + 1 \notin DOMAIN wire'[p]
      BY <1>1, <1>2, <2>1
    <3>4. wire'[p][i] = m /\ Working(p, m.job)'
      BY <1>2, <2>1, <3>1
    <3>5. Working(p, wire[p][i].job)'
      BY <3>4 DEF Working, Dead
    <3>6. QED
      BY <3>1, <3>2, <3>3, <3>4, <3>5
  <2>2. CASE i = Len(wire[p])
    <3>1. Working(p, wire[p][i].job) /\ wire[p][i].job # 0 /\ (i = 1 => busy[p] = 0)
      BY <1>2, <1>6, <2>2, <1>1 DEF Alternates
    <3>2. m.msg = "DONE" /\ m = Done(wire[p][i].job)
      BY <1>3, <1>4, <1>5, <3>1
    <3>3. wire'[p][i] = wire[p][i] /\ wire'[p][i + 1] = m /\ i # Len(wire'[p])
      BY <1>1, <1>2, <1>6, <2>2
    <3>4. QED
      BY <3>1, <3>2, <3>3
  <2>3. CASE i < Len(wire[p])
    <3>1. i \in DOMAIN wire[p] /\ i + 1 \in DOMAIN wire[p] /\ i # Len(wire'[p])
      BY <1>1, <1>2, <2>3
    <3>2. wire'[p][i] = wire[p][i] /\ wire'[p][i + 1] = wire[p][i + 1]
      BY <1>2, <3>1
    <3>3. QED
      BY <1>6, <3>1, <3>2 DEF Alternates
  <2>4. QED
    BY <1>1, <1>2, <2>1, <2>2, <2>3
<1>7. busy'[p] # 0 => wire'[p][1] = Done(busy'[p])
  <2> SUFFICES ASSUME busy[p] # 0 PROVE wire'[p][1] = Done(busy[p])
    OBVIOUS
  <2>1. CASE wire[p] = <<>>
    <3>1. Working(p, busy[p])
      BY <2>1 DEF Alternates
    <3>2. m = Done(busy[p])
      BY <1>3, <1>4, <1>5, <3>1
    <3>3. QED
      BY <1>2, <2>1, <3>2
  <2>2. CASE wire[p] # <<>>
    <3>1. wire[p][1] = Done(busy[p]) /\ 1 \in 1..Len(wire[p])
      BY <1>1, <2>2 DEF Alternates
    <3>2. QED
      BY <1>2, <3>1
  <2>3. QED
    BY <2>1, <2>2
<1>8. QED
  BY <1>2, <1>6, <1>7 DEF Alternates, Done

(* The supervisor reads a message.                                         *)
LEMMA AlternatesRecv ==
  ASSUME NEW p \in Pids, TypeOK, Alternates(p), Recv(p)
  PROVE  Alternates(p)'
<1> DEFINE m == Head(wire[p])
<1>1. /\ wire[p] \in Seq(Message) /\ wire[p] # <<>> /\ Len(wire[p]) \in Nat \ {0}
      /\ wire'[p] = Tail(wire[p])
      /\ busy'[p] = IF m.msg = "BUSY" THEN m.job ELSE 0
      /\ proc' = proc /\ job' = job
  BY DEF Recv, TypeOK
<1>2. /\ m = wire[p][1] /\ 1 \in DOMAIN wire[p]
      /\ DOMAIN wire[p] = 1..Len(wire[p])
      /\ DOMAIN wire'[p] = 1..(Len(wire[p]) - 1)
      /\ Len(wire'[p]) = Len(wire[p]) - 1
      /\ \A i \in DOMAIN wire'[p] : wire'[p][i] = wire[p][i + 1] /\ i + 1 \in DOMAIN wire[p]
      /\ wire'[p] = <<>> <=> Len(wire[p]) = 1
  <2>1. Tail(wire[p]) \in Seq(Message) /\ Len(Tail(wire[p])) = Len(wire[p]) - 1
    BY <1>1
  <2>2. ASSUME NEW s \in Seq(Message) PROVE s = <<>> <=> Len(s) = 0
    OBVIOUS
  <2>3. wire'[p] = <<>> <=> Len(Tail(wire[p])) = 0
    BY <1>1, <2>1, <2>2 DEF Message
  <2>4. \A i \in 1..(Len(wire[p]) - 1) : Tail(wire[p])[i] = wire[p][i + 1]
    BY <1>1
  <2>5. DOMAIN Tail(wire[p]) = 1..(Len(wire[p]) - 1) /\ DOMAIN wire[p] = 1..Len(wire[p])
    BY <1>1, <2>1
  <2>6. m = wire[p][1] /\ 1 \in DOMAIN wire[p]
    BY <1>1
  <2>7. Len(Tail(wire[p])) = 0 <=> Len(wire[p]) = 1
    BY <1>1, <2>1
  <2>8. QED
    BY <1>1, <2>1, <2>3, <2>4, <2>5, <2>6, <2>7
<1>3. \A n : Working(p, n)' <=> Working(p, n)
  BY <1>1 DEF Working, Dead
<1>4. ASSUME NEW i \in DOMAIN wire'[p], wire'[p][i].msg = "BUSY"
      PROVE  /\ wire'[p][i].job # 0
             /\ i = 1 => busy'[p] = 0
             /\ i + 1 \in DOMAIN wire'[p] => wire'[p][i + 1] = Done(wire'[p][i].job)
             /\ (i = Len(wire[p]) => Working(p, wire[p][i].job))'
  <2>1. wire'[p][i] = wire[p][i + 1] /\ i + 1 \in DOMAIN wire[p] /\ i \in Nat
    BY <1>1, <1>2
  <2>2. wire[p][i + 1].job # 0
    BY <1>4, <2>1 DEF Alternates
  <2>3. i = 1 => busy'[p] = 0
    <3>1. i = 1 /\ m.msg = "BUSY" => wire[p][2] = Done(m.job)
      BY <1>1, <1>2, <2>1 DEF Alternates
    <3>2. QED
      BY <1>1, <1>4, <2>1, <3>1 DEF Done
  <2>4. i + 1 \in DOMAIN wire'[p] => wire'[p][i + 1] = Done(wire'[p][i].job)
    <3> SUFFICES ASSUME i + 1 \in DOMAIN wire'[p] PROVE wire'[p][i + 1] = Done(wire'[p][i].job)
      OBVIOUS
    <3>1. wire'[p][i + 1] = wire[p][(i + 1) + 1] /\ (i + 1) + 1 \in DOMAIN wire[p]
      BY <1>2
    <3>2. wire[p][(i + 1) + 1] = Done(wire[p][i + 1].job)
      BY <1>4, <2>1, <3>1 DEF Alternates
    <3>3. QED
      BY <2>1, <3>1, <3>2
  <2>5. i = Len(wire'[p]) => Working(p, wire[p][i + 1].job)
    BY <1>1, <1>2, <1>4, <2>1 DEF Alternates
  <2>6. (i = Len(wire[p]) => Working(p, wire[p][i].job))'
    BY <1>3, <2>1, <2>5
  <2>7. QED
    BY <2>1, <2>2, <2>3, <2>4, <2>6
<1>5. ASSUME busy'[p] # 0
      PROVE  (IF wire[p] = <<>> THEN Working(p, busy[p]) ELSE wire[p][1] = Done(busy[p]))'
  <2>1. m.msg = "BUSY" /\ busy'[p] = m.job
    BY <1>1, <1>5
  <2>2. CASE Len(wire[p]) = 1
    <3>1. Working(p, m.job)
      BY <1>2, <2>1, <2>2 DEF Alternates
    <3>2. wire'[p] = <<>> /\ Working(p, busy[p])'
      BY <1>2, <1>3, <2>1, <2>2, <3>1
    <3>3. QED
      BY <3>2
  <2>3. CASE Len(wire[p]) # 1
    <3>1. 2 \in DOMAIN wire[p] /\ 1 \in DOMAIN wire'[p]
      BY <1>1, <1>2, <2>3
    <3>2. wire[p][2] = Done(m.job)
      BY <1>2, <2>1, <3>1 DEF Alternates
    <3>3. wire'[p][1] = wire[p][2] /\ wire'[p] # <<>>
      BY <1>2, <2>3, <3>1
    <3>4. QED
      BY <2>1, <3>2, <3>3 DEF Done
  <2>4. QED
    BY <2>2, <2>3
<1>6. QED
  BY <1>4, <1>5 DEF Alternates, Done

-----------------------------------------------------------------------------
(* The supervisor's timers and its view of the workers, step by step.      *)
LEMMA IInvInit == Init => IInv
<1> SUFFICES ASSUME Init PROVE IInv
  OBVIOUS
<1>1. TypeOK
  BY PoolAssumption DEF Init, TypeOK, States
<1>2. TimerHeld /\ Forked /\ Silent
  BY DEF Init, TimerHeld, Forked, Silent
<1>3. \A p \in Pids : Alternates(p)
  BY DEF Init, Alternates
<1>4. QED
  BY <1>1, <1>2, <1>3 DEF IInv

(* A worker that sends nothing keeps its side in order.                    *)
LEMMA IInvQuiet ==
  ASSUME IInv, TypeOK', wire' = wire, linked \subseteq linked', spawned' >= spawned,
         timers' \subseteq timers,
         \A p \in Pids : busy'[p] = busy[p] \/ (busy'[p] = 0 /\ \A n \in Nat : <<p, n>> \notin timers'),
         \A p \in Pids : proc'[p] # "none" => proc[p] # "none" \/ p <= spawned',
         \A p \in Pids : \A n : Working(p, n) => Working(p, n)'
  PROVE  IInv'
<1>1. TimerHeld'
  BY DEF IInv, TimerHeld
<1>2. Forked'
  BY DEF IInv, Forked, TypeOK, Pids
<1>3. Silent'
  BY DEF IInv, Silent
<1>4. \A p \in Pids : Alternates(p)'
  BY AlternatesFrame DEF IInv
<1>5. QED
  BY <1>1, <1>2, <1>3, <1>4 DEF IInv

(* One step of any process.                                                *)
LEMMA IInvStep == IInv /\ [Next]_vars => IInv'
<1> SUFFICES ASSUME IInv, [Next]_vars PROVE IInv'
  OBVIOUS
<1>0. TypeOK /\ TypeOK' /\ spawned \in Nat
  BY TypeStep, PoolAssumption DEF IInv, TypeOK
<1>1. ASSUME NEW p \in Pids, WorkerStarts(p) \/ Link(p) \/ LeaveOnRestart(p) \/ Stall(p) \/ Crash(p)
      PROVE  IInv'
  <2>1. /\ wire' = wire /\ linked \subseteq linked' /\ spawned' = spawned
        /\ timers' = timers /\ busy' = busy /\ job' = job
    BY <1>1 DEF WorkerStarts, Link, LeaveOnRestart, Stall, Crash, supervisorVars, poolVars
  <2>2. \A q \in Pids :
           \/ proc'[q] = proc[q]
           \/ proc[q] \in {"starting", "idle"} /\ proc'[q] \in {"idle", "exited"}
           \/ proc[q] \in {"busy", "stalled"} /\ proc'[q] = "stalled"
           \/ Alive(q) /\ proc'[q] = "failed"
    <3>1. CASE WorkerStarts(p)
      BY <1>0, <3>1 DEF WorkerStarts, Stops, TypeOK
    <3>2. CASE Link(p)
      BY <3>2 DEF Link
    <3>3. CASE LeaveOnRestart(p)
      BY <1>0, <3>3 DEF LeaveOnRestart, Stops, TypeOK
    <3>4. CASE Stall(p)
      BY <1>0, <3>4 DEF Stall, Stops, TypeOK
    <3>5. CASE Crash(p)
      BY <1>0, <3>5 DEF Crash, Stops, TypeOK
    <3>6. QED
      BY <1>1, <3>1, <3>2, <3>3, <3>4, <3>5
  <2>3. \A q \in Pids : \A n : Working(q, n) => Working(q, n)'
    BY <2>1, <2>2 DEF Working, Dead, Alive
  <2>4. spawned' >= spawned /\ \A q \in Pids : proc'[q] # "none" => proc[q] # "none" \/ q <= spawned'
    BY <1>0, <2>1, <2>2 DEF Alive
  <2>5. QED
    BY <1>0, <2>1, <2>3, <2>4, IInvQuiet
<1>2. ASSUME NEW p \in Pids, StartJob(p) \/ EndJob(p) \/ FailJob(p)
      PROVE  IInv'
  <2>1. /\ linked' = linked /\ spawned' = spawned /\ timers' = timers /\ busy' = busy
        /\ \A q \in Pids \ {p} : proc'[q] = proc[q] /\ job'[q] = job[q] /\ wire'[q] = wire[q]
        /\ proc[p] \in {"idle", "busy"}
    BY <1>0, <1>2 DEF StartJob, EndJob, FailJob, Stops, Notify, supervisorVars, poolVars, TypeOK
  <2>2. TimerHeld'
    BY <2>1 DEF IInv, TimerHeld
  <2>3. Forked'
    BY <2>1 DEF IInv, Forked
  <2>4. Silent'
    BY <1>0, <1>2, <2>1 DEF IInv, Silent, StartJob, EndJob, FailJob, Notify, TypeOK
  <2>5. ASSUME NEW q \in Pids, q # p PROVE Alternates(q)'
    <3>1. \A n : Working(q, n) => Working(q, n)'
      BY <2>1, <2>5 DEF Working, Dead
    <3>2. QED
      BY <2>1, <2>5, <3>1, AlternatesFrame DEF IInv
  <2>6. Alternates(p)'
    <3>1. CASE p \notin linked
      <4>1. wire[p] = <<>> /\ busy[p] = 0
        BY <3>1 DEF IInv, Silent
      <4>2. wire'[p] = <<>> /\ busy'[p] = 0
        BY <1>2, <2>1, <3>1, <4>1 DEF StartJob, EndJob, FailJob, Notify
      <4>3. QED
        BY <4>2 DEF Alternates
    <3>2. CASE p \in linked /\ StartJob(p)
      <4>1. job'[p] \in Nat /\ job'[p] # 0 /\ proc[p] = "idle" /\ proc'[p] = "busy"
        BY <1>0, <3>2 DEF StartJob, Stops, TypeOK
      <4>2. PICK m \in Message : m = [msg |-> "BUSY", job |-> job'[p]]
        BY <4>1 DEF Message
      <4>3. wire'[p] = Append(wire[p], m)
        BY <1>0, <3>2, <4>2 DEF StartJob, Notify, TypeOK
      <4>4. Working(p, m.job)'
        BY <4>1, <4>2 DEF Working
      <4>5. QED
        BY <1>0, <2>1, <4>1, <4>2, <4>3, <4>4, AlternatesAppend DEF IInv
    <3>3. CASE p \in linked /\ (EndJob(p) \/ FailJob(p))
      <4>1. PICK m \in Message : m = [msg |-> "DONE", job |-> job[p]]
        BY <1>0 DEF Message, TypeOK
      <4>2. wire'[p] = Append(wire[p], m) /\ proc[p] = "busy"
        BY <1>0, <3>3, <4>1 DEF EndJob, FailJob, Notify, TypeOK
      <4>3. QED
        BY <1>0, <2>1, <4>1, <4>2, AlternatesAppend DEF IInv
    <3>4. QED
      BY <1>2, <3>1, <3>2, <3>3
  <2>7. QED
    BY <1>0, <2>2, <2>3, <2>4, <2>5, <2>6 DEF IInv
<1>3. ASSUME NEW p \in Pids, Recv(p) PROVE IInv'
  <2> DEFINE m == Head(wire[p])
  <2>1. /\ linked' = linked /\ spawned' = spawned /\ proc' = proc /\ job' = job
        /\ \A q \in Pids \ {p} : busy'[q] = busy[q] /\ wire'[q] = wire[q]
        /\ wire[p] # <<>> /\ wire[p] \in Seq(Message)
        /\ busy'[p] = IF m.msg = "BUSY" THEN m.job ELSE 0
    BY <1>0, <1>3 DEF Recv, poolVars, TypeOK
  <2>2. m = wire[p][1] /\ 1 \in DOMAIN wire[p]
    BY <2>1
  <2>3. TimerHeld'
    <3>1. m.msg = "BUSY" => busy[p] = 0 /\ m.job # 0
      BY <2>2 DEF IInv, Alternates
    <3>2. QED
      BY <1>3, <2>1, <3>1 DEF IInv, TimerHeld, Recv
  <2>4. Forked'
    BY <2>1 DEF IInv, Forked
  <2>5. Silent'
    BY <2>1 DEF IInv, Silent
  <2>6. ASSUME NEW q \in Pids PROVE Alternates(q)'
    <3>1. CASE q = p
      BY <1>0, <1>3, <3>1, AlternatesRecv DEF IInv
    <3>2. CASE q # p
      <4>1. \A n : Working(q, n) => Working(q, n)'
        BY <2>1 DEF Working, Dead
      <4>2. QED
        BY <2>1, <3>2, <4>1, AlternatesFrame DEF IInv
    <3>3. QED
      BY <3>1, <3>2
  <2>7. QED
    BY <1>0, <2>3, <2>4, <2>5, <2>6 DEF IInv
<1>4. ASSUME NEW p \in Pids, NEW n \in 1..MaxJobs, Kill(p, n) PROVE IInv'
  <2>1. /\ wire' = wire /\ linked' = linked /\ spawned' = spawned /\ job' = job
        /\ timers' = timers \ {<<p, n>>} /\ <<p, n>> \in timers
        /\ \A q \in Pids : q # p => busy'[q] = busy[q]
        /\ busy'[p] = 0
    BY <1>0, <1>4 DEF Kill, poolVars, TypeOK
  <2>2. \A k \in Nat : <<p, k>> \notin timers'
    BY <1>4, <2>1, PoolAssumption DEF IInv, TimerHeld
  <2>3. \A q \in Pids : proc'[q] = proc[q] \/ (Alive(q) /\ proc'[q] = "failed")
    BY <1>0, <1>4 DEF Kill, TypeOK
  <2>4. \A q \in Pids : \A k : Working(q, k) => Working(q, k)'
    BY <2>1, <2>3 DEF Working, Dead, Alive
  <2>5. spawned' >= spawned /\ \A q \in Pids : proc'[q] # "none" => proc[q] # "none" \/ q <= spawned'
    BY <1>0, <2>1, <2>3 DEF Alive
  <2>6. \A q \in Pids : busy'[q] = busy[q] \/ (busy'[q] = 0 /\ \A k \in Nat : <<q, k>> \notin timers')
    BY <2>1, <2>2
  <2>7. QED
    BY <1>0, <2>1, <2>4, <2>5, <2>6, IInvQuiet
<1>5. CASE PoolStep
  <2>1. CASE ForkFirst \/ Maintain
    <3>1. PICK n, S : Fork(n, S)
      BY <2>1 DEF ForkFirst, Maintain
    <3>2. wire' = wire /\ linked' = linked /\ timers' = timers /\ busy' = busy /\ job' = job
      BY <2>1 DEF ForkFirst, Maintain, supervisorVars
    <3>3. n \in Nat /\ spawned \in Nat /\ spawned' = spawned + n
      BY <1>0, <3>1, PoolAssumption DEF Fork, TypeOK
    <3>4. \A q \in Pids : proc'[q] = proc[q] \/ (q > spawned /\ q <= spawned' /\ proc'[q] = "starting")
      BY <3>1, <3>3 DEF Fork, Pids
    <3>5. \A q \in Pids : q > spawned => proc[q] = "none"
      BY <3>3 DEF IInv, Forked, Pids
    <3>6. \A q \in Pids : \A k : Working(q, k) => Working(q, k)'
      BY <3>2, <3>4, <3>5 DEF Working, Dead
    <3>7. spawned' >= spawned /\ \A q \in Pids : proc'[q] # "none" => proc[q] # "none" \/ q <= spawned'
      BY <3>3, <3>4
    <3>8. QED
      BY <1>0, <3>2, <3>6, <3>7, IInvQuiet
  <2>2. CASE SetHandler \/ EarlyDelayOver \/ Abort \/ JoinWorkers
    <3>1. wire' = wire /\ linked' = linked /\ timers' = timers /\ busy' = busy /\ job' = job
          /\ spawned' = spawned /\ proc' = proc
      BY <2>2 DEF SetHandler, EarlyDelayOver, Abort, JoinWorkers, supervisorVars, workerVars
    <3>2. \A q \in Pids : \A k : Working(q, k) => Working(q, k)'
      BY <3>1 DEF Working, Dead
    <3>3. spawned' >= spawned
      BY <1>0, <3>1 DEF TypeOK
    <3>4. QED
      BY <1>0, <3>1, <3>2, <3>3, IInvQuiet
  <2>3. QED
    BY <1>5, <2>1, <2>2 DEF PoolStep
<1>6. CASE TerminateServer
  <2>1. wire' = wire /\ linked' = linked /\ timers' = {} /\ job' = job /\ spawned' = spawned
        /\ \A q \in Pids : busy'[q] = 0
    BY <1>6 DEF TerminateServer, StopSupervisor
  <2>2. \A q \in Pids :
           \/ proc'[q] = proc[q]
           \/ Alive(q) /\ proc'[q] = "failed"
           \/ proc[q] \in {"starting", "idle"} /\ proc'[q] = "exited"
    <3>1. \A q \in Pids : proc'[q] = proc[q] \/ proc'[q] = OnSigterm(q)
      BY <1>0, <1>6 DEF TerminateServer, StopSupervisor, TypeOK
    <3>2. \A q \in Pids :
           \/ OnSigterm(q) = proc[q]
           \/ Alive(q) /\ OnSigterm(q) = "failed"
           \/ proc[q] \in {"starting", "idle"} /\ OnSigterm(q) = "exited"
      BY DEF OnSigterm
    <3>3. QED
      BY <3>1, <3>2
  <2>3. \A q \in Pids : \A k : Working(q, k) => Working(q, k)'
    BY <2>1, <2>2 DEF Working, Dead, Alive
  <2>4. spawned' >= spawned /\ \A q \in Pids : proc'[q] # "none" => proc[q] # "none" \/ q <= spawned'
    BY <1>0, <2>1, <2>2 DEF Alive
  <2>5. QED
    BY <1>0, <2>1, <2>3, <2>4, IInvQuiet
<1>7. CASE JoinPool \/ UNCHANGED vars
  <2>1. wire' = wire /\ linked' = linked /\ timers' = timers /\ busy' = busy /\ job' = job
        /\ spawned' = spawned /\ proc' = proc
    BY <1>7 DEF JoinPool, vars, supervisorVars, poolVars, workerVars
  <2>2. \A q \in Pids : \A k : Working(q, k) => Working(q, k)'
    BY <2>1 DEF Working, Dead
  <2>3. spawned' >= spawned
    BY <1>0, <2>1 DEF TypeOK
  <2>4. QED
    BY <1>0, <2>1, <2>2, <2>3, IInvQuiet
<1>8. QED
  BY <1>1, <1>2, <1>3, <1>4, <1>5, <1>6, <1>7 DEF Next, WorkerStep, WorkerFault, HealthCheck

(* The inductive invariant is what KillsOnlyTheLate says, and more.        *)
LEMMA IInvKills == IInv => KillsOnlyTheLate
<1> SUFFICES ASSUME IInv, NEW t \in timers
             PROVE  /\ busy[t[1]] = t[2]
                    /\ \/ Dead(t[1])
                       \/ proc[t[1]] \in {"busy", "stalled"} /\ job[t[1]] = t[2]
                       \/ \E i \in DOMAIN wire[t[1]] : wire[t[1]][i] = Done(t[2])
  BY DEF KillsOnlyTheLate, Done
<1>1. PICK p \in Pids, n \in Nat : t = <<p, n>>
  BY DEF IInv, TypeOK
<1>2. busy[p] = n /\ n # 0
  BY <1>1 DEF IInv, TimerHeld
<1>3. \/ Dead(p)
      \/ proc[p] \in {"busy", "stalled"} /\ job[p] = n
      \/ \E i \in DOMAIN wire[p] : wire[p][i] = Done(n)
  <2>1. CASE wire[p] = <<>>
    BY <1>2, <2>1 DEF IInv, Alternates, Working
  <2>2. CASE wire[p] # <<>>
    <3>1. 1 \in DOMAIN wire[p] /\ wire[p][1] = Done(n)
      BY <1>2, <2>2 DEF IInv, Alternates, TypeOK
    <3>2. QED
      BY <3>1
  <2>3. QED
    BY <2>1, <2>2
<1>4. QED
  BY <1>1, <1>2, <1>3

(* Type correctness of the supervisor, the pool and the workers.           *)
THEOREM TypeCorrect == SafetySpec => []TypeOK
<1>1. Init => TypeOK
  BY IInvInit DEF IInv
<1>2. QED
  BY <1>1, TypeStep, PTL DEF SafetySpec

(* A timer of the supervisor is always that of the job its worker is on,   *)
(* or the worker's DONE is still unread: notify_busy and notify_done       *)
(* alternate, so that one entry per pid is enough, none is overwritten     *)
(* and none is missing when its timer fires.                               *)
THEOREM KillsOnlyTheLateCorrect == SafetySpec => []KillsOnlyTheLate
  BY IInvInit, IInvStep, IInvKills, PTL DEF SafetySpec

-----------------------------------------------------------------------------
(* Every worker alive is one the pool process knows and joins, and when it *)
(* has joined them none is left.                                           *)
StopInv ==
    /\ \A p \in Pids : Alive(p) => p \in procs
    /\ pool = "exited" => \A p \in Pids : ~ Alive(p)

(* Every step keeps it.                                                    *)
LEMMA StopStep == IInv /\ StopInv /\ [Next]_vars => StopInv'
<1> SUFFICES ASSUME IInv, StopInv, [Next]_vars PROVE StopInv'
  OBVIOUS
<1>0. TypeOK /\ Forked
  BY DEF IInv
\* a step that brings nobody to life
<1>1. ASSUME procs' = procs, pool' = pool \/ pool' # "exited",
             \A p \in Pids : Alive(p)' => Alive(p)
      PROVE  StopInv'
  BY <1>1 DEF StopInv
<1>2. ASSUME NEW p \in Pids, WorkerStep(p) \/ StartJob(p) \/ WorkerFault(p) \/ Recv(p)
      PROVE  StopInv'
  <2>1. procs' = procs /\ pool' = pool
    BY <1>2 DEF WorkerStep, WorkerStarts, Link, EndJob, StartJob, WorkerFault, FailJob,
       LeaveOnRestart, Stall, Crash, Recv, poolVars
  <2>2. \A q \in Pids : q # p => proc'[q] = proc[q]
    BY <1>0, <1>2 DEF WorkerStep, WorkerStarts, Link, EndJob, StartJob, WorkerFault, FailJob,
       LeaveOnRestart, Stall, Crash, Recv, Stops, TypeOK
  <2>3. proc'[p] = proc[p] \/ Alive(p)
    BY <1>0, <1>2 DEF WorkerStep, WorkerStarts, Link, EndJob, StartJob, WorkerFault, FailJob,
       LeaveOnRestart, Stall, Crash, Recv, Stops, TypeOK, Alive
  <2>4. \A q \in Pids : Alive(q)' => Alive(q)
    BY <2>2, <2>3 DEF Alive
  <2> QED
    BY <2>1, <2>4, <1>1
<1>3. ASSUME NEW p \in Pids, NEW n \in 1..MaxJobs, Kill(p, n)
      PROVE  StopInv'
  <2>1. procs' = procs /\ pool' = pool
    BY <1>3 DEF Kill, poolVars
  <2>2. \A q \in Pids : proc'[q] = proc[q] \/ proc'[q] = "failed"
    BY <1>0, <1>3 DEF Kill, TypeOK
  <2>3. \A q \in Pids : Alive(q)' => Alive(q)
    BY <2>2 DEF Alive
  <2> QED
    BY <2>1, <2>3, <1>1
<1>4. ASSUME NEW n, NEW S, Fork(n, S), pool' = pool, pool # "exited",
             \A p \in Pids : Alive(p) => p \in S
      PROVE  StopInv'
  <2>1. \A p \in Pids : proc'[p] = proc[p] \/ p \in procs'
    BY <1>4 DEF Fork
  <2>2. \A p \in Pids : Alive(p)' => p \in procs'
    BY <1>4, <2>1 DEF Alive, Fork
  <2> QED
    BY <2>2, <1>4 DEF StopInv
<1>5. CASE ForkFirst
  BY <1>4, <1>5 DEF ForkFirst, StopInv
<1>6. CASE Maintain
  <2>1. \A p \in Pids : Alive(p) => p \in procs \ Exited
    BY DEF StopInv, Exited, Alive, Dead
  <2> QED
    BY <2>1, <1>4, <1>6 DEF Maintain
<1>7. CASE SetHandler \/ EarlyDelayOver \/ Abort
  <2>1. proc' = proc /\ procs' = procs /\ (pool' = pool \/ pool' # "exited")
    BY <1>7 DEF SetHandler, EarlyDelayOver, Abort, workerVars
  <2> QED
    BY <2>1, <1>1 DEF Alive
\* the join: the workers of the pool are dead, and there are no others
<1>8. CASE JoinWorkers
  <2>1. proc' = proc /\ procs' = procs /\ \A p \in procs : Dead(p)
    BY <1>8 DEF JoinWorkers, workerVars
  <2>2. \A p \in Pids : ~ Alive(p)
    BY <2>1 DEF StopInv, Alive, Dead
  <2> QED
    BY <2>1, <2>2 DEF StopInv, Alive
<1>9. CASE TerminateServer
  <2>1. procs' = procs /\ (pool' = pool \/ pool' # "exited")
    BY <1>9 DEF TerminateServer
  <2>2. \A q \in Pids : proc'[q] = proc[q] \/ proc'[q] = OnSigterm(q)
    BY <1>0, <1>9 DEF TerminateServer, TypeOK
  <2>3. \A q \in Pids : OnSigterm(q) = proc[q] \/ OnSigterm(q) \in {"failed", "exited"}
    BY DEF OnSigterm
  <2>4. \A q \in Pids : Alive(q)' => Alive(q)
    BY <2>2, <2>3 DEF Alive
  <2> QED
    BY <2>1, <2>4, <1>1
<1>10. CASE JoinPool \/ UNCHANGED vars
  <2>1. proc' = proc /\ procs' = procs /\ pool' = pool
    BY <1>10 DEF JoinPool, vars, poolVars, workerVars
  <2> QED
    BY <2>1, <1>1 DEF Alive
<1> QED
  BY <1>2, <1>3, <1>5, <1>6, <1>7, <1>8, <1>9, <1>10 DEF Next, PoolStep, HealthCheck

(* No worker outlives an orderly stop of the server, whatever had failed   *)
(* before and whichever workers had been replaced.                         *)
THEOREM OrderlyStopCorrect == SafetySpec => []OrderlyStop
<1>1. Init => StopInv
  BY DEF Init, StopInv, Alive
<1>2. StopInv => OrderlyStop
  BY DEF StopInv, OrderlyStop
<1> QED
  BY <1>1, <1>2, IInvInit, IInvStep, StopStep, PTL DEF SafetySpec

-----------------------------------------------------------------------------
(* Pool._pool is empty until the first fork; from then on it holds exactly *)
(* as many workers as the pool has to have: _repopulate_pool replaces as   *)
(* many as _join_exited_workers removed, and a new pid is none of the old  *)
(* ones.                                                                   *)
PoolSize == IF spawned = 0 THEN procs = {} ELSE Cardinality(procs) = NumWorkers

SizeInv == procs \subseteq 1..spawned /\ PoolSize

(* Filling up the pool after a join makes it complete.                     *)
LEMMA ForkSize ==
  ASSUME TypeOK, NEW S \in SUBSET (1..spawned), NEW n,
         n = NumWorkers - Cardinality(S), Fork(n, S)
  PROVE  SizeInv'
<1> DEFINE new == (spawned + 1)..(spawned + n)
<1>1. n \in Nat /\ spawned \in Nat /\ spawned' = spawned + n /\ procs' = S \cup new
  BY PoolAssumption DEF Fork, TypeOK
<1>2. IsFiniteSet(S) /\ Cardinality(S) \in Nat
  <2>1. IsFiniteSet(1..spawned)
    BY <1>1, FS_Interval
  <2> QED
    BY <2>1, FS_Subset, FS_CardinalityType
<1>3. IsFiniteSet(new) /\ Cardinality(new) = n
  <2>1. spawned + 1 \in Int /\ spawned + n \in Int
    BY <1>1
  <2>2. /\ IsFiniteSet(new)
        /\ Cardinality(new) =
              IF spawned + 1 > spawned + n THEN 0 ELSE (spawned + n) - (spawned + 1) + 1
    BY <2>1, FS_Interval
  <2> HIDE DEF new
  <2> QED
    BY <2>2, <1>1
<1>4. S \cap new = {}
  BY <1>1
<1>5. Cardinality(S \cup new) = Cardinality(S) + Cardinality(new) - Cardinality({})
  <2> HIDE DEF new
  <2>1. Cardinality(S \cup new) = Cardinality(S) + Cardinality(new) - Cardinality(S \cap new)
    BY <1>2, <1>3, FS_Union, Zenon
  <2> QED
    BY <2>1, <1>4
<1>6. Cardinality(S \cup new) = NumWorkers
  <2> HIDE DEF new
  <2>1. Cardinality({}) = 0 /\ NumWorkers \in Nat
    BY FS_EmptySet, PoolAssumption
  <2> QED
    BY <1>1, <1>2, <1>3, <1>5, <2>1
<1>7. procs' \subseteq 1..spawned'
  <2>1. S \subseteq 1..(spawned + n) /\ new \subseteq 1..(spawned + n)
    BY <1>1
  <2> QED
    BY <2>1, <1>1
<1>8. spawned' # 0
  <2>1. CASE n = 0
    <3>1. Cardinality(S) # 0 /\ Cardinality({}) = 0
      BY <2>1, <1>2, FS_EmptySet, PoolAssumption
    <3>2. S # {}
      BY <3>1
    <3>3. PICK p \in S : p \in 1..spawned
      BY <3>2
    <3> QED
      BY <3>3, <2>1, <1>1
  <2>2. CASE n # 0
    BY <2>2, <1>1
  <2> QED
    BY <2>1, <2>2
<1> QED
  BY <1>1, <1>6, <1>7, <1>8 DEF SizeInv, PoolSize

(* Every step keeps the size.                                              *)
LEMMA SizeStep == TypeOK /\ SizeInv /\ [Next]_vars => SizeInv'
<1> SUFFICES ASSUME TypeOK, SizeInv, [Next]_vars PROVE SizeInv'
  OBVIOUS
<1>1. CASE ForkFirst
  <2>1. NumWorkers = NumWorkers - Cardinality({}) /\ {} \in SUBSET (1..spawned)
    BY FS_EmptySet, PoolAssumption
  <2> QED
    BY <2>1, <1>1, ForkSize DEF ForkFirst
<1>2. CASE Maintain
  <2>1. procs \ Exited \in SUBSET (1..spawned)
    BY DEF SizeInv
  <2> QED
    BY <2>1, <1>2, ForkSize DEF Maintain
<1>3. ASSUME UNCHANGED <<procs, spawned>>
      PROVE  SizeInv'
  BY <1>3 DEF SizeInv, PoolSize
<1>4. ASSUME NEW p \in Pids, WorkerStep(p) \/ StartJob(p) \/ WorkerFault(p) \/ Recv(p)
      PROVE  UNCHANGED <<procs, spawned>>
  BY <1>4 DEF WorkerStep, WorkerStarts, Link, EndJob, StartJob, WorkerFault, FailJob,
     LeaveOnRestart, Stall, Crash, Recv, poolVars
<1>5. ASSUME NEW p \in Pids, NEW n \in 1..MaxJobs, Kill(p, n)
      PROVE  UNCHANGED <<procs, spawned>>
  BY <1>5 DEF Kill, poolVars
<1>6. CASE SetHandler \/ EarlyDelayOver \/ Abort \/ JoinWorkers
  BY <1>3, <1>6 DEF SetHandler, EarlyDelayOver, Abort, JoinWorkers
<1>7. CASE TerminateServer \/ JoinPool \/ UNCHANGED vars
  BY <1>3, <1>7 DEF TerminateServer, JoinPool, vars, poolVars
<1> QED
  BY <1>1, <1>2, <1>3, <1>4, <1>5, <1>6, <1>7 DEF Next, PoolStep, HealthCheck

(* The pool never has more workers than it was asked for, nor fewer, from  *)
(* its first fork on, however many workers died at once.                   *)
THEOREM PoolSizeCorrect == SafetySpec => []PoolSize
<1>1. Init => SizeInv
  BY DEF Init, SizeInv, PoolSize
<1>2. SizeInv => PoolSize
  BY DEF SizeInv
<1> QED
  BY <1>1, <1>2, SizeStep, TypeCorrect, PTL DEF SafetySpec
=============================================================================
