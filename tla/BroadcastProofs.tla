--------------------------- MODULE BroadcastProofs ---------------------------
(***************************************************************************)
(* TypeOK, ReportUnderway and RestartUnderway hold for any number of       *)
(* workers, plugins, collections, writes and failures, and for any high    *)
(* water mark of the PUB socket.                                           *)
(*                                                                         *)
(* The argument: a full pipe is not empty, so a worker that a REPORT does  *)
(* not reach has another command before it, and every command makes it     *)
(* report or leave; a worker that was not reached by a RESTART is in       *)
(* missed; and plugins are never loaded before the last RESTART that was   *)
(* broadcast, as that one is not later than now.                           *)
(***************************************************************************)
EXTENDS Broadcast, TLAPS

IInv == TypeOK /\ asked <= now /\ ReportUnderway /\ RestartUnderway

-----------------------------------------------------------------------------
(* What is appended is there, and so is what was there.                    *)
LEMMA HasAppend ==
    ASSUME NEW S, NEW q \in Seq(S), NEW e \in S
    PROVE  /\ Append(q, e) \in Seq(S) /\ Len(Append(q, e)) = Len(q) + 1
           /\ Has(Append(q, e), e)
           /\ \A x : Has(q, x) => Has(Append(q, e), x)
<1>1. /\ Append(q, e) \in Seq(S) /\ Len(Append(q, e)) = Len(q) + 1 /\ Len(q) \in Nat
      /\ DOMAIN q = 1..Len(q) /\ DOMAIN Append(q, e) = 1..(Len(q) + 1)
      /\ Append(q, e)[Len(q) + 1] = e
  OBVIOUS
<1>2. \A i \in DOMAIN q : i \in DOMAIN Append(q, e) /\ Append(q, e)[i] = q[i]
  BY <1>1
<1>3. Len(q) + 1 \in DOMAIN Append(q, e)
  BY <1>1
<1> QED
  BY <1>1, <1>2, <1>3 DEF Has

(* Without its head, a queue has what it had but the head.                 *)
LEMMA HasTail ==
    ASSUME NEW S, NEW q \in Seq(S), q # <<>>
    PROVE  /\ Tail(q) \in Seq(S) /\ Len(Tail(q)) = Len(q) - 1 /\ Len(q) \in Nat
           /\ Head(q) \in S /\ Has(q, Head(q))
           /\ \A x : Has(q, x) => x = Head(q) \/ Has(Tail(q), x)
<1>1. /\ Tail(q) \in Seq(S) /\ Len(Tail(q)) = Len(q) - 1 /\ Len(q) \in Nat
      /\ Head(q) \in S /\ Head(q) = q[1] /\ 1 \in DOMAIN q
  OBVIOUS
<1>2. ASSUME NEW x, NEW i \in DOMAIN q, q[i] = x, x # Head(q) PROVE Has(Tail(q), x)
  <2>1. i # 1 /\ i \in 1..Len(q)
    BY <1>1, <1>2
  <2>2. i - 1 \in DOMAIN Tail(q) /\ Tail(q)[i - 1] = x
    BY <1>1, <1>2, <2>1
  <2> QED
    BY <2>2 DEF Has
<1> QED
  BY <1>1, <1>2 DEF Has

(* A pipe that is full has a command.                                      *)
LEMMA FullHas ==
    ASSUME NEW q \in Seq(Command), ~ (Len(q) < SndHwm)
    PROVE  Has(q, "REPORT") \/ Has(q, "RESTART")
<1>1. q # <<>>
  BY BroadcastAssumption
<1> QED
  BY <1>1, HasTail DEF Command

-----------------------------------------------------------------------------
(* What a broadcast does to the pipes.                                     *)
LEMMA SendAllEffect ==
    ASSUME TypeOK, NEW command \in Command, SendAll(command)
    PROVE  /\ pipe' \in [Workers -> Seq(Command)]
           /\ \A w \in Workers : /\ Len(pipe'[w]) <= SndHwm
                                 /\ w \in Reached => Has(pipe'[w], command)
                                 /\ w \notin Reached => pipe'[w] = pipe[w]
                                 /\ \A x : Has(pipe[w], x) => Has(pipe'[w], x)
<1> SUFFICES ASSUME NEW w \in Workers
             PROVE  /\ pipe'[w] \in Seq(Command) /\ Len(pipe'[w]) <= SndHwm
                    /\ w \in Reached => Has(pipe'[w], command)
                    /\ w \notin Reached => pipe'[w] = pipe[w]
                    /\ \A x : Has(pipe[w], x) => Has(pipe'[w], x)
  BY DEF SendAll
<1>1. pipe[w] \in Seq(Command) /\ Len(pipe[w]) \in Nat /\ Len(pipe[w]) <= SndHwm
  BY DEF TypeOK
<1>2. CASE w \in Reached
  <2>1. pipe'[w] = Append(pipe[w], command) /\ Len(pipe[w]) < SndHwm
    BY <1>2 DEF SendAll, Reached
  <2>2. /\ Append(pipe[w], command) \in Seq(Command)
        /\ Len(Append(pipe[w], command)) = Len(pipe[w]) + 1
        /\ Has(Append(pipe[w], command), command)
        /\ \A x : Has(pipe[w], x) => Has(Append(pipe[w], command), x)
    BY <1>1, HasAppend
  <2> QED
    BY <1>1, <1>2, <2>1, <2>2, BroadcastAssumption
<1>3. CASE w \notin Reached
  BY <1>1, <1>3 DEF SendAll
<1> QED
  BY <1>2, <1>3

(* RESTART is broadcast.                                                   *)
LEMMA RestartStep ==
    ASSUME IInv, BroadcastRestart,
           UNCHANGED <<fileVars, workerVars, inbox, reportVars, polled>>,
           watched' \in SUBSET Files, seen' \in [Files -> Nat], events' \in Nat
    PROVE  IInv'
<1> USE DEF IInv
<1>1. /\ pipe' \in [Workers -> Seq(Command)]
      /\ \A w \in Workers : /\ Len(pipe'[w]) <= SndHwm
                            /\ w \in Reached => Has(pipe'[w], "RESTART")
                            /\ \A x : Has(pipe[w], x) => Has(pipe'[w], x)
  BY SendAllEffect DEF BroadcastRestart, Command
<1>2. asked' = now /\ missed' = missed \cup {w \in Workers \ Reached : worker[w] \in {"loaded", "loop"}}
  BY DEF BroadcastRestart
<1>3. TypeOK' /\ asked' <= now'
  <2>1. asked' \in Nat /\ missed' \subseteq Workers /\ asked' <= now
    BY <1>2 DEF TypeOK
  <2> QED
    BY <1>1, <2>1 DEF TypeOK, fileVars, workerVars, reportVars
<1>4. ReportUnderway'
  BY <1>1 DEF TypeOK, ReportUnderway, OnTheWay, workerVars, reportVars
<1>5. RestartUnderway'
  BY <1>1, <1>2 DEF TypeOK, RestartUnderway, OnTheWay, workerVars
<1> QED
  BY <1>3, <1>4, <1>5

(* A collection begins.                                                    *)
LEMMA GetReportsStep ==
    ASSUME IInv, NEW c \in Collections, GetReports(c)
    PROVE  IInv'
<1> USE DEF IInv
<1>0. /\ UNCHANGED <<fileVars, monitorVars, workerVars, inbox, asked, missed, events>>
      /\ reports' = {} /\ polled' = subs
      /\ call' = [call EXCEPT ![c] = [state |-> "waiting", so_far |-> 0]]
  BY DEF GetReports
<1>1. /\ pipe' \in [Workers -> Seq(Command)]
      /\ \A w \in Workers : /\ Len(pipe'[w]) <= SndHwm
                            /\ w \in Reached => Has(pipe'[w], "REPORT")
                            /\ w \notin Reached => pipe'[w] = pipe[w]
                            /\ \A x : Has(pipe[w], x) => Has(pipe'[w], x)
  BY SendAllEffect DEF GetReports, Command
<1>2. TypeOK' /\ asked' <= now'
  BY <1>0, <1>1 DEF TypeOK, fileVars, monitorVars, workerVars
<1>3. ReportUnderway'
  <2> SUFFICES ASSUME NEW w \in subs
               PROVE  Has(pipe'[w], "REPORT") \/ Has(pipe'[w], "RESTART")
    BY <1>0 DEF ReportUnderway, OnTheWay
  <2>1. w \in Workers /\ pipe[w] \in Seq(Command)
    BY DEF TypeOK
  <2>2. CASE w \in Reached
    BY <1>1, <2>1, <2>2
  <2>3. CASE w \notin Reached
    BY <1>1, <2>1, <2>3, FullHas DEF Reached
  <2> QED
    BY <2>2, <2>3
<1>4. RestartUnderway'
  BY <1>0, <1>1 DEF TypeOK, RestartUnderway, OnTheWay, workerVars
<1> QED
  BY <1>2, <1>3, <1>4

-----------------------------------------------------------------------------
(* The process of a place ends.                                            *)
LEMMA GoneStep ==
    ASSUME IInv, NEW w \in Workers, Gone({w}),
           UNCHANGED <<fileVars, monitorVars, gen, loaded, reportVars, asked>>,
           wire' \in [Workers -> Seq(Nat)],
           \A v \in Workers : v # w => wire'[v] = wire[v],
           events' \in Nat
    PROVE  IInv'
<1> USE DEF IInv
<1>0. <<>> \in Seq(Command) /\ Len(<<>>) <= SndHwm
  BY BroadcastAssumption
<1>1. /\ worker' = [v \in Workers |-> IF v = w THEN "gone" ELSE worker[v]]
      /\ subs' = subs \ {w} /\ linked' = linked \ {w}
      /\ pipe' = [v \in Workers |-> IF v = w THEN <<>> ELSE pipe[v]]
      /\ inbox' = [v \in Workers |-> IF v = w THEN <<>> ELSE inbox[v]]
      /\ missed' = missed \ {w} /\ polled' = polled \ {w}
  BY DEF Gone
<1>2. TypeOK' /\ asked' <= now'
  BY <1>0, <1>1 DEF TypeOK, fileVars, monitorVars, reportVars
<1>3. ReportUnderway'
  BY <1>1 DEF TypeOK, ReportUnderway, OnTheWay, reportVars
<1>4. RestartUnderway'
  BY <1>1 DEF TypeOK, RestartUnderway, OnTheWay
<1> QED
  BY <1>2, <1>3, <1>4

(* A command moves from the pipe of a worker to its inbox.                 *)
LEMMA DeliverStep ==
    ASSUME IInv, NEW w \in Workers, Deliver(w)
    PROVE  IInv'
<1> USE DEF IInv
<1>0. /\ pipe[w] # <<>> /\ pipe[w] \in Seq(Command) /\ inbox[w] \in Seq(Command)
      /\ Len(pipe[w]) <= SndHwm
  BY DEF Deliver, TypeOK
<1>1. /\ Tail(pipe[w]) \in Seq(Command) /\ Len(Tail(pipe[w])) <= SndHwm
      /\ Head(pipe[w]) \in Command
      /\ \A x : Has(pipe[w], x) => x = Head(pipe[w]) \/ Has(Tail(pipe[w]), x)
  BY <1>0, HasTail, BroadcastAssumption
<1>2. /\ Append(inbox[w], Head(pipe[w])) \in Seq(Command)
      /\ Has(Append(inbox[w], Head(pipe[w])), Head(pipe[w]))
      /\ \A x : Has(inbox[w], x) => Has(Append(inbox[w], Head(pipe[w])), x)
  BY <1>0, <1>1, HasAppend
<1>3. /\ pipe' = [pipe EXCEPT ![w] = Tail(pipe[w])]
      /\ inbox' = [inbox EXCEPT ![w] = Append(inbox[w], Head(pipe[w]))]
      /\ UNCHANGED <<fileVars, monitorVars, workerVars, reportVars, historyVars, events>>
  BY DEF Deliver
<1>4. \A v \in Workers : \A x : OnTheWay(pipe[v], inbox[v], x) => OnTheWay(pipe'[v], inbox'[v], x)
  BY <1>1, <1>2, <1>3 DEF TypeOK, OnTheWay
<1>5. TypeOK' /\ asked' <= now'
  BY <1>1, <1>2, <1>3 DEF TypeOK, fileVars, monitorVars, workerVars, reportVars, historyVars
<1>6. ReportUnderway'
  BY <1>3, <1>4 DEF TypeOK, ReportUnderway, workerVars, reportVars, historyVars
<1>7. RestartUnderway'
  BY <1>3, <1>4 DEF TypeOK, RestartUnderway, workerVars, historyVars
<1> QED
  BY <1>5, <1>6, <1>7

(* A worker reads REPORT.                                                  *)
LEMMA ReadReportStep ==
    ASSUME IInv, NEW w \in Workers, ReadReport(w)
    PROVE  IInv'
<1> USE DEF IInv
<1>0. /\ inbox[w] # <<>> /\ inbox[w] \in Seq(Command) /\ Head(inbox[w]) = "REPORT"
      /\ wire[w] \in Seq(Nat) /\ gen[w] \in Nat
  BY DEF ReadReport, TypeOK
<1>1. /\ Tail(inbox[w]) \in Seq(Command)
      /\ \A x : Has(inbox[w], x) => x = "REPORT" \/ Has(Tail(inbox[w]), x)
  BY <1>0, HasTail
<1>2. /\ Append(wire[w], gen[w]) \in Seq(Nat)
      /\ Has(Append(wire[w], gen[w]), gen[w])
  BY <1>0, HasAppend
<1>3. /\ inbox' = [inbox EXCEPT ![w] = Tail(inbox[w])]
      /\ \/ w \in linked /\ wire' = [wire EXCEPT ![w] = Append(wire[w], gen[w])] /\ polled' = polled
         \/ w \notin linked /\ wire' = wire /\ polled' = polled \ {w}
      /\ UNCHANGED <<fileVars, monitorVars, worker, gen, loaded, subs, linked, pipe, reportVars,
                     asked, missed, events>>
  BY DEF ReadReport
<1>4. TypeOK' /\ asked' <= now'
  BY <1>1, <1>2, <1>3 DEF TypeOK, fileVars, monitorVars, reportVars
<1>5. ReportUnderway'
  BY <1>2, <1>3 DEF TypeOK, ReportUnderway, OnTheWay, reportVars
<1>6. RestartUnderway'
  BY <1>1, <1>3 DEF TypeOK, RestartUnderway, OnTheWay
<1> QED
  BY <1>4, <1>5, <1>6

(* The supervisor receives a report.                                       *)
LEMMA RecvReportStep ==
    ASSUME IInv, NEW w \in Workers, RecvReport(w)
    PROVE  IInv'
<1> USE DEF IInv
<1>0. wire[w] # <<>> /\ wire[w] \in Seq(Nat)
  BY DEF RecvReport, TypeOK
<1>1. /\ Tail(wire[w]) \in Seq(Nat) /\ Head(wire[w]) \in Nat
      /\ \A x : Has(wire[w], x) => x = Head(wire[w]) \/ Has(Tail(wire[w]), x)
  BY <1>0, HasTail
<1>2. /\ wire' = [wire EXCEPT ![w] = Tail(wire[w])]
      /\ reports' = reports \cup {<<w, Head(wire[w])>>}
      /\ UNCHANGED <<fileVars, monitorVars, worker, gen, loaded, subs, linked, queueVars, call,
                     historyVars, events>>
  BY DEF RecvReport
<1>3. TypeOK' /\ asked' <= now'
  <2>1. reports' \subseteq Workers \X Nat /\ wire' \in [Workers -> Seq(Nat)]
    BY <1>1, <1>2 DEF TypeOK
  <2> QED
    BY <1>2, <2>1 DEF TypeOK, fileVars, monitorVars, queueVars, historyVars
<1>4. ReportUnderway'
  BY <1>1, <1>2 DEF TypeOK, ReportUnderway, OnTheWay, queueVars, historyVars
<1>5. RestartUnderway'
  BY <1>2 DEF RestartUnderway, OnTheWay, queueVars, historyVars
<1> QED
  BY <1>3, <1>4, <1>5

-----------------------------------------------------------------------------
(* The initial states satisfy the invariant.                               *)
LEMMA IInvInit == Init => IInv
<1> SUFFICES ASSUME Init PROVE IInv
  OBVIOUS
<1>0. <<>> \in Seq(Command) /\ <<>> \in Seq(Nat) /\ Len(<<>>) <= SndHwm
  BY BroadcastAssumption
<1>1. TypeOK
  BY <1>0 DEF Init, TypeOK, WatchFiles, Files
<1> QED
  BY <1>1 DEF Init, IInv, ReportUnderway, RestartUnderway

(* Every step keeps it.                                                    *)
LEMMA IInvStep == IInv /\ [Next]_vars => IInv'
<1> SUFFICES ASSUME IInv, [Next]_vars PROVE IInv'
  OBVIOUS
<1> USE DEF IInv
<1>1. ASSUME NEW f \in Files, Touch(f) \/ Remove(f) PROVE IInv'
  <2>1. /\ now' = now + 1 /\ mtime' \in [Files -> Nat]
        /\ UNCHANGED <<monitorVars, workerVars, queueVars, reportVars, historyVars, events>>
    <3>1. now + 1 \in Nat /\ mtime \in [Files -> Nat]
      BY DEF TypeOK
    <3>2. CASE Touch(f)
      BY <3>1, <3>2 DEF Touch
    <3>3. CASE Remove(f)
      BY <3>1, <3>3 DEF Remove
    <3> QED
      BY <1>1, <3>2, <3>3
  <2>2. TypeOK' /\ asked' <= now'
    <3>1. now' \in Nat /\ asked <= now'
      BY <2>1 DEF TypeOK
    <3> QED
      BY <2>1, <3>1 DEF TypeOK, monitorVars, workerVars, queueVars, reportVars, historyVars
  <2> QED
    BY <2>1, <2>2 DEF ReportUnderway, RestartUnderway, workerVars, queueVars, reportVars, historyVars
<1>2. ASSUME CheckFiles PROVE IInv'
  <2>1. seen' \in [Files -> Nat] /\ WatchFiles \in SUBSET Files
    BY <1>2 DEF CheckFiles, TypeOK, WatchFiles, Files
  <2>2. CASE Changed = {}
    BY <1>2, <2>1, <2>2
    DEF CheckFiles, TypeOK, ReportUnderway, RestartUnderway, fileVars, workerVars, reportVars
  <2>3. CASE Changed # {}
    BY <1>2, <2>1, <2>3, RestartStep DEF CheckFiles, TypeOK
  <2> QED
    BY <2>2, <2>3
<1>3. ASSUME PostRestart PROVE IInv'
  <2>1. /\ BroadcastRestart /\ events' = events + 1
        /\ UNCHANGED <<fileVars, monitorVars, workerVars, inbox, reportVars, polled>>
    BY <1>3 DEF PostRestart
  <2>2. watched' \in SUBSET Files /\ seen' \in [Files -> Nat] /\ events' \in Nat
    BY <2>1 DEF TypeOK, monitorVars
  <2> QED
    BY <2>1, <2>2, RestartStep
<1>4. ASSUME NEW c \in Collections, GetReports(c) PROVE IInv'
  BY <1>4, GetReportsStep
<1>5. ASSUME NEW c \in Collections, WaitOver(c) PROVE IInv'
  <2>1. /\ call' \in [Collections -> [state : {"idle", "waiting", "done"}, so_far : Nat]]
        /\ UNCHANGED <<fileVars, monitorVars, workerVars, queueVars, reports, historyVars, events>>
    BY <1>5 DEF WaitOver, TypeOK
  <2> QED
    BY <2>1 DEF TypeOK, ReportUnderway, RestartUnderway, fileVars, monitorVars, workerVars,
                queueVars, historyVars
<1>6. ASSUME NEW w \in Workers, RecvReport(w) PROVE IInv'
  BY <1>6, RecvReportStep
<1>7. ASSUME NEW w \in Workers, Fork(w) \/ InitServer(w) \/ EnterLoop(w) PROVE IInv'
  <2>1. /\ \/ worker[w] = "gone" /\ worker' = [worker EXCEPT ![w] = "forked"]
              /\ gen' = [gen EXCEPT ![w] = gen[w] + 1] /\ loaded' = loaded
           \/ worker[w] = "forked" /\ worker' = [worker EXCEPT ![w] = "loaded"]
              /\ gen' = gen /\ loaded' = [loaded EXCEPT ![w] = now]
           \/ worker[w] = "loaded" /\ worker' = [worker EXCEPT ![w] = "loop"]
              /\ gen' = gen /\ loaded' = loaded
        /\ UNCHANGED <<fileVars, monitorVars, subs, linked, wire, queueVars, reportVars,
                       historyVars, events>>
    BY <1>7 DEF Fork, InitServer, EnterLoop
  <2>2. TypeOK' /\ asked' <= now'
    <3>1. /\ worker' \in [Workers -> {"gone", "forked", "loaded", "loop"}]
          /\ gen' \in [Workers -> Nat] /\ loaded' \in [Workers -> Nat]
      <4>1. /\ worker \in [Workers -> {"gone", "forked", "loaded", "loop"}]
            /\ gen \in [Workers -> Nat] /\ loaded \in [Workers -> Nat] /\ now \in Nat
        BY DEF TypeOK
      <4>2. gen[w] + 1 \in Nat
        BY <4>1
      <4>3. worker' \in [Workers -> {"gone", "forked", "loaded", "loop"}]
        BY <2>1, <4>1
      <4>4. gen' \in [Workers -> Nat]
        BY <2>1, <4>1, <4>2
      <4>5. loaded' \in [Workers -> Nat]
        BY <2>1, <4>1
      <4> QED
        BY <4>3, <4>4, <4>5
    <3>2. \A v \in Workers : worker[v] = "loop" => worker'[v] = "loop"
      BY <2>1 DEF TypeOK
    <3>3. /\ subs' \subseteq {v \in Workers : worker'[v] = "loop"}
          /\ linked' \subseteq {v \in Workers : worker'[v] = "loop"}
      BY <2>1, <3>2 DEF TypeOK
    <3>4. UNCHANGED <<fileVars, monitorVars, subs, wire, queueVars, reportVars, historyVars, events>>
      BY <2>1
    <3> QED
      BY <3>1, <3>3, <3>4 DEF TypeOK, fileVars, monitorVars, queueVars, reportVars, historyVars
  <2>3. ReportUnderway'
    BY <2>1 DEF TypeOK, ReportUnderway, queueVars, reportVars, historyVars
  <2>4. RestartUnderway'
    BY <2>1 DEF TypeOK, RestartUnderway, fileVars, queueVars, historyVars
  <2> QED
    BY <2>2, <2>3, <2>4
<1>8. ASSUME NEW w \in Workers, Subscribe(w) \/ Link(w) PROVE IInv'
  <2>1. /\ worker[w] = "loop"
        /\ subs' \in {subs, subs \cup {w}} /\ linked' \in {linked, linked \cup {w}}
        /\ UNCHANGED <<fileVars, monitorVars, worker, gen, loaded, wire, queueVars, reportVars,
                       historyVars, events>>
    BY <1>8 DEF Subscribe, Link
  <2>2. TypeOK' /\ asked' <= now'
    BY <2>1 DEF TypeOK, fileVars, monitorVars, queueVars, reportVars, historyVars
  <2> QED
    BY <2>1, <2>2 DEF ReportUnderway, RestartUnderway, queueVars, reportVars, historyVars
<1>9. ASSUME NEW w \in Workers, Deliver(w) PROVE IInv'
  BY <1>9, DeliverStep
<1>10. ASSUME NEW w \in Workers, ReadReport(w) PROVE IInv'
  BY <1>10, ReadReportStep
<1>11. ASSUME NEW w \in Workers, ReadRestart(w) \/ WorkerDies(w) PROVE IInv'
  <2>1. <<>> \in Seq(Nat)
    OBVIOUS
  <2>2. /\ Gone({w})
        /\ UNCHANGED <<fileVars, monitorVars, gen, loaded, reportVars, asked>>
        /\ wire' \in [Workers -> Seq(Nat)]
        /\ \A v \in Workers : v # w => wire'[v] = wire[v]
        /\ events' \in Nat
    <3>1. wire \in [Workers -> Seq(Nat)] /\ events \in Nat
      BY DEF TypeOK
    <3>2. CASE ReadRestart(w)
      BY <3>1, <3>2 DEF ReadRestart
    <3>3. CASE WorkerDies(w)
      <4>1. events' \in Nat
        BY <3>1, <3>3 DEF WorkerDies
      <4>2. wire' \in {wire, [wire EXCEPT ![w] = <<>>]}
        BY <3>3 DEF WorkerDies
      <4>3. wire' \in [Workers -> Seq(Nat)] /\ \A v \in Workers : v # w => wire'[v] = wire[v]
        BY <2>1, <3>1, <4>2
      <4> QED
        BY <3>3, <4>1, <4>3 DEF WorkerDies
    <3> QED
      BY <1>11, <3>2, <3>3
  <2> QED
    BY <2>2, GoneStep
<1>12. ASSUME UNCHANGED vars PROVE IInv'
  BY <1>12 DEF vars, TypeOK, ReportUnderway, RestartUnderway, fileVars, monitorVars, workerVars,
               queueVars, reportVars, historyVars
<1> QED
  BY <1>1, <1>2, <1>3, <1>4, <1>5, <1>6, <1>7, <1>8, <1>9, <1>10, <1>11, <1>12
  DEF Next, WorkerStep

-----------------------------------------------------------------------------
(* The invariant holds in every behaviour.                                 *)
LEMMA IInvCorrect == Spec => []IInv
BY IInvInit, IInvStep, PTL DEF Spec, SafetySpec

(* Type correctness of the monitor, the workers and their queues: the PUB  *)
(* socket never holds more than its high water mark for a worker, and a    *)
(* place without a process has no sockets.                                 *)
THEOREM TypeCorrect == Spec => []TypeOK
<1>1. IInv => TypeOK
  BY DEF IInv
<1> QED
  BY <1>1, IInvCorrect, PTL

(* However collections overlap and whatever the PUB socket drops, of every *)
(* process that was connected when reports were last asked for, the report *)
(* is there or comes, unless the process leaves.                           *)
THEOREM ReportUnderwayCorrect == Spec => []ReportUnderway
<1>1. IInv => ReportUnderway
  BY DEF IInv
<1> QED
  BY <1>1, IInvCorrect, PTL

(* A process with plugins older than the last restart has a RESTART on its *)
(* way, unless the broadcast did not reach it.                             *)
THEOREM RestartUnderwayCorrect == Spec => []RestartUnderway
<1>1. IInv => RestartUnderway
  BY DEF IInv
<1> QED
  BY <1>1, IInvCorrect, PTL
=============================================================================
