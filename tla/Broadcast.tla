------------------------------ MODULE Broadcast ------------------------------
(***************************************************************************)
(* What the main process broadcasts to its workers, and what comes back:   *)
(* RESTART, from the restart monitor (_RestartHandler of                   *)
(* src/pyqgisserver/qgspool.py over src/pyqgisservercontrib/core/          *)
(* watchfiles.py) or from the management server, and REPORT, whose answers *)
(* get_reports collects in the Supervisor.                                 *)
(*                                                                         *)
(* A place w of the pool is held by one process after another; the process *)
(* <<w, gen[w]>> stands for a pid.  Files are written at increasing times, *)
(* and a worker has loaded the plugins as they were at loaded[w].  The     *)
(* event loop of the main process is running: Server has how it comes to   *)
(* that, and how it ends.                                                  *)
(*                                                                         *)
(* Definitions named Mut_... are faulty variants of the one that follows   *)
(* them, kept to show that the properties reject them.                     *)
(***************************************************************************)
EXTENDS Naturals, Sequences, FiniteSets

CONSTANTS
    Workers,      \* the places of the pool
    RestartMon,   \* the file of the restartmon option
    Manifests,    \* the .update-manifest files that plugins may have
    Collections,  \* the calls of get_reports
    MaxWait,      \* maxwait of get_reports
    SndHwm,       \* SNDHWM of the PUB socket
    MaxTime,      \* bound on the writes to files
    MaxGen,       \* bound on the processes of a place
    MaxEvents     \* bound on posted restarts and on workers that die

ASSUME BroadcastAssumption ==
    /\ IsFiniteSet(Workers)
    /\ RestartMon \notin Manifests
    /\ MaxWait \in Nat \ {0}
    /\ SndHwm \in Nat \ {0}
    /\ MaxTime \in Nat
    /\ MaxGen \in Nat
    /\ MaxEvents \in Nat

Files == Manifests \cup {RestartMon}

VARIABLES
    \* files
    now,        \* number of writes so far
    mtime,      \* per file: time of its last write, or 0 if it is not there
    \* restart monitor
    watched,    \* _RestartHandler._watch_files
    seen,       \* per file: modify_times of watchfiles, or 0
    \* workers
    worker,     \* per place: "gone", "forked", "loaded" (init_server done) or "loop"
    gen,        \* per place: number of processes so far
    loaded,     \* per place: time at which plugins were loaded
    subs,       \* places whose SUB socket is connected
    linked,     \* places whose socket to the supervisor is connected
    pipe,       \* per place: commands queued in the PUB socket
    inbox,      \* per place: commands queued in the SUB socket
    wire,       \* per place: the reports on the way, as generations
    \* Supervisor and get_reports
    reports,    \* the processes in Supervisor._reports
    call,       \* per collection: its state and so_far
    \* history
    asked,      \* time at which the last RESTART was broadcast
    missed,     \* places whose process a RESTART did not reach
    polled,     \* places whose process was connected at the last REPORT
    events      \* posted restarts and workers that died

fileVars == <<now, mtime>>
monitorVars == <<watched, seen>>
workerVars == <<worker, gen, loaded, subs, linked, wire>>
queueVars == <<pipe, inbox>>
reportVars == <<reports, call>>
historyVars == <<asked, missed, polled>>
vars == <<fileVars, monitorVars, workerVars, queueVars, reportVars, historyVars, events>>

(* _RestartHandler.update_files: the manifests are those that glob finds.  *)
WatchFiles == {RestartMon} \cup {f \in Manifests : mtime[f] # 0}

(* start_supervisor has started the restart monitor.                       *)
Init ==
    /\ now = 1
    /\ mtime \in [Files -> 0..1]
    /\ watched = WatchFiles
    /\ seen = [f \in Files |-> 0]
    /\ worker = [w \in Workers |-> "gone"]
    /\ gen = [w \in Workers |-> 0]
    /\ loaded = [w \in Workers |-> 0]
    /\ subs = {}
    /\ linked = {}
    /\ pipe = [w \in Workers |-> <<>>]
    /\ inbox = [w \in Workers |-> <<>>]
    /\ wire = [w \in Workers |-> <<>>]
    /\ reports = {}
    /\ call = [c \in Collections |-> [state |-> "idle", so_far |-> 0]]
    /\ asked = 0
    /\ missed = {}
    /\ polled = {}
    /\ events = 0

(* A file is written or removed by whoever maintains the plugins.          *)
Touch(f) ==
    /\ now < MaxTime
    /\ now' = now + 1
    /\ mtime' = [mtime EXCEPT ![f] = now']
    /\ UNCHANGED <<monitorVars, workerVars, queueVars, reportVars, historyVars, events>>

Remove(f) ==
    /\ now < MaxTime
    /\ mtime[f] # 0
    /\ now' = now + 1
    /\ mtime' = [mtime EXCEPT ![f] = 0]
    /\ UNCHANGED <<monitorVars, workerVars, queueVars, reportVars, historyVars, events>>

-----------------------------------------------------------------------------
(* WorkerPoolServer.broadcast.                                             *)

Has(q, command) == \E i \in DOMAIN q : q[i] = command

Mut_ReachedAll == subs

(* The subscribers whose pipe has room: PUB drops the message for others.  *)
Reached == {w \in subs : Len(pipe[w]) < SndHwm}

SendAll(command) ==
    pipe' = [w \in Workers |-> IF w \in Reached THEN Append(pipe[w], command) ELSE pipe[w]]

(* WorkerPoolServer.restart.                                               *)
BroadcastRestart ==
    /\ SendAll("RESTART")
    /\ asked' = now
    /\ missed' = missed \cup {w \in Workers \ Reached : worker[w] \in {"loaded", "loop"}}

Mut_ChangedOnce == {f \in watched : mtime[f] # 0 /\ seen[f] = 0}

(* _check_file: a file seen for the first time is not a modified one.      *)
Changed == {f \in watched : mtime[f] # 0 /\ seen[f] # 0 /\ seen[f] # mtime[f]}

(* _update_callback of watchfiles, with callback of _RestartHandler.       *)
CheckFiles ==
    /\ seen' = [f \in Files |-> IF f \in watched /\ mtime[f] # 0 THEN mtime[f] ELSE seen[f]]
    /\ IF Changed = {} THEN UNCHANGED <<pipe, asked, missed, watched>>
       ELSE BroadcastRestart /\ watched' = WatchFiles
    /\ UNCHANGED <<fileVars, workerVars, inbox, reportVars, polled, events>>

(* POST /pool/restart of the management server.                            *)
PostRestart ==
    /\ events < MaxEvents
    /\ events' = events + 1
    /\ BroadcastRestart
    /\ UNCHANGED <<fileVars, monitorVars, workerVars, inbox, reportVars, polled>>

-----------------------------------------------------------------------------
(* WorkerPoolServer.get_reports, awaited by GET /pool.                     *)

GetReports(c) ==
    /\ call[c].state = "idle"
    /\ call' = [call EXCEPT ![c] = [state |-> "waiting", so_far |-> 0]]
    /\ reports' = {}
    /\ SendAll("REPORT")
    /\ polled' = subs
    /\ UNCHANGED <<fileVars, monitorVars, workerVars, inbox, asked, missed, events>>

Mut_WaitOverClears(c) ==
    LET so_far == call[c].so_far + 1
        over == so_far >= MaxWait \/ Cardinality(reports) >= Cardinality(Workers)
    IN  /\ call[c].state = "waiting"
        /\ call' = [call EXCEPT ![c] = [state |-> IF over THEN "done" ELSE "waiting", so_far |-> so_far]]
        /\ reports' = IF over THEN {} ELSE reports
        /\ UNCHANGED <<fileVars, monitorVars, workerVars, queueVars, historyVars, events>>

(* asyncio.sleep(1) is over.                                               *)
WaitOver(c) ==
    LET so_far == call[c].so_far + 1
        over == so_far >= MaxWait \/ Cardinality(reports) >= Cardinality(Workers)
    IN  /\ call[c].state = "waiting"
        /\ call' = [call EXCEPT ![c] = [state |-> IF over THEN "done" ELSE "waiting", so_far |-> so_far]]
        /\ UNCHANGED <<fileVars, monitorVars, workerVars, queueVars, reports, historyVars, events>>

(* Supervisor._run_async receives a report.                                *)
RecvReport(w) ==
    /\ wire[w] # <<>>
    /\ reports' = reports \cup {<<w, Head(wire[w])>>}
    /\ wire' = [wire EXCEPT ![w] = Tail(@)]
    /\ UNCHANGED <<fileVars, monitorVars, worker, gen, loaded, subs, linked, queueVars, call, historyVars, events>>

-----------------------------------------------------------------------------
(* The workers.                                                            *)

(* QgsRequestHandler.run: init_server loads the plugins.                   *)
InitServer(w) ==
    /\ worker[w] = "forked"
    /\ worker' = [worker EXCEPT ![w] = "loaded"]
    /\ loaded' = [loaded EXCEPT ![w] = now]
    /\ UNCHANGED <<fileVars, monitorVars, gen, subs, linked, wire, queueVars, reportVars, historyVars, events>>

(* run_worker creates its sockets and enters its loop.                     *)
EnterLoop(w) ==
    /\ worker[w] = "loaded"
    /\ worker' = [worker EXCEPT ![w] = "loop"]
    /\ UNCHANGED <<fileVars, monitorVars, gen, loaded, subs, linked, wire, queueVars, reportVars, historyVars, events>>

(* A command leaves the PUB socket for the SUB socket.                     *)
Deliver(w) ==
    /\ pipe[w] # <<>>
    /\ pipe' = [pipe EXCEPT ![w] = Tail(@)]
    /\ inbox' = [inbox EXCEPT ![w] = Append(@, Head(pipe[w]))]
    /\ UNCHANGED <<fileVars, monitorVars, workerVars, reportVars, historyVars, events>>

(* The process of w ends, and its sockets with it.                         *)
Gone(S) ==
    /\ worker' = [w \in Workers |-> IF w \in S THEN "gone" ELSE worker[w]]
    /\ subs' = subs \ S
    /\ linked' = linked \ S
    /\ pipe' = [w \in Workers |-> IF w \in S THEN <<>> ELSE pipe[w]]
    /\ inbox' = [w \in Workers |-> IF w \in S THEN <<>> ELSE inbox[w]]
    /\ missed' = missed \ S
    /\ polled' = polled \ S

Mut_ReadLast(w) ==
    /\ worker[w] = "loop"
    /\ inbox[w] # <<>>
    /\ inbox[w][Len(inbox[w])] = "REPORT"
    /\ inbox' = [inbox EXCEPT ![w] = <<>>]
    /\ wire' = IF w \in linked THEN [wire EXCEPT ![w] = Append(@, gen[w])] ELSE wire
    /\ polled' = IF w \in linked THEN polled ELSE polled \ {w}
    /\ UNCHANGED <<fileVars, monitorVars, worker, gen, loaded, subs, linked, pipe, reportVars, asked, missed, events>>

(* The loop of run_worker reads one command a turn: REPORT is answered,    *)
(* if the socket to the supervisor is connected,                           *)
ReadReport(w) ==
    /\ worker[w] = "loop"
    /\ inbox[w] # <<>>
    /\ Head(inbox[w]) = "REPORT"
    /\ inbox' = [inbox EXCEPT ![w] = Tail(@)]
    /\ wire' = IF w \in linked THEN [wire EXCEPT ![w] = Append(@, gen[w])] ELSE wire
    /\ polled' = IF w \in linked THEN polled ELSE polled \ {w}
    /\ UNCHANGED <<fileVars, monitorVars, worker, gen, loaded, subs, linked, pipe, reportVars, asked, missed, events>>

(* and RESTART ends the process.                                           *)
ReadRestart(w) ==
    /\ worker[w] = "loop"
    /\ inbox[w] # <<>>
    /\ Head(inbox[w]) = "RESTART"
    /\ Gone({w})
    /\ UNCHANGED <<fileVars, monitorVars, gen, loaded, wire, reportVars, asked, events>>

(* maintain_pool starts a process in a place that is free.                 *)
Fork(w) ==
    /\ worker[w] = "gone"
    /\ gen[w] < MaxGen
    /\ worker' = [worker EXCEPT ![w] = "forked"]
    /\ gen' = [gen EXCEPT ![w] = @ + 1]
    /\ UNCHANGED <<fileVars, monitorVars, loaded, subs, linked, wire, queueVars, reportVars, historyVars, events>>

(* A worker crashes, is killed or leaves after an error.  Its last reports *)
(* arrive, or are lost with it.                                            *)
WorkerDies(w) ==
    /\ events < MaxEvents
    /\ events' = events + 1
    /\ worker[w] # "gone"
    /\ Gone({w})
    /\ wire' \in {wire, [wire EXCEPT ![w] = <<>>]}
    /\ UNCHANGED <<fileVars, monitorVars, gen, loaded, reportVars, asked>>

(* The sockets of run_worker are connected some time after it made them:   *)
(* broadcast_socket,                                                       *)
Subscribe(w) ==
    /\ worker[w] = "loop"
    /\ subs' = subs \cup {w}
    /\ UNCHANGED <<fileVars, monitorVars, worker, gen, loaded, linked, wire, queueVars, reportVars, historyVars, events>>

(* and the socket of the supervisor's Client.                              *)
Link(w) ==
    /\ worker[w] = "loop"
    /\ linked' = linked \cup {w}
    /\ UNCHANGED <<fileVars, monitorVars, worker, gen, loaded, subs, wire, queueVars, reportVars, historyVars, events>>

-----------------------------------------------------------------------------
WorkerStep(w) ==
    \/ Fork(w) \/ InitServer(w) \/ EnterLoop(w) \/ Subscribe(w) \/ Link(w)
    \/ Deliver(w) \/ ReadReport(w) \/ ReadRestart(w)

Next ==
    \/ \E f \in Files : Touch(f) \/ Remove(f)
    \/ CheckFiles \/ PostRestart
    \/ \E c \in Collections : GetReports(c) \/ WaitOver(c)
    \/ \E w \in Workers : RecvReport(w) \/ WorkerStep(w) \/ WorkerDies(w)

(* The timers and sockets of the event loop are served, and each worker    *)
(* goes round its loop, in which it blocks for a second at most, or for    *)
(* the request it is at.                                                   *)
Fairness ==
    /\ WF_vars(CheckFiles)
    /\ \A c \in Collections : WF_vars(WaitOver(c))
    /\ \A w \in Workers :
         /\ WF_vars(RecvReport(w))
         /\ WF_vars(Fork(w) \/ InitServer(w) \/ EnterLoop(w))
         /\ WF_vars(Subscribe(w)) /\ WF_vars(Link(w)) /\ WF_vars(Deliver(w))
         /\ WF_vars(ReadReport(w) \/ ReadRestart(w))

SafetySpec == Init /\ [][Next]_vars

Spec == SafetySpec /\ Fairness

-----------------------------------------------------------------------------
(* Properties.                                                             *)

Command == {"RESTART", "REPORT"}

(* Type correctness; the PUB socket keeps to its high water mark, and a    *)
(* place without a process has no sockets.                                 *)
TypeOK ==
    /\ now \in Nat
    /\ mtime \in [Files -> Nat]
    /\ watched \subseteq Files
    /\ seen \in [Files -> Nat]
    /\ worker \in [Workers -> {"gone", "forked", "loaded", "loop"}]
    /\ gen \in [Workers -> Nat]
    /\ loaded \in [Workers -> Nat]
    /\ subs \subseteq {w \in Workers : worker[w] = "loop"}
    /\ linked \subseteq {w \in Workers : worker[w] = "loop"}
    /\ pipe \in [Workers -> Seq(Command)]
    /\ \A w \in Workers : Len(pipe[w]) <= SndHwm
    /\ inbox \in [Workers -> Seq(Command)]
    /\ wire \in [Workers -> Seq(Nat)]
    /\ reports \subseteq Workers \X Nat
    /\ call \in [Collections -> [state : {"idle", "waiting", "done"}, so_far : Nat]]
    /\ asked \in Nat
    /\ missed \subseteq Workers
    /\ polled \subseteq subs
    /\ events \in Nat

OnTheWay(p, i, command) == Has(p, command) \/ Has(i, command)

(* Collections may overlap, each clearing what the others gathered, and    *)
(* the PUB socket drops what its pipe has no room for.  Still, of every    *)
(* process that was connected when reports were last asked for, the report *)
(* is there, or on its way, or the process has yet to read a REPORT, or it *)
(* is about to leave.                                                      *)
ReportUnderway ==
    \A w \in polled :
        \/ <<w, gen[w]>> \in reports
        \/ Has(wire[w], gen[w])
        \/ OnTheWay(pipe[w], inbox[w], "REPORT")
        \/ OnTheWay(pipe[w], inbox[w], "RESTART")

(* A process that loaded its plugins before the last restart was asked for *)
(* has a RESTART on its way, unless the broadcast did not reach it: it was *)
(* not connected, or its pipe was full.                                    *)
RestartUnderway ==
    \A w \in Workers :
        worker[w] \in {"loaded", "loop"} /\ w \notin missed =>
            loaded[w] >= asked \/ OnTheWay(pipe[w], inbox[w], "RESTART")

(* When a watched file that the monitor has seen is modified, the workers  *)
(* that run older plugins are replaced, except those a broadcast did not   *)
(* reach, unless the file is modified again first.                         *)
ChangeReaches ==
    \A f \in Files, w \in Workers, t \in 1..MaxTime :
        f \in watched /\ seen[f] \notin {0, t} /\ mtime[f] = t
            ~> \/ worker[w] \in {"gone", "forked"} \/ loaded[w] >= t \/ w \in missed
               \/ mtime[f] # t
=============================================================================
