---------------------------- MODULE CacheObserver ----------------------------
(***************************************************************************)
(* The cache observer: Client and Server of                                *)
(* src/pyqgisserver/qgscache/observer.py.  Every worker reports what its   *)
(* QgsCacheManager inserts or updates; the main process gathers the        *)
(* reports, calls the declared observers (ban.py for instance) and lets    *)
(* the management server list what is cached.                              *)
(*                                                                         *)
(* A worker has its own socket: its reports keep their order, those of     *)
(* different workers do not.  Files are written with increasing times, in  *)
(* ticks of which PerSecond make the second that a report is rounded to.   *)
(* Of a worker's cache only the timestamps are kept (ProjectCache has the  *)
(* rest), and no project is preloaded: a lookup that copies a preloaded    *)
(* project reports nothing.                                                *)
(*                                                                         *)
(* Definitions named Mut_... are faulty variants of the one that follows   *)
(* them, kept to show that the properties reject them.                     *)
(***************************************************************************)
EXTENDS Naturals, Sequences

CONSTANTS
    Keys,        \* the projects
    Workers,     \* the workers' places in the pool
    PerSecond,   \* ticks per second
    Hwm,         \* messages that a socket holds
    MaxTime      \* bound on the times of the files

ASSUME ObserverAssumption ==
    /\ PerSecond \in Nat \ {0}
    /\ Hwm \in Nat \ {0}
    /\ MaxTime \in Nat

VARIABLES
    mtime,      \* per project: modification time of its file
    \* the workers
    held,       \* per worker and project: timestamp of the cached project, or 0
    linked,     \* workers whose socket is connected
    wire,       \* per worker: its reports that are on the way
    \* Server
    server,     \* "starting", "running" or "stopped"
    last,       \* per project: modified_time in _last_updates, or 0
    \* history
    fired,      \* per project: times that observers were notified of
    got,        \* per project: latest time received, or 0
    missed      \* projects of which a report was dropped

workerVars == <<held, linked, wire>>
serverVars == <<server, last, fired, got>>
vars == <<mtime, workerVars, serverVars, missed>>

(* modified_time.replace(microsecond=0)                                    *)
Second(t) == t \div PerSecond

Reports == [key : Keys, time : Nat]

Report(k, t) == [key |-> k, time |-> Second(t)]

Init ==
    /\ mtime = [k \in Keys |-> PerSecond]
    /\ held = [w \in Workers |-> [k \in Keys |-> 0]]
    /\ linked = {}
    /\ wire = [w \in Workers |-> <<>>]
    /\ server = "starting"
    /\ last = [k \in Keys |-> 0]
    /\ fired = [k \in Keys |-> {}]
    /\ got = [k \in Keys |-> 0]
    /\ missed = {}

(* A file is written.                                                      *)
Edit(k) ==
    /\ mtime[k] < MaxTime
    /\ mtime' = [mtime EXCEPT ![k] = @ + 1]
    /\ UNCHANGED <<workerVars, serverVars, missed>>

-----------------------------------------------------------------------------
(* The workers.                                                            *)

Mut_CanSendAlways(w) == w \in linked

(* A socket with IMMEDIATE set takes a message if it is connected and has  *)
(* room.                                                                   *)
CanSend(w) == w \in linked /\ Len(wire[w]) < Hwm

(* Client.observe, through notify_observers: DONTWAIT, and a message that  *)
(* cannot be sent is dropped without a word.                               *)
Send(w, k, t) ==
    /\ wire' = IF CanSend(w) THEN [wire EXCEPT ![w] = Append(@, Report(k, t))] ELSE wire
    /\ missed' = IF CanSend(w) THEN missed ELSE missed \cup {k}

Mut_LoadReportsUpdates(w, k) ==
    /\ held[w][k] < mtime[k]
    /\ held' = [held EXCEPT ![w] = [@ EXCEPT ![k] = mtime[k]]]
    /\ IF held[w][k] # 0 THEN Send(w, k, mtime[k]) ELSE UNCHANGED <<wire, missed>>
    /\ UNCHANGED <<mtime, linked, serverVars>>

(* update_entry of a project that is not cached (INSERTED) or whose file   *)
(* has changed (UPDATED).                                                  *)
Load(w, k) ==
    /\ held[w][k] < mtime[k]
    /\ held' = [held EXCEPT ![w] = [@ EXCEPT ![k] = mtime[k]]]
    /\ Send(w, k, mtime[k])
    /\ UNCHANGED <<mtime, linked, serverVars>>

(* lrucache makes room for another project; nothing is reported.           *)
Evict(w, k) ==
    /\ held[w][k] # 0
    /\ held' = [held EXCEPT ![w] = [@ EXCEPT ![k] = 0]]
    /\ UNCHANGED <<mtime, linked, wire, serverVars, missed>>

(* The socket is connected, some time after both ends exist.               *)
Connect(w) ==
    /\ server # "starting"
    /\ w \notin linked
    /\ linked' = linked \cup {w}
    /\ UNCHANGED <<mtime, held, wire, serverVars, missed>>

(* The worker leaves or dies and another takes its place.  The reports on  *)
(* the way arrive, or are lost with the process.                           *)
Replace(w) ==
    /\ held' = [held EXCEPT ![w] = [k \in Keys |-> 0]]
    /\ linked' = linked \ {w}
    /\ wire' \in {wire, [wire EXCEPT ![w] = <<>>]}
    /\ UNCHANGED <<mtime, serverVars, missed>>

-----------------------------------------------------------------------------
(* Server.                                                                 *)

(* start_cache_observer, after the workers were forked.                    *)
Start ==
    /\ server = "starting"
    /\ server' = "running"
    /\ UNCHANGED <<mtime, workerVars, last, fired, got, missed>>

Mut_DoNotifyKnown(k, s) == last[k] # 0 /\ last[k] < s

Mut_DoNotifyFirst(k, s) == last[k] = 0

(* do_notify of _run_async.                                                *)
DoNotify(k, s) == last[k] = 0 \/ last[k] < s

(* A turn of _run_async, notify_observers included.                        *)
Recv(w) ==
    /\ server = "running"
    /\ wire[w] # <<>>
    /\ wire' = [wire EXCEPT ![w] = Tail(@)]
    /\ LET k == Head(wire[w]).key
           s == Head(wire[w]).time
       IN /\ last' = [last EXCEPT ![k] = s]
          /\ fired' = IF DoNotify(k, s) THEN [fired EXCEPT ![k] = @ \cup {s}] ELSE fired
          /\ got' = [got EXCEPT ![k] = IF @ < s THEN s ELSE @]
    /\ UNCHANGED <<mtime, held, linked, server, missed>>

Stop ==
    /\ server = "running"
    /\ server' = "stopped"
    /\ UNCHANGED <<mtime, workerVars, last, fired, got, missed>>

(* Server.find: what the management server answers 404 without.            *)
Find(k) == last[k] # 0

-----------------------------------------------------------------------------
Next ==
    \/ \E k \in Keys : Edit(k)
    \/ \E w \in Workers, k \in Keys : Load(w, k) \/ Evict(w, k)
    \/ \E w \in Workers : Connect(w) \/ Replace(w) \/ Recv(w)
    \/ Start \/ Stop

(* The loop of the main process runs, and reads its socket: PULL takes     *)
(* from every connection in turn.                                          *)
Fairness == WF_vars(Start) /\ \A w \in Workers : WF_vars(Recv(w))

SafetySpec == Init /\ [][Next]_vars

Spec == SafetySpec /\ Fairness

-----------------------------------------------------------------------------
(* Properties.                                                             *)

(* Type correctness; no socket holds more than its high water mark.        *)
TypeOK ==
    /\ mtime \in [Keys -> Nat]
    /\ held \in [Workers -> [Keys -> Nat]]
    /\ linked \subseteq Workers
    /\ wire \in [Workers -> Seq(Reports)]
    /\ \A w \in Workers : Len(wire[w]) <= Hwm
    /\ server \in {"starting", "running", "stopped"}
    /\ last \in [Keys -> Nat]
    /\ fired \in [Keys -> SUBSET Nat]
    /\ got \in [Keys -> Nat]
    /\ missed \subseteq Keys

(* Although _last_updates keeps the last report and not the latest, and    *)
(* so goes back in time when the workers' reports cross, observers were    *)
(* notified of the latest time received of every project, and of none      *)
(* later; and the projects that can be found are those they were           *)
(* notified of.                                                            *)
NewestAnnounced ==
    \A k \in Keys :
        /\ Find(k) <=> fired[k] # {}
        /\ Find(k) => got[k] \in fired[k]
        /\ \A s \in fired[k] : s <= got[k]

Announced(times, s) == \E n \in times : s <= n

OnTheWay(queue, k, s) == \E i \in DOMAIN queue : queue[i] = [key |-> k, time |-> s]

(* What a worker has in its cache was announced to the observers, or a     *)
(* later version was, or the worker's report is on the way: eviction,      *)
(* reloading and the reports of other workers do not hide a version from   *)
(* them.  It takes a dropped report to do so.                              *)
CachedIsAnnounced ==
    \A w \in Workers, k \in Keys :
        held[w][k] # 0 /\ k \notin missed =>
            \/ OnTheWay(wire[w], k, Second(held[w][k]))
            \/ Announced(fired[k], Second(held[w][k]))

(* A report that was sent ends in an announcement of that version or a     *)
(* later one, unless the server stops or the worker is replaced.           *)
ReportAnnounced ==
    \A w \in Workers, k \in Keys, s \in 0..Second(MaxTime) :
        OnTheWay(wire[w], k, s)
            ~> Announced(fired[k], s) \/ server = "stopped" \/ w \notin linked
=============================================================================
