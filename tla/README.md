# Verification of py-qgis-server

TLA+ models of the request path, the process supervision, the start and stop of
the server, its broadcasts, the project cache and its observer in py-qgis-server,
with TLC configurations and TLAPS proofs. `PROJECT.json`
lists the runs, the source lines behind every definition, the hazards and the
theorems. Paths below are relative to the repository; `zeromq/` and `qgscache/`
are under `src/pyqgisserver/`.

## The system

    HTTP process (asyncio)          broker process        worker processes
      handle_request                  run_broker            run_worker
        AsyncClient.fetch  --------->  deque of waiting ---> QgsRequestHandler
        AsyncClient._poll  <---------  requests         <---   Response, cache
      Supervisor           <------ BUSY, DONE, reports -----  supervisor.Client
      WorkerPoolServer     ------- RESTART, REPORT -------->  broadcast socket
      healthcheck, restart monitor        pool process
      cache observer server               run_worker_pool, Pool (forks workers)
      management server

| part | state | operations | how it meets the others |
|---|---|---|---|
| broker, `zeromq/broker.py` | set of available workers, deque of waiting requests with times | poll, heartbeat, reply, accept or refuse, drop expired, dispatch, push back | ROUTER sockets to the client and to the workers |
| worker loop, `zeromq/worker.py` | request in hand, header written | heartbeat, receive, handle, answer 500 and leave, RESTART and REPORT | DEALER to the broker, SUB to the server, PUSH to the supervisor |
| response, `qgsworker.py` `Response` | buffer, status, finished | write, clear, flush, sendError, finish | called back by QGIS; emits messages through `RequestHandler.send` |
| asynchronous client, `zeromq/client.py`, `handlers/asynchandler.py` | handlers by correlation id, futures, chunk queues, polling flag | fetch, poll, set result, next chunk, timers | DEALER to the broker, tasks of one asyncio loop |
| supervisor, `zeromq/supervisor.py` | busy dictionary, timers | BUSY, DONE, kill, reports | PULL socket from every worker, SIGKILL |
| pool, `zeromq/pool.py`, `qgspool.py` | list of processes, critical flag | fork, join, abort on early failure, terminate, health and memory checks | signals and exit codes |
| project cache, `qgscache/cachemanager.py`, `utils/lru.py`, `qgscache/handlers/` | LRU and static entries with timestamps, capabilities in QGIS | lookup, update, refresh, preload | files on disk, requests, management API |
| broadcasts, `qgspool.py`, `pyqgisservercontrib/core/watchfiles.py` | PUB socket, watched files and their times, reports by pid | check files, restart, get reports | one queue per worker, answers through the supervisor |
| runtime, `runtime.py` | what was started | start, signals, teardown, exit | forks the broker and the pool, joins them |
| management APIs, `management/apis/` | answer finished or not | write, finish, send an error | called by QGIS inside a worker |
| cache observer, `qgscache/observer.py` | last update per project | receive, notify, list | PUSH from every worker |
| HTTP handlers, filters, middleware, monitors, plugins, configuration | mostly read once | sequential | HTTP |

What is hard here: a worker can leave or be killed between any two messages;
heartbeats and replies are delayed and interleave; asyncio timers race late
replies, and pollers share one flag; the supervisor learns of a job only through
a lossy socket and kills by timer; the pool reacts to exit codes of processes
that other processes kill; files change, and a database goes away, between stat
and read; the reports of several workers on one file cross on their way to the
observer, or are dropped; a broadcast misses the workers that are not connected
and those whose pipe is full; collections of reports overlap; a signal or a
failure meets the server halfway through its start or its stop. The hazards of
`PROJECT.json` name each at its line.

## Modules

| module | models | state and actions |
|---|---|---|
| `Broker` | `run_broker` | its variables `workers`, `waiting` (the deque, the next one out first), `tm`; the pc of its loop; the sockets as one FIFO per peer. One action per branch: `Poll`, `RecvBackend`, `RejectRequest`, `AcceptRequest`, `DropExpired`, `SendToWorker`, `WorkerUnreachable`, `EndOfLoop`. |
| `RequestPath` | `Broker` with `run_worker`, one process per worker | `Connect`, `SendReady`, `Receive`, `RecvTimeout`, `HandleMessage`, `HandleError`, `Abandon`, `CheckBroadcast`; around them `SendRequest`, `ClientClose`, `Kill`, `Restart`, `Spawn` and the loss of a connection, `PeerGone`. `stage` is a history variable. |
| `RequestQueue` | what the broker promises: a bounded queue that refuses only when full, hands out each request once and in order, and ends it once | abstract; `RequestPath!ImplementsQueue` is the refinement |
| `AsyncClient` | `AsyncClient`, `AsyncResponseHandler`, `handle_request` | an action is what runs between two awaits: `Fetch`, `StartPoller`, `Receive`, `FetchResult`, `FetchTimer` and `FetchTimeout` (the timer fires, then the task resumes), `Flushed`, `NextChunk`, `ChunkTimeout`, `Disconnected` |
| `ResponseStream` | `Response` over `RequestHandler.send` | `SetStatusCode`, `Write`, `Clear`, `Flush`, `FlushFails`, `SendError`, `Finish`, then `Return` or `Raise` |
| `RequestHandling` | `handle_message` and `handle_qgis_request`, and the `RequestHandler` of the management APIs, over `ResponseStream` | the answers given without QGIS (`NoProject`, `HeadRequest`, `LookupFails`, `NotModified`), QGIS calling the response in any order (`Qgis`), and an API: `ApiWrite`, `ApiFinish`, `ApiReturns`, `ApiRaises`, `FinishAgain` |
| `WorkerPool` | supervisor, pool process, healthcheck, stop | workers start, link, take jobs, stall, crash; `Recv` and `Kill` of the supervisor; `ForkFirst`, `Maintain`, `Abort`, `JoinWorkers` of the pool; `HealthCheck`, `TerminateServer`, `JoinPool` of the main process |
| `Broadcast` | `broadcast`, `restart` and `get_reports` of `WorkerPoolServer`, the restart monitor, the workers' SUB sockets and the reports of the supervisor | files are touched and removed; `CheckFiles`, `PostRestart`, `GetReports`, `WaitOver`, `RecvReport` of the main process; a worker goes from `Fork` over `InitServer`, `EnterLoop`, `Subscribe` and `Link` to `ReadReport` and `ReadRestart` |
| `Server` | `run_server`, with the broker and the pool as processes | `Start` and `Stop` take one part at a time, in the order of `Steps` (`Wanted`: a part whose option is off is passed over) and `Teardown`; `StartFails`, `Interrupt`, `Terminate`, `Killed`, `HealthCheck`, `InterruptAgain`; `Exit` waits for the processes that are left |
| `ProjectCache` | `QgsCacheManager` in one worker | `Hit`, `HitStatic`, `Lookup`, the management lookups, `Refresh`; then `Stat` and `Read` of the file, postgres or QGIS storage handler (`scheme`), with `Edit` and `Delete` of projects, `StoreFails` and `StoreReturns` of the database in between; `Serve` answers, from the project or from the capabilities that QGIS keeps for its file, and sets the ETag; `Restart` after a 500. Details are kept per key, what is on disk and the capabilities per file (`FileOf`): a project can be named with or without scheme, alias and suffix |
| `CacheObserver` | `Client` and `Server` of `observer.py`, with the timestamps of each worker's cache | `Load`, `Evict`, `Connect`, `Replace` of the workers; `Start`, `Recv`, `Stop` of the server; `Find` is what the management server asks |
| `MCRequestPath`, `MCAsyncClient`, `MCProjectCache` | | model values and sets for the configurations |
| `RequestPathProofs`, `AsyncClientProofs`, `RequestHandlingProofs`, `WorkerPoolProofs`, `BroadcastProofs`, `ServerProofs`, `ProjectCacheProofs`, `CacheObserverProofs` | | the theorems, and the inductive invariants behind them |

Abstractions. A request is a name; in `RequestPath` its reply stands for the
whole reply stream, whose inside is `ResponseStream` on the sending and
`AsyncClient` on the receiving side. ZeroMQ is FIFO per connection, without
order between connections; ROUTER_MANDATORY sockets fail on a peer that is gone,
IMMEDIATE sockets drop while not connected, and a PUB socket drops for each
subscriber whose pipe is full. Data that no property tells apart
(headers, XML, URLs) is left out. Timers are not timed: one may fire whenever it
is armed. A file's version is its content and its modification time, and grows.
A key names the same file for good (a name without suffix could move to another
file when the first is deleted), and two URLs that reach one row of a database
without being resolved to the same one count as two rows.

Steps that the code takes one after the other and a model takes at once:
the reading of the clock with the message that starts a turn of the broker
(`AcceptRequest`); the preload of a replaced worker, although a file can change
between two of its projects (`ProjectCache!Restart`); SIGTERM of the main
process, the handler of the pool and the signals to the workers
(`TerminateServer`; what happens before the handler is installed is modelled);
the fork of the broker and the assignment to `broker_pr` (`Server!Start`).
Left out: replies that a killed worker has handed to ZeroMQ and that are lost
with its I/O thread (`Kill`); writes after a response is finished (`Write`);
what follows a KeyError of the error reply in the last `finish` of
`handle_message`, which is recorded as a failed flush while the code answers
500 and leaves (`FinishAnswer`). `FetchResult` writes the first part of the stream,
which under FIFO is the one that set the future. `ModifiedTime` is not cut to
the second: cutting makes an ETag older, never newer.

## Runs

| run | instance | shows |
|---|---|---|
| `Path` | 3 requests, 2 workers, deque of 2, one kill, error or client close, clock 0..2 with a timeout of 1 | `Placement`: a request is in exactly one place, never lost by pop, send and push back, never duplicated. `IdleVisible`: no idle worker is forgotten. `OldestFirst`: the deque stays in order of age. `ImplementsQueue`: the refinement. |
| `PathLiveness` | 2 requests, 1 worker and its replacement, any one disruption | `EveryRequestSettles`; `EveryRequestAnswered` when nothing fails or expires |
| `Client` | 2 requests, streams of 2 parts | `BodyIntact`, `HandlersReleased`, `Attended`, `EveryFetchEnds` |
| `Stream` | every way to answer a request; statuses 200 and 404, bounded parts and messages | `StreamValid`, `StreamEnds`, `DataComplete`: the client can parse what it gets, learns its end and has all of a success. `ApiAnswersOnce`: an API that writes, finishes or raises in any order gives one answer |
| `Pool` | 1 worker and 2 replacements, 2 jobs each, 2 faults | `KillsOnlyTheLate`, `OrderlyStop`, `StalledIsKilled`, `PoolRecovers`, `StopEnds` |
| `Broadcast` | 1 place of the pool and 2 processes, the monitored file and 1 manifest that may come or go, 1 write, 2 collections, high water mark of 1, 1 posted restart or death | `ReportUnderway`: of every process that was connected at the last REPORT the report is there or comes, although collections overlap. `RestartUnderway`: a process with old plugins has a RESTART before it, unless the broadcast missed it. `ChangeReaches`: a change of a file the monitor has seen replaces the workers |
| `Server` | with and without workers and management, 3 failures or signals | `TeardownComplete`: what was started is stopped, the broker after the pool. `ShutdownEnds`: the server exits |
| `Cache` | 3 names of one file, one preloaded, and a refused name, each scheme, LRU cache of 2, 3 versions of which one is unreadable, deletions, a database that goes and returns | `StaleIsDetectable`: a stale entry has an older time than the file. `ConfigCoherent`: the capabilities that QGIS keeps for the file fit the entry of the name they were made through and, with synchronous checks, every entry that is current. `SyncFresh`: with synchronous checks no answer is older than the file was when the request came. `ValidatorNotAhead`: no answer is older than its ETag. `RefreshCatchesUp` |
| `Observer` | 2 workers, 1 project, 4 ticks in 2 seconds, sockets of 2 messages | `NewestAnnounced`, `CachedIsAnnounced`, `ReportAnnounced` |

Why the bounds are enough: with three requests and a deque of two every case of
full, refused, expired and pushed back occurs, with two workers either may be
the one that is gone; two fetches are what it takes for pollers to overlap and
for a late message of one to meet the other; a worker with two successors sees
an early and a late failure and a stop during each; three names in a cache of two
evict each other and let two names of one file be cached at different versions
(files meet only in the order of eviction and in a refresh that fails, for which
`CacheRefresh` has two files), and three versions allow a
change between stat and read on top of an earlier one; two collections and a
restart fill a pipe of one, and a process and its successor are what it takes
for a broadcast to come before, during and after a start (places of the pool
meet only in the count of reports); two workers are what it
takes for reports to cross, two ticks per second for a change that rounding
hides, and a socket of two to fill up while the server is slow (projects meet
only in the sockets). The theorems below cover
every instance of every safety property, so that the bounds matter for liveness
and for the runs that end in a counterexample.

Each passing property is also checked against a faulty variant of the code
(`Mut_...`), which must violate it.

### Disagreements found

These runs end in a counterexample, one for each statement of the
repository that the code does not keep.

* `PathRestart`. doc/configuration.rst: "workers processes are restarted without
  dropping requests". A request dispatched to a worker that then reads RESTART is lost.
* `PoolOrphans`. On an early failure the pool process dies by its own SIGABRT;
  "Ensure that pool is terminated is called at process exit" does not happen and
  the other workers survive the server.
* `CacheRefresh`. doc/cache.rst promises a check of the cache every interval; one
  entry whose file is gone ends every refresh before the entries after it.

Seen while modelling, without a run of their own:

* `_poll` turns the refusal of a full broker into a `RequestProxyError`, which
  `handle_request` does not catch: the client sees an internal error and never
  "Server busy, please retry later".
* `observer.py` says that it "prevents triggering the same update multiple
  times"; an old report that is read late makes the next one of the newer version
  trigger again.
* Two fetches in one turn of the event loop start two pollers, because the flag
  is set when the task starts (harmless, by `Attended`).
* doc/cache.rst promises least recently used eviction; with asynchronous checks
  a hit does not reorder, so that eviction is first in, first out.
* Preloaded projects are never reported to the observer.
* A heartbeat read after its worker was given a request makes the broker call a
  busy worker available: it may hold a second request while another idles.
* With a status other than 200, the data flushed after the header is dropped.
* A management request for a project fills the cache without clearing the
  capabilities that QGIS keeps; the next request finds the entry unchanged and
  is answered with the old ones, with synchronous checks too. `ConfigCoherent`,
  `SyncFresh` and `ValidatorNotAhead` leave out capabilities kept that way
  (`managed`), and only those.
* QGIS keeps capabilities by file name, the cache keeps entries by key. With
  asynchronous checks: key A is cached at version 1 and the file is changed; key
  B is loaded at version 2, which removes the capabilities; a request through A
  makes those of version 1 again; a request through B is a hit, carries the
  ETag of version 2 and is answered with version 1. The next refresh of A
  removes them. `ConfigCoherent` and `ValidatorNotAhead` leave out, with
  asynchronous checks only, capabilities made through another name (`maker`).
* ETags are cut to the second, so that two changes within one share an ETag.
* A HEAD request for a project that is not there answers 500, and the worker leaves.
* An error of the database other than a lost connection makes the worker leave;
  if a project of the database is preloaded, its replacement aborts the server.
* A RESTART does not reach a worker that has loaded its plugins and is not
  connected yet, nor one whose pipe holds a REPORT (`missed` in `Broadcast`).
* `create_poolserver` forks the pool before it binds its socket: if that fails,
  the teardown does not know the pool, and the exit waits for it.
* Nothing notices the end of the broker process, nor a pool process that ended
  with code 0. SIGTERM before the handler is installed leaves both running.

## Fairness

* `RequestPath`: weak fairness of the broker loop and of each worker loop (they
  are endless loops that block only in poll or recv with a timeout), of the pool
  starting a replacement, and of ZeroMQ noticing a closed connection. Strong
  fairness of reading the backend socket per worker: a ROUTER socket takes its
  peers in turn. Nothing is assumed of clients.
* `AsyncClient`: weak fairness of the tasks of the event loop, timers included.
  The backend need not answer.
* `WorkerPool`: weak fairness of each process's loop, of timers, and of a job
  that did not stall. Faults are not fair.
* `Broadcast`: weak fairness of the timers and sockets of the event loop, of the
  pool starting a process, of connections being made and of each worker's loop,
  which blocks for a second at most or for one request. Writes, posts and
  failures are not fair.
* `Server`: weak fairness of each step of the main process and of the SIGTERM
  handlers of the broker and the pool. Failures and signals are not fair.
* `ProjectCache`: calls return, be it with an error (`Stat` or `StatFails`), a worker that left is replaced (weak);
  `Refresh` is strongly fair: post_process runs after every message and every
  idle second, so it is tried whenever the worker is between two messages, and
  the interval elapses.
* `CacheObserver`: weak fairness of the server's start and of reading each
  worker's reports (one loop over a PULL socket, which takes its connections in
  turn). Nothing is assumed of workers.

## Proofs

For all values of the constants, under the assumptions named in the modules
(`BrokerAssumption`, `PathAssumption`, `ClientAssumption`, `StreamAssumption`,
`PoolAssumption`, `BroadcastAssumption`, `ServerAssumption`, `CacheAssumption`,
`ObserverAssumption`: bounds are natural numbers, sizes are positive, model
values are distinct). Every invariant of a passing run, and the refinement, is
a theorem. Hardly any of them is inductive; each inductive invariant was
model-checked on the instance of its run before it was proved.

* `RequestPathProofs`. `TypeCorrect`; `PlacementCorrect`, for which `Placement`
  with `TypeOK` is inductive because it ties the history of a request to every
  place at once; `QueueBounded`, the bound of the deque (`QueueBound`, of
  which the refinement says the same in each run): a push back is only possible
  after a pop in the same turn; `OldestFirstCorrect`; `IdleVisibleCorrect`, strengthened by
  "a running worker is connected"; `QueueImplemented`: from `Placement`,
  every step maps to a step of `RequestQueue` or to a stutter.
* `AsyncClientProofs`. `AlwaysAttended`: with "the flag is set only while a
  poller runs", the invariant is inductive for any number of pollers.
  `TypeCorrect`, `BodyIntactCorrect` and `HandlersReleasedCorrect` rest on
  `ClientInv`, which follows a part from the socket to the body: the messages of
  one request on the socket are in order (`WireInv`), a handler that still takes
  messages finds every part it has not got there (`NothingLost`), the chunks it
  has taken continue what is written (`ChunksInv`), and a registered handler
  belongs to a fetch that waits or to a stream that goes on (`HandlersInv`).
* `RequestHandlingProofs`. `HandlingTypeCorrect`, `StreamValidCorrect`,
  `StreamEndsCorrect` and `ApiAnswersOnceCorrect` rest on `HandlingInv`: the
  header is written exactly when something was sent, and more is announced
  exactly while the status is 206 (`HandlerOK`); a finished response has ended
  (`EndInv`); who answers decides what the buffer holds (`RouteInv`).
  `DataCompleteCorrect` adds `DataInv`: what was sent, followed by the buffer, is
  what was written and not cleared. It needs what `FlattenSeq` computes, which is
  shown by induction: the library's induction theorems take an operator, so
  `InductionOnSet` states induction for a set of numbers and is derived from the
  least number of a set (`WFMin`).
* `WorkerPoolProofs`. `TypeCorrect`; `KillsOnlyTheLateCorrect`: the strengthening
  says that the messages of a worker still on the wire, after what the supervisor
  has read, alternate BUSY and DONE up to the job it is on, with gaps only
  before the connection, and that a dead worker or an unforked pid sends nothing.
  `OrderlyStopCorrect`: every worker alive is one that the pool knows and joins.
  `PoolSizeCorrect`: from its first fork on the pool always holds as many processes
  as it was given, because pids are new and as many are forked as were joined.
* `BroadcastProofs`. `TypeCorrect`; `ReportUnderwayCorrect`: the invariant is
  inductive because a full pipe is not empty and every command in it makes the
  worker report or leave; `RestartUnderwayCorrect`, strengthened by "the last
  RESTART is not later than now".
* `ServerProofs`. `TypeCorrect` and `TeardownCompleteCorrect`: the start comes to
  the pool only after the broker (`StartInv`), the teardown has let go of the
  parts it has passed (`StopInv`), and a running broker has not been let go of
  (`BrokerInv`).
* `ProjectCacheProofs`. `StaleIsDetectableCorrect`: the timestamp of an entry is
  never later than its content, and the file that is there is never older than
  an entry, a stat or a request (`IInv`). `TypeCorrect`, `ConfigCoherentCorrect`,
  `SyncFreshCorrect` and `ValidatorNotAheadCorrect`, for any keys that share
  files, rest on `CoherenceInv`: order and entries of the lrucache agree; a
  refresh meets only entries that are still there, because it evicts none; a
  project is read only for a file newer than the one held, so that an update
  that reports "unchanged", after which the capabilities stay, has not changed
  the project; and the capabilities of a file fit the entry of the key that made
  them and, with synchronous checks, each entry that is current (`ConfigFits`).
  The last part is what makes other names harmless there: an entry that is not
  current is read again before it answers, and that removes what is kept.
* `CacheObserverProofs`. `TypeCorrect`; `NewestAnnouncedCorrect` and
  `CachedIsAnnouncedCorrect`: the entry of a project, although it may go back in
  time, is never later than the latest report read, so a report later than all
  before it is announced; and reports carry a time that is not 0, the mark of
  an absent entry.

Only model-checked: the liveness properties `EveryRequestSettles`,
`EveryRequestAnswered`, `EveryFetchEnds`, `StalledIsKilled`, `PoolRecovers`,
`StopEnds`, `ChangeReaches`, `ShutdownEnds`, `RefreshCatchesUp` and
`ReportAnnounced`. They rest on fairness, and TLAPS has no backend for ENABLED.

The provers do not see into `SelectSeq`; the orders of the cache and of the
start are therefore written by position.

## Not modelled

* Filters and middleware: a sequential choice of the first policy that matches;
  the arguments that a match leaves on the shared filter are used before anything
  else runs.
* HTTP handlers around `handle_request`, the landing page, the status page and
  the handlers of the management server that read configuration or forward a
  request: headers, URLs and JSON; the call they make is in `AsyncClient`.
* Monitors and the BAN request of an observer: messages to a service outside,
  whose answer is only logged.
* Plugins and components, configuration and logging: read once at the start.
* Assumed away: reuse of pids, steps of the wall clock, projects whose
  modification time goes back or stays the same when they change (a restored
  backup is never read again), and two writes of a watched file with one time.

## Plan

1. Core (done): request path, client, response, pool and supervisor, cache,
   cache observer.
2. Extend (done): broadcasts with the restart monitor and the reports; start and
   teardown of the server; who answers a request, management APIs included; the
   database and storage handlers, refused projects and ETags in the cache.
3. Prove (done): every invariant of the passing runs, and the refinement.
4. Left: an abstract request and response that `AsyncClient` implements, as
   `RequestPath` implements `RequestQueue`.
