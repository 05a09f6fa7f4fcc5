---------------------------- MODULE ProjectCache ----------------------------
(***************************************************************************)
(* The project cache of one worker: QgsCacheManager of                     *)
(* src/pyqgisserver/qgscache/cachemanager.py over lrucache                 *)
(* (src/pyqgisserver/utils/lru.py) and the handler of one of the schemes   *)
(* file, postgres and QGIS storage, as QgsRequestHandler                   *)
(* (src/pyqgisserver/qgsworker.py) and the management API use it.          *)
(*                                                                         *)
(* A worker does one thing at a time; projects change under it.  The       *)
(* handler asks for the modification time ("stat") and then reads the      *)
(* project, and a change can come between.  A version stands for the       *)
(* content of a project and for its modification time: projects are        *)
(* written with increasing times.  "File" stands for the row of a database *)
(* as well.  Requests name a project by a key, and several keys can reach  *)
(* one file: each has its own details in the caches, but they share the    *)
(* capabilities, which QGIS keeps by the name of the file.                 *)
(*                                                                         *)
(* Definitions named Mut_... are faulty variants of the one that follows   *)
(* them, kept to show that the properties reject them.                     *)
(***************************************************************************)
EXTENDS Naturals, Sequences, FiniteSets

CONSTANTS
    Keys,          \* names of projects, as requests give them
    Files,         \* the project files
    FileOf,        \* per key: the file it names
    Size,          \* projects.cache:size
    Preload,       \* keys of the preload file, in its order
    Refused,       \* keys whose path or scheme is not allowed
    BadVersions,   \* versions that read_project refuses
    MaxVersion     \* bound on the versions written

ASSUME CacheAssumption ==
    /\ FileOf \in [Keys -> Files]
    /\ Size \in Nat \ {0}
    /\ Preload \in Seq(Keys)
    /\ Refused \subseteq Keys
    /\ BadVersions \subseteq Nat \ {0, 1}
    /\ MaxVersion \in Nat \ {0}

VARIABLES
    async,      \* check_interval > 0
    scheme,     \* "file", "postgres" or "storage"
    online,     \* the database answers
    disk,       \* per file: its version, 0 when there is none
    clock,      \* the last version written
    \* QgsCacheManager
    lru,        \* keys of _lru_cache, the next to be evicted first
    entry,      \* per key: its details in _lru_cache
    static,     \* per key: its details in _static_cache
    config,     \* per file: version of the capabilities QGIS keeps, or 0
    \* the worker
    op,         \* what the worker is at
    todo,       \* the entries it has yet to update, as [cache, key]
    seen,       \* modification time returned by stat, 0 before the call
    \* history
    asof,       \* version of the file when a request that checks it came, or 0
    outdated,   \* the last answer was older than asof
    ahead,      \* the last answer was older than its ETag says
    maker,      \* per file: {k} if a request of k made config, {} if there is none
    managed     \* keys put in the cache by a management request while QGIS
                \* kept capabilities of their file from before

modeVars == <<async, scheme>>
diskVars == <<disk, clock>>
cacheVars == <<lru, entry, static>>
workVars == <<op, todo, seen>>
historyVars == <<asof, outdated, ahead, maker, managed>>
vars == <<modeVars, online, diskVars, cacheVars, config, workVars, historyVars>>

(* CacheDetails, and its absence.                                          *)
Details == [project : Nat, timestamp : Nat]

None == [project |-> 0, timestamp |-> 0]

Item(cache, k) == [cache |-> cache, key |-> k]

(* The keys s without k, which is there at most once.                      *)
Without(s, k) ==
    IF k \notin {s[i] : i \in DOMAIN s} THEN s
    ELSE LET place == CHOOSE i \in DOMAIN s : s[i] = k
         IN [i \in 1..(Len(s) - 1) |-> IF i < place THEN s[i] ELSE s[i + 1]]

(* The keys that resolve_alias and _check_file take to the file f: with or *)
(* without scheme, by an alias, with or without suffix.                    *)
NamesOf(f) == {k \in Keys : FileOf[k] = f}

(* resolve_alias and get_protocol_handler find the project and a handler.  *)
Allowed(k) == k \notin Refused

Preloaded(k) == Allowed(k) /\ \E i \in DOMAIN Preload : Preload[i] = k

Init ==
    /\ async \in BOOLEAN
    /\ scheme \in {"file", "postgres", "storage"}
    /\ online = TRUE
    /\ disk = [f \in Files |-> 1] /\ clock = 1
    /\ lru = <<>> /\ entry = [k \in Keys |-> None]
    /\ static = [k \in Keys |-> IF Preloaded(k)
                                THEN [project |-> 1, timestamp |-> 1] ELSE None]
    /\ config = [f \in Files |-> 0]
    /\ op = "idle" /\ todo = <<>> /\ seen = 0
    /\ asof = 0
    /\ outdated = FALSE
    /\ ahead = FALSE
    /\ maker = [f \in Files |-> {}]
    /\ managed = {}

-----------------------------------------------------------------------------
(* The files.                                                              *)

(* (Nobody looks at a file that only refused keys name.)                   *)
Edit(f) ==
    /\ \E k \in NamesOf(f) : Allowed(k)
    /\ clock < MaxVersion
    /\ clock' = clock + 1
    /\ disk' = [disk EXCEPT ![f] = clock']
    /\ UNCHANGED <<modeVars, online, cacheVars, config, workVars, historyVars>>

Delete(f) ==
    /\ \E k \in NamesOf(f) : Allowed(k)
    /\ disk[f] # 0
    /\ disk' = [disk EXCEPT ![f] = 0]
    /\ UNCHANGED <<modeVars, online, clock, cacheVars, config, workVars, historyVars>>

(* A database stops answering, or answers again.                           *)
StoreFails ==
    /\ scheme # "file" /\ online
    /\ online' = FALSE
    /\ UNCHANGED <<modeVars, diskVars, cacheVars, config, workVars, historyVars>>

StoreReturns ==
    /\ ~ online
    /\ online' = TRUE
    /\ UNCHANGED <<modeVars, diskVars, cacheVars, config, workVars, historyVars>>

-----------------------------------------------------------------------------
Mut_InsertNoEvict(k, d) ==
    /\ lru' = Append(Without(lru, k), k)
    /\ entry' = [entry EXCEPT ![k] = d]

(* lrucache.__setitem__: an entry that is there is removed, the oldest     *)
(* ones go while the cache is full, the new one comes last.  (lookup reads *)
(* the entry back with __getitem__, which moves it to the end: it is       *)
(* there.)                                                                 *)
Insert(k, d) ==
    LET kept == Without(lru, k)
        full == Len(kept) >= Size
    IN /\ lru' = Append(IF full THEN Tail(kept) ELSE kept, k)
       /\ entry' = [x \in Keys |-> CASE x = k -> d
                                     [] full /\ x = Head(kept) /\ x # k -> None
                                     [] OTHER -> entry[x]]

(* The details that get_project starts from.                               *)
Held(item) ==
    IF item.cache = "lru" /\ entry[item.key] # None
    THEN entry[item.key] ELSE static[item.key]

Mut_MustReadWhenMissing(item) == Held(item) = None

MustRead(item) ==
    \/ Held(item) = None
    \/ Held(item).timestamp < disk[FileOf[item.key]]

(* What get_project returns without a read: the storage handler returns    *)
(* the modification time it was given, the others the timestamp they had.  *)
Kept(item) ==
    IF scheme = "storage"
    THEN [project |-> Held(item).project, timestamp |-> disk[FileOf[item.key]]]
    ELSE Held(item)

Mut_LoadedStatLater(item) ==
    [project |-> seen, timestamp |-> disk[FileOf[item.key]]]

(* The details of a project that was read after stat.                      *)
Loaded(item) == [project |-> disk[FileOf[item.key]], timestamp |-> seen]

(* UpdateState of an entry of _lru_cache that gets the details d.          *)
Update(k, d) ==
    IF entry[k] = None THEN "INSERTED"
    ELSE IF d.timestamp # entry[k].timestamp THEN "UPDATED" ELSE "UNCHANGED"

(* update_entry once get_project has returned d.                           *)
UpdateEntry(k, d) ==
    /\ Insert(k, d)
    /\ static' = IF /\ entry[k] = None /\ static[k] # None
                    /\ d.timestamp # static[k].timestamp
                 THEN [static EXCEPT ![k] = d] ELSE static

Mut_CleansUpdated(update) == update = "UPDATED"

Cleans(update) == update # "UNCHANGED"

Mut_ModifiedTimeOfFile(k, d) == disk[FileOf[k]]

(* get_modified_time of a project that is cached, for its ETag and its     *)
(* Last-Modified header.                                                   *)
ModifiedTime(k, d) == d.timestamp

(* compute_etag: a hash of the modification time and of the request.       *)
Etag(k, d) == ModifiedTime(k, d)

(* removeConfigCacheEntry(project.fileName()): what QGIS keeps for the     *)
(* file goes, whichever of its names it was made through.                  *)
Unmanaged(f, clean) == IF clean THEN managed \ NamesOf(f) ELSE managed

(* handle_qgis_request after the lookup: the capabilities that QGIS keeps  *)
(* are removed if the entry changed; QGIS answers with the ones it keeps,  *)
(* or makes new ones and may keep them; a request of another kind it       *)
(* answers from the project.  (A 304 leaves QGIS alone.)                   *)
Serve(k, d, update) ==
    LET f == FileOf[k]
        kept == IF Cleans(update) THEN 0 ELSE config[f]
        answer == IF kept = 0 THEN d.project ELSE kept
        foreign == kept # 0 /\ maker[f] # {k}
    IN /\ \E c \in {kept, answer} :
             /\ config' = [config EXCEPT ![f] = c]
             /\ maker' = [maker EXCEPT ![f] = IF c = 0 THEN {}
                                              ELSE IF kept = 0 THEN {k} ELSE maker[f]]
       /\ managed' = Unmanaged(f, Cleans(update))
       /\ outdated' = \/ d.project < asof
                      \/ answer < asof /\ k \notin managed'
       /\ ahead' = \/ d.project < Etag(k, d)
                   \/ answer < Etag(k, d) /\ k \notin managed' /\ ~ (async /\ foreign)

-----------------------------------------------------------------------------
(* A request while checks are asynchronous: lookup(refresh=False).         *)

Hit(k) ==
    /\ op = "idle" /\ async /\ entry[k] # None
    /\ Serve(k, entry[k], "UNCHANGED")
    /\ UNCHANGED <<modeVars, online, diskVars, cacheVars, workVars, asof>>

HitStatic(k) ==
    /\ op = "idle" /\ async /\ entry[k] = None /\ static[k] # None
    /\ Insert(k, static[k])
    /\ Serve(k, static[k], "UPDATED")
    /\ UNCHANGED <<modeVars, online, diskVars, static, workVars, asof>>

(* A request that has to update the entry: every one while checks are      *)
(* synchronous, the ones that miss both caches otherwise.                  *)
Lookup(k) ==
    /\ op = "idle" /\ (async => entry[k] = None /\ static[k] = None)
    /\ op' = "request" /\ todo' = <<Item("lru", k)>> /\ asof' = disk[FileOf[k]]
    /\ UNCHANGED <<modeVars, online, diskVars, cacheVars, config, seen, outdated, ahead, maker,
                   managed>>

(* CacheCollection.get of the management API, lookup(refresh=False) in     *)
(* both modes.  A hit changes nothing.  Capabilities that QGIS kept from   *)
(* before stay.                                                            *)
Manages(k) == managed' = IF config[FileOf[k]] # 0 THEN managed \cup {k} ELSE managed

ManagementStatic(k) ==
    /\ op = "idle" /\ entry[k] = None /\ static[k] # None
    /\ Insert(k, static[k])
    /\ Manages(k)
    /\ UNCHANGED <<modeVars, online, diskVars, static, config, workVars, asof, outdated, ahead,
                   maker>>

ManagementLookup(k) ==
    /\ op = "idle" /\ entry[k] = None /\ static[k] = None
    /\ op' = "management" /\ todo' = <<Item("lru", k)>>
    /\ UNCHANGED <<modeVars, online, diskVars, cacheVars, config, seen, historyVars>>

(* The places in the preload file of the projects of _static_cache, in     *)
(* their order there: the set has one member.                              *)
StaticOrders ==
    LET places == {i \in DOMAIN Preload : static[Preload[i]] # None}
    IN {order \in [1..Cardinality(places) -> places] :
            \A i, j \in DOMAIN order : i < j => order[i] < order[j]}

Mut_RefreshItemsStatic(order) ==
    [i \in DOMAIN order |-> Item("static", Preload[order[i]])]

(* refresh_cache: the interval is over.  The static cache comes first, in  *)
(* its order, then the other from the oldest entry on, so that the order   *)
(* is the same in the end.                                                 *)
RefreshItems(order) ==
    [i \in DOMAIN order |-> Item("static", Preload[order[i]])]
        \o [i \in DOMAIN lru |-> Item("lru", lru[i])]

Refresh ==
    /\ op = "idle" /\ async
    /\ op' = "refresh"
    /\ \E order \in StaticOrders : todo' = RefreshItems(order)
    /\ UNCHANGED <<modeVars, online, diskVars, cacheVars, config, seen, historyVars>>

RefreshEnd ==
    /\ op = "refresh" /\ todo = <<>>
    /\ op' = "idle"
    /\ UNCHANGED <<modeVars, online, diskVars, cacheVars, config, todo, seen, historyVars>>

-----------------------------------------------------------------------------
(* get_project has returned d for the entry at hand.                       *)

ToIdle == op' = "idle" /\ todo' = <<>> /\ seen' = 0 /\ asof' = 0

RequestDone(k, d) ==
    /\ op = "request"
    /\ UpdateEntry(k, d)
    /\ Serve(k, d, Update(k, d))
    /\ ToIdle

ManagementDone(k, d) ==
    /\ op = "management"
    /\ UpdateEntry(k, d)
    /\ Manages(k)
    /\ ToIdle
    /\ UNCHANGED <<config, outdated, ahead, maker>>

RefreshedEntry(k, d) ==
    /\ op = "refresh" /\ Head(todo).cache = "lru"
    /\ UpdateEntry(k, d)
    /\ config' = IF Update(k, d) = "UPDATED" THEN [config EXCEPT ![FileOf[k]] = 0] ELSE config
    /\ maker' = IF Update(k, d) = "UPDATED" THEN [maker EXCEPT ![FileOf[k]] = {}] ELSE maker
    /\ managed' = Unmanaged(FileOf[k], Update(k, d) = "UPDATED")
    /\ todo' = Tail(todo) /\ seen' = 0
    /\ UNCHANGED <<op, asof, outdated, ahead>>

RefreshedStatic(k, d) ==
    /\ op = "refresh" /\ Head(todo).cache = "static"
    /\ static' = [static EXCEPT ![k] = d]
    /\ todo' = Tail(todo) /\ seen' = 0
    /\ UNCHANGED <<lru, entry, config, op, historyVars>>

Done(d) ==
    LET k == Head(todo).key
    IN \/ RequestDone(k, d)
       \/ ManagementDone(k, d)
       \/ RefreshedEntry(k, d)
       \/ RefreshedStatic(k, d)

(* An exception that the caller turns into an answer, or that ends the     *)
(* refresh: its other entries are not visited and its time is not noted.   *)
Raise ==
    /\ ToIdle
    /\ UNCHANGED <<cacheVars, config, outdated, ahead, maker, managed>>

(* A request that raises anything else is answered 500 and the worker      *)
(* leaves.                                                                 *)
Leave ==
    /\ op = "request"
    /\ op' = "down" /\ todo' = <<>> /\ seen' = 0 /\ asof' = 0
    /\ lru' = <<>> /\ managed' = {}
    /\ entry' = [k \in Keys |-> None]
    /\ static' = [k \in Keys |-> None]
    /\ config' = [f \in Files |-> 0] /\ maker' = [f \in Files |-> {}]
    /\ UNCHANGED <<outdated, ahead>>

(* resolve_alias, get_protocol_handler and get_project up to stat.  A path *)
(* outside the root or a scheme that is not allowed raises, and so does a  *)
(* project that is not there.                                              *)
Stat ==
    /\ todo # <<>> /\ seen = 0
    /\ LET item == Head(todo)
       IN \/ (~Allowed(item.key) \/ disk[FileOf[item.key]] = 0) /\ Raise
          \/ /\ Allowed(item.key) /\ online /\ disk[FileOf[item.key]] # 0 /\ MustRead(item)
             /\ seen' = disk[FileOf[item.key]]
             /\ UNCHANGED <<cacheVars, config, op, todo, historyVars>>
          \/ /\ Allowed(item.key) /\ online /\ disk[FileOf[item.key]] # 0 /\ ~MustRead(item)
             /\ Done(Kept(item))
    /\ UNCHANGED <<modeVars, online, diskVars>>

(* The database cannot be asked.  Both handlers raise FileNotFoundError    *)
(* when it is out of reach; other errors of postgres become RuntimeError.  *)
StatFails ==
    /\ todo # <<>> /\ seen = 0 /\ ~ online
    /\ \/ Raise
       \/ scheme = "postgres" /\ Leave
    /\ UNCHANGED <<modeVars, online, diskVars>>

(* read_project.  A file that is gone, or that QGIS cannot read, raises    *)
(* RuntimeError; one with bad layers raises StrictCheckingError.           *)
Read ==
    /\ todo # <<>> /\ seen # 0
    /\ LET v == IF online THEN disk[FileOf[Head(todo).key]] ELSE 0
       IN \/ v # 0 /\ v \notin BadVersions /\ Done(Loaded(Head(todo)))
          \/ v \in BadVersions /\ Raise
          \/ v = 0 /\ op # "request" /\ Raise
          \/ v \in BadVersions \cup {0} /\ Leave
    /\ UNCHANGED <<modeVars, online, diskVars>>

(* The pool starts another worker, which preloads the projects that are    *)
(* there; one that fails the strict check is skipped.                      *)
Restart ==
    /\ op = "down"
    /\ op' = "idle"
    /\ static' = [k \in Keys |->
           IF Preloaded(k) /\ online /\ disk[FileOf[k]] # 0 /\ disk[FileOf[k]] \notin BadVersions
           THEN [project |-> disk[FileOf[k]], timestamp |-> disk[FileOf[k]]] ELSE None]
    /\ UNCHANGED <<modeVars, online, diskVars, lru, entry, config, todo, seen, historyVars>>

(* RuntimeError, of read_project or of the postgres handler, goes through  *)
(* preload_projects_file: the worker does not start and the pool aborts.   *)
RestartFails ==
    /\ op = "down"
    /\ \E k \in Keys : /\ Preloaded(k)
                        /\ IF online THEN disk[FileOf[k]] \in BadVersions ELSE scheme = "postgres"
    /\ op' = "aborted"
    /\ UNCHANGED <<modeVars, online, diskVars, cacheVars, config, todo, seen, historyVars>>

Next ==
    \/ \E f \in Files : Edit(f) \/ Delete(f)
    \/ \E k \in Keys : Hit(k) \/ HitStatic(k) \/ Lookup(k)
    \/ \E k \in Keys : ManagementStatic(k) \/ ManagementLookup(k)
    \/ Refresh \/ RefreshEnd
    \/ Stat \/ StatFails \/ Read
    \/ StoreFails \/ StoreReturns
    \/ Restart \/ RestartFails

(* Every call returns; a worker that left is replaced.  post_process runs  *)
(* after every message and whenever none has come for a second, and the    *)
(* interval does end.                                                      *)
Fairness ==
    /\ WF_vars(Stat \/ StatFails) /\ WF_vars(Read) /\ WF_vars(RefreshEnd)
    /\ WF_vars(Restart)
    /\ SF_vars(Refresh)

Spec == Init /\ [][Next]_vars /\ Fairness

-----------------------------------------------------------------------------
(* Properties.                                                             *)

(* Type correctness; _lru_cache holds each project once, holds exactly the *)
(* projects that have details, and never more than its size.               *)
TypeOK ==
    /\ async \in BOOLEAN /\ online \in BOOLEAN
    /\ scheme \in {"file", "postgres", "storage"}
    /\ disk \in [Files -> Nat] /\ clock \in Nat
    /\ lru \in Seq(Keys) /\ Len(lru) <= Size
    /\ \A i, j \in DOMAIN lru : lru[i] = lru[j] => i = j
    /\ \A k \in Keys : entry[k] # None <=> \E i \in DOMAIN lru : lru[i] = k
    /\ entry \in [Keys -> Details] /\ static \in [Keys -> Details]
    /\ config \in [Files -> Nat]
    /\ op \in {"idle", "request", "management", "refresh", "down", "aborted"}
    /\ todo \in Seq([cache : {"lru", "static"}, key : Keys]) /\ seen \in Nat
    /\ asof \in Nat
    /\ outdated \in BOOLEAN /\ ahead \in BOOLEAN
    /\ maker \in [Files -> SUBSET Keys] /\ managed \in SUBSET Keys

Detectable(k, d) ==
    d # None /\ disk[FileOf[k]] # 0 /\ d.project # disk[FileOf[k]] => d.timestamp < disk[FileOf[k]]

(* A cached project, of either cache, that is not the file on disk carries *)
(* a timestamp older than the file's: whatever comes between the stat and  *)
(* the read of get_project, the next check sees that the entry is stale.   *)
StaleIsDetectable ==
    \A k \in Keys : Detectable(k, entry[k]) /\ Detectable(k, static[k])

(* The details of k are those of the file that is there.                   *)
Current(k) == disk[FileOf[k]] # 0 /\ entry[k].timestamp = disk[FileOf[k]]

(* The capabilities that QGIS keeps for the file of k, if a request of k   *)
(* made them or checks are synchronous, fit the details of k.              *)
ConfigFits(k) ==
    LET f == FileOf[k]
    IN /\ entry[k] # None /\ config[f] # 0
       /\ maker[f] = {k} \/ (~async /\ Current(k))
       => config[f] = entry[k].project

(* When the worker is between two calls, the capabilities that QGIS keeps  *)
(* for the file of a key of _lru_cache were made from the project that is  *)
(* there: "Needed to cleanup cached capabilities" (qgsworker.py) is done   *)
(* on every way an entry changes, eviction and reload included.  With      *)
(* synchronous checks this is so for every key whose details are current,  *)
(* whichever name of the file the capabilities were made through; with     *)
(* asynchronous ones only for the key they were made through, since        *)
(* another name can still be at an older version and make them anew.  A    *)
(* management request fills the cache beside capabilities kept from before *)
(* and is left out.                                                        *)
ConfigCoherent ==
    op = "idle" => \A k \in Keys \ managed : ConfigFits(k)

(* With synchronous checks no request is answered from a project or with   *)
(* capabilities older than the file that was there when the request came   *)
(* (doc/cache.rst: "refreshed synchronously at each requests"), through    *)
(* whichever of its names.  Left out, as in ConfigCoherent, are the        *)
(* capabilities kept for a key that a management request put in the cache. *)
SyncFresh == ~async => ~outdated

(* What a client gets is never older than the ETag and the Last-Modified   *)
(* that come with it: with one that is newer, later requests would be      *)
(* answered 304 and the client would keep the old capabilities until the   *)
(* project changes again.  Left out, as in ConfigCoherent, are the         *)
(* capabilities kept for a key that a management request put in the cache  *)
(* and, with asynchronous checks, those made through another name of the   *)
(* file.                                                                   *)
ValidatorNotAhead == ~ ahead

Readable(k) == online /\ disk[FileOf[k]] \notin BadVersions \cup {0}

(* With asynchronous checks, once the files stay readable the cache comes  *)
(* to hold what is on disk, through _lru_cache and _static_cache alike.    *)
RefreshCatchesUp ==
    async /\ <>[](\A k \in Keys : Readable(k))
        => <>[](\A k \in Keys : /\ entry[k] # None => entry[k].project = disk[FileOf[k]]
                                /\ static[k] # None => static[k].project = disk[FileOf[k]])

(* doc/cache.rst: "the cache is checked for invalidation/refresh           *)
(* asynchronously every seconds set by the option's value".  A project     *)
(* whose own file stays readable should then catch up, whatever happens to *)
(* the files of the others; but one that raises ends every refresh.        *)
EachCatchesUp ==
    \A k \in Keys :
        async /\ <>[]Readable(k)
            => <>[](entry[k] # None => entry[k].project = disk[FileOf[k]])
=============================================================================
