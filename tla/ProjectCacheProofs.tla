------------------------- MODULE ProjectCacheProofs -------------------------
(***************************************************************************)
(* What ProjectCache promises, for any set of keys and files and any keys  *)
(* that share a file, any size of the cache, any preload file and any      *)
(* number of changes.                                                      *)
(*                                                                         *)
(* The first invariant, IInv: stat comes before read, so the timestamp of  *)
(* an entry is never later than its content (Sound), and the file that is  *)
(* there is never older than an entry read from it or than a stat still in *)
(* hand.  The second, CoherenceInv: the order and the entries of the       *)
(* lrucache agree, a refresh meets only entries that are still there, a    *)
(* project is read only for a file newer than the one held, and so an      *)
(* update that reports "unchanged" really leaves the project the same,     *)
(* with the capabilities that QGIS keeps for its file if the key made them *)
(* or is current (ConfigFits); with synchronous checks a key that is not   *)
(* current is read again, and then nothing old is kept for its file.       *)
(***************************************************************************)
EXTENDS ProjectCache, FiniteSetTheorems, TLAPS

Sound(k, d) ==
    /\ d.timestamp <= d.project
    /\ d.project <= clock
    /\ disk[FileOf[k]] # 0 => d.project <= disk[FileOf[k]]

FilesInv ==
    /\ disk \in [Files -> Nat] /\ clock \in Nat
    /\ \A f \in Files : disk[f] <= clock

CacheInv ==
    /\ entry \in [Keys -> Details] /\ static \in [Keys -> Details]
    /\ \A k \in Keys : Sound(k, entry[k]) /\ Sound(k, static[k])

(* The moment v is not later than the file of k that is there.             *)
Before(v, k) == v \in Nat /\ v <= clock /\ (disk[FileOf[k]] # 0 => v <= disk[FileOf[k]])

StatInv ==
    /\ op \in {"idle", "down", "aborted"} => todo = <<>>
    /\ todo = <<>> => seen = 0
    /\ \A k \in Keys : todo # <<>> /\ Head(todo).key = k /\ seen # 0 => Before(seen, k)

RequestInv ==
    op = "request" => /\ todo # <<>> /\ Head(todo).key \in Keys
                      /\ Before(asof, Head(todo).key)

IInv == FilesInv /\ CacheInv /\ StatInv /\ RequestInv

-----------------------------------------------------------------------------
(* Every key names a file.                                                 *)
LEMMA NamesAFile == \A k \in Keys : FileOf[k] \in Files
BY CacheAssumption

(* __setitem__ changes an entry only to the one given or to none.          *)
LEMMA InsertEffect ==
    ASSUME NEW k, NEW d, Insert(k, d)
    PROVE  /\ entry' = [x \in Keys |-> entry'[x]]
           /\ \A x \in Keys : \/ x = k /\ entry'[x] = d
                              \/ x # k /\ entry'[x] \in {None, entry[x]}
<1> DEFINE kept == Without(lru, k)
           full == Len(kept) >= Size
           e(x) == CASE x = k -> d
                     [] full /\ x = Head(kept) /\ x # k -> None
                     [] OTHER -> entry[x]
<1>1. entry' = [x \in Keys |-> e(x)]
  BY DEF Insert
<1>2. \A x : \/ x = k /\ e(x) = d
             \/ x # k /\ e(x) \in {None, entry[x]}
  OBVIOUS
<1> HIDE DEF e
<1> QED
  BY <1>1, <1>2

(* The absence of details is sound.                                        *)
LEMMA NoneSound ==
    ASSUME FilesInv, NEW k \in Keys
    PROVE  None \in Details /\ Sound(k, None)
BY NamesAFile DEF FilesInv, None, Details, Sound

(* An entry given sound details leaves the caches sound.                   *)
LEMMA InsertSound ==
    ASSUME FilesInv, CacheInv, NEW k, NEW d, Insert(k, d),
           k \in Keys => d \in Details /\ Sound(k, d),
           UNCHANGED diskVars,
           static' = static \/ static' = [static EXCEPT ![k] = d]
    PROVE  CacheInv'
<1>1. \A x \in Keys : Sound(x, d)' <=> Sound(x, d)
  BY DEF Sound, diskVars
<1>2. \A x \in Keys : entry'[x] \in Details /\ Sound(x, entry'[x])
  BY InsertEffect, NoneSound DEF CacheInv
<1>3. \A x \in Keys : static'[x] \in Details /\ Sound(x, static'[x])
  BY DEF CacheInv
<1>4. entry' \in [Keys -> Details] /\ static' \in [Keys -> Details]
  BY <1>2, <1>3, InsertEffect DEF CacheInv
<1> QED
  BY <1>2, <1>3, <1>4 DEF CacheInv, Sound, diskVars

(* The initial states satisfy the invariant.                               *)
LEMMA IInvInit == Init => IInv
BY CacheAssumption, NamesAFile
DEF Init, IInv, FilesInv, CacheInv, Sound, StatInv, RequestInv, Before, None, Details

(* What get_project returns is sound, for the entry at hand.               *)
Good(d) ==
    LET k == Head(todo).key
    IN k \in Keys => d \in Details /\ Sound(k, d)

(* Done keeps the invariant.                                               *)
LEMMA DoneStep ==
    ASSUME IInv, todo # <<>>, NEW d, Good(d), Done(d),
           UNCHANGED <<modeVars, diskVars>>
    PROVE  IInv'
<1> DEFINE k == Head(todo).key
<1> USE DEF IInv
<1>0. FilesInv' /\ (k \in Keys => d \in Details /\ Sound(k, d))
  BY DEF FilesInv, diskVars, Good
<1>1. CASE RequestDone(k, d)
  <2>1. CacheInv'
    BY <1>0, <1>1, InsertSound DEF RequestDone, UpdateEntry
  <2>2. StatInv' /\ RequestInv'
    BY <1>1 DEF RequestDone, ToIdle, StatInv, RequestInv
  <2> QED
    BY <1>0, <2>1, <2>2
<1>2. CASE ManagementDone(k, d)
  <2>1. CacheInv'
    BY <1>0, <1>2, InsertSound DEF ManagementDone, UpdateEntry
  <2> QED
    BY <1>0, <1>2, <2>1 DEF ManagementDone, ToIdle, StatInv, RequestInv, modeVars
<1>3. CASE RefreshedEntry(k, d)
  <2>1. CacheInv'
    BY <1>0, <1>3, InsertSound DEF RefreshedEntry, UpdateEntry
  <2> QED
    BY <1>0, <1>3, <2>1 DEF RefreshedEntry, StatInv, RequestInv, modeVars
<1>4. CASE RefreshedStatic(k, d)
  <2>1. CacheInv'
    BY <1>0, <1>4 DEF RefreshedStatic, CacheInv, Sound, diskVars
  <2> QED
    BY <1>0, <1>4, <2>1 DEF RefreshedStatic, StatInv, RequestInv, modeVars, historyVars
<1> QED
  BY <1>1, <1>2, <1>3, <1>4 DEF Done

(* So do the exceptions.                                                   *)
LEMMA RaiseStep ==
    ASSUME IInv, Raise \/ Leave, UNCHANGED <<modeVars, diskVars>>
    PROVE  IInv'
<1> USE DEF IInv
<1>1. FilesInv'
  BY DEF FilesInv, diskVars
<1>2. CASE Raise
  BY <1>1, <1>2
  DEF Raise, ToIdle, CacheInv, Sound, StatInv, RequestInv, modeVars, cacheVars, diskVars
<1>3. CASE Leave
  <2>1. CacheInv'
    BY <1>1, <1>3, NoneSound DEF Leave, CacheInv, Sound, diskVars, None, Details
  <2> QED
    BY <1>1, <1>3, <2>1 DEF Leave, StatInv, RequestInv, modeVars
<1> QED
  BY <1>2, <1>3

(* A change of a file keeps it: the new version is the latest one.         *)
LEMMA FileStep ==
    ASSUME IInv, NEW f \in Files, Edit(f) \/ Delete(f)
    PROVE  IInv'
<1> USE DEF IInv
<1>1. /\ FilesInv' /\ clock' \in Nat /\ clock <= clock'
      /\ \A x \in Files : disk'[x] \in {0, disk[x], clock'}
      /\ UNCHANGED <<modeVars, cacheVars, config, workVars, historyVars>>
  BY DEF Edit, Delete, FilesInv
<1>2. \A v, x : x \in Keys /\ v \in Nat /\ v <= clock /\ (disk[FileOf[x]] # 0 => v <= disk[FileOf[x]])
                => v <= clock' /\ (disk'[FileOf[x]] # 0 => v <= disk'[FileOf[x]])
  BY <1>1, NamesAFile DEF FilesInv
<1>3. \A v : \A x \in Keys : Before(v, x) => v <= clock' /\ (disk'[FileOf[x]] # 0 => v <= disk'[FileOf[x]])
  BY <1>2 DEF Before
<1>4. CacheInv'
  BY <1>1, <1>2 DEF CacheInv, Sound, Details, cacheVars
<1>5. StatInv'
  BY <1>1, <1>3 DEF StatInv, Before, workVars
<1>6. RequestInv'
  BY <1>1, <1>3 DEF RequestInv, modeVars, Before, workVars, historyVars
<1> QED
  BY <1>1, <1>4, <1>5, <1>6

(* get_project up to stat keeps it.                                        *)
LEMMA StatStep ==
    ASSUME IInv, Stat
    PROVE  IInv'
<1> DEFINE item == Head(todo)
           k == item.key
<1>0. todo # <<>> /\ seen = 0 /\ UNCHANGED <<modeVars, diskVars>>
  BY DEF Stat
<1>1. CASE Raise
  BY <1>0, <1>1, RaiseStep
<1>2. CASE /\ disk[FileOf[k]] # 0 /\ MustRead(item) /\ seen' = disk[FileOf[k]]
           /\ UNCHANGED <<cacheVars, config, op, todo, historyVars>>
  <2> USE DEF IInv
  <2>1. FilesInv' /\ CacheInv' /\ RequestInv'
    BY <1>0, <1>2
    DEF FilesInv, CacheInv, Sound, RequestInv, Before, modeVars, diskVars,
        cacheVars, historyVars
  <2>2. StatInv'
    BY <1>0, <1>2, NamesAFile DEF StatInv, Before, FilesInv, diskVars, RequestInv
  <2> QED
    BY <2>1, <2>2
<1>3. CASE disk[FileOf[k]] # 0 /\ ~MustRead(item) /\ Done(Kept(item))
  <2>1. Good(Kept(item))
    <3> SUFFICES ASSUME k \in Keys
                 PROVE  Kept(item) \in Details /\ Sound(k, Kept(item))
      BY DEF Good
    <3>1. Held(item) \in Details /\ Sound(k, Held(item))
      BY DEF Held, IInv, CacheInv
    <3>2. ~ (Held(item).timestamp < disk[FileOf[k]])
      BY <1>3 DEF MustRead
    <3>4. disk[FileOf[k]] \in Nat
      BY NamesAFile DEF IInv, FilesInv
    <3>5. /\ Kept(item).project = Held(item).project
          /\ Kept(item).timestamp \in {Held(item).timestamp, disk[FileOf[k]]}
          /\ Kept(item) \in Details
      BY <3>1, <3>4 DEF Kept, Details
    <3>6. Held(item).project = disk[FileOf[k]] /\ Held(item).timestamp = disk[FileOf[k]]
      BY <1>3, <3>1, <3>2, <3>4 DEF Sound, Details
    <3> QED
      BY <3>1, <3>5, <3>6 DEF Sound
  <2> QED
    BY <1>0, <1>3, <2>1, DoneStep
<1> QED
  BY <1>1, <1>2, <1>3 DEF Stat

(* The read keeps it.                                                      *)
LEMMA ReadStep ==
    ASSUME IInv, Read
    PROVE  IInv'
<1> DEFINE item == Head(todo)
           k == item.key
<1>0. todo # <<>> /\ seen # 0 /\ UNCHANGED <<modeVars, diskVars>>
  BY DEF Read
<1>1. CASE Raise \/ Leave
  BY <1>0, <1>1, RaiseStep
<1>2. CASE disk[FileOf[k]] # 0 /\ Done(Loaded(item))
  <2>1. Good(Loaded(item))
    BY <1>0, <1>2, NamesAFile
    DEF Good, Loaded, IInv, FilesInv, StatInv, RequestInv, Before, Details, Sound
  <2> QED
    BY <1>0, <1>2, <2>1, DoneStep
<1> QED
  BY <1>1, <1>2 DEF Read

(* Every step keeps the invariant.                                         *)
LEMMA IInvStep == IInv /\ [Next]_vars => IInv'
<1> SUFFICES ASSUME IInv, [Next]_vars PROVE IInv'
  OBVIOUS
<1> USE DEF IInv
<1>1. ASSUME NEW f \in Files, Edit(f) \/ Delete(f) PROVE IInv'
  BY <1>1, FileStep
<1>2. ASSUME NEW k \in Keys, Hit(k) PROVE IInv'
  BY <1>2 DEF Hit, FilesInv, CacheInv, Sound, StatInv, RequestInv, Before, modeVars,
              diskVars, cacheVars, workVars
<1>3. ASSUME NEW k \in Keys, HitStatic(k) \/ ManagementStatic(k) PROVE IInv'
  <2>1. /\ Insert(k, static[k]) /\ op = "idle"
        /\ UNCHANGED <<modeVars, diskVars, static, workVars, asof>>
    BY <1>3 DEF HitStatic, ManagementStatic
  <2>2. CacheInv'
    BY <2>1, InsertSound DEF CacheInv
  <2> QED
    BY <2>1, <2>2 DEF FilesInv, StatInv, RequestInv, modeVars, diskVars, workVars
<1>4. ASSUME NEW k \in Keys, Lookup(k) PROVE IInv'
  <2>1. RequestInv'
    BY <1>4, NamesAFile DEF Lookup, Item, RequestInv, Before, FilesInv, diskVars
  <2> QED
    BY <1>4, <2>1
    DEF Lookup, FilesInv, CacheInv, Sound, StatInv, modeVars, diskVars, cacheVars
<1>5. ASSUME NEW k \in Keys, ManagementLookup(k) PROVE IInv'
  BY <1>5 DEF ManagementLookup, FilesInv, CacheInv, Sound, StatInv, RequestInv, modeVars,
              diskVars, cacheVars, historyVars
<1>6. ASSUME Refresh \/ RefreshEnd PROVE IInv'
  BY <1>6 DEF Refresh, RefreshEnd, FilesInv, CacheInv, Sound, StatInv, RequestInv, modeVars,
              diskVars, cacheVars, historyVars
<1>7. ASSUME Stat \/ Read PROVE IInv'
  BY <1>7, StatStep, ReadStep
<1>8. ASSUME Restart PROVE IInv'
  <2>1. static' \in [Keys -> Details] /\ \A k \in Keys : Sound(k, static'[k])
    BY <1>8, NamesAFile DEF Restart, FilesInv, Sound, Details, None
  <2> QED
    BY <1>8, <2>1 DEF Restart, FilesInv, CacheInv, Sound, StatInv, RequestInv, modeVars,
                      diskVars, historyVars
<1>9. ASSUME RestartFails PROVE IInv'
  BY <1>9 DEF RestartFails, FilesInv, CacheInv, Sound, StatInv, RequestInv, modeVars,
              diskVars, cacheVars, historyVars
<1>10. ASSUME UNCHANGED vars PROVE IInv'
  BY <1>10 DEF vars, FilesInv, CacheInv, Sound, StatInv, RequestInv, Before, modeVars,
               diskVars, cacheVars, workVars, historyVars
<1>11. ASSUME StoreFails \/ StoreReturns PROVE IInv'
  BY <1>11 DEF StoreFails, StoreReturns, FilesInv, CacheInv, Sound, StatInv, RequestInv, Before,
               modeVars, diskVars, cacheVars, workVars, historyVars
<1>12. ASSUME StatFails PROVE IInv'
  BY <1>12, RaiseStep DEF StatFails
<1> QED
  BY <1>1, <1>2, <1>3, <1>4, <1>5, <1>6, <1>7, <1>8, <1>9, <1>10, <1>11, <1>12 DEF Next

(* The invariant makes a stale entry detectable.                           *)
LEMMA IInvDetectable == IInv => StaleIsDetectable
<1> SUFFICES ASSUME FilesInv, CacheInv, NEW k \in Keys
             PROVE  Detectable(k, entry[k]) /\ Detectable(k, static[k])
  BY DEF IInv, StaleIsDetectable
<1>1. ASSUME NEW d \in Details, Sound(k, d) PROVE Detectable(k, d)
  BY <1>1, NamesAFile DEF FilesInv, Sound, Details, Detectable
<1> QED
  BY <1>1 DEF CacheInv

(* A cached project that differs from the file on disk carries a timestamp *)
(* older than the file's, whatever happens between stat and read.          *)
THEOREM StaleIsDetectableCorrect == Spec => []StaleIsDetectable
<1>1. Spec => []IInv
  BY IInvInit, IInvStep, PTL DEF Spec
<1> QED
  BY <1>1, IInvDetectable, PTL

-----------------------------------------------------------------------------
(* The second invariant: what the caches, the work in hand and the         *)
(* capabilities that QGIS keeps have to do with each other.                *)

(* _lru_cache holds each of its projects once, and as many as it may.      *)
LruInv ==
    /\ lru \in Seq(Keys) /\ Len(lru) <= Size
    /\ \A i, j \in DOMAIN lru : lru[i] = lru[j] => i = j
    /\ \A k \in Keys : entry[k] # None <=> \E i \in DOMAIN lru : lru[i] = k

Items == [cache : {"lru", "static"}, key : Keys]

(* A refresh updates entries of _lru_cache that are still there.           *)
TodoInv ==
    /\ todo \in Seq(Items)
    /\ op \in {"request", "management"} => todo # <<>> /\ Head(todo).cache = "lru"
    /\ op = "refresh" =>
          \A i \in DOMAIN todo : todo[i].cache = "lru" => entry[todo[i].key] # None

(* The project is read for a file newer than the details that are held.    *)
SeenInv ==
    todo # <<>> /\ seen # 0 /\ Held(Head(todo)) # None => Held(Head(todo)).timestamp < seen

ConfigInv ==
    /\ config \in [Files -> Nat] /\ maker \in [Files -> SUBSET Keys]
    /\ \A k \in Keys \ managed : ConfigFits(k)

ValueInv ==
    /\ async \in BOOLEAN /\ online \in BOOLEAN /\ outdated \in BOOLEAN
    /\ scheme \in {"file", "postgres", "storage"}
    /\ op \in {"idle", "request", "management", "refresh", "down", "aborted"}
    /\ seen \in Nat /\ asof \in Nat
    /\ managed \in SUBSET Keys

CoherenceInv ==
    LruInv /\ TodoInv /\ SeenInv /\ ConfigInv /\ ValueInv /\ ahead = FALSE /\ SyncFresh

-----------------------------------------------------------------------------
(* Taking a key out of the order keeps the others, each once.              *)
LEMMA WithoutFacts ==
    ASSUME NEW s \in Seq(Keys), \A i, j \in DOMAIN s : s[i] = s[j] => i = j, NEW k
    PROVE  /\ Without(s, k) \in Seq(Keys)
           /\ \A i, j \in DOMAIN Without(s, k) : Without(s, k)[i] = Without(s, k)[j] => i = j
           /\ \A x : (\E i \in DOMAIN Without(s, k) : Without(s, k)[i] = x)
                     <=> x # k /\ (\E i \in DOMAIN s : s[i] = x)
           /\ Len(Without(s, k)) <= Len(s)
           /\ (\E i \in DOMAIN s : s[i] = k) => Len(Without(s, k)) < Len(s)
<1>0. DOMAIN s = 1..Len(s) /\ Len(s) \in Nat /\ \A i \in 1..Len(s) : s[i] \in Keys
  OBVIOUS
<1>1. CASE k \notin {s[i] : i \in DOMAIN s}
  <2>1. Without(s, k) = s
    BY <1>1 DEF Without
  <2> QED
    BY <1>0, <1>1, <2>1
<1>2. CASE k \in {s[i] : i \in DOMAIN s}
  <2> DEFINE place == CHOOSE i \in DOMAIN s : s[i] = k
             w == [i \in 1..(Len(s) - 1) |-> IF i < place THEN s[i] ELSE s[i + 1]]
  <2>1. place \in 1..Len(s) /\ s[place] = k
    BY <1>0, <1>2
  <2>2. Without(s, k) = w
    BY <1>2 DEF Without
  <2> HIDE DEF place
  <2>3. Len(s) - 1 \in Nat
    BY <1>0, <2>1
  <2>4. w \in Seq(Keys) /\ DOMAIN w = 1..(Len(s) - 1)
    <3>1. \A i \in 1..(Len(s) - 1) : i \in 1..Len(s) /\ i + 1 \in 1..Len(s)
      BY <1>0
    <3>2. w \in [1..(Len(s) - 1) -> Keys]
      BY <3>1, <1>0
    <3> QED
      BY <2>3, <3>2
  <2>5. Len(w) = Len(s) - 1
    BY <2>3, <2>4
  <2>6. \A i \in 1..(Len(s) - 1) : /\ i < place => w[i] = s[i]
                                   /\ ~ (i < place) => w[i] = s[i + 1]
    OBVIOUS
  <2> HIDE DEF w
  <2>7. \A i, j \in 1..(Len(s) - 1) : w[i] = w[j] => i = j
    <3> TAKE i, j \in 1..(Len(s) - 1)
    <3>1. PICK a \in 1..Len(s) : w[i] = s[a] /\ (i < place => a = i) /\ (~ (i < place) => a = i + 1)
      BY <2>6, <1>0
    <3>2. PICK b \in 1..Len(s) : w[j] = s[b] /\ (j < place => b = j) /\ (~ (j < place) => b = j + 1)
      BY <2>6, <1>0
    <3>3. s[a] = s[b] => a = b
      BY <1>0
    <3>4. a = b => i = j
      BY <3>1, <3>2, <2>1, <1>0
    <3> QED
      BY <3>1, <3>2, <3>3, <3>4
  <2>8. ASSUME NEW i \in 1..(Len(s) - 1)
        PROVE  w[i] # k /\ \E j \in 1..Len(s) : s[j] = w[i]
    <3>1. PICK a \in 1..Len(s) : w[i] = s[a] /\ (i < place => a = i) /\ (~ (i < place) => a = i + 1)
      BY <2>6, <1>0
    <3>2. a # place
      BY <3>1, <2>1, <1>0
    <3>3. s[a] # s[place]
      BY <3>2, <2>1, <1>0
    <3> QED
      BY <3>1, <3>3, <2>1
  <2>9. ASSUME NEW j \in 1..Len(s), s[j] # k
        PROVE  \E i \in 1..(Len(s) - 1) : w[i] = s[j]
    <3>1. j # place
      BY <2>9, <2>1
    <3>2. CASE j < place
      <4>1. j \in 1..(Len(s) - 1)
        BY <3>2, <2>1, <1>0
      <4> QED
        BY <3>2, <4>1, <2>6
    <3>3. CASE ~ (j < place)
      <4>1. j - 1 \in 1..(Len(s) - 1) /\ ~ (j - 1 < place) /\ (j - 1) + 1 = j
        BY <3>1, <3>3, <2>1, <1>0
      <4>2. w[j - 1] = s[(j - 1) + 1]
        BY <4>1, <2>6
      <4> QED
        BY <4>1, <4>2
    <3> QED
      BY <3>2, <3>3
  <2>10. \A x : (\E i \in DOMAIN w : w[i] = x) <=> x # k /\ (\E i \in DOMAIN s : s[i] = x)
    BY <1>0, <2>4, <2>8, <2>9
  <2>11. Len(w) <= Len(s) /\ Len(w) < Len(s)
    BY <2>5, <1>0
  <2> QED
    BY <2>2, <2>4, <2>7, <2>10, <2>11
<1> QED
  BY <1>1, <1>2

(* __setitem__ keeps the order and the details of _lru_cache in step, and  *)
(* evicts nothing for a project that is there.                             *)
LEMMA InsertLru ==
    ASSUME LruInv, entry \in [Keys -> Details], NEW k \in Keys, NEW d, d # None, Insert(k, d)
    PROVE  /\ LruInv'
           /\ entry'[k] = d
           /\ \A x \in Keys : x # k /\ entry'[x] # None => entry'[x] = entry[x]
           /\ entry[k] # None => \A x \in Keys : x # k => entry'[x] = entry[x]
<1> DEFINE w == Without(lru, k)
           full == Len(w) >= Size
           t == IF full THEN Tail(w) ELSE w
<1>1. /\ lru' = Append(t, k)
      /\ entry' = [x \in Keys |-> CASE x = k -> d
                                     [] full /\ x = Head(w) /\ x # k -> None
                                     [] OTHER -> entry[x]]
  BY DEF Insert
<1>2. /\ w \in Seq(Keys) /\ Len(w) \in Nat
      /\ \A i, j \in DOMAIN w : w[i] = w[j] => i = j
      /\ \A x : (\E i \in DOMAIN w : w[i] = x) <=> x # k /\ (\E i \in DOMAIN lru : lru[i] = x)
      /\ Len(w) <= Size
      /\ entry[k] # None => Len(w) < Size
  <2>1. /\ lru \in Seq(Keys) /\ Len(lru) <= Size
        /\ \A i, j \in DOMAIN lru : lru[i] = lru[j] => i = j
        /\ entry[k] # None <=> \E i \in DOMAIN lru : lru[i] = k
    BY DEF LruInv
  <2>2. /\ w \in Seq(Keys)
        /\ \A i, j \in DOMAIN w : w[i] = w[j] => i = j
        /\ \A x : (\E i \in DOMAIN w : w[i] = x) <=> x # k /\ (\E i \in DOMAIN lru : lru[i] = x)
        /\ Len(w) <= Len(lru)
        /\ (\E i \in DOMAIN lru : lru[i] = k) => Len(w) < Len(lru)
    BY <2>1, WithoutFacts
  <2>3. Len(w) \in Nat /\ Len(lru) \in Nat /\ Size \in Nat
    BY <2>1, <2>2, CacheAssumption
  <2>4. Len(w) <= Size /\ (Len(w) < Len(lru) => Len(w) < Size)
    BY <2>1, <2>2, <2>3
  <2> QED
    BY <2>1, <2>2, <2>3, <2>4
<1> HIDE DEF w
<1>3. DOMAIN w = 1..Len(w) /\ Size \in Nat \ {0}
  BY <1>2, CacheAssumption
<1>4. ASSUME full PROVE w # <<>> /\ Head(w) = w[1] /\ 1 \in 1..Len(w)
  BY <1>2, <1>3, <1>4
<1>5. /\ t \in Seq(Keys) /\ Len(t) \in Nat /\ Len(t) < Size
      /\ \A i, j \in 1..Len(t) : t[i] = t[j] => i = j
      /\ \A x : (\E i \in 1..Len(t) : t[i] = x)
                  <=> ~ (full /\ x = Head(w)) /\ (\E i \in DOMAIN w : w[i] = x)
  <2>1. CASE ~ full
    <3>1. t = w /\ Len(w) < Size
      BY <2>1, <1>2, <1>3
    <3> QED
      BY <2>1, <3>1, <1>2, <1>3
  <2>2. CASE full
    <3>1. /\ t = Tail(w) /\ t \in Seq(Keys) /\ Len(t) = Len(w) - 1
          /\ \A i \in 1..Len(t) : t[i] = w[i + 1]
      BY <2>2, <1>2, <1>4
    <3> HIDE DEF t
    <3>2. Len(t) \in Nat /\ Len(t) < Size /\ Len(w) = Len(t) + 1
      BY <2>2, <3>1, <1>2, <1>3, <1>4
    <3>3. \A i \in 1..Len(t) : i + 1 \in DOMAIN w
      BY <3>2, <1>3
    <3>4. \A i, j \in 1..Len(t) : t[i] = t[j] => i = j
      <4> TAKE i, j \in 1..Len(t)
      <4>1. t[i] = t[j] => i + 1 = j + 1
        BY <3>1, <3>3, <1>2
      <4> QED
        BY <4>1, <3>2
    <3>5. ASSUME NEW i \in 1..Len(t)
          PROVE  t[i] # Head(w) /\ \E j \in DOMAIN w : w[j] = t[i]
      <4>1. i + 1 # 1 /\ i + 1 \in DOMAIN w /\ 1 \in DOMAIN w
        BY <3>2, <3>3, <1>3, <1>4, <2>2
      <4>2. w[i + 1] # w[1]
        BY <4>1, <1>2
      <4> QED
        BY <4>1, <4>2, <3>1, <1>4, <2>2
    <3>6. ASSUME NEW j \in DOMAIN w, w[j] # Head(w)
          PROVE  \E i \in 1..Len(t) : t[i] = w[j]
      <4>1. j # 1
        BY <3>6, <1>4, <2>2
      <4>2. j - 1 \in 1..Len(t) /\ (j - 1) + 1 = j
        BY <4>1, <1>3, <3>2
      <4>3. t[j - 1] = w[(j - 1) + 1]
        BY <4>2, <3>1
      <4> QED
        BY <4>2, <4>3
    <3>7. \A x : (\E i \in 1..Len(t) : t[i] = x)
                  <=> ~ (x = Head(w)) /\ (\E i \in DOMAIN w : w[i] = x)
      BY <3>5, <3>6
    <3> QED
      BY <2>2, <3>1, <3>2, <3>4, <3>7
  <2> QED
    BY <2>1, <2>2
<1>6. ASSUME NEW i \in 1..Len(t) PROVE t[i] # k
  BY <1>5, <1>6, <1>2
<1> HIDE DEF t
<1>7. /\ lru' \in Seq(Keys) /\ Len(lru') = Len(t) + 1 /\ lru'[Len(t) + 1] = k
      /\ DOMAIN lru' = 1..(Len(t) + 1)
      /\ \A i \in 1..Len(t) : lru'[i] = t[i]
  BY <1>1, <1>5
<1>8. Len(lru') <= Size
  BY <1>5, <1>7, <1>3
<1>9. \A i, j \in DOMAIN lru' : lru'[i] = lru'[j] => i = j
  <2> SUFFICES ASSUME NEW i \in 1..(Len(t) + 1), NEW j \in 1..(Len(t) + 1), lru'[i] = lru'[j]
               PROVE  i = j
    BY <1>7
  <2>1. CASE i \in 1..Len(t) /\ j \in 1..Len(t)
    BY <2>1, <1>5, <1>7
  <2>2. CASE i \in 1..Len(t) /\ j = Len(t) + 1
    BY <2>2, <1>6, <1>7
  <2>3. CASE j \in 1..Len(t) /\ i = Len(t) + 1
    BY <2>3, <1>6, <1>7
  <2> QED
    BY <2>1, <2>2, <2>3, <1>5
<1>10. ASSUME NEW x \in Keys
       PROVE  entry'[x] # None <=> \E i \in DOMAIN lru' : lru'[i] = x
  <2>0. (\E i \in DOMAIN lru' : lru'[i] = x) <=> x = k \/ \E i \in 1..Len(t) : t[i] = x
    <3>1. ASSUME NEW i \in 1..(Len(t) + 1), lru'[i] = x
          PROVE  x = k \/ \E j \in 1..Len(t) : t[j] = x
      <4>1. CASE i = Len(t) + 1
        BY <3>1, <4>1, <1>7
      <4>2. CASE i # Len(t) + 1
        <5>1. i \in 1..Len(t)
          BY <4>2, <1>5
        <5> QED
          BY <3>1, <5>1, <1>7
      <4> QED
        BY <4>1, <4>2
    <3>2. Len(t) + 1 \in DOMAIN lru' /\ \A i \in 1..Len(t) : i \in DOMAIN lru'
      BY <1>5, <1>7
    <3> QED
      BY <3>1, <3>2, <1>7
  <2>1. CASE x = k
    BY <2>0, <2>1, <1>1
  <2>2. CASE x # k
    <3>1. entry'[x] = IF full /\ x = Head(w) THEN None ELSE entry[x]
      BY <2>2, <1>1
    <3>2. (\E i \in 1..Len(t) : t[i] = x)
             <=> ~ (full /\ x = Head(w)) /\ (\E i \in DOMAIN lru : lru[i] = x)
      BY <2>2, <1>5, <1>2
    <3>3. entry[x] # None <=> \E i \in DOMAIN lru : lru[i] = x
      BY DEF LruInv
    <3> QED
      BY <2>0, <2>2, <3>1, <3>2, <3>3
  <2> QED
    BY <2>1, <2>2
<1>11. LruInv'
  BY <1>7, <1>8, <1>9, <1>10 DEF LruInv
<1>12. /\ entry'[k] = d
       /\ \A x \in Keys : x # k => entry'[x] = IF full /\ x = Head(w) THEN None ELSE entry[x]
  BY <1>1
<1>13. entry[k] # None => ~ full
  BY <1>2, <1>3
<1> QED
  BY <1>11, <1>12, <1>13

(* What a refresh sets out to update.                                      *)
LEMMA RefreshItemsOK ==
    ASSUME LruInv, NEW order \in StaticOrders
    PROVE  /\ RefreshItems(order) \in Seq(Items)
           /\ \A i \in DOMAIN RefreshItems(order) :
                 RefreshItems(order)[i].cache = "lru" => entry[RefreshItems(order)[i].key] # None
<1> DEFINE places == {i \in DOMAIN Preload : static[Preload[i]] # None}
           n == Cardinality(places)
           a == [i \in DOMAIN order |-> Item("static", Preload[order[i]])]
           b == [i \in DOMAIN lru |-> Item("lru", lru[i])]
<1>1. DOMAIN Preload = 1..Len(Preload) /\ Len(Preload) \in Nat /\ \A i \in DOMAIN Preload : Preload[i] \in Keys
  BY CacheAssumption
<1>2. n \in Nat
  <2>1. IsFiniteSet(1..Len(Preload))
    BY <1>1, FS_Interval
  <2>2. places \subseteq 1..Len(Preload)
    BY <1>1
  <2>3. IsFiniteSet(places)
    BY <2>1, <2>2, FS_Subset
  <2> QED
    BY <2>3, FS_CardinalityType
<1>3. order \in [1..n -> places]
  BY DEF StaticOrders
<1>4. \A i \in 1..n : order[i] \in DOMAIN Preload
  BY <1>3
<1> HIDE DEF n, places
<1>5. a \in Seq(Items) /\ \A i \in DOMAIN a : a[i].cache = "static"
  <2>1. \A i \in 1..n : Item("static", Preload[order[i]]) \in Items
    BY <1>1, <1>4 DEF Item, Items
  <2>2. a \in [1..n -> Items]
    BY <1>3, <2>1
  <2>3. a \in Seq(Items)
    BY <1>2, <2>2
  <2> QED
    BY <2>3 DEF Item
<1>6. b \in Seq(Items) /\ \A i \in DOMAIN b : entry[b[i].key] # None
  <2>1. lru \in Seq(Keys) /\ DOMAIN lru = 1..Len(lru) /\ Len(lru) \in Nat
    <3>1. lru \in Seq(Keys)
      BY DEF LruInv
    <3> QED
      BY <3>1
  <2>2. \A i \in 1..Len(lru) : lru[i] \in Keys /\ Item("lru", lru[i]) \in Items
    BY <2>1 DEF Item, Items
  <2>3. b \in Seq(Items)
    BY <2>1, <2>2
  <2>4. \A i \in DOMAIN lru : entry[lru[i]] # None
    BY <2>1, <2>2 DEF LruInv
  <2>5. \A i \in DOMAIN b : i \in DOMAIN lru /\ b[i].key = lru[i]
    BY DEF Item
  <2> QED
    BY <2>3, <2>4, <2>5
<1>7. RefreshItems(order) = a \o b
  BY DEF RefreshItems
<1> HIDE DEF a, b
<1>8. /\ a \o b \in Seq(Items) /\ Len(a) \in Nat /\ Len(b) \in Nat
      /\ DOMAIN (a \o b) = 1..(Len(a) + Len(b)) /\ DOMAIN a = 1..Len(a) /\ DOMAIN b = 1..Len(b)
      /\ \A i \in 1..Len(a) : (a \o b)[i] = a[i]
      /\ \A i \in 1..Len(b) : (a \o b)[Len(a) + i] = b[i]
  BY <1>5, <1>6
<1>9. ASSUME NEW i \in DOMAIN (a \o b), (a \o b)[i].cache = "lru"
      PROVE  entry[(a \o b)[i].key] # None
  <2>1. CASE i \in 1..Len(a)
    BY <2>1, <1>5, <1>8, <1>9
  <2>2. CASE i \notin 1..Len(a)
    <3>1. i - Len(a) \in 1..Len(b) /\ Len(a) + (i - Len(a)) = i
      BY <2>2, <1>8
    <3>2. (a \o b)[Len(a) + (i - Len(a))] = b[i - Len(a)]
      BY <3>1, <1>8
    <3>3. (a \o b)[i] = b[i - Len(a)]
      BY <3>1, <3>2
    <3> QED
      BY <3>1, <3>3, <1>6, <1>8
  <2> QED
    BY <2>1, <2>2
<1> QED
  BY <1>7, <1>8, <1>9

(* A comparison is a Boolean.                                              *)
LEMMA LessIsBoolean == \A a, b \in Nat : (a < b) \in BOOLEAN
OBVIOUS

(* Details that are current are those of the file that is there.           *)
LEMMA CurrentProject ==
    ASSUME IInv, NEW k \in Keys, Current(k)
    PROVE  entry[k].project = disk[FileOf[k]]
<1>1. disk[FileOf[k]] \in Nat /\ disk[FileOf[k]] # 0 /\ entry[k].timestamp = disk[FileOf[k]]
  BY NamesAFile DEF IInv, FilesInv, Current
<1>2. /\ entry[k].timestamp \in Nat /\ entry[k].project \in Nat
      /\ entry[k].timestamp <= entry[k].project
      /\ disk[FileOf[k]] # 0 => entry[k].project <= disk[FileOf[k]]
  BY DEF IInv, CacheInv, Sound, Details
<1> QED
  BY <1>1, <1>2

(* A step that leaves the capabilities alone, and makes no key current.    *)
LEMMA ConfigSame ==
    ASSUME ConfigInv, config' = config, maker' = maker, managed' = managed, async' = async,
           entry' = entry, \A k \in Keys : Current(k)' => Current(k)
    PROVE  ConfigInv'
BY DEF ConfigInv, ConfigFits

(* A management request puts d in the cache: if QGIS keeps capabilities of *)
(* the file, the key is managed.                                           *)
LEMMA ManagesOK ==
    ASSUME ConfigInv, NEW k \in Keys, managed \in SUBSET Keys, Manages(k),
           config' = config, maker' = maker, async' = async, disk' = disk,
           \A x \in Keys : x # k /\ entry'[x] # None => entry'[x] = entry[x]
    PROVE  ConfigInv' /\ managed' \in SUBSET Keys
<1>1. managed' \in SUBSET Keys /\ managed \subseteq managed'
  BY DEF Manages
<1>2. config[FileOf[k]] # 0 => k \in managed'
  BY DEF Manages
<1>3. ASSUME NEW x \in Keys, x \notin managed' PROVE ConfigFits(x)'
  <2>1. CASE x = k
    BY <1>2, <1>3, <2>1 DEF ConfigFits
  <2>2. CASE x # k
    <3>1. ConfigFits(x)
      BY <1>1, <1>3 DEF ConfigInv
    <3>2. entry'[x] # None => entry'[x] = entry[x]
      BY <2>2
    <3> QED
      BY <3>1, <3>2 DEF ConfigFits, Current
  <2> QED
    BY <2>1, <2>2
<1> QED
  BY <1>1, <1>3 DEF ConfigInv

(* A request is answered from capabilities that are neither older than the *)
(* ETag nor, with synchronous checks, than the file, and they fit the      *)
(* entry afterwards.                                                       *)
LEMMA ServeOK ==
    ASSUME IInv, CoherenceInv, NEW k \in Keys, NEW d \in Details, d.timestamp <= d.project,
           NEW update, Serve(k, d, update), async' = async, disk' = disk,
           entry'[k] = d,
           \A x \in Keys : x # k /\ entry'[x] # None => entry'[x] = entry[x],
           ~async => d.project = disk[FileOf[k]] /\ asof <= d.project,
           ~Cleans(update) => /\ entry[k] # None /\ entry[k].timestamp = d.timestamp
                              /\ entry[k].project = d.project
                              /\ ~async => Current(k)
    PROVE  /\ ConfigInv' /\ managed' \in SUBSET Keys
           /\ ahead' = FALSE /\ outdated' \in BOOLEAN /\ SyncFresh'
<1>0. /\ d.project \in Nat /\ d.timestamp \in Nat /\ asof \in Nat
      /\ config \in [Files -> Nat] /\ maker \in [Files -> SUBSET Keys]
      /\ managed \in SUBSET Keys /\ async \in BOOLEAN
  BY DEF Details, CoherenceInv, ConfigInv, ValueInv
<1>1. PICK f \in Files : f = FileOf[k]
  BY NamesAFile
<1>2. PICK old : old = IF Cleans(update) THEN 0 ELSE config[f]
  OBVIOUS
<1>3. PICK answer : answer = IF old = 0 THEN d.project ELSE old
  OBVIOUS
<1>4. /\ \E c \in {old, answer} :
             /\ config' = [config EXCEPT ![f] = c]
             /\ maker' = [maker EXCEPT ![f] = IF c = 0 THEN {}
                                              ELSE IF old = 0 THEN {k} ELSE maker[f]]
      /\ managed' = IF Cleans(update) THEN managed \ NamesOf(f) ELSE managed
      /\ outdated' = (d.project < asof \/ (answer < asof /\ k \notin managed'))
      /\ ahead' = \/ d.project < d.timestamp
                  \/ /\ answer < d.timestamp /\ k \notin managed'
                     /\ ~ (async /\ (old # 0 /\ maker[f] # {k}))
  BY <1>1, <1>2, <1>3 DEF Serve, Etag, ModifiedTime, Unmanaged
<1>5. old \in Nat /\ answer \in Nat
  BY <1>0, <1>2, <1>3
<1>6. ASSUME k \notin managed', ~async \/ old = 0 \/ maker[f] = {k}
      PROVE  answer = d.project
  <2>1. CASE old = 0
    BY <2>1, <1>3
  <2>2. CASE old # 0
    <3>1. ~Cleans(update) /\ old = config[f] /\ k \notin managed
      BY <1>2, <1>4, <1>6, <2>2
    <3>2. ConfigFits(k)
      BY <3>1 DEF CoherenceInv, ConfigInv
    <3>3. maker[f] = {k} \/ (~async /\ Current(k))
      BY <1>6, <2>2, <3>1
    <3>4. config[f] = entry[k].project
      BY <1>1, <2>2, <3>1, <3>2, <3>3 DEF ConfigFits
    <3> QED
      BY <1>3, <2>2, <3>1, <3>4
  <2> QED
    BY <2>1, <2>2
<1>7. ahead' = FALSE
  <2>1. ~ (\/ d.project < d.timestamp
           \/ /\ answer < d.timestamp /\ k \notin managed'
              /\ ~ (async /\ (old # 0 /\ maker[f] # {k})))
    BY <1>0, <1>6
  <2> QED
    BY <1>4, <2>1, Zenon
<1>8. outdated' \in BOOLEAN /\ SyncFresh'
  <2>1. ~async => ~ (d.project < asof \/ (answer < asof /\ k \notin managed'))
    BY <1>0, <1>6
  <2>2. (answer < asof) \in BOOLEAN /\ (d.project < asof) \in BOOLEAN
    BY <1>0, <1>5, LessIsBoolean
  <2> QED
    BY <1>4, <2>1, <2>2, Zenon DEF SyncFresh
<1>9. managed' \in SUBSET Keys /\ managed \ NamesOf(f) \subseteq managed'
  BY <1>0, <1>4
<1>10. PICK c \in {old, answer} :
           /\ config' = [config EXCEPT ![f] = c]
           /\ maker' = [maker EXCEPT ![f] = IF c = 0 THEN {}
                                            ELSE IF old = 0 THEN {k} ELSE maker[f]]
  BY <1>4
<1>11. /\ config' \in [Files -> Nat] /\ maker' \in [Files -> SUBSET Keys]
       /\ config'[f] = c
       /\ c # 0 => maker'[f] = IF old = 0 THEN {k} ELSE maker[f]
       /\ \A g \in Files : g # f => config'[g] = config[g] /\ maker'[g] = maker[g]
  BY <1>0, <1>5, <1>10
<1>12. ASSUME NEW x \in Keys, x \notin managed', entry'[x] # None, config'[FileOf[x]] # 0,
              maker'[FileOf[x]] = {x} \/ (~async /\ Current(x)')
       PROVE  config'[FileOf[x]] = entry'[x].project
  <2>0. FileOf[x] \in Files
    BY NamesAFile
  <2>1. x # k => entry'[x] = entry[x] /\ (Current(x)' <=> Current(x))
    BY <1>12 DEF Current
  <2>2. CASE FileOf[x] # f
    <3>1. x # k /\ x \notin managed
      BY <1>1, <1>9, <1>12, <2>2 DEF NamesOf
    <3>2. ConfigFits(x)
      BY <3>1 DEF CoherenceInv, ConfigInv
    <3>3. config'[FileOf[x]] = config[FileOf[x]] /\ maker'[FileOf[x]] = maker[FileOf[x]]
      BY <1>11, <2>0, <2>2
    <3> QED
      BY <1>12, <2>1, <3>1, <3>2, <3>3 DEF ConfigFits
  <2>3. CASE FileOf[x] = f /\ old # 0
    <3>1. /\ ~Cleans(update) /\ x \notin managed /\ c = old /\ old = config[f]
          /\ entry[x] # None /\ entry[x].project = entry'[x].project
      BY <1>2, <1>3, <1>4, <1>10, <1>12, <2>1, <2>3
    <3>2. config'[f] = config[f] /\ maker'[f] = maker[f]
      BY <1>11, <2>3, <3>1
    <3>3. ConfigFits(x)
      BY <3>1 DEF CoherenceInv, ConfigInv
    <3>4. maker[f] = {x} \/ (~async /\ Current(x))
      BY <1>12, <2>1, <2>3, <3>1, <3>2
    <3> QED
      BY <2>3, <3>1, <3>2, <3>3, <3>4 DEF ConfigFits
  <2>4. CASE FileOf[x] = f /\ old = 0
    <3>1. config'[f] = d.project /\ maker'[f] = {k}
      BY <1>3, <1>10, <1>11, <1>12, <2>4
    <3>2. CASE x = k
      BY <2>4, <3>1, <3>2
    <3>3. CASE x # k
      <4>1. ~async /\ Current(x)
        BY <1>12, <2>1, <2>4, <3>1, <3>3
      <4>2. entry[x].project = disk[f]
        BY <2>4, <4>1, CurrentProject
      <4> QED
        BY <1>1, <2>1, <2>4, <3>1, <3>3, <4>1, <4>2
    <3> QED
      BY <3>2, <3>3
  <2> QED
    BY <2>2, <2>3, <2>4
<1>13. \A x \in Keys \ managed' : ConfigFits(x)'
  BY <1>12 DEF ConfigFits
<1>14. ConfigInv'
  BY <1>11, <1>13 DEF ConfigInv
<1> QED
  BY <1>7, <1>8, <1>9, <1>14

(* The initial states satisfy the second invariant.                        *)
LEMMA CoherenceInit == Init => CoherenceInv
<1> SUFFICES ASSUME Init PROVE CoherenceInv
  OBVIOUS
<1>1. LruInv
  BY CacheAssumption DEF Init, LruInv
<1>2. TodoInv /\ SeenInv
  BY DEF Init, TodoInv, SeenInv
<1>3. ConfigInv
  BY DEF Init, ConfigInv, ConfigFits
<1>4. ValueInv /\ ahead = FALSE /\ SyncFresh
  BY DEF Init, ValueInv, SyncFresh
<1> QED
  BY <1>1, <1>2, <1>3, <1>4 DEF CoherenceInv

(* What UpdateEntry does to _lru_cache.                                    *)
LEMMA UpdateEntryLru ==
    ASSUME IInv, CoherenceInv, NEW k \in Keys, NEW d \in Details, d # None, UpdateEntry(k, d)
    PROVE  /\ LruInv' /\ entry'[k] = d
           /\ \A x \in Keys : x # k /\ entry'[x] # None => entry'[x] = entry[x]
           /\ entry[k] # None => \A x \in Keys : x # k => entry'[x] = entry[x]
BY InsertLru DEF UpdateEntry, IInv, CacheInv, CoherenceInv

(* Once get_project has returned d, the entry, the work in hand and the    *)
(* capabilities stay in step.                                              *)
LEMMA DoneCoherent ==
    ASSUME IInv, CoherenceInv, todo # <<>>, NEW k \in Keys, k = Head(todo).key,
           NEW d \in Details, d # None, Sound(k, d),
           d.project = disk[FileOf[k]], disk[FileOf[k]] # 0,
           Head(todo).cache = "lru" /\ entry[k] # None /\ d.timestamp = entry[k].timestamp
               => Current(k),
           Done(d), UNCHANGED <<modeVars, online, diskVars>>
    PROVE  CoherenceInv'
<1> USE DEF CoherenceInv
<1>0. \/ RequestDone(k, d) \/ ManagementDone(k, d)
      \/ RefreshedEntry(k, d) \/ RefreshedStatic(k, d)
  BY DEF Done
<1>1. async' = async /\ scheme' = scheme /\ online' = online /\ disk' = disk
  BY DEF modeVars, diskVars
<1>2. d.timestamp <= d.project /\ d.project \in Nat
  BY DEF Sound, Details
<1>2a. Head(todo).cache = "lru" /\ entry[k] # None /\ d.timestamp = entry[k].timestamp
           => d.project = entry[k].project
  BY CurrentProject
<1>3. CASE RequestDone(k, d)
  <2>1. /\ UpdateEntry(k, d) /\ Serve(k, d, Update(k, d)) /\ ToIdle
        /\ op = "request"
    BY <1>3 DEF RequestDone
  <2>2. PICK update : update = Update(k, d)
    OBVIOUS
  <2>3. Serve(k, d, update)
    BY <2>1, <2>2
  <2>4. ~ Cleans(update) => /\ entry[k] # None /\ entry[k].timestamp = d.timestamp
                            /\ entry[k].project = d.project
                            /\ ~async => Current(k)
    <3>1. ~ Cleans(update) => entry[k] # None /\ d.timestamp = entry[k].timestamp
      BY <2>2 DEF Cleans, Update
    <3>2. Head(todo).cache = "lru"
      BY <2>1 DEF TodoInv
    <3> QED
      BY <1>2a, <3>1, <3>2
  <2>5. asof <= d.project
    BY <2>1 DEF IInv, RequestInv, Before
  <2>6. LruInv' /\ entry'[k] = d /\ \A x \in Keys : x # k /\ entry'[x] # None => entry'[x] = entry[x]
    BY <2>1, UpdateEntryLru
  <2>7. ~async => d.project = disk[FileOf[k]] /\ asof <= d.project
    BY <2>5
  <2>8. /\ ConfigInv' /\ managed' \in SUBSET Keys
        /\ ahead' = FALSE /\ outdated' \in BOOLEAN /\ SyncFresh'
    BY <1>1, <1>2, <2>3, <2>4, <2>6, <2>7, ServeOK
  <2>9. TodoInv' /\ SeenInv'
    BY <2>1 DEF ToIdle, TodoInv, SeenInv
  <2>10. ValueInv'
    BY <1>1, <2>1, <2>8 DEF ToIdle, ValueInv
  <2> QED
    BY <2>6, <2>8, <2>9, <2>10
<1>4. CASE ManagementDone(k, d)
  <2>1. UpdateEntry(k, d) /\ ToIdle /\ Manages(k)
    BY <1>4 DEF ManagementDone
  <2>2. config' = config /\ maker' = maker /\ outdated' = outdated /\ ahead' = ahead
    BY <1>4 DEF ManagementDone
  <2>3. LruInv' /\ entry'[k] = d /\ \A x \in Keys : x # k /\ entry'[x] # None => entry'[x] = entry[x]
    BY <2>1, UpdateEntryLru
  <2>4. managed \in SUBSET Keys
    BY DEF ValueInv
  <2>5. ConfigInv' /\ managed' \in SUBSET Keys
    BY <1>1, <2>1, <2>2, <2>3, <2>4, ManagesOK
  <2>6. TodoInv' /\ SeenInv'
    BY <2>1 DEF ToIdle, TodoInv, SeenInv
  <2>7. ValueInv' /\ ahead' = FALSE /\ SyncFresh'
    BY <1>1, <2>1, <2>2, <2>5 DEF ToIdle, ValueInv, SyncFresh
  <2> QED
    BY <2>3, <2>5, <2>6, <2>7
<1>5. todo \in Seq(Items) /\ DOMAIN todo = 1..Len(todo) /\ Len(todo) \in Nat
  <2>1. todo \in Seq(Items)
    BY DEF TodoInv
  <2> QED
    BY <2>1
<1>6. /\ Tail(todo) \in Seq(Items) /\ 1 \in DOMAIN todo /\ Head(todo) = todo[1]
      /\ \A i \in DOMAIN Tail(todo) : i + 1 \in DOMAIN todo /\ Tail(todo)[i] = todo[i + 1]
  BY <1>5
<1>7. ASSUME op = "refresh", op' = op, todo' = Tail(todo), seen' = 0,
             \A x \in Keys : entry[x] # None => entry'[x] # None
      PROVE  TodoInv' /\ SeenInv'
  <2>1. todo' \in Seq(Items)
    BY <1>6, <1>7
  <2>2. ASSUME NEW i \in DOMAIN todo', todo'[i].cache = "lru"
        PROVE  entry'[todo'[i].key] # None
    <3>1. i + 1 \in DOMAIN todo /\ todo'[i] = todo[i + 1] /\ todo[i + 1] \in Items
      BY <1>5, <1>6, <1>7, <2>2
    <3>2. entry[todo[i + 1].key] # None /\ todo[i + 1].key \in Keys
      BY <1>7, <2>2, <3>1 DEF TodoInv, Items
    <3> QED
      BY <1>7, <3>1, <3>2
  <2>3. TodoInv'
    BY <1>7, <2>1, <2>2 DEF TodoInv
  <2> QED
    BY <1>7, <2>3 DEF SeenInv
<1>8. CASE RefreshedEntry(k, d)
  <2>1. /\ UpdateEntry(k, d) /\ op = "refresh" /\ Head(todo).cache = "lru"
        /\ config' = IF Update(k, d) = "UPDATED" THEN [config EXCEPT ![FileOf[k]] = 0] ELSE config
        /\ maker' = IF Update(k, d) = "UPDATED" THEN [maker EXCEPT ![FileOf[k]] = {}] ELSE maker
        /\ managed' = IF Update(k, d) = "UPDATED" THEN managed \ NamesOf(FileOf[k]) ELSE managed
        /\ todo' = Tail(todo) /\ seen' = 0
        /\ op' = op /\ asof' = asof /\ outdated' = outdated /\ ahead' = ahead
    BY <1>8 DEF RefreshedEntry, Unmanaged
  <2>2. entry[k] # None
    BY <1>6, <2>1 DEF TodoInv
  <2>3. /\ LruInv' /\ entry'[k] = d
        /\ \A x \in Keys : x # k => entry'[x] = entry[x]
    BY <2>1, <2>2, UpdateEntryLru
  <2>4. /\ config \in [Files -> Nat] /\ maker \in [Files -> SUBSET Keys]
        /\ managed \in SUBSET Keys /\ FileOf[k] \in Files
    BY NamesAFile DEF ConfigInv, ValueInv
  <2>5. ConfigInv' /\ managed' \in SUBSET Keys
    <3>1. CASE Update(k, d) = "UPDATED"
      <4>1. /\ config' \in [Files -> Nat] /\ maker' \in [Files -> SUBSET Keys]
            /\ managed' \in SUBSET Keys /\ config'[FileOf[k]] = 0
            /\ \A g \in Files : g # FileOf[k] => config'[g] = config[g] /\ maker'[g] = maker[g]
        BY <2>1, <2>4, <3>1
      <4>2. ASSUME NEW x \in Keys, x \notin managed' PROVE ConfigFits(x)'
        <5>1. CASE FileOf[x] = FileOf[k]
          BY <4>1, <5>1 DEF ConfigFits
        <5>2. CASE FileOf[x] # FileOf[k]
          <6>1. x # k /\ x \notin managed /\ FileOf[x] \in Files
            BY <2>1, <3>1, <4>2, <5>2, NamesAFile DEF NamesOf
          <6>2. ConfigFits(x)
            BY <6>1 DEF ConfigInv
          <6>3. /\ entry'[x] = entry[x] /\ config'[FileOf[x]] = config[FileOf[x]]
                /\ maker'[FileOf[x]] = maker[FileOf[x]]
            BY <2>3, <4>1, <5>2, <6>1
          <6> QED
            BY <1>1, <6>2, <6>3 DEF ConfigFits, Current
        <5> QED
          BY <5>1, <5>2
      <4> QED
        BY <4>1, <4>2 DEF ConfigInv
    <3>2. CASE Update(k, d) # "UPDATED"
      <4>1. config' = config /\ maker' = maker /\ managed' = managed
        BY <2>1, <3>2
      <4>2. d.timestamp = entry[k].timestamp /\ d.project = entry[k].project
        BY <1>2a, <2>1, <2>2, <3>2 DEF Update
      <4>3. \A x \in Keys : /\ entry'[x].project = entry[x].project
                            /\ entry'[x].timestamp = entry[x].timestamp
                            /\ entry'[x] # None => entry[x] # None
        BY <2>2, <2>3, <4>2
      <4>4. ASSUME NEW x \in Keys, x \notin managed' PROVE ConfigFits(x)'
        <5>1. ConfigFits(x)
          BY <4>1, <4>4 DEF ConfigInv
        <5> QED
          BY <1>1, <4>1, <4>3, <5>1 DEF ConfigFits, Current
      <4> QED
        BY <2>4, <4>1, <4>4 DEF ConfigInv
    <3> QED
      BY <3>1, <3>2
  <2>6. \A x \in Keys : entry[x] # None => entry'[x] # None
    BY <2>3
  <2>7. TodoInv' /\ SeenInv'
    BY <1>7, <2>1, <2>6
  <2>8. ValueInv' /\ ahead' = FALSE /\ SyncFresh'
    BY <1>1, <2>1, <2>5 DEF ValueInv, SyncFresh
  <2> QED
    BY <2>3, <2>5, <2>7, <2>8
<1>9. CASE RefreshedStatic(k, d)
  <2>1. /\ op = "refresh" /\ op' = op /\ todo' = Tail(todo) /\ seen' = 0
        /\ lru' = lru /\ entry' = entry /\ config' = config /\ maker' = maker
        /\ asof' = asof /\ outdated' = outdated /\ ahead' = ahead /\ managed' = managed
    BY <1>9 DEF RefreshedStatic, historyVars
  <2>2. TodoInv' /\ SeenInv'
    BY <1>7, <2>1
  <2>3. LruInv'
    BY <2>1 DEF LruInv
  <2>4. ConfigInv'
    BY <1>1, <2>1, ConfigSame DEF Current
  <2>5. ValueInv' /\ ahead' = FALSE /\ SyncFresh'
    BY <1>1, <2>1 DEF ValueInv, SyncFresh
  <2> QED
    BY <2>2, <2>3, <2>4, <2>5
<1> QED
  BY <1>0, <1>3, <1>4, <1>8, <1>9

(* So they do when an exception ends the call.                             *)
LEMMA RaiseCoherent ==
    ASSUME CoherenceInv, Raise \/ Leave, UNCHANGED <<modeVars, online, diskVars>>
    PROVE  CoherenceInv'
<1> USE DEF CoherenceInv
<1>1. async' = async /\ scheme' = scheme /\ online' = online /\ disk' = disk
  BY DEF modeVars, diskVars
<1>2. CASE Raise
  <2>1. /\ op' = "idle" /\ todo' = <<>> /\ seen' = 0 /\ asof' = 0
        /\ lru' = lru /\ entry' = entry /\ config' = config /\ maker' = maker
        /\ outdated' = outdated /\ ahead' = ahead /\ managed' = managed
    BY <1>2 DEF Raise, ToIdle, cacheVars
  <2>2. LruInv'
    BY <2>1 DEF LruInv
  <2>3. ConfigInv'
    BY <1>1, <2>1, ConfigSame DEF Current
  <2>4. TodoInv' /\ SeenInv'
    BY <2>1 DEF TodoInv, SeenInv
  <2>5. ValueInv' /\ ahead' = FALSE /\ SyncFresh'
    BY <1>1, <2>1 DEF ValueInv, SyncFresh
  <2> QED
    BY <2>2, <2>3, <2>4, <2>5
<1>3. CASE Leave
  <2>1. LruInv'
    BY <1>3, CacheAssumption DEF Leave, LruInv
  <2>2. TodoInv' /\ SeenInv'
    BY <1>3 DEF Leave, TodoInv, SeenInv
  <2>3. ConfigInv'
    <3>1. \A k \in Keys : entry'[k] = None
      BY <1>3 DEF Leave
    <3>2. config' \in [Files -> Nat] /\ maker' \in [Files -> SUBSET Keys]
      BY <1>3 DEF Leave
    <3> QED
      BY <3>1, <3>2 DEF ConfigInv, ConfigFits
  <2>4. ValueInv' /\ ahead' = FALSE /\ SyncFresh'
    BY <1>1, <1>3 DEF Leave, ValueInv, SyncFresh
  <2> QED
    BY <2>1, <2>2, <2>3, <2>4
<1> QED
  BY <1>2, <1>3

(* get_project up to stat keeps them in step: a check that finds nothing   *)
(* new returns the project that is held.                                   *)
LEMMA StatCoherent ==
    ASSUME IInv, CoherenceInv, Stat
    PROVE  CoherenceInv'
<1>0. todo # <<>> /\ seen = 0 /\ UNCHANGED <<modeVars, online, diskVars>>
  BY DEF Stat
<1>1. todo \in Seq(Items) /\ Head(todo) \in Items
  <2>1. todo \in Seq(Items)
    BY DEF CoherenceInv, TodoInv
  <2> QED
    BY <1>0, <2>1
<1>2. PICK k \in Keys : k = Head(todo).key
  BY <1>1 DEF Items
<1>3. PICK item : item = Head(todo)
  OBVIOUS
<1>4. disk[FileOf[k]] \in Nat
  BY NamesAFile DEF IInv, FilesInv
<1>5. CASE Raise
  BY <1>0, <1>5, RaiseCoherent
<1>6. CASE /\ disk[FileOf[k]] # 0 /\ MustRead(item) /\ seen' = disk[FileOf[k]]
           /\ UNCHANGED <<cacheVars, config, op, todo, historyVars>>
  <2> USE DEF CoherenceInv
  <2>1. /\ async' = async /\ scheme' = scheme /\ online' = online /\ disk' = disk
        /\ lru' = lru /\ entry' = entry /\ static' = static
        /\ config' = config /\ maker' = maker
        /\ op' = op /\ todo' = todo
        /\ asof' = asof /\ outdated' = outdated /\ ahead' = ahead /\ managed' = managed
    BY <1>0, <1>6 DEF modeVars, diskVars, cacheVars, historyVars
  <2>2. LruInv' /\ ConfigInv' /\ TodoInv'
    <3>1. LruInv' /\ TodoInv'
      BY <2>1 DEF LruInv, TodoInv
    <3>2. ConfigInv'
      BY <2>1, ConfigSame DEF Current
    <3> QED
      BY <3>1, <3>2
  <2>3. Held(item) # None => Held(item).timestamp < disk[FileOf[k]]
    BY <1>2, <1>3, <1>6 DEF MustRead
  <2>4. SeenInv'
    BY <1>3, <1>6, <2>1, <2>3 DEF SeenInv, Held
  <2>5. ValueInv' /\ ahead' = FALSE /\ SyncFresh'
    BY <1>4, <1>6, <2>1 DEF ValueInv, SyncFresh
  <2> QED
    BY <2>2, <2>4, <2>5
<1>7. CASE disk[FileOf[k]] # 0 /\ ~ MustRead(item) /\ Done(Kept(item))
  <2>1. PICK d : d = Kept(item)
    OBVIOUS
  <2>2. Held(item) \in Details /\ Sound(k, Held(item)) /\ Held(item) # None
    BY <1>2, <1>3, <1>7 DEF Held, MustRead, IInv, CacheInv
  <2>3. ~ (Held(item).timestamp < disk[FileOf[k]])
    BY <1>2, <1>3, <1>7 DEF MustRead
  <2>4. /\ d.project = Held(item).project
        /\ d.timestamp \in {Held(item).timestamp, disk[FileOf[k]]}
        /\ d \in Details
    BY <1>2, <1>3, <1>4, <2>1, <2>2 DEF Kept, Details
  <2>5. Held(item).project = disk[FileOf[k]] /\ Held(item).timestamp = disk[FileOf[k]]
    BY <1>4, <1>7, <2>2, <2>3 DEF Sound, Details
  <2>6. d # None
    BY <1>7, <2>4, <2>5 DEF None
  <2>7. Sound(k, d)
    BY <2>2, <2>4, <2>5 DEF Sound
  <2>8. Head(todo).cache = "lru" /\ entry[k] # None /\ d.timestamp = entry[k].timestamp
               => Current(k)
    BY <1>2, <1>3, <1>7, <2>4, <2>5 DEF Held, Current
  <2>9. Done(d)
    BY <1>7, <2>1
  <2> QED
    BY <1>0, <1>2, <1>7, <2>4, <2>5, <2>6, <2>7, <2>8, <2>9, DoneCoherent
<1> QED
  BY <1>2, <1>3, <1>5, <1>6, <1>7 DEF Stat

(* The read does: what it returns carries a later time than what was held. *)
LEMMA ReadCoherent ==
    ASSUME IInv, CoherenceInv, Read
    PROVE  CoherenceInv'
<1>0. todo # <<>> /\ seen # 0 /\ UNCHANGED <<modeVars, online, diskVars>>
  BY DEF Read
<1>1. todo \in Seq(Items) /\ Head(todo) \in Items
  <2>1. todo \in Seq(Items)
    BY DEF CoherenceInv, TodoInv
  <2> QED
    BY <1>0, <2>1
<1>2. PICK k \in Keys : k = Head(todo).key
  BY <1>1 DEF Items
<1>3. CASE Raise \/ Leave
  BY <1>0, <1>3, RaiseCoherent
<1>4. CASE disk[FileOf[k]] # 0 /\ Done(Loaded(Head(todo)))
  <2>1. PICK d : d = Loaded(Head(todo))
    OBVIOUS
  <2>2. d.project = disk[FileOf[k]] /\ d.timestamp = seen
    BY <1>2, <2>1 DEF Loaded
  <2>3. disk[FileOf[k]] \in Nat /\ seen \in Nat /\ disk[FileOf[k]] <= clock /\ seen <= disk[FileOf[k]]
    BY <1>0, <1>2, <1>4, NamesAFile DEF IInv, FilesInv, StatInv, Before
  <2>4. d \in Details
    BY <1>2, <2>1, <2>3 DEF Loaded, Details
  <2>5. d # None
    BY <1>4, <2>2 DEF None
  <2>6. Sound(k, d)
    BY <2>2, <2>3 DEF Sound
  <2>7. Head(todo).cache = "lru" /\ entry[k] # None => entry[k].timestamp < seen
    BY <1>0, <1>2 DEF CoherenceInv, SeenInv, Held
  <2>8. Head(todo).cache = "lru" /\ entry[k] # None /\ d.timestamp = entry[k].timestamp
               => Current(k)
    BY <2>2, <2>3, <2>7
  <2>9. Done(d)
    BY <1>4, <2>1
  <2> QED
    BY <1>0, <1>2, <1>4, <2>2, <2>4, <2>5, <2>6, <2>8, <2>9, DoneCoherent
<1> QED
  BY <1>2, <1>3, <1>4 DEF Read

(* A request that the caches answer leaves them in step.                   *)
LEMMA HitCoherent ==
    ASSUME IInv, CoherenceInv, NEW k \in Keys, Hit(k)
    PROVE  CoherenceInv'
<1> USE DEF CoherenceInv
<1>1. /\ async /\ entry[k] # None /\ Serve(k, entry[k], "UNCHANGED")
      /\ async' = async /\ scheme' = scheme /\ online' = online /\ disk' = disk
      /\ lru' = lru /\ entry' = entry /\ static' = static
      /\ op' = op /\ todo' = todo /\ seen' = seen /\ asof' = asof
  BY DEF Hit, modeVars, diskVars, cacheVars, workVars
<1>2. PICK d : d = entry[k]
  OBVIOUS
<1>3. d \in Details /\ d.timestamp <= d.project
  BY <1>2 DEF IInv, CacheInv, Sound
<1>4. PICK update : update = "UNCHANGED"
  OBVIOUS
<1>5. Serve(k, d, update)
  BY <1>1, <1>2, <1>4
<1>6. ~ Cleans(update) => /\ entry[k] # None /\ entry[k].timestamp = d.timestamp
                          /\ entry[k].project = d.project
                          /\ ~async => Current(k)
  BY <1>1, <1>2
<1>7. /\ ~async => d.project = disk[FileOf[k]] /\ asof <= d.project
      /\ entry'[k] = d
      /\ \A x \in Keys : x # k /\ entry'[x] # None => entry'[x] = entry[x]
  BY <1>1, <1>2
<1>8. /\ ConfigInv' /\ managed' \in SUBSET Keys
      /\ ahead' = FALSE /\ outdated' \in BOOLEAN /\ SyncFresh'
  BY <1>1, <1>3, <1>5, <1>6, <1>7, ServeOK
<1>9. LruInv' /\ TodoInv' /\ SeenInv'
  BY <1>1 DEF LruInv, TodoInv, SeenInv, Held
<1>10. ValueInv'
  BY <1>1, <1>8 DEF ValueInv
<1> QED
  BY <1>8, <1>9, <1>10

(* A project of the static cache that a request moves to _lru_cache has    *)
(* its capabilities removed; one that a management request moves does not. *)
LEMMA StaticCoherent ==
    ASSUME IInv, CoherenceInv, NEW k \in Keys, HitStatic(k) \/ ManagementStatic(k)
    PROVE  CoherenceInv'
<1> USE DEF CoherenceInv
<1>1. /\ op = "idle" /\ static[k] # None /\ Insert(k, static[k])
      /\ async' = async /\ scheme' = scheme /\ online' = online /\ disk' = disk
      /\ static' = static
      /\ op' = op /\ todo' = todo /\ seen' = seen /\ asof' = asof
  BY DEF HitStatic, ManagementStatic, modeVars, diskVars, workVars
<1>2. PICK d : d = static[k]
  OBVIOUS
<1>3. d \in Details /\ d.timestamp <= d.project /\ d # None /\ entry \in [Keys -> Details]
  BY <1>1, <1>2 DEF IInv, CacheInv, Sound
<1>4. Insert(k, d)
  BY <1>1, <1>2
<1>5. LruInv' /\ entry'[k] = d /\ \A x \in Keys : x # k /\ entry'[x] # None => entry'[x] = entry[x]
  BY <1>3, <1>4, InsertLru
<1>6. /\ ConfigInv' /\ managed' \in SUBSET Keys
      /\ ahead' = FALSE /\ outdated' \in BOOLEAN /\ SyncFresh'
  <2>1. CASE HitStatic(k)
    <3>1. PICK update : update = "UPDATED"
      OBVIOUS
    <3>2. Serve(k, d, update) /\ async
      BY <1>2, <2>1, <3>1 DEF HitStatic
    <3>3. Cleans(update)
      BY <3>1 DEF Cleans
    <3> QED
      BY <1>1, <1>3, <1>5, <3>2, <3>3, ServeOK
  <2>2. CASE ManagementStatic(k)
    <3>1. /\ config' = config /\ maker' = maker /\ Manages(k)
          /\ ahead' = ahead /\ outdated' = outdated
      BY <2>2 DEF ManagementStatic
    <3>2. outdated \in BOOLEAN /\ ahead = FALSE /\ managed \in SUBSET Keys /\ SyncFresh
      BY DEF ValueInv
    <3>3. ConfigInv' /\ managed' \in SUBSET Keys
      BY <1>1, <1>5, <3>1, <3>2, ManagesOK
    <3> QED
      BY <1>1, <3>1, <3>2, <3>3 DEF SyncFresh
  <2> QED
    BY <2>1, <2>2
<1>7. todo = <<>>
  BY <1>1 DEF IInv, StatInv
<1>8. TodoInv' /\ SeenInv'
  BY <1>1, <1>7 DEF TodoInv, SeenInv
<1>9. ValueInv'
  BY <1>1, <1>6 DEF ValueInv
<1> QED
  BY <1>5, <1>6, <1>8, <1>9

(* So does the start of a lookup.                                          *)
LEMMA LookupCoherent ==
    ASSUME IInv, CoherenceInv, NEW k \in Keys, Lookup(k) \/ ManagementLookup(k)
    PROVE  CoherenceInv'
<1> USE DEF CoherenceInv
<1>1. /\ op = "idle" /\ seen' = seen /\ op' \in {"request", "management"}
      /\ async' = async /\ scheme' = scheme /\ online' = online /\ disk' = disk
      /\ lru' = lru /\ entry' = entry /\ static' = static
      /\ config' = config /\ maker' = maker
      /\ outdated' = outdated /\ ahead' = ahead /\ managed' = managed
      /\ asof' \in {asof, disk[FileOf[k]]} /\ todo' = <<Item("lru", k)>>
  BY DEF Lookup, ManagementLookup, modeVars, diskVars, cacheVars, historyVars
<1>2. seen = 0
  BY <1>1 DEF IInv, StatInv
<1>3. LruInv' /\ ConfigInv'
  <2>1. LruInv'
    BY <1>1 DEF LruInv
  <2>2. ConfigInv'
    BY <1>1, ConfigSame DEF Current
  <2> QED
    BY <2>1, <2>2
<1>4. SeenInv'
  BY <1>1, <1>2 DEF SeenInv
<1>5. disk[FileOf[k]] \in Nat
  BY NamesAFile DEF IInv, FilesInv
<1>6. ValueInv' /\ ahead' = FALSE /\ SyncFresh'
  BY <1>1, <1>5 DEF ValueInv, SyncFresh
<1>7. PICK item : item = Item("lru", k)
  OBVIOUS
<1>8. item \in Items /\ item.cache = "lru" /\ todo' = <<item>>
  BY <1>1, <1>7 DEF Item, Items
<1>9. todo' \in Seq(Items) /\ todo' # <<>> /\ Head(todo') = item
  BY <1>8
<1>10. TodoInv'
  BY <1>1, <1>8, <1>9 DEF TodoInv
<1> QED
  BY <1>3, <1>4, <1>6, <1>10

(* Every step keeps the second invariant.                                  *)
LEMMA CoherenceStep == IInv /\ CoherenceInv /\ [Next]_vars => CoherenceInv'
<1> SUFFICES ASSUME IInv, CoherenceInv, [Next]_vars PROVE CoherenceInv'
  OBVIOUS
<1>1. ASSUME /\ async' = async /\ scheme' = scheme /\ online' \in BOOLEAN
             /\ lru' = lru /\ entry' = entry /\ static' = static
             /\ config' = config /\ maker' = maker /\ \A k \in Keys : Current(k)' => Current(k)
             /\ op' = op /\ todo' = todo /\ seen' = seen
             /\ asof' = asof /\ outdated' = outdated /\ ahead' = ahead /\ managed' = managed
      PROVE  CoherenceInv'
  <2> USE <1>1 DEF CoherenceInv
  <2>1. LruInv' /\ TodoInv'
    BY DEF LruInv, TodoInv
  <2>2. SeenInv' /\ ConfigInv'
    BY ConfigSame DEF SeenInv, Held
  <2>3. ValueInv' /\ ahead' = FALSE /\ SyncFresh'
    BY DEF ValueInv, SyncFresh
  <2> QED
    BY <2>1, <2>2, <2>3
<1>2. online \in BOOLEAN
  BY DEF CoherenceInv, ValueInv
<1>3. ASSUME NEW f \in Files, Edit(f) \/ Delete(f) PROVE CoherenceInv'
  <2>1. /\ async' = async /\ scheme' = scheme /\ online' = online
        /\ lru' = lru /\ entry' = entry /\ static' = static
        /\ config' = config /\ maker' = maker
        /\ op' = op /\ todo' = todo /\ seen' = seen
        /\ asof' = asof /\ outdated' = outdated /\ ahead' = ahead /\ managed' = managed
    BY <1>3 DEF Edit, Delete, modeVars, cacheVars, workVars, historyVars
  <2>2. clock \in Nat /\ \A x \in Files : disk'[x] \in {0, disk[x], clock + 1}
    BY <1>3 DEF Edit, Delete, IInv, FilesInv
  <2>3. \A k \in Keys : entry[k].timestamp \in Nat /\ entry[k].timestamp <= clock
    BY <2>2 DEF IInv, CacheInv, Sound, Details
  <2>4. \A k \in Keys : Current(k)' => Current(k)
    BY <2>1, <2>2, <2>3, NamesAFile DEF Current
  <2> QED
    BY <1>1, <1>2, <2>1, <2>4
<1>4. ASSUME StoreFails \/ StoreReturns PROVE CoherenceInv'
  BY <1>1, <1>4
  DEF StoreFails, StoreReturns, Current, modeVars, diskVars, cacheVars, workVars, historyVars
<1>5. ASSUME UNCHANGED vars PROVE CoherenceInv'
  BY <1>1, <1>2, <1>5
  DEF vars, Current, modeVars, diskVars, cacheVars, workVars, historyVars
<1>6. ASSUME NEW k \in Keys,
             Hit(k) \/ HitStatic(k) \/ Lookup(k) \/ ManagementStatic(k) \/ ManagementLookup(k)
      PROVE  CoherenceInv'
  BY <1>6, HitCoherent, StaticCoherent, LookupCoherent
<1>7. ASSUME Refresh PROVE CoherenceInv'
  <2> USE DEF CoherenceInv
  <2>1. PICK order \in StaticOrders : todo' = RefreshItems(order)
    BY <1>7 DEF Refresh
  <2>2. /\ op = "idle" /\ seen' = seen /\ op' = "refresh"
        /\ async' = async /\ scheme' = scheme /\ online' = online /\ disk' = disk
        /\ lru' = lru /\ entry' = entry /\ static' = static
        /\ config' = config /\ maker' = maker
        /\ asof' = asof /\ outdated' = outdated /\ ahead' = ahead /\ managed' = managed
    BY <1>7 DEF Refresh, modeVars, diskVars, cacheVars, historyVars
  <2>3. /\ todo' \in Seq(Items)
        /\ \A i \in DOMAIN todo' : todo'[i].cache = "lru" => entry[todo'[i].key] # None
    BY <2>1, RefreshItemsOK
  <2>4. TodoInv'
    BY <2>2, <2>3 DEF TodoInv
  <2>5. seen = 0
    BY <2>2 DEF IInv, StatInv
  <2>6. LruInv' /\ SeenInv'
    BY <2>2, <2>5 DEF LruInv, SeenInv
  <2>7. ConfigInv'
    BY <2>2, ConfigSame DEF Current
  <2>8. ValueInv' /\ ahead' = FALSE /\ SyncFresh'
    BY <2>2 DEF ValueInv, SyncFresh
  <2> QED
    BY <2>4, <2>6, <2>7, <2>8
<1>8. ASSUME RefreshEnd \/ Restart \/ RestartFails PROVE CoherenceInv'
  <2> USE DEF CoherenceInv
  <2>1. /\ op' \in {"idle", "aborted"} /\ todo' = todo /\ seen' = seen
        /\ async' = async /\ scheme' = scheme /\ online' = online /\ disk' = disk
        /\ lru' = lru /\ entry' = entry /\ config' = config /\ maker' = maker
        /\ asof' = asof /\ outdated' = outdated /\ ahead' = ahead /\ managed' = managed
    BY <1>8 DEF RefreshEnd, Restart, RestartFails, modeVars, diskVars, cacheVars, historyVars
  <2>2. todo = <<>>
    BY <1>8 DEF RefreshEnd, Restart, RestartFails, IInv, StatInv
  <2>3. LruInv' /\ SeenInv' /\ TodoInv'
    BY <2>1, <2>2 DEF LruInv, SeenInv, TodoInv
  <2>4. ConfigInv'
    BY <2>1, ConfigSame DEF Current
  <2>5. ValueInv' /\ ahead' = FALSE /\ SyncFresh'
    BY <2>1 DEF ValueInv, SyncFresh
  <2> QED
    BY <2>3, <2>4, <2>5
<1>9. ASSUME Stat \/ Read PROVE CoherenceInv'
  BY <1>9, StatCoherent, ReadCoherent
<1>10. ASSUME StatFails PROVE CoherenceInv'
  BY <1>10, RaiseCoherent DEF StatFails
<1> QED
  BY <1>3, <1>4, <1>5, <1>6, <1>7, <1>8, <1>9, <1>10 DEF Next

(* Both invariants hold always.                                            *)
LEMMA CoherenceAlways == Spec => [](IInv /\ CoherenceInv)
<1>1. Init => IInv /\ CoherenceInv
  BY IInvInit, CoherenceInit
<1>2. IInv /\ CoherenceInv /\ [Next]_vars => (IInv /\ CoherenceInv)'
  BY IInvStep, CoherenceStep
<1> QED
  BY <1>1, <1>2, PTL DEF Spec

(* Type correctness: in particular lrucache keeps its order and its        *)
(* entries in step and never holds more projects than its size, whatever   *)
(* the order of hits, insertions, evictions and refreshes.                 *)
THEOREM TypeCorrect == Spec => []TypeOK
<1>1. IInv /\ CoherenceInv => TypeOK
  BY DEF IInv, FilesInv, CacheInv, CoherenceInv, LruInv, TodoInv, ConfigInv, ValueInv, Items, TypeOK
<1> QED
  BY <1>1, CoherenceAlways, PTL

(* Between two calls, the capabilities that QGIS keeps for a file were     *)
(* made from the details of the key whose request made them, and with      *)
(* synchronous checks agree with those of every key of the file that are   *)
(* current: handle_qgis_request and refresh_cache remove them on every way *)
(* an entry changes.  Keys that a management request put in the cache      *)
(* beside older capabilities are left out.                                 *)
THEOREM ConfigCoherentCorrect == Spec => []ConfigCoherent
<1>1. CoherenceInv => ConfigCoherent
  BY DEF CoherenceInv, ConfigInv, ConfigCoherent
<1> QED
  BY <1>1, CoherenceAlways, PTL

(* With synchronous checks no answer, whether from the project or from the *)
(* capabilities that QGIS keeps, is older than the file that was there     *)
(* when the request came, through whichever name of the file.  Left out    *)
(* are capabilities that were kept when a management request put the key   *)
(* in the cache.                                                           *)
THEOREM SyncFreshCorrect == Spec => []SyncFresh
<1>1. CoherenceInv => SyncFresh
  BY DEF CoherenceInv
<1> QED
  BY <1>1, CoherenceAlways, PTL

(* No answer is older than the ETag and the Last-Modified it comes with:   *)
(* get_modified_time reads the timestamp that stat gave before the read.   *)
(* Left out are capabilities that were kept when a management request put  *)
(* the key in the cache and, with asynchronous checks, those made through  *)
(* another name of the file.                                               *)
THEOREM ValidatorNotAheadCorrect == Spec => []ValidatorNotAhead
<1>1. CoherenceInv => ValidatorNotAhead
  BY DEF CoherenceInv, ValidatorNotAhead
<1> QED
  BY <1>1, CoherenceAlways, PTL
=============================================================================
