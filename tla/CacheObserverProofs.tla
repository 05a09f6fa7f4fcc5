------------------------ MODULE CacheObserverProofs ------------------------
(***************************************************************************)
(* NewestAnnounced and CachedIsAnnounced hold for any number of workers    *)
(* and projects, any length of the sockets' queues and any precision of    *)
(* the clock.                                                              *)
(*                                                                         *)
(* The argument: the entry of a project is never later than the latest     *)
(* time received (Behind), so a report that is later than all the ones     *)
(* before it is also later than the entry, and is announced.               *)
(***************************************************************************)
EXTENDS CacheObserver, TLAPS

(* The entry is not later than the latest time received.                   *)
Behind ==
    \A k \in Keys : last[k] <= got[k] /\ (last[k] = 0 => got[k] = 0)

(* No file is from before the first second, and no report either: 0 is     *)
(* the absence of an entry.                                                *)
Dated ==
    /\ \A k \in Keys : PerSecond <= mtime[k]
    /\ \A w \in Workers : \A i \in DOMAIN wire[w] : wire[w][i].time # 0

IInv == TypeOK /\ Behind /\ Dated /\ NewestAnnounced /\ CachedIsAnnounced

-----------------------------------------------------------------------------
(* The second of a time of a file.                                         *)
LEMMA SecondOfFile ==
    ASSUME NEW t \in Nat, PerSecond <= t
    PROVE  Second(t) \in Nat \ {0}
BY ObserverAssumption, Z3 DEF Second

(* What is appended to a queue is on the way, and the rest stays there.    *)
LEMMA AppendKeeps ==
    ASSUME NEW S, NEW q \in Seq(S), NEW m \in S
    PROVE  /\ Append(q, m) \in Seq(S)
           /\ Len(Append(q, m)) = Len(q) + 1
           /\ \E i \in DOMAIN Append(q, m) : Append(q, m)[i] = m
           /\ \A i \in DOMAIN q : i \in DOMAIN Append(q, m) /\ Append(q, m)[i] = q[i]
           /\ \A i \in DOMAIN Append(q, m) :
                 Append(q, m)[i] = m \/ (i \in DOMAIN q /\ Append(q, m)[i] = q[i])
<1>1. Len(Append(q, m)) = Len(q) + 1 /\ Append(q, m)[Len(q) + 1] = m
  OBVIOUS
<1> QED
  BY <1>1

(* What leaves a queue is its head; the rest stays there.                  *)
LEMMA TailKeeps ==
    ASSUME NEW S, NEW q \in Seq(S), q # <<>>
    PROVE  /\ Tail(q) \in Seq(S)
           /\ Len(Tail(q)) <= Len(q)
           /\ Head(q) \in S
           /\ 1 \in DOMAIN q /\ Head(q) = q[1]
           /\ \A i \in DOMAIN Tail(q) : i + 1 \in DOMAIN q /\ Tail(q)[i] = q[i + 1]
           /\ \A i \in DOMAIN q : i = 1 \/ (i - 1 \in DOMAIN Tail(q) /\ Tail(q)[i - 1] = q[i])
OBVIOUS

-----------------------------------------------------------------------------
(* The initial states satisfy the invariant.                               *)
LEMMA InitInv == Init => IInv
<1> SUFFICES ASSUME Init PROVE IInv
  OBVIOUS
<1> USE ObserverAssumption DEF Init
<1>1. TypeOK
  <2>1. <<>> \in Seq(Reports) /\ Len(<<>>) <= Hwm
    OBVIOUS
  <2>2. wire \in [Workers -> Seq(Reports)] /\ \A w \in Workers : Len(wire[w]) <= Hwm
    BY <2>1
  <2> QED
    BY <2>2 DEF TypeOK
<1>2. Behind /\ NewestAnnounced
  BY DEF Behind, NewestAnnounced, Find
<1>3. Dated
  BY DEF Dated
<1>4. CachedIsAnnounced
  BY DEF CachedIsAnnounced
<1> QED
  BY <1>1, <1>2, <1>3, <1>4 DEF IInv

(* A project gets into a cache: the report is sent, or noted as missed.    *)
LEMMA LoadInv ==
    ASSUME IInv, NEW w \in Workers, NEW k \in Keys, Load(w, k)
    PROVE  IInv'
<1> USE DEF IInv
<1> DEFINE r == Report(k, mtime[k])
<1>1. r \in Reports /\ r.time # 0 /\ r = [key |-> k, time |-> Second(mtime[k])]
  BY SecondOfFile DEF TypeOK, Dated, Reports, Report
<1>2. \/ CanSend(w) /\ wire' = [wire EXCEPT ![w] = Append(wire[w], r)] /\ missed' = missed
      \/ ~CanSend(w) /\ wire' = wire /\ missed' = missed \cup {k}
  BY DEF Load, Send
<1>3. /\ held' = [held EXCEPT ![w] = [held[w] EXCEPT ![k] = mtime[k]]]
      /\ UNCHANGED <<mtime, linked, server, last, fired, got>>
  BY DEF Load, serverVars
<1>4. wire[w] \in Seq(Reports) /\ Hwm \in Nat
  BY ObserverAssumption DEF TypeOK
<1> HIDE DEF r
<1> DEFINE q == Append(wire[w], r)
<1>10. /\ q \in Seq(Reports) /\ Len(q) = Len(wire[w]) + 1
       /\ \E i \in DOMAIN q : q[i] = r
       /\ \A i \in DOMAIN wire[w] : i \in DOMAIN q /\ q[i] = wire[w][i]
       /\ \A i \in DOMAIN q : q[i] = r \/ (i \in DOMAIN wire[w] /\ q[i] = wire[w][i])
  BY <1>1, <1>4, AppendKeeps
<1>11. \A x \in Workers : wire'[x] = wire[x] \/ (x = w /\ CanSend(w) /\ wire'[x] = q)
  BY <1>2 DEF TypeOK
<1>12. wire' = [x \in Workers |-> wire'[x]]
  BY <1>2 DEF TypeOK
<1> HIDE DEF q
<1>5. TypeOK'
  <2>1. wire' \in [Workers -> Seq(Reports)] /\ \A x \in Workers : Len(wire'[x]) <= Hwm
    <3>1. CanSend(w) => Len(q) <= Hwm
      <4>1. Len(wire[w]) \in Nat
        BY <1>4
      <4> QED
        BY <1>4, <1>10, <4>1 DEF CanSend
    <3>2. \A x \in Workers : wire'[x] \in Seq(Reports) /\ Len(wire'[x]) <= Hwm
      BY <1>10, <1>11, <3>1 DEF TypeOK
    <3> QED
      BY <1>12, <3>2
  <2>2. held' \in [Workers -> [Keys -> Nat]] /\ missed' \subseteq Keys
    BY <1>2, <1>3 DEF TypeOK
  <2> QED
    BY <1>3, <2>1, <2>2 DEF TypeOK
<1>6. Behind' /\ NewestAnnounced'
  BY <1>3 DEF Behind, NewestAnnounced, Find
<1>7. Dated'
  BY <1>1, <1>3, <1>10, <1>11 DEF Dated
<1>8. CachedIsAnnounced'
  <2> SUFFICES ASSUME NEW x \in Workers, NEW y \in Keys, held'[x][y] # 0, y \notin missed'
               PROVE  \/ OnTheWay(wire'[x], y, Second(held'[x][y]))
                      \/ Announced(fired'[y], Second(held'[x][y]))
    BY DEF CachedIsAnnounced
  <2>1. CASE x = w /\ y = k
    <3>1. CanSend(w) /\ wire'[x] = q /\ held'[x][y] = mtime[k]
      BY <1>2, <1>3, <2>1 DEF TypeOK, q
    <3> QED
      BY <1>1, <1>10, <2>1, <3>1 DEF OnTheWay
  <2>2. CASE ~ (x = w /\ y = k)
    <3>1. held'[x][y] = held[x][y] /\ y \notin missed
      BY <1>2, <1>3, <2>2 DEF TypeOK
    <3>2. OnTheWay(wire[x], y, Second(held[x][y])) \/ Announced(fired[y], Second(held[x][y]))
      BY <3>1 DEF CachedIsAnnounced
    <3>3. \A i \in DOMAIN wire[x] : i \in DOMAIN wire'[x] /\ wire'[x][i] = wire[x][i]
      BY <1>10, <1>11
    <3> QED
      BY <1>3, <3>1, <3>2, <3>3 DEF OnTheWay
  <2> QED
    BY <2>1, <2>2
<1> QED
  BY <1>5, <1>6, <1>7, <1>8

(* A report is read: the entry takes its time, and so does the latest if   *)
(* it is later; in that case it is announced.                              *)
LEMMA RecvInv ==
    ASSUME IInv, NEW w \in Workers, Recv(w)
    PROVE  IInv'
<1> USE DEF IInv
<1> DEFINE q == wire[w]
           k == Head(q).key
           s == Head(q).time
<1>1. q \in Seq(Reports) /\ q # <<>>
  BY DEF TypeOK, Recv
<1>2. k \in Keys /\ s \in Nat /\ s # 0 /\ q[1] = [key |-> k, time |-> s]
  <2>1. Head(q) \in Reports /\ 1 \in DOMAIN q /\ Head(q) = q[1]
    BY <1>1, TailKeeps
  <2>2. q[1].time # 0
    BY <2>1 DEF Dated
  <2> QED
    BY <2>1, <2>2 DEF Reports
<1>3. /\ wire' = [wire EXCEPT ![w] = Tail(q)]
      /\ last' = [last EXCEPT ![k] = s]
      /\ fired' = IF DoNotify(k, s) THEN [fired EXCEPT ![k] = fired[k] \cup {s}] ELSE fired
      /\ got' = [got EXCEPT ![k] = IF got[k] < s THEN s ELSE got[k]]
      /\ UNCHANGED <<mtime, held, linked, server, missed>>
  BY DEF Recv
<1>4. Tail(q) \in Seq(Reports) /\ Len(Tail(q)) <= Hwm
  BY <1>1, TailKeeps, ObserverAssumption DEF TypeOK
<1>5. \A i \in DOMAIN Tail(q) : i + 1 \in DOMAIN q /\ Tail(q)[i] = q[i + 1]
  BY <1>1, TailKeeps
<1>6. \A i \in DOMAIN q : i = 1 \/ (i - 1 \in DOMAIN Tail(q) /\ Tail(q)[i - 1] = q[i])
  BY <1>1, TailKeeps
<1> HIDE DEF k, s
<1>7. TypeOK'
  <2>1. wire' \in [Workers -> Seq(Reports)] /\ \A x \in Workers : Len(wire'[x]) <= Hwm
    BY <1>3, <1>4 DEF TypeOK
  <2>2. last' \in [Keys -> Nat] /\ got' \in [Keys -> Nat] /\ fired' \in [Keys -> SUBSET Nat]
    BY <1>2, <1>3 DEF TypeOK
  <2> QED
    BY <1>3, <2>1, <2>2 DEF TypeOK
<1>8. Behind'
  BY <1>2, <1>3 DEF Behind, TypeOK
<1>9. Dated'
  <2>1. \A x \in Workers : x # w => wire'[x] = wire[x]
    BY <1>3 DEF TypeOK
  <2>2. wire'[w] = Tail(q)
    BY <1>3 DEF TypeOK
  <2>3. \A i \in DOMAIN Tail(q) : Tail(q)[i].time # 0
    BY <1>5 DEF Dated
  <2> QED
    BY <1>3, <2>1, <2>2, <2>3 DEF Dated
<1>10. NewestAnnounced'
  <2> SUFFICES ASSUME NEW y \in Keys
               PROVE  /\ last'[y] # 0 <=> fired'[y] # {}
                      /\ last'[y] # 0 => got'[y] \in fired'[y]
                      /\ \A n \in fired'[y] : n <= got'[y]
    BY DEF NewestAnnounced, Find
  <2>1. /\ last[y] # 0 <=> fired[y] # {}
        /\ last[y] # 0 => got[y] \in fired[y]
        /\ \A n \in fired[y] : n <= got[y]
        /\ last[y] <= got[y] /\ (last[y] = 0 => got[y] = 0)
        /\ last[y] \in Nat /\ got[y] \in Nat /\ fired[y] \subseteq Nat
    BY DEF NewestAnnounced, Find, Behind, TypeOK
  <2>2. CASE y # k
    BY <1>3, <2>1, <2>2 DEF TypeOK
  <2>3. CASE y = k /\ DoNotify(k, s)
    <3>1. /\ last'[y] = s /\ fired'[y] = fired[y] \cup {s}
          /\ got'[y] = IF got[y] < s THEN s ELSE got[y]
      BY <1>2, <1>3, <2>3 DEF TypeOK
    <3>2. got'[y] \in fired'[y]
      BY <1>2, <2>1, <3>1
    <3>3. \A n \in fired'[y] : n <= got'[y]
      BY <1>2, <2>1, <3>1
    <3> QED
      BY <1>2, <3>1, <3>2, <3>3
  <2>4. CASE y = k /\ ~DoNotify(k, s)
    <3>1. last'[y] = s /\ fired'[y] = fired[y]
          /\ got'[y] = IF got[y] < s THEN s ELSE got[y]
      BY <1>2, <1>3, <2>4 DEF TypeOK
    <3>2. last[y] # 0 /\ s <= last[y]
      BY <1>2, <2>1, <2>4 DEF DoNotify
    <3> QED
      BY <1>2, <2>1, <3>1, <3>2
  <2> QED
    BY <2>2, <2>3, <2>4
<1>11. CachedIsAnnounced'
  <2> SUFFICES ASSUME NEW x \in Workers, NEW y \in Keys, held[x][y] # 0, y \notin missed,
                      NEW t, t = Second(held[x][y])
               PROVE  OnTheWay(wire'[x], y, t) \/ Announced(fired'[y], t)
    BY <1>3 DEF CachedIsAnnounced
  <2>1. OnTheWay(wire[x], y, t) \/ Announced(fired[y], t)
    BY DEF CachedIsAnnounced
  <2>3. fired[y] \subseteq fired'[y]
    BY <1>2, <1>3 DEF TypeOK
  <2>4. CASE Announced(fired[y], t)
    BY <2>3, <2>4 DEF Announced
  <2>5. CASE OnTheWay(wire[x], y, t)
    <3>1. PICK i \in DOMAIN wire[x] : wire[x][i] = [key |-> y, time |-> t]
      BY <2>5 DEF OnTheWay
    <3>2. CASE x = w /\ i = 1
      <4>1. y = k /\ t = s
        BY <1>2, <3>1, <3>2
      <4>2. last'[k] # 0 /\ s <= got'[k]
        BY <1>2, <1>3 DEF TypeOK
      <4>3. got'[k] \in fired'[k]
        BY <1>2, <1>10, <4>2 DEF NewestAnnounced, Find
      <4> QED
        BY <4>1, <4>2, <4>3 DEF Announced
    <3>3. CASE x = w /\ i # 1
      <4>1. wire'[x] = Tail(q)
        BY <1>3, <3>3 DEF TypeOK
      <4>2. i - 1 \in DOMAIN Tail(q) /\ Tail(q)[i - 1] = wire[x][i]
        BY <1>6, <3>1, <3>3
      <4> HIDE DEF q
      <4> QED
        BY <3>1, <4>1, <4>2 DEF OnTheWay
    <3>4. CASE x # w
      <4>1. wire'[x] = wire[x]
        BY <1>3, <3>4 DEF TypeOK
      <4> QED
        BY <3>1, <4>1 DEF OnTheWay
    <3> QED
      BY <3>2, <3>3, <3>4
  <2> QED
    BY <2>1, <2>4, <2>5
<1> QED
  BY <1>7, <1>8, <1>9, <1>10, <1>11

(* A worker that is replaced has an empty cache.                           *)
LEMMA ReplaceInv ==
    ASSUME IInv, NEW w \in Workers, Replace(w)
    PROVE  IInv'
<1> USE DEF IInv
<1>1. /\ held' = [held EXCEPT ![w] = [k \in Keys |-> 0]]
      /\ linked' = linked \ {w}
      /\ wire' = wire \/ wire' = [wire EXCEPT ![w] = <<>>]
      /\ UNCHANGED <<mtime, server, last, fired, got, missed>>
  BY DEF Replace, serverVars
<1>2. \A x \in Workers : x # w => wire'[x] = wire[x] /\ held'[x] = held[x]
  BY <1>1 DEF TypeOK
<1>3. TypeOK'
  <2>1. <<>> \in Seq(Reports) /\ Len(<<>>) <= Hwm
    BY ObserverAssumption
  <2>2. wire' \in [Workers -> Seq(Reports)] /\ \A x \in Workers : Len(wire'[x]) <= Hwm
    BY <1>1, <2>1 DEF TypeOK
  <2>3. held' \in [Workers -> [Keys -> Nat]]
    BY <1>1 DEF TypeOK
  <2> QED
    BY <1>1, <2>2, <2>3 DEF TypeOK
<1>4. Behind' /\ NewestAnnounced'
  BY <1>1 DEF Behind, NewestAnnounced, Find
<1>5. Dated'
  <2>1. wire'[w] = wire[w] \/ wire'[w] = <<>>
    BY <1>1 DEF TypeOK
  <2> QED
    BY <1>1, <1>2, <2>1 DEF Dated
<1>6. CachedIsAnnounced'
  <2>1. \A k \in Keys : held'[w][k] = 0
    BY <1>1 DEF TypeOK
  <2> QED
    BY <1>1, <1>2, <2>1 DEF CachedIsAnnounced, OnTheWay, Announced
<1> QED
  BY <1>3, <1>4, <1>5, <1>6

(* Every step keeps it.                                                    *)
LEMMA NextInv == IInv /\ [Next]_vars => IInv'
<1> SUFFICES ASSUME IInv, [Next]_vars PROVE IInv'
  OBVIOUS
<1>1. ASSUME NEW k \in Keys, Edit(k) PROVE IInv'
  <2>1. /\ mtime' = [mtime EXCEPT ![k] = mtime[k] + 1]
        /\ UNCHANGED <<held, linked, wire, server, last, fired, got, missed>>
    BY <1>1 DEF Edit, workerVars, serverVars
  <2>2. TypeOK'
    BY <2>1 DEF IInv, TypeOK
  <2>3. \A y \in Keys : PerSecond <= mtime'[y]
    BY <2>1, ObserverAssumption DEF IInv, TypeOK, Dated
  <2>4. Behind' /\ Dated' /\ NewestAnnounced' /\ CachedIsAnnounced'
    BY <2>1, <2>3 DEF IInv, Behind, Dated, NewestAnnounced, Find, CachedIsAnnounced
  <2> QED
    BY <2>2, <2>4 DEF IInv
<1>2. ASSUME NEW w \in Workers, NEW k \in Keys, Load(w, k) PROVE IInv'
  BY <1>2, LoadInv
<1>3. ASSUME NEW w \in Workers, NEW k \in Keys, Evict(w, k) PROVE IInv'
  <2>1. /\ held' = [held EXCEPT ![w] = [held[w] EXCEPT ![k] = 0]]
        /\ UNCHANGED <<mtime, linked, wire, server, last, fired, got, missed>>
    BY <1>3 DEF Evict, serverVars
  <2>2. \A x \in Workers, y \in Keys : held'[x][y] = 0 \/ held'[x][y] = held[x][y]
    BY <2>1 DEF IInv, TypeOK
  <2>3. TypeOK'
    BY <2>1 DEF IInv, TypeOK
  <2>4. Behind' /\ Dated' /\ NewestAnnounced'
    BY <2>1 DEF IInv, Behind, Dated, NewestAnnounced, Find
  <2>5. CachedIsAnnounced'
    BY <2>1, <2>2 DEF IInv, CachedIsAnnounced, OnTheWay, Announced
  <2> QED
    BY <2>3, <2>4, <2>5 DEF IInv
<1>4. ASSUME NEW w \in Workers, Connect(w) PROVE IInv'
  BY <1>4 DEF Connect, IInv, TypeOK, Behind, Dated, NewestAnnounced, Find, CachedIsAnnounced,
              OnTheWay, Announced, serverVars
<1>5. ASSUME NEW w \in Workers, Replace(w) PROVE IInv'
  BY <1>5, ReplaceInv
<1>6. ASSUME NEW w \in Workers, Recv(w) PROVE IInv'
  BY <1>6, RecvInv
<1>7. ASSUME Start \/ Stop PROVE IInv'
  BY <1>7 DEF Start, Stop, IInv, TypeOK, Behind, Dated, NewestAnnounced, Find,
              CachedIsAnnounced, OnTheWay, Announced, workerVars
<1>8. ASSUME UNCHANGED vars PROVE IInv'
  BY <1>8 DEF vars, IInv, TypeOK, Behind, Dated, NewestAnnounced, Find,
              CachedIsAnnounced, OnTheWay, Announced, workerVars, serverVars
<1> QED
  BY <1>1, <1>2, <1>3, <1>4, <1>5, <1>6, <1>7, <1>8 DEF Next

(* Every reachable state satisfies the inductive invariant.                *)
THEOREM Invariance == SafetySpec => []IInv
BY InitInv, NextInv, PTL DEF SafetySpec

(* Type correctness of the observer and its clients.                       *)
THEOREM TypeCorrect == SafetySpec => []TypeOK
<1>1. IInv => TypeOK
  BY DEF IInv
<1> QED
  BY <1>1, Invariance, PTL

(* Observers are notified of the latest time received of every project,    *)
(* in whatever order the workers' reports come.                            *)
THEOREM NewestAnnouncedCorrect == SafetySpec => []NewestAnnounced
<1>1. IInv => NewestAnnounced
  BY DEF IInv
<1> QED
  BY <1>1, Invariance, PTL

(* What any worker has cached was announced or is on the way, unless a     *)
(* report of the project was dropped.                                      *)
THEOREM CachedIsAnnouncedCorrect == SafetySpec => []CachedIsAnnounced
<1>1. IInv => CachedIsAnnounced
  BY DEF IInv
<1> QED
  BY <1>1, Invariance, PTL
=============================================================================
