--------------------------- MODULE InjectDllProofs ---------------------------
(***************************************************************************)
(* Theorems about InjectDll, for any set of processes and any number of    *)
(* attempts.                                                               *)
(***************************************************************************)
EXTENDS InjectDll, FiniteSetTheorems, TLAPS

Holding == step \notin {"idle", "open"}

\* The handles to p that calls left open.
LeakedHandles(p) == Cardinality({i \in leaked : pid[i] = p})

HandleCount ==
  \A p \in Pids : handles[p] = LeakedHandles(p) + IF Holding /\ pid[n] = p THEN 1 ELSE 0

\* A call that has returned through its clean-up has no memory left.
MemoryReleased == \A i \in Injects : result[i] # "none" /\ i \notin leaked => memory[i] = "none"

\* The calls to come have left no trace yet.
CallsAhead ==
  \A i \in Injects :
    i > n => thread[i] = "none" /\ memory[i] = "none" /\ result[i] = "none" /\ i \notin leaked

CurrentCall ==
  /\ step # "idle" =>
       n \in Injects /\ pid[n] \in Pids /\ result[n] = "none" /\ n \notin leaked
  /\ step \in {"open", "alloc", "write", "resolve", "launch"} => thread[n] = "none"
  /\ step \in {"open", "alloc"} => memory[n] = "none"
  /\ step \in {"resolve", "launch"} /\ pid[n] \in Running => memory[n] = "path"
  /\ step = "release" /\ ended => thread[n] = "ended"

\* A thread that runs has a process; one that has not read its path finds it, or its call
\* has given up.
Threads ==
  \A i \in Injects :
    /\ thread[i] \in {"started", "loading"} => pid[i] \in Running
    /\ thread[i] = "started" => memory[i] = "path" \/ (memory[i] = "none" /\ result[i] = "err")
    /\ thread[i] # "none" => i \notin leaked

IInv ==
  /\ TypeOK /\ HandleCount /\ MemoryReleased /\ CallsAhead
  /\ CurrentCall /\ Threads /\ PathReadWhole

-----------------------------------------------------------------------------
LEMMA LeakedFinite ==
  ASSUME NEW S \in SUBSET Injects
  PROVE  IsFiniteSet(S) /\ Cardinality(S) \in Nat
<1>1. MaxInjects \in Nat
  BY InjectAssumption
<1>2. IsFiniteSet(1..MaxInjects)
  BY <1>1, FS_Interval
<1>3. IsFiniteSet(S)
  BY <1>2, FS_Subset DEF Injects
<1> QED
  BY <1>3, FS_CardinalityType

\* As long as no call leaks and none is found a process, the leaked handles are the same.
LEMMA SameLeaked ==
  ASSUME UNCHANGED <<leaked, pid>>
  PROVE  \A p \in Pids : LeakedHandles(p)' = LeakedHandles(p)
BY DEF LeakedHandles

LEMMA LeakedNat ==
  ASSUME TypeOK
  PROVE  \A p \in Pids : LeakedHandles(p) \in Nat
<1> SUFFICES ASSUME NEW p \in Pids PROVE LeakedHandles(p) \in Nat
  OBVIOUS
<1>1. {i \in leaked : pid[i] = p} \in SUBSET Injects
  BY DEF TypeOK
<1> QED
  BY <1>1, LeakedFinite DEF LeakedHandles

LEMMA InitIInv == Init => IInv
<1> SUFFICES ASSUME Init PROVE IInv
  OBVIOUS
<1>1. \A p \in Pids : LeakedHandles(p) = 0
  <2> SUFFICES ASSUME NEW p \in Pids PROVE LeakedHandles(p) = 0
    OBVIOUS
  <2>1. {i \in leaked : pid[i] = p} = {}
    BY DEF Init
  <2> QED
    BY <2>1, FS_EmptySet DEF LeakedHandles
<1>2. TypeOK
  <2>1. n \in 0..MaxInjects /\ handles \in [Pids -> Nat] /\ pid \in [Injects -> Pids \cup {0}]
    BY InjectAssumption DEF Init
  <2>2. leaked \subseteq Injects /\ loaded \subseteq Running
    BY DEF Init
  <2>3. /\ memory \in [Injects -> {"none", "empty", "part", "path"}]
        /\ thread \in [Injects -> {"none", "started", "loading", "ended"}]
        /\ result \in [Injects -> {"none", "ok", "err"}]
        /\ got \in [Injects -> {"nothing", "path", "part", "stale"}]
    BY DEF Init
  <2> QED
    BY <2>1, <2>2, <2>3 DEF Init, TypeOK
<1>3. HandleCount
  BY <1>1 DEF Init, HandleCount, Holding
<1>4. MemoryReleased /\ CallsAhead /\ CurrentCall /\ Threads /\ PathReadWhole
  BY DEF Init, MemoryReleased, CallsAhead, CurrentCall, Threads, PathReadWhole
<1> QED
  BY <1>2, <1>3, <1>4 DEF IInv

-----------------------------------------------------------------------------
LEMMA FindGameKeeps == IInv /\ FindGame => IInv'
<1> SUFFICES ASSUME IInv, FindGame PROVE IInv'
  OBVIOUS
<1> USE InjectAssumption DEF IInv
<1>1. n + 1 \in Injects /\ n + 1 \notin leaked /\ n' = n + 1
  BY DEF FindGame, TypeOK, Injects, CallsAhead
<1>2. TypeOK'
  BY <1>1 DEF FindGame, TypeOK, Running, world
<1>3. \A p \in Pids : LeakedHandles(p)' = LeakedHandles(p)
  <2> SUFFICES ASSUME NEW p \in Pids PROVE LeakedHandles(p)' = LeakedHandles(p)
    OBVIOUS
  <2>1. {i \in leaked' : pid'[i] = p} = {i \in leaked : pid[i] = p}
    BY <1>1 DEF FindGame, TypeOK
  <2> QED
    BY <2>1 DEF LeakedHandles
<1>4. HandleCount'
  BY <1>3 DEF FindGame, HandleCount, Holding
<1>5. MemoryReleased' /\ PathReadWhole'
  BY DEF FindGame, MemoryReleased, PathReadWhole, world
<1>6. CallsAhead'
  BY <1>1 DEF FindGame, CallsAhead, TypeOK, Injects, world
<1>7. CurrentCall'
  BY <1>1 DEF FindGame, CurrentCall, CallsAhead, TypeOK, Injects, world
<1>8. Threads'
  BY <1>1 DEF FindGame, Threads, CallsAhead, TypeOK, Injects, world, Running
<1> QED
  BY <1>2, <1>4, <1>5, <1>6, <1>7, <1>8

LEMMA OpenKeeps == IInv /\ Open => IInv'
<1> SUFFICES ASSUME IInv, Open PROVE IInv'
  OBVIOUS
<1> USE InjectAssumption DEF IInv, Open, world, Return
<1>1. \A q \in Pids : LeakedHandles(q)' = LeakedHandles(q) /\ LeakedHandles(q) \in Nat
  BY SameLeaked, LeakedNat
<1>2. n \in Injects /\ pid[n] \in Pids /\ result[n] = "none" /\ n \notin leaked
  BY DEF CurrentCall
<1>3. TypeOK'
  BY <1>1, <1>2 DEF TypeOK, Running, HandleCount, Holding
<1>4. HandleCount'
  BY <1>1, <1>2 DEF HandleCount, Holding, TypeOK
<1>5. MemoryReleased'
  BY <1>2 DEF MemoryReleased, CurrentCall, TypeOK
<1>6. CallsAhead'
  BY <1>2 DEF CallsAhead, CurrentCall, TypeOK, Injects
<1>7. CurrentCall'
  BY <1>2 DEF CurrentCall, HandleCount, Holding, TypeOK, Running
<1>8. Threads'
  BY <1>2 DEF Threads, CurrentCall, TypeOK, Running
<1>9. PathReadWhole'
  BY <1>2 DEF PathReadWhole, Threads, CurrentCall, TypeOK
<1> QED
  BY <1>3, <1>4, <1>5, <1>6, <1>7, <1>8, <1>9

LEMMA AllocKeeps == IInv /\ Alloc => IInv'
<1> SUFFICES ASSUME IInv, Alloc PROVE IInv'
  OBVIOUS
<1> USE InjectAssumption DEF IInv, Alloc, world, Return, Close
<1>1. \A q \in Pids : LeakedHandles(q)' = LeakedHandles(q) /\ LeakedHandles(q) \in Nat
  BY SameLeaked, LeakedNat
<1>2. n \in Injects /\ pid[n] \in Pids /\ result[n] = "none" /\ n \notin leaked
  BY DEF CurrentCall
<1>3. TypeOK'
  BY <1>1, <1>2 DEF TypeOK, Running, HandleCount, Holding
<1>4. HandleCount'
  BY <1>1, <1>2 DEF HandleCount, Holding, TypeOK
<1>5. MemoryReleased'
  BY <1>2 DEF MemoryReleased, CurrentCall, TypeOK
<1>6. CallsAhead'
  BY <1>2 DEF CallsAhead, CurrentCall, TypeOK, Injects
<1>7. CurrentCall'
  BY <1>2 DEF CurrentCall, HandleCount, Holding, TypeOK, Running
<1>8. Threads'
  BY <1>2 DEF Threads, CurrentCall, TypeOK, Running
<1>9. PathReadWhole'
  BY <1>2 DEF PathReadWhole, Threads, CurrentCall, TypeOK
<1> QED
  BY <1>3, <1>4, <1>5, <1>6, <1>7, <1>8, <1>9

LEMMA WriteKeeps == IInv /\ Write => IInv'
<1> SUFFICES ASSUME IInv, Write PROVE IInv'
  OBVIOUS
<1> USE InjectAssumption DEF IInv, Write, world, Written, GiveUp, Return, Close
<1>1. \A q \in Pids : LeakedHandles(q)' = LeakedHandles(q) /\ LeakedHandles(q) \in Nat
  BY SameLeaked, LeakedNat
<1>2. n \in Injects /\ pid[n] \in Pids /\ result[n] = "none" /\ n \notin leaked
  BY DEF CurrentCall
<1>3. TypeOK'
  BY <1>1, <1>2 DEF TypeOK, Running, HandleCount, Holding
<1>4. HandleCount'
  BY <1>1, <1>2 DEF HandleCount, Holding, TypeOK
<1>5. MemoryReleased'
  BY <1>2 DEF MemoryReleased, CurrentCall, TypeOK
<1>6. CallsAhead'
  BY <1>2 DEF CallsAhead, CurrentCall, TypeOK, Injects
<1>7. CurrentCall'
  BY <1>2 DEF CurrentCall, HandleCount, Holding, TypeOK, Running
<1>8. Threads'
  BY <1>2 DEF Threads, CurrentCall, TypeOK, Running
<1>9. PathReadWhole'
  BY <1>2 DEF PathReadWhole, Threads, CurrentCall, TypeOK
<1> QED
  BY <1>3, <1>4, <1>5, <1>6, <1>7, <1>8, <1>9

LEMMA PropagateKeeps ==
  ASSUME IInv, step \in {"resolve", "launch"}, Propagate,
         UNCHANGED <<world, handles, n, pid, memory, ended>>
  PROVE  IInv'
<1> USE InjectAssumption DEF IInv, Propagate, Return, world
<1>1. n \in Injects /\ pid[n] \in Pids /\ n \notin leaked /\ result[n] = "none"
  BY DEF CurrentCall
<1>2. TypeOK'
  BY <1>1 DEF TypeOK, Running
<1>3. \A p \in Pids : LeakedHandles(p)' = LeakedHandles(p) + IF pid[n] = p THEN 1 ELSE 0
  <2> SUFFICES ASSUME NEW p \in Pids
               PROVE  LeakedHandles(p)' = LeakedHandles(p) + IF pid[n] = p THEN 1 ELSE 0
    OBVIOUS
  <2> DEFINE L == {i \in leaked : pid[i] = p}
             M == {i \in leaked' : pid'[i] = p}
  <2>1. L \in SUBSET Injects /\ n \notin L
    BY <1>1 DEF TypeOK
  <2>2. IsFiniteSet(L) /\ Cardinality(L) \in Nat
    BY <2>1, LeakedFinite
  <2>3. CASE pid[n] = p
    <3>1. M = L \cup {n}
      BY <1>1, <2>3
    <3>2. Cardinality(M) = Cardinality(L) + 1
      BY <2>1, <2>2, <3>1, FS_AddElement
    <3> QED
      BY <2>3, <3>2 DEF LeakedHandles
  <2>4. CASE pid[n] # p
    <3>1. M = L
      BY <1>1, <2>4
    <3> QED
      BY <2>2, <2>4, <3>1 DEF LeakedHandles
  <2> QED
    BY <2>3, <2>4
<1>4. \A p \in Pids : LeakedHandles(p) \in Nat
  BY LeakedNat
<1>5. HandleCount'
  BY <1>1, <1>3, <1>4 DEF HandleCount, Holding
<1>6. MemoryReleased' /\ PathReadWhole'
  BY <1>1 DEF MemoryReleased, PathReadWhole, CurrentCall, Threads, TypeOK
<1>7. CallsAhead' /\ CurrentCall'
  BY <1>1 DEF CallsAhead, CurrentCall, TypeOK, Injects
<1>8. Threads'
  BY <1>1 DEF Threads, CurrentCall, TypeOK, Running
<1> QED
  BY <1>2, <1>5, <1>6, <1>7, <1>8

LEMMA ResolveKeeps == IInv /\ Resolve => IInv'
<1> SUFFICES ASSUME IInv, Resolve PROVE IInv'
  OBVIOUS
<1>1. CASE Propagate /\ UNCHANGED thread
  BY <1>1, PropagateKeeps DEF Resolve, world
<1>2. CASE step' = "launch" /\ UNCHANGED <<result, leaked>>
  <2> USE <1>2, InjectAssumption DEF IInv, Resolve, world
  <2>1. n \in Injects /\ pid[n] \in Pids /\ result[n] = "none" /\ n \notin leaked
    BY DEF CurrentCall
  <2>2. \A p \in Pids : LeakedHandles(p)' = LeakedHandles(p)
    BY SameLeaked
  <2>3. TypeOK'
    BY <2>1 DEF TypeOK, Running
  <2>4. HandleCount' /\ MemoryReleased' /\ PathReadWhole'
    BY <2>1, <2>2 DEF HandleCount, Holding, MemoryReleased, PathReadWhole, TypeOK, Threads,
       CurrentCall
  <2>5. CallsAhead' /\ CurrentCall'
    BY <2>1 DEF CallsAhead, CurrentCall, TypeOK, Injects, Running
  <2>6. Threads'
    BY <2>1 DEF Threads, CurrentCall, TypeOK, Running
  <2> QED
    BY <2>3, <2>4, <2>5, <2>6
<1> QED
  BY <1>1, <1>2 DEF Resolve, world

LEMMA LaunchKeeps == IInv /\ Launch => IInv'
<1> SUFFICES ASSUME IInv, Launch PROVE IInv'
  OBVIOUS
<1>1. CASE Propagate /\ UNCHANGED thread
  BY <1>1, PropagateKeeps DEF Launch, world
<1>2. CASE /\ pid[n] \in Running
           /\ thread' = [thread EXCEPT ![n] = "started"]
           /\ step' = "wait" /\ UNCHANGED <<result, leaked>>
  <2> USE <1>2, InjectAssumption DEF IInv, Launch, world
  <2>1. n \in Injects /\ pid[n] \in Pids /\ result[n] = "none" /\ n \notin leaked
    BY DEF CurrentCall
  <2>2. \A p \in Pids : LeakedHandles(p)' = LeakedHandles(p)
    BY SameLeaked
  <2>3. TypeOK'
    BY <2>1 DEF TypeOK, Running
  <2>4. HandleCount' /\ MemoryReleased' /\ PathReadWhole'
    BY <2>1, <2>2 DEF HandleCount, Holding, MemoryReleased, PathReadWhole, TypeOK, Threads,
       CurrentCall
  <2>5. CallsAhead' /\ CurrentCall'
    BY <2>1 DEF CallsAhead, CurrentCall, TypeOK, Injects, Running
  <2>6. Threads'
    BY <2>1 DEF Threads, CurrentCall, TypeOK, Running
  <2> QED
    BY <2>3, <2>4, <2>5, <2>6
<1> QED
  BY <1>1, <1>2 DEF Launch, world

LEMMA WaitKeeps == IInv /\ Wait => IInv'
<1> SUFFICES ASSUME IInv, Wait PROVE IInv'
  OBVIOUS
<1> USE InjectAssumption DEF IInv, Wait, world
<1>1. \A q \in Pids : LeakedHandles(q)' = LeakedHandles(q) /\ LeakedHandles(q) \in Nat
  BY SameLeaked, LeakedNat
<1>2. n \in Injects /\ pid[n] \in Pids /\ result[n] = "none" /\ n \notin leaked
  BY DEF CurrentCall
<1>3. TypeOK'
  BY <1>1, <1>2 DEF TypeOK, Running, HandleCount, Holding
<1>4. HandleCount'
  BY <1>1, <1>2 DEF HandleCount, Holding, TypeOK
<1>5. MemoryReleased'
  BY <1>2 DEF MemoryReleased, CurrentCall, TypeOK
<1>6. CallsAhead'
  BY <1>2 DEF CallsAhead, CurrentCall, TypeOK, Injects
<1>7. CurrentCall'
  BY <1>2 DEF CurrentCall, HandleCount, Holding, TypeOK, Running
<1>8. Threads'
  BY <1>2 DEF Threads, CurrentCall, TypeOK, Running
<1>9. PathReadWhole'
  BY <1>2 DEF PathReadWhole, Threads, CurrentCall, TypeOK
<1> QED
  BY <1>3, <1>4, <1>5, <1>6, <1>7, <1>8, <1>9

LEMMA PollKeeps == IInv /\ Poll => IInv'
<1> SUFFICES ASSUME IInv, Poll PROVE IInv'
  OBVIOUS
<1> USE InjectAssumption DEF IInv, Poll, world
<1>1. \A q \in Pids : LeakedHandles(q)' = LeakedHandles(q) /\ LeakedHandles(q) \in Nat
  BY SameLeaked, LeakedNat
<1>2. n \in Injects /\ pid[n] \in Pids /\ result[n] = "none" /\ n \notin leaked
  BY DEF CurrentCall
<1>3. TypeOK'
  BY <1>1, <1>2 DEF TypeOK, Running, HandleCount, Holding
<1>4. HandleCount'
  BY <1>1, <1>2 DEF HandleCount, Holding, TypeOK
<1>5. MemoryReleased'
  BY <1>2 DEF MemoryReleased, CurrentCall, TypeOK
<1>6. CallsAhead'
  BY <1>2 DEF CallsAhead, CurrentCall, TypeOK, Injects
<1>7. CurrentCall'
  BY <1>2 DEF CurrentCall, HandleCount, Holding, TypeOK, Running
<1>8. Threads'
  BY <1>2 DEF Threads, CurrentCall, TypeOK, Running
<1>9. PathReadWhole'
  BY <1>2 DEF PathReadWhole, Threads, CurrentCall, TypeOK
<1> QED
  BY <1>3, <1>4, <1>5, <1>6, <1>7, <1>8, <1>9

LEMMA ReleaseKeeps == IInv /\ Release => IInv'
<1> SUFFICES ASSUME IInv, Release PROVE IInv'
  OBVIOUS
<1> USE InjectAssumption DEF IInv, Release, world, Return, Close
<1>1. \A q \in Pids : LeakedHandles(q)' = LeakedHandles(q) /\ LeakedHandles(q) \in Nat
  BY SameLeaked, LeakedNat
<1>2. n \in Injects /\ pid[n] \in Pids /\ result[n] = "none" /\ n \notin leaked
  BY DEF CurrentCall
<1>3. TypeOK'
  <2> DEFINE k == LeakedHandles(pid[n])
  <2>1. k \in Nat
    BY <1>1, <1>2
  <2>2. handles[pid[n]] = k + 1
    BY ONLY <1>2, IInv, Release DEF IInv, HandleCount, Holding, Release
  <2> HIDE DEF k
  <2>3. handles[pid[n]] - 1 \in Nat
    BY ONLY <2>1, <2>2
  <2>4. handles' \in [Pids -> Nat]
    BY <1>2, <2>3 DEF TypeOK
  <2>5. memory' \in [Injects -> {"none", "empty", "part", "path"}]
    BY <1>2 DEF TypeOK
  <2>6. result' \in [Injects -> {"none", "ok", "err"}]
    BY <1>2 DEF TypeOK
  <2> QED
    BY <2>4, <2>5, <2>6 DEF TypeOK, Running
<1>4. HandleCount'
  BY <1>1, <1>2 DEF HandleCount, Holding, TypeOK
<1>5. MemoryReleased'
  BY <1>2 DEF MemoryReleased, CurrentCall, TypeOK
<1>6. CallsAhead'
  BY <1>2 DEF CallsAhead, CurrentCall, TypeOK, Injects
<1>7. CurrentCall'
  BY <1>2 DEF CurrentCall, HandleCount, Holding, TypeOK, Running
<1>8. Threads'
  BY <1>2 DEF Threads, CurrentCall, TypeOK, Running
<1>9. PathReadWhole'
  BY <1>2 DEF PathReadWhole, Threads, CurrentCall, TypeOK
<1> QED
  BY <1>3, <1>4, <1>5, <1>6, <1>7, <1>8, <1>9

LEMMA ExitKeeps == ASSUME NEW p \in Pids, IInv, Exit(p) PROVE IInv'
<1> USE InjectAssumption DEF IInv, Exit, world, Gone
<1>1. \A q \in Pids : LeakedHandles(q)' = LeakedHandles(q) /\ LeakedHandles(q) \in Nat
  BY SameLeaked, LeakedNat
<1>3. TypeOK'
  BY <1>1 DEF TypeOK, Running, HandleCount, Holding
<1>4. HandleCount'
  BY <1>1 DEF HandleCount, Holding, TypeOK
<1>5. MemoryReleased'
  BY DEF MemoryReleased, CurrentCall, TypeOK
<1>6. CallsAhead'
  BY DEF CallsAhead, CurrentCall, TypeOK, Injects
<1>7. CurrentCall'
  BY DEF CurrentCall, HandleCount, Holding, TypeOK, Running
<1>8. Threads'
  BY DEF Threads, CurrentCall, TypeOK, Running
<1>9. PathReadWhole'
  BY DEF PathReadWhole, Threads, CurrentCall, TypeOK
<1> QED
  BY <1>3, <1>4, <1>5, <1>6, <1>7, <1>8, <1>9

LEMMA StartKeeps == ASSUME NEW p \in Pids, IInv, Start(p) PROVE IInv'
<1> USE InjectAssumption DEF IInv, Start, world
<1>1. \A q \in Pids : LeakedHandles(q)' = LeakedHandles(q) /\ LeakedHandles(q) \in Nat
  BY SameLeaked, LeakedNat
<1>3. TypeOK'
  BY <1>1 DEF TypeOK, Running, HandleCount, Holding
<1>4. HandleCount'
  BY <1>1 DEF HandleCount, Holding, TypeOK
<1>5. MemoryReleased'
  BY DEF MemoryReleased, CurrentCall, TypeOK
<1>6. CallsAhead'
  BY DEF CallsAhead, CurrentCall, TypeOK, Injects
<1>7. CurrentCall'
  <2> DEFINE k == LeakedHandles(pid[n])
  <2>1. Holding => k \in Nat
    BY <1>1 DEF CurrentCall, Holding
  <2>2. Holding => handles[pid[n]] = k + 1
    BY DEF CurrentCall, HandleCount, Holding
  <2> HIDE DEF k
  <2>3. Holding => handles[pid[n]] # 0
    BY <2>1, <2>2
  <2>4. step \in {"resolve", "launch"} => pid[n] # p
    BY <2>3 DEF Holding
  <2> QED
    BY <2>4 DEF CurrentCall, TypeOK, Running
<1>8. Threads'
  BY DEF Threads, CurrentCall, TypeOK, Running
<1>9. PathReadWhole'
  BY DEF PathReadWhole, Threads, CurrentCall, TypeOK
<1> QED
  BY <1>3, <1>4, <1>5, <1>6, <1>7, <1>8, <1>9

LEMMA ReadPathKeeps == ASSUME NEW i \in Injects, IInv, ReadPath(i) PROVE IInv'
<1> USE InjectAssumption DEF IInv, world
<1>1. \A q \in Pids : LeakedHandles(q)' = LeakedHandles(q) /\ LeakedHandles(q) \in Nat
  BY SameLeaked, LeakedNat DEF ReadPath
<1>2. /\ thread[i] = "started" /\ pid[i] \in Running /\ pid[i] \in Pids
      /\ UNCHANGED <<handles, step, n, pid, ended, result, leaked>>
      /\ memory[i] = "path" \/ (memory[i] = "none" /\ result[i] = "err")
      /\ i \notin leaked
  BY DEF ReadPath, Threads, Running
<1>3. CASE /\ memory[i] = "path" /\ got' = [got EXCEPT ![i] = "path"]
           /\ thread' = [thread EXCEPT ![i] = "loading"]
           /\ UNCHANGED <<process, loaded, memory>>
  <2> USE <1>2, <1>3
  <2>1. TypeOK'
    BY DEF TypeOK, Running
  <2>2. HandleCount' /\ MemoryReleased' /\ PathReadWhole'
    BY <1>1 DEF HandleCount, Holding, MemoryReleased, PathReadWhole, TypeOK
  <2>3. CallsAhead' /\ CurrentCall' /\ Threads'
    BY DEF CallsAhead, CurrentCall, Threads, TypeOK, Running
  <2> QED
    BY <2>1, <2>2, <2>3
<1>4. CASE /\ memory[i] = "none" /\ got' = [got EXCEPT ![i] = "stale"]
           /\ thread' = [thread EXCEPT ![i] = "ended"]
           /\ UNCHANGED <<process, loaded, memory>>
  <2> USE <1>2, <1>4
  <2>1. TypeOK'
    BY DEF TypeOK, Running
  <2>2. HandleCount' /\ MemoryReleased' /\ PathReadWhole'
    BY <1>1 DEF HandleCount, Holding, MemoryReleased, PathReadWhole, TypeOK
  <2>3. CallsAhead' /\ CurrentCall' /\ Threads'
    BY DEF CallsAhead, CurrentCall, Threads, TypeOK, Running
  <2> QED
    BY <2>1, <2>2, <2>3
<1>5. CASE memory[i] = "none" /\ got' = [got EXCEPT ![i] = "stale"] /\ Gone(pid[i])
  <2> USE <1>2, <1>5 DEF Gone
  <2>1. TypeOK'
    BY DEF TypeOK, Running
  <2>2. HandleCount' /\ MemoryReleased'
    BY <1>1 DEF HandleCount, Holding, MemoryReleased, TypeOK
  <2>3. PathReadWhole'
    BY DEF PathReadWhole, TypeOK
  <2>4. CallsAhead'
    BY DEF CallsAhead, TypeOK
  <2>5. CurrentCall'
    BY DEF CurrentCall, TypeOK, Running
  <2>6. Threads'
    BY DEF Threads, TypeOK, Running
  <2> QED
    BY <2>1, <2>2, <2>3, <2>4, <2>5, <2>6
<1>6. memory[i] # "none" => memory[i] = "path"
  BY <1>2
<1> QED
  BY <1>3, <1>4, <1>5, <1>6 DEF ReadPath

LEMMA LoadKeeps == ASSUME NEW i \in Injects, IInv, Load(i) PROVE IInv'
<1> USE InjectAssumption DEF IInv, Load, world
<1>1. \A q \in Pids : LeakedHandles(q)' = LeakedHandles(q) /\ LeakedHandles(q) \in Nat
  BY SameLeaked, LeakedNat
<1>3. TypeOK'
  BY DEF TypeOK, Running, Threads, HandleCount, Holding
<1>4. HandleCount'
  BY <1>1 DEF HandleCount, Holding, TypeOK
<1>5. MemoryReleased'
  BY DEF MemoryReleased, CurrentCall, TypeOK
<1>6. CallsAhead'
  BY DEF CallsAhead, CurrentCall, TypeOK, Injects
<1>7. CurrentCall'
  BY DEF CurrentCall, HandleCount, Holding, TypeOK, Running
<1>8. Threads'
  BY DEF Threads, CurrentCall, TypeOK, Running
<1>9. PathReadWhole'
  BY DEF PathReadWhole, Threads, CurrentCall, TypeOK
<1> QED
  BY <1>3, <1>4, <1>5, <1>6, <1>7, <1>8, <1>9

LEMMA StutterKeeps == IInv /\ UNCHANGED vars => IInv'
<1> SUFFICES ASSUME IInv, UNCHANGED vars PROVE IInv'
  OBVIOUS
<1>1. \A p \in Pids : LeakedHandles(p)' = LeakedHandles(p)
  BY SameLeaked DEF vars
<1>2. HandleCount'
  BY <1>1 DEF IInv, HandleCount, Holding, vars
<1> QED
  BY <1>2 DEF IInv, vars, TypeOK, MemoryReleased, CallsAhead, CurrentCall, Threads,
       PathReadWhole, Running

LEMMA NextKeeps == IInv /\ [Next]_vars => IInv'
<1> SUFFICES ASSUME IInv, [Next]_vars PROVE IInv'
  OBVIOUS
<1>1. CASE FindGame \/ Open \/ Alloc \/ Write \/ Resolve \/ Launch \/ Wait \/ Poll \/ Release
  BY <1>1, FindGameKeeps, OpenKeeps, AllocKeeps, WriteKeeps, ResolveKeeps, LaunchKeeps,
     WaitKeeps, PollKeeps, ReleaseKeeps
<1>2. CASE \E i \in Injects : ReadPath(i) \/ Load(i)
  BY <1>2, ReadPathKeeps, LoadKeeps
<1>3. CASE \E p \in Pids : Exit(p) \/ Start(p)
  BY <1>3, ExitKeeps, StartKeeps
<1>4. CASE UNCHANGED vars
  BY <1>4, StutterKeeps
<1> QED
  BY <1>1, <1>2, <1>3, <1>4 DEF Next

LEMMA Invariance == Spec => []IInv
BY InitIInv, NextKeeps, PTL DEF Spec

-----------------------------------------------------------------------------
\* The variables of an injection keep their types, and what is loaded is in a process that
\* runs; no count of handles goes below zero.
THEOREM TypeCorrect == Spec => []TypeOK
<1>1. IInv => TypeOK
  BY DEF IInv
<1> QED
  BY <1>1, Invariance, PTL

\* inject_dll leaves neither memory in the game nor a handle in the window, whatever exits
\* while it works, but for the returns by `?` between the write and the remote thread.
THEOREM CleansUp == Spec => []KeepsNothing
<1>1. IInv => KeepsNothing
  BY DEF IInv, KeepsNothing, HandleCount, LeakedHandles, Holding, MemoryReleased
<1> QED
  BY <1>1, Invariance, PTL

\* No remote thread loads a part of the path, and one that comes after its memory was freed
\* belongs to an injection that reported a failure.
THEOREM LoadsWholePath == Spec => []PathReadWhole
<1>1. IInv => PathReadWhole
  BY DEF IInv
<1> QED
  BY <1>1, Invariance, PTL

=============================================================================
