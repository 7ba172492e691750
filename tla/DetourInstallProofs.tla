------------------------ MODULE DetourInstallProofs ------------------------
(***************************************************************************)
(* Proofs about DetourInstall, for any threads.                            *)
(*                                                                         *)
(* Code is what holds of the two functions at each place of init_thread:   *)
(* whatever it is not working on is Settled, and the jump's address, being *)
(* one store, is never half there.  History is what a thread ran: up to    *)
(* the instruction it stands at (Prefix), nothing while it is in the DLL.  *)
(***************************************************************************)
EXTENDS DetourInstall, FiniteSetTheorems, SequenceTheorems, TLAPS

Untouched(f) == written[f] = 0 /\ ~trampoline[f]
Installed(f) == written[f] = STOLEN_BYTES[f] /\ trampoline[f]

One(f) == IF trampoline[f] THEN 1 ELSE 0

Code ==
  /\ \A f \in Targets : f # cur \/ pc = "done" => Untouched(f) \/ Installed(f)
  /\ pc \in {"check", "alloc", "protect"} => Untouched(cur)
  /\ pc = "write" => /\ written[cur] < STOLEN_BYTES[cur]
                     /\ written[cur] <= 6 \/ written[cur] >= JMP_ABS_SIZE
                     /\ ~trampoline[cur]
  /\ pc = "publish" => written[cur] = STOLEN_BYTES[cur] /\ ~trampoline[cur]
  /\ cur = "tx" /\ pc # "done" => Untouched("rx")
  /\ hooked = One("tx") + One("rx")

\* The offset o is where an instruction of f begins, and s lists those before it.
Prefix(f, o, s) ==
  \E i \in DOMAIN Prologue[f] : o = Prologue[f][i] /\ s = SubSeq(Prologue[f], 1, i - 1)

History ==
  \A t \in Threads :
    /\ at[t] = "prologue" => Prefix(fn[t], off[t], ran[t])
    /\ at[t] \in {"stub", "trampoline"} => ran[t] = <<>>
    /\ at[t] = "body" => ran[t] = Prologue[fn[t]]

\* TypeOK without the bounds that follow from Code.
CodeTyped ==
  /\ written \in [Targets -> 0..20]
  /\ trampoline \in [Targets -> BOOLEAN]
  /\ pc \in {"check", "alloc", "protect", "write", "publish", "done"}
  /\ cur \in Targets

Places == {"idle", "prologue", "stub", "trampoline", "body", "torn", "null"}

ThreadsTyped ==
  /\ at \in [Threads -> Places]
  /\ off \in [Threads -> 0..20]
  /\ fn \in [Threads -> Targets]
  /\ ran \in [Threads -> Seq(0..20)]

IInv == CodeTyped /\ Code /\ ThreadsTyped /\ History

-----------------------------------------------------------------------------
\* The sizes of the two functions.
LEMMA Sizes ==
  /\ Targets = {"tx", "rx"}
  /\ STOLEN_BYTES["tx"] = 20 /\ STOLEN_BYTES["rx"] = 18
  /\ JMP_ABS_SIZE = 14
BY DEF Targets, STOLEN_BYTES, JMP_ABS_SIZE

\* The stolen bytes of tx hold four instructions, those of rx six.
LEMMA Tables ==
  /\ Prologue["tx"] = <<0, 3, 4, 11>>
  /\ Prologue["rx"] = <<0, 3, 4, 5, 7, 11>>
BY DEF Prologue, Targets

\* s lists in ascending order, from 0, m offsets below n.
Ascends(s, m, n) ==
  /\ m \in Nat \ {0}
  /\ s \in [1..m -> 0..20]
  /\ s[1] = 0
  /\ \A i \in 1..m : s[i] < n
  /\ \A i, j \in 1..m : i < j => s[i] < s[j]

\* The instructions of a prologue begin in ascending order within its bytes.
LEMMA Ascending ==
  \A f \in Targets : /\ Ascends(Prologue[f], Len(Prologue[f]), STOLEN_BYTES[f])
                     /\ Prologue[f] \in Seq(0..20)
                     /\ STOLEN_BYTES[f] \in 0..20
<1>1. Ascends(<<0, 3, 4, 11>>, 4, 20) /\ <<0, 3, 4, 11>> \in Seq(0..20)
  BY DEF Ascends
<1>2. Ascends(<<0, 3, 4, 5, 7, 11>>, 6, 18) /\ <<0, 3, 4, 5, 7, 11>> \in Seq(0..20)
  BY DEF Ascends
<1>3. Len(<<0, 3, 4, 11>>) = 4 /\ Len(<<0, 3, 4, 5, 7, 11>>) = 6
  OBVIOUS
<1>4. /\ Ascends(Prologue["tx"], Len(Prologue["tx"]), STOLEN_BYTES["tx"])
      /\ Prologue["tx"] \in Seq(0..20)
  BY <1>1, <1>3, Tables, Sizes, Zenon
<1>5. /\ Ascends(Prologue["rx"], Len(Prologue["rx"]), STOLEN_BYTES["rx"])
      /\ Prologue["rx"] \in Seq(0..20)
  BY <1>2, <1>3, Tables, Sizes, Zenon
<1>6. STOLEN_BYTES["tx"] \in 0..20 /\ STOLEN_BYTES["rx"] \in 0..20
  BY Sizes
<1> QED
  BY <1>4, <1>5, <1>6, Sizes, Zenon

\* Nothing of an ascending list lies above its last element.
LEMMA NoneAboveLast ==
  ASSUME NEW s, NEW m, NEW n, Ascends(s, m, n)
  PROVE  \A i \in 1..m : ~(s[i] > s[m])
<1> TAKE i \in 1..m
<1>1. m \in 1..m /\ s[i] \in 0..20 /\ s[m] \in 0..20
  BY DEF Ascends
<1>2. i = m \/ i < m
  BY DEF Ascends
<1>3. i < m => s[i] < s[m]
  BY <1>1 DEF Ascends
<1> QED
  BY <1>1, <1>2, <1>3

\* Nothing lies between two neighbours of an ascending list.
LEMMA NoneBetween ==
  ASSUME NEW s, NEW m, NEW n, Ascends(s, m, n), NEW i \in 1..m, i # m
  PROVE  /\ i + 1 \in 1..m
         /\ s[i + 1] > s[i]
         /\ \A j \in 1..m : s[j] > s[i] => s[i + 1] <= s[j]
<1>1. i + 1 \in 1..m /\ i < i + 1
  BY DEF Ascends
<1>2. s[i] \in 0..20 /\ s[i + 1] \in 0..20
  BY <1>1 DEF Ascends
<1>3. s[i] < s[i + 1]
  BY <1>1 DEF Ascends
<1>4. ASSUME NEW j \in 1..m, s[j] > s[i] PROVE s[i + 1] <= s[j]
  <2>1. s[j] \in 0..20
    BY DEF Ascends
  <2>2. j < i => s[j] < s[i]
    BY DEF Ascends
  <2>3. ~(j < i) /\ j # i
    BY <1>2, <1>4, <2>1, <2>2
  <2>4. j = i + 1 \/ i + 1 < j
    BY <2>3 DEF Ascends
  <2>5. i + 1 < j => s[i + 1] < s[j]
    BY <1>1 DEF Ascends
  <2> QED
    BY <1>2, <2>1, <2>4, <2>5
<1> QED
  BY <1>1, <1>2, <1>3, <1>4

\* After the last instruction comes the end of the stolen bytes.
LEMMA NextOfLast ==
  ASSUME NEW f \in Targets
  PROVE  NextOffset(f, Prologue[f][Len(Prologue[f])]) = STOLEN_BYTES[f]
<1>1. Ascends(Prologue[f], Len(Prologue[f]), STOLEN_BYTES[f])
  BY Ascending
<1>2. \A i \in DOMAIN Prologue[f] : ~(Prologue[f][i] > Prologue[f][Len(Prologue[f])])
  BY <1>1, NoneAboveLast DEF Ascends
<1>3. {p \in Offsets(f) : p > Prologue[f][Len(Prologue[f])]} = {}
  BY <1>2 DEF Offsets
<1> QED
  BY <1>3 DEF NextOffset

\* The least of a set of offsets is its only least element.
LEMMA LeastOne ==
  ASSUME NEW S \in SUBSET Nat, NEW m \in S, \A q \in S : m <= q
  PROVE  (CHOOSE p \in S : \A q \in S : p <= q) = m
<1> DEFINE c == CHOOSE p \in S : \A q \in S : p <= q
<1>1. c \in S /\ \A q \in S : c <= q
  OBVIOUS
<1>2. c <= m /\ m <= c
  BY <1>1
<1>3. c \in Nat /\ m \in Nat
  BY <1>1
<1> HIDE DEF c
<1>4. c = m
  BY <1>2, <1>3
<1> QED
  BY <1>4 DEF c

\* After any other comes the next.
LEMMA NextOfOther ==
  ASSUME NEW f \in Targets, NEW i \in 1..Len(Prologue[f]), i # Len(Prologue[f])
  PROVE  /\ i + 1 \in 1..Len(Prologue[f])
         /\ NextOffset(f, Prologue[f][i]) = Prologue[f][i + 1]
<1> DEFINE later == {p \in Offsets(f) : p > Prologue[f][i]}
           next == Prologue[f][i + 1]
<1>1. Ascends(Prologue[f], Len(Prologue[f]), STOLEN_BYTES[f])
  BY Ascending
<1>2. /\ i + 1 \in 1..Len(Prologue[f])
      /\ next > Prologue[f][i]
      /\ \A j \in 1..Len(Prologue[f]) :
           Prologue[f][j] > Prologue[f][i] => next <= Prologue[f][j]
  BY <1>1, NoneBetween
<1>3. DOMAIN Prologue[f] = 1..Len(Prologue[f])
      /\ \A j \in 1..Len(Prologue[f]) : Prologue[f][j] \in 0..20
  BY <1>1 DEF Ascends
<1>4. later \in SUBSET Nat
  <2>1. \A j \in DOMAIN Prologue[f] : Prologue[f][j] \in Nat
    <3>1. 0..20 \subseteq Nat
      OBVIOUS
    <3> QED
      BY <1>3, <3>1, Zenon
  <2> QED
    BY <2>1, Zenon DEF Offsets
<1>5. next \in later
  BY <1>2, <1>3 DEF Offsets
<1>6. \A q \in later : next <= q
  BY <1>2, <1>3 DEF Offsets
<1>7. NextOffset(f, Prologue[f][i]) = CHOOSE p \in later : \A q \in later : p <= q
  BY <1>5 DEF NextOffset
<1> HIDE DEF later, next
<1>8. (CHOOSE p \in later : \A q \in later : p <= q) = next
  BY <1>4, <1>5, <1>6, LeastOne
<1> QED
  BY <1>2, <1>7, <1>8 DEF next

\* An instruction run takes a thread to the next one, or past the last with the
\* whole prologue behind it.
LEMMA PrefixGrows ==
  ASSUME NEW f \in Targets, NEW o, NEW s, Prefix(f, o, s)
  PROVE  /\ o \in 0..20 /\ s \in Seq(0..20)
         /\ NextOffset(f, o) \in 0..20
         /\ NextOffset(f, o) = STOLEN_BYTES[f] => Append(s, o) = Prologue[f]
         /\ NextOffset(f, o) # STOLEN_BYTES[f] => Prefix(f, NextOffset(f, o), Append(s, o))
<1> DEFINE p == Prologue[f]
<1>1. /\ Ascends(p, Len(p), STOLEN_BYTES[f])
      /\ p \in Seq(0..20)
      /\ STOLEN_BYTES[f] \in 0..20
  BY Ascending
<1>2. /\ Len(p) \in Nat \ {0}
      /\ DOMAIN p = 1..Len(p)
      /\ \A i \in 1..Len(p) : p[i] \in 0..20 /\ p[i] < STOLEN_BYTES[f]
  BY <1>1 DEF Ascends
<1>3. PICK i \in 1..Len(p) : o = p[i] /\ s = SubSeq(p, 1, i - 1)
  BY <1>2 DEF Prefix
<1>4. i = Len(p) => NextOffset(f, o) = STOLEN_BYTES[f]
  BY <1>3, NextOfLast
<1>5. i # Len(p) => i + 1 \in 1..Len(p) /\ NextOffset(f, o) = p[i + 1]
  BY <1>3, NextOfOther
<1>6. i # Len(p) => (i + 1) \in DOMAIN p /\ SubSeq(p, 1, (i + 1) - 1) = SubSeq(p, 1, i)
  BY <1>2, <1>5
<1> HIDE DEF p
<1>7. o \in 0..20
  BY <1>2, <1>3
<1>8. s \in Seq(0..20)
  BY <1>1, <1>2, <1>3
<1>9. Append(s, o) = SubSeq(p, 1, i)
  BY <1>1, <1>2, <1>3
<1>10. i = Len(p) => SubSeq(p, 1, i) = p
  BY <1>1, <1>2
<1>11. i # Len(p) => p[i + 1] \in 0..20 /\ p[i + 1] # STOLEN_BYTES[f]
  <2>1. ASSUME NEW k \in 1..Len(p) PROVE p[k] \in 0..20 /\ p[k] # STOLEN_BYTES[f]
    <3>1. p[k] \in 0..20 /\ p[k] < STOLEN_BYTES[f]
      BY <1>2, Zenon
    <3> QED
      BY <1>1, <3>1
  <2> QED
    BY <1>5, <2>1
<1>12. i # Len(p) => Prefix(f, NextOffset(f, o), Append(s, o))
  BY <1>5, <1>6, <1>9 DEF Prefix, p
<1> QED
  BY <1>1, <1>4, <1>5, <1>7, <1>8, <1>9, <1>10, <1>11, <1>12 DEF p

\* A call begins at the first instruction.
LEMMA PrefixEmpty == \A f \in Targets : Prefix(f, 0, <<>>)
<1> TAKE f \in Targets
<1>1. 1 \in DOMAIN Prologue[f] /\ Prologue[f][1] = 0 /\ Prologue[f] \in Seq(0..20)
  BY Ascending DEF Ascends
<1>2. SubSeq(Prologue[f], 1, 1 - 1) = <<>>
  BY <1>1
<1> QED
  BY <1>1, <1>2 DEF Prefix

\* At the first instruction nothing was run.
LEMMA PrefixAtStart ==
  ASSUME NEW f \in Targets, NEW s, Prefix(f, 0, s)
  PROVE  s = <<>>
<1> DEFINE p == Prologue[f]
<1>1. Ascends(p, Len(p), STOLEN_BYTES[f]) /\ p \in Seq(0..20)
  BY Ascending
<1>2. /\ Len(p) \in Nat \ {0}
      /\ DOMAIN p = 1..Len(p)
      /\ p[1] = 0
      /\ 1 \in 1..Len(p)
      /\ \A i, j \in 1..Len(p) : i < j => p[i] < p[j]
  BY <1>1 DEF Ascends
<1>3. PICK i \in 1..Len(p) : 0 = p[i] /\ s = SubSeq(p, 1, i - 1)
  BY <1>2 DEF Prefix
<1>4. ~(1 < i)
  BY <1>2, <1>3
<1>5. i = 1
  BY <1>2, <1>4
<1>6. SubSeq(p, 1, 1 - 1) = <<>>
  BY <1>1
<1> QED
  BY <1>3, <1>5, <1>6

-----------------------------------------------------------------------------
\* The initial state satisfies the invariant.
LEMMA InvInit == Init => IInv
<1> HAVE Init
<1>1. CodeTyped
  BY Sizes DEF Init, CodeTyped
<1>2. Code
  BY Sizes DEF Init, Code, Untouched, One
<1>3. ThreadsTyped
  BY Sizes DEF Init, ThreadsTyped, Places
<1>4. History
  BY DEF Init, History
<1> QED
  BY <1>1, <1>2, <1>3, <1>4 DEF IInv

\* Going on to the next function, or ending, with the function at hand settled.
LEMMA GoOn ==
  ASSUME CodeTyped, Code, NextTarget, pc # "done",
         \/ written'[cur] = 0 /\ ~trampoline'[cur]
         \/ written'[cur] = STOLEN_BYTES[cur] /\ trampoline'[cur],
         \A f \in Targets :
           f # cur => written'[f] = written[f] /\ trampoline'[f] = trampoline[f],
         hooked' = (One("tx") + One("rx"))'
  PROVE  /\ cur' \in Targets
         /\ pc' \in {"check", "done"}
         /\ Code'
<1>0. "tx" \in Targets /\ "rx" \in Targets /\ \A f \in Targets : f = "tx" \/ f = "rx"
  BY Sizes
<1>1. CASE cur = "tx"
  <2>1. cur' = "rx" /\ pc' = "check"
    BY <1>1 DEF NextTarget
  <2>2. Untouched("rx")'
    BY <1>0, <1>1 DEF Code, Untouched
  <2>3. (Untouched("tx") \/ Installed("tx"))'
    BY <1>0, <1>1 DEF Untouched, Installed
  <2> QED
    BY <1>0, <2>1, <2>2, <2>3 DEF Code
<1>2. CASE cur = "rx"
  <2>1. cur' = "rx" /\ pc' = "done"
    BY <1>2 DEF NextTarget
  <2>2. (Untouched("rx") \/ Installed("rx"))'
    BY <1>0, <1>2 DEF Untouched, Installed
  <2>3. (Untouched("tx") \/ Installed("tx"))'
    BY <1>0, <1>2 DEF Code, Untouched, Installed
  <2> QED
    BY <1>0, <2>1, <2>2, <2>3 DEF Code
<1> QED
  BY <1>0, <1>1, <1>2 DEF CodeTyped

\* Every step of the installation keeps the types of the code and Code.
LEMMA InstallStep ==
  ASSUME CodeTyped, Code, Install
  PROVE  CodeTyped' /\ Code'
<1>1. CASE CheckPrologue
  <2>1. CodeTyped'
    BY <1>1 DEF CheckPrologue, CodeTyped
  <2>2. Code'
    BY <1>1 DEF CheckPrologue, Code, Untouched, Installed, One
  <2> QED
    BY <2>1, <2>2
<1>2. CASE AllocTrampoline \/ ProtectTarget
  <2>1. UNCHANGED <<written, trampoline, hooked>> /\ pc \in {"alloc", "protect"}
    BY <1>2 DEF AllocTrampoline, ProtectTarget
  <2>2. CASE pc' \in {"protect", "write"} /\ UNCHANGED cur
    <3>1. CodeTyped'
      BY <2>1, <2>2 DEF CodeTyped
    <3>2. Code'
      BY <2>1, <2>2, Sizes DEF Code, CodeTyped, Untouched, Installed, One
    <3> QED
      BY <3>1, <3>2
  <2>3. CASE NextTarget
    <3>1. written'[cur] = 0 /\ ~trampoline'[cur]
      BY <2>1 DEF Code, Untouched
    <3>2. hooked' = (One("tx") + One("rx"))'
      BY <2>1 DEF Code, One
    <3>3. cur' \in Targets /\ pc' \in {"check", "done"} /\ Code'
      BY <2>1, <2>3, <3>1, <3>2, GoOn
    <3> QED
      BY <2>1, <3>3 DEF CodeTyped
  <2> QED
    BY <1>2, <2>2, <2>3 DEF AllocTrampoline, ProtectTarget
<1>3. CASE WriteStore
  <2>1. /\ pc = "write" /\ ~trampoline[cur] /\ written[cur] < STOLEN_BYTES[cur]
        /\ written[cur] <= 6 \/ written[cur] >= JMP_ABS_SIZE
        /\ written[cur] \in 0..20
    BY <1>3 DEF WriteStore, Code, CodeTyped
  <2>2. /\ Stored(written[cur]) <= STOLEN_BYTES[cur]
        /\ Stored(written[cur]) <= 6 \/ Stored(written[cur]) >= JMP_ABS_SIZE
        /\ Stored(written[cur]) \in 0..20
    BY <2>1, Sizes DEF Stored, CodeTyped
  <2>3. written' = [written EXCEPT ![cur] = Stored(written[cur])]
    BY <1>3 DEF WriteStore
  <2>4. CodeTyped'
    BY <1>3, <2>2, <2>3 DEF WriteStore, CodeTyped
  <2>5. /\ written'[cur] = Stored(written[cur])
        /\ \A f \in Targets : f # cur => written'[f] = written[f]
    BY <2>3 DEF CodeTyped
  <2>6. UNCHANGED <<trampoline, cur, hooked>>
        /\ pc' = IF written'[cur] = STOLEN_BYTES[cur] THEN "publish" ELSE "write"
    BY <1>3 DEF WriteStore
  <2>7. written'[cur] # STOLEN_BYTES[cur] => written'[cur] < STOLEN_BYTES[cur]
    BY <2>2, <2>5, Sizes DEF CodeTyped
  <2>8. Code'
    BY <2>1, <2>2, <2>5, <2>6, <2>7, Sizes DEF Code, Untouched, Installed, One, CodeTyped
  <2> QED
    BY <2>4, <2>8
<1>4. CASE Publish
  <2>1. /\ pc = "publish" /\ written[cur] = STOLEN_BYTES[cur] /\ ~trampoline[cur]
        /\ trampoline' = [trampoline EXCEPT ![cur] = TRUE]
        /\ hooked' = hooked + 1
        /\ UNCHANGED written
        /\ NextTarget
    BY <1>4 DEF Publish, PublishStatic, Code
  <2>2. /\ trampoline' \in [Targets -> BOOLEAN]
        /\ trampoline'[cur] = TRUE
        /\ \A f \in Targets : f # cur => trampoline'[f] = trampoline[f]
    BY <2>1 DEF CodeTyped
  <2>3. hooked' = (One("tx") + One("rx"))'
    BY <2>1, <2>2, Sizes DEF Code, One, CodeTyped
  <2>4. cur' \in Targets /\ pc' \in {"check", "done"} /\ Code'
    BY <2>1, <2>2, <2>3, GoOn
  <2> QED
    BY <2>1, <2>2, <2>4 DEF CodeTyped
<1> QED
  BY <1>1, <1>2, <1>3, <1>4 DEF Install

\* Every step of a thread keeps the types of the threads and History.
LEMMA ThreadStep ==
  ASSUME ThreadsTyped, History, NEW t \in Threads,
         Run(t) \/ \E f \in Targets : Call(t, f)
  PROVE  ThreadsTyped' /\ History'
<1> DEFINE Hist(u) == /\ at[u] = "prologue" => Prefix(fn[u], off[u], ran[u])
                      /\ at[u] \in {"stub", "trampoline"} => ran[u] = <<>>
                      /\ at[u] = "body" => ran[u] = Prologue[fn[u]]
           Changed(u, p, o, f, s) ==
             /\ at' = [at EXCEPT ![u] = p]
             /\ off' = [off EXCEPT ![u] = o]
             /\ fn' = [fn EXCEPT ![u] = f]
             /\ ran' = [ran EXCEPT ![u] = s]
<1>1. ASSUME NEW p \in Places, NEW o \in 0..20, NEW f \in Targets, NEW s \in Seq(0..20),
             Changed(t, p, o, f, s),
             p = "prologue" => Prefix(f, o, s),
             p \in {"stub", "trampoline"} => s = <<>>,
             p = "body" => s = Prologue[f]
      PROVE  ThreadsTyped' /\ History'
  <2>1. ThreadsTyped'
    <3>1. at' \in [Threads -> Places]
      BY <1>1 DEF ThreadsTyped
    <3>2. off' \in [Threads -> 0..20]
      BY <1>1 DEF ThreadsTyped
    <3>3. fn' \in [Threads -> Targets]
      BY <1>1 DEF ThreadsTyped
    <3>4. ran' \in [Threads -> Seq(0..20)]
      BY <1>1, Zenon DEF ThreadsTyped
    <3> QED
      BY <3>1, <3>2, <3>3, <3>4 DEF ThreadsTyped
  <2>2. at'[t] = p /\ off'[t] = o /\ fn'[t] = f /\ ran'[t] = s
    BY <1>1, Zenon DEF ThreadsTyped
  <2>3. ASSUME NEW u \in Threads, u # t
        PROVE  at'[u] = at[u] /\ off'[u] = off[u] /\ fn'[u] = fn[u] /\ ran'[u] = ran[u]
    BY <1>1, <2>3, Zenon DEF ThreadsTyped
  <2>4. ASSUME NEW u \in Threads PROVE Hist(u)'
    <3>1. CASE u = t
      BY <1>1, <2>2, <3>1
    <3>2. CASE u # t
      BY <2>3, <3>2 DEF History
    <3> QED
      BY <3>1, <3>2
  <2> QED
    BY <2>1, <2>4 DEF History
<1>2. /\ at[t] \in Places /\ off[t] \in 0..20 /\ fn[t] \in Targets /\ ran[t] \in Seq(0..20)
      /\ at = [at EXCEPT ![t] = at[t]] /\ off = [off EXCEPT ![t] = off[t]]
      /\ fn = [fn EXCEPT ![t] = fn[t]] /\ ran = [ran EXCEPT ![t] = ran[t]]
  BY DEF ThreadsTyped
<1>3. Hist(t)
  BY DEF History
<1> HIDE DEF Hist
<1>4. CASE RunPrologue(t)
  <2> DEFINE f == fn[t]
             o == off[t]
             n == NextOffset(f, o)
             s == Append(ran[t], o)
  <2>1. at[t] = "prologue" /\ Prefix(f, o, ran[t])
    BY <1>3, <1>4 DEF RunPrologue, Hist
  <2>2. /\ s \in Seq(0..20)
        /\ n \in 0..20
        /\ n = STOLEN_BYTES[f] => s = Prologue[f]
        /\ n # STOLEN_BYTES[f] => Prefix(f, n, s)
    <3>1. s \in Seq(0..20)
      BY <1>2
    <3> QED
      BY <1>2, <2>1, <3>1, PrefixGrows
  <2>3. CASE Changed(t, IF n = STOLEN_BYTES[f] THEN "body" ELSE "prologue", n, f, s)
    <3> DEFINE p == IF n = STOLEN_BYTES[f] THEN "body" ELSE "prologue"
    <3>1. /\ p \in Places
          /\ p = "prologue" => Prefix(f, n, s)
          /\ p = "body" => s = Prologue[f]
          /\ p \notin {"stub", "trampoline"}
      BY <2>2 DEF Places
    <3> HIDE DEF p, n, s
    <3> QED
      BY <1>1, <1>2, <2>2, <2>3, <3>1 DEF p
  <2>4. CASE o = 0 /\ Changed(t, "stub", o, f, ran[t])
    <3>1. ran[t] = <<>>
      BY <1>2, <2>1, <2>4, PrefixAtStart
    <3> QED
      BY <1>1, <1>2, <2>4, <3>1 DEF Places
  <2>5. CASE Changed(t, "torn", o, f, ran[t])
    BY <1>1, <1>2, <2>5 DEF Places
  <2> QED
    BY <1>2, <1>4, <2>3, <2>4, <2>5 DEF RunPrologue
<1>5. CASE RunStub(t)
  <2> DEFINE p == IF trampoline[Loaded(fn[t])] THEN "trampoline" ELSE "null"
  <2>1. at[t] = "stub" /\ Changed(t, p, off[t], fn[t], ran[t])
    BY <1>2, <1>5 DEF RunStub
  <2>2. ran[t] = <<>>
    BY <1>3, <2>1 DEF Hist
  <2>3. p \in Places /\ p \in {"trampoline", "null"}
    BY DEF Places
  <2> HIDE DEF p
  <2> QED
    BY <1>1, <1>2, <2>1, <2>2, <2>3
<1>6. CASE RunTrampoline(t)
  <2> DEFINE s == ran[t] \o Prologue[fn[t]]
  <2>1. /\ at[t] = "trampoline"
        /\ Changed(t, "body", STOLEN_BYTES[fn[t]], fn[t], s)
    BY <1>2, <1>6 DEF RunTrampoline, Loaded
  <2>2. Prologue[fn[t]] \in Seq(0..20) /\ STOLEN_BYTES[fn[t]] \in 0..20
    BY <1>2, Ascending
  <2>3. s = Prologue[fn[t]]
    <3>1. ran[t] = <<>>
      BY <1>3, <2>1 DEF Hist
    <3> QED
      BY <2>2, <3>1, ConcatEmptySeq
  <2> HIDE DEF s
  <2> QED
    BY <1>1, <1>2, <2>1, <2>2, <2>3 DEF Places
<1>7. CASE RunBody(t)
  <2>1. Changed(t, "idle", off[t], fn[t], ran[t])
    BY <1>2, <1>7 DEF RunBody
  <2> QED
    BY <1>1, <1>2, <2>1 DEF Places
<1>8. CASE \E f \in Targets : Call(t, f)
  <2>1. PICK f \in Targets : Call(t, f)
    BY <1>8
  <2>2. Changed(t, "prologue", 0, f, <<>>)
    BY <2>1 DEF Call
  <2>3. <<>> \in Seq(0..20) /\ 0 \in 0..20
    OBVIOUS
  <2> QED
    BY <1>1, <2>2, <2>3, PrefixEmpty DEF Places
<1> QED
  BY <1>4, <1>5, <1>6, <1>7, <1>8 DEF Run

-----------------------------------------------------------------------------
(***************************************************************************)
(* The invariant and what follows from it.                                 *)
(***************************************************************************)

\* Every step of anyone keeps the invariant: the installation touches no thread,
\* a thread touches no code.
LEMMA InvNext == IInv /\ [Next]_vars => IInv'
<1> SUFFICES ASSUME CodeTyped, Code, ThreadsTyped, History, [Next]_vars
             PROVE  IInv'
  BY DEF IInv
<1>1. ASSUME UNCHANGED codeVars PROVE CodeTyped' /\ Code'
  BY <1>1 DEF codeVars, CodeTyped, Code, Untouched, Installed, One
<1>2. ASSUME UNCHANGED threadVars PROVE ThreadsTyped' /\ History'
  BY <1>2 DEF threadVars, ThreadsTyped, History
<1>3. CASE Install
  <2>1. UNCHANGED threadVars
    BY <1>3 DEF Install, CheckPrologue, AllocTrampoline, ProtectTarget, WriteStore, Publish,
                threadVars
  <2> QED
    BY <1>2, <1>3, <2>1, InstallStep DEF IInv
<1>4. ASSUME NEW t \in Threads, Run(t) \/ \E f \in Targets : Call(t, f)
      PROVE  IInv'
  <2>1. UNCHANGED codeVars
    BY <1>4 DEF Run, RunPrologue, RunStub, RunTrampoline, RunBody, Call
  <2> QED
    BY <1>1, <1>4, <2>1, ThreadStep DEF IInv
<1>5. CASE UNCHANGED vars
  BY <1>1, <1>2, <1>5 DEF vars, codeVars, threadVars, IInv
<1> QED
  BY <1>3, <1>4, <1>5 DEF Next

\* The invariant holds in every reachable state of the installation, whatever
\* threads run through the two functions.
THEOREM Invariance == Spec => []IInv
BY InvInit, InvNext, PTL DEF Spec

\* The invariant bounds the bytes overwritten.
LEMMA Bounded ==
  ASSUME CodeTyped, Code
  PROVE  \A f \in Targets : written[f] <= STOLEN_BYTES[f]
<1> TAKE f \in Targets
<1>1. written[f] \in 0..20 /\ STOLEN_BYTES[f] \in 0..20
  BY Ascending DEF CodeTyped
<1>2. Untouched(f) \/ Installed(f) => written[f] <= STOLEN_BYTES[f]
  BY <1>1 DEF Untouched, Installed
<1>3. CASE f # cur \/ pc = "done"
  BY <1>2, <1>3 DEF Code
<1>4. CASE f = cur /\ pc # "done"
  <2>1. pc \in {"check", "alloc", "protect", "write", "publish"}
    BY <1>4 DEF CodeTyped
  <2> QED
    BY <1>1, <1>2, <1>4, <2>1 DEF Code
<1> QED
  BY <1>3, <1>4

\* The types of both sides: what was overwritten stays within the stolen bytes
\* (detour.rs write_abs_jmp and its loop of NOPs).
THEOREM TypeCorrect == Spec => []TypeOK
<1>1. IInv => TypeOK
  <2> HAVE IInv
  <2>1. hooked \in 0..2
    BY DEF IInv, Code, One
  <2> QED
    BY <2>1, Bounded DEF IInv, TypeOK, CodeTyped, ThreadsTyped, Places
<1> QED
  BY <1>1, Invariance, PTL

\* Whatever the threads do while the bytes under them change, a body that is
\* reached has its prologue behind it, once and in order (Detour::install).
THEOREM PrologueOnce == Spec => []OriginalRunsOnce
<1>1. IInv => OriginalRunsOnce
  BY DEF IInv, History, OriginalRunsOnce
<1> QED
  BY <1>1, Invariance, PTL

\* An installation that is over left each function whole, and counted right
\* (install_game_hooks).
THEOREM WholeOrNothing == Spec => []AllOrNothing
<1>1. ASSUME CodeTyped, Code, pc = "done"
      PROVE  hooked = Cardinality({f \in Targets : written[f] # 0})
  <2> DEFINE H == {f \in Targets : written[f] # 0}
  <2>1. \A f \in Targets : written[f] # 0 <=> trampoline[f]
    BY <1>1, Sizes DEF Code, Untouched, Installed
  <2>2. hooked = One("tx") + One("rx")
    BY <1>1 DEF Code
  <2>3. Cardinality({"tx"}) = 1 /\ Cardinality({"rx"}) = 1 /\ Cardinality({}) = 0
    BY FS_EmptySet, FS_Singleton
  <2>4. Cardinality({"tx", "rx"}) = 2
    <3>1. IsFiniteSet({"tx"}) /\ "rx" \notin {"tx"} /\ {"tx"} \cup {"rx"} = {"tx", "rx"}
      BY FS_Singleton
    <3>2. Cardinality({"tx"} \cup {"rx"}) = Cardinality({"tx"}) + 1
      BY <3>1, FS_AddElement
    <3> QED
      BY <2>3, <3>1, <3>2
  <2>5. CASE trampoline["tx"] /\ trampoline["rx"]
    <3>1. H = {"tx", "rx"}
      BY <2>1, <2>5, Sizes
    <3> QED
      BY <2>2, <2>4, <2>5, <3>1 DEF One
  <2>6. CASE trampoline["tx"] /\ ~trampoline["rx"]
    <3>1. H = {"tx"}
      BY <2>1, <2>6, Sizes
    <3> QED
      BY <2>2, <2>3, <2>6, <3>1 DEF One
  <2>7. CASE ~trampoline["tx"] /\ trampoline["rx"]
    <3>1. H = {"rx"}
      BY <2>1, <2>7, Sizes
    <3> QED
      BY <2>2, <2>3, <2>7, <3>1 DEF One
  <2>8. CASE ~trampoline["tx"] /\ ~trampoline["rx"]
    <3>1. H = {}
      BY <2>1, <2>8, Sizes
    <3> QED
      BY <2>2, <2>3, <2>8, <3>1 DEF One
  <2> QED
    BY <2>5, <2>6, <2>7, <2>8
<1>2. ASSUME CodeTyped, Code, pc = "done", NEW f \in Targets
      PROVE  written[f] \in {0, STOLEN_BYTES[f]} /\ (written[f] # 0 <=> trampoline[f])
  BY <1>2, Sizes DEF Code, Untouched, Installed
<1>3. IInv => AllOrNothing
  BY <1>1, <1>2 DEF IInv, AllOrNothing
<1> QED
  BY <1>3, Invariance, PTL

=============================================================================
