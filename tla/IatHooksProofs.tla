--------------------------- MODULE IatHooksProofs ---------------------------
(***************************************************************************)
(* Proofs about IatHooks, for any modules, imports, stubs and threads.     *)
(*                                                                         *)
(* Between the load of the DLL and its detach (Live), a slot that leads to *)
(* a hook has an original behind it, because init_thread stores before it  *)
(* patches (Backed); so has a thread that stands in a hook, and nothing    *)
(* that is called is null.  AtSlot is what init_thread knows of the slot   *)
(* between its read and its write: nobody else writes slots.               *)
(***************************************************************************)
EXTENDS IatHooks, FiniteSetTheorems, SequenceTheorems, TLAPS

Live == pc \notin {"restore", "ended"}

HookedSlots == {i \in Index : iat[i] \in Hooks}

AtSlot ==
  /\ pc \in {"store", "patch"} => /\ pos \in Index
                                  /\ original = iat[pos]
                                  /\ original \in Foreign
  /\ pc = "patch" => orig[FuncOf(pos)] \in Foreign

Backed ==
  /\ Live => \A i \in Index : iat[i] # Null
  /\ Live => \A i \in Index : iat[i] \in Hooks => iat[i] = Hook(FuncOf(i))
  /\ Live => \A f \in Funcs : (\E i \in Index : iat[i] = Hook(f)) => orig[f] \in Foreign
  /\ \A t \in Threads : at[t] # Null
  /\ \A t \in Threads, f \in Funcs : at[t] = Hook(f) => orig[f] \in Foreign
  /\ ~Live => \A t \in Threads : at[t] = Idle

IInv ==
  /\ TypeOK
  /\ Live => hooked < pos
  /\ AtSlot
  /\ Backed
  /\ HookCountExact

-----------------------------------------------------------------------------
\* The kinds of addresses are apart.
LEMMA Apart ==
  /\ \A f \in Funcs : Hook(f) \in Hooks /\ Hook(f) # Null /\ Hook(f) # Idle
  /\ \A a \in Foreign : a \notin Hooks /\ a # Null /\ a # Idle
  /\ Null \notin Hooks /\ Idle \notin Hooks /\ Null # Idle
  /\ \A f, g \in Funcs : Hook(f) = Hook(g) => f = g
BY DEF Hooks, Foreign, Hook, Null, Idle, Winsock, Stub

\* Slots are numbered by naturals and name a function.
LEMMA SlotFunc == Len(Slots) \in Nat /\ \A i \in Index : FuncOf(i) \in Funcs
<1>1. Len(Slots) \in Nat
  BY SlotAssumption
<1>2. ASSUME NEW i \in Index PROVE Slots[i] \in [mod : STRING, dll : {"wsock32.dll", "ws2_32.dll"},
                                              by : {"ordinal", "name"}, func : Funcs]
  BY SlotAssumption, <1>1, ElementOfSeq DEF Index
<1> QED
  BY <1>1, <1>2 DEF FuncOf

\* The initial state satisfies the invariant.
LEMMA InvInit == Init => IInv
<1> HAVE Init
<1>1. TypeOK
  BY SlotAssumption, SlotFunc DEF Init, TypeOK, Index
<1>2. \A i \in Index : iat[i] \in Foreign
  BY SlotAssumption DEF Init
<1>3. HookedSlots = {}
  BY <1>2, Apart DEF HookedSlots
<1>4. HookCountExact
  BY <1>3, FS_EmptySet DEF Init, HookCountExact, HookedSlots
<1>5. Backed
  BY <1>2, Apart DEF Init, Backed
<1>6. AtSlot /\ hooked < pos
  BY DEF Init, AtSlot
<1> QED
  BY <1>1, <1>4, <1>5, <1>6 DEF IInv

\* Every step keeps the types, the bound on the count, and what is known of the
\* slot at hand.
LEMMA TypedStep ==
  TypeOK /\ (Live => hooked < pos) /\ AtSlot /\ Backed /\ [Next]_vars
    => TypeOK' /\ (Live => hooked < pos)' /\ AtSlot'
<1> SUFFICES ASSUME TypeOK, Live => hooked < pos, AtSlot, Backed, [Next]_vars
             PROVE  TypeOK' /\ (Live => hooked < pos)' /\ AtSlot'
  OBVIOUS
<1> USE SlotFunc DEF TypeOK, AtSlot, Live, installVars
<1>1. CASE InstallStart
  BY <1>1 DEF InstallStart
<1>2. CASE InstallRead
  <2>1. iat[pos] \in Foreign
    BY <1>2 DEF InstallRead, Backed
  <2> QED
    BY <1>2, <2>1 DEF InstallRead
<1>3. CASE InstallPass
  BY <1>3 DEF InstallPass, Index
<1>4. CASE InstallStore
  BY <1>4 DEF InstallStore, KeepOriginal
<1>5. CASE InstallPatch
  BY <1>5, Apart DEF InstallPatch, Counted, Index
<1>6. CASE InstallDone
  BY <1>6 DEF InstallDone
<1>7. ASSUME NEW t \in Threads, NEW i \in Index, Call(t, i)
      PROVE  TypeOK' /\ (Live => hooked < pos)' /\ AtSlot'
  BY <1>7 DEF Call
<1>8. ASSUME NEW t \in Threads, Run(t)
      PROVE  TypeOK' /\ (Live => hooked < pos)' /\ AtSlot'
  <2>1. CASE RunHook(t)
    <3>1. orig[at[t][2]] \in Foreign \cup {Null}
      BY <2>1 DEF RunHook, Hooks, Hook
    <3> QED
      BY <2>1, <3>1 DEF RunHook
  <2>2. CASE RunStub(t)
    <3>1. iat[at[t][2]] \in Foreign \cup Hooks \cup {Null}
      BY <2>2 DEF RunStub, Stub
    <3> QED
      BY <2>2, <3>1 DEF RunStub
  <2>3. CASE Return(t)
    BY <2>3 DEF Return
  <2> QED
    BY <1>8, <2>1, <2>2, <2>3 DEF Run
<1>9. CASE UninstallStart
  BY <1>9 DEF UninstallStart
<1>10. CASE Restore
  BY <1>10 DEF Restore, Index
<1>11. CASE RestoreDone
  BY <1>11 DEF RestoreDone
<1>12. CASE UNCHANGED vars
  BY <1>12 DEF vars
<1> QED
  BY <1>1, <1>2, <1>3, <1>4, <1>5, <1>6, <1>7, <1>8, <1>9, <1>10, <1>11, <1>12
     DEF Next, Install, Uninstall

\* Every step keeps an original behind every hook that can be reached.
LEMMA BackedStep == TypeOK /\ AtSlot /\ Backed /\ [Next]_vars => Backed'
<1> SUFFICES ASSUME TypeOK, AtSlot, Backed, [Next]_vars PROVE Backed'
  OBVIOUS
<1> USE SlotFunc, Apart DEF TypeOK, Backed, Live, installVars
<1>0. ASSUME NEW t \in Threads, NEW i \in Index, Live,
             at' = [at EXCEPT ![t] = iat[i]], UNCHANGED <<iat, orig, pc>>
      PROVE  Backed'
  <2>1. iat[i] # Null
    BY <1>0
  <2>0. ASSUME NEW f \in Funcs, iat[i] = Hook(f) PROVE orig[f] \in Foreign
    BY <1>0, <2>0
  <2>2. \A u \in Threads : at'[u] = at[u] \/ at'[u] = iat[i]
    BY <1>0
  <2>3. /\ \A u \in Threads : at'[u] # Null
        /\ \A u \in Threads, f \in Funcs : at'[u] = Hook(f) => orig[f] \in Foreign
    BY <2>0, <2>1, <2>2, <1>0
  <2> QED
    BY <1>0, <2>3
<1>1. CASE InstallStart \/ InstallRead \/ InstallPass \/ InstallDone
  BY <1>1 DEF InstallStart, InstallRead, InstallPass, InstallDone
<1>2. CASE InstallStore
  BY <1>2 DEF InstallStore, KeepOriginal, AtSlot
<1>3. CASE InstallPatch
  <2>1. pos \in Index /\ Live /\ Live' /\ UNCHANGED <<orig, at>>
    BY <1>3 DEF InstallPatch, AtSlot
  <2>2. \A i \in Index : iat'[i] = iat[i] \/ (i = pos /\ iat'[i] = Hook(FuncOf(pos)))
    BY <1>3 DEF InstallPatch
  <2>3. orig[FuncOf(pos)] \in Foreign
    BY <1>3 DEF InstallPatch, AtSlot
  <2>4. ASSUME NEW i \in Index
        PROVE  iat'[i] # Null /\ (iat'[i] \in Hooks => iat'[i] = Hook(FuncOf(i)))
    <3>1. CASE iat'[i] = iat[i]
      <4>1. iat[i] # Null /\ (iat[i] \in Hooks => iat[i] = Hook(FuncOf(i)))
        BY <2>1
      <4> QED
        BY <3>1, <4>1
    <3>2. CASE i = pos /\ iat'[i] = Hook(FuncOf(pos))
      <4>1. FuncOf(pos) \in Funcs
        BY <2>1
      <4> QED
        BY <3>2, <4>1
    <3> QED
      BY <2>2, <3>1, <3>2
  <2>5. ASSUME NEW f \in Funcs, NEW i \in Index, iat'[i] = Hook(f) PROVE orig[f] \in Foreign
    BY <2>1, <2>2, <2>3, <2>5
  <2> QED
    BY <2>1, <2>4, <2>5
<1>4. ASSUME NEW t \in Threads, NEW i \in Index, Call(t, i) PROVE Backed'
  BY <1>0, <1>4 DEF Call
<1>5. ASSUME NEW t \in Threads, Run(t) PROVE Backed'
  <2>1. CASE RunHook(t)
    <3>1. PICK f \in Funcs : at[t] = Hook(f)
      BY <2>1 DEF RunHook, Hooks
    <3>2. at[t][2] = f
      BY <3>1 DEF Hook
    <3>3. at' = [at EXCEPT ![t] = orig[f]] /\ orig[f] \in Foreign
      BY <2>1, <3>1, <3>2 DEF RunHook
    <3> QED
      BY <2>1, <3>3 DEF RunHook
  <2>2. CASE RunStub(t)
    <3>1. PICK i \in Index : at[t] = Stub(i)
      BY <2>2 DEF RunStub
    <3>2. at[t][2] = i /\ at[t] # Idle
      BY <3>1 DEF Stub, Idle
    <3>3. at' = [at EXCEPT ![t] = iat[i]] /\ Live
      BY <2>2, <3>2 DEF RunStub
    <3> QED
      BY <1>0, <2>2, <3>3 DEF RunStub
  <2>3. CASE Return(t)
    BY <2>3 DEF Return
  <2> QED
    BY <1>5, <2>1, <2>2, <2>3 DEF Run
<1>6. CASE Uninstall
  BY <1>6 DEF Uninstall, UninstallStart, Restore, RestoreDone
<1>7. CASE UNCHANGED vars
  BY <1>7 DEF vars
<1> QED
  BY <1>1, <1>2, <1>3, <1>4, <1>5, <1>6, <1>7 DEF Next, Install

\* The hooked slots can be counted.
LEMMA HookedFinite == IsFiniteSet(HookedSlots)
<1>1. IsFiniteSet(Index)
  BY FS_Interval, SlotFunc DEF Index
<1> QED
  BY <1>1, FS_Subset DEF HookedSlots

\* Every step keeps the count equal to the number of hooked slots.
LEMMA CountStep == TypeOK /\ AtSlot /\ HookCountExact /\ [Next]_vars => HookCountExact'
<1> SUFFICES ASSUME TypeOK, AtSlot, HookCountExact, [Next]_vars PROVE HookCountExact'
  OBVIOUS
<1>1. HookCountExact <=> (Live => hooked = Cardinality(HookedSlots))
  BY DEF HookCountExact, Live, HookedSlots
<1>2. HookCountExact' <=> (Live' => hooked' = Cardinality(HookedSlots'))
  BY DEF HookCountExact, Live, HookedSlots
<1>3. ASSUME UNCHANGED <<iat, hooked>>, Live' => Live PROVE HookCountExact'
  BY <1>1, <1>2, <1>3 DEF HookedSlots
<1>4. CASE InstallPatch
  <2>1. CASE pos \in Protected
    BY <1>1, <1>2, <1>4, <2>1, SlotFunc DEF InstallPatch, Counted, HookedSlots, TypeOK, Live
  <2>2. CASE pos \notin Protected
    <3>1. pos \in Index /\ pos \notin HookedSlots
      BY <1>4, Apart DEF InstallPatch, AtSlot, HookedSlots
    <3>2. HookedSlots' = HookedSlots \cup {pos}
      BY <1>4, <2>2, <3>1, Apart, SlotFunc DEF InstallPatch, HookedSlots, TypeOK
    <3>3. Cardinality(HookedSlots') = Cardinality(HookedSlots) + 1
      BY <3>1, <3>2, HookedFinite, FS_AddElement
    <3> QED
      BY <1>1, <1>2, <1>4, <2>2, <3>3 DEF InstallPatch, Counted, Live
  <2> QED
    BY <2>1, <2>2
<1>5. CASE Install
  BY <1>3, <1>4, <1>5 DEF Install, InstallStart, InstallRead, InstallPass, InstallStore,
     InstallDone, Live
<1>6. ASSUME NEW t \in Threads, Run(t) \/ \E i \in Index : Call(t, i) PROVE HookCountExact'
  BY <1>3, <1>6 DEF Run, RunHook, RunStub, Return, Call, Live, installVars
<1>7. CASE Uninstall
  BY <1>2, <1>7 DEF Uninstall, UninstallStart, Restore, RestoreDone, Live
<1>8. CASE UNCHANGED vars
  BY <1>3, <1>8 DEF vars, Live
<1> QED
  BY <1>5, <1>6, <1>7, <1>8 DEF Next

-----------------------------------------------------------------------------
\* The invariant holds in every reachable state.
THEOREM Invariance == Spec => []IInv
<1>1. IInv /\ [Next]_vars => IInv'
  BY TypedStep, BackedStep, CountStep DEF IInv
<1> QED
  BY <1>1, InvInit, PTL DEF Spec

\* Every variable keeps its type; in particular an ORIGINAL_* never holds one of
\* the DLL's own hooks.
THEOREM TypeCorrect == Spec => []TypeOK
<1>1. IInv => TypeOK
  BY DEF IInv
<1> QED
  BY <1>1, Invariance, PTL

\* No thread of the game ever runs into a null pointer through a hook.
THEOREM HooksHaveOriginals == Spec => []NoNullCall
<1>1. IInv => NoNullCall
  BY DEF IInv, Backed, NoNullCall
<1> QED
  BY <1>1, Invariance, PTL

\* The count init_thread decides by is exact.
THEOREM CountCorrect == Spec => []HookCountExact
<1>1. IInv => HookCountExact
  BY DEF IInv
<1> QED
  BY <1>1, Invariance, PTL

=============================================================================
