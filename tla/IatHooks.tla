------------------------------ MODULE IatHooks ------------------------------
(***************************************************************************)
(* iat.rs: the DLL's init_thread patches import-table entries of the       *)
(* game's modules one by one while the game's threads call through them,   *)
(* and the detach of the DLL at process exit writes them back.             *)
(*                                                                         *)
(* A slot is one import of send, recv, WSARecvEx or WSASend by one module; *)
(* Slots lists them in the order in which the snapshot of modules and the  *)
(* walk over each import directory meet them.  A module other than Winsock *)
(* may have put a function of its own in a slot (the Discord overlay of    *)
(* README.md:144): such a stub ends in a call through an import of its     *)
(* module.  All slots of a function share one ORIGINAL_* static.           *)
(***************************************************************************)
EXTENDS Naturals, Sequences, FiniteSets

Funcs == {"send", "recv", "WSARecvEx", "WSASend"}

CONSTANTS
  Slots,            \* records [mod, dll, by, func], in the order of the walk
  Main,             \* the module of the game's executable
  Skipped,          \* modules install_hooks skips by name
  BadImage,         \* modules that patch_module_iat returns from at once
  Protected,        \* slots whose page VirtualProtect does not open
  Resolved,         \* what each slot holds before the DLL comes
  SnapshotMayFail,  \* whether CreateToolhelp32Snapshot can fail
  Threads           \* threads of the game

Index == 1..Len(Slots)
FuncOf(i) == Slots[i].func

\* Addresses: a Winsock function, a stub that calls on through slot i, a hook of
\* the DLL, the null pointer; Idle is the place of a thread outside any call.
Winsock(f) == <<"winsock", f>>
Stub(i) == <<"stub", i>>
Hook(f) == <<"hook", f>>
Null == <<"null", 0>>
Idle == <<"idle", 0>>

Foreign == {Winsock(f) : f \in Funcs} \cup {Stub(i) : i \in Index}
Hooks == {Hook(f) : f \in Funcs}

ASSUME SlotAssumption ==
  /\ Slots \in Seq([mod : STRING, dll : {"wsock32.dll", "ws2_32.dll"},
                    by : {"ordinal", "name"}, func : Funcs])
  /\ Protected \subseteq Index
  /\ Resolved \in [Index -> Foreign]
  /\ SnapshotMayFail \in BOOLEAN

VARIABLES
  iat,              \* what each slot holds
  orig,             \* ORIGINAL_SEND, _RECV, _WSARECVEX, _WSASEND
  pc,               \* place of the thread that installs, later of the detach
  pos,              \* the slot it looks at
  whole,            \* whether it walks all modules or only the main one
  original,         \* local: the slot's content as read
  hooked,           \* thunks patched
  saved,            \* locals of uninstall_hooks: the originals as loaded
  at                \* per thread: the function it is about to run

vars == <<iat, orig, pc, pos, whole, original, hooked, saved, at>>
installVars == <<pc, pos, whole, original, hooked, saved>>

Init ==
  /\ iat = Resolved
  /\ orig = [f \in Funcs |-> Null]
  /\ pc = "start"
  /\ pos = 1
  /\ whole = TRUE
  /\ original = Null
  /\ hooked = 0
  /\ saved = [f \in Funcs |-> Null]
  /\ at = [t \in Threads |-> Idle]

-----------------------------------------------------------------------------
(***************************************************************************)
(* install_hooks on the init thread.                                       *)
(***************************************************************************)

\* WSOCK32.dll is matched by ordinal, WS2_32.dll by name, and nothing else.
Matched(i) ==
  \/ Slots[i].dll = "wsock32.dll" /\ Slots[i].by = "ordinal" /\ FuncOf(i) # "WSASend"
  \/ Slots[i].dll = "ws2_32.dll" /\ Slots[i].by = "name" /\ FuncOf(i) = "WSASend"

\* Whether the walk comes to slot i: the module is in the snapshot, or is the
\* executable when there is none, and its headers can be read.
Walked(i) ==
  /\ Slots[i].mod \notin BadImage
  /\ IF whole THEN Slots[i].mod \notin Skipped ELSE Slots[i].mod = Main

\* The snapshot of the modules; without one, the base of the executable; without
\* that, nothing.
InstallStart ==
  /\ pc = "start"
  /\ \/ /\ pc' = "scan"
        /\ whole' = TRUE
     \/ /\ SnapshotMayFail
        /\ whole' = FALSE
        /\ pc' \in {"scan", "done"}
  /\ UNCHANGED <<iat, orig, pos, original, hooked, saved, at>>

\* A slot that matches and holds neither null nor the hook is read.
InstallRead ==
  /\ pc = "scan"
  /\ pos \in Index
  /\ Walked(pos) /\ Matched(pos) /\ iat[pos] \notin {Null, Hook(FuncOf(pos))}
  /\ original' = iat[pos]
  /\ pc' = "store"
  /\ UNCHANGED <<iat, orig, pos, whole, hooked, saved, at>>

InstallPass ==
  /\ pc = "scan"
  /\ pos \in Index
  /\ ~(Walked(pos) /\ Matched(pos) /\ iat[pos] \notin {Null, Hook(FuncOf(pos))})
  /\ pos' = pos + 1
  /\ UNCHANGED <<iat, orig, pc, whole, original, hooked, saved, at>>

\* Mutated form: the first slot's original is kept.
KeepOriginalFirst(f, a) ==
  orig' = IF orig[f] = Null THEN [orig EXCEPT ![f] = a] ELSE orig

\* Mutated form: the original is not saved.
KeepOriginalNever(f, a) == UNCHANGED orig

\* ORIGINAL_f.store(a).
KeepOriginal(f, a) == orig' = [orig EXCEPT ![f] = a]

\* The original is stored before the slot is patched.
InstallStore ==
  /\ pc = "store"
  /\ KeepOriginal(FuncOf(pos), original)
  /\ pc' = "patch"
  /\ UNCHANGED <<iat, pos, whole, original, hooked, saved, at>>

\* Mutated form: a slot is counted whether its page opens or not.
CountedAnyway(i) == 1

\* What patching slot i adds to the count.
Counted(i) == IF i \in Protected THEN 0 ELSE 1

\* VirtualProtect, the write, and VirtualProtect back; or the first one fails.
InstallPatch ==
  /\ pc = "patch"
  /\ iat' = IF pos \in Protected THEN iat ELSE [iat EXCEPT ![pos] = Hook(FuncOf(pos))]
  /\ hooked' = hooked + Counted(pos)
  /\ pos' = pos + 1
  /\ pc' = "scan"
  /\ UNCHANGED <<orig, whole, original, saved, at>>

InstallDone ==
  /\ pc = "scan"
  /\ pos \notin Index
  /\ pc' = "done"
  /\ UNCHANGED <<iat, orig, pos, whole, original, hooked, saved, at>>

Install == InstallStart \/ InstallRead \/ InstallPass \/ InstallStore \/ InstallPatch \/ InstallDone

-----------------------------------------------------------------------------
(***************************************************************************)
(* The game's threads.                                                     *)
(***************************************************************************)

\* A call through a slot takes what the slot holds at that moment.
Call(t, i) ==
  /\ at[t] = Idle
  /\ pc \notin {"restore", "ended"}
  /\ at' = [at EXCEPT ![t] = iat[i]]
  /\ UNCHANGED <<iat, orig, installVars>>

\* hook_send and the others load ORIGINAL_* and call it.
RunHook(t) ==
  /\ at[t] \in Hooks
  /\ at' = [at EXCEPT ![t] = orig[at[t][2]]]
  /\ UNCHANGED <<iat, orig, installVars>>

\* A stub calls on through the slot of its own module.
RunStub(t) ==
  /\ at[t] \in {Stub(i) : i \in Index}
  /\ at' = [at EXCEPT ![t] = iat[at[t][2]]]
  /\ UNCHANGED <<iat, orig, installVars>>

Return(t) ==
  /\ at[t] \in {Winsock(f) : f \in Funcs}
  /\ at' = [at EXCEPT ![t] = Idle]
  /\ UNCHANGED <<iat, orig, installVars>>

Run(t) == RunHook(t) \/ RunStub(t) \/ Return(t)

-----------------------------------------------------------------------------
(***************************************************************************)
(* Process exit: the other threads are gone, DllMain detaches and runs     *)
(* uninstall_hooks.                                                        *)
(***************************************************************************)

\* Nothing is restored when send was never hooked or there is no snapshot.
UninstallStart ==
  /\ pc \notin {"restore", "ended"}
  /\ at' = [t \in Threads |-> Idle]
  /\ pos' = 1
  /\ saved' = orig
  /\ \/ /\ orig["send"] = Null
        /\ pc' = "ended"
     \/ /\ orig["send"] # Null
        /\ pc' \in IF SnapshotMayFail THEN {"restore", "ended"} ELSE {"restore"}
  /\ UNCHANGED <<iat, orig, whole, original, hooked>>

\* Every slot that matches, of every readable module, gets its function's one
\* saved original.
Restore ==
  /\ pc = "restore"
  /\ pos \in Index
  /\ pos' = pos + 1
  /\ iat' = IF Slots[pos].mod \notin BadImage /\ Matched(pos) /\ pos \notin Protected
            THEN [iat EXCEPT ![pos] = saved[FuncOf(pos)]] ELSE iat
  /\ UNCHANGED <<orig, pc, whole, original, hooked, saved, at>>

RestoreDone ==
  /\ pc = "restore"
  /\ pos \notin Index
  /\ pc' = "ended"
  /\ UNCHANGED <<iat, orig, pos, whole, original, hooked, saved, at>>

Uninstall == UninstallStart \/ Restore \/ RestoreDone

-----------------------------------------------------------------------------
Next ==
  \/ Install
  \/ \E t \in Threads : Run(t) \/ \E i \in Index : Call(t, i)
  \/ Uninstall

Spec == Init /\ [][Next]_vars

\* The scheduler runs every thread that is inside a call.
FairSpec == Spec /\ \A t \in Threads : WF_vars(Run(t))

-----------------------------------------------------------------------------
\* The types; a thread is nowhere but in code that exists or at null.
TypeOK ==
  /\ iat \in [Index -> Foreign \cup Hooks \cup {Null}]
  /\ orig \in [Funcs -> Foreign \cup {Null}]
  /\ pc \in {"start", "scan", "store", "patch", "done", "restore", "ended"}
  /\ pos \in 1..(Len(Slots) + 1)
  /\ whole \in BOOLEAN
  /\ original \in Foreign \cup {Null}
  /\ hooked \in 0..Len(Slots)
  /\ saved \in [Funcs -> Foreign \cup {Null}]
  /\ at \in [Threads -> Foreign \cup Hooks \cup {Null, Idle}]

\* A game thread that runs into a hook while init_thread still installs finds an
\* original there: no hooked function ever calls through a null ORIGINAL_*.
NoNullCall ==
  \A t \in Threads : at[t] # Null

\* The count install_hooks returns is the number of slots that lead into the
\* DLL.  init_thread closes the pipe on a count of zero, so a count too high
\* keeps a pipe nobody writes to, one too low closes it under live hooks.
HookCountExact ==
  pc \notin {"restore", "ended"} =>
    hooked = Cardinality({i \in Index : iat[i] \in Hooks})

\* Every call a game thread makes returns, whatever slots are patched meanwhile:
\* "handles ordinal imports, forwarders, and stubs correctly" (iat.rs:81).  It
\* depends on the walk meeting last a slot that holds no stub of a patched
\* module; otherwise hook and stub call each other for ever.
CallsReturn ==
  \A t \in Threads : at[t] # Idle ~> at[t] = Idle

=============================================================================
