------------------------------ MODULE InjectDll ------------------------------
(***************************************************************************)
(* injector.rs: find_game_pid and inject_dll, Win32 call by Win32 call,    *)
(* against the processes they are about.  A process may exit at any point, *)
(* and its pid be given to another one once no handle to it is open; the   *)
(* remote thread runs LoadLibraryW at its own pace.  CaptureSession takes  *)
(* the call's outcomes from here as InjectLaunch, InjectOk, InjectFailed.  *)
(*                                                                         *)
(* Calls of inject_dll are numbered; a call has at most one block of       *)
(* remote memory, one process handle and one remote thread.                *)
(***************************************************************************)
EXTENDS Naturals, FiniteSets

CONSTANTS
  Pids,             \* process ids, without 0
  MaxInjects        \* bound: calls of inject_dll

Injects == 1..MaxInjects

ASSUME InjectAssumption == MaxInjects \in Nat \ {0} /\ Pids \subseteq Nat \ {0}

VARIABLES
  process,          \* by pid: "game", "other", or "exited"
  loaded,           \* the pids of the processes that have wiz_hook.dll loaded
  handles,          \* by pid: the process handles wiz-packets.exe has open
  step,             \* where inject_and_start is
  n,                \* the number of the call
  pid,              \* per call: the pid that was found, 0 before
  memory,           \* per call: remote_mem: "none", "empty", "part" or "path"
  thread,           \* per call: the remote thread: "none", "started", "loading", "ended"
  ended,            \* wait_result = WAIT_OBJECT_0
  result,           \* per call: "none" yet, "ok" or "err"
  leaked,           \* history: the calls that returned past their clean-up
  got               \* history, per call: what the thread read as its path

vars == <<process, loaded, handles, step, n, pid, memory, thread, ended, result, leaked, got>>
world == <<process, loaded, thread, got>>

Running == {p \in Pids : process[p] # "exited"}

Init ==
  /\ process \in [Pids -> {"game", "other", "exited"}]
  /\ loaded = {}
  /\ handles = [p \in Pids |-> 0]
  /\ step = "idle" /\ n = 0
  /\ pid = [i \in Injects |-> 0]
  /\ memory = [i \in Injects |-> "none"]
  /\ thread = [i \in Injects |-> "none"]
  /\ ended = FALSE
  /\ result = [i \in Injects |-> "none"]
  /\ leaked = {}
  /\ got = [i \in Injects |-> "nothing"]

-----------------------------------------------------------------------------
\* "Inject Hook": find_game_pid returns the pid of a game, and the server gets its 200 ms.
\* With no game running nothing happens.
FindGame ==
  /\ step = "idle" /\ n < MaxInjects
  /\ \E p \in Pids :
       /\ process[p] = "game"
       /\ pid' = [pid EXCEPT ![n + 1] = p]
  /\ n' = n + 1 /\ step' = "open"
  /\ UNCHANGED <<world, handles, memory, ended, result, leaked>>

\* The calls end here.
Return(r) == step' = "idle" /\ result' = [result EXCEPT ![n] = r]

\* canonicalize and OpenProcess, of whatever runs under the pid by now.
Open ==
  /\ step = "open"
  /\ \/ /\ pid[n] \in Running
        /\ handles' = [handles EXCEPT ![pid[n]] = @ + 1]
        /\ step' = "alloc" /\ UNCHANGED result
     \/ Return("err") /\ UNCHANGED handles
  /\ UNCHANGED <<world, n, pid, memory, ended, leaked>>

Close == handles' = [handles EXCEPT ![pid[n]] = @ - 1]

\* VirtualAllocEx.
Alloc ==
  /\ step = "alloc"
  /\ \/ /\ pid[n] \in Running
        /\ memory' = [memory EXCEPT ![n] = "empty"]
        /\ step' = "write" /\ UNCHANGED <<handles, result>>
     \/ Close /\ Return("err") /\ UNCHANGED memory
  /\ UNCHANGED <<world, n, pid, ended, leaked>>

\* WriteProcessMemory of the path: all of it, or none, or part of it.
Written(w) ==
  /\ pid[n] \in Running /\ memory' = [memory EXCEPT ![n] = w]
  /\ step' = "resolve" /\ UNCHANGED <<handles, result>>

\* VirtualFreeEx, CloseHandle and the return.
GiveUp == memory' = [memory EXCEPT ![n] = "none"] /\ Close /\ Return("err")

\* Mutated form: bytes_written is not compared with the size.
WriteAny ==
  /\ step = "write"
  /\ Written("path") \/ Written("part") \/ GiveUp
  /\ UNCHANGED <<world, n, pid, ended, leaked>>

\* Mutated form: the handle is not closed on this way out.
WriteKeepsHandle ==
  /\ step = "write"
  /\ \/ Written("path")
     \/ /\ memory' = [memory EXCEPT ![n] = "none"]
        /\ Return("err") /\ UNCHANGED handles
  /\ UNCHANGED <<world, n, pid, ended, leaked>>

\* write_process_memory_bytes, which counts what was written.
Write ==
  /\ step = "write"
  /\ Written("path") \/ GiveUp
  /\ UNCHANGED <<world, n, pid, ended, leaked>>

\* An error handed on by `?`: neither the handle is closed nor the memory freed.
Propagate == Return("err") /\ leaked' = leaked \cup {n}

\* GetModuleHandleA and GetProcAddress, in the process of the window.
Resolve ==
  /\ step = "resolve"
  /\ \/ step' = "launch" /\ UNCHANGED <<result, leaked>>
     \/ Propagate
  /\ UNCHANGED <<world, handles, n, pid, memory, ended>>

\* CreateRemoteThread.
Launch ==
  /\ step = "launch"
  /\ \/ /\ pid[n] \in Running
        /\ thread' = [thread EXCEPT ![n] = "started"]
        /\ step' = "wait" /\ UNCHANGED <<result, leaked>>
     \/ Propagate /\ UNCHANGED thread
  /\ UNCHANGED <<process, loaded, got, handles, n, pid, memory, ended>>

\* The first wait: the thread ended, or ten seconds are over.
Wait ==
  /\ step = "wait"
  /\ step' = "poll"
  /\ UNCHANGED <<world, handles, n, pid, memory, ended, result, leaked>>

\* The second wait, which returns at once.
Poll ==
  /\ step = "poll"
  /\ ended' = (thread[n] = "ended")
  /\ step' = "release"
  /\ UNCHANGED <<world, handles, n, pid, memory, result, leaked>>

\* VirtualFreeEx, both CloseHandle, and the return.
Release ==
  /\ step = "release"
  /\ memory' = [memory EXCEPT ![n] = "none"]
  /\ Close
  /\ Return(IF ended THEN "ok" ELSE "err")
  /\ UNCHANGED <<world, n, pid, ended, leaked>>

-----------------------------------------------------------------------------
\* What the end of a process takes with it.
Gone(p) ==
  /\ process' = [process EXCEPT ![p] = "exited"]
  /\ loaded' = loaded \ {p}
  /\ thread' = [i \in Injects |-> IF pid[i] = p /\ thread[i] # "none" THEN "ended" ELSE thread[i]]
  /\ memory' = [i \in Injects |-> IF pid[i] = p THEN "none" ELSE memory[i]]

\* The remote thread copies the path.  In its place there may be nothing any more, and the
\* game ends in an access violation, or what came there since, which names no file.
ReadPath(i) ==
  /\ thread[i] = "started"
  /\ \/ /\ memory[i] # "none"
        /\ got' = [got EXCEPT ![i] = memory[i]]
        /\ thread' = [thread EXCEPT ![i] = "loading"]
        /\ UNCHANGED <<process, loaded, memory>>
     \/ /\ memory[i] = "none"
        /\ got' = [got EXCEPT ![i] = "stale"]
        /\ \/ /\ thread' = [thread EXCEPT ![i] = "ended"]
              /\ UNCHANGED <<process, loaded, memory>>
           \/ Gone(pid[i])
  /\ UNCHANGED <<handles, step, n, pid, ended, result, leaked>>

\* LoadLibraryW returns: the module, or null for a file that cannot be loaded.
Load(i) ==
  /\ thread[i] = "loading"
  /\ thread' = [thread EXCEPT ![i] = "ended"]
  /\ \/ got[i] = "path" /\ loaded' = loaded \cup {pid[i]}
     \/ UNCHANGED loaded
  /\ UNCHANGED <<process, got, handles, step, n, pid, memory, ended, result, leaked>>

\* A process ends, its memory with it.
Exit(p) ==
  /\ p \in Running
  /\ Gone(p)
  /\ UNCHANGED <<got, handles, step, n, pid, ended, result, leaked>>

\* The pid is given to a new process, once nobody holds a handle to the old one.
Start(p) ==
  /\ process[p] = "exited" /\ handles[p] = 0
  /\ \E kind \in {"game", "other"} : process' = [process EXCEPT ![p] = kind]
  /\ UNCHANGED <<loaded, thread, got, handles, step, n, pid, memory, ended, result, leaked>>

Next ==
  \/ FindGame \/ Open \/ Alloc \/ Write \/ Resolve \/ Launch \/ Wait \/ Poll \/ Release
  \/ \E i \in Injects : ReadPath(i) \/ Load(i)
  \/ \E p \in Pids : Exit(p) \/ Start(p)

Spec == Init /\ [][Next]_vars

-----------------------------------------------------------------------------
TypeOK ==
  /\ process \in [Pids -> {"game", "other", "exited"}]
  /\ loaded \subseteq Running
  /\ handles \in [Pids -> Nat]
  /\ step \in {"idle", "open", "alloc", "write", "resolve", "launch", "wait", "poll", "release"}
  /\ n \in 0..MaxInjects
  /\ pid \in [Injects -> Pids \cup {0}]
  /\ memory \in [Injects -> {"none", "empty", "part", "path"}]
  /\ thread \in [Injects -> {"none", "started", "loading", "ended"}]
  /\ ended \in BOOLEAN
  /\ result \in [Injects -> {"none", "ok", "err"}]
  /\ leaked \subseteq Injects
  /\ got \in [Injects -> {"nothing", "path", "part", "stale"}]

\* Over any number of attempts the game is left with no memory and the window with no
\* handle, but for the three returns by `?` between the write and the remote thread.
KeepsNothing ==
  /\ \A i \in Injects : result[i] # "none" /\ i \notin leaked => memory[i] = "none"
  /\ \A p \in Pids :
       handles[p] = Cardinality({i \in leaked : pid[i] = p})
                    + IF step \notin {"idle", "open"} /\ pid[n] = p THEN 1 ELSE 0

\* The remote thread loads the whole path or finds its memory gone, and the latter only
\* after a wait of ten seconds, which ended the injection with an error.
PathReadWhole ==
  \A i \in Injects :
    /\ got[i] # "part"
    /\ got[i] = "stale" => result[i] = "err" /\ i \notin leaked

=============================================================================
