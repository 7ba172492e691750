--------------------------- MODULE CaptureSession ---------------------------
(***************************************************************************)
(* The life of a capture session across its two processes: the GUI thread  *)
(* of wiz-packets.exe (gui.rs), the pipe-server thread that each click on  *)
(* "Inject Hook" starts (pipe_reader.rs), and, inside the game, the DLL's  *)
(* init thread (lib.rs, pipe.rs) and the game's own threads running        *)
(* write_capture from a hook.  Either process may die at any point and be  *)
(* started again.                                                          *)
(*                                                                         *)
(* Sessions are numbered by the click that created them; session g has its *)
(* own shutdown flag, channel, server thread and pipe instance.  All       *)
(* instances share one pipe name, so a client may get any that listens.    *)
(* A frame is the <<thread, n>> of the n-th hooked call of a game thread.  *)
(***************************************************************************)
EXTENDS Naturals, Sequences, FiniteSets

CONSTANTS
  GameThreads,      \* threads of the game that reach a hooked function
  MaxInjects,       \* bound: clicks on "Inject Hook"
  MaxGames,         \* bound: game processes started
  MaxCalls,         \* bound: hooked calls per game thread
  MAX_RETRIES,      \* attempts of pipe::connect (10 in the code)
  PipeCap,          \* bound: frames the kernel buffers for an instance
  Oversize          \* frames whose total_len read_from_pipe refuses (> 10,000,000)

Sessions == 1..MaxInjects
Frame == GameThreads \X (1..MaxCalls)

ASSUME ConstAssumption ==
  /\ MaxInjects \in Nat \ {0}
  /\ MaxGames \in Nat \ {0}
  /\ MaxCalls \in Nat
  /\ MAX_RETRIES \in Nat \ {0}
  /\ PipeCap \in Nat \ {0}
  /\ Oversize \subseteq Frame

VARIABLES
  \* wiz-packets.exe, the GUI thread
  gui,              \* where inject_and_start is: "idle", "starting", "waiting"
  hooked,           \* PacketLoggerApp.hooked; rx is Some(_) exactly when it holds
  gen,              \* the latest session; self.shutdown is shutdown[gen]
  shown,            \* history: the captures moved into the packet list
  \* shared by the GUI thread and a server thread
  shutdown,         \* the session's AtomicBool
  rxOpen,           \* whether the Receiver of the session's channel still exists
  chan,             \* the crossbeam channel, unbounded
  \* wiz-packets.exe, the pipe-server threads
  srv,              \* program counter of a server thread
  held,             \* the frame it has parsed and not sent, as a sequence
  \* the kernel
  inst,             \* state of the server thread's current pipe instance
  pipe,             \* frames written to that instance and not read
  loader,           \* the remote LoadLibraryW thread of a session's injection
  \* the game process
  game,             \* whether it runs
  games,            \* how many have been started
  init,             \* the DLL's init_thread; "absent" while the DLL is not loaded
  attempt,          \* failed attempts of pipe::connect
  peer,             \* PIPE_HANDLE: the session it was opened on, 0 if INVALID
  connected,        \* PIPE_CONNECTED
  hooksLive,        \* whether some hook is in place
  writer,           \* per thread: "idle", or "write" past the flag test
  calls             \* per thread: hooked calls so far

guiVars  == <<gui, hooked, gen, shown>>
sessVars == <<shutdown, rxOpen, chan>>
srvVars  == <<srv, held>>
kernVars == <<inst, pipe>>
dllVars  == <<init, attempt, peer, connected, hooksLive, writer>>
gameVars == <<game, games, calls>>
vars == <<guiVars, sessVars, srvVars, kernVars, loader, dllVars, gameVars>>

GuiPcs == {"idle", "starting", "waiting"}
SrvPcs == {"none", "top", "create", "accept", "loop", "read", "send", "close", "done"}
InitPcs == {"absent", "connect", "gaveup", "install", "done", "nohooks"}

Flags == [Sessions -> BOOLEAN]
Queues == [Sessions -> Seq(Frame)]
Servers == [Sessions -> SrvPcs]
Instances == [Sessions -> {"none", "listening", "connected", "broken"}]
Loaders == [Sessions -> {"none", "running", "done"}]
Writers == [GameThreads -> {"idle", "write"}]
Counts == [GameThreads -> 0..MaxCalls]

Init ==
  /\ gui = "idle"
  /\ hooked = FALSE
  /\ gen = 0
  /\ shown = <<>>
  /\ shutdown = [g \in Sessions |-> FALSE]
  /\ rxOpen = [g \in Sessions |-> FALSE]
  /\ chan = [g \in Sessions |-> <<>>]
  /\ srv = [g \in Sessions |-> "none"]
  /\ held = [g \in Sessions |-> <<>>]
  /\ inst = [g \in Sessions |-> "none"]
  /\ pipe = [g \in Sessions |-> <<>>]
  /\ loader = [g \in Sessions |-> "none"]
  /\ game = TRUE
  /\ games = 1
  /\ init = "absent"
  /\ attempt = 0
  /\ peer = 0
  /\ connected = FALSE
  /\ hooksLive = FALSE
  /\ writer = [t \in GameThreads |-> "idle"]
  /\ calls = [t \in GameThreads |-> 0]

-----------------------------------------------------------------------------
(***************************************************************************)
(* The GUI thread.  inject_and_start blocks it: first the sleep that lets  *)
(* the server create its instance, then the wait of inject_dll.            *)
(***************************************************************************)

\* Mutated form: the receiver goes, the server is never told.
EndSessionQuietly(g) ==
  /\ rxOpen' = [rxOpen EXCEPT ![g] = FALSE]
  /\ chan' = [chan EXCEPT ![g] = <<>>]
  /\ UNCHANGED shutdown

\* What a failed injection and "Stop Hook" do to the session: raise its flag
\* and drop the Receiver with what it holds.  The server thread may be blocked
\* in the kernel and is not woken.
EndSession(g) ==
  /\ shutdown' = [shutdown EXCEPT ![g] = TRUE]
  /\ rxOpen' = [rxOpen EXCEPT ![g] = FALSE]
  /\ chan' = [chan EXCEPT ![g] = <<>>]

\* "Inject Hook": a game was found, the session's server thread is spawned.
InjectStart ==
  /\ gui = "idle"
  /\ ~hooked
  /\ game
  /\ gen < MaxInjects
  /\ gen' = gen + 1
  /\ gui' = "starting"
  /\ rxOpen' = [rxOpen EXCEPT ![gen + 1] = TRUE]
  /\ srv' = [srv EXCEPT ![gen + 1] = "top"]
  /\ UNCHANGED <<hooked, shown, shutdown, chan, held, kernVars, loader, dllVars, gameVars>>

\* inject_dll starts LoadLibraryW in the game.
InjectLaunch ==
  /\ gui = "starting"
  /\ game
  /\ gui' = "waiting"
  /\ loader' = [loader EXCEPT ![gen] = "running"]
  /\ UNCHANGED <<hooked, gen, shown, sessVars, srvVars, kernVars, dllVars, gameVars>>

\* inject_dll returned Ok: the remote thread ended within ten seconds.  What
\* LoadLibraryW returned there is not looked at.
InjectOk ==
  /\ gui = "waiting"
  /\ loader[gen] = "done"
  /\ gui' = "idle"
  /\ hooked' = TRUE
  /\ UNCHANGED <<gen, shown, sessVars, srvVars, kernVars, loader, dllVars, gameVars>>

\* inject_dll returned Err: a step before the remote thread failed, or that
\* thread still runs after the wait, and runs on.
InjectFailed ==
  /\ \/ gui = "starting"
     \/ gui = "waiting" /\ loader[gen] = "running"
  /\ gui' = "idle"
  /\ EndSession(gen)
  /\ UNCHANGED <<hooked, gen, shown, srvVars, kernVars, loader, dllVars, gameVars>>

\* "Stop Hook".
StopHook ==
  /\ gui = "idle"
  /\ hooked
  /\ hooked' = FALSE
  /\ EndSession(gen)
  /\ UNCHANGED <<gui, gen, shown, srvVars, kernVars, loader, dllVars, gameVars>>

\* process_incoming_packets, run by every repaint: rx.try_iter() takes all.
ProcessIncoming ==
  /\ gui = "idle"
  /\ hooked
  /\ chan[gen] # <<>>
  /\ shown' = shown \o chan[gen]
  /\ chan' = [chan EXCEPT ![gen] = <<>>]
  /\ UNCHANGED <<gui, hooked, gen, shutdown, rxOpen, srvVars, kernVars, loader,
                 dllVars, gameVars>>

\* The window is closed or the process dies: every server thread goes with
\* it and the kernel closes its pipe ends.  The next process starts clean.
GuiExit ==
  /\ gui' = "idle"
  /\ hooked' = FALSE
  /\ rxOpen' = [g \in Sessions |-> FALSE]
  /\ chan' = [g \in Sessions |-> <<>>]
  /\ srv' = [g \in Sessions |-> IF g <= gen THEN "done" ELSE "none"]
  /\ held' = [g \in Sessions |-> <<>>]
  /\ inst' = [g \in Sessions |-> "none"]
  /\ pipe' = [g \in Sessions |-> <<>>]
  /\ UNCHANGED <<gen, shown, shutdown, loader, dllVars, gameVars>>

-----------------------------------------------------------------------------
(***************************************************************************)
(* A server thread: run_pipe_server with read_from_pipe inside it.         *)
(***************************************************************************)

\* Mutated form: the handle is forgotten, the instance stays.
ForgetInstance(g) == UNCHANGED kernVars

\* CloseHandle, after DisconnectNamedPipe or not: the instance goes with the
\* data nobody read.
CloseInstance(g) ==
  /\ inst' = [inst EXCEPT ![g] = "none"]
  /\ pipe' = [pipe EXCEPT ![g] = <<>>]

\* Mutated form: the outer loop never tests the flag.
ServerTopNoTest(g) ==
  /\ srv[g] = "top"
  /\ srv' = [srv EXCEPT ![g] = "create"]
  /\ UNCHANGED <<guiVars, sessVars, held, kernVars, loader, dllVars, gameVars>>

\* The test of the flag at the head of the outer loop.
ServerTop(g) ==
  /\ srv[g] = "top"
  /\ srv' = [srv EXCEPT ![g] = IF shutdown[g] THEN "done" ELSE "create"]
  /\ UNCHANGED <<guiVars, sessVars, held, kernVars, loader, dllVars, gameVars>>

\* CreateNamedPipeW: from here on a client can open the instance.  A failed
\* call sleeps and returns to the test of the flag.
ServerCreate(g) ==
  /\ srv[g] = "create"
  /\ \/ /\ srv' = [srv EXCEPT ![g] = "accept"]
        /\ inst' = [inst EXCEPT ![g] = "listening"]
     \/ /\ srv' = [srv EXCEPT ![g] = "top"]
        /\ UNCHANGED inst
  /\ UNCHANGED <<guiVars, sessVars, held, pipe, loader, dllVars, gameVars>>

\* ConnectNamedPipe returns: a client is there, or was.  For one that came
\* before the call and has left already it fails, and the instance is closed.
ServerAccept(g) ==
  /\ srv[g] = "accept"
  /\ \/ /\ inst[g] \in {"connected", "broken"}
        /\ srv' = [srv EXCEPT ![g] = "loop"]
        /\ UNCHANGED kernVars
     \/ /\ inst[g] = "broken"
        /\ srv' = [srv EXCEPT ![g] = "top"]
        /\ CloseInstance(g)
  /\ UNCHANGED <<guiVars, sessVars, held, loader, dllVars, gameVars>>

\* The test of the flag at the head of read_from_pipe's loop.
ServerLoop(g) ==
  /\ srv[g] = "loop"
  /\ srv' = [srv EXCEPT ![g] = IF shutdown[g] THEN "close" ELSE "read"]
  /\ UNCHANGED <<guiVars, sessVars, held, kernVars, loader, dllVars, gameVars>>

\* Mutated form: the reader takes the end of the client for the end of the data.
ServerReadGivesUp(g) ==
  /\ srv[g] = "read"
  /\ \/ /\ pipe[g] # <<>>
        /\ inst[g] # "broken"
        /\ held' = [held EXCEPT ![g] = <<Head(pipe[g])>>]
        /\ pipe' = [pipe EXCEPT ![g] = Tail(@)]
        /\ srv' = [srv EXCEPT ![g] = "send"]
     \/ /\ inst[g] = "broken"
        /\ srv' = [srv EXCEPT ![g] = "close"]
        /\ UNCHANGED <<held, pipe>>
  /\ UNCHANGED <<guiVars, sessVars, inst, loader, dllVars, gameVars>>

\* Header and body of the next frame, through parse_frame.  The reads block
\* while the client is there and silent; what a dead client left is read.  A
\* total_len out of bounds ends the connection, its body unread.
ServerRead(g) ==
  /\ srv[g] = "read"
  /\ \/ /\ pipe[g] # <<>>
        /\ Head(pipe[g]) \notin Oversize
        /\ held' = [held EXCEPT ![g] = <<Head(pipe[g])>>]
        /\ pipe' = [pipe EXCEPT ![g] = Tail(@)]
        /\ srv' = [srv EXCEPT ![g] = "send"]
     \/ /\ IF pipe[g] = <<>> THEN inst[g] = "broken" ELSE Head(pipe[g]) \in Oversize
        /\ srv' = [srv EXCEPT ![g] = "close"]
        /\ UNCHANGED <<held, pipe>>
  /\ UNCHANGED <<guiVars, sessVars, inst, loader, dllVars, gameVars>>

\* Mutated form: a frame the channel takes is not cleared from the thread.
ServerSendRepeats(g) ==
  /\ srv[g] = "send"
  /\ Len(chan[g]) < 2
  /\ \/ /\ rxOpen[g]
        /\ chan' = [chan EXCEPT ![g] = @ \o held[g]]
        /\ srv' = [srv EXCEPT ![g] = "loop"]
        /\ UNCHANGED held
     \/ /\ ~rxOpen[g]
        /\ held' = [held EXCEPT ![g] = <<>>]
        /\ srv' = [srv EXCEPT ![g] = "close"]
        /\ UNCHANGED chan
  /\ UNCHANGED <<guiVars, shutdown, rxOpen, kernVars, loader, dllVars, gameVars>>

\* tx.send: it fails once the GUI has dropped the receiver.
ServerSend(g) ==
  /\ srv[g] = "send"
  /\ held' = [held EXCEPT ![g] = <<>>]
  /\ \/ /\ rxOpen[g]
        /\ chan' = [chan EXCEPT ![g] = @ \o held[g]]
        /\ srv' = [srv EXCEPT ![g] = "loop"]
     \/ /\ ~rxOpen[g]
        /\ srv' = [srv EXCEPT ![g] = "close"]
        /\ UNCHANGED chan
  /\ UNCHANGED <<guiVars, shutdown, rxOpen, kernVars, loader, dllVars, gameVars>>

\* DisconnectNamedPipe and CloseHandle.
ServerClose(g) ==
  /\ srv[g] = "close"
  /\ srv' = [srv EXCEPT ![g] = "top"]
  /\ CloseInstance(g)
  /\ UNCHANGED <<guiVars, sessVars, held, loader, dllVars, gameVars>>

Server(g) ==
  \/ ServerTop(g)
  \/ ServerCreate(g)
  \/ ServerAccept(g)
  \/ ServerLoop(g)
  \/ ServerRead(g)
  \/ ServerSend(g)
  \/ ServerClose(g)

-----------------------------------------------------------------------------
(***************************************************************************)
(* The DLL in the game: init_thread, and write_capture on game threads.    *)
(***************************************************************************)

\* The remote LoadLibraryW of session g ends.  Only the first load of the
\* process runs DllMain's attach and so starts an init_thread; a later one
\* counts a reference, and a failed one does nothing.
RemoteLoad(g) ==
  /\ game
  /\ loader[g] = "running"
  /\ loader' = [loader EXCEPT ![g] = "done"]
  /\ init' \in IF init = "absent" THEN {"absent", "connect"} ELSE {init}
  /\ UNCHANGED <<guiVars, sessVars, srvVars, kernVars, attempt, peer, connected,
                 hooksLive, writer, gameVars>>

\* Where init_thread goes after its n-th failed attempt to connect.
AfterFailure(n) == IF n = MAX_RETRIES THEN "gaveup" ELSE "connect"

\* One attempt of pipe::connect.  Any listening instance of the name will do;
\* without one the attempt fails.
PipeConnect ==
  /\ init = "connect"
  /\ \/ \E g \in Sessions :
          /\ inst[g] = "listening"
          /\ inst' = [inst EXCEPT ![g] = "connected"]
          /\ peer' = g
          /\ connected' = TRUE
          /\ init' = "install"
          /\ UNCHANGED attempt
     \/ /\ \A g \in Sessions : inst[g] # "listening"
        /\ attempt' = attempt + 1
        /\ init' = AfterFailure(attempt + 1)
        /\ UNCHANGED <<inst, peer, connected>>
  /\ UNCHANGED <<guiVars, sessVars, srvVars, pipe, loader, hooksLive, writer, gameVars>>

\* iat::install_hooks or install_game_hooks puts its first hook in place:
\* game threads reach it while the installation goes on.
FirstHook ==
  /\ init = "install"
  /\ ~hooksLive
  /\ hooksLive' = TRUE
  /\ UNCHANGED <<guiVars, sessVars, srvVars, kernVars, loader, init, attempt, peer,
                 connected, writer, gameVars>>

\* What the death of the client end does to each instance.
ClientGone == [g \in Sessions |-> IF inst[g] = "connected" THEN "broken" ELSE inst[g]]

\* Mutated form: the pipe is given up when the game hooks did not all install.
InstallEndStrict ==
  /\ init = "install"
  /\ init' = "nohooks"
  /\ connected' = FALSE
  /\ peer' = 0
  /\ inst' = ClientGone
  /\ UNCHANGED <<guiVars, sessVars, srvVars, pipe, loader, attempt, hooksLive, writer,
                 gameVars>>

\* The end of init_thread: without any hook it calls pipe::disconnect.
InstallEnd ==
  /\ init = "install"
  /\ \/ /\ hooksLive
        /\ init' = "done"
        /\ UNCHANGED <<inst, peer, connected>>
     \/ /\ ~hooksLive
        /\ init' = "nohooks"
        /\ connected' = FALSE
        /\ peer' = 0
        /\ inst' = ClientGone
  /\ UNCHANGED <<guiVars, sessVars, srvVars, pipe, loader, attempt, hooksLive, writer,
                 gameVars>>

\* A hooked call of thread t reaches write_capture and tests the flag.
HookedCall(t) ==
  /\ hooksLive
  /\ writer[t] = "idle"
  /\ calls[t] < MaxCalls
  /\ calls' = [calls EXCEPT ![t] = @ + 1]
  /\ writer' = [writer EXCEPT ![t] = IF connected THEN "write" ELSE "idle"]
  /\ UNCHANGED <<guiVars, sessVars, srvVars, kernVars, loader, init, attempt, peer,
                 connected, hooksLive, game, games>>

\* Whether PIPE_HANDLE leads to a live connection.
HandleUp == peer # 0 /\ inst[peer] = "connected"

\* Mutated form: the handle writes without waiting, a full pipe is an error.
WriteFailsWhenFull(t) ==
  /\ writer[t] = "write"
  /\ ~HandleUp \/ Len(pipe[peer]) >= PipeCap
  /\ connected' = FALSE
  /\ writer' = [writer EXCEPT ![t] = "idle"]
  /\ UNCHANGED <<guiVars, sessVars, srvVars, kernVars, loader, init, attempt, peer,
                 hooksLive, gameVars>>

\* WriteFile fails: the other end is closed.  The flag is lowered for good;
\* nothing connects again.
WriteFails(t) ==
  /\ writer[t] = "write"
  /\ ~HandleUp
  /\ connected' = FALSE
  /\ writer' = [writer EXCEPT ![t] = "idle"]
  /\ UNCHANGED <<guiVars, sessVars, srvVars, kernVars, loader, init, attempt, peer,
                 hooksLive, gameVars>>

\* WriteFile succeeds.  The handle is synchronous and the pipe a byte pipe in
\* wait mode: a write waits for room, is complete, and is never interleaved.
WriteSucceeds(t) ==
  /\ writer[t] = "write"
  /\ HandleUp
  /\ Len(pipe[peer]) < PipeCap
  /\ pipe' = [pipe EXCEPT ![peer] = Append(@, <<t, calls[t]>>)]
  /\ writer' = [writer EXCEPT ![t] = "idle"]
  /\ UNCHANGED <<guiVars, sessVars, srvVars, inst, loader, init, attempt, peer,
                 connected, hooksLive, gameVars>>

Write(t) == WriteFails(t) \/ WriteSucceeds(t)

\* The game exits or crashes: the DLL's statics and threads go with it, the
\* kernel closes the pipe's client end, a remote thread ends.
GameExit ==
  /\ game
  /\ game' = FALSE
  /\ loader' = [g \in Sessions |-> IF loader[g] = "running" THEN "done" ELSE loader[g]]
  /\ init' = "absent"
  /\ attempt' = 0
  /\ peer' = 0
  /\ connected' = FALSE
  /\ hooksLive' = FALSE
  /\ writer' = [t \in GameThreads |-> "idle"]
  /\ inst' = ClientGone
  /\ UNCHANGED <<guiVars, sessVars, srvVars, pipe, games, calls>>

\* The player starts the game again.  That takes longer than the 200 ms of
\* inject_and_start's sleep, so a process that was found is not replaced in them.
GameStart ==
  /\ ~game
  /\ gui # "starting"
  /\ games < MaxGames
  /\ game' = TRUE
  /\ games' = games + 1
  /\ UNCHANGED <<guiVars, sessVars, srvVars, kernVars, loader, dllVars, calls>>

-----------------------------------------------------------------------------
Gui ==
  \/ InjectStart
  \/ InjectLaunch
  \/ InjectOk
  \/ InjectFailed
  \/ StopHook
  \/ ProcessIncoming
  \/ GuiExit

Dll ==
  \/ \E g \in Sessions : RemoteLoad(g)
  \/ PipeConnect
  \/ FirstHook
  \/ InstallEnd

Game ==
  \/ \E t \in GameThreads : HookedCall(t) \/ Write(t)
  \/ GameExit
  \/ GameStart

Next ==
  \/ Gui
  \/ \E g \in Sessions : Server(g)
  \/ Dll
  \/ Game

Spec == Init /\ [][Next]_vars

(***************************************************************************)
(* Threads that can run do run: the server threads, the game threads past  *)
(* the flag test, the GUI thread inside inject_and_start (its sleep and    *)
(* its wait are timed), and the repaint that update() requests every 100   *)
(* ms while hooked.  Nobody has to click, play, exit or load a DLL.        *)
(***************************************************************************)
Fairness ==
  /\ \A g \in Sessions : WF_vars(Server(g))
  /\ \A t \in GameThreads : WF_vars(Write(t))
  /\ WF_vars(InjectLaunch \/ InjectOk \/ InjectFailed)
  /\ WF_vars(ProcessIncoming)

FairSpec == Spec /\ Fairness

-----------------------------------------------------------------------------
(***************************************************************************)
(* Properties.                                                             *)
(***************************************************************************)

\* The types, with the bounds on attempts and on what the kernel buffers.
TypeOK ==
  /\ gui \in GuiPcs
  /\ hooked \in BOOLEAN
  /\ gen \in 0..MaxInjects
  /\ shown \in Seq(Frame)
  /\ shutdown \in Flags
  /\ rxOpen \in Flags
  /\ chan \in Queues
  /\ srv \in Servers
  /\ held \in Queues
  /\ inst \in Instances
  /\ pipe \in Queues
  /\ loader \in Loaders
  /\ game \in BOOLEAN
  /\ games \in 1..MaxGames
  /\ init \in InitPcs
  /\ attempt \in 0..MAX_RETRIES
  /\ peer \in 0..MaxInjects
  /\ connected \in BOOLEAN
  /\ hooksLive \in BOOLEAN
  /\ writer \in Writers
  /\ calls \in Counts

\* A game thread that passed the test of PIPE_CONNECTED uses PIPE_HANDLE with no
\* lock: init_thread never closes the handle under it (lib.rs calls disconnect
\* only when no hook is in place, so no thread can be there).
NoWriteThroughClosedHandle ==
  \A t \in GameThreads : writer[t] = "write" => peer # 0

\* A server thread that nobody has told to stop belongs to the session the
\* window shows or is starting: no thread is left behind listening on the pipe
\* name, whatever the order of failed injections, stops and new injections.
OneLiveServer ==
  \A g \in Sessions :
    srv[g] \notin {"none", "done"} /\ ~shutdown[g] => g = gen /\ (hooked \/ gui # "idle")

\* The server threads and the kernel agree: an instance exists exactly while a
\* server thread holds its handle, so a client never waits on an instance that
\* no thread will read.
InstanceHasServer ==
  \A g \in Sessions :
    inst[g] # "none" <=> srv[g] \in {"accept", "loop", "read", "send", "close"}

\* write_capture lowers PIPE_CONNECTED for good, so it must do so only when the
\* connection is gone: a slow reader or a full pipe never costs the capture.
NeverDropsHealthyConnection ==
  hooksLive /\ ~connected => ~HandleUp

\* The captures of the current session on their way to the list.
Queue == IF gen # 0 /\ rxOpen[gen] THEN chan[gen] \o held[gen] \o pipe[gen] ELSE <<>>

\* Whether the current session has a connection whose captures it will show.
Open == gen # 0 /\ rxOpen[gen] /\ inst[gen] = "connected"

\* Across the pipe, the server thread, the channel and the list, the captures of
\* one game thread stay in the order of its calls, and none comes twice, also
\* over stopped sessions, restarts of the game and restarts of the GUI.
PerThreadOrder ==
  LET Line == shown \o Queue
  IN \A i, j \in DOMAIN Line :
       i < j /\ Line[i][1] = Line[j][1] => Line[i][2] < Line[j][2]

Channel == INSTANCE CaptureChannel WITH queue <- Queue, open <- Open

\* The whole path implements the queue of CaptureChannel: the captures between
\* write_capture and the list are lost only from the tail, and only when a
\* connection or a session ends.
ChannelSpec == Channel!Spec

\* No capture freezes the game: a game thread inside WriteFile on a full pipe
\* gets out, because a live server reads and a stopped one closes.
NeverFreezesGame ==
  \A t \in GameThreads : writer[t] = "write" ~> writer[t] = "idle"

\* A stopped server with captures to read ends by itself: read_from_pipe and the
\* outer loop both come back to the flag.  (A stopped server without a client,
\* or with a silent one, does not: see CapturingIsConnected.)
StoppedServerDrains ==
  \A g \in Sessions : (shutdown[g] /\ pipe[g] # <<>>) ~> srv[g] = "done"

\* Whether f waits in g's pipe with nothing before it that ends the connection.
Readable(f, g) ==
  \E i \in DOMAIN pipe[g] :
    /\ pipe[g][i] = f
    /\ \A j \in 1..i : pipe[g][j] \notin Oversize

\* What the game wrote to a connection the server has accepted reaches the list
\* even when the game dies at once, unless the user ends the session first.
WrittenEventuallyShown ==
  \A g \in Sessions : \A f \in Frame :
    (rxOpen[g] /\ Readable(f, g) /\ srv[g] \in {"loop", "read", "send"})
      ~> (~rxOpen[g] \/ \E i \in DOMAIN shown : shown[i] = f)

\* While the window says "Hook injected into PID .... Capturing packets..."
\* (gui.rs:82) over a game whose hooks are in place and have shown captures, the
\* DLL is connected to the session shown, as README.md:200 has it of every click
\* on Inject Hook.  It does not hold: after a Stop, the next injection only
\* counts a reference to the loaded DLL, and connects nothing.
CapturingIsConnected ==
  hooked /\ init = "done" /\ shown # <<>> => peer = gen /\ inst[gen] = "connected"

=============================================================================
