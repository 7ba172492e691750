------------------------ MODULE CaptureSessionProofs ------------------------
(***************************************************************************)
(* Proofs about CaptureSession, for any number of sessions, restarts, game *)
(* threads, calls, retries and any capacity of the pipe.                   *)
(*                                                                         *)
(* The argument is one inductive invariant, IInv.  Typed is TypeOK with    *)
(* what its own induction needs: a call is counted before it writes, a     *)
(* session exists once the window shows one, and attempts are left while   *)
(* init_thread connects.  Phases ties the flags of the DLL to the place    *)
(* init_thread has reached; the properties about the pipe handle follow    *)
(* from it.  Fresh says that no server thread runs before its session is   *)
(* created.  OneLiveServer is inductive with Typed alone, and so is        *)
(* InstanceHasServer with Fresh.                                           *)
(***************************************************************************)
EXTENDS CaptureSession, SequenceTheorems, TLAPS

Typed ==
  /\ TypeOK
  /\ \A t \in GameThreads : writer[t] = "write" => calls[t] # 0
  /\ hooked \/ gui # "idle" => gen # 0
  /\ init = "absent" => attempt = 0
  /\ init = "connect" => attempt < MAX_RETRIES

Phases ==
  /\ \A t \in GameThreads : writer[t] = "write" => hooksLive
  /\ hooksLive => init \in {"install", "done"}
  /\ init \in {"install", "done"} <=> peer # 0
  /\ init = "install" /\ ~hooksLive => connected

Fresh == \A g \in Sessions : g > gen => srv[g] = "none"

IInv ==
  /\ Typed
  /\ Fresh
  /\ Phases
  /\ OneLiveServer
  /\ InstanceHasServer
  /\ NeverDropsHealthyConnection

-----------------------------------------------------------------------------

\* A queue of frames may replace the queue of a session.
LEMMA QueueUpdate ==
  ASSUME NEW q \in Queues, NEW g, NEW s \in Seq(Frame)
  PROVE  [q EXCEPT ![g] = s] \in Queues
  BY DEF Queues

\* Every session has one.
LEMMA QueueOf ==
  ASSUME NEW q \in Queues, NEW g \in Sessions
  PROVE  q[g] \in Seq(Frame)
  BY DEF Queues

\* A session that exists is one of Sessions, and so is the next while there is one.
LEMMA SessionNumbers ==
  ASSUME NEW n \in 0..MaxInjects
  PROVE  /\ n # 0 => n \in Sessions
         /\ n < MaxInjects => n + 1 \in Sessions /\ n + 1 > n
  BY ConstAssumption DEF Sessions

\* The empty queue may.
LEMMA QueueClear ==
  ASSUME NEW q \in Queues, NEW g
  PROVE  [q EXCEPT ![g] = <<>>] \in Queues
<1>1. <<>> \in Seq(Frame)
  OBVIOUS
<1> QED
  BY <1>1, QueueUpdate

\* The initial state is typed.
LEMMA TypedInit == Init => Typed
<1> HAVE Init
<1>1. gui \in GuiPcs /\ init \in InitPcs /\ ~hooked /\ gui = "idle"
  BY DEF Init, GuiPcs, InitPcs
<1>2. shutdown \in Flags /\ rxOpen \in Flags
  BY DEF Init, Flags
<1>3. chan \in Queues /\ held \in Queues /\ pipe \in Queues /\ shown \in Seq(Frame)
  BY DEF Init, Queues
<1>4. srv \in Servers
  BY DEF Init, Servers, SrvPcs
<1>5. inst \in Instances /\ loader \in Loaders
  BY DEF Init, Instances, Loaders
<1>6. writer \in Writers /\ calls \in Counts /\ \A t \in GameThreads : writer[t] = "idle"
  BY ConstAssumption DEF Init, Writers, Counts
<1>7. /\ gen \in 0..MaxInjects /\ games \in 1..MaxGames
      /\ attempt \in 0..MAX_RETRIES /\ peer \in 0..MaxInjects
      /\ attempt = 0 /\ attempt < MAX_RETRIES
  BY ConstAssumption DEF Init
<1>8. hooked \in BOOLEAN /\ game \in BOOLEAN /\ connected \in BOOLEAN /\ hooksLive \in BOOLEAN
  BY DEF Init
<1> QED
  BY <1>1, <1>2, <1>3, <1>4, <1>5, <1>6, <1>7, <1>8 DEF Typed, TypeOK

\* Every step keeps the types.
LEMMA TypedStep == Typed /\ [Next]_vars => Typed'
<1> SUFFICES ASSUME Typed, [Next]_vars PROVE Typed'
  OBVIOUS
<1> USE DEF Typed, TypeOK, guiVars, sessVars, srvVars, kernVars, dllVars, gameVars
<1>1. CASE InjectStart
  <2>1. rxOpen' \in Flags
    BY <1>1 DEF InjectStart, Flags
  <2>2. srv' \in Servers
    BY <1>1 DEF InjectStart, Servers, SrvPcs
  <2>3. gui' \in GuiPcs /\ gen' \in 0..MaxInjects /\ gen' # 0
    BY <1>1, ConstAssumption DEF InjectStart, GuiPcs
  <2> QED
    BY <2>1, <2>2, <2>3, <1>1 DEF InjectStart
<1>2. CASE InjectLaunch
  <2>1. loader' \in Loaders
    BY <1>2 DEF InjectLaunch, Loaders
  <2>2. gui' \in GuiPcs /\ gen # 0
    BY <1>2 DEF InjectLaunch, GuiPcs
  <2> QED
    BY <2>1, <2>2, <1>2 DEF InjectLaunch
<1>3. CASE InjectOk
  BY <1>3 DEF InjectOk, GuiPcs
<1>4. CASE InjectFailed
  <2>1. EndSession(gen) /\ gui' \in GuiPcs /\ UNCHANGED <<hooked, gen>>
    BY <1>4 DEF InjectFailed, GuiPcs
  <2>2. shutdown' \in Flags /\ rxOpen' \in Flags
    BY <2>1 DEF EndSession, Flags
  <2>3. chan' \in Queues
    BY <2>1, QueueClear DEF EndSession
  <2> QED
    BY <2>1, <2>2, <2>3, <1>4 DEF InjectFailed
<1>5. CASE StopHook
  <2>1. EndSession(gen) /\ UNCHANGED <<gui, gen>>
    BY <1>5 DEF StopHook
  <2>2. shutdown' \in Flags /\ rxOpen' \in Flags
    BY <2>1 DEF EndSession, Flags
  <2>3. chan' \in Queues
    BY <2>1, QueueClear DEF EndSession
  <2> QED
    BY <2>1, <2>2, <2>3, <1>5 DEF StopHook
<1>6. CASE ProcessIncoming
  <2>1. chan[gen] \in Seq(Frame)
    <3>1. chan \in Queues /\ gen \in 0..MaxInjects /\ gen # 0
      BY <1>6 DEF ProcessIncoming
    <3> QED
      BY <3>1, QueueOf, SessionNumbers
  <2>2. shown' \in Seq(Frame)
    BY <2>1, <1>6 DEF ProcessIncoming
  <2>3. chan' \in Queues
    BY <1>6, QueueClear DEF ProcessIncoming
  <2> QED
    BY <2>2, <2>3, <1>6 DEF ProcessIncoming
<1>7. CASE GuiExit
  <2>1. gui' \in GuiPcs /\ gui' = "idle" /\ hooked' = FALSE
    BY <1>7 DEF GuiExit, GuiPcs
  <2>2. rxOpen' \in Flags
    BY <1>7 DEF GuiExit, Flags
  <2>3. chan' \in Queues /\ held' \in Queues /\ pipe' \in Queues
    BY <1>7 DEF GuiExit, Queues
  <2>4. srv' \in Servers
    BY <1>7 DEF GuiExit, Servers, SrvPcs
  <2>5. inst' \in Instances
    BY <1>7 DEF GuiExit, Instances
  <2>6. UNCHANGED <<gen, shown, shutdown, loader, dllVars, gameVars>>
    BY <1>7 DEF GuiExit
  <2> QED
    BY <2>1, <2>2, <2>3, <2>4, <2>5, <2>6
<1>8. ASSUME NEW g \in Sessions, Server(g) PROVE Typed'
  <2>1. CASE ServerTop(g)
    <3>1. srv' \in Servers
      BY <2>1 DEF ServerTop, Servers, SrvPcs
    <3> QED
      BY <3>1, <2>1 DEF ServerTop
  <2>2. CASE ServerCreate(g)
    <3>1. srv' \in Servers
      BY <2>2 DEF ServerCreate, Servers, SrvPcs
    <3>2. inst' \in Instances
      BY <2>2 DEF ServerCreate, Instances
    <3> QED
      BY <3>1, <3>2, <2>2 DEF ServerCreate
  <2>3. CASE ServerAccept(g)
    <3>1. srv' \in Servers
      BY <2>3 DEF ServerAccept, Servers, SrvPcs
    <3>2. inst' \in Instances
      BY <2>3 DEF ServerAccept, CloseInstance, Instances
    <3>3. pipe' = pipe \/ pipe' = [pipe EXCEPT ![g] = <<>>]
      BY <2>3 DEF ServerAccept, CloseInstance
    <3>4. pipe' \in Queues
      BY <3>3, QueueClear
    <3> QED
      BY <3>1, <3>2, <3>4, <2>3 DEF ServerAccept
  <2>4. CASE ServerLoop(g)
    <3>1. srv' \in Servers
      BY <2>4 DEF ServerLoop, Servers, SrvPcs
    <3> QED
      BY <3>1, <2>4 DEF ServerLoop
  <2>5. CASE ServerRead(g)
    <3>1. srv' \in Servers
      BY <2>5 DEF ServerRead, Servers, SrvPcs
    <3>2. pipe[g] \in Seq(Frame)
      BY DEF Queues
    <3>3. pipe[g] # <<>> => /\ <<Head(pipe[g])>> \in Seq(Frame)
                            /\ Tail(pipe[g]) \in Seq(Frame)
      BY <3>2
    <3>4. held' \in Queues /\ pipe' \in Queues
      BY <3>3, <2>5, ZenonT(60) DEF ServerRead, Queues
    <3> QED
      BY <3>1, <3>4, <2>5 DEF ServerRead
  <2>6. CASE ServerSend(g)
    <3>1. srv' \in Servers
      BY <2>6 DEF ServerSend, Servers, SrvPcs
    <3>2. chan[g] \o held[g] \in Seq(Frame)
      BY DEF Queues
    <3>3. [chan EXCEPT ![g] = chan[g] \o held[g]] \in Queues
      BY <3>2, QueueUpdate
    <3>4. chan' \in Queues
      BY <3>3, <2>6 DEF ServerSend
    <3>5. held' \in Queues
      BY <2>6, QueueClear DEF ServerSend
    <3> QED
      BY <3>1, <3>4, <3>5, <2>6 DEF ServerSend
  <2>7. CASE ServerClose(g)
    <3>1. srv' \in Servers
      BY <2>7 DEF ServerClose, Servers, SrvPcs
    <3>2. inst' \in Instances
      BY <2>7 DEF ServerClose, CloseInstance, Instances
    <3>3. pipe' \in Queues
      BY <2>7, QueueClear DEF ServerClose, CloseInstance
    <3> QED
      BY <3>1, <3>2, <3>3, <2>7 DEF ServerClose
  <2> QED
    BY <1>8, <2>1, <2>2, <2>3, <2>4, <2>5, <2>6, <2>7 DEF Server
<1>9. ASSUME NEW g \in Sessions, RemoteLoad(g) PROVE Typed'
  <2>1. loader' \in Loaders
    BY <1>9 DEF RemoteLoad, Loaders
  <2>2. init' \in InitPcs
    BY <1>9 DEF RemoteLoad, InitPcs
  <2>3. /\ init' = "absent" => attempt = 0
        /\ init' = "connect" => attempt < MAX_RETRIES
    BY <1>9, ConstAssumption DEF RemoteLoad
  <2> QED
    BY <2>1, <2>2, <2>3, <1>9 DEF RemoteLoad
<1>10. CASE PipeConnect
  <2>1. init' \in InitPcs
    BY <1>10 DEF PipeConnect, AfterFailure, InitPcs
  <2>2. inst' \in Instances
    BY <1>10 DEF PipeConnect, Instances
  <2>3. peer' \in 0..MaxInjects
    BY <1>10, ConstAssumption DEF PipeConnect, Sessions
  <2>4. /\ attempt' \in 0..MAX_RETRIES
        /\ init' # "absent"
        /\ init' = "connect" => attempt' < MAX_RETRIES
    BY <1>10, ConstAssumption DEF PipeConnect, AfterFailure
  <2> QED
    BY <2>1, <2>2, <2>3, <2>4, <1>10 DEF PipeConnect
<1>11. CASE FirstHook
  BY <1>11 DEF FirstHook
<1>12. CASE InstallEnd
  <2>1. init' \in InitPcs /\ init' # "absent" /\ init' # "connect"
    BY <1>12 DEF InstallEnd, InitPcs
  <2>2. inst' \in Instances
    BY <1>12 DEF InstallEnd, ClientGone, Instances
  <2>3. peer' \in 0..MaxInjects
    BY <1>12, ConstAssumption DEF InstallEnd
  <2> QED
    BY <2>1, <2>2, <2>3, <1>12 DEF InstallEnd
<1>13. ASSUME NEW t \in GameThreads, HookedCall(t) PROVE Typed'
  <2>1. writer' \in Writers
    BY <1>13 DEF HookedCall, Writers
  <2>2. calls' \in Counts
    BY <1>13, ConstAssumption DEF HookedCall, Counts
  <2>3. \A u \in GameThreads : writer'[u] = "write" => calls'[u] # 0
    BY <1>13, ConstAssumption DEF HookedCall, Counts, Writers
  <2> QED
    BY <2>1, <2>2, <2>3, <1>13 DEF HookedCall
<1>14. ASSUME NEW t \in GameThreads, WriteFails(t) PROVE Typed'
  <2>1. writer' \in Writers /\ \A u \in GameThreads : writer'[u] = "write" => calls[u] # 0
    BY <1>14 DEF WriteFails, Writers
  <2> QED
    BY <2>1, <1>14 DEF WriteFails
<1>15. ASSUME NEW t \in GameThreads, WriteSucceeds(t) PROVE Typed'
  <2>1. writer' \in Writers /\ \A u \in GameThreads : writer'[u] = "write" => calls[u] # 0
    BY <1>15 DEF WriteSucceeds, Writers
  <2>2. peer \in Sessions
    BY <1>15, ConstAssumption DEF WriteSucceeds, HandleUp, Sessions
  <2>3. <<t, calls[t]>> \in Frame
    BY <1>15, ConstAssumption DEF WriteSucceeds, Frame, Counts
  <2>4. Append(pipe[peer], <<t, calls[t]>>) \in Seq(Frame)
    BY <2>2, <2>3 DEF Queues
  <2>5. pipe' \in Queues
    BY <2>2, <2>4, <1>15 DEF WriteSucceeds, Queues
  <2> QED
    BY <2>1, <2>5, <1>15 DEF WriteSucceeds
<1>16. CASE GameExit
  <2>1. loader' \in Loaders
    BY <1>16 DEF GameExit, Loaders
  <2>2. inst' \in Instances
    BY <1>16 DEF GameExit, ClientGone, Instances
  <2>3. writer' \in Writers /\ \A t \in GameThreads : writer'[t] = "idle"
    BY <1>16 DEF GameExit, Writers
  <2>4. /\ init' \in InitPcs /\ init' = "absent"
        /\ attempt' \in 0..MAX_RETRIES /\ attempt' = 0
        /\ peer' \in 0..MaxInjects
        /\ game' = FALSE /\ connected' = FALSE /\ hooksLive' = FALSE
    BY <1>16, ConstAssumption DEF GameExit, InitPcs
  <2>5. UNCHANGED <<guiVars, sessVars, srvVars, pipe, games, calls>>
    BY <1>16 DEF GameExit
  <2> QED
    BY <2>1, <2>2, <2>3, <2>4, <2>5
<1>17. CASE GameStart
  <2>1. games' \in 1..MaxGames
    BY <1>17, ConstAssumption DEF GameStart
  <2> QED
    BY <2>1, <1>17 DEF GameStart
<1>18. CASE UNCHANGED vars
  BY <1>18 DEF vars
<1> QED
  BY <1>1, <1>2, <1>3, <1>4, <1>5, <1>6, <1>7, <1>8, <1>9, <1>10, <1>11, <1>12, <1>13,
     <1>14, <1>15, <1>16, <1>17, <1>18 DEF Next, Gui, Dll, Game, Write

\* The initial state satisfies the invariant.
LEMMA InvInit == Init => IInv
<1> HAVE Init
<1>1. Phases
  BY DEF Init, Phases
<1>0. Fresh
  BY DEF Init, Fresh
<1>2. OneLiveServer
  BY DEF Init, OneLiveServer
<1>3. InstanceHasServer
  BY DEF Init, InstanceHasServer
<1>4. NeverDropsHealthyConnection
  BY DEF Init, NeverDropsHealthyConnection
<1> QED
  BY <1>0, <1>1, <1>2, <1>3, <1>4, TypedInit DEF IInv

\* Every step keeps the phases of the DLL.
LEMMA PhasesStep == Typed /\ Phases /\ [Next]_vars => Phases'
<1> SUFFICES ASSUME Typed, Phases, [Next]_vars PROVE Phases'
  OBVIOUS
<1> USE DEF Phases
<1>1. ASSUME UNCHANGED <<init, peer, connected, hooksLive, writer>> PROVE Phases'
  BY <1>1
<1>2. CASE Gui
  BY <1>1, <1>2 DEF Gui, InjectStart, InjectLaunch, InjectOk, InjectFailed, StopHook,
     ProcessIncoming, GuiExit, dllVars
<1>3. ASSUME NEW g \in Sessions, Server(g) PROVE Phases'
  BY <1>1, <1>3 DEF Server, ServerTop, ServerCreate, ServerAccept, ServerLoop, ServerRead,
     ServerSend, ServerClose, dllVars
<1>4. ASSUME NEW g \in Sessions, RemoteLoad(g) PROVE Phases'
  BY <1>4 DEF RemoteLoad
<1>5. CASE PipeConnect
  BY <1>5, ConstAssumption DEF PipeConnect, AfterFailure, Sessions
<1>6. CASE FirstHook
  BY <1>6 DEF FirstHook
<1>7. CASE InstallEnd
  BY <1>7 DEF InstallEnd
<1>8. ASSUME NEW t \in GameThreads, HookedCall(t) PROVE Phases'
  BY <1>8 DEF HookedCall, Typed, TypeOK, Writers
<1>9. ASSUME NEW t \in GameThreads, Write(t) PROVE Phases'
  BY <1>9 DEF Write, WriteFails, WriteSucceeds, Typed, TypeOK, Writers
<1>10. CASE GameExit
  BY <1>10 DEF GameExit
<1>11. CASE GameStart \/ UNCHANGED vars
  BY <1>1, <1>11 DEF GameStart, vars, dllVars
<1> QED
  BY <1>2, <1>3, <1>4, <1>5, <1>6, <1>7, <1>8, <1>9, <1>10, <1>11 DEF Next, Dll, Game

\* Every step leaves the sessions to come without a server thread.
LEMMA FreshStep == Typed /\ Fresh /\ [Next]_vars => Fresh'
<1> SUFFICES ASSUME Typed, Fresh, [Next]_vars PROVE Fresh'
  OBVIOUS
<1> USE DEF Fresh
<1>1. ASSUME UNCHANGED <<srv, gen>> PROVE Fresh'
  BY <1>1
<1>2. CASE InjectStart
  BY <1>2, ConstAssumption DEF InjectStart, Typed, TypeOK, Servers, Sessions
<1>3. CASE InjectLaunch \/ InjectOk \/ InjectFailed \/ StopHook \/ ProcessIncoming
  BY <1>1, <1>3 DEF InjectLaunch, InjectOk, InjectFailed, StopHook, ProcessIncoming, srvVars
<1>4. CASE GuiExit
  BY <1>4, ConstAssumption DEF GuiExit, Typed, TypeOK, Sessions
<1>5. ASSUME NEW g \in Sessions, Server(g) PROVE Fresh'
  <2>1. UNCHANGED gen
    BY <1>5 DEF Server, ServerTop, ServerCreate, ServerAccept, ServerLoop, ServerRead,
       ServerSend, ServerClose, guiVars
  <2>2. srv[g] # "none" /\ \A h \in Sessions \ {g} : srv'[h] = srv[h]
    BY <1>5 DEF Server, ServerTop, ServerCreate, ServerAccept, ServerLoop, ServerRead,
       ServerSend, ServerClose, Typed, TypeOK, Servers
  <2> QED
    BY <2>1, <2>2
<1>6. CASE Dll
  BY <1>1, <1>6 DEF Dll, RemoteLoad, PipeConnect, FirstHook, InstallEnd, srvVars, guiVars
<1>7. CASE Game \/ UNCHANGED vars
  BY <1>1, <1>7 DEF Game, HookedCall, Write, WriteFails, WriteSucceeds, GameExit, GameStart,
     vars, srvVars, guiVars
<1> QED
  BY <1>2, <1>3, <1>4, <1>5, <1>6, <1>7 DEF Next, Gui

\* Every step keeps the server threads nobody has stopped within the session
\* the window shows.
LEMMA OneLiveServerStep == Typed /\ OneLiveServer /\ [Next]_vars => OneLiveServer'
<1> SUFFICES ASSUME Typed, OneLiveServer, [Next]_vars PROVE OneLiveServer'
  OBVIOUS
<1> USE DEF OneLiveServer, Typed, TypeOK, Flags, Servers
<1>1. ASSUME UNCHANGED <<srv, shutdown, gen, hooked, gui>> PROVE OneLiveServer'
  BY <1>1
<1>2. CASE InjectStart
  BY <1>2 DEF InjectStart, sessVars
<1>3. CASE InjectLaunch \/ InjectOk
  BY <1>3 DEF InjectLaunch, InjectOk, srvVars, sessVars
<1>4. CASE InjectFailed \/ StopHook
  BY <1>4 DEF InjectFailed, StopHook, EndSession, srvVars
<1>5. CASE ProcessIncoming
  BY <1>1, <1>5 DEF ProcessIncoming, srvVars
<1>6. CASE GuiExit
  BY <1>6 DEF GuiExit
<1>7. ASSUME NEW g \in Sessions, Server(g) PROVE OneLiveServer'
  <2>1. UNCHANGED <<shutdown, gen, hooked, gui>>
    BY <1>7 DEF Server, ServerTop, ServerCreate, ServerAccept, ServerLoop, ServerRead,
       ServerSend, ServerClose, guiVars, sessVars
  <2>2. srv[g] \notin {"none", "done"} /\ \A h \in Sessions \ {g} : srv'[h] = srv[h]
    BY <1>7 DEF Server, ServerTop, ServerCreate, ServerAccept, ServerLoop, ServerRead,
       ServerSend, ServerClose
  <2> QED
    BY <2>1, <2>2
<1>8. CASE Dll
  BY <1>1, <1>8 DEF Dll, RemoteLoad, PipeConnect, FirstHook, InstallEnd, srvVars, sessVars, guiVars
<1>9. CASE Game \/ UNCHANGED vars
  BY <1>1, <1>9 DEF Game, HookedCall, Write, WriteFails, WriteSucceeds, GameExit, GameStart,
     vars, srvVars, sessVars, guiVars
<1> QED
  BY <1>2, <1>3, <1>4, <1>5, <1>6, <1>7, <1>8, <1>9 DEF Next, Gui

\* Every step keeps the kernel's instances and the server threads in agreement.
LEMMA InstanceHasServerStep ==
  Typed /\ Fresh /\ InstanceHasServer /\ [Next]_vars => InstanceHasServer'
<1> SUFFICES ASSUME Typed, Fresh, InstanceHasServer, [Next]_vars PROVE InstanceHasServer'
  OBVIOUS
<1> DEFINE Holding == {"accept", "loop", "read", "send", "close"}
<1> USE DEF InstanceHasServer, Typed, TypeOK, Instances, Servers
<1>1. ASSUME UNCHANGED <<srv, inst>> PROVE InstanceHasServer'
  BY <1>1
<1>2. CASE InjectStart
  <2>1. inst[gen + 1] = "none" /\ gen + 1 \in Sessions
    <3>1. gen \in 0..MaxInjects /\ gen < MaxInjects
      BY <1>2 DEF InjectStart
    <3>2. gen + 1 \in Sessions /\ gen + 1 > gen
      BY <3>1, SessionNumbers
    <3>3. srv[gen + 1] = "none"
      BY <3>2 DEF Fresh
    <3> QED
      BY <3>2, <3>3
  <2> QED
    BY <2>1, <1>2 DEF InjectStart, kernVars
<1>3. CASE InjectLaunch \/ InjectOk \/ InjectFailed \/ StopHook \/ ProcessIncoming
  BY <1>1, <1>3 DEF InjectLaunch, InjectOk, InjectFailed, StopHook, ProcessIncoming,
     srvVars, kernVars
<1>4. CASE GuiExit
  BY <1>4 DEF GuiExit
<1>5. ASSUME NEW g \in Sessions, Server(g) PROVE InstanceHasServer'
  <2>1. \A h \in Sessions \ {g} : srv'[h] = srv[h] /\ inst'[h] = inst[h]
    BY <1>5 DEF Server, ServerTop, ServerCreate, ServerAccept, ServerLoop, ServerRead,
       ServerSend, ServerClose, CloseInstance, kernVars
  <2>2. inst'[g] # "none" <=> srv'[g] \in Holding
    BY <1>5 DEF Server, ServerTop, ServerCreate, ServerAccept, ServerLoop, ServerRead,
       ServerSend, ServerClose, CloseInstance, kernVars
  <2> QED
    BY <2>1, <2>2
<1>6. CASE Dll
  BY <1>6 DEF Dll, RemoteLoad, PipeConnect, FirstHook, InstallEnd, ClientGone, srvVars, kernVars
<1>7. CASE Game \/ UNCHANGED vars
  BY <1>7 DEF Game, HookedCall, Write, WriteFails, WriteSucceeds, GameExit, GameStart,
     ClientGone, vars, srvVars, kernVars
<1> QED
  BY <1>2, <1>3, <1>4, <1>5, <1>6, <1>7 DEF Next, Gui

\* Every step lowers PIPE_CONNECTED only on a connection that is gone, and no
\* connection that is gone comes back under the same handle.
LEMMA HealthyStep ==
  Typed /\ Phases /\ NeverDropsHealthyConnection /\ [Next]_vars => NeverDropsHealthyConnection'
<1> SUFFICES ASSUME Typed, Phases, NeverDropsHealthyConnection, [Next]_vars
             PROVE  NeverDropsHealthyConnection'
  OBVIOUS
<1> USE DEF NeverDropsHealthyConnection, HandleUp, Phases
<1>1. ASSUME UNCHANGED <<inst, peer, connected, hooksLive>> PROVE NeverDropsHealthyConnection'
  BY <1>1
<1>2. CASE Gui
  <2>1. CASE GuiExit
    BY <2>1, ConstAssumption DEF GuiExit, dllVars, Typed, TypeOK, Sessions
  <2> QED
    BY <1>1, <1>2, <2>1 DEF Gui, InjectStart, InjectLaunch, InjectOk, InjectFailed, StopHook,
       ProcessIncoming, dllVars, kernVars
<1>3. ASSUME NEW g \in Sessions, Server(g) PROVE NeverDropsHealthyConnection'
  <2>1. UNCHANGED <<peer, connected, hooksLive>>
    BY <1>3 DEF Server, ServerTop, ServerCreate, ServerAccept, ServerLoop, ServerRead,
       ServerSend, ServerClose, dllVars
  <2>2. \A h \in Sessions : inst'[h] = "connected" => inst[h] = "connected"
    BY <1>3 DEF Server, ServerTop, ServerCreate, ServerAccept, ServerLoop, ServerRead,
       ServerSend, ServerClose, CloseInstance, kernVars, Typed, TypeOK, Instances
  <2>3. peer # 0 => peer \in Sessions
    BY ConstAssumption DEF Typed, TypeOK, Sessions
  <2> QED
    BY <2>1, <2>2, <2>3
<1>4. CASE Dll
  BY <1>4 DEF Dll, RemoteLoad, PipeConnect, FirstHook, InstallEnd, kernVars
<1>5. CASE Game \/ UNCHANGED vars
  BY <1>5 DEF Game, HookedCall, Write, WriteFails, WriteSucceeds, GameExit, GameStart,
     vars, kernVars, dllVars
<1> QED
  BY <1>2, <1>3, <1>4, <1>5 DEF Next

-----------------------------------------------------------------------------

\* The invariant holds in every reachable state.
THEOREM Invariance == Spec => []IInv
<1>1. IInv /\ [Next]_vars => IInv'
  BY TypedStep, FreshStep, PhasesStep, OneLiveServerStep, InstanceHasServerStep, HealthyStep
  DEF IInv
<1> QED
  BY <1>1, InvInit, PTL DEF Spec

\* Every variable keeps its type: the attempts to connect stay within
\* MAX_RETRIES, and only frames of the game's calls travel.
THEOREM TypeCorrect == Spec => []TypeOK
<1>1. IInv => TypeOK
  BY DEF IInv, Typed
<1> QED
  BY <1>1, Invariance, PTL

\* No game thread uses PIPE_HANDLE after init_thread has closed it.
THEOREM HandleSafe == Spec => []NoWriteThroughClosedHandle
<1>1. IInv => NoWriteThroughClosedHandle
  BY DEF IInv, Phases, NoWriteThroughClosedHandle
<1> QED
  BY <1>1, Invariance, PTL

\* No server thread is left listening that nobody has told to stop.
THEOREM NoStrayServer == Spec => []OneLiveServer
<1>1. IInv => OneLiveServer
  BY DEF IInv
<1> QED
  BY <1>1, Invariance, PTL

\* Every pipe instance has a server thread that holds its handle.
THEOREM EveryInstanceServed == Spec => []InstanceHasServer
<1>1. IInv => InstanceHasServer
  BY DEF IInv
<1> QED
  BY <1>1, Invariance, PTL

\* The capture is switched off only when its connection is gone.
THEOREM CaptureKeepsConnection == Spec => []NeverDropsHealthyConnection
<1>1. IInv => NeverDropsHealthyConnection
  BY DEF IInv
<1> QED
  BY <1>1, Invariance, PTL

-----------------------------------------------------------------------------
(***************************************************************************)
(* That CaptureSession implements CaptureChannel, and what follows for the *)
(* order of a thread's captures.                                           *)
(***************************************************************************)

\* The first part of a concatenation, and what is behind it.
LEMMA SplitConcat ==
  ASSUME NEW S, NEW s \in Seq(S), NEW t \in Seq(S)
  PROVE  /\ SubSeq(s \o t, 1, Len(s)) = s
         /\ SubSeq(s \o t, Len(s) + 1, Len(s \o t)) = t
<1> DEFINE u == s \o t
           a == Len(s)
           b == Len(t)
           l == SubSeq(u, 1, a)
           r == SubSeq(u, a + 1, a + b)
<1>1. u \in Seq(S) /\ Len(u) = a + b /\ a \in Nat /\ b \in Nat
  BY ConcatProperties, LenProperties
<1>2. \A i \in 1..(a + b) : u[i] = IF i <= a THEN s[i] ELSE t[i - a]
  BY ConcatProperties
<1>3. \A i \in 1..(a + b) : u[i] \in S
  BY <1>1, ElementOfSeq
<1>4. l = s
  <2> HIDE DEF u, a
  <2>1. \A i \in 1..a : u[i] \in S
    BY <1>1, <1>3
  <2>2. l \in Seq(S) /\ Len(l) = a /\ \A i \in 1..a : l[i] = u[i]
    BY <1>1, <2>1, SubSeqProperties
  <2> QED
    BY <1>1, <1>2, <2>2, SeqEqual DEF a
<1>5. r = t
  <2> HIDE DEF u, b
  <2>1. \A i \in (a + 1)..(a + b) : u[i] \in S
    BY <1>1, <1>3
  <2>2. r \in Seq(S) /\ Len(r) = b /\ \A i \in 1..b : r[i] = u[a + i]
    BY <1>1, <2>1, SubSeqProperties
  <2> QED
    BY <1>1, <1>2, <2>2, SeqEqual DEF b
<1> QED
  BY <1>1, <1>4, <1>5

\* The head and the tail of a sequence, put together again.
LEMMA HeadAndTail ==
  ASSUME NEW S, NEW s \in Seq(S), s # <<>>
  PROVE  Head(s) \in S /\ Tail(s) \in Seq(S) /\ <<Head(s)>> \o Tail(s) = s
<1>1. 1 \in 1..Len(s) /\ Len(s) \in 1..Len(s)
  BY EmptySeq
<1>2. SubSeq(s, 1, Len(s)) = <<s[1]>> \o SubSeq(s, 2, Len(s))
  BY <1>1, SubSeqRecursiveFirst
<1> QED
  BY <1>2, SubSeqFull, TailIsSubSeq, HeadTailProperties

LEMMA ConcatOfFrames ==
  ASSUME NEW s \in Seq(Frame), NEW t \in Seq(Frame), NEW u \in Seq(Frame)
  PROVE  (s \o t) \o u = s \o (t \o u)
BY ConcatAssociative

LEMMA AppendToConcat ==
  ASSUME NEW s \in Seq(Frame), NEW t \in Seq(Frame), NEW x \in Frame
  PROVE  Append(s \o t, x) = s \o Append(t, x)
<1>1. s \o t \in Seq(Frame) /\ <<x>> \in Seq(Frame)
  BY ConcatProperties
<1>2. Append(s \o t, x) = (s \o t) \o <<x>>
  BY <1>1
<1>3. Append(t, x) = t \o <<x>>
  OBVIOUS
<1>4. (s \o t) \o <<x>> = s \o (t \o <<x>>)
  BY <1>1, ConcatAssociative
<1> QED
  BY <1>2, <1>3, <1>4

-----------------------------------------------------------------------------
\* What the refinement needs beside IInv.  Captures are held only on their way into the
\* channel; a session to come has none; a session the window shows or starts has its
\* receiver.
Held == \A g \in Sessions : srv[g] # "send" => held[g] = <<>>
Empty == \A g \in Sessions : g > gen => chan[g] = <<>> /\ held[g] = <<>> /\ pipe[g] = <<>>
Window ==
  /\ hooked => gui = "idle"
  /\ hooked \/ gui # "idle" => rxOpen[gen]

Flow == Held /\ Empty /\ Window

LEMMA FlowInit == Init => Flow
BY DEF Init, Flow, Held, Empty, Window

\* The session of the window is one of Sessions.
LEMMA SessionOfWindow ==
  ASSUME Typed, gen # 0
  PROVE  gen \in Sessions
BY SessionNumbers DEF Typed, TypeOK

LEMMA HeldStep ==
  ASSUME IInv, Held, [Next]_vars
  PROVE  Held'
<1> USE DEF IInv, Typed, TypeOK, Held, guiVars, sessVars, srvVars, kernVars, dllVars, gameVars
<1>1. CASE InjectStart
  <2>1. gen + 1 \in Sessions /\ gen + 1 > gen
    BY <1>1, SessionNumbers DEF InjectStart
  <2>2. held[gen + 1] = <<>>
    BY <2>1 DEF Fresh
  <2> QED
    BY <1>1, <2>1, <2>2 DEF InjectStart, Servers
<1>2. CASE GuiExit
  BY <1>2 DEF GuiExit
<1>3. ASSUME NEW g \in Sessions, Server(g) PROVE Held'
  <2>1. CASE ServerTop(g)
    BY <2>1 DEF ServerTop, Servers
  <2>2. CASE ServerCreate(g)
    BY <2>2 DEF ServerCreate, Servers
  <2>3. CASE ServerAccept(g)
    BY <2>3 DEF ServerAccept, Servers
  <2>4. CASE ServerLoop(g)
    BY <2>4 DEF ServerLoop, Servers
  <2>5. CASE ServerRead(g)
    BY <2>5 DEF ServerRead, Servers, Queues
  <2>6. CASE ServerSend(g)
    BY <2>6 DEF ServerSend, Servers, Queues
  <2>7. CASE ServerClose(g)
    BY <2>7 DEF ServerClose, Servers
  <2> QED
    BY <1>3, <2>1, <2>2, <2>3, <2>4, <2>5, <2>6, <2>7 DEF Server
<1>4. CASE UNCHANGED <<srv, held>>
  BY <1>4
<1>5. Gui => InjectStart \/ GuiExit \/ UNCHANGED <<srv, held>>
  BY DEF Gui, InjectLaunch, InjectOk, InjectFailed, StopHook, ProcessIncoming
<1>6. Dll \/ Game => UNCHANGED <<srv, held>>
  BY DEF Dll, Game, RemoteLoad, PipeConnect, FirstHook, InstallEnd, HookedCall, Write, WriteFails,
     WriteSucceeds, GameExit, GameStart
<1> QED
  BY <1>1, <1>2, <1>3, <1>4, <1>5, <1>6 DEF Next, vars

LEMMA EmptyStep ==
  ASSUME IInv, Empty, [Next]_vars
  PROVE  Empty'
<1> USE DEF IInv, Typed, TypeOK, Empty, guiVars, sessVars, srvVars, kernVars, dllVars, gameVars
<1>1. CASE InjectStart
  <2>1. gen' = gen + 1 /\ gen \in Nat /\ UNCHANGED <<chan, held, pipe>>
    BY <1>1 DEF InjectStart
  <2>2. \A g \in Sessions : g > gen' => g > gen
    BY <2>1, ConstAssumption DEF Sessions
  <2> QED
    BY <2>1, <2>2
<1>2. CASE InjectFailed \/ StopHook
  BY <1>2 DEF InjectFailed, StopHook, EndSession, Queues
<1>3. CASE ProcessIncoming
  BY <1>3 DEF ProcessIncoming, Queues
<1>4. CASE GuiExit
  BY <1>4 DEF GuiExit
<1>5. ASSUME NEW g \in Sessions, Server(g) PROVE Empty'
  <2>1. g > gen => srv[g] = "none"
    BY DEF Fresh
  <2>2. srv[g] # "none"
    BY <1>5 DEF Server, ServerTop, ServerCreate, ServerAccept, ServerLoop, ServerRead, ServerSend,
       ServerClose
  <2>3. ~(g > gen) /\ UNCHANGED gen
    BY <1>5, <2>1, <2>2 DEF Server, ServerTop, ServerCreate, ServerAccept, ServerLoop, ServerRead,
       ServerSend, ServerClose
  <2>4. /\ \E c : chan' = [chan EXCEPT ![g] = c]
        /\ \E c : held' = [held EXCEPT ![g] = c]
        /\ \E c : pipe' = [pipe EXCEPT ![g] = c]
    <3>1. chan = [chan EXCEPT ![g] = @] /\ held = [held EXCEPT ![g] = @]
          /\ pipe = [pipe EXCEPT ![g] = @]
      BY DEF Queues
    <3>2. \E c : chan' = [chan EXCEPT ![g] = c]
      BY <1>5, <3>1 DEF Server, ServerTop, ServerCreate, ServerAccept, ServerLoop, ServerRead,
         ServerSend, ServerClose
    <3>3. \E c : held' = [held EXCEPT ![g] = c]
      BY <1>5, <3>1 DEF Server, ServerTop, ServerCreate, ServerAccept, ServerLoop, ServerRead,
         ServerSend, ServerClose
    <3>4. \E c : pipe' = [pipe EXCEPT ![g] = c]
      BY <1>5, <3>1 DEF Server, ServerTop, ServerCreate, ServerAccept, ServerLoop, ServerRead,
         ServerSend, ServerClose, CloseInstance
    <3> QED
      BY <3>2, <3>3, <3>4
  <2>5. \A h \in Sessions : h # g => chan'[h] = chan[h] /\ held'[h] = held[h] /\ pipe'[h] = pipe[h]
    BY <2>4 DEF Queues
  <2> QED
    BY <2>3, <2>5
<1>6. ASSUME NEW t \in GameThreads, WriteSucceeds(t) PROVE Empty'
  <2>1. peer # 0 /\ inst[peer] = "connected" /\ UNCHANGED <<gen, chan, held>>
        /\ pipe' = [pipe EXCEPT ![peer] = Append(@, <<t, calls[t]>>)]
    BY <1>6 DEF WriteSucceeds, HandleUp
  <2>2. peer \in Sessions
    BY <2>1, SessionNumbers
  <2>3. ~(peer > gen)
    BY <2>1, <2>2 DEF InstanceHasServer, Fresh
  <2> QED
    BY <2>1, <2>2, <2>3 DEF Queues
<1>7. CASE UNCHANGED <<gen, chan, held, pipe>>
  BY <1>7
<1>8. Gui => \/ InjectStart \/ InjectFailed \/ StopHook \/ ProcessIncoming \/ GuiExit
             \/ UNCHANGED <<gen, chan, held, pipe>>
  BY DEF Gui, InjectLaunch, InjectOk
<1>9. Dll \/ Game => \/ \E t \in GameThreads : WriteSucceeds(t)
                     \/ UNCHANGED <<gen, chan, held, pipe>>
  BY DEF Dll, Game, RemoteLoad, PipeConnect, FirstHook, InstallEnd, HookedCall, Write, WriteFails,
     GameExit, GameStart
<1> QED
  BY <1>1, <1>2, <1>3, <1>4, <1>5, <1>6, <1>7, <1>8, <1>9 DEF Next, vars

LEMMA WindowStep ==
  ASSUME Typed, Window, [Next]_vars
  PROVE  Window'
<1> USE DEF Typed, TypeOK, Window, guiVars, sessVars, srvVars, kernVars, dllVars, gameVars
<1>1. CASE InjectStart
  <2>1. gen + 1 \in Sessions
    BY <1>1, SessionNumbers DEF InjectStart
  <2> QED
    BY <1>1, <2>1 DEF InjectStart, Flags
<1>2. CASE InjectLaunch \/ InjectOk
  BY <1>2 DEF InjectLaunch, InjectOk
<1>3. CASE InjectFailed
  BY <1>3 DEF InjectFailed
<1>4. CASE StopHook
  BY <1>4 DEF StopHook
<1>5. CASE GuiExit
  BY <1>5 DEF GuiExit
<1>6. CASE UNCHANGED <<gui, hooked, gen, rxOpen>>
  BY <1>6
<1>7. Gui => \/ InjectStart \/ InjectLaunch \/ InjectOk \/ InjectFailed \/ StopHook \/ GuiExit
             \/ UNCHANGED <<gui, hooked, gen, rxOpen>>
  BY DEF Gui, ProcessIncoming
<1>8. (\E g \in Sessions : Server(g)) => UNCHANGED <<gui, hooked, gen, rxOpen>>
  BY DEF Server, ServerTop, ServerCreate, ServerAccept, ServerLoop, ServerRead, ServerSend,
     ServerClose
<1>9. Dll \/ Game => UNCHANGED <<gui, hooked, gen, rxOpen>>
  BY DEF Dll, Game, RemoteLoad, PipeConnect, FirstHook, InstallEnd, HookedCall, Write, WriteFails,
     WriteSucceeds, GameExit, GameStart
<1> QED
  BY <1>1, <1>2, <1>3, <1>4, <1>5, <1>6, <1>7, <1>8, <1>9 DEF Next, vars

LEMMA FlowStep == IInv /\ Flow /\ [Next]_vars => Flow'
BY HeldStep, EmptyStep, WindowStep DEF Flow, IInv

-----------------------------------------------------------------------------
\* What a step does to the captures on their way, seen as a step of CaptureChannel: one of
\* the following, or WriteFile.
NoPut == UNCHANGED Channel!vars \/ Channel!Open \/ Channel!Deliver \/ Channel!Cut

\* The three parts of the queue of the current session.
LEMMA Parts ==
  ASSUME Typed, gen # 0
  PROVE  /\ gen \in Sessions
         /\ chan[gen] \in Seq(Frame) /\ held[gen] \in Seq(Frame) /\ pipe[gen] \in Seq(Frame)
         /\ chan[gen] \o held[gen] \in Seq(Frame)
         /\ (chan[gen] \o held[gen]) \o pipe[gen] = chan[gen] \o (held[gen] \o pipe[gen])
         /\ held[gen] \o pipe[gen] \in Seq(Frame)
<1>1. gen \in Sessions
  BY SessionOfWindow
<1>2. chan \in Queues /\ held \in Queues /\ pipe \in Queues
  BY DEF Typed, TypeOK
<1>3. chan[gen] \in Seq(Frame) /\ held[gen] \in Seq(Frame) /\ pipe[gen] \in Seq(Frame)
  BY <1>1, <1>2, QueueOf
<1>4. chan[gen] \o held[gen] \in Seq(Frame) /\ held[gen] \o pipe[gen] \in Seq(Frame)
  BY <1>3, ConcatProperties
<1>5. (chan[gen] \o held[gen]) \o pipe[gen] = chan[gen] \o (held[gen] \o pipe[gen])
  <2> DEFINE c == chan[gen]
             h == held[gen]
             p == pipe[gen]
  <2>1. c \in Seq(Frame) /\ h \in Seq(Frame) /\ p \in Seq(Frame)
    BY <1>3
  <2> HIDE DEF c, h, p
  <2>2. (c \o h) \o p = c \o (h \o p)
    BY ONLY <2>1, ConcatAssociative
  <2> QED
    BY <2>2 DEF c, h, p
<1> QED
  BY <1>1, <1>3, <1>4, <1>5

LEMMA QueueIsSeq == Typed => Queue \in Seq(Frame)
<1> SUFFICES ASSUME Typed PROVE Queue \in Seq(Frame)
  OBVIOUS
<1>1. CASE gen # 0 /\ rxOpen[gen]
  BY <1>1, Parts, ConcatProperties DEF Queue
<1>2. CASE ~(gen # 0 /\ rxOpen[gen])
  BY <1>2 DEF Queue
<1> QED
  BY <1>1, <1>2

\* A step of another session, or of none.
LEMMA Unseen ==
  ASSUME UNCHANGED <<gen, shown>>,
         gen # 0 => /\ chan'[gen] = chan[gen] /\ held'[gen] = held[gen] /\ pipe'[gen] = pipe[gen]
                    /\ rxOpen'[gen] = rxOpen[gen]
                    /\ (inst'[gen] = "connected") = (inst[gen] = "connected")
  PROVE  UNCHANGED Channel!vars
BY DEF Channel!vars, Queue, Open

\* The end of a session: all of the queue goes.
LEMMA CutsAll ==
  ASSUME Typed, UNCHANGED shown, gen' # 0 => ~rxOpen'[gen'] \/
         (chan'[gen'] = <<>> /\ held'[gen'] = <<>> /\ pipe'[gen'] = <<>> /\ inst'[gen'] = "none")
  PROVE  Channel!Cut
<1>1. Queue' = <<>> /\ ~Open'
  BY DEF Queue, Open
<1>2. 0 \in 0..Len(Queue) /\ SubSeq(Queue, 1, 0) = <<>>
  BY QueueIsSeq, LenProperties, SubSeqEmpty
<1> QED
  BY <1>1, <1>2 DEF Channel!Cut

\* The end of the game: the connection goes, and nothing that was written.
LEMMA CutsNothing ==
  ASSUME Typed, UNCHANGED <<gen, shown, rxOpen, chan, held, pipe>>, inst' = ClientGone
  PROVE  Channel!Cut
<1>1. Queue' = Queue
  BY DEF Queue
<1>2. ~Open'
  <2> SUFFICES ASSUME gen # 0 PROVE inst'[gen] # "connected"
    BY DEF Open
  <2>1. gen \in Sessions
    BY SessionOfWindow
  <2> QED
    BY <2>1 DEF ClientGone
<1>3. Len(Queue) \in 0..Len(Queue) /\ SubSeq(Queue, 1, Len(Queue)) = Queue
  BY QueueIsSeq, LenProperties, SubSeqFull
<1>4. \E n \in 0..Len(Queue) : Queue' = SubSeq(Queue, 1, n)
  BY <1>1, <1>3, Zenon
<1> QED
  BY <1>2, <1>4 DEF Channel!Cut

\* CloseInstance: what nobody read goes with the instance.
LEMMA CutsPipe ==
  ASSUME Typed, NEW g \in Sessions, CloseInstance(g), UNCHANGED <<gen, shown, rxOpen, chan, held>>
  PROVE  NoPut
<1> USE DEF Typed, TypeOK
<1>1. CASE g # gen
  <2>1. gen # 0 => gen \in Sessions
    BY SessionOfWindow
  <2>2. gen # 0 => pipe'[gen] = pipe[gen] /\ inst'[gen] = inst[gen]
    BY <1>1, <2>1 DEF CloseInstance, Queues, Instances
  <2> QED
    BY <2>2, Unseen DEF NoPut
<1>2. CASE g = gen
  <2>1. gen # 0 /\ gen \in Sessions
    BY <1>2, ConstAssumption DEF Sessions
  <2>2. pipe'[gen] = <<>> /\ inst'[gen] = "none"
    BY <1>2, <2>1 DEF CloseInstance, Queues, Instances
  <2>3. CASE ~rxOpen[gen]
    BY <2>3, CutsAll DEF NoPut
  <2>4. CASE rxOpen[gen]
    <3> DEFINE c == chan[gen] \o held[gen]
    <3>1. c \in Seq(Frame) /\ pipe[gen] \in Seq(Frame)
      BY <2>1, Parts
    <3>2. Queue = c \o pipe[gen]
      BY <2>1, <2>4 DEF Queue
    <3>3. Queue' = c /\ ~Open'
      <4>1. Queue' = c \o <<>>
        BY <2>1, <2>2, <2>4 DEF Queue
      <4> QED
        BY <2>2, <3>1, <4>1, ConcatEmptySeq DEF Open
    <3> HIDE DEF c
    <3>4. SubSeq(Queue, 1, Len(c)) = c
      BY <3>1, <3>2, SplitConcat
    <3>5. Len(c) \in 0..Len(Queue)
      BY <3>1, <3>2, ConcatProperties, LenProperties
    <3>6. \E n \in 0..Len(Queue) : Queue' = SubSeq(Queue, 1, n)
      BY <3>3, <3>4, <3>5, Zenon
    <3> QED
      BY <3>3, <3>6 DEF Channel!Cut, NoPut
  <2> QED
    BY <2>3, <2>4
<1> QED
  BY <1>1, <1>2

\* process_incoming_packets shows the channel, the head of the queue.
LEMMA Shows ==
  ASSUME Typed, Window, ProcessIncoming
  PROVE  Channel!Deliver
<1> USE DEF Typed, TypeOK, ProcessIncoming, sessVars, srvVars, kernVars
<1> DEFINE c == chan[gen]
           r == held[gen] \o pipe[gen]
<1>1. gen # 0 /\ gen \in Sessions /\ rxOpen[gen]
  BY SessionOfWindow DEF Window
<1>2. c \in Seq(Frame) /\ r \in Seq(Frame) /\ Queue = c \o r
  BY <1>1, Parts DEF Queue
<1>3. chan'[gen] = <<>> /\ shown' = shown \o c
  BY <1>1 DEF Queues
<1>4. Queue' = r
  <2>1. Queue' = (<<>> \o held[gen]) \o pipe[gen]
    BY <1>1, <1>3 DEF Queue
  <2>2. <<>> \o held[gen] = held[gen]
    BY <1>1, Parts, ConcatEmptySeq
  <2> QED
    BY <2>1, <2>2
<1>5. UNCHANGED Open
  BY DEF Open
<1>6. c # <<>>
  OBVIOUS
<1> HIDE DEF c, r
<1>7. SubSeq(Queue, 1, Len(c)) = c /\ SubSeq(Queue, Len(c) + 1, Len(Queue)) = r
  BY <1>2, SplitConcat
<1>8. Len(c) \in 1..Len(Queue)
  <2>1. Len(c) \in Nat /\ Len(r) \in Nat /\ Len(c) # 0 /\ Len(Queue) = Len(c) + Len(r)
    BY <1>2, <1>6, ConcatProperties, LenProperties, EmptySeq
  <2> QED
    BY <2>1
<1>9. /\ shown' = shown \o SubSeq(Queue, 1, Len(c))
      /\ Queue' = SubSeq(Queue, Len(c) + 1, Len(Queue))
  BY <1>3, <1>4, <1>7
<1> QED
  BY <1>5, <1>8, <1>9, Zenon DEF Channel!Deliver

\* The GUI thread ends sessions and shows captures, and nothing else.
LEMMA GuiStep ==
  ASSUME IInv, Flow, Gui
  PROVE  NoPut
<1> USE DEF IInv, Flow, Typed, TypeOK, guiVars, sessVars, srvVars, kernVars, dllVars, gameVars
<1>1. CASE InjectStart
  <2>1. gen + 1 \in Sessions /\ gen + 1 > gen
    BY <1>1, SessionNumbers DEF InjectStart
  <2>2. chan[gen + 1] = <<>> /\ held[gen + 1] = <<>> /\ pipe[gen + 1] = <<>>
    BY <2>1 DEF Empty
  <2>3. inst[gen + 1] = "none"
    BY <2>1 DEF Fresh, InstanceHasServer
  <2>4. Channel!Cut
    BY <1>1, <2>2, <2>3, CutsAll DEF InjectStart
  <2> QED
    BY <2>4 DEF NoPut
<1>2. CASE InjectLaunch \/ InjectOk
  BY <1>2, Unseen DEF InjectLaunch, InjectOk, NoPut
<1>3. CASE InjectFailed \/ StopHook
  <2>1. EndSession(gen) /\ UNCHANGED <<gen, shown>>
    BY <1>3 DEF InjectFailed, StopHook
  <2>2. gen # 0 => ~rxOpen'[gen]
    BY <2>1, SessionOfWindow DEF EndSession, Flags
  <2>3. Channel!Cut
    BY <2>1, <2>2, CutsAll
  <2> QED
    BY <2>3 DEF NoPut
<1>4. CASE ProcessIncoming
  BY <1>4, Shows DEF NoPut
<1>5. CASE GuiExit
  <2>1. UNCHANGED <<gen, shown>> /\ (gen # 0 => ~rxOpen'[gen])
    BY <1>5, SessionOfWindow DEF GuiExit
  <2>2. Channel!Cut
    BY <2>1, CutsAll
  <2> QED
    BY <2>2 DEF NoPut
<1> QED
  BY <1>1, <1>2, <1>3, <1>4, <1>5 DEF Gui

\* A server thread takes a frame from the pipe in hand: it stays where it is in the queue.
LEMMA TakesFrame ==
  ASSUME Typed, gen # 0, held[gen] = <<>>, pipe[gen] # <<>>, UNCHANGED <<gen, rxOpen, chan>>,
         held'[gen] = <<Head(pipe[gen])>>, pipe'[gen] = Tail(pipe[gen])
  PROVE  Queue' = Queue
<1> DEFINE c == chan[gen]
           p == pipe[gen]
<1>1. c \in Seq(Frame) /\ p \in Seq(Frame) /\ p # <<>>
  BY Parts
<1>2. rxOpen[gen] => Queue = (c \o <<>>) \o p /\ Queue' = (c \o <<Head(p)>>) \o Tail(p)
  BY DEF Queue
<1>3. ~rxOpen[gen] => Queue' = Queue
  BY DEF Queue
<1> HIDE DEF c, p
<1>4. c \o <<>> = c
  BY <1>1, ConcatEmptySeq
<1>5. <<Head(p)>> \in Seq(Frame) /\ Tail(p) \in Seq(Frame) /\ <<Head(p)>> \o Tail(p) = p
  BY <1>1, HeadAndTail
<1>6. (c \o <<Head(p)>>) \o Tail(p) = c \o p
  BY <1>1, <1>5, ConcatAssociative
<1> QED
  BY <1>2, <1>3, <1>4, <1>6

\* It sends the frame on: so does it here.
LEMMA SendsFrame ==
  ASSUME Typed, gen # 0, UNCHANGED <<gen, rxOpen, pipe>>,
         held'[gen] = <<>>, rxOpen[gen] => chan'[gen] = chan[gen] \o held[gen]
  PROVE  Queue' = Queue
<1> DEFINE c == chan[gen] \o held[gen]
<1>1. c \in Seq(Frame)
  BY Parts
<1>2. rxOpen[gen] => Queue = c \o pipe[gen] /\ Queue' = (c \o <<>>) \o pipe[gen]
  BY DEF Queue
<1>3. ~rxOpen[gen] => Queue' = Queue
  BY DEF Queue
<1> HIDE DEF c
<1>4. c \o <<>> = c
  BY <1>1, ConcatEmptySeq
<1> QED
  BY <1>2, <1>3, <1>4

\* A server thread moves what it reads along, and may cut the end off with its instance.
LEMMA ServerStep ==
  ASSUME IInv, Flow, NEW g \in Sessions, Server(g)
  PROVE  NoPut
<1> USE DEF IInv, Flow, Typed, TypeOK, guiVars, sessVars, srvVars, kernVars, dllVars, gameVars
<1>1. CASE ServerTop(g) \/ ServerLoop(g)
  BY <1>1, Unseen DEF ServerTop, ServerLoop, NoPut
<1>2. CASE ServerCreate(g)
  <2>1. inst[g] = "none"
    BY <1>2 DEF ServerCreate, InstanceHasServer
  <2>2. gen # 0 => (inst'[gen] = "connected") = (inst[gen] = "connected")
    <3> SUFFICES ASSUME gen # 0
                 PROVE  (inst'[gen] = "connected") = (inst[gen] = "connected")
      OBVIOUS
    <3>1. gen \in Sessions
      BY SessionOfWindow
    <3> QED
      BY <1>2, <2>1, <3>1 DEF ServerCreate, Instances
  <2> QED
    BY <1>2, <2>2, Unseen DEF ServerCreate, NoPut
<1>3. CASE ServerAccept(g)
  <2>1. CASE UNCHANGED kernVars
    BY <1>3, <2>1, Unseen DEF ServerAccept, NoPut
  <2>2. CASE CloseInstance(g)
    BY <1>3, <2>2, CutsPipe DEF ServerAccept, NoPut
  <2> QED
    BY <1>3, <2>1, <2>2 DEF ServerAccept
<1>4. CASE ServerRead(g)
  <2>1. CASE UNCHANGED <<held, pipe>>
    BY <1>4, <2>1, Unseen DEF ServerRead, NoPut
  <2>2. CASE /\ pipe[g] # <<>>
             /\ held' = [held EXCEPT ![g] = <<Head(pipe[g])>>]
             /\ pipe' = [pipe EXCEPT ![g] = Tail(@)]
    <3>1. CASE g # gen
      <4>1. gen # 0 => held'[gen] = held[gen] /\ pipe'[gen] = pipe[gen]
        BY <2>2, <3>1, SessionOfWindow DEF Queues
      <4> QED
        BY <1>4, <4>1, Unseen DEF ServerRead, NoPut
    <3>2. CASE g = gen
      <4>1. gen # 0 /\ held[gen] = <<>>
        BY <1>4, <3>2, ConstAssumption DEF ServerRead, Held, Sessions
      <4>2. held'[gen] = <<Head(pipe[gen])>> /\ pipe'[gen] = Tail(pipe[gen])
        BY <2>2, <3>2 DEF Queues
      <4>3. Queue' = Queue
        BY <1>4, <2>2, <3>2, <4>1, <4>2, TakesFrame DEF ServerRead
      <4>4. UNCHANGED Open
        BY <1>4 DEF ServerRead, Open
      <4> QED
        BY <1>4, <4>3, <4>4 DEF ServerRead, Channel!vars, NoPut
    <3> QED
      BY <3>1, <3>2
  <2> QED
    BY <1>4, <2>1, <2>2 DEF ServerRead
<1>5. CASE ServerSend(g)
  <2>1. CASE g # gen
    <3>1. gen # 0 => held'[gen] = held[gen] /\ chan'[gen] = chan[gen]
      BY <1>5, <2>1, SessionOfWindow DEF ServerSend, Queues
    <3> QED
      BY <1>5, <3>1, Unseen DEF ServerSend, NoPut
  <2>2. CASE g = gen
    <3>1. gen # 0
      BY <2>2, ConstAssumption DEF Sessions
    <3>2. held'[gen] = <<>>
      BY <1>5, <2>2 DEF ServerSend, Queues
    <3>3. rxOpen[gen] => chan'[gen] = chan[gen] \o held[gen]
      BY <1>5, <2>2 DEF ServerSend, Queues
    <3>4. Queue' = Queue
      BY <1>5, <3>1, <3>2, <3>3, SendsFrame DEF ServerSend
    <3>5. UNCHANGED Open
      BY <1>5 DEF ServerSend, Open
    <3> QED
      BY <1>5, <3>4, <3>5 DEF ServerSend, Channel!vars, NoPut
  <2> QED
    BY <2>1, <2>2
<1>6. CASE ServerClose(g)
  BY <1>6, CutsPipe DEF ServerClose, NoPut
<1> QED
  BY <1>1, <1>2, <1>3, <1>4, <1>5, <1>6 DEF Server

\* PipeConnect opens the queue, if it is the current session it connects to.
LEMMA ConnectStep ==
  ASSUME IInv, PipeConnect
  PROVE  NoPut
<1> USE DEF IInv, Typed, TypeOK, PipeConnect, guiVars, sessVars, srvVars, kernVars
<1>1. CASE UNCHANGED inst
  BY <1>1, Unseen DEF NoPut
<1>2. ASSUME NEW g \in Sessions, inst[g] = "listening", inst' = [inst EXCEPT ![g] = "connected"]
      PROVE  NoPut
  <2>1. CASE gen = g /\ gen # 0 /\ rxOpen[gen]
    <3>1. Queue' = Queue /\ UNCHANGED shown
      BY DEF Queue
    <3>2. ~Open /\ Open'
      BY <1>2, <2>1 DEF Open, Instances
    <3>3. Channel!Open
      BY <3>1, <3>2 DEF Channel!Open
    <3> QED
      BY <3>3 DEF NoPut
  <2>2. CASE gen # g \/ gen = 0
    <3>1. gen # 0 => inst'[gen] = inst[gen]
      BY <1>2, <2>2, SessionOfWindow DEF Instances
    <3> QED
      BY <3>1, Unseen DEF NoPut
  <2>3. CASE gen # 0 /\ ~rxOpen[gen]
    BY <2>3 DEF Channel!vars, Queue, Open, NoPut
  <2> QED
    BY <2>1, <2>2, <2>3
<1> QED
  BY <1>1, <1>2

\* WriteFile puts a capture at the end of the queue of the session it is connected to.
LEMMA WriteStep ==
  ASSUME IInv, NEW t \in GameThreads, WriteSucceeds(t)
  PROVE  UNCHANGED Channel!vars \/ (<<t, calls[t]>> \in Frame /\ Channel!Put(<<t, calls[t]>>))
<1> USE DEF IInv, Typed, TypeOK, WriteSucceeds, guiVars, sessVars, srvVars
<1> DEFINE f == <<t, calls[t]>>
<1>1. f \in Frame
  <2>1. calls[t] \in 0..MaxCalls /\ calls[t] # 0
    BY DEF Counts
  <2>2. calls[t] \in 1..MaxCalls
    BY <2>1, ConstAssumption
  <2> QED
    BY <2>2 DEF Frame
<1>2. inst[peer] = "connected" /\ pipe' = [pipe EXCEPT ![peer] = Append(@, f)]
  BY DEF HandleUp
<1>3. CASE gen = peer /\ gen # 0 /\ rxOpen[gen]
  <2> DEFINE c == chan[gen] \o held[gen]
             p == pipe[gen]
  <2>1. c \in Seq(Frame) /\ p \in Seq(Frame) /\ gen \in Sessions
    BY <1>3, Parts
  <2>2. Queue = c \o p /\ Queue' = c \o Append(p, f)
    BY <1>2, <1>3, <2>1 DEF Queue, Queues
  <2>3. Open /\ Open'
    BY <1>2, <1>3 DEF Open
  <2> HIDE DEF c, p, f
  <2>4. Queue' = Append(Queue, f)
    <3>1. Append(c \o p, f) = c \o Append(p, f)
      BY ONLY <1>1, <2>1, AppendToConcat
    <3> QED
      BY <2>2, <3>1
  <2>5. Channel!Put(f)
    BY <2>3, <2>4 DEF Channel!Put
  <2> QED
    BY <1>1, <2>5 DEF f
<1>4. CASE gen # peer \/ gen = 0
  <2>1. gen # 0 => pipe'[gen] = pipe[gen]
    BY <1>2, <1>4, SessionOfWindow DEF Queues
  <2> QED
    BY <2>1, Unseen
<1>5. CASE gen # 0 /\ ~rxOpen[gen]
  BY <1>5 DEF Channel!vars, Queue, Open
<1> QED
  BY <1>3, <1>4, <1>5

LEMMA GameStep ==
  ASSUME IInv, Dll \/ Game, ~\E t \in GameThreads : WriteSucceeds(t)
  PROVE  NoPut
<1> USE DEF IInv, guiVars, sessVars, srvVars, kernVars, dllVars, gameVars
<1>1. CASE \/ FirstHook \/ GameStart
           \/ \E g \in Sessions : RemoteLoad(g)
           \/ \E t \in GameThreads : HookedCall(t) \/ WriteFails(t)
  BY <1>1, Unseen DEF FirstHook, GameStart, RemoteLoad, HookedCall, WriteFails, NoPut
<1>2. CASE PipeConnect
  BY <1>2, ConnectStep
<1>3. CASE InstallEnd \/ GameExit
  <2>1. CASE UNCHANGED inst
    BY <1>3, <2>1, Unseen DEF InstallEnd, GameExit, NoPut
  <2>2. CASE inst' = ClientGone
    BY <1>3, <2>2, CutsNothing DEF InstallEnd, GameExit, NoPut
  <2> QED
    BY <1>3, <2>1, <2>2 DEF InstallEnd, GameExit
<1> QED
  BY <1>1, <1>2, <1>3 DEF Dll, Game, Write

LEMMA StepAsQueue ==
  ASSUME IInv, Flow, [Next]_vars, ~\E t \in GameThreads : WriteSucceeds(t)
  PROVE  NoPut
<1>1. CASE UNCHANGED vars
  BY <1>1, Unseen DEF vars, guiVars, sessVars, srvVars, kernVars, NoPut
<1> QED
  BY <1>1, GuiStep, ServerStep, GameStep DEF Next

LEMMA ChannelStep == IInv /\ Flow /\ [Next]_vars => [Channel!Next]_(Channel!vars)
<1> SUFFICES ASSUME IInv, Flow, [Next]_vars PROVE [Channel!Next]_(Channel!vars)
  OBVIOUS
<1>1. CASE \E t \in GameThreads : WriteSucceeds(t)
  BY <1>1, WriteStep DEF Channel!Next
<1>2. CASE ~\E t \in GameThreads : WriteSucceeds(t)
  BY <1>2, StepAsQueue DEF NoPut, Channel!Next
<1> QED
  BY <1>1, <1>2

LEMMA ChannelInit == Init => Channel!Init
BY DEF Init, Channel!Init, Queue, Open

\* write_capture, the pipe, the server threads, the channel and the list together are one
\* queue: what was captured is shown in order, and lost only from the tail, and only when a
\* connection or a session ends.
THEOREM ImplementsChannel == Spec => ChannelSpec
<1>1. Spec => []Flow
  BY FlowInit, FlowStep, Invariance, PTL DEF Spec
<1> QED
  BY <1>1, ChannelInit, ChannelStep, Invariance, PTL DEF Spec, ChannelSpec, Channel!Spec

-----------------------------------------------------------------------------
\* The order of a thread's captures.  A step that puts nothing leaves a prefix of what was
\* shown or queued; a put is later than all of its thread.
Captures == shown \o Queue

Ordered(s) == \A i, j \in DOMAIN s : i < j /\ s[i][1] = s[j][1] => s[i][2] < s[j][2]

\* All captures of a thread are of calls it has begun, and of earlier ones than it writes.
Counted ==
  \A i \in DOMAIN Captures :
    LET t == Captures[i][1]
        k == Captures[i][2]
    IN k <= calls[t] /\ (writer[t] = "write" => k < calls[t])

LEMMA PrefixOfConcat ==
  ASSUME NEW s \in Seq(Frame), NEW q \in Seq(Frame), NEW n \in 0..Len(q)
  PROVE  /\ Len(s) + n \in 0..Len(s \o q)
         /\ s \o SubSeq(q, 1, n) = SubSeq(s \o q, 1, Len(s) + n)
<1> DEFINE u == s \o q
           a == Len(s)
           l == s \o SubSeq(q, 1, n)
           r == SubSeq(u, 1, a + n)
<1>1. a \in Nat /\ Len(q) \in Nat /\ n \in Nat /\ n <= Len(q)
  BY LenProperties
<1>2. u \in Seq(Frame) /\ Len(u) = a + Len(q)
      /\ \A i \in 1..(a + Len(q)) : u[i] = IF i <= a THEN s[i] ELSE q[i - a]
  BY ConcatProperties
<1>3. SubSeq(q, 1, n) \in Seq(Frame) /\ Len(SubSeq(q, 1, n)) = n
      /\ \A i \in 1..n : SubSeq(q, 1, n)[i] = q[i]
  <2>1. \A i \in 1..n : q[i] \in Frame
    BY <1>1, ElementOfSeq
  <2> QED
    BY <1>1, <2>1, SubSeqProperties
<1>4. l \in Seq(Frame) /\ Len(l) = a + n
      /\ \A i \in 1..(a + n) : l[i] = IF i <= a THEN s[i] ELSE SubSeq(q, 1, n)[i - a]
  BY <1>3, ConcatProperties
<1>5. r \in Seq(Frame) /\ Len(r) = a + n /\ \A i \in 1..(a + n) : r[i] = u[i]
  <2> HIDE DEF u, a
  <2>1. \A i \in 1..(a + n) : u[i] \in Frame
    BY <1>1, <1>2, ElementOfSeq
  <2> QED
    BY <1>1, <2>1, SubSeqProperties
<1> HIDE DEF a, l, r, u
<1>6. \A i \in 1..(a + n) : l[i] = r[i]
  <2> SUFFICES ASSUME NEW i \in 1..(a + n) PROVE l[i] = r[i]
    OBVIOUS
  <2>1. CASE i <= a
    BY <1>1, <1>2, <1>4, <1>5, <2>1
  <2>2. CASE ~(i <= a)
    <3>1. i - a \in 1..n
      BY <1>1, <2>2
    <3>2. i \in 1..(a + Len(q))
      BY <1>1
    <3>3. l[i] = SubSeq(q, 1, n)[i - a]
      BY <1>4, <2>2
    <3>4. SubSeq(q, 1, n)[i - a] = q[i - a]
      BY <1>3, <3>1
    <3>5. r[i] = u[i] /\ u[i] = q[i - a]
      BY <1>2, <1>5, <2>2, <3>2
    <3> QED
      BY <3>3, <3>4, <3>5
  <2> QED
    BY <2>1, <2>2
<1>7. l = r
  BY <1>4, <1>5, <1>6, SeqEqual
<1>8. a + n \in 0..Len(u)
  BY <1>1, <1>2
<1> QED
  BY <1>7, <1>8 DEF a, l, r, u

\* A prefix has the elements of the whole.
LEMMA PrefixElements ==
  ASSUME NEW s \in Seq(Frame), NEW n \in 0..Len(s)
  PROVE  /\ DOMAIN SubSeq(s, 1, n) \subseteq DOMAIN s
         /\ \A i \in DOMAIN SubSeq(s, 1, n) : SubSeq(s, 1, n)[i] = s[i]
<1> DEFINE r == SubSeq(s, 1, n)
<1>1. n \in Nat /\ n <= Len(s) /\ Len(s) \in Nat /\ DOMAIN s = 1..Len(s)
  BY LenProperties
<1>2. \A i \in 1..n : s[i] \in Frame
  BY <1>1, ElementOfSeq
<1>3. r \in Seq(Frame) /\ Len(r) = n /\ \A i \in 1..n : r[i] = s[i]
  BY <1>1, <1>2, SubSeqProperties
<1> HIDE DEF r
<1>4. DOMAIN r = 1..n
  BY <1>3, LenProperties
<1>5. DOMAIN r \subseteq DOMAIN s /\ \A i \in DOMAIN r : r[i] = s[i]
  BY <1>1, <1>3, <1>4
<1> QED
  BY <1>5 DEF r

LEMMA AppendElements ==
  ASSUME NEW s \in Seq(Frame), NEW f \in Frame
  PROVE  \A i \in DOMAIN Append(s, f) :
           \/ i \in DOMAIN s /\ Append(s, f)[i] = s[i]
           \/ i = Len(s) + 1 /\ Append(s, f)[i] = f
OBVIOUS

LEMMA CapturesIsSeq ==
  Typed => Captures \in Seq(Frame) /\ shown \in Seq(Frame) /\ Queue \in Seq(Frame)
BY QueueIsSeq, ConcatProperties DEF Captures, Typed, TypeOK

\* What a step that puts nothing leaves of them.
LEMMA Leaves ==
  ASSUME Typed, NoPut
  PROVE  \E n \in 0..Len(Captures) : Captures' = SubSeq(Captures, 1, n)
<1>1. Captures \in Seq(Frame) /\ shown \in Seq(Frame) /\ Queue \in Seq(Frame)
  BY CapturesIsSeq
<1>2. Len(Captures) \in 0..Len(Captures) /\ SubSeq(Captures, 1, Len(Captures)) = Captures
  BY <1>1, LenProperties, SubSeqFull
<1>3. CASE UNCHANGED Channel!vars \/ Channel!Open
  <2>1. Captures' = Captures
    BY <1>3 DEF Channel!vars, Channel!Open, Captures
  <2> QED
    BY <1>2, <2>1, Zenon
<1>4. CASE Channel!Deliver
  <2>1. PICK n \in 1..Len(Queue) : shown' = shown \o SubSeq(Queue, 1, n)
                                   /\ Queue' = SubSeq(Queue, n + 1, Len(Queue))
    BY <1>4 DEF Channel!Deliver
  <2> DEFINE h == SubSeq(Queue, 1, n)
             r == SubSeq(Queue, n + 1, Len(Queue))
  <2>2. n \in Nat /\ n >= 1 /\ Len(Queue) \in Nat /\ n <= Len(Queue)
    BY <1>1, LenProperties
  <2>3. h \o r = Queue
    <3>1. 1 \in 1..(Len(Queue) + 1) /\ n \in (1 - 1)..Len(Queue) /\ Len(Queue) \in n..Len(Queue)
      BY <2>2
    <3> QED
      BY <1>1, <3>1, ConcatAdjacentSubSeq
  <2>4. h \in Seq(Frame) /\ r \in Seq(Frame)
    <3>1. \A i \in 1..n : Queue[i] \in Frame
      BY <1>1, <2>2, ElementOfSeq
    <3>2. \A i \in (n + 1)..Len(Queue) : Queue[i] \in Frame
      BY <1>1, <2>2, ElementOfSeq
    <3> QED
      BY <2>2, <3>1, <3>2, SubSeqProperties
  <2>5. Captures' = (shown \o h) \o r
    BY <2>1 DEF Captures
  <2> HIDE DEF h, r
  <2>6. (shown \o h) \o r = shown \o (h \o r)
    BY <1>1, <2>4, ConcatOfFrames, ZenonT(30)
  <2>7. Captures' = Captures
    BY <2>3, <2>5, <2>6 DEF Captures
  <2> QED
    BY <1>2, <2>7, Zenon
<1>5. CASE Channel!Cut
  <2>1. PICK n \in 0..Len(Queue) : Queue' = SubSeq(Queue, 1, n) /\ shown' = shown
    BY <1>5 DEF Channel!Cut
  <2>2. Captures' = shown \o SubSeq(Queue, 1, n)
    BY <2>1 DEF Captures
  <2>3. /\ Len(shown) + n \in 0..Len(Captures)
        /\ shown \o SubSeq(Queue, 1, n) = SubSeq(Captures, 1, Len(shown) + n)
    BY <1>1, PrefixOfConcat DEF Captures
  <2> QED
    BY <2>2, <2>3, Zenon
<1> QED
  BY <1>3, <1>4, <1>5 DEF NoPut

\* A thread's count only grows, and a thread that begins to write counts its call.
LEMMA ClockStep ==
  ASSUME Typed, [Next]_vars, NEW t \in GameThreads
  PROVE  \/ calls'[t] = calls[t] /\ (writer'[t] = "write" => writer[t] = "write")
         \/ calls'[t] = calls[t] + 1
<1> USE DEF Typed, TypeOK, dllVars, gameVars
<1>1. CASE UNCHANGED <<calls, writer>>
  BY <1>1
<1>2. ASSUME NEW u \in GameThreads, HookedCall(u)
      PROVE  \/ calls'[t] = calls[t] /\ (writer'[t] = "write" => writer[t] = "write")
             \/ calls'[t] = calls[t] + 1
  BY <1>2 DEF HookedCall, Counts, Writers
<1>3. ASSUME NEW u \in GameThreads, Write(u)
      PROVE  calls'[t] = calls[t] /\ (writer'[t] = "write" => writer[t] = "write")
  BY <1>3 DEF Write, WriteFails, WriteSucceeds, Writers
<1>4. CASE GameExit
  BY <1>4 DEF GameExit
<1>5. Gui \/ Dll \/ GameStart => UNCHANGED <<calls, writer>>
  BY DEF Gui, InjectStart, InjectLaunch, InjectOk, InjectFailed, StopHook, ProcessIncoming, GuiExit,
     Dll, RemoteLoad, PipeConnect, FirstHook, InstallEnd, GameStart
<1>6. (\E g \in Sessions : Server(g)) => UNCHANGED <<calls, writer>>
  BY DEF Server, ServerTop, ServerCreate, ServerAccept, ServerLoop, ServerRead, ServerSend,
     ServerClose
<1> QED
  BY <1>1, <1>2, <1>3, <1>4, <1>5, <1>6 DEF Next, Game, vars

LEMMA OrderStep ==
  ASSUME IInv, Flow, Counted, Ordered(Captures), [Next]_vars
  PROVE  Counted' /\ Ordered(Captures)'
<1> USE DEF IInv
<1>1. Captures \in Seq(Frame)
  BY CapturesIsSeq
<1>2. calls \in [GameThreads -> Nat] /\ calls' \in [GameThreads -> Nat]
  <2>1. \A c \in Counts : c \in [GameThreads -> Nat]
    BY ConstAssumption DEF Counts
  <2>2. Typed'
    BY TypedStep
  <2> QED
    BY <2>1, <2>2 DEF Typed, TypeOK
<1>3. \A i \in DOMAIN Captures : Captures[i][1] \in GameThreads /\ Captures[i][2] \in Nat
  BY <1>1, LenProperties, ElementOfSeq DEF Frame
<1>4. CASE ~\E t \in GameThreads : WriteSucceeds(t)
  <2>1. PICK n \in 0..Len(Captures) : Captures' = SubSeq(Captures, 1, n)
    BY <1>4, StepAsQueue, Leaves
  <2>2. DOMAIN Captures' \subseteq DOMAIN Captures
        /\ \A i \in DOMAIN Captures' : Captures'[i] = Captures[i]
    BY <1>1, <2>1, PrefixElements
  <2>3. Ordered(Captures)'
    BY <2>2 DEF Ordered
  <2>4. Counted'
    <3> SUFFICES ASSUME NEW i \in DOMAIN Captures,
                        NEW t \in GameThreads, t = Captures[i][1]
                 PROVE  /\ Captures[i][2] <= calls'[t]
                        /\ writer'[t] = "write" => Captures[i][2] < calls'[t]
      BY <1>3, <2>2 DEF Counted
    <3>1. /\ Captures[i][2] <= calls[t]
          /\ writer[t] = "write" => Captures[i][2] < calls[t]
      BY DEF Counted
    <3> QED
      BY <1>2, <1>3, <3>1, ClockStep, SMTT(30)
  <2> QED
    BY <2>3, <2>4
<1>5. ASSUME NEW t \in GameThreads, WriteSucceeds(t)
      PROVE  Counted' /\ Ordered(Captures)'
  <2> DEFINE f == <<t, calls[t]>>
  <2>1. writer[t] = "write" /\ calls' = calls /\ writer' = [writer EXCEPT ![t] = "idle"]
    BY <1>5 DEF WriteSucceeds, gameVars
  <2>2. writer'[t] # "write" /\ \A u \in GameThreads : writer'[u] = "write" => writer[u] = "write"
    BY <2>1 DEF Typed, TypeOK, Writers
  <2>3. CASE UNCHANGED Channel!vars
    <3>1. Captures' = Captures
      BY <2>3 DEF Channel!vars, Captures
    <3>2. Counted'
      BY <1>3, <2>1, <2>2, <3>1 DEF Counted
    <3> QED
      BY <3>1, <3>2 DEF Ordered
  <2>4. CASE f \in Frame /\ Channel!Put(f)
    <3>1. Captures' = Append(Captures, f)
      <4>1. Queue' = Append(Queue, f) /\ shown' = shown
        BY <2>4 DEF Channel!Put
      <4>2. shown \in Seq(Frame) /\ Queue \in Seq(Frame)
        BY CapturesIsSeq
      <4> HIDE DEF f
      <4>3. Append(shown \o Queue, f) = shown \o Append(Queue, f)
        BY ONLY <2>4, <4>2, AppendToConcat
      <4> QED
        BY <4>1, <4>3 DEF Captures
    <3>2. \A i \in DOMAIN Captures' : \/ i \in DOMAIN Captures /\ Captures'[i] = Captures[i]
                                      \/ i = Len(Captures) + 1 /\ Captures'[i] = f
      BY <1>1, <2>4, <3>1, AppendElements
    <3>3. \A i \in DOMAIN Captures : i \in Nat /\ i < Len(Captures) + 1
      BY <1>1, LenProperties
    <3>4. \A i \in DOMAIN Captures : Captures[i][1] = t => Captures[i][2] < calls[t]
      BY <2>1 DEF Counted
    <3>5. f[1] = t /\ f[2] = calls[t] /\ calls[t] \in Nat
      BY <1>2
    <3>6. Counted'
      <4> SUFFICES ASSUME NEW i \in DOMAIN Captures',
                          NEW u \in GameThreads, u = Captures'[i][1]
                   PROVE  /\ Captures'[i][2] <= calls[u]
                          /\ writer'[u] = "write" => Captures'[i][2] < calls[u]
        BY <1>3, <2>1, <3>2, <3>5 DEF Counted
      <4>1. CASE i \in DOMAIN Captures /\ Captures'[i] = Captures[i]
        BY <2>2, <4>1 DEF Counted
      <4>2. CASE Captures'[i] = f
        BY <2>2, <3>5, <4>2
      <4> QED
        BY <3>2, <4>1, <4>2
    <3>7. Ordered(Captures)'
      <4> SUFFICES ASSUME NEW i \in DOMAIN Captures', NEW j \in DOMAIN Captures', i < j,
                          Captures'[i][1] = Captures'[j][1]
                   PROVE  Captures'[i][2] < Captures'[j][2]
        BY DEF Ordered
      <4> HIDE DEF f
      <4>1. i \in DOMAIN Captures /\ Captures'[i] = Captures[i]
        <5>1. Len(Captures) \in Nat
          BY <1>1, LenProperties
        <5> QED
          BY <3>2, <3>3, <5>1
      <4>2. CASE j \in DOMAIN Captures /\ Captures'[j] = Captures[j]
        BY <4>1, <4>2 DEF Ordered
      <4>3. CASE Captures'[j] = f
        BY <3>4, <3>5, <4>1, <4>3
      <4> QED
        BY <3>2, <4>2, <4>3
    <3> QED
      BY <3>6, <3>7
  <2> QED
    BY <1>5, <2>3, <2>4, WriteStep
<1> QED
  BY <1>4, <1>5

LEMMA OrderInit == Init => Counted /\ Ordered(Captures)
<1> SUFFICES ASSUME Init PROVE Counted /\ Ordered(Captures)
  OBVIOUS
<1>1. Captures = <<>>
  BY DEF Init, Captures, Queue
<1> QED
  BY <1>1 DEF Counted, Ordered

\* The captures of one thread are listed in the order of its calls and none twice, over any
\* number of sessions, games and restarts.
THEOREM ThreadOrder == Spec => []PerThreadOrder
<1>1. Spec => []Flow
  BY FlowInit, FlowStep, Invariance, PTL DEF Spec
<1>2. Spec => [](Counted /\ Ordered(Captures))
  BY <1>1, OrderInit, OrderStep, Invariance, PTL DEF Spec
<1>3. Ordered(Captures) => PerThreadOrder
  BY DEF Ordered, Captures, PerThreadOrder
<1> QED
  BY <1>2, <1>3, PTL

=============================================================================
