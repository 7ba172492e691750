----------------------------- MODULE MCCapturePath -----------------------------
(***************************************************************************)
(* The way of a capture in the game: the hooks, which decide what is       *)
(* captured (HookCalls), and the pipe, which carries it (FramePipe).  They *)
(* meet in the call of write_capture and share no state: each is run with  *)
(* the other as it began.                                                  *)
(***************************************************************************)
EXTENDS FramePipe

CONSTANTS Sockets, Buffers, Games, MaxConns, MaxBytes

VARIABLES game, conn, conns, next, stream, hook, captured

hookVars == <<game, conn, conns, next, stream, hook, captured>>

Hooks == INSTANCE HookCalls

ASSUME PathAssumption == Hooks!HookAssumption

HookStep == Init /\ Hooks!Next /\ UNCHANGED vars
PipeStep == Hooks!Init /\ game = {} /\ Next /\ UNCHANGED hookVars

PathInit == Init /\ Hooks!Init

PathSpec == PathInit /\ [][HookStep \/ PipeStep]_<<vars, hookVars>> /\ Fairness

-----------------------------------------------------------------------------
\* The types of both.
TypesOK == TypeOK /\ Hooks!TypeOK

\* See HookCalls.
StreamsReassembled == Hooks!StreamsReassembled

-----------------------------------------------------------------------------
\* The buffers of the WSASend calls: one, and two with an empty one between.
BufferEnds == {<<1>>, <<1, 1, 2>>}

\* Payloads of one byte; one of thread "b" is too long to be read.
LongLen(f) == IF f = <<"b", 2>> THEN 4 ELSE 1

=============================================================================
