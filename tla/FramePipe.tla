------------------------------ MODULE FramePipe ------------------------------
(***************************************************************************)
(* The byte pipe between write_capture (pipe.rs), on any of the game's     *)
(* threads, and read_from_pipe (pipe_reader.rs): how whole frames come out *)
(* of a pipe that takes and gives as many bytes as it likes, either end of *)
(* which may end in the middle of a frame.  CaptureSession has the same    *)
(* pipe frame by frame; FrameQueue is what it may count on.                *)
(*                                                                         *)
(* A frame is the <<thread, n>> of the n-th hooked call of a thread; its   *)
(* bytes are <<frame, i>>, the first four its total_len.                   *)
(***************************************************************************)
EXTENDS Naturals, Sequences, FiniteSets, SequencesExt

CONSTANTS
  Threads,          \* the game's threads
  MaxCalls,         \* bound: captures of a thread
  PayloadLen(_),    \* the length of a frame's payload
  MaxTotal,         \* the largest total_len that is read, 10,000,000
  PipeCap           \* the bytes the kernel buffers, 65536

Frames == Threads \X (1..MaxCalls)

ASSUME FrameAssumption ==
  /\ MaxCalls \in Nat /\ MaxTotal \in Nat /\ PipeCap \in Nat \ {0}
  /\ \A f \in Frames : PayloadLen(f) \in Nat

VARIABLES
  calls,            \* by thread: its captures so far
  writing,          \* by thread: the bytes of its frame that the pipe has not taken
  holder,           \* the thread whose WriteFile the handle serves, as a set
  connected,        \* PIPE_CONNECTED
  alive,            \* the game's end of the pipe is open
  pipe,             \* the bytes in the pipe
  reader,           \* the server thread: "top", "header", "body" or "closed"
  buf,              \* the bytes of its header_buf or frame that are filled
  shutdown,         \* its flag
  rxOpen,           \* the Receiver of its channel exists
  written,          \* history: the frames whose last byte is in the pipe
  delivered         \* history: the frames sent into the channel

gameVars == <<calls, writing, holder, connected, alive, written>>
readerVars == <<reader, buf, delivered>>
guiVars == <<shutdown, rxOpen>>
vars == <<gameVars, pipe, readerVars, guiVars>>

Init ==
  /\ calls = [t \in Threads |-> 0]
  /\ writing = [t \in Threads |-> <<>>]
  /\ holder = {}
  /\ connected = TRUE /\ alive = TRUE
  /\ pipe = <<>>
  /\ reader = "top" /\ buf = <<>>
  /\ shutdown = FALSE /\ rxOpen = TRUE
  /\ written = <<>> /\ delivered = <<>>

-----------------------------------------------------------------------------
\* total_len: direction, two ports, payload_len and the payload.
TotalLen(f) == 1 + 2 + 2 + 4 + PayloadLen(f)

\* The frame as it is written, total_len first.
FrameBytes(f) == [i \in 1..(4 + TotalLen(f)) |-> <<f, i>>]

\* A hook captures.
WriteCapture(t) ==
  /\ alive /\ connected
  /\ writing[t] = <<>> /\ calls[t] < MaxCalls
  /\ calls' = [calls EXCEPT ![t] = @ + 1]
  /\ writing' = [writing EXCEPT ![t] = FrameBytes(<<t, calls'[t]>>)]
  /\ UNCHANGED <<holder, connected, alive, written, pipe, readerVars, guiVars>>

\* The pipe takes n bytes.
Transfer(t, n) ==
  /\ pipe' = pipe \o SubSeq(writing[t], 1, n)
  /\ writing' = [writing EXCEPT ![t] = SubSeq(@, n + 1, Len(@))]
  /\ written' = IF n = Len(writing[t]) THEN Append(written, <<t, calls[t]>>) ELSE written

\* Mutated form: the total_len is written first, and the rest by a second WriteFile.
WriteFileTwice(t) ==
  /\ alive /\ reader # "closed"
  /\ writing[t] # <<>> /\ holder \subseteq {t}
  /\ \E n \in 1..Len(writing[t]) :
       /\ Len(pipe) + n <= PipeCap
       /\ Transfer(t, n)
       /\ holder' = IF writing'[t] = <<>> \/ Len(writing'[t]) = TotalLen(<<t, calls[t]>>)
                    THEN {} ELSE {t}
  /\ UNCHANGED <<calls, connected, alive, readerVars, guiVars>>

\* WriteFile, which the kernel serves one call at a time and piece by piece.
WriteFile(t) ==
  /\ alive /\ reader # "closed"
  /\ writing[t] # <<>> /\ holder \subseteq {t}
  /\ \E n \in 1..Len(writing[t]) :
       /\ Len(pipe) + n <= PipeCap
       /\ Transfer(t, n)
       /\ holder' = IF writing'[t] = <<>> THEN {} ELSE {t}
  /\ UNCHANGED <<calls, connected, alive, readerVars, guiVars>>

\* WriteFile fails, as nobody reads any more.
WriteFails(t) ==
  /\ alive /\ reader = "closed"
  /\ writing[t] # <<>>
  /\ connected' = FALSE
  /\ writing' = [writing EXCEPT ![t] = <<>>]
  /\ holder' = holder \ {t}
  /\ UNCHANGED <<calls, alive, written, pipe, readerVars, guiVars>>

\* The game ends, perhaps in the middle of a frame.
GameExit ==
  /\ alive
  /\ alive' = FALSE /\ connected' = FALSE
  /\ writing' = [t \in Threads |-> <<>>] /\ holder' = {}
  /\ UNCHANGED <<calls, written, pipe, readerVars, guiVars>>

-----------------------------------------------------------------------------
\* DisconnectNamedPipe and CloseHandle: what is in the pipe is lost.
Close == reader' = "closed" /\ buf' = <<>> /\ pipe' = <<>>

\* The head of read_from_pipe's loop.
TestShutdown ==
  /\ reader = "top"
  /\ IF shutdown THEN Close ELSE reader' = "header" /\ UNCHANGED <<buf, pipe>>
  /\ UNCHANGED <<gameVars, delivered, guiVars>>

\* The frame that bytes are the header of; none for other bytes.
HeaderOf(bytes) == {f \in Frames : bytes = SubSeq(FrameBytes(f), 1, 4)}

\* The frame of a header and a body that were read.
FrameOf(f, body) == IF body = SubSeq(FrameBytes(f), 5, 4 + TotalLen(f)) THEN f
                    ELSE <<"garbled", 0>>

Wanted == IF reader = "header" THEN 4 ELSE 4 + TotalLen(buf[1][1])

\* Mutated form: what is wanted does not bound what is read.
ReadSomeMore(n) ==
  /\ reader \in {"header", "body"} /\ Len(buf) < Wanted
  /\ n <= Len(pipe)
  /\ buf' = buf \o SubSeq(pipe, 1, n)
  /\ pipe' = SubSeq(pipe, n + 1, Len(pipe))
  /\ UNCHANGED <<gameVars, reader, delivered, guiVars>>

\* Mutated form: the reader waits until all it wants is in the pipe.
ReadAtOnce(n) ==
  /\ reader \in {"header", "body"} /\ Len(buf) < Wanted
  /\ n <= Len(pipe) /\ Len(buf) + n = Wanted
  /\ buf' = buf \o SubSeq(pipe, 1, n)
  /\ pipe' = SubSeq(pipe, n + 1, Len(pipe))
  /\ UNCHANGED <<gameVars, reader, delivered, guiVars>>

\* A ReadFile of read_exact: as much as there is, up to what is wanted.
ReadSome(n) ==
  /\ reader \in {"header", "body"} /\ Len(buf) < Wanted
  /\ n <= Len(pipe) /\ Len(buf) + n <= Wanted
  /\ buf' = buf \o SubSeq(pipe, 1, n)
  /\ pipe' = SubSeq(pipe, n + 1, Len(pipe))
  /\ UNCHANGED <<gameVars, reader, delivered, guiVars>>

\* ReadFile fails when the pipe is empty and its other end closed: read_exact is false.
ReadFails ==
  /\ reader \in {"header", "body"} /\ Len(buf) < Wanted
  /\ pipe = <<>> /\ ~alive
  /\ Close
  /\ UNCHANGED <<gameVars, delivered, guiVars>>

\* Mutated form: one ReadFile is taken to fill header_buf.
HaveHeaderShort ==
  /\ reader = "header" /\ buf # <<>>
  /\ IF \E f \in HeaderOf(buf) : TotalLen(f) <= MaxTotal
     THEN reader' = "body" /\ UNCHANGED <<buf, pipe>>
     ELSE Close
  /\ UNCHANGED <<gameVars, delivered, guiVars>>

\* total_len is looked at.
HaveHeader ==
  /\ reader = "header" /\ Len(buf) = 4
  /\ IF \E f \in HeaderOf(buf) : TotalLen(f) <= MaxTotal
     THEN reader' = "body" /\ UNCHANGED <<buf, pipe>>
     ELSE Close
  /\ UNCHANGED <<gameVars, delivered, guiVars>>

\* parse_frame and the send into the channel, which fails without a receiver.
HaveFrame ==
  /\ reader = "body" /\ Len(buf) = Wanted
  /\ IF rxOpen
     THEN /\ delivered' = Append(delivered, FrameOf(buf[1][1], SubSeq(buf, 5, Len(buf))))
          /\ reader' = "top" /\ buf' = <<>> /\ UNCHANGED pipe
     ELSE Close /\ UNCHANGED delivered
  /\ UNCHANGED <<gameVars, guiVars>>

\* Stop Hook.
StopHook ==
  /\ ~shutdown
  /\ shutdown' = TRUE /\ rxOpen' = FALSE
  /\ UNCHANGED <<gameVars, pipe, readerVars>>

Read == TestShutdown \/ (\E n \in 1..PipeCap : ReadSome(n)) \/ ReadFails \/ HaveHeader \/ HaveFrame

Next ==
  \/ \E t \in Threads : WriteCapture(t) \/ WriteFile(t) \/ WriteFails(t)
  \/ GameExit \/ Read \/ StopHook

\* The threads of both processes are scheduled, and the kernel serves every WriteFile.
Fairness ==
  /\ WF_vars(Read)
  /\ \A t \in Threads : SF_vars(WriteFile(t)) /\ WF_vars(WriteFails(t))

Spec == Init /\ [][Next]_vars /\ Fairness

-----------------------------------------------------------------------------
\* The types; a thread's frame is in the pipe up to where it stands, and of frames that
\* are not served yet nothing is.
TypeOK ==
  /\ calls \in [Threads -> 0..MaxCalls]
  /\ \A t \in Threads : writing[t] = <<>> \/ IsSuffix(writing[t], FrameBytes(<<t, calls[t]>>))
  /\ holder \subseteq Threads /\ \A t, u \in holder : t = u
  /\ connected \in BOOLEAN /\ alive \in BOOLEAN /\ shutdown \in BOOLEAN /\ rxOpen \in BOOLEAN
  /\ Len(pipe) <= PipeCap
  /\ reader \in {"top", "header", "body", "closed"}
  /\ reader \in {"header", "body"} => Len(buf) <= Wanted
  /\ reader \in {"top", "closed"} => buf = <<>>
  /\ written \in Seq(Frames)

\* Whatever the pieces and whoever dies: the bytes behave as the queue of frames.
Queue == INSTANCE FrameQueue WITH written <- written, delivered <- delivered
QueueSpec == Queue!Spec

\* The server ends the connection of a game that runs for one of three reasons: Stop Hook,
\* or a frame whose total_len it refuses; never for the way the bytes were cut.
ClosedForCause ==
  [][reader # "closed" /\ reader' = "closed" =>
       \/ shutdown \/ ~alive
       \/ \E f \in HeaderOf(buf) : TotalLen(f) > MaxTotal]_vars

\* What a thread captures is sent on, however much smaller than the frame the pipe is,
\* unless the game or the connection ends.
CaptureDelivered ==
  \A t \in Threads : \A k \in 1..MaxCalls :
    (calls[t] >= k) ~> (<<t, k>> \in ToSet(delivered) \/ reader = "closed" \/ ~alive)

=============================================================================
