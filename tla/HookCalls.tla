------------------------------ MODULE HookCalls ------------------------------
(***************************************************************************)
(* lib.rs: hook_send, hook_recv, hook_wsasend and hook_wsarecvex on the    *)
(* game's threads.  A hook makes the call, then asks for the two ports,    *)
(* then captures: four steps, between which other threads send, receive    *)
(* and close.  IatHooks shows that calls reach these functions and the     *)
(* originals; CaptureSession takes over at write_capture.                  *)
(*                                                                         *)
(* A socket is a handle, which a new connection may get once the old one   *)
(* is closed; a connection is known by its number, which stands for both   *)
(* of its ports.  Its streams are sequences of bytes: the thread that      *)
(* sends or receives it, a number, and whether its call was completed.     *)
(***************************************************************************)
EXTENDS Naturals, SequencesExt, FiniteSetsExt

CONSTANTS
  Threads,          \* threads of the game
  Sockets,          \* socket handles
  Buffers,          \* the buffers of a call: a sequence, where in its bytes each ends
  Games,            \* what the game may do beyond the least: see Habits
  MaxConns,         \* bound: connections
  MaxBytes          \* bound: bytes of all streams

\* A game is the set of its habits.  "shared": threads use one direction of a socket at the
\* same time; "partial": WSASend takes a part of its buffers; "pending": WSASend completes
\* later; "closing": a socket is closed under a call.
Habits == {"shared", "partial", "pending", "closing"}

Conns == 1..MaxConns
Ways == {"out", "in"}

HookAssumption ==
  /\ \A ends \in Buffers :
       /\ ends \in Seq(Nat) /\ ends # <<>>
       /\ \A i, j \in DOMAIN ends : i <= j => ends[i] <= ends[j]
  /\ Games \subseteq SUBSET Habits
  /\ MaxConns \in Nat /\ MaxBytes \in Nat

VARIABLES
  game,             \* the game that runs
  conn,             \* by socket: its connection, 0 if it has none
  conns,            \* connections made
  next,             \* by thread: the next byte it has to send
  stream,           \* by way and connection: the bytes sent or received
  hook,             \* by thread: the hook it is in
  captured          \* by way and ports: the payloads given to write_capture, in order

vars == <<game, conn, conns, next, stream, hook, captured>>

\* Where a thread is: "idle", "local", "remote" or "capture"; of the call the way, the
\* socket, and the connection it used; the ports found; the number of its first byte, where
\* its buffers end, and the one that is captured next.
Idle == [pc |-> "idle", way |-> "out", sock |-> CHOOSE s \in Sockets : TRUE, conn |-> 0,
         local |-> 0, remote |-> 0, from |-> 1, ends |-> <<0>>, at |-> 1]

Init ==
  /\ game \in Games
  /\ conn = [s \in Sockets |-> 0] /\ conns = 0
  /\ next = [t \in Threads |-> 1]
  /\ stream = [w \in Ways |-> [c \in Conns |-> <<>>]]
  /\ hook = [t \in Threads |-> Idle]
  /\ captured = [w \in Ways |-> [ports \in Conns \X (0..MaxConns) |-> <<>>]]

-----------------------------------------------------------------------------
Busy(s, w) == \E t \in Threads : hook[t].pc # "idle" /\ hook[t].sock = s /\ hook[t].way = w

\* Thread t may call on socket s.
Calls(t, s, w) ==
  /\ hook[t].pc = "idle" /\ conn[s] # 0
  /\ "shared" \notin game => ~Busy(s, w)

\* Bytes i to j of thread t, of a call that has completed when it returns, or has not.
BytesOf(t, i, j, completed) == [k \in 1..(j - i + 1) |-> <<t, i + k - 1, completed>>]
Bytes(t, i, j) == BytesOf(t, i, j, TRUE)

\* Where buffer number b begins, and how many bytes there are in all.
Begin(ends, b) == IF b = 1 THEN 0 ELSE ends[b - 1]
Total(ends) == ends[Len(ends)]

\* The hook goes on after the call.
Go(t, s, w, from, ends) ==
  hook' = [hook EXCEPT ![t] = [Idle EXCEPT !.pc = "local", !.way = w, !.sock = s,
                                 !.conn = conn[s], !.from = from, !.ends = ends]]

\* The kernel takes bytes for a stream.
Bounded(n) == MapThenSumSet(LAMBDA k : Len(stream[k[1]][k[2]]), Ways \X Conns) + n <= MaxBytes

Take(w, s, bytes) ==
  /\ Bounded(Len(bytes))
  /\ stream' = [stream EXCEPT ![w][conn[s]] = @ \o bytes]

\* Mutated form: the length of the buffer is captured in place of the result.
HookSendWhole(t, s, len, result) ==
  /\ Calls(t, s, "out")
  /\ Take("out", s, Bytes(t, next[t], next[t] + result - 1))
  /\ next' = [next EXCEPT ![t] = @ + result]
  /\ Go(t, s, "out", next[t], <<len>>)
  /\ UNCHANGED <<game, conn, conns, captured>>

\* hook_send: result bytes of the buffer are sent.  A result of 0 or less changes nothing.
HookSend(t, s, len, result) ==
  /\ Calls(t, s, "out")
  /\ Take("out", s, Bytes(t, next[t], next[t] + result - 1))
  /\ next' = [next EXCEPT ![t] = @ + result]
  /\ Go(t, s, "out", next[t], <<result>>)
  /\ UNCHANGED <<game, conn, conns, captured>>

\* hook_recv and hook_wsarecvex: result bytes of what the peer sent arrive.
HookRecv(t, s, result) ==
  /\ Calls(t, s, "in")
  /\ LET from == Len(stream["in"][conn[s]]) + 1
     IN Take("in", s, Bytes(t, from, from + result - 1)) /\ Go(t, s, "in", from, <<result>>)
  /\ UNCHANGED <<game, conn, conns, next, captured>>

\* hook_wsasend with a result of 0: the kernel took sent bytes, the buffers are captured.
HookWSASend(t, s, ends, sent) ==
  /\ Calls(t, s, "out")
  /\ sent = Total(ends) \/ "partial" \in game
  /\ Take("out", s, Bytes(t, next[t], next[t] + sent - 1))
  /\ next' = [next EXCEPT ![t] = @ + sent]
  /\ Go(t, s, "out", next[t], ends)
  /\ UNCHANGED <<game, conn, conns, captured>>

\* hook_wsasend of an overlapped call that returns SOCKET_ERROR with WSA_IO_PENDING: the
\* bytes are sent, the hook returns.
HookWSASendPending(t, s, ends) ==
  /\ "pending" \in game
  /\ Calls(t, s, "out")
  /\ Take("out", s, BytesOf(t, next[t], next[t] + Total(ends) - 1, FALSE))
  /\ next' = [next EXCEPT ![t] = @ + Total(ends)]
  /\ UNCHANGED <<game, conn, conns, hook, captured>>

\* get_local_port, of the connection that the handle has now; without one nothing is
\* captured.
LocalPort(t) ==
  /\ hook[t].pc = "local"
  /\ LET c == conn[hook[t].sock]
     IN hook' = [hook EXCEPT ![t] = IF c = 0 THEN Idle
                                    ELSE [@ EXCEPT !.pc = "remote", !.local = c]]
  /\ UNCHANGED <<game, conn, conns, next, stream, captured>>

\* get_remote_port, whose failure leaves a port of 0.
RemotePort(t) ==
  /\ hook[t].pc = "remote"
  /\ hook' = [hook EXCEPT ![t].pc = "capture", ![t].remote = conn[hook[t].sock]]
  /\ UNCHANGED <<game, conn, conns, next, stream, captured>>

\* write_capture of a buffer, unless it is empty; after the last the hook returns.
Capture(t) ==
  /\ hook[t].pc = "capture"
  /\ LET h == hook[t]
         bytes == Bytes(t, h.from + Begin(h.ends, h.at), h.from + h.ends[h.at] - 1)
     IN /\ captured' = [captured EXCEPT ![h.way][<<h.local, h.remote>>] = @ \o bytes]
        /\ hook' = [hook EXCEPT ![t] = IF h.at = Len(h.ends) THEN Idle
                                       ELSE [h EXCEPT !.at = @ + 1]]
  /\ UNCHANGED <<game, conn, conns, next, stream>>

\* The game connects a socket, and closes it.
Connect(s) ==
  /\ conn[s] = 0 /\ conns < MaxConns
  /\ conns' = conns + 1 /\ conn' = [conn EXCEPT ![s] = conns']
  /\ UNCHANGED <<game, next, stream, hook, captured>>

CloseSocket(s) ==
  /\ conn[s] # 0
  /\ "closing" \in game \/ \A w \in Ways : ~Busy(s, w)
  /\ conn' = [conn EXCEPT ![s] = 0]
  /\ UNCHANGED <<game, conns, next, stream, hook, captured>>

Call(t, s) ==
  \/ \E len \in 1..MaxBytes : \E result \in 1..len : HookSend(t, s, len, result)
  \/ \E result \in 1..MaxBytes : HookRecv(t, s, result)
  \/ \E ends \in Buffers : \/ \E sent \in 1..Total(ends) : HookWSASend(t, s, ends, sent)
                           \/ HookWSASendPending(t, s, ends)

Next ==
  \/ \E t \in Threads, s \in Sockets : Call(t, s)
  \/ \E t \in Threads : LocalPort(t) \/ RemotePort(t) \/ Capture(t)
  \/ \E s \in Sockets : Connect(s) \/ CloseSocket(s)

Spec == Init /\ [][Next]_vars

-----------------------------------------------------------------------------
Byte == Threads \X (Nat \ {0}) \X BOOLEAN

\* The types; what is captured has a local port.
TypeOK ==
  /\ game \in Games
  /\ conn \in [Sockets -> 0..conns] /\ conns \in 0..MaxConns
  /\ next \in [Threads -> Nat \ {0}]
  /\ \A w \in Ways, c \in Conns : stream[w][c] \in Seq(Byte)
  /\ \A t \in Threads :
       /\ hook[t].pc \in {"idle", "local", "remote", "capture"}
       /\ hook[t].at \in DOMAIN hook[t].ends
       /\ hook[t].pc = "capture" => hook[t].local # 0
  /\ \A w \in Ways : \A ports \in Conns \X (0..MaxConns) : captured[w][ports] \in Seq(Byte)

\* No call that used connection c is on its way to its capture.
AtRest(w, c) == \A t \in Threads : hook[t].pc = "idle" \/ hook[t].conn # c \/ hook[t].way # w

\* Where the bytes of thread t's completed calls are in a sequence, and their numbers.
Own(t, bytes) == {k \in DOMAIN bytes : bytes[k][1] = t /\ bytes[k][3]}
Numbers(t, bytes) == {bytes[k][2] : k \in Own(t, bytes)}
OnceInOrder(t, bytes) == \A j, k \in Own(t, bytes) : j < k => bytes[j][2] < bytes[k][2]

\* Those in got are the first of those in sent, once each and in order.
FirstOf(t, got, sent) ==
  /\ OnceInOrder(t, got) /\ OnceInOrder(t, sent)
  /\ Numbers(t, got) \subseteq Numbers(t, sent)
  /\ \A i \in Numbers(t, sent), j \in Numbers(t, got) : i < j => i \in Numbers(t, got)

\* "TCP stream reassembly buffer keyed by (src_ip, src_port, dst_ip, dst_port)"
\* (kinp.rs:47): what is captured under the ports of a connection is its stream, as far as
\* its calls have been captured.  A game with other habits gets less.  If its threads share
\* sockets or leave calls pending, every thread still finds its own completed calls once
\* each and in order; if its calls are completed in part, bytes may come twice, but none is
\* missed.
StreamsReassembled ==
  \A w \in Ways, c \in Conns :
    LET got == captured[w][<<c, c>>]
    IN /\ game = {} =>
            IsPrefix(got, stream[w][c]) /\ (AtRest(w, c) => got = stream[w][c])
       /\ game \subseteq {"shared", "pending"} =>
            \A t \in Threads :
              /\ FirstOf(t, got, stream[w][c])
              /\ AtRest(w, c) => Numbers(t, got) = Numbers(t, stream[w][c])
       /\ game \subseteq {"shared", "partial"} =>
            (AtRest(w, c) => ToSet(stream[w][c]) \subseteq ToSet(got))

=============================================================================
