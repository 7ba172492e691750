----------------------------- MODULE KinpDecoder -----------------------------
(***************************************************************************)
(* kinp.rs: KinpDecoder::process reassembles captured buffers into KINP    *)
(* messages, and, on the game's side, send_kinp_frame of game_hooks.rs     *)
(* builds the frames that the detours feed it.                             *)
(*                                                                         *)
(* The captures of a socket direction are its bytes cut at any point, from *)
(* wherever the stream stood when the hooks came.  The captures of the     *)
(* detours are whole frames; those of both directions and of all threads   *)
(* share one stream buffer, as they all have the label "plaintext" and the *)
(* ports 0.  CaptureSession shows that captures of a thread arrive in      *)
(* order; here they arrive.                                                *)
(***************************************************************************)
EXTENDS Naturals, Sequences, FiniteSets

CONSTANTS
  Sockets,          \* socket directions with captures, each a stream of its own
  Wire,             \* per socket: its bytes from where the hooks came
  Payloads,         \* per socket: the payloads of its frames, in order
  FrameEnd,         \* per socket: where frame i ends, the bytes before the first as frame 0
  Fields,           \* field data of the game's plaintext messages
  Services,         \* their service ids
  MaxSent,          \* bound: plaintext messages
  MaxStreams        \* bound: streams in use

Byte == 0..255
Plaintext == "plaintext"
Keys == Sockets \cup {Plaintext}

KINP_START_SIGNAL == <<13, 240>>

\* A u16 in little-endian bytes.
LE16(n) == <<n % 256, (n \div 256) % 256>>

FrameOf(payload) == KINP_START_SIGNAL \o LE16(Len(payload)) \o payload

\* The bytes of a socket end in its frames.
Framed(wire, payloads, ends) ==
  /\ wire \in Seq(Byte) /\ payloads \in Seq(Seq(Byte))
  /\ ends \in [0..Len(payloads) -> Nat] /\ ends[Len(payloads)] = Len(wire)
  /\ \A i \in DOMAIN payloads :
       /\ Len(payloads[i]) < 65536 /\ ends[i] = ends[i - 1] + 4 + Len(payloads[i])
       /\ SubSeq(wire, ends[i - 1] + 1, ends[i]) = FrameOf(payloads[i])

\* The detours send field data that fit a frame (MessageExtract!Readable).
StreamAssumption ==
  /\ Plaintext \notin Sockets
  /\ \A s \in Sockets : Framed(Wire[s], Payloads[s], FrameEnd[s])
  /\ Services \subseteq Byte
  /\ \A d \in Fields : d \in Seq(Byte) /\ Len(d) > 0 /\ Len(d) + 8 < 65536
  /\ MaxSent \in Nat /\ MaxStreams \in Nat

VARIABLES
  streams,          \* KinpDecoder.streams: the bytes kept per key
  raw,              \* the key and direction of the capture in process, <<>> outside
  messages,         \* history, per key: the messages process returned
  pos,              \* per socket: bytes captured
  split,            \* history, per socket: offsets at which a capture ended
  sent              \* history: the plaintext messages given to send_kinp_frame

vars == <<streams, raw, messages, pos, split, sent>>

Init ==
  /\ streams = [k \in Keys |-> <<>>]
  /\ raw = <<>>
  /\ messages = [k \in Keys |-> <<>>]
  /\ pos = [s \in Sockets |-> 0]
  /\ split = [s \in Sockets |-> {}]
  /\ sent = <<>>

-----------------------------------------------------------------------------
(***************************************************************************)
(* KinpDecoder::process.                                                   *)
(***************************************************************************)

SignalAt(b, i) == i < Len(b) /\ SubSeq(b, i, i + 1) = KINP_START_SIGNAL

\* find_start_signal.
Signals(b) == {i \in 1..(Len(b) - 1) : SignalAt(b, i)}

\* Mutated form: bytes that do not start with the signal are thrown away.
ResyncClears(b) == IF Len(b) < 4 \/ SignalAt(b, 1) THEN b ELSE <<>>

FirstSignal(b) == CHOOSE i \in Signals(b) : \A j \in Signals(b) : i <= j

\* What the loop makes of a buffer before it looks for a frame: four bytes and
\* more are cut to the first signal, to nothing when there is none.
Resync(b) ==
  IF Len(b) < 4 \/ SignalAt(b, 1) THEN b
  ELSE IF Signals(b) = {} THEN <<>> ELSE SubSeq(b, FirstSignal(b), Len(b))

\* Mutated form: the length is read big-endian.
FrameLenBig(b) == 4 + 256 * b[3] + b[4]

\* total_frame_len.
FrameLen(b) == 4 + b[3] + 256 * b[4]

\* Whether b, resynchronised, holds a whole frame.
Whole(b) == Len(b) >= 4 /\ Len(b) >= FrameLen(b)

\* Mutated form: any service id is one of a DML message.
MsgTypeAny(p) ==
  IF Len(p) >= 8 /\ p[1] = 0
  THEN [type |-> "Dml", service |-> p[5], message |-> p[6], length |-> p[7] + 256 * p[8]]
  ELSE [type |-> "Unknown"]

\* parse_kinp_payload.
MsgType(p) ==
  CASE Len(p) = 0 -> [type |-> "Control", opcode |-> 0]
    [] Len(p) \in 1..3 -> [type |-> "Unknown"]
    [] Len(p) >= 4 /\ (p[1] # 0 \/ Len(p) < 8) -> [type |-> "Control", opcode |-> p[2]]
    [] Len(p) >= 8 /\ p[1] = 0 /\ p[5] \in 1..99 ->
         [type |-> "Dml", service |-> p[5], message |-> p[6], length |-> p[7] + 256 * p[8]]
    [] OTHER -> [type |-> "Encrypted"]

\* The cap on what a stream may keep.
Capped(b) == IF Len(b) > 1000000 THEN <<>> ELSE b

\* process is called: the bytes come to those of their stream.
Process(key, bytes, dir) ==
  /\ raw = <<>> /\ raw' = <<key, dir>>
  /\ streams' = [streams EXCEPT ![key] = @ \o bytes]
  /\ UNCHANGED messages

\* An iteration of the loop that takes a frame: a message has the direction of the capture
\* that completes it.
TakeFrame ==
  /\ raw # <<>>
  /\ LET key == raw[1]
         b == Resync(streams[key])
         payload == SubSeq(b, 5, FrameLen(b))
     IN /\ Whole(b)
        /\ streams' = [streams EXCEPT ![key] = SubSeq(b, FrameLen(b) + 1, Len(b))]
        /\ messages' = [messages EXCEPT ![key] =
             Append(@, [dir |-> raw[2], kind |-> MsgType(payload), payload |-> payload])]
  /\ UNCHANGED <<raw, pos, split, sent>>

\* The loop ends; process returns.
Return ==
  /\ raw # <<>>
  /\ LET key == raw[1]
         b == Resync(streams[key])
     IN /\ ~Whole(b)
        /\ streams' = [k \in Keys |-> Capped(IF k = key THEN b ELSE streams[k])]
  /\ raw' = <<>>
  /\ UNCHANGED <<messages, pos, split, sent>>

-----------------------------------------------------------------------------
(***************************************************************************)
(* The captures.                                                           *)
(***************************************************************************)

\* The bound on streams allows for one more of key k.
MayUse(k) ==
  Cardinality({s \in Sockets : pos[s] > 0} \cup {k} \cup (IF sent = <<>> THEN {} ELSE {Plaintext}))
    <= MaxStreams

\* A hooked call captures the next n bytes of its socket.
Capture(s) ==
  /\ MayUse(s)
  /\ \E n \in 1..(Len(Wire[s]) - pos[s]) :
       /\ Process(s, SubSeq(Wire[s], pos[s] + 1, pos[s] + n), s)
       /\ pos' = [pos EXCEPT ![s] = @ + n]
       /\ split' = [split EXCEPT ![s] =
            IF SignalAt(Wire[s], pos[s] + n) THEN @ \cup {pos[s] + n} ELSE @]
  /\ UNCHANGED sent

\* Mutated form: the content length counts the field data alone.
ContentLenShort(n) == n

\* content_len: the four control bytes, the DML header and the field data.
ContentLen(n) == (8 + n) % 65536

\* The frame send_kinp_frame builds.
SyntheticFrame(m) ==
  KINP_START_SIGNAL \o LE16(ContentLen(Len(m.data))) \o <<0, 0, 0, 0, m.service, m.message>>
    \o LE16(Len(m.data) + 4) \o m.data

\* A detour hands a message of either direction to send_kinp_frame.
SendKinpFrame ==
  /\ Len(sent) < MaxSent /\ MayUse(Plaintext)
  /\ \E svc \in Services, d \in Fields, dir \in {"send", "recv"} :
       LET m == [service |-> svc, message |-> Len(sent) % 256, data |-> d, dir |-> dir]
       IN /\ sent' = Append(sent, m)
          /\ Process(Plaintext, SyntheticFrame(m), dir)
  /\ UNCHANGED <<pos, split>>

Next ==
  \/ \E s \in Sockets : Capture(s)
  \/ SendKinpFrame \/ TakeFrame \/ Return

Spec == Init /\ [][Next]_vars

-----------------------------------------------------------------------------
(***************************************************************************)
(* Properties.                                                             *)
(***************************************************************************)

U16 == {n \in Nat : n < 65536}

\* MessageType, with the service ids a Dml can have: the schemas are looked up by
\* it, and by the bytes behind the eight of the headers.
MessageType ==
  [type : {"Unknown", "Encrypted"}] \cup [type : {"Control"}, opcode : Byte]
    \cup [type : {"Dml"}, service : 1..99, message : Byte, length : U16]

\* The types; a Dml message has its headers.
TypeOK ==
  /\ \A k \in Keys : streams[k] \in Seq(Byte)
  /\ raw # <<>> => raw[1] \in Keys
  /\ \A k \in Keys : \A i \in DOMAIN messages[k] :
       LET m == messages[k][i]
       IN /\ m.payload \in Seq(Byte)
          /\ m.kind \in MessageType
          /\ m.kind.type = "Dml" => Len(m.payload) >= 8
  /\ \A s \in Sockets : pos[s] \in 0..Len(Wire[s]) /\ split[s] \subseteq 1..Len(Wire[s])
  /\ Len(sent) <= MaxSent

\* Where frame i of socket s starts.
FrameStart(s, i) == FrameEnd[s][i - 1] + 1

\* The frames of socket s whose bytes have all been captured.
Captured(s) == {i \in DOMAIN Payloads[s] : FrameEnd[s][i] <= pos[s]}

Decoded(k) == [i \in DOMAIN messages[k] |-> messages[k][i].payload]

\* A stream captured from the start of a frame is decoded into exactly its frames,
\* in order and each as soon as it is complete, however the captures cut it, and
\* also when a payload looks like a frame.
AlignedStreamDecoded ==
  raw = <<>> => \A s \in Sockets : FrameEnd[s][0] = 0 =>
    Decoded(s) = [i \in 1..Cardinality(Captured(s)) |-> Payloads[s][i]]

\* The message of frame i of socket s is among those returned.
Shown(s, i) == \E j \in DOMAIN messages[s] : messages[s][j].payload = Payloads[s][i]

\* A false signal, at offset i of socket s, claims the bytes behind it as its frame's.
Claim(s, i) == (i + 1)..(i - 1 + FrameLen(SubSeq(Wire[s], i, i + 3)))

\* The signals that are not the start of a frame: in ciphertext or a payload, or the
\* start of a frame of an older connection with the same ports, which the decoder,
\* made once with the window, still keeps.
FalseSignals(s) ==
  {i \in Signals(Wire[s]) : i + 3 <= Len(Wire[s])}
    \ {FrameStart(s, j) : j \in DOMAIN Payloads[s]}

\* A stream met out of step loses a frame for one of two reasons only: its start
\* signal was cut in two, or a false signal claims its first byte.  What a false
\* signal takes is bounded by the length behind it: frames after that are returned.
ResynchronisesOnFrame ==
  raw = <<>> => \A s \in Sockets : \A i \in Captured(s) :
    \/ FrameStart(s, i) \in split[s]
    \/ \E f \in FalseSignals(s) : FrameStart(s, i) \in Claim(s, f)
    \/ Shown(s, i)

\* What the detours sent is what the decoder returns, one message for each with
\* its direction, ids and field data, although all share one stream; nothing of a
\* message stays for the next, which may be of another session.
PlaintextRoundTrip ==
  raw = <<>> =>
  /\ streams[Plaintext] = <<>>
  /\ Len(messages[Plaintext]) = Len(sent)
  /\ \A i \in DOMAIN sent :
       LET got == messages[Plaintext][i]
       IN /\ got.dir = sent[i].dir
          /\ SubSeq(got.payload, 9, Len(got.payload)) = sent[i].data
          /\ sent[i].service \in 1..99 =>
               got.kind = [type |-> "Dml", service |-> sent[i].service,
                           message |-> sent[i].message, length |-> Len(sent[i].data) + 4]

=============================================================================
