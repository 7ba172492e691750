-------------------------- MODULE CapturePathProofs --------------------------
(***************************************************************************)
(* Proofs about the way of a capture in the game (MCCapturePath).  The     *)
(* first part is of the pipe (FramePipe), for any threads, captures,       *)
(* payloads, sizes of the pipe and pieces in which it takes and gives; the *)
(* second of the hooks (HookCalls), for any threads, sockets, connections, *)
(* buffers and habits of the game.                                         *)
(*                                                                         *)
(* What the reader has taken and what is in the pipe are one sequence of   *)
(* bytes, which a read does not change.  Flow says what it is: the frames  *)
(* written and not delivered, each at its offset, and behind them what is  *)
(* there of one frame more.  Writers says whose that is: a frame that is   *)
(* partly in the pipe belongs to the thread whose WriteFile is served.     *)
(***************************************************************************)
EXTENDS MCCapturePath, SequenceTheorems, TLAPS

\* The bytes of a frame, and how many.
FByte == Frames \X (Nat \ {0})
FrameLen(f) == 4 + TotalLen(f)

\* The frame thread t is at, and how much of it the pipe has taken.
Current(t) == <<t, calls[t]>>
Taken(t) == FrameLen(Current(t)) - Len(writing[t])

Typed ==
  /\ calls \in [Threads -> 0..MaxCalls]
  /\ writing \in [Threads -> Seq(FByte)]
  /\ holder \subseteq Threads /\ \A t, u \in holder : t = u
  /\ connected \in BOOLEAN /\ alive \in BOOLEAN
  /\ shutdown \in BOOLEAN /\ rxOpen = ~shutdown
  /\ pipe \in Seq(FByte) /\ Len(pipe) <= PipeCap
  /\ reader \in {"top", "header", "body", "closed"}
  /\ buf \in Seq(FByte)
  /\ written \in Seq(Frames) /\ delivered \in Seq(Frames)

Writers ==
  \A t \in Threads :
    /\ writing[t] # <<>> =>
         /\ calls[t] # 0 /\ Len(writing[t]) <= FrameLen(Current(t))
         /\ \A i \in 1..Len(writing[t]) : writing[t][i] = <<Current(t), Taken(t) + i>>
    /\ t \in holder <=> writing[t] # <<>> /\ Len(writing[t]) < FrameLen(Current(t))

AtReader ==
  /\ reader \in {"top", "closed"} => buf = <<>>
  /\ reader = "header" => Len(buf) <= 4
  /\ reader = "body" => 4 <= Len(buf) /\ Len(buf) <= FrameLen(buf[1][1])

InOrder ==
  /\ Len(delivered) <= Len(written)
  /\ \A k \in 1..Len(delivered) : delivered[k] = written[k]

\* All of frame f lies in q, behind offset e.
HasFrame(q, e, f) == \A j \in 1..FrameLen(f) : q[e + j] = <<f, j>>

\* q ends with the first p bytes of frame f, behind offset e.
Ends(q, e, f, p) == Len(q) = e + p /\ \A j \in 1..p : q[e + j] = <<f, j>>

\* off has the offsets at which the frames behind number d end, up to number w.
Offsets(sent, d, w, off) ==
  /\ \A k \in Nat : off[k] \in Nat
  /\ off[d] = 0
  /\ \A k \in (d + 1)..w : off[k] = off[k - 1] + FrameLen(sent[k])
  /\ \A k \in d..w : \A m \in d..k : off[m] <= off[k]

\* The bytes q are those frames, and behind them the first p bytes of frame f.
Lie(q, sent, d, w, off, f, p) ==
  /\ Offsets(sent, d, w, off)
  /\ \A k \in (d + 1)..w : HasFrame(q, off[k - 1], sent[k])
  /\ p \in Nat /\ Ends(q, off[w], f, p)
  /\ p # 0 => f \in Frames /\ p < FrameLen(f)

Flow ==
  reader # "closed" =>
    \E off, f, p :
      /\ Lie(buf \o pipe, written, Len(delivered), Len(written), off, f, p)
      /\ alive => IF holder = {} THEN p = 0
                  ELSE \A t \in holder : f = Current(t) /\ p = Taken(t)

PipeInv == Typed /\ Writers /\ AtReader /\ InOrder /\ Flow

-----------------------------------------------------------------------------
(***************************************************************************)
(* Sequences and frames.                                                   *)
(***************************************************************************)

\* A sequence cut in two.
LEMMA CutInTwo ==
  ASSUME NEW S, NEW s \in Seq(S), NEW n \in 0..Len(s)
  PROVE  /\ SubSeq(s, 1, n) \in Seq(S) /\ Len(SubSeq(s, 1, n)) = n
         /\ \A i \in 1..n : SubSeq(s, 1, n)[i] = s[i]
         /\ SubSeq(s, n + 1, Len(s)) \in Seq(S) /\ Len(SubSeq(s, n + 1, Len(s))) = Len(s) - n
         /\ \A i \in 1..(Len(s) - n) : SubSeq(s, n + 1, Len(s))[i] = s[n + i]
<1>1. Len(s) \in Nat /\ n \in Int /\ Len(s) \in Int
  BY LenProperties
<1>2. \A i \in 1..Len(s) : s[i] \in S
  BY ElementOfSeq
<1>3. \A i \in 1..n : s[i] \in S
  BY <1>1, <1>2
<1>4. \A i \in (n + 1)..Len(s) : s[i] \in S
  BY <1>1, <1>2
<1>5. /\ SubSeq(s, 1, n) \in Seq(S) /\ Len(SubSeq(s, 1, n)) = IF 1 <= n THEN n - 1 + 1 ELSE 0
      /\ \A i \in 1..(n - 1 + 1) : SubSeq(s, 1, n)[i] = s[1 + i - 1]
  BY <1>1, <1>3, SubSeqProperties
<1>6. /\ SubSeq(s, n + 1, Len(s)) \in Seq(S)
      /\ Len(SubSeq(s, n + 1, Len(s))) = IF n + 1 <= Len(s) THEN Len(s) - (n + 1) + 1 ELSE 0
      /\ \A i \in 1..(Len(s) - (n + 1) + 1) : SubSeq(s, n + 1, Len(s))[i] = s[(n + 1) + i - 1]
  <2> DEFINE m == n + 1
             l == Len(s)
  <2>1. m \in Int /\ l \in Int /\ \A i \in m..l : s[i] \in S
    BY <1>1, <1>4
  <2> HIDE DEF m, l
  <2>2. /\ SubSeq(s, m, l) \in Seq(S) /\ Len(SubSeq(s, m, l)) = IF m <= l THEN l - m + 1 ELSE 0
        /\ \A i \in 1..(l - m + 1) : SubSeq(s, m, l)[i] = s[m + i - 1]
    BY <2>1, SubSeqProperties
  <2> QED
    BY <2>2 DEF m, l
<1> QED
  BY <1>1, <1>5, <1>6

\* What is read moves from the head of the one sequence to the end of the other.
LEMMA ReadMoves ==
  ASSUME NEW S, NEW s \in Seq(S), NEW u \in Seq(S), NEW n \in 0..Len(u)
  PROVE  (s \o SubSeq(u, 1, n)) \o SubSeq(u, n + 1, Len(u)) = s \o u
<1> DEFINE a == SubSeq(u, 1, n)
           b == SubSeq(u, n + 1, Len(u))
<1>1. a \in Seq(S) /\ b \in Seq(S)
  BY CutInTwo
<1>2. Len(u) \in Nat /\ 1 \in 1..(Len(u) + 1) /\ n \in (1 - 1)..Len(u) /\ Len(u) \in n..Len(u)
  BY LenProperties
<1>3. a \o b = SubSeq(u, 1, Len(u))
  BY <1>2, ConcatAdjacentSubSeq
<1>4. SubSeq(u, 1, Len(u)) = u
  BY SubSeqFull
<1> HIDE DEF a, b
<1>5. (s \o a) \o b = s \o (a \o b)
  BY <1>1, ConcatAssociative
<1> QED
  BY <1>3, <1>4, <1>5 DEF a, b

\* A frame has at least its header, its direction and its ports.
LEMMA FrameLenType ==
  ASSUME NEW f \in Frames
  PROVE  FrameLen(f) \in Nat /\ TotalLen(f) \in Nat /\ FrameLen(f) >= 13
BY FrameAssumption DEF FrameLen, TotalLen

LEMMA FrameBytesType ==
  ASSUME NEW f \in Frames
  PROVE  /\ FrameBytes(f) \in Seq(FByte) /\ Len(FrameBytes(f)) = FrameLen(f)
         /\ \A i \in 1..FrameLen(f) : FrameBytes(f)[i] = <<f, i>>
<1>1. FrameBytes(f) = [i \in 1..FrameLen(f) |-> <<f, i>>] /\ FrameLen(f) \in Nat
  BY FrameLenType DEF FrameBytes, FrameLen
<1>2. \A i \in 1..FrameLen(f) : <<f, i>> \in FByte
  BY <1>1 DEF FByte
<1> QED
  BY <1>1, <1>2, IsASeq

LEMMA CurrentFrame ==
  ASSUME Typed, NEW t \in Threads, calls[t] # 0
  PROVE  Current(t) \in Frames
BY FrameAssumption DEF Typed, Current, Frames

-----------------------------------------------------------------------------
(***************************************************************************)
(* The reader.                                                             *)
(***************************************************************************)

\* The bytes begin with those of one frame, which is the next to be delivered; as soon as
\* all of it is there, it has been written.
LEMMA FirstFrame ==
  ASSUME Typed, InOrder, NEW q \in Seq(FByte), q # <<>>, NEW off, NEW f, NEW p,
         Lie(q, written, Len(delivered), Len(written), off, f, p)
  PROVE  \E g \in Frames :
           /\ \A j \in 1..Len(q) : j <= FrameLen(g) => q[j] = <<g, j>>
           /\ FrameLen(g) <= Len(q) =>
                Len(delivered) < Len(written) /\ g = written[Len(delivered) + 1]
<1> DEFINE d == Len(delivered)
           w == Len(written)
<1>1. d \in Nat /\ w \in Nat /\ d <= w /\ Len(q) \in Nat /\ Len(q) # 0
  BY EmptySeq, LenProperties DEF Typed, InOrder
<1> HIDE DEF d, w
<1>0. Lie(q, written, d, w, off, f, p)
  BY DEF d, w
<1>2. CASE d < w
  <2>1. written[d + 1] \in Frames
    BY <1>1, <1>2, ElementOfSeq DEF Typed, w
  <2>2. d + 1 \in (d + 1)..w /\ (d + 1) - 1 = d
    BY <1>1, <1>2
  <2>3. HasFrame(q, off[d], written[d + 1]) /\ off[d] = 0
    BY <1>0, <2>2 DEF Lie, Offsets
  <2>4. \A j \in 1..FrameLen(written[d + 1]) : q[0 + j] = <<written[d + 1], j>>
    BY <2>3 DEF HasFrame
  <2>5. \A j \in 1..FrameLen(written[d + 1]) : q[j] = <<written[d + 1], j>>
    BY <2>1, <2>4, FrameLenType
  <2> QED
    BY <1>1, <1>2, <2>1, <2>5, FrameLenType DEF d, w
<1>3. CASE d = w
  <2>1. Ends(q, off[w], f, p) /\ off[w] = 0 /\ p \in Nat
    BY <1>0, <1>3 DEF Lie, Offsets
  <2>2. Len(q) = p /\ \A j \in 1..p : q[j] = <<f, j>>
    BY <2>1 DEF Ends
  <2>3. f \in Frames /\ p < FrameLen(f)
    BY <1>0, <1>1, <2>2 DEF Lie
  <2> QED
    BY <1>1, <2>1, <2>2, <2>3, FrameLenType
<1> QED
  BY <1>1, <1>2, <1>3

\* So do the bytes that the reader has.
LEMMA BufOfFrame ==
  ASSUME PipeInv, reader \in {"header", "body"}, buf # <<>>
  PROVE  \E g \in Frames :
           /\ \A j \in 1..Len(buf) : j <= FrameLen(g) => buf[j] = <<g, j>>
           /\ FrameLen(g) <= Len(buf) =>
                Len(delivered) < Len(written) /\ g = written[Len(delivered) + 1]
<1> DEFINE q == buf \o pipe
<1>1. buf \in Seq(FByte) /\ pipe \in Seq(FByte) /\ Typed /\ InOrder /\ reader # "closed"
  BY DEF PipeInv, Typed
<1>2. /\ q \in Seq(FByte) /\ Len(q) = Len(buf) + Len(pipe)
      /\ \A i \in 1..Len(q) : q[i] = IF i <= Len(buf) THEN buf[i] ELSE pipe[i - Len(buf)]
  BY <1>1, ConcatProperties
<1>3. Len(buf) \in Nat \ {0} /\ Len(pipe) \in Nat
  BY <1>1, EmptySeq, LenProperties
<1>4. q # <<>>
  BY <1>2, <1>3, EmptySeq
<1>5. PICK off, f, p : Lie(q, written, Len(delivered), Len(written), off, f, p)
  BY <1>1 DEF PipeInv, Flow
<1> HIDE DEF q
<1>6. PICK g \in Frames :
        /\ \A j \in 1..Len(q) : j <= FrameLen(g) => q[j] = <<g, j>>
        /\ FrameLen(g) <= Len(q) =>
             Len(delivered) < Len(written) /\ g = written[Len(delivered) + 1]
  BY <1>1, <1>2, <1>4, <1>5, FirstFrame
<1>7. \A j \in 1..Len(buf) : j <= FrameLen(g) => buf[j] = <<g, j>>
  <2> TAKE j \in 1..Len(buf)
  <2>1. j \in 1..Len(q) /\ q[j] = buf[j]
    BY <1>2, <1>3
  <2> QED
    BY <1>6, <2>1
<1>8. FrameLen(g) <= Len(buf) => FrameLen(g) <= Len(q)
  BY <1>2, <1>3, FrameLenType
<1> QED
  BY <1>6, <1>7, <1>8
-----------------------------------------------------------------------------
(***************************************************************************)
(* What a transfer and a delivery make of where frames lie.                *)
(***************************************************************************)

\* r is q with bytes p + 1 to p + n of frame g behind it.
Adds(r, q, g, p, n) ==
  /\ Len(r) = Len(q) + n
  /\ \A i \in 1..Len(q) : r[i] = q[i]
  /\ \A i \in 1..n : r[Len(q) + i] = <<g, p + i>>

\* r is q without its first n bytes.
Drops(r, q, n) == Len(r) = Len(q) - n /\ \A i \in 1..Len(r) : r[i] = q[n + i]

\* l bytes of q, from c on, are in r from e on.
Moved(r, q, e, c, l) == \A j \in 1..l : r[e + j] = q[c + j]

\* The bytes of frame k are bytes of q.
FrameInside(q, sent, w, off, k) ==
  /\ FrameLen(sent[k]) \in Nat /\ off[k - 1] \in Nat /\ off[k] \in Nat
  /\ off[k] = off[k - 1] + FrameLen(sent[k]) /\ off[k] <= off[w]
  /\ off[k] <= Len(q)

LEMMA LieInside ==
  ASSUME NEW q, NEW sent \in Seq(Frames), NEW d \in Nat, NEW w \in Nat, w <= Len(sent),
         NEW off, NEW f, NEW p, Lie(q, sent, d, w, off, f, p), NEW k \in (d + 1)..w
  PROVE  FrameInside(q, sent, w, off, k)
<1>1. k \in d..w /\ w \in d..w /\ k \in d..w /\ k - 1 \in Nat /\ k \in Nat /\ k \in 1..w
  OBVIOUS
<1>2. sent[k] \in Frames
  <2>1. k \in 1..Len(sent)
    BY <1>1, LenProperties
  <2> QED
    BY <2>1, ElementOfSeq
<1>3. FrameLen(sent[k]) \in Nat
  BY <1>2, FrameLenType
<1>4. Offsets(sent, d, w, off) /\ Ends(q, off[w], f, p) /\ p \in Nat
  BY DEF Lie
<1>5. off[k - 1] \in Nat /\ off[k] \in Nat /\ off[w] \in Nat
  BY <1>1, <1>4 DEF Offsets
<1>6. off[k] = off[k - 1] + FrameLen(sent[k]) /\ off[k] <= off[w]
  BY <1>1, <1>4 DEF Offsets
<1>7. Len(q) = off[w] + p
  BY <1>4 DEF Ends
<1>8. off[k] <= Len(q)
  BY <1>4, <1>5, <1>6, <1>7
<1> QED
  BY <1>3, <1>5, <1>6, <1>8 DEF FrameInside

\* They are bytes of what begins like q, and in the same place.
LEMMA AddsKeeps ==
  ASSUME NEW q, NEW r, NEW g, NEW p, NEW n, Adds(r, q, g, p, n),
         NEW e \in Nat, NEW f, FrameLen(f) \in Nat, NEW l \in Nat, l = Len(q),
         e + FrameLen(f) <= l, HasFrame(q, e, f)
  PROVE  HasFrame(r, e, f)
<1> SUFFICES ASSUME NEW j \in 1..FrameLen(f) PROVE r[e + j] = <<f, j>>
  BY DEF HasFrame
<1>1. e + j \in 1..l
  OBVIOUS
<1>2. q[e + j] = <<f, j>>
  BY DEF HasFrame
<1> QED
  BY <1>1, <1>2 DEF Adds

\* The bytes at the end, with those added.
LEMMA AddsBehind ==
  ASSUME NEW q, NEW r, NEW g, NEW e \in Nat, NEW p \in Nat, NEW n \in Nat,
         NEW f, p # 0 => f = g, Ends(q, e, f, p), Adds(r, q, g, p, n)
  PROVE  Ends(r, e, g, p + n)
<1>0. Len(q) = e + p
  BY DEF Ends
<1>1. ASSUME NEW j \in 1..(p + n) PROVE r[e + j] = <<g, j>>
  <2>1. CASE j <= p
    <3>1. e + j \in 1..(e + p) /\ j \in 1..p /\ p # 0
      BY <2>1
    <3>2. r[e + j] = q[e + j]
      BY <1>0, <3>1 DEF Adds
    <3>3. q[e + j] = <<f, j>>
      BY <3>1 DEF Ends
    <3> QED
      BY <3>1, <3>2, <3>3
  <2>2. CASE j > p
    <3>1. PICK i \in 1..n : j = p + i
      <4>1. j - p \in 1..n /\ j = p + (j - p)
        BY <2>2
      <4> QED
        BY <4>1
    <3>2. r[Len(q) + i] = <<g, p + i>>
      BY DEF Adds
    <3>3. Len(q) + i = e + j
      BY <1>0, <3>1
    <3> QED
      BY <3>1, <3>2, <3>3
  <2> QED
    BY <2>1, <2>2
<1>2. Len(r) = Len(q) + n
  BY DEF Adds
<1>3. Len(r) = e + (p + n)
  BY <1>0, <1>2
<1> QED
  BY <1>1, <1>3 DEF Ends

\* More bytes of the frame at the end.
LEMMA LieMore ==
  ASSUME NEW q, NEW r, NEW sent \in Seq(Frames), NEW d \in Nat, NEW w \in Nat, w <= Len(sent),
         Len(q) \in Nat, NEW off, NEW f, NEW p, Lie(q, sent, d, w, off, f, p), off[w] \in Nat,
         NEW g \in Frames, NEW n \in Nat, p # 0 => f = g, p + n < FrameLen(g),
         Adds(r, q, g, p, n)
  PROVE  Lie(r, sent, d, w, off, g, p + n)
<1>1. p \in Nat /\ Ends(q, off[w], f, p) /\ Offsets(sent, d, w, off)
  BY DEF Lie
<1>2. Ends(r, off[w], g, p + n)
  BY <1>1, AddsBehind
<1>3. ASSUME NEW k \in (d + 1)..w PROVE HasFrame(r, off[k - 1], sent[k])
  <2>1. FrameInside(q, sent, w, off, k)
    BY LieInside
  <2>2. HasFrame(q, off[k - 1], sent[k])
    BY DEF Lie
  <2>3. /\ off[k - 1] \in Nat /\ FrameLen(sent[k]) \in Nat
        /\ off[k - 1] + FrameLen(sent[k]) <= Len(q)
    BY <2>1 DEF FrameInside
  <2> QED
    BY <2>2, <2>3, AddsKeeps
<1>4. p + n \in Nat
  BY <1>1
<1> QED
  BY <1>1, <1>2, <1>3, <1>4 DEF Lie

\* The offsets, with one more.
LEMMA OffsetsMore ==
  ASSUME NEW sent \in Seq(Frames), NEW d \in Nat, NEW w \in Nat, w = Len(sent), d <= w,
         NEW off, Offsets(sent, d, w, off), NEW g \in Frames
  PROVE  \E more :
           /\ Offsets(Append(sent, g), d, w + 1, more)
           /\ \A k \in Nat : k <= w => more[k] = off[k]
           /\ more[w + 1] = off[w] + FrameLen(g)
<1> DEFINE all == Append(sent, g)
           last == off[w] + FrameLen(g)
           more == [k \in Nat |-> IF k = w + 1 THEN last ELSE off[k]]
<1>1. /\ \A k \in 1..w : all[k] = sent[k]
      /\ all[w + 1] = g
  BY AppendProperties
<1> HIDE DEF all
<1>2. /\ \A k \in Nat : off[k] \in Nat
      /\ off[d] = 0
      /\ \A k \in (d + 1)..w : off[k] = off[k - 1] + FrameLen(sent[k])
      /\ \A k \in d..w : \A m \in d..k : off[m] <= off[k]
  BY DEF Offsets
<1>3. FrameLen(g) \in Nat /\ off[w] \in Nat
  BY <1>2, FrameLenType
<1>4. last \in Nat /\ off[w] <= last
  BY <1>3
<1> HIDE DEF last
<1>5. /\ more[w + 1] = last
      /\ \A k \in Nat : more[k] \in Nat /\ (k <= w => more[k] = off[k])
  BY <1>2, <1>4
<1> HIDE DEF more
<1>6. more[d] = 0
  BY <1>2, <1>5
<1>7. ASSUME NEW k \in d..(w + 1), NEW m \in d..k PROVE more[m] <= more[k]
  <2>1. CASE k <= w
    <3>1. k \in d..w /\ k \in Nat /\ m \in Nat /\ m <= w
      BY <2>1
    <3>2. off[m] <= off[k]
      BY <1>2, <3>1
    <3> QED
      BY <1>5, <2>1, <3>1, <3>2
  <2>2. CASE k = w + 1 /\ m <= w
    <3>1. w \in d..w /\ m \in d..w /\ m \in Nat
      BY <2>2
    <3>2. off[m] <= off[w] /\ off[m] \in Nat
      BY <1>2, <3>1
    <3>3. more[m] = off[m] /\ more[k] = last
      BY <1>5, <2>2, <3>1
    <3> QED
      BY <1>3, <1>4, <3>2, <3>3
  <2>3. CASE k = m
    <3>1. k \in Nat
      OBVIOUS
    <3>2. more[k] \in Nat
      BY <1>5, <3>1
    <3> QED
      BY <2>3, <3>2
  <2>4. k <= w \/ (k = w + 1 /\ m <= w) \/ k = m
    OBVIOUS
  <2> QED
    BY <2>1, <2>2, <2>3, <2>4
<1>8. ASSUME NEW k \in (d + 1)..(w + 1) PROVE more[k] = more[k - 1] + FrameLen(all[k])
  <2>1. CASE k <= w
    <3>1. k \in (d + 1)..w /\ k - 1 \in Nat /\ k - 1 <= w /\ k \in 1..w /\ k \in Nat
      BY <2>1
    <3>2. all[k] = sent[k] /\ more[k] = off[k] /\ more[k - 1] = off[k - 1]
      BY <1>1, <1>5, <2>1, <3>1
    <3> QED
      BY <1>2, <3>1, <3>2
  <2>2. CASE k = w + 1
    <3>1. k - 1 = w
      BY <2>2
    <3>2. more[w] = off[w] /\ all[k] = g /\ more[k] = last
      BY <1>1, <1>5, <2>2
    <3> QED
      BY <3>1, <3>2 DEF last
  <2> QED
    BY <2>1, <2>2
<1>9. Offsets(all, d, w + 1, more)
  BY <1>5, <1>6, <1>7, <1>8 DEF Offsets
<1>10. \A k \in Nat : k <= w => more[k] = off[k]
  BY <1>5
<1> QED
  BY <1>5, <1>9, <1>10 DEF all, last

\* The rest of it.
LEMMA LieWhole ==
  ASSUME NEW q, NEW r, NEW sent \in Seq(Frames), NEW d \in Nat, NEW w \in Nat, w = Len(sent),
         d <= w, Len(q) \in Nat,
         NEW off, NEW f, NEW p, Lie(q, sent, d, w, off, f, p), off[w] \in Nat,
         NEW g \in Frames, NEW n \in Nat, p # 0 => f = g, p + n = FrameLen(g),
         Adds(r, q, g, p, n)
  PROVE  \E more : Lie(r, Append(sent, g), d, w + 1, more, g, 0)
<1> DEFINE all == Append(sent, g)
<1>1. p \in Nat /\ Ends(q, off[w], f, p) /\ Offsets(sent, d, w, off)
  BY DEF Lie
<1>2. Ends(r, off[w], g, FrameLen(g))
  BY <1>1, AddsBehind
<1>3. PICK more : /\ Offsets(all, d, w + 1, more)
                  /\ \A k \in Nat : k <= w => more[k] = off[k]
                  /\ more[w + 1] = off[w] + FrameLen(g)
  BY <1>1, OffsetsMore
<1>4. /\ \A k \in 1..w : all[k] = sent[k]
      /\ all[w + 1] = g
  BY AppendProperties
<1> HIDE DEF all
<1>5. HasFrame(r, off[w], g) /\ Len(r) = off[w] + FrameLen(g)
  BY <1>2 DEF Ends, HasFrame
<1>6. ASSUME NEW k \in (d + 1)..(w + 1) PROVE HasFrame(r, more[k - 1], all[k])
  <2>1. CASE k <= w
    <3>1. k \in (d + 1)..w /\ k - 1 \in Nat /\ k - 1 <= w /\ k \in 1..w
      BY <2>1
    <3>2. FrameInside(q, sent, w, off, k)
      BY <3>1, LieInside
    <3>3. HasFrame(q, off[k - 1], sent[k])
      BY <3>1 DEF Lie
    <3>4. /\ off[k - 1] \in Nat /\ FrameLen(sent[k]) \in Nat
          /\ off[k - 1] + FrameLen(sent[k]) <= Len(q)
      BY <3>2 DEF FrameInside
    <3>5. HasFrame(r, off[k - 1], sent[k])
      BY <3>3, <3>4, AddsKeeps
    <3>6. more[k - 1] = off[k - 1] /\ all[k] = sent[k]
      BY <1>3, <1>4, <3>1
    <3> QED
      BY <3>5, <3>6
  <2>2. CASE k = w + 1
    <3>1. k - 1 = w
      BY <2>2
    <3>2. more[w] = off[w] /\ all[k] = g
      BY <1>3, <1>4, <2>2
    <3> QED
      BY <1>5, <3>1, <3>2
  <2> QED
    BY <2>1, <2>2
<1>7. FrameLen(g) \in Nat
  BY FrameLenType
<1>8. Ends(r, more[w + 1], g, 0)
  BY <1>3, <1>5, <1>7 DEF Ends
<1>9. Lie(r, all, d, w + 1, more, g, 0)
  BY <1>3, <1>6, <1>8 DEF Lie
<1> QED
  BY <1>9 DEF all

\* The offsets, without the first.
LEMMA OffsetsLess ==
  ASSUME NEW sent \in Seq(Frames), NEW d \in Nat, NEW w \in Nat, d < w, w <= Len(sent),
         NEW off, Offsets(sent, d, w, off), NEW n \in Nat, n = FrameLen(sent[d + 1])
  PROVE  \E less :
           /\ Offsets(sent, d + 1, w, less)
           /\ \A k \in (d + 1)..w :
                off[k] \in Nat /\ n <= off[k] /\ less[k] \in Nat /\ less[k] = off[k] - n
<1> DEFINE less == [k \in Nat |-> IF k \in (d + 1)..w THEN off[k] - n ELSE 0]
<1>1. /\ \A k \in Nat : off[k] \in Nat
      /\ off[d] = 0
      /\ \A k \in (d + 1)..w : off[k] = off[k - 1] + FrameLen(sent[k])
      /\ \A k \in d..w : \A m \in d..k : off[m] <= off[k]
  BY DEF Offsets
<1>2. off[d + 1] = n
  <2>1. d + 1 \in (d + 1)..w /\ (d + 1) - 1 = d
    OBVIOUS
  <2>2. off[d + 1] = off[d] + n
    BY <1>1, <2>1
  <2> QED
    BY <1>1, <2>2
<1>3. ASSUME NEW k \in (d + 1)..w
      PROVE  off[k] \in Nat /\ n <= off[k] /\ less[k] = off[k] - n /\ less[k] \in Nat
  <2>1. k \in Nat /\ k \in d..w /\ d + 1 \in d..k
    OBVIOUS
  <2>2. off[d + 1] <= off[k]
    BY <1>1, <2>1
  <2>3. off[k] \in Nat /\ n <= off[k]
    BY <1>1, <1>2, <2>1, <2>2
  <2>4. less[k] = off[k] - n
    BY <2>1
  <2> HIDE DEF less
  <2>5. less[k] \in Nat
    BY <2>3, <2>4
  <2> QED
    BY <2>3, <2>4, <2>5
<1>4. \A k \in Nat : less[k] \in Nat
  <2> TAKE k \in Nat
  <2>1. CASE k \in (d + 1)..w
    BY <1>3, <2>1
  <2>2. CASE k \notin (d + 1)..w
    BY <2>2
  <2> QED
    BY <2>1, <2>2
<1> HIDE DEF less
<1>5. less[d + 1] = 0
  <2>1. d + 1 \in (d + 1)..w
    OBVIOUS
  <2>2. less[d + 1] = n - n
    BY <1>2, <1>3, <2>1
  <2> QED
    BY <2>2
<1>6. ASSUME NEW k \in (d + 1)..w, NEW m \in (d + 1)..k PROVE less[m] <= less[k]
  <2>1. k \in d..w /\ m \in d..k /\ m \in (d + 1)..w
    OBVIOUS
  <2>2. off[m] <= off[k]
    BY <1>1, <2>1
  <2>3. /\ less[m] = off[m] - n /\ off[m] \in Nat
        /\ less[k] = off[k] - n /\ off[k] \in Nat
    BY <1>3, <2>1
  <2> QED
    BY <2>2, <2>3
<1>7. ASSUME NEW k \in ((d + 1) + 1)..w PROVE less[k] = less[k - 1] + FrameLen(sent[k])
  <2>1. k \in (d + 1)..w /\ k - 1 \in (d + 1)..w
    OBVIOUS
  <2>2. off[k] = off[k - 1] + FrameLen(sent[k])
    BY <1>1, <2>1
  <2>3. /\ less[k] = off[k] - n /\ less[k - 1] = off[k - 1] - n
        /\ off[k - 1] \in Nat /\ off[k] \in Nat
    BY <1>3, <2>1
  <2>4. FrameLen(sent[k]) \in Nat
    <3>1. k \in 1..Len(sent)
      BY LenProperties
    <3> QED
      BY <3>1, ElementOfSeq, FrameLenType
  <2> QED
    BY <2>2, <2>3, <2>4
<1>8. Offsets(sent, d + 1, w, less)
  BY <1>4, <1>5, <1>6, <1>7 DEF Offsets
<1> QED
  BY <1>3, <1>8

\* What is not dropped moves to the front.
LEMMA DropsMoves ==
  ASSUME NEW q, NEW r, NEW n \in Nat, Len(q) \in Nat, Drops(r, q, n),
         NEW e \in Nat, NEW c \in Nat, e = c - n, NEW l \in Nat, c + l <= Len(q)
  PROVE  Moved(r, q, e, c, l)
<1> DEFINE m == Len(r)
           o == Len(q)
<1>1. m = o - n /\ o \in Nat /\ c + l <= o
  BY DEF Drops
<1>2. \A i \in 1..m : r[i] = q[n + i]
  BY DEF Drops
<1> HIDE DEF m, o
<1>3. ASSUME NEW j \in 1..l PROVE r[e + j] = q[c + j]
  <2>1. e + j \in 1..m
    BY <1>1
  <2>2. n + (e + j) = c + j
    OBVIOUS
  <2> QED
    BY <1>2, <2>1, <2>2
<1> QED
  BY <1>3 DEF Moved

\* The first frame is taken out.
LEMMA LieDrop ==
  ASSUME NEW q, NEW r, NEW sent \in Seq(Frames), NEW d \in Nat, NEW w \in Nat, d < w,
         w <= Len(sent), Len(q) \in Nat,
         NEW off, NEW f, NEW p, Lie(q, sent, d, w, off, f, p),
         NEW n \in Nat, n = FrameLen(sent[d + 1]),
         Drops(r, q, n)
  PROVE  \E less : Lie(r, sent, d + 1, w, less, f, p)
<1>1. p \in Nat /\ Ends(q, off[w], f, p) /\ Offsets(sent, d, w, off)
  BY DEF Lie
<1>2. PICK less :
        /\ Offsets(sent, d + 1, w, less)
        /\ \A k \in (d + 1)..w :
             off[k] \in Nat /\ n <= off[k] /\ less[k] \in Nat /\ less[k] = off[k] - n
  BY <1>1, OffsetsLess
<1>4. ASSUME NEW k \in ((d + 1) + 1)..w PROVE HasFrame(r, less[k - 1], sent[k])
  <2>1. k \in (d + 1)..w /\ k - 1 \in (d + 1)..w
    OBVIOUS
  <2>2. FrameInside(q, sent, w, off, k)
    BY <2>1, LieInside
  <2>3. HasFrame(q, off[k - 1], sent[k])
    BY <2>1 DEF Lie
  <2>4. /\ off[k - 1] \in Nat /\ FrameLen(sent[k]) \in Nat
        /\ off[k - 1] + FrameLen(sent[k]) <= Len(q)
    BY <2>2 DEF FrameInside
  <2>5. less[k - 1] \in Nat /\ less[k - 1] = off[k - 1] - n
    BY <1>2, <2>1
  <2>6. \A j \in 1..FrameLen(sent[k]) : r[less[k - 1] + j] = q[off[k - 1] + j]
    <3> DEFINE e == less[k - 1]
               c == off[k - 1]
               l == FrameLen(sent[k])
    <3>1. e \in Nat /\ c \in Nat /\ e = c - n /\ l \in Nat /\ c + l <= Len(q)
      BY <2>4, <2>5
    <3> HIDE DEF e, c, l
    <3>2. Moved(r, q, e, c, l)
      BY <3>1, DropsMoves
    <3> QED
      BY <3>2 DEF e, c, l, Moved
  <2> QED
    BY <2>3, <2>6 DEF HasFrame
<1>5. Ends(r, less[w], f, p)
  <2>1. w \in (d + 1)..w
    OBVIOUS
  <2>2. off[w] \in Nat /\ n <= off[w] /\ less[w] \in Nat /\ less[w] = off[w] - n
    BY <1>2, <2>1
  <2>3. Len(q) = off[w] + p
    BY <1>1 DEF Ends
  <2>4. \A j \in 1..p : r[less[w] + j] = q[off[w] + j]
    <3> DEFINE e == less[w]
               c == off[w]
    <3>1. e \in Nat /\ c \in Nat /\ e = c - n /\ p \in Nat /\ c + p <= Len(q)
      BY <1>1, <2>2, <2>3
    <3> HIDE DEF e, c
    <3>2. Moved(r, q, e, c, p)
      BY <3>1, DropsMoves
    <3> QED
      BY <3>2 DEF e, c, Moved
  <2>5. Len(r) = Len(q) - n
    BY DEF Drops
  <2>6. Len(r) = less[w] + p
    BY <1>1, <2>2, <2>3, <2>5
  <2> QED
    BY <1>1, <2>4, <2>6 DEF Ends
<1>6. p # 0 => f \in Frames /\ p < FrameLen(f)
  BY DEF Lie
<1>7. Lie(r, sent, d + 1, w, less, f, p)
  BY <1>1, <1>2, <1>4, <1>5, <1>6 DEF Lie
<1> QED
  BY <1>7

-----------------------------------------------------------------------------
(***************************************************************************)
(* The invariant.                                                          *)
(***************************************************************************)

LEMMA InitPipe == Init => PipeInv
<1> SUFFICES ASSUME Init PROVE PipeInv
  OBVIOUS
<1>1. Len(<<>>) = 0 /\ <<>> \in Seq(FByte) /\ <<>> \in Seq(Frames) /\ <<>> \o <<>> = <<>>
  <2>1. \A S : <<>> \in Seq(S)
    BY EmptySeq
  <2>2. <<>> \o <<>> = <<>>
    BY <2>1, ConcatEmptySeq
  <2> QED
    BY <2>1, <2>2, EmptySeq
<1>2. PipeCap \in Nat /\ MaxCalls \in Nat
  BY FrameAssumption
<1>3. Typed
  <2>1. calls \in [Threads -> 0..MaxCalls] /\ writing \in [Threads -> Seq(FByte)]
    BY <1>1, <1>2 DEF Init
  <2>2. \A t, u \in holder : t = u
    BY DEF Init
  <2>3. holder \subseteq Threads /\ shutdown \in BOOLEAN /\ rxOpen = ~shutdown
    BY DEF Init
  <2>4. /\ pipe \in Seq(FByte) /\ Len(pipe) <= PipeCap /\ buf \in Seq(FByte)
        /\ written \in Seq(Frames) /\ delivered \in Seq(Frames)
    BY <1>1, <1>2 DEF Init
  <2>5. /\ connected \in BOOLEAN /\ alive \in BOOLEAN
        /\ reader \in {"top", "header", "body", "closed"}
    BY DEF Init
  <2> QED
    BY <2>1, <2>2, <2>3, <2>4, <2>5 DEF Typed
<1>4. Writers /\ AtReader /\ InOrder
  BY <1>1 DEF Init, Writers, AtReader, InOrder
<1>5. Flow
  <2> DEFINE off == [k \in Nat |-> 0]
  <2>1. Offsets(<<>>, 0, 0, off)
    BY DEF Offsets
  <2> HIDE DEF off
  <2>2. off[0] = 0
    BY <2>1 DEF Offsets
  <2>3. Lie(<<>>, <<>>, 0, 0, off, <<>>, 0)
    BY <1>1, <2>1, <2>2 DEF Lie, Ends
  <2> QED
    BY <1>1, <2>3 DEF Init, Flow
<1> QED
  BY <1>3, <1>4, <1>5 DEF PipeInv

\* A step that moves no byte past the two ends.
LEMMA FlowKept ==
  ASSUME Flow, reader' # "closed" => reader # "closed",
         buf' \o pipe' = buf \o pipe, written' = written, delivered' = delivered,
         alive' => /\ alive /\ holder' = holder
                   /\ \A t \in holder : Current(t)' = Current(t) /\ Taken(t)' = Taken(t)
  PROVE  Flow'
<1> SUFFICES ASSUME reader' # "closed"
             PROVE  \E off, f, p :
                      /\ Lie(buf \o pipe, written, Len(delivered), Len(written), off, f, p)
                      /\ alive' => IF holder = {} THEN p = 0
                                   ELSE \A t \in holder : f = Current(t)' /\ p = Taken(t)'
  BY DEF Flow
<1>1. PICK off, f, p :
        /\ Lie(buf \o pipe, written, Len(delivered), Len(written), off, f, p)
        /\ alive => IF holder = {} THEN p = 0
                    ELSE \A t \in holder : f = Current(t) /\ p = Taken(t)
  BY DEF Flow
<1> QED
  BY <1>1

\* The end of a connection.
LEMMA CloseKept ==
  ASSUME PipeInv, Close, UNCHANGED <<gameVars, delivered, guiVars>>
  PROVE  PipeInv'
<1>1. <<>> \in Seq(FByte) /\ Len(<<>>) <= PipeCap
  BY FrameAssumption, EmptySeq
<1>2. Typed'
  BY <1>1 DEF PipeInv, Typed, Close, gameVars, guiVars
<1>3. Writers' /\ InOrder'
  BY DEF PipeInv, Writers, InOrder, Current, Taken, gameVars
<1>4. AtReader' /\ Flow'
  BY DEF AtReader, Flow, Close
<1> QED
  BY <1>2, <1>3, <1>4 DEF PipeInv

LEMMA WriteCaptureKept ==
  ASSUME PipeInv, NEW t \in Threads, WriteCapture(t)
  PROVE  PipeInv'
<1> DEFINE g == <<t, calls[t] + 1>>
<1>1. calls[t] \in 0..MaxCalls /\ MaxCalls \in Nat /\ calls[t] < MaxCalls
  BY FrameAssumption DEF PipeInv, Typed, WriteCapture
<1>2. /\ calls' = [calls EXCEPT ![t] = calls[t] + 1]
      /\ writing' = [writing EXCEPT ![t] = FrameBytes(g)]
      /\ calls'[t] = calls[t] + 1 /\ calls[t] + 1 \in 1..MaxCalls
  BY <1>1 DEF PipeInv, Typed, WriteCapture
<1>3. g \in Frames
  BY <1>1 DEF Frames
<1> HIDE DEF g
<1>4. /\ FrameBytes(g) \in Seq(FByte) /\ Len(FrameBytes(g)) = FrameLen(g)
      /\ \A i \in 1..FrameLen(g) : FrameBytes(g)[i] = <<g, i>>
      /\ FrameLen(g) \in Nat /\ FrameLen(g) >= 13
  BY <1>3, FrameBytesType, FrameLenType
<1>5. Current(t)' = g /\ writing'[t] = FrameBytes(g)
  BY <1>2 DEF PipeInv, Typed, Current, g
<1>6. Taken(t)' = 0
  BY <1>4, <1>5 DEF Taken
<1>7. \A u \in Threads : u # t => /\ Current(u)' = Current(u) /\ writing'[u] = writing[u]
                                  /\ calls'[u] = calls[u] /\ Taken(u)' = Taken(u)
  BY <1>2 DEF PipeInv, Typed, Current, Taken
<1>8. t \notin holder /\ holder' = holder
  BY DEF PipeInv, Writers, WriteCapture
<1>9. Typed'
  BY <1>2, <1>4 DEF PipeInv, Typed, WriteCapture, readerVars, guiVars
<1>10. Writers'
  <2> SUFFICES ASSUME NEW u \in Threads
               PROVE  /\ writing'[u] # <<>> =>
                           /\ calls'[u] # 0 /\ Len(writing'[u]) <= FrameLen(Current(u)')
                           /\ \A i \in 1..Len(writing'[u]) :
                                writing'[u][i] = <<Current(u)', Taken(u)' + i>>
                      /\ u \in holder' <=>
                           writing'[u] # <<>> /\ Len(writing'[u]) < FrameLen(Current(u)')
    BY DEF Writers
  <2>1. CASE u = t
    <3>1. \A i \in 1..FrameLen(g) : i = 0 + i
      BY <1>4
    <3>2. \A i \in 1..Len(writing'[t]) : writing'[t][i] = <<Current(t)', Taken(t)' + i>>
      BY <1>4, <1>5, <1>6, <3>1
    <3>3. Len(writing'[t]) = FrameLen(Current(t)') /\ calls'[t] # 0
      BY <1>1, <1>2, <1>4, <1>5
    <3>4. FrameLen(Current(t)') \in Nat
      BY <1>4, <1>5
    <3> QED
      BY <1>8, <2>1, <3>2, <3>3, <3>4
  <2>2. CASE u # t
    BY <1>7, <1>8, <2>2 DEF PipeInv, Writers
  <2> QED
    BY <2>1, <2>2
<1>11. AtReader' /\ InOrder'
  BY DEF PipeInv, WriteCapture, AtReader, InOrder, readerVars
<1>12. Flow'
  <2>1. \A u \in holder : u \in Threads /\ u # t
    BY <1>8 DEF PipeInv, Typed
  <2>2. \A u \in holder : Current(u)' = Current(u) /\ Taken(u)' = Taken(u)
    BY <1>7, <2>1
  <2>3. /\ reader' = reader /\ buf' = buf /\ pipe' = pipe /\ written' = written
        /\ delivered' = delivered /\ alive' = alive /\ holder' = holder /\ Flow
    BY DEF PipeInv, WriteCapture, readerVars
  <2>4. buf' \o pipe' = buf \o pipe
    BY <2>3
  <2> QED
    BY <2>2, <2>3, <2>4, FlowKept
<1> QED
  BY <1>9, <1>10, <1>11, <1>12 DEF PipeInv

\* The pipe takes n of the bytes of thread t: they come behind those of the same frame.
LEMMA TransferAdds ==
  ASSUME Typed, Writers, NEW t \in Threads, writing[t] # <<>>, NEW n \in 1..Len(writing[t])
  PROVE  /\ Current(t) \in Frames /\ FrameLen(Current(t)) \in Nat /\ Taken(t) \in Nat
         /\ Len(writing[t]) \in Nat /\ Taken(t) + Len(writing[t]) = FrameLen(Current(t))
         /\ buf \o (pipe \o SubSeq(writing[t], 1, n)) \in Seq(FByte)
         /\ Adds(buf \o (pipe \o SubSeq(writing[t], 1, n)), buf \o pipe, Current(t), Taken(t), n)
<1> DEFINE x == SubSeq(writing[t], 1, n)
           q == buf \o pipe
<1>1. writing[t] \in Seq(FByte) /\ buf \in Seq(FByte) /\ pipe \in Seq(FByte)
  BY DEF Typed
<1>2. Len(writing[t]) \in Nat /\ n \in 0..Len(writing[t]) /\ n \in Nat
  BY <1>1, LenProperties
<1>3. Current(t) \in Frames /\ FrameLen(Current(t)) \in Nat
  BY CurrentFrame, FrameLenType DEF Writers
<1>4. Len(writing[t]) <= FrameLen(Current(t))
  BY DEF Writers
<1>5. Taken(t) \in Nat /\ Taken(t) + Len(writing[t]) = FrameLen(Current(t))
  BY <1>2, <1>3, <1>4 DEF Taken
<1>6. x \in Seq(FByte) /\ Len(x) = n /\ \A i \in 1..n : x[i] = writing[t][i]
  BY <1>1, <1>2, CutInTwo
<1>7. \A i \in 1..n : x[i] = <<Current(t), Taken(t) + i>>
  BY <1>2, <1>6 DEF Writers
<1> HIDE DEF x
<1>8. /\ q \in Seq(FByte) /\ Len(q) \in Nat
      /\ buf \o (pipe \o x) = q \o x
  <2>1. q \in Seq(FByte)
    BY <1>1, ConcatProperties
  <2>2. (buf \o pipe) \o x = buf \o (pipe \o x)
    <3>1. buf \in Seq(FByte) /\ pipe \in Seq(FByte) /\ x \in Seq(FByte)
      BY <1>1, <1>6
    <3> QED
      BY ONLY <3>1, ConcatAssociative
  <2> QED
    BY <2>1, <2>2, LenProperties
<1> HIDE DEF q
<1>9. /\ q \o x \in Seq(FByte) /\ Len(q \o x) = Len(q) + Len(x)
      /\ \A i \in 1..(Len(q) + Len(x)) : (q \o x)[i] = IF i <= Len(q) THEN q[i] ELSE x[i - Len(q)]
  BY <1>6, <1>8, ConcatProperties
<1>10. \A i \in 1..Len(q) : (q \o x)[i] = q[i]
  BY <1>2, <1>6, <1>8, <1>9
<1>11. ASSUME NEW i \in 1..n PROVE (q \o x)[Len(q) + i] = <<Current(t), Taken(t) + i>>
  <2>1. Len(q) + i \in 1..(Len(q) + Len(x)) /\ ~(Len(q) + i <= Len(q)) /\ (Len(q) + i) - Len(q) = i
    BY <1>2, <1>6, <1>8
  <2> QED
    BY <1>7, <1>9, <2>1
<1>12. Adds(q \o x, q, Current(t), Taken(t), n)
  BY <1>6, <1>9, <1>10, <1>11 DEF Adds
<1> QED
  BY <1>2, <1>3, <1>5, <1>8, <1>9, <1>12 DEF q, x

LEMMA WriteFileKept ==
  ASSUME PipeInv, NEW t \in Threads, WriteFile(t)
  PROVE  PipeInv'
<1> DEFINE l == Len(writing[t])
           g == Current(t)
           m == FrameLen(g)
           w == Len(written)
           q == buf \o pipe
<1>1. PICK n \in 1..l :
        /\ Len(pipe) + n <= PipeCap
        /\ Transfer(t, n)
        /\ holder' = IF writing'[t] = <<>> THEN {} ELSE {t}
  BY DEF WriteFile
<1>2. /\ alive /\ reader # "closed" /\ writing[t] # <<>> /\ holder \subseteq {t}
      /\ calls' = calls /\ connected' = connected /\ alive' = alive /\ reader' = reader
      /\ buf' = buf /\ delivered' = delivered /\ shutdown' = shutdown /\ rxOpen' = rxOpen
  BY DEF WriteFile, readerVars, guiVars
<1>3. Typed /\ Writers /\ AtReader /\ InOrder /\ Flow
  BY DEF PipeInv
<1> DEFINE x == SubSeq(writing[t], 1, n)
           y == SubSeq(writing[t], n + 1, l)
           r == buf \o (pipe \o x)
<1>4. /\ g \in Frames /\ m \in Nat /\ Taken(t) \in Nat /\ l \in Nat /\ Taken(t) + l = m
      /\ r \in Seq(FByte) /\ Adds(r, q, g, Taken(t), n)
  BY <1>2, <1>3, TransferAdds
<1>5. /\ x \in Seq(FByte) /\ Len(x) = n
      /\ y \in Seq(FByte) /\ Len(y) = l - n
      /\ \A i \in 1..(l - n) : y[i] = writing[t][n + i]
  <2>1. writing[t] \in Seq(FByte) /\ n \in 0..l
    BY <1>3, <1>4 DEF Typed
  <2> QED
    BY <2>1, CutInTwo
<1>6. /\ pipe' = pipe \o x
      /\ writing' = [writing EXCEPT ![t] = y]
      /\ written' = IF n = l THEN Append(written, g) ELSE written
  BY <1>1 DEF Transfer, Current
<1>7. writing'[t] = y /\ \A u \in Threads : u # t => writing'[u] = writing[u]
  BY <1>3, <1>6 DEF Typed
<1>8. Current(t)' = g /\ \A u \in Threads : u # t => Current(u)' = Current(u) /\ Taken(u)' = Taken(u)
  BY <1>2, <1>7 DEF Current, Taken
<1> HIDE DEF g, x, y
<1>9. Taken(t)' = Taken(t) + n
  <2>1. Taken(t)' = m - Len(y)
    BY <1>7, <1>8 DEF Taken
  <2> HIDE DEF m, l
  <2> QED
    BY <1>4, <1>5, <2>1
<1>10. y = <<>> <=> n = l
  <2>1. y = <<>> <=> Len(y) = 0
    BY <1>5, EmptySeq
  <2> HIDE DEF l
  <2> QED
    BY <1>4, <1>5, <2>1
<1>11. holder' = IF n = l THEN {} ELSE {t}
  BY <1>1, <1>7, <1>10
<1>12. Typed'
  <2>1. writing' \in [Threads -> Seq(FByte)]
    BY <1>3, <1>5, <1>6 DEF Typed
  <2>2. pipe' \in Seq(FByte) /\ Len(pipe') = Len(pipe) + n
    BY <1>3, <1>5, <1>6, ConcatProperties DEF Typed
  <2>3. written' \in Seq(Frames)
    BY <1>3, <1>4, <1>6, AppendProperties DEF Typed
  <2>4. holder' \subseteq Threads /\ \A u, v \in holder' : u = v
    BY <1>11
  <2> QED
    BY <1>1, <1>2, <1>3, <2>1, <2>2, <2>3, <2>4 DEF Typed
<1>13. Writers'
  <2> SUFFICES ASSUME NEW u \in Threads
               PROVE  /\ writing'[u] # <<>> =>
                           /\ calls'[u] # 0 /\ Len(writing'[u]) <= FrameLen(Current(u)')
                           /\ \A i \in 1..Len(writing'[u]) :
                                writing'[u][i] = <<Current(u)', Taken(u)' + i>>
                      /\ u \in holder' <=>
                           writing'[u] # <<>> /\ Len(writing'[u]) < FrameLen(Current(u)')
    BY DEF Writers
  <2>1. CASE u = t
    <3>1. calls'[t] # 0
      BY <1>2, <1>3 DEF Writers
    <3>2. Len(y) <= m /\ Len(y) < m
      <4> HIDE DEF l, m
      <4> QED
        BY <1>4, <1>5
    <3>3. ASSUME NEW i \in 1..Len(y) PROVE y[i] = <<g, (Taken(t) + n) + i>>
      <4>1. i \in 1..(l - n) /\ n + i \in 1..l /\ Taken(t) + (n + i) = (Taken(t) + n) + i
        BY <1>4, <1>5
      <4>2. writing[t][n + i] = <<g, Taken(t) + (n + i)>>
        BY <1>2, <1>3, <4>1 DEF Writers, g
      <4> QED
        BY <1>5, <4>1, <4>2
    <3>4. t \in holder' <=> y # <<>>
      BY <1>10, <1>11
    <3> QED
      BY <1>7, <1>8, <1>9, <2>1, <3>1, <3>2, <3>3, <3>4
  <2>2. CASE u # t
    <3>1. u \notin holder /\ u \notin holder'
      BY <1>2, <1>11, <2>2
    <3> QED
      BY <1>2, <1>3, <1>7, <1>8, <2>2, <3>1 DEF Writers
  <2> QED
    BY <2>1, <2>2
<1>6a. AtReader'
  BY <1>2, <1>3 DEF AtReader
<1>15. InOrder'
  <2>1. Len(delivered) \in Nat /\ w \in Nat
    BY <1>3, LenProperties DEF Typed
  <2>2. CASE n = l
    <3>1. written' = Append(written, g)
      BY <1>6, <2>2
    <3>2. Len(written') = w + 1 /\ \A k \in 1..w : written'[k] = written[k]
      BY <1>3, <1>4, <3>1, AppendProperties DEF Typed
    <3>3. Len(delivered) <= w /\ \A k \in 1..Len(delivered) : delivered[k] = written[k] /\ k \in 1..w
      BY <1>3, <2>1 DEF InOrder
    <3> HIDE DEF w
    <3> QED
      BY <1>2, <2>1, <3>2, <3>3 DEF InOrder
  <2>3. CASE n # l
    BY <1>2, <1>3, <1>6, <2>3 DEF InOrder
  <2> QED
    BY <2>2, <2>3
<1>16. Flow'
  <2>1. PICK off, f, p :
          /\ Lie(q, written, Len(delivered), w, off, f, p)
          /\ alive => IF holder = {} THEN p = 0
                      ELSE \A u \in holder : f = Current(u) /\ p = Taken(u)
    BY <1>2, <1>3 DEF Flow
  <2>2. p = Taken(t) /\ (p # 0 => f = g)
    <3>1. CASE holder = {}
      <4>1. ~(l < m)
        BY <1>2, <1>3, <3>1 DEF Writers, g
      <4>2. p = 0
        BY <1>2, <2>1, <3>1
      <4> HIDE DEF l, m
      <4> QED
        BY <1>4, <4>1, <4>2
    <3>2. CASE holder # {}
      <4>1. t \in holder
        BY <1>2, <3>2
      <4> QED
        BY <1>2, <2>1, <4>1 DEF g
    <3> QED
      BY <3>1, <3>2
  <2>3. /\ Len(delivered) \in Nat /\ w \in Nat /\ Len(delivered) <= w
        /\ written \in Seq(Frames) /\ Len(q) \in Nat /\ n \in Nat
    <3>1. q \in Seq(FByte)
      BY <1>3, ConcatProperties DEF Typed
    <3> QED
      BY <1>3, <1>4, <3>1, LenProperties DEF Typed, InOrder
  <2>4. off[w] \in Nat
    BY <2>1, <2>3 DEF Lie, Offsets
  <2>5. buf' \o pipe' = r /\ Len(delivered') = Len(delivered) /\ alive' = alive
    BY <1>2, <1>6
  <2> DEFINE d == Len(delivered)
  <2> HIDE DEF d, w, q, r, l, m
  <2>6. CASE n # l
    <3>1. p + n < FrameLen(g)
      BY <1>4, <2>2, <2>6 DEF m
    <3>2. Lie(r, written, d, w, off, g, p + n)
      BY <1>4, <2>1, <2>2, <2>3, <2>4, <3>1, LieMore DEF d, w
    <3>3. written' = written /\ holder' = {t}
      BY <1>6, <1>11, <2>6
    <3> QED
      BY <1>8, <1>9, <2>2, <2>5, <3>2, <3>3 DEF Flow, d, w
  <2>7. CASE n = l
    <3>1. p + n = FrameLen(g)
      BY <1>4, <2>2, <2>7 DEF m
    <3>2. PICK more : Lie(r, Append(written, g), d, w + 1, more, g, 0)
      BY <1>4, <2>1, <2>2, <2>3, <2>4, <3>1, LieWhole DEF d, w
    <3>3. written' = Append(written, g) /\ holder' = {} /\ Len(written') = w + 1
      BY <1>4, <1>6, <1>11, <2>3, <2>7, AppendProperties DEF w
    <3> QED
      BY <2>5, <3>2, <3>3 DEF Flow, d
  <2> QED
    BY <2>6, <2>7
<1> QED
  BY <1>12, <1>13, <1>6a, <1>15, <1>16 DEF PipeInv

LEMMA WriteFailsKept ==
  ASSUME PipeInv, NEW t \in Threads, WriteFails(t)
  PROVE  PipeInv'
<1>1. /\ reader = "closed" /\ reader' = reader /\ buf' = buf /\ pipe' = pipe /\ calls' = calls
      /\ writing' = [writing EXCEPT ![t] = <<>>] /\ holder' = holder \ {t}
      /\ connected' = FALSE /\ alive' = alive /\ shutdown' = shutdown /\ rxOpen' = rxOpen
      /\ written' = written /\ delivered' = delivered
  BY DEF WriteFails, readerVars, guiVars
<1>2. <<>> \in Seq(FByte)
  BY EmptySeq
<1>3. Typed'
  BY <1>1, <1>2 DEF PipeInv, Typed
<1>4. writing'[t] = <<>> /\ \A u \in Threads : u # t => writing'[u] = writing[u]
  BY <1>1 DEF PipeInv, Typed
<1>5. Writers'
  <2> SUFFICES ASSUME NEW u \in Threads
               PROVE  /\ writing'[u] # <<>> =>
                           /\ calls'[u] # 0 /\ Len(writing'[u]) <= FrameLen(Current(u)')
                           /\ \A i \in 1..Len(writing'[u]) :
                                writing'[u][i] = <<Current(u)', Taken(u)' + i>>
                      /\ u \in holder' <=>
                           writing'[u] # <<>> /\ Len(writing'[u]) < FrameLen(Current(u)')
    BY DEF Writers
  <2>1. CASE u = t
    BY <1>1, <1>4, <2>1
  <2>2. CASE u # t
    BY <1>1, <1>4, <2>2 DEF PipeInv, Writers, Current, Taken
  <2> QED
    BY <2>1, <2>2
<1>6. AtReader' /\ InOrder' /\ Flow'
  BY <1>1 DEF PipeInv, AtReader, InOrder, Flow
<1> QED
  BY <1>3, <1>5, <1>6 DEF PipeInv

LEMMA GameExitKept ==
  ASSUME PipeInv, GameExit
  PROVE  PipeInv'
<1>1. /\ reader' = reader /\ buf' = buf /\ pipe' = pipe /\ calls' = calls
      /\ writing' = [t \in Threads |-> <<>>] /\ holder' = {}
      /\ connected' = FALSE /\ alive' = FALSE /\ shutdown' = shutdown /\ rxOpen' = rxOpen
      /\ written' = written /\ delivered' = delivered
  BY DEF GameExit, readerVars, guiVars
<1>2. <<>> \in Seq(FByte)
  BY EmptySeq
<1>3. Typed'
  <2>1. writing' \in [Threads -> Seq(FByte)]
    BY <1>1, <1>2
  <2>2. \A t, u \in holder' : t = u
    BY <1>1
  <2> QED
    BY <1>1, <2>1, <2>2 DEF PipeInv, Typed
<1>4. Writers' /\ AtReader' /\ InOrder'
  BY <1>1 DEF PipeInv, Writers, AtReader, InOrder
<1>5. buf' \o pipe' = buf \o pipe /\ Flow /\ ~alive'
  BY <1>1 DEF PipeInv
<1>6. Flow'
  BY <1>1, <1>5, FlowKept
<1> QED
  BY <1>3, <1>4, <1>6 DEF PipeInv

LEMMA TestShutdownKept ==
  ASSUME PipeInv, TestShutdown
  PROVE  PipeInv'
<1>1. UNCHANGED <<gameVars, delivered, guiVars>> /\ reader = "top"
  BY DEF TestShutdown
<1>2. CASE Close
  BY <1>1, <1>2, CloseKept
<1>3. CASE reader' = "header" /\ UNCHANGED <<buf, pipe>>
  <2>1. Typed' /\ Writers' /\ InOrder'
    BY <1>1, <1>3 DEF PipeInv, Typed, Writers, InOrder, Current, Taken, gameVars, guiVars
  <2>2. AtReader'
    <3>1. buf = <<>> /\ Len(<<>>) = 0
      BY <1>1, EmptySeq DEF PipeInv, AtReader
    <3> QED
      BY <1>3, <3>1 DEF AtReader
  <2>3. buf' \o pipe' = buf \o pipe /\ Flow /\ reader # "closed"
    BY <1>1, <1>3 DEF PipeInv
  <2>4. alive' => /\ alive /\ holder' = holder
                  /\ \A t \in holder : Current(t)' = Current(t) /\ Taken(t)' = Taken(t)
    BY <1>1 DEF gameVars, Current, Taken
  <2>5. Flow'
    BY <1>1, <2>3, <2>4, FlowKept DEF gameVars
  <2> QED
    BY <2>1, <2>2, <2>5 DEF PipeInv
<1> QED
  BY <1>2, <1>3 DEF TestShutdown

LEMMA ReadSomeKept ==
  ASSUME PipeInv, NEW n \in 1..PipeCap, ReadSome(n)
  PROVE  PipeInv'
<1> DEFINE x == SubSeq(pipe, 1, n)
           y == SubSeq(pipe, n + 1, Len(pipe))
<1>1. /\ reader \in {"header", "body"} /\ Len(buf) < Wanted
      /\ n <= Len(pipe) /\ Len(buf) + n <= Wanted
      /\ buf' = buf \o x /\ pipe' = y
      /\ UNCHANGED <<gameVars, reader, delivered, guiVars>>
  BY DEF ReadSome
<1>2. buf \in Seq(FByte) /\ pipe \in Seq(FByte) /\ Len(pipe) <= PipeCap /\ PipeCap \in Nat
  BY FrameAssumption DEF PipeInv, Typed
<1>3. Len(buf) \in Nat /\ Len(pipe) \in Nat /\ n \in 0..Len(pipe) /\ n \in Nat
  BY <1>1, <1>2, LenProperties
<1>4. /\ x \in Seq(FByte) /\ Len(x) = n
      /\ y \in Seq(FByte) /\ Len(y) = Len(pipe) - n
  BY <1>2, <1>3, CutInTwo
<1>5. (buf \o x) \o y = buf \o pipe
  BY <1>2, <1>3, ReadMoves
<1> HIDE DEF x, y
<1>6. /\ buf \o x \in Seq(FByte) /\ Len(buf \o x) = Len(buf) + n
      /\ \A i \in 1..(Len(buf) + n) : (buf \o x)[i] = IF i <= Len(buf) THEN buf[i] ELSE x[i - Len(buf)]
  BY <1>2, <1>4, ConcatProperties
<1>7. Typed'
  <2>1. Len(pipe') <= PipeCap
    BY <1>1, <1>2, <1>3, <1>4
  <2> QED
    BY <1>1, <1>4, <1>6, <2>1 DEF PipeInv, Typed, gameVars, guiVars
<1>8. Writers' /\ InOrder'
  BY <1>1 DEF PipeInv, Writers, InOrder, Current, Taken, gameVars
<1>9. AtReader'
  <2>1. CASE reader = "header"
    BY <1>1, <1>6, <2>1 DEF AtReader, Wanted
  <2>2. CASE reader = "body"
    <3>1. 4 <= Len(buf)
      BY <2>2 DEF PipeInv, AtReader
    <3>2. (buf \o x)[1] = buf[1]
      BY <1>3, <1>6, <3>1
    <3>3. Wanted = FrameLen(buf[1][1])
      BY <2>2 DEF Wanted, FrameLen
    <3>4. 4 <= Len(buf) + n
      BY <1>3, <3>1
    <3> QED
      BY <1>1, <1>6, <2>2, <3>2, <3>3, <3>4 DEF AtReader
  <2> QED
    BY <1>1, <2>1, <2>2
<1>10. Flow'
  <2>1. buf' \o pipe' = buf \o pipe /\ Flow /\ reader # "closed"
    BY <1>1, <1>5 DEF PipeInv
  <2>2. alive' => /\ alive /\ holder' = holder
                  /\ \A t \in holder : Current(t)' = Current(t) /\ Taken(t)' = Taken(t)
    BY <1>1 DEF gameVars, Current, Taken
  <2> QED
    BY <1>1, <2>1, <2>2, FlowKept DEF gameVars
<1> QED
  BY <1>7, <1>8, <1>9, <1>10 DEF PipeInv

\* The first bytes of a frame are the frame, as far as they go.
LEMMA BytesOfFrame ==
  ASSUME NEW s \in Seq(FByte), NEW g \in Frames, Len(s) <= FrameLen(g),
         \A j \in 1..Len(s) : s[j] = <<g, j>>
  PROVE  s = SubSeq(FrameBytes(g), 1, Len(s))
<1>1. Len(s) \in Nat /\ FrameLen(g) \in Nat
  BY LenProperties, FrameLenType
<1>2. /\ FrameBytes(g) \in Seq(FByte) /\ Len(FrameBytes(g)) = FrameLen(g)
      /\ \A i \in 1..FrameLen(g) : FrameBytes(g)[i] = <<g, i>>
  BY FrameBytesType
<1> DEFINE l == Len(s)
           x == SubSeq(FrameBytes(g), 1, l)
<1>3. l \in 0..Len(FrameBytes(g))
  BY <1>1, <1>2
<1>4. x \in Seq(FByte) /\ Len(x) = l /\ \A i \in 1..l : x[i] = FrameBytes(g)[i]
  BY <1>2, <1>3, CutInTwo
<1>5. \A i \in 1..l : x[i] = s[i]
  BY <1>1, <1>2, <1>4
<1> HIDE DEF x
<1> QED
  BY <1>4, <1>5, SeqEqual DEF x

\* A header that was read is that of a frame.
LEMMA HeaderRead ==
  ASSUME PipeInv, reader = "header", Len(buf) = 4
  PROVE  \E g \in Frames : g \in HeaderOf(buf) /\ buf[1] = <<g, 1>>
<1>1. buf \in Seq(FByte)
  BY DEF PipeInv, Typed
<1>2. buf # <<>>
  BY EmptySeq
<1>3. PICK g \in Frames : \A j \in 1..Len(buf) : j <= FrameLen(g) => buf[j] = <<g, j>>
  BY <1>2, BufOfFrame
<1>4. 4 <= FrameLen(g) /\ \A j \in 1..Len(buf) : buf[j] = <<g, j>>
  BY <1>3, FrameLenType
<1>5. buf = SubSeq(FrameBytes(g), 1, 4)
  BY <1>1, <1>4, BytesOfFrame
<1> QED
  BY <1>4, <1>5 DEF HeaderOf

LEMMA HaveHeaderKept ==
  ASSUME PipeInv, HaveHeader
  PROVE  PipeInv'
<1>1. UNCHANGED <<gameVars, delivered, guiVars>> /\ reader = "header" /\ Len(buf) = 4
  BY DEF HaveHeader
<1>2. CASE Close
  BY <1>1, <1>2, CloseKept
<1>3. CASE reader' = "body" /\ UNCHANGED <<buf, pipe>>
  <2>1. Typed' /\ Writers' /\ InOrder'
    BY <1>1, <1>3 DEF PipeInv, Typed, Writers, InOrder, Current, Taken, gameVars, guiVars
  <2>2. AtReader'
    <3>1. PICK g \in Frames : buf[1] = <<g, 1>>
      BY <1>1, HeaderRead
    <3>2. buf[1][1] = g /\ FrameLen(g) \in Nat /\ FrameLen(g) >= 13
      BY <3>1, FrameLenType
    <3>3. 4 <= Len(buf) /\ Len(buf) <= FrameLen(buf[1][1])
      BY <1>1, <3>2
    <3>4. reader' = "body" /\ buf' = buf
      BY <1>3
    <3> QED
      BY <3>3, <3>4 DEF AtReader
  <2>3. buf' \o pipe' = buf \o pipe /\ Flow /\ reader # "closed"
    BY <1>1, <1>3 DEF PipeInv
  <2>4. alive' => /\ alive /\ holder' = holder
                  /\ \A t \in holder : Current(t)' = Current(t) /\ Taken(t)' = Taken(t)
    BY <1>1 DEF gameVars, Current, Taken
  <2>5. Flow'
    BY <1>1, <2>3, <2>4, FlowKept DEF gameVars
  <2> QED
    BY <2>1, <2>2, <2>5 DEF PipeInv
<1> QED
  BY <1>2, <1>3 DEF HaveHeader

\* A frame that was read is the next of those written, and stands at the head of the bytes.
LEMMA FrameRead ==
  ASSUME PipeInv, reader = "body", Len(buf) = Wanted
  PROVE  LET d == Len(delivered)
             g == written[d + 1]
         IN /\ d < Len(written) /\ g \in Frames /\ Len(buf) = FrameLen(g)
            /\ FrameOf(buf[1][1], SubSeq(buf, 5, Len(buf))) = g
<1> DEFINE d == Len(delivered)
<1>1. buf \in Seq(FByte) /\ Len(buf) \in Nat /\ 4 <= Len(buf)
  BY LenProperties DEF PipeInv, Typed, AtReader
<1>2. buf # <<>>
  BY <1>1, EmptySeq
<1>3. PICK g \in Frames :
        /\ \A j \in 1..Len(buf) : j <= FrameLen(g) => buf[j] = <<g, j>>
        /\ FrameLen(g) <= Len(buf) => d < Len(written) /\ g = written[d + 1]
  BY <1>2, BufOfFrame
<1>4. FrameLen(g) \in Nat /\ FrameLen(g) >= 13
  BY FrameLenType
<1>5. buf[1] = <<g, 1>>
  BY <1>1, <1>3, <1>4
<1>6. Len(buf) = FrameLen(g) /\ buf[1][1] = g
  BY <1>5 DEF Wanted, FrameLen
<1>7. d < Len(written) /\ g = written[d + 1]
  BY <1>3, <1>4, <1>6
<1>8. buf = FrameBytes(g)
  <2>1. buf = SubSeq(FrameBytes(g), 1, Len(buf))
    BY <1>1, <1>3, <1>4, <1>6, BytesOfFrame, SMTT(30)
  <2>2. FrameBytes(g) \in Seq(FByte) /\ Len(FrameBytes(g)) = Len(buf)
    BY <1>6, FrameBytesType
  <2> QED
    BY <2>1, <2>2, SubSeqFull
<1>9. FrameOf(g, SubSeq(buf, 5, Len(buf))) = g
  BY <1>6, <1>8 DEF FrameOf, FrameLen
<1> QED
  BY <1>6, <1>7, <1>9

LEMMA HaveFrameKept ==
  ASSUME PipeInv, HaveFrame
  PROVE  PipeInv'
<1> DEFINE d == Len(delivered)
           w == Len(written)
           g == written[d + 1]
           q == buf \o pipe
<1>1. /\ UNCHANGED <<gameVars, guiVars>> /\ reader = "body" /\ Len(buf) = Wanted
      /\ Typed /\ Writers /\ AtReader /\ InOrder /\ Flow
  BY DEF PipeInv, HaveFrame
<1>2. CASE Close /\ UNCHANGED delivered
  BY <1>1, <1>2, CloseKept
<1>3. CASE /\ delivered' = Append(delivered, FrameOf(buf[1][1], SubSeq(buf, 5, Len(buf))))
           /\ reader' = "top" /\ buf' = <<>> /\ UNCHANGED pipe
  <2>1. d < w /\ g \in Frames /\ Len(buf) = FrameLen(g) /\ delivered' = Append(delivered, g)
    BY <1>1, <1>3, FrameRead
  <2>2. d \in Nat /\ w \in Nat /\ Len(buf) \in Nat /\ Len(pipe) \in Nat
    BY <1>1, LenProperties DEF Typed
  <2>3. /\ delivered' \in Seq(Frames) /\ Len(delivered') = d + 1
        /\ \A k \in 1..d : delivered'[k] = delivered[k]
        /\ delivered'[d + 1] = g
    BY <1>1, <2>1, AppendProperties DEF Typed
  <2>4. Typed'
    <3>1. <<>> \in Seq(FByte)
      BY EmptySeq
    <3> QED
      BY <1>1, <1>3, <2>3, <3>1 DEF Typed, gameVars, guiVars
  <2>5. Writers'
    BY <1>1 DEF Writers, Current, Taken, gameVars
  <2>6. AtReader'
    BY <1>3 DEF AtReader
  <2>7. InOrder'
    <3>1. d <= w /\ \A k \in 1..d : delivered[k] = written[k]
      BY <1>1 DEF InOrder
    <3>2. written' = written
      BY <1>1 DEF gameVars
    <3>3. ASSUME NEW k \in 1..(d + 1) PROVE delivered'[k] = written[k]
      <4>1. k \in 1..d \/ k = d + 1
        BY <2>2
      <4> QED
        BY <2>3, <3>1, <4>1
    <3>4. d + 1 <= w
      BY <2>1, <2>2
    <3> QED
      BY <2>3, <3>2, <3>3, <3>4 DEF InOrder
  <2>8. Flow'
    <3>1. PICK off, f, p :
            /\ Lie(q, written, d, w, off, f, p)
            /\ alive => IF holder = {} THEN p = 0
                        ELSE \A t \in holder : f = Current(t) /\ p = Taken(t)
      BY <1>1 DEF Flow
    <3>2. /\ q \in Seq(FByte) /\ Len(q) = Len(buf) + Len(pipe)
          /\ \A i \in 1..(Len(buf) + Len(pipe)) :
               q[i] = IF i <= Len(buf) THEN buf[i] ELSE pipe[i - Len(buf)]
      BY <1>1, ConcatProperties, ZenonT(60) DEF Typed
    <3>3. Drops(pipe, q, Len(buf))
      <4> HIDE DEF q
      <4>1. Len(pipe) = Len(q) - Len(buf)
        BY <2>2, <3>2
      <4>2. ASSUME NEW i \in 1..Len(pipe) PROVE pipe[i] = q[Len(buf) + i]
        <5>1. /\ Len(buf) + i \in 1..(Len(buf) + Len(pipe)) /\ ~(Len(buf) + i <= Len(buf))
              /\ (Len(buf) + i) - Len(buf) = i
          BY <2>2
        <5> QED
          BY <3>2, <5>1
      <4> QED
        BY <4>1, <4>2 DEF Drops
    <3>4. written \in Seq(Frames) /\ w <= Len(written) /\ Len(q) \in Nat
      BY <1>1, <2>2, <3>2 DEF Typed
    <3>5. \E less : Lie(pipe, written, d + 1, w, less, f, p)
      <4> DEFINE n == Len(buf)
      <4>1. n \in Nat /\ n = FrameLen(written[d + 1]) /\ Drops(pipe, q, n)
        BY <2>1, <2>2, <3>3
      <4> HIDE DEF n, w, q, d
      <4> QED
        BY <2>1, <2>2, <3>1, <3>4, <4>1, LieDrop
    <3>6. buf' \o pipe' = pipe
      BY <1>1, <1>3, ConcatEmptySeq DEF Typed
    <3>7. \A t : Current(t)' = Current(t) /\ Taken(t)' = Taken(t)
      BY <1>1 DEF gameVars, Current, Taken
    <3>8. written' = written /\ alive' = alive /\ holder' = holder
      BY <1>1 DEF gameVars
    <3> QED
      BY <2>3, <3>1, <3>5, <3>6, <3>7, <3>8 DEF Flow
  <2> QED
    BY <2>4, <2>5, <2>6, <2>7, <2>8 DEF PipeInv
<1> QED
  BY <1>2, <1>3 DEF HaveFrame

LEMMA StopHookKept ==
  ASSUME PipeInv, StopHook
  PROVE  PipeInv'
<1>1. UNCHANGED <<gameVars, pipe, readerVars>> /\ shutdown' = TRUE /\ rxOpen' = FALSE
  BY DEF StopHook
<1>2. Typed'
  BY <1>1 DEF PipeInv, Typed, gameVars, readerVars
<1>3. Writers' /\ AtReader' /\ InOrder'
  BY <1>1 DEF PipeInv, Writers, AtReader, InOrder, Current, Taken, gameVars, readerVars
<1>4. Flow'
  <2>1. buf' \o pipe' = buf \o pipe /\ Flow /\ reader' = reader /\ delivered' = delivered
    BY <1>1 DEF PipeInv, readerVars
  <2>2. alive' => /\ alive /\ holder' = holder
                  /\ \A t \in holder : Current(t)' = Current(t) /\ Taken(t)' = Taken(t)
    BY <1>1 DEF gameVars, Current, Taken
  <2> QED
    BY <1>1, <2>1, <2>2, FlowKept DEF gameVars
<1> QED
  BY <1>2, <1>3, <1>4 DEF PipeInv

LEMMA UnchangedKept ==
  ASSUME PipeInv, UNCHANGED vars
  PROVE  PipeInv'
<1>1. UNCHANGED <<gameVars, pipe, readerVars, shutdown, rxOpen>>
  BY DEF vars, guiVars
<1>2. Typed' /\ Writers' /\ AtReader' /\ InOrder'
  BY <1>1 DEF PipeInv, Typed, Writers, AtReader, InOrder, Current, Taken, gameVars, readerVars
<1>3. buf' \o pipe' = buf \o pipe /\ Flow /\ reader' = reader /\ delivered' = delivered
  BY <1>1 DEF PipeInv, readerVars
<1>4. alive' => /\ alive /\ holder' = holder
                /\ \A t \in holder : Current(t)' = Current(t) /\ Taken(t)' = Taken(t)
  BY <1>1 DEF gameVars, Current, Taken
<1>5. Flow'
  BY <1>1, <1>3, <1>4, FlowKept DEF gameVars
<1> QED
  BY <1>2, <1>5 DEF PipeInv

LEMMA NextPipe == PipeInv /\ [Next]_vars => PipeInv'
<1> SUFFICES ASSUME PipeInv, [Next]_vars PROVE PipeInv'
  OBVIOUS
<1>1. ASSUME NEW t \in Threads, WriteCapture(t) PROVE PipeInv'
  BY <1>1, WriteCaptureKept
<1>2. ASSUME NEW t \in Threads, WriteFile(t) PROVE PipeInv'
  BY <1>2, WriteFileKept
<1>3. ASSUME NEW t \in Threads, WriteFails(t) PROVE PipeInv'
  BY <1>3, WriteFailsKept
<1>4. CASE GameExit
  BY <1>4, GameExitKept
<1>5. CASE TestShutdown
  BY <1>5, TestShutdownKept
<1>6. ASSUME NEW n \in 1..PipeCap, ReadSome(n) PROVE PipeInv'
  BY <1>6, ReadSomeKept
<1>7. CASE ReadFails
  BY <1>7, CloseKept DEF ReadFails
<1>8. CASE HaveHeader
  BY <1>8, HaveHeaderKept
<1>9. CASE HaveFrame
  BY <1>9, HaveFrameKept
<1>10. CASE StopHook
  BY <1>10, StopHookKept
<1>11. CASE UNCHANGED vars
  BY <1>11, UnchangedKept
<1> QED
  BY <1>1, <1>2, <1>3, <1>4, <1>5, <1>6, <1>7, <1>8, <1>9, <1>10, <1>11 DEF Next, Read

\* A step of the pipe and the hooks is one of the pipe, or leaves it as it is.
LEMMA PathStep == [HookStep \/ PipeStep]_<<vars, hookVars>> => [Next]_vars
BY DEF HookStep, PipeStep

\* In every state reachable: the bytes that are read or to be read are whole frames, in the
\* order in which they were written, and after them a part of the one frame that is being
\* written (write_capture, pipe.rs:89).
THEOREM PipeInvariance == PathSpec => []PipeInv
<1>1. PathInit => PipeInv
  BY InitPipe DEF PathInit
<1>2. PipeInv /\ [HookStep \/ PipeStep]_<<vars, hookVars>> => PipeInv'
  BY NextPipe, PathStep
<1> QED
  BY <1>1, <1>2, PTL DEF PathSpec

-----------------------------------------------------------------------------
(***************************************************************************)
(* The queue of frames.                                                    *)
(***************************************************************************)

\* A step of the bytes is a step of the queue of frames, or none.
LEMMA QueueStep == PipeInv /\ [Next]_vars => [Queue!Put \/ Queue!Deliver]_<<written, delivered>>
<1> SUFFICES ASSUME PipeInv, [Next]_vars, ~UNCHANGED <<written, delivered>>
             PROVE  Queue!Put \/ Queue!Deliver
  OBVIOUS
<1>1. ASSUME NEW t \in Threads, WriteFile(t) PROVE Queue!Put
  <2>1. delivered' = delivered /\ writing[t] # <<>> /\ Typed /\ Writers
    BY <1>1 DEF WriteFile, readerVars, PipeInv
  <2>2. written' = Append(written, Current(t))
    BY <1>1, <2>1 DEF WriteFile, Transfer, Current
  <2>3. Current(t) \in Frames
    BY <2>1, CurrentFrame DEF Writers
  <2> QED
    BY <2>1, <2>2, <2>3 DEF Queue!Put
<1>2. CASE HaveFrame
  <2>1. reader = "body" /\ Len(buf) = Wanted /\ written' = written
    BY <1>2 DEF HaveFrame, gameVars
  <2>2. delivered' = Append(delivered, FrameOf(buf[1][1], SubSeq(buf, 5, Len(buf))))
    BY <1>2, <2>1 DEF HaveFrame
  <2> QED
    BY <2>1, <2>2, FrameRead DEF Queue!Deliver
<1>3. ASSUME NEW t \in Threads, WriteCapture(t) \/ WriteFails(t) PROVE FALSE
  BY <1>3 DEF WriteCapture, WriteFails, readerVars
<1>4. CASE GameExit \/ StopHook
  BY <1>4 DEF GameExit, StopHook, readerVars, gameVars
<1>5. CASE TestShutdown \/ ReadFails \/ HaveHeader
  BY <1>5 DEF TestShutdown, ReadFails, HaveHeader, gameVars
<1>6. ASSUME NEW n \in 1..PipeCap, ReadSome(n) PROVE FALSE
  BY <1>6 DEF ReadSome, gameVars
<1>7. CASE UNCHANGED vars
  BY <1>7 DEF vars, gameVars, readerVars
<1> QED
  BY <1>1, <1>2, <1>3, <1>4, <1>5, <1>6, <1>7 DEF Next, Read

\* "Pipe Protocol" (README.md): however the pipe cuts the bytes and whichever end goes
\* away, read_from_pipe (pipe_reader.rs:136) gets whole frames, in the order in which
\* write_capture wrote them and none twice.
THEOREM FramesWhole == PathSpec => QueueSpec
<1>1. PathInit => Queue!Init
  BY DEF PathInit, Init, Queue!Init
<1>2. PipeInv /\ [HookStep \/ PipeStep]_<<vars, hookVars>>
      => [Queue!Put \/ Queue!Deliver]_<<written, delivered>>
  BY QueueStep, PathStep
<1> QED
  BY <1>1, <1>2, PipeInvariance, PTL DEF PathSpec, QueueSpec, Queue!Spec

\* A close is for one of three causes.
LEMMA CloseStep ==
  ASSUME PipeInv, [Next]_vars, reader # "closed", reader' = "closed"
  PROVE  \/ shutdown \/ ~alive
         \/ \E f \in HeaderOf(buf) : TotalLen(f) > MaxTotal
<1>1. CASE TestShutdown
  BY <1>1 DEF TestShutdown
<1>2. CASE ReadFails
  BY <1>2 DEF ReadFails
<1>3. CASE HaveHeader
  <2>1. reader = "header" /\ Len(buf) = 4 /\ ~\E f \in HeaderOf(buf) : TotalLen(f) <= MaxTotal
    BY <1>3 DEF HaveHeader
  <2>2. PICK g \in Frames : g \in HeaderOf(buf)
    BY <2>1, HeaderRead
  <2>3. TotalLen(g) \in Nat /\ MaxTotal \in Nat
    BY FrameLenType, FrameAssumption
  <2>4. TotalLen(g) > MaxTotal
    BY <2>1, <2>2, <2>3
  <2> QED
    BY <2>2, <2>4
<1>4. CASE HaveFrame
  <2>1. ~rxOpen
    BY <1>4 DEF HaveFrame
  <2> QED
    BY <2>1 DEF PipeInv, Typed
<1>5. ASSUME NEW t \in Threads, WriteCapture(t) \/ WriteFile(t) \/ WriteFails(t) PROVE FALSE
  BY <1>5 DEF WriteCapture, WriteFile, WriteFails, readerVars
<1>6. CASE GameExit \/ StopHook
  BY <1>6 DEF GameExit, StopHook, readerVars
<1>7. ASSUME NEW n \in 1..PipeCap, ReadSome(n) PROVE FALSE
  BY <1>7 DEF ReadSome
<1>8. CASE UNCHANGED vars
  BY <1>8 DEF vars, readerVars
<1> QED
  BY <1>1, <1>2, <1>3, <1>4, <1>5, <1>6, <1>7, <1>8 DEF Next, Read

\* read_from_pipe (pipe_reader.rs:136) ends the connection of a game that runs only at Stop
\* Hook or for a total_len above the limit, never for the way the bytes were cut.
THEOREM ClosedOnlyForCause == PathSpec => ClosedForCause
<1>1. PipeInv /\ [HookStep \/ PipeStep]_<<vars, hookVars>>
      => [reader # "closed" /\ reader' = "closed" =>
            \/ shutdown \/ ~alive
            \/ \E f \in HeaderOf(buf) : TotalLen(f) > MaxTotal]_vars
  BY CloseStep, PathStep
<1> QED
  BY <1>1, PipeInvariance, PTL DEF PathSpec, ClosedForCause

-----------------------------------------------------------------------------
(***************************************************************************)
(* The hooks.  A thread that is in a hook has captured the bytes of its    *)
(* call before FirstByte, and will capture those up to LastByte.  What is  *)
(* captured under the ports of a connection is its stream but for these.   *)
(***************************************************************************)

\* Thread t is in a hook called for connection c.
On(t, w, c) == hook[t].pc # "idle" /\ hook[t].way = w /\ hook[t].conn = c

\* The bytes that it has still to capture.
FirstByte(t) == hook[t].from + Hooks!Begin(hook[t].ends, hook[t].at)
LastByte(t) == hook[t].from + Hooks!Total(hook[t].ends) - 1

\* Where buffers may end.
Buffering == {e \in Seq(Nat) : /\ e # <<>>
                           /\ \A i, j \in 1..Len(e) : i <= j => e[i] <= e[j]}

InHook == [pc : {"local", "remote", "capture"}, way : Hooks!Ways, sock : Sockets,
           conn : Hooks!Conns, local : 0..MaxConns, remote : 0..MaxConns,
           from : Nat \ {0}, ends : Buffering, at : Nat \ {0}]

HookTyped ==
  /\ game \in Games
  /\ conns \in 0..MaxConns /\ conn \in [Sockets -> 0..conns]
  /\ next \in [Threads -> Nat \ {0}]
  /\ stream \in [Hooks!Ways -> [Hooks!Conns -> Seq(Hooks!Byte)]]
  /\ captured \in [Hooks!Ways -> [Hooks!Conns \X (0..MaxConns) -> Seq(Hooks!Byte)]]
  /\ hook \in [Threads -> {Hooks!Idle} \cup InHook]
  /\ \A t \in Threads : hook[t].pc # "idle" =>
       /\ hook[t].at <= Len(hook[t].ends)
       /\ hook[t].pc # "capture" => hook[t].at = 1
       /\ hook[t].pc # "local" => hook[t].local # 0

\* Sockets have connections of their own; a hook finds the one it was called for, unless
\* sockets are closed under it; and it is the only one there, unless they are shared.
Places ==
  /\ \A s, u \in Sockets : conn[s] # 0 /\ conn[s] = conn[u] => s = u
  /\ "closing" \notin game => \A t \in Threads : hook[t].pc # "idle" =>
       /\ conn[hook[t].sock] = hook[t].conn
       /\ hook[t].pc # "local" => hook[t].local = hook[t].conn
       /\ hook[t].pc = "capture" => hook[t].remote = hook[t].conn
  /\ "shared" \notin game => \A t, u \in Threads :
       hook[t].pc # "idle" /\ hook[u].pc # "idle" /\ hook[t].way = hook[u].way
         /\ hook[t].sock = hook[u].sock => t = u

\* Bytes are numbered upwards: those sent by the thread, those received by their place.
Numbered ==
  /\ \A c \in Hooks!Conns, t \in Threads : \A k \in DOMAIN stream["out"][c] :
       stream["out"][c][k][1] = t => stream["out"][c][k][2] < next[t]
  /\ \A c \in Hooks!Conns : \A k \in DOMAIN stream["in"][c] : stream["in"][c][k][2] = k
  /\ \A w \in Hooks!Ways, c \in Hooks!Conns, t \in Threads :
       Hooks!OnceInOrder(t, stream[w][c])

Got(w, c) == captured[w][<<c, c>>]

\* A game without habits.
Exact == game = {} =>
  \A w \in Hooks!Ways, c \in Hooks!Conns :
    /\ \A t \in Threads : On(t, w, c) =>
         stream[w][c] = Got(w, c) \o Hooks!Bytes(t, FirstByte(t), LastByte(t))
    /\ Hooks!AtRest(w, c) => stream[w][c] = Got(w, c)

\* A game that shares sockets and leaves calls pending.
ByThread == game \subseteq {"shared", "pending"} =>
  \A w \in Hooks!Ways, c \in Hooks!Conns, t \in Threads :
    /\ Hooks!OnceInOrder(t, Got(w, c))
    /\ On(t, w, c) =>
         /\ Hooks!Numbers(t, stream[w][c]) = Hooks!Numbers(t, Got(w, c)) \cup FirstByte(t)..LastByte(t)
         /\ \A i \in Hooks!Numbers(t, Got(w, c)) : i < FirstByte(t)
    /\ ~On(t, w, c) => Hooks!Numbers(t, stream[w][c]) = Hooks!Numbers(t, Got(w, c))

\* A game that shares sockets and whose calls take a part of what they are given.
NoneMissed == game \subseteq {"shared", "partial"} =>
  \A w \in Hooks!Ways, c \in Hooks!Conns : \A b \in ToSet(stream[w][c]) :
    \/ b \in ToSet(Got(w, c))
    \/ \E t \in Threads : On(t, w, c) /\ b \in ToSet(Hooks!Bytes(t, FirstByte(t), LastByte(t)))

HookInv == HookTyped /\ Places /\ Numbered /\ Exact /\ ByThread /\ NoneMissed

-----------------------------------------------------------------------------
(***************************************************************************)
(* Bytes, their numbers, and where buffers begin and end.                  *)
(***************************************************************************)

LEMMA BytesType ==
  ASSUME NEW t \in Threads, NEW i \in Nat \ {0}, NEW j \in Int, i <= j + 1, NEW b \in BOOLEAN
  PROVE  /\ Hooks!BytesOf(t, i, j, b) \in Seq(Hooks!Byte)
         /\ Len(Hooks!BytesOf(t, i, j, b)) = j - i + 1
         /\ \A k \in 1..(j - i + 1) : Hooks!BytesOf(t, i, j, b)[k] = <<t, i + k - 1, b>>
<1> DEFINE n == j - i + 1
<1>1. n \in Nat
  OBVIOUS
<1>2. ASSUME NEW k \in 1..n PROVE <<t, i + k - 1, b>> \in Hooks!Byte
  <2>1. i + k - 1 \in Nat \ {0}
    OBVIOUS
  <2> QED
    BY <2>1 DEF Hooks!Byte
<1>3. Hooks!BytesOf(t, i, j, b) = [k \in 1..n |-> <<t, i + k - 1, b>>]
  BY DEF Hooks!BytesOf
<1> HIDE DEF n
<1> DEFINE x == [k \in 1..n |-> <<t, i + k - 1, b>>]
<1>4. x \in Seq(Hooks!Byte)
  BY <1>1, <1>2, IsASeq
<1>5. DOMAIN x = 1..n /\ \A k \in 1..n : x[k] = <<t, i + k - 1, b>>
  OBVIOUS
<1> HIDE DEF x
<1>6. Len(x) = n
  BY <1>1, <1>4, <1>5, LenProperties
<1>7. Hooks!BytesOf(t, i, j, b) = x
  BY <1>3 DEF x
<1> QED
  BY <1>4, <1>5, <1>6, <1>7 DEF n

\* The bytes of a sequence.
LEMMA ByteOfSeq ==
  ASSUME NEW x \in Seq(Hooks!Byte), NEW k \in DOMAIN x
  PROVE  x[k][1] \in Threads /\ x[k][2] \in Nat /\ x[k][3] \in BOOLEAN
<1>1. k \in 1..Len(x)
  BY LenProperties
<1>2. x[k] \in Hooks!Byte
  BY <1>1, ElementOfSeq
<1> QED
  BY <1>2 DEF Hooks!Byte

\* A sequence behind another.
LEMMA Joined ==
  ASSUME NEW x \in Seq(Hooks!Byte), NEW y \in Seq(Hooks!Byte)
  PROVE  /\ x \o y \in Seq(Hooks!Byte)
         /\ \A k \in DOMAIN x : k \in DOMAIN (x \o y) /\ (x \o y)[k] = x[k]
         /\ \A k \in DOMAIN y : Len(x) + k \in DOMAIN (x \o y) /\ (x \o y)[Len(x) + k] = y[k]
         /\ \A k \in DOMAIN (x \o y) : k \notin DOMAIN x => k - Len(x) \in DOMAIN y
<1>1. /\ x \o y \in Seq(Hooks!Byte) /\ Len(x \o y) = Len(x) + Len(y)
      /\ \A i \in 1..(Len(x) + Len(y)) : (x \o y)[i] = IF i <= Len(x) THEN x[i] ELSE y[i - Len(x)]
  BY ConcatProperties
<1> DEFINE z == x \o y
           l == Len(x)
           m == Len(y)
<1>2. /\ l \in Nat /\ m \in Nat
      /\ DOMAIN x = 1..l /\ DOMAIN y = 1..m /\ DOMAIN z = 1..(l + m)
  BY <1>1, LenProperties
<1>3. \A i \in 1..(l + m) : z[i] = IF i <= l THEN x[i] ELSE y[i - l]
  BY <1>1
<1> HIDE DEF z, l, m
<1>4. \A k \in 1..l : k \in 1..(l + m) /\ z[k] = x[k]
  BY <1>2, <1>3
<1>5. ASSUME NEW k \in 1..m PROVE l + k \in 1..(l + m) /\ z[l + k] = y[k]
  <2>1. l + k \in 1..(l + m) /\ ~(l + k <= l) /\ (l + k) - l = k
    BY <1>2
  <2> QED
    BY <1>3, <2>1
<1>6. \A k \in 1..(l + m) : k \notin 1..l => k - l \in 1..m
  BY <1>2
<1> QED
  BY <1>1, <1>2, <1>4, <1>5, <1>6 DEF l, m, z

LEMMA NumbersJoined ==
  ASSUME NEW x \in Seq(Hooks!Byte), NEW y \in Seq(Hooks!Byte), NEW t
  PROVE  Hooks!Numbers(t, x \o y) = Hooks!Numbers(t, x) \cup Hooks!Numbers(t, y)
<1> DEFINE z == x \o y
           l == Len(x)
<1>1. /\ \A k \in DOMAIN x : k \in DOMAIN z /\ z[k] = x[k]
      /\ \A k \in DOMAIN y : l + k \in DOMAIN z /\ z[l + k] = y[k]
      /\ \A k \in DOMAIN z : k \notin DOMAIN x => k - l \in DOMAIN y
      /\ z \in Seq(Hooks!Byte)
  BY Joined
<1>2. l \in Nat /\ DOMAIN z \subseteq Nat
  BY <1>1, LenProperties
<1> HIDE DEF z, l
<1>3. ASSUME NEW n \in Hooks!Numbers(t, x) PROVE n \in Hooks!Numbers(t, z)
  BY <1>1 DEF Hooks!Numbers, Hooks!Own
<1>4. ASSUME NEW n \in Hooks!Numbers(t, y) PROVE n \in Hooks!Numbers(t, z)
  BY <1>1 DEF Hooks!Numbers, Hooks!Own
<1>5. ASSUME NEW n \in Hooks!Numbers(t, z), n \notin Hooks!Numbers(t, x)
      PROVE  n \in Hooks!Numbers(t, y)
  <2>1. PICK k \in DOMAIN z : z[k][1] = t /\ z[k][3] /\ n = z[k][2]
    BY DEF Hooks!Numbers, Hooks!Own
  <2>2. k \notin DOMAIN x
    BY <1>1, <1>5, <2>1 DEF Hooks!Numbers, Hooks!Own
  <2>3. k - l \in DOMAIN y /\ l + (k - l) = k
    BY <1>1, <1>2, <2>2
  <2>4. z[k] = y[k - l]
    BY <1>1, <2>3
  <2> QED
    BY <2>1, <2>3, <2>4 DEF Hooks!Numbers, Hooks!Own
<1> QED
  BY <1>3, <1>4, <1>5 DEF z

LEMMA OrderJoined ==
  ASSUME NEW x \in Seq(Hooks!Byte), NEW y \in Seq(Hooks!Byte), NEW t,
         Hooks!OnceInOrder(t, x), Hooks!OnceInOrder(t, y),
         \A i \in Hooks!Numbers(t, x), j \in Hooks!Numbers(t, y) : i < j
  PROVE  Hooks!OnceInOrder(t, x \o y)
<1> DEFINE z == x \o y
           l == Len(x)
<1>1. /\ \A k \in DOMAIN x : k \in DOMAIN z /\ z[k] = x[k]
      /\ \A k \in DOMAIN y : l + k \in DOMAIN z /\ z[l + k] = y[k]
      /\ \A k \in DOMAIN z : k \notin DOMAIN x => k - l \in DOMAIN y
      /\ z \in Seq(Hooks!Byte)
  BY Joined
<1>2. l \in Nat /\ DOMAIN z \subseteq Nat /\ DOMAIN x = 1..l /\ DOMAIN y \subseteq Nat \ {0}
  BY <1>1, LenProperties
<1> HIDE DEF z, l
<1>3. ASSUME NEW k \in Hooks!Own(t, z), k \notin DOMAIN x
      PROVE  k - l \in Hooks!Own(t, y) /\ z[k] = y[k - l] /\ z[k][2] \in Hooks!Numbers(t, y)
  <2>1. k \in DOMAIN z /\ z[k][1] = t /\ z[k][3]
    BY DEF Hooks!Own
  <2>2. k - l \in DOMAIN y /\ l + (k - l) = k
    BY <1>1, <1>2, <1>3, <2>1
  <2>3. z[k] = y[k - l]
    BY <1>1, <2>2
  <2> QED
    BY <2>1, <2>2, <2>3 DEF Hooks!Numbers, Hooks!Own
<1>4. ASSUME NEW k \in Hooks!Own(t, z), k \in DOMAIN x
      PROVE  k \in Hooks!Own(t, x) /\ z[k] = x[k] /\ z[k][2] \in Hooks!Numbers(t, x)
  BY <1>1, <1>4 DEF Hooks!Numbers, Hooks!Own
<1>5. ASSUME NEW j \in Hooks!Own(t, z), NEW k \in Hooks!Own(t, z), j < k
      PROVE  z[j][2] < z[k][2]
  <2>1. j \in Nat /\ k \in Nat /\ j # 0
    BY <1>1, <1>2, LenProperties DEF Hooks!Own
  <2>2. CASE k \in DOMAIN x
    <3>1. j \in DOMAIN x
      BY <1>2, <1>5, <2>1, <2>2
    <3> QED
      BY <1>4, <1>5, <2>2, <3>1 DEF Hooks!OnceInOrder
  <2>3. CASE k \notin DOMAIN x /\ j \in DOMAIN x
    BY <1>3, <1>4, <2>3
  <2>4. CASE k \notin DOMAIN x /\ j \notin DOMAIN x
    <3>1. j - l < k - l
      BY <1>2, <1>5, <2>1
    <3> QED
      BY <1>3, <2>4, <3>1 DEF Hooks!OnceInOrder
  <2> QED
    BY <2>2, <2>3, <2>4
<1> QED
  BY <1>5 DEF Hooks!OnceInOrder, z

LEMMA BytesNumbers ==
  ASSUME NEW t \in Threads, NEW i \in Nat \ {0}, NEW j \in Int, i <= j + 1
  PROVE  /\ Hooks!Numbers(t, Hooks!Bytes(t, i, j)) = i..j
         /\ \A u : u # t => Hooks!Numbers(u, Hooks!Bytes(t, i, j)) = {}
         /\ \A u : Hooks!Numbers(u, Hooks!BytesOf(t, i, j, FALSE)) = {}
         /\ \A b \in BOOLEAN : \A u : Hooks!OnceInOrder(u, Hooks!BytesOf(t, i, j, b))
<1> DEFINE n == j - i + 1
<1>1. n \in Nat
  OBVIOUS
<1>2. ASSUME NEW b \in BOOLEAN
      PROVE  /\ DOMAIN Hooks!BytesOf(t, i, j, b) = 1..n
             /\ \A k \in 1..n : Hooks!BytesOf(t, i, j, b)[k] = <<t, i + k - 1, b>>
  <2> DEFINE x == Hooks!BytesOf(t, i, j, b)
  <2>1. x \in Seq(Hooks!Byte) /\ Len(x) = n /\ \A k \in 1..n : x[k] = <<t, i + k - 1, b>>
    BY BytesType
  <2> HIDE DEF x
  <2>2. DOMAIN x = 1..n
    BY <2>1, LenProperties
  <2> QED
    BY <2>1, <2>2 DEF x
<1>3. \A k \in i..j : k - i + 1 \in 1..n /\ i + (k - i + 1) - 1 = k
  OBVIOUS
<1>4. \A k \in 1..n : i + k - 1 \in i..j
  OBVIOUS
<1>5. \A k, m \in 1..n : k < m => i + k - 1 < i + m - 1
  OBVIOUS
<1> DEFINE x == Hooks!BytesOf(t, i, j, TRUE)
           y == Hooks!BytesOf(t, i, j, FALSE)
<1>6. /\ DOMAIN x = 1..n /\ \A k \in 1..n : x[k] = <<t, i + k - 1, TRUE>>
      /\ DOMAIN y = 1..n /\ \A k \in 1..n : y[k] = <<t, i + k - 1, FALSE>>
  BY <1>2
<1> HIDE DEF n, x, y
<1>6a. ASSUME NEW k \in 1..n
       PROVE  /\ x[k][1] = t /\ x[k][2] = i + k - 1 /\ x[k][3]
              /\ ~ y[k][3]
  <2>1. x[k] = <<t, i + k - 1, TRUE>> /\ y[k] = <<t, i + k - 1, FALSE>>
    BY <1>6
  <2>2. x[k][1] = t /\ x[k][2] = i + k - 1
    BY <2>1
  <2>3. x[k][3] = TRUE
    BY <2>1
  <2>4. y[k][3] = FALSE
    BY <2>1
  <2> QED
    BY <2>2, <2>3, <2>4
<1>7. \A u : Hooks!Own(u, x) = {k \in 1..n : t = u}
  BY <1>6, <1>6a DEF Hooks!Own
<1>8. \A u : Hooks!Own(u, y) = {}
  BY <1>6, <1>6a DEF Hooks!Own
<1>9. Hooks!Numbers(t, x) = i..j
  <2>1. ASSUME NEW k \in i..j PROVE k \in Hooks!Numbers(t, x)
    <3>1. k - i + 1 \in Hooks!Own(t, x) /\ x[k - i + 1][2] = k
      BY <1>3, <1>6, <1>7, <1>6a
    <3> QED
      BY <3>1 DEF Hooks!Numbers
  <2>2. ASSUME NEW k \in Hooks!Own(t, x) PROVE x[k][2] \in i..j
    <3>1. k \in 1..n /\ x[k][2] = i + k - 1
      BY <1>6, <1>7, <1>6a
    <3> QED
      BY <1>4, <3>1
  <2> QED
    BY <2>1, <2>2 DEF Hooks!Numbers
<1>10. \A u : u # t => Hooks!Numbers(u, x) = {}
  BY <1>7 DEF Hooks!Numbers
<1>11. \A u : Hooks!Numbers(u, y) = {}
  BY <1>8 DEF Hooks!Numbers
<1>12. ASSUME NEW u PROVE Hooks!OnceInOrder(u, x) /\ Hooks!OnceInOrder(u, y)
  <2>1. \A k \in Hooks!Own(u, x) : k \in 1..n /\ x[k][2] = i + k - 1
    BY <1>6, <1>7, <1>6a
  <2>2. \A k, m \in Hooks!Own(u, x) : k < m => x[k][2] < x[m][2]
    BY <1>5, <2>1
  <2> QED
    BY <1>8, <2>2 DEF Hooks!OnceInOrder
<1>13. \A b \in BOOLEAN : \A u : Hooks!OnceInOrder(u, Hooks!BytesOf(t, i, j, b))
  BY <1>12 DEF x, y
<1> QED
  BY <1>9, <1>10, <1>11, <1>13 DEF x, y, Hooks!Bytes

LEMMA ToSetJoined ==
  ASSUME NEW x \in Seq(Hooks!Byte), NEW y \in Seq(Hooks!Byte)
  PROVE  ToSet(x \o y) = ToSet(x) \cup ToSet(y)
<1> DEFINE z == x \o y
           l == Len(x)
<1>1. /\ \A k \in DOMAIN x : k \in DOMAIN z /\ z[k] = x[k]
      /\ \A k \in DOMAIN y : l + k \in DOMAIN z /\ z[l + k] = y[k]
      /\ \A k \in DOMAIN z : k \notin DOMAIN x => k - l \in DOMAIN y
      /\ z \in Seq(Hooks!Byte)
  BY Joined
<1>2. l \in Nat /\ DOMAIN z \subseteq Nat
  BY <1>1, LenProperties
<1> HIDE DEF z, l
<1>3. ASSUME NEW k \in DOMAIN z, k \notin DOMAIN x PROVE k - l \in DOMAIN y /\ z[k] = y[k - l]
  <2>1. k - l \in DOMAIN y /\ l + (k - l) = k
    BY <1>1, <1>2, <1>3
  <2> QED
    BY <1>1, <2>1
<1>4. ASSUME NEW b \in ToSet(x) \cup ToSet(y) PROVE b \in ToSet(z)
  BY <1>1 DEF ToSet
<1>5. ASSUME NEW b \in ToSet(z) PROVE b \in ToSet(x) \cup ToSet(y)
  <2>1. PICK k \in DOMAIN z : b = z[k]
    BY DEF ToSet
  <2>2. CASE k \in DOMAIN x
    BY <1>1, <2>1, <2>2 DEF ToSet
  <2>3. CASE k \notin DOMAIN x
    BY <1>3, <2>1, <2>3 DEF ToSet
  <2> QED
    BY <2>2, <2>3
<1> QED
  BY <1>4, <1>5 DEF z

LEMMA BytesJoined ==
  ASSUME NEW t \in Threads, NEW i \in Nat \ {0}, NEW j \in Int, NEW k \in Int,
         i <= j + 1, j <= k
  PROVE  Hooks!Bytes(t, i, j) \o Hooks!Bytes(t, j + 1, k) = Hooks!Bytes(t, i, k)
<1> DEFINE x == Hooks!Bytes(t, i, j)
           y == Hooks!Bytes(t, j + 1, k)
           z == Hooks!Bytes(t, i, k)
<1>1. /\ x \in Seq(Hooks!Byte) /\ Len(x) = j - i + 1
      /\ \A n \in 1..(j - i + 1) : x[n] = <<t, i + n - 1, TRUE>>
  BY BytesType DEF Hooks!Bytes, x
<1>2. /\ y \in Seq(Hooks!Byte) /\ Len(y) = k - j
      /\ \A n \in 1..(k - j) : y[n] = <<t, j + n, TRUE>>
  <2>1. /\ y \in Seq(Hooks!Byte) /\ Len(y) = k - (j + 1) + 1
        /\ \A n \in 1..(k - (j + 1) + 1) : y[n] = <<t, (j + 1) + n - 1, TRUE>>
    <3>1. j + 1 \in Nat \ {0} /\ j + 1 <= k + 1
      OBVIOUS
    <3> QED
      BY <3>1, BytesType DEF Hooks!Bytes
  <2>2. k - (j + 1) + 1 = k - j /\ \A n \in 1..(k - j) : (j + 1) + n - 1 = j + n
    OBVIOUS
  <2> QED
    BY <2>1, <2>2
<1>3. /\ z \in Seq(Hooks!Byte) /\ Len(z) = k - i + 1
      /\ \A n \in 1..(k - i + 1) : z[n] = <<t, i + n - 1, TRUE>>
  <2>1. i <= k + 1
    OBVIOUS
  <2> QED
    BY <2>1, BytesType DEF Hooks!Bytes
<1> HIDE DEF x, y, z
<1>4. /\ x \o y \in Seq(Hooks!Byte) /\ Len(x \o y) = Len(x) + Len(y)
      /\ \A n \in 1..(Len(x) + Len(y)) : (x \o y)[n] = IF n <= Len(x) THEN x[n] ELSE y[n - Len(x)]
  BY <1>1, <1>2, ConcatProperties
<1>5. Len(x) + Len(y) = k - i + 1
  BY <1>1, <1>2
<1>6. ASSUME NEW n \in 1..(k - i + 1) PROVE (x \o y)[n] = z[n]
  <2>1. CASE n <= Len(x)
    <3>1. n \in 1..(j - i + 1)
      BY <1>1, <2>1
    <3> QED
      BY <1>1, <1>3, <1>4, <1>5, <2>1, <3>1
  <2>2. CASE ~(n <= Len(x))
    <3>1. n - Len(x) \in 1..(k - j) /\ j + (n - Len(x)) = i + n - 1
      BY <1>1, <2>2
    <3> QED
      BY <1>2, <1>3, <1>4, <1>5, <2>2, <3>1
  <2> QED
    BY <2>1, <2>2
<1>7. x \o y = z
  BY <1>3, <1>4, <1>5, <1>6, SeqEqual
<1> QED
  BY <1>7 DEF x, y, z

-----------------------------------------------------------------------------
(***************************************************************************)
(* The calls.                                                              *)
(***************************************************************************)

\* A call whose hook goes on: it is given bytes from number from on, that end in buffers as
\* ends says, and the stream gets sent of them.
Called(t, s, w, from, ends, sent) ==
  /\ Hooks!Calls(t, s, w)
  /\ stream' = [stream EXCEPT ![w][conn[s]] = @ \o Hooks!Bytes(t, from, from + sent - 1)]
  /\ Hooks!Go(t, s, w, from, ends)
  /\ sent \in 1..Hooks!Total(ends) /\ (sent = Hooks!Total(ends) \/ "partial" \in game)
  /\ \/ /\ w = "out" /\ from = next[t]
        /\ next' = [next EXCEPT ![t] = next[t] + sent]
     \/ /\ w = "in" /\ from = Len(stream["in"][conn[s]]) + 1
        /\ next' = next
  /\ game' = game /\ conn' = conn /\ conns' = conns /\ captured' = captured

LEMMA OneBuffer ==
  ASSUME NEW n \in Nat
  PROVE  <<n>> \in Buffering /\ Hooks!Total(<<n>>) = n
<1>1. <<n>> \in Seq(Nat) /\ Len(<<n>>) = 1 /\ <<n>>[1] = n
  OBVIOUS
<1>2. <<n>> # <<>>
  OBVIOUS
<1>3. \A i, j \in 1..1 : i <= j => <<n>>[i] <= <<n>>[j]
  BY <1>1
<1> QED
  BY <1>1, <1>2, <1>3 DEF Buffering, Hooks!Total

LEMMA BuffersType ==
  ASSUME NEW ends \in Buffers
  PROVE  ends \in Buffering
<1>1. /\ ends \in Seq(Nat) /\ ends # <<>>
      /\ \A i, j \in DOMAIN ends : i <= j => ends[i] <= ends[j]
  BY PathAssumption DEF Hooks!HookAssumption
<1>2. DOMAIN ends = 1..Len(ends)
  BY <1>1, LenProperties
<1> QED
  BY <1>1, <1>2 DEF Buffering

\* What is behind the first byte that is captured next, and behind the buffer it is in.
LEMMA BufferingType ==
  ASSUME NEW e \in Buffering, NEW b \in 1..Len(e)
  PROVE  /\ Len(e) \in Nat /\ 1 \in 1..Len(e)
         /\ Hooks!Total(e) \in Nat /\ Hooks!Begin(e, b) \in Nat /\ e[b] \in Nat
         /\ Hooks!Begin(e, b) <= e[b] /\ e[b] <= Hooks!Total(e)
         /\ Hooks!Begin(e, 1) = 0
         /\ b + 1 <= Len(e) => Hooks!Begin(e, b + 1) = e[b]
<1>1. /\ e \in Seq(Nat) /\ e # <<>>
      /\ \A i, j \in 1..Len(e) : i <= j => e[i] <= e[j]
  BY DEF Buffering
<1>2. Len(e) \in Nat \ {0}
  BY <1>1, EmptySeq, LenProperties
<1>3. \A i \in 1..Len(e) : e[i] \in Nat
  BY <1>1, ElementOfSeq
<1> DEFINE l == Len(e)
<1>4. l \in 1..l /\ 1 \in 1..l /\ b <= l
  BY <1>2
<1>5. Hooks!Total(e) \in Nat /\ e[b] <= Hooks!Total(e)
  BY <1>1, <1>3, <1>4 DEF Hooks!Total
<1>6. Hooks!Begin(e, b) \in Nat /\ Hooks!Begin(e, b) <= e[b]
  <2>1. CASE b = 1
    BY <1>3, <2>1 DEF Hooks!Begin
  <2>2. CASE b # 1
    <3>1. b - 1 \in 1..l /\ b - 1 <= b
      BY <1>2, <2>2
    <3> QED
      BY <1>1, <1>3, <2>2, <3>1 DEF Hooks!Begin
  <2> QED
    BY <2>1, <2>2
<1>7. Hooks!Begin(e, 1) = 0
  BY DEF Hooks!Begin
<1>8. Hooks!Begin(e, b + 1) = e[b]
  <2>1. b + 1 # 1 /\ (b + 1) - 1 = b
    OBVIOUS
  <2> QED
    BY <2>1 DEF Hooks!Begin
<1> QED
  BY <1>2, <1>3, <1>4, <1>5, <1>6, <1>7, <1>8

LEMMA CallCalled ==
  ASSUME HookTyped, NEW t \in Threads, NEW s \in Sockets, Hooks!Call(t, s)
  PROVE  \/ \E w \in Hooks!Ways, from \in Nat \ {0}, ends \in Buffering, sent \in Nat \ {0} :
              Called(t, s, w, from, ends, sent)
         \/ \E ends \in Buffering : Hooks!HookWSASendPending(t, s, ends)
<1>1. next[t] \in Nat \ {0} /\ MaxBytes \in Nat
  BY PathAssumption DEF HookTyped, Hooks!HookAssumption
<1>2. ASSUME NEW len \in 1..MaxBytes, NEW result \in 1..len, Hooks!HookSend(t, s, len, result)
      PROVE  Called(t, s, "out", next[t], <<result>>, result) /\ result \in Nat \ {0}
  <2>1. result \in Nat \ {0} /\ Hooks!Total(<<result>>) = result
    BY <1>1, OneBuffer
  <2>2. result \in 1..Hooks!Total(<<result>>)
    BY <2>1
  <2> QED
    BY <1>2, <2>1, <2>2 DEF Hooks!HookSend, Hooks!Take, Called
<1>3. ASSUME NEW result \in 1..MaxBytes, Hooks!HookRecv(t, s, result)
      PROVE  /\ Called(t, s, "in", Len(stream["in"][conn[s]]) + 1, <<result>>, result)
             /\ result \in Nat \ {0} /\ Len(stream["in"][conn[s]]) + 1 \in Nat \ {0}
  <2>1. result \in Nat \ {0} /\ Hooks!Total(<<result>>) = result
    BY <1>1, OneBuffer
  <2>2. result \in 1..Hooks!Total(<<result>>)
    BY <2>1
  <2>3. Len(stream["in"][conn[s]]) \in Nat
    <3>1. conn[s] # 0 /\ conn[s] \in 0..conns /\ conns \in 0..MaxConns /\ MaxConns \in Nat
      BY <1>3, PathAssumption DEF Hooks!HookRecv, Hooks!Calls, HookTyped, Hooks!HookAssumption
    <3>2. conn[s] \in Hooks!Conns
      BY <3>1 DEF Hooks!Conns
    <3>3. stream["in"][conn[s]] \in Seq(Hooks!Byte)
      BY <3>2 DEF HookTyped, Hooks!Ways
    <3> QED
      BY <3>3, LenProperties
  <2>4. Called(t, s, "in", Len(stream["in"][conn[s]]) + 1, <<result>>, result)
    BY <1>3, <2>1, <2>2 DEF Hooks!HookRecv, Hooks!Take, Called
  <2> QED
    BY <2>1, <2>3, <2>4
<1>4. ASSUME NEW ends \in Buffers, NEW sent \in 1..Hooks!Total(ends), Hooks!HookWSASend(t, s, ends, sent)
      PROVE  Called(t, s, "out", next[t], ends, sent) /\ ends \in Buffering /\ sent \in Nat \ {0}
  <2>1. ends \in Buffering
    BY BuffersType
  <2>2. sent \in Nat \ {0}
    OBVIOUS
  <2> QED
    BY <1>4, <2>1, <2>2 DEF Hooks!HookWSASend, Hooks!Take, Called
<1>5. ASSUME NEW ends \in Buffers, Hooks!HookWSASendPending(t, s, ends)
      PROVE  ends \in Buffering
  BY BuffersType
<1>6. \A n \in Nat \ {0} : <<n>> \in Buffering
  BY OneBuffer
<1>7. "out" \in Hooks!Ways /\ "in" \in Hooks!Ways
  BY DEF Hooks!Ways
<1> QED
  BY <1>1, <1>2, <1>3, <1>4, <1>5, <1>6, <1>7 DEF Hooks!Call

\* What is given is not shorter than what is sent.
LEMMA GivenBytes ==
  ASSUME NEW t \in Threads, NEW from \in Nat \ {0}, NEW n \in Nat \ {0}
  PROVE  /\ from + n - 1 \in Int /\ from <= (from + n - 1) + 1
         /\ Hooks!Bytes(t, from, from + n - 1) \in Seq(Hooks!Byte)
         /\ Len(Hooks!Bytes(t, from, from + n - 1)) = n
         /\ \A k \in 1..n : Hooks!Bytes(t, from, from + n - 1)[k] = <<t, from + k - 1, TRUE>>
<1> DEFINE j == from + n - 1
<1>1. j \in Int /\ from <= j + 1 /\ j - from + 1 = n
  OBVIOUS
<1> HIDE DEF j
<1>2. /\ Hooks!Bytes(t, from, j) \in Seq(Hooks!Byte)
      /\ Len(Hooks!Bytes(t, from, j)) = j - from + 1
      /\ \A k \in 1..(j - from + 1) : Hooks!Bytes(t, from, j)[k] = <<t, from + k - 1, TRUE>>
  BY <1>1, BytesType DEF Hooks!Bytes
<1> QED
  BY <1>1, <1>2 DEF j

\* A hook that goes on after its call.
LEMMA CalledFacts ==
  ASSUME HookTyped, NEW t \in Threads, NEW s \in Sockets, NEW w \in Hooks!Ways,
         NEW from \in Nat \ {0}, NEW ends \in Buffering, NEW sent \in Nat \ {0},
         Called(t, s, w, from, ends, sent)
  PROVE  /\ conn[s] \in Hooks!Conns /\ hook[t].pc = "idle" /\ sent <= Hooks!Total(ends)
         /\ hook'[t] \in InHook /\ hook'[t].pc = "local" /\ hook'[t].way = w
         /\ hook'[t].sock = s /\ hook'[t].conn = conn[s] /\ hook'[t].from = from
         /\ hook'[t].ends = ends /\ hook'[t].at = 1
         /\ FirstByte(t)' = from /\ LastByte(t)' = from + Hooks!Total(ends) - 1
         /\ \A u \in Threads : u # t => hook'[u] = hook[u]
         /\ hook' \in [Threads -> {Hooks!Idle} \cup InHook]
<1>1. hook[t].pc = "idle" /\ conn[s] # 0
  BY DEF Called, Hooks!Calls
<1>2. conn[s] \in Hooks!Conns
  <2>1. conn[s] \in 0..conns /\ conns \in 0..MaxConns /\ MaxConns \in Nat
    BY PathAssumption DEF HookTyped, Hooks!HookAssumption
  <2> QED
    BY <1>1, <2>1 DEF Hooks!Conns
<1> DEFINE h == [Hooks!Idle EXCEPT !.pc = "local", !.way = w, !.sock = s,
                                   !.conn = conn[s], !.from = from, !.ends = ends]
<1>3. hook' = [hook EXCEPT ![t] = h]
  BY DEF Called, Hooks!Go
<1>4. /\ h.pc = "local" /\ h.way = w /\ h.sock = s /\ h.conn = conn[s] /\ h.from = from
      /\ h.ends = ends /\ h.at = 1
  BY DEF Hooks!Idle
<1>5. h \in InHook
  <2>1. 0 \in 0..MaxConns /\ 1 \in Nat \ {0}
    BY PathAssumption DEF Hooks!HookAssumption
  <2> QED
    BY <1>2, <2>1 DEF InHook, Hooks!Idle
<1> HIDE DEF h
<1>7. hook'[t] = h /\ \A u \in Threads : u # t => hook'[u] = hook[u]
  BY <1>3 DEF HookTyped
<1>8. hook' \in [Threads -> {Hooks!Idle} \cup InHook]
  BY <1>3, <1>5 DEF HookTyped
<1>9. FirstByte(t)' = from /\ LastByte(t)' = from + Hooks!Total(ends) - 1
  <2>1. Hooks!Begin(ends, 1) = 0
    BY DEF Hooks!Begin
  <2> QED
    BY <1>4, <1>7, <2>1 DEF FirstByte, LastByte
<1>10. sent <= Hooks!Total(ends)
  BY DEF Called
<1> QED
  BY <1>1, <1>2, <1>4, <1>5, <1>7, <1>8, <1>9, <1>10

\* Stream c of way w grows by b, and no other.
Grows(w, c, b) ==
  /\ stream[w][c] \in Seq(Hooks!Byte) /\ b \in Seq(Hooks!Byte)
  /\ stream'[w][c] = stream[w][c] \o b
  /\ \A v \in Hooks!Ways, d \in Hooks!Conns : v # w \/ d # c => stream'[v][d] = stream[v][d]

\* What it makes of the streams.
LEMMA CalledStream ==
  ASSUME HookTyped, NEW t \in Threads, NEW s \in Sockets, NEW w \in Hooks!Ways,
         NEW from \in Nat \ {0}, NEW ends \in Buffering, NEW sent \in Nat \ {0},
         Called(t, s, w, from, ends, sent)
  PROVE  /\ Grows(w, conn[s], Hooks!Bytes(t, from, from + sent - 1))
         /\ stream' \in [Hooks!Ways -> [Hooks!Conns -> Seq(Hooks!Byte)]]
<1> DEFINE b == Hooks!Bytes(t, from, from + sent - 1)
<1>1. b \in Seq(Hooks!Byte)
  BY GivenBytes
<1>2. conn[s] \in Hooks!Conns
  BY CalledFacts
<1>3. stream' = [stream EXCEPT ![w][conn[s]] = @ \o b]
  BY DEF Called
<1> HIDE DEF b
<1>4. stream \in [Hooks!Ways -> [Hooks!Conns -> Seq(Hooks!Byte)]]
  BY DEF HookTyped
<1>5. stream[w][conn[s]] \in Seq(Hooks!Byte)
  BY <1>2, <1>4
<1>6. stream[w][conn[s]] \o b \in Seq(Hooks!Byte)
  BY <1>1, <1>5, ConcatProperties
<1>7. /\ stream'[w][conn[s]] = stream[w][conn[s]] \o b
      /\ \A v \in Hooks!Ways, c \in Hooks!Conns :
           v # w \/ c # conn[s] => stream'[v][c] = stream[v][c]
      /\ stream' \in [Hooks!Ways -> [Hooks!Conns -> Seq(Hooks!Byte)]]
  BY <1>2, <1>3, <1>4, <1>6
<1> QED
  BY <1>1, <1>5, <1>7 DEF b, Grows

LEMMA CalledTyped ==
  ASSUME HookTyped, Places, NEW t \in Threads, NEW s \in Sockets, NEW w \in Hooks!Ways,
         NEW from \in Nat \ {0}, NEW ends \in Buffering, NEW sent \in Nat \ {0},
         Called(t, s, w, from, ends, sent)
  PROVE  HookTyped' /\ Places'
<1>1. /\ conn[s] \in Hooks!Conns /\ hook[t].pc = "idle"
      /\ hook'[t] \in InHook /\ hook'[t].pc = "local" /\ hook'[t].way = w
      /\ hook'[t].sock = s /\ hook'[t].conn = conn[s] /\ hook'[t].from = from
      /\ hook'[t].ends = ends /\ hook'[t].at = 1
      /\ \A u \in Threads : u # t => hook'[u] = hook[u]
      /\ hook' \in [Threads -> {Hooks!Idle} \cup InHook]
  BY CalledFacts
<1>2. stream' \in [Hooks!Ways -> [Hooks!Conns -> Seq(Hooks!Byte)]]
  BY CalledStream
<1>3. game' = game /\ conn' = conn /\ conns' = conns /\ captured' = captured
  BY DEF Called
<1>4. next' \in [Threads -> Nat \ {0}]
  <2>1. next \in [Threads -> Nat \ {0}] /\ next[t] + sent \in Nat \ {0}
    BY DEF HookTyped
  <2>2. next' = [next EXCEPT ![t] = next[t] + sent] \/ next' = next
    BY DEF Called
  <2> QED
    BY <2>1, <2>2
<1>5. 1 <= Len(ends)
  <2>1. ends \in Seq(Nat) /\ ends # <<>>
    BY DEF Buffering
  <2> QED
    BY <2>1, EmptySeq, LenProperties
<1>6. ASSUME NEW u \in Threads, hook'[u].pc # "idle"
      PROVE  /\ hook'[u].at <= Len(hook'[u].ends)
             /\ hook'[u].pc # "capture" => hook'[u].at = 1
             /\ hook'[u].pc # "local" => hook'[u].local # 0
  <2>1. CASE u = t
    BY <1>1, <1>5, <2>1
  <2>2. CASE u # t
    BY <1>1, <1>6, <2>2 DEF HookTyped
  <2> QED
    BY <2>1, <2>2
<1>7. HookTyped'
  BY <1>1, <1>2, <1>3, <1>4, <1>6 DEF HookTyped
<1>8. ASSUME "closing" \notin game, NEW u \in Threads, hook'[u].pc # "idle"
      PROVE  /\ conn[hook'[u].sock] = hook'[u].conn
             /\ hook'[u].pc # "local" => hook'[u].local = hook'[u].conn
             /\ hook'[u].pc = "capture" => hook'[u].remote = hook'[u].conn
  <2>1. CASE u = t
    BY <1>1, <2>1
  <2>2. CASE u # t
    BY <1>1, <1>8, <2>2 DEF Places
  <2> QED
    BY <2>1, <2>2
<1>9. ASSUME "shared" \notin game, NEW u \in Threads, NEW v \in Threads,
             hook'[u].pc # "idle", hook'[v].pc # "idle", hook'[u].way = hook'[v].way,
             hook'[u].sock = hook'[v].sock
      PROVE  u = v
  <2>1. ~Hooks!Busy(s, w)
    BY <1>9 DEF Called, Hooks!Calls
  <2>2. \A x \in Threads : x # t => hook[x].pc = "idle" \/ hook[x].sock # s \/ hook[x].way # w
    BY <2>1 DEF Hooks!Busy
  <2> QED
    BY <1>1, <1>9, <2>2 DEF Places
<1>10. Places'
  BY <1>3, <1>8, <1>9 DEF Places
<1> QED
  BY <1>7, <1>10

\* The numbers of bytes are numbers, and go up from those that the stream has.
LEMMA CalledBehind ==
  ASSUME HookInv, NEW t \in Threads, NEW s \in Sockets, NEW w \in Hooks!Ways,
         NEW from \in Nat \ {0}, NEW ends \in Buffering, NEW sent \in Nat \ {0},
         Called(t, s, w, from, ends, sent)
  PROVE  \A k \in DOMAIN stream[w][conn[s]] :
           stream[w][conn[s]][k][1] = t => stream[w][conn[s]][k][2] < from
<1> DEFINE x == stream[w][conn[s]]
<1>1. conn[s] \in Hooks!Conns /\ HookTyped /\ Numbered
  BY CalledFacts DEF HookInv
<1>2. x \in Seq(Hooks!Byte)
  BY <1>1 DEF HookTyped
<1>3. CASE w = "out" /\ from = next[t]
  BY <1>1, <1>3 DEF Numbered
<1>4. CASE w = "in" /\ from = Len(stream["in"][conn[s]]) + 1
  <2>1. \A k \in DOMAIN x : x[k][2] = k
    BY <1>1, <1>4 DEF Numbered
  <2>2. Len(x) \in Nat /\ DOMAIN x = 1..Len(x) /\ from = Len(x) + 1
    BY <1>2, <1>4, LenProperties
  <2> HIDE DEF x
  <2>3. \A k \in DOMAIN x : k < from
    BY <2>2
  <2> QED
    BY <2>1, <2>3 DEF x
<1> QED
  BY <1>3, <1>4 DEF Called

LEMMA CalledNumbered ==
  ASSUME HookInv, NEW t \in Threads, NEW s \in Sockets, NEW w \in Hooks!Ways,
         NEW from \in Nat \ {0}, NEW ends \in Buffering, NEW sent \in Nat \ {0},
         Called(t, s, w, from, ends, sent)
  PROVE  Numbered'
<1> DEFINE x == stream[w][conn[s]]
           b == Hooks!Bytes(t, from, from + sent - 1)
           z == x \o b
           l == Len(x)
<1>1. conn[s] \in Hooks!Conns /\ HookTyped /\ Numbered
  BY CalledFacts DEF HookInv
<1>2. /\ stream'[w][conn[s]] = z /\ x \in Seq(Hooks!Byte) /\ b \in Seq(Hooks!Byte)
      /\ \A v \in Hooks!Ways, c \in Hooks!Conns :
           v # w \/ c # conn[s] => stream'[v][c] = stream[v][c]
  <2>1. Grows(w, conn[s], b)
    BY <1>1, CalledStream
  <2> QED
    BY <2>1 DEF Grows
<1>3. /\ Len(b) = sent /\ \A k \in 1..sent : b[k] = <<t, from + k - 1, TRUE>>
      /\ from + sent - 1 \in Int /\ from <= (from + sent - 1) + 1
  BY GivenBytes
<1>4. /\ z \in Seq(Hooks!Byte)
      /\ \A k \in DOMAIN x : k \in DOMAIN z /\ z[k] = x[k]
      /\ \A k \in DOMAIN b : l + k \in DOMAIN z /\ z[l + k] = b[k]
      /\ \A k \in DOMAIN z : k \notin DOMAIN x => k - l \in DOMAIN b
  BY <1>2, Joined
<1>5. l \in Nat /\ DOMAIN b = 1..sent /\ DOMAIN z \subseteq Nat
  <2>1. l \in Nat /\ DOMAIN b = 1..sent
    BY <1>2, <1>3, LenProperties
  <2> HIDE DEF z
  <2>2. DOMAIN z = 1..Len(z) /\ Len(z) \in Nat
    BY <1>4, LenProperties
  <2> QED
    BY <2>1, <2>2
<1>6. \A u \in Threads : next[u] \in Nat \ {0} /\ next'[u] \in Nat \ {0} /\ next[u] <= next'[u]
  <2>1. next \in [Threads -> Nat \ {0}]
    BY <1>1 DEF HookTyped
  <2>2. next' = [next EXCEPT ![t] = next[t] + sent] \/ next' = next
    BY DEF Called
  <2>3. ASSUME NEW u \in Threads
        PROVE  next[u] \in Nat \ {0} /\ (next'[u] = next[u] \/ next'[u] = next[u] + sent)
    BY <2>1, <2>2
  <2> QED
    BY <2>3
<1>7. \A k \in DOMAIN x : x[k][1] = t => x[k][2] < from
  BY CalledBehind
<1> HIDE DEF x, b, z, l
<1>8. ASSUME NEW k \in DOMAIN z, k \notin DOMAIN x
      PROVE  k - l \in 1..sent /\ z[k] = <<t, from + (k - l) - 1, TRUE>>
  <2>1. k - l \in 1..sent /\ l + (k - l) = k
    BY <1>4, <1>5, <1>8
  <2> QED
    BY <1>3, <1>4, <1>5, <2>1
<1>9. ASSUME NEW c \in Hooks!Conns, NEW u \in Threads, NEW k \in DOMAIN stream'["out"][c],
             stream'["out"][c][k][1] = u
      PROVE  stream'["out"][c][k][2] < next'[u]
  <2> "out" \in Hooks!Ways
    BY DEF Hooks!Ways
  <2>1. ASSUME k \in DOMAIN stream["out"][c], stream'["out"][c][k] = stream["out"][c][k]
        PROVE  stream'["out"][c][k][2] < next'[u]
    <3>1. stream["out"][c][k][2] < next[u]
      BY <1>1, <1>9, <2>1 DEF Numbered
    <3>2. stream["out"][c][k][2] \in Nat
      <4>1. stream["out"][c] \in Seq(Hooks!Byte)
        BY <1>1 DEF HookTyped
      <4> QED
        BY <2>1, <4>1, ByteOfSeq
    <3> QED
      BY <1>6, <2>1, <3>1, <3>2
  <2>2. CASE "out" # w \/ c # conn[s]
    BY <1>2, <1>9, <2>1, <2>2
  <2>3. CASE "out" = w /\ c = conn[s]
    <3>1. k \in DOMAIN z /\ stream'["out"][c] = z
      BY <1>2, <1>9, <2>3
    <3>2. CASE k \in DOMAIN x
      BY <1>4, <2>1, <2>3, <3>1, <3>2 DEF x
    <3>3. CASE k \notin DOMAIN x
      <4>1. k - l \in 1..sent /\ z[k] = <<t, from + (k - l) - 1, TRUE>>
        BY <1>8, <3>1, <3>3
      <4>2. u = t /\ z[k][2] = from + (k - l) - 1
        BY <1>9, <3>1, <4>1
      <4>3. from = next[t] /\ next'[t] = next[t] + sent
        BY <1>1, <2>3 DEF Called, HookTyped
      <4>4. from + (k - l) - 1 < from + sent
        BY <4>1
      <4> QED
        BY <3>1, <4>2, <4>3, <4>4
    <3> QED
      BY <3>2, <3>3
  <2> QED
    BY <2>2, <2>3
<1>10. ASSUME NEW c \in Hooks!Conns, NEW k \in DOMAIN stream'["in"][c]
       PROVE  stream'["in"][c][k][2] = k
  <2> "in" \in Hooks!Ways
    BY DEF Hooks!Ways
  <2>1. CASE "in" # w \/ c # conn[s]
    <3>1. stream'["in"][c] = stream["in"][c]
      BY <1>2, <2>1
    <3> QED
      BY <1>1, <1>10, <3>1 DEF Numbered
  <2>2. CASE "in" = w /\ c = conn[s]
    <3>1. k \in DOMAIN z /\ stream'["in"][c] = z
      BY <1>2, <1>10, <2>2
    <3>2. CASE k \in DOMAIN x
      <4>1. z[k] = x[k] /\ x[k][2] = k
        BY <1>1, <1>4, <2>2, <3>2 DEF Numbered, x
      <4> QED
        BY <3>1, <4>1
    <3>3. CASE k \notin DOMAIN x
      <4>1. k - l \in 1..sent /\ z[k] = <<t, from + (k - l) - 1, TRUE>>
        BY <1>8, <3>1, <3>3
      <4>2. from = l + 1
        BY <2>2 DEF Called, l, x
      <4>3. k \in Nat /\ from + (k - l) - 1 = k
        BY <1>5, <3>1, <4>2
      <4> QED
        BY <3>1, <4>1, <4>3
    <3> QED
      BY <3>2, <3>3
  <2> QED
    BY <2>1, <2>2
<1>11. ASSUME NEW v \in Hooks!Ways, NEW c \in Hooks!Conns, NEW u \in Threads
       PROVE  Hooks!OnceInOrder(u, stream'[v][c])
  <2>1. CASE v # w \/ c # conn[s]
    <3>1. stream'[v][c] = stream[v][c]
      BY <1>2, <2>1
    <3> QED
      BY <1>1, <3>1 DEF Numbered
  <2>2. CASE v = w /\ c = conn[s]
    <3>1. Hooks!OnceInOrder(u, x)
      BY <1>1, <2>2 DEF Numbered, x
    <3>2. Hooks!OnceInOrder(u, b)
      BY <1>3, BytesNumbers DEF b, Hooks!Bytes
    <3>3. \A i \in Hooks!Numbers(u, x), j \in Hooks!Numbers(u, b) : i < j
      <4>1. CASE u # t
        <5>1. Hooks!Numbers(u, b) = {}
          BY <1>3, <4>1, BytesNumbers DEF b
        <5> QED
          BY <5>1
      <4>2. CASE u = t
        <5>1. Hooks!Numbers(u, b) = from..(from + sent - 1)
          BY <1>3, <4>2, BytesNumbers DEF b
        <5>2. \A i \in Hooks!Numbers(u, x) : i \in Nat /\ i < from
          BY <1>2, <1>7, <4>2, ByteOfSeq DEF Hooks!Numbers, Hooks!Own
        <5> QED
          BY <5>1, <5>2
      <4> QED
        BY <4>1, <4>2
    <3>4. Hooks!OnceInOrder(u, z)
      BY <1>2, <3>1, <3>2, <3>3, OrderJoined DEF z
    <3> QED
      BY <1>2, <2>2, <3>4
  <2> QED
    BY <2>1, <2>2
<1> QED
  BY <1>9, <1>10, <1>11 DEF Numbered

\* The threads that are in a hook, and what they have to capture.
LEMMA CalledOn ==
  ASSUME HookInv, NEW t \in Threads, NEW s \in Sockets, NEW w \in Hooks!Ways,
         NEW from \in Nat \ {0}, NEW ends \in Buffering, NEW sent \in Nat \ {0},
         Called(t, s, w, from, ends, sent)
  PROVE  /\ \A u \in Threads : u # t =>
              /\ FirstByte(u)' = FirstByte(u) /\ LastByte(u)' = LastByte(u)
              /\ \A v, c : On(u, v, c)' <=> On(u, v, c)
         /\ \A v, c : ~On(t, v, c) /\ (On(t, v, c)' <=> v = w /\ c = conn[s])
         /\ \A v, c : Got(v, c)' = Got(v, c)
<1>1. /\ hook[t].pc = "idle" /\ hook'[t].pc = "local" /\ hook'[t].way = w
      /\ hook'[t].conn = conn[s]
      /\ \A u \in Threads : u # t => hook'[u] = hook[u]
  BY CalledFacts, ZenonT(60) DEF HookInv
<1>2. \A v, c : Got(v, c)' = Got(v, c)
  BY DEF Called, Got
<1> QED
  BY <1>1, <1>2 DEF On, FirstByte, LastByte

LEMMA CalledExact ==
  ASSUME HookInv, NEW t \in Threads, NEW s \in Sockets, NEW w \in Hooks!Ways,
         NEW from \in Nat \ {0}, NEW ends \in Buffering, NEW sent \in Nat \ {0},
         Called(t, s, w, from, ends, sent)
  PROVE  Exact'
<1>0. HookTyped
  BY DEF HookInv
<1>5. Grows(w, conn[s], Hooks!Bytes(t, from, from + sent - 1))
  BY <1>0, CalledStream
<1> SUFFICES ASSUME game = {}, NEW v \in Hooks!Ways, NEW c \in Hooks!Conns
             PROVE  /\ \A u \in Threads : On(u, v, c)' =>
                         stream'[v][c] = Got(v, c) \o Hooks!Bytes(u, FirstByte(u)', LastByte(u)')
                    /\ (\A u \in Threads : ~On(u, v, c)') => stream'[v][c] = Got(v, c)
  <2>1. game' = game /\ \A v, c : Got(v, c)' = Got(v, c)
    BY CalledOn DEF Called
  <2> QED
    BY <2>1 DEF Exact, Hooks!AtRest, On
<1>1. /\ \A u \in Threads : u # t =>
           /\ FirstByte(u)' = FirstByte(u) /\ LastByte(u)' = LastByte(u)
           /\ On(u, v, c)' <=> On(u, v, c)
      /\ ~On(t, v, c) /\ (On(t, v, c)' <=> v = w /\ c = conn[s])
  BY CalledOn
<1>2. /\ \A u \in Threads : On(u, v, c) =>
           stream[v][c] = Got(v, c) \o Hooks!Bytes(u, FirstByte(u), LastByte(u))
      /\ (\A u \in Threads : ~On(u, v, c)) => stream[v][c] = Got(v, c)
  BY DEF HookInv, Exact, Hooks!AtRest, On
<1>3. CASE v # w \/ c # conn[s]
  <2>1. stream'[v][c] = stream[v][c]
    BY <1>3, <1>5 DEF Grows
  <2> QED
    BY <1>1, <1>2, <1>3, <2>1
<1>4. CASE v = w /\ c = conn[s]
  <2>1. \A u \in Threads : ~On(u, v, c)
    <3>1. \A u \in Threads : hook[u].pc = "idle" \/ hook[u].sock # s \/ hook[u].way # w
      BY DEF Called, Hooks!Calls, Hooks!Busy
    <3>2. ASSUME NEW u \in Threads, On(u, v, c) PROVE hook[u].sock = s
      <4>1. conn[hook[u].sock] = conn[s] /\ conn[s] # 0
        BY <1>4, <3>2 DEF HookInv, Places, On, Called, Hooks!Calls
      <4>2. hook[u].sock \in Sockets
        BY <3>2 DEF HookInv, HookTyped, InHook, On, Hooks!Idle
      <4> QED
        BY <4>1, <4>2 DEF HookInv, Places
    <3> QED
      BY <1>4, <3>1, <3>2 DEF On
  <2>2. stream[v][c] = Got(v, c)
    BY <1>2, <2>1
  <2>3. stream'[v][c] = stream[v][c] \o Hooks!Bytes(t, from, from + sent - 1)
    BY <1>4, <1>5 DEF Grows
  <2>4. FirstByte(t)' = from /\ LastByte(t)' = from + sent - 1
    <3>1. sent = Hooks!Total(ends)
      BY DEF Called
    <3> QED
      BY <3>1, CalledFacts DEF HookInv
  <2> QED
    BY <1>1, <1>4, <2>1, <2>2, <2>3, <2>4
<1> QED
  BY <1>3, <1>4

LEMMA CalledByThread ==
  ASSUME HookInv, NEW t \in Threads, NEW s \in Sockets, NEW w \in Hooks!Ways,
         NEW from \in Nat \ {0}, NEW ends \in Buffering, NEW sent \in Nat \ {0},
         Called(t, s, w, from, ends, sent)
  PROVE  ByThread'
<1>0. HookTyped
  BY DEF HookInv
<1>5. Grows(w, conn[s], Hooks!Bytes(t, from, from + sent - 1))
  BY <1>0, CalledStream
<1> SUFFICES ASSUME game \subseteq {"shared", "pending"},
                    NEW v \in Hooks!Ways, NEW c \in Hooks!Conns, NEW u \in Threads
             PROVE  /\ Hooks!OnceInOrder(u, Got(v, c))
                    /\ On(u, v, c)' =>
                         /\ Hooks!Numbers(u, stream'[v][c])
                            = Hooks!Numbers(u, Got(v, c)) \cup FirstByte(u)'..LastByte(u)'
                         /\ \A i \in Hooks!Numbers(u, Got(v, c)) : i < FirstByte(u)'
                    /\ ~On(u, v, c)' =>
                         Hooks!Numbers(u, stream'[v][c]) = Hooks!Numbers(u, Got(v, c))
  <2>1. game' = game /\ \A x, y : Got(x, y)' = Got(x, y)
    BY CalledOn DEF Called
  <2> QED
    BY <2>1 DEF ByThread
<1>1. /\ u # t => /\ FirstByte(u)' = FirstByte(u) /\ LastByte(u)' = LastByte(u)
                  /\ On(u, v, c)' <=> On(u, v, c)
      /\ ~On(t, v, c) /\ (On(t, v, c)' <=> v = w /\ c = conn[s])
  BY CalledOn
<1>2. /\ Hooks!OnceInOrder(u, Got(v, c))
      /\ On(u, v, c) =>
           /\ Hooks!Numbers(u, stream[v][c])
              = Hooks!Numbers(u, Got(v, c)) \cup FirstByte(u)..LastByte(u)
           /\ \A i \in Hooks!Numbers(u, Got(v, c)) : i < FirstByte(u)
      /\ ~On(u, v, c) => Hooks!Numbers(u, stream[v][c]) = Hooks!Numbers(u, Got(v, c))
  BY DEF HookInv, ByThread
<1>3. CASE v # w \/ c # conn[s]
  <2>1. stream'[v][c] = stream[v][c]
    BY <1>3, <1>5 DEF Grows
  <2> QED
    BY <1>1, <1>2, <1>3, <2>1
<1>4. CASE v = w /\ c = conn[s]
  <2> DEFINE x == stream[v][c]
             b == Hooks!Bytes(t, from, from + sent - 1)
  <2>1. x \in Seq(Hooks!Byte) /\ b \in Seq(Hooks!Byte) /\ stream'[v][c] = x \o b
    BY <1>4, <1>5 DEF Grows
  <2>2. Hooks!Numbers(u, stream'[v][c]) = Hooks!Numbers(u, x) \cup Hooks!Numbers(u, b)
    BY <2>1, NumbersJoined
  <2>3. from + sent - 1 \in Int /\ from <= (from + sent - 1) + 1
    BY GivenBytes
  <2>4. CASE u # t
    <3>1. Hooks!Numbers(u, b) = {}
      BY <2>3, <2>4, BytesNumbers
    <3> QED
      BY <1>1, <1>2, <2>2, <2>4, <3>1
  <2>5. CASE u = t
    <3>1. Hooks!Numbers(u, b) = from..(from + sent - 1)
      BY <2>3, <2>5, BytesNumbers
    <3>2. FirstByte(u)' = from /\ LastByte(u)' = from + sent - 1
      <4>1. sent = Hooks!Total(ends)
        BY DEF Called
      <4> QED
        BY <1>0, <2>5, <4>1, CalledFacts
    <3>3. \A i \in Hooks!Numbers(u, x) : i < from
      BY <1>4, <2>5, CalledBehind DEF Hooks!Numbers, Hooks!Own
    <3> QED
      BY <1>1, <1>2, <1>4, <2>2, <2>5, <3>1, <3>2, <3>3
  <2> QED
    BY <2>4, <2>5
<1> QED
  BY <1>3, <1>4

\* A part of the bytes of a thread.
LEMMA BytesWithin ==
  ASSUME NEW t \in Threads, NEW i \in Nat \ {0}, NEW j \in Int, NEW k \in Int,
         i <= j + 1, j <= k
  PROVE  ToSet(Hooks!Bytes(t, i, j)) \subseteq ToSet(Hooks!Bytes(t, i, k))
<1>1. Hooks!Bytes(t, i, k) = Hooks!Bytes(t, i, j) \o Hooks!Bytes(t, j + 1, k)
  BY BytesJoined
<1>2. Hooks!Bytes(t, i, j) \in Seq(Hooks!Byte)
  BY BytesType DEF Hooks!Bytes
<1>3. Hooks!Bytes(t, j + 1, k) \in Seq(Hooks!Byte)
  <2>1. j + 1 \in Nat \ {0} /\ j + 1 <= k + 1
    OBVIOUS
  <2> QED
    BY <2>1, BytesType DEF Hooks!Bytes
<1> QED
  BY <1>1, <1>2, <1>3, ToSetJoined

LEMMA CalledNoneMissed ==
  ASSUME HookInv, NEW t \in Threads, NEW s \in Sockets, NEW w \in Hooks!Ways,
         NEW from \in Nat \ {0}, NEW ends \in Buffering, NEW sent \in Nat \ {0},
         Called(t, s, w, from, ends, sent)
  PROVE  NoneMissed'
<1>0. HookTyped
  BY DEF HookInv
<1>5. Grows(w, conn[s], Hooks!Bytes(t, from, from + sent - 1))
  BY <1>0, CalledStream
<1> SUFFICES ASSUME game \subseteq {"shared", "partial"},
                    NEW v \in Hooks!Ways, NEW c \in Hooks!Conns, NEW b \in ToSet(stream'[v][c])
             PROVE  \/ b \in ToSet(Got(v, c))
                    \/ \E u \in Threads :
                         /\ On(u, v, c)'
                         /\ b \in ToSet(Hooks!Bytes(u, FirstByte(u)', LastByte(u)'))
  <2>1. game' = game /\ \A x, y : Got(x, y)' = Got(x, y)
    BY CalledOn DEF Called
  <2> QED
    BY <2>1 DEF NoneMissed
<1>1. /\ \A u \in Threads : u # t =>
           /\ FirstByte(u)' = FirstByte(u) /\ LastByte(u)' = LastByte(u)
           /\ On(u, v, c)' <=> On(u, v, c)
      /\ ~On(t, v, c) /\ (On(t, v, c)' <=> v = w /\ c = conn[s])
  BY CalledOn
<1>2. ASSUME b \in ToSet(stream[v][c])
      PROVE  \/ b \in ToSet(Got(v, c))
             \/ \E u \in Threads :
                  /\ On(u, v, c)'
                  /\ b \in ToSet(Hooks!Bytes(u, FirstByte(u)', LastByte(u)'))
  <2>1. \/ b \in ToSet(Got(v, c))
        \/ \E u \in Threads :
             On(u, v, c) /\ b \in ToSet(Hooks!Bytes(u, FirstByte(u), LastByte(u)))
    BY <1>2 DEF HookInv, NoneMissed
  <2> QED
    BY <1>1, <2>1
<1>3. CASE v # w \/ c # conn[s]
  <2>1. stream'[v][c] = stream[v][c]
    BY <1>3, <1>5 DEF Grows
  <2> QED
    BY <1>2, <2>1
<1>4. CASE v = w /\ c = conn[s]
  <2> DEFINE x == stream[v][c]
             y == Hooks!Bytes(t, from, from + sent - 1)
  <2>1. x \in Seq(Hooks!Byte) /\ y \in Seq(Hooks!Byte) /\ stream'[v][c] = x \o y
    BY <1>4, <1>5 DEF Grows
  <2>2. b \in ToSet(x) \/ b \in ToSet(y)
    BY <2>1, ToSetJoined
  <2>3. CASE b \in ToSet(y)
    <3> DEFINE j == from + sent - 1
               k == from + Hooks!Total(ends) - 1
    <3>1. FirstByte(t)' = from /\ LastByte(t)' = k /\ sent <= Hooks!Total(ends)
      BY <1>0, CalledFacts
    <3>2. Hooks!Total(ends) \in Nat
      <4>1. 1 \in 1..Len(ends)
        <5>1. ends \in Seq(Nat) /\ ends # <<>>
          BY DEF Buffering
        <5> QED
          BY <5>1, EmptySeq, LenProperties
      <4> QED
        BY <4>1, BufferingType
    <3>3. j \in Int /\ k \in Int /\ from <= j + 1 /\ j <= k
      BY <3>1, <3>2
    <3> HIDE DEF j, k
    <3>4. ToSet(Hooks!Bytes(t, from, j)) \subseteq ToSet(Hooks!Bytes(t, from, k))
      BY <3>3, BytesWithin
    <3>5. b \in ToSet(Hooks!Bytes(t, FirstByte(t)', LastByte(t)'))
      BY <2>3, <3>1, <3>4 DEF j
    <3> QED
      BY <1>1, <1>4, <3>5
  <2> QED
    BY <1>2, <2>2, <2>3
<1> QED
  BY <1>3, <1>4

LEMMA CalledKept ==
  ASSUME HookInv, NEW t \in Threads, NEW s \in Sockets, NEW w \in Hooks!Ways,
         NEW from \in Nat \ {0}, NEW ends \in Buffering, NEW sent \in Nat \ {0},
         Called(t, s, w, from, ends, sent)
  PROVE  HookInv'
<1>1. HookTyped /\ Places
  BY DEF HookInv
<1>2. HookTyped' /\ Places'
  BY <1>1, CalledTyped
<1> QED
  BY <1>2, CalledNumbered, CalledExact, CalledByThread, CalledNoneMissed DEF HookInv

\* An overlapped call: the bytes are sent, and no hook goes on.
LEMMA PendingKept ==
  ASSUME HookInv, NEW t \in Threads, NEW s \in Sockets, NEW ends \in Buffering,
         Hooks!HookWSASendPending(t, s, ends)
  PROVE  HookInv'
<1> DEFINE n == Hooks!Total(ends)
           c == conn[s]
           j == next[t] + n - 1
           b == Hooks!BytesOf(t, next[t], j, FALSE)
<1>1. HookTyped /\ Places /\ Numbered /\ ByThread
  BY DEF HookInv
<1>2. /\ "pending" \in game /\ c # 0
      /\ stream' = [stream EXCEPT !["out"][c] = @ \o b]
      /\ next' = [next EXCEPT ![t] = next[t] + n]
      /\ game' = game /\ conn' = conn /\ conns' = conns /\ hook' = hook /\ captured' = captured
  BY DEF Hooks!HookWSASendPending, Hooks!Take, Hooks!Calls
<1>3. n \in Nat
  <2>1. ends \in Seq(Nat) /\ ends # <<>>
    BY DEF Buffering
  <2>2. 1 \in 1..Len(ends)
    BY <2>1, EmptySeq, LenProperties
  <2> QED
    BY <2>2, BufferingType
<1>4. next \in [Threads -> Nat \ {0}] /\ next[t] \in Nat \ {0}
  BY <1>1 DEF HookTyped
<1>5. c \in Hooks!Conns
  <2>1. conn[s] \in 0..conns /\ conns \in 0..MaxConns /\ MaxConns \in Nat
    BY <1>1, PathAssumption DEF HookTyped, Hooks!HookAssumption
  <2> QED
    BY <1>2, <2>1 DEF Hooks!Conns
<1> HIDE DEF c, n
<1>6. j \in Int /\ next[t] <= j + 1
  BY <1>3, <1>4
<1> HIDE DEF j
<1>7. b \in Seq(Hooks!Byte)
  BY <1>4, <1>6, BytesType
<1>8. \A k \in DOMAIN b : b[k][1] = t /\ b[k][2] \in Nat /\ b[k][2] <= j
  <2>1. /\ Len(b) = j - next[t] + 1
        /\ \A k \in 1..(j - next[t] + 1) : b[k] = <<t, next[t] + k - 1, FALSE>>
    BY <1>4, <1>6, BytesType
  <2>2. DOMAIN b = 1..(j - next[t] + 1)
    BY <1>7, <2>1, LenProperties
  <2> HIDE DEF b
  <2>3. \A k \in 1..(j - next[t] + 1) : next[t] + k - 1 \in Nat /\ next[t] + k - 1 <= j
    BY <1>4, <1>6
  <2>4. ASSUME NEW k \in DOMAIN b
        PROVE  b[k][1] = t /\ b[k][2] \in Nat /\ b[k][2] <= j
    <3>1. k \in 1..(j - next[t] + 1)
      BY <2>2
    <3>2. b[k] = <<t, next[t] + k - 1, FALSE>>
      BY <2>1, <3>1
    <3>3. b[k][1] = t /\ b[k][2] = next[t] + k - 1
      BY <3>2
    <3> QED
      BY <2>3, <3>1, <3>3
  <2> QED
    BY <2>4
<1>9. /\ \A u : Hooks!Numbers(u, b) = {}
      /\ \A u : Hooks!OnceInOrder(u, b)
  BY <1>4, <1>6, BytesNumbers
<1> HIDE DEF b
<1>10. Grows("out", c, b) /\ stream' \in [Hooks!Ways -> [Hooks!Conns -> Seq(Hooks!Byte)]]
  <2>1. stream \in [Hooks!Ways -> [Hooks!Conns -> Seq(Hooks!Byte)]] /\ "out" \in Hooks!Ways
    BY <1>1 DEF HookTyped, Hooks!Ways
  <2>2. stream["out"][c] \in Seq(Hooks!Byte)
    BY <1>5, <2>1
  <2>3. stream["out"][c] \o b \in Seq(Hooks!Byte)
    BY <1>7, <2>2, ConcatProperties
  <2>4. /\ stream'["out"][c] = stream["out"][c] \o b
        /\ \A v \in Hooks!Ways, d \in Hooks!Conns : v # "out" \/ d # c => stream'[v][d] = stream[v][d]
        /\ stream' \in [Hooks!Ways -> [Hooks!Conns -> Seq(Hooks!Byte)]]
    BY <1>2, <1>5, <2>1, <2>3
  <2> QED
    BY <1>7, <2>2, <2>4 DEF Grows
<1>11. \A u \in Threads : /\ next[u] \in Nat \ {0} /\ next'[u] \in Nat \ {0} /\ next[u] <= next'[u]
                          /\ u = t => next'[u] = j + 1
  <2>1. ASSUME NEW u \in Threads
        PROVE  next[u] \in Nat \ {0} /\ next'[u] = IF u = t THEN next[t] + n ELSE next[u]
    BY <1>2, <1>4
  <2>2. next[t] + n = j + 1
    BY <1>3, <1>4 DEF j
  <2> QED
    BY <1>3, <2>1, <2>2
<1>12. HookTyped'
  <2>1. next' \in [Threads -> Nat \ {0}]
    BY <1>2, <1>3, <1>4
  <2> QED
    BY <1>1, <1>2, <1>10, <2>1 DEF HookTyped
<1>13. Places'
  BY <1>1, <1>2 DEF Places
<1>14. Numbered'
  <2>1. ASSUME NEW d \in Hooks!Conns, NEW u \in Threads, NEW k \in DOMAIN stream'["out"][d],
               stream'["out"][d][k][1] = u
        PROVE  stream'["out"][d][k][2] < next'[u]
    <3> "out" \in Hooks!Ways
      BY DEF Hooks!Ways
    <3>1. ASSUME k \in DOMAIN stream["out"][d], stream'["out"][d][k] = stream["out"][d][k]
          PROVE  stream'["out"][d][k][2] < next'[u]
      <4>1. stream["out"][d][k][2] < next[u]
        BY <1>1, <2>1, <3>1 DEF Numbered
      <4>2. stream["out"][d][k][2] \in Nat
        <5>1. stream["out"][d] \in Seq(Hooks!Byte)
          BY <1>1 DEF HookTyped
        <5> QED
          BY <3>1, <5>1, ByteOfSeq
      <4> QED
        BY <1>11, <3>1, <4>1, <4>2
    <3>2. CASE d # c
      BY <1>10, <2>1, <3>1, <3>2 DEF Grows
    <3>3. CASE d = c
      <4> DEFINE x == stream["out"][d]
                 z == x \o b
      <4>1. x \in Seq(Hooks!Byte) /\ stream'["out"][d] = z
        BY <1>10, <3>3 DEF Grows
      <4>2. /\ \A m \in DOMAIN x : m \in DOMAIN z /\ z[m] = x[m]
            /\ \A m \in DOMAIN b : Len(x) + m \in DOMAIN z /\ z[Len(x) + m] = b[m]
            /\ \A m \in DOMAIN z : m \notin DOMAIN x => m - Len(x) \in DOMAIN b
            /\ z \in Seq(Hooks!Byte)
        BY <1>7, <4>1, Joined
      <4>3. k \in DOMAIN z /\ k \in Nat /\ Len(x) \in Nat
        BY <2>1, <4>1, <4>2, LenProperties
      <4> HIDE DEF z
      <4>4. CASE k \in DOMAIN x
        BY <3>1, <4>1, <4>2, <4>4
      <4>5. CASE k \notin DOMAIN x
        <5>1. k - Len(x) \in DOMAIN b /\ Len(x) + (k - Len(x)) = k
          BY <4>2, <4>3, <4>5
        <5>2. z[k] = b[k - Len(x)]
          BY <4>2, <5>1
        <5>3. z[k][1] = t /\ z[k][2] \in Nat /\ z[k][2] <= j
          BY <1>8, <5>1, <5>2
        <5>4. next'[t] = j + 1 /\ u = t
          BY <1>11, <2>1, <4>1, <5>3
        <5> QED
          BY <1>6, <4>1, <5>3, <5>4
      <4> QED
        BY <4>4, <4>5
    <3> QED
      BY <3>2, <3>3
  <2>2. \A d \in Hooks!Conns : stream'["in"][d] = stream["in"][d]
    BY <1>10 DEF Grows, Hooks!Ways
  <2>3. ASSUME NEW v \in Hooks!Ways, NEW d \in Hooks!Conns, NEW u \in Threads
        PROVE  Hooks!OnceInOrder(u, stream'[v][d])
    <3>1. Hooks!OnceInOrder(u, stream[v][d])
      BY <1>1 DEF Numbered
    <3>2. CASE v # "out" \/ d # c
      <4>1. stream'[v][d] = stream[v][d]
        BY <1>10, <3>2 DEF Grows
      <4> QED
        BY <3>1, <4>1
    <3>3. CASE v = "out" /\ d = c
      <4>1. stream[v][d] \in Seq(Hooks!Byte) /\ stream'[v][d] = stream[v][d] \o b
        BY <1>10, <3>3 DEF Grows
      <4>2. \A x \in Hooks!Numbers(u, stream[v][d]), y \in Hooks!Numbers(u, b) : x < y
        BY <1>9
      <4>3. Hooks!OnceInOrder(u, stream[v][d] \o b)
        BY <1>7, <1>9, <3>1, <4>1, <4>2, OrderJoined
      <4> QED
        BY <4>1, <4>3
    <3> QED
      BY <3>2, <3>3
  <2>4. \A d \in Hooks!Conns : \A k \in DOMAIN stream'["in"][d] : stream'["in"][d][k][2] = k
    BY <1>1, <2>2 DEF Numbered
  <2> QED
    BY <2>1, <2>3, <2>4 DEF Numbered
<1>15. Exact' /\ NoneMissed'
  BY <1>2 DEF Exact, NoneMissed
<1>16. ByThread'
  <2>1. ASSUME NEW v \in Hooks!Ways, NEW d \in Hooks!Conns, NEW u \in Threads
        PROVE  Hooks!Numbers(u, stream'[v][d]) = Hooks!Numbers(u, stream[v][d])
    <3>1. CASE v # "out" \/ d # c
      <4>1. stream'[v][d] = stream[v][d]
        BY <1>10, <3>1 DEF Grows
      <4> QED
        BY <4>1
    <3>2. CASE v = "out" /\ d = c
      <4>1. stream[v][d] \in Seq(Hooks!Byte) /\ stream'[v][d] = stream[v][d] \o b
        BY <1>10, <3>2 DEF Grows
      <4> DEFINE x == stream[v][d]
      <4>2. Hooks!Numbers(u, x \o b) = Hooks!Numbers(u, x) \cup Hooks!Numbers(u, b)
        BY <1>7, <4>1, NumbersJoined
      <4> QED
        BY <1>9, <4>1, <4>2
    <3> QED
      BY <3>1, <3>2
  <2>2. \A u, v, d : /\ Got(v, d)' = Got(v, d) /\ (On(u, v, d)' <=> On(u, v, d))
                     /\ FirstByte(u)' = FirstByte(u) /\ LastByte(u)' = LastByte(u)
    BY <1>2 DEF Got, On, FirstByte, LastByte
  <2> QED
    BY <1>1, <1>2, <2>1, <2>2 DEF ByThread
<1> QED
  BY <1>12, <1>13, <1>14, <1>15, <1>16 DEF HookInv

-----------------------------------------------------------------------------
(***************************************************************************)
(* The rest of a hook, and the game's sockets.                             *)
(***************************************************************************)

\* A step that captures and sends nothing, and leaves every call where it was.
LEMMA HookKept ==
  ASSUME HookInv, stream' = stream, captured' = captured, next' = next, game' = game,
         "closing" \notin game =>
           \A u \in Threads :
             /\ \A v, c : On(u, v, c)' <=> On(u, v, c)
             /\ \A v, c : On(u, v, c) =>
                  FirstByte(u)' = FirstByte(u) /\ LastByte(u)' = LastByte(u)
  PROVE  Numbered' /\ Exact' /\ ByThread' /\ NoneMissed'
<1>1. Numbered /\ Exact /\ ByThread /\ NoneMissed
  BY DEF HookInv
<1>2. \A v, c : Got(v, c)' = Got(v, c)
  BY DEF Got
<1>3. Numbered'
  BY <1>1 DEF Numbered
<1>4. Exact'
  <2> SUFFICES ASSUME game = {}, NEW v \in Hooks!Ways, NEW c \in Hooks!Conns
               PROVE  /\ \A u \in Threads : On(u, v, c)' =>
                           stream[v][c] = Got(v, c) \o Hooks!Bytes(u, FirstByte(u)', LastByte(u)')
                      /\ (\A u \in Threads : ~On(u, v, c)') => stream[v][c] = Got(v, c)
    BY <1>2, ZenonT(60) DEF Exact, Hooks!AtRest, On
  <2>1. \A u \in Threads :
          /\ On(u, v, c)' <=> On(u, v, c)
          /\ On(u, v, c) => FirstByte(u)' = FirstByte(u) /\ LastByte(u)' = LastByte(u)
    OBVIOUS
  <2>2. /\ \A u \in Threads : On(u, v, c) =>
             stream[v][c] = Got(v, c) \o Hooks!Bytes(u, FirstByte(u), LastByte(u))
        /\ (\A u \in Threads : ~On(u, v, c)) => stream[v][c] = Got(v, c)
    BY <1>1 DEF Exact, Hooks!AtRest, On
  <2> QED
    BY <2>1, <2>2
<1>5. ByThread'
  BY <1>1, <1>2 DEF ByThread
<1>6. NoneMissed'
  BY <1>1, <1>2 DEF NoneMissed
<1> QED
  BY <1>3, <1>4, <1>5, <1>6

LEMMA LocalPortKept ==
  ASSUME HookInv, NEW t \in Threads, Hooks!LocalPort(t)
  PROVE  HookInv'
<1> DEFINE c == conn[hook[t].sock]
           h == IF c = 0 THEN Hooks!Idle ELSE [hook[t] EXCEPT !.pc = "remote", !.local = c]
<1>1. HookTyped /\ Places
  BY DEF HookInv
<1>2. /\ hook[t].pc = "local" /\ hook' = [hook EXCEPT ![t] = h]
      /\ game' = game /\ conn' = conn /\ conns' = conns /\ next' = next
      /\ stream' = stream /\ captured' = captured
  BY DEF Hooks!LocalPort
<1>3. hook[t] \in InHook
  BY <1>1, <1>2 DEF HookTyped, Hooks!Idle
<1>4. c \in 0..MaxConns
  <2>1. hook[t].sock \in Sockets
    BY <1>3 DEF InHook
  <2>2. conn[hook[t].sock] \in 0..conns /\ conns \in 0..MaxConns /\ MaxConns \in Nat
    BY <1>1, <2>1, PathAssumption DEF HookTyped, Hooks!HookAssumption
  <2> QED
    BY <2>2
<1> HIDE DEF c
<1>5. /\ c = 0 => h = Hooks!Idle
      /\ c # 0 => /\ h \in InHook /\ h.pc = "remote" /\ h.local = c
                  /\ h.way = hook[t].way /\ h.sock = hook[t].sock /\ h.conn = hook[t].conn
                  /\ h.from = hook[t].from /\ h.ends = hook[t].ends /\ h.at = hook[t].at
  BY <1>3, <1>4 DEF InHook
<1>6. Hooks!Idle.pc = "idle"
  BY DEF Hooks!Idle
<1> HIDE DEF h
<1>7. /\ hook'[t] = h /\ \A u \in Threads : u # t => hook'[u] = hook[u]
      /\ hook' \in [Threads -> {Hooks!Idle} \cup InHook]
  BY <1>1, <1>2, <1>5 DEF HookTyped
<1>8. ASSUME NEW u \in Threads, hook'[u].pc # "idle"
      PROVE  /\ hook'[u].at <= Len(hook'[u].ends)
             /\ hook'[u].pc # "capture" => hook'[u].at = 1
             /\ hook'[u].pc # "local" => hook'[u].local # 0
             /\ hook[u].pc # "idle" /\ hook'[u].way = hook[u].way /\ hook'[u].sock = hook[u].sock
             /\ hook'[u].conn = hook[u].conn
  <2>1. CASE u = t
    <3>1. c # 0
      BY <1>5, <1>6, <1>7, <1>8, <2>1
    <3> QED
      BY <1>1, <1>2, <1>5, <1>7, <2>1, <3>1 DEF HookTyped
  <2>2. CASE u # t
    BY <1>1, <1>7, <1>8, <2>2 DEF HookTyped
  <2> QED
    BY <2>1, <2>2
<1>9. HookTyped'
  BY <1>1, <1>2, <1>7, <1>8 DEF HookTyped
<1>10. ASSUME "closing" \notin game, NEW u \in Threads, hook'[u].pc # "idle"
       PROVE  /\ conn[hook'[u].sock] = hook'[u].conn
              /\ hook'[u].pc # "local" => hook'[u].local = hook'[u].conn
              /\ hook'[u].pc = "capture" => hook'[u].remote = hook'[u].conn
  <2>1. CASE u = t
    <3>1. c # 0
      BY <1>5, <1>6, <1>7, <1>10, <2>1
    <3> QED
      BY <1>1, <1>2, <1>5, <1>7, <1>10, <2>1, <3>1 DEF Places, c
  <2>2. CASE u # t
    BY <1>1, <1>7, <1>10, <2>2 DEF Places
  <2> QED
    BY <2>1, <2>2
<1>11. Places'
  <2>1. \A s, u \in Sockets : conn[s] # 0 /\ conn[s] = conn[u] => s = u
    BY <1>1 DEF Places
  <2>2. ASSUME "shared" \notin game, NEW u \in Threads, NEW v \in Threads,
               hook'[u].pc # "idle", hook'[v].pc # "idle", hook'[u].way = hook'[v].way,
               hook'[u].sock = hook'[v].sock
        PROVE  u = v
    BY <1>1, <1>8, <2>2 DEF Places
  <2> QED
    BY <1>2, <1>10, <2>1, <2>2 DEF Places
<1>12. ASSUME "closing" \notin game, NEW u \in Threads
       PROVE  /\ \A v, d : On(u, v, d)' <=> On(u, v, d)
              /\ \A v, d : On(u, v, d) =>
                   FirstByte(u)' = FirstByte(u) /\ LastByte(u)' = LastByte(u)
  <2>1. CASE u = t
    <3>1. c # 0
      <4>1. c = hook[t].conn
        BY <1>1, <1>2, <1>12 DEF Places, c
      <4> QED
        BY <1>3, <4>1, PathAssumption DEF InHook, Hooks!Conns, Hooks!HookAssumption
    <3> QED
      BY <1>2, <1>5, <1>7, <2>1, <3>1 DEF On, FirstByte, LastByte
  <2>2. CASE u # t
    BY <1>7, <2>2 DEF On, FirstByte, LastByte
  <2> QED
    BY <2>1, <2>2
<1>13. Numbered' /\ Exact' /\ ByThread' /\ NoneMissed'
  BY <1>2, <1>12, HookKept
<1> QED
  BY <1>9, <1>11, <1>13 DEF HookInv

LEMMA RemotePortKept ==
  ASSUME HookInv, NEW t \in Threads, Hooks!RemotePort(t)
  PROVE  HookInv'
<1> DEFINE c == conn[hook[t].sock]
<1>1. HookTyped /\ Places
  BY DEF HookInv
<1>2. /\ hook[t].pc = "remote"
      /\ hook' = [hook EXCEPT ![t].pc = "capture", ![t].remote = c]
      /\ game' = game /\ conn' = conn /\ conns' = conns /\ next' = next
      /\ stream' = stream /\ captured' = captured
  BY DEF Hooks!RemotePort
<1>3. hook[t] \in InHook
  BY <1>1, <1>2 DEF HookTyped, Hooks!Idle
<1>4. c \in 0..MaxConns
  <2>1. hook[t].sock \in Sockets
    BY <1>3 DEF InHook
  <2>2. conn[hook[t].sock] \in 0..conns /\ conns \in 0..MaxConns /\ MaxConns \in Nat
    BY <1>1, <2>1, PathAssumption DEF HookTyped, Hooks!HookAssumption
  <2> QED
    BY <2>2
<1> HIDE DEF c
<1> DEFINE h == [hook[t] EXCEPT !.pc = "capture", !.remote = c]
<1>5. /\ h \in InHook /\ h.pc = "capture" /\ h.remote = c /\ h.local = hook[t].local
      /\ h.way = hook[t].way /\ h.sock = hook[t].sock /\ h.conn = hook[t].conn
      /\ h.from = hook[t].from /\ h.ends = hook[t].ends /\ h.at = hook[t].at
  BY <1>3, <1>4 DEF InHook
<1>6. hook' = [hook EXCEPT ![t] = h]
  BY <1>1, <1>2 DEF HookTyped
<1> HIDE DEF h
<1>7. /\ hook'[t] = h /\ \A u \in Threads : u # t => hook'[u] = hook[u]
      /\ hook' \in [Threads -> {Hooks!Idle} \cup InHook]
  BY <1>1, <1>5, <1>6 DEF HookTyped
<1>8. ASSUME NEW u \in Threads, hook'[u].pc # "idle"
      PROVE  /\ hook'[u].at <= Len(hook'[u].ends)
             /\ hook'[u].pc # "capture" => hook'[u].at = 1
             /\ hook'[u].pc # "local" => hook'[u].local # 0
             /\ hook[u].pc # "idle" /\ hook'[u].way = hook[u].way /\ hook'[u].sock = hook[u].sock
             /\ hook'[u].conn = hook[u].conn
  <2>1. CASE u = t
    BY <1>1, <1>2, <1>5, <1>7, <2>1 DEF HookTyped
  <2>2. CASE u # t
    BY <1>1, <1>7, <1>8, <2>2 DEF HookTyped
  <2> QED
    BY <2>1, <2>2
<1>9. HookTyped'
  BY <1>1, <1>2, <1>7, <1>8 DEF HookTyped
<1>10. ASSUME "closing" \notin game, NEW u \in Threads, hook'[u].pc # "idle"
       PROVE  /\ conn[hook'[u].sock] = hook'[u].conn
              /\ hook'[u].pc # "local" => hook'[u].local = hook'[u].conn
              /\ hook'[u].pc = "capture" => hook'[u].remote = hook'[u].conn
  <2>1. CASE u = t
    BY <1>1, <1>2, <1>5, <1>7, <1>10, <2>1 DEF Places, c
  <2>2. CASE u # t
    BY <1>1, <1>7, <1>10, <2>2 DEF Places
  <2> QED
    BY <2>1, <2>2
<1>11. Places'
  <2>1. \A s, u \in Sockets : conn[s] # 0 /\ conn[s] = conn[u] => s = u
    BY <1>1 DEF Places
  <2>2. ASSUME "shared" \notin game, NEW u \in Threads, NEW v \in Threads,
               hook'[u].pc # "idle", hook'[v].pc # "idle", hook'[u].way = hook'[v].way,
               hook'[u].sock = hook'[v].sock
        PROVE  u = v
    BY <1>1, <1>8, <2>2 DEF Places
  <2> QED
    BY <1>2, <1>10, <2>1, <2>2 DEF Places
<1>12. ASSUME NEW u \in Threads
       PROVE  /\ \A v, d : On(u, v, d)' <=> On(u, v, d)
              /\ \A v, d : On(u, v, d) =>
                   FirstByte(u)' = FirstByte(u) /\ LastByte(u)' = LastByte(u)
  <2>1. CASE u = t
    BY <1>2, <1>5, <1>7, <2>1 DEF On, FirstByte, LastByte
  <2>2. CASE u # t
    BY <1>7, <2>2 DEF On, FirstByte, LastByte
  <2> QED
    BY <2>1, <2>2
<1>13. Numbered' /\ Exact' /\ ByThread' /\ NoneMissed'
  BY <1>2, <1>12, HookKept
<1> QED
  BY <1>9, <1>11, <1>13 DEF HookInv

\* What Capture takes: the bytes from FirstByte to the end of a buffer.
EndByte(t) == hook[t].from + hook[t].ends[hook[t].at] - 1
Piece(t) == Hooks!Bytes(t, FirstByte(t), EndByte(t))

\* Where the thread that captures is, and where it is afterwards.
LEMMA CaptureFacts ==
  ASSUME HookTyped, NEW t \in Threads, Hooks!Capture(t)
  PROVE  /\ hook[t] \in InHook /\ hook[t].pc = "capture" /\ <<hook[t].local, hook[t].remote>>
              \in Hooks!Conns \X (0..MaxConns)
         /\ FirstByte(t) \in Nat \ {0} /\ EndByte(t) \in Int /\ LastByte(t) \in Int
         /\ FirstByte(t) <= EndByte(t) + 1 /\ EndByte(t) <= LastByte(t)
         /\ Piece(t) \in Seq(Hooks!Byte)
         /\ \A u \in Threads : u # t => hook'[u] = hook[u]
         /\ \/ hook'[t] = Hooks!Idle /\ EndByte(t) = LastByte(t)
            \/ /\ hook'[t] \in InHook /\ hook'[t].pc = "capture"
               /\ hook'[t].local = hook[t].local /\ hook'[t].remote = hook[t].remote
               /\ hook'[t].way = hook[t].way /\ hook'[t].sock = hook[t].sock
               /\ hook'[t].conn = hook[t].conn
               /\ hook'[t].at <= Len(hook'[t].ends)
               /\ FirstByte(t)' = EndByte(t) + 1 /\ LastByte(t)' = LastByte(t)
<1>1. hook[t].pc = "capture"
  BY DEF Hooks!Capture
<1>2. hook[t] \in InHook /\ hook[t].at <= Len(hook[t].ends) /\ hook[t].local # 0
  BY <1>1 DEF HookTyped, Hooks!Idle
<1> DEFINE h == hook[t]
           e == h.ends
           b == h.at
<1>3. e \in Buffering /\ b \in Nat \ {0} /\ h.from \in Nat \ {0} /\ b <= Len(e)
  BY <1>2 DEF InHook
<1>4. b \in 1..Len(e)
  <2>1. Len(e) \in Nat
    BY <1>3, LenProperties DEF Buffering
  <2> HIDE DEF b, e
  <2> QED
    BY <1>3, <2>1
<1>5. /\ Hooks!Total(e) \in Nat /\ Hooks!Begin(e, b) \in Nat /\ e[b] \in Nat
      /\ Hooks!Begin(e, b) <= e[b] /\ e[b] <= Hooks!Total(e)
      /\ b + 1 <= Len(e) => Hooks!Begin(e, b + 1) = e[b]
      /\ Len(e) \in Nat
  BY <1>3, <1>4, BufferingType
<1>6. /\ FirstByte(t) = h.from + Hooks!Begin(e, b) /\ EndByte(t) = h.from + e[b] - 1
      /\ LastByte(t) = h.from + Hooks!Total(e) - 1
  BY DEF FirstByte, EndByte, LastByte
<1>7. /\ FirstByte(t) \in Nat \ {0} /\ EndByte(t) \in Int /\ LastByte(t) \in Int
      /\ FirstByte(t) <= EndByte(t) + 1 /\ EndByte(t) <= LastByte(t)
  <2> DEFINE i == h.from
             x == Hooks!Begin(e, b)
             y == e[b]
             z == Hooks!Total(e)
  <2>1. i \in Nat \ {0} /\ x \in Nat /\ y \in Nat /\ z \in Nat /\ x <= y /\ y <= z
    BY <1>3, <1>5
  <2>2. FirstByte(t) = i + x /\ EndByte(t) = i + y - 1 /\ LastByte(t) = i + z - 1
    BY <1>6
  <2> HIDE DEF i, x, y, z
  <2> QED
    BY <2>1, <2>2
<1>8. Piece(t) \in Seq(Hooks!Byte)
  BY <1>7, BytesType DEF Piece, Hooks!Bytes
<1>9. <<h.local, h.remote>> \in Hooks!Conns \X (0..MaxConns)
  <2>1. h.local \in 0..MaxConns /\ h.remote \in 0..MaxConns /\ MaxConns \in Nat
    BY <1>2, PathAssumption DEF InHook, Hooks!HookAssumption
  <2>2. h.local \in Hooks!Conns
    BY <1>2, <2>1 DEF Hooks!Conns
  <2> QED
    BY <2>1, <2>2
<1>10. /\ hook'[t] = IF b = Len(e) THEN Hooks!Idle ELSE [h EXCEPT !.at = b + 1]
       /\ \A u \in Threads : u # t => hook'[u] = hook[u]
  BY DEF HookTyped, Hooks!Capture
<1>11. CASE b = Len(e)
  <2>1. EndByte(t) = LastByte(t)
    BY <1>6, <1>11 DEF Hooks!Total
  <2> QED
    BY <1>1, <1>2, <1>7, <1>8, <1>9, <1>10, <1>11, <2>1
<1>12. CASE b # Len(e)
  <2> DEFINE g == [h EXCEPT !.at = b + 1]
  <2>1. b + 1 <= Len(e) /\ b + 1 \in Nat \ {0}
    BY <1>4, <1>5, <1>12
  <2>2. /\ g \in InHook /\ g.pc = "capture" /\ g.local = h.local /\ g.remote = h.remote
        /\ g.way = h.way /\ g.sock = h.sock /\ g.conn = h.conn /\ g.from = h.from
        /\ g.ends = e /\ g.at = b + 1
    BY <1>1, <1>2, <2>1 DEF InHook
  <2>3. hook'[t] = g
    BY <1>10, <1>12
  <2> HIDE DEF g
  <2>4. FirstByte(t)' = h.from + e[b] /\ LastByte(t)' = LastByte(t)
    BY <1>5, <2>1, <2>2, <2>3 DEF FirstByte, LastByte
  <2>5. h.from + e[b] = EndByte(t) + 1
    <3> DEFINE i == h.from
               y == e[b]
    <3>1. i \in Nat \ {0} /\ y \in Nat /\ EndByte(t) = i + y - 1
      BY <1>3, <1>5, <1>6
    <3> HIDE DEF i, y
    <3>2. i + y = EndByte(t) + 1
      BY <3>1
    <3> QED
      BY <3>2 DEF i, y
  <2> QED
    BY <1>1, <1>2, <1>7, <1>8, <1>9, <1>10, <2>1, <2>2, <2>3, <2>4, <2>5
<1> QED
  BY <1>11, <1>12

LEMMA CaptureTyped ==
  ASSUME HookTyped, Places, NEW t \in Threads, Hooks!Capture(t)
  PROVE  HookTyped' /\ Places'
<1> DEFINE w == hook[t].way
           p == <<hook[t].local, hook[t].remote>>
<1>1. /\ game' = game /\ conn' = conn /\ conns' = conns /\ next' = next /\ stream' = stream
      /\ captured' = [captured EXCEPT ![w][p] = @ \o Piece(t)]
  BY DEF Hooks!Capture, Piece, FirstByte, EndByte
<1>2. /\ hook[t] \in InHook /\ hook[t].pc = "capture"
      /\ p \in Hooks!Conns \X (0..MaxConns) /\ Piece(t) \in Seq(Hooks!Byte)
      /\ \A u \in Threads : u # t => hook'[u] = hook[u]
      /\ \/ hook'[t] = Hooks!Idle
         \/ /\ hook'[t] \in InHook /\ hook'[t].pc = "capture"
            /\ hook'[t].local = hook[t].local /\ hook'[t].remote = hook[t].remote
            /\ hook'[t].way = hook[t].way /\ hook'[t].sock = hook[t].sock
            /\ hook'[t].conn = hook[t].conn
            /\ hook'[t].at <= Len(hook'[t].ends)
  BY CaptureFacts
<1>3. Hooks!Idle.pc = "idle"
  BY DEF Hooks!Idle
<1>4. w \in Hooks!Ways
  BY <1>2 DEF InHook
<1> HIDE DEF w, p
<1>5. captured' \in [Hooks!Ways -> [Hooks!Conns \X (0..MaxConns) -> Seq(Hooks!Byte)]]
  <2>1. captured \in [Hooks!Ways -> [Hooks!Conns \X (0..MaxConns) -> Seq(Hooks!Byte)]]
    BY DEF HookTyped
  <2>2. captured[w][p] \o Piece(t) \in Seq(Hooks!Byte)
    BY <1>2, <1>4, <2>1, ConcatProperties
  <2> DEFINE ports == Hooks!Conns \X (0..MaxConns)
  <2>3. p \in ports /\ captured \in [Hooks!Ways -> [ports -> Seq(Hooks!Byte)]]
    BY <1>2, <2>1
  <2> HIDE DEF ports
  <2>4. captured' \in [Hooks!Ways -> [ports -> Seq(Hooks!Byte)]]
    BY <1>1, <1>4, <2>2, <2>3
  <2> QED
    BY <2>4 DEF ports
<1>6. hook' \in [Threads -> {Hooks!Idle} \cup InHook]
  <2>1. hook \in [Threads -> {Hooks!Idle} \cup InHook]
    BY DEF HookTyped
  <2>2. hook' = [hook EXCEPT ![t] = hook'[t]]
    BY <2>1 DEF Hooks!Capture
  <2> QED
    BY <1>2, <2>1, <2>2
<1>7. ASSUME NEW u \in Threads, hook'[u].pc # "idle"
      PROVE  /\ hook'[u].at <= Len(hook'[u].ends)
             /\ hook'[u].pc # "capture" => hook'[u].at = 1
             /\ hook'[u].pc # "local" => hook'[u].local # 0
             /\ hook[u].pc # "idle" /\ hook'[u].way = hook[u].way /\ hook'[u].sock = hook[u].sock
             /\ hook'[u].conn = hook[u].conn
             /\ hook'[u].pc = hook[u].pc /\ hook'[u].local = hook[u].local
             /\ hook'[u].remote = hook[u].remote
  <2>1. CASE u = t
    BY <1>2, <1>3, <1>7, <2>1 DEF HookTyped
  <2>2. CASE u # t
    BY <1>2, <1>7, <2>2 DEF HookTyped
  <2> QED
    BY <2>1, <2>2
<1>8. HookTyped'
  BY <1>1, <1>5, <1>6, <1>7 DEF HookTyped
<1>9. Places'
  BY <1>1, <1>7 DEF Places
<1> QED
  BY <1>8, <1>9

\* In a game that closes no socket under a call, the ports are those of its connection.
LEMMA CaptureGot ==
  ASSUME HookTyped, Places, NEW t \in Threads, Hooks!Capture(t), "closing" \notin game
  PROVE  /\ On(t, hook[t].way, hook[t].conn)
         /\ hook[t].way \in Hooks!Ways /\ hook[t].conn \in Hooks!Conns
         /\ \A v \in Hooks!Ways, c \in Hooks!Conns :
              /\ v = hook[t].way /\ c = hook[t].conn => Got(v, c)' = Got(v, c) \o Piece(t)
              /\ v # hook[t].way \/ c # hook[t].conn => Got(v, c)' = Got(v, c)
         /\ \A v \in Hooks!Ways, c \in Hooks!Conns : Got(v, c) \in Seq(Hooks!Byte)
<1> DEFINE w == hook[t].way
           d == hook[t].conn
<1>1. hook[t] \in InHook /\ hook[t].pc = "capture"
  BY CaptureFacts
<1>2. w \in Hooks!Ways /\ d \in Hooks!Conns /\ On(t, w, d)
  BY <1>1 DEF InHook, On
<1>3. hook[t].local = d /\ hook[t].remote = d
  BY <1>1 DEF Places
<1>4. captured' = [captured EXCEPT ![w][<<d, d>>] = @ \o Piece(t)]
  BY <1>3 DEF Hooks!Capture, Piece, FirstByte, EndByte
<1> HIDE DEF w, d
<1>5. captured \in [Hooks!Ways -> [Hooks!Conns \X (0..MaxConns) -> Seq(Hooks!Byte)]]
  BY DEF HookTyped
<1>6. \A c \in Hooks!Conns : <<c, c>> \in Hooks!Conns \X (0..MaxConns)
  BY PathAssumption DEF Hooks!Conns, Hooks!HookAssumption
<1>7. \A v \in Hooks!Ways, c \in Hooks!Conns : Got(v, c) \in Seq(Hooks!Byte)
  BY <1>5, <1>6 DEF Got
<1> DEFINE ports == Hooks!Conns \X (0..MaxConns)
<1>8. captured \in [Hooks!Ways -> [ports -> Seq(Hooks!Byte)]] /\ \A c \in Hooks!Conns : <<c, c>> \in ports
  BY <1>5, <1>6
<1> HIDE DEF ports
<1>9. captured'[w][<<d, d>>] = captured[w][<<d, d>>] \o Piece(t)
  BY <1>2, <1>4, <1>8
<1>10. ASSUME NEW v \in Hooks!Ways, NEW c \in Hooks!Conns, v # w \/ c # d
       PROVE  captured'[v][<<c, c>>] = captured[v][<<c, c>>]
  <2>1. v # w \/ <<c, c>> # <<d, d>>
    BY <1>10
  <2> QED
    BY <1>2, <1>4, <1>8, <2>1
<1>11. \A v \in Hooks!Ways, c \in Hooks!Conns :
         v = w /\ c = d => Got(v, c)' = Got(v, c) \o Piece(t)
  BY <1>9 DEF Got
<1>12. \A v \in Hooks!Ways, c \in Hooks!Conns : v # w \/ c # d => Got(v, c)' = Got(v, c)
  BY <1>10 DEF Got
<1> QED
  BY <1>2, <1>7, <1>11, <1>12 DEF w, d

LEMMA CaptureOn ==
  ASSUME HookTyped, NEW t \in Threads, Hooks!Capture(t)
  PROVE  /\ \A u \in Threads : u # t =>
              /\ FirstByte(u)' = FirstByte(u) /\ LastByte(u)' = LastByte(u)
              /\ \A v, c : On(u, v, c)' <=> On(u, v, c)
         /\ \/ /\ EndByte(t) = LastByte(t) /\ \A v, c : ~On(t, v, c)'
            \/ /\ FirstByte(t)' = EndByte(t) + 1 /\ LastByte(t)' = LastByte(t)
               /\ \A v, c : On(t, v, c)' <=> On(t, v, c)
<1>1. /\ hook[t].pc = "capture"
      /\ \A u \in Threads : u # t => hook'[u] = hook[u]
      /\ \/ hook'[t] = Hooks!Idle /\ EndByte(t) = LastByte(t)
         \/ /\ hook'[t].pc = "capture"
            /\ hook'[t].way = hook[t].way /\ hook'[t].conn = hook[t].conn
            /\ FirstByte(t)' = EndByte(t) + 1 /\ LastByte(t)' = LastByte(t)
  BY CaptureFacts
<1>2. \A u \in Threads : u # t =>
        /\ FirstByte(u)' = FirstByte(u) /\ LastByte(u)' = LastByte(u)
        /\ \A v, c : On(u, v, c)' <=> On(u, v, c)
  BY <1>1 DEF On, FirstByte, LastByte
<1>3. CASE hook'[t] = Hooks!Idle /\ EndByte(t) = LastByte(t)
  <2>1. \A v, c : ~On(t, v, c)'
    BY <1>3 DEF On, Hooks!Idle
  <2> QED
    BY <1>2, <1>3, <2>1
<1>4. CASE /\ hook'[t].pc = "capture"
           /\ hook'[t].way = hook[t].way /\ hook'[t].conn = hook[t].conn
           /\ FirstByte(t)' = EndByte(t) + 1 /\ LastByte(t)' = LastByte(t)
  <2>1. \A v, c : On(t, v, c)' <=> On(t, v, c)
    BY <1>1, <1>4 DEF On
  <2> QED
    BY <1>2, <1>4, <2>1
<1> QED
  BY <1>1, <1>3, <1>4

\* The bytes that a thread has to capture are the piece and the rest.
LEMMA CaptureRest ==
  ASSUME HookTyped, NEW t \in Threads, Hooks!Capture(t)
  PROVE  /\ Piece(t) \in Seq(Hooks!Byte)
         /\ Hooks!Bytes(t, EndByte(t) + 1, LastByte(t)) \in Seq(Hooks!Byte)
         /\ Hooks!Bytes(t, FirstByte(t), LastByte(t))
            = Piece(t) \o Hooks!Bytes(t, EndByte(t) + 1, LastByte(t))
         /\ Hooks!Numbers(t, Piece(t)) = FirstByte(t)..EndByte(t)
         /\ \A u : u # t => Hooks!Numbers(u, Piece(t)) = {}
         /\ \A u : Hooks!OnceInOrder(u, Piece(t))
<1> DEFINE a == FirstByte(t)
           e == EndByte(t)
           l == LastByte(t)
<1>1. a \in Nat \ {0} /\ e \in Int /\ l \in Int /\ a <= e + 1 /\ e <= l
  BY CaptureFacts
<1>2. Piece(t) = Hooks!Bytes(t, a, e)
  BY DEF Piece
<1> HIDE DEF a, e, l
<1>3. Hooks!Bytes(t, a, l) = Hooks!Bytes(t, a, e) \o Hooks!Bytes(t, e + 1, l)
  BY <1>1, BytesJoined
<1>4. Hooks!Bytes(t, a, e) \in Seq(Hooks!Byte)
  BY <1>1, BytesType DEF Hooks!Bytes
<1>5. Hooks!Bytes(t, e + 1, l) \in Seq(Hooks!Byte)
  <2>1. e + 1 \in Nat \ {0} /\ e + 1 <= l + 1
    BY <1>1
  <2> QED
    BY <1>1, <2>1, BytesType DEF Hooks!Bytes
<1>6. /\ Hooks!Numbers(t, Hooks!Bytes(t, a, e)) = a..e
      /\ \A u : u # t => Hooks!Numbers(u, Hooks!Bytes(t, a, e)) = {}
  BY <1>1, BytesNumbers
<1>7. \A u : Hooks!OnceInOrder(u, Hooks!Bytes(t, a, e))
  BY <1>1, BytesNumbers DEF Hooks!Bytes
<1> QED
  BY <1>2, <1>3, <1>4, <1>5, <1>6, <1>7 DEF a, e, l

LEMMA CaptureExact ==
  ASSUME HookInv, NEW t \in Threads, Hooks!Capture(t)
  PROVE  Exact'
<1>1. HookTyped /\ Places /\ Exact
  BY DEF HookInv
<1> SUFFICES ASSUME game = {}, NEW v \in Hooks!Ways, NEW c \in Hooks!Conns
             PROVE  /\ \A u \in Threads : On(u, v, c)' =>
                         stream[v][c] = Got(v, c)' \o Hooks!Bytes(u, FirstByte(u)', LastByte(u)')
                    /\ (\A u \in Threads : ~On(u, v, c)') => stream[v][c] = Got(v, c)'
  <2>1. game' = game /\ stream' = stream
    BY DEF Hooks!Capture
  <2> QED
    BY <2>1 DEF Exact, Hooks!AtRest, On
<1>2. /\ \A u \in Threads : u # t =>
           /\ FirstByte(u)' = FirstByte(u) /\ LastByte(u)' = LastByte(u)
           /\ On(u, v, c)' <=> On(u, v, c)
      /\ \/ /\ EndByte(t) = LastByte(t) /\ ~On(t, v, c)'
         \/ /\ FirstByte(t)' = EndByte(t) + 1 /\ LastByte(t)' = LastByte(t)
            /\ On(t, v, c)' <=> On(t, v, c)
  BY <1>1, CaptureOn
<1>3. /\ \A u \in Threads : On(u, v, c) =>
           stream[v][c] = Got(v, c) \o Hooks!Bytes(u, FirstByte(u), LastByte(u))
      /\ (\A u \in Threads : ~On(u, v, c)) => stream[v][c] = Got(v, c)
  BY <1>1 DEF Exact, Hooks!AtRest, On
<1>4. /\ On(t, hook[t].way, hook[t].conn)
      /\ v = hook[t].way /\ c = hook[t].conn => Got(v, c)' = Got(v, c) \o Piece(t)
      /\ v # hook[t].way \/ c # hook[t].conn => Got(v, c)' = Got(v, c)
      /\ Got(v, c) \in Seq(Hooks!Byte)
  BY <1>1, CaptureGot
<1>5. CASE v # hook[t].way \/ c # hook[t].conn
  <2>1. ~On(t, v, c)
    BY <1>5 DEF On
  <2> QED
    BY <1>2, <1>3, <1>4, <1>5, <2>1
<1>6. CASE v = hook[t].way /\ c = hook[t].conn
  <2> DEFINE x == Got(v, c)
             y == Hooks!Bytes(t, EndByte(t) + 1, LastByte(t))
  <2>1. stream[v][c] = x \o Hooks!Bytes(t, FirstByte(t), LastByte(t))
    BY <1>3, <1>4, <1>6
  <2>2. /\ Piece(t) \in Seq(Hooks!Byte) /\ y \in Seq(Hooks!Byte)
        /\ Hooks!Bytes(t, FirstByte(t), LastByte(t)) = Piece(t) \o y
    BY <1>1, CaptureRest
  <2>3. ASSUME NEW u \in Threads, On(u, v, c) PROVE u = t
    <3>1. conn[hook[u].sock] = c /\ conn[hook[t].sock] = c /\ hook[u].way = hook[t].way
      BY <1>1, <1>4, <1>6, <2>3 DEF Places, On
    <3>2. hook[u] \in InHook /\ hook[t] \in InHook
      BY <1>1, <1>4, <2>3 DEF HookTyped, On, Hooks!Idle
    <3>3. hook[u].sock \in Sockets /\ hook[t].sock \in Sockets /\ c # 0
      BY <1>6, <3>2 DEF InHook, Hooks!Conns
    <3>4. hook[u].sock = hook[t].sock
      BY <1>1, <3>1, <3>3 DEF Places
    <3> QED
      BY <1>1, <1>4, <2>3, <3>1, <3>4 DEF Places, On
  <2>4. Got(v, c)' = x \o Piece(t)
    BY <1>4, <1>6
  <2>5. CASE EndByte(t) = LastByte(t) /\ ~On(t, v, c)'
    <3>1. Hooks!Bytes(t, FirstByte(t), LastByte(t)) = Piece(t)
      BY <2>5 DEF Piece
    <3> QED
      BY <1>2, <2>1, <2>3, <2>4, <2>5, <3>1
  <2>6. CASE FirstByte(t)' = EndByte(t) + 1 /\ LastByte(t)' = LastByte(t)
             /\ (On(t, v, c)' <=> On(t, v, c))
    <3>1. x \o (Piece(t) \o y) = (x \o Piece(t)) \o y
      <4>1. x \in Seq(Hooks!Byte)
        BY <1>4
      <4> HIDE DEF x, y
      <4> QED
        BY ONLY <2>2, <4>1, ConcatAssociative, SMTT(30)
    <3>2. stream[v][c] = Got(v, c)' \o y
      BY <2>1, <2>2, <2>4, <3>1
    <3>3. On(t, v, c)'
      BY <1>4, <1>6, <2>6
    <3>4. \A u \in Threads : On(u, v, c)' => u = t
      BY <1>2, <2>3
    <3> QED
      BY <2>6, <3>2, <3>3, <3>4
  <2> QED
    BY <1>2, <2>5, <2>6
<1> QED
  BY <1>5, <1>6

LEMMA CaptureByThread ==
  ASSUME HookInv, NEW t \in Threads, Hooks!Capture(t)
  PROVE  ByThread'
<1>1. HookTyped /\ Places /\ ByThread
  BY DEF HookInv
<1> SUFFICES ASSUME game \subseteq {"shared", "pending"},
                    NEW v \in Hooks!Ways, NEW c \in Hooks!Conns, NEW u \in Threads
             PROVE  /\ Hooks!OnceInOrder(u, Got(v, c)')
                    /\ On(u, v, c)' =>
                         /\ Hooks!Numbers(u, stream[v][c])
                            = Hooks!Numbers(u, Got(v, c)') \cup FirstByte(u)'..LastByte(u)'
                         /\ \A i \in Hooks!Numbers(u, Got(v, c)') : i < FirstByte(u)'
                    /\ ~On(u, v, c)' =>
                         Hooks!Numbers(u, stream[v][c]) = Hooks!Numbers(u, Got(v, c)')
  <2>1. game' = game /\ stream' = stream
    BY DEF Hooks!Capture
  <2> QED
    BY <2>1 DEF ByThread
<1>2. /\ u # t => /\ FirstByte(u)' = FirstByte(u) /\ LastByte(u)' = LastByte(u)
                  /\ On(u, v, c)' <=> On(u, v, c)
      /\ \/ /\ EndByte(t) = LastByte(t) /\ ~On(t, v, c)'
         \/ /\ FirstByte(t)' = EndByte(t) + 1 /\ LastByte(t)' = LastByte(t)
            /\ On(t, v, c)' <=> On(t, v, c)
  BY <1>1, CaptureOn
<1>3. /\ Hooks!OnceInOrder(u, Got(v, c))
      /\ On(u, v, c) =>
           /\ Hooks!Numbers(u, stream[v][c])
              = Hooks!Numbers(u, Got(v, c)) \cup FirstByte(u)..LastByte(u)
           /\ \A i \in Hooks!Numbers(u, Got(v, c)) : i < FirstByte(u)
      /\ ~On(u, v, c) => Hooks!Numbers(u, stream[v][c]) = Hooks!Numbers(u, Got(v, c))
  BY <1>1 DEF ByThread
<1>4. /\ On(t, hook[t].way, hook[t].conn)
      /\ v = hook[t].way /\ c = hook[t].conn => Got(v, c)' = Got(v, c) \o Piece(t)
      /\ v # hook[t].way \/ c # hook[t].conn => Got(v, c)' = Got(v, c)
      /\ Got(v, c) \in Seq(Hooks!Byte)
  BY <1>1, CaptureGot
<1>5. CASE v # hook[t].way \/ c # hook[t].conn
  <2>1. ~On(t, v, c)
    BY <1>5 DEF On
  <2> QED
    BY <1>2, <1>3, <1>4, <1>5, <2>1
<1>6. CASE v = hook[t].way /\ c = hook[t].conn
  <2> DEFINE x == Got(v, c)
             p == Piece(t)
  <2>1. /\ p \in Seq(Hooks!Byte) /\ Hooks!OnceInOrder(u, p)
        /\ Hooks!Numbers(t, p) = FirstByte(t)..EndByte(t)
        /\ u # t => Hooks!Numbers(u, p) = {}
    BY <1>1, CaptureRest
  <2>2. x \in Seq(Hooks!Byte) /\ Got(v, c)' = x \o p
    BY <1>4, <1>6
  <2>3. Hooks!Numbers(u, x \o p) = Hooks!Numbers(u, x) \cup Hooks!Numbers(u, p)
    BY <2>1, <2>2, NumbersJoined
  <2>4. \A i \in Hooks!Numbers(u, x) : i \in Nat
    BY <2>2, ByteOfSeq DEF Hooks!Numbers, Hooks!Own
  <2> HIDE DEF x, p
  <2>5. CASE u # t
    <3>1. Hooks!OnceInOrder(u, x \o p)
      <4>1. \A i \in Hooks!Numbers(u, x), j \in Hooks!Numbers(u, p) : i < j
        BY <2>1, <2>5
      <4> QED
        BY <1>3, <2>1, <2>2, <4>1, OrderJoined DEF x
    <3>2. Hooks!Numbers(u, Got(v, c)') = Hooks!Numbers(u, Got(v, c))
      BY <2>1, <2>2, <2>3, <2>5 DEF x
    <3> QED
      BY <1>2, <1>3, <2>2, <2>5, <3>1, <3>2
  <2>6. CASE u = t
    <3> DEFINE a == FirstByte(t)
               e == EndByte(t)
               l == LastByte(t)
    <3>1. a \in Nat \ {0} /\ e \in Int /\ l \in Int /\ a <= e + 1 /\ e <= l
      BY <1>1, CaptureFacts
    <3>2. /\ Hooks!Numbers(t, stream[v][c]) = Hooks!Numbers(t, x) \cup a..l
          /\ \A i \in Hooks!Numbers(t, x) : i < a
      BY <1>3, <1>4, <1>6, <2>6 DEF x
    <3>3. Hooks!OnceInOrder(t, x \o p)
      <4>1. \A i \in Hooks!Numbers(t, x), j \in Hooks!Numbers(t, p) : i < j
        <5> HIDE DEF a, e, l
        <5>1. \A i \in Hooks!Numbers(t, x), j \in a..e : i < j
          BY <2>4, <2>6, <3>1, <3>2
        <5> QED
          BY <2>1, <5>1 DEF a, e
      <4> QED
        BY <1>3, <2>1, <2>2, <2>6, <4>1, OrderJoined DEF x
    <3>4. Hooks!Numbers(t, Got(v, c)') = Hooks!Numbers(t, x) \cup a..e
      BY <2>1, <2>2, <2>3, <2>6
    <3>5. CASE e = l /\ ~On(t, v, c)'
      BY <2>2, <2>6, <3>2, <3>3, <3>4, <3>5
    <3>6. CASE FirstByte(t)' = e + 1 /\ LastByte(t)' = l /\ (On(t, v, c)' <=> On(t, v, c))
      <4>1. On(t, v, c)'
        BY <1>4, <1>6, <3>6
      <4>2. a..l = (a..e) \cup ((e + 1)..l)
        <5> HIDE DEF a, e, l
        <5> QED
          BY <3>1
      <4>3. \A i \in Hooks!Numbers(t, x) \cup a..e : i < e + 1
        <5> HIDE DEF a, e, l
        <5> QED
          BY <2>4, <2>6, <3>1, <3>2
      <4> QED
        BY <2>2, <2>6, <3>2, <3>3, <3>4, <3>6, <4>1, <4>2, <4>3
    <3> QED
      BY <1>2, <3>5, <3>6
  <2> QED
    BY <2>5, <2>6
<1> QED
  BY <1>5, <1>6

LEMMA CaptureNoneMissed ==
  ASSUME HookInv, NEW t \in Threads, Hooks!Capture(t)
  PROVE  NoneMissed'
<1>1. HookTyped /\ Places /\ NoneMissed
  BY DEF HookInv
<1> SUFFICES ASSUME game \subseteq {"shared", "partial"},
                    NEW v \in Hooks!Ways, NEW c \in Hooks!Conns, NEW b \in ToSet(stream[v][c])
             PROVE  \/ b \in ToSet(Got(v, c)')
                    \/ \E u \in Threads :
                         /\ On(u, v, c)'
                         /\ b \in ToSet(Hooks!Bytes(u, FirstByte(u)', LastByte(u)'))
  <2>1. game' = game /\ stream' = stream
    BY DEF Hooks!Capture
  <2> QED
    BY <2>1 DEF NoneMissed
<1>2. /\ \A u \in Threads : u # t =>
           /\ FirstByte(u)' = FirstByte(u) /\ LastByte(u)' = LastByte(u)
           /\ On(u, v, c)' <=> On(u, v, c)
      /\ \/ /\ EndByte(t) = LastByte(t) /\ ~On(t, v, c)'
         \/ /\ FirstByte(t)' = EndByte(t) + 1 /\ LastByte(t)' = LastByte(t)
            /\ On(t, v, c)' <=> On(t, v, c)
  BY <1>1, CaptureOn
<1>3. /\ On(t, hook[t].way, hook[t].conn)
      /\ v = hook[t].way /\ c = hook[t].conn => Got(v, c)' = Got(v, c) \o Piece(t)
      /\ v # hook[t].way \/ c # hook[t].conn => Got(v, c)' = Got(v, c)
      /\ Got(v, c) \in Seq(Hooks!Byte)
  BY <1>1, CaptureGot
<1> DEFINE y == Hooks!Bytes(t, EndByte(t) + 1, LastByte(t))
<1>4. /\ Piece(t) \in Seq(Hooks!Byte) /\ y \in Seq(Hooks!Byte)
      /\ Hooks!Bytes(t, FirstByte(t), LastByte(t)) = Piece(t) \o y
  BY <1>1, CaptureRest
<1>5. /\ ToSet(Got(v, c)) \subseteq ToSet(Got(v, c)')
      /\ On(t, v, c) => ToSet(Piece(t)) \subseteq ToSet(Got(v, c)')
  <2>1. CASE v # hook[t].way \/ c # hook[t].conn
    BY <1>3, <2>1 DEF On
  <2>2. CASE v = hook[t].way /\ c = hook[t].conn
    <3>1. ToSet(Got(v, c) \o Piece(t)) = ToSet(Got(v, c)) \cup ToSet(Piece(t))
      BY <1>3, <1>4, ToSetJoined
    <3> QED
      BY <1>3, <2>2, <3>1
  <2> QED
    BY <2>1, <2>2
<1>6. \/ b \in ToSet(Got(v, c))
      \/ \E u \in Threads : On(u, v, c) /\ b \in ToSet(Hooks!Bytes(u, FirstByte(u), LastByte(u)))
  BY <1>1 DEF NoneMissed
<1>7. CASE b \in ToSet(Got(v, c))
  BY <1>5, <1>7
<1>8. ASSUME NEW u \in Threads, u # t, On(u, v, c),
             b \in ToSet(Hooks!Bytes(u, FirstByte(u), LastByte(u)))
      PROVE  /\ On(u, v, c)'
             /\ b \in ToSet(Hooks!Bytes(u, FirstByte(u)', LastByte(u)'))
  BY <1>2, <1>8
<1>9. CASE On(t, v, c) /\ b \in ToSet(Hooks!Bytes(t, FirstByte(t), LastByte(t)))
  <2>1. b \in ToSet(Piece(t)) \/ b \in ToSet(y)
    BY <1>4, <1>9, ToSetJoined
  <2>2. CASE b \in ToSet(Piece(t))
    BY <1>5, <1>9, <2>2
  <2>3. CASE b \in ToSet(y)
    <3>1. CASE EndByte(t) = LastByte(t)
      <4>1. b \in ToSet(Piece(t))
        BY <1>9, <3>1 DEF Piece
      <4> QED
        BY <1>5, <1>9, <4>1
    <3>2. CASE FirstByte(t)' = EndByte(t) + 1 /\ LastByte(t)' = LastByte(t)
               /\ (On(t, v, c)' <=> On(t, v, c))
      BY <1>9, <2>3, <3>2
    <3> QED
      BY <1>2, <3>1, <3>2
  <2> QED
    BY <2>1, <2>2, <2>3
<1> QED
  BY <1>6, <1>7, <1>8, <1>9

LEMMA CaptureKept ==
  ASSUME HookInv, NEW t \in Threads, Hooks!Capture(t)
  PROVE  HookInv'
<1>1. HookTyped /\ Places /\ Numbered
  BY DEF HookInv
<1>2. HookTyped' /\ Places'
  BY <1>1, CaptureTyped
<1>3. Numbered'
  BY <1>1 DEF Numbered, Hooks!Capture
<1> QED
  BY <1>2, <1>3, CaptureExact, CaptureByThread, CaptureNoneMissed DEF HookInv

LEMMA ConnectKept ==
  ASSUME HookInv, NEW s \in Sockets, Hooks!Connect(s)
  PROVE  HookInv'
<1>1. HookTyped /\ Places
  BY DEF HookInv
<1>2. /\ conn[s] = 0 /\ conns < MaxConns /\ conns' = conns + 1
      /\ conn' = [conn EXCEPT ![s] = conns + 1]
      /\ game' = game /\ next' = next /\ stream' = stream /\ hook' = hook /\ captured' = captured
  BY DEF Hooks!Connect
<1>3. MaxConns \in Nat /\ conns \in 0..MaxConns /\ conn \in [Sockets -> 0..conns]
  BY <1>1, PathAssumption DEF HookTyped, Hooks!HookAssumption
<1>4. conns' \in 0..MaxConns /\ conn' \in [Sockets -> 0..conns']
  <2>1. conns + 1 \in 0..(conns + 1) /\ 0..conns \subseteq 0..(conns + 1) /\ conns + 1 \in 0..MaxConns
    BY <1>2, <1>3
  <2> QED
    BY <1>2, <1>3, <2>1
<1>5. HookTyped'
  BY <1>1, <1>2, <1>4 DEF HookTyped
<1>6. /\ conn'[s] = conns + 1
      /\ \A u \in Sockets : u # s => conn'[u] = conn[u]
      /\ \A u \in Sockets : conn[u] # conns + 1
  BY <1>2, <1>3
<1>7. \A r, u \in Sockets : conn'[r] # 0 /\ conn'[r] = conn'[u] => r = u
  BY <1>1, <1>6 DEF Places
<1>8. ASSUME "closing" \notin game, NEW t \in Threads, hook[t].pc # "idle"
      PROVE  conn'[hook[t].sock] = conn[hook[t].sock]
  <2>1. hook[t] \in InHook
    BY <1>1, <1>8 DEF HookTyped, Hooks!Idle
  <2>2. hook[t].sock \in Sockets /\ hook[t].conn # 0
    BY <2>1, PathAssumption DEF InHook, Hooks!Conns, Hooks!HookAssumption
  <2>3. hook[t].sock # s
    BY <1>1, <1>2, <1>8, <2>2 DEF Places
  <2> QED
    BY <1>6, <2>2, <2>3
<1>9. Places'
  BY <1>1, <1>2, <1>7, <1>8 DEF Places
<1>10. Numbered' /\ Exact' /\ ByThread' /\ NoneMissed'
  <2>1. \A u \in Threads :
          /\ \A v, c : On(u, v, c)' <=> On(u, v, c)
          /\ \A v, c : On(u, v, c) =>
               FirstByte(u)' = FirstByte(u) /\ LastByte(u)' = LastByte(u)
    BY <1>2 DEF On, FirstByte, LastByte
  <2> QED
    BY <1>2, <2>1, HookKept
<1> QED
  BY <1>5, <1>9, <1>10 DEF HookInv

LEMMA CloseSocketKept ==
  ASSUME HookInv, NEW s \in Sockets, Hooks!CloseSocket(s)
  PROVE  HookInv'
<1>1. HookTyped /\ Places
  BY DEF HookInv
<1>2. /\ conns' = conns /\ conn' = [conn EXCEPT ![s] = 0]
      /\ game' = game /\ next' = next /\ stream' = stream /\ hook' = hook /\ captured' = captured
      /\ "closing" \notin game => \A w \in Hooks!Ways : ~Hooks!Busy(s, w)
  BY DEF Hooks!CloseSocket
<1>3. MaxConns \in Nat /\ conns \in 0..MaxConns /\ conn \in [Sockets -> 0..conns]
  BY <1>1, PathAssumption DEF HookTyped, Hooks!HookAssumption
<1>4. conn' \in [Sockets -> 0..conns]
  BY <1>2, <1>3
<1>5. HookTyped'
  BY <1>1, <1>2, <1>4 DEF HookTyped
<1>6. conn'[s] = 0 /\ \A u \in Sockets : u # s => conn'[u] = conn[u]
  BY <1>2, <1>3
<1>7. \A r, u \in Sockets : conn'[r] # 0 /\ conn'[r] = conn'[u] => r = u
  BY <1>1, <1>6 DEF Places
<1>8. ASSUME "closing" \notin game, NEW t \in Threads, hook[t].pc # "idle"
      PROVE  conn'[hook[t].sock] = conn[hook[t].sock]
  <2>1. hook[t] \in InHook
    BY <1>1, <1>8 DEF HookTyped, Hooks!Idle
  <2>2. hook[t].sock \in Sockets /\ hook[t].way \in Hooks!Ways
    BY <2>1 DEF InHook
  <2>3. hook[t].sock # s
    BY <1>2, <1>8, <2>2 DEF Hooks!Busy
  <2> QED
    BY <1>6, <2>2, <2>3
<1>9. Places'
  BY <1>1, <1>2, <1>7, <1>8 DEF Places
<1>10. Numbered' /\ Exact' /\ ByThread' /\ NoneMissed'
  <2>1. \A u \in Threads :
          /\ \A v, c : On(u, v, c)' <=> On(u, v, c)
          /\ \A v, c : On(u, v, c) =>
               FirstByte(u)' = FirstByte(u) /\ LastByte(u)' = LastByte(u)
    BY <1>2 DEF On, FirstByte, LastByte
  <2> QED
    BY <1>2, <2>1, HookKept
<1> QED
  BY <1>5, <1>9, <1>10 DEF HookInv

-----------------------------------------------------------------------------
(***************************************************************************)
(* What holds of the hooks in every state reachable.                       *)
(***************************************************************************)

\* Init in full, for the prover.
LEMMA InitFacts ==
  ASSUME Hooks!Init
  PROVE  /\ HookTyped
         /\ \A t \in Threads : hook[t].pc = "idle"
         /\ \A s \in Sockets : conn[s] = 0
         /\ \A w \in Hooks!Ways, c \in Hooks!Conns : stream[w][c] = <<>> /\ Got(w, c) = <<>>
<1>1. MaxConns \in Nat
  BY PathAssumption DEF Hooks!HookAssumption
<1>2. /\ game \in Games /\ conns = 0 /\ conn = [s \in Sockets |-> 0]
      /\ next = [t \in Threads |-> 1] /\ hook = [t \in Threads |-> Hooks!Idle]
      /\ stream = [w \in Hooks!Ways |-> [c \in Hooks!Conns |-> <<>>]]
      /\ captured = [w \in Hooks!Ways |-> [ports \in Hooks!Conns \X (0..MaxConns) |-> <<>>]]
  BY DEF Hooks!Init
<1>3. <<>> \in Seq(Hooks!Byte)
  BY EmptySeq
<1>4. \A t \in Threads : hook[t].pc = "idle"
  BY <1>2 DEF Hooks!Idle
<1>5. conns \in 0..MaxConns /\ conn \in [Sockets -> 0..conns] /\ next \in [Threads -> Nat \ {0}]
  BY <1>1, <1>2
<1>6. stream \in [Hooks!Ways -> [Hooks!Conns -> Seq(Hooks!Byte)]]
  BY <1>2, <1>3
<1>7. captured \in [Hooks!Ways -> [Hooks!Conns \X (0..MaxConns) -> Seq(Hooks!Byte)]]
  BY <1>2, <1>3
<1>8. HookTyped
  BY <1>2, <1>4, <1>5, <1>6, <1>7 DEF HookTyped
<1>9. \A c \in Hooks!Conns : <<c, c>> \in Hooks!Conns \X (0..MaxConns)
  BY <1>1 DEF Hooks!Conns
<1>10. \A w \in Hooks!Ways, c \in Hooks!Conns : stream[w][c] = <<>> /\ Got(w, c) = <<>>
  BY <1>2, <1>9 DEF Got
<1> QED
  BY <1>2, <1>4, <1>8, <1>10

\* Nothing is in the empty sequence.
LEMMA NoBytes ==
  ASSUME NEW t \in Threads
  PROVE  Hooks!Own(t, <<>>) = {} /\ Hooks!Numbers(t, <<>>) = {} /\ Hooks!OnceInOrder(t, <<>>)
<1>1. Hooks!Own(t, <<>>) = {}
  BY EmptySeq DEF Hooks!Own
<1> QED
  BY <1>1 DEF Hooks!Numbers, Hooks!OnceInOrder

LEMMA InitHook ==
  ASSUME Hooks!Init
  PROVE  HookInv
<1>1. /\ HookTyped
      /\ \A t \in Threads : hook[t].pc = "idle"
      /\ \A s \in Sockets : conn[s] = 0
      /\ \A w \in Hooks!Ways, c \in Hooks!Conns : stream[w][c] = <<>> /\ Got(w, c) = <<>>
  BY InitFacts
<1>2. Places
  BY <1>1 DEF Places
<1>3. DOMAIN <<>> = {} /\ ToSet(<<>>) = {}
  BY EmptySeq DEF ToSet
<1>4. "out" \in Hooks!Ways /\ "in" \in Hooks!Ways
  BY DEF Hooks!Ways
<1>5. Numbered
  BY <1>1, <1>3, <1>4, NoBytes DEF Numbered
<1>6. \A t \in Threads, w \in Hooks!Ways, c \in Hooks!Conns : ~On(t, w, c)
  BY <1>1 DEF On
<1>7. Exact
  BY <1>1, <1>6 DEF Exact
<1>8. ByThread
  BY <1>1, <1>6, NoBytes DEF ByThread
<1>9. NoneMissed
  BY <1>1, <1>3 DEF NoneMissed
<1> QED
  BY <1>1, <1>2, <1>5, <1>7, <1>8, <1>9 DEF HookInv

LEMMA HookUnchanged ==
  ASSUME HookInv, UNCHANGED hookVars
  PROVE  HookInv'
<1>1. /\ game' = game /\ conn' = conn /\ conns' = conns /\ next' = next
      /\ stream' = stream /\ hook' = hook /\ captured' = captured
  BY DEF hookVars
<1>2. HookTyped' /\ Places'
  BY <1>1 DEF HookInv, HookTyped, Places
<1>3. \A u \in Threads :
        /\ \A v, c : On(u, v, c)' <=> On(u, v, c)
        /\ \A v, c : On(u, v, c) => FirstByte(u)' = FirstByte(u) /\ LastByte(u)' = LastByte(u)
  BY <1>1 DEF On, FirstByte, LastByte
<1>4. Numbered' /\ Exact' /\ ByThread' /\ NoneMissed'
  BY <1>1, <1>3, HookKept
<1> QED
  BY <1>2, <1>4 DEF HookInv

LEMMA NextHook == HookInv /\ [Hooks!Next]_hookVars => HookInv'
<1> SUFFICES ASSUME HookInv, [Hooks!Next]_hookVars
             PROVE  HookInv'
  OBVIOUS
<1>1. ASSUME NEW t \in Threads, NEW s \in Sockets, Hooks!Call(t, s) PROVE HookInv'
  <2>1. HookTyped
    BY DEF HookInv
  <2>2. CASE \E w \in Hooks!Ways, from \in Nat \ {0}, ends \in Buffering, sent \in Nat \ {0} :
               Called(t, s, w, from, ends, sent)
    BY <2>2, CalledKept
  <2>3. CASE \E ends \in Buffering : Hooks!HookWSASendPending(t, s, ends)
    BY <2>3, PendingKept
  <2> QED
    BY <1>1, <2>1, <2>2, <2>3, CallCalled
<1>2. ASSUME NEW t \in Threads, Hooks!LocalPort(t) \/ Hooks!RemotePort(t) \/ Hooks!Capture(t)
      PROVE  HookInv'
  BY <1>2, LocalPortKept, RemotePortKept, CaptureKept
<1>3. ASSUME NEW s \in Sockets, Hooks!Connect(s) \/ Hooks!CloseSocket(s)
      PROVE  HookInv'
  BY <1>3, ConnectKept, CloseSocketKept
<1>4. CASE UNCHANGED hookVars
  BY <1>4, HookUnchanged
<1> QED
  BY <1>1, <1>2, <1>3, <1>4 DEF Hooks!Next

\* In every state reachable: sockets and hooks are where Places says, bytes are numbered
\* upwards, and what is captured of a stream is what its calls have not still to capture
\* (hook_send, hook_recv, hook_wsasend and hook_wsarecvex, lib.rs:61).
THEOREM HookInvariance == PathSpec => []HookInv
<1>1. PathInit => HookInv
  BY InitHook DEF PathInit
<1>2. HookInv /\ [HookStep \/ PipeStep]_<<vars, hookVars>> => HookInv'
  <2>1. [HookStep \/ PipeStep]_<<vars, hookVars>> => [Hooks!Next]_hookVars
    BY DEF HookStep, PipeStep
  <2> QED
    BY <2>1, NextHook
<1> QED
  BY <1>1, <1>2, PTL DEF PathSpec

-----------------------------------------------------------------------------
(***************************************************************************)
(* What is captured.                                                       *)
(***************************************************************************)

\* What a thread in a hook has still to capture.
LEMMA LeftBytes ==
  ASSUME HookTyped, NEW t \in Threads, hook[t].pc # "idle"
  PROVE  /\ FirstByte(t) \in Nat \ {0}
         /\ Hooks!Bytes(t, FirstByte(t), LastByte(t)) \in Seq(Hooks!Byte)
<1> DEFINE e == hook[t].ends
           b == hook[t].at
           i == hook[t].from
<1>1. hook[t] \in InHook /\ b <= Len(e)
  BY DEF HookTyped, Hooks!Idle
<1>2. e \in Buffering /\ b \in Nat \ {0} /\ i \in Nat \ {0}
  BY <1>1 DEF InHook
<1>3. Len(e) \in Nat
  BY <1>2, LenProperties DEF Buffering
<1> DEFINE l == Len(e)
<1> HIDE DEF b, e, i
<1>4. b \in 1..l
  BY <1>1, <1>2, <1>3
<1> DEFINE x == Hooks!Begin(e, b)
           z == Hooks!Total(e)
<1>5. x \in Nat /\ z \in Nat /\ x <= z
  <2>1. /\ z \in Nat /\ x \in Nat /\ e[b] \in Nat
        /\ x <= e[b] /\ e[b] <= z
    BY <1>2, <1>4, BufferingType
  <2> DEFINE y == e[b]
  <2> HIDE DEF x, y, z
  <2> QED
    BY <2>1 DEF y
<1>6. FirstByte(t) = i + x /\ LastByte(t) = i + z - 1
  BY DEF FirstByte, LastByte, i, e, b
<1> HIDE DEF x, z
<1>7. FirstByte(t) \in Nat \ {0} /\ LastByte(t) \in Int /\ FirstByte(t) <= LastByte(t) + 1
  BY <1>2, <1>5, <1>6
<1> QED
  BY <1>7, BytesType DEF Hooks!Bytes

\* What was joined to is a prefix.
LEMMA PrefixJoined ==
  ASSUME NEW x \in Seq(Hooks!Byte), NEW y \in Seq(Hooks!Byte)
  PROVE  IsPrefix(x, x \o y) /\ IsPrefix(x, x)
<1>1. /\ Len(x) \in Nat /\ Len(y) \in Nat /\ x \o y \in Seq(Hooks!Byte)
      /\ Len(x \o y) = Len(x) + Len(y)
      /\ \A k \in 1..Len(x) : (x \o y)[k] = x[k]
  BY ConcatProperties, LenProperties
<1>2. \A z \in Seq(Hooks!Byte) :
        (Len(x) <= Len(z) /\ \A k \in 1..Len(x) : z[k] = x[k]) => IsPrefix(x, z)
  <2> SUFFICES ASSUME NEW z \in Seq(Hooks!Byte), Len(x) <= Len(z),
                      \A k \in 1..Len(x) : z[k] = x[k]
               PROVE  IsPrefix(x, z)
    OBVIOUS
  <2>1. Len(x) \in 0..Len(z) /\ Len(x) \in 0..Len(x)
    BY <1>1, LenProperties
  <2>2. \A u \in Seq(Hooks!Byte) : Len(x) \in 0..Len(u) =>
          /\ SubSeq(u, 1, Len(x)) \in Seq(Hooks!Byte) /\ Len(SubSeq(u, 1, Len(x))) = Len(x)
          /\ \A k \in 1..Len(x) : SubSeq(u, 1, Len(x))[k] = u[k]
    BY CutInTwo
  <2>3. SubSeq(z, 1, Len(x)) = SubSeq(x, 1, Len(x))
    <3> DEFINE u == SubSeq(z, 1, Len(x))
               v == SubSeq(x, 1, Len(x))
    <3>1. /\ u \in Seq(Hooks!Byte) /\ v \in Seq(Hooks!Byte)
          /\ Len(u) = Len(x) /\ Len(v) = Len(x)
          /\ \A k \in 1..Len(x) : u[k] = v[k]
      BY <2>1, <2>2
    <3> HIDE DEF u, v
    <3>2. u = v
      BY <3>1, SeqEqual
    <3> QED
      BY <3>2 DEF u, v
  <2> QED
    BY <2>3 DEF IsPrefix
<1> DEFINE a == Len(x)
           d == Len(x \o y)
<1>3. a <= d /\ a <= a
  BY <1>1
<1>4. \A k \in 1..a : x[k] = x[k]
  OBVIOUS
<1> QED
  BY <1>1, <1>2, <1>3, <1>4

\* A thread's bytes that are captured are the first of those it sent.
LEMMA ThreadFirst ==
  ASSUME HookTyped, Numbered, ByThread, game \subseteq {"shared", "pending"},
         NEW w \in Hooks!Ways, NEW c \in Hooks!Conns, NEW t \in Threads
  PROVE  /\ Hooks!FirstOf(t, Got(w, c), stream[w][c])
         /\ ~On(t, w, c) => Hooks!Numbers(t, Got(w, c)) = Hooks!Numbers(t, stream[w][c])
<1> DEFINE got == Hooks!Numbers(t, Got(w, c))
           sent == Hooks!Numbers(t, stream[w][c])
<1>1. /\ Hooks!OnceInOrder(t, Got(w, c))
      /\ On(t, w, c) => /\ sent = got \cup FirstByte(t)..LastByte(t)
                        /\ \A i \in got : i < FirstByte(t)
      /\ ~On(t, w, c) => sent = got
  BY DEF ByThread
<1>2. Hooks!OnceInOrder(t, stream[w][c])
  BY DEF Numbered
<1>3. got \subseteq Nat
  <2>1. <<c, c>> \in Hooks!Conns \X (0..MaxConns)
    BY PathAssumption DEF Hooks!Conns, Hooks!HookAssumption
  <2>2. Got(w, c) \in Seq(Hooks!Byte)
    BY <2>1 DEF HookTyped, Got
  <2> QED
    BY <2>2, ByteOfSeq DEF Hooks!Numbers, Hooks!Own
<1>4. CASE On(t, w, c)
  <2> DEFINE a == FirstByte(t)
             z == LastByte(t)
  <2>1. a \in Nat
    BY <1>4, LeftBytes DEF On
  <2>2. sent = got \cup a..z /\ \A i \in got : i < a
    BY <1>1, <1>4
  <2> HIDE DEF a, z, got, sent
  <2>3. \A i \in sent, j \in got : i < j => i \in got
    BY <1>3, <2>1, <2>2
  <2> QED
    BY <1>1, <1>2, <1>4, <2>2, <2>3 DEF Hooks!FirstOf, got, sent
<1>5. CASE ~On(t, w, c)
  BY <1>1, <1>2, <1>5 DEF Hooks!FirstOf
<1> QED
  BY <1>4, <1>5

LEMMA InvReassembled == HookInv => StreamsReassembled
<1> SUFFICES ASSUME HookInv, NEW w \in Hooks!Ways, NEW c \in Hooks!Conns
             PROVE  /\ game = {} =>
                         /\ IsPrefix(Got(w, c), stream[w][c])
                         /\ Hooks!AtRest(w, c) => Got(w, c) = stream[w][c]
                    /\ game \subseteq {"shared", "pending"} =>
                         \A t \in Threads :
                           /\ Hooks!FirstOf(t, Got(w, c), stream[w][c])
                           /\ Hooks!AtRest(w, c) =>
                                Hooks!Numbers(t, Got(w, c)) = Hooks!Numbers(t, stream[w][c])
                    /\ game \subseteq {"shared", "partial"} =>
                         (Hooks!AtRest(w, c) => ToSet(stream[w][c]) \subseteq ToSet(Got(w, c)))
  <2> DEFINE P(w, c, g, r) ==
        /\ game = {} => IsPrefix(g, r) /\ (Hooks!AtRest(w, c) => g = r)
        /\ game \subseteq {"shared", "pending"} =>
             \A t \in Threads :
               /\ Hooks!FirstOf(t, g, r)
               /\ Hooks!AtRest(w, c) => Hooks!Numbers(t, g) = Hooks!Numbers(t, r)
        /\ game \subseteq {"shared", "partial"} =>
             (Hooks!AtRest(w, c) => ToSet(r) \subseteq ToSet(g))
  <2>1. (\A w \in Hooks!Ways, c \in Hooks!Conns : P(w, c, captured[w][<<c, c>>], stream[w][c]))
          => StreamsReassembled
    BY DEF StreamsReassembled, Hooks!StreamsReassembled, IsPrefix, Hooks!IsPrefix,
           ToSet, Hooks!ToSet
  <2>2. \A w, c : Got(w, c) = captured[w][<<c, c>>]
    BY DEF Got
  <2> QED
    BY <2>1, <2>2
<1>1. HookTyped /\ Numbered /\ Exact /\ ByThread /\ NoneMissed
  BY DEF HookInv
<1>2. Hooks!AtRest(w, c) <=> \A t \in Threads : ~On(t, w, c)
  BY DEF Hooks!AtRest, On
<1>3. ASSUME game = {}
      PROVE  IsPrefix(Got(w, c), stream[w][c]) /\ (Hooks!AtRest(w, c) => Got(w, c) = stream[w][c])
  <2>1. Got(w, c) \in Seq(Hooks!Byte)
    <3>1. <<c, c>> \in Hooks!Conns \X (0..MaxConns)
      BY PathAssumption DEF Hooks!Conns, Hooks!HookAssumption
    <3> QED
      BY <1>1, <3>1 DEF HookTyped, Got
  <2>2. CASE Hooks!AtRest(w, c)
    BY <1>1, <1>3, <2>1, <2>2, PrefixJoined DEF Exact
  <2>3. CASE ~Hooks!AtRest(w, c)
    <3>1. PICK t \in Threads : On(t, w, c)
      BY <1>2, <2>3
    <3>2. stream[w][c] = Got(w, c) \o Hooks!Bytes(t, FirstByte(t), LastByte(t))
      BY <1>1, <1>3, <3>1 DEF Exact
    <3>3. Hooks!Bytes(t, FirstByte(t), LastByte(t)) \in Seq(Hooks!Byte)
      BY <1>1, <3>1, LeftBytes DEF On
    <3> QED
      BY <2>1, <2>3, <3>2, <3>3, PrefixJoined
  <2> QED
    BY <2>2, <2>3
<1>4. ASSUME game \subseteq {"shared", "pending"}, NEW t \in Threads
      PROVE  /\ Hooks!FirstOf(t, Got(w, c), stream[w][c])
             /\ Hooks!AtRest(w, c) => Hooks!Numbers(t, Got(w, c)) = Hooks!Numbers(t, stream[w][c])
  BY <1>1, <1>2, <1>4, ThreadFirst
<1>5. ASSUME game \subseteq {"shared", "partial"}, Hooks!AtRest(w, c)
      PROVE  ToSet(stream[w][c]) \subseteq ToSet(Got(w, c))
  BY <1>1, <1>2, <1>5 DEF NoneMissed
<1> QED
  BY <1>3, <1>4, <1>5

\* What is captured under the ports of a connection is its stream, whatever the threads of
\* the game do between the call, the two questions for the ports and write_capture
\* (hook_send, hook_recv, hook_wsasend and hook_wsarecvex, lib.rs:61); a game with other
\* habits still finds every thread's bytes once each and in order, or misses none.
THEOREM StreamsOfCalls == PathSpec => []StreamsReassembled
BY InvReassembled, HookInvariance, PTL

-----------------------------------------------------------------------------
(***************************************************************************)
(* The types.                                                              *)
(***************************************************************************)

\* A sequence turned round.
LEMMA ReverseType ==
  ASSUME NEW S, NEW s \in Seq(S)
  PROVE  /\ Reverse(s) \in Seq(S) /\ Len(Reverse(s)) = Len(s)
         /\ \A i \in 1..Len(s) : Reverse(s)[i] = s[(Len(s) - i) + 1]
<1> DEFINE n == Len(s)
           x == [i \in 1..n |-> s[(n - i) + 1]]
<1>1. n \in Nat /\ \A i \in 1..n : s[i] \in S
  BY LenProperties, ElementOfSeq
<1>2. Reverse(s) = x
  BY DEF Reverse
<1> HIDE DEF n
<1>3. \A i \in 1..n : (n - i) + 1 \in 1..n
  BY <1>1
<1>4. \A i \in 1..n : s[(n - i) + 1] \in S
  BY <1>1, <1>3
<1>5. x \in Seq(S)
  BY <1>1, <1>4, IsASeq
<1>6. DOMAIN x = 1..n /\ \A i \in 1..n : x[i] = s[(n - i) + 1]
  OBVIOUS
<1> HIDE DEF x
<1>7. Len(x) = n
  BY <1>1, <1>5, <1>6, LenProperties
<1> QED
  BY <1>2, <1>5, <1>6, <1>7 DEF n

\* What a sequence ends with.
LEMMA SuffixAt ==
  ASSUME NEW S, NEW s \in Seq(S), NEW t \in Seq(S), Len(s) <= Len(t),
         \A i \in 1..Len(s) : s[i] = t[(Len(t) - Len(s)) + i]
  PROVE  IsSuffix(s, t)
<1> DEFINE n == Len(s)
           m == Len(t)
           x == Reverse(s)
           y == Reverse(t)
<1>1. n \in Nat /\ m \in Nat /\ n <= m /\ \A i \in 1..n : s[i] = t[(m - n) + i]
  BY LenProperties
<1>2. /\ x \in Seq(S) /\ Len(x) = n /\ \A i \in 1..n : x[i] = s[(n - i) + 1]
      /\ y \in Seq(S) /\ Len(y) = m /\ \A i \in 1..m : y[i] = t[(m - i) + 1]
  BY ReverseType
<1> HIDE DEF n, m, x, y
<1>3. \A i \in 1..n : x[i] = y[i]
  <2> TAKE i \in 1..n
  <2> DEFINE k == (n - i) + 1
             j == (m - n) + k
  <2>1. k \in 1..n /\ i \in 1..m /\ j = (m - i) + 1
    BY <1>1
  <2>2. x[i] = s[k] /\ y[i] = t[(m - i) + 1]
    BY <1>2, <2>1
  <2>3. s[k] = t[j]
    BY <1>1, <2>1
  <2> QED
    BY <2>1, <2>2, <2>3
<1>4. n \in 0..n /\ n \in 0..m
  BY <1>1
<1>5. SubSeq(x, 1, n) = SubSeq(y, 1, n)
  <2> DEFINE u == SubSeq(x, 1, n)
             v == SubSeq(y, 1, n)
  <2>1. u \in Seq(S) /\ Len(u) = n /\ \A i \in 1..n : u[i] = x[i]
    BY <1>2, <1>4, CutInTwo
  <2>2. v \in Seq(S) /\ Len(v) = n /\ \A i \in 1..n : v[i] = y[i]
    BY <1>2, <1>4, CutInTwo
  <2> HIDE DEF u, v
  <2>3. u = v
    BY <1>3, <2>1, <2>2, SeqEqual
  <2> QED
    BY <2>3 DEF u, v
<1>6. IsPrefix(x, y)
  BY <1>1, <1>2, <1>5 DEF IsPrefix
<1> QED
  BY <1>6 DEF IsSuffix, x, y

LEMMA InvPipeTypes == PipeInv => TypeOK
<1> SUFFICES ASSUME PipeInv
             PROVE  TypeOK
  OBVIOUS
<1>1. Typed /\ Writers /\ AtReader
  BY DEF PipeInv
<1>2. ASSUME NEW t \in Threads, writing[t] # <<>>
      PROVE  IsSuffix(writing[t], FrameBytes(<<t, calls[t]>>))
  <2> DEFINE f == Current(t)
             s == writing[t]
             n == Len(s)
             m == FrameLen(f)
  <2>1. /\ calls[t] # 0 /\ n <= m
        /\ \A i \in 1..n : s[i] = <<f, Taken(t) + i>>
    BY <1>1, <1>2 DEF Writers
  <2>2. f \in Frames
    BY <1>1, <2>1, CurrentFrame
  <2>3. FrameBytes(f) \in Seq(FByte) /\ Len(FrameBytes(f)) = m
        /\ \A i \in 1..m : FrameBytes(f)[i] = <<f, i>>
    BY <2>2, FrameBytesType
  <2>4. s \in Seq(FByte) /\ n \in Nat /\ m \in Nat /\ Taken(t) = m - n
    BY <1>1, <2>2, FrameLenType, LenProperties DEF Typed, Taken
  <2>5. \A i \in 1..n : s[i] = FrameBytes(f)[(m - n) + i]
    <3> HIDE DEF s, n, m, f
    <3> TAKE i \in 1..n
    <3>1. (m - n) + i \in 1..m
      BY <2>1, <2>4
    <3>2. s[i] = <<f, (m - n) + i>>
      BY <2>1, <2>4
    <3> QED
      BY <2>3, <3>1, <3>2
  <2>6. IsSuffix(s, FrameBytes(f))
    BY <2>1, <2>3, <2>4, <2>5, SuffixAt
  <2> QED
    BY <2>6 DEF Current
<1>3. reader \in {"header", "body"} => Len(buf) <= Wanted
  BY <1>1 DEF AtReader, Wanted, FrameLen
<1> QED
  BY <1>1, <1>2, <1>3 DEF TypeOK, Typed, AtReader

LEMMA InvHookTypes == HookInv => Hooks!TypeOK
<1> SUFFICES ASSUME HookInv
             PROVE  Hooks!TypeOK
  OBVIOUS
<1>1. HookTyped
  BY DEF HookInv
<1>2. ASSUME NEW t \in Threads
      PROVE  /\ hook[t].pc \in {"idle", "local", "remote", "capture"}
             /\ hook[t].at \in DOMAIN hook[t].ends
             /\ hook[t].pc = "capture" => hook[t].local # 0
  <2>1. CASE hook[t].pc = "idle"
    <3>1. hook[t] = Hooks!Idle
      BY <1>1, <2>1 DEF HookTyped, InHook
    <3>2. hook[t].ends = <<0>> /\ hook[t].at = 1
      BY <3>1 DEF Hooks!Idle
    <3>3. 1 \in DOMAIN <<0>>
      OBVIOUS
    <3> QED
      BY <2>1, <3>2, <3>3
  <2>2. CASE hook[t].pc # "idle"
    <3>1. hook[t] \in InHook /\ hook[t].at <= Len(hook[t].ends)
      BY <1>1, <2>2 DEF HookTyped, Hooks!Idle
    <3> DEFINE e == hook[t].ends
               b == hook[t].at
    <3>2. e \in Seq(Nat) /\ b \in Nat \ {0} /\ hook[t].pc \in {"local", "remote", "capture"}
      BY <3>1 DEF InHook, Buffering
    <3>3. Len(e) \in Nat /\ DOMAIN e = 1..Len(e)
      BY <3>2, LenProperties
    <3> DEFINE l == Len(e)
    <3>4. b <= l
      BY <3>1
    <3>5. b \in 1..l
      <4> HIDE DEF b, l
      <4> QED
        BY <3>2, <3>3, <3>4 DEF l
    <3> QED
      BY <1>1, <2>2, <3>2, <3>3, <3>5 DEF HookTyped
  <2> QED
    BY <2>1, <2>2
<1> QED
  BY <1>1, <1>2 DEF HookTyped, Hooks!TypeOK

\* The types of the pipe and of the hooks: what a thread has still to write is an end of its
\* frame (write_capture, pipe.rs:89), what is read is never longer than what is wanted
\* (read_from_pipe, pipe_reader.rs:136), and what is captured has a local port
\* (hook_send, lib.rs:61).
THEOREM PathTypes == PathSpec => []TypesOK
<1>1. PipeInv /\ HookInv => TypesOK
  BY InvPipeTypes, InvHookTypes DEF TypesOK
<1> QED
  BY <1>1, PipeInvariance, HookInvariance, PTL

=============================================================================
