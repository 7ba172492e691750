------------------------ MODULE MessageExtractProofs ------------------------
(***************************************************************************)
(* Theorems about MessageExtract, for any memory, any registers and any    *)
(* number of blocks released.                                              *)
(***************************************************************************)
EXTENDS MessageExtract, TLAPS

\* What is not committed was given back in this call, or gone when it began.
GoneIsReleased == Blocks \ live \subseteq released

\* A length once returned by safe_read_len stays within the region it was asked of.
QueriedFits ==
  pc \in Items /\ len > 0 =>
    Address \in Blocks /\ len <= Memory[Address].available /\ len <= 8192

\* What was asked for bounds what was returned, from below too.
HeaderLength == pc = "header" /\ len > 0 => len \in 48..80
BufferLength == pc = "buffer" /\ len > 0 => len >= 4

\* The header of the object was read, as far as obj_readable.
HeaderFits ==
  pc \in {"data", "inline"} =>
    obj \in Blocks /\ obj_readable >= 48 /\ obj_readable <= Memory[obj].available

\* The data taken so far can be sent.
DataFits == \A k \in DOMAIN dml_data : Readable(dml_data[k])

IInv ==
  /\ TypeOK /\ GoneIsReleased /\ QueriedFits /\ HeaderLength /\ BufferLength
  /\ HeaderFits /\ DataFits /\ FaultOnlyIfReleased

-----------------------------------------------------------------------------
LEMMA Appended ==
  ASSUME NEW S, NEW s \in Seq(S), NEW x \in S
  PROVE  /\ Append(s, x) \in Seq(S)
         /\ \A k \in DOMAIN Append(s, x) :
              \/ k \in DOMAIN s /\ Append(s, x)[k] = s[k]
              \/ Append(s, x)[k] = x
OBVIOUS

LEMMA EmptySeq == ASSUME NEW S PROVE <<>> \in Seq(S) /\ Len(<<>>) = 0 /\ DOMAIN <<>> = {}
OBVIOUS

LEMMA OneSeq ==
  ASSUME NEW S, NEW x \in S
  PROVE  <<x>> \in Seq(S) /\ Len(<<x>>) = 1 /\ \A k \in DOMAIN <<x>> : <<x>>[k] = x
OBVIOUS

LEMMA FirstOfOne ==
  ASSUME NEW S, NEW s \in Seq(S), s # <<>>
  PROVE  1 \in DOMAIN s /\ s[1] \in S
OBVIOUS

LEMMA FieldTypes ==
  ASSUME NEW b \in Block
  PROVE  /\ b.available \in Nat /\ b.first \in Nat /\ b.byte0 \in Byte /\ b.byte1 \in Byte
         /\ b.word2 \in Word16 /\ b.data_ptr \in Nat /\ b.payload_len \in Nat
         /\ b.service \in Byte /\ b.message \in Byte
BY DEF Block

\* The fields of a block.
LEMMA BlockFields ==
  ASSUME NEW a \in Blocks
  PROVE  /\ Memory[a].available \in Nat /\ Memory[a].first \in Nat
         /\ Memory[a].byte0 \in Byte /\ Memory[a].byte1 \in Byte
         /\ Memory[a].word2 \in Word16 /\ Memory[a].data_ptr \in Nat
         /\ Memory[a].payload_len \in Nat
         /\ Memory[a].service \in Byte /\ Memory[a].message \in Byte
<1>1. Memory[a] \in Block
  BY MemoryAssumption DEF MemoryAssumption
<1> QED BY <1>1, FieldTypes, Zenon

\* A frame of a slice of a block is a frame, and as readable as the slice.
LEMMA FrameOfSlice ==
  ASSUME NEW service \in Byte, NEW message \in Byte, NEW s \in Slice, call \in Calls
  PROVE  /\ Frame(service, message, s) \in FrameType
         /\ Readable(s) => Readable(Frame(service, message, s))
<1>1. call.fn \in {"tx", "rx"}
  BY MemoryAssumption DEF MemoryAssumption
<1>2. s.block \in Blocks /\ s.from \in Nat /\ s.to \in Nat
  BY DEF Slice
<1> QED BY <1>1, <1>2 DEF Frame, FrameType, Readable

\* safe_read_len returns no more than is asked for and no more than there is.
LEMMA SafeReadLenBounds ==
  ASSUME live \subseteq Blocks, NEW a, NEW desired \in Nat
  PROVE  /\ SafeReadLen(a, desired) \in Nat
         /\ SafeReadLen(a, desired) <= desired
         /\ SafeReadLen(a, desired) > 0 =>
              a \in live /\ a \in Blocks /\ SafeReadLen(a, desired) <= Memory[a].available
<1>1. CASE a \in live
  <2>1. a \in Blocks
    BY <1>1
  <2>2. Memory[a].available \in Nat
    BY <2>1, BlockFields, Zenon
  <2> QED BY <1>1, <2>1, <2>2 DEF SafeReadLen, AtMost
<1>2. CASE a \notin live
  BY <1>2 DEF SafeReadLen
<1> QED BY <1>1, <1>2

LEMMA CallTypes == ASSUME call \in Calls PROVE call.p1 \in Nat /\ call.p2 \in Nat /\ call.p3 \in Nat
BY MemoryAssumption DEF MemoryAssumption

\* What is asked for is a number of at most 8192 bytes.
LEMMA DesiredBounds ==
  ASSUME call \in Calls, pc \in Items, pc = "data" => obj \in Blocks
  PROVE  Desired \in Nat /\ Desired <= 8192 /\ (pc \in {"candidate", "header"} => Desired = 80)
<1>1. call.p2 \in Nat
  BY CallTypes
<1>2. CASE pc = "wrapper"
  BY <1>1, <1>2 DEF Desired, AtMost
<1>3. CASE pc = "buffer"
  <2> DEFINE m == call.p2
             d == Desired
  <2>1. d = IF m <= 8192 THEN m ELSE 8192
    BY <1>3 DEF Desired, AtMost
  <2>2. m \in Nat
    BY <1>1
  <2>3. d \in Nat /\ d <= 8192
    <3> HIDE DEF m, d
    <3> QED BY <2>1, <2>2
  <2> QED BY <1>3, <2>3
<1>4. CASE pc = "data"
  <2>1. Memory[obj].payload_len \in Nat
    BY <1>4, BlockFields, Zenon
  <2> DEFINE q == Memory[obj].payload_len
  <2>2. ReadSize \in Nat /\ ReadSize <= 8192
    <3>1. ReadSize = IF q > 0 /\ q < 8192 THEN q ELSE 256
      BY DEF ReadSize
    <3>2. q \in Nat
      BY <2>1
    <3> HIDE DEF q
    <3> QED BY ONLY <3>1, <3>2
  <2>3. Desired = ReadSize
    BY <1>4 DEF Desired
  <2> QED BY <1>4, <2>2, <2>3
<1>5. CASE pc \in {"candidate", "header"}
  BY <1>5 DEF Desired
<1> QED BY <1>2, <1>3, <1>4, <1>5 DEF Items

LEMMA LeastBounds == Least \in Nat /\ Least > 0 /\ (pc = "header" => Least = 48)
                     /\ (pc = "buffer" => Least = 4)
BY DEF Least

-----------------------------------------------------------------------------
LEMMA InitInv == Init => IInv
<1> SUFFICES ASSUME Init PROVE IInv
  OBVIOUS
<1>1. /\ live = Blocks /\ released = {} /\ call \in Calls /\ pc = "idle" /\ len = 0
      /\ obj = 0 /\ obj_readable = 0 /\ dml_data = <<>> /\ sent = <<>> /\ crashed = FALSE
  BY Zenon DEF Init
<1>2. TypeOK
  <2>1. /\ dml_data \in Seq(Slice) /\ Len(dml_data) = 0
        /\ sent \in Seq(FrameType) /\ DOMAIN sent = {}
    BY <1>1, EmptySeq
  <2>2. \A k \in DOMAIN sent : Readable(sent[k])
    BY <2>1
  <2>3. len \in Nat /\ obj \in Nat /\ obj_readable \in 0..80 /\ Len(dml_data) <= 1
    BY <1>1, <2>1
  <2>4. /\ live \subseteq Blocks /\ released \subseteq Blocks /\ call \in Calls /\ crashed \in BOOLEAN
        /\ pc \in Items \cup {"idle", "inline", "returned"}
    BY <1>1
  <2> QED BY <2>1, <2>2, <2>3, <2>4, Zenon DEF TypeOK
<1>3. GoneIsReleased /\ FaultOnlyIfReleased /\ QueriedFits /\ HeaderFits
  BY <1>1 DEF GoneIsReleased, FaultOnlyIfReleased, QueriedFits, HeaderFits, Items
<1>5. HeaderLength /\ BufferLength
  BY <1>1 DEF HeaderLength, BufferLength
<1>4. DataFits
  BY <1>1, EmptySeq DEF DataFits
<1> QED BY <1>2, <1>3, <1>4, <1>5 DEF IInv

LEMMA CallInv == IInv /\ Call => IInv'
<1> SUFFICES ASSUME IInv, Call PROVE IInv'
  OBVIOUS
<1>1. /\ call' \in Calls /\ pc' = FirstItem(call') /\ sent' = <<>> /\ released' = Blocks \ live
      /\ len' = 0 /\ obj' = 0 /\ obj_readable' = 0 /\ dml_data' = <<>>
      /\ live' = live /\ crashed' = crashed /\ ~crashed
  BY DEF Call
<1>2. pc' \in {"wrapper", "buffer", "candidate", "returned"}
  BY <1>1 DEF FirstItem
<1>3. TypeOK'
  <2>1. /\ dml_data' \in Seq(Slice) /\ Len(dml_data') = 0
        /\ sent' \in Seq(FrameType) /\ DOMAIN sent' = {}
    BY <1>1, EmptySeq
  <2> QED BY <1>1, <1>2, <2>1 DEF TypeOK, IInv, Items
<1>4. GoneIsReleased' /\ FaultOnlyIfReleased'
  BY <1>1 DEF GoneIsReleased, FaultOnlyIfReleased
<1>5. QueriedFits' /\ HeaderFits' /\ HeaderLength' /\ BufferLength'
  BY <1>1, <1>2 DEF QueriedFits, HeaderFits, HeaderLength, BufferLength
<1>6. DataFits'
  BY <1>1, EmptySeq DEF DataFits
<1> QED BY <1>3, <1>4, <1>5, <1>6 DEF IInv

LEMMA QueryInv == IInv /\ Query => IInv'
<1> SUFFICES ASSUME IInv, Query PROVE IInv'
  OBVIOUS
<1> DEFINE n == SafeReadLen(Address, Desired)
<1>1. /\ pc \in Items /\ ~crashed
      /\ \/ n >= Least /\ len' = n /\ pc' = pc
         \/ len' = 0 /\ pc' = IF pc = "data" THEN "inline" ELSE "returned"
      /\ UNCHANGED <<live, released, call, obj, obj_readable, dml_data, sent, crashed>>
  BY DEF Query
<1>2. TypeOK
  BY DEF IInv
<1>3. Desired \in Nat /\ Desired <= 8192
  BY <1>1, <1>2, DesiredBounds DEF TypeOK, IInv, HeaderFits
<1>4. /\ n \in Nat /\ n <= 8192
      /\ n > 0 => Address \in Blocks /\ n <= Memory[Address].available
  <2>1. live \subseteq Blocks /\ Desired \in Nat
    BY <1>2, <1>3 DEF TypeOK
  <2>2. /\ n \in Nat /\ n <= Desired
        /\ n > 0 => Address \in live /\ Address \in Blocks /\ n <= Memory[Address].available
    BY <2>1, SafeReadLenBounds, Zenon
  <2> HIDE DEF n
  <2> QED BY <2>2, <1>3
<1>11. pc = "header" => n <= 80
  <2>1. live \subseteq Blocks /\ Desired \in Nat
    BY <1>2, <1>3 DEF TypeOK
  <2>2. n \in Nat /\ n <= Desired
    BY <2>1, SafeReadLenBounds, Zenon
  <2>3. pc = "header" => Desired = 80
    BY <1>1, <1>2, DesiredBounds DEF TypeOK, IInv, HeaderFits
  <2> HIDE DEF n
  <2> QED BY <2>2, <2>3
<1> HIDE DEF n
<1>5. pc' \in Items \cup {"idle", "inline", "returned"} /\ len' \in Nat
  BY <1>1, <1>4
<1>6. TypeOK'
  BY <1>1, <1>2, <1>5 DEF TypeOK, Readable
<1>7. QueriedFits'
  <2>1. CASE len' = n /\ pc' = pc
    <3>1. Address' = Address
      BY <1>1, <2>1 DEF Address
    <3> QED BY <2>1, <3>1, <1>4 DEF QueriedFits
  <2>2. CASE len' = 0
    BY <2>2 DEF QueriedFits
  <2> QED BY <1>1, <2>1, <2>2
<1>8. HeaderFits'
  BY <1>1 DEF IInv, HeaderFits
<1>10. HeaderLength' /\ BufferLength'
  <2>1. n >= Least => n \in Nat /\ n > 0
    BY <1>4, LeastBounds
  <2>2. pc = "header" /\ n >= Least => n \in 48..80
    BY <1>4, <1>11, LeastBounds
  <2>3. pc = "buffer" /\ n >= Least => n >= 4
    BY <1>4, LeastBounds
  <2> QED BY <1>1, <2>1, <2>2, <2>3 DEF HeaderLength, BufferLength
<1>9. DataFits' /\ GoneIsReleased' /\ FaultOnlyIfReleased'
  BY <1>1 DEF IInv, DataFits, GoneIsReleased, FaultOnlyIfReleased, Readable
<1> QED BY <1>6, <1>7, <1>8, <1>9, <1>10 DEF IInv

\* A read of an item that leads to the next item or ends the call, with nothing sent.
LEMMA ReadStepInv ==
  ASSUME IInv, ~crashed, UNCHANGED <<live, released, call, dml_data, sent, crashed>>,
         len' = 0, obj' \in Nat, obj_readable' \in 0..80,
         pc' \in Items \cup {"inline", "returned"},
         pc' \in {"data", "inline"} => 
           obj' \in Blocks /\ obj_readable' >= 48 /\ obj_readable' <= Memory[obj'].available
  PROVE  IInv'
<1>1. TypeOK'
  BY DEF IInv, TypeOK, Readable
<1>2. QueriedFits' /\ HeaderFits' /\ HeaderLength' /\ BufferLength'
  BY DEF QueriedFits, HeaderFits, HeaderLength, BufferLength
<1>3. DataFits' /\ GoneIsReleased' /\ FaultOnlyIfReleased'
  BY DEF IInv, DataFits, GoneIsReleased, FaultOnlyIfReleased, Readable
<1> QED BY <1>1, <1>2, <1>3 DEF IInv

LEMMA ReadWrapperInv == IInv /\ ReadWrapper => IInv'
<1> SUFFICES ASSUME IInv, ReadWrapper PROVE IInv'
  OBVIOUS
<1>1. call.p1 \in Blocks
  BY DEF ReadWrapper, Reading, Address, IInv, TypeOK
<1>2. obj' \in Nat
  <2>1. Memory[call.p1].first \in Nat
    BY <1>1, BlockFields, Zenon
  <2> QED BY <2>1 DEF ReadWrapper
<1> QED BY <1>2, ReadStepInv DEF ReadWrapper, Reading, IInv, TypeOK, Items

LEMMA ReadCandidateInv == IInv /\ ReadCandidate => IInv'
<1> SUFFICES ASSUME IInv, ReadCandidate PROVE IInv'
  OBVIOUS
<1>1. call.p3 \in Nat /\ obj \in Nat
  BY CallTypes DEF IInv, TypeOK
<1> QED BY <1>1, ReadStepInv DEF ReadCandidate, Reading, IInv, TypeOK, Items

LEMMA ReadHeaderInv == IInv /\ ReadHeader => IInv'
<1> SUFFICES ASSUME IInv, ReadHeader PROVE IInv'
  OBVIOUS
<1>1. /\ Reading("header") /\ pc = "header" /\ len > 0 /\ ~crashed
      /\ obj_readable' = len /\ len' = 0 /\ obj' = obj
      /\ pc' \in {"data", "inline"}
      /\ UNCHANGED <<live, released, call, dml_data, sent, crashed>>
  BY DEF ReadHeader, Reading
<1>2. Address = obj
  BY <1>1 DEF Address
<1>3. obj \in Blocks /\ len <= Memory[obj].available
  BY <1>1, <1>2 DEF IInv, QueriedFits, Items
<1>4. len \in 48..80
  BY <1>1 DEF IInv, HeaderLength
<1> QED BY <1>1, <1>3, <1>4, ReadStepInv DEF IInv, TypeOK, Items

\* The data of the object are there, and the call goes on to send them.
LEMMA ExtractStepInv ==
  ASSUME IInv, ~crashed, UNCHANGED <<live, released, call, obj, obj_readable, sent, crashed>>,
         pc = "data", pc' = "inline", len' = 0,
         dml_data' \in Seq(Slice), Len(dml_data') <= 1,
         \A k \in DOMAIN dml_data' : Readable(dml_data'[k])
  PROVE  IInv'
<1>1. TypeOK'
  BY DEF IInv, TypeOK, Readable
<1>2. QueriedFits' /\ HeaderFits' /\ HeaderLength' /\ BufferLength'
  BY DEF IInv, QueriedFits, HeaderFits, HeaderLength, BufferLength
<1>3. DataFits' /\ GoneIsReleased' /\ FaultOnlyIfReleased'
  BY DEF IInv, DataFits, GoneIsReleased, FaultOnlyIfReleased, Readable
<1> QED BY <1>1, <1>2, <1>3 DEF IInv

LEMMA ReadDataInv == IInv /\ ReadData => IInv'
<1> SUFFICES ASSUME IInv, ReadData PROVE IInv'
  OBVIOUS
<1> DEFINE a == Memory[obj].data_ptr
           from == IF LooksLikeVtable(a, len) THEN 48 ELSE 0
           s == [block |-> a, from |-> from, to |-> len]
<1>1. /\ pc = "data" /\ len > 0 /\ ~crashed /\ pc' = "inline" /\ len' = 0
      /\ dml_data' = IF from < len THEN << s >> ELSE <<>>
      /\ UNCHANGED <<live, released, call, obj, obj_readable, sent, crashed>>
  BY DEF ReadData, Reading
<1>2. Address = a
  BY <1>1 DEF Address
<1>3. a \in Blocks /\ len <= Memory[a].available /\ len <= 8192 /\ len \in Nat
  BY <1>1, <1>2 DEF IInv, QueriedFits, Items, TypeOK
<1>4. from \in Nat
  OBVIOUS
<1> HIDE DEF a, from
<1>5. CASE from < len
  <2>1. s \in Slice
    BY <1>3, <1>4 DEF Slice
  <2>2. Readable(s)
    BY <1>3, <1>4, <1>5 DEF Readable
  <2> HIDE DEF s
  <2> QED BY <1>1, <1>5, <2>1, <2>2, OneSeq, ExtractStepInv
<1>6. CASE ~(from < len)
  <2>1. dml_data' = <<>>
    BY <1>1, <1>6
  <2> QED BY <1>1, <2>1, EmptySeq, ExtractStepInv
<1> QED BY <1>5, <1>6

\* A frame is sent, or none, and the call returns.
LEMMA SendStepInv ==
  ASSUME IInv, ~crashed,
         UNCHANGED <<live, released, call, obj, obj_readable, dml_data, crashed>>,
         pc' = "returned", len' \in Nat,
         \/ sent' = sent
         \/ \E service \in Byte, message \in Byte, s \in Slice :
              Readable(s) /\ sent' = Append(sent, Frame(service, message, s))
  PROVE  IInv'
<1>1. sent' \in Seq(FrameType) /\ \A k \in DOMAIN sent' : Readable(sent'[k])
  <2>1. sent \in Seq(FrameType) /\ (\A k \in DOMAIN sent : Readable(sent[k])) /\ call \in Calls
    BY DEF IInv, TypeOK
  <2>2. CASE sent' = sent
    BY <2>1, <2>2
  <2>3. ASSUME NEW service \in Byte, NEW message \in Byte, NEW s \in Slice,
               Readable(s), sent' = Append(sent, Frame(service, message, s))
        PROVE  sent' \in Seq(FrameType) /\ \A k \in DOMAIN sent' : Readable(sent'[k])
    <3> DEFINE f == Frame(service, message, s)
    <3>1. f \in FrameType /\ Readable(f)
      BY <2>1, <2>3, FrameOfSlice
    <3> HIDE DEF f
    <3>2. sent' = Append(sent, f)
      BY <2>3 DEF f
    <3> QED BY ONLY <2>1, <3>1, <3>2, Appended
  <2> QED BY <2>2, <2>3
<1>2. TypeOK'
  <2>1. \A k \in DOMAIN sent' : Readable(sent'[k])
    BY <1>1
  <2> QED BY <1>1, <2>1 DEF IInv, TypeOK, Readable
<1>3. QueriedFits' /\ HeaderFits' /\ HeaderLength' /\ BufferLength'
  BY DEF QueriedFits, HeaderFits, HeaderLength, BufferLength, Items
<1>4. DataFits' /\ GoneIsReleased' /\ FaultOnlyIfReleased'
  BY DEF IInv, DataFits, GoneIsReleased, FaultOnlyIfReleased, Readable
<1> QED BY <1>2, <1>3, <1>4 DEF IInv

LEMMA ReadBufferInv == IInv /\ ReadBuffer => IInv'
<1> SUFFICES ASSUME IInv, ReadBuffer PROVE IInv'
  OBVIOUS
<1>1. /\ pc = "buffer" /\ len > 0 /\ ~crashed /\ len' = 0
      /\ UNCHANGED <<live, released, call, obj_readable, dml_data, crashed>>
      /\ \/ obj' = call.p1 /\ pc' = "header" /\ sent' = sent
         \/ sent' = Append(sent, DirectFrame) /\ pc' = "returned" /\ obj' = obj
  BY DEF ReadBuffer, Reading
<1>2. Address = call.p1
  BY <1>1 DEF Address
<1>3. call.p1 \in Blocks /\ len <= Memory[call.p1].available /\ len <= 8192 /\ len \in Nat
  BY <1>1, <1>2 DEF IInv, QueriedFits, Items, TypeOK
<1>4. CASE obj' = call.p1 /\ pc' = "header" /\ sent' = sent
  <2>1. call.p1 \in Nat /\ obj_readable \in 0..80
    BY CallTypes DEF IInv, TypeOK
  <2> QED BY <1>1, <1>4, <2>1, ReadStepInv DEF Items
<1>5. CASE sent' = Append(sent, DirectFrame) /\ pc' = "returned" /\ obj' = obj
  <2> DEFINE b == Memory[call.p1]
             field == [block |-> call.p1, from |-> 4, to |-> DirectEnd]
             all == [block |-> call.p1, from |-> 0, to |-> len]
  <2>1. b.byte0 \in Byte /\ b.byte1 \in Byte /\ b.word2 \in Word16
    BY <1>3, BlockFields
  <2>2. len >= 4
    BY <1>1 DEF IInv, BufferLength
  <2>3. DirectEnd \in 4..len
    <3> DEFINE n == b.word2
    <3>1. DirectEnd = IF n > 4 /\ n <= len THEN n ELSE AtMost(len, 4096)
      BY DEF DirectEnd
    <3>2. n \in Nat
      <4>1. n \in Word16
        BY <2>1
      <4> HIDE DEF n
      <4> QED BY ONLY <4>1 DEF Word16
    <3> HIDE DEF n
    <3> QED BY ONLY <3>1, <3>2, <2>2, <1>3 DEF AtMost
  <2>4. field \in Slice /\ Readable(field)
    <3> DEFINE e == DirectEnd
               available == b.available
    <3>1. e \in 4..len /\ available \in Nat /\ len <= available
      BY <1>3, <2>3, BlockFields
    <3>2. /\ field.block = call.p1 /\ field.from = 4 /\ field.to = e
          /\ Memory[field.block].available = available
      OBVIOUS
    <3>3. e \in Nat /\ 4 <= e /\ e <= available /\ e - 4 <= 65535 - 8
      <4> HIDE DEF e, available
      <4> QED BY ONLY <3>1, <1>3
    <3>4. field \in Slice
      BY <1>3, <3>3 DEF Slice
    <3> HIDE DEF e, available, field
    <3> QED BY <3>2, <3>3, <3>4 DEF Readable
  <2>5. all \in Slice /\ Readable(all)
    BY <1>3 DEF Slice, Readable
  <2>6. \E service \in Byte, message \in Byte, s \in Slice :
          Readable(s) /\ DirectFrame = Frame(service, message, s)
    <3>1. DirectFrame = Frame(b.byte0, b.byte1, field) \/ DirectFrame = Frame(0, 0, all)
      BY DEF DirectFrame
    <3>2. 0 \in Byte
      BY DEF Byte
    <3> HIDE DEF b, field, all
    <3> QED BY <3>1, <3>2, <2>1, <2>4, <2>5
  <2> QED BY <1>1, <1>3, <1>5, <2>6, SendStepInv
<1> QED BY <1>1, <1>4, <1>5

LEMMA FinishInv == IInv /\ Finish => IInv'
<1> SUFFICES ASSUME IInv, Finish PROVE IInv'
  OBVIOUS
<1> DEFINE inline == [block |-> obj, from |-> 48, to |-> obj_readable]
           dml == IF NeedsInline THEN << inline >> ELSE dml_data
           service == Memory[obj].service
           message == Memory[obj].message
<1>1. /\ pc = "inline" /\ ~crashed /\ pc' = "returned"
      /\ UNCHANGED <<live, released, call, len, obj, obj_readable, dml_data, crashed>>
      /\ sent' = IF dml = <<>> THEN sent ELSE Append(sent, Frame(service, message, dml[1]))
  BY DEF Finish
<1>2. obj \in Blocks /\ obj_readable <= Memory[obj].available /\ obj_readable \in 0..80
      /\ len \in Nat /\ obj_readable >= 48
  BY <1>1 DEF IInv, HeaderFits, TypeOK
<1>3. service \in Byte /\ message \in Byte
  BY <1>2, BlockFields
<1>4. inline \in Slice /\ Readable(inline)
  BY <1>2 DEF Slice, Readable
<1>5. dml # <<>> => dml[1] \in Slice /\ Readable(dml[1])
  <2>1. CASE NeedsInline
    BY <2>1, <1>4
  <2>2. CASE ~NeedsInline
    <3>1. dml = dml_data /\ dml_data \in Seq(Slice)
      BY <2>2 DEF IInv, TypeOK
    <3> HIDE DEF dml
    <3> QED BY <3>1, FirstOfOne DEF IInv, DataFits
  <2> QED BY <2>1, <2>2
<1> HIDE DEF dml, service, message
<1> QED BY <1>1, <1>2, <1>3, <1>5, SendStepInv

\* The hook faults on memory that was given back.
LEMMA CrashInv ==
  ASSUME IInv, crashed' = TRUE, Address' = Address, Address \in released,
         UNCHANGED <<live, released, call, pc, len, obj, obj_readable, dml_data, sent>>
  PROVE  IInv'
<1>1. TypeOK'
  BY DEF IInv, TypeOK, Readable
<1>2. QueriedFits' /\ HeaderFits' /\ HeaderLength' /\ BufferLength'
  BY DEF IInv, QueriedFits, HeaderFits, HeaderLength, BufferLength
<1>3. DataFits' /\ GoneIsReleased' /\ FaultOnlyIfReleased'
  BY DEF IInv, DataFits, GoneIsReleased, FaultOnlyIfReleased, Readable
<1> QED BY <1>1, <1>2, <1>3 DEF IInv

LEMMA AccessViolationInv == IInv /\ AccessViolation => IInv'
<1> SUFFICES ASSUME IInv, AccessViolation PROVE IInv'
  OBVIOUS
<1>1. /\ crashed' = TRUE
      /\ UNCHANGED <<live, released, call, pc, len, obj, obj_readable, dml_data, sent>>
  BY DEF AccessViolation
<1>2. Address' = Address
  BY <1>1 DEF Address
<1>3. CASE pc \in Items /\ len > 0 /\ (Address \notin live \/ len > Memory[Address].available)
  <2>1. Address \in Blocks /\ len <= Memory[Address].available
    BY <1>3 DEF IInv, QueriedFits
  <2>2. Memory[Address].available \in Nat /\ len \in Nat
    BY <2>1, BlockFields DEF IInv, TypeOK
  <2>3. Address \notin live
    BY <1>3, <2>1, <2>2
  <2> QED BY <1>1, <1>2, <2>1, <2>3, CrashInv DEF IInv, GoneIsReleased
<1>4. CASE pc = "inline" /\ (obj \notin live \/ obj_readable > Memory[obj].available)
  <2>1. obj \in Blocks /\ obj_readable <= Memory[obj].available
    BY <1>4 DEF IInv, HeaderFits
  <2>2. Memory[obj].available \in Nat
    BY <2>1, BlockFields, Zenon
  <2>5. obj_readable \in Nat
    BY DEF IInv, TypeOK
  <2>3. obj \notin live
    BY <1>4, <2>1, <2>2, <2>5
  <2>4. Address = obj
    BY <1>4 DEF Address
  <2> QED BY <1>1, <1>2, <2>1, <2>3, <2>4, CrashInv DEF IInv, GoneIsReleased
<1> QED BY <1>3, <1>4 DEF AccessViolation

LEMMA MemoryInv == IInv /\ (\E a \in Blocks : Release(a) \/ Commit(a)) => IInv'
<1> SUFFICES ASSUME IInv, NEW a \in Blocks, Release(a) \/ Commit(a) PROVE IInv'
  OBVIOUS
<1>1. /\ UNCHANGED <<call, pc, len, obj, obj_readable, dml_data, sent, crashed>>
      /\ live' \subseteq Blocks /\ released' \subseteq Blocks
      /\ released \subseteq released' /\ Blocks \ live' \subseteq released'
  BY DEF Release, Commit, IInv, TypeOK, GoneIsReleased
<1>2. Address' = Address
  BY <1>1 DEF Address
<1>3. TypeOK'
  BY <1>1 DEF IInv, TypeOK, Readable
<1>4. QueriedFits' /\ HeaderFits' /\ HeaderLength' /\ BufferLength'
  BY <1>1, <1>2 DEF IInv, QueriedFits, HeaderFits, HeaderLength, BufferLength
<1>5. DataFits' /\ GoneIsReleased' /\ FaultOnlyIfReleased'
  BY <1>1, <1>2 DEF IInv, DataFits, GoneIsReleased, FaultOnlyIfReleased, Readable
<1> QED BY <1>3, <1>4, <1>5 DEF IInv

LEMMA StepInv == IInv /\ [Next]_vars => IInv'
<1> SUFFICES ASSUME IInv, [Next]_vars PROVE IInv'
  OBVIOUS
<1>1. CASE Call
  BY <1>1, CallInv
<1>2. CASE Query
  BY <1>2, QueryInv
<1>3. CASE AccessViolation
  BY <1>3, AccessViolationInv
<1>4. CASE ReadWrapper
  BY <1>4, ReadWrapperInv
<1>5. CASE ReadCandidate
  BY <1>5, ReadCandidateInv
<1>6. CASE ReadBuffer
  BY <1>6, ReadBufferInv
<1>7. CASE ReadHeader
  BY <1>7, ReadHeaderInv
<1>8. CASE ReadData
  BY <1>8, ReadDataInv
<1>9. CASE Finish
  BY <1>9, FinishInv
<1>10. CASE \E a \in Blocks : Release(a) \/ Commit(a)
  BY <1>10, MemoryInv
<1>11. CASE UNCHANGED vars
  <2>1. Address' = Address
    BY <1>11 DEF vars, Address
  <2>2. TypeOK'
    BY <1>11 DEF vars, IInv, TypeOK, Readable
  <2>3. QueriedFits' /\ HeaderFits' /\ HeaderLength' /\ BufferLength'
    BY <1>11, <2>1 DEF vars, IInv, QueriedFits, HeaderFits, HeaderLength, BufferLength
  <2>4. DataFits' /\ GoneIsReleased' /\ FaultOnlyIfReleased'
    BY <1>11, <2>1 DEF vars, IInv, DataFits, GoneIsReleased, FaultOnlyIfReleased, Readable
  <2> QED BY <2>2, <2>3, <2>4 DEF IInv
<1> QED BY <1>1, <1>2, <1>3, <1>4, <1>5, <1>6, <1>7, <1>8, <1>9, <1>10, <1>11 DEF Next

\* The invariant holds, for any memory and registers.
THEOREM Invariance == Spec => []IInv
BY InitInv, StepInv, PTL DEF Spec

\* Every variable keeps its type; what is sent can be read and fits in a frame.
THEOREM TypeCorrect == Spec => []TypeOK
<1>1. IInv => TypeOK
  BY DEF IInv
<1> QED BY <1>1, Invariance, PTL

\* No length from registers, memory or VirtualQuery takes a hook out of the memory it
\* was told of: an access violation needs memory given back behind its query.
THEOREM FaultNeedsRelease == Spec => []FaultOnlyIfReleased
<1>1. IInv => FaultOnlyIfReleased
  BY DEF IInv
<1> QED BY <1>1, Invariance, PTL

-----------------------------------------------------------------------------
\* The message object of a documented call of TxMessage, and what is to be captured of a
\* buffer of a length in bounds.
TxObject == Memory[call.p1].first
InBounds == HasBuffer(TxObject) /\ Memory[TxObject].payload_len < 8192
WholeBuffer ==
  [block |-> Memory[TxObject].data_ptr, from |-> 0, to |-> Memory[TxObject].payload_len]

\* The way of such a call through on_txmessage while the memory stays: every query gives
\* what is there, so that each item is read, and nothing is sent before the end.
TxState ==
  /\ pc \in {"idle", "wrapper", "header", "data", "inline", "returned"}
  /\ pc \in {"header", "data", "inline"} => obj = TxObject
  /\ pc \in {"wrapper", "header", "data", "inline"} => sent = <<>>
  /\ pc \in {"wrapper", "header", "data"} => dml_data = <<>>
  /\ pc = "header" => len \in {0, 80}
  /\ pc \in {"data", "inline"} => obj_readable = 80
  /\ pc = "data" /\ InBounds => len \in {0, Memory[TxObject].payload_len}
  /\ pc = "inline" /\ InBounds => dml_data = << WholeBuffer >>
  /\ TxMessageCaptured

TxInv == released = {} /\ Documented(call) => TxState

\* What a documented call is: its registers, its wrapper and its object.
LEMMA DocumentedCall ==
  ASSUME NEW c \in Calls, Documented(c)
  PROVE  /\ c.fn = "tx" /\ c.p1 \in Blocks /\ FirstItem(c) = "wrapper"
         /\ IsLength(c.p2) => Memory[c.p1].available >= c.p2 /\ c.p2 \in 6..8
         /\ ~IsLength(c.p2) => Memory[c.p1].available >= 8
         /\ Memory[c.p1].available \in Nat
         /\ Memory[c.p1].first \in Blocks /\ ValidPtr(Memory[c.p1].first)
         /\ LET a == Memory[c.p1].first
            IN /\ Memory[a].available \in Nat /\ Memory[a].available >= 80
               /\ Memory[a].data_ptr \in Nat /\ Memory[a].payload_len \in Nat
<1>1. c.p1 \in Nat /\ c.p2 \in Nat
  BY MemoryAssumption DEF MemoryAssumption
<1>2. c.fn = "tx" /\ ValidPtr(c.p1) /\ (Type1(c) \/ Type2(c))
  BY DEF Documented
<1>3. c.p1 \in Blocks
  BY <1>2 DEF Type1, Type2
<1>4. CASE Type1(c)
  <2>1. c.p2 \in 6..8 /\ Memory[c.p1].available >= c.p2
    BY <1>4 DEF Type1
  <2>2. IsLength(c.p2)
    BY <2>1 DEF IsLength
  <2>3. FirstItem(c) = "wrapper"
    BY <1>2, <2>2 DEF FirstItem
  <2> QED BY <1>2, <1>3, <2>1, <2>2, <2>3, BlockFields DEF Documented, IsMessage
<1>5. CASE Type2(c) /\ ~Type1(c)
  <2>1. c.p2 = c.p1 /\ Memory[c.p1].available >= 8
    BY <1>5 DEF Type2
  <2>2. ~IsLength(c.p2)
    BY <1>1, <1>2, <2>1, MemoryAssumption DEF IsLength, ValidPtr, MemoryAssumption
  <2>3. FirstItem(c) = "wrapper"
    BY <1>2, <2>1 DEF FirstItem
  <2> QED BY <1>2, <1>3, <2>1, <2>2, <2>3, BlockFields DEF Documented, IsMessage
<1> QED BY <1>2, <1>4, <1>5

LEMMA SameCall ==
  ASSUME call' = call
  PROVE  TxObject' = TxObject /\ InBounds' = InBounds /\ WholeBuffer' = WholeBuffer
BY DEF TxObject, InBounds, WholeBuffer

\* Where a call stands between two steps needs no more than this.
LEMMA NotReturned ==
  ASSUME pc' # "returned" PROVE TxMessageCaptured'
BY DEF TxMessageCaptured

LEMMA TxInit == Init => TxInv
<1> SUFFICES ASSUME Init PROVE TxState
  BY DEF TxInv
<1>1. pc = "idle"
  BY Zenon DEF Init
<1>2. TxMessageCaptured
  BY <1>1 DEF TxMessageCaptured
<1> QED BY <1>1, <1>2 DEF TxState

LEMMA TxCall == IInv /\ TxInv /\ Call => TxInv'
<1> SUFFICES ASSUME Call, Documented(call)' PROVE TxState'
  BY DEF TxInv
<1>1. call' \in Calls /\ pc' = FirstItem(call') /\ sent' = <<>> /\ len' = 0 /\ dml_data' = <<>>
  BY DEF Call, FirstItem
<1>2. pc' = "wrapper"
  <2>1. Documented(call')
    BY DEF Documented, Type1, Type2, IsMessage
  <2>2. FirstItem(call') = "wrapper"
    BY <1>1, <2>1, DocumentedCall
  <2> QED BY <1>1, <2>2
<1>3. TxMessageCaptured'
  BY <1>2, NotReturned
<1> QED BY <1>1, <1>2, <1>3 DEF TxState

\* Nothing is gone, so every query is answered by the region.
LEMMA TxQuery == IInv /\ TxInv /\ Query => TxInv'
<1> SUFFICES ASSUME IInv, TxInv, Query, released = {}, Documented(call) PROVE TxState'
  BY DEF TxInv, Query
<1> DEFINE a == TxObject
           n == SafeReadLen(Address, Desired)
<1>1. /\ UNCHANGED <<call, obj, obj_readable, dml_data, sent>>
      /\ pc \in Items /\ len = 0
      /\ IF n >= Least THEN len' = n /\ pc' = pc
         ELSE len' = 0 /\ pc' = IF pc = "data" THEN "inline" ELSE "returned"
  BY DEF Query
<1>2. TxState /\ call \in Calls /\ live = Blocks
  BY DEF TxInv, IInv, TypeOK, GoneIsReleased
<1>3. TxObject' = TxObject /\ InBounds' = InBounds /\ WholeBuffer' = WholeBuffer
  BY <1>1, SameCall
<1>4. /\ call.fn = "tx" /\ call.p1 \in Blocks
      /\ IsLength(call.p2) => Memory[call.p1].available >= call.p2 /\ call.p2 \in 6..8
      /\ ~IsLength(call.p2) => Memory[call.p1].available >= 8
      /\ Memory[call.p1].available \in Nat
      /\ a \in Blocks /\ ValidPtr(a) /\ Memory[a].available \in Nat /\ Memory[a].available >= 80
      /\ Memory[a].data_ptr \in Nat /\ Memory[a].payload_len \in Nat
  BY <1>2, DocumentedCall DEF TxObject
<1>5. pc \in {"wrapper", "header", "data"}
  BY <1>1, <1>2 DEF TxState, Items
<1>6. CASE pc = "wrapper"
  <2>1. Address = call.p1
    BY <1>6 DEF Address
  <2>2. n >= Least
    <3>1. CASE IsLength(call.p2)
      <4>1. call.p2 \in 6..8 /\ Desired = call.p2 /\ Least = 6
        BY <1>4, <1>6, <3>1 DEF Desired, Least, AtMost
      <4> QED BY <1>2, <1>4, <2>1, <3>1, <4>1 DEF SafeReadLen, AtMost
    <3>2. CASE ~IsLength(call.p2)
      <4>1. Desired = 8 /\ Least = 8
        BY <1>6, <3>2 DEF Desired, Least
      <4> QED BY <1>2, <1>4, <2>1, <3>2, <4>1 DEF SafeReadLen, AtMost
    <3> QED BY <3>1, <3>2
  <2>3. pc' = "wrapper"
    BY <1>1, <1>6, <2>2
  <2>4. TxMessageCaptured'
    BY <2>3, NotReturned
  <2> QED BY <1>1, <1>2, <1>6, <2>3, <2>4 DEF TxState
<1>7. CASE pc = "header"
  <2>1. Address = a /\ Desired = 80 /\ Least = 48
    BY <1>2, <1>7 DEF Address, Desired, Least, TxState
  <2>2. n = 80
    BY <1>2, <1>4, <2>1 DEF SafeReadLen, AtMost
  <2>3. pc' = "header" /\ len' = 80
    BY <1>1, <1>7, <2>1, <2>2
  <2>4. TxMessageCaptured'
    BY <2>3, NotReturned
  <2> QED BY <1>1, <1>2, <1>3, <1>7, <2>3, <2>4 DEF TxState
<1>8. CASE pc = "data"
  <2>1. Address = Memory[a].data_ptr /\ Desired = ReadSize /\ Least = 4 /\ obj = a
    BY <1>2, <1>8 DEF Address, Desired, Least, TxState
  <2>2. InBounds => n = Memory[a].payload_len /\ n >= 4
    <3> SUFFICES ASSUME InBounds PROVE n = Memory[a].payload_len /\ n >= 4
      OBVIOUS
    <3> DEFINE d == Memory[a].data_ptr
               l == Memory[a].payload_len
    <3>1. d \in Blocks /\ l \in 4..Memory[d].available /\ l < 8192
      BY DEF InBounds, HasBuffer
    <3>2. Memory[d].available \in Nat
      BY <3>1, BlockFields
    <3>3. ReadSize = IF l > 0 /\ l < 8192 THEN l ELSE 256
      BY <2>1 DEF ReadSize
    <3> HIDE DEF l
    <3>4. ReadSize = l /\ l \in Nat /\ l >= 4 /\ l <= Memory[d].available
      BY <3>1, <3>2, <3>3
    <3>5. n = AtMost(l, Memory[d].available)
      BY <2>1, <3>1, <3>4, <1>2 DEF SafeReadLen
    <3>6. n = l
      BY <3>4, <3>5 DEF AtMost
    <3> QED BY <3>4, <3>6 DEF l
  <2>3. /\ pc' \in {"data", "inline"} /\ (InBounds => pc' = "data" /\ len' = n)
    BY <1>1, <1>8, <2>1, <2>2
  <2>4. TxMessageCaptured'
    BY <2>3, NotReturned
  <2> HIDE DEF n
  <2> QED BY <1>1, <1>2, <1>3, <1>8, <2>2, <2>3, <2>4 DEF TxState
<1> QED BY <1>5, <1>6, <1>7, <1>8

LEMMA TxReadWrapper == IInv /\ TxInv /\ ReadWrapper => TxInv'
<1> SUFFICES ASSUME IInv, TxInv, ReadWrapper, released = {}, Documented(call) PROVE TxState'
  BY DEF TxInv, ReadWrapper
<1>1. /\ pc = "wrapper" /\ UNCHANGED <<call, dml_data, sent>> /\ len' = 0
      /\ obj' = TxObject /\ pc' = IF ValidPtr(obj') THEN "header" ELSE "returned"
  BY DEF ReadWrapper, Reading, TxObject
<1>2. TxState /\ call \in Calls
  BY DEF TxInv, IInv, TypeOK
<1>3. TxObject' = TxObject /\ ValidPtr(TxObject)
  BY <1>1, <1>2, SameCall, DocumentedCall DEF TxObject
<1>4. pc' = "header"
  BY <1>1, <1>3
<1>5. TxMessageCaptured'
  BY <1>4, NotReturned
<1> QED BY <1>1, <1>2, <1>3, <1>4, <1>5 DEF TxState

LEMMA TxReadHeader == IInv /\ TxInv /\ ReadHeader => TxInv'
<1> SUFFICES ASSUME IInv, TxInv, ReadHeader, released = {}, Documented(call) PROVE TxState'
  BY DEF TxInv, ReadHeader
<1>1. /\ pc = "header" /\ len > 0 /\ UNCHANGED <<call, obj, dml_data, sent>> /\ len' = 0
      /\ obj_readable' = len
      /\ pc' = IF ValidPtr(Memory[obj].data_ptr) /\ Memory[obj].data_ptr # obj
               THEN "data" ELSE "inline"
  BY DEF ReadHeader, Reading
<1>2. TxState /\ call \in Calls
  BY DEF TxInv, IInv, TypeOK
<1>3. obj = TxObject /\ obj_readable' = 80 /\ sent = <<>> /\ dml_data = <<>>
  BY <1>1, <1>2 DEF TxState
<1>4. TxObject' = TxObject /\ InBounds' = InBounds
  BY <1>1, SameCall
<1>5. InBounds => pc' = "data"
  BY <1>1, <1>3 DEF InBounds, HasBuffer
<1>6. pc' \in {"data", "inline"}
  BY <1>1
<1>7. TxMessageCaptured'
  BY <1>6, NotReturned
<1> QED BY <1>1, <1>3, <1>4, <1>5, <1>6, <1>7 DEF TxState

LEMMA TxReadData == IInv /\ TxInv /\ ReadData => TxInv'
<1> SUFFICES ASSUME IInv, TxInv, ReadData, released = {}, Documented(call) PROVE TxState'
  BY DEF TxInv, ReadData
<1> DEFINE d == Memory[obj].data_ptr
           from == IF LooksLikeVtable(d, len) THEN 48 ELSE 0
<1>1. /\ pc = "data" /\ len > 0 /\ UNCHANGED <<call, obj, obj_readable, sent>>
      /\ dml_data' = IF from < len THEN << [block |-> d, from |-> from, to |-> len] >> ELSE <<>>
      /\ pc' = "inline"
  BY DEF ReadData, Reading
<1>2. TxState /\ call \in Calls
  BY DEF TxInv, IInv, TypeOK
<1>3. obj = TxObject /\ obj_readable = 80 /\ sent = <<>>
  BY <1>1, <1>2 DEF TxState
<1>4. TxObject' = TxObject /\ InBounds' = InBounds /\ WholeBuffer' = WholeBuffer
  BY <1>1, SameCall
<1>5. InBounds => dml_data' = << WholeBuffer >>
  <2> SUFFICES ASSUME InBounds PROVE dml_data' = << WholeBuffer >>
    OBVIOUS
  <2>1. len \in {0, Memory[TxObject].payload_len}
    BY <1>1, <1>2 DEF TxState
  <2>2. len = Memory[obj].payload_len
    BY <1>1, <1>3, <2>1
  <2>3. ~LooksLikeVtable(d, len)
    BY <1>3, <2>2 DEF InBounds, HasBuffer
  <2>4. from = 0
    BY <2>3
  <2>5. dml_data' = << [block |-> d, from |-> 0, to |-> len] >>
    BY <1>1, <2>4
  <2> QED BY <1>3, <2>2, <2>5 DEF WholeBuffer
<1>6. TxMessageCaptured'
  BY <1>1, NotReturned
<1> QED BY <1>1, <1>3, <1>4, <1>5, <1>6 DEF TxState

\* One frame, of the data or else of the inline bytes: an object of 80 bytes has some.
LEMMA TxFinish == IInv /\ TxInv /\ Finish => TxInv'
<1> SUFFICES ASSUME IInv, TxInv, Finish, released = {}, Documented(call) PROVE TxState'
  BY DEF TxInv, Finish
<1> DEFINE a == TxObject
           inline == [block |-> obj, from |-> 48, to |-> obj_readable]
           dml == IF NeedsInline THEN << inline >> ELSE dml_data
           frame == Frame(Memory[obj].service, Memory[obj].message, dml[1])
<1>1. /\ pc = "inline" /\ call' = call /\ pc' = "returned"
      /\ sent' = IF dml = <<>> THEN sent ELSE Append(sent, frame)
  BY DEF Finish
<1>2. TxState /\ call \in Calls
  BY DEF TxInv, IInv, TypeOK
<1>3. obj = a /\ obj_readable = 80 /\ sent = <<>> /\ (InBounds => dml_data = << WholeBuffer >>)
  BY <1>1, <1>2 DEF TxState
<1>4. TxObject' = TxObject /\ call.fn = "tx"
  BY <1>1, <1>2, SameCall, DocumentedCall
<1>5. NeedsInline <=> dml_data = <<>>
  BY <1>3 DEF NeedsInline
<1>6. dml # <<>> /\ (InBounds => dml[1] = WholeBuffer)
  <2>1. CASE dml_data = <<>>
    <3>1. dml = << inline >>
      BY <1>5, <2>1
    <3>2. ~InBounds
      BY <1>3, <2>1
    <3> QED BY <3>1, <3>2
  <2>2. CASE dml_data # <<>>
    <3>1. dml = dml_data
      BY <1>5, <2>2
    <3>2. InBounds => dml_data[1] = WholeBuffer
      BY <1>3
    <3> QED BY <2>2, <3>1, <3>2
  <2> QED BY <2>1, <2>2
<1> HIDE DEF dml
<1>7. sent' = << frame >>
  BY <1>1, <1>3, <1>6
<1>8. /\ frame.dir = "tx" /\ frame.service = Memory[a].service
      /\ frame.message = Memory[a].message
      /\ frame.block = dml[1].block /\ frame.from = dml[1].from /\ frame.to = dml[1].to
  BY <1>3, <1>4 DEF Frame
<1>9. InBounds => /\ frame.block = Memory[a].data_ptr
                  /\ frame.from = 0 /\ frame.to = Memory[a].payload_len
  BY <1>6, <1>8 DEF WholeBuffer
<1> HIDE DEF frame
<1>10. Len(sent') = 1 /\ sent'[1] = frame
  BY <1>7
<1>11. TxMessageCaptured'
  <2>1. /\ Len(sent') = 1
        /\ sent'[1].dir = "tx" /\ sent'[1].service = Memory[a].service
        /\ sent'[1].message = Memory[a].message
        /\ HasBuffer(a) /\ Memory[a].payload_len < 8192 =>
             /\ sent'[1].block = Memory[a].data_ptr
             /\ sent'[1].from = 0 /\ sent'[1].to = Memory[a].payload_len
    BY <1>8, <1>9, <1>10 DEF InBounds
  <2>2. Memory[call'.p1].first = a
    BY <1>4 DEF TxObject
  <2> HIDE DEF a
  <2> QED BY <2>1, <2>2 DEF TxMessageCaptured
<1> QED BY <1>1, <1>11 DEF TxState

LEMMA TxSame ==
  ASSUME TxInv, UNCHANGED <<call, pc, len, obj, obj_readable, dml_data, sent>>,
         released' = {} => released = {}
  PROVE  TxInv'
<1> SUFFICES ASSUME released = {}, released' = {}, Documented(call) PROVE TxState'
  BY DEF TxInv
<1>1. TxState
  BY DEF TxInv
<1>2. TxObject' = TxObject /\ InBounds' = InBounds /\ WholeBuffer' = WholeBuffer
  BY SameCall
<1>3. TxMessageCaptured'
  BY <1>1 DEF TxState, TxMessageCaptured
<1> QED BY <1>1, <1>2, <1>3 DEF TxState

LEMMA TxStep == IInv /\ TxInv /\ [Next]_vars => TxInv'
<1> SUFFICES ASSUME IInv, TxInv, [Next]_vars PROVE TxInv'
  OBVIOUS
<1>1. CASE Call
  BY <1>1, TxCall
<1>2. CASE Query
  BY <1>2, TxQuery
<1>3. CASE AccessViolation
  BY <1>3, TxSame DEF AccessViolation
<1>4. CASE ReadWrapper
  BY <1>4, TxReadWrapper
<1>5. CASE ReadCandidate \/ ReadBuffer
  <2>1. released' = released /\ call' = call /\ pc \in {"candidate", "buffer"}
    BY <1>5 DEF ReadCandidate, ReadBuffer, Reading
  <2>2. ~(released = {} /\ Documented(call))
    BY <2>1 DEF TxInv, TxState
  <2> QED BY <2>1, <2>2 DEF TxInv
<1>6. CASE ReadHeader
  BY <1>6, TxReadHeader
<1>7. CASE ReadData
  BY <1>7, TxReadData
<1>8. CASE Finish
  BY <1>8, TxFinish
<1>9. CASE \E a \in Blocks : Release(a) \/ Commit(a)
  <2>1. /\ UNCHANGED <<call, pc, len, obj, obj_readable, dml_data, sent>>
        /\ released' = {} => released = {}
    BY <1>9 DEF Release, Commit
  <2> QED BY <2>1, TxSame
<1>10. CASE UNCHANGED vars
  BY <1>10, TxSame DEF vars
<1> QED BY <1>1, <1>2, <1>3, <1>4, <1>5, <1>6, <1>7, <1>8, <1>9, <1>10 DEF Next

\* A documented call of TxMessage whose memory stays is captured once, with its ids and the
\* whole of its data, whatever else is in memory.
THEOREM TxCaptured == Spec => []TxMessageCaptured
<1>1. IInv /\ TxInv => TxMessageCaptured
  <2>1. released = {} /\ Documented(call) /\ TxInv => TxMessageCaptured
    BY DEF TxInv, TxState
  <2>2. ~(released = {} /\ Documented(call)) => TxMessageCaptured
    BY DEF TxMessageCaptured
  <2> QED BY <2>1, <2>2
<1>2. Init => IInv /\ TxInv
  BY InitInv, TxInit
<1>3. IInv /\ TxInv /\ [Next]_vars => (IInv /\ TxInv)'
  BY StepInv, TxStep
<1> QED BY <1>1, <1>2, <1>3, PTL DEF Spec

=============================================================================
