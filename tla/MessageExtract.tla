--------------------------- MODULE MessageExtract ---------------------------
(***************************************************************************)
(* game_hooks.rs: what the detours of TxMessage and AppProcessMessage make *)
(* of the registers they are entered with.  on_txmessage and on_rxmessage  *)
(* follow pointers into memory that the game owns: safe_read_len asks      *)
(* VirtualQuery how much can be read, and a later step reads it, while any *)
(* other thread of the game may give the memory back.                      *)
(*                                                                         *)
(* A block is what lies at an address: the fields the code may take from   *)
(* it, whichever it turns out to be.  What is sent is a slice of a block.  *)
(* Addresses are numbers; the two limits of 2^47 are constants, as only    *)
(* the order of addresses matters.                                         *)
(***************************************************************************)
EXTENDS Naturals, Sequences, FiniteSets

CONSTANTS
  ImageStart,       \* 0x7FF000000000: a first qword above it is taken for a vtable
  UserEnd,          \* 0x7FFFFFFFFFFF
  Memory,           \* the blocks by address
  Calls,            \* the calls of the two functions
  MaxGone           \* bound: blocks that are gone when a call begins or released in it

Blocks == DOMAIN Memory

Byte == 0..255
Word16 == {n \in Nat : n < 65536}

Block ==
  [available : Nat,        \* bytes from here to the end of the region, 0 if unreadable
   first : Nat,            \* u64 at 0x00: a vtable, a pointer or neither
   byte0 : Byte, byte1 : Byte, word2 : Word16,
   data_ptr : Nat,         \* u64 at 0x10
   payload_len : Nat,      \* u32 at 0x20
   service : Byte, message : Byte]   \* u8 at 0x28 and 0x29

ASSUME MemoryAssumption ==
  /\ ImageStart \in Nat /\ UserEnd \in Nat /\ 65536 < ImageStart /\ ImageStart < UserEnd
  /\ Blocks \subseteq Nat
  /\ \A a \in Blocks : Memory[a] \in Block
  /\ Calls \subseteq [fn : {"tx", "rx"}, p1 : Nat, p2 : Nat, p3 : Nat]
  /\ MaxGone \in Nat

VARIABLES
  live,             \* the blocks whose memory is committed
  released,         \* history: those the game gave back since the call began
  call,             \* the registers
  pc,               \* what is queried or read next, or where the call stands
  len,              \* what safe_read_len returned for it, 0 before it is called
  obj,              \* obj_addr
  obj_readable,     \* length of header
  dml_data,         \* at most one slice
  sent,             \* the frames of this call
  crashed           \* an access violation, which catch_unwind does not catch

vars == <<live, released, call, pc, len, obj, obj_readable, dml_data, sent, crashed>>

Items == {"wrapper", "buffer", "candidate", "header", "data"}

Init ==
  /\ live = Blocks /\ released = {}
  /\ call \in Calls
  /\ pc = "idle" /\ len = 0
  /\ obj = 0 /\ obj_readable = 0 /\ dml_data = <<>> /\ sent = <<>>
  /\ crashed = FALSE

-----------------------------------------------------------------------------
AtMost(m, n) == IF m <= n THEN m ELSE n

\* is_valid_ptr.
ValidPtr(a) == a > 65536 /\ a < UserEnd

\* looks_like_vtable of the first qword of n bytes; read_ptr of fewer than eight is 0.
LooksLikeVtable(a, n) == n >= 8 /\ Memory[a].first > ImageStart /\ Memory[a].first < UserEnd

\* Mutated form: the region is taken to reach as far as wanted.
SafeReadLenWanted(a, desired) == IF a \in live THEN desired ELSE 0

\* safe_read_len.
SafeReadLen(a, desired) ==
  IF a \in live THEN AtMost(desired, Memory[a].available) ELSE 0

\* A length taken as an integer: p2 of Type 1 and of the first reading of a received message.
IsLength(p) == p > 0 /\ p < 65536

\* What the hook of a function looks at first.
FirstItem(c) ==
  CASE c.fn = "tx" /\ ValidPtr(c.p1) /\ (IsLength(c.p2) \/ c.p1 = c.p2) -> "wrapper"
    [] c.fn = "rx" /\ ValidPtr(c.p1) /\ IsLength(c.p2) -> "buffer"
    [] c.fn = "rx" /\ ~(ValidPtr(c.p1) /\ IsLength(c.p2)) /\ ValidPtr(c.p3) -> "candidate"
    [] OTHER -> "returned"    \* the third reading of p1, p2 and p3 asks ValidPtr(p3) again

\* Of each item its address, the length asked for, and the least that is of use.
Address ==
  CASE pc \in {"wrapper", "buffer"} -> call.p1
    [] pc = "candidate" -> call.p3
    [] pc = "data" -> Memory[obj].data_ptr
    [] OTHER -> obj

ReadSize ==
  LET n == Memory[obj].payload_len IN IF n > 0 /\ n < 8192 THEN n ELSE 256

Desired ==
  CASE pc = "wrapper" -> IF IsLength(call.p2) THEN AtMost(call.p2, 64) ELSE 8
    [] pc = "buffer" -> AtMost(call.p2, 8192)
    [] pc = "data" -> ReadSize
    [] OTHER -> 80

Least ==
  CASE pc = "wrapper" -> IF IsLength(call.p2) THEN 6 ELSE 8
    [] pc \in {"buffer", "data"} -> 4
    [] OTHER -> 48

\* send_kinp_frame with the bytes of a slice.
Frame(service, message, s) ==
  [dir |-> call.fn, service |-> service, message |-> message,
   block |-> s.block, from |-> s.from, to |-> s.to]

-----------------------------------------------------------------------------
\* The game calls one of the two functions.
Call ==
  /\ pc \in {"idle", "returned"} /\ ~crashed
  /\ call' \in Calls
  /\ pc' = FirstItem(call')
  /\ sent' = <<>> /\ released' = Blocks \ live
  /\ len' = 0 /\ obj' = 0 /\ obj_readable' = 0 /\ dml_data' = <<>>
  /\ UNCHANGED <<live, crashed>>

\* safe_read_len of the item; too little ends the call, except for the data buffer, in
\* whose place the object's inline data are taken.
Query ==
  /\ pc \in Items /\ len = 0 /\ ~crashed
  /\ LET n == SafeReadLen(Address, Desired)
     IN IF n >= Least
        THEN len' = n /\ pc' = pc
        ELSE len' = 0 /\ pc' = IF pc = "data" THEN "inline" ELSE "returned"
  /\ UNCHANGED <<live, released, call, obj, obj_readable, dml_data, sent, crashed>>

\* The item is about to be read, and can be.
Reading(item) ==
  pc = item /\ len > 0 /\ ~crashed /\ Address \in live /\ len <= Memory[Address].available

\* Whether the inline data of the object are needed.
NeedsInline == dml_data = <<>> /\ obj_readable > 48

\* What is read is not there any more, or never was.
AccessViolation ==
  /\ ~crashed
  /\ \/ pc \in Items /\ len > 0 /\ (Address \notin live \/ len > Memory[Address].available)
     \/ pc = "inline" /\ NeedsInline /\ (obj \notin live \/ obj_readable > Memory[obj].available)
  /\ crashed' = TRUE
  /\ UNCHANGED <<live, released, call, pc, len, obj, obj_readable, dml_data, sent>>

\* on_txmessage: the pointer to the message object, of six bytes or more.
ReadWrapper ==
  /\ Reading("wrapper")
  /\ obj' = Memory[call.p1].first
  /\ pc' = IF ValidPtr(obj') THEN "header" ELSE "returned"
  /\ len' = 0
  /\ UNCHANGED <<live, released, call, obj_readable, dml_data, sent, crashed>>

\* on_rxmessage, the second reading: an object at p3.
ReadCandidate ==
  /\ Reading("candidate")
  /\ IF LooksLikeVtable(call.p3, len)
     THEN obj' = call.p3 /\ pc' = "header"
     ELSE pc' = "returned" /\ UNCHANGED obj
  /\ len' = 0
  /\ UNCHANGED <<live, released, call, obj_readable, dml_data, sent, crashed>>

\* Where the field data of a buffer end, by the length in it if that can be.
DirectEnd ==
  LET n == Memory[call.p1].word2 IN IF n > 4 /\ n <= len THEN n ELSE AtMost(len, 4096)

\* The frame of a buffer that is no object: service, message type, length and data, or
\* else all of it under the ids 0.
DirectFrame ==
  LET b == Memory[call.p1]
  IN IF b.byte0 \in 1..99
     THEN Frame(b.byte0, b.byte1, [block |-> call.p1, from |-> 4, to |-> DirectEnd])
     ELSE Frame(0, 0, [block |-> call.p1, from |-> 0, to |-> len])

\* on_rxmessage, the first reading: p1 is a buffer of p2 bytes, or an object.
ReadBuffer ==
  /\ Reading("buffer")
  /\ IF LooksLikeVtable(call.p1, len) /\ len >= 48
     THEN obj' = call.p1 /\ pc' = "header" /\ UNCHANGED sent
     ELSE sent' = Append(sent, DirectFrame) /\ pc' = "returned" /\ UNCHANGED obj
  /\ len' = 0
  /\ UNCHANGED <<live, released, call, obj_readable, dml_data, crashed>>

\* extract_and_send_message: ids, length and data pointer of the object.
ReadHeader ==
  /\ Reading("header")
  /\ obj_readable' = len
  /\ pc' = IF ValidPtr(Memory[obj].data_ptr) /\ Memory[obj].data_ptr # obj THEN "data" ELSE "inline"
  /\ len' = 0
  /\ UNCHANGED <<live, released, call, obj, dml_data, sent, crashed>>

\* The bytes of the data buffer; of an inner object those behind its header.
ReadData ==
  /\ Reading("data")
  /\ LET a == Memory[obj].data_ptr
         from == IF LooksLikeVtable(a, len) THEN 48 ELSE 0
     IN dml_data' = IF from < len THEN << [block |-> a, from |-> from, to |-> len] >> ELSE <<>>
  /\ pc' = "inline" /\ len' = 0
  /\ UNCHANGED <<live, released, call, obj, obj_readable, sent, crashed>>

\* Mutated form: the inline data come first.
FinishInline ==
  /\ pc = "inline" /\ ~crashed
  /\ obj_readable > 48 => obj \in live /\ obj_readable <= Memory[obj].available
  /\ LET dml == IF obj_readable > 48 THEN << [block |-> obj, from |-> 48, to |-> obj_readable] >>
                                     ELSE dml_data
     IN sent' = IF dml = <<>> THEN sent
                ELSE Append(sent, Frame(Memory[obj].service, Memory[obj].message, dml[1]))
  /\ pc' = "returned"
  /\ UNCHANGED <<live, released, call, len, obj, obj_readable, dml_data, crashed>>

\* The data, or else what lies inline behind the header, are sent.
Finish ==
  /\ pc = "inline" /\ ~crashed
  /\ NeedsInline => obj \in live /\ obj_readable <= Memory[obj].available
  /\ LET dml == IF NeedsInline THEN << [block |-> obj, from |-> 48, to |-> obj_readable] >>
                               ELSE dml_data
     IN sent' = IF dml = <<>> THEN sent
                ELSE Append(sent, Frame(Memory[obj].service, Memory[obj].message, dml[1]))
  /\ pc' = "returned"
  /\ UNCHANGED <<live, released, call, len, obj, obj_readable, dml_data, crashed>>

\* Another thread of the game gives memory back, and gets it again.
Release(a) ==
  /\ a \in live /\ Cardinality(released) < MaxGone
  /\ live' = live \ {a} /\ released' = released \cup {a}
  /\ UNCHANGED <<call, pc, len, obj, obj_readable, dml_data, sent, crashed>>

Commit(a) ==
  /\ a \in Blocks \ live
  /\ live' = live \cup {a}
  /\ UNCHANGED <<released, call, pc, len, obj, obj_readable, dml_data, sent, crashed>>

Next ==
  \/ Call \/ Query \/ AccessViolation
  \/ ReadWrapper \/ ReadCandidate \/ ReadBuffer \/ ReadHeader \/ ReadData \/ Finish
  \/ \E a \in Blocks : Release(a) \/ Commit(a)

Spec == Init /\ [][Next]_vars

-----------------------------------------------------------------------------
Slice == [block : Blocks, from : Nat, to : Nat]
FrameType == [dir : {"tx", "rx"}, service : Byte, message : Byte,
              block : Blocks, from : Nat, to : Nat]

\* A slice of what can be read, of a length to which send_kinp_frame can add eight in a u16.
Readable(s) ==
  s.from <= s.to /\ s.to <= Memory[s.block].available /\ s.to - s.from <= 65535 - 8

\* The types; the data of every frame can be read and fit.
TypeOK ==
  /\ live \subseteq Blocks /\ released \subseteq Blocks
  /\ call \in Calls
  /\ pc \in Items \cup {"idle", "inline", "returned"}
  /\ len \in Nat /\ obj \in Nat /\ obj_readable \in 0..80
  /\ dml_data \in Seq(Slice) /\ Len(dml_data) <= 1
  /\ sent \in Seq(FrameType) /\ \A k \in DOMAIN sent : Readable(sent[k])
  /\ crashed \in BOOLEAN

\* The hook takes the game down only where the game gives memory back between the query
\* and the read of it, in the middle of the call it passed that memory to.  (A query of
\* memory already gone ends in 0 bytes, and no length goes past a region.)
FaultOnlyIfReleased == crashed => Address \in released

\* The message object of a call, by README.md:94-95.
Type1(c) == c.p2 \in 6..8 /\ c.p1 \in Blocks /\ Memory[c.p1].available >= c.p2
Type2(c) == c.p1 = c.p2 /\ c.p1 \in Blocks /\ Memory[c.p1].available >= 8
IsMessage(a) == a \in Blocks /\ Memory[a].available >= 80 /\ ValidPtr(a)
Documented(c) ==
  /\ c.fn = "tx" /\ ValidPtr(c.p1) /\ (Type1(c) \/ Type2(c))
  /\ IsMessage(Memory[c.p1].first)

\* An object whose data buffer holds serialized data of the length it says.
HasBuffer(a) ==
  LET d == Memory[a].data_ptr
  IN /\ d \in Blocks \ {a} /\ ValidPtr(d)
     /\ Memory[a].payload_len \in 4..Memory[d].available
     /\ ~LooksLikeVtable(d, Memory[a].payload_len)

\* When the game keeps the memory, a call of TxMessage in one of the documented ways is
\* captured exactly once, with the ids of its object; data of a length in bounds are
\* captured whole and nothing behind them.
TxMessageCaptured ==
  pc = "returned" /\ released = {} /\ Documented(call) =>
    LET a == Memory[call.p1].first
    IN /\ Len(sent) = 1
       /\ sent[1].dir = "tx" /\ sent[1].service = Memory[a].service
       /\ sent[1].message = Memory[a].message
       /\ HasBuffer(a) /\ Memory[a].payload_len < 8192 =>
            /\ sent[1].block = Memory[a].data_ptr
            /\ sent[1].from = 0 /\ sent[1].to = Memory[a].payload_len

=============================================================================
