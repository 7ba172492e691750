-------------------------- MODULE MCMessageExtract --------------------------
(***************************************************************************)
(* Instances of MessageExtract for TLC.  ImageStart is 900000 and UserEnd  *)
(* 1000000.                                                                *)
(***************************************************************************)
EXTENDS MessageExtract, TLC

Vtable == 950000

\* A block of n bytes that is no object, and one that is.
Bytes(n, first) ==
  [available |-> n, first |-> first, byte0 |-> 5, byte1 |-> 2, word2 |-> 20,
   data_ptr |-> 0, payload_len |-> 0, service |-> 0, message |-> 0]
Object(n, data_ptr, payload_len) ==
  [Bytes(n, Vtable) EXCEPT !.data_ptr = data_ptr, !.payload_len = payload_len,
                           !.service = 7, !.message = 9]

\* Objects with a buffer, with an inner object, with one too short to be of use, with
\* inline data only, with none, and one cut off; buffers of received messages whose
\* length is right, too long, or whose service id is out of range.
Blocks1 ==
  (100008 :> Object(4096, 200000, 40)) @@ (100108 :> Object(96, 200100, 300))
    @@ (100208 :> Object(80, 200300, 60)) @@ (100308 :> Object(48, 0, 10))
    @@ (100408 :> Object(80, 100408, 10)) @@ (100508 :> Object(47, 200000, 40))
    @@ (200000 :> Bytes(4096, 0)) @@ (200100 :> Object(70, 0, 0)) @@ (200300 :> Bytes(3, 0))
Received ==
  (300000 :> Bytes(24, 0)) @@ (300100 :> [Bytes(4, 0) EXCEPT !.word2 = 500])
    @@ (300200 :> [Bytes(4096, 0) EXCEPT !.byte0 = 200]) @@ (300300 :> Bytes(0, 0))
Wrappers ==
  (400000 :> Bytes(8, 100008)) @@ (400100 :> Bytes(6, 100108)) @@ (400200 :> Bytes(5, 100008))
    @@ (400300 :> Bytes(64, 100208)) @@ (400400 :> Bytes(8, 100308))
    @@ (400500 :> Bytes(8, 100408)) @@ (400600 :> Bytes(8, 100508)) @@ (400700 :> Bytes(8, 3))
GameMemory == Blocks1 @@ Received @@ Wrappers

TxCalls(addresses) ==
  [fn : {"tx"}, p1 : addresses, p2 : {0, 5, 6, 7, 8, 100, 65535}, p3 : {0}]
    \cup {[fn |-> "tx", p1 |-> a, p2 |-> a, p3 |-> 0] : a \in addresses}
RxCalls(addresses) ==
  [fn : {"rx"}, p1 : addresses \cup {5}, p2 : {2, 24, 400, 65535}, p3 : {0, 1000001}]
    \cup [fn : {"rx"}, p1 : {5, 300000}, p2 : {0, 2, 70000}, p3 : addresses]

\* Addresses of every kind, some of nothing, outside of the user's half and below 64K.
GameCalls == TxCalls(DOMAIN Wrappers \cup {3, 500000, 1000001}) \cup
             RxCalls(DOMAIN Blocks1 \cup DOMAIN Received \cup {500000})
=============================================================================
