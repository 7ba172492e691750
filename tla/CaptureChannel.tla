--------------------------- MODULE CaptureChannel ---------------------------
(***************************************************************************)
(* What the capture path as a whole promises the person reading the packet *)
(* list, with the processes, the pipe and the threads left out: frames     *)
(* enter a queue while a connection is open and are shown from its head.   *)
(* The end of a connection may cut a tail off the queue, and that is the   *)
(* only way to lose a frame: nothing is reordered, repeated, or lost from  *)
(* the middle of a connection.  CaptureSession implements this module.     *)
(***************************************************************************)
EXTENDS Naturals, Sequences

CONSTANT Frame      \* the captured buffers that can be told apart

VARIABLES
  queue,            \* frames accepted and not shown yet, oldest first
  shown,            \* frames shown, in the order they were shown
  open              \* whether a connection of the current session is up

vars == <<queue, shown, open>>

Init ==
  /\ queue = <<>>
  /\ shown = <<>>
  /\ open = FALSE

Open ==
  /\ ~open
  /\ open' = TRUE
  /\ UNCHANGED <<queue, shown>>

Put(f) ==
  /\ open
  /\ queue' = Append(queue, f)
  /\ UNCHANGED <<shown, open>>

\* The reader takes any number of frames, always from the head.
Deliver ==
  \E n \in 1..Len(queue) :
    /\ shown' = shown \o SubSeq(queue, 1, n)
    /\ queue' = SubSeq(queue, n + 1, Len(queue))
    /\ UNCHANGED open

\* A connection or a session ends: a tail of the queue may go with it.
Cut ==
  /\ open' = FALSE
  /\ \E n \in 0..Len(queue) : queue' = SubSeq(queue, 1, n)
  /\ UNCHANGED shown

Next ==
  \/ Open
  \/ \E f \in Frame : Put(f)
  \/ Deliver
  \/ Cut

Spec == Init /\ [][Next]_vars

=============================================================================
