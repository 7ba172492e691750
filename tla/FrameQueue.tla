----------------------------- MODULE FrameQueue -----------------------------
(***************************************************************************)
(* What the named pipe of README.md's "Pipe Protocol" promises to both     *)
(* ends: frames come out whole, in the order they went in, none twice.     *)
(* Either end may stop at any point, and then what is in it is lost.       *)
(***************************************************************************)
EXTENDS Naturals, Sequences

CONSTANT Frames

VARIABLES written, delivered

Init == written = <<>> /\ delivered = <<>>

Put == \E f \in Frames : written' = Append(written, f) /\ UNCHANGED delivered

Deliver ==
  /\ Len(delivered) < Len(written)
  /\ delivered' = Append(delivered, written[Len(delivered) + 1])
  /\ UNCHANGED written

Spec == Init /\ [][Put \/ Deliver]_<<written, delivered>>

=============================================================================
