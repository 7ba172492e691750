-------------------------- MODULE MCCaptureSession --------------------------
(***************************************************************************)
(* Instances of CaptureSession for TLC.                                    *)
(***************************************************************************)
EXTENDS CaptureSession

CONSTANTS t1, t2

\* The second call of thread t1 captures a buffer too long for a frame.
MCOversize == {<<t1, 2>>} \cap Frame

NoOversize == {}

=============================================================================
