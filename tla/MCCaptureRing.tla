--------------------------- MODULE MCCaptureRing ---------------------------
(* Instances of CaptureRing for TLC.                                       *)
EXTENDS CaptureRing

(* A read of nothing, of part of the ring, and of more than the ring holds.*)
MCRequests == {0, 1, NUM_DESC + 1}
=============================================================================
