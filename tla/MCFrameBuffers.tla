--------------------------- MODULE MCFrameBuffers ---------------------------
(* Model values for the instances of FrameBuffers that TLC checks. *)
EXTENDS FrameBuffers

CONSTANTS l1, r1, s1, j1, t1, b1, b2, b4, b5
=============================================================================
