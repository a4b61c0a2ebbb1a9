------------------------------- MODULE MCSptp -------------------------------
(* Model values for the instances of Sptp that TLC checks. *)
EXTENDS Sptp

CONSTANTS w, f1, q0, q1, none
=============================================================================
