--------------------------- MODULE MCBindingCache ---------------------------
(* Model values for the instances of BindingCache that TLC checks. *)
EXTENDS BindingCache

CONSTANTS a1, a2, q0, q1
=============================================================================
