----------------------------- MODULE MCQuadrants -----------------------------
(* Model values for the instances of Quadrants that TLC checks. *)
EXTENDS Quadrants

CONSTANTS w, f, none
=============================================================================
