------------------------------ MODULE MCShmRing ------------------------------
(* Instances of ShmRing for TLC: a gateway, one or two components. *)
EXTENDS ShmRing, TLC

CONSTANTS g, c1, c2, w0, w1

OneComponent  == {c1}
TwoComponents == {c1, c2}
Everyone      == Procs

\* A thread of the gateway and one of c1.
WritersGC  == {w0, w1}
ProcOfGC   == w0 :> g @@ w1 :> c1
=============================================================================
