----------------------------- MODULE MCNodeLife -----------------------------
(* NodeLife with its constants from the configuration: two components, and a *)
(* ring of one slot, which one frame fills for good once a process has left. *)
EXTENDS NodeLife
=============================================================================
