---------------------------- MODULE FrameChannel ----------------------------
(***************************************************************************)
(* What the shared-memory ring promises to the processes of one vehicle:   *)
(* one order of all frames, followed by every reader at its own pace,      *)
(* never more than Capacity frames ahead of the slowest reader, and every  *)
(* reader hears exactly the frames meant for it, in that order.            *)
(***************************************************************************)
EXTENDS Naturals, Sequences

CONSTANTS Readers,        \* the registered processes
          Messages,       \* what may be published
          Capacity,       \* frames the channel may keep for a slow reader
          MeantFor(_, _)  \* MeantFor(m, p): reader p is to hear message m

VARIABLES log,    \* every message ever published, in order
          pos,    \* pos[p]: how many of them reader p has taken
          heard   \* heard[p]: what reader p was handed

vars == <<log, pos, heard>>

Init == /\ log = << >>
        /\ pos = [p \in Readers |-> 0]
        /\ heard = [p \in Readers |-> << >>]

\* A writer adds a message, unless some reader is Capacity messages behind.
Publish(m) == /\ \A p \in Readers : Len(log) - pos[p] < Capacity
              /\ log' = Append(log, m)
              /\ UNCHANGED <<pos, heard>>

\* A reader takes its next message and hears it if it is meant for it.
Take(p) == /\ pos[p] < Len(log)
           /\ pos' = [pos EXCEPT ![p] = @ + 1]
           /\ heard' = IF MeantFor(log[pos[p] + 1], p)
                       THEN [heard EXCEPT ![p] = Append(@, log[pos[p] + 1])]
                       ELSE heard
           /\ UNCHANGED log

Next == \/ \E m \in Messages : Publish(m)
        \/ \E p \in Readers : Take(p)

Spec == Init /\ [][Next]_vars
=============================================================================
