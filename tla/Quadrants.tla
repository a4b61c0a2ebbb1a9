------------------------------ MODULE Quadrants ------------------------------
(***************************************************************************)
(* The quadrant of one node: the GPS module in the kernel, which moves the *)
(* vehicle whenever somebody asks after a long enough stay, and the raw-   *)
(* socket NIC of the gateway, which asks on every frame it sends (to stamp *)
(* it and to notice a change) and on every frame it receives (to drop what *)
(* comes from elsewhere).                                                  *)
(*                                                                         *)
(* The gateway starts in steps: its NIC receives from the moment Protocol  *)
(* attaches to it, before the quadrant hooks are installed and before      *)
(* enable_sync freezes the GPS of an RSU.  A send that notices a change    *)
(* calls request_resync, whose request is one more send of the same        *)
(* thread.  Time passes in ticks; a send ends before the second of them.   *)
(***************************************************************************)
EXTENDS Naturals, FiniteSets

CONSTANTS
  Senders,      \* threads of the gateway that send through the NIC
  Watchdog,     \* the thread of SPTP among them
  Unknown,      \* GPS::QUADRANT_NONE
  Interval,     \* GPS_MOVE_INTERVAL, in ticks
  MaxMoves,     \* bound: changes of quadrant
  MaxFrames     \* bound: frames sent that are not requests of SPTP

ASSUME SendersAssumption == IsFiniteSet(Senders) /\ Watchdog \in Senders
ASSUME TimingAssumption == Interval \in Nat \ {0}
ASSUME BoundsAssumption == MaxMoves \in Nat /\ MaxFrames \in Nat

Quadrants == 0 .. 3
ASSUME UnknownAssumption == Unknown \notin Quadrants

VARIABLES
  quadrant, stay, fixed,  \* kernel: quadrant, ticks since last_change (up to Interval), fixed
  master,        \* the node is an RSU
  phase,         \* how far the gateway has come in starting
  lastQuadrant,  \* NIC's _last_quadrant
  sends,         \* sends[t]: the send of thread t in progress
  origin,        \* history: the quadrant the module was loaded with
  sampled,       \* history: the quadrant the last send was given
  due,           \* history: a frame was given another quadrant than the one before
                 \*   it, and no request of SPTP was sent since
  resyncs,       \* history: calls of on_quadrant_change
  moves, frames  \* bounds used up

gps == <<quadrant, stay, fixed, moves>>
vars == <<quadrant, stay, fixed, master, phase, lastQuadrant, sends, origin, sampled,
          due, resyncs, moves, frames>>

-----------------------------------------------------------------------------
Idle    == [at |-> "idle", quad |-> Unknown, late |-> FALSE]
Request == [at |-> "request", quad |-> Unknown, late |-> FALSE]

\* The grid: every quadrant has two neighbours, never the one across.
Neighbours(q) == CASE q \in {0, 3} -> {1, 2} [] q \in {1, 2} -> {0, 3}

Init ==
  /\ quadrant \in Quadrants /\ stay \in 0 .. Interval /\ fixed = FALSE
  /\ master \in BOOLEAN
  /\ phase = "receiving"
  /\ lastQuadrant = Unknown
  /\ sends = [t \in Senders |-> Idle]
  /\ origin = quadrant /\ sampled = Unknown /\ due = FALSE
  /\ resyncs = 0 /\ moves = 0 /\ frames = 0

-----------------------------------------------------------------------------
(* GPS_IOC_GET_QUADRANT, under gps_lock: moves first, if the stay was long *)
(* enough; quadrant' is what it returns.                                   *)
Advance ==
  IF fixed \/ stay < Interval \/ moves = MaxMoves
  THEN UNCHANGED gps
  ELSE /\ quadrant' \in Neighbours(quadrant)
       /\ stay' = 0
       /\ moves' = moves + 1
       /\ UNCHANGED fixed

\* A frame of another node arrives and is accepted or dropped: the filter asks the GPS
\* in either case.
Filter ==
  /\ Advance
  /\ UNCHANGED <<master, phase, lastQuadrant, sends, origin, sampled, due, resyncs, frames>>

\* NIC::send asks for the quadrant and stamps the frame.
Ask(t, from) ==
  /\ sends[t].at = from
  /\ Advance
  /\ sends' = [sends EXCEPT ![t] = [at |-> "detect", quad |-> quadrant', late |-> FALSE]]
  /\ sampled' = quadrant'
  /\ due' = (/\ ~(t = Watchdog \/ from = "request")
             /\ phase = "synced" /\ ~master
             /\ due \/ sampled \notin {Unknown, quadrant'})
  /\ UNCHANGED <<master, phase, lastQuadrant, origin, resyncs>>

\* An RSU has no watchdog, and neither has a vehicle before enable_sync; the frames of
\* its components are forwarded from the start.
MaySend(t) == IF phase = "synced" THEN ~(master /\ t = Watchdog)
              ELSE ~master /\ t # Watchdog

SendFrame(t) ==
  /\ frames < MaxFrames /\ MaySend(t)
  /\ frames' = frames + 1
  /\ Ask(t, "idle")

\* The request of SPTP that request_resync sends, in the middle of the first send.
SendRequest(t) == Ask(t, "request") /\ UNCHANGED frames

\* _on_quadrant_change reaches request_resync once SPTP runs, on a vehicle.
Noticed(t, prev) == /\ phase = "synced" /\ ~master
                    /\ prev \notin {Unknown, sends[t].quad}

DetectKeeps(t) ==
  /\ sends[t].at = "detect"
  /\ lastQuadrant' = IF lastQuadrant = Unknown THEN sends[t].quad ELSE lastQuadrant
  /\ IF Noticed(t, lastQuadrant)
     THEN /\ sends' = [sends EXCEPT ![t] = Request]
          /\ resyncs' = resyncs + 1
     ELSE /\ sends' = [sends EXCEPT ![t] = Idle]
          /\ UNCHANGED resyncs
  /\ UNCHANGED <<gps, master, phase, origin, sampled, due, frames>>

DetectDefers(t) ==
  /\ sends[t].at = "detect"
  /\ lastQuadrant' = sends[t].quad
  /\ sends' = [sends EXCEPT ![t] = Idle]
  /\ resyncs' = IF Noticed(t, lastQuadrant) THEN resyncs + 1 ELSE resyncs
  /\ UNCHANGED <<gps, master, phase, origin, sampled, due, frames>>

\* detect_quadrant_change: prev = _last_quadrant.exchange(q).
Detect(t) ==
  /\ sends[t].at = "detect"
  /\ lastQuadrant' = sends[t].quad
  /\ IF Noticed(t, lastQuadrant)
     THEN /\ sends' = [sends EXCEPT ![t] = Request]
          /\ resyncs' = resyncs + 1
     ELSE /\ sends' = [sends EXCEPT ![t] = Idle]
          /\ UNCHANGED resyncs
  /\ UNCHANGED <<gps, master, phase, origin, sampled, due, frames>>

-----------------------------------------------------------------------------
(* Protocol's constructor after attach, and enable_sync. *)

\* setup_read_quadrant, setup_write_quadrant and setup_quadrant_change_handler
InstallHooks ==
  /\ phase = "receiving"
  /\ phase' = "hooked"
  /\ UNCHANGED <<gps, master, lastQuadrant, sends, origin, sampled, due, resyncs, frames>>

\* set_fixed(is_master), then SPTP starts, on a vehicle with a first request.
EnableSync ==
  /\ phase = "hooked" /\ sends[Watchdog] = Idle
  /\ phase' = "synced"
  /\ fixed' = master
  /\ sends' = IF master THEN sends ELSE [sends EXCEPT ![Watchdog] = Request]
  /\ UNCHANGED <<quadrant, stay, moves, master, lastQuadrant, origin, sampled, due,
                 resyncs, frames>>

Tick ==
  /\ stay < Interval
  /\ \A t \in Senders : ~sends[t].late
  /\ stay' = stay + 1
  /\ sends' = [t \in Senders |-> [sends[t] EXCEPT !.late = sends[t] # Idle]]
  /\ UNCHANGED <<quadrant, fixed, moves, master, phase, lastQuadrant, origin, sampled,
                 due, resyncs, frames>>

Next == \/ \E t \in Senders : SendFrame(t) \/ SendRequest(t) \/ Detect(t)
        \/ Filter \/ Tick
        \/ InstallHooks \/ EnableSync

Spec == Init /\ [][Next]_vars

-----------------------------------------------------------------------------
\* The GPS, the NIC and the sends in progress have their types.
TypeOK ==
  /\ quadrant \in Quadrants /\ stay \in 0 .. Interval
  /\ fixed \in BOOLEAN /\ master \in BOOLEAN
  /\ phase \in {"receiving", "hooked", "synced"}
  /\ lastQuadrant \in Quadrants \cup {Unknown} /\ sampled \in Quadrants \cup {Unknown}
  /\ sends \in [Senders -> [at : {"idle", "request", "detect"},
                            quad : Quadrants \cup {Unknown}, late : BOOLEAN]]
  /\ due \in BOOLEAN /\ resyncs \in Nat

\* Whichever thread first sends from a new quadrant, and however the exchanges of the
\* others overtake its own: when no send is in progress, the change was answered by a
\* request of SPTP (nic.h:199, README.md: resync on a change of quadrant).
NoMissedChange == (\A t \in Senders : sends[t] = Idle) => ~due

\* A stale exchange is repaired by the request it causes: when no send is in progress,
\* what the next send is compared with is what the last one was given.
LastIsLatest ==
  phase = "synced" /\ ~master /\ (\A t \in Senders : sends[t] = Idle)
    => lastQuadrant = sampled

\* Requests answer changes: exchanges in the wrong order cost at most two more for every
\* other thread, never an endless exchange of requests.
ResyncsBounded == resyncs <= moves * (2 * Cardinality(Senders) - 1)

\* run_qemu_test.sh:250: the RSUs are anchored, one in each quadrant (initial_quadrant);
\* protocol.h:173: enable_sync fixes the quadrant, the station does not move.
StationStays == master => quadrant = origin
=============================================================================
