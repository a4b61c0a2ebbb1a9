------------------------------ MODULE NodeLife ------------------------------
(***************************************************************************)
(* The life of a vehicle, from the fork of its components to the release   *)
(* of what they share.  The gateway's process creates the ring, forks the  *)
(* components, opens the two NICs, waits until the components have ended   *)
(* and takes everything down; each component opens its side of the ring,   *)
(* runs, and closes it.  Beside the main threads each process has the      *)
(* receiving thread of its shared-memory NIC, and the gateway that of the  *)
(* raw socket, which is told of frames by SIGIO.  A component may be       *)
(* killed anywhere, also in the ring's critical section.                   *)
(*                                                                         *)
(* ShmRing models the ring frame by frame; here its slots, semaphores and  *)
(* readers are counted.  As there, nobody writes before all have attached. *)
(***************************************************************************)
EXTENDS Integers, FiniteSets

CONSTANTS
  Count,       \* how many components the vehicle has
  SlotCount,   \* SHM::SLOT_COUNT
  MaxFrames,   \* bound: frames that components send or the raw socket receives
  MaxFaults    \* bound: failed forks and killed components

Gateway == 0              \* SHM::GATEWAY_SLOT
Components == 1 .. Count
Procs == {Gateway} \cup Components
Main(p) == <<"main", p>>
Shm(p) == <<"shm", p>>
Raw == <<"raw", Gateway>>
Receivers == {Shm(p) : p \in Procs} \cup {Raw}
Threads == {Main(p) : p \in Procs} \cup Receivers

ASSUME ComponentsAssumption == Count \in Nat
ASSUME BoundsAssumption ==
  /\ SlotCount \in Nat \ {0}
  /\ {MaxFrames, MaxFaults} \subseteq Nat

VARIABLES
  pc,        \* what each thread is doing
  running,   \* running[t]: _running of the engine whose frames t receives
  watched,   \* watched[t]: the observer of what t receives is attached
  holder,    \* thread that has taken SEM_RING_MUTEX, or None
  empty,     \* SEM_RING_EMPTY
  pending,   \* pending[p]: its pending semaphore
  unread,    \* unread[p]: frames on the ring beyond its read_seq
  queued,    \* frames in the raw socket
  sigio,     \* SIGIO is pending for the raw thread
  masked,    \* history: a frame has arrived since SIGIO was blocked
  late,      \* late[t]: history, updates t began after the observer was detached
  frames, faults  \* bounds: what is left of MaxFrames and MaxFaults

None == <<>>
ring == <<holder, empty, pending, unread>>
socket == <<queued, sigio, masked>>
bounds == <<frames, faults>>
vars == <<pc, running, watched, holder, empty, pending, unread, queued, sigio, masked,
          late, frames, faults>>

Over == {"none", "ended", "dead"}  \* a thread that is not there (any more)

TypeOK ==
  /\ pc \in [Threads -> Over \cup
       {"fork", "abort", "init", "open", "start", "run", "empty", "mutex",
        "locked", "unraw", "close", "join", "closeShm", "joinShm",
        "wait", "notify", "update", "own", "ignore", "block", "drain"}]
  /\ running \in [Receivers -> BOOLEAN] /\ watched \in [Receivers -> BOOLEAN]
  /\ holder \in Threads \cup {None} /\ empty \in 0 .. SlotCount
  /\ pending \in [Procs -> Nat] /\ unread \in [Procs -> Nat]
  /\ queued \in 0 .. MaxFrames /\ sigio \in BOOLEAN /\ masked \in BOOLEAN
  /\ late \in [Receivers -> Nat]
  /\ frames \in 0 .. MaxFrames /\ faults \in 0 .. MaxFaults

\* SharedMemoryEngine::create has run; the components are still to be forked.
Init ==
  /\ pc = [t \in Threads |-> IF t = Main(Gateway) THEN "fork" ELSE "none"]
  /\ running = [t \in Receivers |-> FALSE] /\ watched = [t \in Receivers |-> FALSE]
  /\ holder = None /\ empty = SlotCount
  /\ pending = [p \in Procs |-> 0] /\ unread = [p \in Procs |-> 0]
  /\ queued = 0 /\ sigio = FALSE /\ masked = FALSE
  /\ late = [t \in Receivers |-> 0]
  /\ frames = MaxFrames /\ faults = MaxFaults

At(t, place) == pc[t] = place
Goto(t, place) == pc' = [pc EXCEPT ![t] = place]
Gone(p) == pc[Main(p)] \in Over
Attached(p) == pc[Main(p)] \notin {"none", "fork", "init"}

\* The process ends at once, with whatever its threads are in the middle of.
Dies(p) == pc' = [t \in Threads |-> IF t[2] = p THEN "dead" ELSE pc[t]]

-----------------------------------------------------------------------------
(* The mutex of the ring, and the writers. *)

Lock(t, from, to) ==
  /\ At(t, from) /\ holder = None
  /\ holder' = t /\ Goto(t, to)
  /\ UNCHANGED <<running, watched, empty, pending, unread, socket, late, bounds>>

\* write_slot waits for a free slot, then for the mutex.
TakeSlot(t) ==
  /\ At(t, "empty") /\ empty > 0 /\ \A p \in Procs : Attached(p)
  /\ empty' = empty - 1 /\ Goto(t, "mutex")
  /\ UNCHANGED <<running, watched, holder, pending, unread, socket, late, bounds>>

\* The frame is there for everyone who is registered, also for those that have left.
Write(t, next) ==
  /\ At(t, "locked")
  /\ unread' = [p \in Procs |-> unread[p] + 1]
  /\ pending' = [p \in Procs |-> pending[p] + 1]
  /\ holder' = None /\ Goto(t, next)
  /\ UNCHANGED <<running, watched, empty, socket, late, bounds>>

\* engine_init: read_seq is set in a critical section of its own, taken as a step,
\* and the Protocol of the process attaches itself, which starts the thread.
EngineInit(p, next) ==
  /\ At(Main(p), "init") /\ holder = None
  /\ pc' = [pc EXCEPT ![Main(p)] = next, ![Shm(p)] = "wait"]
  /\ running' = [running EXCEPT ![Shm(p)] = TRUE]
  /\ watched' = [watched EXCEPT ![Shm(p)] = TRUE]
  /\ UNCHANGED <<ring, socket, late, bounds>>

CloseUnposted(p, from, to) ==
  /\ At(Main(p), from)
  /\ running' = [running EXCEPT ![Shm(p)] = FALSE] /\ Goto(Main(p), to)
  /\ UNCHANGED <<watched, holder, empty, pending, unread, socket, late, bounds>>

\* engine_close of the shared-memory engine: stop and wake the receiving thread (two
\* steps of ShmRing), join it, and enter the ring once more to report oneself inactive.
CloseShm(p, from, to) ==
  /\ At(Main(p), from)
  /\ running' = [running EXCEPT ![Shm(p)] = FALSE] /\ Goto(Main(p), to)
  /\ pending' = [pending EXCEPT ![p] = @ + 1]
  /\ UNCHANGED <<watched, holder, empty, unread, socket, late, bounds>>

JoinShm(p, from) ==
  /\ At(Main(p), from) /\ At(Shm(p), "ended") /\ holder = None
  /\ Goto(Main(p), "ended")
  /\ UNCHANGED <<running, watched, ring, socket, late, bounds>>

-----------------------------------------------------------------------------
(* The receiving thread of the shared-memory NIC. *)

\* The loop of the thread comes round.
Again(t) == IF running[t] THEN "wait" ELSE "ended"

\* read_slot waits, and finds out whether it was a frame that woke it.
Await(p) ==
  /\ At(Shm(p), "wait") /\ pending[p] > 0
  /\ pending' = [pending EXCEPT ![p] = @ - 1]
  /\ Goto(Shm(p), IF running[Shm(p)] THEN "mutex" ELSE "ended")
  /\ UNCHANGED <<running, watched, holder, empty, unread, socket, late, bounds>>

\* The frame is taken off; who reads it last gives the slot back.  Whether it is
\* delivered (should_read) depends on who wrote it.
Read(p) ==
  /\ At(Shm(p), "locked")
  /\ unread' = [unread EXCEPT ![p] = @ - 1]
  /\ empty' = IF \A q \in Procs \ {p} : unread[q] < unread[p] THEN empty + 1 ELSE empty
  /\ holder' = None
  /\ \E next \in {"notify", "wait"} : Goto(Shm(p), next)
  /\ UNCHANGED <<running, watched, pending, socket, late, bounds>>

\* notify copies the list of observers under its lock and calls them after it.
NotifyAnyway(t, otherwise) ==
  /\ At(t, "notify") /\ Goto(t, "update")
  /\ UNCHANGED <<running, watched, ring, socket, late, bounds>>

Notify(t, otherwise) ==
  /\ At(t, "notify") /\ Goto(t, IF watched[t] THEN "update" ELSE otherwise)
  /\ UNCHANGED <<running, watched, ring, socket, late, bounds>>

\* The call of update, counted if it comes after the detach.
Update(t, next) ==
  /\ At(t, "update")
  /\ late' = [late EXCEPT ![t] = IF watched[t] THEN @ ELSE @ + 1]
  /\ Goto(t, next)
  /\ UNCHANGED <<running, watched, ring, socket, bounds>>

\* The gateway's update sends on the raw socket, which does not wait.
Receive(p) ==
  \/ Await(p) \/ Lock(Shm(p), "mutex", "locked") \/ Read(p) \/ Notify(Shm(p), Again(Shm(p)))
  \/ Update(Shm(p), Again(Shm(p)))

-----------------------------------------------------------------------------
(* The raw socket. *)

Bound == pc[Main(Gateway)] \in {"start", "run", "unraw", "close"}

\* A frame arrives.  O_ASYNC has an owner to signal only after F_SETOWN_EX; then
\* SIGIO kills the gateway until it is ignored, is dropped until it is blocked
\* (a blocked signal stays pending, ignored or not), and is pending from then on.
Arrive ==
  /\ Bound /\ frames > 0 /\ frames' = frames - 1
  /\ queued' = queued + 1
  /\ IF At(Raw, "ignore")
     THEN Dies(Gateway) /\ UNCHANGED <<sigio, masked>>
     ELSE /\ UNCHANGED pc
          /\ masked' = (masked \/ pc[Raw] \notin {"none", "own", "block"})
          /\ sigio' = (sigio \/ pc[Raw] \notin {"none", "own", "block"})
  /\ UNCHANGED <<running, watched, ring, late, faults>>

\* The thread becomes the owner, ignores the signal, blocks it.
Prepare ==
  /\ \E step \in {<<"own", "ignore">>, <<"ignore", "block">>, <<"block", "wait">>} :
       At(Raw, step[1]) /\ Goto(Raw, step[2])
  /\ UNCHANGED <<running, watched, ring, socket, late, bounds>>

\* sigtimedwait returns with the signal, or after a second without: only then is
\* _running looked at.
AwaitSignal ==
  /\ At(Raw, "wait") /\ sigio' = FALSE
  /\ Goto(Raw, IF ~running[Raw] THEN "ended" ELSE IF sigio THEN "drain" ELSE "wait")
  /\ UNCHANGED <<running, watched, ring, queued, masked, late, bounds>>

\* recv until there is nothing left, or the descriptor is closed.
DrainOne ==
  /\ At(Raw, "drain")
  /\ queued' = IF queued > 0 THEN queued - 1 ELSE 0
  /\ Goto(Raw, "wait")
  /\ UNCHANGED <<running, watched, ring, sigio, masked, late, bounds>>

Drain ==
  /\ At(Raw, "drain")
  /\ IF running[Raw] /\ queued > 0
     THEN queued' = queued - 1 /\ Goto(Raw, "notify")
     ELSE UNCHANGED queued /\ Goto(Raw, IF running[Raw] THEN "wait" ELSE "ended")
  /\ UNCHANGED <<running, watched, ring, sigio, masked, late, bounds>>

\* SPTP ends here, data goes to the ring.
RawReceive ==
  \/ Prepare \/ AwaitSignal \/ Drain \/ Notify(Raw, "drain")
  \/ \E next \in {"drain", "empty"} : Update(Raw, next)
  \/ TakeSlot(Raw) \/ Lock(Raw, "mutex", "locked") \/ Write(Raw, "drain")

-----------------------------------------------------------------------------
(* A component's process. *)

Send(c) ==
  /\ At(Main(c), "run") /\ frames > 0 /\ frames' = frames - 1
  /\ Goto(Main(c), "empty")
  /\ UNCHANGED <<running, watched, ring, socket, late, faults>>

\* run() returns.  The SmartData detaches itself, and a consumer that has not done so
\* says that it has lost interest; then the NIC is closed.
Leave(c) ==
  /\ At(Main(c), "run")
  /\ watched' = [watched EXCEPT ![Shm(c)] = FALSE]
  /\ \/ Goto(Main(c), "close") /\ UNCHANGED frames
     \/ Goto(Main(c), "empty") /\ frames > 0 /\ frames' = frames - 1
  /\ UNCHANGED <<running, ring, socket, late, faults>>

\* A kill, or an exit in the middle of run().
Die(c) ==
  /\ ~Gone(c) /\ faults > 0 /\ faults' = faults - 1
  /\ Dies(c)
  /\ UNCHANGED <<running, watched, ring, socket, late, frames>>

\* SIGTERM from a gateway that gives up.
Terminate(c) ==
  /\ ~Gone(c) /\ At(Main(Gateway), "abort")
  /\ Dies(c)
  /\ UNCHANGED <<running, watched, ring, socket, late, bounds>>

Component(c) ==
  \/ Terminate(c) \/ EngineInit(c, "run")
  \/ TakeSlot(Main(c)) \/ Lock(Main(c), "mutex", "locked")
  \/ Write(Main(c), IF watched[Shm(c)] THEN "run" ELSE "close")
  \/ CloseShm(c, "close", "join") \/ JoinShm(c, "join")

-----------------------------------------------------------------------------
(* The gateway's main thread: run_gateway_process, Gateway::run and stop. *)

\* A failed fork makes the gateway kill and await the components there are.
Fork(c) ==
  /\ At(Main(Gateway), "fork") /\ \A d \in Components : At(Main(d), "none") <=> d >= c
  /\ \/ pc' = [pc EXCEPT ![Main(c)] = "init"] /\ UNCHANGED faults
     \/ faults > 0 /\ faults' = faults - 1 /\ Goto(Main(Gateway), "abort")
  /\ UNCHANGED <<running, watched, ring, socket, late, frames>>

Abort ==
  /\ At(Main(Gateway), "abort") /\ \A c \in Components : Gone(c)
  /\ Goto(Main(Gateway), "ended")
  /\ UNCHANGED <<running, watched, ring, socket, late, bounds>>

Forked ==
  /\ At(Main(Gateway), "fork") /\ \A c \in Components : pc[Main(c)] # "none"
  /\ Goto(Main(Gateway), "init")
  /\ UNCHANGED <<running, watched, ring, socket, late, bounds>>

\* The socket is bound by the constructor of its NIC, its thread started by attach.
Open ==
  /\ At(Main(Gateway), "open") /\ Goto(Main(Gateway), "start")
  /\ UNCHANGED <<running, watched, ring, socket, late, bounds>>

Start ==
  /\ At(Main(Gateway), "start")
  /\ pc' = [pc EXCEPT ![Main(Gateway)] = "run", ![Raw] = "own"]
  /\ running' = [running EXCEPT ![Raw] = TRUE] /\ watched' = [watched EXCEPT ![Raw] = TRUE]
  /\ UNCHANGED <<ring, socket, late, bounds>>

\* All components are awaited, failed or not; then ~Protocol ends the
\* synchronisation and detaches itself from the shared-memory NIC,
StopAtFailure ==
  /\ At(Main(Gateway), "run")
  /\ \/ \A c \in Components : Gone(c)
     \/ \E c \in Components : At(Main(c), "dead")
  /\ watched' = [watched EXCEPT ![Shm(Gateway)] = FALSE]
  /\ Goto(Main(Gateway), "unraw")
  /\ UNCHANGED <<running, ring, socket, late, bounds>>

Stop ==
  /\ At(Main(Gateway), "run") /\ \A c \in Components : Gone(c)
  /\ watched' = [watched EXCEPT ![Shm(Gateway)] = FALSE]
  /\ Goto(Main(Gateway), "unraw")
  /\ UNCHANGED <<running, ring, socket, late, bounds>>

\* then from the other one,
DetachRaw ==
  /\ At(Main(Gateway), "unraw")
  /\ watched' = [watched EXCEPT ![Raw] = FALSE]
  /\ Goto(Main(Gateway), "close")
  /\ UNCHANGED <<running, ring, socket, late, bounds>>

\* which is deleted: the descriptor is closed and the thread joined.
CloseRaw ==
  /\ At(Main(Gateway), "close")
  /\ running' = [running EXCEPT ![Raw] = FALSE]
  /\ queued' = 0 /\ Goto(Main(Gateway), "join")
  /\ UNCHANGED <<watched, ring, sigio, masked, late, bounds>>

JoinRaw ==
  /\ At(Main(Gateway), "join") /\ At(Raw, "ended")
  /\ Goto(Main(Gateway), "closeShm")
  /\ UNCHANGED <<running, watched, ring, socket, late, bounds>>

GatewayMain ==
  \/ Abort \/ Forked \/ \E c \in Components : Fork(c)
  \/ EngineInit(Gateway, "open")
  \/ Open \/ Start \/ Stop \/ DetachRaw \/ CloseRaw \/ JoinRaw
  \/ CloseShm(Gateway, "closeShm", "joinShm") \/ JoinShm(Gateway, "joinShm")

-----------------------------------------------------------------------------
Next ==
  \/ GatewayMain \/ RawReceive \/ Arrive
  \/ \E c \in Components : Component(c) \/ Send(c) \/ Leave(c) \/ Die(c)
  \/ \E p \in Procs : Receive(p)

Spec == Init /\ [][Next]_vars

\* Every thread goes on, a wait for the mutex or for a slot included; nothing makes
\* a component leave, a fork fail or a frame arrive.  Who is sent SIGTERM dies.
FairSpec ==
  /\ Spec /\ WF_vars(GatewayMain) /\ WF_vars(RawReceive)
  /\ \A p \in Procs : WF_vars(Receive(p))
  /\ \A c \in Components : WF_vars(Component(c))

-----------------------------------------------------------------------------
\* A frame that has arrived since SIGIO was blocked is never left in the socket
\* while the raw thread sleeps without a signal: what comes while it drains, or
\* after its last recv and before it waits again, wakes it once more, and earlier
\* frames are taken along.
NoLostWakeup == At(Raw, "wait") /\ masked /\ queued > 0 => sigio

\* Notifying from a copy of the list lets an update begin after the observer was
\* detached, but one for each receiving thread at most.
OneLateUpdate == \A t \in Receivers : late[t] <= 1

\* The gateway removes the ring only when no thread of the vehicle can touch it
\* any more, however its components ended and also where a fork failed.
RingOutlivesUsers == At(Main(Gateway), "ended") => \A t \in Threads : pc[t] \in Over

\* The ring has stopped for good: who held its mutex was killed, or it is full and
\* of all processes one that reads no more has most to read.
Wedged ==
  \/ holder # None /\ At(holder, "dead")
  \/ empty = 0 /\ \E p \in Procs : pc[Shm(p)] \in Over /\ \A q \in Procs : unread[q] <= unread[p]

\* A component has left run(), or all have ended and the gateway is to follow.
Stopping ==
  \/ \E c \in Components : Attached(c) /\ ~Gone(c) /\ ~watched[Shm(c)]
  \/ ~Gone(Gateway) /\ \A c \in Components : pc[Main(c)] \in {"ended", "dead"}

\* Shutting down ends.  A component that has left run() ends, and when all of them
\* have ended so does the gateway, with both its receiving threads (each process
\* stops once, so none is stopping for ever), unless the ring has stopped: then the
\* joins wait for a thread that waits at the ring.
ShutsDown == []<>(~Stopping \/ Wedged)
=============================================================================
