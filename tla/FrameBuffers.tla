---------------------------- MODULE FrameBuffers ----------------------------
(***************************************************************************)
(* The buffers of one process, from the NICs up to the application.  Each  *)
(* NIC has a pool.  A frame that arrives is copied into a buffer of the    *)
(* pool of its NIC and goes up, as the same buffer, through Protocol       *)
(* (which in a gateway also copies it into a buffer of the other NIC and   *)
(* sends that one) to the Communicator, which either copies it into a      *)
(* Message for the SmartData or Interest_Tracker attached to it, or queues *)
(* the buffer for receive().  A send takes a buffer and gives it back; in  *)
(* its middle NIC may start another send, of a request of SPTP.            *)
(*                                                                         *)
(* The ring is what FrameChannel promises: a queue of at most Capacity     *)
(* frames, in which a gateway also finds the frames it wrote itself.       *)
(***************************************************************************)
EXTENDS Integers, Sequences, SequencesExt

CONSTANTS
  LocalFrames,   \* data the components of this vehicle broadcast
  RemoteFrames,  \* data other nodes broadcast
  SptpFrames,    \* requests and SYNCs of other nodes
  JunkFrames,    \* frames the NIC drops: incomplete, our own, of another quadrant
  Kept,          \* data the attached observer queues (the others it deletes)
  Senders,       \* threads that call Protocol::send
  ShmPool, RawPool,  \* buffers of the two NICs
  Capacity       \* SHM::SLOT_COUNT

Frames  == LocalFrames \cup RemoteFrames \cup SptpFrames \cup JunkFrames
Buffers == ShmPool \cup RawPool
Receivers == {"shm", "raw"}  \* the receiving thread of each NIC
Threads == Receivers \cup Senders
None == "none"

ASSUME PoolsAssumption == ShmPool \cap RawPool = {} /\ None \notin Buffers
ASSUME ThreadsAssumption == Receivers \cap Senders = {}
ASSUME FramesAssumption == /\ Kept \subseteq LocalFrames \cup RemoteFrames
                           /\ Capacity \in Nat \ {0}

VARIABLES
  bridged,    \* the process is a gateway: it has the raw-socket NIC
  instance,   \* Protocol's constructor has set _instance
  comm,       \* a Communicator observes the channel
  smart,      \* a SmartData or an Interest_Tracker observes the Communicator
  free,       \* free[b]: how often buffer b is in the _free_list of its NIC
  rx,         \* what each receiving thread does, with which frame and buffer
  out,        \* out[t]: the sends of thread t in progress, the inner one last
  queue,      \* buffers the Communicator queued for receive()
  inbox,      \* Messages queued by the observer
  live,       \* Messages that were created and not deleted
  ring, air,  \* frames the ring has for this process, frames to arrive at the raw socket
  local,      \* local frames that were not broadcast yet
  sent,       \* history: data frames sent to the network
  ringed      \* history: data frames of the network put on the ring

role == <<bridged, instance, comm, smart>>
media == <<ring, air, local, sent, ringed>>
vars == <<bridged, instance, comm, smart, free, rx, out, queue, inbox, live,
          ring, air, local, sent, ringed>>

-----------------------------------------------------------------------------
Waiting == [at |-> "wait", frame |-> None, buf |-> None]

PoolOf(nic) == IF nic = "shm" THEN ShmPool ELSE RawPool
Other(nic) == IF nic = "shm" THEN "raw" ELSE "shm"
FreeOf(nic) == {b \in PoolOf(nic) : free[b] > 0}

\* alloc_buf takes some buffer of the pool; free puts it back.
Top(nic) == CHOOSE b \in FreeOf(nic) : TRUE
Taken(b) == [free EXCEPT ![b] = @ - 1]
Freed(b) == [free EXCEPT ![b] = @ + 1]

\* A send that begins with buffer b; NIC::send asks for the quadrant first.
Send(b) == [buf |-> b, at |-> "quadrant"]
InSend(t, at) == out[t] # << >> /\ Last(out[t]).at = at
Stamped(t) == [out EXCEPT ![t] = [@ EXCEPT ![Len(@)].at = "engine"]]

Init ==
  /\ bridged \in BOOLEAN
  /\ instance = FALSE /\ comm = FALSE /\ smart = FALSE
  /\ free = [b \in Buffers |-> 1]
  /\ rx = [n \in Receivers |-> Waiting]
  /\ out = [t \in Threads |-> << >>]
  /\ queue = << >> /\ inbox = << >> /\ live = {}
  /\ ring = << >>
  /\ air = IF bridged THEN Frames \ LocalFrames ELSE {}
  /\ local = LocalFrames
  /\ sent = << >> /\ ringed = << >>

-----------------------------------------------------------------------------
(* NIC's receive handler. *)

\* A frame arrives: it is dropped if the pool is empty.
Arrived(n, f) ==
  IF FreeOf(n) = {} THEN UNCHANGED <<free, rx>>
  ELSE /\ free' = Taken(Top(n))
       /\ rx' = [rx EXCEPT ![n] = [at |-> "filter", frame |-> f, buf |-> Top(n)]]

ArriveFromRing ==
  /\ rx["shm"] = Waiting /\ ring # << >>
  /\ Arrived("shm", Head(ring))
  /\ ring' = Tail(ring)
  /\ UNCHANGED <<role, out, queue, inbox, live, air, local, sent, ringed>>

ArriveFromAir ==
  /\ rx["raw"] = Waiting
  /\ \E f \in air : Arrived("raw", f) /\ air' = air \ {f}
  /\ UNCHANGED <<role, out, queue, inbox, live, ring, local, sent, ringed>>

\* The thread n gives its buffer back and waits for the next frame.
GivesBack(n) == free' = Freed(rx[n].buf) /\ rx' = [rx EXCEPT ![n] = Waiting]

FilterNotFreed(n) ==
  /\ rx[n].at = "filter"
  /\ rx' = IF rx[n].frame \in JunkFrames THEN [rx EXCEPT ![n] = Waiting]
           ELSE [rx EXCEPT ![n].at = "update"]
  /\ UNCHANGED <<role, free, out, queue, inbox, live, media>>

\* Incomplete frames and those of engine_should_drop_frame go no further.
Filter(n) ==
  /\ rx[n].at = "filter"
  /\ IF rx[n].frame \in JunkFrames THEN GivesBack(n)
     ELSE rx' = [rx EXCEPT ![n].at = "update"] /\ UNCHANGED free
  /\ UNCHANGED <<role, out, queue, inbox, live, media>>

-----------------------------------------------------------------------------
(* Protocol::update. *)

BridgesAll(n) == bridged

\* A gateway forwards what a component broadcast (its MAC, sent to everybody) to the
\* network, and what came from the network to the ring.
Bridges(n) == bridged /\ (n = "raw" \/ rx[n].frame \in LocalFrames)

\* SPTP is consumed here.  The reply of a master is a send within on_receive.
ConsumeSptp(n) ==
  /\ rx[n].at = "update" /\ rx[n].frame \in SptpFrames
  /\ rx' = [rx EXCEPT ![n].at = "release"]
  /\ IF FreeOf("raw") = {} THEN UNCHANGED <<free, out>>
     ELSE \/ UNCHANGED <<free, out>>
          \/ instance /\ free' = Taken(Top("raw")) /\ out' = [out EXCEPT ![n] = <<Send(Top("raw"))>>]
  /\ UNCHANGED <<role, queue, inbox, live, media>>

ForwardWaits(n) ==
  /\ rx[n].at = "update" /\ rx[n].frame \notin SptpFrames /\ Bridges(n)
  /\ FreeOf(Other(n)) # {}
  /\ rx' = [rx EXCEPT ![n].at = "notify"]
  /\ free' = Taken(Top(Other(n)))
  /\ out' = [out EXCEPT ![n] = <<Send(Top(Other(n)))>>]
  /\ UNCHANGED <<role, queue, inbox, live, media>>

\* alloc on the other NIC, and the copy; without a buffer the frame is not forwarded.
Forward(n) ==
  /\ rx[n].at = "update" /\ rx[n].frame \notin SptpFrames /\ Bridges(n)
  /\ rx' = [rx EXCEPT ![n].at = "notify"]
  /\ IF FreeOf(Other(n)) = {} THEN UNCHANGED <<free, out>>
     ELSE /\ free' = Taken(Top(Other(n)))
          /\ out' = [out EXCEPT ![n] = <<Send(Top(Other(n)))>>]
  /\ UNCHANGED <<role, queue, inbox, live, media>>

\* The constructor attaches to the ring before it creates the raw-socket NIC.
KeepHere(n) ==
  /\ rx[n].at = "update" /\ rx[n].frame \notin SptpFrames
  /\ ~Bridges(n) \/ (n = "shm" /\ ~instance)
  /\ rx' = [rx EXCEPT ![n].at = "notify"]
  /\ UNCHANGED <<role, free, out, queue, inbox, live, media>>

\* free_buffer, which does nothing before _instance is set.
Release(n) ==
  /\ rx[n].at = "release" /\ out[n] = << >>
  /\ IF instance THEN GivesBack(n)
     ELSE rx' = [rx EXCEPT ![n] = Waiting] /\ UNCHANGED free
  /\ UNCHANGED <<role, out, queue, inbox, live, media>>

\* _observed.notify, or free_buffer if nobody observes the port.
Notify(n) ==
  /\ rx[n].at = "notify" /\ out[n] = << >>
  /\ rx' = [rx EXCEPT ![n].at = IF comm THEN "communicator" ELSE "release"]
  /\ UNCHANGED <<role, free, out, queue, inbox, live, media>>

-----------------------------------------------------------------------------
(* Sends: Protocol::send of an application thread, and those begun above. *)

StartSend(t) ==
  LET nic == IF bridged THEN "raw" ELSE "shm" IN
  /\ t \in Senders /\ instance /\ out[t] = << >> /\ FreeOf(nic) # {}
  /\ free' = Taken(Top(nic))
  /\ out' = [out EXCEPT ![t] = <<Send(Top(nic))>>]
  /\ UNCHANGED <<role, rx, queue, inbox, live, media>>

\* The quadrant has not changed, or there is nobody to tell or no buffer left.
NoChange(t) ==
  /\ InSend(t, "quadrant")
  /\ out' = Stamped(t)
  /\ UNCHANGED <<role, free, rx, queue, inbox, live, media>>

\* It has: on_quadrant_change sends a request within the send, which need not be the
\* last; here at most one is nested in another.
NestedSend(t) ==
  /\ InSend(t, "quadrant") /\ Len(out[t]) = 1 /\ out[t][1].buf \in RawPool
  /\ instance /\ FreeOf("raw") # {}
  /\ free' = Taken(Top("raw"))
  /\ out' = [Stamped(t) EXCEPT ![t] = Append(@, Send(Top("raw")))]
  /\ UNCHANGED <<role, rx, queue, inbox, live, media>>

\* engine_send and free.  What the receiving threads forward is recorded; write_slot
\* waits for room in the ring.
FinishSend(t) ==
  /\ InSend(t, "engine")
  /\ free' = Freed(Last(out[t]).buf)
  /\ out' = [out EXCEPT ![t] = Front(@)]
  /\ IF t \in Receivers /\ Len(out[t]) = 1 /\ rx[t].at = "notify"
     THEN IF t = "shm"
          THEN sent' = Append(sent, rx[t].frame) /\ UNCHANGED <<ring, ringed>>
          ELSE /\ Len(ring) < Capacity
               /\ ring' = Append(ring, rx[t].frame)
               /\ ringed' = Append(ringed, rx[t].frame)
               /\ UNCHANGED sent
     ELSE UNCHANGED <<sent, ring, ringed>>
  /\ UNCHANGED <<role, rx, queue, inbox, live, air, local>>

-----------------------------------------------------------------------------
(* Communicator::update and what observes it. *)

MessageOf(n) == <<n, rx[n].frame>>

UnmarshalQueuesToo(n) ==
  /\ rx[n].at = "communicator" /\ smart
  /\ live' = live \cup {MessageOf(n)}
  /\ free' = Freed(rx[n].buf)
  /\ queue' = Append(queue, rx[n].buf)
  /\ rx' = [rx EXCEPT ![n].at = "message", ![n].buf = None]
  /\ UNCHANGED <<role, out, inbox, media>>

\* has_observer: the frame becomes a Message and its buffer is free again.
Unmarshal(n) ==
  /\ rx[n].at = "communicator" /\ smart
  /\ live' = live \cup {MessageOf(n)}
  /\ free' = Freed(rx[n].buf)
  /\ rx' = [rx EXCEPT ![n].at = "message", ![n].buf = None]
  /\ UNCHANGED <<role, out, queue, inbox, media>>

\* Nobody observes the Communicator: the buffer waits for receive().
QueueBuffer(n) ==
  /\ rx[n].at = "communicator" /\ ~smart
  /\ queue' = Append(queue, rx[n].buf)
  /\ rx' = [rx EXCEPT ![n] = Waiting]
  /\ UNCHANGED <<role, free, out, inbox, live, media>>

ObserveDeletesAll(n) ==
  /\ rx[n].at = "message"
  /\ live' = live \ {MessageOf(n)}
  /\ inbox' = IF rx[n].frame \in Kept THEN Append(inbox, MessageOf(n)) ELSE inbox
  /\ rx' = [rx EXCEPT ![n] = Waiting]
  /\ UNCHANGED <<role, free, out, queue, media>>

\* SmartData::update or Interest_Tracker::update queues the Message or deletes it.
Observe(n) ==
  /\ rx[n].at = "message"
  /\ IF rx[n].frame \in Kept
     THEN inbox' = Append(inbox, MessageOf(n)) /\ UNCHANGED live
     ELSE live' = live \ {MessageOf(n)} /\ UNCHANGED inbox
  /\ rx' = [rx EXCEPT ![n] = Waiting]
  /\ UNCHANGED <<role, free, out, queue, media>>

\* The application: receive(), of a component without SmartData, ...
Receive ==
  /\ ~smart /\ queue # << >>
  /\ free' = Freed(Head(queue))
  /\ queue' = Tail(queue)
  /\ UNCHANGED <<role, rx, out, inbox, live, media>>

\* ... or receive_response() and deletion of what it returned.
ReceiveResponse ==
  /\ inbox # << >>
  /\ inbox' = Tail(inbox)
  /\ live' = live \ {Head(inbox)}
  /\ UNCHANGED <<role, free, rx, out, queue, media>>

-----------------------------------------------------------------------------
(* The process starts, and the components broadcast. *)

SetInstance ==
  /\ ~instance /\ instance' = TRUE
  /\ UNCHANGED <<bridged, comm, smart, free, rx, out, queue, inbox, live, media>>

AttachCommunicator ==
  /\ instance /\ ~comm /\ comm' = TRUE
  /\ UNCHANGED <<bridged, instance, smart, free, rx, out, queue, inbox, live, media>>

AttachObserver ==
  /\ comm /\ ~smart /\ smart' = TRUE
  /\ UNCHANGED <<bridged, instance, comm, free, rx, out, queue, inbox, live, media>>

Broadcast ==
  /\ Len(ring) < Capacity
  /\ \E f \in local : ring' = Append(ring, f) /\ local' = local \ {f}
  /\ UNCHANGED <<role, free, rx, out, queue, inbox, live, air, sent, ringed>>

Receiving(n) == \/ Filter(n) \/ ConsumeSptp(n) \/ Forward(n) \/ KeepHere(n)
                \/ Release(n) \/ Notify(n) \/ Unmarshal(n) \/ QueueBuffer(n) \/ Observe(n)

Next == \/ ArriveFromRing \/ ArriveFromAir
        \/ \E n \in Receivers : Receiving(n)
        \/ \E t \in Threads : StartSend(t) \/ NoChange(t) \/ NestedSend(t) \/ FinishSend(t)
        \/ Receive \/ ReceiveResponse
        \/ SetInstance \/ AttachCommunicator \/ AttachObserver
        \/ Broadcast

Spec == Init /\ [][Next]_vars

\* Every thread runs, and a writer that waits for room in the ring gets its turn.
FairSpec == /\ Spec
            /\ WF_vars(ArriveFromRing)
            /\ \A n \in Receivers : WF_vars(Receiving(n))
            /\ \A t \in Threads : WF_vars(NoChange(t)) /\ SF_vars(FinishSend(t))

-----------------------------------------------------------------------------
\* Where a buffer is in use: a receiving thread, a send or the queue.
Uses(b) == Cardinality({n \in Receivers : rx[n].buf = b})
           + Cardinality({u \in Threads \X {1, 2} : u[2] <= Len(out[u[1]])
                                                   /\ out[u[1]][u[2]].buf = b})
           + Cardinality({i \in DOMAIN queue : queue[i] = b})

Lost == {b \in Buffers : free[b] + Uses(b) = 0}

\* The pools, threads, queues and frames have their types.
TypeOK ==
  /\ bridged \in BOOLEAN /\ instance \in BOOLEAN /\ comm \in BOOLEAN /\ smart \in BOOLEAN
  /\ free \in [Buffers -> Nat]
  /\ \A n \in Receivers :
       /\ rx[n].at \in {"wait", "filter", "update", "notify", "release", "communicator",
                        "message"}
       /\ rx[n].frame \in Frames \cup {None}
       /\ rx[n].buf \in PoolOf(n) \cup {None}
  /\ \A t \in Threads : \A i \in DOMAIN out[t] :
       out[t][i].buf \in Buffers /\ out[t][i].at \in {"quadrant", "engine"}
  /\ queue \in Seq(Buffers) /\ inbox \in Seq(Receivers \X Frames)
  /\ ring \in Seq(Frames) /\ Len(ring) <= Capacity
  /\ air \subseteq Frames /\ local \subseteq LocalFrames

\* A buffer is in the free list of its NIC at most once and then nobody uses it, and it
\* has at most one user: no path from NIC to application frees it twice, frees it and
\* queues it, or gives it to the wrong NIC.
BuffersOwned == \A b \in Buffers : free[b] + Uses(b) <= 1

\* No buffer is lost once Protocol's constructor has set _instance: every early return,
\* failed allocation and unobserved port gives it back.
LostOnlyEarly == [][Lost' # Lost => ~instance]_vars

\* A Message that was created is held by the receiving thread or queued exactly once,
\* and what is queued was not deleted.
MessagesOwned ==
  /\ live = {MessageOf(n) : n \in {m \in Receivers : rx[m].at = "message"}} \cup ToSet(inbox)
  /\ IsInjective(inbox)
  /\ \A n \in Receivers : rx[n].at = "message" => MessageOf(n) \notin ToSet(inbox)

\* The gateway bridges without a loop, although it reads its own frames in the ring:
\* a frame of a component is sent to the network at most once, one of the network put on
\* the ring at most once, and never sent back (protocol.h:279).
BridgedOnce ==
  /\ IsInjective(sent) /\ ToSet(sent) \subseteq LocalFrames
  /\ IsInjective(ringed) /\ ToSet(ringed) \subseteq RemoteFrames

\* The two receiving threads, which send on each other's NIC, never block each other:
\* each frame is dealt with and its buffer handed on.
ReceiversReturn == \A n \in Receivers : rx[n] # Waiting ~> rx[n] = Waiting
=============================================================================
