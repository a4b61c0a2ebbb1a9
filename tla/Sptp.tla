-------------------------------- MODULE Sptp --------------------------------
(***************************************************************************)
(* SPTP_Protocol on the gateway of one vehicle (a slave) and on the RSU    *)
(* (the master).  A request may be sent by the silence watchdog, and by    *)
(* whichever thread first sends a frame after a change of quadrant: NIC    *)
(* calls request_resync in the middle of that send, the watchdog's own     *)
(* send included.  SYNCs are handled by the receiving thread.              *)
(*                                                                         *)
(* Time passes in ticks; a thread takes less than a tick for what it does  *)
(* between two waits.  A timestamp is abstracted to what the measurement   *)
(* depends on: the request it was taken for and the epoch of the local     *)
(* clock, which ends when the clock is stepped.                            *)
(***************************************************************************)
EXTENDS Naturals, Sequences

CONSTANTS
  Watchdog,      \* the thread of start()
  Forwarders,    \* other threads that send through the raw-socket NIC
  Quadrants,     \* values of the GPS quadrant
  RsuQuadrants,  \* quadrants that have an RSU
  Poll,          \* ticks the watchdog sleeps between two polls
  Silence,       \* ticks of MAX_SILENCE_S
  Unknown,       \* QUADRANT_NONE
  MaxDelay,      \* bound: ticks a request and its SYNC may take together
  SeqMod,        \* bound: sequence numbers are counted modulo SeqMod
  EpochMod,      \* bound: epochs of the clock are counted modulo EpochMod
  MaxMoves       \* bound: changes of quadrant

Threads == {Watchdog} \cup Forwarders

ASSUME TimingAssumption == /\ Poll \in Nat \ {0} /\ Silence \in Nat
                           /\ MaxDelay \in Nat
ASSUME BoundsAssumption == /\ SeqMod \in Nat \ {0, 1} /\ EpochMod \in Nat \ {0, 1}
                           /\ MaxMoves \in Nat
                           /\ RsuQuadrants \subseteq Quadrants
                           /\ Unknown \notin Quadrants

VARIABLES
  pendingT2, pendingSeq, nextSeq, firstSync,  \* atomics of the slave
  sleep, sinceSync, sinceRequest,             \* ticks: to the next poll, since the last sync, since a request
  epoch,                                      \* how often the clock was stepped
  calls,                                      \* calls[t]: nested send_sync_request calls of thread t
  quadrant, lastQuadrant,                     \* GPS, and NIC's _last_quadrant
  requests, syncs,                            \* frames on their way
  rx,                                         \* on_receive in progress
  measured,                                   \* the last measurement that was accepted
  moves                                       \* bound used up

slave   == <<pendingT2, pendingSeq, nextSeq, firstSync>>
timers  == <<sleep, sinceSync, sinceRequest>>
network == <<requests, syncs>>
place   == <<quadrant, lastQuadrant, moves>>
vars == <<pendingT2, pendingSeq, nextSeq, firstSync, sleep, sinceSync, sinceRequest,
          epoch, calls, quadrant, lastQuadrant, requests, syncs, rx, measured, moves>>

-----------------------------------------------------------------------------
None == [of |-> 0, epoch |-> 0, set |-> FALSE]
\* A local timestamp taken now for the request seq.
Stamp(seq) == [of |-> seq, epoch |-> epoch, set |-> TRUE]
Idle == [at |-> "idle"]
NothingMeasured == [seq |-> 0, t2 |-> None, epoch |-> 0, set |-> FALSE]

\* Timers are counted up to where no test distinguishes them any more.
Horizon == Silence + 2 * Poll + 1
Later(n) == IF n < Horizon THEN n + 1 ELSE n

Busy(t) == calls[t] # << >>
Inner(t) == calls[t][Len(calls[t])]
\* The innermost call of thread t goes on at step `at`, having stamped tx.
Goes(t, at, tx) == calls' = [calls EXCEPT ![t][Len(calls[t])] = [@ EXCEPT !.at = at, !.tx = tx]]
Returns(t) == calls' = [calls EXCEPT ![t] = SubSeq(@, 1, Len(@) - 1)]

\* send_sync_request is entered: seq = _next_seq.fetch_add(1).
Entered(t, stack) ==
  /\ calls' = [calls EXCEPT ![t] = Append(stack, [seq |-> nextSeq, at |-> "early", tx |-> None,
                                          quadrant |-> Unknown])]
  /\ nextSeq' = (nextSeq + 1) % SeqMod
  /\ sinceRequest' = 0

Init ==
  /\ pendingT2 = None /\ pendingSeq = 0 /\ nextSeq = 1 /\ firstSync = FALSE
  /\ sleep = 0 /\ sinceSync = 0 /\ sinceRequest = 0
  /\ epoch = 0
  /\ calls = [t \in Threads |-> << >>]
  /\ quadrant \in Quadrants /\ lastQuadrant = Unknown
  /\ requests = {} /\ syncs = {}
  /\ rx = Idle
  /\ measured = NothingMeasured
  /\ moves = 0

-----------------------------------------------------------------------------
(* When a request is sent. *)

SilenceFromRequest == sinceRequest > Silence + Poll

\* elapsed_s > _max_silence_s
SilenceExceeded == sinceSync > Silence

\* start()'s first request and then the watchdog: retry at every poll until the first
\* synchronisation, afterwards only when the silence has lasted too long.
WatchdogPolls ==
  /\ sleep = 0 /\ ~Busy(Watchdog)
  /\ sleep' = Poll
  /\ IF ~firstSync \/ SilenceExceeded
     THEN Entered(Watchdog, << >>)
     ELSE UNCHANGED <<calls, nextSeq, sinceRequest>>
  /\ UNCHANGED <<pendingT2, pendingSeq, firstSync, sinceSync, epoch, place, network, rx,
                 measured>>

\* NIC::send asks whether the quadrant is another one than at the last send.
Crossed == lastQuadrant \notin {Unknown, quadrant}

\* Another thread forwards a frame and is the first to send since the quadrant
\* changed: NIC::send calls on_quadrant_change, hence request_resync.
ForwarderDetects(t) ==
  /\ t \in Forwarders /\ ~Busy(t)
  /\ quadrant # lastQuadrant
  /\ lastQuadrant' = quadrant
  /\ IF Crossed THEN Entered(t, << >>) ELSE UNCHANGED <<calls, nextSeq, sinceRequest>>
  /\ UNCHANGED <<pendingT2, pendingSeq, firstSync, sleep, sinceSync, epoch, quadrant, moves,
                 network, rx, measured>>

-----------------------------------------------------------------------------
(* send_sync_request, down to NIC::send. *)

StoreEarlyT2Skipped(t) ==
  /\ Busy(t) /\ Inner(t).at = "early"
  /\ Goes(t, "seq", None)
  /\ UNCHANGED <<slave, timers, epoch, place, network, rx, measured>>

\* _pending_t2_ns.store(Clock::now_ns()): the early t2
StoreEarlyT2(t) ==
  /\ Busy(t) /\ Inner(t).at = "early"
  /\ pendingT2' = Stamp(Inner(t).seq)
  /\ Goes(t, "seq", None)
  /\ UNCHANGED <<pendingSeq, nextSeq, firstSync, timers, epoch, place, network, rx,
                 measured>>

StoreSeqNext(t) ==
  /\ Busy(t) /\ Inner(t).at = "seq"
  /\ pendingSeq' = nextSeq
  /\ Goes(t, "stamp", None)
  /\ UNCHANGED <<pendingT2, nextSeq, firstSync, timers, epoch, place, network, rx,
                 measured>>

\* _pending_seq.store(seq)
StoreSeq(t) ==
  /\ Busy(t) /\ Inner(t).at = "seq"
  /\ pendingSeq' = Inner(t).seq
  /\ Goes(t, "stamp", None)
  /\ UNCHANGED <<pendingT2, nextSeq, firstSync, timers, epoch, place, network, rx,
                 measured>>

\* send_via_nic gets a buffer, takes tx_ts and calls NIC::send.
StampFrame(t) ==
  /\ Busy(t) /\ Inner(t).at = "stamp"
  /\ Goes(t, "detect", Stamp(Inner(t).seq))
  /\ UNCHANGED <<slave, timers, epoch, place, network, rx, measured>>

\* send_via_nic finds no buffer: tx_ts stays 0 and the early t2 stands.
NoBuffer(t) ==
  /\ Busy(t) /\ Inner(t).at = "stamp"
  /\ Returns(t)
  /\ UNCHANGED <<slave, timers, epoch, place, network, rx, measured>>

\* NIC::send stamps the frame with the quadrant, and makes a nested request if it
\* is not that of the last send.
DetectInSend(t) ==
  /\ Busy(t) /\ Inner(t).at = "detect"
  /\ lastQuadrant' = quadrant
  /\ LET outer == [calls[t] EXCEPT ![Len(calls[t])] =
                     [@ EXCEPT !.at = "wire", !.quadrant = quadrant]] IN
     IF Crossed
     THEN Entered(t, outer)
     ELSE /\ calls' = [calls EXCEPT ![t] = outer]
          /\ UNCHANGED <<nextSeq, sinceRequest>>
  /\ UNCHANGED <<pendingT2, pendingSeq, firstSync, sleep, sinceSync, epoch, quadrant, moves,
                 network, rx, measured>>

\* engine_send broadcasts the frame.
SendFrame(t) ==
  /\ Busy(t) /\ Inner(t).at = "wire"
  /\ requests' = requests \cup {[seq |-> Inner(t).seq, quadrant |-> Inner(t).quadrant,
                                  age |-> 0]}
  /\ Goes(t, "store", Inner(t).tx)
  /\ UNCHANGED <<slave, timers, epoch, place, syncs, rx, measured>>

\* _pending_t2_ns.store(tx_ts), and send_sync_request returns.
StoreT2(t) ==
  /\ Busy(t) /\ Inner(t).at = "store"
  /\ pendingT2' = Inner(t).tx
  /\ Returns(t)
  /\ UNCHANGED <<pendingSeq, nextSeq, firstSync, timers, epoch, place, network, rx,
                 measured>>

-----------------------------------------------------------------------------
(* The network and the master.  Each quadrant of RsuQuadrants has one RSU, *)
(* which hears only the frames stamped with its quadrant.                  *)

\* on_receive of the master: the reply is sent at once, stamped with its quadrant.
MasterReplies(q) ==
  /\ \E request \in requests :
       /\ request.quadrant = q
       /\ requests' = requests \ {request}
       /\ syncs' = syncs \cup {request}
  /\ UNCHANGED <<slave, timers, epoch, calls, place, rx, measured>>

LoseRequest ==
  /\ \E request \in requests : requests' = requests \ {request}
  /\ UNCHANGED <<slave, timers, epoch, calls, place, syncs, rx, measured>>

LoseSync ==
  /\ \E sync \in syncs : syncs' = syncs \ {sync}
  /\ UNCHANGED <<slave, timers, epoch, calls, place, requests, rx, measured>>

\* The vehicle drives into another quadrant.
Move ==
  /\ moves < MaxMoves
  /\ moves' = moves + 1
  /\ \E q \in Quadrants \ {quadrant} : quadrant' = q
  /\ UNCHANGED <<slave, timers, epoch, calls, lastQuadrant, network, rx, measured>>

-----------------------------------------------------------------------------
(* on_receive of the slave, on the thread that receives from the raw socket. *)

\* engine_should_drop_frame: a SYNC of another quadrant does not get here.
RxDrop ==
  /\ rx = Idle
  /\ \E sync \in syncs : sync.quadrant # quadrant /\ syncs' = syncs \ {sync}
  /\ UNCHANGED <<slave, timers, epoch, calls, place, requests, rx, measured>>

\* t1' is taken on entry.
RxSync ==
  /\ rx = Idle
  /\ \E sync \in syncs :
       /\ sync.quadrant = quadrant
       /\ syncs' = syncs \ {sync}
       /\ rx' = [at |-> "t2", seq |-> sync.seq, epoch |-> epoch, t2 |-> None]
  /\ UNCHANGED <<slave, timers, epoch, calls, place, requests, measured>>

RxFrame == UNCHANGED <<pendingSeq, nextSeq, sleep, sinceRequest, calls, place, network>>

\* t2 = _pending_t2_ns.load(); if (t2 == 0) return
RxLoadT2 ==
  /\ rx.at = "t2"
  /\ rx' = IF pendingT2.set THEN [rx EXCEPT !.at = "seq", !.t2 = pendingT2] ELSE Idle
  /\ UNCHANGED <<pendingT2, firstSync, sinceSync, epoch, measured>> /\ RxFrame

\* if (p.seq_id != _pending_seq.load()) return
RxCheckSeq ==
  /\ rx.at = "seq"
  /\ rx' = IF rx.seq = pendingSeq THEN [rx EXCEPT !.at = "measure"] ELSE Idle
  /\ UNCHANGED <<pendingT2, firstSync, sinceSync, epoch, measured>> /\ RxFrame

\* abs_offset >= MAX_OFFSET_NS: t2 is released and nothing else is done.  The clock is
\* not corrected, so the next measurement may be an outlier again, and every one.
RxOutlier ==
  /\ rx.at = "measure"
  /\ pendingT2' = None
  /\ rx' = Idle
  /\ UNCHANGED <<firstSync, sinceSync, epoch, measured>> /\ RxFrame

\* The measurement is accepted: progress for the watchdog.
RxAccept ==
  /\ rx.at = "measure"
  /\ sinceSync' = 0 /\ firstSync' = TRUE
  /\ measured' = [seq |-> rx.seq, t2 |-> rx.t2, epoch |-> rx.epoch, set |-> TRUE]
  /\ rx' = [rx EXCEPT !.at = "adjust"]
  /\ UNCHANGED <<pendingT2, epoch>> /\ RxFrame

\* adjust_clock_jump, if the offset is above MIN_OFFSET_NS
RxAdjust ==
  /\ rx.at = "adjust"
  /\ epoch' \in {epoch, (epoch + 1) % EpochMod}
  /\ rx' = [rx EXCEPT !.at = "release"]
  /\ UNCHANGED <<pendingT2, firstSync, sinceSync, measured>> /\ RxFrame

\* _pending_t2_ns.store(0)
RxRelease ==
  /\ rx.at = "release"
  /\ pendingT2' = None
  /\ rx' = Idle
  /\ UNCHANGED <<firstSync, sinceSync, epoch, measured>> /\ RxFrame

-----------------------------------------------------------------------------
\* The frames of set f that are still on their way one tick later.
Aged(f) == {[x EXCEPT !.age = @ + 1] : x \in {y \in f : y.age < MaxDelay}}

\* A tick passes while every thread waits.
Tick ==
  /\ sleep > 0 /\ rx = Idle /\ \A t \in Threads : ~Busy(t)
  /\ sleep' = sleep - 1
  /\ sinceSync' = Later(sinceSync) /\ sinceRequest' = Later(sinceRequest)
  /\ requests' = Aged(requests) /\ syncs' = Aged(syncs)
  /\ UNCHANGED <<slave, epoch, calls, place, rx, measured>>

Sends(t) == \/ StoreEarlyT2(t) \/ StoreSeq(t) \/ StampFrame(t) \/ NoBuffer(t)
            \/ DetectInSend(t) \/ SendFrame(t) \/ StoreT2(t)

Receives == \/ RxLoadT2 \/ RxCheckSeq \/ RxOutlier \/ RxAccept \/ RxAdjust \/ RxRelease

Next == \/ WatchdogPolls
        \/ \E t \in Threads : ForwarderDetects(t) \/ Sends(t)
        \/ \E q \in RsuQuadrants : MasterReplies(q)
        \/ LoseRequest \/ LoseSync \/ Move
        \/ RxDrop \/ RxSync \/ Receives
        \/ Tick

Spec == Init /\ [][Next]_vars

\* The threads are scheduled and time goes on; not every request, SYNC or buffer
\* allocation fails for ever.
FairSpec == /\ Spec
            /\ WF_vars(WatchdogPolls) /\ WF_vars(Receives) /\ WF_vars(Tick)
            /\ \A t \in Threads : WF_vars(Sends(t)) /\ SF_vars(StampFrame(t))
            /\ SF_vars(\E q \in RsuQuadrants : MasterReplies(q))
            /\ SF_vars(RxSync)

-----------------------------------------------------------------------------
Seqs == 0 .. SeqMod - 1
Stamps == [of : Seqs, epoch : 0 .. EpochMod - 1, set : BOOLEAN]
Frames == [seq : Seqs, quadrant : Quadrants, age : 0 .. MaxDelay]
Steps == {"early", "seq", "stamp", "detect", "wire", "store"}

\* The variables have their types; in particular a measurement is never made with
\* a t2 that is not set.
TypeOK ==
  /\ pendingT2 \in Stamps /\ pendingSeq \in Seqs /\ nextSeq \in Seqs
  /\ firstSync \in BOOLEAN
  /\ sleep \in 0 .. Poll /\ sinceSync \in 0 .. Horizon /\ sinceRequest \in 0 .. Horizon
  /\ epoch \in 0 .. EpochMod - 1
  /\ calls \in [Threads -> Seq([seq : Seqs, at : Steps, tx : Stamps,
                                quadrant : Quadrants \cup {Unknown}])]
  /\ quadrant \in Quadrants /\ lastQuadrant \in Quadrants \cup {Unknown}
  /\ requests \subseteq Frames /\ syncs \subseteq Frames
  /\ rx = Idle \/ rx \in [at : {"t2", "seq", "measure", "adjust", "release"}, seq : Seqs,
                           epoch : 0 .. EpochMod - 1, t2 : Stamps]
  /\ measured.set => measured.t2 \in Stamps /\ measured.t2.set
  /\ moves \in 0 .. MaxMoves

\* The t2 of an accepted measurement was taken for the request that the SYNC
\* answers (sptp_protocol.h:148 and 155: t2 is when the slave sent the request,
\* and seq_id tells an old SYNC apart).
PairedRight == measured.set => measured.t2.of = measured.seq

\* The clock was not stepped between the t2 and the t1' of a measurement: otherwise
\* the step itself is measured as offset.
SameEpoch == measured.set => measured.t2.epoch = measured.epoch

\* A vehicle that stays in its quadrant measures with the t2 of the request that was
\* answered, taken in the same epoch, however many frames are lost, late or outliers: no
\* measurement mixes two requests or contains a step of the clock.
RightWhileParked == moves = 0 => PairedRight /\ SameEpoch

\* A slave that is not synchronised asks at every poll; one that was synchronised
\* asks, at the latest, one poll after the silence has become too long, and then
\* at every poll, whatever the network loses and wherever the vehicle goes.
SilenceBound ==
  \/ sinceRequest <= Poll
  \/ firstSync /\ sinceSync <= Silence + Poll

\* However many frames are lost (but not all for ever), the slave goes on measuring, and
\* is synchronised for the first time and again and again after that, unless
\* measurements are discarded again and again: a clock that is MAX_OFFSET_NS or more away is
\* never corrected (sptp_protocol.h:175), although the watchdog keeps asking (:176).
KeepsSynchronised ==
  \/ []<><<RxOutlier>>_vars
  \/ <>firstSync /\ []<>(sinceSync = 0)
=============================================================================
