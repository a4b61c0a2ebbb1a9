----------------------------- MODULE SptpProofs -----------------------------
(***************************************************************************)
(* That a slave of SPTP never stays silent too long, that a vehicle which  *)
(* stays in its quadrant never mixes two exchanges and, since SPTP steps   *)
(* the clock they are read from, that the stamps of MonotonicStamp stay    *)
(* unique however it is stepped.                                           *)
(***************************************************************************)
EXTENDS Sptp, StampHistory, SequenceTheorems, TLAPS

StampType == [of : Nat, epoch : Nat, set : BOOLEAN]
CallType == [seq : Nat, at : Steps, tx : StampType, quadrant : Quadrants \cup {Unknown}]
FrameType == [seq : Nat, quadrant : Quadrants \cup {Unknown}, age : Nat]
RxType == [at : {"t2", "seq", "measure", "adjust", "release"}, seq : Nat, epoch : Nat,
           t2 : StampType]

Typed ==
  /\ pendingT2 \in StampType /\ pendingSeq \in Nat /\ nextSeq \in Nat /\ epoch \in Nat
  /\ calls \in [Threads -> Seq(CallType)]
  /\ quadrant \in Quadrants /\ lastQuadrant \in Quadrants \cup {Unknown}
  /\ requests \subseteq FrameType /\ syncs \subseteq FrameType
  /\ rx = Idle \/ rx \in RxType
  /\ moves \in Nat /\ sleep \in 0 .. Poll

-----------------------------------------------------------------------------
(* What holds while the vehicle has not moved. *)

Flying == requests \cup syncs
Call == calls[Watchdog][1]
\* The thread of the watchdog is in send_sync_request, at one of these steps.
CallAt(steps) == calls[Watchdog] # << >> /\ Call.at \in steps
\* A timestamp of the pending request in the present epoch.
Fresh(stamp) == stamp.of = pendingSeq /\ stamp.epoch = epoch

\* Nobody but the watchdog sends requests, one between two polls.
OnlyWatchdog ==
  /\ lastQuadrant \in {Unknown, quadrant}
  /\ \A t \in Threads \ {Watchdog} : calls[t] = << >>
  /\ Len(calls[Watchdog]) \in {0, 1}
  /\ calls[Watchdog] # << >> => sleep = Poll
  /\ sleep = 0 => rx = Idle

\* Of its frames one is on the way at most, from the poll until the next; the receiving
\* thread handles it alone.
OneFrame ==
  /\ \A x, y \in Flying : x = y
  /\ requests \cap syncs = {}
  /\ \A x \in Flying : x.seq = pendingSeq /\ x.age + sleep = Poll /\ x.age <= MaxDelay
  /\ rx # Idle => Flying = {}

\* Until the frame is sent nothing is on the way, and the call prepares its timestamps.
Prepares ==
  /\ CallAt({"early", "seq", "stamp", "detect", "wire"}) => rx = Idle /\ Flying = {}
  /\ CallAt({"seq"}) => pendingT2.of = Call.seq /\ pendingT2.epoch = epoch
  /\ CallAt({"stamp", "detect", "wire"}) => Fresh(pendingT2)
  /\ CallAt({"stamp", "detect", "wire", "store"}) => Call.seq = pendingSeq
  /\ CallAt({"detect", "wire"}) => Fresh(Call.tx)

\* A SYNC that can still be measured meets timestamps of the pending request in this epoch.
Measures ==
  /\ rx.at \in {"t2", "seq", "measure"} => rx.seq = pendingSeq /\ rx.epoch = epoch
  /\ rx.at \in {"seq", "measure"} => Fresh(rx.t2)
  /\ (Flying # {} \/ rx.at \in {"t2", "seq", "measure"}) =>
       /\ pendingT2.set => Fresh(pendingT2)
       /\ CallAt({"store"}) => Fresh(Call.tx)

Parked == OnlyWatchdog /\ OneFrame /\ Prepares /\ Measures /\ PairedRight /\ SameEpoch
ParkedInv == Typed /\ (moves = 0 => Parked)

-----------------------------------------------------------------------------
(* The silence. *)

\* Of the ticks since the last poll, sleep is what is left of them.
JustAsked == sinceRequest + sleep <= Poll
NotSilent == sinceSync + sleep <= Silence + Poll

Silenced ==
  /\ sleep \in 0 .. Poll /\ sinceSync \in Nat /\ sinceRequest \in Nat
  /\ JustAsked \/ (firstSync /\ NotSilent)

LEMMA LaterIsNext == \A n \in Nat : Later(n) \in Nat /\ Later(n) <= n + 1
  BY DEF Later

LEMMA SilencedStep == Silenced /\ [Next]_vars => Silenced'
<1> SUFFICES ASSUME Silenced, [Next]_vars PROVE Silenced'
  OBVIOUS
<1> USE TimingAssumption
<1>1. ASSUME UNCHANGED <<sleep, sinceSync, firstSync>>, sinceRequest' \in {0, sinceRequest}
      PROVE  Silenced'
  <2>0. sleep' = sleep /\ sinceSync' = sinceSync /\ sinceRequest' \in {0, sinceRequest}
    BY <1>1
  <2>1. firstSync => firstSync'
    BY <1>1
  <2>2. sleep \in 0 .. Poll /\ sinceSync \in Nat /\ sinceRequest \in Nat
    BY DEF Silenced
  <2>3. /\ sleep' \in 0 .. Poll /\ sinceSync' \in Nat /\ sinceRequest' \in Nat
        /\ (JustAsked => JustAsked') /\ (NotSilent => NotSilent')
    <3>1. CASE sinceRequest' = 0
      BY <2>0, <2>2, <3>1 DEF JustAsked, NotSilent
    <3>2. CASE sinceRequest' = sinceRequest
      BY <2>0, <2>2, <3>2 DEF JustAsked, NotSilent
    <3> QED BY <2>0, <3>1, <3>2
  <2> QED BY <2>1, <2>3, Zenon DEF Silenced
<1>2. CASE WatchdogPolls
  <2>1. sleep = 0 /\ sleep' = Poll /\ UNCHANGED <<sinceSync, firstSync>>
    BY <1>2 DEF WatchdogPolls
  <2>2. CASE ~firstSync \/ SilenceExceeded
    BY <1>2, <2>1, <2>2 DEF WatchdogPolls, Entered, Silenced, JustAsked
  <2>3. CASE firstSync /\ ~SilenceExceeded
    BY <1>2, <2>1, <2>3 DEF WatchdogPolls, SilenceExceeded, Silenced, NotSilent
  <2> QED BY <2>2, <2>3
<1>3. ASSUME NEW t \in Threads, ForwarderDetects(t) \/ Sends(t) PROVE Silenced'
  <2>1. UNCHANGED <<sleep, sinceSync, firstSync>> /\ sinceRequest' \in {0, sinceRequest}
    BY <1>3 DEF ForwarderDetects, Sends, StoreEarlyT2, StoreSeq, StampFrame, NoBuffer, DetectInSend,
       SendFrame, StoreT2, Entered, slave, timers
  <2> QED BY <1>1, <2>1
<1>4. CASE (\E q \in RsuQuadrants : MasterReplies(q)) \/ LoseRequest \/ LoseSync \/ Move \/ RxDrop
           \/ RxSync
  BY <1>1, <1>4 DEF MasterReplies, LoseRequest, LoseSync, Move, RxDrop, RxSync, slave, timers
<1>5. CASE RxLoadT2 \/ RxCheckSeq \/ RxOutlier \/ RxAdjust \/ RxRelease
  BY <1>1, <1>5 DEF RxLoadT2, RxCheckSeq, RxOutlier, RxAdjust, RxRelease, RxFrame
<1>6. CASE RxAccept
  BY <1>6 DEF RxAccept, RxFrame, Silenced, NotSilent
<1>7. CASE Tick
  <2>1. /\ sleep > 0 /\ sleep' = sleep - 1 /\ firstSync' = firstSync
        /\ sinceSync' = Later(sinceSync) /\ sinceRequest' = Later(sinceRequest)
    BY <1>7 DEF Tick, slave
  <2>2. /\ sinceSync' \in Nat /\ sinceSync' <= sinceSync + 1
        /\ sinceRequest' \in Nat /\ sinceRequest' <= sinceRequest + 1
    BY <2>1, LaterIsNext DEF Silenced
  <2>3. /\ sleep' \in 0 .. Poll /\ (JustAsked => JustAsked') /\ (NotSilent => NotSilent')
    BY <2>1, <2>2 DEF Silenced, JustAsked, NotSilent
  <2>4. firstSync => firstSync'
    BY <2>1
  <2> QED BY <2>2, <2>3, <2>4, Zenon DEF Silenced
<1>8. CASE UNCHANGED vars
  BY <1>1, <1>8 DEF vars
<1> QED BY <1>2, <1>3, <1>4, <1>5, <1>6, <1>7, <1>8 DEF Next, Receives

\* Whatever the network loses and wherever the vehicle goes, the watchdog asks: at every
\* poll without a synchronisation, and otherwise a poll after the silence at the latest.
THEOREM WatchdogAsks == Spec => []SilenceBound
<1>1. Init => Silenced
  BY TimingAssumption DEF Init, Silenced, JustAsked
<1>2. Silenced => SilenceBound
  BY TimingAssumption DEF Silenced, JustAsked, NotSilent, SilenceBound
<1> QED BY <1>1, <1>2, SilencedStep, PTL DEF Spec

-----------------------------------------------------------------------------
(* Types. *)

LEMMA CallChanges ==
  ASSUME NEW s \in Seq(CallType), s # << >>, NEW c \in CallType,
         NEW r, r = [s EXCEPT ![Len(s)] = c]
  PROVE  /\ r \in Seq(CallType) /\ Len(r) = Len(s) /\ r # << >> /\ s[Len(s)] \in CallType
         /\ r[Len(s)] = c
<1>1. Len(s) \in 1 .. Len(s) /\ s[Len(s)] \in CallType
  OBVIOUS
<1>2. r \in Seq(CallType) /\ Len(r) = Len(s) /\ r[Len(s)] = c
  BY <1>1
<1> QED BY <1>1, <1>2

LEMMA StampTyped ==
  ASSUME epoch \in Nat
  PROVE  None \in StampType /\ \A seq \in Nat : Stamp(seq) \in StampType
  BY DEF None, Stamp, StampType

LEMMA SeqTyped ==
  ASSUME nextSeq \in Nat
  PROVE  (nextSeq + 1) % SeqMod \in Nat
  BY BoundsAssumption

\* Call d is call c at step `at`, having stamped tx.
Follows(d, c, at, tx) ==
  /\ d \in CallType
  /\ d.seq = c.seq /\ d.at = at /\ d.tx = tx /\ d.quadrant = c.quadrant

LEMMA CallGoesOn ==
  ASSUME NEW c \in CallType, NEW at \in Steps, NEW tx \in StampType
  PROVE  Follows([c EXCEPT !.at = at, !.tx = tx], c, at, tx)
<1>1. PICK e : e = [c EXCEPT !.at = at]
  OBVIOUS
<1>2. e \in CallType /\ e.seq = c.seq /\ e.at = at /\ e.quadrant = c.quadrant
  BY <1>1 DEF CallType
<1>3. PICK d : d = [e EXCEPT !.tx = tx]
  OBVIOUS
<1>4. d \in CallType /\ d.seq = e.seq /\ d.at = e.at /\ d.tx = tx /\ d.quadrant = e.quadrant
  BY <1>2, <1>3 DEF CallType
<1>5. d = [c EXCEPT !.at = at, !.tx = tx]
  BY <1>1, <1>3
<1> QED BY <1>2, <1>4, <1>5 DEF Follows

\* The call of thread t goes on.
LEMMA Going ==
  ASSUME Typed, NEW t \in Threads, Busy(t), NEW at \in Steps, NEW tx \in StampType,
         Goes(t, at, tx)
  PROVE  /\ calls' \in [Threads -> Seq(CallType)] /\ Len(calls'[t]) = Len(calls[t])
         /\ calls'[t] # << >> /\ Inner(t) \in CallType
         /\ Follows(calls'[t][Len(calls[t])], Inner(t), at, tx)
         /\ \A u \in Threads : u # t => calls'[u] = calls[u]
<1> DEFINE s == calls[t]
           c == [s[Len(s)] EXCEPT !.at = at, !.tx = tx]
<1>1. s \in Seq(CallType) /\ s # << >> /\ calls \in [Threads -> Seq(CallType)]
  BY DEF Typed, Busy
<1>2. Inner(t) = s[Len(s)] /\ s[Len(s)] \in CallType
  BY <1>1 DEF Inner
<1>3. Follows(c, Inner(t), at, tx)
  BY <1>2, CallGoesOn
<1>4. PICK r : r = [s EXCEPT ![Len(s)] = c]
  OBVIOUS
<1>5. calls' = [calls EXCEPT ![t] = r]
  BY <1>4 DEF Goes
<1> HIDE DEF c
<1>6. c \in CallType
  BY <1>3 DEF Follows
<1>7. r \in Seq(CallType) /\ Len(r) = Len(s) /\ r # << >> /\ r[Len(s)] = c
  BY <1>1, <1>4, <1>6, CallChanges
<1> QED BY <1>1, <1>2, <1>3, <1>5, <1>7

\* What DetectInSend makes of the call: it is about to be broadcast.
LEMMA Stamped ==
  ASSUME Typed, NEW t \in Threads, Busy(t),
         NEW outer, outer = [calls[t] EXCEPT ![Len(calls[t])] =
                               [@ EXCEPT !.at = "wire", !.quadrant = quadrant]]
  PROVE  /\ outer \in Seq(CallType) /\ Len(outer) = Len(calls[t]) /\ outer # << >>
         /\ Inner(t) \in CallType
         /\ outer[Len(calls[t])].at = "wire" /\ outer[Len(calls[t])].tx = Inner(t).tx
         /\ outer[Len(calls[t])].seq = Inner(t).seq
<1> DEFINE s == calls[t]
           c == [s[Len(s)] EXCEPT !.at = "wire", !.quadrant = quadrant]
<1>1. s \in Seq(CallType) /\ s # << >> /\ s[Len(s)] \in CallType /\ Inner(t) = s[Len(s)]
  BY DEF Typed, Busy, Inner
<1>2. PICK e : e = [s[Len(s)] EXCEPT !.at = "wire"]
  OBVIOUS
<1>3. e \in CallType /\ e.at = "wire" /\ e.seq = Inner(t).seq /\ e.tx = Inner(t).tx
  BY <1>1, <1>2 DEF CallType, Steps
<1>4. PICK d : d = [e EXCEPT !.quadrant = quadrant]
  OBVIOUS
<1>5. d \in CallType /\ d.at = "wire" /\ d.seq = Inner(t).seq /\ d.tx = Inner(t).tx
  BY <1>3, <1>4 DEF CallType, Typed
<1>6. outer = [s EXCEPT ![Len(s)] = d]
  BY <1>2, <1>4
<1>7. outer \in Seq(CallType) /\ Len(outer) = Len(s) /\ outer # << >> /\ outer[Len(s)] = d
  BY <1>1, <1>5, <1>6, CallChanges
<1> QED BY <1>1, <1>5, <1>7

LEMMA Returning ==
  ASSUME Typed, NEW t \in Threads, Busy(t), Returns(t)
  PROVE  /\ calls' \in [Threads -> Seq(CallType)] /\ Len(calls'[t]) = Len(calls[t]) - 1
         /\ Inner(t) \in CallType
         /\ \A u \in Threads : u # t => calls'[u] = calls[u]
<1>1. calls[t] \in Seq(CallType) /\ Len(calls[t]) \in Nat \ {0} /\ calls \in [Threads -> Seq(CallType)]
  BY DEF Typed, Busy
<1>2. PICK n \in Nat : n = Len(calls[t]) - 1
  BY <1>1
<1>3. SubSeq(calls[t], 1, n) \in Seq(CallType)
      /\ Len(SubSeq(calls[t], 1, n)) = IF 1 <= n THEN n - 1 + 1 ELSE 0
  BY <1>1, <1>2, SubSeqProperties
<1>4. PICK r : r = SubSeq(calls[t], 1, n)
  OBVIOUS
<1>5. r \in Seq(CallType) /\ Len(r) = n
  BY <1>3, <1>4
<1>6. calls' = [calls EXCEPT ![t] = r]
  BY <1>2, <1>4 DEF Returns
<1> QED BY <1>1, <1>2, <1>5, <1>6 DEF Inner

LEMMA Entering ==
  ASSUME Typed, NEW t \in Threads, NEW stack \in Seq(CallType), Entered(t, stack)
  PROVE  /\ calls' \in [Threads -> Seq(CallType)] /\ nextSeq' \in Nat
         /\ Len(calls'[t]) = Len(stack) + 1
         /\ calls'[t][Len(stack) + 1] = [seq |-> nextSeq, at |-> "early", tx |-> None,
                                         quadrant |-> Unknown]
         /\ \A u \in Threads : u # t => calls'[u] = calls[u]
<1> DEFINE c == [seq |-> nextSeq, at |-> "early", tx |-> None, quadrant |-> Unknown]
<1>1. c \in CallType /\ calls \in [Threads -> Seq(CallType)]
  BY StampTyped DEF Typed, CallType, Steps
<1>2. calls' = [calls EXCEPT ![t] = Append(stack, c)]
  BY DEF Entered
<1> HIDE DEF c
<1>3. /\ Append(stack, c) \in Seq(CallType) /\ Len(Append(stack, c)) = Len(stack) + 1
      /\ Append(stack, c)[Len(stack) + 1] = c
  BY <1>1
<1>4. nextSeq' \in Nat
  BY SeqTyped DEF Typed, Entered
<1> QED BY <1>1, <1>2, <1>3, <1>4 DEF c

LEMMA AgedTyped ==
  ASSUME NEW f, f \subseteq FrameType
  PROVE  /\ Aged(f) \subseteq FrameType
         /\ \A x \in Aged(f) : \E y \in f : y.age < MaxDelay /\ x.seq = y.seq /\ x.age = y.age + 1
                                            /\ x = [y EXCEPT !.age = @ + 1]
<1>1. ASSUME NEW x \in Aged(f)
      PROVE  x \in FrameType /\ \E y \in f : /\ y.age < MaxDelay /\ x.seq = y.seq
                                             /\ x.age = y.age + 1 /\ x = [y EXCEPT !.age = @ + 1]
  <2>1. PICK y \in f : y.age < MaxDelay /\ x = [y EXCEPT !.age = @ + 1]
    BY <1>1 DEF Aged
  <2> QED BY <2>1 DEF FrameType
<1> QED BY <1>1

LEMMA TypedStep == Typed /\ [Next]_vars => Typed'
<1> SUFFICES ASSUME Typed, [Next]_vars PROVE Typed'
  OBVIOUS
<1> USE TimingAssumption
<1>0. None \in StampType /\ \A seq \in Nat : Stamp(seq) \in StampType
  BY StampTyped DEF Typed
<1>1. CASE WatchdogPolls
  <2>1. Watchdog \in Threads /\ << >> \in Seq(CallType) /\ sleep' \in 0 .. Poll
    BY <1>1 DEF Threads, WatchdogPolls
  <2>2. calls' \in [Threads -> Seq(CallType)] /\ nextSeq' \in Nat
    <3>1. CASE Entered(Watchdog, << >>)
      BY <2>1, <3>1, Entering
    <3>2. CASE UNCHANGED <<calls, nextSeq>>
      BY <3>2 DEF Typed
    <3> QED BY <1>1, <3>1, <3>2 DEF WatchdogPolls
  <2> QED BY <1>1, <2>1, <2>2 DEF WatchdogPolls, Typed, place, network
<1>2. ASSUME NEW t \in Threads, ForwarderDetects(t) PROVE Typed'
  <2>1. << >> \in Seq(CallType)
    OBVIOUS
  <2>2. calls' \in [Threads -> Seq(CallType)] /\ nextSeq' \in Nat
    <3>1. CASE Entered(t, << >>)
      BY <2>1, <3>1, Entering
    <3>2. CASE UNCHANGED <<calls, nextSeq>>
      BY <3>2 DEF Typed
    <3> QED BY <1>2, <3>1, <3>2 DEF ForwarderDetects
  <2> QED BY <1>2, <2>2 DEF ForwarderDetects, Typed, network
<1>3. ASSUME NEW t \in Threads, Sends(t) PROVE Typed'
  <2>0. Busy(t) /\ Inner(t) \in CallType
    <3>1. Busy(t)
      BY <1>3 DEF Sends, StoreEarlyT2, StoreSeq, StampFrame, NoBuffer, DetectInSend, SendFrame,
         StoreT2
    <3> QED BY <3>1 DEF Typed, Busy, Inner
  <2>1. Inner(t).seq \in Nat /\ Inner(t).tx \in StampType
        /\ Inner(t).quadrant \in Quadrants \cup {Unknown}
    BY <2>0 DEF CallType
  <2>2. CASE StoreEarlyT2(t)
    <3>1. calls' \in [Threads -> Seq(CallType)]
      BY <1>0, <2>0, <2>2, Going DEF StoreEarlyT2, Steps
    <3> QED BY <1>0, <2>1, <2>2, <3>1 DEF StoreEarlyT2, Typed, timers, place, network
  <2>3. CASE StoreSeq(t)
    <3>1. calls' \in [Threads -> Seq(CallType)]
      BY <1>0, <2>0, <2>3, Going DEF StoreSeq, Steps
    <3> QED BY <2>1, <2>3, <3>1 DEF StoreSeq, Typed, timers, place, network
  <2>4. CASE StampFrame(t)
    <3>1. Stamp(Inner(t).seq) \in StampType
      BY <1>0, <2>1
    <3>2. calls' \in [Threads -> Seq(CallType)]
      BY <2>0, <2>4, <3>1, Going DEF StampFrame, Steps
    <3> QED BY <2>4, <3>2 DEF StampFrame, Typed, slave, timers, place, network
  <2>5. CASE NoBuffer(t)
    <3>1. calls' \in [Threads -> Seq(CallType)]
      BY <2>0, <2>5, Returning DEF NoBuffer
    <3> QED BY <2>5, <3>1 DEF NoBuffer, Typed, slave, timers, place, network
  <2>6. CASE DetectInSend(t)
    <3>1. PICK outer : outer = [calls[t] EXCEPT ![Len(calls[t])] =
                                  [@ EXCEPT !.at = "wire", !.quadrant = quadrant]]
      OBVIOUS
    <3>2. outer \in Seq(CallType)
      BY <2>0, <3>1, Stamped
    <3>3. calls' \in [Threads -> Seq(CallType)] /\ nextSeq' \in Nat
      <4>1. CASE Entered(t, outer)
        BY <3>2, <4>1, Entering
      <4>2. CASE calls' = [calls EXCEPT ![t] = outer] /\ nextSeq' = nextSeq
        BY <3>2, <4>2 DEF Typed
      <4> QED BY <2>6, <3>1, <4>1, <4>2 DEF DetectInSend
    <3> QED BY <2>6, <3>3 DEF DetectInSend, Typed, network
  <2>7. CASE SendFrame(t)
    <3>1. calls' \in [Threads -> Seq(CallType)]
      BY <2>0, <2>1, <2>7, Going DEF SendFrame, Steps
    <3>2. [seq |-> Inner(t).seq, quadrant |-> Inner(t).quadrant, age |-> 0] \in FrameType
      BY <2>1 DEF FrameType
    <3> QED BY <2>7, <3>1, <3>2 DEF SendFrame, Typed, slave, timers, place
  <2>8. CASE StoreT2(t)
    <3>1. calls' \in [Threads -> Seq(CallType)]
      BY <2>0, <2>8, Returning DEF StoreT2
    <3> QED BY <2>1, <2>8, <3>1 DEF StoreT2, Typed, timers, place, network
  <2> QED BY <1>3, <2>2, <2>3, <2>4, <2>5, <2>6, <2>7, <2>8 DEF Sends
<1>4. CASE (\E q \in RsuQuadrants : MasterReplies(q)) \/ LoseRequest \/ LoseSync \/ Move \/ RxDrop
  BY <1>4 DEF MasterReplies, LoseRequest, LoseSync, Move, RxDrop, Typed, slave, timers, place, network
<1>5. CASE RxSync
  BY <1>0, <1>5 DEF RxSync, Typed, FrameType, RxType, slave, timers, place
<1>6. CASE Receives
  <2>1. /\ rx' = Idle \/ rx' \in RxType
        /\ pendingT2' \in StampType /\ epoch' \in Nat
    <3>1. CASE RxLoadT2
      <4>1. rx \in RxType
        BY <3>1 DEF RxLoadT2, Typed, Idle
      <4>2. PICK e : e = [rx EXCEPT !.at = "seq"]
        OBVIOUS
      <4>3. e \in RxType
        BY <4>1, <4>2 DEF RxType
      <4>4. [rx EXCEPT !.at = "seq", !.t2 = pendingT2] = [e EXCEPT !.t2 = pendingT2]
        BY <4>2
      <4>5. [e EXCEPT !.t2 = pendingT2] \in RxType
        BY <4>3 DEF RxType, Typed
      <4>6. rx' = Idle \/ rx' = [rx EXCEPT !.at = "seq", !.t2 = pendingT2]
        BY <3>1 DEF RxLoadT2
      <4> QED BY <3>1, <4>4, <4>5, <4>6 DEF RxLoadT2, Typed
    <3>2. CASE RxCheckSeq
      <4>1. rx \in RxType
        BY <3>2 DEF RxCheckSeq, Typed, Idle
      <4>2. [rx EXCEPT !.at = "measure"] \in RxType
        BY <4>1 DEF RxType
      <4> QED BY <3>2, <4>2 DEF RxCheckSeq, Typed
    <3>3. CASE RxOutlier \/ RxRelease
      BY <1>0, <3>3 DEF RxOutlier, RxRelease, Typed
    <3>4. CASE RxAccept
      BY <3>4 DEF RxAccept, Typed, RxType, Idle
    <3>5. CASE RxAdjust
      <4>1. rx \in RxType /\ rx' = [rx EXCEPT !.at = "release"]
        BY <3>5 DEF RxAdjust, Typed, Idle
      <4>2. rx' \in RxType
        BY <4>1 DEF RxType
      <4>3. epoch' \in Nat
        BY <3>5, BoundsAssumption DEF RxAdjust, Typed
      <4> QED BY <3>5, <4>2, <4>3 DEF RxAdjust, Typed
    <3> QED BY <1>6, <3>1, <3>2, <3>3, <3>4, <3>5 DEF Receives
  <2>2. RxFrame
    BY <1>6 DEF Receives, RxLoadT2, RxCheckSeq, RxOutlier, RxAccept, RxAdjust, RxRelease
  <2> QED BY <2>1, <2>2 DEF RxFrame, Typed, place, network
<1>7. CASE Tick
  <2>1. requests' \subseteq FrameType /\ syncs' \subseteq FrameType
    BY <1>7, AgedTyped DEF Tick, Typed
  <2> QED BY <1>7, <2>1 DEF Tick, Typed, slave, place
<1>8. CASE UNCHANGED vars
  BY <1>8 DEF vars, Typed
<1> QED BY <1>1, <1>2, <1>3, <1>4, <1>5, <1>6, <1>7, <1>8 DEF Next

-----------------------------------------------------------------------------
(* The vehicle that stays in its quadrant. *)

\* The only call there is is the one of the watchdog, made when it last polled.
LEMMA OneCall ==
  ASSUME Typed, OnlyWatchdog, NEW t \in Threads, Busy(t)
  PROVE  /\ t = Watchdog /\ Len(calls[t]) = 1 /\ Inner(t) = Call
         /\ calls[Watchdog] # << >> /\ sleep = Poll
<1>1. t = Watchdog /\ calls[t] # << >> /\ calls[t] \in Seq(CallType)
  BY DEF OnlyWatchdog, Busy, Typed
<1>2. Len(calls[t]) = 1
  BY <1>1 DEF OnlyWatchdog
<1> QED BY <1>1, <1>2 DEF OnlyWatchdog, Inner, Call

\* It goes on, and the others still make none.
LEMMA OneCallGoesOn ==
  ASSUME Typed, OnlyWatchdog, NEW t \in Threads, Busy(t), NEW at \in Steps, NEW tx \in StampType,
         Goes(t, at, tx), UNCHANGED <<sleep, rx, quadrant, lastQuadrant>>
  PROVE  /\ OnlyWatchdog' /\ calls'[Watchdog] # << >>
         /\ Call'.at = at /\ Call'.seq = Call.seq /\ Call'.tx = tx
<1>1. /\ t = Watchdog /\ Len(calls[t]) = 1 /\ Inner(t) = Call
      /\ calls[Watchdog] # << >> /\ sleep = Poll
  BY OneCall
<1>2. /\ Len(calls'[t]) = 1 /\ calls'[t] # << >>
      /\ Follows(calls'[t][1], Call, at, tx)
      /\ \A u \in Threads : u # t => calls'[u] = calls[u]
  BY <1>1, Going
<1>3. OnlyWatchdog'
  <2>1. lastQuadrant' \in {Unknown, quadrant'}
    BY DEF OnlyWatchdog
  <2>2. \A u \in Threads \ {Watchdog} : calls'[u] = << >>
    BY <1>1, <1>2 DEF OnlyWatchdog
  <2>3. sleep' = Poll /\ sleep' # 0
    BY <1>1, TimingAssumption
  <2> QED BY <1>1, <1>2, <2>1, <2>2, <2>3 DEF OnlyWatchdog
<1>4. PICK d : d = calls'[t][1]
  OBVIOUS
<1>5. Call' = d
  BY <1>1, <1>4 DEF Call
<1>6. d.at = at /\ d.seq = Call.seq /\ d.tx = tx
  BY <1>2, <1>4 DEF Follows
<1>7. calls'[Watchdog] # << >>
  BY <1>1, <1>2
<1> QED BY <1>3, <1>5, <1>6, <1>7

\* It returns.
LEMMA OneCallReturns ==
  ASSUME Typed, OnlyWatchdog, NEW t \in Threads, Busy(t), Returns(t),
         UNCHANGED <<sleep, rx, quadrant, lastQuadrant>>
  PROVE  OnlyWatchdog' /\ calls'[Watchdog] = << >>
<1>1. t = Watchdog /\ Len(calls[t]) = 1 /\ sleep = Poll
  BY OneCall
<1>2. /\ calls' \in [Threads -> Seq(CallType)] /\ Len(calls'[t]) = Len(calls[t]) - 1
      /\ \A u \in Threads : u # t => calls'[u] = calls[u]
  BY Returning
<1>3. calls'[t] = << >>
  <2>1. calls'[t] \in Seq(CallType) /\ Len(calls'[t]) = 0
    BY <1>1, <1>2
  <2> QED BY <2>1
<1> QED BY <1>1, <1>2, <1>3, TimingAssumption DEF OnlyWatchdog

\* What the frames on their way may do without the rest: become fewer.
LEMMA FewerFrames ==
  ASSUME Parked, Flying' \subseteq Flying, (requests \cap syncs = {})',
         UNCHANGED <<pendingT2, pendingSeq, epoch, calls, quadrant, lastQuadrant, sleep, rx, measured>>
  PROVE  Parked'
<1>1. OnlyWatchdog'
  BY DEF Parked, OnlyWatchdog
<1>2. OneFrame'
  BY DEF Parked, OneFrame
<1>3. Prepares'
  BY DEF Parked, Prepares, CallAt, Call, Fresh
<1>4. Measures'
  BY DEF Parked, Measures, CallAt, Call, Fresh
<1> QED BY <1>1, <1>2, <1>3, <1>4 DEF Parked, PairedRight, SameEpoch

\* While a SYNC is handled nothing is on the way, and the call has sent its frame.
LEMMA Handling ==
  ASSUME Parked, rx # Idle
  PROVE  Flying = {} /\ ~CallAt({"early", "seq", "stamp", "detect", "wire"}) /\ sleep # 0
  BY DEF Parked, OnlyWatchdog, OneFrame, Prepares

\* Between two polls, a frame is older than the poll only if it is lost.
LEMMA NothingLate ==
  ASSUME Typed, Parked, MaxDelay < Poll, sleep = 0
  PROVE  Flying = {} /\ rx = Idle
<1>1. ASSUME NEW x \in Flying PROVE FALSE
  <2>1. x.age \in Nat /\ x.age + sleep = Poll /\ x.age <= MaxDelay
    BY <1>1 DEF Typed, FrameType, Flying, Parked, OneFrame
  <2> QED BY <2>1, TimingAssumption
<1> QED BY <1>1 DEF Parked, OnlyWatchdog

\* The watchdog polls.
LEMMA PolledParked ==
  ASSUME Typed, Parked, MaxDelay < Poll, WatchdogPolls
  PROVE  Parked'
<1>1. /\ sleep = 0 /\ sleep' = Poll /\ calls[Watchdog] = << >>
      /\ UNCHANGED <<pendingT2, pendingSeq, epoch, quadrant, lastQuadrant, requests, syncs, rx,
                     measured>>
  BY DEF WatchdogPolls, Busy, place, network
<1>2. Flying = {} /\ rx = Idle /\ Flying' = {}
  BY <1>1, NothingLate DEF Flying
<1>3. /\ \A u \in Threads \ {Watchdog} : calls'[u] = << >>
      /\ Len(calls'[Watchdog]) \in {0, 1}
      /\ calls'[Watchdog] # << >> => Call'.at = "early"
  <2>1. CASE Entered(Watchdog, << >>)
    <3>1. << >> \in Seq(CallType) /\ Watchdog \in Threads
      BY DEF Threads
    <3>2. PICK empty : empty = << >>
      OBVIOUS
    <3>3. empty \in Seq(CallType) /\ Len(empty) = 0 /\ Entered(Watchdog, empty)
      BY <2>1, <3>2
    <3>4. PICK c : c = [seq |-> nextSeq, at |-> "early", tx |-> None, quadrant |-> Unknown]
      OBVIOUS
    <3>5. /\ Len(calls'[Watchdog]) = Len(empty) + 1 /\ calls'[Watchdog][Len(empty) + 1] = c
          /\ \A u \in Threads : u # Watchdog => calls'[u] = calls[u]
      BY <3>1, <3>3, <3>4, Entering
    <3>6. Len(calls'[Watchdog]) = 1 /\ Call' = c /\ c.at = "early"
      BY <3>3, <3>4, <3>5 DEF Call
    <3> QED BY <3>5, <3>6 DEF Parked, OnlyWatchdog
  <2>2. CASE calls' = calls
    BY <1>1, <2>2 DEF Parked, OnlyWatchdog
  <2> QED BY <2>1, <2>2 DEF WatchdogPolls
<1>4. OnlyWatchdog'
  BY <1>1, <1>2, <1>3 DEF Parked, OnlyWatchdog
<1>5. OneFrame'
  BY <1>1, <1>2 DEF OneFrame, Flying
<1>6. Prepares'
  BY <1>1, <1>2, <1>3 DEF Prepares, CallAt
<1>7. Measures'
  BY <1>1, <1>2 DEF Measures, Idle
<1> QED BY <1>1, <1>4, <1>5, <1>6, <1>7 DEF Parked, PairedRight, SameEpoch

\* A thread goes on with its send_sync_request.
LEMMA SentParked ==
  ASSUME Typed, Parked, NEW t \in Threads, Sends(t)
  PROVE  Parked'
<1>0. /\ Busy(t) /\ calls[Watchdog] # << >> /\ Inner(t) = Call /\ Call \in CallType
      /\ sleep = Poll /\ Len(calls[t]) = 1 /\ t = Watchdog
  <2>1. Busy(t)
    BY DEF Sends, StoreEarlyT2, StoreSeq, StampFrame, NoBuffer, DetectInSend, SendFrame, StoreT2
  <2>2. Inner(t) \in CallType
    BY <2>1 DEF Typed, Busy, Inner
  <2> QED BY <2>1, <2>2, OneCall DEF Parked
<1>1. Call.seq \in Nat /\ Call.tx \in StampType /\ None \in StampType /\ Stamp(Call.seq) \in StampType
      /\ Stamp(Call.seq).of = Call.seq /\ Stamp(Call.seq).epoch = epoch
  BY <1>0, StampTyped DEF Typed, CallType, Stamp
<1>2. OnlyWatchdog
  BY DEF Parked
<1>3. ASSUME rx' = Idle, Flying' = {} PROVE OneFrame' /\ Measures'
  BY <1>3 DEF OneFrame, Measures, Flying, Idle
<1>4. CASE StoreEarlyT2(t)
  <2>1. /\ Inner(t).at = "early" /\ pendingT2' = Stamp(Call.seq) /\ Goes(t, "seq", None)
        /\ UNCHANGED <<pendingSeq, sleep, epoch, quadrant, lastQuadrant, requests, syncs, rx,
                       measured>>
    BY <1>0, <1>4 DEF StoreEarlyT2, timers, place, network
  <2>2. rx' = Idle /\ Flying' = {}
    BY <1>0, <2>1 DEF Parked, Prepares, CallAt, Flying
  <2>3. OnlyWatchdog' /\ Call'.at = "seq" /\ Call'.seq = Call.seq
    BY <1>0, <1>1, <1>2, <2>1, OneCallGoesOn DEF Steps
  <2>4. Prepares'
    BY <1>1, <2>1, <2>2, <2>3 DEF Prepares, CallAt
  <2> QED BY <1>3, <2>1, <2>2, <2>3, <2>4 DEF Parked, PairedRight, SameEpoch
<1>5. CASE StoreSeq(t)
  <2>1. /\ Inner(t).at = "seq" /\ pendingSeq' = Call.seq /\ Goes(t, "stamp", None)
        /\ UNCHANGED <<pendingT2, sleep, epoch, quadrant, lastQuadrant, requests, syncs, rx,
                       measured>>
    BY <1>0, <1>5 DEF StoreSeq, timers, place, network
  <2>2. rx' = Idle /\ Flying' = {}
    BY <1>0, <2>1 DEF Parked, Prepares, CallAt, Flying
  <2>3. OnlyWatchdog' /\ Call'.at = "stamp" /\ Call'.seq = Call.seq
    BY <1>0, <1>1, <1>2, <2>1, OneCallGoesOn DEF Steps
  <2>4. pendingT2.of = Call.seq /\ pendingT2.epoch = epoch
    BY <1>0, <2>1 DEF Parked, Prepares, CallAt
  <2>5. Prepares'
    BY <2>1, <2>2, <2>3, <2>4 DEF Prepares, CallAt, Fresh
  <2> QED BY <1>3, <2>1, <2>2, <2>3, <2>5 DEF Parked, PairedRight, SameEpoch
<1>6. CASE StampFrame(t)
  <2>1. /\ Inner(t).at = "stamp" /\ Goes(t, "detect", Stamp(Call.seq))
        /\ UNCHANGED <<pendingT2, pendingSeq, sleep, epoch, quadrant, lastQuadrant, requests, syncs,
                       rx, measured>>
    BY <1>0, <1>6 DEF StampFrame, slave, timers, place, network
  <2>2. rx' = Idle /\ Flying' = {}
    BY <1>0, <2>1 DEF Parked, Prepares, CallAt, Flying
  <2>3. OnlyWatchdog' /\ Call'.at = "detect" /\ Call'.seq = Call.seq /\ Call'.tx = Stamp(Call.seq)
    BY <1>0, <1>1, <1>2, <2>1, OneCallGoesOn DEF Steps
  <2>4. Fresh(pendingT2) /\ Call.seq = pendingSeq
    BY <1>0, <2>1 DEF Parked, Prepares, CallAt
  <2>5. Prepares'
    BY <1>1, <2>1, <2>2, <2>3, <2>4 DEF Prepares, CallAt, Fresh
  <2> QED BY <1>3, <2>1, <2>2, <2>3, <2>5 DEF Parked, PairedRight, SameEpoch
<1>7. CASE NoBuffer(t)
  <2>1. /\ Inner(t).at = "stamp" /\ Returns(t)
        /\ UNCHANGED <<sleep, epoch, quadrant, lastQuadrant, requests, syncs, rx, measured>>
    BY <1>7 DEF NoBuffer, slave, timers, place, network
  <2>2. rx' = Idle /\ Flying' = {}
    BY <1>0, <2>1 DEF Parked, Prepares, CallAt, Flying
  <2>3. OnlyWatchdog' /\ calls'[Watchdog] = << >>
    BY <1>0, <1>2, <2>1, OneCallReturns
  <2>4. Prepares'
    BY <2>3 DEF Prepares, CallAt
  <2> QED BY <1>3, <2>1, <2>2, <2>3, <2>4 DEF Parked, PairedRight, SameEpoch
<1>8. CASE DetectInSend(t)
  <2>1. PICK outer : outer = [calls[t] EXCEPT ![Len(calls[t])] =
                                [@ EXCEPT !.at = "wire", !.quadrant = quadrant]]
    OBVIOUS
  <2>2. /\ outer \in Seq(CallType) /\ Len(outer) = 1
        /\ outer[1].at = "wire" /\ outer[1].tx = Call.tx /\ outer[1].seq = Call.seq
    <3>1. /\ outer \in Seq(CallType) /\ Len(outer) = Len(calls[t])
          /\ outer[Len(calls[t])].at = "wire" /\ outer[Len(calls[t])].tx = Inner(t).tx
          /\ outer[Len(calls[t])].seq = Inner(t).seq
      <4>1. Busy(t)
        BY <1>0
      <4> QED BY <2>1, <4>1, Stamped
    <3> QED BY <1>0, <3>1
  <2>3. /\ Inner(t).at = "detect" /\ lastQuadrant' = quadrant /\ calls' = [calls EXCEPT ![t] = outer]
        /\ UNCHANGED <<pendingT2, pendingSeq, sleep, epoch, quadrant, requests, syncs, rx, measured>>
    BY <1>2, <1>8, <2>1 DEF DetectInSend, Crossed, OnlyWatchdog, network
  <2>4. rx' = Idle /\ Flying' = {}
    BY <1>0, <2>3 DEF Parked, Prepares, CallAt, Flying
  <2>5. calls'[Watchdog] = outer /\ Call' = outer[1]
        /\ \A u \in Threads : u # t => calls'[u] = calls[u]
    BY <1>0, <2>3 DEF Typed, Call
  <2>6. OnlyWatchdog'
    BY <1>0, <1>2, <2>2, <2>3, <2>4, <2>5 DEF OnlyWatchdog
  <2>7. Fresh(pendingT2) /\ Fresh(Call.tx) /\ Call.seq = pendingSeq
    BY <1>0, <2>3 DEF Parked, Prepares, CallAt
  <2>8. Prepares'
    BY <2>2, <2>3, <2>4, <2>5, <2>7 DEF Prepares, CallAt, Fresh
  <2> QED BY <1>3, <2>3, <2>4, <2>6, <2>8 DEF Parked, PairedRight, SameEpoch
<1>9. CASE SendFrame(t)
  <2> DEFINE f == [seq |-> Inner(t).seq, quadrant |-> Inner(t).quadrant, age |-> 0]
  <2>1. /\ Inner(t).at = "wire" /\ requests' = requests \cup {f} /\ Goes(t, "store", Call.tx)
        /\ UNCHANGED <<pendingT2, pendingSeq, sleep, epoch, quadrant, lastQuadrant, syncs, rx,
                       measured>>
    BY <1>0, <1>9 DEF SendFrame, slave, timers, place
  <2>2. rx = Idle /\ Flying = {} /\ Fresh(pendingT2) /\ Fresh(Call.tx) /\ Call.seq = pendingSeq
    BY <1>0, <2>1 DEF Parked, Prepares, CallAt
  <2>3. /\ OnlyWatchdog' /\ calls'[Watchdog] # << >>
        /\ Call'.at = "store" /\ Call'.seq = Call.seq /\ Call'.tx = Call.tx
    BY <1>0, <1>1, <1>2, <2>1, OneCallGoesOn DEF Steps
  <2>4. f.seq = pendingSeq /\ f.age + sleep = Poll /\ f.age <= MaxDelay
    BY <1>0, <2>2, TimingAssumption
  <2>5. OneFrame'
    <3> HIDE DEF f
    <3> QED BY <2>1, <2>2, <2>4 DEF OneFrame, Flying
  <2>6. Prepares'
    BY <2>1, <2>2, <2>3 DEF Prepares, CallAt
  <2>7. Measures'
    BY <2>1, <2>2, <2>3 DEF Measures, Fresh, Idle
  <2> QED BY <2>1, <2>3, <2>5, <2>6, <2>7 DEF Parked, PairedRight, SameEpoch
<1>10. CASE StoreT2(t)
  <2>1. /\ Inner(t).at = "store" /\ pendingT2' = Call.tx /\ Returns(t)
        /\ UNCHANGED <<pendingSeq, sleep, epoch, quadrant, lastQuadrant, requests, syncs, rx,
                       measured>>
    BY <1>0, <1>10 DEF StoreT2, timers, place, network
  <2>2. OnlyWatchdog' /\ calls'[Watchdog] = << >>
    BY <1>0, <1>2, <2>1, OneCallReturns
  <2>3. OneFrame'
    BY <2>1 DEF Parked, OneFrame, Flying
  <2>4. Prepares'
    BY <2>2 DEF Prepares, CallAt
  <2>5. (Flying # {} \/ rx.at \in {"t2", "seq", "measure"}) => Fresh(Call.tx)
    BY <1>0, <2>1 DEF Parked, Measures, CallAt
  <2>6. Measures'
    BY <2>1, <2>2, <2>5 DEF Parked, Measures, CallAt, Flying, Fresh
  <2> QED BY <2>1, <2>2, <2>3, <2>4, <2>6 DEF Parked, PairedRight, SameEpoch
<1> QED BY <1>4, <1>5, <1>6, <1>7, <1>8, <1>9, <1>10 DEF Sends

\* The receiving thread takes a SYNC, or goes on with the one it has taken.
LEMMA ReceivedParked ==
  ASSUME Typed, Parked, MaxDelay < Poll, RxSync \/ Receives
  PROVE  Parked'
<1>1. CASE RxSync
  <2>1. PICK sync \in syncs :
          /\ rx = Idle /\ syncs' = syncs \ {sync}
          /\ rx' = [at |-> "t2", seq |-> sync.seq, epoch |-> epoch, t2 |-> None]
          /\ UNCHANGED <<pendingT2, pendingSeq, epoch, calls, quadrant, lastQuadrant, sleep,
                         requests, measured>>
    BY <1>1 DEF RxSync, slave, timers, place
  <2>2. Flying # {} /\ sleep # 0
    BY NothingLate DEF Flying
  <2>3. sync.seq = pendingSeq /\ Flying' = {}
    BY <2>1 DEF Parked, OneFrame, Flying
  <2>4. OnlyWatchdog'
    BY <2>1, <2>2 DEF Parked, OnlyWatchdog
  <2>5. OneFrame'
    BY <2>3 DEF OneFrame, Flying
  <2>6. ~CallAt({"early", "seq", "stamp", "detect", "wire"})
    BY <2>2 DEF Parked, Prepares
  <2>7. Prepares'
    BY <2>1, <2>6 DEF Parked, Prepares, CallAt, Call
  <2>8. Measures'
    BY <2>1, <2>2, <2>3 DEF Parked, Measures, CallAt, Call, Fresh
  <2> QED BY <2>1, <2>4, <2>5, <2>7, <2>8 DEF Parked, PairedRight, SameEpoch
<1>2. CASE Receives
  <2>1. /\ rx # Idle
        /\ UNCHANGED <<pendingSeq, calls, quadrant, lastQuadrant, sleep, requests, syncs>>
    BY <1>2 DEF Receives, RxLoadT2, RxCheckSeq, RxOutlier, RxAccept, RxAdjust, RxRelease, RxFrame,
       place, network, Idle
  <2>2. /\ Flying = {} /\ Flying' = {} /\ sleep # 0
        /\ ~CallAt({"early", "seq", "stamp", "detect", "wire"})
    BY <2>1, Handling DEF Flying
  <2>3. OnlyWatchdog'
    BY <2>1, <2>2 DEF Parked, OnlyWatchdog
  <2>4. OneFrame'
    BY <2>2 DEF OneFrame, Flying
  <2>5. Prepares'
    BY <2>1, <2>2 DEF Parked, Prepares, CallAt, Call
  <2>6. Measures' /\ PairedRight' /\ SameEpoch'
    <3>1. rx \in RxType
      BY <2>1 DEF Typed
    <3>2. CASE RxLoadT2
      <4>1. /\ rx.at = "t2" /\ rx.seq = pendingSeq /\ rx.epoch = epoch
            /\ UNCHANGED <<pendingT2, epoch, measured>>
            /\ pendingT2.set => Fresh(pendingT2)
        BY <3>2 DEF RxLoadT2, Parked, Measures
      <4>2. CASE rx' = Idle
        BY <2>2, <4>1, <4>2 DEF Measures, Idle, Parked, PairedRight, SameEpoch
      <4>3. CASE pendingT2.set /\ rx' = [rx EXCEPT !.at = "seq", !.t2 = pendingT2]
        <5>1. rx'.at = "seq" /\ rx'.seq = rx.seq /\ rx'.epoch = rx.epoch /\ rx'.t2 = pendingT2
          <6>1. PICK e : e = [rx EXCEPT !.at = "seq"]
            OBVIOUS
          <6>2. e.at = "seq" /\ e.seq = rx.seq /\ e.epoch = rx.epoch /\ e \in RxType
            BY <3>1, <6>1 DEF RxType
          <6>3. rx' = [e EXCEPT !.t2 = pendingT2]
            BY <4>3, <6>1
          <6> QED BY <6>2, <6>3 DEF RxType
        <5> QED BY <2>1, <2>2, <4>1, <4>3, <5>1 DEF Measures, CallAt, Call, Fresh, Parked, PairedRight,
               SameEpoch
      <4> QED BY <3>2, <4>2, <4>3 DEF RxLoadT2
    <3>3. CASE RxCheckSeq
      <4>1. /\ rx.at = "seq" /\ Fresh(rx.t2) /\ rx.seq = pendingSeq /\ rx.epoch = epoch
            /\ UNCHANGED <<pendingT2, epoch, measured>>
        BY <3>3 DEF RxCheckSeq, Parked, Measures
      <4>2. CASE rx' = Idle
        BY <2>2, <4>1, <4>2 DEF Measures, Idle, Parked, PairedRight, SameEpoch
      <4>3. CASE rx' = [rx EXCEPT !.at = "measure"]
        <5>1. rx'.at = "measure" /\ rx'.seq = rx.seq /\ rx'.epoch = rx.epoch /\ rx'.t2 = rx.t2
          BY <3>1, <4>3 DEF RxType
        <5>2. Fresh(rx.t2)' /\ (pendingT2.set => Fresh(pendingT2)) /\ (CallAt({"store"}) => Fresh(Call.tx))
          BY <2>1, <4>1, <5>1 DEF Fresh, Parked, Measures
        <5> QED BY <2>1, <2>2, <4>1, <5>1, <5>2 DEF Measures, CallAt, Call, Fresh, Parked, PairedRight,
               SameEpoch
      <4> QED BY <3>3, <4>2, <4>3 DEF RxCheckSeq
    <3>4. CASE RxOutlier \/ RxRelease
      BY <2>2, <3>4 DEF RxOutlier, RxRelease, Measures, Idle, Parked, PairedRight, SameEpoch
    <3>5. CASE RxAccept
      <4>1. /\ rx.at = "measure" /\ Fresh(rx.t2) /\ rx.seq = pendingSeq /\ rx.epoch = epoch
            /\ measured' = [seq |-> rx.seq, t2 |-> rx.t2, epoch |-> rx.epoch, set |-> TRUE]
            /\ rx' = [rx EXCEPT !.at = "adjust"]
        BY <3>5 DEF RxAccept, Parked, Measures
      <4>2. PairedRight' /\ SameEpoch'
        BY <4>1 DEF Fresh, PairedRight, SameEpoch
      <4>3. rx'.at = "adjust"
        BY <3>1, <4>1 DEF RxType
      <4> QED BY <2>2, <4>2, <4>3 DEF Measures
    <3>6. CASE RxAdjust
      <4>1. rx'.at = "release" /\ measured' = measured
        BY <3>1, <3>6 DEF RxAdjust, RxType
      <4> QED BY <2>2, <4>1 DEF Measures, Parked, PairedRight, SameEpoch
    <3> QED BY <1>2, <3>2, <3>3, <3>4, <3>5, <3>6 DEF Receives
  <2> QED BY <2>3, <2>4, <2>5, <2>6 DEF Parked
<1> QED BY <1>1, <1>2

\* A tick brings the next poll nearer and makes the frame older.
LEMMA TickedParked ==
  ASSUME Typed, Parked, Tick
  PROVE  Parked'
<1>1. /\ rx = Idle /\ sleep \in Nat /\ sleep > 0 /\ sleep' = sleep - 1 /\ calls[Watchdog] = << >>
      /\ requests' = Aged(requests) /\ syncs' = Aged(syncs)
      /\ UNCHANGED <<pendingT2, pendingSeq, epoch, calls, quadrant, lastQuadrant, rx, measured>>
  BY TimingAssumption DEF Tick, Busy, Threads, slave, place, Typed
<1>2. /\ \A x \in requests' : \E y \in requests : /\ y.age < MaxDelay /\ x.seq = y.seq
                                                  /\ x.age = y.age + 1 /\ x = [y EXCEPT !.age = @ + 1]
      /\ \A x \in syncs' : \E y \in syncs : /\ y.age < MaxDelay /\ x.seq = y.seq
                                            /\ x.age = y.age + 1 /\ x = [y EXCEPT !.age = @ + 1]
  BY <1>1, AgedTyped DEF Typed
<1>3. OnlyWatchdog'
  BY <1>1 DEF Parked, OnlyWatchdog
<1>4. OneFrame'
  <2>1. \A x, y \in Flying' : x = y
    BY <1>2 DEF Parked, OneFrame, Flying
  <2>2. (requests \cap syncs = {})'
    BY <1>2 DEF Parked, OneFrame, Flying
  <2>3. ASSUME NEW x \in Flying'
        PROVE  x.seq = pendingSeq' /\ x.age + sleep' = Poll /\ x.age <= MaxDelay
    <3>1. PICK y \in Flying : y.age < MaxDelay /\ x.seq = y.seq /\ x.age = y.age + 1
      BY <1>2, <2>3 DEF Flying
    <3>2. y.age \in Nat /\ y.seq = pendingSeq /\ y.age + sleep = Poll
      BY <3>1 DEF Typed, FrameType, Flying, Parked, OneFrame
    <3> QED BY <1>1, <3>1, <3>2, TimingAssumption
  <2> QED BY <1>1, <2>1, <2>2, <2>3 DEF OneFrame
<1>5. Prepares'
  BY <1>1 DEF Prepares, CallAt
<1>6. Flying' # {} => Flying # {}
  BY <1>2 DEF Flying
<1>7. Measures'
  BY <1>1, <1>6 DEF Parked, Measures, CallAt, Fresh, Idle
<1> QED BY <1>1, <1>3, <1>4, <1>5, <1>7 DEF Parked, PairedRight, SameEpoch

LEMMA ParkedStep ==
  ASSUME MaxDelay < Poll
  PROVE  ParkedInv /\ [Next]_vars => ParkedInv'
<1> SUFFICES ASSUME ParkedInv, [Next]_vars, moves' = 0 PROVE Parked'
  BY TypedStep DEF ParkedInv
<1>1. Typed /\ ~Move
  BY DEF ParkedInv, Typed, Move
<1>2. moves = 0
  BY <1>1 DEF Next, Receives, WatchdogPolls, ForwarderDetects, Sends, StoreEarlyT2, StoreSeq,
     StampFrame, NoBuffer, DetectInSend, SendFrame, StoreT2, MasterReplies, LoseRequest, LoseSync, RxDrop,
     RxSync, RxLoadT2, RxCheckSeq, RxOutlier, RxAccept, RxAdjust, RxRelease, RxFrame, Tick, place, vars
<1>3. Parked
  BY <1>2 DEF ParkedInv
<1>4. CASE WatchdogPolls
  BY <1>1, <1>3, <1>4, PolledParked
<1>5. ASSUME NEW t \in Threads, ForwarderDetects(t) PROVE Parked'
  <2>1. /\ lastQuadrant' = quadrant
        /\ UNCHANGED <<pendingT2, pendingSeq, epoch, calls, quadrant, sleep, requests, syncs, rx,
                       measured>>
    BY <1>3, <1>5 DEF ForwarderDetects, Crossed, Parked, OnlyWatchdog, network
  <2>2. OnlyWatchdog'
    BY <1>3, <2>1 DEF Parked, OnlyWatchdog
  <2>3. OneFrame'
    BY <1>3, <2>1 DEF Parked, OneFrame, Flying
  <2>4. Prepares'
    BY <1>3, <2>1 DEF Parked, Prepares, CallAt, Call, Fresh, Flying
  <2>5. Measures'
    BY <1>3, <2>1 DEF Parked, Measures, CallAt, Call, Fresh, Flying
  <2> QED BY <1>3, <2>1, <2>2, <2>3, <2>4, <2>5 DEF Parked, PairedRight, SameEpoch
<1>6. ASSUME NEW t \in Threads, Sends(t) PROVE Parked'
  BY <1>1, <1>3, <1>6, SentParked
<1>7. CASE (\E q \in RsuQuadrants : MasterReplies(q)) \/ LoseRequest \/ LoseSync \/ RxDrop
  <2>1. /\ Flying' \subseteq Flying /\ (requests \cap syncs = {})'
        /\ UNCHANGED <<pendingT2, pendingSeq, epoch, calls, quadrant, lastQuadrant, sleep, rx, measured>>
    BY <1>3, <1>7 DEF MasterReplies, LoseRequest, LoseSync, RxDrop, Flying, Parked, OneFrame, slave, timers,
       place
  <2> QED BY <1>3, <2>1, FewerFrames
<1>8. CASE RxSync \/ Receives
  BY <1>1, <1>3, <1>8, ReceivedParked
<1>9. CASE Tick
  BY <1>1, <1>3, <1>9, TickedParked
<1>10. CASE UNCHANGED vars
  <2>1. /\ Flying' \subseteq Flying /\ (requests \cap syncs = {})'
        /\ UNCHANGED <<pendingT2, pendingSeq, epoch, calls, quadrant, lastQuadrant, sleep, rx, measured>>
    BY <1>3, <1>10 DEF vars, Flying, Parked, OneFrame
  <2> QED BY <1>3, <2>1, FewerFrames
<1> QED BY <1>1, <1>4, <1>5, <1>6, <1>7, <1>8, <1>9, <1>10 DEF Next

\* Every measurement of a vehicle that stays in its quadrant is made with the t2 of the
\* request that was answered, taken since the last step of the clock, provided that a request
\* and its SYNC are on their way for less than the watchdog sleeps between two polls.
THEOREM ParkedMeasuresRight ==
  ASSUME MaxDelay < Poll
  PROVE  Spec => []RightWhileParked
<1>1. Init => ParkedInv
  <2> SUFFICES ASSUME Init PROVE ParkedInv
    OBVIOUS
  <2>1. Typed
    BY StampTyped, TimingAssumption DEF Init, Typed
  <2>2. calls[Watchdog] = << >> /\ \A t \in Threads : calls[t] = << >>
    BY DEF Init, Threads
  <2>3. OnlyWatchdog /\ OneFrame /\ Prepares /\ Measures
    BY <2>2 DEF Init, OnlyWatchdog, OneFrame, Prepares, Measures, CallAt, Flying, Idle
  <2>4. PairedRight /\ SameEpoch
    BY DEF Init, PairedRight, SameEpoch, NothingMeasured
  <2> QED BY <2>1, <2>3, <2>4 DEF ParkedInv, Parked
<1>2. ParkedInv => RightWhileParked
  BY DEF ParkedInv, Parked, RightWhileParked
<1> QED BY <1>1, <1>2, ParkedStep, PTL DEF Spec

-----------------------------------------------------------------------------
(* The stamps drawn from the clock, for any number of threads. *)

CONSTANTS Stampers, Readings, MaxStamps
VARIABLES last, pc, now, prev

Clock == INSTANCE MonotonicStamp WITH Threads <- Stampers

\* The atomic holds the largest stamp returned so far.
LastIsLargest == \A i \in 1 .. Len(stamps) : stamps[i].ts <= last

StampInv == Clock!TypeOK /\ StrictlyIncreasing /\ LastIsLargest /\ NeverBehindReading

\* A stamp is larger than what the call saw and not behind the clock it read.
LEMMA NextStampLater ==
  \A r, s \in Int : /\ Clock!NextStamp(r, s) \in Int
                    /\ Clock!NextStamp(r, s) > s /\ Clock!NextStamp(r, s) >= r
  BY DEF Clock!NextStamp

\* The invariant holds initially.
LEMMA StampInit == Clock!Init => StampInv
  BY DEF Clock!Init, StampInv, Clock!TypeOK, StrictlyIncreasing, LastIsLargest, NeverBehindReading

\* The invariant is inductive: a successful exchange proves that nobody drew a
\* stamp since the value it builds on was read.
LEMMA StampStep ==
  ASSUME Readings \subseteq Int
  PROVE  StampInv /\ [Clock!Next]_(Clock!vars) => StampInv'
<1> SUFFICES ASSUME StampInv, [Clock!Next]_(Clock!vars) PROVE StampInv'
  OBVIOUS
<1> USE DEF StampInv
<1>1. ASSUME UNCHANGED <<last, stamps>>, Clock!TypeOK' PROVE StampInv'
  BY <1>1 DEF StrictlyIncreasing, LastIsLargest, NeverBehindReading
<1>2. ASSUME NEW t \in Stampers, Clock!ReadClock(t) \/ Clock!Load(t) \/ Clock!Retry(t) PROVE StampInv'
  <2>1. Clock!TypeOK'
    BY <1>2 DEF Clock!ReadClock, Clock!Load, Clock!Retry, Clock!TypeOK
  <2> QED BY <1>1, <1>2, <2>1 DEF Clock!ReadClock, Clock!Load, Clock!Retry
<1>3. ASSUME NEW t \in Stampers, Clock!Exchange(t) PROVE StampInv'
  <2> DEFINE ts == Clock!NextStamp(now[t], prev[t])
             new == [thread |-> t, reading |-> now[t], ts |-> ts]
  <2>1. ts \in Int /\ ts > last /\ ts >= now[t]
    BY <1>3, NextStampLater DEF Clock!Exchange, Clock!TypeOK
  <2>2. last' = ts /\ stamps' = Append(stamps, new)
        /\ new \in [thread : Stampers, reading : Int, ts : Int]
    BY <1>3, <2>1 DEF Clock!Exchange, Clock!TypeOK
  <2>3. new.ts = ts /\ new.reading = now[t]
    OBVIOUS
  <2> HIDE DEF ts, new
  <2>4. Clock!TypeOK'
    <3>1. stamps' \in Seq([thread : Stampers, reading : Int, ts : Int])
      BY <2>2 DEF Clock!TypeOK
    <3> QED BY <1>3, <2>1, <2>2, <3>1 DEF Clock!Exchange, Clock!TypeOK
  <2>5. /\ Len(stamps') = Len(stamps) + 1 /\ Len(stamps) \in Nat
        /\ stamps'[Len(stamps) + 1] = new
        /\ \A i \in 1 .. Len(stamps) : stamps'[i] = stamps[i]
    BY <2>2 DEF Clock!TypeOK
  <2>6. \A i \in 1 .. Len(stamps) : stamps[i].ts \in Int /\ stamps[i].ts < ts
    <3> SUFFICES ASSUME NEW i \in 1 .. Len(stamps)
                 PROVE  stamps[i].ts \in Int /\ stamps[i].ts < ts
      OBVIOUS
    <3>1. stamps[i].ts \in Int
      <4> DEFINE Entry == [thread : Stampers, reading : Int, ts : Int]
      <4>1. \A e \in Entry : e.ts \in Int
        OBVIOUS
      <4>2. stamps \in Seq(Entry)
        BY DEF Clock!TypeOK
      <4> HIDE DEF Entry
      <4>3. stamps[i] \in Entry
        BY <4>2
      <4> QED BY <4>1, <4>3
    <3>2. stamps[i].ts <= last /\ last \in Int
      BY DEF LastIsLargest, Clock!TypeOK
    <3> QED BY <2>1, <3>1, <3>2
  <2>7. StrictlyIncreasing'
    BY <2>3, <2>5, <2>6 DEF StrictlyIncreasing
  <2>8. LastIsLargest'
    BY <2>1, <2>2, <2>3, <2>5, <2>6 DEF LastIsLargest
  <2>9. NeverBehindReading'
    BY <2>1, <2>3, <2>5 DEF NeverBehindReading
  <2> QED BY <2>4, <2>7, <2>8, <2>9
<1>4. CASE UNCHANGED Clock!vars
  BY <1>1, <1>4 DEF Clock!vars, Clock!TypeOK
<1> QED BY <1>2, <1>3, <1>4 DEF Clock!Next, Clock!Finished

\* clock.h:20: message timestamps of a process are unique and follow real time, and none is
\* behind the reading it was made from, whatever the clock may be set to.
THEOREM StampsUnique ==
  ASSUME Readings \subseteq Int
  PROVE  Clock!Spec => [](Clock!TypeOK /\ StrictlyIncreasing /\ NeverBehindReading)
<1>1. StampInv => Clock!TypeOK /\ StrictlyIncreasing /\ NeverBehindReading
  BY DEF StampInv
<1> QED BY <1>1, StampInit, StampStep, PTL DEF Clock!Spec
=============================================================================
