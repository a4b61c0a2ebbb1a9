---------------------------- MODULE QuadrantsProofs ----------------------------
(***************************************************************************)
(* That every change of quadrant is answered, and how often, for any       *)
(* number of sending threads, any interval and any number of moves: the    *)
(* proofs use nothing of the time a send takes.                            *)
(***************************************************************************)
EXTENDS Quadrants, FiniteSetTheorems, TLAPS

Asking(t) == sends[t].at = "request"
Holding(t) == sends[t].at = "detect"
SendType == [at : {"idle", "request", "detect"}, quad : Quadrants \cup {Unknown}, late : BOOLEAN]

-----------------------------------------------------------------------------
(* Types, and what each step does to the sends in progress. *)

\* A send that is to make its exchange holds a real quadrant, and no exchange happens
\* before the first sample.
Typed ==
  /\ TypeOK
  /\ moves \in Nat
  /\ \A t \in Senders : Holding(t) => sends[t].quad \in Quadrants
  /\ sampled = Unknown => lastQuadrant = Unknown /\ \A t \in Senders : ~Holding(t)

LEMMA Advances ==
  ASSUME TypeOK, moves \in Nat, Advance
  PROVE  /\ quadrant' \in Quadrants /\ stay' \in 0 .. Interval /\ fixed' = fixed
         /\ (moves' = moves /\ quadrant' = quadrant) \/ moves' = moves + 1
<1>1. CASE UNCHANGED gps
  BY <1>1 DEF gps, TypeOK
<1>2. CASE quadrant' \in Neighbours(quadrant) /\ moves' = moves + 1 /\ stay' = 0 /\ fixed' = fixed
  <2>1. quadrant' \in Quadrants
    BY <1>2 DEF Neighbours, Quadrants, TypeOK
  <2> QED BY <1>2, <2>1, TimingAssumption
<1> QED BY <1>1, <1>2 DEF Advance

LEMMA Asks ==
  ASSUME Typed, NEW t \in Senders, NEW from, Ask(t, from)
  PROVE  /\ sends[t].at = from /\ sampled' = quadrant'
         /\ quadrant' \in Quadrants /\ stay' \in 0 .. Interval /\ fixed' = fixed
         /\ (moves' = moves /\ quadrant' = quadrant) \/ moves' = moves + 1
         /\ sends' \in [Senders -> SendType]
         /\ sends'[t].at = "detect" /\ sends'[t].quad = quadrant'
         /\ \A u \in Senders : u # t => sends'[u] = sends[u]
         /\ due' \in BOOLEAN /\ UNCHANGED <<phase, master, lastQuadrant, resyncs>>
<1>1. [at |-> "detect", quad |-> quadrant', late |-> FALSE] \in SendType
  BY Advances DEF Ask, Typed, SendType
<1>2. due' \in BOOLEAN
  BY DEF Ask
<1>3. sends \in [Senders -> SendType]
  BY DEF Typed, TypeOK, SendType
<1> QED BY <1>1, <1>2, <1>3, Advances DEF Ask, Typed

LEMMA Detects ==
  ASSUME Typed, NEW t \in Senders, Detect(t)
  PROVE  /\ Holding(t) /\ lastQuadrant' = sends[t].quad /\ sends[t].quad \in Quadrants
         /\ \/ Noticed(t, lastQuadrant) /\ sends'[t] = Request /\ resyncs' = resyncs + 1
            \/ ~Noticed(t, lastQuadrant) /\ sends'[t] = Idle /\ resyncs' = resyncs
         /\ sends' \in [Senders -> SendType]
         /\ \A u \in Senders : u # t => sends'[u] = sends[u]
         /\ UNCHANGED <<gps, phase, master, sampled, due>>
<1>1. Idle \in SendType /\ Request \in SendType
  BY DEF Idle, Request, SendType
<1>2. sends \in [Senders -> SendType]
  BY DEF Typed, TypeOK, SendType
<1> QED BY <1>1, <1>2 DEF Detect, Typed, Holding

LEMMA Ticks ==
  ASSUME Typed, Tick
  PROVE  /\ sends' \in [Senders -> SendType] /\ stay' \in 0 .. Interval
         /\ \A t \in Senders : sends'[t].at = sends[t].at /\ sends'[t].quad = sends[t].quad
         /\ UNCHANGED <<quadrant, fixed, moves, master, phase, lastQuadrant, sampled, due, resyncs>>
<1>1. sends \in [Senders -> SendType]
  BY DEF Typed, TypeOK, SendType
<1>2. \A t \in Senders : /\ sends'[t] \in SendType
                         /\ sends'[t].at = sends[t].at /\ sends'[t].quad = sends[t].quad
  BY <1>1 DEF Tick, SendType
<1>3. sends' \in [Senders -> SendType]
  <2>1. sends' = [t \in Senders |-> sends'[t]]
    BY DEF Tick
  <2> QED BY <1>2, <2>1
<1>4. stay' \in 0 .. Interval
  BY TimingAssumption DEF Tick, Typed, TypeOK
<1> QED BY <1>2, <1>3, <1>4 DEF Tick

LEMMA Synced ==
  ASSUME Typed, EnableSync
  PROVE  /\ phase = "hooked" /\ phase' = "synced" /\ fixed' = master
         /\ sends' \in [Senders -> SendType]
         /\ \A t \in Senders : sends'[t] = sends[t] \/ sends'[t] = Request
         /\ ~master => sends'[Watchdog] = Request
         /\ UNCHANGED <<quadrant, stay, moves, master, lastQuadrant, sampled, due, resyncs>>
<1>1. Request \in SendType
  BY DEF Request, SendType
<1>2. sends \in [Senders -> SendType]
  BY DEF Typed, TypeOK, SendType
<1> QED BY <1>1, <1>2, SendersAssumption DEF EnableSync

LEMMA TypedInit == Init => Typed
<1> SUFFICES ASSUME Init PROVE Typed
  OBVIOUS
<1>1. Idle \in SendType /\ Idle.at = "idle"
  BY DEF Idle, SendType
<1>2. sends \in [Senders -> SendType] /\ \A t \in Senders : ~Holding(t)
  BY <1>1 DEF Init, Holding
<1> QED BY <1>2 DEF Init, Typed, TypeOK, SendType

LEMMA TypedStep == Typed /\ [Next]_vars => Typed'
<1> SUFFICES ASSUME Typed, [Next]_vars PROVE Typed'
  OBVIOUS
<1>1. ASSUME NEW t \in Senders, NEW from, Ask(t, from) PROVE Typed'
  <2>1. sampled' # Unknown
    BY <1>1, Asks, UnknownAssumption
  <2>2. \A u \in Senders : Holding(u)' => sends'[u].quad \in Quadrants
    BY <1>1, Asks DEF Typed, Holding
  <2>3. TypeOK' /\ moves' \in Nat
    BY <1>1, Asks DEF Typed, TypeOK, SendType
  <2> QED BY <2>1, <2>2, <2>3 DEF Typed
<1>2. ASSUME NEW t \in Senders, Detect(t) PROVE Typed'
  <2>1. \A u \in Senders : Holding(u)' => Holding(u) /\ sends'[u] = sends[u]
    BY <1>2, Detects DEF Holding, Request, Idle
  <2>2. TypeOK' /\ moves' \in Nat
    BY <1>2, Detects DEF Typed, TypeOK, SendType, gps
  <2> QED BY <1>2, <2>1, <2>2, Detects DEF Typed
<1>3. CASE Filter
  <2>1. TypeOK' /\ moves' \in Nat
    BY <1>3, Advances DEF Filter, Typed, TypeOK
  <2> QED BY <1>3, <2>1 DEF Filter, Typed, Holding
<1>4. CASE Tick
  <2>1. TypeOK' /\ moves' \in Nat
    BY <1>4, Ticks DEF Typed, TypeOK, SendType
  <2> QED BY <1>4, <2>1, Ticks DEF Typed, Holding
<1>5. CASE InstallHooks
  BY <1>5 DEF InstallHooks, gps, Typed, TypeOK, Holding
<1>6. CASE EnableSync
  <2>1. TypeOK' /\ moves' \in Nat
    BY <1>6, Synced DEF Typed, TypeOK, SendType
  <2>2. \A u \in Senders : Holding(u)' => Holding(u) /\ sends'[u] = sends[u]
    BY <1>6, Synced DEF Holding, Request
  <2> QED BY <1>6, <2>1, <2>2, Synced DEF Typed
<1>7. CASE UNCHANGED vars
  BY <1>7 DEF vars, Typed, TypeOK, Holding
<1> QED BY <1>1, <1>2, <1>3, <1>4, <1>5, <1>6, <1>7 DEF Next, SendFrame, SendRequest

-----------------------------------------------------------------------------
(* No change is missed, and what is compared with next is the latest. *)

\* A request of SPTP is due to be sent; the quadrants that the next exchange, or a later
\* one of those in progress, compares with.
Requested == \E t \in Senders : Asking(t)
InUse == {q \in Quadrants \cup {Unknown} :
            lastQuadrant = q \/ \E t \in Senders : Holding(t) /\ sends[t].quad = q}

\* What was sampled last is compared with sooner or later, and while a change is due two
\* different quadrants are about, so that one of the exchanges notices a difference.
Answered ==
  /\ due => phase = "synced" /\ ~master
  /\ phase = "synced" /\ ~master => Requested \/ sampled \in InUse
  /\ due => Requested \/ \E x, y \in InUse \ {Unknown} : x # y

LEMMA AnsweredInit == Init => Answered
  BY DEF Init, Answered

LEMMA AnsweredStep == Typed /\ Answered /\ [Next]_vars => Answered'
<1> SUFFICES ASSUME Typed, Answered, [Next]_vars PROVE Answered'
  OBVIOUS
<1>1. ASSUME NEW t \in Senders, NEW from \in {"idle", "request"}, Ask(t, from) PROVE Answered'
  <2>1. (sampled \in InUse)'
    BY <1>1, Asks DEF InUse, Holding
  <2>2. CASE ~due'
    BY <2>1, <2>2 DEF Answered
  <2>3. CASE due'
    <3>1. /\ sends[t].at = "idle" /\ phase = "synced" /\ ~master
          /\ due \/ sampled \notin {Unknown, quadrant'}
      BY <1>1, <2>3, Asks DEF Ask
    <3>2. CASE Requested
      <4>1. Requested'
        BY <1>1, <3>1, <3>2, Asks DEF Requested, Asking
      <4> QED BY <1>1, <2>1, <3>1, <4>1, Asks DEF Answered
    <3>3. CASE ~Requested
      <4>1. InUse \subseteq InUse'
        BY <1>1, <3>1, Asks DEF InUse, Holding
      <4>2. sampled \in InUse
        BY <3>1, <3>3 DEF Answered
      <4>3. \E x, y \in InUse' \ {Unknown} : x # y
        <5>1. CASE due
          BY <3>3, <4>1, <5>1 DEF Answered
        <5>2. CASE sampled \notin {Unknown, quadrant'}
          BY <1>1, <2>1, <4>1, <4>2, <5>2, UnknownAssumption, Asks
        <5> QED BY <3>1, <5>1, <5>2
      <4> QED BY <1>1, <2>1, <3>1, <4>3, Asks DEF Answered
    <3> QED BY <3>2, <3>3
  <2> QED BY <2>2, <2>3
<1>2. ASSUME NEW t \in Senders, Detect(t) PROVE Answered'
  <2>1. /\ Requested => Requested'
        /\ sends[t].at = "detect"
    BY <1>2, Detects DEF Requested, Asking, Holding
  <2>2. CASE Noticed(t, lastQuadrant)
    <3>1. Requested' /\ phase = "synced" /\ ~master
      BY <1>2, <2>2, Detects DEF Requested, Asking, Request, Noticed
    <3> QED BY <1>2, <3>1, Detects DEF Answered
  <2>3. CASE ~Noticed(t, lastQuadrant) /\ phase = "synced" /\ ~master
    <3>1. lastQuadrant \in {Unknown, sends[t].quad}
      BY <2>3 DEF Noticed
    <3>2. InUse \ {Unknown} \subseteq InUse'
      <4> SUFFICES ASSUME NEW q \in InUse, q # Unknown PROVE q \in InUse'
        OBVIOUS
      <4>1. CASE q = sends[t].quad
        BY <1>2, <4>1, Detects DEF InUse
      <4>2. CASE q # sends[t].quad
        <5>1. PICK u \in Senders : u # t /\ Holding(u) /\ sends[u].quad = q
          BY <3>1, <4>2 DEF InUse
        <5>2. Holding(u)' /\ sends'[u].quad = q
          BY <1>2, <5>1, Detects DEF Holding
        <5> QED BY <5>2 DEF InUse
      <4> QED BY <4>1, <4>2
    <3>3. sampled # Unknown /\ sampled' = sampled
      BY <1>2, Detects DEF Typed
    <3>4. Requested' \/ sampled' \in InUse'
      BY <2>1, <2>3, <3>2, <3>3 DEF Answered
    <3>5. due' => Requested' \/ \E x, y \in InUse' \ {Unknown} : x # y
      BY <1>2, <2>1, <3>2, Detects DEF Answered
    <3> QED BY <1>2, <2>3, <3>4, <3>5, Detects DEF Answered
  <2>4. CASE ~(phase = "synced" /\ ~master)
    BY <1>2, <2>4, Detects DEF Answered
  <2> QED BY <2>2, <2>3, <2>4
<1>3. ASSUME UNCHANGED <<master, lastQuadrant, sampled, due>>,
             phase' = phase \/ (phase # "synced" /\ phase' # "synced"),
             \A t \in Senders : sends'[t].at = sends[t].at /\ sends'[t].quad = sends[t].quad
      PROVE  Answered'
  <2>1. Requested' <=> Requested
    BY <1>3 DEF Requested, Asking
  <2>2. InUse' = InUse
    BY <1>3 DEF InUse, Holding
  <2>3. due => phase' = phase
    BY <1>3 DEF Answered
  <2> QED BY <1>3, <2>1, <2>2, <2>3 DEF Answered
<1>4. CASE Filter
  BY <1>3, <1>4 DEF Filter
<1>5. CASE Tick
  BY <1>3, <1>5, Ticks
<1>6. CASE InstallHooks
  BY <1>3, <1>6 DEF InstallHooks
<1>7. CASE EnableSync
  <2>1. ~master => Requested'
    BY <1>7, Synced, SendersAssumption DEF Requested, Asking, Request
  <2> QED BY <1>7, <2>1, Synced DEF Answered
<1>8. CASE UNCHANGED vars
  BY <1>3, <1>8 DEF vars
<1> QED BY <1>1, <1>2, <1>4, <1>5, <1>6, <1>7, <1>8 DEF Next, SendFrame, SendRequest

\* Whatever threads send, however their exchanges overtake each other and whenever the
\* vehicle moves, a change of quadrant is never left without a request of SPTP
\* (NIC::detect_quadrant_change, Protocol's quadrant-change handler).
THEOREM EveryChangeAnswered == Spec => []NoMissedChange
<1>1. Typed /\ Answered => NoMissedChange
  <2> SUFFICES ASSUME Typed, Answered, \A t \in Senders : sends[t] = Idle, due PROVE FALSE
    BY DEF NoMissedChange
  <2>1. ~Requested /\ InUse \subseteq {lastQuadrant}
    BY DEF Requested, Asking, InUse, Holding, Idle
  <2> QED BY <2>1 DEF Answered
<1> QED BY <1>1, TypedInit, TypedStep, AnsweredInit, AnsweredStep, PTL DEF Spec

\* And then what the next frame is compared with is where the last frame was sent from,
\* also if the exchanges of two threads were made in the wrong order.
THEOREM LatestCompared == Spec => []LastIsLatest
<1>1. Typed /\ Answered => LastIsLatest
  <2> SUFFICES ASSUME Typed, Answered, phase = "synced", ~master, \A t \in Senders : sends[t] = Idle
               PROVE  lastQuadrant = sampled
    BY DEF LastIsLatest
  <2>1. ~Requested /\ InUse \subseteq {lastQuadrant}
    BY DEF Requested, Asking, InUse, Holding, Idle
  <2> QED BY <2>1 DEF Answered
<1> QED BY <1>1, TypedInit, TypedStep, AnsweredInit, AnsweredStep, PTL DEF Spec

-----------------------------------------------------------------------------
(* How many requests a move costs. *)

\* The sends that are to exchange a quadrant that is not the vehicle's any more.
Stale == {t \in Senders : Holding(t) /\ sends[t].quad # quadrant}
\* What the next exchange compares with is one, too.
Misled == lastQuadrant \notin {Unknown, quadrant}
\* No send in progress would notice a difference.
Alike == \A t \in Senders : lastQuadrant \in {Unknown, sends[t].quad}

\* The requests that may still follow without another move.  A stale send costs one when
\* it is exchanged and one when its own request repairs it, and whoever comes first to a
\* stale _last_quadrant one more; but if all threads are stale, then the first of them
\* finds nothing to repair.
Owed ==
  IF Stale = Senders
  THEN IF Alike THEN 2 * Cardinality(Senders) - 1 ELSE 2 * Cardinality(Senders)
  ELSE IF Misled THEN 2 * Cardinality(Stale) + 1 ELSE 2 * Cardinality(Stale)

PerMove == 2 * Cardinality(Senders) - 1
Paid == resyncs + Owed <= moves * PerMove

LEMMA Counts ==
  /\ Cardinality(Senders) \in Nat \ {0} /\ PerMove \in Nat
  /\ IsFiniteSet(Stale) /\ Cardinality(Stale) \in Nat
  /\ Cardinality(Stale) <= Cardinality(Senders)
  /\ Stale # Senders => Cardinality(Stale) < Cardinality(Senders)
  /\ Cardinality(Stale) = 0 => Stale = {}
<1>1. Cardinality(Senders) \in Nat /\ Cardinality(Senders) # 0
  BY SendersAssumption, FS_CardinalityType, FS_EmptySet
<1>2. /\ IsFiniteSet(Stale) /\ Cardinality(Stale) <= Cardinality(Senders)
      /\ Cardinality(Senders) = Cardinality(Stale) => Senders = Stale
  BY SendersAssumption, FS_Subset DEF Stale
<1>3. Cardinality(Stale) \in Nat /\ (Cardinality(Stale) = 0 => Stale = {})
  BY <1>2, FS_CardinalityType, FS_EmptySet
<1> QED BY <1>1, <1>2, <1>3 DEF PerMove

OwedBounded ==
  /\ Owed \in Nat
  /\ Owed <= PerMove + 1 /\ (Stale # Senders => Owed <= PerMove)
  /\ Stale # Senders => 2 * Cardinality(Stale) <= Owed
  /\ Owed = 0 => Stale = {} /\ ~Misled /\ Stale # Senders

LEMMA OwedBounds == OwedBounded
<1> DEFINE n == Cardinality(Stale)
           s == Cardinality(Senders)
<1>0. /\ s \in Nat \ {0} /\ n \in Nat /\ n <= s /\ (Stale # Senders => n < s)
      /\ n = 0 => Stale = {}
  BY Counts
<1>1. CASE Stale = Senders
  <2>1. Owed = 2 * s - 1 \/ Owed = 2 * s
    BY <1>1 DEF Owed
  <2> HIDE DEF n, s
  <2> QED BY <1>0, <1>1, <2>1 DEF PerMove, s, OwedBounded
<1>2. CASE Stale # Senders
  <2>1. Owed = IF Misled THEN 2 * n + 1 ELSE 2 * n
    BY <1>2 DEF Owed
  <2> HIDE DEF n
  <2>2. n < s /\ PerMove = 2 * s - 1
    BY <1>0, <1>2 DEF PerMove
  <2> HIDE DEF s
  <2>3. CASE Misled
    BY <1>0, <1>2, <2>1, <2>2, <2>3 DEF n, OwedBounded
  <2>4. CASE ~Misled
    BY <1>0, <1>2, <2>1, <2>2, <2>4 DEF n, OwedBounded
  <2> QED BY <2>3, <2>4
<1> QED BY <1>1, <1>2

LEMMA OwedBoundsNext == OwedBounded'
  BY OwedBounds, PTL

\* One more move pays for what it makes stale.
LEMMA OneMoveMore ==
  ASSUME NEW m \in Nat, NEW k \in Nat PROVE (m + 1) * k = m * k + k /\ m * k \in Nat
  OBVIOUS

LEMMA SumStaysBelow ==
  ASSUME NEW r0 \in Nat, NEW o0 \in Nat, NEW r1 \in Nat, NEW o1 \in Nat, NEW x \in Nat,
         r0 + o0 <= x, r1 + o1 <= r0 + o0
  PROVE  r1 + o1 <= x
  OBVIOUS

LEMMA SumGrows ==
  ASSUME NEW r \in Nat, NEW o0 \in Nat, NEW o1 \in Nat, NEW x \in Nat, NEW k \in Nat,
         r + o0 <= x, o1 <= o0 + k
  PROVE  r + o1 <= x + k
  OBVIOUS

LEMMA PaidInit == Init => Paid
<1> SUFFICES ASSUME Init PROVE Paid
  OBVIOUS
<1>1. Stale = {} /\ ~Misled
  BY DEF Init, Idle, Holding, Stale, Misled
<1>2. Owed = 0
  BY <1>1, SendersAssumption, FS_EmptySet DEF Owed
<1>3. resyncs = 0 /\ moves = 0 /\ PerMove \in Nat
  BY Counts DEF Init
<1> QED BY <1>2, <1>3 DEF Paid

LEMMA PaidStep == Typed /\ Paid /\ [Next]_vars => Paid'
<1> SUFFICES ASSUME Typed, Paid, [Next]_vars PROVE Paid'
  OBVIOUS
<1>0. /\ Owed \in Nat /\ Owed' \in Nat /\ PerMove \in Nat /\ PerMove' = PerMove
      /\ resyncs \in Nat /\ moves \in Nat
  BY OwedBounds, OwedBoundsNext, Counts DEF OwedBounded, Typed, TypeOK, PerMove
<1>1. ASSUME moves' = moves, resyncs' + Owed' <= resyncs + Owed, resyncs' \in Nat PROVE Paid'
  <2>1. \A x \in Nat : resyncs + Owed <= x => resyncs' + Owed' <= x
    BY <1>0, <1>1, SumStaysBelow
  <2>2. moves * PerMove \in Nat /\ moves' * PerMove' = moves * PerMove
    BY <1>0, <1>1, OneMoveMore
  <2> QED BY <2>1, <2>2 DEF Paid
<1>2. ASSUME moves' = moves + 1, resyncs' = resyncs, Owed' <= Owed + PerMove PROVE Paid'
  <2>1. \A x \in Nat : resyncs + Owed <= x => resyncs' + Owed' <= x + PerMove
    BY <1>0, <1>2, SumGrows
  <2>2. moves * PerMove \in Nat /\ moves' * PerMove' = moves * PerMove + PerMove
    BY <1>0, <1>2, OneMoveMore
  <2> QED BY <2>1, <2>2 DEF Paid
<1>3. ASSUME NEW t \in Senders, NEW from \in {"idle", "request"}, Ask(t, from) PROVE Paid'
  <2>1. t \notin Stale' /\ t \notin Stale
    BY <1>3, Asks DEF Stale, Holding
  <2>2. CASE moves' = moves /\ quadrant' = quadrant
    <3>1. Stale' = Stale
      BY <1>3, <2>1, <2>2, Asks DEF Stale, Holding
    <3>2. Misled' <=> Misled
      BY <1>3, <2>2, Asks DEF Misled
    <3>3. Owed' = Owed
      BY <2>1, <3>1, <3>2 DEF Owed
    <3> QED BY <1>0, <1>1, <1>3, <2>2, <3>3, Asks
  <2>3. CASE moves' = moves + 1
    <3>1. Owed' <= PerMove
      BY <1>0, <2>1, OwedBoundsNext DEF OwedBounded
    <3> QED BY <1>0, <1>2, <1>3, <2>3, <3>1, Asks
  <2> QED BY <1>3, <2>2, <2>3, Asks
<1>4. ASSUME NEW t \in Senders, Detect(t) PROVE Paid'
  <2> DEFINE n == Cardinality(Stale)
  <2>0. /\ quadrant' = quadrant /\ moves' = moves /\ lastQuadrant' = sends[t].quad
        /\ resyncs' \in Nat /\ (resyncs' = resyncs \/ resyncs' = resyncs + 1)
        /\ resyncs' = resyncs + 1 => lastQuadrant \notin {Unknown, sends[t].quad}
        /\ t \notin Stale' /\ \A u \in Senders \ {t} : u \in Stale' <=> u \in Stale
        /\ sends[t].quad \in Quadrants
    BY <1>0, <1>4, Detects DEF gps, Noticed, Stale, Holding, Request, Idle
  <2>1. Stale' = Stale \ {t} /\ Stale' # Senders
    BY <2>0 DEF Stale
  <2>2. CASE t \notin Stale
    <3>1. Stale' = Stale /\ sends[t].quad = quadrant
      BY <1>4, <2>1, <2>2, Detects DEF Stale
    <3>2. ~Misled' /\ Owed' = 2 * n
      BY <2>0, <2>1, <3>1 DEF Misled, Owed
    <3>3. CASE resyncs' = resyncs
      BY <1>0, <1>1, <2>0, <2>1, <3>1, <3>2, <3>3, OwedBounds DEF OwedBounded
    <3>4. CASE resyncs' = resyncs + 1
      <4>1. Misled
        BY <2>0, <3>1, <3>4 DEF Misled
      <4>2. Owed = 2 * n + 1 /\ n \in Nat
        BY <2>1, <3>1, <4>1, Counts DEF Owed
      <4> QED BY <1>0, <1>1, <2>0, <3>2, <3>4, <4>2
    <3> QED BY <2>0, <3>3, <3>4
  <2>3. CASE t \in Stale
    <3>1. Cardinality(Stale') = n - 1 /\ n \in Nat
      BY <2>1, <2>3, Counts, FS_RemoveElement
    <3>2. Misled'
      BY <2>0, <2>3, UnknownAssumption DEF Misled, Stale
    <3>3. Owed' = 2 * (n - 1) + 1
      BY <2>1, <3>1, <3>2 DEF Owed
    <3>4. CASE Stale # Senders
      <4>1. 2 * n <= Owed
        BY <3>4, OwedBounds DEF OwedBounded
      <4> QED BY <1>0, <1>1, <2>0, <3>1, <3>3, <4>1
    <3>5. CASE Stale = Senders
      <4>1. n = Cardinality(Senders)
        BY <3>5
      <4>2. CASE Alike
        <5>1. Owed = 2 * n - 1 /\ resyncs' = resyncs
          BY <2>0, <3>5, <4>1, <4>2 DEF Owed, Alike
        <5> QED BY <1>0, <1>1, <2>0, <3>1, <3>3, <5>1
      <4>3. CASE ~Alike
        <5>1. Owed = 2 * n
          BY <3>5, <4>1, <4>3 DEF Owed
        <5> QED BY <1>0, <1>1, <2>0, <3>1, <3>3, <5>1
      <4> QED BY <4>2, <4>3
    <3> QED BY <3>4, <3>5
  <2> QED BY <2>2, <2>3
<1>5. ASSUME quadrant' = quadrant, moves' = moves, lastQuadrant' = lastQuadrant, resyncs' = resyncs,
             \A t \in Senders : /\ Holding(t)' <=> Holding(t)
                                /\ Holding(t) => sends'[t].quad = sends[t].quad
      PROVE  Paid'
  <2>1. Stale' = Stale /\ (Misled' <=> Misled)
    BY <1>5 DEF Stale, Misled
  <2>2. Stale = Senders => (Alike' <=> Alike)
    BY <1>5 DEF Alike, Stale
  <2>3. Owed' = Owed
    BY <2>1, <2>2 DEF Owed
  <2> QED BY <1>0, <1>1, <1>5, <2>3
<1>6. CASE Filter
  <2>1. (moves' = moves /\ quadrant' = quadrant) \/ moves' = moves + 1
    BY <1>6, Advances DEF Filter, Typed
  <2>2. CASE moves' = moves /\ quadrant' = quadrant
    BY <1>5, <1>6, <2>2 DEF Filter, Holding
  <2>3. CASE moves' = moves + 1
    <3>1. CASE Owed >= 1
      BY <1>0, <1>2, <1>6, <2>3, <3>1, OwedBoundsNext DEF OwedBounded, Filter
    <3>2. CASE Owed = 0 /\ Stale' # Senders
      BY <1>0, <1>2, <1>6, <2>3, <3>2, OwedBoundsNext DEF OwedBounded, Filter
    <3>3. CASE Owed = 0 /\ Stale' = Senders
      <4>1. Stale = {} /\ ~Misled
        BY <3>3, OwedBounds DEF OwedBounded
      <4>2. \A t \in Senders : Holding(t) /\ sends'[t] = sends[t]
        BY <1>6, <3>3 DEF Stale, Holding, Filter
      <4>3. Alike'
        BY <1>6, <4>1, <4>2 DEF Stale, Misled, Alike, Filter
      <4>4. Owed' = PerMove
        BY <3>3, <4>3 DEF Owed, PerMove
      <4> QED BY <1>0, <1>2, <1>6, <2>3, <4>4 DEF Filter
    <3> QED BY <1>0, <3>1, <3>2, <3>3
  <2> QED BY <2>1, <2>2, <2>3
<1>7. CASE Tick
  BY <1>5, <1>7, Ticks DEF Holding
<1>8. CASE InstallHooks
  BY <1>5, <1>8 DEF InstallHooks, gps, Holding
<1>9. CASE EnableSync
  <2>1. \A t \in Senders : sends'[t] = sends[t] \/ (~Holding(t) /\ sends'[t] = Request)
    BY <1>9, SendersAssumption DEF EnableSync, Typed, TypeOK, SendType, Holding, Idle
  <2> QED BY <1>5, <1>9, <2>1, Synced DEF Holding, Request
<1>10. CASE UNCHANGED vars
  BY <1>5, <1>10 DEF vars, Holding
<1> QED BY <1>3, <1>4, <1>6, <1>7, <1>8, <1>9, <1>10 DEF Next, SendFrame, SendRequest

\* However many threads send and however their exchanges overtake each other, one move
\* never costs more than two requests for each other thread and one for itself: a request
\* that notices a difference again does not go on for ever
\* (NIC::detect_quadrant_change and SPTP_Protocol::request_resync, which sends).
THEOREM RequestsEnd == Spec => []ResyncsBounded
<1>1. Typed /\ Paid => ResyncsBounded
  <2> SUFFICES ASSUME Typed, Paid PROVE ResyncsBounded
    OBVIOUS
  <2>1. Owed \in Nat /\ resyncs \in Nat /\ moves \in Nat /\ PerMove \in Nat
    BY OwedBounds, Counts DEF OwedBounded, Typed, TypeOK
  <2>2. moves * PerMove \in Nat
    BY <2>1
  <2>3. resyncs <= moves * PerMove
    BY <2>1, <2>2 DEF Paid
  <2> QED BY <2>3 DEF ResyncsBounded, PerMove
<1> QED BY <1>1, TypedInit, TypedStep, PaidInit, PaidStep, PTL DEF Spec
=============================================================================
