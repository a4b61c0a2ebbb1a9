---------------------------- MODULE BindingCache ----------------------------
(***************************************************************************)
(* The producer side of SmartData in one component process: the thread     *)
(* that receives from the shared-memory ring handles interests, disinter-  *)
(* ests and changes of quadrant; Binding_Cache keeps one lease per         *)
(* interested address under _mtx, a reaper drops the leases that ran out,  *)
(* and one Periodic_Thread sends responses while anybody is interested.    *)
(* Whoever leaves the cache without bindings joins that thread, still      *)
(* holding _mtx.                                                           *)
(*                                                                         *)
(* The ring is what FrameChannel promises to its slowest reader: a queue   *)
(* of at most Capacity frames, on which the senders wait.  Time passes in  *)
(* ticks; threads do what they do in less than a tick, unless they are     *)
(* blocked.  A lease is kept as the ticks it has left.                     *)
(***************************************************************************)
EXTENDS Integers, Sequences, FiniteSetsExt

CONSTANTS
  Remote,        \* interested addresses on other vehicles
  Local,         \* interested addresses of components of this vehicle
  Periods,       \* periods they ask for, in ticks
  LifetimeMin,   \* BINDING_LIFETIME_MIN_US, in ticks
  Factor,        \* BINDING_LIFETIME_FACTOR
  ReaperPeriod,  \* REAPER_PERIOD_US, in ticks
  Capacity,      \* SHM::SLOT_COUNT
  Quadrants,     \* quadrants the vehicle may be in
  MaxFrames,     \* bound: frames that others publish
  MaxMoves,      \* bound: changes of quadrant
  MaxSteps       \* bound: steps of one tick that SPTP makes in CLOCK_REALTIME

Addrs == Remote \cup Local

ASSUME PeriodsAssumption == Periods \subseteq Nat \ {0} /\ Periods # {}
ASSUME LeaseAssumption == LifetimeMin \in Nat /\ Factor \in Nat /\ ReaperPeriod \in Nat \ {0}
ASSUME BoundsAssumption == /\ Capacity \in Nat \ {0} /\ MaxFrames \in Nat
                           /\ MaxMoves \in Nat /\ MaxSteps \in Nat

VARIABLES
  bindings,   \* bindings[a]: the lease of address a, or NoLease
  lastQuad,   \* _last_seen_quad
  mutex,      \* who holds _mtx: "free", "rx" or "reaper"
  thread,     \* the Periodic_Thread of the unit, or NoThread
  reaper,     \* ticks until the reaper wakes, and whether it is joining
  rx,         \* the handler that runs on the receiving thread
  ring,       \* frames the receiving thread has not read yet
  age,        \* history: ticks since each address last announced its interest
  quadrant,   \* of the vehicle
  frames, moves, steps  \* bounds used up

vars == <<bindings, lastQuad, mutex, thread, reaper, rx, ring, age, quadrant,
          frames, moves, steps>>
bounds == <<frames, moves, steps>>
outside == <<age, quadrant, bounds>>

-----------------------------------------------------------------------------
NoLease  == [period |-> 0, left |-> 0]
NoThread == [at |-> "none", period |-> 0, stop |-> FALSE]
Response == [kind |-> "response"]
AnyQuad  == "none"  \* the value _last_seen_quad starts with

Life(period) == IF Factor * period < LifetimeMin THEN LifetimeMin ELSE Factor * period

Bound(b) == {a \in Addrs : b[a] # NoLease}
\* The shortest period asked for.
Shortest(b) == Min({b[a].period : a \in Bound(b)})

Init ==
  /\ bindings = [a \in Addrs |-> NoLease]
  /\ lastQuad = AnyQuad
  /\ mutex = "free"
  /\ thread = NoThread
  /\ reaper = [sleep |-> ReaperPeriod, joins |-> FALSE]
  /\ rx = [at |-> "idle"]
  /\ ring = << >>
  /\ age = [a \in Addrs |-> 0]
  /\ quadrant \in Quadrants
  /\ frames = 0 /\ moves = 0 /\ steps = 0

-----------------------------------------------------------------------------
(* Binding_Cache::resync_threads with the bindings b, on behalf of holder:  *)
(* a thread for the unit while somebody is interested, at the shortest      *)
(* period; otherwise it is told to stop and must be joined.                 *)
MustJoin(b) == Bound(b) = {} /\ thread # NoThread

ResyncThreadsNeverStops(b) ==
  thread' = IF Bound(b) = {} THEN thread
            ELSE IF thread = NoThread
                 THEN [at |-> "due", period |-> Shortest(b), stop |-> FALSE]
                 ELSE [thread EXCEPT !.period = Shortest(b)]

ResyncThreads(b) ==
  thread' = IF Bound(b) = {}
            THEN IF thread = NoThread THEN NoThread ELSE [thread EXCEPT !.stop = TRUE]
            ELSE IF thread = NoThread
                 THEN [at |-> "due", period |-> Shortest(b), stop |-> FALSE]
                 ELSE [thread EXCEPT !.period = Shortest(b)]

\* What on_interest and on_disinterest make of the bindings.
AppliedKeepsLease(m) ==
  [bindings EXCEPT ![m.from] =
     IF m.kind = "disinterest" THEN NoLease
     ELSE IF @ # NoLease THEN [@ EXCEPT !.period = m.period]
          ELSE [period |-> m.period, left |-> Life(m.period)]]

Applied(m) ==
  [bindings EXCEPT ![m.from] =
     IF m.kind = "disinterest" THEN NoLease
     ELSE [period |-> m.period, left |-> Life(m.period)]]

-----------------------------------------------------------------------------
(* The receiving thread: SmartData::update. *)

\* read_slot takes the next frame and frees its slot; what is not an interest in the
\* unit is dropped at once.
Receive ==
  /\ rx.at = "idle" /\ ring # << >>
  /\ ring' = Tail(ring)
  /\ rx' = IF Head(ring) = Response THEN rx ELSE [at |-> "quadrant", msg |-> Head(ring)]
  /\ UNCHANGED <<bindings, lastQuad, mutex, thread, reaper, outside>>

\* last = _last_seen_quad.exchange(q)
CompareQuadrant ==
  /\ rx.at = "quadrant"
  /\ lastQuad' = rx.msg.quad
  /\ rx' = [rx EXCEPT !.at = IF lastQuad = rx.msg.quad THEN "apply" ELSE "clear"]
  /\ UNCHANGED <<bindings, mutex, thread, reaper, ring, outside>>

\* _cache->clear(), up to the join
Clear ==
  /\ rx.at = "clear" /\ mutex = "free"
  /\ mutex' = "rx"
  /\ bindings' = [a \in Addrs |-> NoLease]
  /\ thread' = [thread EXCEPT !.stop = thread # NoThread]
  /\ rx' = [rx EXCEPT !.at = "cleared"]
  /\ UNCHANGED <<lastQuad, reaper, ring, outside>>

\* The thread, if there was one, has ended; clear() returns.
Cleared ==
  /\ rx.at = "cleared" /\ thread.at \in {"none", "ended"}
  /\ thread' = NoThread
  /\ mutex' = "free"
  /\ rx' = [rx EXCEPT !.at = "apply"]
  /\ UNCHANGED <<bindings, lastQuad, reaper, ring, outside>>

\* on_interest or on_disinterest, unless it has to join.
Apply ==
  /\ rx.at = "apply" /\ mutex = "free"
  /\ bindings' = Applied(rx.msg)
  /\ ResyncThreads(bindings')
  /\ age' = IF rx.msg.kind = "interest" THEN [age EXCEPT ![rx.msg.from] = 0] ELSE age
  /\ IF MustJoin(bindings')
     THEN mutex' = "rx" /\ rx' = [at |-> "joins"]
     ELSE mutex' = mutex /\ rx' = [at |-> "idle"]
  /\ UNCHANGED <<lastQuad, reaper, ring, quadrant, bounds>>

JoinedUnlocksFirst ==
  /\ rx.at = "joins"
  /\ mutex' = "free"
  /\ rx' = [at |-> "idle"]
  /\ UNCHANGED <<bindings, lastQuad, thread, reaper, ring, outside>>

\* _threads.erase(it) returns when the thread has ended.
Joined ==
  /\ rx.at = "joins" /\ thread.at = "ended"
  /\ thread' = NoThread
  /\ mutex' = "free"
  /\ rx' = [at |-> "idle"]
  /\ UNCHANGED <<bindings, lastQuad, reaper, ring, outside>>

-----------------------------------------------------------------------------
(* The reaper: reap_loop. *)

UnexpiredLate == [a \in Addrs |-> IF bindings[a].left < -1 THEN NoLease ELSE bindings[a]]

\* The bindings without those whose expiry_ns has passed.
Unexpired == [a \in Addrs |-> IF bindings[a].left < 0 THEN NoLease ELSE bindings[a]]

Reap ==
  /\ reaper.sleep = 0 /\ ~reaper.joins /\ mutex = "free"
  /\ bindings' = Unexpired
  /\ ResyncThreads(bindings')
  /\ IF MustJoin(bindings')
     THEN mutex' = "reaper" /\ reaper' = [reaper EXCEPT !.joins = TRUE]
     ELSE mutex' = mutex /\ reaper' = [reaper EXCEPT !.sleep = ReaperPeriod]
  /\ UNCHANGED <<lastQuad, rx, ring, outside>>

ReaperJoinedForgetsMutex ==
  /\ reaper.joins /\ thread.at = "ended"
  /\ thread' = NoThread
  /\ reaper' = [sleep |-> ReaperPeriod, joins |-> FALSE]
  /\ UNCHANGED <<bindings, lastQuad, mutex, rx, ring, outside>>

ReaperJoined ==
  /\ reaper.joins /\ thread.at = "ended"
  /\ thread' = NoThread
  /\ mutex' = "free"
  /\ reaper' = [sleep |-> ReaperPeriod, joins |-> FALSE]
  /\ UNCHANGED <<bindings, lastQuad, rx, ring, outside>>

-----------------------------------------------------------------------------
(* The periodic thread: Periodic_Thread::loop with respond as its job. *)

\* while (_running): the job is due and starts
ThreadStarts ==
  /\ thread.at = "due" /\ ~thread.stop
  /\ thread' = [thread EXCEPT !.at = "responds"]
  /\ UNCHANGED <<bindings, lastQuad, mutex, reaper, rx, ring, outside>>

\* respond: the frame is published once the ring has room for it.
Respond ==
  /\ thread.at = "responds" /\ Len(ring) < Capacity
  /\ ring' = Append(ring, Response)
  /\ thread' = [thread EXCEPT !.at = "sleeps"]
  /\ UNCHANGED <<bindings, lastQuad, mutex, reaper, rx, outside>>

\* _running is FALSE, seen before the job or in a slice of the sleep.
ThreadEnds ==
  /\ thread.at \in {"due", "sleeps"} /\ thread.stop
  /\ thread' = [thread EXCEPT !.at = "ended"]
  /\ UNCHANGED <<bindings, lastQuad, mutex, reaper, rx, ring, outside>>

-----------------------------------------------------------------------------
(* The others. *)

\* An interest from another vehicle carries the quadrant both are in; the NIC of
\* the ring never stamps one, so a local interest carries whatever the buffer held.
Interests ==
  [kind : {"interest"}, from : Remote, period : Periods, quad : {quadrant}]
  \cup [kind : {"disinterest"}, from : Remote, quad : {quadrant}]
  \cup [kind : {"interest"}, from : Local, period : Periods, quad : Quadrants]
  \cup [kind : {"disinterest"}, from : Local, quad : Quadrants]

\* Some process publishes a frame: an interest in the unit or something else.
Publish ==
  /\ frames < MaxFrames /\ Len(ring) < Capacity
  /\ frames' = frames + 1
  /\ \E m \in Interests \cup {Response} : ring' = Append(ring, m)
  /\ UNCHANGED <<bindings, lastQuad, mutex, thread, reaper, rx, age, quadrant, moves, steps>>

Move ==
  /\ moves < MaxMoves
  /\ moves' = moves + 1
  /\ quadrant' \in Quadrants \ {quadrant}
  /\ UNCHANGED <<bindings, lastQuad, mutex, thread, reaper, rx, ring, age, frames, steps>>

\* All leases are n ticks closer to their end.
Elapsed(n) == [a \in Addrs |-> IF bindings[a] = NoLease THEN NoLease
                               ELSE [bindings[a] EXCEPT !.left = @ - n]]

\* SPTP steps CLOCK_REALTIME, on which the leases run.
StepClock ==
  /\ steps < MaxSteps
  /\ steps' = steps + 1
  /\ \E n \in {-1, 1} : bindings' = Elapsed(n)
  /\ UNCHANGED <<lastQuad, mutex, thread, reaper, rx, ring, age, quadrant, frames, moves>>

\* A tick passes when nobody has anything left to do.
Tick ==
  /\ rx.at = "idle" /\ ring = << >> /\ mutex = "free"
  /\ reaper.sleep > 0 /\ thread.at \in {"none", "sleeps"}
  /\ bindings' = Elapsed(1)
  /\ age' = [a \in Addrs |-> IF bindings[a] = NoLease THEN 0 ELSE age[a] + 1]
  /\ reaper' = [reaper EXCEPT !.sleep = @ - 1]
  /\ thread' = IF thread = NoThread THEN thread
               ELSE [thread EXCEPT !.at = "due"]
  /\ UNCHANGED <<lastQuad, mutex, rx, ring, quadrant, bounds>>

Rx == Receive \/ CompareQuadrant \/ Clear \/ Cleared \/ Apply \/ Joined
Reaper == Reap \/ ReaperJoined
Thread == ThreadStarts \/ Respond \/ ThreadEnds

Next == Rx \/ Reaper \/ Thread \/ Publish \/ Move \/ StepClock \/ Tick

Spec == Init /\ [][Next]_vars

\* Every thread runs, _mtx is fair to the two that take it, and time goes on.
FairSpec == Spec /\ SF_vars(Rx) /\ SF_vars(Reaper) /\ WF_vars(Thread) /\ WF_vars(Tick)

-----------------------------------------------------------------------------
\* The cache, its mutex, the thread and the handlers have their types.
TypeOK ==
  /\ bindings \in [Addrs -> {NoLease} \cup [period : Periods, left : Int]]
  /\ lastQuad \in Quadrants \cup {AnyQuad}
  /\ mutex \in {"free", "rx", "reaper"}
  /\ thread = NoThread \/ thread \in [at : {"due", "responds", "sleeps", "ended"},
                                      period : Periods, stop : BOOLEAN]
  /\ reaper \in [sleep : 0 .. ReaperPeriod, joins : BOOLEAN]
  /\ rx.at \in {"idle", "quadrant", "clear", "cleared", "apply", "joins"}
  /\ Len(ring) <= Capacity
  /\ age \in [Addrs -> Nat]

\* Whoever looks at the cache under its mutex finds exactly one responding thread
\* if somebody is interested, at the shortest period asked for, and none (so no
\* response either) if nobody is, whichever of handler, reaper and thread ran last
\* (binding_cache.h:107).
ThreadFollowsBindings ==
  mutex = "free" =>
    IF Bound(bindings) = {} THEN thread = NoThread
    ELSE thread # NoThread /\ ~thread.stop /\ thread.period = Shortest(bindings)

\* Unless SPTP steps the clock, a consumer that vanished is served for the lifetime
\* of its lease and at most one more period of the reaper (smart_data.h:29: a binding
\* expires 3.5 s after the last refresh).
LeaseBounded ==
  steps = 0 => \A a \in Bound(bindings) :
                 age[a] <= Life(bindings[a].period) + ReaperPeriod

\* A consumer that neither says so nor stays silent for the lifetime of its lease is
\* not dropped, unless the vehicle moves or SPTP steps the clock: the reaper and the
\* other consumers never take its binding away.
InterestKept ==
  [][moves = 0 /\ steps = 0 =>
       \A a \in Bound(bindings) \ Bound(bindings') :
         \/ rx.at = "apply" /\ rx.msg.kind = "disinterest" /\ rx.msg.from = a
         \/ age[a] > Life(bindings[a].period)]_vars

\* Nobody moves any more: the mutex is held for the join of a periodic thread that waits
\* for a slot, and the receiving thread, which alone could free one, is what joins or
\* waits for the mutex (binding_cache.h:125).
Jammed ==
  /\ mutex # "free" /\ rx.at \in {"clear", "cleared", "apply", "joins"}
  /\ thread.at = "responds" /\ Len(ring) = Capacity

\* Soft state: when nobody announces an interest any more, the responses stop; the thread
\* that sent them is gone, or stuck in its last one.
EventuallySilent == <>[](thread = NoThread \/ Jammed)

\* periodic_thread.h:14: stop() returns quickly.  That fails in one case, a thread that is
\* stopped in the middle of a send to a full ring which the joining side ought to empty.
\* In every other the handler of a message returns, whoever holds the mutex and however
\* often the ring is full, and the receiving thread goes on to the next message.
HandlerReturns == rx.at # "idle" ~> (rx.at = "idle" \/ Jammed)
=============================================================================
