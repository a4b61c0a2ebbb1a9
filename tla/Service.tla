------------------------------- MODULE Service -------------------------------
(***************************************************************************)
(* Interest and response end to end, for one unit: consumers on vehicles   *)
(* of their own, a producer that stays in the quadrant and, if there is    *)
(* one, the broker of an RSU.  A consumer repeats its interest only after  *)
(* a silence, and any response of the unit breaks it, whoever it was for;  *)
(* so its own lease runs out while it is served, and it depends on the     *)
(* broker's announcements, or on the next silence, to be bound again.      *)
(*                                                                         *)
(* BindingCache and InterestTracker model the two ends thread by thread;   *)
(* here each handles a message in one step, as their invariants allow,     *)
(* when it is sent.  Time passes in ticks, within which all act in any     *)
(* order.                                                                  *)
(***************************************************************************)
EXTENDS Integers, FiniteSetsExt

CONSTANTS
  Consumers,     \* consumers of the unit, one to a vehicle
  Period,        \* Period[c]: the period c asks for, in ticks
  Stations,      \* whether the quadrant may have an RSU: a subset of BOOLEAN
  Refresh,       \* INTEREST_REFRESH_US, in ticks; likewise:
  LifetimeMin, Factor, ReaperPeriod,  \* leases of the producer
  Repeat, Lease,                      \* repeat_us and PRESENCE_LEASE_NS of the broker
  Ages,          \* how long after its last synchronisation request a vehicle may leave
  TtlFactor,     \* VALUE_TTL_FACTOR
  MaxFaults      \* bound: messages lost on their way to one receiver, and moves

ASSUME StationsAssumption == Stations \subseteq BOOLEAN /\ Stations # {}
ASSUME PeriodAssumption == Period \in [Consumers -> Nat \ {0}]
ASSUME TimingAssumption ==
  /\ {Refresh, ReaperPeriod, Repeat} \subseteq Nat \ {0}
  /\ {LifetimeMin, Factor, Lease, TtlFactor, MaxFaults} \subseteq Nat
  /\ Ages \subseteq 0 .. Lease /\ Ages # {}

VARIABLES
  station,    \* whether there is an RSU
  on,         \* consumers that are subscribed
  near,       \* consumers whose vehicle is in the quadrant
  wake,       \* wake[c]: ticks to the next reactive_tick
  silence,    \* silence[c]: ticks since _last_response_ns
  bindings,   \* Binding_Cache: bindings[a] is the lease of a, or NoLease
  reaper,     \* ticks to the next round of the reaper
  due,        \* ticks to the next response, or Off without a periodic thread
  registered, \* the broker's _interests
  presence,   \* presence[c]: 0 for a vehicle in the quadrant, then the age of _presence, or Off
  announced,  \* the unit is in _active_units
  timer,      \* ticks to the next broker_tick
  calm,       \* history: ticks since c subscribed, moved or lost a message
  known,      \* history: likewise, and since the broker registered c
  unwanted,   \* history: ticks since a consumer in the quadrant was on or registered
  subscribed, \* bound: consumers that have subscribed, each once
  faults      \* bound: moves and losses

consumers == <<on, wake, silence, subscribed>>
producer == <<bindings, reaper, due>>
broker == <<registered, presence, announced, timer>>
history == <<calm, known, unwanted>>
vars == <<station, on, near, wake, silence, bindings, reaper, due, registered, presence,
          announced, timer, calm, known, unwanted, subscribed, faults>>

-----------------------------------------------------------------------------
Rsu       == "rsu"
Producer  == "producer"
ASSUME ConsumersAssumption == IsFiniteSet(Consumers) /\ Consumers # {} /\ Rsu \notin Consumers

Off       == -1
NoLease   == [period |-> 0, left |-> 0]
Receivers == IF station THEN {Producer, Rsu} ELSE {Producer}
Addresses == Consumers \cup {Rsu}

Bound(b) == {a \in Addresses : b[a] # NoLease}
Life(period) == Max({LifetimeMin, Factor * period})

\* How long a consumer waits for a response, how long it takes until it is served as it
\* asked, how long a value counts as fresh and how long responses outlive the interest.
LongestPeriod == Max({Period[c] : c \in Consumers})
SilenceLimit  == Max({LongestPeriod, 2 * Refresh - 1})
Settling      == MaxFaults * Repeat + LongestPeriod
Ttl(c)        == TtlFactor * Period[c]
StopLimit     == Lease + Repeat + Life(LongestPeriod) + ReaperPeriod

\* A clock that stops where no property distinguishes its values any more.
Older(n, limit) == Min({n + 1, limit + 1})

Init ==
  /\ station \in Stations
  /\ on = {} /\ near \in SUBSET Consumers
  /\ wake = [c \in Consumers |-> Refresh]
  /\ silence = [c \in Consumers |-> 0]
  /\ bindings = [a \in Addresses |-> NoLease]
  /\ reaper = ReaperPeriod /\ due = Off
  /\ registered = {} /\ announced = FALSE /\ timer = Repeat
  /\ presence = [c \in Consumers |-> Off]
  /\ calm = [c \in Consumers |-> 0] /\ known = calm /\ unwanted = StopLimit
  /\ subscribed = {} /\ faults = 0

-----------------------------------------------------------------------------
(* What a message does to those that hear it. *)

Interest(a, period) == [from |-> a, period |-> period]
Disinterest(a) == [from |-> a, period |-> 0]

ResyncSleepsFirst(b) ==
  /\ bindings' = b
  /\ due' = IF Bound(b) = {} THEN Off
            ELSE IF due = Off THEN Min({b[a].period : a \in Bound(b)}) ELSE due

\* resync_threads: a new thread answers at once, an existing one when it was to
\* answer anyway, whatever its new period.
Resync(b) ==
  /\ bindings' = b
  /\ due' = IF Bound(b) = {} THEN Off ELSE IF due = Off THEN 0 ELSE due

\* The producer: on_interest or on_disinterest.
ProducerHears(m) ==
  Resync([bindings EXCEPT ![m.from] =
            IF m.period = 0 THEN NoLease
            ELSE [period |-> m.period, left |-> Life(m.period)]])

\* The broker: Interest_Tracker::update.
BrokerHears(m) ==
  /\ registered' = IF m.period = 0 THEN registered \ {m.from} ELSE registered \cup {m.from}
  /\ presence' = IF m.period = 0 THEN presence ELSE [presence EXCEPT ![m.from] = 0]

\* A message of c, sent copies times.  In another quadrant nobody hears it; of the
\* receivers, those in lost miss every copy.
Send(c, m, copies) ==
  IF c \notin near THEN UNCHANGED <<bindings, due, registered, presence, calm, known, faults>>
  ELSE \E lost \in SUBSET Receivers :
    /\ faults + copies * Cardinality(lost) <= MaxFaults
    /\ faults' = faults + copies * Cardinality(lost)
    /\ IF Producer \in lost THEN UNCHANGED <<bindings, due>> ELSE ProducerHears(m)
    /\ IF Rsu \in Receivers \ lost THEN BrokerHears(m) ELSE UNCHANGED <<registered, presence>>
    /\ calm' = IF lost = {} THEN calm ELSE [calm EXCEPT ![c] = 0]
    /\ known' = IF lost = {} /\ registered' = registered THEN known
                ELSE [known EXCEPT ![c] = 0]

-----------------------------------------------------------------------------
(* Consumers. *)

\* The constructor sends the interest; the refresh thread finds no silence yet.
Subscribe(c) ==
  /\ c \notin subscribed
  /\ subscribed' = subscribed \cup {c}
  /\ on' = on \cup {c}
  /\ wake' = [wake EXCEPT ![c] = Refresh]
  /\ silence' = [silence EXCEPT ![c] = 0]
  /\ unwanted' = 0
  /\ Send(c, Interest(c, Period[c]), 1)
  /\ UNCHANGED <<station, near, reaper, announced, timer>>

\* reactive_tick
ReactiveTick(c) ==
  /\ c \in on /\ wake[c] = 0
  /\ wake' = [wake EXCEPT ![c] = Refresh]
  /\ IF silence[c] >= Refresh THEN Send(c, Interest(c, Period[c]), 1)
     ELSE UNCHANGED <<bindings, due, registered, presence, calm, known, faults>>
  /\ UNCHANGED <<station, on, near, silence, reaper, announced, timer, unwanted, subscribed>>

\* The destructor sends one disinterest, unsubscribe three; the refresh has stopped.
Leave(c) ==
  /\ c \in on
  /\ on' = on \ {c}
  /\ \E copies \in {1, 3} : Send(c, Disinterest(c), copies)
  /\ wake' = [wake EXCEPT ![c] = Refresh] /\ silence' = [silence EXCEPT ![c] = 0]
  /\ UNCHANGED <<station, near, reaper, announced, timer, unwanted, subscribed>>

\* abandon, or the end of the component's process: nobody is told.
Abandon(c) ==
  /\ c \in on
  /\ on' = on \ {c}
  /\ wake' = [wake EXCEPT ![c] = Refresh] /\ silence' = [silence EXCEPT ![c] = 0]
  /\ calm' = [calm EXCEPT ![c] = 0] /\ known' = [known EXCEPT ![c] = 0]
  /\ UNCHANGED <<station, near, producer, broker, unwanted, subscribed, faults>>

\* The vehicle of c enters the quadrant, or leaves it some time after its last request.
Move(c) ==
  /\ faults < MaxFaults
  /\ faults' = faults + 1
  /\ IF c \in near
     THEN /\ near' = near \ {c}
          /\ \E age \in IF station THEN Ages ELSE {Off} :
               presence' = [presence EXCEPT ![c] = age]
     ELSE near' = near \cup {c} /\ UNCHANGED presence
  /\ calm' = [calm EXCEPT ![c] = 0]
  /\ known' = [known EXCEPT ![c] = 0]
  /\ unwanted' = 0
  /\ UNCHANGED <<station, consumers, producer, registered, announced, timer>>

-----------------------------------------------------------------------------
(* The producer. *)

\* One round of reap_loop.
Reap ==
  /\ reaper = 0
  /\ reaper' = ReaperPeriod
  /\ Resync([a \in Addresses |-> IF bindings[a].left < 0 THEN NoLease ELSE bindings[a]])
  /\ UNCHANGED <<station, near, consumers, broker, history, faults>>

\* Any response of the unit ends the silence of a consumer that hears it, whoever it was for.
ConsumersHear(lost) ==
  /\ silence' = [c \in Consumers |-> IF c \in (on \cap near) \ lost THEN 0 ELSE silence[c]]
  /\ calm' = [c \in Consumers |-> IF c \in lost THEN 0 ELSE calm[c]]
  /\ known' = [c \in Consumers |-> IF c \in lost THEN 0 ELSE known[c]]

\* respond, heard by the consumers in the quadrant.
Respond ==
  /\ due = 0
  /\ due' = Min({bindings[a].period : a \in Bound(bindings)})
  /\ \E lost \in SUBSET (on \cap near) :
       /\ faults + Cardinality(lost) <= MaxFaults
       /\ faults' = faults + Cardinality(lost)
       /\ ConsumersHear(lost)
  /\ UNCHANGED <<station, near, on, wake, bindings, reaper, broker, unwanted, subscribed>>

-----------------------------------------------------------------------------
(* The broker. *)

\* The vehicle of c asks for a synchronisation when it enters, and so often while it
\* stays that its lease never ends (NeverTakenForGone of InterestTracker).
RequestSync(c) ==
  /\ station /\ c \in near /\ presence[c] # 0
  /\ presence' = [presence EXCEPT ![c] = 0]
  /\ UNCHANGED <<station, near, consumers, producer, registered, announced, timer, history,
                 faults>>

Dead == {c \in Consumers : presence[c] > Lease}

AliveForAll == registered

\* The interests that are left without those of the dead.
Alive == registered \ Dead

AnnouncementOfLongest == Interest(Rsu, Max({Period[c] : c \in Alive}))

\* One interest for all of them, at the shortest period asked for.
Announcement == Interest(Rsu, Min({Period[c] : c \in Alive}))

\* broker_tick with what it sends: an announcement, or one withdrawal after the last.
BrokerTick ==
  LET said == IF Alive # {} THEN Announcement ELSE Disinterest(Rsu) IN
  /\ station /\ timer = 0
  /\ timer' = Repeat
  /\ registered' = Alive
  /\ presence' = [c \in Consumers |-> IF c \in Dead THEN Off ELSE presence[c]]
  /\ announced' = (Alive # {})
  /\ \/ (announced \/ announced') /\ ProducerHears(said) /\ UNCHANGED faults
     \/ (announced \/ announced') /\ UNCHANGED <<bindings, due>>
        /\ faults < MaxFaults /\ faults' = faults + 1
     \/ ~(announced \/ announced') /\ UNCHANGED <<bindings, due, faults>>
  /\ UNCHANGED <<station, near, consumers, reaper, history>>

-----------------------------------------------------------------------------
\* A tick passes when nobody has anything left to do.  Rounds of reactive_tick and of the
\* reaper that will find neither silence nor expired lease are passed over.
Tick ==
  /\ \A c \in on : wake[c] > 0
  /\ reaper > 0 /\ due # 0
  /\ station => timer > 0 /\ \A c \in near : presence[c] = 0
  /\ silence' = [c \in Consumers |->
                   IF c \in on THEN Older(silence[c], Max({SilenceLimit, Ttl(c)})) ELSE 0]
  /\ bindings' = [a \in Addresses |-> IF bindings[a] = NoLease THEN NoLease
                                      ELSE [bindings[a] EXCEPT !.left = @ - 1]]
  /\ wake' = [c \in Consumers |->
                IF c \in on /\ (wake[c] > 1 \/ silence'[c] >= Refresh) THEN wake[c] - 1 ELSE Refresh]
  /\ reaper' = IF reaper > 1 \/ \E a \in Addresses : bindings'[a].left < 0 THEN reaper - 1
               ELSE ReaperPeriod
  /\ due' = IF due = Off THEN Off ELSE due - 1
  /\ timer' = IF station THEN timer - 1 ELSE timer
  /\ presence' = [c \in Consumers |-> IF presence[c] = Off \/ c \in near THEN presence[c]
                                      ELSE presence[c] + 1]
  /\ calm' = [c \in Consumers |-> IF c \in on \cap near THEN Older(calm[c], SilenceLimit) ELSE 0]
  /\ known' = [c \in Consumers |-> IF c \in on \cap near \cap registered
                                   THEN Older(known[c], Settling) ELSE 0]
  /\ unwanted' = IF (on \cup registered) \cap near # {} THEN 0 ELSE Older(unwanted, StopLimit)
  /\ UNCHANGED <<station, on, near, registered, announced, subscribed, faults>>

Next ==
  \/ \E c \in Consumers :
       Subscribe(c) \/ ReactiveTick(c) \/ Leave(c) \/ Abandon(c) \/ Move(c) \/ RequestSync(c)
  \/ Reap \/ Respond \/ BrokerTick \/ Tick

Spec == Init /\ [][Next]_vars

-----------------------------------------------------------------------------
\* Ages, timers and leases have their types.
TypeOK ==
  /\ station \in BOOLEAN /\ announced \in BOOLEAN
  /\ on \subseteq Consumers /\ near \subseteq Consumers /\ registered \subseteq Consumers
  /\ wake \in [Consumers -> 0 .. Refresh] /\ silence \in [Consumers -> Nat]
  /\ bindings \in [Addresses -> [period : Nat, left : Int]]
  /\ reaper \in 0 .. ReaperPeriod /\ timer \in 0 .. Repeat /\ due \in {Off} \cup Nat
  /\ presence \in [Consumers -> {Off} \cup Nat]

\* A consumer in the quadrant waits for a response no longer than its slowest fellow
\* asked for, or than two rounds of reactive_tick see a silence of Refresh, unless it
\* has just come or lost a message: that responses to others keep it quiet until its
\* lease has run out (smart_data.h:111) costs one such wait, with an RSU or without.
SilenceBounded ==
  \A c \in on \cap near : Min({silence[c], calm[c]}) <= SilenceLimit

\* Where an RSU announces it, a consumer's value does not expire while the producer
\* lives (tests/interest_value.cpp:97), though its own lease does, others come and go
\* with other periods, and announcements may be lost.  It takes an announcement for each of
\* them and the rest of the response thread's last period (periodic_thread.h:51) to settle.
StaysFresh ==
  \A c \in on \cap near \cap registered : known[c] > Settling => silence[c] <= Ttl(c)

\* Nobody is served for ever: once no consumer is on or registered in the quadrant,
\* however it left, the broker takes its presence lease and a period to notice, and
\* the producer the longest lease and a round of the reaper (smart_data.h:29).
StopsInTime == unwanted > StopLimit => due = Off
=============================================================================
