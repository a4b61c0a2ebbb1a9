--------------------------- MODULE InterestTracker ---------------------------
(***************************************************************************)
(* Interest_Tracker, the broker of an RSU: it registers the interests it   *)
(* hears and which vehicles it heard of lately (a REQUEST_SYNC or an       *)
(* interest), forgets the vehicles it has not heard of for the presence    *)
(* lease, and periodically announces the units somebody is interested in   *)
(* and withdraws those nobody is any more.                                 *)
(*                                                                         *)
(* Three threads meet in it: the one that receives from the radio, the one *)
(* that receives from the ring of the RSU, on which every radio frame is   *)
(* put once more, and the repeater.  Time passes in ticks, in which every  *)
(* thread finishes what it has to do.                                      *)
(***************************************************************************)
EXTENDS Integers, Sequences

CONSTANTS
  Units,       \* units somebody may be interested in
  Addrs,       \* addresses of consumers
  Vehicles,    \* vehicles, identified by their MAC
  VehicleOf,   \* VehicleOf[a]: the vehicle of address a
  Lease,       \* PRESENCE_LEASE_NS, in ticks
  Repeat,      \* repeat_us, in ticks
  SyncPeriod,  \* ticks from a synchronisation to the next request
  Poll,        \* ticks from a request without answer to the next one
  MaxLosses,   \* bound: requests lost while the vehicle is in reach
  MaxHeard,    \* bound: interests and disinterests heard
  MaxMoves     \* bound: how often a vehicle leaves the quadrant or enters it

ASSUME VehiclesAssumption == VehicleOf \in [Addrs -> Vehicles]
ASSUME TimingAssumption == /\ Lease \in Nat /\ Repeat \in Nat \ {0}
                           /\ SyncPeriod \in Nat \ {0} /\ Poll \in Nat \ {0}
ASSUME BoundsAssumption == MaxLosses \in Nat /\ MaxHeard \in Nat /\ MaxMoves \in Nat

VARIABLES
  presence,     \* _presence: ticks since the vehicle was heard of, or Absent
  interests,    \* _interests: the (unit, address) pairs with an entry
  activeUnits,  \* _active_units
  stops, repeats,    \* what the repeater has still to withdraw and to announce
  timer,        \* ticks to the next broker_tick
  raw,          \* the message the radio's receiving thread handles, or Nothing
  echo,         \* messages in the ring, for the ring's receiving thread
  near, asks,   \* vehicles: in reach, ticks to the next request
  unheard,      \* history: ticks since a request or an interest of the vehicle arrived
  told,         \* history: units whose last message of the broker was an announcement
  losses, heard, moves  \* bounds used up

tracker == <<presence, interests, activeUnits>>
repeater == <<stops, repeats, timer>>
vehicles == <<near, asks, losses, moves>>
vars == <<presence, interests, activeUnits, stops, repeats, timer, raw, echo,
          near, asks, unheard, told, losses, heard, moves>>

-----------------------------------------------------------------------------
Absent  == -1
Nothing == [kind |-> "none"]

Pairs == Units \X Addrs
Messages == [kind : {"interest", "disinterest"}, unit : Units, from : Addrs]
Pair(m) == <<m.unit, m.from>>

\* Ages are counted up to where no test distinguishes them any more.
Horizon == Lease + Repeat + 1
Older(n) == IF n < Horizon THEN n + 1 ELSE n

Init ==
  /\ presence = [v \in Vehicles |-> Absent]
  /\ interests = {} /\ activeUnits = {}
  /\ stops = {} /\ repeats = {} /\ timer = 0
  /\ raw = Nothing /\ echo = << >>
  /\ near \in [Vehicles -> BOOLEAN]
  /\ asks = [v \in Vehicles |-> 0]
  /\ told = {}
  /\ unheard = [v \in Vehicles |-> 0]
  /\ losses = 0 /\ heard = 0 /\ moves = 0

-----------------------------------------------------------------------------
(* SPTP requests: the master tells the tracker who asked. *)

OnPresenceOnce(v) ==
  presence' = [presence EXCEPT ![v] = IF @ = Absent THEN 0 ELSE @]

\* on_presence(from)
OnPresence(v) == presence' = [presence EXCEPT ![v] = 0]

\* The watchdog of a vehicle asks; the request is heard, and its answer received or not.
RequestHeard(v) ==
  /\ near[v] /\ asks[v] = 0 /\ raw = Nothing
  /\ OnPresence(v)
  /\ unheard' = [unheard EXCEPT ![v] = 0]
  /\ \E next \in {SyncPeriod, Poll} : asks' = [asks EXCEPT ![v] = next]
  /\ UNCHANGED <<interests, activeUnits, repeater, raw, echo, near, losses, moves, told, heard>>

\* The request is lost, as it always is when the vehicle is elsewhere.
RequestLost(v) ==
  /\ asks[v] = 0
  /\ IF near[v] THEN losses < MaxLosses /\ losses' = losses + 1 ELSE UNCHANGED losses
  /\ asks' = [asks EXCEPT ![v] = Poll]
  /\ UNCHANGED <<tracker, repeater, raw, echo, near, moves, unheard, told, heard>>

Move(v) ==
  /\ moves < MaxMoves
  /\ moves' = moves + 1
  /\ near' = [near EXCEPT ![v] = ~@]
  /\ UNCHANGED <<tracker, repeater, raw, echo, asks, losses, unheard, told, heard>>

-----------------------------------------------------------------------------
(* Interests: update, called by both receiving threads. *)

UpdateOnlyRegisters(m) ==
  /\ interests' = IF m.kind = "disinterest" THEN interests \ {Pair(m)}
                  ELSE interests \cup {Pair(m)}
  /\ UNCHANGED presence

\* An interest also renews the presence of the vehicle its sender belongs to.
Update(m) ==
  IF m.kind = "disinterest"
  THEN /\ interests' = interests \ {Pair(m)}
       /\ UNCHANGED presence
  ELSE /\ interests' = interests \cup {Pair(m)}
       /\ presence' = [presence EXCEPT ![VehicleOf[m.from]] = 0]

\* A frame arrives; Protocol::update first puts it on the ring of the RSU.
Receive(m) ==
  /\ raw = Nothing /\ near[VehicleOf[m.from]] /\ heard < MaxHeard
  /\ raw' = m
  /\ echo' = Append(echo, m)
  /\ heard' = heard + 1
  /\ unheard' = IF m.kind = "interest" THEN [unheard EXCEPT ![VehicleOf[m.from]] = 0]
                ELSE unheard
  /\ UNCHANGED <<tracker, repeater, vehicles, told>>

\* ... and then notifies the observers.
RawUpdate ==
  /\ raw # Nothing
  /\ Update(raw)
  /\ raw' = Nothing
  /\ UNCHANGED <<activeUnits, repeater, echo, vehicles, unheard, told, heard>>

\* The ring hands the RSU its own frame.
EchoUpdate ==
  /\ echo # << >>
  /\ Update(Head(echo))
  /\ echo' = Tail(echo)
  /\ UNCHANGED <<activeUnits, repeater, raw, vehicles, unheard, told, heard>>

-----------------------------------------------------------------------------
(* The repeater: broker_tick. *)

\* Vehicles whose lease has run out.
DeadLate == {v \in Vehicles : presence[v] > Lease + 1}
Dead == {v \in Vehicles : presence[v] > Lease}

UnitsOf(pairs) == {p[1] : p \in pairs}

BrokerTickForgetsStops ==
  LET alive == {p \in interests : VehicleOf[p[2]] \notin Dead} IN
  /\ timer = 0 /\ stops = {} /\ repeats = {}
  /\ presence' = [v \in Vehicles |-> IF v \in Dead THEN Absent ELSE presence[v]]
  /\ interests' = alive
  /\ stops' = {}
  /\ repeats' = UnitsOf(alive)
  /\ activeUnits' = UnitsOf(alive)
  /\ timer' = Repeat
  /\ UNCHANGED <<raw, echo, vehicles, unheard, told, heard>>

\* Under the mutex: forget the dead, and compare the units with those of the last tick.
BrokerTick ==
  LET alive == {p \in interests : VehicleOf[p[2]] \notin Dead} IN
  /\ timer = 0 /\ stops = {} /\ repeats = {}
  /\ presence' = [v \in Vehicles |-> IF v \in Dead THEN Absent ELSE presence[v]]
  /\ interests' = alive
  /\ stops' = activeUnits \ UnitsOf(alive)
  /\ repeats' = UnitsOf(alive)
  /\ activeUnits' = UnitsOf(alive)
  /\ timer' = Repeat
  /\ UNCHANGED <<raw, echo, vehicles, unheard, told, heard>>

\* After unlocking: first the disinterests, ...
SendStop(u) ==
  /\ u \in stops
  /\ stops' = stops \ {u}
  /\ told' = told \ {u}
  /\ UNCHANGED <<tracker, repeats, timer, raw, echo, vehicles, unheard, heard>>

\* ... then the interests.
SendRepeat(u) ==
  /\ stops = {} /\ u \in repeats
  /\ repeats' = repeats \ {u}
  /\ told' = told \cup {u}
  /\ UNCHANGED <<tracker, stops, timer, raw, echo, vehicles, unheard, heard>>

\* A tick passes when nobody has anything left to do.
Tick ==
  /\ timer > 0 /\ stops = {} /\ repeats = {}
  /\ raw = Nothing /\ echo = << >>
  /\ \A v \in Vehicles : asks[v] > 0
  /\ timer' = timer - 1
  /\ asks' = [v \in Vehicles |-> asks[v] - 1]
  /\ presence' = [v \in Vehicles |-> IF presence[v] = Absent THEN Absent
                                     ELSE Older(presence[v])]
  /\ unheard' = [v \in Vehicles |-> Older(unheard[v])]
  /\ UNCHANGED <<interests, activeUnits, stops, repeats, raw, echo, near, losses, moves,
                 told, heard>>

Next ==
  \/ \E v \in Vehicles : RequestHeard(v) \/ RequestLost(v) \/ Move(v)
  \/ \E m \in Messages : Receive(m)
  \/ RawUpdate \/ EchoUpdate
  \/ BrokerTick
  \/ \E u \in Units : SendStop(u) \/ SendRepeat(u)
  \/ Tick

Spec == Init /\ [][Next]_vars

-----------------------------------------------------------------------------
\* The tracker's tables and the vehicles around it hold what they are declared to hold.
TypeOK ==
  /\ presence \in [Vehicles -> {Absent} \cup 0 .. Horizon]
  /\ interests \subseteq Pairs
  /\ activeUnits \subseteq Units /\ told \subseteq Units
  /\ stops \subseteq Units /\ repeats \subseteq Units
  /\ timer \in 0 .. Repeat
  /\ raw \in Messages \cup {Nothing} /\ echo \in Seq(Messages)
  /\ near \in [Vehicles -> BOOLEAN] /\ asks \in [Vehicles -> Nat]
  /\ unheard \in [Vehicles -> 0 .. Horizon]
  /\ losses \in 0 .. MaxLosses /\ heard \in 0 .. MaxHeard /\ moves \in 0 .. MaxMoves

\* Every registered interest has a lease that can run out: whichever of the three
\* threads acted last, its vehicle is in the table of presence (otherwise
\* broker_tick, which looks for the dead there, would never drop it).
RegisteredArePresent == \A p \in interests : presence[VehicleOf[p[2]]] # Absent

\* No interest outlives its vehicle: one that was not heard of for the lease and a
\* period of the repeater has none left (interest_tracker.h:94).
ForgottenInTime ==
  \A p \in interests : unheard[VehicleOf[p[2]]] <= Lease + Repeat

\* What the two receiving threads have still to handle.
Underway == {raw} \cup {echo[i] : i \in DOMAIN echo}

\* An interest is dropped only on the word of its consumer or after its vehicle was
\* silent for the lease, at worst with the message that ends the silence received but
\* not handled; in particular an interest handled from a vehicle that lost its
\* requests keeps all interests of that vehicle.
DropsOnlySilent ==
  [][\A p \in interests \ interests' :
       \/ \E m \in Underway : m.kind = "disinterest" /\ Pair(m) = p
       \/ unheard[VehicleOf[p[2]]] > Lease
       \/ \E m \in Underway : m.kind = "interest" /\ VehicleOf[m.from] = VehicleOf[p[2]]]_vars

\* A vehicle that stays in the quadrant and whose requests are heard is never taken
\* for one that left (interest_tracker.h:31: a vehicle unseen for the lease has left).
NeverTakenForGone ==
  [][moves = 0 /\ losses = 0 =>
       \A v \in Vehicles : presence[v] # Absent => presence'[v] # Absent]_vars

\* What the broker has announced and not withdrawn is what the last tick found
\* active, but for the messages that tick has still to send: every unit left by its
\* last consumer is withdrawn once, and no unit that was not announced
\* (interest_tracker.h:96).
ToldWhatIsActive == /\ told \ activeUnits = stops
                    /\ activeUnits \ told \subseteq repeats
=============================================================================
