------------------------ MODULE InterestTrackerProofs ------------------------
(***************************************************************************)
(* That the broker of an RSU keeps its tables consistent, for all units,   *)
(* consumers, vehicles and timings.                                        *)
(***************************************************************************)
EXTENDS InterestTracker, TLAPS

-----------------------------------------------------------------------------
(* Types *)

\* What the repeater finds active are units.
LEMMA UnitsOfPairs == \A pairs \in SUBSET Pairs : UnitsOf(pairs) \subseteq Units
  BY DEF UnitsOf, Pairs

\* A tick more is still within the horizon, and a tick more unless it is reached.
LEMMA OlderType ==
  ASSUME NEW n \in 0 .. Horizon
  PROVE  /\ Older(n) \in 0 .. Horizon
         /\ Older(n) <= n + 1
         /\ \A k \in 0 .. n : Older(k) <= Older(n)
  BY TimingAssumption DEF Older, Horizon

\* update keeps the tables' types.
LEMMA UpdateType ==
  ASSUME TypeOK, NEW m \in Messages, Update(m)
  PROVE  /\ presence' \in [Vehicles -> {Absent} \cup 0 .. Horizon]
         /\ interests' \subseteq Pairs
         /\ m.from \in Addrs /\ VehicleOf[m.from] \in Vehicles /\ Pair(m) \in Pairs
         /\ m.kind \in {"interest", "disinterest"}
<1>1. /\ m.from \in Addrs /\ VehicleOf[m.from] \in Vehicles /\ Pair(m) \in Pairs
      /\ m.kind \in {"interest", "disinterest"}
  BY VehiclesAssumption DEF Messages, Pair, Pairs
<1>2. 0 \in 0 .. Horizon
  BY TimingAssumption DEF Horizon
<1> QED BY <1>1, <1>2 DEF Update, TypeOK

LEMMA TypeInit == Init => TypeOK
<1> SUFFICES ASSUME Init PROVE TypeOK
  OBVIOUS
<1>1. 0 \in 0 .. Horizon /\ 0 \in 0 .. Repeat
  BY TimingAssumption DEF Horizon
<1>2. << >> \in Seq(Messages)
  OBVIOUS
<1> QED BY <1>1, <1>2, BoundsAssumption DEF Init, TypeOK

LEMMA TypeStep == TypeOK /\ [Next]_vars => TypeOK'
<1> SUFFICES ASSUME TypeOK, [Next]_vars PROVE TypeOK'
  OBVIOUS
<1>0. 0 \in 0 .. Horizon /\ SyncPeriod \in Nat /\ Poll \in Nat /\ Repeat \in Nat
  BY TimingAssumption DEF Horizon
<1>1. ASSUME NEW v \in Vehicles, RequestHeard(v) PROVE TypeOK'
  BY <1>0, <1>1 DEF RequestHeard, OnPresence, repeater, TypeOK
<1>2. ASSUME NEW v \in Vehicles, RequestLost(v) PROVE TypeOK'
  BY <1>0, <1>2, BoundsAssumption DEF RequestLost, tracker, repeater, TypeOK
<1>3. ASSUME NEW v \in Vehicles, Move(v) PROVE TypeOK'
  BY <1>3, BoundsAssumption DEF Move, tracker, repeater, TypeOK
<1>4. ASSUME NEW m \in Messages, Receive(m) PROVE TypeOK'
  <2>1. Append(echo, m) \in Seq(Messages) /\ VehicleOf[m.from] \in Vehicles
    BY VehiclesAssumption DEF TypeOK, Messages
  <2> QED BY <1>0, <1>4, <2>1, BoundsAssumption DEF Receive, tracker, repeater, vehicles, TypeOK
<1>5. CASE RawUpdate
  <2>1. raw \in Messages
    BY <1>5 DEF RawUpdate, TypeOK
  <2> QED BY <1>5, <2>1, UpdateType DEF RawUpdate, repeater, vehicles, TypeOK
<1>6. CASE EchoUpdate
  <2>1. Head(echo) \in Messages /\ Tail(echo) \in Seq(Messages)
    BY <1>6 DEF EchoUpdate, TypeOK
  <2> QED BY <1>6, <2>1, UpdateType DEF EchoUpdate, repeater, vehicles, TypeOK
<1>7. CASE BrokerTick
  <2> DEFINE alive == {p \in interests : VehicleOf[p[2]] \notin Dead}
  <2>1. alive \subseteq Pairs /\ UnitsOf(alive) \subseteq Units
    <3>1. alive \subseteq Pairs
      BY DEF TypeOK
    <3> QED BY <3>1, UnitsOfPairs
  <2>2. /\ presence' = [v \in Vehicles |-> IF v \in Dead THEN Absent ELSE presence[v]]
        /\ interests' = alive /\ stops' = activeUnits \ UnitsOf(alive)
        /\ repeats' = UnitsOf(alive) /\ activeUnits' = UnitsOf(alive) /\ timer' = Repeat
        /\ UNCHANGED <<raw, echo, near, asks, losses, moves, unheard, told, heard>>
    BY <1>7 DEF BrokerTick, vehicles
  <2> HIDE DEF alive
  <2>3. Repeat \in 0 .. Repeat
    BY <1>0
  <2> QED BY <2>1, <2>2, <2>3 DEF TypeOK
<1>8. ASSUME NEW u \in Units, SendStop(u) \/ SendRepeat(u) PROVE TypeOK'
  BY <1>8 DEF SendStop, SendRepeat, tracker, vehicles, TypeOK
<1>9. CASE Tick
  <2>1. /\ presence' \in [Vehicles -> {Absent} \cup 0 .. Horizon]
        /\ unheard' \in [Vehicles -> 0 .. Horizon]
    <3>1. ASSUME NEW v \in Vehicles
          PROVE  /\ Older(unheard[v]) \in 0 .. Horizon
                 /\ presence[v] # Absent => Older(presence[v]) \in 0 .. Horizon
      BY OlderType DEF TypeOK
    <3> QED BY <1>9, <3>1 DEF Tick
  <2>2. asks' \in [Vehicles -> Nat]
    BY <1>9 DEF Tick, TypeOK
  <2>3. timer' \in 0 .. Repeat
    BY <1>0, <1>9 DEF Tick, TypeOK
  <2> QED BY <1>9, <2>1, <2>2, <2>3 DEF Tick, TypeOK
<1>10. CASE UNCHANGED vars
  BY <1>10 DEF vars, TypeOK
<1> QED BY <1>1, <1>2, <1>3, <1>4, <1>5, <1>6, <1>7, <1>8, <1>9, <1>10 DEF Next

-----------------------------------------------------------------------------
(* Interests, presence and what was announced. *)

\* Only a vehicle found dead loses its presence, and with it all its interests.
LEMMA PresentStep == TypeOK /\ RegisteredArePresent /\ [Next]_vars => RegisteredArePresent'
<1> SUFFICES ASSUME TypeOK, RegisteredArePresent, [Next]_vars PROVE RegisteredArePresent'
  OBVIOUS
<1>0. /\ Absent = -1 /\ \A n \in 0 .. Horizon : n # Absent
      /\ \A p \in interests : VehicleOf[p[2]] \in Vehicles
  BY VehiclesAssumption DEF Absent, TypeOK, Pairs
<1>1. ASSUME NEW v \in Vehicles, OnPresence(v), interests' = interests
      PROVE  RegisteredArePresent'
  BY <1>0, <1>1 DEF OnPresence, TypeOK, RegisteredArePresent
<1>2. ASSUME NEW m \in Messages, Update(m) PROVE RegisteredArePresent'
  <2>1. VehicleOf[m.from] \in Vehicles /\ Pair(m)[2] = m.from
    BY <1>2, UpdateType DEF Pair
  <2>2. CASE m.kind = "disinterest"
    BY <1>2, <2>2 DEF Update, RegisteredArePresent
  <2>3. CASE m.kind # "disinterest"
    <3>1. /\ interests' = interests \cup {Pair(m)}
          /\ presence' = [presence EXCEPT ![VehicleOf[m.from]] = 0] /\ 0 # Absent
      BY <1>0, <1>2, <2>3 DEF Update
    <3>2. presence \in [Vehicles -> {Absent} \cup 0 .. Horizon]
      BY DEF TypeOK
    <3>3. ASSUME NEW p \in interests' PROVE presence'[VehicleOf[p[2]]] # Absent
      <4>1. CASE p = Pair(m)
        BY <2>1, <3>1, <3>2, <4>1
      <4>2. CASE p \in interests
        BY <1>0, <3>1, <3>2, <4>2 DEF RegisteredArePresent
      <4> QED BY <3>1, <4>1, <4>2
    <3> QED BY <3>3 DEF RegisteredArePresent
  <2> QED BY <2>2, <2>3
<1>3. CASE RawUpdate
  <2>1. raw \in Messages
    BY <1>3 DEF RawUpdate, TypeOK
  <2> QED BY <1>2, <1>3, <2>1 DEF RawUpdate
<1>4. CASE EchoUpdate
  <2>1. Head(echo) \in Messages
    BY <1>4 DEF EchoUpdate, TypeOK
  <2> QED BY <1>2, <1>4, <2>1 DEF EchoUpdate
<1>5. CASE BrokerTick
  BY <1>0, <1>5 DEF BrokerTick, RegisteredArePresent
<1>6. CASE Tick
  <2>1. \A n \in 0 .. Horizon : Older(n) \in 0 .. Horizon
    BY OlderType
  <2> QED BY <1>0, <1>6, <2>1 DEF Tick, TypeOK, RegisteredArePresent
<1>7. CASE UNCHANGED <<presence, interests>>
  BY <1>7 DEF RegisteredArePresent
<1> QED BY <1>1, <1>3, <1>4, <1>5, <1>6, <1>7
        DEF Next, RequestHeard, RequestLost, Move, Receive, SendStop, SendRepeat, tracker, vars

\* Every registered interest has a lease that can run out: update renews the presence
\* of the vehicle together with the interest, and broker_tick drops both together.
THEOREM InterestsHaveLeases == Spec => [](TypeOK /\ RegisteredArePresent)
<1>1. Init => RegisteredArePresent
  BY DEF Init, RegisteredArePresent
<1> QED BY <1>1, TypeInit, TypeStep, PresentStep, PTL DEF Spec

\* What is still to be announced is active.
Announced == repeats \subseteq activeUnits /\ ToldWhatIsActive

LEMMA AnnouncedStep == Announced /\ [Next]_vars => Announced'
<1> SUFFICES ASSUME Announced, [Next]_vars PROVE Announced'
  OBVIOUS
<1> USE DEF Announced, ToldWhatIsActive
<1>1. CASE BrokerTick
  <2>1. told = activeUnits
    BY <1>1 DEF BrokerTick
  <2> QED BY <1>1, <2>1 DEF BrokerTick
<1>2. ASSUME NEW u \in Units, SendStop(u) PROVE Announced'
  BY <1>2 DEF SendStop, tracker
<1>3. ASSUME NEW u \in Units, SendRepeat(u) PROVE Announced'
  BY <1>3 DEF SendRepeat, tracker
<1>4. CASE UNCHANGED <<activeUnits, stops, repeats, told>>
  BY <1>4
<1> QED BY <1>1, <1>2, <1>3, <1>4
        DEF Next, RequestHeard, RequestLost, Move, Receive, RawUpdate, EchoUpdate, Tick,
            tracker, repeater, vars

\* What the broker has announced and not withdrawn is what broker_tick last found
\* active, but for what it has still to send after unlocking: each unit that loses its
\* last consumer is withdrawn, and none that was not announced.
THEOREM BrokerTellsTheActive == Spec => []ToldWhatIsActive
<1>1. Init => Announced
  BY DEF Init, Announced, ToldWhatIsActive
<1>2. Announced => ToldWhatIsActive
  BY DEF Announced
<1> QED BY <1>1, <1>2, AnnouncedStep, PTL DEF Spec

-----------------------------------------------------------------------------
(* Presence and silence. *)

\* An interest from vehicle v has been received, and not handled on both threads.
Waiting(v) == \E m \in Messages : /\ m \in Underway
                                  /\ m.kind = "interest" /\ VehicleOf[m.from] = v

\* The tracker counts the silence of a vehicle it knows of, from the last message it
\* handled, and looks for the dead often enough.
Timed ==
  \A v \in Vehicles :
    /\ presence[v] # Absent =>
         /\ unheard[v] <= presence[v]
         /\ presence[v] <= Lease + (Repeat - timer)
         /\ presence[v] = unheard[v] \/ Waiting(v)
    /\ Waiting(v) => unheard[v] = 0

\* What is under way after a frame was received, and after each thread's update.
LEMMA UnderwayReceived ==
  ASSUME TypeOK, NEW m \in Messages, raw = Nothing, raw' = m, echo' = Append(echo, m)
  PROVE  \A k \in Messages : k \in Underway' => k \in Underway \/ k = m
<1>1. \A i \in DOMAIN echo' : (i \in DOMAIN echo /\ echo'[i] = echo[i]) \/ echo'[i] = m
  BY DEF TypeOK
<1> QED BY <1>1 DEF Underway

LEMMA UnderwayRaw ==
  ASSUME raw' = Nothing, echo' = echo
  PROVE  \A k \in Messages : /\ k \in Underway' => k \in Underway
                             /\ k \in Underway /\ k # raw => k \in Underway'
<1>1. Nothing \notin Messages
  BY DEF Nothing, Messages
<1> QED BY <1>1 DEF Underway

LEMMA UnderwayEcho ==
  ASSUME TypeOK, echo # << >>, raw' = raw, echo' = Tail(echo)
  PROVE  \A k \in Messages : /\ k \in Underway' => k \in Underway
                             /\ k \in Underway /\ k # Head(echo) => k \in Underway'
<1>1. \A i \in DOMAIN echo' : i + 1 \in DOMAIN echo /\ echo'[i] = echo[i + 1]
  BY DEF TypeOK
<1>2. \A i \in DOMAIN echo : echo[i] = Head(echo) \/ (i - 1 \in DOMAIN echo' /\ echo'[i - 1] = echo[i])
  BY DEF TypeOK
<1> QED BY <1>1, <1>2 DEF Underway

\* Handling an interest of a vehicle renews its presence, and nobody else's.
LEMMA TimedUpdate ==
  ASSUME TypeOK, Timed, NEW m \in Messages, m \in Underway, Update(m),
         UNCHANGED <<unheard, timer>>,
         \A k \in Messages : /\ k \in Underway' => k \in Underway
                             /\ k \in Underway /\ k # m => k \in Underway'
  PROVE  Timed'
<1>1. VehicleOf[m.from] \in Vehicles
  BY UpdateType
<1>2. \A v \in Vehicles : Waiting(v)' => Waiting(v)
  BY DEF Waiting
<1>3. \A v \in Vehicles : Waiting(v) => Waiting(v)' \/ (m.kind = "interest" /\ VehicleOf[m.from] = v)
  BY DEF Waiting
<1>4. CASE m.kind = "disinterest"
  BY <1>2, <1>3, <1>4 DEF Update, Timed
<1>5. CASE m.kind # "disinterest"
  <2>1. /\ presence'[VehicleOf[m.from]] = 0
        /\ \A v \in Vehicles : v # VehicleOf[m.from] => presence'[v] = presence[v]
    BY <1>1, <1>5 DEF Update, TypeOK
  <2>2. unheard[VehicleOf[m.from]] = 0
    <3>1. m.kind = "interest"
      BY <1>5, UpdateType
    <3>2. Waiting(VehicleOf[m.from])
      BY <3>1 DEF Waiting
    <3> QED BY <1>1, <3>2 DEF Timed
  <2>3. timer \in 0 .. Repeat /\ Lease \in Nat /\ Repeat \in Nat
    BY TimingAssumption DEF TypeOK
  <2>4. 0 <= Lease + (Repeat - timer)
    BY <2>3
  <2>5. ASSUME NEW v \in Vehicles
        PROVE  /\ presence'[v] # Absent =>
                    /\ unheard[v] <= presence'[v]
                    /\ presence'[v] <= Lease + (Repeat - timer)
                    /\ presence'[v] = unheard[v] \/ Waiting(v)'
               /\ Waiting(v)' => unheard[v] = 0
    <3>1. CASE v = VehicleOf[m.from]
      BY <2>1, <2>2, <2>4, <3>1
    <3>2. CASE v # VehicleOf[m.from]
      BY <1>2, <1>3, <2>1, <3>2 DEF Timed
    <3> QED BY <3>1, <3>2
  <2> QED BY <2>5 DEF Timed
<1> QED BY <1>4, <1>5

LEMMA TimedInit == Init => Timed
<1> SUFFICES ASSUME Init PROVE Timed
  OBVIOUS
<1>1. \A v \in Vehicles : ~Waiting(v)
  BY DEF Init, Waiting, Underway, Messages, Nothing
<1> QED BY <1>1 DEF Init, Timed

LEMMA TimedStep == TypeOK /\ Timed /\ [Next]_vars => Timed'
<1> SUFFICES ASSUME TypeOK, Timed, [Next]_vars PROVE Timed'
  OBVIOUS
<1>0. timer \in 0 .. Repeat /\ Lease \in Nat /\ Repeat \in Nat \ {0}
  BY TimingAssumption DEF TypeOK
<1>1. ASSUME UNCHANGED <<raw, echo>> PROVE \A v \in Vehicles : Waiting(v)' <=> Waiting(v)
  BY <1>1 DEF Waiting, Underway
<1>2. ASSUME NEW v \in Vehicles, RequestHeard(v) PROVE Timed'
  <2>1. /\ presence'[v] = 0 /\ unheard'[v] = 0 /\ timer' = timer
        /\ \A w \in Vehicles : w # v => presence'[w] = presence[w] /\ unheard'[w] = unheard[w]
    BY <1>2 DEF RequestHeard, OnPresence, repeater, TypeOK
  <2>2. 0 <= Lease + (Repeat - timer)
    BY <1>0
  <2>3. \A w \in Vehicles : Waiting(w)' <=> Waiting(w)
    BY <1>1, <1>2 DEF RequestHeard
  <2> QED BY <2>1, <2>2, <2>3 DEF Timed
<1>3. ASSUME NEW m \in Messages, Receive(m) PROVE Timed'
  <2>1. /\ UNCHANGED <<presence, timer>> /\ VehicleOf[m.from] \in Vehicles
        /\ unheard' = IF m.kind = "interest" THEN [unheard EXCEPT ![VehicleOf[m.from]] = 0]
                      ELSE unheard
    BY <1>3, VehiclesAssumption DEF Receive, tracker, repeater, Messages
  <2>2. /\ \A k \in Messages : k \in Underway' => k \in Underway \/ k = m
        /\ m \in Underway' /\ \A k \in Messages : k \in Underway => k \in Underway'
    <3>1. \A k \in Messages : k \in Underway' => k \in Underway \/ k = m
      BY <1>3, UnderwayReceived DEF Receive
    <3>2. \A i \in DOMAIN echo : i \in DOMAIN echo' /\ echo'[i] = echo[i]
      BY <1>3 DEF Receive, TypeOK
    <3>3. raw = Nothing /\ raw' = m /\ Nothing \notin Messages
      BY <1>3 DEF Receive, Nothing, Messages
    <3> QED BY <3>1, <3>2, <3>3 DEF Underway
  <2>3. CASE m.kind # "interest"
    <3>1. \A v \in Vehicles : Waiting(v)' <=> Waiting(v)
      BY <2>2, <2>3 DEF Waiting
    <3> QED BY <2>1, <2>3, <3>1 DEF Timed
  <2>4. CASE m.kind = "interest"
    <3> DEFINE w == VehicleOf[m.from]
    <3>1. /\ unheard'[w] = 0 /\ Waiting(w)'
          /\ \A v \in Vehicles : v # w => /\ unheard'[v] = unheard[v]
                                          /\ Waiting(v)' <=> Waiting(v)
      BY <2>1, <2>2, <2>4 DEF TypeOK, Waiting
    <3>2. presence[w] # Absent => 0 <= presence[w]
      BY <2>1 DEF TypeOK
    <3> HIDE DEF w
    <3> QED BY <2>1, <3>1, <3>2 DEF Timed
  <2> QED BY <2>3, <2>4
<1>4. CASE RawUpdate
  <2>1. raw \in Messages /\ raw \in Underway
    BY <1>4 DEF RawUpdate, TypeOK, Underway
  <2> QED BY <1>4, <2>1, TimedUpdate, UnderwayRaw DEF RawUpdate, repeater
<1>5. CASE EchoUpdate
  <2>1. Head(echo) \in Messages /\ Head(echo) \in Underway
    <3>1. 1 \in DOMAIN echo /\ Head(echo) = echo[1] /\ echo[1] \in Messages
      BY <1>5 DEF EchoUpdate, TypeOK
    <3> QED BY <3>1 DEF Underway
  <2> QED BY <1>5, <2>1, TimedUpdate, UnderwayEcho DEF EchoUpdate, repeater
<1>6. CASE BrokerTick
  <2>1. /\ timer' = Repeat /\ unheard' = unheard
        /\ \A v \in Vehicles : Waiting(v)' <=> Waiting(v)
        /\ \A v \in Vehicles : presence'[v] = IF presence[v] > Lease THEN Absent ELSE presence[v]
    BY <1>1, <1>6 DEF BrokerTick, Dead
  <2>2. \A v \in Vehicles : presence[v] \in Int
    BY DEF TypeOK, Absent
  <2> QED BY <1>0, <2>1, <2>2 DEF Timed
<1>7. CASE Tick
  <2>1. \A v \in Vehicles : ~Waiting(v) /\ ~Waiting(v)'
    <3>1. \A k \in Messages : k \notin Underway
      BY <1>7 DEF Tick, Underway, Messages, Nothing
    <3> QED BY <1>1, <1>7, <3>1 DEF Tick, Waiting
  <2>2. timer' = timer - 1
    BY <1>7 DEF Tick
  <2>3. ASSUME NEW v \in Vehicles, presence'[v] # Absent
        PROVE  /\ unheard'[v] <= presence'[v]
               /\ presence'[v] <= Lease + (Repeat - timer')
               /\ presence'[v] = unheard'[v]
    <3>1. /\ presence[v] # Absent /\ presence'[v] = Older(presence[v])
          /\ unheard'[v] = Older(unheard[v])
      BY <1>7, <2>3 DEF Tick
    <3>2. presence[v] = unheard[v] /\ presence[v] <= Lease + (Repeat - timer)
      BY <2>1, <3>1 DEF Timed
    <3>3. unheard[v] \in 0 .. Horizon /\ Older(unheard[v]) <= unheard[v] + 1
          /\ Older(unheard[v]) \in Int
      BY OlderType DEF TypeOK
    <3> QED BY <1>0, <2>2, <3>1, <3>2, <3>3
  <2> QED BY <2>1, <2>3 DEF Timed
<1>8. CASE UNCHANGED <<presence, unheard, timer, raw, echo>>
  <2>1. \A v \in Vehicles : Waiting(v)' <=> Waiting(v)
    BY <1>1, <1>8
  <2> QED BY <1>8, <2>1 DEF Timed
<1> QED BY <1>2, <1>3, <1>4, <1>5, <1>6, <1>7, <1>8
        DEF Next, RequestLost, Move, SendStop, SendRepeat, tracker, repeater, vars

\* No interest outlives its vehicle by more than the lease and one period of the
\* repeater: what the tracker counts is at least the silence, whatever it has still to
\* handle, and broker_tick looks at it every period.
THEOREM GoneAreForgotten == Spec => []ForgottenInTime
<1>1. TypeOK /\ RegisteredArePresent /\ Timed => ForgottenInTime
  <2> SUFFICES ASSUME TypeOK, RegisteredArePresent, Timed, NEW p \in interests
               PROVE  unheard[VehicleOf[p[2]]] <= Lease + Repeat
    BY DEF ForgottenInTime
  <2> DEFINE v == VehicleOf[p[2]]
  <2>1. v \in Vehicles
    BY VehiclesAssumption DEF TypeOK, Pairs
  <2>2. presence[v] # Absent
    BY DEF RegisteredArePresent
  <2> HIDE DEF v
  <2>3. unheard[v] <= presence[v] /\ presence[v] <= Lease + (Repeat - timer)
    BY <2>1, <2>2 DEF Timed
  <2>4. /\ unheard[v] \in Int /\ presence[v] \in Int /\ timer \in 0 .. Repeat
        /\ Lease \in Nat /\ Repeat \in Nat
    BY <2>1, TimingAssumption DEF TypeOK, Absent
  <2>5. unheard[v] <= Lease + Repeat
    BY <2>3, <2>4
  <2> QED BY <2>5 DEF v
<1>2. Init => RegisteredArePresent
  BY DEF Init, RegisteredArePresent
<1> QED BY <1>1, <1>2, TypeInit, TypeStep, PresentStep, TimedInit, TimedStep, PTL DEF Spec

\* An interest is dropped by update only when its consumer says so, and by broker_tick
\* only after its vehicle was silent for the lease, but for a message that both
\* threads have still to handle.
THEOREM OnlySilentAreDropped == Spec => DropsOnlySilent
<1> DEFINE Excused(p) ==
      \/ \E m \in Underway : m.kind = "disinterest" /\ Pair(m) = p
      \/ unheard[VehicleOf[p[2]]] > Lease
      \/ \E m \in Underway : m.kind = "interest" /\ VehicleOf[m.from] = VehicleOf[p[2]]
<1>1. ASSUME TypeOK, RegisteredArePresent, Timed, [Next]_vars, NEW p \in interests \ interests'
      PROVE  Excused(p)
  <2>1. ASSUME NEW m \in Underway, m \in Messages, Update(m) PROVE Excused(p)
    BY <1>1, <2>1 DEF Update
  <2>2. CASE RawUpdate
    <3>1. raw \in Messages /\ raw \in Underway
      BY <1>1, <2>2 DEF RawUpdate, TypeOK, Underway
    <3> QED BY <2>1, <2>2, <3>1 DEF RawUpdate
  <2>3. CASE EchoUpdate
    <3>1. 1 \in DOMAIN echo /\ Head(echo) = echo[1] /\ echo[1] \in Messages
      BY <1>1, <2>3 DEF EchoUpdate, TypeOK
    <3>2. Head(echo) \in Messages /\ Head(echo) \in Underway
      BY <3>1 DEF Underway
    <3> QED BY <2>1, <2>3, <3>2 DEF EchoUpdate
  <2>4. CASE BrokerTick
    <3> DEFINE v == VehicleOf[p[2]]
    <3>1. v \in Vehicles /\ presence[v] > Lease
      BY <1>1, <2>4 DEF BrokerTick, Dead
    <3>2. presence[v] # Absent
      BY <1>1 DEF RegisteredArePresent
    <3>3. presence[v] = unheard[v] \/ Waiting(v)
      BY <1>1, <3>1, <3>2 DEF Timed
    <3> QED BY <3>1, <3>3 DEF Waiting
  <2>5. CASE interests' = interests
    BY <1>1, <2>5
  <2> QED
    BY <1>1, <2>2, <2>3, <2>4, <2>5
    DEF Next, RequestHeard, RequestLost, Move, Receive, SendStop, SendRepeat, Tick, tracker, vars
<1>2. TypeOK /\ RegisteredArePresent /\ Timed /\ [Next]_vars =>
        [\A p \in interests \ interests' : Excused(p)]_vars
  BY <1>1
<1>3. Init => RegisteredArePresent
  BY DEF Init, RegisteredArePresent
<1> QED BY <1>2, <1>3, TypeInit, TypeStep, PresentStep, TimedInit, TimedStep, PTL
        DEF Spec, DropsOnlySilent

-----------------------------------------------------------------------------
(* A vehicle that stays and is heard. *)

\* While no vehicle has moved, the tracker only knows of vehicles in reach; while no
\* request is lost either, each asks again before its lease ends.
Staying ==
  \A v \in Vehicles :
    /\ asks[v] <= Lease
    /\ moves = 0 /\ (presence[v] # Absent \/ Waiting(v)) => near[v]
    /\ moves = 0 /\ losses = 0 /\ presence[v] # Absent => presence[v] + asks[v] <= Lease

\* Handling an interest makes a vehicle present that is near.
LEMMA StayingUpdate ==
  ASSUME TypeOK, Staying, NEW m \in Messages, m \in Underway, Update(m),
         UNCHANGED <<near, asks, moves, losses>>,
         \A k \in Messages : k \in Underway' => k \in Underway
  PROVE  Staying'
<1>1. \A v \in Vehicles : Waiting(v)' => Waiting(v)
  BY DEF Waiting
<1>2. CASE m.kind = "disinterest"
  BY <1>1, <1>2 DEF Update, Staying
<1>3. CASE m.kind # "disinterest"
  <2> DEFINE w == VehicleOf[m.from]
  <2>1. /\ w \in Vehicles /\ presence'[w] = 0 /\ Waiting(w)
        /\ \A v \in Vehicles : v # w => presence'[v] = presence[v]
    BY <1>3, UpdateType DEF Update, TypeOK, Waiting
  <2>2. asks[w] \in Nat /\ 0 + asks[w] <= Lease
    BY <2>1 DEF TypeOK, Staying
  <2> HIDE DEF w
  <2> QED BY <1>1, <2>1, <2>2 DEF Staying
<1> QED BY <1>2, <1>3

LEMMA StayingStep ==
  ASSUME SyncPeriod <= Lease, Poll <= Lease
  PROVE  TypeOK /\ Staying /\ [Next]_vars => Staying'
<1> SUFFICES ASSUME TypeOK, Staying, [Next]_vars PROVE Staying'
  OBVIOUS
<1>0. ASSUME UNCHANGED <<raw, echo>> PROVE \A v \in Vehicles : Waiting(v)' <=> Waiting(v)
  BY <1>0 DEF Waiting, Underway
<1>1. ASSUME NEW v \in Vehicles, RequestHeard(v) PROVE Staying'
  <2>1. /\ presence'[v] = 0 /\ asks'[v] <= Lease /\ asks'[v] \in Nat /\ near[v]
        /\ UNCHANGED <<near, moves, losses>>
        /\ \A w \in Vehicles : w # v => presence'[w] = presence[w] /\ asks'[w] = asks[w]
    BY <1>1, TimingAssumption DEF RequestHeard, OnPresence, TypeOK
  <2>2. \A w \in Vehicles : Waiting(w)' <=> Waiting(w)
    BY <1>0, <1>1 DEF RequestHeard
  <2>3. presence'[v] + asks'[v] <= Lease
    BY <2>1
  <2> QED BY <2>1, <2>2, <2>3 DEF Staying
<1>2. ASSUME NEW v \in Vehicles, RequestLost(v) PROVE Staying'
  <2>1. /\ asks'[v] <= Lease /\ UNCHANGED <<presence, near, moves>>
        /\ \A w \in Vehicles : w # v => asks'[w] = asks[w]
        /\ near[v] => losses' # 0
        /\ ~near[v] => losses' = losses
    BY <1>2, TimingAssumption DEF RequestLost, tracker, TypeOK
  <2>2. \A w \in Vehicles : Waiting(w)' <=> Waiting(w)
    BY <1>0, <1>2 DEF RequestLost
  <2>3. losses' = 0 => losses = 0
    BY <1>2 DEF RequestLost, TypeOK
  <2> QED BY <2>1, <2>2, <2>3 DEF Staying
<1>3. ASSUME NEW v \in Vehicles, Move(v) PROVE Staying'
  <2>1. moves' # 0 /\ asks' = asks
    BY <1>3 DEF Move, TypeOK
  <2> QED BY <2>1 DEF Staying
<1>4. ASSUME NEW m \in Messages, Receive(m) PROVE Staying'
  <2>1. /\ UNCHANGED <<presence, near, asks, moves, losses>>
        /\ near[VehicleOf[m.from]]
        /\ \A k \in Messages : k \in Underway' => k \in Underway \/ k = m
    BY <1>4, UnderwayReceived DEF Receive, tracker, vehicles
  <2>2. \A v \in Vehicles : Waiting(v)' => Waiting(v) \/ v = VehicleOf[m.from]
    BY <2>1 DEF Waiting
  <2> QED BY <2>1, <2>2 DEF Staying
<1>5. CASE RawUpdate
  <2>1. raw \in Messages /\ raw \in Underway
    BY <1>5 DEF RawUpdate, TypeOK, Underway
  <2> QED BY <1>5, <2>1, StayingUpdate, UnderwayRaw DEF RawUpdate, vehicles
<1>6. CASE EchoUpdate
  <2>1. Head(echo) \in Messages /\ Head(echo) \in Underway
    <3>1. 1 \in DOMAIN echo /\ Head(echo) = echo[1] /\ echo[1] \in Messages
      BY <1>6 DEF EchoUpdate, TypeOK
    <3> QED BY <3>1 DEF Underway
  <2> QED BY <1>6, <2>1, StayingUpdate, UnderwayEcho DEF EchoUpdate, vehicles
<1>7. CASE BrokerTick
  <2>1. /\ \A v \in Vehicles : Waiting(v)' <=> Waiting(v)
        /\ \A v \in Vehicles : presence'[v] = presence[v] \/ presence'[v] = Absent
        /\ UNCHANGED <<near, asks, moves, losses>>
    BY <1>0, <1>7 DEF BrokerTick, vehicles
  <2> QED BY <2>1 DEF Staying
<1>8. CASE Tick
  <2>1. \A v \in Vehicles : Waiting(v)' <=> Waiting(v)
    BY <1>0, <1>8 DEF Tick
  <2>2. ASSUME NEW v \in Vehicles
        PROVE  /\ asks'[v] = asks[v] - 1 /\ asks[v] \in Nat
               /\ presence[v] = Absent => presence'[v] = Absent
               /\ presence'[v] # Absent =>
                    presence[v] \in Nat /\ presence'[v] \in Nat /\ presence'[v] <= presence[v] + 1
    <3>1. asks'[v] = asks[v] - 1 /\ asks[v] \in Nat
      BY <1>8 DEF Tick, TypeOK
    <3>2. CASE presence[v] = Absent
      BY <1>8, <3>1, <3>2 DEF Tick
    <3>3. CASE presence[v] # Absent
      <4>1. presence[v] \in 0 .. Horizon /\ presence'[v] = Older(presence[v])
        BY <1>8, <3>3 DEF Tick, TypeOK
      <4>2. Older(presence[v]) \in 0 .. Horizon /\ Older(presence[v]) <= presence[v] + 1
        BY <4>1, OlderType
      <4> QED BY <3>1, <3>3, <4>1, <4>2
    <3> QED BY <3>2, <3>3
  <2>3. UNCHANGED <<near, moves, losses>> /\ Lease \in Nat
    BY <1>8, TimingAssumption DEF Tick
  <2> QED BY <2>1, <2>2, <2>3 DEF Staying
<1>9. CASE UNCHANGED <<presence, asks, near, moves, losses, raw, echo>>
  <2>1. \A v \in Vehicles : Waiting(v)' <=> Waiting(v)
    BY <1>0, <1>9
  <2> QED BY <1>9, <2>1 DEF Staying
<1> QED BY <1>1, <1>2, <1>3, <1>4, <1>5, <1>6, <1>7, <1>8, <1>9
        DEF Next, SendStop, SendRepeat, tracker, vehicles, vars

\* A vehicle that stays and is heard keeps its presence: with requests at most a lease
\* apart, broker_tick never finds it dead.
THEOREM NobodyTakenForGone ==
  ASSUME SyncPeriod <= Lease, Poll <= Lease
  PROVE  Spec => NeverTakenForGone
<1>1. Init => Staying
  <2> SUFFICES ASSUME Init PROVE Staying
    OBVIOUS
  <2>1. \A v \in Vehicles : ~Waiting(v)
    BY DEF Init, Waiting, Underway, Messages, Nothing
  <2> QED BY <2>1, TimingAssumption DEF Init, Staying
<1>2. TypeOK /\ Staying /\ [Next]_vars =>
        [moves = 0 /\ losses = 0 =>
           \A v \in Vehicles : presence[v] # Absent => presence'[v] # Absent]_vars
  <2> SUFFICES ASSUME TypeOK, Staying, [Next]_vars, moves = 0, losses = 0,
                      NEW v \in Vehicles, presence[v] # Absent
               PROVE  presence'[v] # Absent
    OBVIOUS
  <2>1. presence[v] \in 0 .. Horizon /\ \A n \in 0 .. Horizon : n # Absent
    BY DEF TypeOK, Absent
  <2>2. 0 \in 0 .. Horizon
    BY TimingAssumption DEF Horizon
  <2>3. CASE BrokerTick
    <3>1. asks[v] \in Nat /\ presence[v] + asks[v] <= Lease
      BY DEF TypeOK, Staying
    <3>2. v \notin Dead
      BY <2>1, <3>1, TimingAssumption DEF Dead
    <3> QED BY <2>3, <3>2 DEF BrokerTick
  <2>4. CASE Tick
    <3>1. Older(presence[v]) \in 0 .. Horizon
      BY <2>1, OlderType
    <3> QED BY <2>1, <2>4, <3>1 DEF Tick
  <2>5. ASSUME NEW m \in Messages, Update(m) PROVE presence'[v] # Absent
    BY <2>1, <2>2, <2>5 DEF Update, TypeOK
  <2>6. CASE RawUpdate \/ EchoUpdate
    <3>1. RawUpdate => raw \in Messages
      BY DEF RawUpdate, TypeOK
    <3>2. EchoUpdate => Head(echo) \in Messages
      BY DEF EchoUpdate, TypeOK
    <3> QED BY <2>5, <2>6, <3>1, <3>2 DEF RawUpdate, EchoUpdate
  <2>7. ASSUME NEW w \in Vehicles, RequestHeard(w) PROVE presence'[v] # Absent
    BY <2>1, <2>2, <2>7 DEF RequestHeard, OnPresence, TypeOK
  <2>8. CASE presence' = presence
    BY <2>8
  <2> QED BY <2>3, <2>4, <2>6, <2>7, <2>8
          DEF Next, RequestLost, Move, Receive, SendStop, SendRepeat, tracker, vars
<1> QED BY <1>1, <1>2, TypeInit, TypeStep, StayingStep, PTL DEF Spec, NeverTakenForGone
=============================================================================
