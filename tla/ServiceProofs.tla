---------------------------- MODULE ServiceProofs ----------------------------
(***************************************************************************)
(* Theorems about Service, for any number of consumers, any periods, timers *)
(* and lease lengths and any number of faults: responses end, silences are *)
(* bounded and announced values stay fresh.                                *)
(***************************************************************************)
EXTENDS Service, FiniteSetTheorems, WellFoundedInduction, TLAPS

(* The lease of a: whether there is one, its period and what is left of it. *)
Has(a)  == a \in Bound(bindings)
Per(a)  == bindings[a].period
Left(a) == bindings[a].left

PeriodsAsked == {Period[c] : c \in Consumers}

Timers ==
  /\ station \in BOOLEAN /\ announced \in BOOLEAN
  /\ on \subseteq Consumers /\ near \subseteq Consumers
  /\ registered \subseteq subscribed /\ on \subseteq subscribed /\ subscribed \subseteq Consumers
  /\ registered # {} => station
  /\ wake \in [Consumers -> 0 .. Refresh] /\ silence \in [Consumers -> Nat]
  /\ presence \in [Consumers -> {Off} \cup Nat]
  /\ reaper \in 0 .. ReaperPeriod /\ timer \in 0 .. Repeat
  /\ calm \in [Consumers -> Nat] /\ known \in [Consumers -> Nat] /\ unwanted \in Nat
  /\ faults \in 0 .. MaxFaults

\* Leases are for periods consumers ask for, and there is a response to come while there
\* is a lease.
Leases ==
  /\ bindings \in [Addresses -> [period : Nat, left : Int]]
  /\ \A a \in Addresses : Has(a) => Per(a) \in PeriodsAsked
  /\ \A c \in Consumers : Has(c) => Per(c) = Period[c]
  /\ due \in {Off} \cup 0 .. LongestPeriod
  /\ due = Off <=> \A a \in Addresses : ~Has(a)

Basis == Timers /\ Leases

-----------------------------------------------------------------------------
(* Least and greatest numbers. *)

\* The least of some natural numbers.
LEMMA MinOf ==
  ASSUME NEW S \in SUBSET Nat, S # {}
  PROVE  Min(S) \in S /\ \A y \in S : Min(S) <= y
<1> DEFINE Below == {0 .. x - 1 : x \in S}
<1>1. Below \subseteq FiniteSubsetsOf(Nat) /\ Below # {}
  <2>1. ASSUME NEW x \in S PROVE 0 .. x - 1 \in FiniteSubsetsOf(Nat)
    <3>1. x - 1 \in Int
      OBVIOUS
    <3>2. IsFiniteSet(0 .. x - 1)
      BY <3>1, FS_Interval
    <3> QED BY <3>2 DEF FiniteSubsetsOf
  <2> QED BY <2>1
<1>2. PICK X \in Below : \A Y \in Below : <<Y, X>> \notin StrictSubsetOrdering(Nat)
  BY <1>1, FS_StrictSubsetOrderingWellFounded, WFMin
<1>3. PICK x \in S : X = 0 .. x - 1
  OBVIOUS
<1>4. ASSUME NEW y \in S, y < x PROVE FALSE
  <2>1. 0 .. y - 1 \subseteq 0 .. x - 1 /\ y \in 0 .. x - 1 /\ y \notin 0 .. y - 1
    BY <1>4
  <2>2. <<0 .. y - 1, 0 .. x - 1>> \in StrictSubsetOrdering(Nat)
    BY <2>1 DEF StrictSubsetOrdering
  <2> QED BY <1>2, <1>3, <2>2
<1>5. \A y \in S : x <= y
  BY <1>4
<1> QED BY <1>5 DEF Min

\* The greatest of finitely many.
LEMMA MaxOf ==
  ASSUME NEW S \in SUBSET Nat, S # {}, IsFiniteSet(S)
  PROVE  Max(S) \in S /\ \A y \in S : y <= Max(S)
<1> DEFINE HasMax(X) == \E x \in X : \A y \in X : x >= y
           Without == {X \in FiniteSubsetsOf(Nat) : X # {} /\ ~HasMax(X)}
<1>1. Without = {}
  <2> SUFFICES ASSUME Without # {} PROVE FALSE
    OBVIOUS
  <2>1. PICK X \in Without : \A Y \in Without : <<Y, X>> \notin StrictSubsetOrdering(Nat)
    BY FS_StrictSubsetOrderingWellFounded, WFMin
  <2>2. PICK x \in X : TRUE
    OBVIOUS
  <2>3. X \subseteq Nat /\ IsFiniteSet(X) /\ ~HasMax(X)
    BY DEF FiniteSubsetsOf
  <2>4. X \ {x} \in FiniteSubsetsOf(Nat)
    BY <2>3, FS_RemoveElement DEF FiniteSubsetsOf
  <2>5. <<X \ {x}, X>> \in StrictSubsetOrdering(Nat)
    BY <2>3 DEF StrictSubsetOrdering
  <2>6. X \ {x} = {} \/ HasMax(X \ {x})
    BY <2>1, <2>4, <2>5
  <2>7. HasMax(X)
    <3>1. CASE X \ {x} = {}
      BY <3>1, <2>3
    <3>2. CASE HasMax(X \ {x})
      <4>1. PICK m \in X \ {x} : \A y \in X \ {x} : m >= y
        BY <3>2
      <4>2. m \in Nat /\ x \in Nat
        BY <2>3
      <4>3. CASE m >= x
        BY <4>1, <4>2, <4>3, <2>3
      <4>4. CASE x >= m
        <5>1. \A y \in X : x >= y
          BY <4>1, <4>2, <4>4, <2>3
        <5> QED BY <5>1
      <4> QED BY <4>2, <4>3, <4>4
    <3> QED BY <2>6, <3>1, <3>2
  <2> QED BY <2>3, <2>7
<1>2. S \in FiniteSubsetsOf(Nat)
  BY DEF FiniteSubsetsOf
<1>3. PICK x \in S : \A y \in S : x >= y
  BY <1>1, <1>2
<1>4. Max(S) \in S /\ \A y \in S : Max(S) >= y
  BY <1>3 DEF Max
<1> QED BY <1>4

\* The greater of two.
LEMMA MaxTwo ==
  ASSUME NEW m \in Nat, NEW n \in Nat
  PROVE  /\ Max({m, n}) \in Nat /\ Max({m, n}) >= m /\ Max({m, n}) >= n
         /\ Max({m, n}) = m \/ Max({m, n}) = n
<1>1. \E x \in {m, n} : \A y \in {m, n} : x >= y
  <2>1. CASE m >= n
    BY <2>1
  <2>2. CASE n >= m
    BY <2>2
  <2> QED BY <2>1, <2>2
<1>2. Max({m, n}) \in {m, n} /\ \A y \in {m, n} : Max({m, n}) >= y
  BY <1>1 DEF Max
<1> QED BY <1>2

\* A clock moves on by a tick or stops.
LEMMA OlderBy ==
  ASSUME NEW n \in Nat, NEW limit \in Nat
  PROVE  Older(n, limit) \in Nat /\ Older(n, limit) <= n + 1
<1>1. {n + 1, limit + 1} \subseteq Nat /\ {n + 1, limit + 1} # {}
  OBVIOUS
<1>2. Min({n + 1, limit + 1}) \in {n + 1, limit + 1}
      /\ Min({n + 1, limit + 1}) <= n + 1
  BY <1>1, MinOf
<1> QED BY <1>2 DEF Older

\* The periods asked for are positive, and finitely many.
LEMMA Asked ==
  /\ PeriodsAsked \subseteq Nat \ {0} /\ PeriodsAsked # {} /\ IsFiniteSet(PeriodsAsked)
  /\ \A c \in Consumers : Period[c] \in PeriodsAsked
<1> DEFINE f == [c \in Consumers |-> Period[c]]
<1>1. f \in Surjection(Consumers, PeriodsAsked)
  BY DEF Surjection, PeriodsAsked
<1>2. IsFiniteSet(PeriodsAsked)
  BY <1>1, ConsumersAssumption, FS_Surjection
<1> QED BY <1>2, PeriodAssumption, ConsumersAssumption DEF PeriodsAsked

\* The longest period is one of them.
LEMMA Longest ==
  /\ LongestPeriod \in Nat \ {0}
  /\ \A p \in PeriodsAsked : p \in Nat \ {0} /\ p <= LongestPeriod
<1>1. PeriodsAsked \in SUBSET Nat
  BY Asked
<1>2. Max(PeriodsAsked) \in PeriodsAsked /\ \A p \in PeriodsAsked : p <= Max(PeriodsAsked)
  BY <1>1, Asked, MaxOf
<1>3. LongestPeriod = Max(PeriodsAsked)
  BY DEF LongestPeriod, PeriodsAsked
<1> QED BY <1>2, <1>3, Asked

\* Leases grow with the period.
LEMMA LifeGrows ==
  ASSUME NEW p \in Nat, NEW q \in Nat, p <= q
  PROVE  /\ Life(p) \in Nat /\ Life(q) \in Nat /\ Life(p) <= Life(q)
         /\ Life(p) >= LifetimeMin
<1>1. Factor * p \in Nat /\ Factor * q \in Nat
  BY TimingAssumption
<1>2. Factor * p <= Factor * q
  <2>1. Factor * q = Factor * p + Factor * (q - p)
    BY TimingAssumption
  <2>2. Factor * (q - p) \in Nat
    BY TimingAssumption
  <2> QED BY <1>1, <2>1, <2>2
<1>3. LifetimeMin \in Nat
  BY TimingAssumption
<1>4. /\ Life(p) \in Nat /\ Life(p) >= LifetimeMin
      /\ Life(p) = LifetimeMin \/ Life(p) = Factor * p
  BY <1>1, <1>3, MaxTwo DEF Life
<1>5. /\ Life(q) \in Nat /\ Life(q) >= LifetimeMin /\ Life(q) >= Factor * q
  BY <1>1, <1>3, MaxTwo DEF Life
<1> QED BY <1>1, <1>2, <1>3, <1>4, <1>5

\* What the limits of the properties are.
LEMMA Limits ==
  /\ SilenceLimit \in Nat /\ SilenceLimit >= LongestPeriod /\ SilenceLimit >= 2 * Refresh - 1
  /\ Settling \in Nat /\ Settling = MaxFaults * Repeat + LongestPeriod
  /\ MaxFaults * Repeat \in Nat
  /\ StopLimit \in Nat
  /\ StopLimit = Lease + Repeat + Life(LongestPeriod) + ReaperPeriod
  /\ \A c \in Consumers : Ttl(c) \in Nat
<1>1. /\ Refresh \in Nat \ {0} /\ Repeat \in Nat /\ MaxFaults \in Nat /\ Lease \in Nat
      /\ ReaperPeriod \in Nat /\ TtlFactor \in Nat
  BY TimingAssumption
<1>2. LongestPeriod \in Nat /\ Life(LongestPeriod) \in Nat /\ 2 * Refresh - 1 \in Nat
  BY <1>1, Longest, LifeGrows
<1>3. SilenceLimit \in Nat /\ SilenceLimit >= LongestPeriod /\ SilenceLimit >= 2 * Refresh - 1
  BY <1>2, MaxTwo DEF SilenceLimit
<1>4. MaxFaults * Repeat \in Nat
  BY <1>1
<1>5. \A c \in Consumers : Ttl(c) \in Nat
  BY <1>1, PeriodAssumption DEF Ttl
<1> QED BY <1>1, <1>2, <1>3, <1>4, <1>5 DEF Settling, StopLimit

-----------------------------------------------------------------------------
(* What the steps do to the leases of the producer. *)

Same(a) == (Has(a)' <=> Has(a)) /\ Per(a)' = Per(a) /\ Left(a)' = Left(a)
Grants(a, p) == Has(a)' /\ Per(a)' = p /\ Left(a)' = Life(p)
Drops(a) == ~Has(a)'
OthersSame(a) == \A x \in Addresses \ {a} : Same(x)

\* resync_threads, seen from the leases.
Follows ==
  /\ (\A a \in Addresses : ~Has(a)') => due' = Off
  /\ (\E a \in Addresses : Has(a)') => due' = IF due = Off THEN 0 ELSE due

Idles == (\A a \in Addresses : Same(a)) /\ due' = due

\* A producer that hears the interest, or the disinterest, of a.
Takes(a, p) == Grants(a, p) /\ OthersSame(a) /\ Follows
Forgets(a) == Drops(a) /\ OthersSame(a) /\ Follows

\* No lease is no period and nothing left.
LEMMA Leaseless ==
  ASSUME Leases
  PROVE  /\ NoLease \in [period : Nat, left : Int] /\ NoLease.period = 0 /\ NoLease.left = 0
         /\ \A a \in Addresses : /\ Has(a) <=> bindings[a] # NoLease
                                 /\ Per(a) \in Nat /\ Left(a) \in Int
                                 /\ ~Has(a) => Left(a) = 0
<1>1. NoLease \in [period : Nat, left : Int] /\ NoLease.period = 0 /\ NoLease.left = 0
  BY DEF NoLease
<1> QED BY <1>1 DEF Leases, Has, Bound, Per, Left

\* A resync starts the response thread for the first lease and stops it with the last.
LEMMA Resyncs ==
  ASSUME NEW b, bindings' = b, Resync(b)
  PROVE  Follows
<1>1. Bound(b) = {} <=> \A a \in Addresses : ~Has(a)'
  BY DEF Bound, Has
<1> QED BY <1>1 DEF Resync, Follows

\* A step that leaves the producer alone.
LEMMA Idling == ASSUME UNCHANGED <<bindings, due>> PROVE Idles
  BY DEF Idles, Same, Has, Bound, Per, Left

\* An interest grants a lease, a disinterest drops it.
LEMMA Hearing ==
  ASSUME Leases, NEW a \in Addresses, NEW p \in Nat \ {0}, NEW m,
         m = Interest(a, p) \/ m = Disinterest(a), ProducerHears(m)
  PROVE  /\ bindings' \in [Addresses -> [period : Nat, left : Int]]
         /\ m = Interest(a, p) => Takes(a, p)
         /\ m = Disinterest(a) => Forgets(a)
<1> DEFINE l == IF m.period = 0 THEN NoLease ELSE [period |-> m.period, left |-> Life(m.period)]
<1>1. m.from = a /\ (m = Interest(a, p) => m.period = p) /\ (m = Disinterest(a) => m.period = 0)
  BY DEF Interest, Disinterest
<1>2. bindings' = [bindings EXCEPT ![a] = l] /\ Follows
  BY <1>1, Resyncs DEF ProducerHears, Resync
<1>3. Life(p) \in Nat
  BY LifeGrows
<1>4. /\ m.period = 0 => l = NoLease
      /\ m.period = p => l.period = p /\ l.left = Life(p) /\ l \in [period : Nat, left : Int]
  BY <1>3
<1>5. l \in [period : Nat, left : Int]
  BY <1>1, <1>4, Leaseless
<1> HIDE DEF l
<1>6. /\ bindings' \in [Addresses -> [period : Nat, left : Int]] /\ bindings'[a] = l
      /\ \A x \in Addresses \ {a} : bindings'[x] = bindings[x]
  BY <1>2, <1>5 DEF Leases
<1>7. OthersSame(a)
  BY <1>6 DEF OthersSame, Same, Has, Bound, Per, Left
<1>8. ASSUME m.period = 0 PROVE Drops(a)
  BY <1>4, <1>6, <1>8 DEF Drops, Has, Bound
<1>9. ASSUME m.period = p PROVE Grants(a, p)
  <2>1. l # NoLease
    BY <1>4, <1>9, Leaseless
  <2> QED BY <1>4, <1>6, <1>9, <2>1 DEF Grants, Has, Bound, Per, Left
<1> QED BY <1>1, <1>2, <1>6, <1>7, <1>8, <1>9 DEF Takes, Forgets

\* A round of the reaper drops the leases that have run out.
Reaps ==
  /\ \A a \in Addresses : IF Has(a) /\ Left(a) < 0 THEN Drops(a) ELSE Same(a)
  /\ Follows

\* A round of the reaper.
LEMMA Reaping ==
  ASSUME Leases, Reap
  PROVE  bindings' \in [Addresses -> [period : Nat, left : Int]] /\ Reaps
<1>1. bindings' = [a \in Addresses |-> IF bindings[a].left < 0 THEN NoLease ELSE bindings[a]]
      /\ Follows
  BY Resyncs DEF Reap, Resync
<1>2. \A a \in Addresses : bindings[a] \in [period : Nat, left : Int]
  BY DEF Leases
<1>3. bindings' \in [Addresses -> [period : Nat, left : Int]]
  BY <1>1, <1>2, Leaseless
<1>4. ASSUME NEW a \in Addresses
      PROVE  IF Has(a) /\ Left(a) < 0 THEN Drops(a) ELSE Same(a)
  <2>1. CASE Left(a) < 0
    <3>1. Has(a) /\ bindings'[a] = NoLease
      BY <1>1, <2>1, Leaseless DEF Left
    <3> QED BY <2>1, <3>1 DEF Drops, Has, Bound
  <2>2. CASE ~(Left(a) < 0)
    <3>1. bindings'[a] = bindings[a]
      BY <1>1, <2>2 DEF Left
    <3> QED BY <2>2, <3>1 DEF Same, Has, Bound, Per, Left
  <2> QED BY <2>1, <2>2
<1> QED BY <1>1, <1>3, <1>4 DEF Reaps

\* A tick shortens every lease, and the wait for the next response.
Wanes(a) == (Has(a)' <=> Has(a)) /\ (Has(a) => Per(a)' = Per(a) /\ Left(a)' = Left(a) - 1)

\* A tick, seen from the leases.
LEMMA Ticking ==
  ASSUME Leases, Tick
  PROVE  /\ bindings' \in [Addresses -> [period : Nat, left : Int]]
         /\ \A a \in Addresses : Wanes(a)
<1>1. bindings' = [a \in Addresses |-> IF bindings[a] = NoLease THEN NoLease
                                       ELSE [bindings[a] EXCEPT !.left = @ - 1]]
  BY DEF Tick
<1>2. \A a \in Addresses : bindings[a] \in [period : Nat, left : Int]
  BY DEF Leases
<1>3. ASSUME NEW a \in Addresses, Has(a)
      PROVE  /\ bindings'[a] \in [period : Nat, left : Int]
             /\ bindings'[a].period = Per(a) /\ bindings'[a].left = Left(a) - 1
             /\ bindings'[a] # NoLease
  <2>1. bindings[a] # NoLease /\ bindings'[a] = [bindings[a] EXCEPT !.left = bindings[a].left - 1]
    BY <1>1, <1>3, Leaseless
  <2>2. /\ bindings'[a] \in [period : Nat, left : Int]
        /\ bindings'[a].period = bindings[a].period /\ bindings'[a].left = bindings[a].left - 1
    BY <1>2, <2>1
  <2>3. Per(a) # 0
    BY <1>3, Asked DEF Leases
  <2> QED BY <2>2, <2>3, Leaseless DEF Per, Left
<1>4. ASSUME NEW a \in Addresses, ~Has(a)
      PROVE  bindings'[a] = NoLease
  BY <1>1, <1>4, Leaseless
<1>5. bindings' \in [Addresses -> [period : Nat, left : Int]]
  <2>1. \A a \in Addresses : bindings'[a] \in [period : Nat, left : Int]
    BY <1>3, <1>4, Leaseless
  <2>2. bindings' = [a \in Addresses |-> bindings'[a]]
    BY <1>1
  <2> QED BY <2>1, <2>2
<1>6. ASSUME NEW a \in Addresses PROVE Wanes(a)
  <2>1. CASE Has(a)
    <3>1. Has(a)'
      BY <1>3, <2>1 DEF Has, Bound
    <3> QED BY <1>3, <2>1, <3>1 DEF Wanes, Per, Left
  <2>2. CASE ~Has(a)
    <3>1. ~Has(a)'
      BY <1>4, <2>2 DEF Has, Bound
    <3> QED BY <2>2, <3>1 DEF Wanes
  <2> QED BY <2>1, <2>2
<1> QED BY <1>5, <1>6

\* A response is due again after the shortest period of a lease.
LEMMA Responding ==
  ASSUME Leases, due = 0, due' = Min({bindings[a].period : a \in Bound(bindings)})
  PROVE  /\ due' \in 0 .. LongestPeriod
         /\ \A a \in Addresses : Has(a) => due' <= Per(a)
<1> DEFINE S == {bindings[a].period : a \in Bound(bindings)}
<1>1. PICK b \in Addresses : Has(b)
  BY DEF Leases, Off
<1>2. S \subseteq PeriodsAsked
  BY DEF Leases, Has, Per, Bound
<1>3. bindings[b].period \in S
  BY <1>1 DEF Has
<1>4. S \in SUBSET Nat /\ S # {}
  BY <1>2, <1>3, Longest
<1>5. Min(S) \in S /\ \A y \in S : Min(S) <= y
  BY <1>4, MinOf
<1>6. due' = Min(S)
  OBVIOUS
<1>7. \A a \in Addresses : Has(a) => Per(a) \in S
  BY DEF Has, Per
<1> HIDE DEF S
<1>8. due' \in PeriodsAsked
  BY <1>2, <1>5, <1>6
<1>9. due' \in 0 .. LongestPeriod
  BY <1>8, Longest
<1>10. \A a \in Addresses : Has(a) => due' <= Per(a)
  BY <1>5, <1>6, <1>7
<1> QED BY <1>9, <1>10

\* The announcement is for a period somebody asked for, and no longer than that of
\* any consumer it is for.
LEMMA Announcing ==
  ASSUME Timers, Alive # {}
  PROVE  \E p \in PeriodsAsked : /\ Announcement = Interest(Rsu, p)
                                 /\ \A c \in Alive : p <= Period[c]
<1> DEFINE S == {Period[c] : c \in Alive}
<1>1. Alive \subseteq Consumers
  BY DEF Alive, Timers
<1>2. S \subseteq PeriodsAsked /\ S # {}
  BY <1>1 DEF PeriodsAsked
<1>3. S \in SUBSET Nat
  BY <1>2, Longest
<1>4. Min(S) \in S /\ \A y \in S : Min(S) <= y
  BY <1>2, <1>3, MinOf
<1>5. Announcement = Interest(Rsu, Min(S))
  BY DEF Announcement
<1>6. \A c \in Alive : Period[c] \in S
  OBVIOUS
<1> HIDE DEF S
<1> QED BY <1>2, <1>4, <1>5, <1>6

\* The message of the broker: heard, lost, or not sent as there is nothing to say.
Announced ==
  \/ /\ faults' = faults
     /\ \E p \in PeriodsAsked : Takes(Rsu, p) /\ \A c \in Alive : p <= Period[c]
     /\ Alive # {}
  \/ Alive = {} /\ faults' = faults /\ Forgets(Rsu)
  \/ Idles /\ faults < MaxFaults /\ faults' = faults + 1
  \/ Alive = {} /\ Idles /\ faults' = faults

\* A round of the broker, seen from the producer.
LEMMA Broadcasting ==
  ASSUME Timers, Leases, BrokerTick
  PROVE  bindings' \in [Addresses -> [period : Nat, left : Int]] /\ Announced
<1> DEFINE said == IF Alive # {} THEN Announcement ELSE Disinterest(Rsu)
<1>1. \/ ProducerHears(said) /\ faults' = faults
      \/ UNCHANGED <<bindings, due>> /\ faults < MaxFaults /\ faults' = faults + 1
      \/ Alive = {} /\ UNCHANGED <<bindings, due, faults>>
  BY DEF BrokerTick
<1>2. Rsu \in Addresses /\ 1 \in Nat \ {0}
  BY DEF Addresses
<1>3. CASE ProducerHears(said) /\ faults' = faults /\ Alive # {}
  <2>1. PICK p \in PeriodsAsked : /\ Announcement = Interest(Rsu, p)
                                  /\ \A c \in Alive : p <= Period[c]
    BY <1>3, Announcing
  <2>2. p \in Nat \ {0} /\ said = Interest(Rsu, p)
    BY <1>3, <2>1, Asked
  <2> HIDE DEF said
  <2>3. bindings' \in [Addresses -> [period : Nat, left : Int]] /\ Takes(Rsu, p)
    BY <1>2, <1>3, <2>2, Hearing
  <2> QED BY <1>3, <2>1, <2>3 DEF Announced
<1>4. CASE ProducerHears(said) /\ faults' = faults /\ Alive = {}
  <2>1. said = Disinterest(Rsu)
    BY <1>4
  <2> HIDE DEF said
  <2>2. bindings' \in [Addresses -> [period : Nat, left : Int]] /\ Forgets(Rsu)
    BY <1>2, <1>4, <2>1, Hearing
  <2> QED BY <1>4, <2>2 DEF Announced
<1>5. CASE UNCHANGED <<bindings, due>> /\ faults < MaxFaults /\ faults' = faults + 1
  BY <1>5, Idling DEF Announced, Leases
<1>6. CASE Alive = {} /\ UNCHANGED <<bindings, due, faults>>
  BY <1>6, Idling DEF Announced, Leases
<1> QED BY <1>1, <1>3, <1>4, <1>5, <1>6

-----------------------------------------------------------------------------
(* What a message of a consumer does. *)

\* p is the period of an interest, 0 stands for a disinterest.
Says(c, p) == IF p = 0 THEN Disinterest(c) ELSE Interest(c, p)
Hears(c, p) == IF p = 0 THEN Forgets(c) ELSE Takes(c, p)
Registers(c, p) ==
  /\ registered' = IF p = 0 THEN registered \ {c} ELSE registered \cup {c}
  /\ \A x \in Consumers : presence'[x] = presence[x] \/ (x = c /\ p # 0 /\ presence'[x] = 0)
Ignores == registered' = registered /\ presence' = presence

\* It is out of the quadrant, all receivers hear it, or some miss it.
Unheard(c) == c \notin near /\ Idles /\ Ignores /\ UNCHANGED <<calm, known, faults>>
HeardByAll(c, p) ==
  /\ c \in near /\ Hears(c, p) /\ UNCHANGED <<calm, faults>>
  /\ IF station THEN Registers(c, p) ELSE Ignores
  /\ \A x \in Consumers \ {c} : known'[x] = known[x]
  /\ known'[c] = IF registered' = registered THEN known[c] ELSE 0
MissedBySome(c, p) ==
  /\ c \in near /\ faults' > faults
  /\ Idles \/ Hears(c, p)
  /\ Ignores \/ (station /\ Registers(c, p))
  /\ \A x \in Consumers \ {c} : calm'[x] = calm[x] /\ known'[x] = known[x]
  /\ calm'[c] = 0 /\ known'[c] = 0

Sent(c, p) ==
  /\ bindings' \in [Addresses -> [period : Nat, left : Int]]
  /\ presence' \in [Consumers -> {Off} \cup Nat]
  /\ calm' \in [Consumers -> Nat] /\ known' \in [Consumers -> Nat]
  /\ faults' \in faults .. MaxFaults
  /\ Unheard(c) \/ HeardByAll(c, p) \/ MissedBySome(c, p)

\* A message of a consumer, seen from the producer and the broker.
LEMMA Sending ==
  ASSUME Timers, Leases, NEW c \in Consumers, NEW p \in {0, Period[c]},
         NEW copies \in {1, 3}, Send(c, Says(c, p), copies)
  PROVE  Sent(c, p)
<1> DEFINE m == Says(c, p)
<1>1. p \in Nat /\ c \in Addresses /\ Period[c] \in Nat \ {0}
  BY PeriodAssumption DEF Addresses
<1>2. /\ m.from = c /\ m.period = p
      /\ p # 0 => m = Interest(c, p)
      /\ p = 0 => m = Disinterest(c)
  BY DEF Says, Interest, Disinterest
<1> HIDE DEF m
<1>3. ASSUME ProducerHears(m)
      PROVE  Hears(c, p) /\ bindings' \in [Addresses -> [period : Nat, left : Int]]
  <2>1. CASE p = 0
    <3>1. m = Disinterest(c)
      BY <1>2, <2>1
    <3> QED BY <1>1, <1>3, <2>1, <3>1, Hearing DEF Hears
  <2>2. CASE p # 0
    <3>1. m = Interest(c, p) /\ p \in Nat \ {0}
      BY <1>1, <1>2, <2>2
    <3> QED BY <1>1, <1>3, <2>2, <3>1, Hearing DEF Hears
  <2> QED BY <2>1, <2>2
<1>4. ASSUME BrokerHears(m)
      PROVE  Registers(c, p) /\ presence' \in [Consumers -> {Off} \cup Nat]
  BY <1>2, <1>4 DEF BrokerHears, Registers, Timers
<1>5. CASE c \notin near
  <2>1. UNCHANGED <<bindings, due, registered, presence, calm, known, faults>>
    BY <1>5 DEF Send
  <2>2. Unheard(c)
    BY <1>5, <2>1, Idling DEF Unheard, Ignores
  <2> QED BY <2>1, <2>2 DEF Sent, Timers, Leases
<1>6. CASE c \in near
  <2>1. PICK lost \in SUBSET Receivers :
          /\ faults + copies * Cardinality(lost) <= MaxFaults
          /\ faults' = faults + copies * Cardinality(lost)
          /\ IF Producer \in lost THEN UNCHANGED <<bindings, due>> ELSE ProducerHears(m)
          /\ IF Rsu \in Receivers \ lost THEN BrokerHears(m) ELSE UNCHANGED <<registered, presence>>
          /\ calm' = IF lost = {} THEN calm ELSE [calm EXCEPT ![c] = 0]
          /\ known' = IF lost = {} /\ registered' = registered THEN known
                      ELSE [known EXCEPT ![c] = 0]
    BY <1>6 DEF Send, m
  <2>2. IsFiniteSet(lost)
    <3>1. IsFiniteSet({Producer}) /\ IsFiniteSet({Producer} \cup {Rsu})
      BY FS_Singleton, FS_AddElement
    <3>2. {Producer} \cup {Rsu} = {Producer, Rsu}
      OBVIOUS
    <3>3. IsFiniteSet(Receivers)
      BY <3>1, <3>2 DEF Receivers
    <3> QED BY <3>3, FS_Subset
  <2>3. Cardinality(lost) \in Nat /\ (Cardinality(lost) = 0 <=> lost = {})
    BY <2>2, FS_CardinalityType, FS_EmptySet
  <2>4. /\ faults' \in faults .. MaxFaults
        /\ IF lost = {} THEN faults' = faults ELSE faults' > faults
    BY <2>1, <2>3 DEF Timers
  <2>5. /\ bindings' \in [Addresses -> [period : Nat, left : Int]]
        /\ presence' \in [Consumers -> {Off} \cup Nat]
        /\ calm' \in [Consumers -> Nat] /\ known' \in [Consumers -> Nat]
    BY <1>3, <1>4, <2>1 DEF Timers, Leases
  <2>6. CASE lost = {}
    <3>1. Hears(c, p)
      BY <1>3, <2>1, <2>6
    <3>2. IF station THEN Registers(c, p) ELSE Ignores
      BY <1>4, <2>1, <2>6 DEF Receivers, Rsu, Producer, Ignores
    <3>3. /\ \A x \in Consumers \ {c} : known'[x] = known[x]
          /\ known'[c] = IF registered' = registered THEN known[c] ELSE 0
      BY <2>1, <2>6 DEF Timers
    <3> QED BY <1>6, <2>1, <2>4, <2>5, <2>6, <3>1, <3>2, <3>3 DEF Sent, HeardByAll
  <2>7. CASE lost # {}
    <3>1. Idles \/ Hears(c, p)
      BY <1>3, <2>1, Idling
    <3>2. Ignores \/ (station /\ Registers(c, p))
      BY <1>4, <2>1 DEF Receivers, Rsu, Producer, Ignores
    <3>3. /\ \A x \in Consumers \ {c} : calm'[x] = calm[x] /\ known'[x] = known[x]
          /\ calm'[c] = 0 /\ known'[c] = 0
      BY <2>1, <2>7 DEF Timers
    <3> QED BY <1>6, <2>4, <2>5, <2>7, <3>1, <3>2, <3>3 DEF Sent, MissedBySome
  <2> QED BY <2>6, <2>7
<1> QED BY <1>5, <1>6

-----------------------------------------------------------------------------
(* Timers and leases stay well formed. *)

\* In bindings' the leases are still for periods asked for.
Granted == /\ bindings' \in [Addresses -> [period : Nat, left : Int]]
           /\ \A a \in Addresses : Has(a)' => Per(a)' \in PeriodsAsked
           /\ \A c \in Consumers : Has(c)' => Per(c)' = Period[c]

\* Leases are well formed again.
LEMMA LeasesAgain ==
  ASSUME Granted, due' \in {Off} \cup 0 .. LongestPeriod,
         due' = Off <=> \A a \in Addresses : ~Has(a)'
  PROVE  Leases'
  BY DEF Granted, Leases, PeriodsAsked, Off, LongestPeriod, Addresses, Rsu

\* A resync leaves a response to come just when there is a lease.
LEMMA FollowsWell ==
  ASSUME Leases, Follows
  PROVE  /\ due' \in {Off} \cup 0 .. LongestPeriod
         /\ due' = Off <=> \A a \in Addresses : ~Has(a)'
<1>1. 0 \in 0 .. LongestPeriod
  BY Longest
<1> QED BY <1>1 DEF Leases, Follows, Off

\* So a disinterest keeps them well formed,
LEMMA ForgetsWell ==
  ASSUME Leases, bindings' \in [Addresses -> [period : Nat, left : Int]],
         NEW a \in Addresses, Forgets(a)
  PROVE  Leases'
<1>1. Granted
  BY DEF Granted, Leases, Forgets, Drops, OthersSame, Same, Addresses
<1> QED BY <1>1, FollowsWell, LeasesAgain DEF Forgets

\* and an interest for a period asked for,
LEMMA TakesWell ==
  ASSUME Leases, bindings' \in [Addresses -> [period : Nat, left : Int]],
         NEW a \in Addresses, NEW p \in PeriodsAsked, a = Rsu \/ p = Period[a], Takes(a, p)
  PROVE  Leases'
<1>1. \A x \in Addresses : x # a => (Has(x)' <=> Has(x)) /\ Per(x)' = Per(x)
  BY DEF Takes, OthersSame, Same
<1>2. Per(a)' = p
  BY DEF Takes, Grants
<1>3. \A x \in Addresses : Has(x)' => Per(x)' \in PeriodsAsked
  BY <1>1, <1>2 DEF Leases
<1>4. \A c \in Consumers : Has(c)' => Per(c)' = Period[c]
  BY <1>1, <1>2, ConsumersAssumption DEF Leases, Addresses
<1>5. Granted
  BY <1>3, <1>4 DEF Granted
<1> QED BY <1>5, FollowsWell, LeasesAgain DEF Takes

\* and a step that leaves the producer alone,
LEMMA IdlesWell ==
  ASSUME Leases, bindings' \in [Addresses -> [period : Nat, left : Int]], Idles
  PROVE  Leases'
<1>1. Granted
  BY DEF Granted, Leases, Idles, Same, Addresses
<1>2. due' \in {Off} \cup 0 .. LongestPeriod /\ (due' = Off <=> \A a \in Addresses : ~Has(a)')
  BY DEF Leases, Idles, Same
<1> QED BY <1>1, <1>2, LeasesAgain

\* and so whatever a consumer says,
LEMMA HearsWell ==
  ASSUME Leases, bindings' \in [Addresses -> [period : Nat, left : Int]],
         NEW c \in Consumers, NEW p \in {0, Period[c]}, Idles \/ Hears(c, p)
  PROVE  Leases'
<1>1. c \in Addresses /\ Period[c] \in PeriodsAsked
  BY Asked DEF Addresses
<1>2. CASE Idles
  BY <1>2, IdlesWell
<1>3. CASE Hears(c, p) /\ p = 0
  BY <1>1, <1>3, ForgetsWell DEF Hears
<1>4. CASE Hears(c, p) /\ p # 0
  <2>1. p = Period[c] /\ Takes(c, p)
    BY <1>4 DEF Hears
  <2> QED BY <1>1, <2>1, TakesWell
<1> QED BY <1>2, <1>3, <1>4

\* and a round of the reaper,
LEMMA ReapsWell ==
  ASSUME Leases, bindings' \in [Addresses -> [period : Nat, left : Int]], Reaps
  PROVE  Leases'
<1>1. \A a \in Addresses : Has(a)' => Has(a) /\ Per(a)' = Per(a)
  BY DEF Reaps, Drops, Same
<1>2. Granted
  BY <1>1 DEF Granted, Leases, Addresses
<1> QED BY <1>2, FollowsWell, LeasesAgain DEF Reaps

\* and a tick,
LEMMA TicksWell ==
  ASSUME Leases, bindings' \in [Addresses -> [period : Nat, left : Int]],
         \A a \in Addresses : Wanes(a),
         due # 0, due' = IF due = Off THEN Off ELSE due - 1
  PROVE  Leases'
<1>1. \A a \in Addresses : (Has(a)' <=> Has(a)) /\ (Has(a) => Per(a)' = Per(a))
  BY DEF Wanes
<1>2. Granted
  BY <1>1 DEF Granted, Leases, Addresses
<1>3. due' \in {Off} \cup 0 .. LongestPeriod /\ (due' = Off <=> due = Off)
  BY Longest DEF Leases, Off
<1> QED BY <1>1, <1>2, <1>3, LeasesAgain DEF Leases

\* and a response.
LEMMA RespondsWell ==
  ASSUME Leases, UNCHANGED bindings, due = 0, due' \in 0 .. LongestPeriod
  PROVE  Leases'
<1>1. \A a \in Addresses : Same(a)
  BY DEF Same, Has, Bound, Per, Left
<1>2. Granted
  BY <1>1 DEF Granted, Leases, Same, Addresses
<1>3. due' \in {Off} \cup 0 .. LongestPeriod /\ due' # Off /\ due # Off
  BY Longest DEF Off
<1> QED BY <1>1, <1>2, <1>3, LeasesAgain DEF Leases, Same

\* The three actions with which a consumer speaks.
LEMMA Speaks ==
  ASSUME Basis, NEW c \in Consumers
  PROVE  /\ Subscribe(c) => Sent(c, Period[c])
         /\ ReactiveTick(c) => IF silence[c] >= Refresh THEN Sent(c, Period[c])
                               ELSE UNCHANGED <<bindings, due, registered, presence, calm, known,
                                                faults>>
         /\ Leave(c) => Sent(c, 0)
<1>1. Period[c] # 0 /\ 1 \in {1, 3}
  BY PeriodAssumption
<1>2. Says(c, Period[c]) = Interest(c, Period[c]) /\ Says(c, 0) = Disinterest(c)
  BY <1>1 DEF Says
<1>3. ASSUME Subscribe(c) PROVE Sent(c, Period[c])
  <2>1. Send(c, Says(c, Period[c]), 1)
    BY <1>2, <1>3 DEF Subscribe
  <2> QED BY <1>1, <2>1, Sending DEF Basis
<1>4. ASSUME ReactiveTick(c), silence[c] >= Refresh PROVE Sent(c, Period[c])
  <2>1. Send(c, Says(c, Period[c]), 1)
    BY <1>2, <1>4 DEF ReactiveTick
  <2> QED BY <1>1, <2>1, Sending DEF Basis
<1>5. ASSUME Leave(c) PROVE Sent(c, 0)
  <2>1. PICK copies \in {1, 3} : Send(c, Says(c, 0), copies)
    BY <1>2, <1>5 DEF Leave
  <2> QED BY <2>1, Sending DEF Basis
<1> QED BY <1>3, <1>4, <1>5 DEF ReactiveTick

\* Among the addresses registered there may be one more, if there is an RSU.
LEMMA SentRegisters ==
  ASSUME Basis, NEW c \in Consumers, NEW p \in {0, Period[c]}, Sent(c, p)
  PROVE  /\ registered' \subseteq registered \cup {c}
         /\ registered' # {} => station
         /\ p = 0 => registered' \subseteq registered
<1>1. \/ registered' = registered
      \/ station /\ Registers(c, p)
  BY DEF Sent, Unheard, HeardByAll, MissedBySome, Ignores
<1>2. registered # {} => station
  BY DEF Basis, Timers
<1> QED BY <1>1, <1>2 DEF Registers

\* Leases stay well formed when a consumer speaks.
LEMMA SentWell ==
  ASSUME Basis, NEW c \in Consumers, NEW p \in {0, Period[c]}, Sent(c, p)
  PROVE  Leases'
<1>1. Idles \/ Hears(c, p)
  BY DEF Sent, Unheard, HeardByAll, MissedBySome
<1> QED BY <1>1, HearsWell DEF Basis, Sent

\* Timers stay well formed when a consumer speaks.
LEMMA SentTimers ==
  ASSUME Basis, NEW c \in Consumers, NEW p \in {0, Period[c]}, Sent(c, p),
         UNCHANGED <<station, near, reaper, announced, timer>>,
         subscribed' \in SUBSET Consumers, subscribed \cup {c} \subseteq subscribed',
         on' \subseteq subscribed', unwanted' \in Nat,
         wake' \in [Consumers -> 0 .. Refresh], silence' \in [Consumers -> Nat]
  PROVE  Timers'
<1>1. registered' \subseteq registered \cup {c} /\ (registered' # {} => station)
  BY SentRegisters
<1>2. /\ presence' \in [Consumers -> {Off} \cup Nat]
      /\ calm' \in [Consumers -> Nat] /\ known' \in [Consumers -> Nat]
      /\ faults' \in 0 .. MaxFaults
  BY DEF Sent, Basis, Timers
<1>3. registered' \subseteq subscribed'
  BY <1>1 DEF Basis, Timers
<1> QED BY <1>1, <1>2, <1>3 DEF Basis, Timers

\* Every step keeps timers and leases well formed.
LEMMA BasisStep == Basis /\ [Next]_vars => Basis'
<1> SUFFICES ASSUME Basis, [Next]_vars PROVE Basis'
  OBVIOUS
<1> USE DEF Basis
<1>0. Refresh \in Nat \ {0} /\ Repeat \in Nat /\ ReaperPeriod \in Nat
  BY TimingAssumption
<1>1. ASSUME NEW c \in Consumers, Subscribe(c) PROVE Basis'
  <2>1. Sent(c, Period[c])
    BY <1>1, Speaks
  <2>2. /\ UNCHANGED <<station, near, reaper, announced, timer>>
        /\ subscribed' \in SUBSET Consumers /\ subscribed \cup {c} \subseteq subscribed'
        /\ on' \subseteq subscribed' /\ unwanted' \in Nat
        /\ wake' \in [Consumers -> 0 .. Refresh] /\ silence' \in [Consumers -> Nat]
    BY <1>0, <1>1 DEF Timers, Subscribe
  <2>3. Timers'
    BY <2>1, <2>2, SentTimers
  <2> QED BY <2>1, <2>3, SentWell
<1>2. ASSUME NEW c \in Consumers, ReactiveTick(c) PROVE Basis'
  <2>1. CASE silence[c] >= Refresh
    <3>1. Sent(c, Period[c])
      BY <1>2, <2>1, Speaks
    <3>2. /\ UNCHANGED <<station, near, reaper, announced, timer>>
          /\ subscribed' \in SUBSET Consumers /\ subscribed \cup {c} \subseteq subscribed'
          /\ on' \subseteq subscribed' /\ unwanted' \in Nat
          /\ wake' \in [Consumers -> 0 .. Refresh] /\ silence' \in [Consumers -> Nat]
      BY <1>0, <1>2 DEF Timers, ReactiveTick
    <3>3. Timers'
      BY <3>1, <3>2, SentTimers
    <3> QED BY <3>1, <3>3, SentWell
  <2>2. CASE ~(silence[c] >= Refresh)
    <3>1. UNCHANGED <<bindings, due, registered, presence, calm, known, faults>>
      BY <1>2, <2>2, Speaks
    <3>2. Timers'
      BY <1>0, <1>2, <3>1 DEF Timers, ReactiveTick
    <3> QED BY <3>1, <3>2, Idling, IdlesWell DEF Leases
  <2> QED BY <2>1, <2>2
<1>3. ASSUME NEW c \in Consumers, Leave(c) PROVE Basis'
  <2>1. Sent(c, 0)
    BY <1>3, Speaks
  <2>2. /\ UNCHANGED <<station, near, reaper, announced, timer>>
        /\ subscribed' \in SUBSET Consumers /\ subscribed \cup {c} \subseteq subscribed'
        /\ on' \subseteq subscribed' /\ unwanted' \in Nat
        /\ wake' \in [Consumers -> 0 .. Refresh] /\ silence' \in [Consumers -> Nat]
    BY <1>0, <1>3 DEF Timers, Leave
  <2>3. Timers'
    BY <2>1, <2>2, SentTimers
  <2> QED BY <2>1, <2>3, SentWell
<1>4. ASSUME NEW c \in Consumers, Abandon(c) PROVE Basis'
  <2>1. Timers' /\ UNCHANGED <<bindings, due>>
    BY <1>0, <1>4 DEF Timers, Abandon, producer, broker
  <2> QED BY <2>1, Idling, IdlesWell DEF Leases
<1>5. ASSUME NEW c \in Consumers, Move(c) PROVE Basis'
  <2>1. UNCHANGED <<bindings, due, reaper, registered, announced, timer, on, wake, silence,
                    subscribed, station>>
    BY <1>5 DEF Move, producer, consumers
  <2>2. presence' \in [Consumers -> {Off} \cup Nat]
    <3>1. Ages \subseteq Nat
      BY TimingAssumption
    <3> QED BY <1>5, <3>1 DEF Timers, Move
  <2>3. /\ near' \subseteq Consumers /\ calm' \in [Consumers -> Nat]
        /\ known' \in [Consumers -> Nat] /\ unwanted' \in Nat /\ faults' \in 0 .. MaxFaults
    BY <1>5, TimingAssumption DEF Timers, Move
  <2>4. Timers'
    BY <2>1, <2>2, <2>3 DEF Timers
  <2> QED BY <2>1, <2>4, Idling, IdlesWell DEF Leases
<1>6. ASSUME NEW c \in Consumers, RequestSync(c) PROVE Basis'
  <2>1. Timers' /\ UNCHANGED <<bindings, due>>
    BY <1>6 DEF Timers, RequestSync, producer, consumers, history
  <2> QED BY <2>1, Idling, IdlesWell DEF Leases
<1>7. CASE Reap
  <2>1. Timers'
    BY <1>0, <1>7 DEF Timers, Reap, consumers, broker, history
  <2> QED BY <1>7, <2>1, Reaping, ReapsWell
<1>8. CASE Respond
  <2>1. due = 0 /\ due' = Min({bindings[a].period : a \in Bound(bindings)}) /\ UNCHANGED bindings
    BY <1>8 DEF Respond
  <2>2. Leases'
    BY <2>1, Responding, RespondsWell
  <2>3. PICK lost \in SUBSET (on \cap near) :
          /\ faults + Cardinality(lost) <= MaxFaults
          /\ faults' = faults + Cardinality(lost)
          /\ ConsumersHear(lost)
    BY <1>8 DEF Respond
  <2>4. Cardinality(lost) \in Nat
    BY ConsumersAssumption, FS_Subset, FS_CardinalityType DEF Timers
  <2>5. Timers'
    BY <1>8, <2>3, <2>4 DEF Timers, Respond, ConsumersHear, broker
  <2> QED BY <2>2, <2>5
<1>9. CASE BrokerTick
  <2>1. bindings' \in [Addresses -> [period : Nat, left : Int]] /\ Announced
    BY <1>9, Broadcasting
  <2>2. Leases'
    <3>1. Rsu \in Addresses
      BY DEF Addresses
    <3>2. CASE Idles
      BY <2>1, <3>2, IdlesWell
    <3>3. CASE Forgets(Rsu)
      BY <2>1, <3>1, <3>3, ForgetsWell
    <3>4. ASSUME NEW p \in PeriodsAsked, Takes(Rsu, p) PROVE Leases'
      BY <2>1, <3>1, <3>4, TakesWell
    <3> QED BY <2>1, <3>2, <3>3, <3>4 DEF Announced
  <2>3. faults' \in 0 .. MaxFaults
    BY <2>1, TimingAssumption DEF Announced, Timers
  <2>4. Timers'
    BY <1>0, <1>9, <2>3 DEF Timers, BrokerTick, Alive, consumers, history
  <2> QED BY <2>2, <2>4
<1>10. CASE Tick
  <2>1. Leases'
    BY <1>10, Ticking, TicksWell DEF Tick
  <2>2. \A c \in Consumers : Older(silence[c], Max({SilenceLimit, Ttl(c)})) \in Nat
    BY OlderBy, Limits, MaxTwo DEF Timers
  <2>3. \A c \in Consumers : /\ Older(calm[c], SilenceLimit) \in Nat
                             /\ Older(known[c], Settling) \in Nat
    BY OlderBy, Limits DEF Timers
  <2>4. Older(unwanted, StopLimit) \in Nat
    BY OlderBy, Limits DEF Timers
  <2>5. silence' \in [Consumers -> Nat] /\ calm' \in [Consumers -> Nat]
        /\ known' \in [Consumers -> Nat] /\ unwanted' \in Nat
    BY <1>10, <2>2, <2>3, <2>4 DEF Tick
  <2>6. wake' \in [Consumers -> 0 .. Refresh]
    BY <1>0, <1>10 DEF Tick, Timers
  <2>7. reaper' \in 0 .. ReaperPeriod /\ timer' \in 0 .. Repeat
    BY <1>0, <1>10 DEF Tick, Timers
  <2>8. presence' \in [Consumers -> {Off} \cup Nat]
    BY <1>10 DEF Tick, Timers, Off
  <2>9. Timers'
    BY <1>10, <2>5, <2>6, <2>7, <2>8 DEF Tick, Timers
  <2> QED BY <2>1, <2>9
<1>11. CASE UNCHANGED vars
  <2>1. Timers' /\ UNCHANGED <<bindings, due>>
    BY <1>11 DEF Timers, vars
  <2> QED BY <2>1, Idling, IdlesWell DEF Leases
<1> QED BY <1>1, <1>2, <1>3, <1>4, <1>5, <1>6, <1>7, <1>8, <1>9, <1>10, <1>11 DEF Next

\* They are well formed at first.
LEMMA BasisInit == Init => Basis
<1> SUFFICES ASSUME Init PROVE Basis
  OBVIOUS
<1>1. \A a \in Addresses : bindings[a] = NoLease /\ ~Has(a)
  BY DEF Init, Has, Bound
<1>2. NoLease \in [period : Nat, left : Int]
  BY DEF NoLease
<1>3. Leases
  BY <1>1, <1>2 DEF Init, Leases, Addresses
<1>4. Refresh \in Nat /\ ReaperPeriod \in Nat /\ Repeat \in Nat /\ MaxFaults \in Nat
  BY TimingAssumption
<1>5. /\ station \in BOOLEAN /\ wake \in [Consumers -> 0 .. Refresh]
      /\ presence \in [Consumers -> {Off} \cup Nat]
      /\ silence \in [Consumers -> Nat] /\ calm \in [Consumers -> Nat] /\ known = calm
  BY <1>4, StationsAssumption DEF Init
<1>6. reaper \in 0 .. ReaperPeriod /\ timer \in 0 .. Repeat /\ faults \in 0 .. MaxFaults
      /\ unwanted \in Nat
  BY <1>4, Limits DEF Init
<1>7. Timers
  BY <1>5, <1>6 DEF Init, Timers
<1> QED BY <1>3, <1>7 DEF Basis

-----------------------------------------------------------------------------
(* Responses end. *)

Present == (on \cup registered) \cap near # {} => unwanted = 0

\* What the broker still has of a vehicle outside is as old as the need of it is gone,
\* and the broker will notice in its next round after the lease.
Gone ==
  \A c \in registered \ near : /\ presence[c] # Off /\ presence[c] >= unwanted
                               /\ presence[c] + timer <= Lease + Repeat

\* No lease is granted much after the last need, and none outlives the reaper's round.
Ending ==
  \A a \in Addresses : Has(a) =>
    /\ unwanted + Left(a) <= Lease + Repeat + Life(LongestPeriod)
    /\ Left(a) + ReaperPeriod >= reaper

StopInv == Basis /\ Present /\ Gone /\ Ending

\* While somebody is registered, the need is not gone for long.
LEMMA Unneeded == ASSUME StopInv, registered # {} PROVE unwanted + timer <= Lease + Repeat
<1>1. Lease \in Nat /\ Repeat \in Nat
  BY TimingAssumption
<1>2. unwanted \in Nat /\ timer \in 0 .. Repeat
  BY DEF StopInv, Basis, Timers
<1>3. PICK c \in registered : TRUE
  OBVIOUS
<1>4. CASE c \in near
  BY <1>1, <1>2, <1>3, <1>4 DEF StopInv, Present
<1>5. CASE c \notin near
  <2>1. presence[c] \in Nat
    BY <1>3, <1>5 DEF StopInv, Basis, Timers, Gone
  <2> QED BY <1>1, <1>2, <1>3, <1>5, <2>1 DEF StopInv, Gone
<1> QED BY <1>4, <1>5

Regrants(a) == \E p \in PeriodsAsked : Grants(a, p)

\* A lease ends in time if it did before, is dropped, or is granted while there is a need.
LEMMA StillEnding ==
  ASSUME StopInv, Basis', unwanted' <= unwanted, reaper' = reaper,
         \A a \in Addresses : \/ Same(a) \/ Drops(a)
                              \/ Regrants(a) /\ unwanted' <= Lease + Repeat
  PROVE  Ending'
<1> SUFFICES ASSUME NEW a \in Addresses, Has(a)'
             PROVE  /\ unwanted' + Left(a)' <= Lease + Repeat + Life(LongestPeriod)
                    /\ Left(a)' + ReaperPeriod >= reaper'
  BY DEF Ending, Life, LongestPeriod, Addresses
<1>1. Lease \in Nat /\ Repeat \in Nat /\ ReaperPeriod \in Nat
  BY TimingAssumption
<1>2. unwanted \in Nat /\ unwanted' \in Nat /\ reaper \in 0 .. ReaperPeriod
  BY DEF StopInv, Basis, Timers
<1>3. Left(a) \in Int /\ Life(LongestPeriod) \in Nat
  BY Leaseless, Longest, LifeGrows DEF StopInv, Basis
<1>4. CASE Same(a)
  <2>1. Has(a) /\ Left(a)' = Left(a)
    BY <1>4 DEF Same
  <2> QED BY <1>1, <1>2, <1>3, <2>1 DEF StopInv, Ending
<1>5. CASE Regrants(a) /\ unwanted' <= Lease + Repeat
  <2>1. PICK p \in PeriodsAsked : Left(a)' = Life(p)
    BY <1>5 DEF Regrants, Grants
  <2>2. Life(p) \in Nat /\ Life(p) <= Life(LongestPeriod)
    BY Longest, LifeGrows
  <2>3. unwanted' <= Lease + Repeat
    BY <1>5
  <2> QED BY <1>1, <1>2, <1>3, <2>1, <2>2, <2>3
<1> QED BY <1>4, <1>5 DEF Drops

\* Steps that register nobody outside and leave the clocks alone.
LEMMA StillGone ==
  ASSUME StopInv, Basis', registered' \ near' \subseteq registered \ near,
         \A x \in registered' \ near' : presence'[x] = presence[x],
         timer' = timer, unwanted' <= unwanted
  PROVE  Gone'
<1>1. unwanted \in Nat /\ unwanted' \in Nat
  BY DEF StopInv, Basis, Timers
<1> SUFFICES ASSUME NEW x \in registered' \ near'
             PROVE  /\ presence'[x] # Off /\ presence'[x] >= unwanted'
                    /\ presence'[x] + timer' <= Lease + Repeat
  BY DEF Gone, Off
<1>2. x \in registered \ near /\ presence'[x] = presence[x]
  OBVIOUS
<1>3. presence[x] # Off /\ presence[x] \in Nat
  BY <1>2 DEF StopInv, Gone, Basis, Timers
<1> QED BY <1>1, <1>2, <1>3 DEF StopInv, Gone

\* What a consumer sends.
LEMMA StopSent ==
  ASSUME StopInv, Basis', NEW c \in Consumers, NEW p \in {0, Period[c]}, Sent(c, p),
         UNCHANGED <<near, reaper, timer>>, unwanted' <= unwanted,
         c \in near /\ p # 0 => unwanted' = 0
  PROVE  Gone' /\ Ending'
<1>1. unwanted' \in Nat /\ Lease \in Nat /\ Repeat \in Nat
  BY TimingAssumption DEF Basis, Timers
<1>2. Idles \/ (c \in near /\ Hears(c, p))
  BY DEF Sent, Unheard, HeardByAll, MissedBySome
<1>3. \A a \in Addresses : Same(a) \/ Drops(a) \/ (Regrants(a) /\ unwanted' <= Lease + Repeat)
  <2>1. p = 0 \/ p \in PeriodsAsked
    BY Asked
  <2>2. CASE Idles
    BY <2>2 DEF Idles
  <2>3. CASE c \in near /\ Hears(c, p) /\ p = 0
    BY <2>3 DEF Hears, Forgets, OthersSame
  <2>4. CASE c \in near /\ Hears(c, p) /\ p # 0
    <3>1. p \in PeriodsAsked /\ Takes(c, p) /\ unwanted' <= Lease + Repeat
      BY <1>1, <2>1, <2>4 DEF Hears
    <3> QED BY <3>1 DEF Takes, OthersSame, Regrants
  <2> QED BY <1>2, <2>2, <2>3, <2>4
<1>4. Gone'
  <2>1. Ignores \/ (c \in near /\ Registers(c, p))
    BY DEF Sent, Unheard, HeardByAll, MissedBySome
  <2>2. registered' \ near' \subseteq registered \ near
    BY <2>1 DEF Ignores, Registers
  <2>3. \A x \in registered' \ near' : presence'[x] = presence[x]
    BY <2>1, <2>2 DEF Ignores, Registers, StopInv, Basis, Timers
  <2> QED BY <2>2, <2>3, StillGone
<1> QED BY <1>3, <1>4, StillEnding

\* A tick.
LEMMA StopTick == ASSUME StopInv, Basis', Tick PROVE Present' /\ Gone' /\ Ending'
<1>1. /\ Lease \in Nat /\ Repeat \in Nat /\ ReaperPeriod \in Nat
      /\ Life(LongestPeriod) \in Nat
  BY TimingAssumption, Longest, LifeGrows
<1>2. /\ unwanted \in Nat /\ reaper \in 0 .. ReaperPeriod /\ timer \in 0 .. Repeat
      /\ registered \subseteq Consumers
  BY DEF StopInv, Basis, Timers
<1>3. /\ UNCHANGED <<on, near, registered>>
      /\ unwanted' = IF (on \cup registered) \cap near # {} THEN 0 ELSE Older(unwanted, StopLimit)
  BY DEF Tick
<1>4. unwanted' \in Nat /\ unwanted' <= unwanted + 1
  <2>1. Older(unwanted, StopLimit) \in Nat /\ Older(unwanted, StopLimit) <= unwanted + 1
    BY <1>2, OlderBy, Limits
  <2>2. unwanted' = 0 \/ unwanted' = Older(unwanted, StopLimit)
    BY <1>3
  <2> QED BY <1>2, <2>1, <2>2
<1>5. Present'
  BY <1>3 DEF Present
<1>6. ASSUME NEW x \in registered' \ near'
      PROVE  /\ presence'[x] # Off /\ presence'[x] >= unwanted'
             /\ presence'[x] + timer' <= Lease + Repeat
  <2>1. x \in registered /\ x \notin near /\ x \in Consumers /\ station
    BY <1>2, <1>3, <1>6 DEF StopInv, Basis, Timers
  <2>2. /\ presence[x] \in Nat /\ presence[x] # Off /\ presence[x] >= unwanted
        /\ presence[x] + timer <= Lease + Repeat
    BY <2>1 DEF StopInv, Basis, Timers, Gone
  <2>3. presence'[x] = presence[x] + 1 /\ timer' = timer - 1
    BY <2>1, <2>2 DEF Tick
  <2> QED BY <1>1, <1>2, <1>4, <2>2, <2>3 DEF Off
<1>7. Gone'
  BY <1>6 DEF Gone, Off
<1>8. \A a \in Addresses : Wanes(a)
  BY Ticking DEF StopInv, Basis
<1>9. \/ reaper' = reaper - 1
      \/ reaper' = ReaperPeriod /\ \A a \in Addresses : ~(bindings'[a].left < 0)
  BY DEF Tick
<1>10. ASSUME NEW a \in Addresses, Has(a)'
       PROVE  /\ unwanted' + Left(a)' <= Lease + Repeat + Life(LongestPeriod)
              /\ Left(a)' + ReaperPeriod >= reaper'
  <2>1. Has(a) /\ Left(a)' = Left(a) - 1
    BY <1>8, <1>10 DEF Wanes
  <2>2. /\ unwanted + Left(a) <= Lease + Repeat + Life(LongestPeriod)
        /\ Left(a) + ReaperPeriod >= reaper
    BY <2>1 DEF StopInv, Ending
  <2>3. Left(a) \in Int
    BY Leaseless DEF StopInv, Basis
  <2>4. reaper' = reaper - 1 \/ (reaper' = ReaperPeriod /\ ~(Left(a)' < 0))
    BY <1>9 DEF Left
  <2> QED BY <1>1, <1>2, <1>4, <2>1, <2>2, <2>3, <2>4
<1>11. Ending'
  BY <1>10 DEF Ending, Life, LongestPeriod, Addresses
<1> QED BY <1>5, <1>7, <1>11

\* A round of the broker.
LEMMA StopBroker == ASSUME StopInv, Basis', BrokerTick PROVE Present' /\ Gone' /\ Ending'
<1>1. Lease \in Nat /\ Repeat \in Nat
  BY TimingAssumption
<1>2. /\ UNCHANGED <<on, near, unwanted, reaper>>
      /\ registered' = Alive /\ Alive \subseteq registered
      /\ timer = 0 /\ timer' = Repeat
      /\ presence' = [x \in Consumers |-> IF x \in Dead THEN Off ELSE presence[x]]
  BY DEF BrokerTick, Alive, history, consumers
<1>3. Present'
  BY <1>2 DEF StopInv, Present
<1>4. ASSUME NEW x \in registered' \ near'
      PROVE  /\ presence'[x] # Off /\ presence'[x] >= unwanted'
             /\ presence'[x] + timer' <= Lease + Repeat
  <2>1. x \in registered \ near /\ x \in Consumers /\ x \notin Dead
    BY <1>2, <1>4 DEF Alive, StopInv, Basis, Timers
  <2>2. presence'[x] = presence[x] /\ presence[x] # Off /\ presence[x] >= unwanted
    BY <1>2, <2>1 DEF StopInv, Gone
  <2>3. presence[x] \in Nat /\ presence[x] <= Lease
    BY <1>1, <2>1, <2>2 DEF Dead, StopInv, Basis, Timers
  <2> QED BY <1>1, <1>2, <2>2, <2>3
<1>5. Gone'
  BY <1>4 DEF Gone, Off
<1>6. ASSUME Alive # {} PROVE unwanted' <= Lease + Repeat
  <2>1. unwanted + timer <= Lease + Repeat /\ unwanted \in Nat
    BY <1>2, <1>6, Unneeded DEF StopInv, Basis, Timers
  <2> QED BY <1>1, <1>2, <2>1
<1>7. Announced
  BY Broadcasting DEF StopInv, Basis
<1>8. ASSUME NEW a \in Addresses
      PROVE  Same(a) \/ Drops(a) \/ (Regrants(a) /\ unwanted' <= Lease + Repeat)
  <2>1. CASE Idles
    BY <2>1 DEF Idles
  <2>2. CASE Forgets(Rsu)
    BY <2>2 DEF Forgets, OthersSame
  <2>3. ASSUME NEW p \in PeriodsAsked, Takes(Rsu, p), Alive # {}
        PROVE  Same(a) \/ (Regrants(a) /\ unwanted' <= Lease + Repeat)
    BY <1>6, <2>3 DEF Takes, OthersSame, Regrants
  <2> QED BY <1>7, <2>1, <2>2, <2>3 DEF Announced
<1>9. unwanted' <= unwanted /\ reaper' = reaper
  BY <1>2 DEF StopInv, Basis, Timers
<1>10. Ending'
  BY <1>8, <1>9, StillEnding
<1> QED BY <1>3, <1>5, <1>10

\* Every step keeps the invariant that responses end.
LEMMA StopStep == StopInv /\ [Next]_vars => StopInv'
<1> SUFFICES ASSUME StopInv, [Next]_vars PROVE StopInv'
  OBVIOUS
<1>0. Basis'
  BY BasisStep DEF StopInv
<1> SUFFICES Present' /\ Gone' /\ Ending'
  BY <1>0 DEF StopInv
<1>1. unwanted \in Nat /\ unwanted' \in Nat /\ registered \subseteq Consumers
  BY <1>0 DEF StopInv, Basis, Timers
<1>2. ASSUME NEW c \in Consumers, Subscribe(c) PROVE Present' /\ Gone' /\ Ending'
  <2>1. Sent(c, Period[c])
    BY <1>2, Speaks DEF StopInv
  <2>2. unwanted' = 0 /\ UNCHANGED <<near, reaper, timer>>
    BY <1>2 DEF Subscribe
  <2>3. Present'
    BY <2>2 DEF Present
  <2> QED BY <1>0, <1>1, <2>1, <2>2, <2>3, StopSent
<1>3. ASSUME NEW c \in Consumers, ReactiveTick(c) PROVE Present' /\ Gone' /\ Ending'
  <2>1. UNCHANGED <<on, near, reaper, timer, unwanted>> /\ c \in on
    BY <1>3 DEF ReactiveTick
  <2>2. c \in near => unwanted = 0
    BY <2>1 DEF StopInv, Present
  <2>3. CASE silence[c] >= Refresh
    <3>1. Sent(c, Period[c])
      BY <1>3, <2>3, Speaks DEF StopInv
    <3>2. Gone' /\ Ending'
      BY <1>0, <1>1, <2>1, <2>2, <3>1, StopSent
    <3>3. registered' \subseteq registered \cup {c}
      BY <3>1, SentRegisters DEF StopInv
    <3>4. Present'
      BY <2>1, <3>3 DEF StopInv, Present
    <3> QED BY <3>2, <3>4
  <2>4. CASE ~(silence[c] >= Refresh)
    <3>1. UNCHANGED <<bindings, due, registered, presence>>
      BY <1>3, <2>4, Speaks DEF StopInv
    <3>2. \A a \in Addresses : Same(a)
      BY <3>1, Idling DEF Idles
    <3>3. Present'
      BY <2>1, <3>1 DEF StopInv, Present
    <3> QED BY <1>0, <1>1, <2>1, <3>1, <3>2, <3>3, StillGone, StillEnding
  <2> QED BY <2>3, <2>4
<1>4. ASSUME NEW c \in Consumers, Leave(c) PROVE Present' /\ Gone' /\ Ending'
  <2>1. Sent(c, 0) /\ UNCHANGED <<near, reaper, timer, unwanted>> /\ on' \subseteq on
    BY <1>4, Speaks DEF StopInv, Leave
  <2>2. registered' \subseteq registered
    BY <2>1, SentRegisters DEF StopInv
  <2>3. Present'
    BY <2>1, <2>2 DEF StopInv, Present
  <2> QED BY <1>0, <1>1, <2>1, <2>3, StopSent
<1>5. ASSUME UNCHANGED <<bindings, due, near, reaper, registered, timer, unwanted>>,
             on' \subseteq on, \A x \in Consumers \ near : presence'[x] = presence[x]
      PROVE  Present' /\ Gone' /\ Ending'
  <2>1. \A a \in Addresses : Same(a)
    BY <1>5, Idling DEF Idles
  <2>2. Present'
    BY <1>5 DEF StopInv, Present
  <2> QED BY <1>0, <1>1, <1>5, <2>1, <2>2, StillGone, StillEnding
<1>6. ASSUME NEW c \in Consumers, Abandon(c) \/ RequestSync(c)
      PROVE  Present' /\ Gone' /\ Ending'
  <2>1. UNCHANGED <<bindings, due, near, reaper, registered, timer, unwanted>> /\ on' \subseteq on
    BY <1>6 DEF Abandon, RequestSync, producer, broker, consumers, history
  <2>2. \A x \in Consumers \ near : presence'[x] = presence[x]
    BY <1>6 DEF Abandon, RequestSync, broker, StopInv, Basis, Timers
  <2> QED BY <1>5, <2>1, <2>2
<1>7. ASSUME NEW c \in Consumers, Move(c) PROVE Present' /\ Gone' /\ Ending'
  <2>1. unwanted' = 0 /\ UNCHANGED <<bindings, due, reaper, registered, timer>>
    BY <1>7 DEF Move, producer
  <2>2. Present'
    BY <2>1 DEF Present
  <2>3. Ending'
    BY <1>0, <1>1, <2>1, Idling, StillEnding DEF Idles
  <2>4. ASSUME NEW x \in registered' \ near'
        PROVE  /\ presence'[x] # Off /\ presence'[x] >= unwanted'
               /\ presence'[x] + timer' <= Lease + Repeat
    <3>1. /\ Lease \in Nat /\ Repeat \in Nat /\ timer \in 0 .. Repeat
          /\ presence \in [Consumers -> {Off} \cup Nat]
      BY TimingAssumption DEF StopInv, Basis, Timers
    <3>2. x \in registered /\ x \in Consumers /\ station
      BY <1>1, <2>1, <2>4 DEF StopInv, Basis, Timers
    <3>3. CASE x \in near
      <4>1. x = c /\ presence'[x] \in Ages
        BY <1>7, <2>4, <3>1, <3>2, <3>3 DEF Move
      <4>2. presence'[x] \in 0 .. Lease
        BY <4>1, TimingAssumption
      <4> QED BY <2>1, <3>1, <4>2 DEF Off
    <3>4. CASE x \notin near
      <4>1. presence'[x] = presence[x]
        BY <1>7, <2>4, <3>1, <3>2, <3>4 DEF Move
      <4>2. presence[x] # Off /\ presence[x] + timer <= Lease + Repeat
        BY <3>2, <3>4 DEF StopInv, Gone
      <4>3. presence[x] \in Nat
        BY <3>1, <3>2, <4>2
      <4> QED BY <2>1, <4>1, <4>2, <4>3
    <3> QED BY <3>3, <3>4
  <2>5. Gone'
    BY <2>4 DEF Gone, Off
  <2> QED BY <2>2, <2>3, <2>5
<1>8. CASE Reap
  <2>1. UNCHANGED <<near, on, registered, presence, timer, unwanted>> /\ reaper' = ReaperPeriod
    BY <1>8 DEF Reap, consumers, broker, history
  <2>2. Present' /\ Gone'
    BY <1>0, <1>1, <2>1, StillGone DEF StopInv, Present
  <2>3. Reaps
    BY <1>8, Reaping DEF StopInv, Basis
  <2>4. ASSUME NEW a \in Addresses, Has(a)'
        PROVE  /\ unwanted' + Left(a)' <= Lease + Repeat + Life(LongestPeriod)
               /\ Left(a)' + ReaperPeriod >= reaper'
    <3>1. Has(a) /\ Left(a)' = Left(a) /\ ~(Left(a) < 0)
      BY <2>3, <2>4 DEF Reaps, Drops, Same
    <3>2. Left(a) \in Int /\ ReaperPeriod \in Nat
      BY Leaseless, TimingAssumption DEF StopInv, Basis
    <3>3. unwanted + Left(a) <= Lease + Repeat + Life(LongestPeriod)
      BY <3>1 DEF StopInv, Ending
    <3> QED BY <2>1, <3>1, <3>2, <3>3
  <2>5. Ending'
    BY <2>4 DEF Ending, Life, LongestPeriod, Addresses
  <2> QED BY <2>2, <2>5
<1>9. CASE Respond
  <2>1. UNCHANGED <<bindings, near, on, reaper, registered, presence, timer, unwanted>>
    BY <1>9 DEF Respond, broker
  <2>2. \A a \in Addresses : Same(a)
    BY <2>1 DEF Same, Has, Bound, Per, Left
  <2>3. Present'
    BY <2>1 DEF StopInv, Present
  <2> QED BY <1>0, <1>1, <2>1, <2>2, <2>3, StillGone, StillEnding
<1>10. CASE BrokerTick
  BY <1>0, <1>10, StopBroker
<1>11. CASE Tick
  BY <1>0, <1>11, StopTick
<1>12. CASE UNCHANGED vars
  BY <1>5, <1>12 DEF vars
<1> QED BY <1>2, <1>3, <1>4, <1>6, <1>7, <1>8, <1>9, <1>10, <1>11, <1>12 DEF Next

\* smart_data.h:29: the producer does not answer for ever.  However the consumers left,
\* StopLimit ticks after the last of them was on or registered in the quadrant no
\* response is due any more.
THEOREM ResponsesEnd == Spec => []StopsInTime
<1>1. ASSUME Init PROVE StopInv
  <2>1. Basis
    BY <1>1, BasisInit
  <2>2. \A a \in Addresses : ~Has(a)
    BY <1>1 DEF Init, Has, Bound
  <2> QED BY <1>1, <2>1, <2>2 DEF Init, StopInv, Present, Gone, Ending
<1>2. StopInv => StopsInTime
  <2> SUFFICES ASSUME StopInv, unwanted > StopLimit PROVE due = Off
    BY DEF StopsInTime
  <2>1. ASSUME NEW a \in Addresses, Has(a) PROVE FALSE
    <3>1. /\ unwanted + Left(a) <= Lease + Repeat + Life(LongestPeriod)
          /\ Left(a) + ReaperPeriod >= reaper
      BY <2>1 DEF StopInv, Ending
    <3>2. /\ Left(a) \in Int /\ unwanted \in Nat /\ reaper \in 0 .. ReaperPeriod
          /\ Lease \in Nat /\ Repeat \in Nat /\ ReaperPeriod \in Nat
      BY Leaseless, TimingAssumption DEF StopInv, Basis, Timers
    <3>3. Life(LongestPeriod) \in Nat
      BY Longest, LifeGrows
    <3> QED BY <3>1, <3>2, <3>3, Limits
  <2> QED BY <2>1 DEF StopInv, Basis, Leases
<1> QED BY <1>1, <1>2, StopStep, PTL DEF Spec

-----------------------------------------------------------------------------
(* Silences are bounded. *)

\* A consumer asks again before its limit, unless its own lease lasts until it looks.
Wakes(c) == \/ silence[c] + wake[c] < 2 * Refresh
            \/ calm[c] + wake[c] < 2 * Refresh
            \/ Has(c) /\ Left(c) >= wake[c]

\* The next response, if there is one to come, comes in time.
Answered(c) == due # Off => silence[c] + due <= SilenceLimit \/ calm[c] + due <= SilenceLimit

Heard == \A c \in on \cap near : Wakes(c) /\ Answered(c)

SilenceInv == Basis /\ Heard

\* The response is due when it was, or there was none to come and now it is due at once.
DueKept == due' = due \/ due' = Off \/ (due = Off /\ due' = 0)

\* The types of what the clocks of c are compared with.
LEMMA ClockTypes ==
  ASSUME Basis, NEW c \in Consumers
  PROVE  /\ silence[c] \in Nat /\ calm[c] \in Nat /\ known[c] \in Nat /\ wake[c] \in 0 .. Refresh
         /\ Left(c) \in Int /\ due \in {-1} \cup 0 .. LongestPeriod
         /\ Refresh \in Nat \ {0} /\ LongestPeriod \in Nat /\ SilenceLimit \in Nat
         /\ Period[c] \in Nat \ {0} /\ Period[c] <= LongestPeriod
         /\ c \in Addresses
<1>1. c \in Addresses
  BY DEF Addresses
<1>2. /\ silence[c] \in Nat /\ calm[c] \in Nat /\ known[c] \in Nat /\ wake[c] \in 0 .. Refresh
      /\ due \in {-1} \cup 0 .. LongestPeriod
  BY DEF Basis, Timers, Leases, Off
<1>3. Period[c] \in Nat \ {0} /\ Period[c] <= LongestPeriod
  BY Asked, Longest
<1> QED BY <1>1, <1>2, <1>3, Leaseless, Longest, Limits, TimingAssumption DEF Basis

\* The same after the step.
LEMMA ClockTypesNext ==
  ASSUME Basis', NEW c \in Consumers
  PROVE  /\ silence'[c] \in Nat /\ calm'[c] \in Nat /\ known'[c] \in Nat
         /\ wake'[c] \in 0 .. Refresh /\ due' \in {-1} \cup 0 .. LongestPeriod
<1>1. LongestPeriod' = LongestPeriod /\ Off' = -1
  BY DEF LongestPeriod, Off
<1> QED BY <1>1 DEF Basis, Timers, Leases

\* A step that starts one of the clocks of x anew.
LEMMA StartsAnew ==
  ASSUME Basis, Basis', NEW x \in Consumers, silence'[x] = 0 \/ calm'[x] = 0
  PROVE  Wakes(x)' /\ Answered(x)'
<1>1. /\ silence'[x] \in Nat /\ calm'[x] \in Nat /\ wake'[x] \in 0 .. Refresh
      /\ due' \in {-1} \cup 0 .. LongestPeriod
  BY ClockTypesNext
<1>2. Refresh \in Nat \ {0} /\ LongestPeriod \in Nat
  BY ClockTypes
<1>3. Wakes(x)'
  BY <1>1, <1>2 DEF Wakes
<1>4. SilenceLimit' = SilenceLimit /\ SilenceLimit \in Nat /\ SilenceLimit >= LongestPeriod
  BY Limits DEF SilenceLimit, LongestPeriod
<1>5. Answered(x)'
  BY <1>1, <1>2, <1>4 DEF Answered, Off
<1> QED BY <1>3, <1>5

\* Other steps, in which no time passes.
LEMMA StillAnswered ==
  ASSUME SilenceInv, Basis', NEW x \in on \cap near, x \in Consumers,
         silence'[x] = silence[x], calm'[x] = calm[x], DueKept
  PROVE  Answered(x)'
<1>1. /\ silence[x] \in Nat /\ calm[x] \in Nat /\ wake[x] \in 0 .. Refresh
      /\ due \in {-1} \cup 0 .. LongestPeriod /\ Refresh \in Nat \ {0}
      /\ x \in Addresses
  BY ClockTypes DEF SilenceInv
<1>2. /\ SilenceLimit' = SilenceLimit /\ SilenceLimit \in Nat
      /\ SilenceLimit >= 2 * Refresh - 1
  BY Limits DEF SilenceLimit, LongestPeriod
<1>3. Wakes(x) /\ Answered(x)
  BY DEF SilenceInv, Heard
<1>4. CASE due # Off
  BY <1>1, <1>2, <1>3, <1>4 DEF Answered, DueKept, Off
<1>5. CASE due = Off
  <2>1. ~Has(x)
    BY <1>1, <1>5 DEF SilenceInv, Basis, Leases
  <2>2. silence[x] <= SilenceLimit \/ calm[x] <= SilenceLimit
    BY <1>1, <1>2, <1>3, <2>1 DEF Wakes
  <2>3. due' = Off \/ due' = 0
    BY <1>5 DEF DueKept
  <2> QED BY <1>1, <1>2, <2>2, <2>3 DEF Answered, Off
<1> QED BY <1>4, <1>5

\* A lease just granted outlasts a refresh.
LEMMA GrantLasts ==
  ASSUME Refresh <= LifetimeMin, NEW p \in Nat, NEW a, Grants(a, p)
  PROVE  Has(a)' /\ Left(a)' \in Nat /\ Left(a)' >= Refresh
<1>1. Life(p) \in Nat /\ Life(p) >= LifetimeMin
  BY LifeGrows
<1> QED BY <1>1, TimingAssumption DEF Grants

\* A lease that stays, is granted anew or had run out.
LEMMA StillWakes ==
  ASSUME SilenceInv, Basis', Refresh <= LifetimeMin, NEW x \in on \cap near, x \in Consumers,
         silence'[x] = silence[x], calm'[x] = calm[x], wake'[x] = wake[x],
         Same(x) \/ Left(x) < 0 \/ Grants(x, Period[x])
  PROVE  Wakes(x)'
<1>1. /\ silence[x] \in Nat /\ calm[x] \in Nat /\ wake[x] \in 0 .. Refresh
      /\ Left(x) \in Int /\ Refresh \in Nat \ {0} /\ Period[x] \in Nat
  BY ClockTypes DEF SilenceInv
<1>2. Wakes(x)
  BY DEF SilenceInv, Heard
<1>3. CASE Same(x)
  <2>1. (Has(x)' <=> Has(x)) /\ Left(x)' = Left(x)
    BY <1>3 DEF Same
  <2> QED BY <1>2, <2>1 DEF Wakes
<1>4. CASE Left(x) < 0
  <2>1. ~(Left(x) >= wake[x])
    BY <1>1, <1>4
  <2>2. silence[x] + wake[x] < 2 * Refresh \/ calm[x] + wake[x] < 2 * Refresh
    BY <1>2, <2>1 DEF Wakes
  <2> QED BY <2>2 DEF Wakes
<1>5. CASE Grants(x, Period[x])
  <2>1. Has(x)' /\ Left(x)' >= Refresh /\ Left(x)' \in Nat
    BY <1>1, <1>5, GrantLasts
  <2> QED BY <1>1, <2>1 DEF Wakes
<1> QED BY <1>3, <1>4, <1>5

\* The response thread is started and stopped, never put off.
LEMMA FollowsKeeps == ASSUME Basis, Idles \/ Follows PROVE DueKept
<1>1. CASE Idles
  BY <1>1 DEF Idles, DueKept
<1>2. CASE Follows
  BY <1>2 DEF Follows, DueKept
<1> QED BY <1>1, <1>2

\* What a consumer says leaves the others' leases and clocks alone.
LEMMA SentKeeps ==
  ASSUME Basis, NEW c \in Consumers, NEW p \in {0, Period[c]}, Sent(c, p)
  PROVE  /\ DueKept
         /\ \A x \in Consumers \ {c} : Same(x) /\ calm'[x] = calm[x] /\ known'[x] = known[x]
<1>1. CASE Unheard(c)
  BY <1>1, FollowsKeeps DEF Unheard, Idles, Addresses
<1>2. CASE HeardByAll(c, p) \/ MissedBySome(c, p)
  <2>1. \A x \in Consumers \ {c} : calm'[x] = calm[x] /\ known'[x] = known[x]
    BY <1>2 DEF HeardByAll, MissedBySome
  <2>2. Idles \/ Hears(c, p)
    BY <1>2 DEF HeardByAll, MissedBySome
  <2>3. CASE Idles
    BY <2>1, <2>3, FollowsKeeps DEF Idles, Addresses
  <2>4. CASE Hears(c, p)
    <3>1. Follows /\ OthersSame(c)
      BY <2>4 DEF Hears, Takes, Forgets
    <3> QED BY <2>1, <3>1, FollowsKeeps DEF OthersSame, Addresses
  <2> QED BY <2>2, <2>3, <2>4
<1> QED BY <1>1, <1>2 DEF Sent

\* Who is not the speaker notices nothing.
LEMMA OthersHeard ==
  ASSUME SilenceInv, Basis', Refresh <= LifetimeMin,
         NEW c \in Consumers, NEW p \in {0, Period[c]}, Sent(c, p),
         NEW x \in on \cap near, x \in Consumers, x # c,
         silence'[x] = silence[x], wake'[x] = wake[x]
  PROVE  Wakes(x)' /\ Answered(x)'
<1>1. DueKept /\ Same(x) /\ calm'[x] = calm[x]
  BY SentKeeps DEF SilenceInv
<1> QED BY <1>1, StillWakes, StillAnswered

\* A tick, for a consumer that hears.
LEMMA SilenceTick ==
  ASSUME SilenceInv, Basis', Tick, NEW x \in on \cap near, x \in Consumers
  PROVE  Wakes(x)' /\ Answered(x)'
<1>1. /\ silence[x] \in Nat /\ calm[x] \in Nat /\ wake[x] \in 0 .. Refresh
      /\ Left(x) \in Int /\ Refresh \in Nat \ {0} /\ due \in {-1} \cup 0 .. LongestPeriod
      /\ x \in Addresses
  BY ClockTypes DEF SilenceInv
<1>2. /\ silence'[x] = Older(silence[x], Max({SilenceLimit, Ttl(x)}))
      /\ calm'[x] = Older(calm[x], SilenceLimit)
      /\ wake'[x] = IF wake[x] > 1 \/ silence'[x] >= Refresh THEN wake[x] - 1 ELSE Refresh
      /\ due # 0 /\ due' = IF due = Off THEN Off ELSE due - 1
  BY DEF Tick
<1>3. SilenceLimit \in Nat /\ Max({SilenceLimit, Ttl(x)}) \in Nat
  BY Limits, MaxTwo
<1>4. /\ silence'[x] \in Nat /\ silence'[x] <= silence[x] + 1
      /\ calm'[x] \in Nat /\ calm'[x] <= calm[x] + 1
  BY <1>1, <1>2, <1>3, OlderBy
<1>5. Wakes(x) /\ Answered(x)
  BY DEF SilenceInv, Heard
<1>6. Wanes(x)
  BY <1>1, Ticking DEF SilenceInv, Basis
<1>7. ASSUME silence'[x] < Refresh, wake'[x] = Refresh PROVE Wakes(x)'
  BY <1>1, <1>4, <1>7 DEF Wakes
<1>8. ASSUME wake'[x] = wake[x] - 1 PROVE Wakes(x)'
  <2>1. CASE silence[x] + wake[x] < 2 * Refresh
    <3>1. silence'[x] + wake'[x] < 2 * Refresh
      BY <1>1, <1>4, <1>8, <2>1
    <3> QED BY <3>1 DEF Wakes
  <2>2. CASE calm[x] + wake[x] < 2 * Refresh
    <3>1. calm'[x] + wake'[x] < 2 * Refresh
      BY <1>1, <1>4, <1>8, <2>2
    <3> QED BY <3>1 DEF Wakes
  <2>3. CASE Has(x) /\ Left(x) >= wake[x]
    <3>1. Has(x)' /\ Left(x)' = Left(x) - 1
      BY <1>6, <2>3 DEF Wanes
    <3>2. Left(x)' >= wake'[x]
      BY <1>1, <1>8, <2>3, <3>1
    <3> QED BY <3>1, <3>2 DEF Wakes
  <2> QED BY <1>5, <2>1, <2>2, <2>3 DEF Wakes
<1>9. Wakes(x)'
  BY <1>1, <1>2, <1>4, <1>7, <1>8
<1>10. SilenceLimit' = SilenceLimit
  BY DEF SilenceLimit, LongestPeriod
<1>11. Answered(x)'
  BY <1>1, <1>2, <1>3, <1>4, <1>5, <1>10 DEF Answered, Off
<1> QED BY <1>9, <1>11

\* Every step keeps the invariant that silences end.
LEMMA SilenceStep ==
  ASSUME Refresh <= LifetimeMin
  PROVE  SilenceInv /\ [Next]_vars => SilenceInv'
<1> SUFFICES ASSUME SilenceInv, [Next]_vars PROVE SilenceInv'
  OBVIOUS
<1>0. Basis' /\ Basis
  BY BasisStep DEF SilenceInv
<1>1. on \subseteq Consumers /\ near \subseteq Consumers
  BY <1>0 DEF Basis, Timers
<1> SUFFICES ASSUME NEW x \in on' \cap near', x \in Consumers PROVE Wakes(x)' /\ Answered(x)'
  <2>1. on' \subseteq Consumers
    BY <1>0 DEF Basis, Timers
  <2> QED BY <1>0, <2>1 DEF SilenceInv, Heard
<1>2. ASSUME UNCHANGED <<silence, calm, wake>>, x \in on \cap near,
             DueKept, Same(x) \/ Left(x) < 0
      PROVE  Wakes(x)' /\ Answered(x)'
  BY <1>0, <1>2, StillWakes, StillAnswered
<1>3. ASSUME NEW c \in Consumers, Subscribe(c) PROVE Wakes(x)' /\ Answered(x)'
  <2>1. Sent(c, Period[c])
    BY <1>0, <1>3, Speaks
  <2>2. /\ silence' = [silence EXCEPT ![c] = 0] /\ wake' = [wake EXCEPT ![c] = Refresh]
        /\ on' = on \cup {c} /\ near' = near
    BY <1>3 DEF Subscribe
  <2>3. CASE x = c
    <3>1. silence'[x] = 0
      BY <1>0, <2>2, <2>3 DEF Basis, Timers
    <3> QED BY <1>0, <3>1, StartsAnew
  <2>4. CASE x # c
    <3>1. x \in on \cap near /\ silence'[x] = silence[x] /\ wake'[x] = wake[x]
      BY <1>0, <2>2, <2>4 DEF Basis, Timers
    <3> QED BY <1>0, <2>1, <2>4, <3>1, OthersHeard
  <2> QED BY <2>3, <2>4
<1>4. ASSUME NEW c \in Consumers, Leave(c) PROVE Wakes(x)' /\ Answered(x)'
  <2>1. Sent(c, 0)
    BY <1>0, <1>4, Speaks
  <2>2. /\ silence' = [silence EXCEPT ![c] = 0] /\ wake' = [wake EXCEPT ![c] = Refresh]
        /\ on' = on \ {c} /\ near' = near
    BY <1>4 DEF Leave
  <2>3. x # c /\ x \in on \cap near /\ silence'[x] = silence[x] /\ wake'[x] = wake[x]
    BY <1>0, <2>2 DEF Basis, Timers
  <2> QED BY <1>0, <2>1, <2>3, OthersHeard
<1>5. ASSUME NEW c \in Consumers, ReactiveTick(c) PROVE Wakes(x)' /\ Answered(x)'
  <2>1. /\ UNCHANGED <<on, near, silence>> /\ wake[c] = 0 /\ wake' = [wake EXCEPT ![c] = Refresh]
    BY <1>5 DEF ReactiveTick
  <2>2. x \in on \cap near /\ silence'[x] = silence[x]
    BY <2>1
  <2>3. wake'[c] = Refresh /\ (x # c => wake'[x] = wake[x])
    BY <1>0, <2>1 DEF Basis, Timers
  <2>4. CASE silence[c] >= Refresh
    <3>1. Sent(c, Period[c])
      BY <1>0, <1>5, <2>4, Speaks
    <3>2. CASE x # c
      BY <1>0, <2>2, <2>3, <3>1, <3>2, OthersHeard
    <3>3. CASE x = c
      <4>1. CASE MissedBySome(c, Period[c])
        <5>1. calm'[x] = 0
          BY <3>3, <4>1 DEF MissedBySome
        <5> QED BY <1>0, <5>1, StartsAnew
      <4>2. CASE HeardByAll(c, Period[c])
        <5>1. Grants(x, Period[x]) /\ calm' = calm
          BY <3>3, <4>2, PeriodAssumption DEF HeardByAll, Hears, Takes
        <5>2. DueKept
          BY <1>0, <3>1, SentKeeps
        <5>3. Answered(x)'
          BY <1>0, <2>2, <5>1, <5>2, StillAnswered
        <5>4. Period[x] \in Nat /\ wake'[x] \in 0 .. Refresh /\ Refresh \in Nat
          BY <1>0, ClockTypes, ClockTypesNext
        <5>5. Has(x)' /\ Left(x)' \in Nat /\ Left(x)' >= Refresh
          BY <5>1, <5>4, GrantLasts
        <5>6. Wakes(x)'
          BY <5>4, <5>5 DEF Wakes
        <5> QED BY <5>3, <5>6
      <4> QED BY <2>2, <3>1, <3>3, <4>1, <4>2 DEF Sent, Unheard
    <3> QED BY <3>2, <3>3
  <2>5. CASE ~(silence[c] >= Refresh)
    <3>1. UNCHANGED <<bindings, due, calm>>
      BY <1>0, <1>5, <2>5, Speaks
    <3>2. DueKept /\ \A a \in Addresses : Same(a)
      BY <3>1, Idling DEF DueKept, Idles
    <3>3. Answered(x)'
      BY <1>0, <2>2, <3>1, <3>2, StillAnswered
    <3>4. CASE x = c
      <4>1. silence[x] \in Nat /\ Refresh \in Nat
        BY <1>0, ClockTypes
      <4>2. silence'[x] + wake'[x] < 2 * Refresh
        BY <2>2, <2>3, <2>5, <3>4, <4>1
      <4> QED BY <3>3, <4>2 DEF Wakes
    <3>5. CASE x # c
      <4>1. Same(x)
        BY <3>2 DEF Addresses
      <4> QED BY <1>0, <2>2, <2>3, <3>1, <3>3, <3>5, <4>1, StillWakes
    <3> QED BY <3>4, <3>5
  <2> QED BY <2>4, <2>5
<1>6. ASSUME UNCHANGED <<bindings, due, silence, calm, wake, near>>, on' \subseteq on
      PROVE  Wakes(x)' /\ Answered(x)'
  <2>1. DueKept /\ Same(x)
    BY <1>6, Idling DEF DueKept, Idles, Addresses
  <2> QED BY <1>2, <1>6, <2>1
<1>7. ASSUME NEW c \in Consumers, Abandon(c) PROVE Wakes(x)' /\ Answered(x)'
  <2>1. /\ UNCHANGED <<bindings, due, near>> /\ on' = on \ {c}
        /\ wake' = [wake EXCEPT ![c] = Refresh] /\ silence' = [silence EXCEPT ![c] = 0]
        /\ calm' = [calm EXCEPT ![c] = 0]
    BY <1>7 DEF Abandon, producer
  <2>2. /\ x # c /\ x \in on \cap near /\ silence'[x] = silence[x] /\ wake'[x] = wake[x]
        /\ calm'[x] = calm[x]
    BY <1>0, <2>1 DEF Basis, Timers
  <2>3. DueKept /\ Same(x)
    BY <2>1, Idling DEF DueKept, Idles, Addresses
  <2> QED BY <1>0, <2>2, <2>3, StillWakes, StillAnswered
<1>8. ASSUME NEW c \in Consumers, Move(c) PROVE Wakes(x)' /\ Answered(x)'
  <2>1. /\ UNCHANGED <<bindings, due, on, wake, silence>> /\ calm' = [calm EXCEPT ![c] = 0]
        /\ near' \subseteq near \cup {c}
    BY <1>8 DEF Move, producer, consumers
  <2>2. CASE x = c
    <3>1. calm'[x] = 0
      BY <1>0, <2>1, <2>2 DEF Basis, Timers
    <3> QED BY <1>0, <3>1, StartsAnew
  <2>3. CASE x # c
    <3>1. /\ x \in on \cap near /\ silence'[x] = silence[x] /\ wake'[x] = wake[x]
          /\ calm'[x] = calm[x]
      BY <1>0, <2>1, <2>3 DEF Basis, Timers
    <3>2. DueKept /\ Same(x)
      BY <2>1, Idling DEF DueKept, Idles, Addresses
    <3> QED BY <1>0, <3>1, <3>2, StillWakes, StillAnswered
  <2> QED BY <2>2, <2>3
<1>9. ASSUME NEW c \in Consumers, RequestSync(c) PROVE Wakes(x)' /\ Answered(x)'
  <2>1. UNCHANGED <<bindings, due, silence, calm, wake, near, on>>
    BY <1>9 DEF RequestSync, consumers, producer, history
  <2> QED BY <1>6, <2>1
<1>10. CASE Reap
  <2>1. UNCHANGED <<silence, calm, wake, near, on>>
    BY <1>10 DEF Reap, consumers, history
  <2>2. Reaps
    BY <1>0, <1>10, Reaping DEF Basis
  <2>3. DueKept /\ (Same(x) \/ Left(x) < 0)
    BY <1>0, <2>2, FollowsKeeps DEF Reaps, Addresses
  <2> QED BY <1>2, <2>1, <2>3
<1>11. CASE Respond
  <2>1. UNCHANGED <<near, on>>
    BY <1>11 DEF Respond
  <2>2. PICK lost \in SUBSET (on \cap near) : ConsumersHear(lost)
    BY <1>11 DEF Respond
  <2>3. silence'[x] = 0 \/ calm'[x] = 0
    BY <2>1, <2>2 DEF ConsumersHear
  <2> QED BY <1>0, <2>3, StartsAnew
<1>12. CASE BrokerTick
  <2>1. UNCHANGED <<silence, calm, wake, near, on>>
    BY <1>12 DEF BrokerTick, consumers, history
  <2>2. Announced
    BY <1>0, <1>12, Broadcasting DEF Basis
  <2>3. x \in Addresses /\ x # Rsu
    BY ConsumersAssumption DEF Addresses
  <2>4. (Idles \/ Follows) /\ Same(x)
    BY <2>2, <2>3 DEF Announced, Idles, Takes, Forgets, OthersSame
  <2>5. DueKept
    BY <1>0, <2>4, FollowsKeeps
  <2> QED BY <1>2, <2>1, <2>4, <2>5
<1>13. CASE Tick
  <2>1. x \in on \cap near
    BY <1>13 DEF Tick
  <2> QED BY <1>0, <1>13, <2>1, SilenceTick
<1>14. CASE UNCHANGED vars
  BY <1>6, <1>14 DEF vars
<1> QED BY <1>3, <1>4, <1>5, <1>7, <1>8, <1>9, <1>10, <1>11, <1>12, <1>13, <1>14 DEF Next

\* smart_data.h:111: as long as leases outlast the refresh, a consumer in the quadrant
\* hears a response within SilenceLimit ticks, or asked, came or lost a message since.
THEOREM SilencesEnd ==
  ASSUME Refresh <= LifetimeMin
  PROVE  Spec => []SilenceBounded
<1>1. ASSUME Init PROVE SilenceInv
  BY <1>1, BasisInit DEF Init, SilenceInv, Heard
<1>2. ASSUME SilenceInv PROVE SilenceBounded
  <2> SUFFICES ASSUME NEW c \in on \cap near PROVE Min({silence[c], calm[c]}) <= SilenceLimit
    BY DEF SilenceBounded
  <2>1. c \in Consumers
    BY <1>2 DEF SilenceInv, Basis, Timers
  <2>2. /\ silence[c] \in Nat /\ calm[c] \in Nat /\ wake[c] \in 0 .. Refresh
        /\ due \in {-1} \cup 0 .. LongestPeriod /\ Refresh \in Nat \ {0} /\ c \in Addresses
    BY <1>2, <2>1, ClockTypes DEF SilenceInv
  <2>3. SilenceLimit \in Nat /\ SilenceLimit >= 2 * Refresh - 1
    BY Limits
  <2>4. Wakes(c) /\ Answered(c)
    BY <1>2 DEF SilenceInv, Heard
  <2>5. silence[c] <= SilenceLimit \/ calm[c] <= SilenceLimit
    <3>1. CASE due = Off
      <4>1. ~Has(c)
        BY <1>2, <2>2, <3>1 DEF SilenceInv, Basis, Leases
      <4> QED BY <2>2, <2>3, <2>4, <4>1 DEF Wakes
    <3>2. CASE due # Off
      BY <2>2, <2>3, <2>4, <3>2 DEF Answered, Off
    <3> QED BY <3>1, <3>2
  <2>6. /\ Min({silence[c], calm[c]}) \in {silence[c], calm[c]}
        /\ Min({silence[c], calm[c]}) <= silence[c] /\ Min({silence[c], calm[c]}) <= calm[c]
    <3>1. {silence[c], calm[c]} \in SUBSET Nat /\ {silence[c], calm[c]} # {}
      BY <2>2
    <3> QED BY <3>1, MinOf
  <2> QED BY <2>2, <2>3, <2>5, <2>6
<1> QED BY <1>1, <1>2, SilenceStep, PTL DEF Spec

-----------------------------------------------------------------------------
(* Announced values stay fresh. *)

\* The time that the faults still to come can cost: an announcement each.
Budget == MaxFaults * Repeat
Spare == (MaxFaults - faults) * Repeat

\* The lease of a has responses come as often as c needs them, until after the next
\* announcement that is heard.
Covers(a, c) == Has(a) /\ Per(a) <= Period[c] /\ Left(a) >= timer + Spare
Covered(c) == Covers(c, c) \/ Covers(Rsu, c)

\* The announcement that is heard is still to come, or c is covered and the response
\* thread's last period ends in time, or has ended.
Fresh(c) ==
  \/ known[c] + timer + Spare <= Budget
  \/ Covered(c) /\ (known[c] + due <= Settling \/ silence[c] + due <= Period[c])

FreshInv == Basis /\ \A c \in on \cap near \cap registered : Fresh(c)

\* How announcements and leases must be set: a lease outlasts one announcement more than
\* may be lost.
Outlasting == (MaxFaults + 1) * Repeat <= LifetimeMin

\* Products of what is left of m by r.
LEMMA Times ==
  ASSUME NEW m \in Nat, NEW f \in 0 .. m, NEW g \in f .. m, NEW r \in Nat
  PROVE  /\ (m - f) * r \in Nat /\ (m - g) * r \in Nat /\ m * r \in Nat
         /\ (m - f) * r <= m * r /\ (m - g) * r <= (m - f) * r
         /\ g > f => (m - g) * r + r <= (m - f) * r
         /\ (m + 1) * r = m * r + r
<1>1. (m - f) \in Nat /\ (m - g) \in Nat /\ (g - f) \in Nat /\ f \in Nat
  OBVIOUS
<1>2. \A n \in Nat : n * r \in Nat
  OBVIOUS
<1>3. m * r = (m - f) * r + f * r /\ (m - f) * r = (m - g) * r + (g - f) * r
  BY <1>1
<1>4. (m - f) * r \in Nat /\ (m - g) * r \in Nat /\ m * r \in Nat /\ f * r \in Nat
      /\ (g - f) * r \in Nat
  BY <1>1, <1>2
<1>5. ASSUME g > f PROVE (g - f) * r >= r
  <2>1. g - f - 1 \in Nat
    BY <1>1, <1>5
  <2>2. (g - f) * r = r + (g - f - 1) * r /\ (g - f - 1) * r \in Nat
    BY <1>1, <1>2, <2>1
  <2> QED BY <2>2
<1>6. (m + 1) * r = m * r + r
  OBVIOUS
<1> QED BY <1>3, <1>4, <1>5, <1>6

\* The time the faults to come can cost.
LEMMA SpareType ==
  ASSUME Basis
  PROVE  /\ Spare \in Nat /\ Spare <= Budget /\ Budget \in Nat
         /\ timer \in 0 .. Repeat /\ Repeat \in Nat
<1>1. faults \in 0 .. MaxFaults /\ MaxFaults \in Nat /\ Repeat \in Nat /\ timer \in 0 .. Repeat
  BY TimingAssumption DEF Basis, Timers
<1>2. faults \in faults .. MaxFaults
  BY <1>1
<1> QED BY <1>1, <1>2, Times DEF Spare, Budget

\* A fault uses up an announcement's time.
LEMMA SpareNext ==
  ASSUME Basis, Basis', faults' >= faults
  PROVE  /\ Spare' \in Nat /\ Spare' <= Spare
         /\ faults' > faults => Spare' + Repeat <= Spare
<1>1. faults \in 0 .. MaxFaults /\ faults' \in 0 .. MaxFaults /\ MaxFaults \in Nat /\ Repeat \in Nat
  BY TimingAssumption DEF Basis, Timers
<1>2. faults' \in faults .. MaxFaults
  BY <1>1
<1>3. Spare' = (MaxFaults - faults') * Repeat
  BY DEF Spare
<1> QED BY <1>1, <1>2, <1>3, Times DEF Spare

\* A lease just granted covers whoever asks for responses no more often.
LEMMA GrantCovers ==
  ASSUME Basis', Outlasting, NEW p \in Nat, NEW a, NEW c, Grants(a, p), p <= Period[c]
  PROVE  Covers(a, c)'
<1>1. Life(p) \in Nat /\ Life(p) >= LifetimeMin
  BY LifeGrows
<1>2. faults' \in 0 .. MaxFaults /\ MaxFaults \in Nat /\ Repeat \in Nat /\ timer' \in 0 .. Repeat
      /\ LifetimeMin \in Nat
  BY TimingAssumption DEF Basis, Timers
<1>3. /\ (MaxFaults + 1) * Repeat = Budget + Repeat /\ Budget \in Nat
      /\ (MaxFaults - faults') * Repeat <= Budget
      /\ (MaxFaults - faults') * Repeat \in Nat
  <2>1. faults' \in faults' .. MaxFaults
    BY <1>2
  <2> QED BY <1>2, <2>1, Times DEF Budget
<1>4. Spare' = (MaxFaults - faults') * Repeat
  BY DEF Spare
<1>5. Life(p) >= timer' + Spare'
  BY <1>1, <1>2, <1>3, <1>4 DEF Outlasting
<1> QED BY <1>5 DEF Grants, Covers

\* What a fault that resets a timer needs is there.
LEMMA Room ==
  ASSUME NEW r \in Nat, NEW t \in 0 .. r, NEW s \in Nat, NEW q \in Nat, NEW b \in Nat,
         s + r <= q, q <= b
  PROVE  t + s <= b
OBVIOUS

\* A fault that starts the clock of x anew: there is an announcement's time for it.
LEMMA FaultFresh ==
  ASSUME Basis, Basis', NEW x \in Consumers, known'[x] = 0, faults' > faults
  PROVE  Fresh(x)'
<1>1. timer' \in 0 .. Repeat /\ Repeat \in Nat /\ Budget \in Nat
  BY SpareType, TimingAssumption DEF Basis, Timers
<1>2. Spare' \in Nat /\ Spare' + Repeat <= Spare
  <2>1. faults' >= faults
    BY DEF Basis, Timers
  <2> QED BY <2>1, SpareNext
<1>3. Spare \in Nat /\ Spare <= Budget
  BY SpareType
<1>4. timer' + Spare' <= Budget /\ timer' \in Nat
  <2>1. timer' + Spare' <= Budget
    BY <1>1, <1>2, <1>3, Room, Zenon
  <2> QED BY <1>1, <2>1
<1>5. known'[x] \in Nat /\ known'[x] = 0
  BY ClockTypesNext
<1>6. known'[x] + timer' + Spare' <= Budget
  BY <1>2, <1>3, <1>4, <1>5
<1> QED BY <1>6 DEF Fresh

\* Who is covered has a response to come.
LEMMA CoveredDue ==
  ASSUME Basis, NEW c \in Consumers, Covered(c)
  PROVE  due \in 0 .. LongestPeriod
<1>1. PICK a \in Addresses : Has(a)
  BY DEF Covered, Covers, Addresses
<1> QED BY <1>1 DEF Basis, Leases

\* The same after the step.
LEMMA CoveredDueNext ==
  ASSUME Basis', NEW c \in Consumers, Covered(c)'
  PROVE  due' \in 0 .. LongestPeriod
<1>1. PICK a \in Addresses : Has(a)'
  BY DEF Covered, Covers, Addresses
<1>2. LongestPeriod' = LongestPeriod /\ Addresses' = Addresses
  BY DEF LongestPeriod, Addresses
<1> QED BY <1>1, <1>2 DEF Basis, Leases

\* Who has just been registered is covered by its own lease.
LEMMA GrantFresh ==
  ASSUME Basis, Basis', Outlasting, NEW x \in Consumers, known'[x] = 0, Grants(x, Period[x])
  PROVE  Fresh(x)'
<1>1. Period[x] \in Nat
  BY PeriodAssumption
<1>2. Covered(x)'
  BY <1>1, GrantCovers DEF Covered
<1>3. due' \in 0 .. LongestPeriod
  BY <1>2, CoveredDueNext
<1>4. Settling' = Settling /\ Settling \in Nat /\ Settling >= LongestPeriod
      /\ LongestPeriod \in Nat
  BY Limits, Longest DEF Settling, LongestPeriod
<1>5. known'[x] + due' <= Settling'
  BY <1>3, <1>4
<1> QED BY <1>2, <1>5 DEF Fresh

\* Steps in which no time passes and x loses nothing.
LEMMA StillCovered ==
  ASSUME Basis, Basis', Outlasting, NEW x \in Consumers, Covered(x),
         timer' = timer, faults' >= faults,
         \A a \in {x, Rsu} : \/ Same(a) \/ Left(a) < 0
                             \/ a = x /\ Grants(x, Period[x])
  PROVE  Covered(x)'
<1>1. PICK a \in {x, Rsu} : Covers(a, x)
  BY DEF Covered
<1>2. /\ Spare \in Nat /\ Spare' \in Nat /\ Spare' <= Spare /\ timer \in 0 .. Repeat
      /\ Repeat \in Nat /\ Period[x] \in Nat
  BY SpareType, SpareNext, PeriodAssumption
<1>3. a \in Addresses
  BY DEF Addresses
<1>4. Left(a) \in Int /\ Per(a) \in Nat
  BY <1>3, Leaseless DEF Basis
<1>5. CASE Same(a)
  <2>1. Has(a)' /\ Per(a)' = Per(a) /\ Left(a)' = Left(a)
    BY <1>1, <1>5 DEF Same, Covers
  <2>2. Left(a) >= timer' + Spare'
    BY <1>1, <1>2, <1>4 DEF Covers
  <2>3. Covers(a, x)'
    BY <1>1, <2>1, <2>2 DEF Covers
  <2> QED BY <2>3 DEF Covered, Rsu
<1>6. CASE Left(a) < 0
  BY <1>1, <1>2, <1>4, <1>6 DEF Covers
<1>7. CASE a = x /\ Grants(x, Period[x])
  <2>1. Covers(x, x)'
    BY <1>2, <1>7, GrantCovers
  <2> QED BY <2>1 DEF Covered
<1> QED BY <1>5, <1>6, <1>7

\* What was fresh stays so.
LEMMA StillFresh ==
  ASSUME Basis, Basis', Outlasting, NEW x \in Consumers, Fresh(x),
         known'[x] = known[x], silence'[x] = silence[x],
         timer' = timer, faults' >= faults, DueKept,
         \A a \in {x, Rsu} : \/ Same(a) \/ Left(a) < 0
                             \/ a = x /\ Grants(x, Period[x])
  PROVE  Fresh(x)'
<1>1. /\ Spare \in Nat /\ Spare' \in Nat /\ Spare' <= Spare /\ timer \in 0 .. Repeat
      /\ Repeat \in Nat /\ Budget \in Nat /\ known[x] \in Nat
  BY SpareType, SpareNext, ClockTypes
<1>2. CASE known[x] + timer + Spare <= Budget
  <2>1. known'[x] + timer' + Spare' <= Budget
    BY <1>1, <1>2
  <2> QED BY <2>1 DEF Fresh
<1>3. CASE Covered(x) /\ (known[x] + due <= Settling \/ silence[x] + due <= Period[x])
  <2>1. Covered(x)'
    BY <1>3, StillCovered
  <2>2. due' \in Nat /\ due \in Nat
    <3>1. due' \in 0 .. LongestPeriod
      BY <2>1, CoveredDueNext
    <3>2. due \in 0 .. LongestPeriod
      BY <1>3, CoveredDue
    <3> QED BY <3>1, <3>2
  <2>3. due' = due
    BY <2>2 DEF DueKept, Off
  <2>4. Settling' = Settling
    BY DEF Settling, LongestPeriod
  <2> QED BY <1>3, <2>1, <2>3, <2>4 DEF Fresh
<1> QED BY <1>2, <1>3 DEF Fresh

\* A tick.
LEMMA FreshTick ==
  ASSUME Basis, Basis', Tick, NEW x \in Consumers, x \in on \cap near \cap registered, Fresh(x)
  PROVE  Fresh(x)'
<1>1. /\ known[x] \in Nat /\ silence[x] \in Nat /\ due \in {-1} \cup 0 .. LongestPeriod
      /\ x \in Addresses /\ Rsu \in Addresses
  BY ClockTypes DEF Addresses
<1>2. station
  BY DEF Basis, Timers
<1>3. /\ known'[x] = Older(known[x], Settling)
      /\ silence'[x] = Older(silence[x], Max({SilenceLimit, Ttl(x)}))
      /\ timer' = timer - 1 /\ faults' = faults
      /\ due # 0 /\ due' = IF due = Off THEN Off ELSE due - 1
  BY <1>2 DEF Tick
<1>4. Settling \in Nat /\ Max({SilenceLimit, Ttl(x)}) \in Nat
  BY Limits, MaxTwo
<1>5. /\ known'[x] \in Nat /\ known'[x] <= known[x] + 1
      /\ silence'[x] \in Nat /\ silence'[x] <= silence[x] + 1
  BY <1>1, <1>3, <1>4, OlderBy
<1>6. Spare \in Nat /\ timer \in Int /\ Budget \in Nat
  BY SpareType
<1>7. Spare' = Spare /\ Settling' = Settling
  BY <1>3 DEF Spare, Settling, LongestPeriod
<1>8. CASE known[x] + timer + Spare <= Budget
  <2>1. known'[x] + timer' + Spare <= Budget
    BY <1>1, <1>3, <1>5, <1>6, <1>8
  <2> QED BY <1>7, <2>1 DEF Fresh
<1>9. CASE Covered(x) /\ (known[x] + due <= Settling \/ silence[x] + due <= Period[x])
  <2>1. PICK a \in {x, Rsu} : Covers(a, x)
    BY <1>9 DEF Covered
  <2>2. a \in Addresses
    BY <1>1
  <2>3. Has(a)' /\ Per(a)' = Per(a) /\ Left(a)' = Left(a) - 1 /\ Left(a) \in Int
    BY <2>1, <2>2, Ticking, Leaseless DEF Wanes, Basis, Covers
  <2>4. Left(a)' >= timer' + Spare'
    BY <1>3, <1>6, <1>7, <2>1, <2>3 DEF Covers
  <2>5. Covers(a, x)'
    BY <2>1, <2>3, <2>4 DEF Covers
  <2>6. Covered(x)'
    BY <2>5 DEF Covered, Rsu
  <2>7. due \in Nat /\ due' = due - 1
    <3>1. due \in 0 .. LongestPeriod
      BY <1>9, CoveredDue
    <3> QED BY <1>3, <3>1 DEF Off
  <2>8. CASE known[x] + due <= Settling
    <3>1. known'[x] + due' <= Settling
      BY <1>1, <1>4, <1>5, <2>7, <2>8
    <3> QED BY <1>7, <2>6, <3>1 DEF Fresh
  <2>9. CASE silence[x] + due <= Period[x]
    <3>1. Period[x] \in Nat
      BY PeriodAssumption
    <3>2. silence'[x] + due' <= Period[x]
      BY <1>1, <1>5, <2>7, <2>9, <3>1
    <3> QED BY <2>6, <3>2 DEF Fresh
  <2> QED BY <1>9, <2>8, <2>9
<1> QED BY <1>8, <1>9 DEF Fresh

\* A round of the broker: it is the announcement, or a fault.
LEMMA FreshBroker ==
  ASSUME Basis, Basis', Outlasting, BrokerTick,
         NEW x \in Consumers, x \in registered', Fresh(x)
  PROVE  Fresh(x)'
<1>1. /\ UNCHANGED <<known, silence>> /\ timer = 0 /\ timer' = Repeat /\ x \in Alive
  BY DEF BrokerTick, consumers, history
<1>2. /\ known[x] \in Nat /\ silence[x] \in Nat /\ due \in {-1} \cup 0 .. LongestPeriod
      /\ due' \in {-1} \cup 0 .. LongestPeriod /\ x \in Addresses /\ Rsu \in Addresses /\ x # Rsu
      /\ LongestPeriod \in Nat
  BY ClockTypes, ClockTypesNext, ConsumersAssumption DEF Addresses
<1>3. Spare \in Nat /\ Budget \in Nat /\ Repeat \in Nat
  BY SpareType
<1>4. Settling' = Settling /\ Settling = Budget + LongestPeriod
  BY DEF Settling, LongestPeriod, Budget
<1>5. ASSUME NEW p \in PeriodsAsked, Takes(Rsu, p), p <= Period[x]
      PROVE  Fresh(x)'
  <2>1. p \in Nat
    BY Longest
  <2>2. Covered(x)'
    BY <1>5, <2>1, GrantCovers DEF Takes, Covered, Rsu
  <2>3. due' \in 0 .. LongestPeriod
    BY <2>2, CoveredDueNext
  <2>4. CASE known[x] + timer + Spare <= Budget
    <3>1. known[x] <= Budget
      BY <1>1, <1>2, <1>3, <2>4
    <3>2. known'[x] + due' <= Settling
      BY <1>1, <1>2, <1>3, <1>4, <2>3, <3>1
    <3> QED BY <1>4, <2>2, <3>2 DEF Fresh
  <2>5. CASE Covered(x) /\ (known[x] + due <= Settling \/ silence[x] + due <= Period[x])
    <3>1. due \in 0 .. LongestPeriod /\ DueKept
      BY <1>5, <2>5, CoveredDue, FollowsKeeps DEF Takes
    <3>2. due' = due
      BY <1>2, <2>3, <3>1 DEF DueKept, Off
    <3> QED BY <1>1, <1>4, <2>2, <2>5, <3>2 DEF Fresh
  <2> QED BY <2>4, <2>5 DEF Fresh
<1>6. ASSUME Idles, faults' = faults + 1 PROVE Fresh(x)'
  <2>1. PICK s \in Nat : s = Spare' /\ s + Repeat <= Spare
    <3>1. faults' >= faults /\ faults' > faults
      BY <1>6 DEF Basis, Timers
    <3> QED BY <3>1, SpareNext
  <2>2. due' = due
    BY <1>6 DEF Idles
  <2>3. CASE known[x] + timer + Spare <= Budget
    <3>1. known[x] + Spare <= Budget
      BY <1>1, <1>2, <1>3, <2>3
    <3>2. known[x] + Repeat + s <= Budget
      <4>1. s \in Nat /\ s + Repeat <= Spare /\ known[x] \in Nat
        BY <1>2, <2>1
      <4> QED BY ONLY <1>3, <3>1, <4>1
    <3>3. known'[x] = known[x] /\ timer' = Repeat
      BY <1>1
    <3>4. known'[x] + timer' + s <= Budget
      BY <3>2, <3>3
    <3>5. known'[x] + timer' + Spare' <= Budget
      BY <2>1, <3>4
    <3> QED BY <3>5 DEF Fresh
  <2>4. CASE Covered(x) /\ (known[x] + due <= Settling \/ silence[x] + due <= Period[x])
    <3>1. PICK a \in {x, Rsu} : Covers(a, x)
      BY <2>4 DEF Covered
    <3>2. Same(a) /\ a \in Addresses
      BY <1>2, <1>6 DEF Idles
    <3>3. Has(a)' /\ Per(a)' = Per(a) /\ Left(a)' = Left(a) /\ Left(a) \in Int
      BY <3>1, <3>2, Leaseless DEF Same, Covers, Basis
    <3>4. Left(a) >= Spare
      BY <1>1, <1>3, <3>1, <3>3 DEF Covers
    <3>5. Left(a) >= Repeat + s
      <4>1. s \in Nat /\ s + Repeat <= Spare
        BY <2>1
      <4> QED BY ONLY <1>3, <3>3, <3>4, <4>1
    <3>6. Covers(a, x)'
      BY <1>1, <2>1, <3>1, <3>3, <3>5 DEF Covers
    <3>7. Covered(x)'
      BY <3>6 DEF Covered, Rsu
    <3> QED BY <1>1, <1>4, <2>2, <2>4, <3>7 DEF Fresh
  <2> QED BY <2>3, <2>4 DEF Fresh
<1>7. Announced
  BY Broadcasting DEF Basis
<1> QED BY <1>1, <1>5, <1>6, <1>7 DEF Announced

\* A response: who misses it starts anew, the others have just heard.
LEMMA FreshRespond ==
  ASSUME Basis, Basis', Respond, NEW x \in Consumers, x \in on \cap near \cap registered, Fresh(x)
  PROVE  Fresh(x)'
<1>1. /\ due = 0 /\ due' = Min({bindings[a].period : a \in Bound(bindings)})
      /\ UNCHANGED <<bindings, timer, on, near, registered>>
  BY DEF Respond, broker
<1>2. PICK lost \in SUBSET (on \cap near) : /\ faults' = faults + Cardinality(lost)
                                            /\ ConsumersHear(lost)
  BY DEF Respond
<1>3. IsFiniteSet(lost)
  BY ConsumersAssumption, FS_Subset DEF Basis, Timers
<1>4. Cardinality(lost) \in Nat /\ (Cardinality(lost) = 0 <=> lost = {})
  BY <1>3, FS_CardinalityType, FS_EmptySet
<1>5. due' \in 0 .. LongestPeriod /\ \A a \in Addresses : Has(a) => due' <= Per(a)
  BY <1>1, Responding DEF Basis
<1>6. /\ known[x] \in Nat /\ x \in Addresses /\ Rsu \in Addresses /\ Period[x] \in Nat
  BY ClockTypes DEF Addresses
<1>7. CASE x \in lost
  <2>1. known'[x] = 0
    BY <1>2, <1>7 DEF ConsumersHear
  <2>2. faults' > faults
    BY <1>2, <1>4, <1>7 DEF Basis, Timers
  <2> QED BY <2>1, <2>2, FaultFresh
<1>8. CASE x \notin lost
  <2>1. known'[x] = known[x] /\ silence'[x] = 0
    BY <1>2, <1>8 DEF ConsumersHear
  <2>2. /\ Spare \in Nat /\ timer \in Int /\ Budget \in Nat
        /\ Spare' \in Nat /\ Spare' <= Spare
    <3>1. faults' >= faults
      BY <1>2, <1>4 DEF Basis, Timers
    <3> QED BY <3>1, SpareType, SpareNext
  <2>3. CASE known[x] + timer + Spare <= Budget
    <3>1. known[x] + timer + Spare' <= Budget
      BY <1>6, <2>2, <2>3
    <3> QED BY <1>1, <2>1, <3>1 DEF Fresh
  <2>4. CASE Covered(x)
    <3>1. PICK a \in {x, Rsu} : Covers(a, x)
      BY <2>4 DEF Covered
    <3>2. a \in Addresses /\ Same(a)
      BY <1>1, <1>6, Idling DEF Same, Has, Bound, Per, Left
    <3>3. Has(a) /\ Has(a)' /\ Per(a)' = Per(a) /\ Left(a)' = Left(a) /\ Left(a) \in Int
          /\ Per(a) \in Nat /\ Per(a) <= Period[x]
      BY <3>1, <3>2, Leaseless DEF Same, Covers, Basis
    <3>4. Left(a)' >= timer' + Spare'
      BY <1>1, <2>2, <3>1, <3>3 DEF Covers
    <3>5. Covered(x)'
      BY <3>1, <3>3, <3>4 DEF Covered, Covers, Rsu
    <3>6. due' <= Period[x] /\ due' \in Nat
      BY <1>5, <1>6, <3>2, <3>3
    <3>7. silence'[x] \in Nat /\ silence'[x] + due' <= Period[x]
      BY <1>6, <2>1, <3>6
    <3> QED BY <3>5, <3>7 DEF Fresh
  <2> QED BY <2>3, <2>4 DEF Fresh
<1> QED BY <1>7, <1>8

\* What a consumer sends, for itself and for the others.
LEMMA FreshSent ==
  ASSUME Basis, Basis', Outlasting, NEW c \in Consumers, NEW p \in {0, Period[c]}, Sent(c, p),
         timer' = timer, NEW x \in Consumers, x \in near, x \in registered',
         x # c => silence'[x] = silence[x],
         x = c => p # 0 /\ (x \in registered => silence'[x] = silence[x]),
         x \in registered => Fresh(x)
  PROVE  Fresh(x)'
<1>1. faults' >= faults /\ DueKept
  BY SentKeeps DEF Sent, Basis, Timers
<1>2. CASE x # c
  <2>1. x \in registered
    BY <1>2, SentRegisters
  <2>2. Same(x) /\ known'[x] = known[x]
    BY <1>2, SentKeeps
  <2>3. Same(Rsu)
    <3>1. Rsu \in Addresses \ {c}
      BY ConsumersAssumption DEF Addresses
    <3>2. Idles \/ Hears(c, p)
      BY DEF Sent, Unheard, HeardByAll, MissedBySome
    <3> QED BY <3>1, <3>2 DEF Idles, Hears, Takes, Forgets, OthersSame
  <2>4. \A a \in {x, Rsu} : Same(a)
    BY <2>2, <2>3
  <2> QED BY <1>1, <1>2, <2>1, <2>2, <2>4, StillFresh
<1>3. CASE x = c /\ MissedBySome(c, p)
  BY <1>3, FaultFresh DEF MissedBySome
<1>4. CASE x = c /\ HeardByAll(c, p)
  <2>1. p = Period[x] /\ Takes(x, p)
    BY <1>4 DEF HeardByAll, Hears
  <2>2. Grants(x, Period[x]) /\ OthersSame(x)
    BY <2>1 DEF Takes
  <2>3. CASE registered' = registered
    <3>1. x \in registered /\ known'[x] = known[x] /\ silence'[x] = silence[x]
      BY <1>4, <2>3 DEF HeardByAll
    <3>2. Same(Rsu)
      BY <2>2, ConsumersAssumption DEF OthersSame, Addresses
    <3>3. \A a \in {x, Rsu} : Same(a) \/ (a = x /\ Grants(x, Period[x]))
      BY <2>2, <3>2
    <3> QED BY <1>1, <3>1, <3>3, StillFresh
  <2>4. CASE registered' # registered
    <3>1. known'[x] = 0
      BY <1>4, <2>4 DEF HeardByAll
    <3> QED BY <2>2, <3>1, GrantFresh
  <2> QED BY <2>3, <2>4
<1> QED BY <1>2, <1>3, <1>4 DEF Sent, Unheard

\* Every step keeps the invariant that values are fresh.
LEMMA FreshStep ==
  ASSUME Outlasting
  PROVE  FreshInv /\ [Next]_vars => FreshInv'
<1> SUFFICES ASSUME FreshInv, [Next]_vars PROVE FreshInv'
  OBVIOUS
<1>0. Basis' /\ Basis
  BY BasisStep DEF FreshInv
<1> SUFFICES ASSUME NEW x \in on' \cap near' \cap registered', x \in Consumers
             PROVE  Fresh(x)'
  <2>1. on' \subseteq Consumers
    BY <1>0 DEF Basis, Timers
  <2> QED BY <1>0, <2>1 DEF FreshInv
<1>1. x \in on \cap near \cap registered => Fresh(x)
  BY DEF FreshInv
<1>2. ASSUME UNCHANGED <<bindings, due, timer>>, faults' >= faults,
             x \in on \cap near \cap registered,
             known'[x] = known[x], silence'[x] = silence[x]
      PROVE  Fresh(x)'
  <2>1. DueKept /\ Same(x) /\ Same(Rsu)
    BY <1>2, Idling DEF DueKept, Idles, Addresses
  <2> QED BY <1>0, <1>1, <1>2, <2>1, StillFresh
<1>3. faults \in Nat
  BY <1>0 DEF Basis, Timers
<1>4. ASSUME NEW c \in Consumers, Subscribe(c) PROVE Fresh(x)'
  <2>1. Sent(c, Period[c]) /\ Period[c] # 0
    BY <1>0, <1>4, Speaks, PeriodAssumption
  <2>2. /\ UNCHANGED <<near, timer>> /\ silence' = [silence EXCEPT ![c] = 0]
        /\ on' = on \cup {c} /\ c \notin subscribed
    BY <1>4 DEF Subscribe
  <2>3. c \notin registered /\ c \notin on /\ (x # c => silence'[x] = silence[x])
    BY <1>0, <2>2 DEF Basis, Timers
  <2>4. x \in near /\ x \in registered' /\ (x # c => x \in on)
    BY <2>2
  <2>5. x \in registered => Fresh(x)
    BY <1>1, <2>3, <2>4
  <2> QED BY <1>0, <2>1, <2>2, <2>3, <2>4, <2>5, FreshSent
<1>5. ASSUME NEW c \in Consumers, Leave(c) PROVE Fresh(x)'
  <2>1. Sent(c, 0)
    BY <1>0, <1>5, Speaks
  <2>2. /\ UNCHANGED <<near, timer>> /\ silence' = [silence EXCEPT ![c] = 0]
        /\ on' = on \ {c}
    BY <1>5 DEF Leave
  <2>3. x # c /\ x \in on /\ x \in near /\ silence'[x] = silence[x]
    BY <1>0, <2>2 DEF Basis, Timers
  <2> QED BY <1>0, <1>1, <2>1, <2>2, <2>3, FreshSent
<1>6. ASSUME NEW c \in Consumers, ReactiveTick(c) PROVE Fresh(x)'
  <2>1. UNCHANGED <<on, near, silence, timer>>
    BY <1>6 DEF ReactiveTick
  <2>2. CASE silence[c] >= Refresh
    <3>1. Sent(c, Period[c]) /\ Period[c] # 0
      BY <1>0, <1>6, <2>2, Speaks, PeriodAssumption
    <3> QED BY <1>0, <1>1, <2>1, <3>1, FreshSent
  <2>3. CASE ~(silence[c] >= Refresh)
    <3>1. UNCHANGED <<bindings, due, registered, presence, calm, known, faults>>
      BY <1>0, <1>6, <2>3, Speaks
    <3> QED BY <1>2, <1>3, <2>1, <3>1
  <2> QED BY <2>2, <2>3
<1>7. ASSUME NEW c \in Consumers, Abandon(c) PROVE Fresh(x)'
  <2>1. /\ UNCHANGED <<bindings, due, near, timer, registered, faults>> /\ on' = on \ {c}
        /\ silence' = [silence EXCEPT ![c] = 0] /\ known' = [known EXCEPT ![c] = 0]
    BY <1>7 DEF Abandon, producer, broker
  <2>2. x # c /\ x \in on \cap near \cap registered
        /\ silence'[x] = silence[x] /\ known'[x] = known[x]
    BY <1>0, <2>1 DEF Basis, Timers
  <2> QED BY <1>2, <1>3, <2>1, <2>2
<1>8. ASSUME NEW c \in Consumers, Move(c) PROVE Fresh(x)'
  <2>1. /\ UNCHANGED <<bindings, due, on, silence, timer, registered>> /\ faults' = faults + 1
        /\ known' = [known EXCEPT ![c] = 0] /\ near' \subseteq near \cup {c}
    BY <1>8 DEF Move, producer, consumers
  <2>2. faults' > faults /\ faults' >= faults
    BY <1>3, <2>1
  <2>3. CASE x = c
    <3>1. known'[x] = 0
      BY <1>0, <2>1, <2>3 DEF Basis, Timers
    <3> QED BY <1>0, <2>2, <3>1, FaultFresh
  <2>4. CASE x # c
    <3>1. x \in on \cap near \cap registered /\ known'[x] = known[x] /\ silence'[x] = silence[x]
      BY <1>0, <2>1, <2>4 DEF Basis, Timers
    <3> QED BY <1>2, <2>1, <2>2, <3>1
  <2> QED BY <2>3, <2>4
<1>9. ASSUME NEW c \in Consumers, RequestSync(c) PROVE Fresh(x)'
  <2>1. UNCHANGED <<bindings, due, on, near, silence, timer, registered, faults, known>>
    BY <1>9 DEF RequestSync, producer, consumers, history
  <2> QED BY <1>2, <1>3, <2>1
<1>10. CASE Reap
  <2>1. UNCHANGED <<on, near, silence, timer, registered, faults, known>>
    BY <1>10 DEF Reap, consumers, broker, history
  <2>2. Reaps
    BY <1>0, <1>10, Reaping DEF Basis
  <2>3. DueKept
    BY <1>0, <2>2, FollowsKeeps DEF Reaps
  <2>4. \A a \in {x, Rsu} : Same(a) \/ Left(a) < 0
    BY <2>2 DEF Reaps, Addresses
  <2> QED BY <1>0, <1>1, <1>3, <2>1, <2>3, <2>4, StillFresh
<1>11. CASE Respond
  <2>1. UNCHANGED <<on, near, registered>>
    BY <1>11 DEF Respond, broker
  <2> QED BY <1>0, <1>1, <1>11, <2>1, FreshRespond
<1>12. CASE BrokerTick
  <2>1. UNCHANGED <<on, near>> /\ registered' \subseteq registered
    BY <1>12 DEF BrokerTick, Alive, consumers
  <2> QED BY <1>0, <1>1, <1>12, <2>1, FreshBroker
<1>13. CASE Tick
  <2>1. UNCHANGED <<on, near, registered>>
    BY <1>13 DEF Tick
  <2> QED BY <1>0, <1>1, <1>13, <2>1, FreshTick
<1>14. CASE UNCHANGED vars
  BY <1>2, <1>3, <1>14 DEF vars
<1> QED BY <1>4, <1>5, <1>6, <1>7, <1>8, <1>9, <1>10, <1>11, <1>12, <1>13, <1>14 DEF Next

\* tests/interest_value.cpp:97, for an announced consumer: where leases outlast the
\* announcements that may be lost, its value is fresh once an announcement was heard and
\* the response thread's last period is over.
THEOREM AnnouncedStaysFresh ==
  ASSUME Outlasting, TtlFactor >= 1
  PROVE  Spec => []StaysFresh
<1>1. ASSUME Init PROVE FreshInv
  BY <1>1, BasisInit DEF Init, FreshInv
<1>2. ASSUME FreshInv PROVE StaysFresh
  <2> SUFFICES ASSUME NEW c \in on \cap near \cap registered, known[c] > Settling
               PROVE  silence[c] <= Ttl(c)
    BY DEF StaysFresh
  <2>1. c \in Consumers /\ Basis /\ Fresh(c)
    BY <1>2 DEF FreshInv, Basis, Timers
  <2>2. /\ known[c] \in Nat /\ silence[c] \in Nat /\ Period[c] \in Nat /\ LongestPeriod \in Nat
    BY <2>1, ClockTypes
  <2>3. Spare \in Nat /\ timer \in Nat /\ Budget \in Nat
    BY <2>1, SpareType
  <2>4. Settling = Budget + LongestPeriod
    BY DEF Settling, Budget
  <2>5. ~(known[c] + timer + Spare <= Budget)
    BY <2>2, <2>3, <2>4
  <2>6. Covered(c) /\ (known[c] + due <= Settling \/ silence[c] + due <= Period[c])
    BY <2>1, <2>5 DEF Fresh
  <2>7. due \in Nat
    <3>1. due \in 0 .. LongestPeriod
      BY <2>1, <2>6, CoveredDue
    <3> QED BY <3>1
  <2>8. silence[c] <= Period[c]
    <3>1. ~(known[c] + due <= Settling)
      BY <2>2, <2>3, <2>4, <2>7
    <3>2. silence[c] + due <= Period[c]
      BY <2>6, <3>1
    <3> QED BY <2>2, <2>7, <3>2
  <2>9. Ttl(c) = TtlFactor * Period[c] /\ TtlFactor * Period[c] \in Nat
        /\ TtlFactor * Period[c] >= Period[c]
    <3>1. TtlFactor \in Nat /\ TtlFactor - 1 \in Nat
      BY TimingAssumption
    <3>2. /\ TtlFactor * Period[c] = (TtlFactor - 1) * Period[c] + Period[c]
          /\ (TtlFactor - 1) * Period[c] \in Nat
      BY <2>2, <3>1
    <3> QED BY <2>2, <3>1, <3>2 DEF Ttl
  <2> QED BY <2>2, <2>8, <2>9
<1> QED BY <1>1, <1>2, FreshStep, PTL DEF Spec
=============================================================================
