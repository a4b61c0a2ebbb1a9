------------------------- MODULE BindingCacheProofs -------------------------
(* That the cache, its mutex and its periodic thread stay consistent, for   *)
(* all addresses, periods, ring sizes and bounds.                           *)
EXTENDS BindingCache, TLAPS

\* The bindings and the thread are what their declarations say.
Typed ==
  /\ bindings \in [Addrs -> {NoLease} \cup [period : Periods, left : Int]]
  /\ mutex \in {"free", "rx", "reaper"}
  /\ thread = [at |-> thread.at, period |-> thread.period, stop |-> thread.stop]
  /\ thread.stop \in BOOLEAN
  /\ thread.at \in {"none", "due", "responds", "sleeps", "ended"}
  /\ thread.at = "none" <=> thread = NoThread

\* Who holds the mutex is at the place in its code where it joins the thread.
Holder ==
  /\ mutex = "rx" <=> rx.at \in {"cleared", "joins"}
  /\ mutex = "reaper" <=> reaper.joins = TRUE
  /\ reaper = [sleep |-> reaper.sleep, joins |-> reaper.joins]
  /\ reaper.joins \in BOOLEAN

\* Whoever joins has left no binding, and told the thread to stop.
Joining ==
  mutex # "free" => /\ Bound(bindings) = {}
                    /\ thread = NoThread \/ thread.stop = TRUE

\* Nothing but that ends the thread.
Ending == thread.at = "ended" => thread.stop = TRUE

IInv == Typed /\ Holder /\ Joining /\ Ending /\ ThreadFollowsBindings

-----------------------------------------------------------------------------
\* Time and clock steps change neither who is bound nor the shortest period.
LEMMA ElapsedBound ==
  ASSUME Typed, NEW n \in Int
  PROVE  /\ Elapsed(n) \in [Addrs -> {NoLease} \cup [period : Periods, left : Int]]
         /\ Bound(Elapsed(n)) = Bound(bindings)
         /\ Shortest(Elapsed(n)) = Shortest(bindings)
<1>1. ASSUME NEW a \in Addrs
      PROVE  /\ Elapsed(n)[a] \in {NoLease} \cup [period : Periods, left : Int]
             /\ Elapsed(n)[a] = NoLease <=> bindings[a] = NoLease
             /\ Elapsed(n)[a].period = bindings[a].period
  BY <1>1, PeriodsAssumption DEF Typed, Elapsed, NoLease
<1>2. Elapsed(n) \in [Addrs -> {NoLease} \cup [period : Periods, left : Int]]
  <2>1. Elapsed(n) = [a \in Addrs |-> Elapsed(n)[a]]
    BY DEF Elapsed
  <2> QED BY <1>1, <2>1
<1>3. Bound(Elapsed(n)) = Bound(bindings)
  BY <1>1 DEF Bound
<1>4. {Elapsed(n)[a].period : a \in Bound(Elapsed(n))} = {bindings[a].period : a \in Bound(bindings)}
  BY <1>1, <1>3 DEF Bound
<1> QED BY <1>2, <1>3, <1>4 DEF Shortest

-----------------------------------------------------------------------------
\* What a process may say about its interest in the unit.
Wanted == [kind : {"interest"}, from : Addrs, period : Periods, quad : Quadrants]
          \cup [kind : {"disinterest"}, from : Addrs, quad : Quadrants]

\* The frames on their way and the one being handled are of that kind.
Messages == /\ quadrant \in Quadrants
            /\ ring \in Seq(Wanted \cup {Response})
            /\ rx.at \in {"quadrant", "clear", "cleared", "apply"} =>
                 rx = [at |-> rx.at, msg |-> rx.msg] /\ rx.msg \in Wanted

LEMMA MessagesInit == Init => Messages
  BY DEF Init, Messages

LEMMA MessagesStep == Messages /\ [Next]_vars => Messages'
<1> SUFFICES ASSUME Messages, [Next]_vars PROVE Messages'
  OBVIOUS
<1> DEFINE W == Wanted \cup {Response}
<1>1. CASE Receive
  <2>1. Head(ring) \in W /\ Tail(ring) \in Seq(W)
    BY <1>1 DEF Receive, Messages
  <2>2. Head(ring) # Response => Head(ring) \in Wanted
    BY <2>1
  <2> QED BY <1>1, <2>1, <2>2 DEF Receive, Messages, outside
<1>2. CASE CompareQuadrant
  <2>1. rx' = [at |-> rx'.at, msg |-> rx.msg]
    BY <1>2 DEF CompareQuadrant, Messages
  <2> QED BY <1>2, <2>1 DEF CompareQuadrant, Messages, outside
<1>3. CASE Clear \/ Cleared
  <2>1. rx' = [at |-> rx'.at, msg |-> rx.msg]
    BY <1>3 DEF Clear, Cleared, Messages
  <2> QED BY <1>3, <2>1 DEF Clear, Cleared, Messages, outside
<1>4. CASE Apply \/ Joined
  BY <1>4 DEF Apply, Joined, Messages, outside
<1>5. CASE Reaper \/ ThreadStarts \/ ThreadEnds
  BY <1>5 DEF Reaper, Reap, ReaperJoined, ThreadStarts, ThreadEnds, Messages, outside
<1>6. CASE Respond
  <2>1. Append(ring, Response) \in Seq(W)
    BY DEF Messages
  <2> QED BY <1>6, <2>1 DEF Respond, Messages, outside
<1>7. CASE Publish
  <2>1. Interests \subseteq Wanted
    <3>1. Remote \subseteq Addrs /\ Local \subseteq Addrs /\ {quadrant} \subseteq Quadrants
      BY DEF Addrs, Messages
    <3> QED BY <3>1 DEF Interests, Wanted
  <2>2. PICK m \in Interests \cup {Response} : ring' = Append(ring, m)
    BY <1>7 DEF Publish
  <2>3. Append(ring, m) \in Seq(W)
    BY <2>1, <2>2 DEF Messages
  <2> QED BY <1>7, <2>2, <2>3 DEF Publish, Messages
<1>8. CASE Move \/ StepClock \/ Tick
  BY <1>8 DEF Move, StepClock, Tick, Messages, outside
<1>9. CASE UNCHANGED vars
  BY <1>9 DEF vars, Messages
<1> QED BY <1>1, <1>2, <1>3, <1>4, <1>5, <1>6, <1>7, <1>8, <1>9 DEF Next, Rx, Thread

-----------------------------------------------------------------------------
\* A binding that was just made is a binding.
LEMMA LeaseMade ==
  ASSUME NEW p \in Periods
  PROVE  /\ Life(p) \in Int
         /\ [period |-> p, left |-> Life(p)] \in [period : Periods, left : Int]
         /\ [period |-> p, left |-> Life(p)] # NoLease
<1>1. p \in Nat \ {0} /\ Life(p) \in Int
  BY PeriodsAssumption, LeaseAssumption DEF Life
<1> QED BY <1>1 DEF NoLease

\* What resync_threads leaves behind: the thread the bindings b ask for, or one that
\* was told to stop.
LEMMA Resynced ==
  ASSUME Typed, NEW b, ResyncThreads(b),
         thread # NoThread /\ Bound(b) # {} => ~thread.stop /\ thread.at # "ended"
  PROVE  /\ thread' = [at |-> thread'.at, period |-> thread'.period, stop |-> thread'.stop]
         /\ thread'.stop \in BOOLEAN
         /\ thread'.at \in {"none", "due", "responds", "sleeps", "ended"}
         /\ thread'.at = "none" <=> thread' = NoThread
         /\ Bound(b) = {} => thread' = NoThread \/ thread'.stop
         /\ Bound(b) = {} /\ ~MustJoin(b) => thread' = NoThread
         /\ Bound(b) # {} => /\ thread' # NoThread /\ ~thread'.stop
                             /\ thread'.period = Shortest(b)
<1>1. CASE Bound(b) = {} /\ thread = NoThread
  BY <1>1 DEF ResyncThreads, NoThread, Typed
<1>2. CASE Bound(b) = {} /\ thread # NoThread
  <2>1. thread' = [at |-> thread.at, period |-> thread.period, stop |-> TRUE]
    BY <1>2 DEF ResyncThreads, Typed
  <2> QED BY <1>2, <2>1 DEF NoThread, Typed, MustJoin
<1>3. CASE Bound(b) # {} /\ thread = NoThread
  <2>1. thread' = [at |-> "due", period |-> Shortest(b), stop |-> FALSE]
    BY <1>3 DEF ResyncThreads
  <2> QED BY <1>3, <2>1 DEF NoThread
<1>4. CASE Bound(b) # {} /\ thread # NoThread
  <2>1. thread' = [at |-> thread.at, period |-> Shortest(b), stop |-> thread.stop]
    BY <1>4 DEF ResyncThreads, Typed
  <2> QED BY <1>4, <2>1 DEF NoThread, Typed
<1> QED BY <1>1, <1>2, <1>3, <1>4

\* While the mutex is free the thread was not told to stop.
LEMMA FreeThread ==
  ASSUME IInv, mutex = "free", thread # NoThread
  PROVE  ~thread.stop /\ thread.at # "ended" /\ Bound(bindings) # {}
  BY DEF IInv, ThreadFollowsBindings, Ending

LEMMA CacheInit == Init => IInv
<1> SUFFICES ASSUME Init PROVE IInv
  OBVIOUS
<1>1. Bound(bindings) = {}
  BY DEF Init, Bound
<1> QED BY <1>1 DEF Init, IInv, Typed, Holder, Joining, Ending, ThreadFollowsBindings, NoThread

\* Whoever changes the bindings under the mutex and lets resync_threads follow either
\* keeps the mutex to join the thread, or leaves everything consistent.
LEMMA CacheUpdated ==
  ASSUME IInv, mutex = "free", ResyncThreads(bindings'),
         bindings' \in [Addrs -> {NoLease} \cup [period : Periods, left : Int]],
         mutex' \in {"free", "rx", "reaper"},
         mutex' = "free" <=> ~MustJoin(bindings')
  PROVE  Typed' /\ Joining' /\ Ending' /\ ThreadFollowsBindings'
<1> DEFINE b == bindings'
<1>1. thread # NoThread => ~thread.stop /\ thread.at # "ended"
  BY FreeThread
<1>2. /\ thread' = [at |-> thread'.at, period |-> thread'.period, stop |-> thread'.stop]
      /\ thread'.stop \in BOOLEAN
      /\ thread'.at \in {"none", "due", "responds", "sleeps", "ended"}
      /\ thread'.at = "none" <=> thread' = NoThread
      /\ Bound(b) = {} => thread' = NoThread \/ thread'.stop
      /\ Bound(b) = {} /\ ~MustJoin(b) => thread' = NoThread
      /\ Bound(b) # {} => /\ thread' # NoThread /\ ~thread'.stop
                          /\ thread'.period = Shortest(b)
  BY <1>1, Resynced DEF IInv
<1>3. MustJoin(b) => Bound(b) = {}
  BY DEF MustJoin
<1>4. Typed'
  BY <1>2 DEF Typed
<1>5. Joining'
  BY <1>2, <1>3 DEF Joining
<1>6. ThreadFollowsBindings'
  BY <1>2, <1>3 DEF ThreadFollowsBindings
<1>7. Ending'
  <2>1. CASE Bound(b) # {}
    <3>1. thread' = [at |-> "due", period |-> Shortest(b), stop |-> FALSE]
          \/ thread' = [at |-> thread.at, period |-> Shortest(b), stop |-> thread.stop]
      BY <2>1 DEF ResyncThreads, IInv, Typed
    <3> QED BY <3>1, <1>1 DEF Ending, NoThread, IInv
  <2>2. CASE Bound(b) = {}
    BY <2>2, <1>2 DEF Ending, NoThread
  <2> QED BY <2>1, <2>2
<1> QED BY <1>4, <1>5, <1>6, <1>7

\* Every step of handler, reaper, thread, network, clock and vehicle keeps it so.
LEMMA CacheStep == IInv /\ Messages /\ [Next]_vars => IInv'
<1> SUFFICES ASSUME IInv, Messages, [Next]_vars PROVE IInv'
  OBVIOUS
<1> USE DEF IInv
<1>1. CASE Receive
  <2>1. rx'.at \notin {"cleared", "joins"} /\ rx.at = "idle"
    BY <1>1 DEF Receive
  <2> QED BY <1>1, <2>1 DEF Receive, outside, Typed, Holder, Joining, Ending, ThreadFollowsBindings
<1>2. CASE CompareQuadrant
  <2>1. rx'.at \in {"apply", "clear"} /\ rx.at = "quadrant"
    BY <1>2 DEF CompareQuadrant, Messages
  <2> QED BY <1>2, <2>1 DEF CompareQuadrant, outside, Typed, Holder, Joining, Ending,
             ThreadFollowsBindings
<1>3. CASE Clear
  <2>1. rx'.at = "cleared" /\ rx.at = "clear"
    BY <1>3 DEF Clear, Messages
  <2>2. Bound(bindings') = {}
    BY <1>3 DEF Clear, Bound
  <2>3. thread' = [at |-> thread.at, period |-> thread.period, stop |-> thread # NoThread]
    BY <1>3 DEF Clear, Typed
  <2>4. thread = NoThread => thread' = NoThread
    <3> SUFFICES ASSUME thread = NoThread PROVE thread' = NoThread
      OBVIOUS
    <3>1. thread' = [thread EXCEPT !.stop = FALSE]
      BY <1>3 DEF Clear
    <3> QED BY <3>1 DEF NoThread
  <2>5. thread # NoThread => thread'.stop /\ thread' # NoThread
    BY <2>3 DEF NoThread
  <2>6. bindings' \in [Addrs -> {NoLease} \cup [period : Periods, left : Int]]
    BY <1>3 DEF Clear
  <2>7. Typed'
    BY <1>3, <2>3, <2>4, <2>5, <2>6 DEF Clear, Typed
  <2>8. Joining' /\ Ending'
    BY <1>3, <2>2, <2>3, <2>4, <2>5 DEF Clear, Joining, Ending, NoThread
  <2> QED BY <1>3, <2>1, <2>7, <2>8 DEF Clear, Holder, ThreadFollowsBindings
<1>4. CASE Cleared
  <2>1. rx'.at = "apply" /\ rx.at = "cleared" /\ mutex = "rx"
    BY <1>4 DEF Cleared, Messages, Holder
  <2>2. Bound(bindings) = {} /\ reaper.joins = FALSE
    BY <2>1 DEF Joining, Holder
  <2> QED BY <1>4, <2>1, <2>2 DEF Cleared, outside, Typed, Holder, Joining, Ending,
             ThreadFollowsBindings, NoThread
<1>5. CASE Apply
  <2>1. rx.msg \in Wanted
    BY <1>5 DEF Apply, Messages
  <2>2. bindings' \in [Addrs -> {NoLease} \cup [period : Periods, left : Int]]
    <3>1. CASE rx.msg.kind = "disinterest"
      BY <1>5, <2>1, <3>1 DEF Apply, Applied, Typed, Wanted
    <3>2. CASE rx.msg.kind # "disinterest"
      <4>1. rx.msg.period \in Periods
        BY <2>1, <3>2 DEF Wanted
      <4>2. [period |-> rx.msg.period, left |-> Life(rx.msg.period)]
              \in [period : Periods, left : Int]
        BY <4>1, LeaseMade
      <4> QED BY <1>5, <3>2, <4>2 DEF Apply, Applied, Typed
    <3> QED BY <3>1, <3>2
  <2>3. mutex' = "free" <=> ~MustJoin(bindings')
    BY <1>5 DEF Apply
  <2>4. Typed' /\ Joining' /\ Ending' /\ ThreadFollowsBindings'
    BY <1>5, <2>2, <2>3, CacheUpdated DEF Apply
  <2>5. Holder'
    BY <1>5, <2>3 DEF Apply, Holder, outside
  <2> QED BY <2>4, <2>5
<1>6. CASE Joined
  <2>1. mutex = "rx" /\ Bound(bindings) = {} /\ reaper.joins = FALSE
    BY <1>6 DEF Joined, Holder, Joining
  <2> QED BY <1>6, <2>1 DEF Joined, outside, Typed, Holder, Joining, Ending,
             ThreadFollowsBindings, NoThread
<1>7. CASE Reap
  <2>1. bindings' \in [Addrs -> {NoLease} \cup [period : Periods, left : Int]]
    BY <1>7 DEF Reap, Unexpired, Typed
  <2>2. mutex' = "free" <=> ~MustJoin(bindings')
    BY <1>7 DEF Reap
  <2>3. Typed' /\ Joining' /\ Ending' /\ ThreadFollowsBindings'
    BY <1>7, <2>1, <2>2, CacheUpdated DEF Reap
  <2>4. rx.at \notin {"cleared", "joins"} /\ rx' = rx
    BY <1>7 DEF Reap, Holder
  <2>5. CASE MustJoin(bindings')
    <3>1. mutex' = "reaper" /\ reaper' = [sleep |-> reaper.sleep, joins |-> TRUE]
      BY <1>7, <2>5 DEF Reap, Holder
    <3>2. Holder'
      BY <2>4, <3>1 DEF Holder
    <3> QED BY <2>3, <3>2
  <2>6. CASE ~MustJoin(bindings')
    <3>1. mutex' = "free" /\ reaper' = [sleep |-> ReaperPeriod, joins |-> FALSE]
      BY <1>7, <2>6 DEF Reap, Holder
    <3>2. Holder'
      BY <2>4, <3>1 DEF Holder
    <3> QED BY <2>3, <3>2
  <2> QED BY <2>5, <2>6
<1>8. CASE ReaperJoined
  <2>1. mutex = "reaper" /\ Bound(bindings) = {} /\ rx.at \notin {"cleared", "joins"}
    BY <1>8 DEF ReaperJoined, Holder, Joining
  <2> QED BY <1>8, <2>1 DEF ReaperJoined, outside, Typed, Holder, Joining, Ending,
             ThreadFollowsBindings, NoThread
<1>9. CASE Thread
  <2>1. /\ UNCHANGED <<bindings, mutex, reaper, rx>>
        /\ thread # NoThread
        /\ \E at \in {"responds", "sleeps", "ended"} :
             /\ thread' = [at |-> at, period |-> thread.period, stop |-> thread.stop]
             /\ at = "ended" => thread.stop
    BY <1>9 DEF Thread, ThreadStarts, Respond, ThreadEnds, Typed, NoThread
  <2>2. /\ thread'.stop = thread.stop /\ thread'.period = thread.period
        /\ thread' # NoThread
    BY <2>1 DEF NoThread
  <2>3. Typed' /\ Ending'
    BY <2>1, <2>2 DEF Typed, Ending
  <2> QED BY <2>1, <2>2, <2>3 DEF Holder, Joining, ThreadFollowsBindings
<1>10. CASE Publish \/ Move
  BY <1>10 DEF Publish, Move, Typed, Holder, Joining, Ending, ThreadFollowsBindings
<1>11. CASE StepClock
  <2>1. PICK n \in {-1, 1} : bindings' = Elapsed(n)
    BY <1>11 DEF StepClock
  <2>2. /\ bindings' \in [Addrs -> {NoLease} \cup [period : Periods, left : Int]]
        /\ Bound(bindings') = Bound(bindings)
        /\ Shortest(bindings') = Shortest(bindings)
    BY <2>1, ElapsedBound
  <2> QED BY <1>11, <2>2 DEF StepClock, Typed, Holder, Joining, Ending, ThreadFollowsBindings
<1>12. CASE Tick
  <2>1. /\ bindings' \in [Addrs -> {NoLease} \cup [period : Periods, left : Int]]
        /\ Bound(bindings') = Bound(bindings)
        /\ Shortest(bindings') = Shortest(bindings)
    BY <1>12, ElapsedBound DEF Tick
  <2>2. \/ thread = NoThread /\ thread' = NoThread
        \/ /\ thread # NoThread
           /\ thread' = [at |-> "due", period |-> thread.period, stop |-> thread.stop]
    BY <1>12 DEF Tick, Typed
  <2>3. Typed' /\ Ending'
    BY <1>12, <2>1, <2>2 DEF Tick, Typed, Ending, NoThread
  <2>4. mutex' = "free" /\ ThreadFollowsBindings'
    BY <1>12, <2>1, <2>2 DEF Tick, ThreadFollowsBindings, NoThread
  <2>5. Holder'
    BY <1>12 DEF Tick, Holder
  <2> QED BY <2>3, <2>4, <2>5 DEF Joining
<1>13. CASE UNCHANGED vars
  BY <1>13 DEF vars, Typed, Holder, Joining, Ending, ThreadFollowsBindings
<1> QED BY <1>1, <1>2, <1>3, <1>4, <1>5, <1>6, <1>7, <1>8, <1>9, <1>10, <1>11, <1>12, <1>13
        DEF Next, Rx, Reaper

\* One responding thread while somebody is interested, at the shortest period, and
\* none otherwise, whenever the mutex is free (Binding_Cache::resync_threads and the
\* joins of on_disinterest, clear and reap_loop).
THEOREM CacheConsistent == Spec => []ThreadFollowsBindings
<1>1. Init => IInv /\ Messages
  BY CacheInit, MessagesInit
<1>2. IInv /\ Messages /\ [Next]_vars => (IInv /\ Messages)'
  BY CacheStep, MessagesStep
<1>3. IInv => ThreadFollowsBindings
  BY DEF IInv
<1> QED BY <1>1, <1>2, <1>3, PTL DEF Spec

-----------------------------------------------------------------------------
(* Leases: how old an interest may get. *)

\* As long as nobody steps the clock, the age of an interest and what is left of its
\* lease make up its lifetime, and a lease that ran out is as much over as the reaper
\* has slept since.
Aged ==
  /\ reaper.sleep \in 0 .. ReaperPeriod /\ steps \in Nat
  /\ age \in [Addrs -> Int]
  /\ steps = 0 => \A a \in Bound(bindings) :
                    /\ age[a] + bindings[a].left = Life(bindings[a].period)
                    /\ bindings[a].left >= reaper.sleep - ReaperPeriod

\* A lease lasts some time that is not negative.
LEMMA LifeType == \A p \in Periods : Life(p) \in Nat
  BY PeriodsAssumption, LeaseAssumption DEF Life

LEMMA AgedInit == Init => Aged
  BY LeaseAssumption DEF Init, Aged, Bound

\* A binding is a record with its period and what is left of its lease.
LEMMA BoundType ==
  ASSUME Typed, NEW a \in Bound(bindings)
  PROVE  /\ a \in Addrs
         /\ bindings[a] \in [period : Periods, left : Int]
         /\ Life(bindings[a].period) \in Nat
  BY LifeType DEF Typed, Bound

LEMMA AgedStep == IInv /\ Messages /\ Aged /\ [Next]_vars => Aged'
<1> SUFFICES ASSUME IInv, Messages, Aged, [Next]_vars PROVE Aged'
  OBVIOUS
<1> USE DEF IInv
<1>1. ASSUME Bound(bindings') \subseteq Bound(bindings),
             \A a \in Bound(bindings') : bindings'[a] = bindings[a],
             UNCHANGED <<reaper, age, steps>>
      PROVE  Aged'
  BY <1>1 DEF Aged
<1>2. ASSUME bindings' = bindings, UNCHANGED <<reaper, age, steps>> PROVE Aged'
  BY <1>1, <1>2
<1>3. CASE Receive \/ CompareQuadrant \/ Cleared \/ Joined \/ Thread \/ Publish \/ Move
  BY <1>2, <1>3
  DEF Receive, CompareQuadrant, Cleared, Joined, Thread, ThreadStarts, Respond, ThreadEnds,
      Publish, Move, outside, bounds
<1>4. CASE Clear
  <2>1. Bound(bindings') = {} /\ UNCHANGED <<reaper, age, steps>>
    BY <1>4 DEF Clear, Bound, outside, bounds
  <2> QED BY <1>1, <2>1
<1>5. CASE Apply
  <2>1. rx.msg \in Wanted /\ UNCHANGED <<reaper, steps>> /\ bindings' = Applied(rx.msg)
    BY <1>5 DEF Apply, Messages, bounds
  <2>2. CASE rx.msg.kind = "disinterest"
    <3>1. /\ \A a \in Addrs : bindings'[a] = IF a = rx.msg.from THEN NoLease ELSE bindings[a]
          /\ age' = age
      BY <1>5, <2>1, <2>2 DEF Apply, Applied, Typed
    <3> QED BY <1>1, <2>1, <3>1 DEF Bound
  <2>3. CASE rx.msg.kind # "disinterest"
    <3> DEFINE a == rx.msg.from  p == rx.msg.period
    <3>1. a \in Addrs /\ p \in Periods /\ Life(p) \in Nat /\ rx.msg.kind = "interest"
      BY <2>1, <2>3, LifeType DEF Wanted
    <3>2. /\ bindings'[a] = [period |-> p, left |-> Life(p)] /\ age'[a] = 0
          /\ \A b \in Addrs : b # a => bindings'[b] = bindings[b] /\ age'[b] = age[b]
          /\ age' \in [Addrs -> Int]
      BY <1>5, <2>1, <2>3, <3>1 DEF Apply, Applied, Typed, Aged
    <3>3. \A b \in Bound(bindings') : b # a => b \in Bound(bindings)
      BY <3>2 DEF Bound
    <3>4. Life(p) >= reaper.sleep - ReaperPeriod /\ 0 + Life(p) = Life(p)
      BY <3>1, LeaseAssumption DEF Aged
    <3> HIDE DEF a, p
    <3>5. \A b \in Bound(bindings') : b \in Addrs
      BY DEF Bound
    <3> QED BY <2>1, <3>2, <3>3, <3>4, <3>5 DEF Aged
  <2> QED BY <2>2, <2>3
<1>6. CASE Reap
  <2>1. \A a \in Addrs : bindings'[a] = IF bindings[a].left < 0 THEN NoLease ELSE bindings[a]
    BY <1>6 DEF Reap, Unexpired
  <2>2. /\ Bound(bindings') \subseteq Bound(bindings)
        /\ \A a \in Bound(bindings') : bindings'[a] = bindings[a] /\ bindings[a].left >= 0
    <3> SUFFICES ASSUME NEW a \in Bound(bindings')
                 PROVE  /\ a \in Bound(bindings)
                        /\ bindings'[a] = bindings[a] /\ bindings[a].left >= 0
      OBVIOUS
    <3>1. a \in Addrs /\ bindings'[a] # NoLease
      BY DEF Bound
    <3>2. bindings'[a] = bindings[a] /\ ~(bindings[a].left < 0) /\ a \in Bound(bindings)
      BY <2>1, <3>1 DEF Bound
    <3> QED BY <3>2, BoundType
  <2>3. UNCHANGED <<age, steps>> /\ reaper'.sleep \in {reaper.sleep, ReaperPeriod}
    BY <1>6 DEF Reap, outside, bounds, Holder
  <2>4. reaper'.sleep \in 0 .. ReaperPeriod /\ reaper'.sleep - ReaperPeriod <= 0
    BY <2>3, LeaseAssumption DEF Aged
  <2>5. \A a \in Bound(bindings') : bindings[a].left \in Int
    BY <2>2, BoundType
  <2>6. \A a \in Bound(bindings') : bindings'[a].left >= reaper'.sleep - ReaperPeriod
    BY <2>2, <2>4, <2>5, LeaseAssumption
  <2> QED BY <2>2, <2>3, <2>4, <2>6 DEF Aged
<1>7. CASE ReaperJoined
  <2>1. Bound(bindings') = {}
    BY <1>7 DEF ReaperJoined, Joining, Holder
  <2>2. reaper'.sleep = ReaperPeriod /\ UNCHANGED <<age, steps>>
    BY <1>7 DEF ReaperJoined, outside, bounds
  <2> QED BY <2>1, <2>2, LeaseAssumption DEF Aged
<1>8. CASE StepClock
  BY <1>8 DEF StepClock, Aged
<1>9. CASE Tick
  <2>1. bindings' = Elapsed(1) /\ steps' = steps /\ reaper'.sleep = reaper.sleep - 1
        /\ reaper.sleep > 0
    BY <1>9 DEF Tick, bounds, Holder
  <2>2. Bound(bindings') = Bound(bindings)
    BY <2>1, ElapsedBound
  <2>3. reaper'.sleep \in 0 .. ReaperPeriod
    BY <2>1, LeaseAssumption DEF Aged
  <2>4. age' \in [Addrs -> Int]
    BY <1>9 DEF Tick, Aged
  <2>5. ASSUME NEW a \in Bound(bindings)
        PROVE  /\ age'[a] = age[a] + 1 /\ bindings'[a].left = bindings[a].left - 1
               /\ bindings'[a].period = bindings[a].period
               /\ age[a] \in Int /\ bindings[a].left \in Int
               /\ Life(bindings[a].period) \in Nat
    BY <1>9, <2>1, BoundType DEF Tick, Elapsed, Bound, Aged
  <2>6. ASSUME steps = 0, NEW a \in Bound(bindings)
        PROVE  /\ age'[a] + bindings'[a].left = Life(bindings'[a].period)
               /\ bindings'[a].left >= reaper'.sleep - ReaperPeriod
    <3>1. /\ age[a] + bindings[a].left = Life(bindings[a].period)
          /\ bindings[a].left >= reaper.sleep - ReaperPeriod
      BY <2>6 DEF Aged
    <3> QED BY <2>1, <2>5, <3>1, LeaseAssumption DEF Aged
  <2> QED BY <2>1, <2>2, <2>3, <2>4, <2>6 DEF Aged
<1>10. CASE UNCHANGED vars
  BY <1>2, <1>10 DEF vars
<1> QED BY <1>3, <1>4, <1>5, <1>6, <1>7, <1>8, <1>9, <1>10 DEF Next, Rx, Reaper

\* A consumer that vanished is served for the lifetime of its lease and at most one
\* period of the reaper more (on_interest's expiry and reap_loop), unless SPTP steps
\* the clock, whatever the other consumers and the joins of the thread do.
THEOREM LeasesEnd == Spec => []LeaseBounded
<1>1. IInv /\ Aged => LeaseBounded
  <2> SUFFICES ASSUME IInv, Aged, steps = 0, NEW a \in Bound(bindings)
               PROVE  age[a] <= Life(bindings[a].period) + ReaperPeriod
    BY DEF LeaseBounded
  <2>1. /\ a \in Addrs /\ bindings[a].left \in Int /\ Life(bindings[a].period) \in Nat
    BY BoundType DEF IInv
  <2> QED BY <2>1, LeaseAssumption DEF Aged
<1>2. Init => IInv /\ Messages /\ Aged
  BY CacheInit, MessagesInit, AgedInit
<1>3. IInv /\ Messages /\ Aged /\ [Next]_vars => (IInv /\ Messages /\ Aged)'
  BY CacheStep, MessagesStep, AgedStep
<1> QED BY <1>1, <1>2, <1>3, PTL DEF Spec

-----------------------------------------------------------------------------
(* Leases: that nobody else ends them. *)

\* As long as the vehicle is where it started, every message on its way carries that
\* quadrant; the handler clears the cache only before the first interest.
Unmoved ==
  /\ moves \in Nat
  /\ moves = 0 =>
       /\ \A m \in Wanted : (\E i \in 1 .. Len(ring) : ring[i] = m) => m.quad = quadrant
       /\ rx.at \in {"quadrant", "clear", "cleared", "apply"} => rx.msg.quad = quadrant
       /\ lastQuad # quadrant => Bound(bindings) = {} /\ rx.at \in {"idle", "quadrant"}
       /\ rx.at = "clear" => Bound(bindings) = {}

\* What an append and a read leave in the ring.
LEMMA RingContents ==
  ASSUME NEW S, NEW r \in Seq(S)
  PROVE  /\ \A x \in S : \A m : (\E i \in 1 .. Len(Append(r, x)) : Append(r, x)[i] = m)
                               => m = x \/ \E i \in 1 .. Len(r) : r[i] = m
         /\ r # << >> => \A m : (\E i \in 1 .. Len(Tail(r)) : Tail(r)[i] = m)
                               => \E i \in 1 .. Len(r) : r[i] = m
         /\ r # << >> => \E i \in 1 .. Len(r) : r[i] = Head(r)
<1>1. ASSUME NEW x \in S, NEW i \in 1 .. Len(Append(r, x))
      PROVE  Append(r, x)[i] = x \/ (i \in 1 .. Len(r) /\ Append(r, x)[i] = r[i])
  OBVIOUS
<1>2. ASSUME r # << >>
      PROVE  /\ \A i \in 1 .. Len(Tail(r)) : i + 1 \in 1 .. Len(r) /\ Tail(r)[i] = r[i + 1]
             /\ 1 \in 1 .. Len(r) /\ Head(r) = r[1]
  BY <1>2
<1> QED BY <1>1, <1>2

LEMMA UnmovedInit == Init => Unmoved
<1> SUFFICES ASSUME Init PROVE Unmoved
  OBVIOUS
<1>1. Bound(bindings) = {} /\ Len(ring) = 0 /\ rx.at = "idle" /\ moves = 0
  BY DEF Init, Bound
<1> QED BY <1>1 DEF Unmoved

LEMMA UnmovedStep ==
  ASSUME Local = {}
  PROVE  IInv /\ Messages /\ Unmoved /\ [Next]_vars => Unmoved'
<1>0. ASSUME Unmoved, [Next]_vars PROVE moves' \in Nat
  <2>1. moves' = moves \/ moves' = moves + 1
    <3>1. CASE Rx
      BY <3>1 DEF Rx, Receive, CompareQuadrant, Clear, Cleared, Apply, Joined, outside, bounds
    <3>2. CASE Reaper \/ Thread
      BY <3>2 DEF Reaper, Reap, ReaperJoined, Thread, ThreadStarts, Respond, ThreadEnds,
             outside, bounds
    <3>3. CASE Publish \/ Move \/ StepClock \/ Tick \/ UNCHANGED vars
      BY <3>3 DEF Publish, Move, StepClock, Tick, bounds, vars
    <3> QED BY <1>0, <3>1, <3>2, <3>3 DEF Next
  <2> QED BY <1>0, <2>1 DEF Unmoved
<1> SUFFICES ASSUME IInv, Messages, Unmoved, [Next]_vars, moves' = 0 PROVE Unmoved'
  BY <1>0 DEF Unmoved
<1> USE DEF IInv
<1>1. CASE Receive
  <2>1. ring \in Seq(Wanted \cup {Response}) /\ ring # << >> /\ ring' = Tail(ring)
    BY <1>1 DEF Receive, Messages
  <2>2. \A m : (\E i \in 1 .. Len(ring') : ring'[i] = m) => \E i \in 1 .. Len(ring) : ring[i] = m
    BY <2>1, RingContents
  <2>3. Head(ring) # Response => Head(ring) \in Wanted /\ \E i \in 1 .. Len(ring) : ring[i] = Head(ring)
    BY <2>1, RingContents
  <2>4. /\ \/ rx' = rx
           \/ rx' = [at |-> "quadrant", msg |-> Head(ring)] /\ Head(ring) # Response
        /\ rx.at = "idle" /\ UNCHANGED <<bindings, lastQuad, quadrant, moves>>
    BY <1>1 DEF Receive, outside, bounds
  <2> QED BY <2>2, <2>3, <2>4 DEF Unmoved
<1>2. CASE CompareQuadrant
  <2>1. /\ rx' = [at |-> IF lastQuad = rx.msg.quad THEN "apply" ELSE "clear", msg |-> rx.msg]
        /\ lastQuad' = rx.msg.quad /\ rx.at = "quadrant"
        /\ UNCHANGED <<bindings, ring, quadrant, moves>>
    BY <1>2 DEF CompareQuadrant, Messages, outside, bounds
  <2> QED BY <2>1 DEF Unmoved
<1>3. CASE Clear
  <2>1. /\ rx' = [at |-> "cleared", msg |-> rx.msg] /\ rx.at = "clear"
        /\ UNCHANGED <<lastQuad, ring, quadrant, moves>>
    BY <1>3 DEF Clear, Messages, outside, bounds
  <2> QED BY <2>1 DEF Unmoved
<1>4. CASE Cleared
  <2>1. /\ rx' = [at |-> "apply", msg |-> rx.msg] /\ rx.at = "cleared"
        /\ UNCHANGED <<bindings, lastQuad, ring, quadrant, moves>>
    BY <1>4 DEF Cleared, Messages, outside, bounds
  <2> QED BY <2>1 DEF Unmoved
<1>5. CASE Apply \/ Joined
  <2>1. /\ rx'.at \in {"joins", "idle"} /\ rx.at \in {"apply", "joins"}
        /\ UNCHANGED <<lastQuad, ring, quadrant, moves>>
    BY <1>5 DEF Apply, Joined, outside, bounds
  <2> QED BY <2>1 DEF Unmoved
<1>6. CASE Reap \/ ReaperJoined
  <2>1. Bound(bindings') \subseteq Bound(bindings)
    <3>1. CASE Reap
      <4> SUFFICES ASSUME NEW a \in Addrs, bindings'[a] # NoLease PROVE bindings[a] # NoLease
        BY DEF Bound
      <4> QED BY <3>1 DEF Reap, Unexpired
    <3>2. CASE ReaperJoined
      BY <3>2 DEF ReaperJoined
    <3> QED BY <1>6, <3>1, <3>2
  <2>2. UNCHANGED <<rx, lastQuad, ring, quadrant, moves>>
    BY <1>6 DEF Reap, ReaperJoined, outside, bounds
  <2> QED BY <2>1, <2>2 DEF Unmoved
<1>7. CASE ThreadStarts \/ ThreadEnds
  BY <1>7 DEF ThreadStarts, ThreadEnds, outside, bounds, Unmoved
<1>8. CASE Respond
  <2>1. ring \in Seq(Wanted \cup {Response}) /\ ring' = Append(ring, Response)
    BY <1>8 DEF Respond, Messages
  <2>2. \A m : (\E i \in 1 .. Len(ring') : ring'[i] = m)
                => m = Response \/ \E i \in 1 .. Len(ring) : ring[i] = m
    BY <2>1, RingContents
  <2>3. Response \notin Wanted
    BY DEF Response, Wanted
  <2> QED BY <1>8, <2>2, <2>3 DEF Respond, outside, bounds, Unmoved
<1>9. CASE Publish
  <2>1. PICK m \in Interests \cup {Response} : ring' = Append(ring, m)
    BY <1>9 DEF Publish
  <2>2. m \in Wanted \cup {Response} /\ (m \in Wanted => m.quad = quadrant)
    <3>1. Interests \subseteq Wanted /\ \A i \in Interests : i.quad = quadrant
      <4>1. Remote \subseteq Addrs /\ quadrant \in Quadrants
        BY DEF Addrs, Messages
      <4> QED BY <4>1 DEF Interests, Wanted
    <3>2. Response \notin Wanted
      BY DEF Response, Wanted
    <3> QED BY <2>1, <3>1, <3>2
  <2>3. \A k : (\E i \in 1 .. Len(ring') : ring'[i] = k)
                => k = m \/ \E i \in 1 .. Len(ring) : ring[i] = k
    BY <2>1, <2>2, RingContents DEF Messages
  <2> QED BY <1>9, <2>2, <2>3 DEF Publish, Unmoved
<1>10. CASE StepClock \/ Tick
  <2>1. Bound(bindings') = Bound(bindings) /\ UNCHANGED <<rx, lastQuad, ring, quadrant, moves>>
    BY <1>10, ElapsedBound DEF StepClock, Tick, bounds
  <2> QED BY <2>1 DEF Unmoved
<1>11. CASE Move
  <2>1. Move => moves' # 0
    BY DEF Move, Unmoved
  <2> QED BY <1>11, <2>1
<1>12. CASE UNCHANGED vars
  BY <1>12 DEF vars, Unmoved
<1> QED BY <1>1, <1>2, <1>3, <1>4, <1>5, <1>6, <1>7, <1>8, <1>9, <1>10, <1>11, <1>12
        DEF Next, Rx, Reaper, Thread

\* A consumer on another vehicle that neither withdraws its interest nor lets its lease
\* run out keeps its binding, whatever the reaper, the other consumers and the joins of
\* the thread do, while the vehicle stays and SPTP leaves the clock alone.  (A local
\* consumer carries a quadrant nobody set, and each may clear the cache.)
THEOREM InterestsLast ==
  ASSUME Local = {}
  PROVE  Spec => InterestKept
<1> DEFINE Dropped(a) == a \in Bound(bindings) \ Bound(bindings')
           Excused(a) == \/ rx.at = "apply" /\ rx.msg.kind = "disinterest" /\ rx.msg.from = a
                         \/ age[a] > Life(bindings[a].period)
<1>1. ASSUME IInv, Messages, Aged, Unmoved, [Next]_vars, moves = 0, steps = 0,
             NEW a, Dropped(a)
      PROVE  Excused(a)
  <2>1. /\ a \in Addrs /\ bindings[a] # NoLease /\ bindings'[a] = NoLease
        /\ bindings[a].left \in Int /\ Life(bindings[a].period) \in Nat /\ age[a] \in Int
        /\ age[a] + bindings[a].left = Life(bindings[a].period)
    BY <1>1, BoundType DEF Bound, IInv, Aged
  <2>2. CASE Clear
    BY <1>1, <2>2 DEF Clear, Unmoved
  <2>3. CASE Apply
    <3>1. rx.at = "apply" /\ rx.msg \in Wanted /\ bindings' = Applied(rx.msg)
      BY <1>1, <2>3 DEF Apply, Messages
    <3>2. rx.msg.from = a
      BY <2>1, <3>1 DEF Applied, IInv, Typed
    <3>3. CASE rx.msg.kind # "disinterest"
      <4>1. rx.msg.period \in Periods /\ bindings'[a] = [period |-> rx.msg.period, left |-> Life(rx.msg.period)]
        BY <1>1, <2>1, <3>1, <3>2, <3>3 DEF Applied, IInv, Typed, Wanted
      <4> QED BY <2>1, <4>1, LeaseMade
    <3> QED BY <3>1, <3>2, <3>3
  <2>4. CASE Reap
    <3>1. bindings[a].left < 0
      BY <2>1, <2>4 DEF Reap, Unexpired
    <3> QED BY <2>1, <3>1
  <2>5. CASE StepClock \/ Tick
    BY <1>1, <2>5, ElapsedBound DEF StepClock, Tick, IInv
  <2>6. CASE bindings' = bindings
    BY <2>1, <2>6
  <2> QED
    BY <1>1, <2>2, <2>3, <2>4, <2>5, <2>6
    DEF Next, Rx, Receive, CompareQuadrant, Cleared, Joined, Reaper, ReaperJoined, Thread,
        ThreadStarts, Respond, ThreadEnds, Publish, Move, vars
<1>2. IInv /\ Messages /\ Aged /\ Unmoved /\ [Next]_vars =>
        [moves = 0 /\ steps = 0 =>
           \A a \in Bound(bindings) \ Bound(bindings') : Excused(a)]_vars
  BY <1>1
<1>3. Init => IInv /\ Messages /\ Aged /\ Unmoved
  BY CacheInit, MessagesInit, AgedInit, UnmovedInit
<1>4. IInv /\ Messages /\ Aged /\ Unmoved /\ [Next]_vars => (IInv /\ Messages /\ Aged /\ Unmoved)'
  BY CacheStep, MessagesStep, AgedStep, UnmovedStep
<1> QED BY <1>2, <1>3, <1>4, PTL DEF Spec, InterestKept
=============================================================================
