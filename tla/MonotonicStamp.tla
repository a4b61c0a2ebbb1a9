--------------------------- MODULE MonotonicStamp ---------------------------
(***************************************************************************)
(* Clock::monotonic_stamp: the lock-free loop with which the threads of    *)
(* one process draw message timestamps.  The clock underneath may be set   *)
(* to anything at any time (SPTP calls clock_settime), so a reading is an  *)
(* arbitrary member of Readings; the compare-and-exchange is the weak one  *)
(* and may fail although nobody interfered.                                *)
(***************************************************************************)
EXTENDS StampHistory

CONSTANTS Threads,    \* threads of the process that stamp messages
          Readings,   \* values now_ns() may return
          MaxStamps   \* bound: stamps drawn in all

ASSUME ReadingsAssumption == Readings \subseteq Int
ASSUME MaxStampsAssumption == MaxStamps \in Nat

VARIABLES last,    \* the static atomic
          pc,      \* idle, load, exchange
          now,     \* the clock reading of the call
          prev     \* the value of last the call has seen

vars == <<last, pc, now, prev, stamps>>

NextStampCounter(reading, seen) == seen + 1

\* The reading, unless it is not ahead of the last stamp.
NextStamp(reading, seen) == IF reading > seen THEN reading ELSE seen + 1

Init == /\ last = 0
        /\ pc = [t \in Threads |-> "idle"]
        /\ now = [t \in Threads |-> 0]
        /\ prev = [t \in Threads |-> 0]
        /\ stamps = << >>

\* int64_t now = now_ns()
ReadClock(t) ==
  /\ pc[t] = "idle" /\ Len(stamps) < MaxStamps
  /\ \E reading \in Readings : now' = [now EXCEPT ![t] = reading]
  /\ pc' = [pc EXCEPT ![t] = "load"]
  /\ UNCHANGED <<last, prev, stamps>>

\* int64_t prev = last.load()
Load(t) ==
  /\ pc[t] = "load"
  /\ prev' = [prev EXCEPT ![t] = last]
  /\ pc' = [pc EXCEPT ![t] = "exchange"]
  /\ UNCHANGED <<last, now, stamps>>

ExchangeUnconditionally(t) ==
  LET ts == NextStamp(now[t], prev[t]) IN
  /\ pc[t] = "exchange"
  /\ last' = ts
  /\ stamps' = Append(stamps, [thread |-> t, reading |-> now[t], ts |-> ts])
  /\ pc' = [pc EXCEPT ![t] = "idle"]
  /\ UNCHANGED <<now, prev>>

\* last.compare_exchange_weak(prev, ts) succeeds, and the call returns ts.
Exchange(t) ==
  LET ts == NextStamp(now[t], prev[t]) IN
  /\ pc[t] = "exchange" /\ last = prev[t]
  /\ last' = ts
  /\ stamps' = Append(stamps, [thread |-> t, reading |-> now[t], ts |-> ts])
  /\ pc' = [pc EXCEPT ![t] = "idle"]
  /\ UNCHANGED <<now, prev>>

RetryWithoutReload(t) == pc[t] = "exchange" /\ UNCHANGED vars

\* It fails, perhaps spuriously; prev becomes the value found, and the loop repeats.
Retry(t) ==
  /\ pc[t] = "exchange"
  /\ prev' = [prev EXCEPT ![t] = last]
  /\ UNCHANGED <<last, pc, now, stamps>>

\* The bounded number of stamps was drawn.
Finished == /\ Len(stamps) >= MaxStamps
            /\ \A t \in Threads : pc[t] = "idle"
            /\ UNCHANGED vars

Next == \/ \E t \in Threads : ReadClock(t) \/ Load(t) \/ Exchange(t) \/ Retry(t)
        \/ Finished

Spec == Init /\ [][Next]_vars

(* The threads run, and the weak exchange does not fail spuriously for ever: *)
(* of the exchanges that could succeed again and again, some succeeds.       *)
FairSpec == /\ Spec
            /\ \A t \in Threads : WF_vars(Load(t)) /\ WF_vars(Exchange(t) \/ Retry(t))
            /\ SF_vars(\E t \in Threads : Exchange(t))

-----------------------------------------------------------------------------
\* The threads and their local variables hold values of their types.
TypeOK ==
  /\ last \in Int
  /\ pc \in [Threads -> {"idle", "load", "exchange"}]
  /\ now \in [Threads -> Int] /\ prev \in [Threads -> Int]
  /\ stamps \in Seq([thread : Threads, reading : Int, ts : Int])

\* The loop is lock-free: while calls are in progress some call returns, whatever
\* the scheduler does to the others.
LockFree ==
  \A n \in 0 .. MaxStamps :
    (Len(stamps) = n /\ \E t \in Threads : pc[t] # "idle") ~> Len(stamps) > n
=============================================================================
