---------------------------- MODULE ShmRingProofs ----------------------------
(***************************************************************************)
(* Theorems about ShmRing, for every set of components and writer threads, *)
(* every ring size and every bound on the number of sends.                 *)
(***************************************************************************)
EXTENDS ShmRing, FiniteSetTheorems, TLAPS

-----------------------------------------------------------------------------
(* Arithmetic of the ring index. *)

\* Every sequence number names a slot of the ring (seq % SHM::SLOT_COUNT).
LEMMA IndexType == \A n \in Nat : Index(n) \in 0 .. SlotCount - 1
  BY SlotCountAssumption DEF Index

\* Division with remainder by the size of the ring.
LEMMA DivMod == \A n \in Nat : /\ n \div SlotCount \in Nat
                               /\ n = SlotCount * (n \div SlotCount) + (n % SlotCount)
  BY SlotCountAssumption

\* Two sequence numbers less than one lap apart live in different slots.
LEMMA IndexDistinct ==
  ASSUME NEW m \in Nat, NEW n \in Nat, m < n, n - m < SlotCount
  PROVE  Index(m) # Index(n)
<1> DEFINE a == m \div SlotCount
           b == n \div SlotCount
<1>1. SUFFICES ASSUME Index(m) = Index(n) PROVE FALSE
  OBVIOUS
<1>2. /\ a \in Int /\ b \in Int /\ Index(m) \in Int
      /\ m = SlotCount * a + Index(m) /\ n = SlotCount * b + Index(n)
  BY DivMod, IndexType DEF Index
<1> HIDE DEF a, b
<1>3. n - m = SlotCount * (b - a)
  BY <1>1, <1>2, SlotCountAssumption
<1>4. CASE b - a >= 1
  BY <1>2, <1>3, <1>4, SlotCountAssumption
<1>5. CASE b - a < 1
  BY <1>2, <1>3, <1>5, SlotCountAssumption
<1> QED BY <1>2, <1>4, <1>5

-----------------------------------------------------------------------------
(* Types and mutual exclusion. *)

\* A thread that is sending has not used up its bound yet.
SendBound ==
  \A w \in Writers : wpc[w] \in {"empty", "mutex", "write"} => sent[w] < MaxSends

TypedInv == TypeOK /\ MutualExclusion /\ SendBound

\* The variables with an entry per process are functions on Procs.
LEMMA Domains ==
  ASSUME TypeOK
  PROVE  /\ DOMAIN phase = Procs /\ DOMAIN rpc = Procs
         /\ DOMAIN held = Procs /\ DOMAIN owes = Procs
  BY DEF TypeOK

\* What engine_send writes is a slot.
LEMMA SlotOfType ==
  ASSUME TypeOK, SendBound, NEW w \in Writers, wpc[w] = "write"
  PROVE  SlotOf(w) \in Slots
<1>1. <<w, sent[w] + 1>> \in Frames
  BY BoundsAssumption DEF TypeOK, SendBound, Frames
<1>2. ProcOf[w] \in Procs
  BY WritersAssumption
<1> QED BY <1>1, <1>2 DEF SlotOf, Slots, Procs, WriterIds

\* The zeroed region satisfies the types and nobody is in it.
LEMMA TypedInit == Init => TypedInv
<1> SUFFICES ASSUME Init PROVE TypedInv
  OBVIOUS
<1>1. ZeroSlot \in Slots
  BY DEF ZeroSlot, Slots, WriterIds
<1>2. TypeOK
  BY <1>1, SlotCountAssumption, BoundsAssumption DEF Init, TypeOK
<1>3. MutualExclusion /\ SendBound
  BY DEF Init, MutualExclusion, WritersIn, ReadersIn, SendBound
<1> QED BY <1>2, <1>3 DEF TypedInv

\* Every step preserves the types and mutual exclusion: P takes the mutex from
\* one to zero, and only the thread that did so gives it back.
LEMMA TypedStep == TypedInv /\ [Next]_vars => TypedInv'
<1> SUFFICES ASSUME TypedInv, [Next]_vars PROVE TypedInv'
  OBVIOUS
<1> USE DEF TypedInv
<1>0. ASSUME UNCHANGED vars PROVE TypedInv'
  BY <1>0 DEF vars, TypeOK, MutualExclusion, WritersIn, ReadersIn, SendBound
<1>1. ASSUME NEW w \in Writers, BeginSend(w) PROVE TypedInv'
  <2>1. TypeOK'
    BY <1>1 DEF BeginSend, TypeOK, region, readers, history
  <2>2. MutualExclusion'
    BY <1>1 DEF BeginSend, TypeOK, MutualExclusion, WritersIn, ReadersIn, readers
  <2>3. SendBound'
    BY <1>1 DEF BeginSend, TypeOK, SendBound
  <2> QED BY <2>1, <2>2, <2>3
<1>2. ASSUME NEW w \in Writers, AcquireEmpty(w) PROVE TypedInv'
  <2>1. TypeOK'
    BY <1>2 DEF AcquireEmpty, TypeOK, region, readers, history
  <2>2. MutualExclusion'
    BY <1>2 DEF AcquireEmpty, TypeOK, MutualExclusion, WritersIn, ReadersIn, readers
  <2>3. SendBound'
    BY <1>2 DEF AcquireEmpty, TypeOK, SendBound
  <2> QED BY <2>1, <2>2, <2>3
<1>3. ASSUME NEW w \in Writers, WriterLocks(w) PROVE TypedInv'
  <2>1. TypeOK'
    BY <1>3 DEF WriterLocks, TypeOK, region, readers, history
  <2>2. MutualExclusion'
    BY <1>3 DEF WriterLocks, TypeOK, MutualExclusion, WritersIn, ReadersIn, readers
  <2>3. SendBound'
    BY <1>3 DEF WriterLocks, TypeOK, SendBound
  <2> QED BY <2>1, <2>2, <2>3
<1>4. ASSUME NEW w \in Writers, WriteSlot(w) PROVE TypedInv'
  <2>1. TypeOK'
    <3>1. SlotOf(w) \in Slots
      BY <1>4, SlotOfType DEF WriteSlot
    <3>2. /\ nextWriteSeq' \in Nat
          /\ ring' \in [0 .. SlotCount - 1 -> Slots]
          /\ log' \in Seq(Slots)
      <4>1. nextWriteSeq' \in Nat
        BY <1>4 DEF WriteSlot, TypeOK
      <4>2. ring' \in [0 .. SlotCount - 1 -> Slots]
        BY <1>4, <3>1 DEF WriteSlot, TypeOK
      <4>3. log' = Append(log, SlotOf(w)) /\ log \in Seq(Slots)
        BY <1>4 DEF WriteSlot, TypeOK
      <4>4. log' \in Seq(Slots)
        BY <3>1, <4>3
      <4> QED BY <4>1, <4>2, <4>4
    <3>3. pending' \in [Procs -> Nat]
      BY <1>4 DEF WriteSlot, TypeOK
    <3>4. /\ sent' \in [Writers -> 0 .. MaxSends]
          /\ wpc' \in [Writers -> {"idle", "empty", "mutex", "write", "unlock"}]
      BY <1>4, BoundsAssumption DEF WriteSlot, TypeOK, SendBound
    <3> QED BY <1>4, <3>2, <3>3, <3>4 DEF WriteSlot, TypeOK, readers
  <2>2. MutualExclusion'
    BY <1>4 DEF WriteSlot, TypeOK, MutualExclusion, WritersIn, ReadersIn, readers
  <2>3. SendBound'
    BY <1>4 DEF WriteSlot, TypeOK, SendBound
  <2> QED BY <2>1, <2>2, <2>3
<1>5. ASSUME NEW w \in Writers, WriterUnlocks(w) PROVE TypedInv'
  <2>1. mutex = 0
    BY <1>5 DEF WriterUnlocks, TypeOK, MutualExclusion, WritersIn
  <2>2. TypeOK'
    BY <1>5, <2>1 DEF WriterUnlocks, TypeOK, region, readers, history
  <2>3. MutualExclusion'
    BY <1>5, <2>1 DEF WriterUnlocks, TypeOK, MutualExclusion, WritersIn, ReadersIn, readers
  <2>4. SendBound'
    BY <1>5 DEF WriterUnlocks, TypeOK, SendBound
  <2> QED BY <2>2, <2>3, <2>4
<1>6. ASSUME NEW p \in Procs, EngineInit(p) PROVE TypedInv'
  <2>1. TypeOK'
    BY <1>6 DEF EngineInit, TypeOK, region, readers, writers, history
  <2>2. MutualExclusion'
    BY <1>6 DEF EngineInit, TypeOK, MutualExclusion, WritersIn, ReadersIn, readers, writers
  <2>3. SendBound'
    BY <1>6 DEF EngineInit, SendBound, writers
  <2> QED BY <2>1, <2>2, <2>3
<1>7. ASSUME NEW p \in Procs, StartReceiving(p) PROVE TypedInv'
  <2>1. TypeOK'
    BY <1>7 DEF StartReceiving, TypeOK, region, readers, writers, history
  <2>2. MutualExclusion'
    BY <1>7 DEF StartReceiving, TypeOK, MutualExclusion, WritersIn, ReadersIn, readers, writers
  <2>3. SendBound'
    BY <1>7 DEF StartReceiving, SendBound, writers
  <2> QED BY <2>1, <2>2, <2>3
<1>8. ASSUME NEW p \in Procs, ReaderLoops(p) PROVE TypedInv'
  <2>1. TypeOK'
    BY <1>8 DEF ReaderLoops, TypeOK, region, readers, writers, history
  <2>2. MutualExclusion'
    BY <1>8 DEF ReaderLoops, TypeOK, MutualExclusion, WritersIn, ReadersIn, readers, writers
  <2>3. SendBound'
    BY <1>8 DEF ReaderLoops, SendBound, writers
  <2> QED BY <2>1, <2>2, <2>3
<1>9. ASSUME NEW p \in Procs, AwaitPending(p) PROVE TypedInv'
  <2>1. TypeOK'
    BY <1>9 DEF AwaitPending, TypeOK, region, readers, writers, history
  <2>2. MutualExclusion'
    BY <1>9 DEF AwaitPending, TypeOK, MutualExclusion, WritersIn, ReadersIn, readers, writers
  <2>3. SendBound'
    BY <1>9 DEF AwaitPending, SendBound, writers
  <2> QED BY <2>1, <2>2, <2>3
<1>10. ASSUME NEW p \in Procs, CheckRunning(p) PROVE TypedInv'
  <2>1. TypeOK'
    BY <1>10 DEF CheckRunning, TypeOK, region, readers, writers, history
  <2>2. MutualExclusion'
    BY <1>10 DEF CheckRunning, TypeOK, MutualExclusion, WritersIn, ReadersIn, readers, writers
  <2>3. SendBound'
    BY <1>10 DEF CheckRunning, SendBound, writers
  <2> QED BY <2>1, <2>2, <2>3
<1>11. ASSUME NEW p \in Procs, ReaderLocks(p) PROVE TypedInv'
  <2>1. TypeOK'
    BY <1>11 DEF ReaderLocks, TypeOK, region, readers, writers, history
  <2>2. MutualExclusion'
    BY <1>11 DEF ReaderLocks, TypeOK, MutualExclusion, WritersIn, ReadersIn, readers, writers
  <2>3. SendBound'
    BY <1>11 DEF ReaderLocks, SendBound, writers
  <2> QED BY <2>1, <2>2, <2>3
<1>12. ASSUME NEW p \in Procs, ReadSlot(p) PROVE TypedInv'
  <2>1. TypeOK'
    <3>1. ring[Index(readSeq[p])] \in Slots
      BY IndexType DEF TypeOK
    <3>2. /\ readSeq' \in [Procs -> Nat]
          /\ owes' \in [Procs -> BOOLEAN]
      BY <1>12 DEF ReadSlot, TypeOK, LeastReadSeq
    <3>3. held' \in [Procs -> Seq(Slots)] /\ \A q \in Procs : Len(held'[q]) <= 1
      <4> DEFINE h == IF ShouldRead(ring[Index(readSeq[p])], p)
                      THEN <<ring[Index(readSeq[p])]>> ELSE << >>
      <4>1. h \in Seq(Slots) /\ Len(h) <= 1
        BY <3>1
      <4>2. held' = [held EXCEPT ![p] = h]
        BY <1>12 DEF ReadSlot
      <4> HIDE DEF h
      <4> QED BY <4>1, <4>2 DEF TypeOK
    <3> QED BY <1>12, <3>2, <3>3 DEF ReadSlot, TypeOK, writers, history
  <2>2. MutualExclusion'
    BY <1>12 DEF ReadSlot, TypeOK, MutualExclusion, WritersIn, ReadersIn, readers, writers
  <2>3. SendBound'
    BY <1>12 DEF ReadSlot, SendBound, writers
  <2> QED BY <2>1, <2>2, <2>3
<1>13. ASSUME NEW p \in Procs, ReaderUnlocks(p) PROVE TypedInv'
  <2>1. mutex = 0
    BY <1>13 DEF ReaderUnlocks, TypeOK, MutualExclusion, ReadersIn
  <2>2. TypeOK'
    BY <1>13, <2>1 DEF ReaderUnlocks, TypeOK, region, writers, history
  <2>3. MutualExclusion'
    BY <1>13, <2>1 DEF ReaderUnlocks, TypeOK, MutualExclusion, WritersIn, ReadersIn, writers
  <2>4. SendBound'
    BY <1>13 DEF ReaderUnlocks, SendBound, writers
  <2> QED BY <2>2, <2>3, <2>4
<1>14. ASSUME NEW p \in Procs, PostEmpty(p) PROVE TypedInv'
  <2>1. TypeOK'
    BY <1>14 DEF PostEmpty, TypeOK, region, readers, writers, history
  <2>2. MutualExclusion'
    BY <1>14 DEF PostEmpty, TypeOK, MutualExclusion, WritersIn, ReadersIn, readers, writers
  <2>3. SendBound'
    BY <1>14 DEF PostEmpty, SendBound, writers
  <2> QED BY <2>1, <2>2, <2>3
<1>15. ASSUME NEW p \in Procs, HandOver(p) PROVE TypedInv'
  <2>1. TypeOK'
    <3>1. delivered' \in [Procs -> Seq(Slots)]
      <4>1. delivered[p] \o held[p] \in Seq(Slots)
        BY DEF TypeOK
      <4> QED BY <1>15, <4>1 DEF HandOver, TypeOK
    <3>2. held' \in [Procs -> Seq(Slots)] /\ \A q \in Procs : Len(held'[q]) <= 1
      BY <1>15 DEF HandOver, TypeOK
    <3> QED BY <1>15, <3>1, <3>2 DEF HandOver, TypeOK, region, writers
  <2>2. MutualExclusion'
    BY <1>15 DEF HandOver, TypeOK, MutualExclusion, WritersIn, ReadersIn, readers, writers
  <2>3. SendBound'
    BY <1>15 DEF HandOver, SendBound, writers
  <2> QED BY <2>1, <2>2, <2>3
<1>16. ASSUME NEW p \in Procs, StopReceiving(p) PROVE TypedInv'
  <2>1. TypeOK'
    BY <1>16 DEF StopReceiving, TypeOK, region, readers, writers, history
  <2>2. MutualExclusion'
    BY <1>16 DEF StopReceiving, TypeOK, MutualExclusion, WritersIn, ReadersIn, readers, writers
  <2>3. SendBound'
    BY <1>16 DEF StopReceiving, SendBound, writers
  <2> QED BY <2>1, <2>2, <2>3
<1>17. ASSUME NEW p \in Procs, WakeReader(p) PROVE TypedInv'
  <2>1. TypeOK'
    BY <1>17 DEF WakeReader, TypeOK, region, readers, writers, history
  <2>2. MutualExclusion'
    BY <1>17 DEF WakeReader, TypeOK, MutualExclusion, WritersIn, ReadersIn, readers, writers
  <2>3. SendBound'
    BY <1>17 DEF WakeReader, SendBound, writers
  <2> QED BY <2>1, <2>2, <2>3
<1>18. ASSUME NEW p \in Procs, Detach(p) PROVE TypedInv'
  <2>1. TypeOK'
    BY <1>18 DEF Detach, TypeOK, region, readers, writers, history
  <2>2. MutualExclusion'
    BY <1>18 DEF Detach, TypeOK, MutualExclusion, WritersIn, ReadersIn, readers, writers
  <2>3. SendBound'
    BY <1>18 DEF Detach, SendBound, writers
  <2> QED BY <2>1, <2>2, <2>3
<1>19. ASSUME Quiescent PROVE TypedInv'
  BY <1>0, <1>19 DEF Quiescent
<1> QED
  BY <1>0, <1>1, <1>2, <1>3, <1>4, <1>5, <1>6, <1>7, <1>8, <1>9, <1>10, <1>11,
     <1>12, <1>13, <1>14, <1>15, <1>16, <1>17, <1>18, <1>19
  DEF Next, WriterStep, ProcStep, ReaderStep

\* Types are correct and no two threads are ever inside the region together.
THEOREM TypeAndMutex == Spec => [](TypeOK /\ MutualExclusion)
<1>1. Init => TypedInv
  BY TypedInit
<1>2. TypedInv /\ [Next]_vars => TypedInv'
  BY TypedStep
<1>3. TypedInv => TypeOK /\ MutualExclusion
  BY DEF TypedInv
<1> QED BY <1>1, <1>2, <1>3, PTL DEF Spec

-----------------------------------------------------------------------------
(* Slots are neither lost nor overwritten, once every process is attached    *)
(* before the first frame is written.                                        *)

\* With the startup barrier, a process that is not attached yet has missed
\* nothing, and nobody is sending.
StartInv ==
  /\ \A p \in Procs : ~Attached(p) => readSeq[p] = 0
  /\ (\E p \in Procs : ~Attached(p)) =>
       nextWriteSeq = 0 /\ \A w \in Writers : wpc[w] = "idle"

\* The history has one entry per sequence number handed out.
HistoryInv == Len(log) = nextWriteSeq

\* A reader owes a V(EMPTY) only between its read and its post.
OweInv == \A p \in Procs : owes[p] => rpc[p] \in {"unlock", "post"}

\* There is no reader thread before start_receiving.
ThreadInv == \A p \in Procs : phase[p] \in {"new", "attached"} => rpc[p] = "none"

ControlInv == TypedInv /\ StartInv /\ HistoryInv /\ OweInv /\ ThreadInv

\* The control part of the invariant holds initially.
LEMMA ControlInit == Init => ControlInv
  BY TypedInit DEF Init, ControlInv, StartInv, HistoryInv, OweInv, ThreadInv

\* The control part of the invariant is inductive.
LEMMA ControlStep ==
  ASSUME StartupBarrier, ControlInv, [Next]_vars
  PROVE  ControlInv'
<1> USE DEF ControlInv
<1>1. TypedInv'
  BY TypedStep
<1>2. TypeOK /\ TypeOK'
  BY <1>1 DEF TypedInv
<1>3. CASE UNCHANGED vars
  BY <1>1, <1>3 DEF vars, StartInv, Attached, HistoryInv, OweInv, ThreadInv
<1>4. ASSUME NEW w \in Writers, BeginSend(w) PROVE ControlInv'
  BY <1>1, <1>2, <1>4
  DEF BeginSend, region, readers, history, TypeOK, StartInv, Attached, Running,
      HistoryInv, OweInv, ThreadInv
<1>5. ASSUME NEW w \in Writers, WriterStep(w) PROVE ControlInv'
  <2>1. \A p \in Procs : Attached(p)
    BY <1>2, <1>5 DEF WriterStep, AcquireEmpty, WriterLocks, WriteSlot, WriterUnlocks, StartInv
  <2>2. StartInv'
    BY <1>5, <2>1
    DEF WriterStep, AcquireEmpty, WriterLocks, WriteSlot, WriterUnlocks, StartInv, Attached
  <2>3. HistoryInv'
    BY <1>2, <1>5
    DEF WriterStep, AcquireEmpty, WriterLocks, WriteSlot, WriterUnlocks, region, history,
        HistoryInv, TypeOK
  <2>4. OweInv' /\ ThreadInv'
    BY <1>5
    DEF WriterStep, AcquireEmpty, WriterLocks, WriteSlot, WriterUnlocks, readers,
        OweInv, ThreadInv
  <2> QED BY <1>1, <2>2, <2>3, <2>4
<1>6. ASSUME NEW p \in Procs, EngineInit(p) PROVE ControlInv'
  BY <1>1, <1>2, <1>6
  DEF EngineInit, readers, writers, history, TypeOK, StartInv, Attached, HistoryInv,
      OweInv, ThreadInv
<1>7. ASSUME NEW p \in Procs, StartReceiving(p) \/ StopReceiving(p) \/ WakeReader(p) \/ Detach(p)
      PROVE  ControlInv'
  <2>1. UNCHANGED <<region, writers, log, held, owes>> /\ Attached(p) /\ phase'[p] # "new"
    BY <1>2, <1>7
    DEF StartReceiving, StopReceiving, WakeReader, Detach, readers, history, Running,
        TypeOK, Attached
  <2>2. \A q \in Procs : Attached(q) <=> Attached(q)'
    <3>1. \A q \in Procs : q # p => phase'[q] = phase[q]
      BY <1>2, <1>7, Domains DEF StartReceiving, StopReceiving, WakeReader, Detach
    <3> QED BY <2>1, <3>1 DEF Attached
  <2>3. StartInv'
    BY <2>1, <2>2 DEF region, writers, StartInv
  <2>4. HistoryInv'
    BY <2>1 DEF region, HistoryInv
  <2>5. /\ rpc' = rpc \/ (rpc[p] = "none" /\ rpc' = [rpc EXCEPT ![p] = "loop"])
        /\ phase'[p] \notin {"new", "attached"}
        /\ \A q \in Procs : q # p => phase'[q] = phase[q]
    <3>0. DOMAIN phase = Procs /\ DOMAIN rpc = Procs
      BY <1>2, Domains
    <3>1. CASE StartReceiving(p)
      <4>1. rpc[p] = "none"
        BY <1>2, <3>1 DEF StartReceiving, ThreadInv
      <4> QED BY <3>0, <3>1, <4>1 DEF StartReceiving
    <3>2. CASE StopReceiving(p) \/ WakeReader(p) \/ Detach(p)
      BY <3>0, <3>2 DEF StopReceiving, WakeReader, Detach, readers, Running
    <3> QED BY <1>7, <3>1, <3>2
  <2>6. ThreadInv'
    <3>1. \A q \in Procs : q # p => rpc'[q] = rpc[q]
      BY <1>2, <2>5, Domains
    <3> QED BY <1>2, <2>5, <3>1 DEF ThreadInv
  <2>7. OweInv'
    <3>1. CASE rpc' = rpc
      BY <1>2, <2>1, <3>1 DEF OweInv
    <3>2. CASE rpc[p] = "none" /\ rpc' = [rpc EXCEPT ![p] = "loop"]
      <4>1. ~owes[p] /\ \A q \in Procs : q # p => rpc'[q] = rpc[q]
        BY <1>2, <3>2, Domains DEF OweInv
      <4> QED BY <1>2, <2>1, <4>1 DEF OweInv
    <3> QED BY <2>5, <3>1, <3>2
  <2> QED BY <1>1, <2>3, <2>4, <2>6, <2>7
<1>8. ASSUME NEW p \in Procs, ReaderStep(p) PROVE ControlInv'
  <2>1. rpc[p] # "none"
    BY <1>8
    DEF ReaderStep, ReaderLoops, AwaitPending, CheckRunning, ReaderLocks, ReadSlot,
        ReaderUnlocks, PostEmpty, HandOver
  <2>2. UNCHANGED <<nextWriteSeq, writers, log, phase>>
    BY <1>8
    DEF ReaderStep, ReaderLoops, AwaitPending, CheckRunning, ReaderLocks, ReadSlot,
        ReaderUnlocks, PostEmpty, HandOver, region, history
  <2>3. \A q \in Procs : q # p => readSeq'[q] = readSeq[q]
    BY <1>2, <1>8
    DEF ReaderStep, ReaderLoops, AwaitPending, CheckRunning, ReaderLocks, ReadSlot,
        ReaderUnlocks, PostEmpty, HandOver, region, TypeOK
  <2>4. StartInv'
    BY <2>1, <2>2, <2>3 DEF writers, StartInv, Attached, ThreadInv
  <2>5. HistoryInv'
    BY <2>2 DEF HistoryInv
  <2>6. \A q \in Procs : q # p => rpc'[q] = rpc[q] /\ owes'[q] = owes[q]
    <3>0. DOMAIN rpc = Procs /\ DOMAIN owes = Procs
      BY <1>2, Domains
    <3>1. CASE ReaderLoops(p) \/ AwaitPending(p) \/ CheckRunning(p) \/ ReaderLocks(p)
      BY <3>0, <3>1 DEF ReaderLoops, AwaitPending, CheckRunning, ReaderLocks
    <3>2. CASE ReadSlot(p) \/ ReaderUnlocks(p) \/ PostEmpty(p) \/ HandOver(p)
      BY <3>0, <3>2 DEF ReadSlot, ReaderUnlocks, PostEmpty, HandOver
    <3> QED BY <1>8, <3>1, <3>2 DEF ReaderStep
  <2>7. ThreadInv'
    BY <2>1, <2>2, <2>6 DEF ThreadInv
  <2>8. owes'[p] => rpc'[p] \in {"unlock", "post"}
    <3>0. /\ p \in DOMAIN rpc /\ p \in DOMAIN owes
          /\ owes[p] => rpc[p] \in {"unlock", "post"}
      BY <1>2 DEF TypeOK, OweInv
    <3>1. CASE ReaderLoops(p) \/ AwaitPending(p) \/ CheckRunning(p) \/ ReaderLocks(p)
               \/ HandOver(p)
      BY <3>0, <3>1 DEF ReaderLoops, AwaitPending, CheckRunning, ReaderLocks, HandOver
    <3>2. CASE ReadSlot(p) \/ ReaderUnlocks(p)
      BY <3>0, <3>2 DEF ReadSlot, ReaderUnlocks
    <3>3. CASE PostEmpty(p)
      BY <3>0, <3>3 DEF PostEmpty
    <3> QED BY <1>8, <3>1, <3>2, <3>3 DEF ReaderStep
  <2>9. OweInv'
    BY <2>6, <2>8 DEF OweInv
  <2> QED BY <1>1, <2>4, <2>5, <2>7, <2>9
<1> QED
  BY <1>3, <1>4, <1>5, <1>6, <1>7, <1>8 DEF Next, ProcStep, Quiescent

RingInv == ControlInv /\ SlotsConserved /\ UnreadIntact

\* The processes, the claimed slots and the owed posts can be counted.
LEMMA Countable ==
  /\ IsFiniteSet(Procs)
  /\ IsFiniteSet(Claimed) /\ Cardinality(Claimed) \in Nat
  /\ IsFiniteSet(Owing) /\ Cardinality(Owing) \in Nat
<1>1. IsFiniteSet(Procs)
  BY ProcsAssumption, FS_AddElement DEF Procs
<1>2. IsFiniteSet(Claimed) /\ IsFiniteSet(Owing)
  BY <1>1, WritersAssumption, FS_Subset DEF Claimed, Owing
<1> QED BY <1>1, <1>2, FS_CardinalityType

\* A step that moves no slot between the four places keeps the account.
LEMMA AccountFrame ==
  ASSUME SlotsConserved, Claimed' = Claimed, Owing' = Owing,
         UNCHANGED <<empty, nextWriteSeq, readSeq>>
  PROVE  SlotsConserved'
  BY DEF SlotsConserved, Accounted

\* The zeroed region: every slot is free, nothing was published.
LEMMA RingInit == Init => RingInv
<1> SUFFICES ASSUME Init PROVE RingInv
  OBVIOUS
<1>1. Claimed = {} /\ Owing = {}
  BY DEF Init, Claimed, Owing
<1>2. \A p \in Procs : Accounted(p) = SlotCount
  BY <1>1, FS_EmptySet, SlotCountAssumption DEF Init, Accounted
<1>3. SlotsConserved
  BY <1>2, SlotCountAssumption DEF SlotsConserved, Procs
<1>4. UnreadIntact
  BY DEF Init, UnreadIntact
<1> QED BY <1>3, <1>4, ControlInit DEF RingInv

\* Every step keeps the account of the slots: a writer's P(EMPTY) claims one, its
\* publication makes it unread, the last reader of a slot owes it and posts it.
LEMMA AccountStep ==
  ASSUME StartupBarrier, ControlInv, SlotsConserved, [Next]_vars
  PROVE  SlotsConserved'
<1>1. TypeOK /\ TypeOK'
  BY ControlStep DEF ControlInv, TypedInv
<1>0. /\ empty \in Int /\ nextWriteSeq \in Int
      /\ Cardinality(Claimed) \in Int /\ Cardinality(Owing) \in Int
      /\ \A p \in Procs : readSeq[p] \in Int
  BY <1>1, Countable DEF TypeOK
<1>2. CASE UNCHANGED vars
  <2>1. Claimed' = Claimed /\ Owing' = Owing
    BY <1>2 DEF vars, Claimed, Owing
  <2> QED BY <1>2, <2>1, AccountFrame DEF vars
<1>3. ASSUME NEW w \in Writers, BeginSend(w) \/ WriterLocks(w) \/ WriterUnlocks(w)
      PROVE  SlotsConserved'
  <2>1. Claimed' = Claimed
    BY <1>1, <1>3 DEF BeginSend, WriterLocks, WriterUnlocks, TypeOK, Claimed
  <2>2. Owing' = Owing /\ UNCHANGED <<empty, nextWriteSeq, readSeq>>
    BY <1>3 DEF BeginSend, WriterLocks, WriterUnlocks, region, readers, Owing
  <2> QED BY <2>1, <2>2, AccountFrame
<1>4. ASSUME NEW w \in Writers, AcquireEmpty(w) PROVE SlotsConserved'
  <2>1. Claimed' = Claimed \cup {w} /\ w \notin Claimed
    BY <1>1, <1>4 DEF AcquireEmpty, TypeOK, Claimed
  <2>2. Cardinality(Claimed') = Cardinality(Claimed) + 1
    BY <2>1, Countable, FS_AddElement
  <2>3. Owing' = Owing /\ UNCHANGED <<nextWriteSeq, readSeq>> /\ empty' = empty - 1
    BY <1>4 DEF AcquireEmpty, region, readers, Owing
  <2>4. \A p \in Procs : Accounted(p)' = Accounted(p)
    BY <1>0, <2>2, <2>3 DEF Accounted
  <2> QED BY <2>4 DEF SlotsConserved
<1>5. ASSUME NEW w \in Writers, WriteSlot(w) PROVE SlotsConserved'
  <2>1. Claimed' = Claimed \ {w} /\ w \in Claimed
    BY <1>1, <1>5 DEF WriteSlot, TypeOK, Claimed
  <2>2. Cardinality(Claimed') = Cardinality(Claimed) - 1
    BY <2>1, Countable, FS_RemoveElement
  <2>3. Owing' = Owing /\ UNCHANGED <<empty, readSeq>> /\ nextWriteSeq' = nextWriteSeq + 1
    BY <1>5 DEF WriteSlot, readers, Owing
  <2>4. \A p \in Procs : Accounted(p)' = Accounted(p)
    BY <1>0, <2>2, <2>3 DEF Accounted
  <2> QED BY <2>4 DEF SlotsConserved
<1>6. ASSUME NEW p \in Procs, EngineInit(p) PROVE SlotsConserved'
  <2>1. readSeq' = readSeq
    <3>1. readSeq[p] = nextWriteSeq
      BY <1>6 DEF EngineInit, ControlInv, StartInv, Attached
    <3> QED BY <1>1, <1>6, <3>1 DEF EngineInit, TypeOK
  <2>2. Claimed' = Claimed /\ Owing' = Owing /\ UNCHANGED <<empty, nextWriteSeq>>
    BY <1>6 DEF EngineInit, readers, writers, Claimed, Owing
  <2> QED BY <2>1, <2>2, AccountFrame
<1>7. ASSUME NEW p \in Procs, StartReceiving(p) \/ StopReceiving(p) \/ WakeReader(p) \/ Detach(p)
      PROVE  SlotsConserved'
  <2>1. Claimed' = Claimed /\ Owing' = Owing /\ UNCHANGED <<empty, nextWriteSeq, readSeq>>
    BY <1>7
    DEF StartReceiving, StopReceiving, WakeReader, Detach, region, readers, writers,
        Claimed, Owing
  <2> QED BY <2>1, AccountFrame
<1>8. ASSUME NEW p \in Procs,
             \/ ReaderLoops(p) \/ AwaitPending(p) \/ CheckRunning(p)
             \/ ReaderLocks(p) \/ ReaderUnlocks(p) \/ HandOver(p)
      PROVE  SlotsConserved'
  <2>1. Claimed' = Claimed /\ Owing' = Owing /\ UNCHANGED <<empty, nextWriteSeq, readSeq>>
    BY <1>8
    DEF ReaderLoops, AwaitPending, CheckRunning, ReaderLocks, ReaderUnlocks, HandOver,
        region, writers, Claimed, Owing
  <2> QED BY <2>1, AccountFrame
<1>9. ASSUME NEW p \in Procs, ReadSlot(p) PROVE SlotsConserved'
  <2>1. /\ Claimed' = Claimed /\ UNCHANGED <<empty, nextWriteSeq>>
        /\ readSeq'[p] = readSeq[p] + 1
        /\ \A q \in Procs : q # p => readSeq'[q] = readSeq[q]
    BY <1>1, <1>9 DEF ReadSlot, writers, TypeOK, Claimed
  <2>2. p \notin Owing
    BY <1>1, <1>9 DEF ReadSlot, ControlInv, OweInv, Owing
  <2>3. CASE LeastReadSeq(p, readSeq[p] + 1)
    <3>1. Owing' = Owing \cup {p}
      BY <1>1, <1>9, <2>3 DEF ReadSlot, TypeOK, Owing
    <3>2. Cardinality(Owing') = Cardinality(Owing) + 1
      BY <2>2, <3>1, Countable, FS_AddElement
    <3>3. \A q \in Procs : q # p => readSeq[p] + 1 <= readSeq[q]
      BY <2>3 DEF LeastReadSeq
    <3>4. Accounted(p)' = Accounted(p)
      BY <1>0, <2>1, <3>2 DEF Accounted
    <3>5. \A q \in Procs : q # p => Accounted(q)' <= Accounted(p) /\ Accounted(q) < Accounted(p)
      BY <1>0, <2>1, <3>2, <3>3 DEF Accounted
    <3>6. \A q \in Procs : Accounted(q) \in Int /\ Accounted(q)' \in Int
      BY <1>0, <2>1, <3>2 DEF Accounted
    <3>7. Accounted(p) = SlotCount
      BY <3>5, <3>6, SlotCountAssumption DEF SlotsConserved
    <3> QED BY <3>4, <3>5, <3>6, <3>7, SlotCountAssumption DEF SlotsConserved
  <2>4. CASE ~LeastReadSeq(p, readSeq[p] + 1)
    <3>1. Owing' = Owing
      BY <1>1, <1>9, <2>2, <2>4 DEF ReadSlot, TypeOK, Owing
    <3>2. PICK q \in Procs : q # p /\ readSeq[q] <= readSeq[p]
      <4>1. PICK q \in Procs \ {p} : ~(readSeq[p] + 1 <= readSeq[q])
        BY <2>4 DEF LeastReadSeq
      <4>2. readSeq[p] \in Nat /\ readSeq[q] \in Nat
        BY <1>1 DEF TypeOK
      <4> QED BY <4>1, <4>2
    <3>3. \A r \in Procs : Accounted(r) \in Int /\ Accounted(r)' \in Int
      BY <1>0, <2>1, <3>1 DEF Accounted
    <3>4. Accounted(p)' = Accounted(p) - 1
      BY <1>0, <2>1, <3>1 DEF Accounted
    <3>5. \A r \in Procs : r # p => Accounted(r)' = Accounted(r)
      BY <2>1, <3>1 DEF Accounted
    <3>6. Accounted(p) <= Accounted(q)
      BY <1>0, <3>2 DEF Accounted
    <3> QED BY <3>2, <3>3, <3>4, <3>5, <3>6, SlotCountAssumption DEF SlotsConserved
  <2> QED BY <2>3, <2>4
<1>10. ASSUME NEW p \in Procs, PostEmpty(p) PROVE SlotsConserved'
  <2>1. Claimed' = Claimed /\ UNCHANGED <<nextWriteSeq, readSeq>>
    BY <1>10 DEF PostEmpty, region, writers, Claimed
  <2>2. CASE owes[p]
    <3>1. Owing' = Owing \ {p} /\ p \in Owing /\ empty' = empty + 1
      BY <1>1, <1>10, <2>2 DEF PostEmpty, TypeOK, Owing
    <3>2. Cardinality(Owing') = Cardinality(Owing) - 1
      BY <3>1, Countable, FS_RemoveElement
    <3>3. \A q \in Procs : Accounted(q)' = Accounted(q)
      BY <1>0, <2>1, <3>1, <3>2 DEF Accounted
    <3> QED BY <3>3 DEF SlotsConserved
  <2>3. CASE ~owes[p]
    <3>1. Owing' = Owing /\ empty' = empty
      BY <1>1, <1>10, <2>3 DEF PostEmpty, TypeOK, Owing
    <3> QED BY <2>1, <3>1, AccountFrame
  <2> QED BY <2>2, <2>3
<1> QED
  BY <1>2, <1>3, <1>4, <1>5, <1>6, <1>7, <1>8, <1>9, <1>10
  DEF Next, WriterStep, ProcStep, ReaderStep, Quiescent

\* The frame a writer puts into the ring never lands on one still to be read: the
\* slot it claimed is accounted for, so every reader is less than a lap behind.
LEMMA IntactStep ==
  ASSUME StartupBarrier, RingInv, [Next]_vars
  PROVE  UnreadIntact'
<1>1. TypeOK /\ TypeOK' /\ ControlInv /\ SlotsConserved /\ UnreadIntact
  BY ControlStep DEF RingInv, ControlInv, TypedInv
<1>2. ASSUME NEW w \in Writers, WriteSlot(w) PROVE UnreadIntact'
  <2>0. /\ readSeq' = readSeq /\ nextWriteSeq' = nextWriteSeq + 1
        /\ nextWriteSeq \in Int
    BY <1>1, <1>2 DEF WriteSlot, TypeOK
  <2> SUFFICES ASSUME NEW p \in Procs, NEW n \in readSeq[p] .. nextWriteSeq
               PROVE  ring'[Index(n)] = log'[n + 1]
    <3>1. nextWriteSeq' - 1 = nextWriteSeq
      BY <2>0
    <3> QED BY <2>0, <3>1 DEF UnreadIntact
  <2>1. /\ ring' = [ring EXCEPT ![Index(nextWriteSeq)] = SlotOf(w)]
        /\ log' = Append(log, SlotOf(w)) /\ Len(log) = nextWriteSeq
        /\ ring \in [0 .. SlotCount - 1 -> Slots] /\ log \in Seq(Slots)
        /\ nextWriteSeq \in Nat /\ readSeq[p] \in Nat /\ n \in Nat
    BY <1>1, <1>2 DEF WriteSlot, ControlInv, HistoryInv, TypeOK
  <2>2. Index(n) \in 0 .. SlotCount - 1 /\ Index(nextWriteSeq) \in 0 .. SlotCount - 1
    BY <2>1, IndexType
  <2>3. CASE n = nextWriteSeq
    BY <2>1, <2>2, <2>3
  <2>4. CASE n < nextWriteSeq
    <3>1. w \in Claimed
      BY <1>2 DEF WriteSlot, Claimed
    <3>2. Cardinality(Claimed) > 0
      BY <3>1, Countable, FS_EmptySet
    <3>3. Accounted(p) <= SlotCount
      BY <1>1 DEF SlotsConserved
    <3>4. nextWriteSeq - readSeq[p] < SlotCount
      <4>1. /\ empty \in Nat /\ SlotCount \in Nat
            /\ Cardinality(Claimed) \in Nat /\ Cardinality(Owing) \in Nat
        BY <1>1, Countable, SlotCountAssumption DEF TypeOK
      <4> QED BY <2>1, <3>2, <3>3, <4>1 DEF Accounted
    <3>5. Index(n) # Index(nextWriteSeq)
      BY <2>1, <2>4, <3>4, IndexDistinct, SlotCountAssumption
    <3>6. ring'[Index(n)] = ring[Index(n)]
      BY <2>1, <2>2, <3>5
    <3>7. ring[Index(n)] = log[n + 1]
      BY <1>1, <2>1, <2>4 DEF UnreadIntact
    <3>8. log'[n + 1] = log[n + 1]
      BY <2>1, <2>4
    <3> QED BY <3>6, <3>7, <3>8
  <2> QED BY <2>1, <2>3, <2>4
<1>3. ASSUME UNCHANGED <<ring, log, nextWriteSeq>>,
             \A p \in Procs : readSeq'[p] >= readSeq[p]
      PROVE  UnreadIntact'
  BY <1>1, <1>3 DEF UnreadIntact, TypeOK
<1>4. ASSUME NEW p \in Procs, ReadSlot(p) PROVE UnreadIntact'
  BY <1>1, <1>3, <1>4 DEF ReadSlot, history, TypeOK
<1>5. ASSUME NEW p \in Procs, EngineInit(p) PROVE UnreadIntact'
  BY <1>1, <1>3, <1>5 DEF EngineInit, history, ControlInv, StartInv, Attached, TypeOK
<1>6. ASSUME UNCHANGED region, UNCHANGED log PROVE UnreadIntact'
  <2>1. UNCHANGED <<nextWriteSeq, readSeq, ring, log>>
    BY <1>6 DEF region
  <2> QED BY <1>1, <2>1 DEF UnreadIntact
<1>7. ASSUME NEW w \in Writers,
             BeginSend(w) \/ AcquireEmpty(w) \/ WriterLocks(w) \/ WriterUnlocks(w)
      PROVE  UnreadIntact'
  BY <1>6, <1>7 DEF BeginSend, AcquireEmpty, WriterLocks, WriterUnlocks, history
<1>8. ASSUME NEW p \in Procs,
             \/ StartReceiving(p) \/ StopReceiving(p) \/ WakeReader(p) \/ Detach(p)
             \/ ReaderLoops(p) \/ AwaitPending(p) \/ CheckRunning(p)
             \/ ReaderLocks(p) \/ ReaderUnlocks(p) \/ PostEmpty(p) \/ HandOver(p)
      PROVE  UnreadIntact'
  BY <1>6, <1>8
  DEF StartReceiving, StopReceiving, WakeReader, Detach, ReaderLoops, AwaitPending,
      CheckRunning, ReaderLocks, ReaderUnlocks, PostEmpty, HandOver, history
<1>9. CASE UNCHANGED vars
  BY <1>6, <1>9 DEF vars, region
<1> QED
  BY <1>2, <1>4, <1>5, <1>7, <1>8, <1>9
  DEF Next, WriterStep, ProcStep, ReaderStep, Quiescent

\* Under the startup barrier the ring loses no slot and overwrites no frame that
\* some registered reader has still to read.
THEOREM RingSafety ==
  ASSUME StartupBarrier
  PROVE  Spec => [](SlotsConserved /\ UnreadIntact)
<1>1. Init => RingInv
  BY RingInit
<1>2. RingInv /\ [Next]_vars => RingInv'
  BY ControlStep, AccountStep, IntactStep DEF RingInv
<1>3. RingInv => SlotsConserved /\ UnreadIntact
  BY DEF RingInv
<1> QED BY <1>1, <1>2, <1>3, PTL DEF Spec

-----------------------------------------------------------------------------
(* The ring implements the ordered broadcast channel.                        *)

\* A reader holds a frame only between its read and the hand-over.
HeldInv == \A p \in Procs : held[p] # << >> => rpc[p] \in {"unlock", "post", "handle"}

\* The pending counter of a reader, with the token it has just taken, is what it
\* has still to read; a reader at the mutex has something to read.
Woken(p) == IF rpc[p] \in {"check", "mutex", "read"} THEN 1 ELSE 0
PendingInv ==
  \A p \in Procs :
    /\ phase[p] \in {"new", "attached", "receiving"} =>
         pending[p] + Woken(p) = nextWriteSeq - readSeq[p]
    /\ rpc[p] \in {"mutex", "read"} => readSeq[p] < nextWriteSeq

ReaderInv == HeldInv /\ PendingInv

\* The reader part of the invariant holds initially.
LEMMA ReaderInit == Init => ReaderInv
  BY DEF Init, ReaderInv, HeldInv, PendingInv, Woken

\* A step of p's reader thread leaves the other readers alone.
LEMMA ReaderFrame ==
  ASSUME TypeOK, NEW p \in Procs, ReaderStep(p)
  PROVE  /\ UNCHANGED <<nextWriteSeq, phase, log>>
         /\ \A q \in Procs : q # p =>
              /\ rpc'[q] = rpc[q] /\ held'[q] = held[q]
              /\ pending'[q] = pending[q] /\ readSeq'[q] = readSeq[q]
  BY DEF ReaderStep, ReaderLoops, AwaitPending, CheckRunning, ReaderLocks, ReadSlot,
     ReaderUnlocks, PostEmpty, HandOver, region, history, TypeOK

\* The reader part of the invariant is inductive.
LEMMA ReaderStepInv ==
  ASSUME StartupBarrier, ControlInv, ReaderInv, [Next]_vars
  PROVE  ReaderInv'
<1>1. TypeOK /\ TypeOK'
  BY ControlStep DEF ControlInv, TypedInv
<1>2. CASE UNCHANGED vars
  BY <1>2 DEF vars, ReaderInv, HeldInv, PendingInv, Woken
<1>3. ASSUME UNCHANGED <<nextWriteSeq, readSeq, pending, phase, readers>> PROVE ReaderInv'
  BY <1>3 DEF readers, ReaderInv, HeldInv, PendingInv, Woken
<1>4. ASSUME NEW w \in Writers,
             BeginSend(w) \/ AcquireEmpty(w) \/ WriterLocks(w) \/ WriterUnlocks(w)
      PROVE  ReaderInv'
  BY <1>3, <1>4 DEF BeginSend, AcquireEmpty, WriterLocks, WriterUnlocks, region
<1>5. ASSUME NEW w \in Writers, WriteSlot(w) PROVE ReaderInv'
  <2>1. /\ UNCHANGED <<readSeq, phase, rpc, held>> /\ nextWriteSeq' = nextWriteSeq + 1
        /\ \A p \in Procs : pending'[p] = pending[p] + 1
    BY <1>5 DEF WriteSlot, Notified, readers
  <2>2. HeldInv'
    BY <2>1 DEF ReaderInv, HeldInv
  <2>3. PendingInv'
    <3>1. \A p \in Procs : /\ readSeq[p] \in Nat /\ pending[p] \in Nat /\ nextWriteSeq \in Nat
                          /\ Woken(p)' = Woken(p) /\ Woken(p) \in Nat
      BY <1>1, <2>1 DEF TypeOK, Woken
    <3> QED BY <2>1, <3>1 DEF ReaderInv, PendingInv
  <2> QED BY <2>2, <2>3 DEF ReaderInv
<1>6. ASSUME NEW p \in Procs, EngineInit(p) PROVE ReaderInv'
  <2>1. readSeq[p] = nextWriteSeq
    BY <1>6 DEF EngineInit, ControlInv, StartInv, Attached
  <2>2. readSeq' = readSeq
    BY <1>1, <1>6, <2>1 DEF EngineInit, TypeOK
  <2>3. HeldInv'
    BY <1>6 DEF EngineInit, readers, ReaderInv, HeldInv
  <2>4. PendingInv'
    BY <1>1, <1>6, <2>2 DEF EngineInit, readers, ReaderInv, PendingInv, Woken, TypeOK
  <2> QED BY <2>3, <2>4 DEF ReaderInv
<1>7. ASSUME NEW p \in Procs, StartReceiving(p) PROVE ReaderInv'
  <2>1. rpc[p] = "none"
    BY <1>7 DEF StartReceiving, ControlInv, ThreadInv
  <2>2. HeldInv'
    BY <1>1, <1>7, <2>1 DEF StartReceiving, ReaderInv, HeldInv, TypeOK
  <2>3. PendingInv'
    BY <1>1, <1>7, <2>1 DEF StartReceiving, region, ReaderInv, PendingInv, Woken, TypeOK
  <2> QED BY <2>2, <2>3 DEF ReaderInv
<1>8. ASSUME NEW p \in Procs, StopReceiving(p) \/ WakeReader(p) \/ Detach(p) PROVE ReaderInv'
  <2>1. UNCHANGED <<nextWriteSeq, readSeq, rpc, held>>
        /\ phase'[p] \in {"stopping", "joining", "closed"}
        /\ \A q \in Procs : q # p => phase'[q] = phase[q] /\ pending'[q] = pending[q]
    BY <1>1, <1>8 DEF StopReceiving, WakeReader, Detach, region, readers, TypeOK
  <2>2. HeldInv'
    BY <2>1 DEF ReaderInv, HeldInv
  <2>3. PendingInv'
    BY <2>1 DEF ReaderInv, PendingInv, Woken
  <2> QED BY <2>2, <2>3 DEF ReaderInv
<1>9. ASSUME NEW p \in Procs, ReaderStep(p) PROVE ReaderInv'
  <2>1. /\ UNCHANGED <<nextWriteSeq, phase>>
        /\ \A q \in Procs : q # p =>
             /\ rpc'[q] = rpc[q] /\ held'[q] = held[q]
             /\ pending'[q] = pending[q] /\ readSeq'[q] = readSeq[q]
    BY <1>1, <1>9, ReaderFrame
  <2>2. held'[p] # << >> => rpc'[p] \in {"unlock", "post", "handle"}
    <3>0. /\ p \in DOMAIN rpc /\ p \in DOMAIN held
          /\ held[p] # << >> => rpc[p] \in {"unlock", "post", "handle"}
      BY <1>1 DEF TypeOK, ReaderInv, HeldInv
    <3>1. CASE ReaderLoops(p) \/ AwaitPending(p) \/ CheckRunning(p) \/ ReaderLocks(p)
      BY <3>0, <3>1 DEF ReaderLoops, AwaitPending, CheckRunning, ReaderLocks
    <3>2. CASE ReadSlot(p) \/ ReaderUnlocks(p) \/ PostEmpty(p)
      BY <3>0, <3>2 DEF ReadSlot, ReaderUnlocks, PostEmpty
    <3>3. CASE HandOver(p)
      BY <3>0, <3>3 DEF HandOver
    <3> QED BY <1>9, <3>1, <3>2, <3>3 DEF ReaderStep
  <2>3. phase[p] \in {"new", "attached", "receiving"} =>
          pending'[p] + Woken(p)' = nextWriteSeq - readSeq'[p]
    <3> SUFFICES ASSUME phase[p] \in {"new", "attached", "receiving"}
                 PROVE  pending'[p] + Woken(p)' = nextWriteSeq - readSeq'[p]
      OBVIOUS
    <3>1. /\ pending[p] + Woken(p) = nextWriteSeq - readSeq[p]
          /\ pending[p] \in Nat /\ readSeq[p] \in Nat /\ nextWriteSeq \in Nat
      BY <1>1 DEF ReaderInv, PendingInv, TypeOK
    <3>2. phase[p] = "receiving"
      BY <1>9
      DEF ReaderStep, ReaderLoops, AwaitPending, CheckRunning, ReaderLocks, ReadSlot,
          ReaderUnlocks, PostEmpty, HandOver, ControlInv, ThreadInv
    <3>3. CASE AwaitPending(p)
      BY <1>1, <3>1, <3>3 DEF AwaitPending, region, TypeOK, Woken
    <3>4. CASE ReadSlot(p)
      BY <1>1, <3>1, <3>4 DEF ReadSlot, TypeOK, Woken
    <3>5. CASE ReaderLoops(p) \/ CheckRunning(p) \/ ReaderLocks(p)
      BY <1>1, <3>1, <3>2, <3>5
      DEF ReaderLoops, CheckRunning, ReaderLocks, region, Running, TypeOK, Woken
    <3>6. CASE ReaderUnlocks(p) \/ PostEmpty(p) \/ HandOver(p)
      BY <1>1, <3>1, <3>6 DEF ReaderUnlocks, PostEmpty, HandOver, region, TypeOK, Woken
    <3> QED BY <1>9, <3>3, <3>4, <3>5, <3>6 DEF ReaderStep
  <2>4. rpc'[p] \in {"mutex", "read"} => readSeq'[p] < nextWriteSeq
    BY <1>1, <1>9
    DEF ReaderStep, ReaderLoops, AwaitPending, CheckRunning, ReaderLocks, ReadSlot,
        ReaderUnlocks, PostEmpty, HandOver, region, Running, TypeOK, ReaderInv,
        PendingInv, Woken
  <2>5. HeldInv'
    BY <2>1, <2>2 DEF ReaderInv, HeldInv
  <2>6. PendingInv'
    BY <2>1, <2>3, <2>4 DEF ReaderInv, PendingInv, Woken
  <2> QED BY <2>5, <2>6 DEF ReaderInv
<1> QED
  BY <1>2, <1>4, <1>5, <1>6, <1>7, <1>8, <1>9 DEF Next, WriterStep, ProcStep, Quiescent

FullInv == RingInv /\ ReaderInv

\* The whole invariant holds initially and is inductive.
LEMMA FullInit == Init => FullInv
  BY RingInit, ReaderInit DEF FullInv

LEMMA FullStep ==
  ASSUME StartupBarrier
  PROVE  FullInv /\ [Next]_vars => FullInv'
  BY ControlStep, AccountStep, IntactStep, ReaderStepInv DEF FullInv, RingInv

\* Under the startup barrier the pending counter of a reader (sem_wait on
\* pending_sem_index in read_slot, sem_post in write_slot) is exactly what it has still
\* to read, and a reader that gets to the mutex finds a published frame.
THEOREM PendingCounts ==
  ASSUME StartupBarrier
  PROVE  Spec => []PendingExact
<1>1. FullInv => PendingExact
  BY DEF FullInv, ReaderInv, PendingInv, PendingExact, Woken
<1> QED BY <1>1, FullInit, FullStep, PTL DEF Spec

\* Under the startup barrier what README.md:112 concludes from it is true: no reader
\* passes the writers, so read_slot never hands over a slot that was not published.
THEOREM BarrierSuffices ==
  ASSUME StartupBarrier
  PROVE  Spec => []ReadsPublished
<1>1. Init => ReadsPublished
  BY DEF Init, ReadsPublished
<1>2. FullInv /\ ReadsPublished /\ [Next]_vars => ReadsPublished'
  <2> SUFFICES ASSUME FullInv, ReadsPublished, [Next]_vars PROVE ReadsPublished'
    OBVIOUS
  <2>1. TypeOK /\ PendingInv
    BY DEF FullInv, RingInv, ControlInv, TypedInv, ReaderInv
  <2>2. ASSUME UNCHANGED readSeq, nextWriteSeq' \in {nextWriteSeq, nextWriteSeq + 1}
        PROVE  ReadsPublished'
    BY <2>1, <2>2 DEF ReadsPublished, TypeOK
  <2>3. ASSUME NEW p \in Procs, ReadSlot(p) PROVE ReadsPublished'
    BY <2>1, <2>3 DEF ReadSlot, PendingInv, ReadsPublished, TypeOK
  <2>4. ASSUME NEW p \in Procs, EngineInit(p) PROVE ReadsPublished'
    BY <2>1, <2>4 DEF EngineInit, ReadsPublished, TypeOK
  <2>5. ASSUME NEW w \in Writers, BeginSend(w) \/ WriterStep(w) PROVE ReadsPublished'
    BY <2>2, <2>5
    DEF BeginSend, WriterStep, AcquireEmpty, WriterLocks, WriteSlot, WriterUnlocks, region
  <2>6. ASSUME NEW p \in Procs,
               \/ StartReceiving(p) \/ StopReceiving(p) \/ WakeReader(p) \/ Detach(p)
               \/ ReaderLoops(p) \/ AwaitPending(p) \/ CheckRunning(p)
               \/ ReaderLocks(p) \/ ReaderUnlocks(p) \/ PostEmpty(p) \/ HandOver(p)
        PROVE  ReadsPublished'
    BY <2>2, <2>6
    DEF StartReceiving, StopReceiving, WakeReader, Detach, ReaderLoops, AwaitPending,
        CheckRunning, ReaderLocks, ReaderUnlocks, PostEmpty, HandOver, region
  <2>7. CASE UNCHANGED vars
    BY <2>2, <2>7 DEF vars
  <2> QED BY <2>3, <2>4, <2>5, <2>6, <2>7 DEF Next, ProcStep, ReaderStep, Quiescent
<1> QED BY <1>1, <1>2, FullInit, FullStep, PTL DEF Spec

\* What process p has heard in FrameChannel: the frames handed over and the one held.
Heard == [p \in Procs |-> delivered[p] \o held[p]]

\* The initial region is an empty channel.
LEMMA ChannelInit == Init => Channel!Init
  BY DEF Init, Channel!Init

\* Every step of the ring is a step of the channel or leaves it unchanged: filling a
\* slot publishes, reading a slot takes, nothing else is visible.
LEMMA ChannelStep ==
  ASSUME StartupBarrier, FullInv, [Next]_vars
  PROVE  [Channel!Next]_(Channel!vars)
<1>1. TypeOK /\ ControlInv /\ SendBound /\ SlotsConserved /\ UnreadIntact /\ ReaderInv
  BY DEF FullInv, RingInv, ControlInv, TypedInv
<1>2. ASSUME UNCHANGED <<log, readSeq>>, Heard' = Heard PROVE UNCHANGED Channel!vars
  BY <1>2 DEF Heard, Channel!vars
<1>3. CASE UNCHANGED vars
  BY <1>2, <1>3 DEF vars, Heard
<1>4. ASSUME NEW w \in Writers,
             BeginSend(w) \/ AcquireEmpty(w) \/ WriterLocks(w) \/ WriterUnlocks(w)
      PROVE  UNCHANGED Channel!vars
  BY <1>2, <1>4
  DEF BeginSend, AcquireEmpty, WriterLocks, WriterUnlocks, region, readers, history, Heard
<1>5. ASSUME NEW w \in Writers, WriteSlot(w) PROVE Channel!Next
  <2>1. SlotOf(w) \in Slots
    BY <1>1, <1>5, SlotOfType DEF WriteSlot
  <2>2. \A p \in Procs : Len(log) - readSeq[p] < SlotCount
    <3>1. w \in Claimed
      BY <1>5 DEF WriteSlot, Claimed
    <3>2. Cardinality(Claimed) > 0
      BY <3>1, Countable, FS_EmptySet
    <3>3. \A p \in Procs : Accounted(p) <= SlotCount
      BY <1>1 DEF SlotsConserved
    <3>4. /\ empty \in Nat /\ SlotCount \in Nat /\ nextWriteSeq \in Nat
          /\ Cardinality(Claimed) \in Nat /\ Cardinality(Owing) \in Nat
          /\ \A p \in Procs : readSeq[p] \in Nat
      BY <1>1, Countable, SlotCountAssumption DEF TypeOK
    <3>5. Len(log) = nextWriteSeq
      BY <1>1 DEF ControlInv, HistoryInv
    <3> QED BY <3>2, <3>3, <3>4, <3>5 DEF Accounted
  <2>3. log' = Append(log, SlotOf(w)) /\ readSeq' = readSeq /\ Heard' = Heard
    BY <1>5 DEF WriteSlot, readers, Heard
  <2>4. Channel!Publish(SlotOf(w))
    BY <2>2, <2>3 DEF Channel!Publish, Heard
  <2> QED BY <2>1, <2>4 DEF Channel!Next
<1>6. ASSUME NEW p \in Procs, EngineInit(p) PROVE UNCHANGED Channel!vars
  <2>1. readSeq[p] = nextWriteSeq
    BY <1>1, <1>6 DEF EngineInit, ControlInv, StartInv, Attached
  <2>2. readSeq' = readSeq
    BY <1>1, <1>6, <2>1 DEF EngineInit, TypeOK
  <2> QED BY <1>2, <1>6, <2>2 DEF EngineInit, readers, history, Heard
<1>7. ASSUME NEW p \in Procs,
             \/ StartReceiving(p) \/ StopReceiving(p) \/ WakeReader(p) \/ Detach(p)
             \/ ReaderLoops(p) \/ AwaitPending(p) \/ CheckRunning(p)
             \/ ReaderLocks(p) \/ ReaderUnlocks(p) \/ PostEmpty(p)
      PROVE  UNCHANGED Channel!vars
  BY <1>2, <1>7
  DEF StartReceiving, StopReceiving, WakeReader, Detach, ReaderLoops, AwaitPending,
      CheckRunning, ReaderLocks, ReaderUnlocks, PostEmpty, region, readers, history, Heard
<1>8. ASSUME NEW p \in Procs, ReadSlot(p) PROVE Channel!Next
  <2> DEFINE slot == ring[Index(readSeq[p])]
  <2>1. readSeq[p] < nextWriteSeq /\ Len(log) = nextWriteSeq
    BY <1>1, <1>8 DEF ReadSlot, ReaderInv, PendingInv, ControlInv, HistoryInv
  <2>2. slot = log[readSeq[p] + 1] /\ slot \in Slots
    <3>1. readSeq[p] \in Nat /\ nextWriteSeq \in Nat /\ ring \in [0 .. SlotCount - 1 -> Slots]
      BY <1>1 DEF TypeOK
    <3>2. Index(readSeq[p]) \in 0 .. SlotCount - 1
      BY <3>1, IndexType
    <3>3. readSeq[p] \in readSeq[p] .. nextWriteSeq - 1
      BY <2>1, <3>1
    <3> QED BY <1>1, <3>1, <3>2, <3>3 DEF UnreadIntact
  <2>3. held[p] = << >>
    BY <1>1, <1>8 DEF ReadSlot, ReaderInv, HeldInv
  <2>4. /\ UNCHANGED <<log, delivered>> /\ readSeq' = [readSeq EXCEPT ![p] = @ + 1]
        /\ held' = [held EXCEPT ![p] = IF ShouldRead(slot, p) THEN <<slot>> ELSE << >>]
    BY <1>8 DEF ReadSlot, history
  <2> HIDE DEF slot
  <2>5. delivered[p] \in Seq(Slots) /\ held \in [Procs -> Seq(Slots)]
    BY <1>1 DEF TypeOK
  <2>6. Heard' = IF ShouldRead(slot, p) THEN [Heard EXCEPT ![p] = Append(@, slot)] ELSE Heard
    <3>1. delivered[p] \o <<slot>> = Append(delivered[p] \o held[p], slot)
      BY <2>2, <2>3, <2>5
    <3>2. CASE ShouldRead(slot, p)
      BY <2>4, <2>5, <3>1, <3>2 DEF Heard
    <3>3. CASE ~ShouldRead(slot, p)
      BY <2>3, <2>4, <2>5, <3>3 DEF Heard
    <3> QED BY <3>2, <3>3
  <2>7. Channel!Take(p)
    BY <2>1, <2>2, <2>4, <2>6 DEF Channel!Take, Heard
  <2> QED BY <2>7 DEF Channel!Next
<1>9. ASSUME NEW p \in Procs, HandOver(p) PROVE UNCHANGED Channel!vars
  <2>1. /\ UNCHANGED <<log, readSeq>>
        /\ delivered' = [delivered EXCEPT ![p] = @ \o held[p]]
        /\ held' = [held EXCEPT ![p] = << >>]
    BY <1>9 DEF HandOver, region
  <2>2. delivered \in [Procs -> Seq(Slots)] /\ held \in [Procs -> Seq(Slots)]
    BY <1>1 DEF TypeOK
  <2>3. (delivered[p] \o held[p]) \o << >> = delivered[p] \o held[p]
    BY <2>2
  <2>4. Heard' = Heard
    BY <2>1, <2>2, <2>3 DEF Heard
  <2> QED BY <1>2, <2>1, <2>4
<1> QED
  BY <1>3, <1>4, <1>5, <1>6, <1>7, <1>8, <1>9
  DEF Next, WriterStep, ProcStep, ReaderStep, Quiescent

\* Under the startup barrier SharedMemoryEngine is an ordered broadcast channel with
\* back-pressure: every process hears exactly the frames should_read selects, in the
\* one order of publication, each once.
THEOREM RingImplementsChannel ==
  ASSUME StartupBarrier
  PROVE  Spec => OrderedBroadcast
<1>1. Init => FullInv /\ Channel!Init
  BY FullInit, ChannelInit
<1>2. FullInv /\ [Next]_vars => FullInv'
  BY FullStep
<1>3. FullInv /\ [Next]_vars => [Channel!Next]_(Channel!vars)
  BY ChannelStep
<1> QED BY <1>1, <1>2, <1>3, PTL DEF Spec, OrderedBroadcast, Channel!Spec
=============================================================================
