------------------------------- MODULE ShmRing -------------------------------
(***************************************************************************)
(* SharedMemoryEngine: the System V shared-memory broadcast ring that      *)
(* connects the component processes of a vehicle with its gateway.         *)
(*                                                                         *)
(* Every process has one reader thread (started by start_receiving) and    *)
(* any number of threads that write (engine_send); all of them step        *)
(* independently.  A semaphore operation is one atomic step, as semop(2)   *)
(* is; what happens between P(MUTEX) and V(MUTEX) is one more step, since  *)
(* nobody else can look at the region in between.                          *)
(***************************************************************************)
EXTENDS Integers, Sequences, FiniteSets

CONSTANTS
  Components,      \* component processes, slots 1.. of the region
  Gateway,         \* the gateway process, slot 0
  GatewayWriter,   \* SHM::GATEWAY_WRITER, the id under which the gateway writes
  Writers,         \* threads that call engine_send
  ProcOf,          \* ProcOf[w]: the process of writer thread w
  SlotCount,       \* SHM::SLOT_COUNT
  MaxSends,        \* bound: frames each writer thread sends
  StartupBarrier,  \* TRUE: nobody sends before every process is attached
  Closers          \* processes that may call engine_close

Procs == Components \cup {Gateway}

ASSUME ProcsAssumption == /\ IsFiniteSet(Components)
                          /\ Gateway \notin Components
                          /\ GatewayWriter \notin Procs
ASSUME WritersAssumption == /\ IsFiniteSet(Writers)
                            /\ ProcOf \in [Writers -> Procs]
ASSUME SlotCountAssumption == SlotCount \in Nat \ {0}
ASSUME BoundsAssumption == /\ MaxSends \in Nat
                           /\ StartupBarrier \in BOOLEAN
                           /\ Closers \subseteq Procs

VARIABLES
  nextWriteSeq, readSeq, ring,        \* the region: next_write_seq, read_seq[slot], slots
  mutex, empty, pending,              \* the semaphores
  phase,                              \* life cycle of each process' engine
  rpc, held, owes,                    \* reader threads: control, frame copied, V(EMPTY) owed
  wpc, sent,                          \* writer threads: control, frames sent
  log, delivered                      \* history: slots published, slots handed over

region  == <<nextWriteSeq, readSeq, ring>>
readers == <<rpc, held, owes>>
writers == <<wpc, sent>>
history == <<log, delivered>>
vars == <<nextWriteSeq, readSeq, ring, mutex, empty, pending, phase,
          rpc, held, owes, wpc, sent, log, delivered>>

-----------------------------------------------------------------------------
\* The flags of a slot, the slot a frame is stored in, and a zeroed slot.
ToComponents == "DELIVER_TO_COMPONENTS"
ToGateway    == "DELIVER_TO_GATEWAY"

NoFrame == << >>
Frames  == Writers \X (1 .. MaxSends)
WriterIds == Components \cup {Gateway, GatewayWriter}
Slots == [writer : WriterIds, flags : SUBSET {ToComponents, ToGateway},
          frame : Frames \cup {NoFrame}]
ZeroSlot == [writer |-> Gateway, flags |-> {}, frame |-> NoFrame]

Index(seq) == seq % SlotCount

\* What engine_send puts into a slot: the gateway writes under an id of its own.
SlotOf(w) ==
  IF ProcOf[w] = Gateway
  THEN [writer |-> GatewayWriter, flags |-> {ToComponents},
        frame |-> <<w, sent[w] + 1>>]
  ELSE [writer |-> ProcOf[w], flags |-> {ToComponents, ToGateway},
        frame |-> <<w, sent[w] + 1>>]

\* should_read in read_slot.
ShouldRead(slot, p) ==
  \/ p = Gateway /\ ToGateway \in slot.flags
  \/ ToComponents \in slot.flags /\ slot.writer # p

LeastReadSeqNone(p, seq) == TRUE
LeastReadSeqStrict(p, seq) == \A q \in Procs \ {p} : seq < readSeq[q]

\* should_post_empty: seq <= least_read_seq_not_me(), over every registered
\* entry, whether its process is active or not.
LeastReadSeq(p, seq) == \A q \in Procs \ {p} : seq <= readSeq[q]

Running(p) == phase[p] = "receiving"
Attached(p) == phase[p] # "new"

-----------------------------------------------------------------------------
\* SharedMemoryEngine::create, before any process attaches.
Init ==
  /\ nextWriteSeq = 0
  /\ readSeq = [p \in Procs |-> 0]
  /\ ring = [i \in 0 .. SlotCount - 1 |-> ZeroSlot]
  /\ mutex = 1 /\ empty = SlotCount
  /\ pending = [p \in Procs |-> 0]
  /\ phase = [p \in Procs |-> "new"]
  /\ rpc = [p \in Procs |-> "none"]
  /\ held = [p \in Procs |-> << >>]
  /\ owes = [p \in Procs |-> FALSE]
  /\ wpc = [w \in Writers |-> "idle"]
  /\ sent = [w \in Writers |-> 0]
  /\ log = << >>
  /\ delivered = [p \in Procs |-> << >>]

\* engine_init: attach and, under the mutex, start at the frame written next.
EngineInit(p) ==
  /\ phase[p] = "new" /\ mutex = 1
  /\ phase' = [phase EXCEPT ![p] = "attached"]
  /\ readSeq' = [readSeq EXCEPT ![p] = nextWriteSeq]
  /\ UNCHANGED <<nextWriteSeq, ring, mutex, empty, pending, readers, writers, history>>

\* start_receiving: the reader thread exists from here on.
StartReceiving(p) ==
  /\ phase[p] = "attached"
  /\ phase' = [phase EXCEPT ![p] = "receiving"]
  /\ rpc' = [rpc EXCEPT ![p] = "loop"]
  /\ UNCHANGED <<region, mutex, empty, pending, held, owes, writers, history>>

-----------------------------------------------------------------------------
(* Writer threads: engine_send and write_slot. *)

\* A thread of an attached process decides to send.
BeginSend(w) ==
  /\ wpc[w] = "idle" /\ sent[w] < MaxSends
  /\ Running(ProcOf[w])
  /\ StartupBarrier => \A p \in Procs : Attached(p)
  /\ wpc' = [wpc EXCEPT ![w] = "empty"]
  /\ UNCHANGED <<region, mutex, empty, pending, phase, readers, sent, history>>

AcquireEmptyUnchecked(w) ==
  /\ wpc[w] = "empty"
  /\ empty' = IF empty > 0 THEN empty - 1 ELSE 0
  /\ wpc' = [wpc EXCEPT ![w] = "mutex"]
  /\ UNCHANGED <<region, mutex, pending, phase, readers, sent, history>>

\* sem_wait(SEM_RING_EMPTY)
AcquireEmpty(w) ==
  /\ wpc[w] = "empty" /\ empty > 0
  /\ empty' = empty - 1
  /\ wpc' = [wpc EXCEPT ![w] = "mutex"]
  /\ UNCHANGED <<region, mutex, pending, phase, readers, sent, history>>

WriterLocksUnchecked(w) ==
  /\ wpc[w] = "mutex"
  /\ mutex' = 0
  /\ wpc' = [wpc EXCEPT ![w] = "write"]
  /\ UNCHANGED <<region, empty, pending, phase, readers, sent, history>>

\* sem_wait(SEM_RING_MUTEX)
WriterLocks(w) ==
  /\ wpc[w] = "mutex" /\ mutex = 1
  /\ mutex' = 0
  /\ wpc' = [wpc EXCEPT ![w] = "write"]
  /\ UNCHANGED <<region, empty, pending, phase, readers, sent, history>>

NotifiedOthers(w) == Procs \ {ProcOf[w]}

\* The registered readers whose pending counter a writer raises.
Notified(w) == Procs

\* Take a sequence number, fill its slot, wake every registered reader.
WriteSlot(w) ==
  /\ wpc[w] = "write"
  /\ ring' = [ring EXCEPT ![Index(nextWriteSeq)] = SlotOf(w)]
  /\ nextWriteSeq' = nextWriteSeq + 1
  /\ pending' = [p \in Procs |-> IF p \in Notified(w) THEN pending[p] + 1 ELSE pending[p]]
  /\ sent' = [sent EXCEPT ![w] = @ + 1]
  /\ log' = Append(log, SlotOf(w))
  /\ wpc' = [wpc EXCEPT ![w] = "unlock"]
  /\ UNCHANGED <<readSeq, mutex, empty, phase, readers, delivered>>

\* sem_post(SEM_RING_MUTEX); write_slot returns.
WriterUnlocks(w) ==
  /\ wpc[w] = "unlock"
  /\ mutex' = mutex + 1
  /\ wpc' = [wpc EXCEPT ![w] = "idle"]
  /\ UNCHANGED <<region, empty, pending, phase, readers, sent, history>>

-----------------------------------------------------------------------------
(* The reader thread of process p: start_receiving's loop around read_slot. *)

\* while (_running_receiver)
ReaderLoops(p) ==
  /\ rpc[p] = "loop"
  /\ rpc' = [rpc EXCEPT ![p] = IF Running(p) THEN "pending" ELSE "done"]
  /\ UNCHANGED <<region, mutex, empty, pending, phase, held, owes, writers, history>>

\* sem_wait(pending_sem_index(_slot))
AwaitPending(p) ==
  /\ rpc[p] = "pending" /\ pending[p] > 0
  /\ pending' = [pending EXCEPT ![p] = @ - 1]
  /\ rpc' = [rpc EXCEPT ![p] = "check"]
  /\ UNCHANGED <<region, mutex, empty, phase, held, owes, writers, history>>

\* if (!_running_receiver) return -1, upon which the loop ends
CheckRunning(p) ==
  /\ rpc[p] = "check"
  /\ rpc' = [rpc EXCEPT ![p] = IF Running(p) THEN "mutex" ELSE "done"]
  /\ UNCHANGED <<region, mutex, empty, pending, phase, held, owes, writers, history>>

\* sem_wait(SEM_RING_MUTEX)
ReaderLocks(p) ==
  /\ rpc[p] = "mutex" /\ mutex = 1
  /\ mutex' = 0
  /\ rpc' = [rpc EXCEPT ![p] = "read"]
  /\ UNCHANGED <<region, empty, pending, phase, held, owes, writers, history>>

\* Take the next sequence number, copy the frame if it is for p, and note
\* whether p is the last reader of that slot.
ReadSlot(p) ==
  LET slot == ring[Index(readSeq[p])] IN
  /\ rpc[p] = "read"
  /\ readSeq' = [readSeq EXCEPT ![p] = @ + 1]
  /\ held' = [held EXCEPT ![p] = IF ShouldRead(slot, p) THEN <<slot>> ELSE << >>]
  /\ owes' = [owes EXCEPT ![p] = LeastReadSeq(p, readSeq[p] + 1)]
  /\ rpc' = [rpc EXCEPT ![p] = "unlock"]
  /\ UNCHANGED <<nextWriteSeq, ring, mutex, empty, pending, phase, writers, history>>

ReaderUnlocksTwice(p) ==
  /\ rpc[p] = "unlock"
  /\ mutex' = mutex + 2
  /\ rpc' = [rpc EXCEPT ![p] = "post"]
  /\ UNCHANGED <<region, empty, pending, phase, held, owes, writers, history>>

\* sem_post(SEM_RING_MUTEX)
ReaderUnlocks(p) ==
  /\ rpc[p] = "unlock"
  /\ mutex' = mutex + 1
  /\ rpc' = [rpc EXCEPT ![p] = "post"]
  /\ UNCHANGED <<region, empty, pending, phase, held, owes, writers, history>>

\* if (should_post_empty) sem_post(SEM_RING_EMPTY); then hand the frame over,
\* or wait for the next one if this one was not for p.
PostEmpty(p) ==
  /\ rpc[p] = "post"
  /\ empty' = IF owes[p] THEN empty + 1 ELSE empty
  /\ owes' = [owes EXCEPT ![p] = FALSE]
  /\ rpc' = [rpc EXCEPT ![p] = IF held[p] = << >> THEN "pending" ELSE "handle"]
  /\ UNCHANGED <<region, mutex, pending, phase, held, writers, history>>

\* _on_receive(frame, bytes), which returns.
HandOver(p) ==
  /\ rpc[p] = "handle"
  /\ delivered' = [delivered EXCEPT ![p] = @ \o held[p]]
  /\ held' = [held EXCEPT ![p] = << >>]
  /\ rpc' = [rpc EXCEPT ![p] = "loop"]
  /\ UNCHANGED <<region, mutex, empty, pending, phase, owes, writers, log>>

-----------------------------------------------------------------------------
(* engine_close.  The threads of the process that send are joined before   *)
(* its engine is closed, and the gateway waits for every component.        *)

\* _running_receiver = false
StopReceiving(p) ==
  /\ p \in Closers /\ Running(p)
  /\ \A w \in Writers : ProcOf[w] = p => wpc[w] = "idle"
  /\ p = Gateway => \A q \in Components : phase[q] = "closed"
  /\ phase' = [phase EXCEPT ![p] = "stopping"]
  /\ UNCHANGED <<region, mutex, empty, pending, readers, writers, history>>

WakeReaderForgotten(p) ==
  /\ phase[p] = "stopping"
  /\ phase' = [phase EXCEPT ![p] = "joining"]
  /\ UNCHANGED <<region, mutex, empty, pending, readers, writers, history>>

\* sem_post on its own pending counter, in case the reader thread is blocked
WakeReader(p) ==
  /\ phase[p] = "stopping"
  /\ pending' = [pending EXCEPT ![p] = @ + 1]
  /\ phase' = [phase EXCEPT ![p] = "joining"]
  /\ UNCHANGED <<region, mutex, empty, readers, writers, history>>

\* _worker.join(), then active = 0 under the mutex.  read_seq stays as it is.
Detach(p) ==
  /\ phase[p] = "joining" /\ rpc[p] = "done" /\ mutex = 1
  /\ phase' = [phase EXCEPT ![p] = "closed"]
  /\ UNCHANGED <<region, mutex, empty, pending, readers, writers, history>>

\* Every writer has sent its bounded number of frames, every frame was read.
Quiescent ==
  /\ \A w \in Writers : wpc[w] = "idle" /\ sent[w] = MaxSends
  /\ \A p \in Procs : \/ rpc[p] = "pending" /\ pending[p] = 0 /\ Running(p)
                      \/ phase[p] = "closed"
  /\ UNCHANGED vars

WriterStep(w) == \/ AcquireEmpty(w) \/ WriterLocks(w)
                 \/ WriteSlot(w) \/ WriterUnlocks(w)
ReaderStep(p) == \/ ReaderLoops(p) \/ AwaitPending(p) \/ CheckRunning(p)
                 \/ ReaderLocks(p) \/ ReadSlot(p) \/ ReaderUnlocks(p)
                 \/ PostEmpty(p) \/ HandOver(p)
ProcStep(p) == \/ EngineInit(p) \/ StartReceiving(p) \/ WakeReader(p) \/ Detach(p)

Next == \/ \E w \in Writers : BeginSend(w) \/ WriterStep(w)
        \/ \E p \in Procs : ProcStep(p) \/ ReaderStep(p) \/ StopReceiving(p)
        \/ Quiescent

Spec == Init /\ [][Next]_vars

(* Every thread keeps running.  Waiters of a System V semaphore are queued *)
(* and a semop that frees it completes the first of them, so no waiter is  *)
(* overtaken for ever: strong fairness of every thread.                    *)
Fairness == /\ \A w \in Writers : SF_vars(WriterStep(w))
            /\ \A p \in Procs : SF_vars(ReaderStep(p)) /\ SF_vars(ProcStep(p))

FairSpec == Spec /\ Fairness

-----------------------------------------------------------------------------
(* Properties *)

\* Type correctness of the region, the semaphores and the threads' control;
\* in particular the binary semaphore SEM_RING_MUTEX never exceeds one.
TypeOK ==
  /\ nextWriteSeq \in Nat
  /\ readSeq \in [Procs -> Nat]
  /\ ring \in [0 .. SlotCount - 1 -> Slots]
  /\ mutex \in {0, 1} /\ empty \in Nat
  /\ pending \in [Procs -> Nat]
  /\ phase \in [Procs -> {"new", "attached", "receiving", "stopping", "joining", "closed"}]
  /\ rpc \in [Procs -> {"none", "loop", "pending", "check", "mutex", "read",
                        "unlock", "post", "handle", "done"}]
  /\ held \in [Procs -> Seq(Slots)] /\ \A p \in Procs : Len(held[p]) <= 1
  /\ owes \in [Procs -> BOOLEAN]
  /\ wpc \in [Writers -> {"idle", "empty", "mutex", "write", "unlock"}]
  /\ sent \in [Writers -> 0 .. MaxSends]
  /\ log \in Seq(Slots)
  /\ delivered \in [Procs -> Seq(Slots)]

\* The threads between P(SEM_RING_MUTEX) and V(SEM_RING_MUTEX), and the guarantee
\* that the region has one user at a time, be it a writer or a reader.
WritersIn == {w \in Writers : wpc[w] \in {"write", "unlock"}}
ReadersIn == {p \in Procs : rpc[p] \in {"read", "unlock"}}
MutualExclusion ==
  /\ mutex = 1 => WritersIn = {} /\ ReadersIn = {}
  /\ WritersIn = {} \/ ReadersIn = {}
  /\ \A v, w \in WritersIn : v = w
  /\ \A p, q \in ReadersIn : p = q

\* The writers that took a free slot and have not filled it yet, and the
\* readers that freed one and have not posted it yet.
Claimed == {w \in Writers : wpc[w] \in {"mutex", "write"}}
Owing   == {p \in Procs : owes[p]}

\* Free slots, claimed slots, owed slots and the frames some reader still has
\* to pass are all the slots there are: no early return, race or wake-up loses
\* or invents a slot of the ring (write_slot, read_slot's should_post_empty).
Accounted(p) == empty + Cardinality(Claimed) + Cardinality(Owing)
                + (nextWriteSeq - readSeq[p])
SlotsConserved == /\ \A p \in Procs : Accounted(p) <= SlotCount
                  /\ \E p \in Procs : Accounted(p) = SlotCount

\* A frame that some reader has still to read is intact in its slot, however
\* far the writers are ahead (back-pressure, shm_region.h:36).
UnreadIntact ==
  \A p \in Procs : \A n \in readSeq[p] .. nextWriteSeq - 1 :
    ring[Index(n)] = log[n + 1]

\* A reader never passes the writers: with the counter of its own that
\* write_slot raises, it only reads what was published.
PendingExact ==
  \A p \in Procs : Attached(p) =>
    LET woken == IF rpc[p] \in {"check", "mutex", "read"} THEN 1 ELSE 0
    IN  /\ phase[p] = "receiving" => pending[p] + woken = nextWriteSeq - readSeq[p]
        /\ rpc[p] \in {"mutex", "read"} => readSeq[p] < nextWriteSeq

\* What read_slot hands over is the published order filtered by should_read:
\* the ring implements the bounded ordered broadcast of FrameChannel.
Channel == INSTANCE FrameChannel WITH
  Readers <- Procs, Messages <- Slots, Capacity <- SlotCount,
  MeantFor <- ShouldRead, pos <- readSeq,
  heard <- [p \in Procs |-> delivered[p] \o held[p]]
OrderedBroadcast == Channel!Spec

\* Every published frame ends up in the hands of every reader it is meant for and
\* that does not leave, whoever else leaves and however the wake-ups interleave.
EverythingDelivered ==
  \A p \in Procs :
    <>[](Running(p) => delivered[p] = SelectSeq(log, LAMBDA s : ShouldRead(s, p)))

\* Back-pressure delays a writer, and only a reader that has left can wedge it: its
\* read_seq is still counted by least_read_seq_not_me, but nobody advances it.
WedgedOnlyByLeavers ==
  \A w \in Writers : wpc[w] # "idle" ~> (wpc[w] = "idle" \/ \E p \in Procs : ~Running(p))

\* engine_close returns, whatever its reader thread is blocked on and however
\* full the ring is.
CloseReturns == \A p \in Procs : phase[p] = "stopping" ~> phase[p] = "closed"

\* shared_memory_engine.h:122: read_slot waits for its semaphore and then finds the
\* slot of its next sequence number, one that has been published; README.md:112: "a
\* startup barrier so no message is written before every reader is attached".
ReadsPublished == \A p \in Procs : readSeq[p] <= nextWriteSeq
=============================================================================
