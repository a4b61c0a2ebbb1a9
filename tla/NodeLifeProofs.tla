--------------------------- MODULE NodeLifeProofs ---------------------------
(***************************************************************************)
(* That a vehicle is taken down in order, for any number of components,    *)
(* slots, frames, failed forks and killed components.                      *)
(***************************************************************************)
EXTENDS NodeLife, TLAPS

-----------------------------------------------------------------------------
\* The threads of a vehicle are distinct, and each belongs to one process.
LEMMA ThreadsApart ==
  /\ Gateway \in Procs /\ \A c \in Components : c \in Procs /\ c # Gateway
  /\ \A p \in Procs : p = Gateway \/ p \in Components
  /\ \A p \in Procs : /\ Main(p) \in Threads /\ Shm(p) \in Threads /\ Shm(p) \in Receivers
                      /\ Main(p)[2] = p /\ Shm(p)[2] = p
                      /\ Main(p) # Raw /\ Shm(p) # Raw
  /\ Raw \in Threads /\ Raw \in Receivers /\ Raw[2] = Gateway
  /\ \A p, q \in Procs : /\ Main(p) # Shm(q)
                         /\ Main(p) = Main(q) => p = q
                         /\ Shm(p) = Shm(q) => p = q
  /\ \A t \in Receivers : t \in Threads /\ (t = Raw \/ \E p \in Procs : t = Shm(p))
  /\ \A t \in Threads : t \in Receivers \/ \E p \in Procs : t = Main(p)
<1>1. \A c \in Components : c # Gateway
  BY ComponentsAssumption DEF Components, Gateway
<1> QED BY <1>1 DEF Procs, Threads, Receivers, Main, Shm, Raw

\* Where a receiving thread that was started may be, and where a main thread may be
\* that is neither at its beginning nor at its end.
Receiving == {"own", "ignore", "block", "wait", "mutex", "locked", "notify", "update",
              "drain", "empty", "ended"}
Busy == {"run", "empty", "mutex", "locked", "close", "join"}
Places == Over \cup Receiving \cup Busy \cup
            {"fork", "abort", "init", "open", "start", "unraw", "closeShm", "joinShm"}

\* The part of the types that the proofs need.
Typed ==
  /\ pc \in [Threads -> Places]
  /\ running \in [Receivers -> BOOLEAN] /\ watched \in [Receivers -> BOOLEAN]
  /\ late \in [Receivers -> Nat]
  /\ queued \in Nat /\ sigio \in BOOLEAN /\ masked \in BOOLEAN

\* What a step of receiving thread t does: the thread is there and goes elsewhere, to
\* an update only if the observer is attached, and counts an update that is late.
ReceiverMoves(t) ==
  /\ pc[t] \notin Over
  /\ \E place \in Receiving :
       /\ pc' = [pc EXCEPT ![t] = place]
       /\ \/ late' = late /\ (place = "update" => watched[t])
          \/ /\ pc[t] = "update" /\ place # "update"
             /\ late' = [late EXCEPT ![t] = IF watched[t] THEN @ ELSE @ + 1]
  /\ UNCHANGED <<running, watched>>

LEMMA ShmMoves ==
  ASSUME NEW p \in Procs, Receive(p)
  PROVE  ReceiverMoves(Shm(p)) /\ UNCHANGED socket
<1> DEFINE t == Shm(p)
<1>0. Again(t) \in {"wait", "ended"}
  BY DEF Again
<1>1. CASE Await(p)
  BY <1>1 DEF Await, At, Goto, Over, Receiving, ReceiverMoves
<1>2. CASE Lock(t, "mutex", "locked")
  BY <1>2 DEF Lock, At, Goto, Over, Receiving, ReceiverMoves
<1>3. CASE Read(p)
  BY <1>3 DEF Read, At, Goto, Over, Receiving, ReceiverMoves
<1>4. CASE Notify(t, Again(t))
  BY <1>0, <1>4 DEF Notify, At, Goto, Over, Receiving, ReceiverMoves
<1>5. CASE Update(t, Again(t))
  BY <1>0, <1>5 DEF Update, At, Goto, Over, Receiving, ReceiverMoves
<1> QED BY <1>1, <1>2, <1>3, <1>4, <1>5 DEF Receive

LEMMA RawMoves ==
  ASSUME RawReceive
  PROVE  ReceiverMoves(Raw)
<1>1. CASE Prepare
  <2>1. PICK step \in {<<"own", "ignore">>, <<"ignore", "block">>, <<"block", "wait">>} :
          At(Raw, step[1]) /\ Goto(Raw, step[2])
    BY <1>1 DEF Prepare
  <2>2. /\ step[1] \in {"own", "ignore", "block"} /\ step[2] \in {"ignore", "block", "wait"}
    OBVIOUS
  <2> QED BY <1>1, <2>1, <2>2 DEF Prepare, At, Goto, Over, Receiving, ReceiverMoves
<1>2. CASE AwaitSignal \/ Drain
  BY <1>2 DEF AwaitSignal, Drain, At, Goto, Over, Receiving, ReceiverMoves
<1>3. CASE Notify(Raw, "drain")
  BY <1>3 DEF Notify, At, Goto, Over, Receiving, ReceiverMoves
<1>4. ASSUME NEW next \in {"drain", "empty"}, Update(Raw, next) PROVE ReceiverMoves(Raw)
  BY <1>4 DEF Update, At, Goto, Over, Receiving, ReceiverMoves
<1>5. CASE TakeSlot(Raw) \/ Lock(Raw, "mutex", "locked") \/ Write(Raw, "drain")
  BY <1>5 DEF TakeSlot, Lock, Write, At, Goto, Over, Receiving, ReceiverMoves
<1> QED BY <1>1, <1>2, <1>3, <1>4, <1>5 DEF RawReceive

\* What a step of main thread t does that only sends it from one place of the middle
\* of its life to another.
MainMoves(t) ==
  /\ pc[t] \in Busy
  /\ \E place \in Busy : pc' = [pc EXCEPT ![t] = place]

LEMMA ComponentMoves ==
  ASSUME NEW c \in Components,
         \/ TakeSlot(Main(c)) \/ Lock(Main(c), "mutex", "locked")
         \/ Write(Main(c), IF watched[Shm(c)] THEN "run" ELSE "close")
         \/ CloseShm(c, "close", "join") \/ Send(c) \/ Leave(c)
  PROVE  MainMoves(Main(c)) /\ UNCHANGED <<late, socket>>
<1>1. CASE TakeSlot(Main(c)) \/ Lock(Main(c), "mutex", "locked") \/ CloseShm(c, "close", "join")
  BY <1>1 DEF TakeSlot, Lock, CloseShm, At, Goto, MainMoves, Busy
<1>2. CASE Write(Main(c), IF watched[Shm(c)] THEN "run" ELSE "close")
  BY <1>2 DEF Write, At, Goto, MainMoves, Busy
<1>3. CASE Send(c) \/ Leave(c)
  BY <1>3 DEF Send, Leave, At, Goto, MainMoves, Busy
<1> QED BY <1>1, <1>2, <1>3

\* The end of process p, by itself, by a signal or by its parent.
ProcessDies(p) == Dies(p) /\ ~Gone(p) /\ UNCHANGED <<running, watched, late, socket>>

LEMMA GoneProcess ==
  ASSUME NEW c \in Components, Die(c) \/ Terminate(c)
  PROVE  ProcessDies(c)
  BY DEF Die, Terminate, ProcessDies

-----------------------------------------------------------------------------
LEMMA TypedInit == Init => Typed
<1> SUFFICES ASSUME Init PROVE Typed
  OBVIOUS
<1>1. "fork" \in Places /\ "none" \in Places
  BY DEF Places, Over
<1>2. pc \in [Threads -> Places]
  BY <1>1 DEF Init
<1>3. running \in [Receivers -> BOOLEAN] /\ watched \in [Receivers -> BOOLEAN]
  BY DEF Init
<1>4. late \in [Receivers -> Nat] /\ queued \in Nat /\ sigio \in BOOLEAN /\ masked \in BOOLEAN
  BY DEF Init
<1> QED BY <1>2, <1>3, <1>4 DEF Typed

LEMMA TypedStep == Typed /\ [Next]_vars => Typed'
<1> SUFFICES ASSUME Typed, [Next]_vars PROVE Typed'
  OBVIOUS
<1> DEFINE g == Main(Gateway)
<1>0. Over \subseteq Places /\ Receiving \subseteq Places /\ Busy \subseteq Places
      /\ {"init", "abort", "open", "start", "unraw", "closeShm", "joinShm", "dead", "own", "wait"}
           \subseteq Places
  BY DEF Places, Over, Receiving
<1>1. ASSUME NEW t \in Receivers, ReceiverMoves(t) PROVE /\ pc' \in [Threads -> Places]
                                                         /\ late' \in [Receivers -> Nat]
                                                         /\ running' \in [Receivers -> BOOLEAN]
                                                         /\ watched' \in [Receivers -> BOOLEAN]
  <2>1. PICK place \in Receiving :
          /\ pc' = [pc EXCEPT ![t] = place]
          /\ late' = late \/ late' = [late EXCEPT ![t] = IF watched[t] THEN @ ELSE @ + 1]
    BY <1>1 DEF ReceiverMoves
  <2>2. pc' \in [Threads -> Places]
    BY <1>0, <2>1 DEF Typed
  <2>3. late' \in [Receivers -> Nat]
    <3>1. late[t] \in Nat /\ late[t] + 1 \in Nat
      BY DEF Typed
    <3> DEFINE n == IF watched[t] THEN late[t] ELSE late[t] + 1
    <3>2. n \in Nat
      BY <3>1
    <3>3. late' = late \/ late' = [late EXCEPT ![t] = n]
      BY <2>1
    <3> HIDE DEF n
    <3> QED BY <3>2, <3>3 DEF Typed
  <2> QED BY <1>1, <2>2, <2>3 DEF ReceiverMoves, Typed
<1>2. ASSUME NEW p \in Procs, Receive(p) PROVE Typed'
  BY <1>1, <1>2, ShmMoves, ThreadsApart DEF Typed, socket
<1>3. CASE RawReceive
  <2>1. /\ pc' \in [Threads -> Places] /\ late' \in [Receivers -> Nat]
        /\ running' \in [Receivers -> BOOLEAN] /\ watched' \in [Receivers -> BOOLEAN]
    BY <1>1, <1>3, RawMoves, ThreadsApart
  <2>2. queued' \in Nat /\ sigio' \in BOOLEAN /\ masked' \in BOOLEAN
    <3>1. CASE Prepare \/ Notify(Raw, "drain") \/ (\E next \in {"drain", "empty"} : Update(Raw, next))
               \/ TakeSlot(Raw) \/ Lock(Raw, "mutex", "locked") \/ Write(Raw, "drain")
      BY <3>1 DEF Prepare, Notify, Update, TakeSlot, Lock, Write, socket, Typed
    <3>2. CASE AwaitSignal
      BY <3>2 DEF AwaitSignal, Typed
    <3>3. CASE Drain
      <4>1. UNCHANGED <<sigio, masked>>
        BY <3>3 DEF Drain
      <4>2. queued' = queued \/ (queued > 0 /\ queued' = queued - 1)
        BY <3>3 DEF Drain
      <4> QED BY <4>1, <4>2 DEF Typed
    <3> QED BY <1>3, <3>1, <3>2, <3>3 DEF RawReceive
  <2> QED BY <2>1, <2>2 DEF Typed
<1>4. CASE Arrive
  <2>1. pc' \in [Threads -> Places]
    BY <1>0, <1>4 DEF Arrive, Dies, Typed
  <2>2. queued' \in Nat /\ UNCHANGED <<running, watched, late>>
    BY <1>4 DEF Arrive, Typed
  <2>3. sigio' \in BOOLEAN /\ masked' \in BOOLEAN
    <3>1. CASE At(Raw, "ignore")
      BY <1>4, <3>1 DEF Arrive, Typed
    <3>2. CASE ~At(Raw, "ignore")
      <4>1. /\ sigio' = (sigio \/ pc[Raw] \notin {"none", "own", "block"})
            /\ masked' = (masked \/ pc[Raw] \notin {"none", "own", "block"})
        BY <1>4, <3>2 DEF Arrive
      <4> QED BY <4>1
    <3> QED BY <3>1, <3>2
  <2> QED BY <2>1, <2>2, <2>3 DEF Typed
<1>5. ASSUME NEW c \in Components, Component(c) \/ Send(c) \/ Leave(c) \/ Die(c) PROVE Typed'
  <2>1. CASE EngineInit(c, "run")
    BY <1>0, <2>1 DEF EngineInit, socket, Typed, Busy
  <2>2. CASE JoinShm(c, "join")
    BY <1>0, <2>2 DEF JoinShm, Goto, socket, Typed, Over
  <2>3. CASE Die(c) \/ Terminate(c)
    BY <1>0, <2>3, GoneProcess DEF ProcessDies, Dies, socket, Typed
  <2>4. CASE \/ TakeSlot(Main(c)) \/ Lock(Main(c), "mutex", "locked")
             \/ Write(Main(c), IF watched[Shm(c)] THEN "run" ELSE "close")
             \/ CloseShm(c, "close", "join") \/ Send(c) \/ Leave(c)
    <3>1. pc' \in [Threads -> Places] /\ UNCHANGED <<late, socket>>
      BY <1>0, <2>4, ComponentMoves DEF MainMoves, Typed
    <3>2. running' \in [Receivers -> BOOLEAN] /\ watched' \in [Receivers -> BOOLEAN]
      BY <2>4 DEF TakeSlot, Lock, Write, CloseShm, Send, Leave, Typed
    <3> QED BY <3>1, <3>2 DEF socket, Typed
  <2> QED BY <1>5, <2>1, <2>2, <2>3, <2>4 DEF Component
<1>6. CASE GatewayMain
  <2>1. CASE Abort \/ Forked \/ \E c \in Components : Fork(c)
    BY <1>0, <2>1 DEF Abort, Forked, Fork, Goto, socket, Typed, Over
  <2>2. CASE EngineInit(Gateway, "open")
    BY <1>0, <2>2 DEF EngineInit, socket, Typed
  <2>3. CASE Open \/ Start \/ Stop
    BY <1>0, <2>3 DEF Open, Start, Stop, Goto, socket, Typed, Busy
  <2>4. CASE DetachRaw \/ CloseRaw \/ JoinRaw
    <3>1. {"close", "join", "closeShm"} \subseteq Places
      BY DEF Places, Busy
    <3>2. pc' \in [Threads -> Places]
      BY <2>4, <3>1 DEF DetachRaw, CloseRaw, JoinRaw, Goto, Typed
    <3>3. queued' \in Nat /\ UNCHANGED <<late, sigio, masked>>
      BY <2>4 DEF DetachRaw, CloseRaw, JoinRaw, socket, Typed
    <3>4. running' \in [Receivers -> BOOLEAN] /\ watched' \in [Receivers -> BOOLEAN]
      BY <2>4 DEF DetachRaw, CloseRaw, JoinRaw, Typed
    <3> QED BY <3>2, <3>3, <3>4 DEF Typed
  <2>5. CASE CloseShm(Gateway, "closeShm", "joinShm") \/ JoinShm(Gateway, "joinShm")
    BY <1>0, <2>5 DEF CloseShm, JoinShm, Goto, socket, Typed, Over
  <2> QED BY <1>6, <2>1, <2>2, <2>3, <2>4, <2>5 DEF GatewayMain
<1>7. CASE UNCHANGED vars
  BY <1>7 DEF vars, Typed
<1> QED BY <1>2, <1>3, <1>4, <1>5, <1>6, <1>7 DEF Next

-----------------------------------------------------------------------------
(* Who waits for whom at the end. *)

\* A step of a process' main thread alone, and of one receiving thread alone.
LEMMA MainChanges ==
  ASSUME Typed, NEW p \in Procs, NEW place, pc' = [pc EXCEPT ![Main(p)] = place]
  PROVE  /\ pc'[Main(p)] = place
         /\ \A q \in Procs : q # p => pc'[Main(q)] = pc[Main(q)]
         /\ \A t \in Receivers : pc'[t] = pc[t]
  BY ThreadsApart DEF Typed

LEMMA ReceiverChanges ==
  ASSUME Typed, NEW t \in Receivers, NEW place, pc' = [pc EXCEPT ![t] = place]
  PROVE  /\ pc'[t] = place
         /\ \A q \in Procs : pc'[Main(q)] = pc[Main(q)]
         /\ \A r \in Receivers : r # t => pc'[r] = pc[r]
  BY ThreadsApart DEF Typed

\* The places of the gateway's main thread before it starts the raw thread, and after
\* it has awaited the components.
Opening == {"fork", "abort", "init", "open", "start"}
Closing == {"unraw", "close", "join", "closeShm", "joinShm", "ended"}

\* A process has no receiving thread before engine_init, and none any more when it has
\* ended; nor has the gateway a raw thread before it starts it and after it joined it,
\* and it takes nothing down before all components are gone.
Joined ==
  /\ \A p \in Procs :
       /\ pc[Main(p)] \in {"none", "fork", "abort", "init"} => pc[Shm(p)] = "none"
       /\ pc[Main(p)] \in {"ended", "dead"} => pc[Shm(p)] \in Over
  /\ pc[Main(Gateway)] \in Opening => pc[Raw] = "none"
  /\ pc[Main(Gateway)] \in {"closeShm", "joinShm", "ended"} => pc[Raw] \in Over
  /\ pc[Main(Gateway)] \in Closing => \A c \in Components : Gone(c)

LEMMA JoinedInit == Init => Joined
<1> SUFFICES ASSUME Init PROVE Joined
  OBVIOUS
<1>1. /\ pc[Main(Gateway)] = "fork" /\ pc[Raw] = "none"
      /\ \A p \in Procs : pc[Shm(p)] = "none"
  BY ThreadsApart DEF Init
<1> QED BY <1>1 DEF Joined, Over, Closing

LEMMA JoinedStep == Typed /\ Joined /\ [Next]_vars => Joined'
<1> SUFFICES ASSUME Typed, Joined, [Next]_vars PROVE Joined'
  OBVIOUS
<1> DEFINE g == Main(Gateway)
<1>1. ASSUME NEW t \in Receivers, ReceiverMoves(t) PROVE Joined'
  <2>1. PICK place \in Receiving : pc' = [pc EXCEPT ![t] = place]
    BY <1>1 DEF ReceiverMoves
  <2>2. /\ pc'[t] = place /\ pc[t] \notin Over
        /\ \A q \in Procs : pc'[Main(q)] = pc[Main(q)]
        /\ \A r \in Receivers : r # t => pc'[r] = pc[r]
    BY <1>1, <2>1, ReceiverChanges DEF ReceiverMoves
  <2>3. "none" \in Over
    BY DEF Over
  <2>4. \A c \in Components : Gone(c)' <=> Gone(c)
    BY <2>2, ThreadsApart DEF Gone
  <2>5. \A r \in Receivers : pc[r] \in Over => pc'[r] = pc[r]
    BY <2>2
  <2> QED BY <2>2, <2>3, <2>4, <2>5, ThreadsApart DEF Joined
<1>2. ASSUME NEW p \in Procs, Receive(p) PROVE Joined'
  BY <1>1, <1>2, ShmMoves, ThreadsApart
<1>3. CASE RawReceive
  BY <1>1, <1>3, RawMoves, ThreadsApart
<1>4. ASSUME NEW p \in Procs, ProcessDies(p) PROVE Joined'
  <2>1. \A t \in Threads : pc'[t] = IF t[2] = p THEN "dead" ELSE pc[t]
    BY <1>4 DEF ProcessDies, Dies
  <2>2. /\ \A q \in Procs : q # p => pc'[Main(q)] = pc[Main(q)] /\ pc'[Shm(q)] = pc[Shm(q)]
        /\ pc'[Main(p)] = "dead" /\ pc'[Shm(p)] = "dead"
        /\ p # Gateway => pc'[Raw] = pc[Raw]
    BY <2>1, ThreadsApart
  <2>3. \A c \in Components : Gone(c) => Gone(c)'
    BY <2>2, ThreadsApart DEF Gone, Over
  <2> QED BY <2>2, <2>3, ThreadsApart DEF Joined, Over, Opening, Closing
<1>5. CASE Arrive
  <2>1. CASE At(Raw, "ignore")
    <3>1. Dies(Gateway) /\ pc[g] \in {"start", "run", "unraw", "close"}
      BY <1>5, <2>1 DEF Arrive, Bound
    <3>2. \A t \in Threads : pc'[t] = IF t[2] = Gateway THEN "dead" ELSE pc[t]
      BY <3>1 DEF Dies
    <3>3. /\ \A c \in Components : pc'[Main(c)] = pc[Main(c)] /\ pc'[Shm(c)] = pc[Shm(c)]
          /\ pc'[g] = "dead" /\ pc'[Shm(Gateway)] = "dead"
      BY <3>2, ThreadsApart
    <3> QED BY <3>3, ThreadsApart DEF Joined, Over, Opening, Closing
  <2>2. CASE ~At(Raw, "ignore")
    BY <1>5, <2>2 DEF Arrive, Joined, Gone
  <2> QED BY <2>1, <2>2
<1>6. ASSUME NEW c \in Components, MainMoves(Main(c)) PROVE Joined'
  <2>1. PICK place \in Busy : pc' = [pc EXCEPT ![Main(c)] = place]
    BY <1>6 DEF MainMoves
  <2>2. /\ pc'[Main(c)] = place /\ c # Gateway /\ c \in Procs
        /\ \A q \in Procs : q # c => pc'[Main(q)] = pc[Main(q)]
        /\ \A t \in Receivers : pc'[t] = pc[t]
        /\ Gateway \in Procs /\ Raw \in Receivers /\ \A q \in Procs : Shm(q) \in Receivers
    BY <2>1, MainChanges, ThreadsApart
  <2>3. pc[Main(c)] \notin Over /\ place \notin {"none", "fork", "abort", "init", "ended", "dead"}
    BY <1>6 DEF MainMoves, Busy, Over
  <2>4. \A d \in Components : Gone(d) => Gone(d)'
    BY <2>2, <2>3, ThreadsApart DEF Gone
  <2> QED BY <2>2, <2>3, <2>4 DEF Joined
<1>7. ASSUME NEW c \in Components, Component(c) \/ Send(c) \/ Leave(c) \/ Die(c) PROVE Joined'
  <2>0. c \in Procs /\ c # Gateway
    BY ThreadsApart
  <2>1. CASE EngineInit(c, "run")
    <3>1. /\ pc[Main(c)] = "init" /\ pc'[Main(c)] = "run" /\ pc'[Shm(c)] = "wait"
          /\ \A q \in Procs : q # c => pc'[Main(q)] = pc[Main(q)] /\ pc'[Shm(q)] = pc[Shm(q)]
          /\ pc'[Raw] = pc[Raw]
      BY <2>0, <2>1, ThreadsApart DEF EngineInit, At, Typed
    <3>2. \A d \in Components : Gone(d) => Gone(d)'
      BY <3>1, ThreadsApart DEF Gone, Over
    <3> QED BY <2>0, <3>1, <3>2, ThreadsApart DEF Joined
  <2>2. CASE JoinShm(c, "join")
    <3>1. /\ pc[Main(c)] = "join" /\ pc[Shm(c)] = "ended" /\ pc'[Main(c)] = "ended"
          /\ \A q \in Procs : q # c => pc'[Main(q)] = pc[Main(q)]
          /\ \A t \in Receivers : pc'[t] = pc[t]
      BY <2>0, <2>2, MainChanges DEF JoinShm, At, Goto
    <3>2. \A d \in Components : Gone(d) => Gone(d)'
      BY <3>1, ThreadsApart DEF Gone, Over
    <3> QED BY <2>0, <3>1, <3>2, ThreadsApart DEF Joined, Over
  <2>3. CASE Die(c) \/ Terminate(c)
    BY <1>4, <2>0, <2>3, GoneProcess
  <2>4. CASE \/ TakeSlot(Main(c)) \/ Lock(Main(c), "mutex", "locked")
             \/ Write(Main(c), IF watched[Shm(c)] THEN "run" ELSE "close")
             \/ CloseShm(c, "close", "join") \/ Send(c) \/ Leave(c)
    BY <1>6, <2>4, ComponentMoves
  <2> QED BY <1>7, <2>1, <2>2, <2>3, <2>4 DEF Component
<1>8. ASSUME NEW place, pc' = [pc EXCEPT ![g] = place],
             place \in {"none", "fork", "abort", "init"} => pc[g] \in {"none", "fork", "abort", "init"},
             place \in {"ended", "dead"} => pc[Shm(Gateway)] \in Over,
             place \in Opening => pc[g] \in Opening,
             place \in {"closeShm", "joinShm", "ended"} => pc[Raw] \in Over,
             place \in Closing => \A c \in Components : Gone(c)
      PROVE  Joined'
  <2>1. /\ pc'[g] = place
        /\ \A q \in Procs : q # Gateway => pc'[Main(q)] = pc[Main(q)]
        /\ \A t \in Receivers : pc'[t] = pc[t]
    BY <1>8, MainChanges, ThreadsApart
  <2>2. \A c \in Components : Gone(c)' <=> Gone(c)
    BY <2>1, ThreadsApart DEF Gone
  <2>3. ASSUME NEW p \in Procs
        PROVE  /\ pc'[Main(p)] \in {"none", "fork", "abort", "init"} => pc'[Shm(p)] = "none"
               /\ pc'[Main(p)] \in {"ended", "dead"} => pc'[Shm(p)] \in Over
    <3>1. pc'[Shm(p)] = pc[Shm(p)]
      BY <2>1, ThreadsApart
    <3>2. CASE p = Gateway
      BY <1>8, <2>1, <3>1, <3>2 DEF Joined
    <3>3. CASE p # Gateway
      BY <2>1, <3>1, <3>3 DEF Joined
    <3> QED BY <3>2, <3>3
  <2>4. pc'[Raw] = pc[Raw]
    BY <2>1, ThreadsApart
  <2> QED BY <1>8, <2>1, <2>2, <2>3, <2>4 DEF Joined
<1>9. CASE GatewayMain
  <2>0. Gateway \in Procs
    BY ThreadsApart
  <2>1. ASSUME NEW c \in Components, Fork(c) PROVE Joined'
    <3>1. pc[g] = "fork" /\ pc[Main(c)] = "none"
      <4>1. c >= c
        BY DEF Components
      <4> QED BY <2>1, <4>1 DEF Fork, At
    <3>2. CASE pc' = [pc EXCEPT ![Main(c)] = "init"]
      <4>1. /\ pc'[Main(c)] = "init"
            /\ \A q \in Procs : q # c => pc'[Main(q)] = pc[Main(q)]
            /\ \A t \in Receivers : pc'[t] = pc[t]
        BY <3>2, MainChanges, ThreadsApart
      <4> QED BY <3>1, <4>1, ThreadsApart DEF Joined, Closing
    <3>3. CASE Goto(g, "abort")
      <4>1. pc' = [pc EXCEPT ![g] = "abort"]
        BY <3>3 DEF Goto
      <4> QED BY <1>8, <3>1, <4>1 DEF Opening, Closing
    <3> QED BY <2>1, <3>2, <3>3 DEF Fork
  <2>2. CASE Abort
    <3>1. pc[g] = "abort" /\ pc' = [pc EXCEPT ![g] = "ended"] /\ \A c \in Components : Gone(c)
      BY <2>2 DEF Abort, At, Goto
    <3>2. pc[Shm(Gateway)] = "none" /\ pc[Raw] = "none"
      BY <2>0, <3>1 DEF Joined, Opening
    <3> QED BY <1>8, <3>1, <3>2 DEF Opening, Closing, Over
  <2>3. CASE Forked
    <3>1. pc[g] = "fork" /\ pc' = [pc EXCEPT ![g] = "init"]
      BY <2>3 DEF Forked, At, Goto
    <3> QED BY <1>8, <3>1 DEF Joined, Opening, Closing, Over
  <2>4. CASE EngineInit(Gateway, "open")
    <3>1. /\ pc[g] = "init" /\ pc'[g] = "open" /\ pc'[Shm(Gateway)] = "wait"
          /\ \A c \in Components : pc'[Main(c)] = pc[Main(c)] /\ pc'[Shm(c)] = pc[Shm(c)]
          /\ pc'[Raw] = pc[Raw]
      BY <2>4, ThreadsApart DEF EngineInit, At, Typed
    <3> QED BY <3>1, ThreadsApart DEF Joined, Opening, Closing, Over
  <2>5. CASE Open
    <3>1. pc[g] = "open" /\ pc' = [pc EXCEPT ![g] = "start"]
      BY <2>5 DEF Open, At, Goto
    <3> QED BY <1>8, <3>1 DEF Joined, Opening, Closing, Over
  <2>6. CASE Start
    <3>1. /\ pc[g] = "start" /\ pc'[g] = "run"
          /\ \A q \in Procs : pc'[Shm(q)] = pc[Shm(q)]
          /\ \A c \in Components : pc'[Main(c)] = pc[Main(c)]
      BY <2>6, ThreadsApart DEF Start, At, Typed
    <3> QED BY <3>1, ThreadsApart DEF Joined, Opening, Closing
  <2>7. CASE Stop
    <3>1. pc[g] = "run" /\ pc' = [pc EXCEPT ![g] = "unraw"] /\ \A c \in Components : Gone(c)
      BY <2>7 DEF Stop, At, Goto
    <3> QED BY <1>8, <3>1 DEF Joined, Opening, Closing, Over
  <2>8. CASE DetachRaw
    <3>1. pc[g] = "unraw" /\ pc' = [pc EXCEPT ![g] = "close"]
      BY <2>8 DEF DetachRaw, At, Goto
    <3> QED BY <1>8, <3>1 DEF Joined, Opening, Closing, Over
  <2>9. CASE CloseRaw
    <3>1. pc[g] = "close" /\ pc' = [pc EXCEPT ![g] = "join"]
      BY <2>9 DEF CloseRaw, At, Goto
    <3> QED BY <1>8, <3>1 DEF Joined, Opening, Closing, Over
  <2>10. CASE JoinRaw
    <3>1. pc[g] = "join" /\ pc' = [pc EXCEPT ![g] = "closeShm"] /\ pc[Raw] = "ended"
      BY <2>10 DEF JoinRaw, At, Goto
    <3> QED BY <1>8, <3>1 DEF Joined, Opening, Closing, Over
  <2>11. CASE CloseShm(Gateway, "closeShm", "joinShm")
    <3>1. pc[g] = "closeShm" /\ pc' = [pc EXCEPT ![g] = "joinShm"]
      BY <2>11 DEF CloseShm, At, Goto
    <3> QED BY <1>8, <3>1 DEF Joined, Opening, Closing, Over
  <2>12. CASE JoinShm(Gateway, "joinShm")
    <3>1. pc[g] = "joinShm" /\ pc' = [pc EXCEPT ![g] = "ended"] /\ pc[Shm(Gateway)] = "ended"
      BY <2>12 DEF JoinShm, At, Goto
    <3> QED BY <1>8, <3>1 DEF Joined, Opening, Closing, Over
  <2> QED BY <1>9, <2>1, <2>2, <2>3, <2>4, <2>5, <2>6, <2>7, <2>8, <2>9, <2>10, <2>11, <2>12
          DEF GatewayMain
<1>10. CASE UNCHANGED vars
  BY <1>10 DEF vars, Joined, Gone
<1> QED BY <1>2, <1>3, <1>5, <1>7, <1>9, <1>10 DEF Next

\* The gateway removes the ring only when no thread of the vehicle is left, however
\* many components there are and however they ended, also after a failed fork
\* (run_gateway_process, ~Protocol and the joins of the engines).
THEOREM RingRemovedLast == Spec => []RingOutlivesUsers
<1>1. Joined => RingOutlivesUsers
  <2> SUFFICES ASSUME Joined, At(Main(Gateway), "ended"), NEW t \in Threads PROVE pc[t] \in Over
    BY DEF RingOutlivesUsers
  <2>1. \A p \in Procs : pc[Main(p)] \in Over
    BY ThreadsApart DEF At, Joined, Closing, Gone, Over
  <2>2. \A p \in Procs : pc[Shm(p)] \in Over
    BY <2>1 DEF Joined, Over
  <2>3. pc[Raw] \in Over
    BY DEF At, Joined
  <2> QED BY <2>1, <2>2, <2>3, ThreadsApart
<1> QED BY <1>1, TypedInit, TypedStep, JoinedInit, JoinedStep, PTL DEF Spec

-----------------------------------------------------------------------------
(* The late update. *)

\* What a step does for a receiving thread that takes none: it stays where it is, is
\* started or dies, and its observer is attached when the thread is started.
Stays(t) ==
  /\ pc'[t] = pc[t] \/ pc'[t] \in {"wait", "own", "dead"}
  /\ watched'[t] => watched[t] \/ pc[t] = "none"

\* Which step of a vehicle is whose.
LEMMA WhoMoves ==
  ASSUME Typed, Joined, Next
  PROVE  \/ \E t \in Receivers : ReceiverMoves(t)
         \/ late' = late /\ \A t \in Receivers : Stays(t)
<1> SUFFICES ASSUME ~\E t \in Receivers : ReceiverMoves(t)
             PROVE  late' = late /\ \A t \in Receivers : Stays(t)
  OBVIOUS
<1> DEFINE Quiet == late' = late /\ \A t \in Receivers : Stays(t)
<1>1. ~RawReceive /\ ~\E p \in Procs : Receive(p)
  BY ShmMoves, RawMoves, ThreadsApart
<1>2. ASSUME NEW p \in Procs, NEW place, pc' = [pc EXCEPT ![Main(p)] = place],
             late' = late,
             \/ watched' = watched
             \/ \E t \in Receivers : watched' = [watched EXCEPT ![t] = FALSE]
      PROVE  Quiet
  <2>1. \A t \in Receivers : pc'[t] = pc[t]
    BY <1>2, MainChanges
  <2>2. \A t \in Receivers : watched'[t] => watched[t]
    BY <1>2 DEF Typed
  <2> QED BY <1>2, <2>1, <2>2 DEF Stays
<1>3. ASSUME NEW p \in Procs, Dies(p), late' = late, watched' = watched PROVE Quiet
  <2>1. \A t \in Receivers : pc'[t] = pc[t] \/ pc'[t] = "dead"
    BY <1>3, ThreadsApart DEF Dies
  <2> QED BY <1>3, <2>1 DEF Stays
<1>4. ASSUME NEW p \in Procs, NEW next, EngineInit(p, next) PROVE Quiet
  <2>1. pc[Shm(p)] = "none"
    BY <1>4 DEF EngineInit, At, Joined
  <2>2. /\ pc' = [pc EXCEPT ![Main(p)] = next, ![Shm(p)] = "wait"]
        /\ watched' = [watched EXCEPT ![Shm(p)] = TRUE] /\ late' = late
    BY <1>4 DEF EngineInit
  <2>3. \A t \in Receivers : t # Shm(p) => pc'[t] = pc[t] /\ watched'[t] = watched[t]
    BY <2>2, ThreadsApart DEF Typed
  <2>4. pc'[Shm(p)] = "wait"
    BY <2>2, ThreadsApart DEF Typed
  <2> QED BY <2>1, <2>2, <2>3, <2>4 DEF Stays
<1>5. CASE Arrive
  BY <1>3, <1>5, ThreadsApart DEF Arrive, Stays
<1>6. ASSUME NEW c \in Components, Component(c) \/ Send(c) \/ Leave(c) \/ Die(c) PROVE Quiet
  <2>0. c \in Procs /\ Shm(c) \in Receivers
    BY ThreadsApart
  <2>1. CASE Die(c) \/ Terminate(c)
    BY <1>3, <2>0, <2>1 DEF Die, Terminate
  <2>2. CASE EngineInit(c, "run")
    BY <1>4, <2>0, <2>2
  <2>3. CASE TakeSlot(Main(c)) \/ Lock(Main(c), "mutex", "locked")
    BY <1>2, <2>0, <2>3 DEF TakeSlot, Lock, Goto
  <2>4. CASE Write(Main(c), IF watched[Shm(c)] THEN "run" ELSE "close")
    BY <1>2, <2>0, <2>4 DEF Write, Goto
  <2>5. CASE CloseShm(c, "close", "join") \/ JoinShm(c, "join")
    BY <1>2, <2>0, <2>5 DEF CloseShm, JoinShm, Goto
  <2>6. CASE Send(c)
    BY <1>2, <2>0, <2>6 DEF Send, Goto
  <2>7. CASE Leave(c)
    <3>1. PICK place \in {"close", "empty"} : pc' = [pc EXCEPT ![Main(c)] = place]
      BY <2>7 DEF Leave, Goto
    <3> QED BY <1>2, <2>0, <2>7, <3>1 DEF Leave
  <2> QED BY <1>6, <2>1, <2>2, <2>3, <2>4, <2>5, <2>6, <2>7 DEF Component
<1>7. CASE GatewayMain
  <2>0. Gateway \in Procs /\ Shm(Gateway) \in Receivers /\ Raw \in Receivers
    BY ThreadsApart
  <2>1. CASE Abort \/ Forked \/ Open \/ JoinRaw
    BY <1>2, <2>0, <2>1 DEF Abort, Forked, Open, JoinRaw, Goto
  <2>2. ASSUME NEW c \in Components, Fork(c) PROVE Quiet
    BY <1>2, <2>0, <2>2, ThreadsApart DEF Fork, Goto
  <2>3. CASE EngineInit(Gateway, "open")
    BY <1>4, <2>0, <2>3
  <2>4. CASE Start
    <3>1. pc[Raw] = "none"
      BY <2>4 DEF Start, At, Joined, Opening
    <3>2. /\ pc' = [pc EXCEPT ![Main(Gateway)] = "run", ![Raw] = "own"]
          /\ watched' = [watched EXCEPT ![Raw] = TRUE] /\ late' = late
      BY <2>4 DEF Start
    <3>3. pc'[Raw] = "own" /\ \A t \in Receivers : t # Raw => pc'[t] = pc[t] /\ watched'[t] = watched[t]
      BY <3>2, ThreadsApart DEF Typed
    <3> QED BY <3>1, <3>2, <3>3 DEF Stays
  <2>5. CASE Stop \/ DetachRaw
    BY <1>2, <2>0, <2>5 DEF Stop, DetachRaw, Goto
  <2>6. CASE CloseRaw
    BY <1>2, <2>0, <2>6 DEF CloseRaw, Goto
  <2>7. CASE CloseShm(Gateway, "closeShm", "joinShm") \/ JoinShm(Gateway, "joinShm")
    BY <1>2, <2>0, <2>7 DEF CloseShm, JoinShm, Goto
  <2> QED BY <1>7, <2>1, <2>2, <2>3, <2>4, <2>5, <2>6, <2>7 DEF GatewayMain
<1> QED BY <1>1, <1>5, <1>6, <1>7 DEF Next

\* An observer that is attached, and one that is about to be called from the copy of the
\* list, has had no late update yet; a thread that was never started has had none.
Once ==
  \A t \in Receivers :
    /\ late[t] \in {0, 1}
    /\ pc[t] \in {"none", "update"} \/ watched[t] => late[t] = 0

LEMMA OnceInit == Init => Once
  BY DEF Init, Once

LEMMA OnceStep == Typed /\ Joined /\ Once /\ [Next]_vars => Once'
<1> SUFFICES ASSUME Typed, Joined, Once, [Next]_vars, NEW t \in Receivers
             PROVE  /\ late'[t] \in {0, 1}
                    /\ pc'[t] \in {"none", "update"} \/ watched'[t] => late'[t] = 0
  BY DEF Once
<1>0. late[t] \in {0, 1} /\ (pc[t] \in {"none", "update"} \/ watched[t] => late[t] = 0)
  BY DEF Once
<1>1. ASSUME NEW r \in Receivers, ReceiverMoves(r)
      PROVE  /\ late'[t] \in {0, 1}
             /\ pc'[t] \in {"none", "update"} \/ watched'[t] => late'[t] = 0
  <2>1. PICK place \in Receiving :
          /\ pc' = [pc EXCEPT ![r] = place]
          /\ \/ late' = late /\ (place = "update" => watched[r])
             \/ /\ pc[r] = "update" /\ place # "update"
                /\ late' = [late EXCEPT ![r] = IF watched[r] THEN @ ELSE @ + 1]
    BY <1>1 DEF ReceiverMoves
  <2>2. place # "none" /\ watched' = watched /\ pc'[r] = place /\ (t # r => pc'[t] = pc[t])
    BY <1>1, <2>1, ReceiverChanges DEF ReceiverMoves, Receiving
  <2>3. CASE late' = late /\ (place = "update" => watched[r])
    BY <1>0, <2>2, <2>3
  <2>4. CASE /\ pc[r] = "update" /\ place # "update"
             /\ late' = [late EXCEPT ![r] = IF watched[r] THEN @ ELSE @ + 1]
    <3>1. CASE t # r
      BY <1>0, <2>2, <2>4, <3>1 DEF Typed
    <3>2. CASE t = r /\ watched[r]
      <4>1. late'[t] = late[t]
        BY <2>4, <3>2 DEF Typed
      <4> QED BY <1>0, <2>2, <2>4, <3>2, <4>1
    <3>3. CASE t = r /\ ~watched[r]
      <4>1. late'[t] = late[t] + 1 /\ late[t] = 0
        BY <1>0, <2>4, <3>3 DEF Typed
      <4> QED BY <2>2, <2>4, <3>3, <4>1
    <3> QED BY <3>1, <3>2, <3>3
  <2> QED BY <2>1, <2>3, <2>4
<1>2. CASE late' = late /\ \A r \in Receivers : Stays(r)
  BY <1>0, <1>2 DEF Stays
<1>3. CASE UNCHANGED vars
  BY <1>0, <1>3 DEF vars
<1> QED BY <1>1, <1>2, <1>3, WhoMoves

\* However frames, detaches and threads interleave, a detached observer is called at
\* most once more by each receiving thread (Concurrent_Observed::notify, which calls
\* the observers of a copy after it has given up the lock).
THEOREM AtMostOneLateUpdate == Spec => []OneLateUpdate
<1>1. Once => OneLateUpdate
  BY DEF Once, OneLateUpdate
<1> QED BY <1>1, TypedInit, TypedStep, JoinedInit, JoinedStep, OnceInit, OnceStep, PTL DEF Spec

-----------------------------------------------------------------------------
(* The raw thread is woken. *)

\* No frame counts as arrived behind the blocked signal before the signal is blocked.
Awake ==
  /\ NoLostWakeup
  /\ pc[Raw] \in {"none", "own", "ignore", "block"} => ~masked

LEMMA AwakeInit == Init => Awake
  BY DEF Init, Awake, NoLostWakeup

LEMMA AwakeStep == Typed /\ Joined /\ Awake /\ [Next]_vars => Awake'
<1> SUFFICES ASSUME Typed, Joined, Awake, [Next]_vars PROVE Awake'
  OBVIOUS
<1> DEFINE g == Main(Gateway)
<1>0. Raw \in Threads /\ Gateway \in Procs /\ g \in Threads /\ g # Raw
  BY ThreadsApart
<1>1. ASSUME pc'[Raw] = pc[Raw] \/ pc'[Raw] = "dead", UNCHANGED socket PROVE Awake'
  BY <1>1 DEF Awake, NoLostWakeup, At, socket
<1>2. ASSUME NEW p \in Procs, NEW place, pc' = [pc EXCEPT ![Main(p)] = place],
             UNCHANGED socket
      PROVE  Awake'
  BY <1>1, <1>2, MainChanges, ThreadsApart
<1>3. ASSUME NEW p \in Procs, NEW next, EngineInit(p, next) PROVE Awake'
  <2>1. pc' = [pc EXCEPT ![Main(p)] = next, ![Shm(p)] = "wait"] /\ UNCHANGED socket
    BY <1>3 DEF EngineInit
  <2>2. pc'[Raw] = pc[Raw]
    BY <2>1, ThreadsApart DEF Typed
  <2> QED BY <1>1, <2>1, <2>2
<1>4. ASSUME NEW p \in Procs, Dies(p), UNCHANGED socket PROVE Awake'
  <2>1. pc'[Raw] = pc[Raw] \/ pc'[Raw] = "dead"
    BY <1>0, <1>4 DEF Dies
  <2> QED BY <1>1, <1>4, <2>1
<1>5. ASSUME NEW p \in Procs, Receive(p) PROVE Awake'
  <2>1. PICK place \in Receiving : pc' = [pc EXCEPT ![Shm(p)] = place]
    BY <1>5, ShmMoves DEF ReceiverMoves
  <2>2. pc'[Raw] = pc[Raw]
    BY <2>1, ReceiverChanges, ThreadsApart
  <2> QED BY <1>1, <1>5, <2>2, ShmMoves
<1>6. CASE RawReceive
  <2>1. CASE Prepare
    <3>1. PICK step \in {<<"own", "ignore">>, <<"ignore", "block">>, <<"block", "wait">>} :
            At(Raw, step[1]) /\ Goto(Raw, step[2])
      BY <2>1 DEF Prepare
    <3>2. step[1] \in {"own", "ignore", "block"}
      OBVIOUS
    <3>3. ~masked /\ UNCHANGED socket
      BY <2>1, <3>1, <3>2 DEF Prepare, At, Awake
    <3> QED BY <3>3 DEF socket, Awake, NoLostWakeup
  <2>2. CASE AwaitSignal
    <3>1. CASE pc'[Raw] = "wait"
      <4>1. ~sigio /\ pc[Raw] = "wait" /\ queued' = queued /\ masked' = masked
        BY <1>0, <2>2, <3>1 DEF AwaitSignal, At, Goto, Typed
      <4>2. ~(masked /\ queued > 0)
        BY <4>1 DEF Awake, NoLostWakeup, At
      <4> QED BY <3>1, <4>1, <4>2 DEF Awake, NoLostWakeup
    <3>2. CASE pc'[Raw] # "wait"
      <4>1. pc'[Raw] \in {"ended", "drain"}
        BY <1>0, <2>2, <3>2 DEF AwaitSignal, Goto, Typed
      <4> QED BY <4>1 DEF Awake, NoLostWakeup, At
    <3> QED BY <3>1, <3>2
  <2>3. CASE Drain
    <3>1. CASE running[Raw] /\ queued > 0
      <4>1. pc'[Raw] = "notify"
        BY <1>0, <2>3, <3>1 DEF Drain, Goto, Typed
      <4> QED BY <4>1 DEF Awake, NoLostWakeup, At
    <3>2. CASE ~(running[Raw] /\ queued > 0)
      <4>1. queued' = queued /\ pc' = [pc EXCEPT ![Raw] = IF running[Raw] THEN "wait" ELSE "ended"]
        BY <2>3, <3>2 DEF Drain, Goto
      <4>2. CASE running[Raw]
        <5>1. pc'[Raw] = "wait" /\ ~(queued' > 0)
          BY <1>0, <3>2, <4>1, <4>2 DEF Typed
        <5> QED BY <5>1 DEF Awake, NoLostWakeup
      <4>3. CASE ~running[Raw]
        <5>1. pc'[Raw] = "ended"
          BY <1>0, <4>1, <4>3 DEF Typed
        <5> QED BY <5>1 DEF Awake, NoLostWakeup, At
      <4> QED BY <4>2, <4>3
    <3> QED BY <3>1, <3>2
  <2>4. ASSUME NEW place \in {"update", "drain", "empty", "mutex", "locked"},
               pc' = [pc EXCEPT ![Raw] = place]
        PROVE  Awake'
    <3>1. pc'[Raw] = place
      BY <1>0, <2>4 DEF Typed
    <3> QED BY <3>1 DEF Awake, NoLostWakeup, At
  <2>5. CASE Notify(Raw, "drain")
    BY <2>4, <2>5 DEF Notify, Goto
  <2>6. ASSUME NEW next \in {"drain", "empty"}, Update(Raw, next) PROVE Awake'
    BY <2>4, <2>6 DEF Update, Goto
  <2>7. CASE TakeSlot(Raw)
    BY <2>4, <2>7 DEF TakeSlot, Goto
  <2>8. CASE Lock(Raw, "mutex", "locked") \/ Write(Raw, "drain")
    BY <2>4, <2>8 DEF Lock, Write, Goto
  <2> QED BY <1>6, <2>1, <2>2, <2>3, <2>5, <2>6, <2>7, <2>8 DEF RawReceive
<1>7. CASE Arrive
  <2>1. CASE At(Raw, "ignore")
    <3>1. pc'[Raw] = "dead"
      BY <1>0, <1>7, <2>1 DEF Arrive, Dies, Raw, Gateway
    <3> QED BY <3>1 DEF Awake, NoLostWakeup, At
  <2>2. CASE ~At(Raw, "ignore") /\ pc[Raw] \in {"none", "own", "block"}
    <3>1. pc' = pc
      BY <1>7, <2>2 DEF Arrive
    <3>2. masked' <=> masked \/ pc[Raw] \notin {"none", "own", "block"}
      BY <1>7, <2>2 DEF Arrive
    <3>3. ~masked
      BY <2>2 DEF Awake
    <3>4. ~masked'
      BY <2>2, <3>2, <3>3
    <3> QED BY <3>1, <3>4 DEF Awake, NoLostWakeup
  <2>3. CASE ~At(Raw, "ignore") /\ pc[Raw] \notin {"none", "own", "block"}
    <3>1. pc' = pc /\ sigio'
      BY <1>7, <2>3 DEF Arrive
    <3> QED BY <2>3, <3>1 DEF Awake, NoLostWakeup, At
  <2> QED BY <2>1, <2>2, <2>3
<1>8. ASSUME NEW c \in Components, Component(c) \/ Send(c) \/ Leave(c) \/ Die(c) PROVE Awake'
  <2>0. c \in Procs
    BY ThreadsApart
  <2>1. CASE Die(c) \/ Terminate(c)
    BY <1>4, <2>0, <2>1 DEF Die, Terminate
  <2>2. CASE EngineInit(c, "run")
    BY <1>3, <2>0, <2>2
  <2>3. CASE \/ TakeSlot(Main(c)) \/ Lock(Main(c), "mutex", "locked")
             \/ Write(Main(c), IF watched[Shm(c)] THEN "run" ELSE "close")
             \/ CloseShm(c, "close", "join") \/ Send(c) \/ Leave(c)
    BY <1>2, <2>0, <2>3, ComponentMoves DEF MainMoves
  <2>4. CASE JoinShm(c, "join")
    BY <1>2, <2>0, <2>4 DEF JoinShm, Goto
  <2> QED BY <1>8, <2>1, <2>2, <2>3, <2>4 DEF Component
<1>9. CASE GatewayMain
  <2>1. CASE Abort \/ Forked \/ Open \/ JoinRaw \/ Stop \/ DetachRaw
    BY <1>0, <1>2, <2>1 DEF Abort, Forked, Open, JoinRaw, Stop, DetachRaw, Goto
  <2>2. ASSUME NEW c \in Components, Fork(c) PROVE Awake'
    BY <1>0, <1>2, <2>2, ThreadsApart DEF Fork, Goto
  <2>3. CASE EngineInit(Gateway, "open")
    BY <1>0, <1>3, <2>3
  <2>4. CASE Start
    <3>1. pc[Raw] = "none" /\ UNCHANGED socket
      BY <2>4 DEF Start, At, Joined, Opening
    <3> QED BY <3>1 DEF socket, Awake, NoLostWakeup
  <2>5. CASE CloseRaw
    <3>1. queued' = 0 /\ masked' = masked /\ pc'[Raw] = pc[Raw]
      BY <1>0, <2>5 DEF CloseRaw, Goto, Typed
    <3> QED BY <3>1 DEF Awake, NoLostWakeup
  <2>6. CASE CloseShm(Gateway, "closeShm", "joinShm") \/ JoinShm(Gateway, "joinShm")
    BY <1>0, <1>2, <2>6 DEF CloseShm, JoinShm, Goto
  <2> QED BY <1>9, <2>1, <2>2, <2>3, <2>4, <2>5, <2>6 DEF GatewayMain
<1>10. CASE UNCHANGED vars
  BY <1>1, <1>10 DEF vars, socket
<1> QED BY <1>5, <1>6, <1>7, <1>8, <1>9, <1>10 DEF Next

\* However frames, signals and the drain loop interleave, the raw thread never sleeps
\* without a signal on a frame that arrived since SIGIO was blocked
\* (the thread of RawSocketEngine::start_receiving).
THEOREM RawThreadIsWoken == Spec => []NoLostWakeup
<1>1. Awake => NoLostWakeup
  BY DEF Awake
<1> QED BY <1>1, TypedInit, TypedStep, JoinedInit, JoinedStep, AwakeInit, AwakeStep, PTL DEF Spec
=============================================================================
