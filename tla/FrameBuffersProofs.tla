-------------------------- MODULE FrameBuffersProofs --------------------------
(***************************************************************************)
(* That the buffers of a process keep one owner from the NICs up to the    *)
(* application, for any pools, threads and frames.                         *)
(***************************************************************************)
EXTENDS FrameBuffers, FiniteSetTheorems, SequenceTheorems, TLAPS

Stages == {"wait", "filter", "update", "notify", "release", "communicator", "message"}
RxType == [at : Stages, frame : Frames \cup {None}, buf : Buffers \cup {None}]
SendType == [buf : Buffers, at : {"quadrant", "engine"}]

-----------------------------------------------------------------------------
(* The sends in progress of one thread. *)

LEMMA FirstSend ==
  ASSUME NEW b \in Buffers
  PROVE  <<Send(b)>> \in Seq(SendType) /\ Len(<<Send(b)>>) = 1 /\ <<Send(b)>>[1].buf = b
<1>1. Send(b) \in SendType /\ Send(b).buf = b
  BY DEF Send, SendType
<1> QED BY <1>1

LEMMA StampedSend ==
  ASSUME NEW s \in Seq(SendType), s # << >>, NEW r, r = [s EXCEPT ![Len(s)].at = "engine"]
  PROVE  r \in Seq(SendType) /\ Len(r) = Len(s) /\ \A i \in 1 .. Len(s) : r[i].buf = s[i].buf
<1>1. Len(s) \in 1 .. Len(s) /\ s[Len(s)] \in SendType
  OBVIOUS
<1>2. [s[Len(s)] EXCEPT !.at = "engine"] \in SendType
      /\ [s[Len(s)] EXCEPT !.at = "engine"].buf = s[Len(s)].buf
  BY <1>1 DEF SendType
<1> DEFINE e == [s[Len(s)] EXCEPT !.at = "engine"]
<1>3. r = [s EXCEPT ![Len(s)] = e]
  OBVIOUS
<1> HIDE DEF e
<1> QED BY <1>1, <1>2, <1>3 DEF e

LEMMA NextSend ==
  ASSUME NEW s \in Seq(SendType), NEW b \in Buffers
  PROVE  /\ Append(s, Send(b)) \in Seq(SendType) /\ Len(Append(s, Send(b))) = Len(s) + 1
         /\ Append(s, Send(b))[Len(s) + 1].buf = b
         /\ \A i \in 1 .. Len(s) : Append(s, Send(b))[i].buf = s[i].buf
<1>1. Send(b) \in SendType /\ Send(b).buf = b
  BY DEF Send, SendType
<1> QED BY <1>1

LEMMA LastSend ==
  ASSUME NEW s \in Seq(SendType), s # << >>
  PROVE  /\ Front(s) \in Seq(SendType) /\ Len(Front(s)) = Len(s) - 1
         /\ \A i \in 1 .. Len(s) - 1 : Front(s)[i] = s[i]
         /\ Last(s) = s[Len(s)] /\ Last(s).buf \in Buffers
<1>1. Len(s) \in Nat \ {0} /\ s[Len(s)] \in SendType
  OBVIOUS
<1>2. Front(s) = SubSeq(s, 1, Len(s) - 1) /\ Last(s) = s[Len(s)]
  BY DEF Front, Last
<1>3. PICK n \in Nat : n = Len(s) - 1
  BY <1>1
<1>4. /\ SubSeq(s, 1, n) \in Seq(SendType)
      /\ Len(SubSeq(s, 1, n)) = IF 1 <= n THEN n - 1 + 1 ELSE 0
      /\ \A i \in 1 .. n - 1 + 1 : SubSeq(s, 1, n)[i] = s[1 + i - 1]
  BY <1>1, <1>3, SubSeqProperties
<1>5. /\ (IF 1 <= n THEN n - 1 + 1 ELSE 0) = n
      /\ \A i \in 1 .. n : i \in 1 .. n - 1 + 1 /\ 1 + i - 1 = i
  OBVIOUS
<1> QED BY <1>1, <1>2, <1>3, <1>4, <1>5 DEF SendType

-----------------------------------------------------------------------------
(* Types. *)

\* A receiving thread has a buffer except while it waits and while a Message holds what
\* it received, and sends only while it forwards a frame or replies to a request.
RxShaped ==
  /\ rx \in [Receivers -> RxType]
  /\ \A n \in Receivers : /\ rx[n].buf = None <=> rx[n].at \in {"wait", "message"}
                          /\ rx[n].at = "wait" \/ rx[n].frame \in Frames
                          /\ out[n] # << >> => rx[n].at \in {"notify", "release"}

OutShaped == out \in [Threads -> Seq(SendType)] /\ \A t \in Threads : Len(out[t]) \in 0 .. 2

Shaped ==
  /\ RxShaped /\ OutShaped
  /\ free \in [Buffers -> Nat] /\ queue \in Seq(Buffers)
  /\ ring \in Seq(Frames) /\ air \subseteq Frames /\ local \subseteq Frames

LEMMA TopIsFree ==
  ASSUME NEW nic, FreeOf(nic) # {}
  PROVE  Top(nic) \in PoolOf(nic) /\ Top(nic) \in Buffers /\ free[Top(nic)] > 0
<1>1. Top(nic) \in FreeOf(nic)
  BY DEF Top
<1> QED BY <1>1 DEF FreeOf, PoolOf, Buffers

LEMMA FreeKeepsType ==
  ASSUME free \in [Buffers -> Nat], NEW b \in Buffers
  PROVE  Freed(b) \in [Buffers -> Nat] /\ (free[b] > 0 => Taken(b) \in [Buffers -> Nat])
<1>1. free[b] \in Nat /\ free[b] + 1 \in Nat /\ (free[b] > 0 => free[b] - 1 \in Nat)
  OBVIOUS
<1> QED BY <1>1 DEF Freed, Taken

LEMMA ReceiversAreThreads ==
  /\ "shm" \in Receivers /\ "raw" \in Receivers /\ Receivers \subseteq Threads
  /\ Senders \subseteq Threads /\ \A n \in Receivers : Other(n) \in Receivers
  BY DEF Receivers, Threads, Other

\* A step of receiving thread n that begins no send, or one in place of none.
LEMMA RxKeepsType ==
  ASSUME RxShaped, OutShaped, NEW n \in Receivers, NEW r \in RxType,
         rx' = [rx EXCEPT ![n] = r],
         r.buf = None <=> r.at \in {"wait", "message"},
         r.at = "wait" \/ r.frame \in Frames,
         \/ out' = out /\ (out[n] # << >> => r.at \in {"notify", "release"})
         \/ /\ r.at \in {"notify", "release"}
            /\ \E b \in Buffers : out' = [out EXCEPT ![n] = <<Send(b)>>]
  PROVE  RxShaped' /\ OutShaped'
<1>0. n \in Threads
  BY ReceiversAreThreads
<1>1. OutShaped' /\ \A m \in Receivers : m # n => out'[m] = out[m]
  <2>1. CASE out' = out
    BY <2>1 DEF OutShaped
  <2>2. ASSUME NEW b \in Buffers, out' = [out EXCEPT ![n] = <<Send(b)>>]
        PROVE  OutShaped' /\ \A m \in Receivers : m # n => out'[m] = out[m]
    <3> DEFINE s == <<Send(b)>>
    <3>1. s \in Seq(SendType) /\ Len(s) = 1 /\ out' = [out EXCEPT ![n] = s]
      BY <2>2, FirstSend
    <3> HIDE DEF s
    <3> QED BY <1>0, <3>1, ReceiversAreThreads DEF OutShaped
  <2> QED BY <2>1, <2>2
<1>2. /\ rx' \in [Receivers -> RxType] /\ rx'[n] = r
      /\ \A m \in Receivers : m # n => rx'[m] = rx[m]
  BY DEF RxShaped
<1>3. r.at \in {"notify", "release"} \/ out'[n] = << >>
  BY <1>0 DEF RxShaped
<1> QED BY <1>1, <1>2, <1>3 DEF RxShaped

LEMMA ShapedInit == Init => Shaped
<1> SUFFICES ASSUME Init PROVE Shaped
  OBVIOUS
<1>1. Waiting \in RxType /\ Waiting.at = "wait" /\ Waiting.buf = None
  BY DEF Waiting, RxType, Stages
<1>2. rx \in [Receivers -> RxType] /\ \A n \in Receivers : rx[n] = Waiting
  BY <1>1 DEF Init
<1>3. out \in [Threads -> Seq(SendType)] /\ \A t \in Threads : out[t] = << >>
  BY DEF Init
<1>4. RxShaped /\ OutShaped
  BY <1>1, <1>2, <1>3, ReceiversAreThreads DEF RxShaped, OutShaped
<1>5. /\ free \in [Buffers -> Nat] /\ queue \in Seq(Buffers) /\ ring \in Seq(Frames)
      /\ air \subseteq Frames /\ local \subseteq Frames
  BY DEF Init, Frames
<1> QED BY <1>4, <1>5 DEF Shaped

\* Receiving thread n goes to another place with the same frame and buffer.
GoesTo(n, place) == [at |-> place, frame |-> rx[n].frame, buf |-> rx[n].buf]

LEMMA Going ==
  ASSUME RxShaped, NEW n \in Receivers, NEW place \in Stages
  PROVE  /\ [rx EXCEPT ![n].at = place] = [rx EXCEPT ![n] = GoesTo(n, place)]
         /\ GoesTo(n, place) \in RxType
         /\ Waiting \in RxType /\ Waiting.at = "wait" /\ Waiting.buf = None
<1>1. rx[n] \in RxType
  BY DEF RxShaped
<1>2. [rx[n] EXCEPT !.at = place] = GoesTo(n, place) /\ GoesTo(n, place) \in RxType
  BY <1>1 DEF GoesTo, RxType
<1>3. [rx EXCEPT ![n].at = place] = [rx EXCEPT ![n] = GoesTo(n, place)]
  BY <1>2 DEF RxShaped
<1> QED BY <1>2, <1>3 DEF Waiting, RxType, Stages

LEMMA ArriveShaped ==
  ASSUME Shaped, ArriveFromRing \/ ArriveFromAir PROVE Shaped'
<1>1. ASSUME NEW n \in Receivers, NEW f \in Frames, rx[n] = Waiting, Arrived(n, f), out' = out
      PROVE  RxShaped' /\ OutShaped' /\ free' \in [Buffers -> Nat]
  <2>1. CASE FreeOf(n) = {}
    BY <1>1, <2>1 DEF Arrived, Shaped, RxShaped, OutShaped
  <2>2. CASE FreeOf(n) # {}
    <3> DEFINE b == Top(n)
               r == [at |-> "filter", frame |-> f, buf |-> b]
    <3>1. b \in Buffers /\ free[b] > 0 /\ b # None
      BY <2>2, TopIsFree, PoolsAssumption
    <3>2. /\ r \in RxType /\ r.buf # None /\ r.at = "filter" /\ r.frame \in Frames
          /\ rx' = [rx EXCEPT ![n] = r]
      BY <1>1, <2>2, <3>1 DEF RxType, Stages, Arrived
    <3>3. out[n] = << >>
      <4>1. rx[n].at = "wait"
        BY <1>1 DEF Waiting
      <4> QED BY <4>1 DEF Shaped, RxShaped
    <3>4. free' \in [Buffers -> Nat]
      BY <1>1, <2>2, <3>1, FreeKeepsType DEF Arrived, Shaped
    <3> HIDE DEF r
    <3> QED BY <1>1, <3>2, <3>3, <3>4, RxKeepsType DEF Shaped
  <2> QED BY <2>1, <2>2
<1>2. CASE ArriveFromRing
  <2>1. Head(ring) \in Frames /\ Tail(ring) \in Seq(Frames)
    BY <1>2 DEF ArriveFromRing, Shaped
  <2>2. RxShaped' /\ OutShaped' /\ free' \in [Buffers -> Nat]
    BY <1>1, <1>2, <2>1, ReceiversAreThreads DEF ArriveFromRing
  <2> QED BY <1>2, <2>1, <2>2 DEF ArriveFromRing, Shaped
<1>3. CASE ArriveFromAir
  <2>1. PICK f \in air : Arrived("raw", f) /\ air' = air \ {f}
    BY <1>3 DEF ArriveFromAir
  <2>2. RxShaped' /\ OutShaped' /\ free' \in [Buffers -> Nat]
    BY <1>1, <1>3, <2>1, ReceiversAreThreads DEF ArriveFromAir, Shaped
  <2> QED BY <1>3, <2>1, <2>2 DEF ArriveFromAir, Shaped
<1> QED BY <1>2, <1>3

LEMMA ReceivingShaped ==
  ASSUME Shaped, NEW n \in Receivers, Receiving(n) PROVE Shaped'
<1> DEFINE r == rx[n]
<1>0. /\ RxShaped /\ OutShaped /\ r \in RxType /\ (r.buf = None <=> r.at \in {"wait", "message"})
      /\ r.at \notin {"wait", "message"} => r.buf \in Buffers
      /\ r.at = "wait" \/ r.frame \in Frames
      /\ out[n] # << >> => r.at \in {"notify", "release"}
  BY DEF Shaped, RxShaped, RxType
<1>1. ASSUME NEW place \in Stages \ {"wait", "message"}, r.at \notin {"wait", "message"},
             rx' = [rx EXCEPT ![n].at = place],
             \/ out' = out /\ (out[n] # << >> => place \in {"notify", "release"})
             \/ /\ place \in {"notify", "release"}
                /\ \E b \in Buffers : out' = [out EXCEPT ![n] = <<Send(b)>>]
      PROVE  RxShaped' /\ OutShaped'
  <2>1. /\ rx' = [rx EXCEPT ![n] = GoesTo(n, place)] /\ GoesTo(n, place) \in RxType
        /\ GoesTo(n, place).at = place /\ GoesTo(n, place).buf = r.buf
        /\ GoesTo(n, place).frame = r.frame
    BY <1>0, <1>1, Going DEF GoesTo
  <2>2. PICK e : e = GoesTo(n, place)
    OBVIOUS
  <2>3. /\ e \in RxType /\ rx' = [rx EXCEPT ![n] = e]
        /\ e.at = place /\ e.buf = r.buf /\ e.frame = r.frame
    BY ONLY <2>1, <2>2
  <2>4. /\ e.buf = None <=> e.at \in {"wait", "message"}
        /\ e.at = "wait" \/ e.frame \in Frames
    BY ONLY <1>0, <1>1, <2>3
  <2>5. \/ out' = out /\ (out[n] # << >> => e.at \in {"notify", "release"})
        \/ /\ e.at \in {"notify", "release"}
           /\ \E b \in Buffers : out' = [out EXCEPT ![n] = <<Send(b)>>]
    BY ONLY <1>1, <2>3
  <2> QED BY ONLY <1>0, <2>3, <2>4, <2>5, RxKeepsType, n \in Receivers
<1>2. ASSUME rx' = [rx EXCEPT ![n] = Waiting], out' = out, out[n] = << >>
      PROVE  RxShaped' /\ OutShaped'
  <2>1. Waiting \in RxType /\ Waiting.at = "wait" /\ Waiting.buf = None
    BY DEF Waiting, RxType, Stages
  <2> QED BY <1>0, <1>2, <2>1, RxKeepsType
<1>3. CASE Filter(n)
  <2>1. CASE rx[n].frame \in JunkFrames
    BY <1>0, <1>2, <1>3, <2>1, FreeKeepsType DEF Filter, GivesBack, Shaped, role, media
  <2>2. CASE rx[n].frame \notin JunkFrames
    BY <1>0, <1>1, <1>3, <2>2 DEF Filter, Shaped, role, media, Stages
  <2> QED BY <2>1, <2>2
<1>4. CASE ConsumeSptp(n)
  <2>0. r.at = "update" /\ rx' = [rx EXCEPT ![n].at = "release"] /\ out[n] = << >>
    BY <1>0, <1>4 DEF ConsumeSptp
  <2>1. CASE UNCHANGED <<free, out>>
    BY <1>1, <1>4, <2>0, <2>1 DEF ConsumeSptp, Shaped, role, media, Stages
  <2>2. CASE /\ FreeOf("raw") # {} /\ free' = Taken(Top("raw"))
             /\ out' = [out EXCEPT ![n] = <<Send(Top("raw"))>>]
    <3>1. Top("raw") \in Buffers /\ free' \in [Buffers -> Nat]
      BY <2>2, TopIsFree, FreeKeepsType DEF Shaped
    <3> QED BY <1>1, <1>4, <2>0, <2>2, <3>1 DEF ConsumeSptp, Shaped, role, media, Stages
  <2> QED BY <1>4, <2>1, <2>2 DEF ConsumeSptp
<1>5. CASE Forward(n)
  <2>0. r.at = "update" /\ rx' = [rx EXCEPT ![n].at = "notify"] /\ out[n] = << >>
    BY <1>0, <1>5 DEF Forward
  <2>1. CASE UNCHANGED <<free, out>>
    BY <1>1, <1>5, <2>0, <2>1 DEF Forward, Shaped, role, media, Stages
  <2>2. CASE /\ FreeOf(Other(n)) # {} /\ free' = Taken(Top(Other(n)))
             /\ out' = [out EXCEPT ![n] = <<Send(Top(Other(n)))>>]
    <3>1. Top(Other(n)) \in Buffers /\ free' \in [Buffers -> Nat]
      BY <2>2, TopIsFree, FreeKeepsType DEF Shaped
    <3> QED BY <1>1, <1>5, <2>0, <2>2, <3>1 DEF Forward, Shaped, role, media, Stages
  <2> QED BY <1>5, <2>1, <2>2 DEF Forward
<1>6. CASE KeepHere(n)
  BY <1>0, <1>1, <1>6 DEF KeepHere, Shaped, role, media, Stages
<1>7. CASE Release(n)
  <2>1. free' = free \/ (free' = Freed(r.buf) /\ r.buf \in Buffers)
    BY <1>0, <1>7 DEF Release, GivesBack
  <2>2. free' \in [Buffers -> Nat]
    BY <2>1, FreeKeepsType DEF Shaped
  <2>3. rx' = [rx EXCEPT ![n] = Waiting] /\ out' = out /\ out[n] = << >>
    BY <1>7 DEF Release, GivesBack
  <2> QED BY <1>2, <1>7, <2>2, <2>3 DEF Release, Shaped, role, media
<1>8. CASE Notify(n)
  <2>1. PICK place \in {"communicator", "release"} : rx' = [rx EXCEPT ![n].at = place]
    BY <1>8 DEF Notify
  <2> QED BY <1>0, <1>1, <1>8, <2>1 DEF Notify, Shaped, role, media, Stages
<1>9. CASE Unmarshal(n)
  <2> DEFINE m == [at |-> "message", frame |-> r.frame, buf |-> None]
  <2>1. /\ m \in RxType /\ m.at = "message" /\ m.buf = None /\ m.frame \in Frames
        /\ rx' = [rx EXCEPT ![n] = m]
    BY <1>0, <1>9 DEF Unmarshal, RxType, Stages, RxShaped
  <2>2. out[n] = << >> /\ out' = out /\ r.buf \in Buffers
    BY <1>0, <1>9 DEF Unmarshal
  <2> HIDE DEF m
  <2>3. RxShaped' /\ OutShaped'
    BY <1>0, <2>1, <2>2, RxKeepsType
  <2>4. free' \in [Buffers -> Nat]
    BY <1>9, <2>2, FreeKeepsType DEF Unmarshal, Shaped
  <2> QED BY <1>9, <2>3, <2>4 DEF Unmarshal, Shaped, role, media
<1>10. CASE QueueBuffer(n)
  <2>1. r.buf \in Buffers /\ out[n] = << >>
    BY <1>0, <1>10 DEF QueueBuffer
  <2>2. Append(queue, r.buf) \in Seq(Buffers)
    BY <2>1 DEF Shaped
  <2> QED BY <1>2, <1>10, <2>1, <2>2 DEF QueueBuffer, Shaped, role, media
<1>11. CASE Observe(n)
  BY <1>0, <1>2, <1>11 DEF Observe, Shaped, role, media
<1> QED BY <1>3, <1>4, <1>5, <1>6, <1>7, <1>8, <1>9, <1>10, <1>11 DEF Receiving

\* What the steps of a send do to the sends of its thread.
LEMMA Begins ==
  ASSUME Shaped, NEW t \in Threads, StartSend(t)
  PROVE  \E b \in Buffers :
           /\ free[b] > 0 /\ free' = Taken(b)
           /\ t \in Senders /\ t \notin Receivers /\ out[t] = << >>
           /\ out' = [out EXCEPT ![t] = <<Send(b)>>]
<1>1. PICK nic : FreeOf(nic) # {} /\ free' = Taken(Top(nic))
                 /\ out' = [out EXCEPT ![t] = <<Send(Top(nic))>>]
  BY DEF StartSend
<1> QED BY <1>1, TopIsFree, ThreadsAssumption DEF StartSend

LEMMA Continues ==
  ASSUME Shaped, NEW t \in Threads, NoChange(t)
  PROVE  \E r \in Seq(SendType) :
           /\ out' = [out EXCEPT ![t] = r] /\ out[t] # << >>
           /\ Len(r) = Len(out[t]) /\ \A i \in 1 .. Len(r) : r[i].buf = out[t][i].buf
<1>1. out[t] \in Seq(SendType) /\ out[t] # << >>
  BY DEF Shaped, OutShaped, NoChange, InSend
<1>2. PICK r : r = [out[t] EXCEPT ![Len(out[t])].at = "engine"]
  OBVIOUS
<1>3. out' = [out EXCEPT ![t] = r]
  BY <1>2 DEF NoChange, Stamped
<1>4. /\ r \in Seq(SendType) /\ Len(r) = Len(out[t])
      /\ \A i \in 1 .. Len(out[t]) : r[i].buf = out[t][i].buf
  BY <1>1, <1>2, StampedSend
<1> QED BY <1>1, <1>3, <1>4

LEMMA Nests ==
  ASSUME Shaped, NEW t \in Threads, NestedSend(t)
  PROVE  \E b \in Buffers, r \in Seq(SendType) :
           /\ free[b] > 0 /\ free' = Taken(b)
           /\ out' = [out EXCEPT ![t] = r] /\ out[t] # << >>
           /\ Len(out[t]) = 1 /\ Len(r) = 2 /\ r[1].buf = out[t][1].buf /\ r[2].buf = b
<1>1. out[t] \in Seq(SendType) /\ out[t] # << >> /\ Len(out[t]) = 1
  BY DEF Shaped, OutShaped, NestedSend, InSend
<1>2. PICK s : s = [out[t] EXCEPT ![Len(out[t])].at = "engine"]
  OBVIOUS
<1>3. s \in Seq(SendType) /\ Len(s) = 1 /\ s[1].buf = out[t][1].buf
  BY <1>1, <1>2, StampedSend
<1>4. PICK b \in Buffers : b = Top("raw") /\ free[b] > 0 /\ free' = Taken(b)
  BY TopIsFree DEF NestedSend
<1>5. out' = [out EXCEPT ![t] = Append(s, Send(b))]
  <2>1. Stamped(t) = [out EXCEPT ![t] = s]
    BY <1>2 DEF Stamped
  <2>2. out' = [Stamped(t) EXCEPT ![t] = Append(@, Send(b))]
    BY <1>4 DEF NestedSend
  <2> QED BY <2>1, <2>2 DEF Shaped, OutShaped
<1>6. /\ Append(s, Send(b)) \in Seq(SendType) /\ Len(Append(s, Send(b))) = 2
      /\ Append(s, Send(b))[2].buf = b /\ Append(s, Send(b))[1].buf = s[1].buf
  <2> DEFINE a == Append(s, Send(b))
  <2>1. /\ a \in Seq(SendType) /\ Len(a) = Len(s) + 1 /\ a[Len(s) + 1].buf = b
        /\ \A i \in 1 .. Len(s) : a[i].buf = s[i].buf
    BY <1>3, NextSend
  <2> HIDE DEF a
  <2>2. 1 \in 1 .. Len(s) /\ Len(s) + 1 = 2
    BY <1>3
  <2>3. a \in Seq(SendType) /\ Len(a) = 2 /\ a[2].buf = b /\ a[1].buf = s[1].buf
    BY <2>1, <2>2
  <2> QED BY <2>3 DEF a
<1> QED BY <1>1, <1>3, <1>4, <1>5, <1>6

LEMMA Finishes ==
  ASSUME Shaped, NEW t \in Threads, FinishSend(t)
  PROVE  \E b \in Buffers, r \in Seq(SendType) :
           /\ free' = Freed(b)
           /\ out' = [out EXCEPT ![t] = r] /\ out[t] # << >>
           /\ Len(r) = Len(out[t]) - 1 /\ out[t][Len(out[t])].buf = b
           /\ \A i \in 1 .. Len(r) : r[i].buf = out[t][i].buf
<1>1. out[t] \in Seq(SendType) /\ out[t] # << >> /\ out' = [out EXCEPT ![t] = Front(out[t])]
      /\ free' = Freed(Last(out[t]).buf)
  BY DEF Shaped, OutShaped, FinishSend, InSend
<1>2. /\ Front(out[t]) \in Seq(SendType) /\ Len(Front(out[t])) = Len(out[t]) - 1
      /\ \A i \in 1 .. Len(out[t]) - 1 : Front(out[t])[i] = out[t][i]
      /\ Last(out[t]) = out[t][Len(out[t])] /\ Last(out[t]).buf \in Buffers
  BY ONLY <1>1, LastSend
<1>3. PICK r : r = Front(out[t])
  OBVIOUS
<1>4. PICK b : b = Last(out[t]).buf
  OBVIOUS
<1>5. r \in Seq(SendType) /\ Len(r) = Len(out[t]) - 1 /\ \A i \in 1 .. Len(r) : r[i] = out[t][i]
  BY ONLY <1>2, <1>3
<1>6. b \in Buffers /\ out[t][Len(out[t])].buf = b
  BY ONLY <1>2, <1>4
<1>7. /\ free' = Freed(b) /\ out' = [out EXCEPT ![t] = r] /\ out[t] # << >>
      /\ Len(r) = Len(out[t]) - 1 /\ out[t][Len(out[t])].buf = b
      /\ \A i \in 1 .. Len(r) : r[i].buf = out[t][i].buf
  BY ONLY <1>1, <1>3, <1>4, <1>5, <1>6
<1> QED BY <1>5, <1>6, <1>7, Zenon

LEMMA SendShaped ==
  ASSUME Shaped, NEW t \in Threads,
         StartSend(t) \/ NoChange(t) \/ NestedSend(t) \/ FinishSend(t)
  PROVE  Shaped'
<1>1. ASSUME NEW r \in Seq(SendType), Len(r) \in 0 .. 2, out' = [out EXCEPT ![t] = r], rx' = rx,
             t \notin Receivers \/ out[t] # << >>
      PROVE  RxShaped' /\ OutShaped'
  <2>1. OutShaped' /\ out'[t] = r /\ \A u \in Threads : u # t => out'[u] = out[u]
    BY <1>1 DEF Shaped, OutShaped
  <2> QED BY <1>1, <2>1, ReceiversAreThreads DEF Shaped, RxShaped
<1>2. Len(out[t]) \in 0 .. 2 /\ out[t] \in Seq(SendType)
  BY DEF Shaped, OutShaped
<1>3. CASE StartSend(t)
  <2>1. PICK b \in Buffers :
           /\ free[b] > 0 /\ free' = Taken(b) /\ t \notin Receivers
           /\ out' = [out EXCEPT ![t] = <<Send(b)>>]
    BY <1>3, Begins
  <2>2. <<Send(b)>> \in Seq(SendType) /\ Len(<<Send(b)>>) \in 0 .. 2
    BY FirstSend
  <2>3. rx' = rx
    BY <1>3 DEF StartSend
  <2>4. RxShaped' /\ OutShaped'
    BY <1>1, <2>1, <2>2, <2>3
  <2> QED BY <1>3, <2>1, <2>4, FreeKeepsType DEF StartSend, Shaped, media
<1>4. CASE NoChange(t)
  <2>1. RxShaped' /\ OutShaped'
    BY <1>1, <1>2, <1>4, Continues DEF NoChange
  <2> QED BY <1>4, <2>1 DEF NoChange, Shaped, media
<1>5. CASE NestedSend(t)
  <2>1. PICK b \in Buffers, r \in Seq(SendType) :
           /\ free[b] > 0 /\ free' = Taken(b)
           /\ out' = [out EXCEPT ![t] = r] /\ out[t] # << >> /\ Len(r) = 2
    BY <1>5, Nests
  <2>2. RxShaped' /\ OutShaped'
    <3>1. Len(r) \in 0 .. 2 /\ rx' = rx
      BY <1>5, <2>1 DEF NestedSend
    <3> QED BY <1>1, <2>1, <3>1
  <2> QED BY <1>5, <2>1, <2>2, FreeKeepsType DEF NestedSend, Shaped, media
<1>6. CASE FinishSend(t)
  <2>1. PICK b \in Buffers, r \in Seq(SendType) :
           /\ free' = Freed(b)
           /\ out' = [out EXCEPT ![t] = r] /\ out[t] # << >> /\ Len(r) = Len(out[t]) - 1
    BY <1>6, Finishes
  <2>2. Len(r) \in 0 .. 2
    BY <1>2, <2>1
  <2>3. RxShaped' /\ OutShaped'
    BY <1>1, <1>6, <2>1, <2>2 DEF FinishSend
  <2>4. ring' \in Seq(Frames)
    <3>1. CASE ring' = ring
      BY <3>1 DEF Shaped
    <3>2. CASE t \in Receivers /\ rx[t].at = "notify" /\ ring' = Append(ring, rx[t].frame)
      BY <3>2 DEF Shaped, RxShaped
    <3> QED BY <1>6, <3>1, <3>2 DEF FinishSend
  <2> QED BY <1>6, <2>1, <2>3, <2>4, FreeKeepsType DEF FinishSend, Shaped
<1> QED BY <1>3, <1>4, <1>5, <1>6

LEMMA ShapedStep == Shaped /\ [Next]_vars => Shaped'
<1> SUFFICES ASSUME Shaped, [Next]_vars PROVE Shaped'
  OBVIOUS
<1>1. CASE Receive
  <2>1. Head(queue) \in Buffers /\ Tail(queue) \in Seq(Buffers)
    BY <1>1 DEF Receive, Shaped
  <2> QED BY <1>1, <2>1, FreeKeepsType DEF Receive, Shaped, RxShaped, OutShaped, role, media
<1>2. CASE ReceiveResponse
  BY <1>2 DEF ReceiveResponse, Shaped, RxShaped, OutShaped, role, media
<1>3. CASE SetInstance \/ AttachCommunicator \/ AttachObserver
  BY <1>3 DEF SetInstance, AttachCommunicator, AttachObserver, Shaped, RxShaped, OutShaped, media
<1>4. CASE Broadcast
  BY <1>4 DEF Broadcast, Shaped, RxShaped, OutShaped, role
<1>5. CASE UNCHANGED vars
  BY <1>5 DEF vars, Shaped, RxShaped, OutShaped
<1> QED BY <1>1, <1>2, <1>3, <1>4, <1>5, ArriveShaped, ReceivingShaped, SendShaped DEF Next

-----------------------------------------------------------------------------
(* Owners. *)

\* Who has buffer b: receiving threads, sends, and places in the queue.
Rx(b) == {n \in Receivers : rx[n].buf = b}
Out(b) == {u \in Threads \X {1, 2} : u[2] <= Len(out[u[1]]) /\ out[u[1]][u[2]].buf = b}
Queued(b) == {i \in DOMAIN queue : queue[i] = b}
AtMostOne(S) == \A x, y \in S : x = y

\* It is free, or it has one owner, or it is lost.
Sole(b) ==
  /\ free[b] \in {0, 1}
  /\ AtMostOne(Rx(b)) /\ AtMostOne(Out(b)) /\ AtMostOne(Queued(b))
  /\ Rx(b) = {} \/ Out(b) = {}
  /\ Rx(b) = {} \/ Queued(b) = {}
  /\ Out(b) = {} \/ Queued(b) = {}
  /\ free[b] = 1 => Rx(b) = {} /\ Out(b) = {} /\ Queued(b) = {}
Astray(b) == free[b] = 0 /\ Rx(b) = {} /\ Out(b) = {} /\ Queued(b) = {}

\* What a step may do with a buffer.
Stays(b) ==
  /\ free'[b] = free[b] /\ Rx(b)' = Rx(b) /\ Out(b)' = Out(b)
  /\ Queued(b)' = {} <=> Queued(b) = {}
  /\ AtMostOne(Queued(b)) => AtMostOne(Queued(b)')
IsTaken(b) ==
  /\ free[b] > 0 /\ free'[b] = free[b] - 1 /\ Queued(b)' = Queued(b)
  /\ \/ Out(b)' = Out(b) /\ \E n : Rx(b)' = Rx(b) \cup {n}
     \/ Rx(b)' = Rx(b) /\ \E u : Out(b)' = Out(b) \cup {u}
IsGivenBack(b) ==
  /\ free'[b] = free[b] + 1
  /\ \/ Out(b)' = Out(b) /\ Queued(b)' = Queued(b) /\ \E n \in Rx(b) : Rx(b)' = Rx(b) \ {n}
     \/ Rx(b)' = Rx(b) /\ Queued(b)' = Queued(b) /\ \E u \in Out(b) : Out(b)' = Out(b) \ {u}
     \/ Rx(b)' = Rx(b) /\ Out(b)' = Out(b) /\ Queued(b) # {}
        /\ (AtMostOne(Queued(b)) => Queued(b)' = {})
IsQueued(b) ==
  /\ free'[b] = free[b] /\ Out(b)' = Out(b) /\ \E n \in Rx(b) : Rx(b)' = Rx(b) \ {n}
  /\ \E i : Queued(b)' = Queued(b) \cup {i}
IsDropped(b) ==
  /\ ~instance
  /\ free'[b] = free[b] /\ Out(b)' = Out(b) /\ Queued(b)' = Queued(b)
  /\ \E n \in Rx(b) : Rx(b)' = Rx(b) \ {n}

LEMMA SoleKept ==
  ASSUME Shaped, NEW b \in Buffers, Sole(b),
         Stays(b) \/ IsTaken(b) \/ IsGivenBack(b) \/ IsQueued(b) \/ IsDropped(b)
  PROVE  Sole(b)' /\ (instance => (Astray(b)' <=> Astray(b)))
<1>1. free[b] \in Nat
  BY DEF Shaped
<1>2. CASE Stays(b)
  BY <1>2 DEF Stays, Sole, Astray, AtMostOne
<1>3. CASE IsTaken(b)
  <2>1. free[b] = 1 /\ free'[b] = 0 /\ Rx(b) = {} /\ Out(b) = {} /\ Queued(b) = {}
    BY <1>3 DEF IsTaken, Sole
  <2> QED BY <1>3, <2>1 DEF IsTaken, Sole, Astray, AtMostOne
<1>4. CASE IsGivenBack(b)
  <2>1. Rx(b) # {} \/ Out(b) # {} \/ Queued(b) # {}
    BY <1>4 DEF IsGivenBack
  <2>2. free[b] = 0 /\ free'[b] = 1
    BY <1>4, <2>1 DEF IsGivenBack, Sole
  <2>3. Rx(b)' = {} /\ Out(b)' = {} /\ Queued(b)' = {}
    BY <1>4 DEF IsGivenBack, Sole, AtMostOne
  <2> QED BY <2>1, <2>2, <2>3 DEF Sole, Astray, AtMostOne
<1>5. CASE IsQueued(b)
  <2>1. Rx(b) # {} /\ free[b] = 0 /\ free'[b] = 0 /\ Out(b)' = {} /\ Queued(b) = {} /\ Rx(b)' = {}
    BY <1>5 DEF IsQueued, Sole, AtMostOne
  <2> QED BY <1>5, <2>1 DEF IsQueued, Sole, Astray, AtMostOne
<1>6. CASE IsDropped(b)
  BY <1>6 DEF IsDropped, Sole, AtMostOne
<1> QED BY <1>2, <1>3, <1>4, <1>5, <1>6

-----------------------------------------------------------------------------
(* What the assignments do to the owners. *)

LEMMA RxOwners ==
  ASSUME RxShaped, NEW n \in Receivers, NEW r \in RxType, rx' = [rx EXCEPT ![n] = r],
         NEW b \in Buffers
  PROVE  /\ r.buf = rx[n].buf => Rx(b)' = Rx(b)
         /\ r.buf = None => Rx(b)' = Rx(b) \ {n}
         /\ rx[n].buf = None => Rx(b)' = IF r.buf = b THEN Rx(b) \cup {n} ELSE Rx(b)
<1>1. /\ rx'[n] = r /\ \A m \in Receivers : m # n => rx'[m] = rx[m]
      /\ b # None
  BY PoolsAssumption DEF RxShaped
<1> QED BY <1>1 DEF Rx

\* Thread t has gone on with the sends r.
GoesOn(t, r) == out' = [out EXCEPT ![t] = r]

\* The i-th of the sends s has buffer b.
Holds(s, i, b) == i <= Len(s) /\ s[i].buf = b

LEMMA OutOwners ==
  ASSUME OutShaped, NEW t \in Threads, NEW r \in Seq(SendType), GoesOn(t, r),
         NEW b \in Buffers
  PROVE  \A v \in Threads, i \in {1, 2} :
           /\ <<v, i>> \in Out(b) <=> Holds(out[v], i, b)
           /\ v # t => (<<v, i>> \in Out(b)' <=> <<v, i>> \in Out(b))
           /\ v = t => (<<v, i>> \in Out(b)' <=> Holds(r, i, b))
<1> TAKE v \in Threads, i \in {1, 2}
<1>1. out'[t] = r /\ \A u \in Threads : u # t => out'[u] = out[u]
  BY DEF OutShaped, GoesOn
<1>2. <<v, i>> \in Out(b) <=> Holds(out[v], i, b)
  BY DEF Out, Holds
<1>3. <<v, i>> \in Out(b)' <=> Holds(out'[v], i, b)
  BY DEF Out, Holds
<1> QED BY <1>1, <1>2, <1>3

LEMMA OutEqual ==
  ASSUME NEW b \in Buffers, NEW S, S \subseteq Threads \X {1, 2},
         \A v \in Threads, i \in {1, 2} : <<v, i>> \in Out(b)' <=> <<v, i>> \in S
  PROVE  Out(b)' = S
<1>1. \A u \in Out(b)' : u \in Threads \X {1, 2}
  BY DEF Out
<1>2. ASSUME NEW u \in Threads \X {1, 2} PROVE u \in Out(b)' <=> u \in S
  <2>1. PICK v \in Threads, i \in {1, 2} : u = <<v, i>>
    OBVIOUS
  <2> QED BY <2>1
<1> QED BY <1>1, <1>2

LEMMA OutSame ==
  ASSUME OutShaped, NEW t \in Threads, NEW r \in Seq(SendType), GoesOn(t, r),
         NEW b \in Buffers, Len(r) = Len(out[t]),
         \A i \in 1 .. Len(r) : r[i].buf = out[t][i].buf
  PROVE  Out(b)' = Out(b)
<1>0. \A v \in Threads, i \in {1, 2} :
        /\ <<v, i>> \in Out(b) <=> Holds(out[v], i, b)
        /\ v # t => (<<v, i>> \in Out(b)' <=> <<v, i>> \in Out(b))
        /\ v = t => (<<v, i>> \in Out(b)' <=> Holds(r, i, b))
  BY OutOwners
<1>1. Len(r) \in Nat
  OBVIOUS
<1>2. ASSUME NEW v \in Threads, NEW i \in {1, 2}
      PROVE  <<v, i>> \in Out(b)' <=> <<v, i>> \in Out(b)
  <2>1. v = t => (i <= Len(r) => r[i].buf = out[v][i].buf)
    BY <1>1
  <2>3. CASE v # t
    BY <1>0, <2>3
  <2>4. CASE v = t
    <3>1. i <= Len(r) <=> i <= Len(out[t])
      OBVIOUS
    <3> QED BY <2>1, <1>0, <2>4, <3>1 DEF Holds
  <2> QED BY <2>3, <2>4
<1>3. Out(b) \subseteq Threads \X {1, 2}
  BY DEF Out
<1> QED BY <1>2, <1>3, OutEqual

LEMMA OutShrinks ==
  ASSUME OutShaped, NEW t \in Threads, NEW r \in Seq(SendType), GoesOn(t, r),
         NEW b \in Buffers, Len(r) = Len(out[t]) - 1,
         \A i \in 1 .. Len(r) : r[i].buf = out[t][i].buf
  PROVE  Out(b)' = Out(b) \ {<<t, Len(out[t])>>}
<1>0. \A v \in Threads, i \in {1, 2} :
        /\ <<v, i>> \in Out(b) <=> Holds(out[v], i, b)
        /\ v # t => (<<v, i>> \in Out(b)' <=> <<v, i>> \in Out(b))
        /\ v = t => (<<v, i>> \in Out(b)' <=> Holds(r, i, b))
  BY OutOwners
<1>1. Len(r) \in Nat /\ Len(out[t]) \in 0 .. 2
  BY DEF OutShaped
<1> DEFINE S == Out(b) \ {<<t, Len(out[t])>>}
<1>2. ASSUME NEW v \in Threads, NEW i \in {1, 2}
      PROVE  <<v, i>> \in Out(b)' <=> <<v, i>> \in S
  <2>1. v = t => (i <= Len(r) => r[i].buf = out[v][i].buf)
    BY <1>1
  <2>2. <<v, i>> \in S <=> (<<v, i>> \in Out(b) /\ ~(v = t /\ i = Len(out[t])))
    OBVIOUS
  <2>3. i <= Len(r) <=> (i <= Len(out[t]) /\ i # Len(out[t]))
    BY <1>1
  <2> HIDE DEF S
  <2>5. CASE v # t
    BY <2>2, <1>0, <2>5
  <2>6. CASE v = t
    BY <2>1, <2>2, <2>3, <1>0, <2>6 DEF Holds
  <2> QED BY <2>5, <2>6
<1>3. S \subseteq Threads \X {1, 2}
  BY DEF Out
<1> HIDE DEF S
<1>4. Out(b)' = S
  BY <1>2, <1>3, OutEqual
<1> QED BY <1>4 DEF S

LEMMA OutGrows ==
  ASSUME OutShaped, NEW t \in Threads, NEW r \in Seq(SendType), GoesOn(t, r),
         NEW b \in Buffers, Len(r) = Len(out[t]) + 1, Len(r) <= 2,
         \A i \in 1 .. Len(out[t]) : r[i].buf = out[t][i].buf
  PROVE  Out(b)' = IF r[Len(r)].buf = b THEN Out(b) \cup {<<t, Len(r)>>} ELSE Out(b)
<1>0. \A v \in Threads, i \in {1, 2} :
        /\ <<v, i>> \in Out(b) <=> Holds(out[v], i, b)
        /\ v # t => (<<v, i>> \in Out(b)' <=> <<v, i>> \in Out(b))
        /\ v = t => (<<v, i>> \in Out(b)' <=> Holds(r, i, b))
  BY OutOwners
<1>1. Len(r) \in {1, 2} /\ Len(out[t]) \in 0 .. 2
  BY DEF OutShaped
<1> DEFINE S == IF r[Len(r)].buf = b THEN Out(b) \cup {<<t, Len(r)>>} ELSE Out(b)
<1>2. ASSUME NEW v \in Threads, NEW i \in {1, 2}
      PROVE  <<v, i>> \in Out(b)' <=> <<v, i>> \in S
  <2>1. v = t => (i <= Len(out[t]) => r[i].buf = out[v][i].buf)
    BY <1>1
  <2>2. <<v, i>> \in S <=> (<<v, i>> \in Out(b) \/ (v = t /\ i = Len(r) /\ r[i].buf = b))
    OBVIOUS
  <2>3. i <= Len(r) <=> (i <= Len(out[t]) \/ i = Len(r))
    BY <1>1
  <2>4. ~(i <= Len(out[t]) /\ i = Len(r))
    BY <1>1
  <2> HIDE DEF S
  <2>6. CASE v # t
    BY <2>2, <1>0, <2>6
  <2>7. CASE v = t
    BY <2>1, <2>2, <2>3, <2>4, <1>0, <2>7 DEF Holds
  <2> QED BY <2>6, <2>7
<1>3. S \subseteq Threads \X {1, 2}
  BY <1>1 DEF Out
<1> HIDE DEF S
<1>4. Out(b)' = S
  BY <1>2, <1>3, OutEqual
<1> QED BY <1>4 DEF S

LEMMA QueueGrows ==
  ASSUME queue \in Seq(Buffers), NEW x \in Buffers, queue' = Append(queue, x), NEW b \in Buffers
  PROVE  Queued(b)' = IF b = x THEN Queued(b) \cup {Len(queue) + 1} ELSE Queued(b)
  BY DEF Queued

LEMMA QueueShrinks ==
  ASSUME queue \in Seq(Buffers), queue # << >>, queue' = Tail(queue), NEW b \in Buffers,
         AtMostOne(Queued(b))
  PROVE  /\ AtMostOne(Queued(b)')
         /\ b = Head(queue) => Queued(b) # {} /\ Queued(b)' = {}
         /\ b # Head(queue) => (Queued(b)' = {} <=> Queued(b) = {})
<1>1. /\ Len(queue) \in Nat \ {0} /\ DOMAIN queue = 1 .. Len(queue)
      /\ DOMAIN queue' = 1 .. Len(queue) - 1
      /\ \A i \in 1 .. Len(queue) - 1 : queue'[i] = queue[i + 1]
      /\ Head(queue) = queue[1]
  OBVIOUS
<1>2. \A i \in Queued(b)' : i + 1 \in Queued(b) /\ i \in Nat \ {0}
  BY <1>1 DEF Queued
<1>3. AtMostOne(Queued(b)')
  BY <1>2 DEF AtMostOne
<1>4. CASE b = Head(queue)
  <2>1. 1 \in Queued(b)
    BY <1>1, <1>4 DEF Queued
  <2> QED BY <1>2, <1>3, <1>4, <2>1 DEF AtMostOne
<1>5. CASE b # Head(queue)
  <2>1. ASSUME NEW i \in Queued(b) PROVE i - 1 \in Queued(b)'
    <3>1. i \in 1 .. Len(queue) /\ queue[i] = b /\ i # 1
      BY <1>1, <1>5, <2>1 DEF Queued
    <3>2. i - 1 \in 1 .. Len(queue) - 1 /\ i - 1 + 1 = i
      BY <1>1, <3>1
    <3>3. queue'[i - 1] = b
      BY <1>1, <3>1, <3>2
    <3> QED BY <1>1, <3>2, <3>3 DEF Queued
  <2> QED BY <1>2, <1>3, <1>5, <2>1
<1> QED BY <1>4, <1>5

Handled(b) == Stays(b) \/ IsTaken(b) \/ IsGivenBack(b) \/ IsQueued(b) \/ IsDropped(b)

LEMMA FreeChanges ==
  ASSUME free \in [Buffers -> Nat], NEW x \in Buffers, NEW b \in Buffers
  PROVE  /\ Taken(x)[b] = IF b = x THEN free[b] - 1 ELSE free[b]
         /\ Freed(x)[b] = IF b = x THEN free[b] + 1 ELSE free[b]
  BY DEF Taken, Freed

LEMMA NobodyMoves ==
  ASSUME NEW b \in Buffers
  PROVE  /\ rx' = rx => Rx(b)' = Rx(b)
         /\ out' = out => Out(b)' = Out(b)
         /\ queue' = queue => Queued(b)' = Queued(b)
  BY DEF Rx, Out, Queued

LEMMA ArriveHandled ==
  ASSUME Shaped, ArriveFromRing \/ ArriveFromAir, NEW b \in Buffers
  PROVE  Handled(b)
<1>1. PICK n \in Receivers, f \in Frames : rx[n] = Waiting /\ Arrived(n, f)
  <2>1. CASE ArriveFromRing
    BY <2>1, ReceiversAreThreads DEF ArriveFromRing, Shaped
  <2>2. CASE ArriveFromAir
    BY <2>2, ReceiversAreThreads DEF ArriveFromAir, Shaped
  <2> QED BY <2>1, <2>2
<1>2. Out(b)' = Out(b) /\ Queued(b)' = Queued(b)
  BY NobodyMoves DEF ArriveFromRing, ArriveFromAir
<1>3. CASE FreeOf(n) = {}
  BY <1>1, <1>2, <1>3, NobodyMoves DEF Arrived, Handled, Stays
<1>4. CASE FreeOf(n) # {}
  <2> DEFINE x == Top(n)
             r == [at |-> "filter", frame |-> f, buf |-> x]
  <2>1. x \in Buffers /\ free[x] > 0 /\ free' = Taken(x) /\ rx' = [rx EXCEPT ![n] = r]
    BY <1>1, <1>4, TopIsFree DEF Arrived
  <2>2. r \in RxType /\ r.buf = x /\ rx[n].buf = None
    BY <1>1, <2>1 DEF RxType, Stages, Waiting
  <2> HIDE DEF x, r
  <2>3. Rx(b)' = IF r.buf = b THEN Rx(b) \cup {n} ELSE Rx(b)
    BY <2>1, <2>2, RxOwners DEF Shaped
  <2>4. free'[b] = IF b = x THEN free[b] - 1 ELSE free[b]
    BY <2>1, FreeChanges DEF Shaped
  <2>5. CASE b = x
    BY <1>2, <2>1, <2>2, <2>3, <2>4, <2>5 DEF Handled, IsTaken
  <2>6. CASE b # x
    BY <1>2, <2>2, <2>3, <2>4, <2>6 DEF Handled, Stays
  <2> QED BY <2>5, <2>6
<1> QED BY <1>3, <1>4

\* A send begins on receiving thread n or another thread with buffer x.
LEMMA SendBegins ==
  ASSUME Shaped, NEW t \in Threads, NEW x \in Buffers, NEW b \in Buffers,
         free[x] > 0, free' = Taken(x), out[t] = << >>, out' = [out EXCEPT ![t] = <<Send(x)>>],
         Rx(b)' = Rx(b), queue' = queue
  PROVE  Handled(b)
<1>1. Queued(b)' = Queued(b)
  BY NobodyMoves
<1> DEFINE s == <<Send(x)>>
<1>2. s \in Seq(SendType) /\ Len(s) = 1 /\ s[1].buf = x
  BY FirstSend
<1>3. Len(out[t]) = 0 /\ out' = [out EXCEPT ![t] = s]
  OBVIOUS
<1> HIDE DEF s
<1>4. Out(b)' = IF s[Len(s)].buf = b THEN Out(b) \cup {<<t, Len(s)>>} ELSE Out(b)
  <2>1. Len(s) = Len(out[t]) + 1 /\ Len(s) <= 2 /\ \A i \in 1 .. Len(out[t]) : s[i].buf = out[t][i].buf
    BY <1>2, <1>3
  <2>2. OutShaped
    BY DEF Shaped
  <2>3. GoesOn(t, s)
    BY ONLY <1>3 DEF GoesOn
  <2> QED BY ONLY <1>2, <2>1, <2>2, <2>3, OutGrows, t \in Threads, b \in Buffers
<1>5. free'[b] = IF b = x THEN free[b] - 1 ELSE free[b]
  BY FreeChanges DEF Shaped
<1>6. CASE b = x
  BY <1>1, <1>2, <1>4, <1>5, <1>6 DEF Handled, IsTaken
<1>7. CASE b # x
  BY <1>1, <1>2, <1>4, <1>5, <1>7 DEF Handled, Stays
<1> QED BY <1>6, <1>7

LEMMA SendHandled ==
  ASSUME Shaped, NEW t \in Threads, NEW b \in Buffers,
         StartSend(t) \/ NoChange(t) \/ NestedSend(t) \/ FinishSend(t)
  PROVE  Handled(b)
<1>0. Rx(b)' = Rx(b) /\ Queued(b)' = Queued(b) /\ queue' = queue
  BY NobodyMoves DEF StartSend, NoChange, NestedSend, FinishSend
<1>1. CASE StartSend(t)
  BY <1>0, <1>1, Begins, SendBegins
<1>2. CASE NoChange(t)
  <2>1. Out(b)' = Out(b)
    <3>1. PICK r \in Seq(SendType) :
           /\ out' = [out EXCEPT ![t] = r]
           /\ Len(r) = Len(out[t]) /\ \A i \in 1 .. Len(r) : r[i].buf = out[t][i].buf
      BY <1>2, Continues
    <3> QED BY <3>1, OutSame DEF Shaped, GoesOn
  <2> QED BY <1>0, <1>2, <2>1 DEF NoChange, Handled, Stays
<1>3. CASE NestedSend(t)
  <2>1. PICK x \in Buffers, r \in Seq(SendType) :
           /\ free[x] > 0 /\ free' = Taken(x)
           /\ out' = [out EXCEPT ![t] = r]
           /\ Len(out[t]) = 1 /\ Len(r) = 2 /\ r[1].buf = out[t][1].buf /\ r[2].buf = x
    BY <1>3, Nests
  <2>2. Len(r) = Len(out[t]) + 1 /\ Len(r) <= 2 /\ \A i \in 1 .. Len(out[t]) : r[i].buf = out[t][i].buf
    BY <2>1
  <2>3. Out(b)' = IF r[Len(r)].buf = b THEN Out(b) \cup {<<t, Len(r)>>} ELSE Out(b)
    <3>1. OutShaped
      BY DEF Shaped
    <3> QED BY <2>1, <2>2, <3>1, OutGrows DEF GoesOn
  <2>4. free'[b] = IF b = x THEN free[b] - 1 ELSE free[b]
    BY <2>1, FreeChanges DEF Shaped
  <2>5. CASE b = x
    BY <1>0, <2>1, <2>3, <2>4, <2>5 DEF Handled, IsTaken
  <2>6. CASE b # x
    BY <1>0, <2>1, <2>3, <2>4, <2>6 DEF Handled, Stays
  <2> QED BY <2>5, <2>6
<1>4. CASE FinishSend(t)
  <2>1. PICK x \in Buffers, r \in Seq(SendType) :
           /\ free' = Freed(x)
           /\ out' = [out EXCEPT ![t] = r] /\ out[t] # << >>
           /\ Len(r) = Len(out[t]) - 1 /\ out[t][Len(out[t])].buf = x
           /\ \A i \in 1 .. Len(r) : r[i].buf = out[t][i].buf
    BY <1>4, Finishes
  <2>2. Out(b)' = Out(b) \ {<<t, Len(out[t])>>}
    <3>1. OutShaped
      BY DEF Shaped
    <3> QED BY <2>1, <3>1, OutShrinks DEF GoesOn
  <2>3. <<t, Len(out[t])>> \in Out(b) <=> b = x
    <3>1. out[t] # << >> /\ out[t] \in Seq(SendType) /\ Len(out[t]) \in 0 .. 2
      BY <2>1 DEF Shaped, OutShaped
    <3>2. Len(out[t]) \in {1, 2}
      BY ONLY <3>1
    <3>3. out[t][Len(out[t])].buf = x
      BY <2>1
    <3>4. PICK k \in {1, 2} : k = Len(out[t])
      BY <3>2
    <3>5. <<t, k>> \in Out(b) <=> (k <= Len(out[t]) /\ out[t][k].buf = b)
      BY DEF Out
    <3> QED BY ONLY <3>3, <3>4, <3>5
  <2>4. free'[b] = IF b = x THEN free[b] + 1 ELSE free[b]
    BY <2>1, FreeChanges DEF Shaped
  <2>5. CASE b = x
    BY <1>0, <2>2, <2>3, <2>4, <2>5 DEF Handled, IsGivenBack
  <2>6. CASE b # x
    BY <1>0, <2>2, <2>3, <2>4, <2>6 DEF Handled, Stays
  <2> QED BY <2>5, <2>6
<1> QED BY <1>1, <1>2, <1>3, <1>4

LEMMA ReceivingHandled ==
  ASSUME Shaped, NEW n \in Receivers, Receiving(n), NEW b \in Buffers
  PROVE  Handled(b)
<1>0. /\ RxShaped /\ free \in [Buffers -> Nat] /\ rx[n] \in RxType /\ n \in Threads
      /\ rx[n].buf = None <=> rx[n].at \in {"wait", "message"}
      /\ rx[n].at \notin {"wait", "message"} => rx[n].buf \in Buffers
      /\ out[n] # << >> => rx[n].at \in {"notify", "release"}
      /\ Waiting \in RxType /\ Waiting.buf = None
  BY ReceiversAreThreads DEF Shaped, RxShaped, RxType, Waiting, Stages
<1>1. ASSUME NEW place \in Stages, rx' = [rx EXCEPT ![n].at = place] PROVE Rx(b)' = Rx(b)
  <2>1. GoesTo(n, place) \in RxType /\ GoesTo(n, place).buf = rx[n].buf
        /\ rx' = [rx EXCEPT ![n] = GoesTo(n, place)]
    BY <1>0, <1>1, Going DEF GoesTo
  <2> QED BY <1>0, <2>1, RxOwners
<1>2. ASSUME NEW r \in RxType, r.buf = None, rx' = [rx EXCEPT ![n] = r]
      PROVE  Rx(b)' = Rx(b) \ {n}
  BY <1>0, <1>2, RxOwners
<1>3. n \in Rx(b) <=> rx[n].buf = b
  BY DEF Rx
<1>4. ASSUME rx[n].buf \in Buffers, free' = Freed(rx[n].buf), out' = out, queue' = queue,
             Rx(b)' = Rx(b) \ {n}
      PROVE  Handled(b)
  <2>1. free'[b] = IF b = rx[n].buf THEN free[b] + 1 ELSE free[b]
    BY <1>0, <1>4, FreeChanges
  <2>2. Out(b)' = Out(b) /\ Queued(b)' = Queued(b)
    BY <1>4, NobodyMoves
  <2>3. CASE b = rx[n].buf
    BY <1>3, <1>4, <2>1, <2>2, <2>3 DEF Handled, IsGivenBack
  <2>4. CASE b # rx[n].buf
    BY <1>3, <1>4, <2>1, <2>2, <2>4 DEF Handled, Stays
  <2> QED BY <2>3, <2>4
<1>5. ASSUME free' = free, out' = out, queue' = queue, Rx(b)' = Rx(b)
      PROVE  Handled(b)
  BY <1>5, NobodyMoves DEF Handled, Stays
<1>6. ASSUME NEW nic, FreeOf(nic) # {}, free' = Taken(Top(nic)), out[n] = << >>,
             out' = [out EXCEPT ![n] = <<Send(Top(nic))>>], queue' = queue, Rx(b)' = Rx(b)
      PROVE  Handled(b)
  <2>1. PICK x \in Buffers : x = Top(nic) /\ free[x] > 0
    BY <1>6, TopIsFree
  <2> QED BY <1>0, <1>6, <2>1, SendBegins
<1>7. CASE Filter(n)
  <2>1. CASE rx[n].frame \in JunkFrames
    <3>1. Rx(b)' = Rx(b) \ {n}
      BY <1>0, <1>2, <1>7, <2>1 DEF Filter, GivesBack
    <3> QED BY <1>0, <1>4, <1>7, <2>1, <3>1 DEF Filter, GivesBack
  <2>2. CASE rx[n].frame \notin JunkFrames
    BY <1>1, <1>5, <1>7, <2>2 DEF Filter, Stages
  <2> QED BY <2>1, <2>2
<1>8. CASE ConsumeSptp(n)
  <2>1. Rx(b)' = Rx(b) /\ out[n] = << >> /\ queue' = queue
    BY <1>0, <1>1, <1>8 DEF ConsumeSptp, Stages
  <2>2. CASE UNCHANGED <<free, out>>
    BY <1>5, <2>1, <2>2
  <2>3. CASE /\ FreeOf("raw") # {} /\ free' = Taken(Top("raw"))
             /\ out' = [out EXCEPT ![n] = <<Send(Top("raw"))>>]
    BY <1>6, <2>1, <2>3
  <2> QED BY <1>8, <2>2, <2>3 DEF ConsumeSptp
<1>9. CASE Forward(n)
  <2>1. Rx(b)' = Rx(b) /\ out[n] = << >> /\ queue' = queue
    BY <1>0, <1>1, <1>9 DEF Forward, Stages
  <2>2. CASE UNCHANGED <<free, out>>
    BY <1>5, <2>1, <2>2
  <2>3. CASE /\ FreeOf(Other(n)) # {} /\ free' = Taken(Top(Other(n)))
             /\ out' = [out EXCEPT ![n] = <<Send(Top(Other(n)))>>]
    BY <1>6, <2>1, <2>3
  <2> QED BY <1>9, <2>2, <2>3 DEF Forward
<1>10. CASE KeepHere(n)
  BY <1>1, <1>5, <1>10 DEF KeepHere, Stages
<1>11. CASE Release(n)
  <2>1. rx' = [rx EXCEPT ![n] = Waiting] /\ out' = out /\ queue' = queue /\ rx[n].buf \in Buffers
    BY <1>0, <1>11 DEF Release, GivesBack
  <2>2. Rx(b)' = Rx(b) \ {n}
    BY <1>0, <1>2, <2>1
  <2>3. CASE instance
    BY <1>4, <1>11, <2>1, <2>2, <2>3 DEF Release, GivesBack
  <2>4. CASE ~instance
    <3>1. free' = free
      BY <1>11, <2>4 DEF Release
    <3>2. CASE rx[n].buf = b
      BY <1>3, <2>1, <2>2, <2>4, <3>1, <3>2, NobodyMoves DEF Handled, IsDropped
    <3>3. CASE rx[n].buf # b
      BY <1>3, <1>5, <2>1, <2>2, <3>1, <3>3
    <3> QED BY <3>2, <3>3
  <2> QED BY <2>3, <2>4
<1>12. CASE Notify(n)
  <2>1. PICK place \in {"communicator", "release"} : rx' = [rx EXCEPT ![n].at = place]
    BY <1>12 DEF Notify
  <2> QED BY <1>1, <1>5, <1>12, <2>1 DEF Notify, Stages
<1>13. CASE Unmarshal(n)
  <2> DEFINE m == [at |-> "message", frame |-> rx[n].frame, buf |-> None]
  <2>1. m \in RxType /\ m.buf = None /\ rx' = [rx EXCEPT ![n] = m]
    BY <1>0, <1>13 DEF Unmarshal, RxType, Stages, RxShaped
  <2> HIDE DEF m
  <2>2. Rx(b)' = Rx(b) \ {n}
    BY <1>2, <2>1
  <2> QED BY <1>0, <1>4, <1>13, <2>2 DEF Unmarshal
<1>14. CASE QueueBuffer(n)
  <2>1. /\ rx[n].buf \in Buffers /\ queue' = Append(queue, rx[n].buf)
        /\ Rx(b)' = Rx(b) \ {n} /\ free' = free /\ Out(b)' = Out(b)
    BY <1>0, <1>2, <1>14, NobodyMoves DEF QueueBuffer
  <2>2. Queued(b)' = IF b = rx[n].buf THEN Queued(b) \cup {Len(queue) + 1} ELSE Queued(b)
    BY <2>1, QueueGrows DEF Shaped
  <2>3. CASE b = rx[n].buf
    BY <1>3, <2>1, <2>2, <2>3 DEF Handled, IsQueued
  <2>4. CASE b # rx[n].buf
    BY <1>3, <2>1, <2>2, <2>4 DEF Handled, Stays
  <2> QED BY <2>3, <2>4
<1>15. CASE Observe(n)
  <2>1. Rx(b)' = Rx(b) \ {n} /\ rx[n].buf # b
    BY <1>0, <1>2, <1>15, PoolsAssumption DEF Observe
  <2> QED BY <1>3, <1>5, <1>15, <2>1 DEF Observe
<1> QED BY <1>7, <1>8, <1>9, <1>10, <1>11, <1>12, <1>13, <1>14, <1>15 DEF Receiving

LEMMA ReceiveHandled ==
  ASSUME Shaped, Receive, NEW b \in Buffers, Sole(b)
  PROVE  Handled(b)
<1>1. /\ AtMostOne(Queued(b)')
      /\ b = Head(queue) => Queued(b) # {} /\ Queued(b)' = {}
      /\ b # Head(queue) => (Queued(b)' = {} <=> Queued(b) = {})
  <2>1. queue \in Seq(Buffers) /\ queue # << >> /\ queue' = Tail(queue) /\ AtMostOne(Queued(b))
    BY DEF Shaped, Receive, Sole
  <2> QED BY <2>1, QueueShrinks
<1>2. Rx(b)' = Rx(b) /\ Out(b)' = Out(b)
  BY NobodyMoves DEF Receive
<1>3. free'[b] = IF b = Head(queue) THEN free[b] + 1 ELSE free[b]
  <2>1. Head(queue) \in Buffers /\ free \in [Buffers -> Nat] /\ free' = Freed(Head(queue))
    BY DEF Shaped, Receive
  <2> QED BY <2>1, FreeChanges
<1>4. CASE b = Head(queue)
  BY <1>1, <1>2, <1>3, <1>4 DEF Handled, IsGivenBack
<1>5. CASE b # Head(queue)
  BY <1>1, <1>2, <1>3, <1>5 DEF Handled, Stays
<1> QED BY <1>4, <1>5

\* Every step handles every buffer in one of the five ways.
LEMMA AllHandled ==
  ASSUME Shaped, [Next]_vars, NEW b \in Buffers, Sole(b)
  PROVE  Handled(b)
<1>1. ASSUME UNCHANGED <<free, rx, out, queue>> PROVE Handled(b)
  BY <1>1, NobodyMoves DEF Handled, Stays
<1>2. CASE ReceiveResponse \/ SetInstance \/ AttachCommunicator \/ AttachObserver \/ Broadcast
  BY <1>1, <1>2 DEF ReceiveResponse, SetInstance, AttachCommunicator, AttachObserver, Broadcast
<1>3. CASE UNCHANGED vars
  BY <1>1, <1>3 DEF vars
<1> QED BY <1>2, <1>3, ArriveHandled, ReceivingHandled, SendHandled, ReceiveHandled DEF Next

Owned == Shaped /\ \A b \in Buffers : Sole(b)

LEMMA OwnedInit == Init => Owned
<1> SUFFICES ASSUME Init PROVE Owned
  OBVIOUS
<1>1. ASSUME NEW b \in Buffers PROVE Sole(b)
  <2>1. free[b] = 1 /\ Rx(b) = {}
    BY PoolsAssumption DEF Init, Rx, Waiting
  <2>2. Out(b) = {}
    <3>1. \A t \in Threads : Len(out[t]) = 0
      BY DEF Init
    <3> QED BY <3>1 DEF Out
  <2>3. Queued(b) = {}
    BY DEF Init, Queued
  <2> QED BY <2>1, <2>2, <2>3 DEF Sole, AtMostOne
<1> QED BY <1>1, ShapedInit DEF Owned

LEMMA OwnedStep ==
  ASSUME Owned, [Next]_vars
  PROVE  Owned' /\ (instance => \A b \in Buffers : Astray(b)' <=> Astray(b))
<1>1. Shaped /\ Shaped' /\ \A b \in Buffers : Sole(b)
  BY ShapedStep DEF Owned
<1>2. ASSUME NEW b \in Buffers PROVE Sole(b)' /\ (instance => (Astray(b)' <=> Astray(b)))
  <2>1. Handled(b)
    BY <1>1, AllHandled
  <2> QED BY <1>1, <2>1, SoleKept DEF Handled
<1> QED BY <1>1, <1>2 DEF Owned

\* One owner counts one, and none counts nothing.
LEMMA OneOrNone ==
  ASSUME NEW S, AtMostOne(S)
  PROVE  Cardinality(S) \in {0, 1} /\ (Cardinality(S) = 0 <=> S = {})
<1>1. CASE S = {}
  BY <1>1, FS_EmptySet
<1>2. ASSUME NEW x \in S PROVE Cardinality(S) = 1
  <2>1. S = {x}
    BY <1>2 DEF AtMostOne
  <2> QED BY <2>1, FS_Singleton
<1> QED BY <1>1, <1>2

LEMMA CountsOwners ==
  ASSUME NEW b \in Buffers, Sole(b)
  PROVE  /\ free[b] + Uses(b) \in {0, 1}
         /\ free[b] + Uses(b) = 0 <=> Astray(b)
<1>1. Uses(b) = Cardinality(Rx(b)) + Cardinality(Out(b)) + Cardinality(Queued(b))
  BY DEF Uses, Rx, Out, Queued
<1>2. /\ Cardinality(Rx(b)) \in {0, 1} /\ (Cardinality(Rx(b)) = 0 <=> Rx(b) = {})
      /\ Cardinality(Out(b)) \in {0, 1} /\ (Cardinality(Out(b)) = 0 <=> Out(b) = {})
      /\ Cardinality(Queued(b)) \in {0, 1} /\ (Cardinality(Queued(b)) = 0 <=> Queued(b) = {})
  BY OneOrNone DEF Sole
<1> QED BY <1>1, <1>2 DEF Sole, Astray

LEMMA AlwaysOwned == Spec => []Owned
<1>1. Owned /\ [Next]_vars => Owned'
  BY OwnedStep
<1> QED BY <1>1, OwnedInit, PTL DEF Spec

\* A buffer is in the free list of its NIC at most once and then nobody uses it, and it
\* has at most one user, however the two receiving threads, the senders and receive()
\* interleave: NIC::free and Communicator's queue never get the same buffer twice.
THEOREM BuffersHaveOneOwner == Spec => []BuffersOwned
<1>1. Owned => BuffersOwned
  BY CountsOwners DEF Owned, BuffersOwned
<1> QED BY <1>1, AlwaysOwned, PTL

\* Once Protocol's constructor has set _instance no step loses a buffer, so what the
\* process has lost is what arrived before: free_buffer returned without freeing it.
THEOREM LossesEnd == Spec => LostOnlyEarly
<1>1. Owned => Lost = {b \in Buffers : Astray(b)}
  BY CountsOwners DEF Owned, Lost
<1>2. (Owned => Lost = {b \in Buffers : Astray(b)})'
  BY <1>1, PTL
<1>3. ASSUME Owned, [Next]_vars PROVE [Lost' # Lost => ~instance]_vars
  <2>1. Owned' /\ (instance => \A b \in Buffers : Astray(b)' <=> Astray(b))
    BY <1>3, OwnedStep
  <2>2. Lost = {b \in Buffers : Astray(b)} /\ Lost' = {b \in Buffers : Astray(b)'}
    BY <1>1, <1>2, <1>3, <2>1
  <2> QED BY <2>1, <2>2
<1>4. Owned /\ [Next]_vars => [Lost' # Lost => ~instance]_vars
  BY <1>3
<1> QED BY <1>4, AlwaysOwned, PTL DEF Spec, LostOnlyEarly

-----------------------------------------------------------------------------
(* Frames. *)

\* The frames that were put on the ring, and those that came from the radio.
OnRing == (LocalFrames \ local) \cup ToSet(ringed)
Came == [n \in Receivers |-> IF n = "shm" THEN OnRing \ ToSet(ring) ELSE Frames \ (LocalFrames \cup air)]

\* What receiving thread n has forwarded, and what it may.
Forwarded == [n \in Receivers |-> IF n = "shm" THEN sent ELSE ringed]
Side(n) == IF n = "shm" THEN LocalFrames ELSE RemoteFrames

\* The sequence s lists members of S, none twice.
Lists(s, S) == s \in Seq(S) /\ IsInjective(s)

\* Nothing comes to a thread twice.
Media ==
  /\ air \cap LocalFrames = {} /\ local \subseteq LocalFrames
  /\ Lists(ring, OnRing)
  /\ ToSet(ringed) \cap LocalFrames = {}
  /\ \A n \in Receivers : Lists(Forwarded[n], Side(n)) /\ ToSet(Forwarded[n]) \subseteq Came[n]

\* What thread n works on has come, and was not forwarded if it will be.
Work(n) ==
  rx[n].at # "wait" =>
    /\ rx[n].frame \in Came[n]
    /\ rx[n].at \in {"filter", "update"} \/ (rx[n].at = "notify" /\ out[n] # << >>)
         => rx[n].frame \notin ToSet(Forwarded[n])
    /\ rx[n].at # "filter" => rx[n].frame \notin JunkFrames
    /\ rx[n].at = "notify" /\ out[n] # << >> => rx[n].frame \in Side(n)

\* A Message is of a frame that has come, and there is one of it.
Messages ==
  /\ Lists(inbox, Receivers \X Frames)
  /\ \A m \in ToSet(inbox) : m[2] \in Came[m[1]]
  /\ \A n \in Receivers : rx[n].at # "wait" => MessageOf(n) \notin ToSet(inbox)
  /\ live = {MessageOf(n) : n \in {m \in Receivers : rx[m].at = "message"}} \cup ToSet(inbox)

Placed == Media /\ (\A n \in Receivers : Work(n)) /\ Messages

LEMMA ListGrows ==
  ASSUME NEW S, NEW s, Lists(s, S), NEW e \in S, e \notin ToSet(s)
  PROVE  Lists(Append(s, e), S) /\ ToSet(Append(s, e)) = ToSet(s) \cup {e}
<1> DEFINE r == Append(s, e)
<1>1. /\ s \in Seq(S) /\ Len(s) \in Nat /\ r \in Seq(S) /\ Len(r) = Len(s) + 1
      /\ \A i \in 1 .. Len(s) : r[i] = s[i]
      /\ r[Len(s) + 1] = e
      /\ DOMAIN s = 1 .. Len(s) /\ DOMAIN r = 1 .. Len(s) + 1
  BY DEF Lists
<1>2. \A i \in 1 .. Len(s) : s[i] # e
  BY <1>1 DEF ToSet
<1>3. \A i \in 1 .. Len(s) + 1 : i \in 1 .. Len(s) \/ i = Len(s) + 1
  BY <1>1
<1> HIDE DEF r
<1>4. IsInjective(r)
  BY <1>1, <1>2, <1>3 DEF IsInjective, Lists
<1>5. ToSet(r) = ToSet(s) \cup {e}
  <2>1. \A i \in 1 .. Len(s) : i \in 1 .. Len(s) + 1
    BY <1>1
  <2>2. Len(s) + 1 \in 1 .. Len(s) + 1
    BY <1>1
  <2> QED BY <1>1, <1>3, <2>1, <2>2 DEF ToSet
<1> QED BY <1>1, <1>4, <1>5 DEF Lists, r

LEMMA ListShrinks ==
  ASSUME NEW S, NEW s, Lists(s, S), s # << >>
  PROVE  /\ Lists(Tail(s), S) /\ Head(s) \in S /\ Head(s) \in ToSet(s)
         /\ ToSet(Tail(s)) = ToSet(s) \ {Head(s)}
<1> DEFINE r == Tail(s)
<1>1. /\ s \in Seq(S) /\ Len(s) \in Nat \ {0} /\ r \in Seq(S) /\ Len(r) = Len(s) - 1
      /\ \A i \in 1 .. Len(s) - 1 : r[i] = s[i + 1]
      /\ Head(s) = s[1] /\ Head(s) \in S
      /\ DOMAIN s = 1 .. Len(s) /\ DOMAIN r = 1 .. Len(s) - 1
  BY DEF Lists
<1> HIDE DEF r
<1>2. \A i \in 1 .. Len(s) - 1 : i + 1 \in 1 .. Len(s) /\ i + 1 # 1
  BY <1>1
<1>3. \A i \in 1 .. Len(s) : i = 1 \/ (i - 1 \in 1 .. Len(s) - 1 /\ i - 1 + 1 = i)
  BY <1>1
<1>4. \A i, j \in 1 .. Len(s) : s[i] = s[j] => i = j
  BY <1>1 DEF Lists, IsInjective
<1>5. 1 \in 1 .. Len(s)
  BY <1>1
<1>6. IsInjective(r)
  <2> SUFFICES ASSUME NEW i \in 1 .. Len(s) - 1, NEW j \in 1 .. Len(s) - 1, r[i] = r[j]
               PROVE  i = j
    BY <1>1 DEF IsInjective
  <2>1. i + 1 = j + 1
    BY <1>1, <1>2, <1>4
  <2> QED BY <1>1, <2>1
<1>7. ASSUME NEW e \in ToSet(r) PROVE e \in ToSet(s) \ {Head(s)}
  <2>1. PICK i \in 1 .. Len(s) - 1 : e = r[i]
    BY <1>1, <1>7 DEF ToSet
  <2>2. e = s[i + 1] /\ e # s[1]
    BY <1>1, <1>2, <1>4, <1>5, <2>1
  <2> QED BY <1>1, <1>2, <2>2 DEF ToSet
<1>8. ASSUME NEW e \in ToSet(s) \ {Head(s)} PROVE e \in ToSet(r)
  <2>1. PICK i \in 1 .. Len(s) : e = s[i] /\ i # 1
    BY <1>1, <1>8 DEF ToSet
  <2>2. i - 1 \in 1 .. Len(s) - 1 /\ r[i - 1] = e
    BY <1>1, <1>3, <2>1
  <2> QED BY <1>1, <2>2 DEF ToSet
<1> QED BY <1>1, <1>5, <1>6, <1>7, <1>8 DEF Lists, ToSet, r

LEMMA ListMoves ==
  ASSUME NEW S, NEW T, NEW s, Lists(s, S), S \subseteq T
  PROVE  Lists(s, T) /\ ToSet(s) \subseteq S
  BY DEF Lists, ToSet

LEMMA EmptyList == \A S : Lists(<< >>, S) /\ ToSet(<< >>) = {}
  BY DEF Lists, ToSet, IsInjective

LEMMA PlacedInit == Init => Placed
<1> SUFFICES ASSUME Init PROVE Placed
  OBVIOUS
<1>1. /\ ToSet(ring) = {} /\ ToSet(sent) = {} /\ ToSet(ringed) = {} /\ ToSet(inbox) = {}
      /\ \A S : Lists(ring, S) /\ Lists(sent, S) /\ Lists(ringed, S) /\ Lists(inbox, S)
  BY EmptyList DEF Init
<1>2. Media
  BY <1>1 DEF Init, Media, Forwarded, Came
<1>3. \A n \in Receivers : rx[n].at = "wait"
  BY DEF Init, Waiting
<1>4. {MessageOf(n) : n \in {m \in Receivers : rx[m].at = "message"}} = {}
  BY <1>3
<1> QED BY <1>1, <1>2, <1>3, <1>4 DEF Init, Placed, Messages, Work

\* What a thread works on is not disturbed by what another does.
LEMMA WorkKept ==
  ASSUME NEW n \in Receivers, Work(n), rx'[n] = rx[n], out'[n] # << >> => out[n] # << >>,
         Came[n] \subseteq Came'[n], Forwarded'[n] = Forwarded[n]
  PROVE  Work(n)'
  BY DEF Work, Side

LEMMA MediaKept ==
  ASSUME Media, UNCHANGED media
  PROVE  Media' /\ Came' = Came /\ Forwarded' = Forwarded
<1>1. Came' = Came /\ Forwarded' = Forwarded /\ OnRing' = OnRing
  BY DEF Came, Forwarded, OnRing, media
<1> QED BY <1>1 DEF Media, media, Side

\* The Messages that receiving threads hold.
Held == {MessageOf(n) : n \in {m \in Receivers : rx[m].at = "message"}}

LEMMA HeldBy ==
  \A m : m \in Held <=> \E n \in Receivers : rx[n].at = "message" /\ m = <<n, rx[n].frame>>
  BY DEF Held, MessageOf

LEMMA MessagesKept ==
  ASSUME Messages, UNCHANGED <<inbox, live>>, \A n \in Receivers : Came[n] \subseteq Came'[n],
         \A n \in Receivers : \/ rx'[n] = rx[n]
                              \/ /\ rx[n].at # "message" /\ rx'[n].at # "message"
                                 /\ rx'[n].at # "wait" => <<n, rx'[n].frame>> \notin ToSet(inbox)
  PROVE  Messages'
<1>1. Held' = Held
  <2>1. Held' = {<<n, rx'[n].frame>> : n \in {m \in Receivers : rx'[m].at = "message"}}
    BY DEF Held, MessageOf
  <2>2. Held = {<<n, rx[n].frame>> : n \in {m \in Receivers : rx[m].at = "message"}}
    BY DEF Held, MessageOf
  <2> QED BY <2>1, <2>2
<1>2. \A m \in ToSet(inbox) : m[1] \in Receivers /\ m[2] \in Came'[m[1]]
  <2>1. ToSet(inbox) \subseteq Receivers \X Frames
    BY ListMoves DEF Messages
  <2> QED BY <2>1 DEF Messages
<1>3. \A n \in Receivers : rx'[n].at # "wait" => <<n, rx'[n].frame>> \notin ToSet(inbox)
  BY DEF Messages, MessageOf
<1>4. live' = Held' \cup ToSet(inbox')
  BY <1>1 DEF Messages, Held
<1>5. inbox' = inbox
  OBVIOUS
<1> QED BY <1>2, <1>3, <1>4, <1>5 DEF Messages, MessageOf, Held

LEMMA ArrivePlaced ==
  ASSUME Shaped, Placed, ArriveFromRing \/ ArriveFromAir PROVE Placed'
<1>0. Media /\ Messages /\ (\A n \in Receivers : Work(n)) /\ out' = out /\ UNCHANGED <<inbox, live>>
  BY DEF Placed, ArriveFromRing, ArriveFromAir
<1>1. ASSUME NEW n \in Receivers, NEW f, rx[n] = Waiting, Arrived(n, f), f \notin Came[n],
             f \in Came'[n], Forwarded' = Forwarded, \A m \in Receivers : Came[m] \subseteq Came'[m]
      PROVE  (\A m \in Receivers : Work(m)') /\ Messages'
  <2>1. rx' = rx \/ (rx'[n].at = "filter" /\ rx'[n].frame = f)
    BY <1>1 DEF Arrived, Shaped, RxShaped
  <2>2. \A m \in Receivers : m # n => rx'[m] = rx[m]
    BY <1>1 DEF Arrived, Shaped, RxShaped
  <2>3. ASSUME NEW m \in Receivers PROVE Work(m)'
    <3>1. CASE rx'[m] = rx[m]
      BY <1>0, <1>1, <3>1, WorkKept
    <3>2. CASE m = n /\ rx'[n].at = "filter" /\ rx'[n].frame = f
      <4>1. f \notin ToSet(Forwarded'[n])
        BY <1>0, <1>1 DEF Media
      <4> QED BY <1>1, <3>2, <4>1 DEF Work
    <3> QED BY <2>1, <2>2, <3>1, <3>2
  <2>4. <<n, f>> \notin ToSet(inbox)
    <3> SUFFICES ASSUME <<n, f>> \in ToSet(inbox) PROVE FALSE
      OBVIOUS
    <3>1. <<n, f>>[2] \in Came[<<n, f>>[1]]
      BY <1>0 DEF Messages
    <3> QED BY <1>1, <3>1
  <2>5. rx[n].at # "message"
    BY <1>1 DEF Waiting
  <2>6. \A m \in Receivers : \/ rx'[m] = rx[m]
                             \/ /\ rx[m].at # "message" /\ rx'[m].at # "message"
                                /\ rx'[m].at # "wait" => <<m, rx'[m].frame>> \notin ToSet(inbox)
    BY <2>1, <2>2, <2>4, <2>5
  <2>7. Messages'
    BY <1>0, <1>1, <2>6, MessagesKept
  <2> QED BY <2>3, <2>7
<1>2. CASE ArriveFromRing
  <2>1. /\ Lists(ring, OnRing) /\ ring # << >> /\ ring' = Tail(ring)
        /\ rx["shm"] = Waiting /\ Arrived("shm", Head(ring))
        /\ UNCHANGED <<air, local, sent, ringed>>
    BY <1>0, <1>2 DEF ArriveFromRing, Media
  <2>2. Lists(ring', OnRing) /\ Head(ring) \in OnRing /\ Head(ring) \in ToSet(ring)
        /\ ToSet(ring') = ToSet(ring) \ {Head(ring)}
    BY <2>1, ListShrinks
  <2>3. /\ Forwarded' = Forwarded /\ OnRing' = OnRing
        /\ Came'["shm"] = OnRing \ ToSet(ring') /\ Came'["raw"] = Came["raw"]
        /\ Came["shm"] = OnRing \ ToSet(ring)
    BY <2>1 DEF Forwarded, OnRing, Came, Receivers
  <2>4. /\ Head(ring) \notin Came["shm"] /\ Head(ring) \in Came'["shm"]
        /\ \A m \in Receivers : Came[m] \subseteq Came'[m]
    BY <2>2, <2>3 DEF Receivers
  <2>5. Media'
    BY <1>0, <2>1, <2>2, <2>3, <2>4 DEF Media, Side
  <2> QED BY <1>1, <2>1, <2>3, <2>4, <2>5, ReceiversAreThreads DEF Placed
<1>3. CASE ArriveFromAir
  <2>1. PICK f \in air : Arrived("raw", f) /\ air' = air \ {f}
    BY <1>3 DEF ArriveFromAir
  <2>2. rx["raw"] = Waiting /\ UNCHANGED <<ring, local, sent, ringed>>
    BY <1>3 DEF ArriveFromAir
  <2>3. /\ Forwarded' = Forwarded /\ OnRing' = OnRing
        /\ Came'["shm"] = Came["shm"] /\ Came'["raw"] = Frames \ (LocalFrames \cup air')
        /\ Came["raw"] = Frames \ (LocalFrames \cup air)
    BY <2>2 DEF Forwarded, OnRing, Came, Receivers
  <2>4. /\ f \notin Came["raw"] /\ f \in Came'["raw"]
        /\ \A m \in Receivers : Came[m] \subseteq Came'[m]
    <3>1. f \in Frames /\ f \notin LocalFrames
      BY <1>0 DEF Shaped, Media
    <3> QED BY <2>1, <2>3, <3>1 DEF Receivers
  <2>5. Media'
    BY <1>0, <2>1, <2>2, <2>3, <2>4 DEF Media, Side
  <2> QED BY <1>1, <2>1, <2>2, <2>3, <2>4, <2>5, ReceiversAreThreads DEF Placed
<1> QED BY <1>2, <1>3

LEMMA ReceivingPlaced ==
  ASSUME Shaped, Placed, NEW n \in Receivers, Receiving(n) PROVE Placed'
<1>0. /\ Media /\ Messages /\ (\A m \in Receivers : Work(m))
      /\ rx \in [Receivers -> RxType] /\ rx[n] \in RxType
      /\ out[n] # << >> => rx[n].at \in {"notify", "release"}
      /\ UNCHANGED media
  BY DEF Placed, Shaped, RxShaped, Receiving, Filter, ConsumeSptp, Forward, KeepHere, Release,
         Notify, Unmarshal, QueueBuffer, Observe
<1>1. Media' /\ Came' = Came /\ Forwarded' = Forwarded
  BY <1>0, MediaKept
<1>2. /\ \A m \in Receivers : m # n => rx'[m] = rx[m] /\ out'[m] = out[m]
      /\ out'[n] # out[n] => ConsumeSptp(n) \/ Forward(n)
  BY <1>0, ReceiversAreThreads DEF Shaped, OutShaped, Receiving, Filter, GivesBack, ConsumeSptp,
     Forward, KeepHere, Release, Notify, Unmarshal, QueueBuffer, Observe
<1>3. \A m \in Receivers : m # n => Work(m)'
  BY <1>0, <1>1, <1>2, WorkKept
<1>4. ASSUME Work(n)', UNCHANGED <<inbox, live>>, rx[n].at \notin {"wait", "message"},
             rx'[n].at = "wait" \/ (rx'[n].at # "message" /\ rx'[n].frame = rx[n].frame)
      PROVE  Placed'
  <2>1. <<n, rx[n].frame>> \notin ToSet(inbox)
    BY <1>0, <1>4 DEF Messages, MessageOf
  <2>2. Messages'
    BY <1>0, <1>1, <1>2, <1>4, <2>1, MessagesKept
  <2> QED BY <1>1, <1>3, <1>4, <2>2 DEF Placed
<1>5. ASSUME rx' = [rx EXCEPT ![n] = Waiting] PROVE Work(n)' /\ rx'[n].at = "wait"
  BY <1>0, <1>5 DEF Work, Waiting
<1>6. ASSUME NEW place, rx' = [rx EXCEPT ![n].at = place]
      PROVE  rx'[n].at = place /\ rx'[n].frame = rx[n].frame
  BY <1>0, <1>6 DEF RxType
<1>7. CASE Filter(n)
  <2>1. CASE rx[n].frame \in JunkFrames
    BY <1>4, <1>5, <1>7, <2>1 DEF Filter, GivesBack
  <2>2. CASE rx[n].frame \notin JunkFrames
    <3>1. rx'[n].at = "update" /\ rx'[n].frame = rx[n].frame
      BY <1>6, <1>7, <2>2 DEF Filter
    <3>2. Work(n)'
      BY <1>0, <1>1, <1>7, <2>2, <3>1 DEF Filter, Work
    <3> QED BY <1>4, <1>7, <3>1, <3>2 DEF Filter
  <2> QED BY <2>1, <2>2
<1>8. CASE ConsumeSptp(n)
  <2>1. rx'[n].at = "release" /\ rx'[n].frame = rx[n].frame
    BY <1>6, <1>8 DEF ConsumeSptp
  <2>2. Work(n)'
    BY <1>0, <1>1, <1>8, <2>1 DEF ConsumeSptp, Work
  <2> QED BY <1>4, <1>8, <2>1, <2>2 DEF ConsumeSptp
<1>9. CASE Forward(n)
  <2>1. rx'[n].at = "notify" /\ rx'[n].frame = rx[n].frame
    BY <1>6, <1>9 DEF Forward
  <2>2. rx[n].frame \in Came[n] /\ rx[n].frame \notin ToSet(Forwarded[n])
        /\ rx[n].frame \notin JunkFrames /\ rx[n].frame \notin SptpFrames
    BY <1>0, <1>9 DEF Forward, Work
  <2>3. rx[n].frame \in Side(n)
    BY <1>9, <2>2 DEF Forward, Bridges, Side, Came, Frames, Receivers
  <2>4. Work(n)'
    BY <1>1, <2>1, <2>2, <2>3 DEF Work, Side
  <2> QED BY <1>4, <1>9, <2>1, <2>4 DEF Forward
<1>10. CASE KeepHere(n)
  <2>1. rx'[n].at = "notify" /\ rx'[n].frame = rx[n].frame /\ out'[n] = << >>
    BY <1>0, <1>6, <1>10 DEF KeepHere
  <2>2. Work(n)'
    BY <1>0, <1>1, <1>10, <2>1 DEF KeepHere, Work
  <2> QED BY <1>4, <1>10, <2>1, <2>2 DEF KeepHere
<1>11. CASE Release(n)
  BY <1>4, <1>5, <1>11 DEF Release, GivesBack
<1>12. CASE Notify(n)
  <2>1. PICK place \in {"communicator", "release"} : rx' = [rx EXCEPT ![n].at = place]
    BY <1>12 DEF Notify
  <2>2. rx'[n].at = place /\ rx'[n].frame = rx[n].frame
    BY <1>6, <2>1
  <2>3. Work(n)'
    BY <1>0, <1>1, <1>12, <2>2 DEF Notify, Work
  <2> QED BY <1>4, <1>12, <2>2, <2>3 DEF Notify
<1>13. CASE QueueBuffer(n)
  BY <1>4, <1>5, <1>13 DEF QueueBuffer
<1>14. CASE Unmarshal(n)
  <2>1. rx'[n].at = "message" /\ rx'[n].frame = rx[n].frame
    BY <1>0, <1>14 DEF Unmarshal, RxType
  <2>2. Work(n)'
    BY <1>0, <1>1, <1>14, <2>1 DEF Unmarshal, Work
  <2>3. Held' = Held \cup {MessageOf(n)}
    <3>1. \A m : m \in Held' <=> \E k \in Receivers : rx'[k].at = "message" /\ m = <<k, rx'[k].frame>>
      BY DEF Held, MessageOf
    <3>2. \A m : m \in Held' <=> (m \in Held \/ m = <<n, rx[n].frame>>)
      <4>1. rx[n].at # "message" /\ \A k \in Receivers : k # n => rx'[k] = rx[k]
        BY <1>2, <1>14 DEF Unmarshal
      <4> QED BY <2>1, <3>1, <4>1, HeldBy
    <3> QED BY <3>2 DEF MessageOf
  <2>4. live' = Held' \cup ToSet(inbox') /\ inbox' = inbox
    BY <1>0, <1>14, <2>3 DEF Messages, Held, Unmarshal
  <2>5. \A k \in Receivers : rx'[k].at # "wait" => <<k, rx'[k].frame>> \notin ToSet(inbox)
    BY <1>0, <1>2, <1>14, <2>1 DEF Messages, MessageOf, Unmarshal
  <2>6. Messages'
    BY <1>0, <1>1, <2>4, <2>5 DEF Messages, MessageOf, Held
  <2> QED BY <1>1, <1>3, <2>2, <2>6 DEF Placed
<1>15. CASE Observe(n)
  <2>1. Work(n)' /\ rx'[n].at = "wait" /\ rx[n].at = "message"
    BY <1>5, <1>15 DEF Observe
  <2>2. Held' = Held \ {MessageOf(n)} /\ MessageOf(n) \in Held
    <3>1. \A m : m \in Held' <=> \E k \in Receivers : rx'[k].at = "message" /\ m = <<k, rx'[k].frame>>
      BY DEF Held, MessageOf
    <3>2. \A m : m \in Held' <=> (m \in Held /\ m # <<n, rx[n].frame>>)
      BY <1>2, <2>1, <3>1, HeldBy
    <3> QED BY <2>1, <3>2, HeldBy DEF MessageOf
  <2>3. MessageOf(n) \notin ToSet(inbox) /\ live = Held \cup ToSet(inbox)
    BY <1>0, <2>1 DEF Messages, Held
  <2>4. CASE rx[n].frame \notin Kept
    <3>1. live' = Held' \cup ToSet(inbox') /\ inbox' = inbox
      BY <1>15, <2>2, <2>3, <2>4 DEF Observe
    <3>2. \A k \in Receivers : rx'[k].at # "wait" => <<k, rx'[k].frame>> \notin ToSet(inbox)
      BY <1>0, <1>2, <2>1 DEF Messages, MessageOf
    <3>3. Messages'
      BY <1>0, <1>1, <3>1, <3>2 DEF Messages, MessageOf, Held
    <3> QED BY <1>1, <1>3, <2>1, <3>3 DEF Placed
  <2>5. CASE rx[n].frame \in Kept
    <3>1. inbox' = Append(inbox, MessageOf(n)) /\ live' = live
      BY <1>15, <2>5 DEF Observe
    <3>2. rx[n].frame \in Came[n] /\ rx[n].frame \in Frames
      BY <1>0, <2>1 DEF Work, Shaped, RxShaped
    <3>3. Lists(inbox', Receivers \X Frames) /\ ToSet(inbox') = ToSet(inbox) \cup {MessageOf(n)}
      <4>1. MessageOf(n) \in Receivers \X Frames /\ Lists(inbox, Receivers \X Frames)
        BY <1>0, <3>2 DEF MessageOf, Messages
      <4> QED BY <2>3, <3>1, <4>1, ListGrows
    <3>4. live' = Held' \cup ToSet(inbox')
      BY <2>2, <2>3, <3>1, <3>3
    <3>5. \A k \in Receivers : rx'[k].at # "wait" => <<k, rx'[k].frame>> \notin ToSet(inbox')
      BY <1>0, <1>2, <2>1, <3>3 DEF Messages, MessageOf
    <3>6. \A m \in ToSet(inbox') : m[2] \in Came[m[1]]
      BY <1>0, <3>2, <3>3 DEF Messages, MessageOf
    <3>7. Messages'
      BY <1>1, <3>3, <3>4, <3>5, <3>6 DEF Messages, MessageOf, Held
    <3> QED BY <1>1, <1>3, <2>1, <3>7 DEF Placed
  <2> QED BY <2>4, <2>5
<1> QED BY <1>7, <1>8, <1>9, <1>10, <1>11, <1>12, <1>13, <1>14, <1>15 DEF Receiving

LEMMA SendPlaced ==
  ASSUME Shaped, Placed, NEW t \in Threads,
         StartSend(t) \/ NoChange(t) \/ NestedSend(t) \/ FinishSend(t)
  PROVE  Placed'
<1>0. /\ Media /\ Messages /\ (\A n \in Receivers : Work(n))
      /\ UNCHANGED <<rx, inbox, live, air, local>>
  BY DEF Placed, StartSend, NoChange, NestedSend, FinishSend, media
<1>1. /\ \A n \in Receivers : out'[n] # << >> => out[n] # << >>
      /\ \A n \in Receivers : n # t => out'[n] = out[n]
  <2>1. out \in [Threads -> Seq(SendType)] /\ Receivers \subseteq Threads
    BY ReceiversAreThreads DEF Shaped, OutShaped
  <2>2. CASE StartSend(t)
    BY <2>1, <2>2, ThreadsAssumption DEF StartSend
  <2>3. CASE NoChange(t) \/ NestedSend(t) \/ FinishSend(t)
    BY <2>1, <2>3 DEF NoChange, NestedSend, FinishSend, InSend, Stamped
  <2> QED BY <2>2, <2>3
<1>2. CASE UNCHANGED <<ring, sent, ringed>>
  <2>1. Media' /\ Came' = Came /\ Forwarded' = Forwarded
    BY <1>0, <1>2, MediaKept DEF media
  <2>2. \A n \in Receivers : Work(n)'
    BY <1>0, <1>1, <2>1, WorkKept
  <2>3. Messages'
    BY <1>0, <2>1, MessagesKept
  <2> QED BY <2>1, <2>2, <2>3 DEF Placed
<1>3. ASSUME FinishSend(t), t \in Receivers, Len(out[t]) = 1, rx[t].at = "notify"
      PROVE  Placed'
  <2> DEFINE f == rx[t].frame
  <2>1. out[t] # << >> /\ out'[t] = << >>
    <3>1. out[t] \in Seq(SendType) /\ out'[t] = Front(out[t]) /\ out[t] # << >>
      BY <1>3 DEF Shaped, OutShaped, FinishSend, InSend
    <3>2. Front(out[t]) \in Seq(SendType) /\ Len(Front(out[t])) = 0
      BY <1>3, <3>1, LastSend
    <3> QED BY <3>1, <3>2
  <2>2. f \in Came[t] /\ f \notin ToSet(Forwarded[t]) /\ f \in Side(t)
    BY <1>0, <1>3, <2>1 DEF Work
  <2>3. Lists(Forwarded[t], Side(t)) /\ ToSet(Forwarded[t]) \subseteq Came[t]
    BY <1>0, <1>3 DEF Media
  <2>4. /\ Lists(Append(Forwarded[t], f), Side(t))
        /\ ToSet(Append(Forwarded[t], f)) = ToSet(Forwarded[t]) \cup {f}
    BY <2>2, <2>3, ListGrows
  <2>5. Forwarded'[t] = Append(Forwarded[t], f) /\ Came' = Came /\ Media'
        /\ \A n \in Receivers : n # t => Forwarded'[n] = Forwarded[n]
    <3>1. CASE t = "shm"
      <4>1. sent' = Append(sent, f) /\ UNCHANGED <<ring, ringed>>
        BY <1>3, <3>1 DEF FinishSend
      <4>2. /\ OnRing' = OnRing /\ Came' = Came /\ Forwarded'["shm"] = sent' /\ Forwarded["shm"] = sent
            /\ Forwarded'["raw"] = Forwarded["raw"]
        BY <1>0, <4>1 DEF OnRing, Came, Forwarded, Receivers
      <4>3. \A n \in Receivers : Lists(Forwarded'[n], Side(n)) /\ ToSet(Forwarded'[n]) \subseteq Came[n]
        BY <1>0, <2>2, <2>3, <2>4, <3>1, <4>1, <4>2 DEF Media, Receivers
      <4>4. Media'
        BY <1>0, <4>1, <4>2, <4>3 DEF Media, Side
      <4> QED BY <3>1, <4>1, <4>2, <4>4 DEF Receivers
    <3>2. CASE t = "raw"
      <4>1. ringed' = Append(ringed, f) /\ ring' = Append(ring, f) /\ UNCHANGED sent
        BY <1>3, <3>2 DEF FinishSend
      <4>2. Forwarded["raw"] = ringed /\ Forwarded'["raw"] = ringed' /\ Forwarded'["shm"] = Forwarded["shm"]
        BY <1>0, <4>1 DEF Forwarded, Receivers
      <4>3. f \notin LocalFrames /\ f \notin ToSet(ringed) /\ ToSet(ringed') = ToSet(ringed) \cup {f}
        BY <2>2, <2>4, <3>2, <4>1, <4>2 DEF Came, Receivers
      <4>4. OnRing' = OnRing \cup {f} /\ f \notin OnRing
        BY <1>0, <4>3 DEF OnRing
      <4>5. Lists(ring, OnRing') /\ f \notin ToSet(ring)
        BY <1>0, <4>4, ListMoves DEF Media
      <4>6. Lists(ring', OnRing') /\ ToSet(ring') = ToSet(ring) \cup {f}
        BY <4>1, <4>4, <4>5, ListGrows
      <4>7. Came' = Came
        BY <1>0, <4>4, <4>5, <4>6 DEF Came
      <4>8. \A n \in Receivers : Lists(Forwarded'[n], Side(n)) /\ ToSet(Forwarded'[n]) \subseteq Came[n]
        BY <1>0, <2>2, <2>3, <2>4, <3>2, <4>1, <4>2 DEF Media, Receivers
      <4>9. Media'
        BY <1>0, <4>3, <4>6, <4>7, <4>8 DEF Media, Side
      <4> QED BY <3>2, <4>1, <4>2, <4>7, <4>9 DEF Receivers
    <3> QED BY <1>3, <3>1, <3>2 DEF Receivers
  <2>6. Work(t)'
    BY <1>0, <1>3, <2>1, <2>5 DEF Work
  <2>7. \A n \in Receivers : n # t => Work(n)'
    BY <1>0, <1>1, <2>5, WorkKept
  <2>8. Messages'
    BY <1>0, <2>5, MessagesKept
  <2> QED BY <2>5, <2>6, <2>7, <2>8 DEF Placed
<1>4. UNCHANGED <<ring, sent, ringed>>
      \/ (FinishSend(t) /\ t \in Receivers /\ Len(out[t]) = 1 /\ rx[t].at = "notify")
  BY DEF StartSend, NoChange, NestedSend, FinishSend, media
<1> QED BY <1>2, <1>3, <1>4

LEMMA PlacedStep == Shaped /\ Placed /\ [Next]_vars => Placed'
<1> SUFFICES ASSUME Shaped, Placed, [Next]_vars PROVE Placed'
  OBVIOUS
<1>0. Media /\ Messages /\ (\A n \in Receivers : Work(n))
  BY DEF Placed
<1>1. CASE Receive \/ SetInstance \/ AttachCommunicator \/ AttachObserver \/ UNCHANGED vars
  <2>1. UNCHANGED media /\ UNCHANGED <<rx, out, inbox, live>>
    BY <1>1 DEF Receive, SetInstance, AttachCommunicator, AttachObserver, vars, media
  <2>2. Media' /\ Came' = Came /\ Forwarded' = Forwarded
    BY <1>0, <2>1, MediaKept
  <2> QED BY <1>0, <2>1, <2>2, WorkKept, MessagesKept DEF Placed
<1>2. CASE ReceiveResponse
  <2>1. /\ UNCHANGED media /\ UNCHANGED <<rx, out>> /\ inbox # << >>
        /\ inbox' = Tail(inbox) /\ live' = live \ {Head(inbox)}
    BY <1>2 DEF ReceiveResponse
  <2>2. Media' /\ Came' = Came /\ Forwarded' = Forwarded
    BY <1>0, <2>1, MediaKept
  <2>3. /\ Lists(inbox', Receivers \X Frames) /\ Head(inbox) \in ToSet(inbox)
        /\ ToSet(inbox') = ToSet(inbox) \ {Head(inbox)}
    BY <1>0, <2>1, ListShrinks DEF Messages
  <2>4. Held' = Held /\ Held \cap ToSet(inbox) = {}
    <3>1. Held' = Held
      BY <2>1 DEF Held, MessageOf
    <3>2. \A n \in Receivers : rx[n].at = "message" => <<n, rx[n].frame>> \notin ToSet(inbox)
      BY <1>0 DEF Messages, MessageOf
    <3> QED BY <3>1, <3>2, HeldBy
  <2>5. live' = Held' \cup ToSet(inbox')
    <3>1. live = Held \cup ToSet(inbox)
      BY <1>0 DEF Messages, Held
    <3> QED BY <2>1, <2>3, <2>4, <3>1
  <2>6. Messages'
    BY <1>0, <2>1, <2>2, <2>3, <2>5 DEF Messages, MessageOf, Held
  <2> QED BY <1>0, <2>1, <2>2, <2>6, WorkKept DEF Placed
<1>3. CASE Broadcast
  <2>1. PICK f \in local : ring' = Append(ring, f) /\ local' = local \ {f}
    BY <1>3 DEF Broadcast
  <2>2. UNCHANGED <<rx, out, inbox, live, air, sent, ringed>>
    BY <1>3 DEF Broadcast
  <2>3. f \in LocalFrames /\ f \notin OnRing /\ OnRing' = OnRing \cup {f} /\ Forwarded' = Forwarded
    BY <1>0, <2>1, <2>2 DEF Media, OnRing, Forwarded
  <2>4. Lists(ring, OnRing') /\ f \notin ToSet(ring)
    BY <1>0, <2>3, ListMoves DEF Media
  <2>5. Lists(ring', OnRing') /\ ToSet(ring') = ToSet(ring) \cup {f}
    BY <2>1, <2>3, <2>4, ListGrows
  <2>6. Came' = Came
    BY <2>2, <2>3, <2>4, <2>5 DEF Came
  <2>7. Media'
    BY <1>0, <2>1, <2>2, <2>3, <2>5, <2>6 DEF Media, Side
  <2> QED BY <1>0, <2>2, <2>3, <2>6, <2>7, WorkKept, MessagesKept DEF Placed
<1> QED BY <1>1, <1>2, <1>3, ArrivePlaced, ReceivingPlaced, SendPlaced DEF Next

LEMMA AlwaysPlaced == Spec => [](Shaped /\ Placed)
<1> QED BY ShapedInit, ShapedStep, PlacedInit, PlacedStep, PTL DEF Spec

\* A Message is held by the thread that made it or queued once, and what is queued was not
\* deleted, although the two threads make Messages of the same frames of a gateway.
THEOREM MessagesHaveOneOwner == Spec => []MessagesOwned
<1>1. Placed => MessagesOwned
  BY DEF Placed, Messages, Lists, MessagesOwned
<1> QED BY <1>1, AlwaysPlaced, PTL

\* The gateway forwards a frame of a component at most once to the network and one of the
\* network at most once to the ring, and never back, although it reads both in the ring.
THEOREM NoFrameLoops == Spec => []BridgedOnce
<1>1. Placed => BridgedOnce
  <2> SUFFICES ASSUME Placed PROVE BridgedOnce
    OBVIOUS
  <2>1. Lists(sent, LocalFrames) /\ Lists(ringed, RemoteFrames)
    BY DEF Placed, Media, Forwarded, Side, Receivers
  <2> QED BY <2>1, ListMoves DEF Lists, BridgedOnce
<1> QED BY <1>1, AlwaysPlaced, PTL
=============================================================================
