---------------------------- MODULE StampHistory ----------------------------
(***************************************************************************)
(* What the message timestamps of one process promise to those that        *)
(* compare them, whatever draws them: MonotonicStamp is the loop that does.*)
(***************************************************************************)
EXTENDS Integers, Sequences

VARIABLE stamps  \* history: [thread, reading, ts], in the order they were drawn

\* clock.h:20 "garante q (address, timestamp) sejam unicos mesmo se o relogio for
\* ajustado p tras": the stamps of a process strictly increase in the order of the
\* exchanges, whoever draws them and however the clock is set meanwhile, so none
\* is drawn twice and a call that starts after another returned gets a later stamp.
StrictlyIncreasing ==
  \A i, j \in 1 .. Len(stamps) : i < j => stamps[i].ts < stamps[j].ts

\* A stamp is never behind the clock its caller read: freshness tests on messages
\* compare stamps with now_ns(), so a stamp may only err towards the future.
NeverBehindReading == \A i \in 1 .. Len(stamps) : stamps[i].ts >= stamps[i].reading
=============================================================================
