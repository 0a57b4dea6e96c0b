---------------------------- MODULE SampleStore ----------------------------
(***************************************************************************)
(* What the system of record promises about the samples it has taken in,   *)
(* without mutex, counters, loops or processes: a sample that is taken in   *)
(* stays as it is until it is forgotten, and it is forgotten in one of two  *)
(* ways only, the budget's (domain.Budget: the oldest of all goes first)    *)
(* and the window's (domain.Window: of one stream, everything before a      *)
(* cutoff that is already out of the window, and nothing else).             *)
(*                                                                         *)
(* MemStore implements this specification.                                 *)
(***************************************************************************)
EXTENDS Integers

CONSTANTS
    StreamIDs,   \* the streams senders write to
    Retention,   \* the length of the window
    MaxTime      \* bound: the last instant of the clock and of a time stamp

VARIABLES
    kept,    \* the samples that can be read, each with its stream
    taken,   \* how many samples have been taken in
    now      \* the clock

vars == <<kept, taken, now>>

Init ==
    /\ kept = {}
    /\ taken = 0
    /\ now = 1

\* A sample is taken in, whatever its time, and becomes readable at once
TakeIn ==
    /\ \E id \in StreamIDs, t \in 1 .. MaxTime :
         kept' = kept \cup {[stream |-> id, time |-> t, arrival |-> taken + 1]}
    /\ taken' = taken + 1
    /\ UNCHANGED now

\* The oldest of all is forgotten; of samples of one stream with the same time
\* the one that came first
ForgetOldest ==
    /\ \E s \in kept :
         /\ \A r \in kept : s.time <= r.time
         /\ \A r \in kept :
              r.stream = s.stream /\ r.time = s.time => s.arrival <= r.arrival
         /\ kept' = kept \ {s}
    /\ UNCHANGED <<taken, now>>

\* A stream forgets all it has from before a cutoff that is out of the window
Expire ==
    /\ \E id \in StreamIDs, cutoff \in 1 .. now - Retention :
         kept' = {s \in kept : s.stream = id => s.time >= cutoff}
    /\ UNCHANGED <<taken, now>>

Pass ==
    /\ now' = now + 1
    /\ UNCHANGED <<kept, taken>>

Next == TakeIn \/ ForgetOldest \/ Expire \/ Pass

Spec == Init /\ [][Next]_vars

=============================================================================
