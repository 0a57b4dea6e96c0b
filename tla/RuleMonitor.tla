---------------------------- MODULE RuleMonitor -----------------------------
(***************************************************************************)
(* One alert rule over the life of a system of record: the samples of its  *)
(* stream as they arrive, the ticker that calls Check, and what the        *)
(* documentation says a rule does.  The history of arrivals is kept so that *)
(* what the monitor reports can be compared with what really happened.     *)
(***************************************************************************)
EXTENDS Monitor, Sequences

CONSTANTS
    Rules,        \* the rules a behaviour may be about
    Values,       \* the values samples can have
    Grace,        \* the absent grace, in clock units
    MaxLag,       \* how much older than its arrival a sample's time may be
    MaxTime,      \* bound: the last instant of the clock
    MaxArrivals   \* bound: the samples that arrive

ASSUME RulesAssumption ==
    \A r \in Rules : r.op \in Ops /\ r.threshold \in Int /\ r.For \in Int

ASSUME RuleBoundAssumption ==
    /\ Values \subseteq Int
    /\ Grace \in Nat
    /\ MaxLag \in Nat
    /\ MaxTime \in Nat \ {0}
    /\ MaxArrivals \in Nat

VARIABLES
    monitor,   \* the rule's domain.Monitor
    clock,     \* the wall clock
    now,       \* what Check's caller read from it, ZeroTime between two calls
    history    \* the samples in order of arrival: time, value, arrival instant

vars == <<monitor, clock, now, history>>

Rule == monitor.rule

Threshold == Rule.op # "absent"

-----------------------------------------------------------------------------
\* The program calls Check once before it serves anybody, which arms the rule
Init ==
    /\ clock = 1
    /\ \E r \in Rules : monitor = Check(NewMonitor(r, Grace), clock).monitor
    /\ now = ZeroTime
    /\ history = << >>

\* A sample of the stream arrives; its time is the sender's
Arrive ==
    /\ Len(history) < MaxArrivals
    /\ \E lag \in 0 .. MaxLag, v \in Values :
         /\ clock - lag >= 1
         /\ monitor' = Observe(monitor, clock - lag, v).monitor
         /\ history' = Append(history,
                              [time |-> clock - lag, value |-> v, at |-> clock])
    /\ UNCHANGED <<clock, now>>

\* The check ticker reads the clock and only then waits for the alerter's mutex
CheckRead ==
    /\ now = ZeroTime
    /\ now' = clock
    /\ UNCHANGED <<monitor, clock, history>>

CheckRun ==
    /\ now # ZeroTime
    /\ monitor' = Check(monitor, now).monitor
    /\ now' = ZeroTime
    /\ UNCHANGED <<clock, history>>

Tick ==
    /\ clock < MaxTime
    /\ clock' = clock + 1
    /\ UNCHANGED <<monitor, now, history>>

Next == Arrive \/ CheckRead \/ CheckRun \/ Tick

Spec == Init /\ [][Next]_vars

\* Time passes and the check ticker fires and gets the mutex; samples need not
\* come
FairSpec == Spec /\ WF_vars(Tick) /\ WF_vars(CheckRead) /\ WF_vars(CheckRun)

-----------------------------------------------------------------------------
(* Properties.                                                             *)

Instants == ZeroTime .. MaxTime + Grace

MonitorRecord ==
    [rule : Rules, grace : {Grace}, since : Instants, lastSeen : Instants,
     fired : BOOLEAN]

TypeOK ==
    /\ monitor \in MonitorRecord
    /\ clock \in 1 .. MaxTime
    /\ now \in ZeroTime .. clock
    /\ history \in Seq([time : 1 .. MaxTime, value : Values, at : 1 .. MaxTime])

Breaches(s) == Holds(Rule.op, s.value, Rule.threshold)

\* The condition has held since the i-th arrival, going by the samples' times
HeldSince(i) ==
    \A j \in 1 .. Len(history) :
        (\/ history[j].time > history[i].time
         \/ history[j].time = history[i].time /\ j >= i)
        => Breaches(history[j])

\* By their times, the samples show a breach of at least For up to the latest
Sustained ==
    \E i, j \in 1 .. Len(history) :
        history[j].time - history[i].time >= Rule.For /\ HeldSince(i)

\* The samples have arrived in the order of their times
ArrivedInOrder ==
    \A i, j \in 1 .. Len(history) : i < j => history[i].time <= history[j].time

\* The samples have arrived when they were taken
Prompt == \A i \in 1 .. Len(history) : history[i].time = history[i].at

\* The state is well-typed, and while samples arrive in the order of their times, a
\* threshold rule is firing exactly when its condition has held continuously for
\* its duration, by those times (Observe, over any interleaving with Check).
FiresExactlySustained ==
    TypeOK /\ (Threshold /\ ArrivedInOrder => (monitor.fired <=> Sustained))

\* Whatever the order of arrival, a threshold rule is firing exactly when,
\* since the last arrival for which the condition did not hold, some sample is
\* at least For after the first one (Observe).
FiringByArrival ==
    Threshold =>
        (monitor.fired <=>
            \E i, k \in 1 .. Len(history) :
                /\ i <= k
                /\ \A j \in i .. Len(history) : Breaches(history[j])
                /\ i = 1 \/ ~ Breaches(history[i - 1])
                /\ history[k].time - history[i].time >= Rule.For)

\* While samples arrive when they are taken, an absent rule is firing only if none
\* has been ingested for its duration (README, Alerting: "It fires when no sample
\* has been ingested for the duration"): also with a clock read before the mutex
\* was waited for.  A stream that never reports is not reported absent before the
\* grace and the duration have passed since start (Check, "fires Grace+For later").
FiresOnlySilent ==
    ~ Threshold /\ monitor.fired =>
        /\ Prompt => \A j \in 1 .. Len(history) : clock - history[j].at >= Rule.For
        /\ history = << >> => clock >= 1 + Grace + Rule.For

\* A stream that stays silent for its duration is reported absent (Check, called
\* by the ticker).
SilenceDetected ==
    (~ Threshold /\ MaxTime - monitor.lastSeen >= Rule.For)
        ~> (monitor.fired \/ MaxTime - monitor.lastSeen < Rule.For)

=============================================================================
