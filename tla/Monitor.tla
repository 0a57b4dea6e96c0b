------------------------------ MODULE Monitor -------------------------------
(***************************************************************************)
(* domain.Monitor: the state machine of one alert rule, as operators.      *)
(* Observe and Check return the monitor's next state together with the     *)
(* event they report.  Times are instants 1, 2, ...; ZeroTime stands for   *)
(* Go's zero time, which the code uses for "not set".                      *)
(***************************************************************************)
EXTENDS Integers

ZeroTime == 0

Ops == {">", ">=", "<", "<=", "absent"}

Events == {"none", "fired", "resolved"}

\* Op.Holds; an absent rule has no threshold to compare with
Holds(op, value, threshold) ==
    \/ op = ">"  /\ value > threshold
    \/ op = ">=" /\ value >= threshold
    \/ op = "<"  /\ value < threshold
    \/ op = "<=" /\ value <= threshold

\* Firing needs no operator: it is the field fired
NewMonitor(rule, grace) ==
    [rule |-> rule, grace |-> grace, since |-> ZeroTime, lastSeen |-> ZeroTime,
     fired |-> FALSE]

\* An absent rule sees a sample: the stream is alive
ObserveAbsent(m, t) ==
    [monitor |-> [m EXCEPT !.lastSeen = t, !.fired = FALSE],
     event   |-> IF m.fired THEN "resolved" ELSE "none"]

\* Mutant of Recover: does not reset the start of the breach
RecoverKeepsSince(m) ==
    [monitor |-> [m EXCEPT !.fired = FALSE],
     event   |-> IF m.fired THEN "resolved" ELSE "none"]

\* A threshold rule sees a sample for which its condition does not hold
Recover(m) ==
    [monitor |-> [m EXCEPT !.since = ZeroTime, !.fired = FALSE],
     event   |-> IF m.fired THEN "resolved" ELSE "none"]

\* Mutant of Breach: fires again at every sample of the same episode
BreachRefires(m, t) ==
    LET since == IF m.since = ZeroTime THEN t ELSE m.since
        fires == t - since >= m.rule.For
    IN [monitor |-> [m EXCEPT !.since = since, !.fired = @ \/ fires],
        event   |-> IF fires THEN "fired" ELSE "none"]

\* Mutant of Breach: needs more than the duration
BreachLate(m, t) ==
    LET since == IF m.since = ZeroTime THEN t ELSE m.since
        fires == ~ m.fired /\ t - since > m.rule.For
    IN [monitor |-> [m EXCEPT !.since = since, !.fired = @ \/ fires],
        event   |-> IF fires THEN "fired" ELSE "none"]

\* A threshold rule sees a sample for which its condition holds
Breach(m, t) ==
    LET since == IF m.since = ZeroTime THEN t ELSE m.since
        fires == ~ m.fired /\ t - since >= m.rule.For
    IN [monitor |-> [m EXCEPT !.since = since, !.fired = @ \/ fires],
        event   |-> IF fires THEN "fired" ELSE "none"]

\* Monitor.Observe
Observe(m, t, value) ==
    IF m.rule.op = "absent" THEN ObserveAbsent(m, t)
    ELSE IF Holds(m.rule.op, value, m.rule.threshold) THEN Breach(m, t)
    ELSE Recover(m)

\* Mutant of Silent: one time unit early
SilentEarly(m, now) == now - m.lastSeen >= m.rule.For - 1

\* Mutant of Silent: needs to have been armed by a sample
SilentAfterSample(m, now) == m.grace = 0 /\ now - m.lastSeen >= m.rule.For

\* The stream has been silent for the rule's duration
Silent(m, now) == now - m.lastSeen >= m.rule.For

\* Monitor.Check: a threshold rule ignores it, the first call for an absent rule
\* arms it
Check(m, now) ==
    LET arms  == m.rule.op = "absent" /\ m.lastSeen = ZeroTime
        fires == m.rule.op = "absent" /\ ~ arms /\ ~ m.fired /\ Silent(m, now)
    IN [monitor |-> [m EXCEPT !.lastSeen = IF arms THEN now + m.grace ELSE @,
                              !.fired = @ \/ fires],
        event   |-> IF fires THEN "fired" ELSE "none"]

=============================================================================
