---------------------------- MODULE UsecaseProofs ----------------------------
(***************************************************************************)
(* Proofs that a rule fires exactly when the documentation says, for every  *)
(* rule, threshold, duration, grace and lag, and any number of samples; and  *)
(* that the feed's safety properties hold for any number of watch calls, any *)
(* buffer and any number of events.                                         *)
(***************************************************************************)
EXTENDS RuleMonitor, Feed, SequenceTheorems, TLAPS

-----------------------------------------------------------------------------
(* What the operators of Monitor return.                                   *)

\* What Observe and Check make of a monitor
Seen(m, lastSeen, fired) == [m EXCEPT !.lastSeen = lastSeen, !.fired = fired]

Since(m, start, fired) == [m EXCEPT !.since = start, !.fired = fired]

\* A monitor with other times, or another answer, is a monitor.
LEMMA SeenFacts ==
    ASSUME NEW m \in MonitorRecord, NEW a \in Instants, NEW b \in BOOLEAN
    PROVE  /\ Seen(m, a, b) \in MonitorRecord /\ Seen(m, a, b).rule = m.rule
           /\ Seen(m, a, b).since = m.since /\ Seen(m, a, b).lastSeen = a
           /\ Seen(m, a, b).fired = b
    BY DEF MonitorRecord, Seen

\* The same of one whose breach begins or ends.
LEMMA SinceFacts ==
    ASSUME NEW m \in MonitorRecord, NEW a \in Instants, NEW b \in BOOLEAN
    PROVE  /\ Since(m, a, b) \in MonitorRecord /\ Since(m, a, b).rule = m.rule
           /\ Since(m, a, b).since = a /\ Since(m, a, b).lastSeen = m.lastSeen
           /\ Since(m, a, b).fired = b
    BY DEF MonitorRecord, Since

\* Whether an absent rule is found silent
FindsSilent(m, t) == m.rule.op = "absent" /\ m.lastSeen # ZeroTime /\ t - m.lastSeen >= m.rule.For

\* Check arms an absent rule that was not, fires one that is and has been silent, and
\* leaves any other alone.
LEMMA CheckFacts ==
    ASSUME NEW m \in MonitorRecord, NEW t \in 1 .. MaxTime
    PROVE  /\ Check(m, t).monitor \in MonitorRecord
           /\ Check(m, t).monitor.rule = m.rule /\ Check(m, t).monitor.since = m.since
           /\ Check(m, t).monitor.lastSeen =
                 IF m.rule.op = "absent" /\ m.lastSeen = ZeroTime THEN t + Grace ELSE m.lastSeen
           /\ Check(m, t).monitor.fired <=> m.fired \/ FindsSilent(m, t)
<1> DEFINE arms  == m.rule.op = "absent" /\ m.lastSeen = ZeroTime
           fires == m.rule.op = "absent" /\ ~ arms /\ ~ m.fired /\ Silent(m, t)
           a == IF arms THEN t + m.grace ELSE m.lastSeen
           b == m.fired \/ fires
<1>1. Check(m, t).monitor = Seen(m, a, b)
    BY DEF Check, Seen
<1>2. m.fired \in BOOLEAN /\ m.grace = Grace /\ m.lastSeen \in Instants
    BY DEF MonitorRecord
<1>3. a \in Instants /\ b \in BOOLEAN
    BY <1>2, RuleBoundAssumption DEF Instants, ZeroTime
<1>4. b <=> m.fired \/ FindsSilent(m, t)
    BY <1>2 DEF FindsSilent, Silent
<1>5. a = IF m.rule.op = "absent" /\ m.lastSeen = ZeroTime THEN t + Grace ELSE m.lastSeen
    BY <1>2
<1> HIDE DEF a, b
<1>6. /\ Check(m, t).monitor \in MonitorRecord
      /\ Check(m, t).monitor.rule = m.rule /\ Check(m, t).monitor.since = m.since
      /\ Check(m, t).monitor.lastSeen = a /\ Check(m, t).monitor.fired = b
    BY <1>1, <1>3, SeenFacts
<1> QED
    BY <1>4, <1>5, <1>6

\* Observe notes a sample of an absent rule, starts or goes on with a breach, or ends
\* one.
LEMMA ObserveFacts ==
    ASSUME NEW m \in MonitorRecord, NEW t \in 1 .. MaxTime, NEW v \in Values
    PROVE  /\ Observe(m, t, v).monitor \in MonitorRecord
           /\ Observe(m, t, v).monitor.rule = m.rule
           /\ m.rule.op = "absent" =>
                 Observe(m, t, v).monitor.lastSeen = t /\ ~ Observe(m, t, v).monitor.fired
           /\ m.rule.op # "absent" /\ ~ Holds(m.rule.op, v, m.rule.threshold) =>
                 /\ Observe(m, t, v).monitor.since = ZeroTime
                 /\ ~ Observe(m, t, v).monitor.fired
           /\ m.rule.op # "absent" /\ Holds(m.rule.op, v, m.rule.threshold) =>
                 LET start == IF m.since = ZeroTime THEN t ELSE m.since
                 IN /\ Observe(m, t, v).monitor.since = start
                    /\ Observe(m, t, v).monitor.fired <=> m.fired \/ t - start >= m.rule.For
<1>0. /\ t \in Instants /\ ZeroTime \in Instants /\ FALSE \in BOOLEAN
      /\ m.fired \in BOOLEAN /\ m.since \in Instants /\ m.lastSeen \in Instants
    BY RuleBoundAssumption DEF MonitorRecord, Instants, ZeroTime
<1>1. CASE m.rule.op = "absent"
  <2> DEFINE b == FALSE
  <2>1. Observe(m, t, v).monitor = Seen(m, t, b)
      BY <1>1 DEF Seen, Observe, ObserveAbsent
  <2>3. b \in BOOLEAN /\ ~ b
      OBVIOUS
  <2> HIDE DEF b
  <2>2. /\ Observe(m, t, v).monitor \in MonitorRecord
        /\ Observe(m, t, v).monitor.rule = m.rule
        /\ Observe(m, t, v).monitor.lastSeen = t
        /\ Observe(m, t, v).monitor.fired = b
      BY <1>0, <2>1, <2>3, SeenFacts
  <2> QED
      BY <1>1, <2>2, <2>3
<1>2. CASE m.rule.op # "absent" /\ ~ Holds(m.rule.op, v, m.rule.threshold)
  <2> DEFINE b == FALSE
  <2>1. Observe(m, t, v).monitor = Since(m, ZeroTime, b)
      BY <1>2 DEF Since, Observe, Recover
  <2>3. b \in BOOLEAN /\ ~ b
      OBVIOUS
  <2> HIDE DEF b
  <2>2. /\ Observe(m, t, v).monitor \in MonitorRecord
        /\ Observe(m, t, v).monitor.rule = m.rule
        /\ Observe(m, t, v).monitor.since = ZeroTime
        /\ Observe(m, t, v).monitor.fired = b
      BY <1>0, <2>1, <2>3, SinceFacts
  <2> QED
      BY <1>2, <2>2, <2>3
<1>3. CASE m.rule.op # "absent" /\ Holds(m.rule.op, v, m.rule.threshold)
  <2> DEFINE start == IF m.since = ZeroTime THEN t ELSE m.since
             fires == ~ m.fired /\ t - start >= m.rule.For
             b == m.fired \/ fires
  <2>1. Observe(m, t, v).monitor = Since(m, start, b)
      BY <1>3 DEF Since, Observe, Breach
  <2>2. start \in Instants /\ b \in BOOLEAN /\ (b <=> m.fired \/ t - start >= m.rule.For)
      BY <1>0
  <2> HIDE DEF b
  <2>3. /\ Observe(m, t, v).monitor \in MonitorRecord
        /\ Observe(m, t, v).monitor.rule = m.rule
        /\ Observe(m, t, v).monitor.since = start
        /\ Observe(m, t, v).monitor.fired = b
    <3> HIDE DEF start
    <3> QED
        BY <2>1, <2>2, SinceFacts
  <2> QED
      BY <1>3, <2>2, <2>3
<1> QED
    BY <1>1, <1>2, <1>3

-----------------------------------------------------------------------------
(* Types, and what a sample that arrives does to the history.              *)

Sample == [time : 1 .. MaxTime, value : Values, at : 1 .. MaxTime]

\* An arrival, in full: a sample whose time is not after the clock's.
LEMMA ArriveFacts ==
    ASSUME TypeOK, Arrive
    PROVE  \E s \in Sample :
              /\ s.at = clock /\ s.time <= clock
              /\ monitor' = Observe(monitor, s.time, s.value).monitor
              /\ history' \in Seq(Sample) /\ Len(history') = Len(history) + 1
              /\ \A j \in 1 .. Len(history) : history'[j] = history[j]
              /\ history'[Len(history) + 1] = s
<1>1. PICK lag \in 0 .. MaxLag, v \in Values :
         /\ clock - lag >= 1
         /\ monitor' = Observe(monitor, clock - lag, v).monitor
         /\ history' = Append(history, [time |-> clock - lag, value |-> v, at |-> clock])
    BY DEF Arrive
<1> DEFINE s == [time |-> clock - lag, value |-> v, at |-> clock]
<1>2. s \in Sample /\ s.at = clock /\ s.time <= clock /\ s.time = clock - lag /\ s.value = v
    BY <1>1, RuleBoundAssumption DEF TypeOK, Sample
<1>3. history \in Seq(Sample)
    BY DEF TypeOK, Sample
<1> HIDE DEF s
<1>4. /\ history' \in Seq(Sample) /\ Len(history') = Len(history) + 1
      /\ \A j \in 1 .. Len(history) : history'[j] = history[j]
      /\ history'[Len(history) + 1] = s
    BY <1>1, <1>2, <1>3 DEF s
<1> QED
    BY <1>1, <1>2, <1>4

\* Every step keeps the types.
LEMMA TypeStep == TypeOK /\ [Next]_vars => TypeOK'
<1> SUFFICES ASSUME TypeOK, [Next]_vars
             PROVE  TypeOK'
    OBVIOUS
<1>0. monitor \in MonitorRecord /\ clock \in 1 .. MaxTime /\ now \in ZeroTime .. clock
    BY DEF TypeOK
<1>1. CASE Arrive
  <2>1. PICK s \in Sample : /\ monitor' = Observe(monitor, s.time, s.value).monitor
                            /\ history' \in Seq(Sample)
      BY <1>1, ArriveFacts
  <2>2. s.time \in 1 .. MaxTime /\ s.value \in Values
      BY DEF Sample
  <2>3. monitor' \in MonitorRecord
      BY <1>0, <2>1, <2>2, ObserveFacts
  <2> QED
      BY <1>1, <2>1, <2>3 DEF Arrive, TypeOK, Sample
<1>2. CASE CheckRead
    BY <1>2 DEF CheckRead, TypeOK, ZeroTime
<1>3. CASE CheckRun
  <2>1. now \in 1 .. MaxTime
      BY <1>0, <1>3, RuleBoundAssumption DEF CheckRun, ZeroTime
  <2>2. monitor' \in MonitorRecord
      BY <1>0, <1>3, <2>1, CheckFacts DEF CheckRun
  <2> QED
      BY <1>3, <2>2 DEF CheckRun, TypeOK, ZeroTime
<1>4. CASE Tick
    BY <1>4, RuleBoundAssumption DEF Tick, TypeOK, ZeroTime
<1>5. CASE UNCHANGED vars
    BY <1>5 DEF vars, TypeOK
<1> QED
    BY <1>1, <1>2, <1>3, <1>4, <1>5 DEF Next

\* The monitor the program begins with: a new one, armed by the first Check.
LEMMA InitFacts ==
    ASSUME Init
    PROVE  /\ TypeOK /\ monitor.since = ZeroTime /\ ~ monitor.fired
           /\ ~ Threshold => monitor.lastSeen = 1 + Grace
<1>1. PICK r \in Rules : monitor = Check(NewMonitor(r, Grace), 1).monitor
    BY DEF Init
<1> DEFINE m == NewMonitor(r, Grace)
<1>2. /\ m \in MonitorRecord /\ m.rule = r /\ m.since = ZeroTime /\ m.lastSeen = ZeroTime
      /\ ~ m.fired /\ 1 \in 1 .. MaxTime
    BY <1>1, RuleBoundAssumption DEF NewMonitor, MonitorRecord, Instants, ZeroTime
<1> HIDE DEF m
<1>3. /\ monitor \in MonitorRecord /\ monitor.rule = r /\ monitor.since = ZeroTime
      /\ monitor.lastSeen = IF r.op = "absent" THEN 1 + Grace ELSE ZeroTime
      /\ ~ monitor.fired
  <2>1. ~ FindsSilent(m, 1)
      BY <1>2 DEF FindsSilent
  <2>2. monitor = Check(m, 1).monitor
      BY <1>1 DEF m
  <2> QED
      BY <1>2, <2>1, <2>2, CheckFacts
<1> QED
    BY <1>3, RuleBoundAssumption DEF Init, TypeOK, Threshold, Rule, ZeroTime

\* The monitor and what surrounds it keep their types.
THEOREM TypeCorrect == Spec => []TypeOK
    BY InitFacts, TypeStep, PTL DEF Spec

-----------------------------------------------------------------------------
(* Threshold rules.                                                        *)

\* The run of breaching samples that is still going on began with the i-th arrival
RunFrom(i) ==
    /\ i \in 1 .. Len(history)
    /\ \A j \in i .. Len(history) : Breaches(history[j])
    /\ i = 1 \/ ~ Breaches(history[i - 1])

\* since is the time of the first sample of that run, and the rule is firing when a
\* later sample of it is For after that time
RunInv ==
    Threshold =>
        /\ monitor.since = ZeroTime =>
              /\ ~ monitor.fired
              /\ history = << >> \/ ~ Breaches(history[Len(history)])
        /\ monitor.since # ZeroTime =>
              \E i \in 1 .. Len(history) :
                  /\ RunFrom(i)
                  /\ monitor.since = history[i].time
                  /\ monitor.fired <=> \E k \in i .. Len(history) :
                                          history[k].time - history[i].time >= Rule.For

\* There is at most one run going on, and it contains every arrival since which the
\* condition has held.
LEMMA RunUnique ==
    ASSUME TypeOK, NEW i, RunFrom(i), NEW k \in 1 .. Len(history),
           \A j \in k .. Len(history) : Breaches(history[j])
    PROVE  i <= k
<1>1. i \in Int /\ Len(history) \in Nat /\ k \in Int
    BY DEF RunFrom, TypeOK
<1>2. CASE i > k
  <2>1. i - 1 \in k .. Len(history) /\ i # 1
      BY <1>1, <1>2 DEF RunFrom
  <2> QED
      BY <2>1 DEF RunFrom
<1> QED
    BY <1>1, <1>2

\* Every step keeps the run.
LEMMA RunStep == TypeOK /\ RunInv /\ [Next]_vars => RunInv'
<1> SUFFICES ASSUME TypeOK, RunInv, [Next]_vars, Threshold'
             PROVE  RunInv'
    BY DEF RunInv
<1>0. /\ monitor \in MonitorRecord /\ Len(history) \in Nat
      /\ history \in Seq(Sample) /\ clock \in 1 .. MaxTime /\ now \in ZeroTime .. clock
    BY DEF TypeOK, Sample
<1>1. ASSUME UNCHANGED <<monitor, history>>
      PROVE  RunInv'
    BY <1>1 DEF RunInv, RunFrom, Threshold, Rule, Breaches
<1>2. CASE Arrive
  <2>1. PICK s \in Sample :
              /\ monitor' = Observe(monitor, s.time, s.value).monitor
              /\ Len(history') = Len(history) + 1
              /\ \A j \in 1 .. Len(history) : history'[j] = history[j]
              /\ history'[Len(history) + 1] = s
      BY <1>2, ArriveFacts
  <2>2. s.time \in 1 .. MaxTime /\ s.value \in Values
      BY DEF Sample
  <2>3. monitor'.rule = monitor.rule
      BY <1>0, <2>1, <2>2, ObserveFacts
  <2>4. Threshold /\ Rule' = Rule /\ \A x : Breaches(x)' <=> Breaches(x)
      BY <2>3 DEF Threshold, Rule, Breaches
  <2>5. CASE ~ Breaches(s)
    <3>1. monitor'.since = ZeroTime /\ ~ monitor'.fired
        BY <1>0, <2>1, <2>2, <2>4, <2>5, ObserveFacts DEF Breaches, Threshold, Rule
    <3>2. ~ Breaches(history[Len(history)])'
        BY <2>1, <2>4, <2>5, <1>0
    <3> QED
        BY <3>1, <3>2 DEF RunInv
  <2>6. CASE Breaches(s) /\ monitor.since = ZeroTime
    <3>1. /\ monitor'.since = s.time
          /\ monitor'.fired <=> s.time - s.time >= Rule.For
        BY <1>0, <2>1, <2>2, <2>4, <2>6, ObserveFacts DEF Breaches, Threshold, Rule, RunInv
    <3>2. history = << >> \/ ~ Breaches(history[Len(history)])
        BY <2>4, <2>6 DEF RunInv
    <3>3. PICK n \in Nat : n = Len(history) + 1
        BY <1>0
    <3>4. RunFrom(n)'
        BY <1>0, <2>1, <2>4, <2>6, <3>2, <3>3 DEF RunFrom
    <3>5. monitor'.since # ZeroTime /\ monitor'.since = history'[n].time
        BY <2>1, <2>2, <3>1, <3>3 DEF ZeroTime
    <3>6. monitor'.fired <=> \E k \in n .. Len(history') :
                                history'[k].time - history'[n].time >= Rule.For
        BY <1>0, <2>1, <3>1, <3>3
    <3> QED
        BY <1>0, <2>1, <2>4, <3>3, <3>4, <3>5, <3>6 DEF RunInv
  <2>7. CASE Breaches(s) /\ monitor.since # ZeroTime
    <3>1. PICK i \in 1 .. Len(history) :
                  /\ RunFrom(i)
                  /\ monitor.since = history[i].time
                  /\ monitor.fired <=> \E k \in i .. Len(history) :
                                          history[k].time - history[i].time >= Rule.For
        BY <2>4, <2>7 DEF RunInv
    <3>2. /\ monitor'.since = monitor.since
          /\ monitor'.fired <=> monitor.fired \/ s.time - monitor.since >= Rule.For
        BY <1>0, <2>1, <2>2, <2>4, <2>7, ObserveFacts DEF Breaches, Threshold, Rule
    <3>3. RunFrom(i)'
        BY <1>0, <2>1, <2>4, <2>7, <3>1 DEF RunFrom
    <3>4. monitor'.since = history'[i].time
        BY <2>1, <3>1, <3>2
    <3>5. monitor'.fired <=> \E k \in i .. Len(history') :
                                history'[k].time - history'[i].time >= Rule.For
        BY <1>0, <2>1, <3>1, <3>2
    <3> QED
        BY <1>0, <2>1, <2>4, <2>7, <3>2, <3>3, <3>4, <3>5 DEF RunInv
  <2> QED
      BY <2>5, <2>6, <2>7
<1>3. CASE CheckRun
  <2>1. now \in 1 .. MaxTime /\ UNCHANGED history /\ monitor' = Check(monitor, now).monitor
      BY <1>0, <1>3, RuleBoundAssumption DEF CheckRun, ZeroTime
  <2>2. monitor'.rule = monitor.rule
      BY <1>0, <2>1, CheckFacts
  <2>3. Threshold /\ Rule' = Rule /\ \A x : Breaches(x)' <=> Breaches(x)
      BY <2>2 DEF Threshold, Rule, Breaches
  <2>4. monitor'.since = monitor.since /\ (monitor'.fired <=> monitor.fired)
      BY <1>0, <2>1, <2>3, CheckFacts DEF FindsSilent, Threshold, Rule
  <2>5. \A i : RunFrom(i)' <=> RunFrom(i)
      BY <2>1, <2>3 DEF RunFrom
  <2> QED
      BY <2>1, <2>3, <2>4, <2>5 DEF RunInv
<1> QED
    BY <1>1, <1>2, <1>3 DEF Next, vars, CheckRead, Tick

\* Whatever the order of arrival, a threshold rule is firing exactly when the run of
\* breaching samples that is going on has one For after its first.
THEOREM FiringRight == Spec => []FiringByArrival
<1>1. Init => RunInv
    BY InitFacts DEF Init, RunInv
<1>2. TypeOK /\ RunInv => FiringByArrival
  <2> SUFFICES ASSUME TypeOK, RunInv, Threshold
               PROVE  monitor.fired <=>
                         \E i, k \in 1 .. Len(history) :
                             /\ i <= k
                             /\ \A j \in i .. Len(history) : Breaches(history[j])
                             /\ i = 1 \/ ~ Breaches(history[i - 1])
                             /\ history[k].time - history[i].time >= Rule.For
      BY DEF FiringByArrival
  <2>0. Len(history) \in Nat
      BY DEF TypeOK
  <2>1. CASE monitor.since = ZeroTime
    <3>1. ~ monitor.fired /\ (history = << >> \/ ~ Breaches(history[Len(history)]))
        BY <2>1 DEF RunInv
    <3>2. ~ \E i \in 1 .. Len(history) : \A j \in i .. Len(history) : Breaches(history[j])
        BY <2>0, <3>1
    <3> QED
        BY <3>1, <3>2
  <2>2. CASE monitor.since # ZeroTime
    <3>1. PICK i \in 1 .. Len(history) :
                  /\ RunFrom(i)
                  /\ monitor.fired <=> \E k \in i .. Len(history) :
                                          history[k].time - history[i].time >= Rule.For
        BY <2>2 DEF RunInv
    <3>2. \A h \in 1 .. Len(history) : RunFrom(h) => h = i
      <4> SUFFICES ASSUME NEW h \in 1 .. Len(history), RunFrom(h)
                   PROVE  h = i
          OBVIOUS
      <4>1. h <= i
          BY <3>1, RunUnique DEF RunFrom
      <4>2. i <= h
          BY <3>1, RunUnique DEF RunFrom
      <4> QED
          BY <2>0, <4>1, <4>2
    <3>3. ASSUME NEW h \in 1 .. Len(history), NEW k \in 1 .. Len(history), h <= k,
                 \A j \in h .. Len(history) : Breaches(history[j]),
                 h = 1 \/ ~ Breaches(history[h - 1]),
                 history[k].time - history[h].time >= Rule.For
          PROVE  monitor.fired
      <4>1. h = i
          BY <3>2, <3>3 DEF RunFrom
      <4> QED
          BY <2>0, <3>1, <3>3, <4>1
    <3>4. ASSUME monitor.fired
          PROVE  \E k \in i .. Len(history) :
                    /\ k \in 1 .. Len(history) /\ i <= k
                    /\ history[k].time - history[i].time >= Rule.For
        BY <2>0, <3>1, <3>4
    <3> QED
        BY <3>1, <3>3, <3>4 DEF RunFrom
  <2> QED
      BY <2>1, <2>2
<1> QED
    BY <1>1, <1>2, RunStep, TypeCorrect, PTL DEF Spec

\* While samples arrive in the order of their times, that is what the documentation
\* says: the condition has held for For, by the samples' times.
THEOREM FiringSustained == Spec => []FiresExactlySustained
<1>1. Init => RunInv
    BY InitFacts DEF Init, RunInv
<1>2. TypeOK /\ RunInv => FiresExactlySustained
  <2> SUFFICES ASSUME TypeOK, RunInv, Threshold, ArrivedInOrder
               PROVE  monitor.fired <=> Sustained
      BY DEF FiresExactlySustained
  <2>0. /\ Len(history) \in Nat /\ Rule.For \in Int
        /\ \A j \in 1 .. Len(history) : history[j].time \in Int
    <3>1. Rule \in Rules
        BY DEF TypeOK, MonitorRecord, Rule
    <3>2. history \in Seq(Sample)
        BY DEF TypeOK, Sample
    <3>3. \A s \in Sample : s.time \in Int
        BY DEF Sample
    <3>4. Len(history) \in Nat /\ \A j \in 1 .. Len(history) : history[j] \in Sample
        BY <3>2
    <3> QED
        BY <3>1, <3>3, <3>4, RulesAssumption
  <2>1. \A i \in 1 .. Len(history) :
           HeldSince(i) <=> \A j \in i .. Len(history) : Breaches(history[j])
      BY <2>0 DEF HeldSince, ArrivedInOrder
  <2>2. CASE monitor.since = ZeroTime
    <3>1. ~ monitor.fired /\ (history = << >> \/ ~ Breaches(history[Len(history)]))
        BY <2>2 DEF RunInv
    <3>2. ~ \E i \in 1 .. Len(history) : HeldSince(i)
        BY <2>0, <2>1, <3>1
    <3> QED
        BY <3>1, <3>2 DEF Sustained
  <2>3. CASE monitor.since # ZeroTime
    <3>1. PICK i \in 1 .. Len(history) :
                  /\ RunFrom(i)
                  /\ monitor.fired <=> \E k \in i .. Len(history) :
                                          history[k].time - history[i].time >= Rule.For
        BY <2>3 DEF RunInv
    <3>2. ASSUME monitor.fired
          PROVE  Sustained
      <4>1. HeldSince(i)
          BY <2>1, <3>1 DEF RunFrom
      <4> QED
          BY <2>0, <3>1, <3>2, <4>1 DEF Sustained
    <3>3. ASSUME Sustained
          PROVE  monitor.fired
      <4>1. PICK h, k \in 1 .. Len(history) :
                   history[k].time - history[h].time >= Rule.For /\ HeldSince(h)
          BY <3>3 DEF Sustained
      <4>2. i <= h
          BY <2>1, <3>1, <4>1, RunUnique
      <4>3. history[i].time <= history[h].time
          BY <2>0, <4>1, <4>2, <3>1 DEF ArrivedInOrder
      <4>4. history[k].time <= history[Len(history)].time
          BY <2>0, <4>1 DEF ArrivedInOrder
      <4>5. /\ history[Len(history)].time \in Int /\ history[i].time \in Int
            /\ history[h].time \in Int /\ history[k].time \in Int
          BY <2>0, <3>1, <4>1
      <4>6. history[Len(history)].time - history[i].time >= Rule.For
          BY <2>0, <4>1, <4>3, <4>4, <4>5
      <4> QED
          BY <2>0, <3>1, <4>6
    <3> QED
        BY <3>2, <3>3
  <2> QED
      BY <2>2, <2>3
<1> QED
    BY <1>1, <1>2, RunStep, TypeCorrect, PTL DEF Spec

-----------------------------------------------------------------------------
(* Absent rules.                                                           *)

\* An absent rule is armed from the start; it is firing only when it has been silent
\* since lastSeen, which is the latest arrival if they are prompt
SilentInv ==
    /\ \A j \in 1 .. Len(history) : history[j].at <= clock
    /\ ~ Threshold =>
          /\ monitor.lastSeen # ZeroTime
          /\ monitor.fired => clock - monitor.lastSeen >= Rule.For
          /\ history = << >> => monitor.lastSeen = 1 + Grace
          /\ Prompt => \A j \in 1 .. Len(history) : history[j].at <= monitor.lastSeen

\* Every step keeps that.
LEMMA SilentStep == TypeOK /\ SilentInv /\ [Next]_vars => SilentInv'
<1> SUFFICES ASSUME TypeOK, SilentInv, [Next]_vars
             PROVE  SilentInv'
    OBVIOUS
<1>0. /\ monitor \in MonitorRecord /\ clock \in 1 .. MaxTime /\ now \in ZeroTime .. clock
      /\ history \in Seq(Sample) /\ Len(history) \in Nat
      /\ monitor.lastSeen \in Int /\ Rule \in Rules /\ Rule.For \in Int
    BY RulesAssumption, RuleBoundAssumption
       DEF TypeOK, Sample, MonitorRecord, Rule, Instants, ZeroTime
<1>1. ASSUME UNCHANGED <<monitor, history>>, clock' \in {clock, clock + 1}
      PROVE  SilentInv'
  <2>1. \A j \in 1 .. Len(history) : history[j].at \in Int
    <3>1. \A j \in 1 .. Len(history) : history[j] \in Sample
        BY <1>0
    <3> QED
        BY <3>1 DEF Sample
  <2> QED
      BY <1>0, <1>1, <2>1 DEF SilentInv, Threshold, Rule, Prompt
<1>2. CASE Arrive
  <2>1. PICK s \in Sample :
              /\ s.at = clock
              /\ monitor' = Observe(monitor, s.time, s.value).monitor
              /\ Len(history') = Len(history) + 1
              /\ \A j \in 1 .. Len(history) : history'[j] = history[j]
              /\ history'[Len(history) + 1] = s
      BY <1>2, ArriveFacts
  <2>2. s.time \in 1 .. MaxTime /\ s.value \in Values /\ UNCHANGED clock /\ history' # << >>
      BY SMTT(30), <1>0, <1>2, <2>1 DEF Sample, Arrive
  <2>3. monitor'.rule = monitor.rule
      BY <1>0, <2>1, <2>2, ObserveFacts
  <2>4. Rule' = Rule /\ (Threshold' <=> Threshold)
      BY <2>3 DEF Threshold, Rule
  <2>5. \A j \in 1 .. Len(history') : history'[j].at <= clock
      BY <1>0, <2>1 DEF SilentInv
  <2>6. ASSUME ~ Threshold
        PROVE  /\ monitor'.lastSeen = s.time /\ ~ monitor'.fired
               /\ Prompt' => s.time = clock
    <3>1. monitor'.lastSeen = s.time /\ ~ monitor'.fired
        BY <1>0, <2>1, <2>2, <2>6, ObserveFacts DEF Threshold, Rule
    <3>2. Prompt' => s.time = clock
        BY <1>0, <2>1 DEF Prompt
    <3> QED
        BY <3>1, <3>2
  <2> QED
      BY <2>2, <2>4, <2>5, <2>6 DEF SilentInv, ZeroTime
<1>3. CASE CheckRun
  <2>1. /\ now \in 1 .. MaxTime /\ UNCHANGED <<history, clock>>
        /\ monitor' = Check(monitor, now).monitor
      BY <1>0, <1>3, RuleBoundAssumption DEF CheckRun, ZeroTime
  <2>2. monitor'.rule = monitor.rule
      BY <1>0, <2>1, CheckFacts
  <2>3. Rule' = Rule /\ (Threshold' <=> Threshold) /\ (Prompt' <=> Prompt)
      BY <2>1, <2>2 DEF Threshold, Rule, Prompt
  <2>4. ASSUME ~ Threshold
        PROVE  /\ monitor'.lastSeen = monitor.lastSeen
               /\ monitor'.fired => clock - monitor.lastSeen >= Rule.For
    <3>1. /\ monitor'.lastSeen = monitor.lastSeen
          /\ monitor'.fired <=> monitor.fired \/ FindsSilent(monitor, now)
        BY <1>0, <2>1, <2>4, CheckFacts DEF SilentInv
    <3>2. FindsSilent(monitor, now) => clock - monitor.lastSeen >= Rule.For
        BY <1>0, <2>1 DEF FindsSilent, Rule, ZeroTime
    <3> QED
        BY <2>4, <3>1, <3>2 DEF SilentInv
  <2> QED
      BY <2>1, <2>3, <2>4 DEF SilentInv
<1> QED
    BY <1>1, <1>2, <1>3 DEF Next, vars, CheckRead, Tick

\* An absent rule fires only when the stream has been silent for its duration, with
\* whatever clock Check was called, and never before the grace is over.
THEOREM SilenceReal == Spec => []FiresOnlySilent
<1>1. Init => SilentInv
    BY InitFacts, RuleBoundAssumption DEF Init, SilentInv, ZeroTime
<1>2. TypeOK /\ SilentInv => FiresOnlySilent
  <2> SUFFICES ASSUME TypeOK, SilentInv, ~ Threshold, monitor.fired
               PROVE  /\ Prompt => \A j \in 1 .. Len(history) : clock - history[j].at >= Rule.For
                      /\ history = << >> => clock >= 1 + Grace + Rule.For
      BY DEF FiresOnlySilent
  <2>1. /\ history \in Seq(Sample) /\ clock \in Int /\ monitor.lastSeen \in Int
        /\ Rule \in Rules /\ Rule.For \in Int /\ Grace \in Nat
      BY RulesAssumption, RuleBoundAssumption
         DEF TypeOK, Sample, MonitorRecord, Rule, Instants, ZeroTime
  <2>2. \A j \in 1 .. Len(history) : history[j].at \in Int
    <3>1. \A j \in 1 .. Len(history) : history[j] \in Sample
        BY <2>1
    <3> QED
        BY <3>1 DEF Sample
  <2> QED
      BY <2>1, <2>2 DEF SilentInv
<1> QED
    BY <1>1, <1>2, SilentStep, TypeCorrect, PTL DEF Spec

-----------------------------------------------------------------------------
(* The feed: the two things that happen to a channel.                       *)

\* Receiving takes the first element and shifts the others.
LEMMA TailFacts ==
    ASSUME NEW S, NEW s \in Seq(S), s # << >>
    PROVE  /\ Len(s) \in Nat /\ Len(s) >= 1
           /\ Head(s) = s[1] /\ Head(s) \in S
           /\ Tail(s) \in Seq(S)
           /\ Len(Tail(s)) = Len(s) - 1
           /\ \A i \in 1 .. Len(s) - 1 : Tail(s)[i] = s[i + 1]
    BY HeadTailProperties, EmptySeq, LenProperties, ElementOfSeq

\* Sending puts one behind them.
LEMMA AppendFacts ==
    ASSUME NEW S, NEW s \in Seq(S), NEW e \in S
    PROVE  /\ Len(s) \in Nat
           /\ Append(s, e) \in Seq(S)
           /\ Len(Append(s, e)) = Len(s) + 1
           /\ Append(s, e)[Len(s) + 1] = e
           /\ \A i \in 1 .. Len(s) : Append(s, e)[i] = s[i]
    BY AppendProperties, LenProperties

\* The elements of a sequence
Elements(s) == {s[i] : i \in 1 .. Len(s)}

\* Receiving takes one element out.
LEMMA TailElements ==
    ASSUME NEW S, NEW s \in Seq(S), s # << >>
    PROVE  Elements(s) = {Head(s)} \cup Elements(Tail(s))
<1>1. /\ Len(s) \in Nat /\ Len(s) >= 1 /\ Head(s) = s[1]
      /\ Len(Tail(s)) = Len(s) - 1
      /\ \A i \in 1 .. Len(s) - 1 : Tail(s)[i] = s[i + 1]
    BY TailFacts
<1>2. ASSUME NEW x \in Elements(s)
      PROVE  x \in {Head(s)} \cup Elements(Tail(s))
  <2>1. PICK i \in 1 .. Len(s) : x = s[i]
      BY DEF Elements
  <2>2. CASE i = 1
      BY <1>1, <2>1, <2>2
  <2>3. CASE i # 1
    <3>1. i - 1 \in 1 .. Len(Tail(s)) /\ Tail(s)[i - 1] = s[i]
        BY <1>1, <2>1, <2>3
    <3> QED
        BY <2>1, <3>1 DEF Elements
  <2> QED
      BY <2>2, <2>3
<1>3. ASSUME NEW x \in Elements(Tail(s))
      PROVE  x \in Elements(s)
  <2>1. PICK i \in 1 .. Len(Tail(s)) : x = Tail(s)[i]
      BY DEF Elements
  <2>2. i + 1 \in 1 .. Len(s) /\ s[i + 1] = x
      BY <1>1, <2>1
  <2> QED
      BY <2>2 DEF Elements
<1>4. Head(s) \in Elements(s)
    BY <1>1 DEF Elements
<1> QED
    BY <1>2, <1>3, <1>4

\* Sending puts one element in.
LEMMA AppendElements ==
    ASSUME NEW S, NEW s \in Seq(S), NEW e \in S
    PROVE  Elements(Append(s, e)) = Elements(s) \cup {e}
<1>1. /\ Len(s) \in Nat /\ Len(Append(s, e)) = Len(s) + 1
      /\ Append(s, e)[Len(s) + 1] = e
      /\ \A i \in 1 .. Len(s) : Append(s, e)[i] = s[i]
    BY AppendFacts
<1>2. ASSUME NEW x \in Elements(Append(s, e))
      PROVE  x \in Elements(s) \cup {e}
    BY <1>1 DEF Elements
<1>3. ASSUME NEW x \in Elements(s)
      PROVE  x \in Elements(Append(s, e))
    BY <1>1 DEF Elements
<1>4. e \in Elements(Append(s, e))
  <2>1. Len(s) + 1 \in 1 .. Len(Append(s, e))
      BY <1>1
  <2> QED
      BY <1>1, <2>1 DEF Elements
<1> QED
    BY <1>2, <1>3, <1>4

-----------------------------------------------------------------------------
(* Types, and where a call is.                                             *)

\* A call is among the subscribers from its Subscribe to its cancel, and only then;
\* its channel is open as long; it holds an event exactly while it sends one.
Registered ==
    /\ \A w \in Watchers : w \in subs <=> pc[w] \in {"select", "send", "return"}
    /\ subs \cap closed = {}
    /\ \A w \in Watchers : pc[w] = "send" => held[w] # 0
    /\ \A w \in Watchers : pc[w] = "select" => held[w] = 0

Base == FeedTypeOK /\ Registered

\* At the beginning nobody watches.
LEMMA BaseInit == FeedInit => Base
<1> SUFFICES ASSUME FeedInit PROVE Base
    OBVIOUS
<1>1. << >> \in Seq(1 .. MaxEvents)
    BY EmptySeq
<1>2. 0 \in 0 .. MaxEvents
    BY FeedAssumption
<1>3. panicked \in BOOLEAN
    BY DEF FeedInit
<1>4. missed \in [Watchers -> SUBSET (1 .. MaxEvents)]
    BY DEF FeedInit
<1>5. FeedTypeOK
    BY <1>1, <1>2, <1>3, <1>4 DEF FeedInit, FeedTypeOK
<1>6. Registered
    BY DEF FeedInit, Registered
<1> QED
    BY <1>5, <1>6 DEF Base

\* Every step keeps the types and the subscribers as they should be.
LEMMA BaseStep == Base /\ [FeedNext]_feedVars => Base'
<1> SUFFICES ASSUME Base, [FeedNext]_feedVars PROVE Base'
    OBVIOUS
<1> USE FeedAssumption DEF Base, FeedTypeOK, Registered
<1>1. CASE UNCHANGED feedVars
    BY <1>1 DEF feedVars
<1>2. CASE Publish
  <2>1. events + 1 \in 1 .. MaxEvents /\ events' \in 0 .. MaxEvents
      BY <1>2 DEF Publish
  <2>2. \A w \in Watchers : Append(ch[w], events + 1) \in Seq(1 .. MaxEvents)
      BY <2>1, AppendFacts
  <2>3. ch' \in [Watchers -> Seq(1 .. MaxEvents)]
      BY <1>2, <2>2 DEF Publish
  <2>4. missed' \in [Watchers -> SUBSET (1 .. MaxEvents)]
      BY <1>2, <2>1 DEF Publish
  <2> QED
      BY <1>2, <2>1, <2>3, <2>4 DEF Publish
<1>3. ASSUME NEW w \in Watchers, Subscribe(w) PROVE Base'
  <2>1. << >> \in Seq(1 .. MaxEvents)
      BY EmptySeq
  <2> QED
      BY <1>3, <2>1 DEF Subscribe
<1>4. ASSUME NEW w \in Watchers, Receive(w) PROVE Base'
  <2>1. Head(ch[w]) \in 1 .. MaxEvents /\ Tail(ch[w]) \in Seq(1 .. MaxEvents)
      BY <1>4, TailFacts DEF Receive
  <2> QED
      BY <1>4, <2>1 DEF Receive
<1>5. ASSUME NEW w \in Watchers, SendOK(w) PROVE Base'
  <2>1. held[w] \in 1 .. MaxEvents
      BY <1>5 DEF SendOK
  <2>2. Append(sent[w], held[w]) \in Seq(1 .. MaxEvents)
      BY <2>1, AppendFacts
  <2> QED
      BY <1>5, <2>2 DEF SendOK
<1>6. ASSUME NEW w \in Watchers, SendFails(w) PROVE Base'
    BY <1>6 DEF SendFails
<1>7. ASSUME NEW w \in Watchers, ContextDone(w) PROVE Base'
    BY <1>7 DEF ContextDone
<1>8. ASSUME NEW w \in Watchers, Cancel(w) PROVE Base'
    BY <1>8 DEF Cancel
<1>9. ASSUME NEW w \in Watchers, Disconnect(w) PROVE Base'
    BY <1>9 DEF Disconnect
<1>10. ASSUME NEW w \in Watchers, Reconnect(w) PROVE Base'
    BY <1>10 DEF Reconnect
<1> QED
    BY <1>1, <1>2, <1>3, <1>4, <1>5, <1>6, <1>7, <1>8, <1>9, <1>10
    DEF FeedNext, Watch

\* Base holds always.
LEMMA BaseInvariant == FeedSpec => []Base
    BY BaseInit, BaseStep, PTL DEF FeedSpec

\* The feed's variables keep their types (Feed, Watch).
THEOREM FeedTypeCorrect == FeedSpec => []FeedTypeOK
<1>1. Base => FeedTypeOK
    BY DEF Base
<1> QED
    BY <1>1, BaseInvariant, PTL

\* No event is ever sent on a closed channel: a channel is closed in the step that
\* takes its subscriber out of the map publish ranges over (cancel and publish).
THEOREM NoPanic == FeedSpec => []NeverPanics
<1>1. FeedInit => NeverPanics
    BY DEF FeedInit, NeverPanics
<1>2. Base /\ NeverPanics /\ [FeedNext]_feedVars => NeverPanics'
    BY DEF Base, Registered, NeverPanics, FeedNext, feedVars, Watch, Publish, Subscribe,
           Receive, SendOK, SendFails, ContextDone, Cancel, Disconnect, Reconnect
<1> QED
    BY <1>1, <1>2, BaseInvariant, PTL DEF FeedSpec

-----------------------------------------------------------------------------
(* Buffers.                                                                *)

\* A channel never holds more than its buffer, for any number of subscribers and
\* whatever they do: publish appends only where there is room.
THEOREM BuffersBounded == FeedSpec => []Bounded
<1>1. FeedInit => Bounded
  <2> SUFFICES ASSUME FeedInit, NEW w \in Watchers PROVE Len(ch[w]) <= Buffer
      BY DEF Bounded
  <2>1. ch[w] = << >> /\ Buffer \in Nat
      BY FeedAssumption DEF FeedInit
  <2> QED
      BY <2>1
<1>2. Base /\ Bounded /\ [FeedNext]_feedVars => Bounded'
  <2> SUFFICES ASSUME Base, Bounded, [FeedNext]_feedVars, NEW w \in Watchers
               PROVE  Len(ch'[w]) <= Buffer
      BY DEF Bounded
  <2> USE FeedAssumption
  <2>1. ch \in [Watchers -> Seq(1 .. MaxEvents)] /\ Len(ch[w]) \in Nat
        /\ Len(ch[w]) <= Buffer /\ events \in 0 .. MaxEvents
      BY LenProperties DEF Base, FeedTypeOK, Bounded
  <2>2. CASE ch'[w] = ch[w]
      BY <2>1, <2>2
  <2>3. CASE Publish
    <3>1. events + 1 \in 1 .. MaxEvents
        BY <2>1, <2>3 DEF Publish
    <3>2. Len(Append(ch[w], events + 1)) = Len(ch[w]) + 1
        BY <2>1, <3>1, AppendFacts
    <3> QED
        BY <2>1, <2>3, <3>2 DEF Publish, HasRoom
  <2>4. ASSUME NEW v \in Watchers, Subscribe(v) PROVE Len(ch'[w]) <= Buffer
      BY <2>1, <2>4, EmptySeq DEF Subscribe
  <2>5. ASSUME NEW v \in Watchers, Receive(v) PROVE Len(ch'[w]) <= Buffer
    <3>1. CASE v = w
      <4>1. Len(Tail(ch[w])) = Len(ch[w]) - 1
          BY <2>1, <2>5, <3>1, TailFacts DEF Receive
      <4> QED
          BY <2>1, <2>5, <3>1, <4>1 DEF Receive
    <3>2. CASE v # w
        BY <2>1, <2>5, <3>2 DEF Receive
    <3> QED
        BY <3>1, <3>2
  <2>6. ASSUME NEW v \in Watchers,
               SendOK(v) \/ SendFails(v) \/ ContextDone(v) \/ Cancel(v)
               \/ Disconnect(v) \/ Reconnect(v)
        PROVE  ch' = ch
      BY <2>6 DEF SendOK, SendFails, ContextDone, Cancel, Disconnect, Reconnect
  <2>7. CASE UNCHANGED feedVars
      BY <2>1, <2>7 DEF feedVars
  <2> QED
      BY <2>2, <2>3, <2>4, <2>5, <2>6, <2>7 DEF FeedNext, Watch
<1> QED
    BY <1>1, <1>2, BaseInvariant, PTL DEF FeedSpec

-----------------------------------------------------------------------------
(* Order.                                                                  *)

\* InOrder for one subscriber, of what was sent s, is buffered c and is held h; and
\* what it needs to be inductive: nothing is later than the last event e
OrderOf(s, c, h, e) ==
    /\ Increasing(s) /\ Increasing(c)
    /\ \A i \in 1 .. Len(s), j \in 1 .. Len(c) : s[i] < c[j]
    /\ h # 0 => /\ \A i \in 1 .. Len(s) : s[i] < h
                /\ \A j \in 1 .. Len(c) : h < c[j]
    /\ h <= e
    /\ \A i \in 1 .. Len(s) : s[i] <= e
    /\ \A j \in 1 .. Len(c) : c[j] <= e

OrderInv == \A w \in Watchers : OrderOf(sent[w], ch[w], held[w], events)

\* A new event is later than everything before it.
LEMMA OrderAppend ==
    ASSUME NEW N \in Nat, NEW s \in Seq(1 .. N), NEW c \in Seq(1 .. N),
           NEW h \in 0 .. N, NEW e \in 0 .. N, e + 1 <= N, OrderOf(s, c, h, e)
    PROVE  /\ OrderOf(s, Append(c, e + 1), h, e + 1)
           /\ OrderOf(s, c, h, e + 1)
<1>1. /\ Len(s) \in Nat /\ Len(c) \in Nat
      /\ \A i \in 1 .. Len(s) : s[i] \in 1 .. N
      /\ \A i \in 1 .. Len(c) : c[i] \in 1 .. N
    BY LenProperties, ElementOfSeq
<1>2. /\ Len(Append(c, e + 1)) = Len(c) + 1
      /\ Append(c, e + 1)[Len(c) + 1] = e + 1
      /\ \A i \in 1 .. Len(c) : Append(c, e + 1)[i] = c[i]
  <2>1. e + 1 \in 1 .. N
      OBVIOUS
  <2> QED
      BY <2>1, AppendFacts
<1>3. PICK d : d = Append(c, e + 1)
    OBVIOUS
<1>4. OrderOf(s, d, h, e + 1)
  <2>1. /\ Len(d) = Len(c) + 1
        /\ \A j \in 1 .. Len(d) : \/ j \in 1 .. Len(c) /\ d[j] = c[j]
                                  \/ j = Len(c) + 1 /\ d[j] = e + 1
      BY <1>1, <1>2, <1>3
  <2>2. Increasing(d)
    <3> SUFFICES ASSUME NEW i \in 1 .. Len(d), NEW j \in 1 .. Len(d), i < j
                 PROVE  d[i] < d[j]
        BY DEF Increasing
    <3>1. i \in 1 .. Len(c) /\ d[i] = c[i] /\ c[i] <= e /\ c[i] \in 1 .. N
        BY <1>1, <2>1 DEF OrderOf
    <3>2. CASE j \in 1 .. Len(c) /\ d[j] = c[j]
        BY <3>1, <3>2 DEF OrderOf, Increasing
    <3>3. CASE d[j] = e + 1
        BY <3>1, <3>3
    <3> QED
        BY <2>1, <3>2, <3>3
  <2>3. ASSUME NEW j \in 1 .. Len(d)
        PROVE  /\ \A i \in 1 .. Len(s) : s[i] < d[j]
               /\ h # 0 => h < d[j]
               /\ d[j] <= e + 1
    <3>1. CASE j \in 1 .. Len(c) /\ d[j] = c[j]
        BY <1>1, <3>1 DEF OrderOf
    <3>2. CASE d[j] = e + 1
        BY <1>1, <3>2 DEF OrderOf
    <3> QED
        BY <2>1, <3>1, <3>2
  <2>4. h <= e + 1 /\ \A i \in 1 .. Len(s) : s[i] <= e + 1
      BY <1>1 DEF OrderOf
  <2> QED
      BY <2>2, <2>3, <2>4 DEF OrderOf
<1>5. OrderOf(s, c, h, e + 1)
    BY <1>1 DEF OrderOf, Increasing
<1> QED
    BY <1>3, <1>4, <1>5

\* The event received comes after what was sent and before what is buffered.
LEMMA OrderReceive ==
    ASSUME NEW N \in Nat, NEW s \in Seq(1 .. N), NEW c \in Seq(1 .. N),
           NEW h \in 0 .. N, NEW e \in 0 .. N, c # << >>, OrderOf(s, c, h, e)
    PROVE  OrderOf(s, Tail(c), Head(c), e)
<1>1. /\ Len(s) \in Nat
      /\ \A i \in 1 .. Len(s) : s[i] \in 1 .. N
      /\ \A i \in 1 .. Len(c) : c[i] \in 1 .. N
    BY LenProperties, ElementOfSeq
<1>2. /\ Len(c) \in Nat /\ Len(c) >= 1 /\ Head(c) = c[1]
      /\ Len(Tail(c)) = Len(c) - 1
      /\ \A i \in 1 .. Len(c) - 1 : Tail(c)[i] = c[i + 1]
    BY TailFacts
<1>3. PICK d, g : d = Tail(c) /\ g = Head(c)
    OBVIOUS
<1>4. OrderOf(s, d, g, e)
    BY <1>1, <1>2, <1>3 DEF OrderOf, Increasing
<1> QED
    BY <1>3, <1>4

\* The event sent comes after what was sent before.
LEMMA OrderSend ==
    ASSUME NEW N \in Nat, NEW s \in Seq(1 .. N), NEW c \in Seq(1 .. N),
           NEW h \in 1 .. N, NEW e \in 0 .. N, OrderOf(s, c, h, e)
    PROVE  OrderOf(Append(s, h), c, 0, e)
<1>1. /\ Len(s) \in Nat /\ Len(c) \in Nat
      /\ \A i \in 1 .. Len(s) : s[i] \in 1 .. N
      /\ \A i \in 1 .. Len(c) : c[i] \in 1 .. N
    BY LenProperties, ElementOfSeq
<1>2. /\ Len(Append(s, h)) = Len(s) + 1
      /\ Append(s, h)[Len(s) + 1] = h
      /\ \A i \in 1 .. Len(s) : Append(s, h)[i] = s[i]
    BY AppendFacts
<1>3. PICK d : d = Append(s, h)
    OBVIOUS
<1>4. OrderOf(d, c, 0, e)
  <2>1. /\ Len(d) = Len(s) + 1
        /\ \A j \in 1 .. Len(d) : \/ j \in 1 .. Len(s) /\ d[j] = s[j]
                                  \/ j = Len(s) + 1 /\ d[j] = h
      BY <1>1, <1>2, <1>3
  <2>2. Increasing(d)
    <3> SUFFICES ASSUME NEW i \in 1 .. Len(d), NEW j \in 1 .. Len(d), i < j
                 PROVE  d[i] < d[j]
        BY DEF Increasing
    <3>1. i \in 1 .. Len(s) /\ d[i] = s[i] /\ s[i] < h /\ s[i] \in 1 .. N
        BY <1>1, <2>1 DEF OrderOf
    <3>2. CASE j \in 1 .. Len(s) /\ d[j] = s[j]
        BY <3>1, <3>2 DEF OrderOf, Increasing
    <3>3. CASE d[j] = h
        BY <3>1, <3>3
    <3> QED
        BY <2>1, <3>2, <3>3
  <2>3. ASSUME NEW i \in 1 .. Len(d)
        PROVE  /\ \A j \in 1 .. Len(c) : d[i] < c[j]
               /\ d[i] <= e
    <3>1. CASE i \in 1 .. Len(s) /\ d[i] = s[i]
        BY <1>1, <3>1 DEF OrderOf
    <3>2. CASE d[i] = h
        BY <1>1, <3>2 DEF OrderOf
    <3> QED
        BY <2>1, <3>1, <3>2
  <2> QED
      BY <2>2, <2>3 DEF OrderOf
<1> QED
    BY <1>3, <1>4

\* Nothing is out of order where there is nothing.
LEMMA OrderEmpty ==
    ASSUME NEW e \in Nat
    PROVE  OrderOf(<< >>, << >>, 0, e)
    BY EmptySeq DEF OrderOf, Increasing

\* Every step keeps the order.
LEMMA OrderStep == Base /\ OrderInv /\ [FeedNext]_feedVars => OrderInv'
<1> SUFFICES ASSUME Base, OrderInv, [FeedNext]_feedVars, NEW w \in Watchers
             PROVE  OrderOf(sent'[w], ch'[w], held'[w], events')
    BY DEF OrderInv
<1> USE FeedAssumption
<1>0. /\ OrderOf(sent[w], ch[w], held[w], events)
      /\ sent[w] \in Seq(1 .. MaxEvents) /\ ch[w] \in Seq(1 .. MaxEvents)
      /\ held[w] \in 0 .. MaxEvents /\ events \in 0 .. MaxEvents
      /\ MaxEvents \in Nat
    BY DEF OrderInv, Base, FeedTypeOK
<1>1. CASE UNCHANGED <<sent, ch, held, events>>
    BY <1>0, <1>1
<1>2. CASE Publish
  <2>1. events + 1 <= MaxEvents /\ events' = events + 1 /\ sent' = sent /\ held' = held
      BY <1>0, <1>2 DEF Publish
  <2>2. ch'[w] = Append(ch[w], events + 1) \/ ch'[w] = ch[w]
      BY <1>2 DEF Publish
  <2> QED
      BY <1>0, <2>1, <2>2, OrderAppend
<1>3. ASSUME NEW v \in Watchers, Subscribe(v)
      PROVE  OrderOf(sent'[w], ch'[w], held'[w], events')
  <2>1. CASE v = w
    <3>1. sent'[w] = << >> /\ ch'[w] = << >> /\ held'[w] = 0 /\ events' = events
        BY <1>3, <2>1 DEF Subscribe, Base, FeedTypeOK
    <3> QED
        BY <1>0, <3>1, OrderEmpty
  <2>2. CASE v # w
    <3>1. /\ sent'[w] = sent[w] /\ ch'[w] = ch[w] /\ held'[w] = held[w]
          /\ events' = events
        BY <1>3, <2>2 DEF Subscribe, Base, FeedTypeOK
    <3> QED
        BY <1>0, <3>1
  <2> QED
      BY <2>1, <2>2
<1>4. ASSUME NEW v \in Watchers, Receive(v)
      PROVE  OrderOf(sent'[w], ch'[w], held'[w], events')
  <2>1. CASE v = w
    <3>1. /\ ch[w] # << >> /\ sent'[w] = sent[w] /\ ch'[w] = Tail(ch[w])
          /\ held'[w] = Head(ch[w]) /\ events' = events
        BY <1>4, <2>1 DEF Receive, Base, FeedTypeOK
    <3> QED
        BY <1>0, <3>1, OrderReceive
  <2>2. CASE v # w
    <3>1. /\ sent'[w] = sent[w] /\ ch'[w] = ch[w] /\ held'[w] = held[w]
          /\ events' = events
        BY <1>4, <2>2 DEF Receive, Base, FeedTypeOK
    <3> QED
        BY <1>0, <3>1
  <2> QED
      BY <2>1, <2>2
<1>5. ASSUME NEW v \in Watchers, SendOK(v)
      PROVE  OrderOf(sent'[w], ch'[w], held'[w], events')
  <2>1. CASE v = w
    <3>1. /\ held[w] \in 1 .. MaxEvents /\ sent'[w] = Append(sent[w], held[w])
          /\ ch'[w] = ch[w] /\ held'[w] = 0 /\ events' = events
        BY <1>0, <1>5, <2>1 DEF SendOK, Base, FeedTypeOK, Registered
    <3> QED
        BY <1>0, <3>1, OrderSend
  <2>2. CASE v # w
    <3>1. /\ sent'[w] = sent[w] /\ ch'[w] = ch[w] /\ held'[w] = held[w]
          /\ events' = events
        BY <1>5, <2>2 DEF SendOK, Base, FeedTypeOK
    <3> QED
        BY <1>0, <3>1
  <2> QED
      BY <2>1, <2>2
<1>6. ASSUME NEW v \in Watchers,
             SendFails(v) \/ ContextDone(v) \/ Cancel(v) \/ Disconnect(v) \/ Reconnect(v)
      PROVE  UNCHANGED <<sent, ch, held, events>>
    BY <1>6 DEF SendFails, ContextDone, Cancel, Disconnect, Reconnect
<1>7. CASE UNCHANGED feedVars
    BY <1>1, <1>7 DEF feedVars
<1> QED
    BY <1>1, <1>2, <1>3, <1>4, <1>5, <1>6, <1>7 DEF FeedNext, Watch

\* A client gets events in the order in which they were published and none twice,
\* for any number of clients, disconnections and full buffers (publish, Watch).
THEOREM DeliveredInOrder == FeedSpec => []InOrder
<1>1. FeedInit => OrderInv
  <2> SUFFICES ASSUME FeedInit, NEW w \in Watchers
               PROVE  OrderOf(sent[w], ch[w], held[w], events)
      BY DEF OrderInv
  <2>1. sent[w] = << >> /\ ch[w] = << >> /\ held[w] = 0 /\ events = 0
      BY DEF FeedInit
  <2> QED
      BY <2>1, OrderEmpty
<1>2. OrderInv => InOrder
    BY DEF OrderInv, OrderOf, InOrder
<1> QED
    BY <1>1, <1>2, OrderStep, BaseInvariant, PTL DEF FeedSpec

-----------------------------------------------------------------------------
(* No event is lost without being counted.                                 *)

\* Accounted for one subscriber, of its first event a, the last event e, what it
\* got and what it missed; and what it needs to be inductive: a is no later than e
AccountOf(a, e, got, lost) ==
    a <= e /\ a + 1 .. e = got \cup lost /\ got \cap lost = {}

AccountInv == \A w \in subs : AccountOf(since[w], events, Got(w), missed[w])

\* A new event is got or missed.
LEMMA AccountPublish ==
    ASSUME NEW a \in Nat, NEW e \in Nat, NEW got, NEW lost, AccountOf(a, e, got, lost)
    PROVE  /\ AccountOf(a, e + 1, got \cup {e + 1}, lost)
           /\ AccountOf(a, e + 1, got, lost \cup {e + 1})
<1>1. a + 1 .. e + 1 = (a + 1 .. e) \cup {e + 1}
    BY DEF AccountOf
<1>2. e + 1 \notin got /\ e + 1 \notin lost
    BY DEF AccountOf
<1> QED
    BY <1>1, <1>2 DEF AccountOf

\* Every step keeps the account.
LEMMA AccountStep == Base /\ AccountInv /\ [FeedNext]_feedVars => AccountInv'
<1> SUFFICES ASSUME Base, AccountInv, [FeedNext]_feedVars, NEW w \in subs'
             PROVE  AccountOf(since'[w], events', Got(w)', missed'[w])
    BY DEF AccountInv
<1> USE FeedAssumption
<1>0. /\ Got(w) = Elements(sent[w]) \cup ({held[w]} \ {0}) \cup Elements(ch[w])
      /\ Got(w)' = Elements(sent'[w]) \cup ({held'[w]} \ {0}) \cup Elements(ch'[w])
    BY DEF Got, Elements
<1>1. CASE UNCHANGED <<sent, ch, held, events, since, missed>> /\ w \in subs
    BY <1>0, <1>1 DEF AccountInv
<1>2. CASE Publish
  <2>1. /\ w \in subs /\ w \in Watchers
        /\ events + 1 \in 1 .. MaxEvents /\ events' = events + 1
        /\ sent' = sent /\ held' = held /\ since' = since
        /\ since[w] \in Nat /\ events \in Nat
        /\ ch[w] \in Seq(1 .. MaxEvents)
      BY <1>2 DEF Publish, Base, FeedTypeOK
  <2>2. AccountOf(since[w], events, Got(w), missed[w])
      BY <2>1 DEF AccountInv
  <2>3. /\ AccountOf(since[w], events + 1, Got(w) \cup {events + 1}, missed[w])
        /\ AccountOf(since[w], events + 1, Got(w), missed[w] \cup {events + 1})
    <3>1. PICK g, l : g = Got(w) /\ l = missed[w]
        OBVIOUS
    <3>2. AccountOf(since[w], events, g, l)
        BY <2>2, <3>1
    <3>3. PICK a \in Nat, e \in Nat : a = since[w] /\ e = events
        BY <2>1
    <3>4. AccountOf(a, e, g, l)
        BY <3>2, <3>3
    <3>5. /\ AccountOf(a, e + 1, g \cup {e + 1}, l)
          /\ AccountOf(a, e + 1, g, l \cup {e + 1})
        BY <3>4, AccountPublish
    <3> QED
        BY <3>1, <3>3, <3>5
  <2>4. CASE HasRoom(w)
    <3>1. ch'[w] = Append(ch[w], events + 1) /\ missed'[w] = missed[w]
        BY <1>2, <2>1, <2>4 DEF Publish
    <3>2. Elements(ch'[w]) = Elements(ch[w]) \cup {events + 1}
      <4>1. PICK k \in 1 .. MaxEvents : k = events + 1
          BY <2>1
      <4>2. Elements(Append(ch[w], k)) = Elements(ch[w]) \cup {k}
          BY <2>1, AppendElements
      <4> QED
          BY <3>1, <4>1, <4>2
    <3>3. Got(w)' = Got(w) \cup {events + 1}
        BY <1>0, <2>1, <3>2
    <3> QED
        BY <2>1, <2>3, <3>1, <3>3
  <2>5. CASE ~ HasRoom(w)
    <3>1. ch'[w] = ch[w] /\ missed'[w] = missed[w] \cup {events + 1}
        BY <1>2, <2>1, <2>5 DEF Publish
    <3>2. Got(w)' = Got(w)
        BY <1>0, <2>1, <3>1
    <3> QED
        BY <2>1, <2>3, <3>1, <3>2
  <2> QED
      BY <2>4, <2>5
<1>3. ASSUME NEW v \in Watchers, Subscribe(v)
      PROVE  AccountOf(since'[w], events', Got(w)', missed'[w])
  <2>1. CASE v = w
    <3>1. /\ sent'[w] = << >> /\ ch'[w] = << >> /\ held'[w] = 0 /\ events' = events
          /\ since'[w] = events /\ missed'[w] = {} /\ events \in Nat
        BY <1>3, <2>1 DEF Subscribe, Base, FeedTypeOK
    <3>2. Elements(<< >>) = {}
        BY EmptySeq DEF Elements
    <3>3. Got(w)' = {}
        BY <1>0, <3>1, <3>2
    <3> QED
        BY <3>1, <3>3 DEF AccountOf
  <2>2. CASE v # w
    <3>1. /\ w \in subs
          /\ sent'[w] = sent[w] /\ ch'[w] = ch[w] /\ held'[w] = held[w]
          /\ events' = events /\ since'[w] = since[w] /\ missed'[w] = missed[w]
        BY <1>3, <2>2 DEF Subscribe, Base, FeedTypeOK
    <3> QED
        BY <1>0, <3>1 DEF AccountInv
  <2> QED
      BY <2>1, <2>2
<1>4. ASSUME NEW v \in Watchers, Receive(v) \/ SendOK(v)
      PROVE  AccountOf(since'[w], events', Got(w)', missed'[w])
  <2>1. /\ w \in subs /\ w \in Watchers
        /\ events' = events /\ since' = since /\ missed' = missed
      BY <1>4 DEF Receive, SendOK, Base, FeedTypeOK
  <2>2. CASE v # w
    <3>1. sent'[w] = sent[w] /\ ch'[w] = ch[w] /\ held'[w] = held[w]
        BY <1>4, <2>1, <2>2 DEF Receive, SendOK, Base, FeedTypeOK
    <3> QED
        BY <1>0, <2>1, <3>1 DEF AccountInv
  <2>3. CASE v = w /\ Receive(v)
    <3>1. /\ ch[w] # << >> /\ ch[w] \in Seq(1 .. MaxEvents)
          /\ held[w] = 0 /\ held'[w] = Head(ch[w])
          /\ ch'[w] = Tail(ch[w]) /\ sent' = sent
        BY <2>1, <2>3 DEF Receive, Base, FeedTypeOK, Registered
    <3>2. Elements(ch[w]) = {Head(ch[w])} \cup Elements(Tail(ch[w]))
        BY <3>1, TailElements
    <3>3. Head(ch[w]) # 0
        BY <3>1, TailFacts
    <3>4. Got(w)' = Got(w)
        BY <1>0, <3>1, <3>2, <3>3
    <3> QED
        BY <2>1, <3>4 DEF AccountInv
  <2>4. CASE v = w /\ SendOK(v)
    <3>1. /\ held[w] \in 1 .. MaxEvents /\ held'[w] = 0
          /\ sent[w] \in Seq(1 .. MaxEvents)
          /\ sent'[w] = Append(sent[w], held[w]) /\ ch' = ch
        BY <2>1, <2>4 DEF SendOK, Base, FeedTypeOK, Registered
    <3>2. Elements(sent'[w]) = Elements(sent[w]) \cup {held[w]}
        BY <3>1, AppendElements
    <3>3. held[w] # 0
        BY <3>1
    <3>4. Got(w)' = Got(w)
        BY <1>0, <3>1, <3>2, <3>3
    <3> QED
        BY <2>1, <3>4 DEF AccountInv
  <2> QED
      BY <1>4, <2>2, <2>3, <2>4
<1>5. ASSUME NEW v \in Watchers,
             SendFails(v) \/ ContextDone(v) \/ Cancel(v) \/ Disconnect(v) \/ Reconnect(v)
      PROVE  UNCHANGED <<sent, ch, held, events, since, missed>> /\ w \in subs
    BY <1>5 DEF SendFails, ContextDone, Cancel, Disconnect, Reconnect
<1>6. CASE UNCHANGED feedVars
    BY <1>1, <1>6 DEF feedVars
<1> QED
    BY <1>1, <1>2, <1>3, <1>4, <1>5, <1>6 DEF FeedNext, Watch

\* Every event since a subscription has reached the client, is on its way to it, or
\* found its channel full, and only one of these (publish, Watch).
THEOREM NoSilentLoss == FeedSpec => []Accounted
<1>1. FeedInit => AccountInv
    BY DEF FeedInit, AccountInv
<1>2. AccountInv => Accounted
    BY DEF AccountInv, AccountOf, Accounted
<1> QED
    BY <1>1, <1>2, AccountStep, BaseInvariant, PTL DEF FeedSpec

==============================================================================
