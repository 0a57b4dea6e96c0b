--------------------------- MODULE AlertingProofs ---------------------------
(***************************************************************************)
(* Proofs that no notification is lost, that no Slack message is edited     *)
(* twice and that the channel agrees with the rules, for any rules, any     *)
(* number of goroutines and whatever Slack does.                            *)
(***************************************************************************)
EXTENDS Alerting, FiniteSetTheorems, SequenceTheorems, TLAPS

-----------------------------------------------------------------------------
(* What a monitor reports.                                                 *)

\* What Observe and Check make of a monitor
Seen(m, lastSeen, fired) == [m EXCEPT !.lastSeen = lastSeen, !.fired = fired]

Since(m, since, fired) == [m EXCEPT !.since = since, !.fired = fired]

\* Both are monitors of the same rule.
LEMMA UpdateFacts ==
    ASSUME NEW m \in MonitorRecord, NEW a \in Int, NEW b \in BOOLEAN
    PROVE  /\ Seen(m, a, b) \in MonitorRecord /\ Seen(m, a, b).rule = m.rule
           /\ Seen(m, a, b).fired = b
           /\ Since(m, a, b) \in MonitorRecord /\ Since(m, a, b).rule = m.rule
           /\ Since(m, a, b).fired = b
    BY DEF MonitorRecord, Seen, Since

\* The event tells how fired changes from m to the monitor of result
Tells(m, result) ==
    /\ result.monitor \in MonitorRecord /\ result.monitor.rule = m.rule
    /\ result.event \in Events
    /\ result.event = "fired" <=> ~ m.fired /\ result.monitor.fired
    /\ result.event = "resolved" <=> m.fired /\ ~ result.monitor.fired

\* Check reports an absent rule that begins to fire, and nothing else.
LEMMA CheckTells ==
    ASSUME NEW m \in MonitorRecord, NEW t \in Int
    PROVE  Tells(m, Check(m, t))
<1> DEFINE arms  == m.rule.op = "absent" /\ m.lastSeen = ZeroTime
           fires == m.rule.op = "absent" /\ ~ arms /\ ~ m.fired /\ Silent(m, t)
           a == IF arms THEN t + m.grace ELSE m.lastSeen
           b == m.fired \/ fires
<1>1. Check(m, t).monitor = Seen(m, a, b)
    BY DEF Check, Seen
<1>2. Check(m, t).event = IF fires THEN "fired" ELSE "none"
    BY DEF Check
<1>3. m.fired \in BOOLEAN /\ m.grace \in Int /\ m.lastSeen \in Int
    BY AlertingAssumption DEF MonitorRecord
<1>4. a \in Int /\ b \in BOOLEAN /\ (fires <=> ~ m.fired /\ b)
    BY <1>3
<1> HIDE DEF a, b, fires
<1>5. /\ Check(m, t).monitor \in MonitorRecord /\ Check(m, t).monitor.rule = m.rule
      /\ Check(m, t).monitor.fired = b
    BY <1>1, <1>4, UpdateFacts
<1>6. m.fired => b
    BY <1>3 DEF b
<1> QED
    BY <1>2, <1>4, <1>5, <1>6 DEF Tells, Events

\* Observe reports every rule that begins or ceases to fire.
LEMMA ObserveTells ==
    ASSUME NEW m \in MonitorRecord, NEW t \in Int, NEW v
    PROVE  Tells(m, Observe(m, t, v))
<1>0. m.fired \in BOOLEAN /\ m.since \in Int /\ ZeroTime \in Int
    BY DEF MonitorRecord, ZeroTime
<1>1. ASSUME NEW n, NEW a \in Int, NEW b, b = FALSE, n = Seen(m, a, b) \/ n = Since(m, a, b),
             Observe(m, t, v) = [monitor |-> n, event |-> IF m.fired THEN "resolved" ELSE "none"]
      PROVE  Tells(m, Observe(m, t, v))
  <2>1. b \in BOOLEAN /\ ~ b
      BY <1>1
  <2>2. n \in MonitorRecord /\ n.rule = m.rule /\ n.fired = b
      BY <1>1, <2>1, UpdateFacts
  <2>3. /\ Observe(m, t, v).monitor = n
        /\ Observe(m, t, v).event = IF m.fired THEN "resolved" ELSE "none"
      BY <1>1
  <2> QED
      BY <1>0, <2>1, <2>2, <2>3 DEF Tells, Events
<1>2. CASE m.rule.op = "absent"
    BY <1>1, <1>2 DEF Observe, ObserveAbsent, Seen
<1>3. CASE m.rule.op # "absent" /\ ~ Holds(m.rule.op, v, m.rule.threshold)
    BY <1>0, <1>1, <1>3 DEF Observe, Recover, Since
<1>4. CASE m.rule.op # "absent" /\ Holds(m.rule.op, v, m.rule.threshold)
  <2> DEFINE since == IF m.since = ZeroTime THEN t ELSE m.since
             fires == ~ m.fired /\ t - since >= m.rule.For
             b == m.fired \/ fires
  <2>1. /\ Observe(m, t, v).monitor = Since(m, since, b)
        /\ Observe(m, t, v).event = IF fires THEN "fired" ELSE "none"
      BY <1>4 DEF Observe, Breach, Since
  <2>2. since \in Int /\ b \in BOOLEAN /\ (fires <=> ~ m.fired /\ b) /\ (m.fired => b)
      BY <1>0
  <2> HIDE DEF b, since, fires
  <2>3. /\ Observe(m, t, v).monitor \in MonitorRecord /\ Observe(m, t, v).monitor.rule = m.rule
        /\ Observe(m, t, v).monitor.fired = b
      BY <2>1, <2>2, UpdateFacts
  <2> QED
      BY <2>1, <2>2, <2>3 DEF Tells, Events
<1> QED
    BY <1>2, <1>3, <1>4

-----------------------------------------------------------------------------
(* What an evaluation does.                                                *)

\* The rules are numbered, and there are finitely many.
LEMMA RuleFacts ==
    /\ RuleIndex \subseteq Nat /\ IsFiniteSet(RuleIndex)
    /\ \A r \in RuleIndex : Rules[r] \in Range(Rules)
<1>1. Len(Rules) \in Nat /\ RuleIndex = 1 .. Len(Rules)
    BY AlertingAssumption DEF RuleIndex
<1>2. IsFiniteSet(1 .. Len(Rules))
    BY <1>1, FS_Interval
<1> QED
    BY <1>1, <1>2 DEF RuleIndex, Range

\* Process p evaluates the rules with this result
Evaluation(p, result) ==
    /\ p \in Procs /\ pc[p] = "idle"
    /\ \A r \in RuleIndex : Tells(monitors[r], result[r])
    /\ Evaluate(p, result)
    /\ UNCHANGED <<clock, prev, open, board, failures, feed>>

\* Both Observe and Check are such evaluations.
LEMMA EvaluationByStep ==
    ASSUME TypeOK, (\E p \in Handlers : AlerterObserve(p)) \/ AlerterCheck
    PROVE  samples' \in 0 .. MaxSamples /\ \E p, result : Evaluation(p, result)
<1>0. /\ \A r \in RuleIndex : monitors[r] \in MonitorRecord
      /\ clock \in Int /\ samples \in 0 .. MaxSamples
    BY DEF TypeOK
<1>1. ASSUME NEW p \in Handlers, AlerterObserve(p)
      PROVE  samples' \in 0 .. MaxSamples /\ \E q, result : Evaluation(q, result)
  <2>1. samples' \in 0 .. MaxSamples
      BY <1>0, <1>1, AlertingAssumption DEF AlerterObserve
  <2>2. PICK id \in Streams, t \in clock - MaxLag .. clock, v \in Values :
           Evaluate(p, [r \in RuleIndex |->
                           IF Rules[r].stream = id
                           THEN Observe(monitors[r], t, v)
                           ELSE [monitor |-> monitors[r], event |-> "none"]])
      BY <1>1 DEF AlerterObserve
  <2> DEFINE result == [r \in RuleIndex |->
                           IF Rules[r].stream = id
                           THEN Observe(monitors[r], t, v)
                           ELSE [monitor |-> monitors[r], event |-> "none"]]
  <2>3. ASSUME NEW r \in RuleIndex
        PROVE  Tells(monitors[r], result[r])
    <3>1. CASE Rules[r].stream = id
      <4>1. t \in Int
          BY <1>0, AlertingAssumption
      <4> QED
          BY <1>0, <3>1, <4>1, ObserveTells
    <3>2. CASE Rules[r].stream # id
      <4>1. result[r].monitor = monitors[r] /\ result[r].event = "none"
          BY <3>2
      <4> QED
          BY <1>0, <4>1 DEF Tells, Events
    <3> QED
        BY <3>1, <3>2
  <2> HIDE DEF result
  <2>4. Evaluation(p, result)
      BY <1>1, <2>2, <2>3 DEF Evaluation, AlerterObserve, Procs, result
  <2> QED
      BY <2>1, <2>4
<1>2. CASE AlerterCheck
  <2> DEFINE result == [r \in RuleIndex |-> Check(monitors[r], clock)]
  <2>1. \A r \in RuleIndex : Tells(monitors[r], result[r])
      BY <1>0, CheckTells
  <2>2. Evaluation(Checker, result)
      BY <1>2, <2>1 DEF Evaluation, AlerterCheck, Procs
  <2> QED
      BY <1>0, <1>2, <2>2 DEF AlerterCheck
<1> QED
    BY <1>1, <1>2

\* What becomes pending is one notification of each rule that reports.
LEMMA EvaluationPending ==
    ASSUME TypeOK, NEW p, NEW result, Evaluation(p, result)
    PROVE  \E n \in Nat : \E order \in [1 .. n -> Reporting(result)] :
              /\ \A r \in Reporting(result) : \E i \in 1 .. n : order[i] = r
              /\ \A i, j \in 1 .. n : i # j => order[i] # order[j]
              /\ pending' \in [Procs -> Seq(Notification)]
              /\ Len(pending'[p]) = n
              /\ \A i \in 1 .. n : pending'[p][i] = NotificationOf(order[i], result)
              /\ \A q \in Procs : q # p => pending'[q] = pending[q]
<1> DEFINE R == Reporting(result)
           n == Cardinality(R)
<1>1. PICK order \in InOrder(R) :
         pending' = [pending EXCEPT ![p] =
                        [i \in DOMAIN order |-> NotificationOf(order[i], result)]]
    BY DEF Evaluation, Evaluate
<1>2. n \in Nat
  <2>1. R \subseteq RuleIndex
      BY DEF Reporting
  <2> QED
      BY <2>1, RuleFacts, FS_Subset, FS_CardinalityType
<1> HIDE DEF n
<1>3. /\ order \in [1 .. n -> R]
      /\ \A r \in R : \E i \in 1 .. n : order[i] = r
      /\ \A i, j \in 1 .. n : i < j => order[i] < order[j]
    BY <1>1 DEF InOrder, n
<1>4. R \subseteq Nat /\ R \subseteq RuleIndex
    BY RuleFacts DEF Reporting
<1>5. \A i, j \in 1 .. n : i # j => order[i] # order[j]
  <2> SUFFICES ASSUME NEW i \in 1 .. n, NEW j \in 1 .. n, i # j
               PROVE  order[i] # order[j]
      OBVIOUS
  <2>1. order[i] \in Nat /\ order[j] \in Nat /\ (i < j \/ j < i)
      BY <1>2, <1>3, <1>4
  <2> QED
      BY <1>3, <2>1
<1>6. \A r \in R : NotificationOf(r, result) \in Notification
  <2> SUFFICES ASSUME NEW r \in R
               PROVE  NotificationOf(r, result) \in Notification
      OBVIOUS
  <2>1. r \in RuleIndex /\ result[r].event \in {"fired", "resolved"}
      BY DEF Reporting, Evaluation, Tells, Events
  <2>2. Len(events[r]) + 1 \in Nat
      BY <2>1 DEF TypeOK
  <2> QED
      BY <2>1, <2>2 DEF NotificationOf, Notification
<1> DEFINE s == [i \in 1 .. n |-> NotificationOf(order[i], result)]
<1>7. s \in Seq(Notification) /\ Len(s) = n /\ DOMAIN s = 1 .. n
  <2>1. \A i \in 1 .. n : NotificationOf(order[i], result) \in Notification
      BY <1>3, <1>6
  <2> QED
      BY <1>2, <2>1
<1>8. pending' = [pending EXCEPT ![p] = s]
    BY <1>1, <1>3
<1>9. pending \in [Procs -> Seq(Notification)] /\ p \in Procs
    BY DEF TypeOK, Evaluation
<1> QED
    BY <1>2, <1>3, <1>5, <1>7, <1>8, <1>9

-----------------------------------------------------------------------------
(* Types.                                                                  *)

\* Where a goroutine is agrees with what it has to deliver, and it has a message in
\* hand only between two calls of one Notify
Delivering ==
    \A p \in Procs :
        /\ pc[p] = "idle" <=> pending[p] = << >>
        /\ pc[p] = "record" => Head(pending[p]).event = "fired" /\ prev[p] # NoMessage
        /\ pc[p] = "resolve" => Head(pending[p]).event = "resolved"
        /\ pc[p] \notin {"record", "resolve"} => prev[p] = NoMessage

\* A goroutine that delivers has a first notification.
LEMMA HeadFacts ==
    ASSUME TypeOK, Delivering, NEW p \in Procs, pc[p] # "idle"
    PROVE  /\ pending[p] # << >> /\ Head(pending[p]) = pending[p][1]
           /\ Head(pending[p]) \in Notification /\ Head(pending[p]).rule \in RuleIndex
           /\ Head(pending[p]).number \in Nat
           /\ Tail(pending[p]) \in Seq(Notification)
           /\ Len(pending[p]) \in Nat /\ Len(pending[p]) >= 1
           /\ Len(Tail(pending[p])) = Len(pending[p]) - 1
           /\ \A i \in 1 .. Len(pending[p]) - 1 : Tail(pending[p])[i] = pending[p][i + 1]
<1>1. pending[p] \in Seq(Notification) /\ pending[p] # << >>
    BY DEF TypeOK, Delivering
<1>2. Head(pending[p]) \in Notification
    BY <1>1
<1> QED
    BY <1>1, <1>2 DEF Notification

\* A message more on the board, and the others as they were.
LEMMA PostedFacts ==
    ASSUME TypeOK, Delivering, NEW p \in Procs, pc[p] # "idle",
           NEW state \in {"alert", "resolved"}
    PROVE  LET after == Posted(Head(pending[p]), state)
           IN /\ after \in Seq(Message) /\ Len(after) = Len(board) + 1
              /\ \A i \in 1 .. Len(board) : after[i] = board[i]
              /\ after[Len(board) + 1].state = state
              /\ after[Len(board) + 1].rule = Head(pending[p]).rule
<1> DEFINE x == [rule |-> Head(pending[p]).rule, number |-> Head(pending[p]).number,
                 state |-> state]
<1>1. x \in Message /\ x.state = state /\ x.rule = Head(pending[p]).rule
    BY HeadFacts DEF Message
<1>2. board \in Seq(Message) /\ Posted(Head(pending[p]), state) = Append(board, x)
    BY DEF TypeOK, Posted
<1> HIDE DEF x
<1> QED
    BY <1>1, <1>2

\* The board after the call of PostResolved, if it takes effect
Resolved(p) ==
    IF prev[p] > 0 THEN [board EXCEPT ![prev[p]].state = "resolved"]
    ELSE Posted(Head(pending[p]), "resolved")

\* An edit changes one message's state only; without a message one is posted.
LEMMA ResolvedFacts ==
    ASSUME TypeOK, Delivering, NEW p \in Procs, pc[p] # "idle"
    PROVE  /\ Resolved(p) \in Seq(Message) /\ Len(Resolved(p)) \in {Len(board), Len(board) + 1}
           /\ \A i \in 1 .. Len(board) :
                 /\ Resolved(p)[i].rule = board[i].rule
                 /\ Resolved(p)[i].state = IF i = prev[p] THEN "resolved" ELSE board[i].state
           /\ \A i \in 1 .. Len(Resolved(p)) :
                 i \notin 1 .. Len(board) => Resolved(p)[i].state = "resolved"
<1>0. board \in Seq(Message) /\ Len(board) \in Nat
      /\ prev[p] \in {NoMessage, UnknownMessage} \cup 1 .. Len(board)
    BY DEF TypeOK
<1>1. CASE prev[p] > 0
  <2>1. prev[p] \in 1 .. Len(board)
      BY <1>0, <1>1 DEF NoMessage, UnknownMessage
  <2>2. Resolved(p) = [board EXCEPT ![prev[p]] = [board[prev[p]] EXCEPT !.state = "resolved"]]
      BY <1>0, <1>1, <2>1 DEF Resolved
  <2> DEFINE x == [board[prev[p]] EXCEPT !.state = "resolved"]
  <2>3. x \in Message /\ x.state = "resolved" /\ x.rule = board[prev[p]].rule
    <3>1. board[prev[p]] \in Message
        BY <1>0, <2>1
    <3> QED
        BY <3>1 DEF Message
  <2> HIDE DEF x
  <2>4. Resolved(p) \in Seq(Message) /\ Len(Resolved(p)) = Len(board)
    <3>1. Resolved(p) = [board EXCEPT ![prev[p]] = x]
        BY <2>2 DEF x
    <3> QED
        BY <1>0, <2>1, <2>3, <3>1, ExceptSeq
  <2>5. \A i \in 1 .. Len(board) : Resolved(p)[i] = IF i = prev[p] THEN x ELSE board[i]
      BY <1>0, <2>1, <2>2 DEF x
  <2> QED
      BY <1>0, <2>3, <2>4, <2>5
<1>2. CASE ~ prev[p] > 0
  <2>1. Resolved(p) = Posted(Head(pending[p]), "resolved")
      BY <1>2 DEF Resolved
  <2>2. /\ Resolved(p) \in Seq(Message) /\ Len(Resolved(p)) = Len(board) + 1
        /\ \A i \in 1 .. Len(board) : Resolved(p)[i] = board[i]
        /\ Resolved(p)[Len(board) + 1].state = "resolved"
      BY <2>1, PostedFacts
  <2>3. \A i \in 1 .. Len(board) : i # prev[p]
      BY <1>0, <1>2
  <2> QED
      BY <1>0, <2>2, <2>3
<1> QED
    BY <1>1, <1>2

\* An evaluation keeps the types, and leaves its goroutine with what it has reported.
LEMMA EvaluationTypes ==
    ASSUME TypeOK, Delivering, NEW p, NEW result, Evaluation(p, result),
           samples' \in 0 .. MaxSamples
    PROVE  TypeOK' /\ Delivering'
<1> DEFINE R == Reporting(result)
<1>1. PICK n \in Nat : \E order \in [1 .. n -> R] :
              /\ \A r \in R : \E i \in 1 .. n : order[i] = r
              /\ pending' \in [Procs -> Seq(Notification)]
              /\ Len(pending'[p]) = n
              /\ \A q \in Procs : q # p => pending'[q] = pending[q]
    BY EvaluationPending
<1>2. R = {} <=> pending'[p] = << >>
  <2>1. p \in Procs /\ pending'[p] \in Seq(Notification)
      BY <1>1 DEF Evaluation
  <2>2. R = {} <=> n = 0
      BY <1>1
  <2> QED
      BY <1>1, <2>1, <2>2
<1>3. /\ p \in Procs /\ pc[p] = "idle"
      /\ pc' = [pc EXCEPT ![p] = IF R = {} THEN "idle" ELSE "notify"]
      /\ UNCHANGED <<clock, prev, open, board, failures, feed>>
    BY DEF Evaluation, Evaluate
<1> HIDE DEF R
<1>4. Delivering'
    BY <1>1, <1>2, <1>3 DEF Delivering, TypeOK
<1>5. /\ monitors' \in [RuleIndex -> MonitorRecord]
      /\ \A r \in RuleIndex : monitors'[r].rule = Rules[r]
    BY DEF Evaluation, Evaluate, Tells, TypeOK
<1>6. events' \in [RuleIndex -> Seq({"fired", "resolved"})]
  <2>1. \A r \in RuleIndex : events[r] \in Seq({"fired", "resolved"})
      BY DEF TypeOK
  <2>2. \A r \in R : r \in RuleIndex /\ result[r].event \in {"fired", "resolved"}
      BY DEF R, Reporting, Evaluation, Tells, Events
  <2>3. \A r \in R : Append(events[r], result[r].event) \in Seq({"fired", "resolved"})
      BY <2>1, <2>2
  <2>4. events' = [r \in RuleIndex |-> IF r \in R THEN Append(events[r], result[r].event)
                                       ELSE events[r]]
      BY DEF Evaluation, Evaluate, R
  <2> QED
      BY <2>1, <2>3, <2>4
<1>7. raced' \subseteq RuleIndex
    BY DEF Evaluation, Evaluate, Reporting, TypeOK
<1>8. pc' \in [Procs -> {"idle", "notify", "record", "resolve", "publish"}]
    BY <1>3 DEF TypeOK
<1> QED
    BY <1>1, <1>3, <1>4, <1>5, <1>6, <1>7, <1>8 DEF TypeOK

\* Every step keeps the types and where the goroutines are.
LEMMA TypeStep == TypeOK /\ Delivering /\ [Next]_vars => TypeOK' /\ Delivering'
<1> SUFFICES ASSUME TypeOK, Delivering, [Next]_vars
             PROVE  TypeOK' /\ Delivering'
    OBVIOUS
<1>1. CASE (\E p \in Handlers : AlerterObserve(p)) \/ AlerterCheck
    BY <1>1, EvaluationByStep, EvaluationTypes
<1>2. ASSUME NEW p \in Procs, Deliver(p)
      PROVE  TypeOK' /\ Delivering'
  <2>0. pc[p] # "idle"
      BY <1>2 DEF Deliver, PostAlert, RecordOpen, TakeOpen, PostResolved, PublishFeed
  <2>1. CASE PostAlert(p)
    <3> DEFINE after == Posted(Head(pending[p]), "alert")
    <3>1. after \in Seq(Message) /\ Len(after) = Len(board) + 1 /\ Len(board) \in Nat
        BY <2>0, PostedFacts DEF TypeOK
    <3> HIDE DEF after
    <3>2. /\ board' \in {board, after} /\ failures' \in 0 .. MaxFailures
        BY <2>1, AlertingAssumption DEF PostAlert, SlackOK, SlackFails, TypeOK, after
    <3>3. /\ board' \in Seq(Message) /\ Len(board') \in {Len(board), Len(board) + 1}
        BY <3>1, <3>2 DEF TypeOK
    <3>4. \/ prev' = prev /\ pc' = [pc EXCEPT ![p] = "publish"]
          \/ /\ Len(board') = Len(board) + 1
             /\ \E x \in {Len(board) + 1, UnknownMessage} : prev' = [prev EXCEPT ![p] = x]
             /\ pc' = [pc EXCEPT ![p] = "record"]
        BY <2>1, <3>1 DEF PostAlert, SlackOK, AfterRefusal, after
    <3>5. prev' \in [Procs -> {NoMessage, UnknownMessage} \cup 1 .. Len(board')]
      <4>1. {NoMessage, UnknownMessage} \cup 1 .. Len(board)
               \subseteq {NoMessage, UnknownMessage} \cup 1 .. Len(board')
          BY <3>1, <3>3
      <4>2. Len(board') = Len(board) + 1 => Len(board) + 1 \in 1 .. Len(board')
          BY <3>1
      <4> QED
          BY ZenonT(30), <3>4, <4>1, <4>2 DEF TypeOK
    <3>6. \A k \in DOMAIN open : open[k] \in {UnknownMessage} \cup 1 .. Len(board')
        BY <3>1, <3>3 DEF TypeOK
    <3>7. TypeOK'
        BY <2>1, <3>2, <3>3, <3>4, <3>5, <3>6 DEF TypeOK, PostAlert
    <3>8. Delivering'
      <4>1. Len(board) + 1 # NoMessage /\ UnknownMessage # NoMessage
          BY <3>1 DEF NoMessage, UnknownMessage
      <4> QED
          BY <2>0, <2>1, <3>4, <4>1 DEF Delivering, PostAlert, TypeOK
    <3> QED
        BY <3>7, <3>8
  <2>2. CASE RecordOpen(p)
    <3>1. prev[p] \in {UnknownMessage} \cup 1 .. Len(board)
        BY <2>2 DEF TypeOK, Delivering, RecordOpen
    <3>2. \A k \in DOMAIN open' : open'[k] \in {UnknownMessage} \cup 1 .. Len(board)
        BY <2>2, <3>1 DEF TypeOK, RecordOpen
    <3>3. TypeOK'
        BY <2>2, <3>2 DEF TypeOK, RecordOpen
    <3>4. Delivering'
        BY <2>0, <2>2 DEF TypeOK, Delivering, RecordOpen
    <3> QED
        BY <3>3, <3>4
  <2>3. CASE TakeOpen(p)
    <3>1. \A key : OpenAt(key) \in {NoMessage, UnknownMessage} \cup 1 .. Len(board)
        BY DEF OpenAt, TypeOK
    <3>2. /\ prev' \in [Procs -> {NoMessage, UnknownMessage} \cup 1 .. Len(board)]
          /\ \A q \in Procs : q # p => prev'[q] = prev[q]
        BY <2>3, <3>1 DEF TakeOpen, Take, TypeOK
    <3>3. \A k \in DOMAIN open' : open'[k] = open[k] /\ k \in DOMAIN open
        BY <2>3 DEF TakeOpen, Take
    <3>4. TypeOK'
        BY <2>3, <3>2, <3>3 DEF TakeOpen, TypeOK
    <3>5. Delivering'
        BY <2>0, <2>3, <3>2 DEF TakeOpen, TypeOK, Delivering
    <3> QED
        BY <3>4, <3>5
  <2>4. CASE PostResolved(p)
    <3>1. /\ board' \in {board, Resolved(p)} /\ failures' \in 0 .. MaxFailures
        BY <2>4, AlertingAssumption DEF PostResolved, SlackOK, SlackFails, Resolved, TypeOK
    <3>2. /\ board' \in Seq(Message) /\ Len(board') \in {Len(board), Len(board) + 1}
          /\ Len(board) \in Nat
        BY <2>0, <3>1, ResolvedFacts DEF TypeOK
    <3>3. prev' \in [Procs -> {NoMessage, UnknownMessage} \cup 1 .. Len(board')]
        BY <2>4, <3>2 DEF TypeOK, PostResolved
    <3>4. \A k \in DOMAIN open : open[k] \in {UnknownMessage} \cup 1 .. Len(board')
        BY <3>2 DEF TypeOK
    <3>5. TypeOK'
        BY <2>4, <3>1, <3>2, <3>3, <3>4 DEF TypeOK, PostResolved
    <3>6. Delivering'
        BY <2>0, <2>4 DEF Delivering, PostResolved, TypeOK
    <3> QED
        BY <3>5, <3>6
  <2>5. CASE PublishFeed(p)
    <3>1. /\ Head(pending[p]) \in Notification /\ Tail(pending[p]) \in Seq(Notification)
        BY <2>0, HeadFacts
    <3>2. feed' \in Seq(Notification) /\ pending' \in [Procs -> Seq(Notification)]
        BY <2>5, <3>1 DEF PublishFeed, TypeOK
    <3>3. TypeOK'
        BY <2>5, <3>2 DEF PublishFeed, TypeOK
    <3>4. Delivering'
        BY <2>5 DEF PublishFeed, Delivering, TypeOK
    <3> QED
        BY <3>3, <3>4
  <2> QED
      BY <1>2, <2>1, <2>2, <2>3, <2>4, <2>5 DEF Deliver
<1>3. CASE Tick
    BY <1>3, AlertingAssumption DEF Tick, TypeOK, Delivering
<1>4. CASE UNCHANGED vars
    BY <1>4 DEF vars, TypeOK, Delivering
<1> QED
    BY <1>1, <1>2, <1>3, <1>4 DEF Next

\* The program begins with nothing reported and no rule firing.
LEMMA InitFacts ==
    ASSUME Init
    PROVE  TypeOK /\ Delivering /\ \A r \in RuleIndex : ~ monitors[r].fired
<1>1. ASSUME NEW r \in RuleIndex
      PROVE  /\ monitors[r] \in MonitorRecord /\ monitors[r].rule = Rules[r]
             /\ ~ monitors[r].fired
  <2> DEFINE m == NewMonitor(Rules[r], Grace)
  <2>1. m \in MonitorRecord /\ m.rule = Rules[r] /\ ~ m.fired /\ m.lastSeen = ZeroTime
      BY RuleFacts, AlertingAssumption DEF NewMonitor, MonitorRecord, ZeroTime
  <2>2. monitors[r] = Check(m, 1).monitor
      BY DEF Init
  <2> HIDE DEF m
  <2>3. Tells(m, Check(m, 1))
      BY <2>1, CheckTells
  <2>4. Check(m, 1).event # "fired"
      BY <2>1 DEF Check
  <2> QED
      BY <2>1, <2>2, <2>3, <2>4 DEF Tells
<1>2. monitors \in [RuleIndex -> MonitorRecord]
    BY <1>1 DEF Init
<1>3. Len(board) = 0 /\ board \in Seq(Message) /\ feed \in Seq(Notification)
    BY DEF Init
<1>4. pending \in [Procs -> Seq(Notification)] /\ events \in [RuleIndex -> Seq({"fired", "resolved"})]
    BY DEF Init
<1>5. DOMAIN open = {}
    BY DEF Init
<1>6. TypeOK
    BY <1>1, <1>2, <1>3, <1>4, <1>5, AlertingAssumption DEF Init, TypeOK
<1>7. Delivering
    BY DEF Init, Delivering
<1> QED
    BY <1>1, <1>6, <1>7

\* The alerter's and the notifier's state keeps its types.
THEOREM TypeCorrect == Spec => [](TypeOK /\ Delivering)
    BY InitFacts, TypeStep, PTL DEF Spec

-----------------------------------------------------------------------------
(* Messages are edited once.                                               *)

\* A message on the board that is remembered, or in hand, is so in one place, and
\* shows an alert
HeldOnce ==
    /\ \A k, l \in DOMAIN open : open[k] = open[l] /\ open[k] > 0 => k = l
    /\ \A p, q \in Procs : prev[p] = prev[q] /\ prev[p] > 0 => p = q
    /\ \A k \in DOMAIN open, p \in Procs : open[k] = prev[p] => ~ prev[p] > 0
    /\ \A k \in DOMAIN open : open[k] > 0 => board[open[k]].state = "alert"
    /\ \A p \in Procs : prev[p] > 0 => board[prev[p]].state = "alert"

\* Every step keeps messages in one place.
LEMMA HeldStep == TypeOK /\ Delivering /\ HeldOnce /\ [Next]_vars => HeldOnce'
<1> SUFFICES ASSUME TypeOK, Delivering, HeldOnce, [Next]_vars
             PROVE  HeldOnce'
    OBVIOUS
<1>0. /\ Len(board) \in Nat /\ NoMessage = 0 /\ UnknownMessage = -1
      /\ \A p \in Procs : prev[p] \in {0, -1} \cup 1 .. Len(board)
      /\ \A k \in DOMAIN open : open[k] \in {-1} \cup 1 .. Len(board)
      /\ prev \in [Procs -> Int]
  <2>1. Len(board) \in Nat
      BY DEF TypeOK
  <2>2. prev \in [Procs -> {0, -1} \cup 1 .. Len(board)]
      BY DEF TypeOK, NoMessage, UnknownMessage
  <2>3. {0, -1} \cup 1 .. Len(board) \subseteq Int
      BY <2>1
  <2>4. \A k \in DOMAIN open : open[k] \in {-1} \cup 1 .. Len(board)
      BY DEF TypeOK, UnknownMessage
  <2> QED
      BY <2>1, <2>2, <2>3, <2>4 DEF NoMessage, UnknownMessage
<1>1. CASE UNCHANGED <<prev, open, board>>
    BY <1>1 DEF HeldOnce
<1>2. ASSUME NEW p \in Procs, Deliver(p), ~ UNCHANGED <<prev, open, board>>
      PROVE  HeldOnce'
  <2>0. pc[p] # "idle"
      BY <1>2 DEF Deliver, PostAlert, RecordOpen, TakeOpen, PostResolved, PublishFeed
  <2>1. CASE PostAlert(p)
    <3> DEFINE after == Posted(Head(pending[p]), "alert")
    <3>1. /\ Len(after) = Len(board) + 1
          /\ \A i \in 1 .. Len(board) : after[i] = board[i]
          /\ after[Len(board) + 1].state = "alert"
        BY <2>0, PostedFacts
    <3> HIDE DEF after
    <3>2. UNCHANGED open /\ board' \in {board, after}
        BY <2>1 DEF PostAlert, SlackOK, SlackFails, after
    <3>3. \/ prev' = prev
          \/ board' = after /\ \E x \in {Len(board) + 1, -1} : prev' = [prev EXCEPT ![p] = x]
        BY <1>0, <2>1 DEF PostAlert, SlackOK, after
    <3>4. \A i \in 1 .. Len(board) : board'[i] = board[i]
        BY <3>1, <3>2
    <3>5. CASE prev' = prev
        BY <1>0, <3>2, <3>4, <3>5 DEF HeldOnce
    <3>6. ASSUME board' = after, NEW x \in {Len(board) + 1, -1}, prev' = [prev EXCEPT ![p] = x]
          PROVE  HeldOnce'
      <4>1. prev'[p] = x /\ \A q \in Procs : q # p => prev'[q] = prev[q]
          BY <1>0, <3>6
      <4>2. board'[Len(board) + 1].state = "alert"
          BY <3>1, <3>6
      <4> QED
          BY <1>0, <3>2, <3>4, <4>1, <4>2 DEF HeldOnce
    <3> QED
        BY <3>3, <3>5, <3>6
  <2>2. CASE RecordOpen(p)
    <3> DEFINE key == ruleKey(Head(pending[p]).rule)
    <3>1. /\ open' = [k \in DOMAIN open \cup {key} |-> IF k = key THEN prev[p] ELSE open[k]]
          /\ prev' = [prev EXCEPT ![p] = 0] /\ UNCHANGED board
        BY <1>0, <2>2 DEF RecordOpen
    <3> HIDE DEF key
    <3> QED
        BY <1>0, <3>1 DEF HeldOnce
  <2>3. CASE TakeOpen(p)
    <3> DEFINE key == ruleKey(Head(pending[p]).rule)
    <3>1. /\ prev' = [prev EXCEPT ![p] = IF key \in DOMAIN open THEN open[key] ELSE 0]
          /\ open' = [k \in DOMAIN open \ {key} |-> open[k]]
          /\ UNCHANGED board
        BY <1>0, <2>3 DEF TakeOpen, Take, OpenAt
    <3> HIDE DEF key
    <3> QED
        BY <1>0, <3>1 DEF HeldOnce
  <2>4. CASE PostResolved(p)
    <3>1. /\ board' \in {board, Resolved(p)} /\ UNCHANGED open
          /\ prev' = [prev EXCEPT ![p] = 0]
        BY <1>0, <2>4 DEF PostResolved, SlackOK, SlackFails, Resolved
    <3>2. \A i \in 1 .. Len(board) : i # prev[p] => board'[i].state = board[i].state
        BY <2>0, <3>1, ResolvedFacts
    <3>3. prev'[p] = 0 /\ \A q \in Procs : q # p => prev'[q] = prev[q]
        BY <1>0, <3>1
    <3> QED
        BY <1>0, <3>1, <3>2, <3>3 DEF HeldOnce
  <2> QED
      BY <1>2, <2>1, <2>2, <2>3, <2>4 DEF Deliver, PublishFeed
<1> QED
    BY <1>1, <1>2 DEF Next, vars, AlerterObserve, AlerterCheck, Tick

LEMMA Held == Spec => []HeldOnce
<1>1. Init => HeldOnce
    BY DEF Init, HeldOnce, NoMessage
<1> QED
    BY <1>1, HeldStep, TypeCorrect, PTL DEF Spec

\* A message that may still be edited shows an alert and is known in one place only.
THEOREM EditedAtMostOnce == Spec => []EditedOnce
<1>1. TypeOK /\ HeldOnce => EditedOnce
  <2> SUFFICES ASSUME TypeOK, HeldOnce, NEW msg \in DOMAIN board
               PROVE  LET holders == {k \in DOMAIN open : open[k] = msg} \cup
                                     {p \in Procs : prev[p] = msg}
                      IN /\ \A x, y \in holders : x = y
                         /\ holders # {} => board[msg].state = "alert"
      BY DEF EditedOnce
  <2>1. msg \in Int /\ msg > 0
      BY DEF TypeOK
  <2> QED
      BY <2>1 DEF HeldOnce
<1> QED
    BY <1>1, Held, TypeCorrect, PTL

-----------------------------------------------------------------------------
(* What the rules report.                                                  *)

\* Odd and even numbers alternate.
LEMMA Parity ==
    ASSUME NEW n \in Nat
    PROVE  n % 2 = 1 <=> (n + 1) % 2 # 1
    OBVIOUS

\* A rule that has reported once more has been told to change.
LEMMA AlternateStep == TypeOK /\ EventsAlternate /\ [Next]_vars => EventsAlternate'
<1> SUFFICES ASSUME TypeOK, EventsAlternate, [Next]_vars
             PROVE  EventsAlternate'
    OBVIOUS
<1>1. CASE UNCHANGED <<monitors, events>>
    BY <1>1 DEF EventsAlternate
<1>2. CASE (\E p \in Handlers : AlerterObserve(p)) \/ AlerterCheck
  <2>1. PICK p, result : Evaluation(p, result)
      BY <1>2, EvaluationByStep
  <2> SUFFICES ASSUME NEW r \in RuleIndex
               PROVE  /\ \A i \in 1 .. Len(events'[r]) :
                            events'[r][i] = IF i % 2 = 1 THEN "fired" ELSE "resolved"
                      /\ monitors'[r].fired <=> Len(events'[r]) % 2 = 1
      BY DEF EventsAlternate
  <2>2. /\ Tells(monitors[r], result[r]) /\ monitors'[r] = result[r].monitor
        /\ events'[r] = IF result[r].event # "none" THEN Append(events[r], result[r].event)
                        ELSE events[r]
        /\ events[r] \in Seq({"fired", "resolved"})
        /\ monitors[r].fired \in BOOLEAN /\ monitors'[r].fired \in BOOLEAN
      BY <2>1 DEF Evaluation, Evaluate, Reporting, TypeOK, Tells, MonitorRecord
  <2>3. /\ \A i \in 1 .. Len(events[r]) :
              events[r][i] = IF i % 2 = 1 THEN "fired" ELSE "resolved"
        /\ monitors[r].fired <=> Len(events[r]) % 2 = 1
      BY DEF EventsAlternate
  <2>4. CASE result[r].event = "none"
    <3>1. events'[r] = events[r]
        BY <2>2, <2>4
    <3>2. monitors'[r].fired <=> monitors[r].fired
        BY <2>2, <2>4 DEF Tells
    <3> QED
        BY <2>3, <3>1, <3>2
  <2>5. CASE result[r].event # "none"
    <3>1. /\ result[r].event \in {"fired", "resolved"}
          /\ result[r].event = "fired" <=> monitors'[r].fired
          /\ monitors'[r].fired <=> ~ monitors[r].fired
        BY <2>2, <2>5 DEF Tells, Events
    <3>2. /\ Len(events'[r]) = Len(events[r]) + 1 /\ Len(events[r]) \in Nat
          /\ \A i \in 1 .. Len(events[r]) : events'[r][i] = events[r][i]
          /\ events'[r][Len(events[r]) + 1] = result[r].event
        BY <2>2, <2>5, <3>1
    <3>3. PICK n \in Nat : n = Len(events[r])
        BY <3>2
    <3>4. n % 2 = 1 <=> (n + 1) % 2 # 1
        BY Parity
    <3>5. monitors'[r].fired <=> (n + 1) % 2 = 1
        BY <2>3, <3>1, <3>3, <3>4
    <3>6. events'[r][n + 1] = IF (n + 1) % 2 = 1 THEN "fired" ELSE "resolved"
        BY <3>1, <3>2, <3>3, <3>5
    <3>7. ASSUME NEW i \in 1 .. n + 1
          PROVE  events'[r][i] = IF i % 2 = 1 THEN "fired" ELSE "resolved"
      <4>1. CASE i = n + 1
          BY <3>6, <4>1
      <4>2. CASE i \in 1 .. n
          BY <2>3, <3>2, <3>3, <4>2
      <4> QED
          BY <4>1, <4>2
    <3> QED
        BY <3>2, <3>3, <3>5, <3>7
  <2> QED
      BY <2>4, <2>5
<1> QED
    BY <1>1, <1>2 DEF Next, vars, Deliver, PostAlert, RecordOpen, TakeOpen, PostResolved,
                      PublishFeed, Tick

\* A rule's events alternate, and the last one says whether it is firing.
THEOREM ReportsAlternate == Spec => []EventsAlternate
<1>1. Init => EventsAlternate
    BY InitFacts DEF Init, EventsAlternate
<1> QED
    BY <1>1, AlternateStep, TypeCorrect, PTL DEF Spec

\* An evaluation in full: each rule that has something to report makes one report more,
\* which its goroutine is to deliver.
LEMMA EvaluationFacts ==
    ASSUME TypeOK, Delivering, NEW p, NEW result, Evaluation(p, result)
    PROVE  /\ p \in Procs /\ pending[p] = << >> /\ UNCHANGED feed
           /\ \A q \in Procs : q # p => pending'[q] = pending[q]
           /\ Len(pending'[p]) \in Nat
           /\ \A i \in 1 .. Len(pending'[p]) :
                 /\ pending'[p][i].rule \in Reporting(result)
                 /\ pending'[p][i].number = Len(events[pending'[p][i].rule]) + 1
                 /\ pending'[p][i].event = result[pending'[p][i].rule].event
           /\ \A i, j \in 1 .. Len(pending'[p]) :
                 pending'[p][i].rule = pending'[p][j].rule => i = j
           /\ \A r \in Reporting(result) :
                 \E i \in 1 .. Len(pending'[p]) : pending'[p][i].rule = r
           /\ raced \subseteq raced'
           /\ \A r \in Reporting(result) \ raced' :
                 \A q \in Procs : \A i \in 1 .. Len(pending[q]) : pending[q][i].rule # r
<1> DEFINE R == Reporting(result)
<1>1. PICK n \in Nat : \E order \in [1 .. n -> R] :
              /\ \A r \in R : \E i \in 1 .. n : order[i] = r
              /\ \A i, j \in 1 .. n : i # j => order[i] # order[j]
              /\ pending' \in [Procs -> Seq(Notification)]
              /\ Len(pending'[p]) = n
              /\ \A i \in 1 .. n : pending'[p][i] = NotificationOf(order[i], result)
              /\ \A q \in Procs : q # p => pending'[q] = pending[q]
    BY EvaluationPending
<1>2. PICK order \in [1 .. n -> R] :
              /\ \A r \in R : \E i \in 1 .. n : order[i] = r
              /\ \A i, j \in 1 .. n : i # j => order[i] # order[j]
              /\ Len(pending'[p]) = n
              /\ \A i \in 1 .. n : pending'[p][i] = NotificationOf(order[i], result)
              /\ \A q \in Procs : q # p => pending'[q] = pending[q]
    BY <1>1
<1>3. \A i \in 1 .. n : /\ pending'[p][i].rule = order[i]
                        /\ pending'[p][i].number = Len(events[order[i]]) + 1
                        /\ pending'[p][i].event = result[order[i]].event
  <2>1. \A r : /\ NotificationOf(r, result).rule = r
               /\ NotificationOf(r, result).number = Len(events[r]) + 1
               /\ NotificationOf(r, result).event = result[r].event
      BY DEF NotificationOf
  <2> QED
      BY <1>2, <2>1
<1>4. p \in Procs /\ pending[p] = << >> /\ UNCHANGED feed
    BY DEF Evaluation, Delivering
<1>5. /\ raced \subseteq raced'
      /\ \A r \in R \ raced' : \A q \in Procs : \A nt \in ToSet(pending[q]) : nt.rule # r
    BY DEF Evaluation, Evaluate
<1>6. \A q \in Procs : \A i \in 1 .. Len(pending[q]) : pending[q][i] \in ToSet(pending[q])
    BY DEF TypeOK, ToSet
<1> HIDE DEF R
<1>7. \A r \in R \ raced' :
         \A q \in Procs : \A i \in 1 .. Len(pending[q]) : pending[q][i].rule # r
    BY <1>5, <1>6
<1>8. \A i \in 1 .. Len(pending'[p]) :
                 /\ pending'[p][i].rule \in R
                 /\ pending'[p][i].number = Len(events[pending'[p][i].rule]) + 1
                 /\ pending'[p][i].event = result[pending'[p][i].rule].event
  <2> SUFFICES ASSUME NEW i \in 1 .. n
               PROVE  /\ pending'[p][i].rule \in R
                      /\ pending'[p][i].number = Len(events[pending'[p][i].rule]) + 1
                      /\ pending'[p][i].event = result[pending'[p][i].rule].event
      BY <1>2
  <2>1. order[i] \in R
      BY <1>2
  <2> QED
      BY <1>3, <2>1
<1>9. /\ \A i, j \in 1 .. Len(pending'[p]) :
                 pending'[p][i].rule = pending'[p][j].rule => i = j
      /\ \A r \in R : \E i \in 1 .. Len(pending'[p]) : pending'[p][i].rule = r
    BY SMTT(30), <1>2, <1>3
<1> QED
    BY <1>1, <1>2, <1>4, <1>5, <1>7, <1>8, <1>9 DEF R

\* ... and the list of its reports grows by it.
LEMMA EvaluationEvents ==
    ASSUME TypeOK, NEW p, NEW result, Evaluation(p, result), NEW r \in RuleIndex
    PROVE  /\ Len(events[r]) \in Nat
           /\ r \in Reporting(result) =>
                 /\ Len(events'[r]) = Len(events[r]) + 1
                 /\ \A i \in 1 .. Len(events[r]) : events'[r][i] = events[r][i]
                 /\ events'[r][Len(events[r]) + 1] = result[r].event
           /\ r \notin Reporting(result) => events'[r] = events[r]
<1>1. /\ events[r] \in Seq({"fired", "resolved"})
      /\ r \in Reporting(result) => result[r].event \in {"fired", "resolved"}
    BY DEF TypeOK, Evaluation, Tells, Reporting, Events
<1>2. events'[r] = IF r \in Reporting(result) THEN Append(events[r], result[r].event)
                   ELSE events[r]
    BY DEF Evaluation, Evaluate
<1>3. CASE r \in Reporting(result)
    BY <1>1, <1>2, <1>3
<1>4. CASE r \notin Reporting(result)
    BY <1>1, <1>2, <1>4
<1> QED
    BY <1>3, <1>4

\* What PublishFeed does: the first notification of p goes to the feed.
LEMMA PublishFacts ==
    ASSUME TypeOK, Delivering, NEW p \in Procs, PublishFeed(p)
    PROVE  /\ Len(pending[p]) \in Nat /\ Len(pending[p]) >= 1
           /\ Len(pending'[p]) = Len(pending[p]) - 1
           /\ \A i \in 1 .. Len(pending'[p]) : pending'[p][i] = pending[p][i + 1]
           /\ \A q \in Procs : q # p => pending'[q] = pending[q]
           /\ Len(feed) \in Nat /\ Len(feed') = Len(feed) + 1
           /\ \A i \in 1 .. Len(feed) : feed'[i] = feed[i]
           /\ feed'[Len(feed) + 1] = pending[p][1]
           /\ UNCHANGED <<events, raced, monitors, open, prev, board, failures>>
<1>1. pc[p] # "idle"
    BY DEF PublishFeed
<1>2. pending'[p] = Tail(pending[p]) /\ \A q \in Procs : q # p => pending'[q] = pending[q]
    BY DEF PublishFeed, TypeOK
<1>3. /\ Head(pending[p]) = pending[p][1] /\ Head(pending[p]) \in Notification
      /\ Len(pending[p]) \in Nat /\ Len(pending[p]) >= 1
      /\ Len(Tail(pending[p])) = Len(pending[p]) - 1
      /\ \A i \in 1 .. Len(pending[p]) - 1 : Tail(pending[p])[i] = pending[p][i + 1]
    BY <1>1, HeadFacts
<1>4. feed \in Seq(Notification) /\ feed' = Append(feed, Head(pending[p]))
    BY DEF PublishFeed, TypeOK
<1>5. /\ Len(feed) \in Nat /\ Len(feed') = Len(feed) + 1
      /\ \A i \in 1 .. Len(feed) : feed'[i] = feed[i]
      /\ feed'[Len(feed) + 1] = pending[p][1]
    BY <1>3, <1>4
<1> QED
    BY <1>2, <1>3, <1>5 DEF PublishFeed

-----------------------------------------------------------------------------
(* No notification is lost.                                                *)

\* Two notifications that are the same report
Same(a, b) == a.rule = b.rule /\ a.number = b.number

\* A notification that says what its rule reported
Known(nt) ==
    /\ nt.number \in 1 .. Len(events[nt.rule])
    /\ nt.event = events[nt.rule][nt.number]

\* Every report is on the feed or waits with a goroutine, at one place
Placed ==
    /\ \A i \in 1 .. Len(feed) : Known(feed[i])
    /\ \A p \in Procs : \A i \in 1 .. Len(pending[p]) : Known(pending[p][i])
    /\ \A r \in RuleIndex : \A n \in 1 .. Len(events[r]) :
          \/ \E i \in 1 .. Len(feed) : feed[i].rule = r /\ feed[i].number = n
          \/ \E p \in Procs : \E i \in 1 .. Len(pending[p]) :
                pending[p][i].rule = r /\ pending[p][i].number = n
    /\ \A i, j \in 1 .. Len(feed) : Same(feed[i], feed[j]) => i = j
    /\ \A p, q \in Procs : \A i \in 1 .. Len(pending[p]), j \in 1 .. Len(pending[q]) :
          Same(pending[p][i], pending[q][j]) => p = q /\ i = j
    /\ \A i \in 1 .. Len(feed), p \in Procs : \A j \in 1 .. Len(pending[p]) :
          ~ Same(feed[i], pending[p][j])

\* Of a rule that never reported during a delivery of its own, one report at most
\* waits, the last; those on the feed are in order
InTurn ==
    /\ \A p, q \in Procs : \A i \in 1 .. Len(pending[p]), j \in 1 .. Len(pending[q]) :
          pending[p][i].rule = pending[q][j].rule /\ pending[p][i].rule \notin raced =>
              p = q /\ i = j
    /\ \A p \in Procs : \A i \in 1 .. Len(pending[p]) :
          pending[p][i].rule \notin raced =>
              pending[p][i].number = Len(events[pending[p][i].rule])
    /\ \A i, j \in 1 .. Len(feed) :
          i < j /\ feed[i].rule = feed[j].rule /\ feed[i].rule \notin raced =>
              feed[i].number < feed[j].number

\* What is known stays known when an evaluation adds reports.
LEMMA KnownStays ==
    ASSUME TypeOK, NEW p, NEW result, Evaluation(p, result),
           NEW nt, nt.rule \in RuleIndex, Known(nt)
    PROVE  Known(nt)' /\ nt.number \in Int /\ nt.number <= Len(events[nt.rule])
<1>1. /\ Len(events[nt.rule]) \in Nat
      /\ Len(events'[nt.rule]) \in {Len(events[nt.rule]), Len(events[nt.rule]) + 1}
      /\ \A i \in 1 .. Len(events[nt.rule]) : events'[nt.rule][i] = events[nt.rule][i]
    BY EvaluationEvents
<1> QED
    BY <1>1 DEF Known

\* Notifications name a rule, wherever they are.
LEMMA PlaceTypes ==
    ASSUME TypeOK
    PROVE  /\ Len(feed) \in Nat /\ \A i \in 1 .. Len(feed) : feed[i].rule \in RuleIndex
           /\ \A p \in Procs : /\ Len(pending[p]) \in Nat
                               /\ \A i \in 1 .. Len(pending[p]) :
                                     pending[p][i].rule \in RuleIndex
<1>1. \A nt \in Notification : nt.rule \in RuleIndex
    BY DEF Notification
<1>2. feed \in Seq(Notification) /\ \A p \in Procs : pending[p] \in Seq(Notification)
    BY DEF TypeOK
<1>3. Len(feed) \in Nat /\ \A i \in 1 .. Len(feed) : feed[i] \in Notification
    BY <1>2
<1>4. \A p \in Procs : Len(pending[p]) \in Nat /\
         \A i \in 1 .. Len(pending[p]) : pending[p][i] \in Notification
    BY <1>2
<1> QED
    BY <1>1, <1>3, <1>4

\* An evaluation places each new report with its goroutine.
LEMMA PlacedEvaluation ==
    ASSUME TypeOK, Delivering, Placed, NEW p, NEW result, Evaluation(p, result)
    PROVE  Placed'
<1> DEFINE R == Reporting(result)
<1>1. /\ p \in Procs /\ Len(pending[p]) = 0 /\ UNCHANGED feed
      /\ \A q \in Procs : q # p => pending'[q] = pending[q]
      /\ Len(pending'[p]) \in Nat
      /\ \A i \in 1 .. Len(pending'[p]) :
            /\ pending'[p][i].rule \in R
            /\ pending'[p][i].number = Len(events[pending'[p][i].rule]) + 1
            /\ pending'[p][i].event = result[pending'[p][i].rule].event
      /\ \A i, j \in 1 .. Len(pending'[p]) :
            pending'[p][i].rule = pending'[p][j].rule => i = j
      /\ \A r \in R : \E i \in 1 .. Len(pending'[p]) : pending'[p][i].rule = r
    BY EvaluationFacts
<1>2. \A r \in RuleIndex :
           /\ Len(events[r]) \in Nat
           /\ r \in R =>
                 /\ Len(events'[r]) = Len(events[r]) + 1
                 /\ events'[r][Len(events[r]) + 1] = result[r].event
           /\ r \notin R => events'[r] = events[r]
    BY EvaluationEvents
<1>3. R \subseteq RuleIndex
    BY DEF Reporting
<1> HIDE DEF R
<1>4. \A i \in 1 .. Len(feed) :
         /\ Known(feed[i])' /\ feed[i].number \in Int /\ feed[i].rule \in RuleIndex
         /\ feed[i].number <= Len(events[feed[i].rule])
  <2> SUFFICES ASSUME NEW i \in 1 .. Len(feed)
               PROVE  /\ Known(feed[i])' /\ feed[i].number \in Int /\ feed[i].rule \in RuleIndex
                      /\ feed[i].number <= Len(events[feed[i].rule])
      OBVIOUS
  <2>1. feed[i].rule \in RuleIndex /\ Known(feed[i])
      BY PlaceTypes DEF Placed
  <2>2. feed'[i] = feed[i]
      BY <1>1
  <2> QED
      BY <2>1, <2>2, KnownStays DEF Known
<1>5. \A q \in Procs : \A i \in 1 .. Len(pending[q]) :
         /\ q # p
         /\ pending'[q][i].number \in Int /\ pending'[q][i].rule \in RuleIndex
         /\ pending'[q][i].number <= Len(events[pending'[q][i].rule])
         /\ Known(pending[q][i])'
  <2> SUFFICES ASSUME NEW q \in Procs, NEW i \in 1 .. Len(pending[q])
               PROVE  /\ q # p
                      /\ pending'[q][i].number \in Int /\ pending'[q][i].rule \in RuleIndex
                      /\ pending'[q][i].number <= Len(events[pending'[q][i].rule])
                      /\ Known(pending[q][i])'
      OBVIOUS
  <2>1. q # p /\ pending'[q][i] = pending[q][i]
      BY <1>1
  <2>2. pending[q][i].rule \in RuleIndex /\ Known(pending[q][i])
      BY PlaceTypes DEF Placed
  <2> QED
      BY <2>1, <2>2, KnownStays DEF Known
<1>6. ASSUME NEW i \in 1 .. Len(pending'[p])
      PROVE  /\ pending'[p][i].rule \in RuleIndex
             /\ Len(events[pending'[p][i].rule]) \in Nat
             /\ pending'[p][i].number = Len(events[pending'[p][i].rule]) + 1
             /\ Known(pending[p][i])'
  <2>1. PICK r : r = pending'[p][i].rule
      OBVIOUS
  <2>2. r \in R /\ r \in RuleIndex /\ pending'[p][i].number = Len(events[r]) + 1
        /\ pending'[p][i].event = result[r].event
      BY <1>1, <1>3, <2>1
  <2>3. Len(events[r]) \in Nat /\ Len(events'[r]) = Len(events[r]) + 1
        /\ events'[r][Len(events[r]) + 1] = result[r].event
      BY <1>2, <2>2
  <2>4. pending'[p][i].number \in 1 .. Len(events'[r])
      BY <2>2, <2>3
  <2>5. pending'[p][i].event = events'[r][pending'[p][i].number]
      BY <2>2, <2>3
  <2> QED
      BY <2>1, <2>2, <2>3, <2>4, <2>5 DEF Known
<1>7. /\ \A i \in 1 .. Len(feed') : Known(feed[i])'
      /\ \A q \in Procs : \A i \in 1 .. Len(pending'[q]) : Known(pending[q][i])'
    BY <1>1, <1>4, <1>5, <1>6
<1>8. ASSUME NEW r \in RuleIndex, NEW n \in 1 .. Len(events'[r])
      PROVE  \/ \E i \in 1 .. Len(feed') : feed'[i].rule = r /\ feed'[i].number = n
             \/ \E q \in Procs : \E i \in 1 .. Len(pending'[q]) :
                   pending'[q][i].rule = r /\ pending'[q][i].number = n
  <2>1. CASE n \in 1 .. Len(events[r])
    <3>1. \/ \E i \in 1 .. Len(feed) : feed[i].rule = r /\ feed[i].number = n
          \/ \E q \in Procs : \E i \in 1 .. Len(pending[q]) :
                pending[q][i].rule = r /\ pending[q][i].number = n
        BY <2>1 DEF Placed
    <3> QED
        BY <1>1, <3>1
  <2>2. CASE n \notin 1 .. Len(events[r])
    <3>1. r \in R /\ n = Len(events[r]) + 1
        BY <1>2, <1>8, <2>2
    <3> QED
        BY <1>1, <3>1
  <2> QED
      BY <2>1, <2>2
<1>9. \A i, j \in 1 .. Len(feed') : Same(feed'[i], feed'[j]) => i = j
    BY <1>1 DEF Placed
<1>10. ASSUME NEW q \in Procs, NEW s \in Procs, NEW i \in 1 .. Len(pending'[q]),
              NEW j \in 1 .. Len(pending'[s]), Same(pending'[q][i], pending'[s][j])
       PROVE  q = s /\ i = j
  <2>1. CASE q = p /\ s = p
      BY <1>1, <1>10, <2>1 DEF Same
  <2>2. CASE q = p /\ s # p
    <3>1. j \in 1 .. Len(pending[s])
        BY <1>1, <2>2
    <3>2. /\ pending'[s][j].number \in Int
          /\ pending'[s][j].number <= Len(events[pending'[s][j].rule])
        BY <1>5, <3>1
    <3>3. /\ Len(events[pending'[q][i].rule]) \in Nat
          /\ pending'[q][i].number = Len(events[pending'[q][i].rule]) + 1
        BY <1>6, <2>2
    <3> QED
        BY <1>10, <3>2, <3>3 DEF Same
  <2>3. CASE q # p /\ s = p
    <3>1. i \in 1 .. Len(pending[q])
        BY <1>1, <2>3
    <3>2. /\ pending'[q][i].number \in Int
          /\ pending'[q][i].number <= Len(events[pending'[q][i].rule])
        BY <1>5, <3>1
    <3>3. /\ Len(events[pending'[s][j].rule]) \in Nat
          /\ pending'[s][j].number = Len(events[pending'[s][j].rule]) + 1
        BY <1>6, <2>3
    <3> QED
        BY <1>10, <3>2, <3>3 DEF Same
  <2>4. CASE q # p /\ s # p
      BY <1>1, <1>10, <2>4 DEF Placed
  <2> QED
      BY <2>1, <2>2, <2>3, <2>4
<1>11. ASSUME NEW i \in 1 .. Len(feed), NEW q \in Procs, NEW j \in 1 .. Len(pending'[q]),
              Same(feed[i], pending'[q][j])
       PROVE  FALSE
  <2>1. CASE q = p
    <3>1. /\ Len(events[pending'[q][j].rule]) \in Nat
          /\ pending'[q][j].number = Len(events[pending'[q][j].rule]) + 1
        BY <1>6, <2>1
    <3>2. feed[i].number \in Int /\ feed[i].number <= Len(events[feed[i].rule])
        BY <1>4
    <3> QED
        BY SMTT(30), <1>11, <3>1, <3>2 DEF Same
  <2>2. CASE q # p
      BY <1>1, <1>11, <2>2 DEF Placed
  <2> QED
      BY <2>1, <2>2
<1> QED
    BY SMTT(30), <1>1, <1>7, <1>8, <1>9, <1>10, <1>11 DEF Placed

\* Publishing moves one report from its goroutine to the end of the feed.
LEMMA PlacedPublish ==
    ASSUME TypeOK, Delivering, Placed, NEW p \in Procs, PublishFeed(p)
    PROVE  Placed'
<1>1. /\ Len(pending[p]) \in Nat /\ Len(pending[p]) >= 1
      /\ Len(pending'[p]) = Len(pending[p]) - 1
      /\ \A i \in 1 .. Len(pending'[p]) : pending'[p][i] = pending[p][i + 1]
      /\ \A q \in Procs : q # p => pending'[q] = pending[q]
      /\ Len(feed) \in Nat /\ Len(feed') = Len(feed) + 1
      /\ \A i \in 1 .. Len(feed) : feed'[i] = feed[i]
      /\ feed'[Len(feed) + 1] = pending[p][1]
      /\ events' = events
    BY PublishFacts
<1>2. ASSUME NEW q \in Procs, NEW i \in 1 .. Len(pending'[q])
      PROVE  /\ q = p => i + 1 \in 1 .. Len(pending[q]) /\ pending'[q][i] = pending[q][i + 1]
             /\ q # p => i \in 1 .. Len(pending[q]) /\ pending'[q][i] = pending[q][i]
    BY <1>1
<1>3. ASSUME NEW i \in 1 .. Len(feed')
      PROVE  /\ i \in Int
             /\ \/ i \in 1 .. Len(feed) /\ feed'[i] = feed[i]
                \/ i = Len(feed) + 1 /\ feed'[i] = pending[p][1]
    BY <1>1
<1>4. 1 \in 1 .. Len(pending[p])
    BY <1>1
<1>5. ASSUME NEW i \in 1 .. Len(feed')
      PROVE  Known(feed[i])'
  <2>1. Known(feed'[i])
      BY <1>3, <1>4 DEF Placed
  <2> QED
      BY <1>1, <2>1 DEF Known
<1>6. ASSUME NEW q \in Procs, NEW i \in 1 .. Len(pending'[q])
      PROVE  Known(pending[q][i])'
  <2>1. Known(pending'[q][i])
      BY <1>2 DEF Placed
  <2> QED
      BY <1>1, <2>1 DEF Known
<1>7. ASSUME NEW r \in RuleIndex, NEW n \in 1 .. Len(events'[r])
      PROVE  \/ \E i \in 1 .. Len(feed') : feed'[i].rule = r /\ feed'[i].number = n
             \/ \E q \in Procs : \E i \in 1 .. Len(pending'[q]) :
                   pending'[q][i].rule = r /\ pending'[q][i].number = n
  <2>0. n \in 1 .. Len(events[r])
      BY <1>1
  <2>1. \/ \E i \in 1 .. Len(feed) : feed[i].rule = r /\ feed[i].number = n
        \/ \E q \in Procs : \E i \in 1 .. Len(pending[q]) :
              pending[q][i].rule = r /\ pending[q][i].number = n
      BY <2>0 DEF Placed
  <2>2. CASE \E i \in 1 .. Len(feed) : feed[i].rule = r /\ feed[i].number = n
    <3>1. PICK i \in 1 .. Len(feed) : feed[i].rule = r /\ feed[i].number = n
        BY <2>2
    <3> QED
        BY <1>1, <3>1
  <2>3. ASSUME NEW q \in Procs, NEW i \in 1 .. Len(pending[q]),
               pending[q][i].rule = r, pending[q][i].number = n
        PROVE  \/ \E k \in 1 .. Len(feed') : feed'[k].rule = r /\ feed'[k].number = n
               \/ \E k \in 1 .. Len(pending'[q]) :
                     pending'[q][k].rule = r /\ pending'[q][k].number = n
    <3>1. CASE q # p
        BY <1>1, <2>3, <3>1
    <3>2. CASE q = p /\ i = 1
      <4>1. Len(feed) + 1 \in 1 .. Len(feed')
          BY <1>1
      <4> QED
          BY <1>1, <2>3, <3>2, <4>1
    <3>3. CASE q = p /\ i # 1
      <4>1. i - 1 \in 1 .. Len(pending'[q]) /\ (i - 1) + 1 = i
          BY <1>1, <3>3
      <4>2. pending'[q][i - 1] = pending[q][i]
          BY <1>1, <3>3, <4>1
      <4> QED
          BY <2>3, <4>1, <4>2
    <3> QED
        BY <3>1, <3>2, <3>3
  <2> QED
      BY <2>1, <2>2, <2>3
<1>8. ASSUME NEW i \in 1 .. Len(feed'), NEW j \in 1 .. Len(feed'),
             Same(feed'[i], feed'[j])
      PROVE  i = j
  <2>1. CASE i \in 1 .. Len(feed) /\ j \in 1 .. Len(feed)
      BY <1>1, <1>8, <2>1 DEF Placed
  <2>2. CASE i \in 1 .. Len(feed) /\ j \notin 1 .. Len(feed)
      BY <1>1, <1>3, <1>4, <1>8, <2>2 DEF Placed
  <2>3. CASE i \notin 1 .. Len(feed) /\ j \in 1 .. Len(feed)
    <3>1. Same(feed'[j], feed'[i])
        BY <1>8 DEF Same
    <3> QED
        BY <1>1, <1>3, <1>4, <2>3, <3>1 DEF Placed
  <2> QED
      BY <1>3, <2>1, <2>2, <2>3
<1>9. ASSUME NEW q \in Procs, NEW s \in Procs, NEW i \in 1 .. Len(pending'[q]),
             NEW j \in 1 .. Len(pending'[s]), Same(pending'[q][i], pending'[s][j])
      PROVE  q = s /\ i = j
  <2>1. i \in Int /\ j \in Int
      OBVIOUS
  <2>2. PICK k \in 1 .. Len(pending[q]) :
           pending'[q][i] = pending[q][k] /\ k = IF q = p THEN i + 1 ELSE i
      BY <1>2
  <2>3. PICK l \in 1 .. Len(pending[s]) :
           pending'[s][j] = pending[s][l] /\ l = IF s = p THEN j + 1 ELSE j
      BY <1>2
  <2>4. q = s /\ k = l
      BY <1>9, <2>2, <2>3 DEF Placed
  <2> QED
      BY <2>1, <2>2, <2>3, <2>4
<1>10. ASSUME NEW i \in 1 .. Len(feed'), NEW q \in Procs,
              NEW j \in 1 .. Len(pending'[q]), Same(feed'[i], pending'[q][j])
       PROVE  FALSE
  <2>1. PICK k \in 1 .. Len(pending[q]) :
           pending'[q][j] = pending[q][k] /\ k = IF q = p THEN j + 1 ELSE j
      BY <1>2
  <2>2. CASE i \in 1 .. Len(feed)
      BY <1>1, <1>10, <2>1, <2>2 DEF Placed
  <2>3. CASE i \notin 1 .. Len(feed)
    <3>1. Same(pending[p][1], pending[q][k])
        BY <1>3, <1>10, <2>1, <2>3
    <3>2. p = q /\ k = 1
        BY <1>4, <3>1 DEF Placed
    <3> QED
        BY <2>1, <3>2
  <2> QED
      BY <2>2, <2>3
<1> QED
    BY <1>5, <1>6, <1>7, <1>8, <1>9, <1>10 DEF Placed

LEMMA PlacedStep == TypeOK /\ Delivering /\ Placed /\ [Next]_vars => Placed'
<1> SUFFICES ASSUME TypeOK, Delivering, Placed, [Next]_vars PROVE Placed'
    OBVIOUS
<1>1. CASE UNCHANGED <<events, feed, pending>>
    BY <1>1 DEF Placed, Known
<1>2. ASSUME NEW p, NEW result, Evaluation(p, result) PROVE Placed'
    BY <1>2, PlacedEvaluation
<1>3. ASSUME NEW p \in Procs, Deliver(p) PROVE Placed'
  <2>1. CASE PublishFeed(p)
      BY <2>1, PlacedPublish
  <2>2. CASE PostAlert(p) \/ RecordOpen(p) \/ TakeOpen(p) \/ PostResolved(p)
      BY <1>1, <2>2 DEF PostAlert, RecordOpen, TakeOpen, PostResolved
  <2> QED
      BY <1>3, <2>1, <2>2 DEF Deliver
<1> QED
    BY <1>1, <1>2, <1>3, EvaluationByStep DEF Next, Tick, vars

\* A report of a rule that has none under way is the only one of its rule.
LEMMA InTurnEvaluation ==
    ASSUME TypeOK, Delivering, InTurn, NEW p, NEW result, Evaluation(p, result)
    PROVE  InTurn'
<1> DEFINE R == Reporting(result)
<1>1. /\ p \in Procs /\ pending[p] = << >> /\ feed' = feed
      /\ \A q \in Procs : q # p => pending'[q] = pending[q]
      /\ \A i \in 1 .. Len(pending'[p]) :
            /\ pending'[p][i].rule \in R
            /\ pending'[p][i].number = Len(events[pending'[p][i].rule]) + 1
      /\ \A i, j \in 1 .. Len(pending'[p]) :
            pending'[p][i].rule = pending'[p][j].rule => i = j
      /\ raced \subseteq raced'
      /\ \A r \in R \ raced' :
            \A q \in Procs : \A i \in 1 .. Len(pending[q]) : pending[q][i].rule # r
    BY EvaluationFacts
<1>2. \A r \in RuleIndex :
           /\ Len(events[r]) \in Nat
           /\ r \in R => Len(events'[r]) = Len(events[r]) + 1
           /\ r \notin R => events'[r] = events[r]
    BY EvaluationEvents
<1>3. R \subseteq RuleIndex
    BY DEF Reporting
<1> HIDE DEF R
<1>4. ASSUME NEW q \in Procs, NEW s \in Procs, NEW i \in 1 .. Len(pending'[q]),
             NEW j \in 1 .. Len(pending'[s]),
             pending'[q][i].rule = pending'[s][j].rule, pending'[q][i].rule \notin raced'
      PROVE  q = s /\ i = j
  <2>1. CASE q = p /\ s = p
      BY <1>1, <1>4, <2>1
  <2>2. CASE q = p /\ s # p
      BY <1>1, <1>4, <2>2
  <2>3. CASE q # p /\ s = p
      BY <1>1, <1>4, <2>3
  <2>4. CASE q # p /\ s # p
      BY <1>1, <1>4, <2>4 DEF InTurn
  <2> QED
      BY <2>1, <2>2, <2>3, <2>4
<1>5. ASSUME NEW q \in Procs, NEW i \in 1 .. Len(pending'[q]),
             pending'[q][i].rule \notin raced'
      PROVE  pending'[q][i].number = Len(events'[pending'[q][i].rule])
  <2>1. CASE q = p
      BY <1>1, <1>2, <1>3, <2>1
  <2>2. CASE q # p
    <3>1. pending'[q] = pending[q] /\ i \in 1 .. Len(pending[q])
        BY <1>1, <2>2
    <3>2. pending[q][i].rule \in RuleIndex /\ pending[q][i].rule \notin R
        BY <1>1, <1>5, <3>1, PlaceTypes
    <3>3. pending[q][i].number = Len(events[pending[q][i].rule])
        BY <1>1, <1>5, <3>1 DEF InTurn
    <3> QED
        BY <1>2, <3>1, <3>2, <3>3
  <2> QED
      BY <2>1, <2>2
<1>6. ASSUME NEW i \in 1 .. Len(feed'), NEW j \in 1 .. Len(feed'), i < j,
             feed'[i].rule = feed'[j].rule, feed'[i].rule \notin raced'
      PROVE  feed'[i].number < feed'[j].number
    BY <1>1, <1>6 DEF InTurn
<1>7. \A q, s \in Procs : \A i \in 1 .. Len(pending'[q]), j \in 1 .. Len(pending'[s]) :
         pending'[q][i].rule = pending'[s][j].rule /\ pending'[q][i].rule \notin raced' =>
             q = s /\ i = j
    BY <1>4
<1>8. \A q \in Procs : \A i \in 1 .. Len(pending'[q]) :
         pending'[q][i].rule \notin raced' =>
             pending'[q][i].number = Len(events'[pending'[q][i].rule])
    BY <1>5
<1>9. \A i, j \in 1 .. Len(feed') :
         i < j /\ feed'[i].rule = feed'[j].rule /\ feed'[i].rule \notin raced' =>
             feed'[i].number < feed'[j].number
    BY <1>6
<1> QED
    BY <1>7, <1>8, <1>9 DEF InTurn

\* Publishing the last report of such a rule keeps the feed in order.
LEMMA InTurnPublish ==
    ASSUME TypeOK, Delivering, Placed, InTurn, NEW p \in Procs, PublishFeed(p)
    PROVE  InTurn'
<1>1. /\ Len(pending[p]) \in Nat /\ Len(pending[p]) >= 1
      /\ Len(pending'[p]) = Len(pending[p]) - 1
      /\ \A i \in 1 .. Len(pending'[p]) : pending'[p][i] = pending[p][i + 1]
      /\ \A q \in Procs : q # p => pending'[q] = pending[q]
      /\ Len(feed) \in Nat /\ Len(feed') = Len(feed) + 1
      /\ \A i \in 1 .. Len(feed) : feed'[i] = feed[i]
      /\ feed'[Len(feed) + 1] = pending[p][1]
      /\ events' = events /\ raced' = raced
    BY PublishFacts
<1>2. ASSUME NEW q \in Procs, NEW i \in 1 .. Len(pending'[q])
      PROVE  \E k \in 1 .. Len(pending[q]) :
                pending'[q][i] = pending[q][k] /\ k = IF q = p THEN i + 1 ELSE i
    BY SMTT(30), <1>1
<1>3. ASSUME NEW q \in Procs, NEW s \in Procs, NEW i \in 1 .. Len(pending'[q]),
             NEW j \in 1 .. Len(pending'[s]),
             pending'[q][i].rule = pending'[s][j].rule, pending'[q][i].rule \notin raced'
      PROVE  q = s /\ i = j
  <2>1. i \in Int /\ j \in Int
      OBVIOUS
  <2>2. PICK k \in 1 .. Len(pending[q]) :
           pending'[q][i] = pending[q][k] /\ k = IF q = p THEN i + 1 ELSE i
      BY <1>2
  <2>3. PICK l \in 1 .. Len(pending[s]) :
           pending'[s][j] = pending[s][l] /\ l = IF s = p THEN j + 1 ELSE j
      BY <1>2
  <2>4. pending[q][k].rule = pending[s][l].rule /\ pending[q][k].rule \notin raced
      BY <1>1, <1>3, <2>2, <2>3
  <2>5. q = s /\ k = l
      BY <2>4 DEF InTurn
  <2> QED
      BY <2>1, <2>2, <2>3, <2>5
<1>4. ASSUME NEW q \in Procs, NEW i \in 1 .. Len(pending'[q]),
             pending'[q][i].rule \notin raced'
      PROVE  pending'[q][i].number = Len(events'[pending'[q][i].rule])
  <2>1. PICK k \in 1 .. Len(pending[q]) : pending'[q][i] = pending[q][k]
      BY <1>2
  <2>2. pending[q][k].number = Len(events[pending[q][k].rule])
      BY <1>1, <1>4, <2>1 DEF InTurn
  <2> QED
      BY <1>1, <2>1, <2>2
<1>5. ASSUME NEW i \in 1 .. Len(feed'), NEW j \in 1 .. Len(feed'), i < j,
             feed'[i].rule = feed'[j].rule, feed'[i].rule \notin raced'
      PROVE  feed'[i].number < feed'[j].number
  <2>1. CASE j \in 1 .. Len(feed)
    <3>1. i \in 1 .. Len(feed)
        BY <1>5, <2>1
    <3> QED
        BY <1>1, <1>5, <2>1, <3>1 DEF InTurn
  <2>2. CASE j \notin 1 .. Len(feed)
    <3>1. j = Len(feed) + 1 /\ i \in 1 .. Len(feed) /\ 1 \in 1 .. Len(pending[p])
        BY <1>1, <1>5, <2>2
    <3>2. feed'[i] = feed[i] /\ feed'[j] = pending[p][1]
        BY <1>1, <3>1
    <3>3. pending[p][1].number = Len(events[feed[i].rule])
      <4>1. pending[p][1].rule \notin raced /\ pending[p][1].rule = feed[i].rule
          BY <1>1, <1>5, <3>2
      <4>2. pending[p][1].number = Len(events[pending[p][1].rule])
          BY <3>1, <4>1 DEF InTurn
      <4> QED
          BY <4>1, <4>2
    <3>4. feed[i].number \in 1 .. Len(events[feed[i].rule])
        BY <3>1 DEF Placed, Known
    <3>5. feed[i].number # pending[p][1].number
        BY <1>5, <3>1, <3>2 DEF Placed, Same
    <3>6. Len(events[feed[i].rule]) \in Nat
      <4>1. feed[i].rule \in RuleIndex
          BY <3>1, PlaceTypes
      <4> QED
          BY <4>1 DEF TypeOK
    <3> QED
        BY <3>2, <3>3, <3>4, <3>5, <3>6
  <2> QED
      BY <2>1, <2>2
<1>6. \A q, s \in Procs : \A i \in 1 .. Len(pending'[q]), j \in 1 .. Len(pending'[s]) :
         pending'[q][i].rule = pending'[s][j].rule /\ pending'[q][i].rule \notin raced' =>
             q = s /\ i = j
    BY <1>3
<1>7. \A q \in Procs : \A i \in 1 .. Len(pending'[q]) :
         pending'[q][i].rule \notin raced' =>
             pending'[q][i].number = Len(events'[pending'[q][i].rule])
    BY <1>4
<1>8. \A i, j \in 1 .. Len(feed') :
         i < j /\ feed'[i].rule = feed'[j].rule /\ feed'[i].rule \notin raced' =>
             feed'[i].number < feed'[j].number
    BY <1>5
<1> QED
    BY <1>6, <1>7, <1>8 DEF InTurn

LEMMA InTurnStep ==
    TypeOK /\ Delivering /\ Placed /\ InTurn /\ [Next]_vars => InTurn'
<1> SUFFICES ASSUME TypeOK, Delivering, Placed, InTurn, [Next]_vars PROVE InTurn'
    OBVIOUS
<1>1. CASE UNCHANGED <<events, feed, pending, raced>>
    BY <1>1 DEF InTurn
<1>2. ASSUME NEW p, NEW result, Evaluation(p, result) PROVE InTurn'
    BY <1>2, InTurnEvaluation
<1>3. ASSUME NEW p \in Procs, Deliver(p) PROVE InTurn'
  <2>1. CASE PublishFeed(p)
      BY <2>1, InTurnPublish
  <2>2. CASE PostAlert(p) \/ RecordOpen(p) \/ TakeOpen(p) \/ PostResolved(p)
      BY <1>1, <2>2 DEF PostAlert, RecordOpen, TakeOpen, PostResolved
  <2> QED
      BY <1>3, <2>1, <2>2 DEF Deliver
<1> QED
    BY <1>1, <1>2, <1>3, EvaluationByStep DEF Next, Tick, vars

LEMMA PlacedInit == Init => Placed /\ InTurn
<1> SUFFICES ASSUME Init PROVE Placed /\ InTurn
    OBVIOUS
<1>1. /\ Len(feed) = 0 /\ \A p \in Procs : Len(pending[p]) = 0
      /\ \A r \in RuleIndex : Len(events[r]) = 0
    BY DEF Init
<1> QED
    BY <1>1 DEF Placed, InTurn

\* Where every report is: the invariants from which the theorem follows.
LEMMA Reports == Spec => [](Placed /\ InTurn)
<1>1. Init => Placed /\ InTurn
    BY PlacedInit
<1>2. TypeOK /\ Delivering /\ Placed /\ InTurn /\ [Next]_vars => (Placed /\ InTurn)'
    BY PlacedStep, InTurnStep
<1> QED
    BY <1>1, <1>2, TypeCorrect, PTL DEF Spec

\* A notification that is known is what its rule reported under its number.
LEMMA KnownReported ==
    ASSUME NEW nt \in Notification, Known(nt)
    PROVE  nt \in Reported(nt.rule) /\ nt.rule \in RuleIndex
<1>1. nt = [rule |-> nt.rule, event |-> nt.event, number |-> nt.number]
    BY DEF Notification
<1>2. nt.number \in 1 .. Len(events[nt.rule]) /\ nt.event = events[nt.rule][nt.number]
    BY DEF Known
<1>3. nt.rule \in RuleIndex
    BY DEF Notification
<1>4. nt = [rule |-> nt.rule, event |-> events[nt.rule][nt.number], number |-> nt.number]
    BY <1>1, <1>2
<1> QED
    BY <1>2, <1>3, <1>4 DEF Reported

LEMMA ReportedKnown ==
    ASSUME NEW nt \in Notification, Known(nt), NEW n, nt.number = n
    PROVE  nt = [rule |-> nt.rule, event |-> events[nt.rule][n], number |-> n]
<1>1. nt = [rule |-> nt.rule, event |-> nt.event, number |-> nt.number]
    BY DEF Notification
<1> QED
    BY <1>1 DEF Known

LEMMA NothingLostBecause == TypeOK /\ Placed /\ InTurn => NothingLost
<1> SUFFICES ASSUME TypeOK, Placed, InTurn PROVE NothingLost
    OBVIOUS
<1>1. /\ feed \in Seq(Notification) /\ Len(feed) \in Nat /\ DOMAIN feed = 1 .. Len(feed)
      /\ \A i \in 1 .. Len(feed) : feed[i] \in Notification
    BY DEF TypeOK
<1>2. \A p \in Procs : /\ Len(pending[p]) \in Nat /\ DOMAIN pending[p] = 1 .. Len(pending[p])
                       /\ \A i \in 1 .. Len(pending[p]) : pending[p][i] \in Notification
    BY DEF TypeOK
<1>3. ToSet(feed) = {feed[i] : i \in 1 .. Len(feed)}
    BY <1>1 DEF ToSet
<1>4. \A p \in Procs : ToSet(pending[p]) = {pending[p][i] : i \in 1 .. Len(pending[p])}
    BY <1>2 DEF ToSet
<1>5. ASSUME NEW r \in RuleIndex, NEW nt \in Reported(r)
      PROVE  nt \in ToSet(feed) \cup UNION {ToSet(pending[p]) : p \in Procs}
  <2>1. PICK n \in 1 .. Len(events[r]) :
           nt = [rule |-> r, event |-> events[r][n], number |-> n]
      BY DEF Reported
  <2>2. CASE \E i \in 1 .. Len(feed) : feed[i].rule = r /\ feed[i].number = n
    <3>1. PICK i \in 1 .. Len(feed) : feed[i].rule = r /\ feed[i].number = n
        BY <2>2
    <3>2. Known(feed[i])
        BY DEF Placed
    <3>3. feed[i] = nt
        BY <1>1, <2>1, <3>1, <3>2, ReportedKnown
    <3> QED
        BY <1>3, <3>3
  <2>3. CASE \E p \in Procs : \E i \in 1 .. Len(pending[p]) :
                pending[p][i].rule = r /\ pending[p][i].number = n
    <3>1. PICK p \in Procs : \E i \in 1 .. Len(pending[p]) :
                pending[p][i].rule = r /\ pending[p][i].number = n
        BY <2>3
    <3>2. PICK i \in 1 .. Len(pending[p]) :
                pending[p][i].rule = r /\ pending[p][i].number = n
        BY <3>1
    <3>3. Known(pending[p][i])
        BY DEF Placed
    <3>4. pending[p][i] = nt
        BY <1>2, <2>1, <3>2, <3>3, ReportedKnown
    <3> QED
        BY <1>4, <3>4
  <2> QED
      BY <2>2, <2>3 DEF Placed
<1>6. ASSUME NEW nt \in ToSet(feed) \cup UNION {ToSet(pending[p]) : p \in Procs}
      PROVE  nt \in UNION {Reported(r) : r \in RuleIndex}
  <2>1. nt \in Notification /\ Known(nt)
      BY <1>1, <1>2, <1>3, <1>4 DEF Placed
  <2> QED
      BY <2>1, KnownReported
<1>7. UNION {Reported(r) : r \in RuleIndex} =
         ToSet(feed) \cup UNION {ToSet(pending[p]) : p \in Procs}
    BY <1>5, <1>6
<1>8. IsInjective(feed)
    BY <1>1 DEF IsInjective, Placed, Same
<1>9. ASSUME NEW p \in Procs
      PROVE  /\ IsInjective(pending[p])
             /\ ToSet(feed) \cap ToSet(pending[p]) = {}
             /\ \A q \in Procs \ {p} : ToSet(pending[q]) \cap ToSet(pending[p]) = {}
  <2>1. IsInjective(pending[p])
      BY <1>2 DEF IsInjective, Placed, Same
  <2>2. ToSet(feed) \cap ToSet(pending[p]) = {}
    <3>1. ASSUME NEW i \in 1 .. Len(feed), NEW j \in 1 .. Len(pending[p])
          PROVE  feed[i] # pending[p][j]
      <4>1. ~ Same(feed[i], pending[p][j])
          BY DEF Placed
      <4> QED
          BY <4>1 DEF Same
    <3>2. ASSUME NEW x, x \in ToSet(feed), x \in ToSet(pending[p]) PROVE FALSE
      <4>1. PICK i \in 1 .. Len(feed) : x = feed[i]
          BY <1>3, <3>2
      <4>2. PICK j \in 1 .. Len(pending[p]) : x = pending[p][j]
          BY <1>4, <3>2
      <4> QED
          BY <3>1, <4>1, <4>2
    <3> QED
        BY <3>2
  <2>3. ASSUME NEW q \in Procs \ {p}
        PROVE  ToSet(pending[q]) \cap ToSet(pending[p]) = {}
    <3>1. ASSUME NEW i \in 1 .. Len(pending[q]), NEW j \in 1 .. Len(pending[p])
          PROVE  pending[q][i] # pending[p][j]
      <4>1. ~ Same(pending[q][i], pending[p][j])
          BY DEF Placed
      <4> QED
          BY <4>1 DEF Same
    <3>2. ASSUME NEW x, x \in ToSet(pending[q]), x \in ToSet(pending[p]) PROVE FALSE
      <4>1. PICK i \in 1 .. Len(pending[q]) : x = pending[q][i]
          BY <1>4, <3>2
      <4>2. PICK j \in 1 .. Len(pending[p]) : x = pending[p][j]
          BY <1>4, <3>2
      <4> QED
          BY <3>1, <4>1, <4>2
    <3> QED
        BY <3>2
  <2> QED
      BY <2>1, <2>2, <2>3
<1>10. \A i, j \in 1 .. Len(feed) :
          i < j /\ feed[i].rule = feed[j].rule /\ feed[i].rule \notin raced =>
              feed[i].number < feed[j].number
    BY DEF InTurn
<1>11. ASSUME NEW i \in 1 .. Len(feed), NEW p \in Procs, NEW nt \in ToSet(pending[p]),
              nt.rule = feed[i].rule, nt.rule \notin raced
       PROVE  feed[i].number < nt.number
  <2>1. PICK j \in 1 .. Len(pending[p]) : nt = pending[p][j]
      BY <1>4
  <2>2. nt.number = Len(events[feed[i].rule])
      BY <1>11, <2>1 DEF InTurn
  <2>3. feed[i].number \in 1 .. Len(events[feed[i].rule])
      BY DEF Placed, Known
  <2>4. feed[i].number # nt.number
      BY <1>11, <2>1 DEF Placed, Same
  <2>5. Len(events[feed[i].rule]) \in Nat
    <3>1. feed[i].rule \in RuleIndex
        BY PlaceTypes
    <3> QED
        BY <3>1 DEF TypeOK
  <2> QED
      BY <2>2, <2>3, <2>4, <2>5
<1>12. \A i \in 1 .. Len(feed), p \in Procs : \A nt \in ToSet(pending[p]) :
          nt.rule = feed[i].rule /\ nt.rule \notin raced => feed[i].number < nt.number
    BY <1>11
<1> QED
    BY <1>7, <1>8, <1>9, <1>10, <1>12 DEF NothingLost

\* Every notification is still with the goroutine that delivers it or has been on the
\* feed, once and, but for rules that reported during a delivery of their own, in the
\* order of the reports: whatever the goroutines and Slack do.
THEOREM EveryReportDelivered == Spec => []NothingLost
<1>1. TypeOK /\ Placed /\ InTurn => NothingLost
    BY NothingLostBecause
<1> QED
    BY <1>1, TypeCorrect, Reports, PTL

-----------------------------------------------------------------------------
(* The channel agrees with the rules.                                      *)

\* The key of rule r remembers the one alert that the channel shows for it
Remembered(r) ==
    /\ ruleKey(r) \in DOMAIN open /\ open[ruleKey(r)] > 0
    /\ AlertsShown(r) = {open[ruleKey(r)]}

\* The goroutine p has it in hand
InHand(r, p) ==
    /\ ruleKey(r) \notin DOMAIN open /\ prev[p] > 0
    /\ AlertsShown(r) = {prev[p]}

\* The channel shows no alert of rule r
Gone(r) == ruleKey(r) \notin DOMAIN open /\ AlertsShown(r) = {}

\* The rules the agreement is about
Undisturbed(r) == r \notin raced /\ HasToken(r) /\ OfItsOwn(r)

\* Slack's part in the i-th notification of p is done
SlackDone(p, i) == i = 1 /\ pc[p] = "publish"

\* ... or half done
SlackHalf(p, i) == i = 1 /\ pc[p] \in {"record", "resolve"}

\* What the channel shows of r while the i-th notification of p is one of r
At(r, p, i) ==
    IF SlackHalf(p, i) THEN InHand(r, p)
    ELSE IF SlackDone(p, i) <=> pending[p][i].event = "fired" THEN Remembered(r)
    ELSE Gone(r)

\* ... and in general: what the last report of r says whose delivery to Slack is done
Shown(r) ==
    /\ (\A p \in Procs : \A i \in 1 .. Len(pending[p]) : pending[p][i].rule # r) =>
          IF monitors[r].fired THEN Remembered(r) ELSE Gone(r)
    /\ \A p \in Procs : \A i \in 1 .. Len(pending[p]) :
          pending[p][i].rule = r => At(r, p, i)

\* As long as Slack does not fail, the channel shows what it should of such a rule,
\* and the message to be edited is known
Showing == failures = 0 => \A r \in RuleIndex : Undisturbed(r) => Shown(r)

LEMMA KeyOfItsOwn ==
    ASSUME NEW r, OfItsOwn(r), NEW q \in RuleIndex, q # r
    PROVE  ruleKey(q) # ruleKey(r)
    BY DEF OfItsOwn, ruleKey

\* A message more shows an alert more, of the rule it is about.
LEMMA PostedShown ==
    ASSUME TypeOK, Delivering, NEW p \in Procs, pc[p] # "idle",
           board' = Posted(Head(pending[p]), "alert"), NEW r \in RuleIndex
    PROVE  /\ Len(board) \in Nat
           /\ r = Head(pending[p]).rule =>
                 AlertsShown(r)' = AlertsShown(r) \cup {Len(board) + 1}
           /\ r # Head(pending[p]).rule => AlertsShown(r)' = AlertsShown(r)
<1>1. board \in Seq(Message) /\ Len(board) \in Nat /\ DOMAIN board = 1 .. Len(board)
    BY DEF TypeOK
<1>2. /\ board' \in Seq(Message) /\ Len(board') = Len(board) + 1
      /\ \A i \in 1 .. Len(board) : board'[i] = board[i]
      /\ board'[Len(board) + 1].state = "alert"
      /\ board'[Len(board) + 1].rule = Head(pending[p]).rule
    BY PostedFacts
<1>3. DOMAIN board' = 1 .. Len(board) + 1
    BY <1>2
<1> QED
    BY <1>1, <1>2, <1>3 DEF AlertsShown

\* The effect of PostResolved is that the message in hand shows no alert.
LEMMA ResolvedShown ==
    ASSUME TypeOK, Delivering, NEW p \in Procs, pc[p] # "idle", board' = Resolved(p),
           NEW r \in RuleIndex
    PROVE  AlertsShown(r)' = AlertsShown(r) \ {prev[p]}
<1>1. board \in Seq(Message) /\ Len(board) \in Nat /\ DOMAIN board = 1 .. Len(board)
    BY DEF TypeOK
<1>2. /\ board' \in Seq(Message) /\ Len(board') \in {Len(board), Len(board) + 1}
      /\ \A i \in 1 .. Len(board) :
            /\ board'[i].rule = board[i].rule
            /\ board'[i].state = IF i = prev[p] THEN "resolved" ELSE board[i].state
      /\ \A i \in 1 .. Len(board') : i \notin 1 .. Len(board) => board'[i].state = "resolved"
    BY ResolvedFacts
<1>3. DOMAIN board' = 1 .. Len(board')
    BY <1>2
<1>4. 1 .. Len(board) \subseteq 1 .. Len(board')
    BY <1>1, <1>2
<1>5. "resolved" # "alert"
    OBVIOUS
<1>6. ASSUME NEW i \in AlertsShown(r)' PROVE i \in AlertsShown(r) /\ i # prev[p]
    BY <1>1, <1>2, <1>3, <1>5 DEF AlertsShown
<1>7. ASSUME NEW i \in AlertsShown(r), i # prev[p] PROVE i \in AlertsShown(r)'
    BY <1>1, <1>2, <1>3, <1>4, <1>7 DEF AlertsShown
<1> QED
    BY <1>6, <1>7

\* A step of p's delivery of another rule's notification leaves r's as they are.
LEMMA OthersShown ==
    ASSUME TypeOK, Delivering, NEW p \in Procs, pc[p] # "idle",
           NEW r \in RuleIndex, Shown(r), Head(pending[p]).rule # r,
           UNCHANGED <<monitors, pending>>,
           \A q \in Procs : q # p => pc'[q] = pc[q] /\ prev'[q] = prev[q],
           ruleKey(r) \in DOMAIN open' <=> ruleKey(r) \in DOMAIN open,
           ruleKey(r) \in DOMAIN open => open'[ruleKey(r)] = open[ruleKey(r)],
           AlertsShown(r)' = AlertsShown(r)
    PROVE  Shown(r)'
<1>1. (Remembered(r) => Remembered(r)') /\ (Gone(r) => Gone(r)')
    BY DEF Remembered, Gone
<1>2. \A q \in Procs : q # p => (InHand(r, q) => InHand(r, q)')
    BY DEF InHand
<1>3. ASSUME NEW q \in Procs, NEW i \in 1 .. Len(pending[q]), pending[q][i].rule = r
      PROVE  At(r, q, i)'
  <2>1. At(r, q, i)
      BY <1>3 DEF Shown
  <2>2. CASE q # p
      BY <1>1, <1>2, <2>1, <2>2 DEF At, SlackHalf, SlackDone
  <2>3. CASE q = p
    <3>1. i # 1
        BY <1>3, <2>3, HeadFacts
    <3> QED
        BY <1>1, <2>1, <3>1 DEF At, SlackHalf, SlackDone
  <2> QED
      BY <2>2, <2>3
<1> QED
    BY <1>1, <1>3 DEF Shown

\* A step of p's delivery of the only notification of r.
LEMMA OneShown ==
    ASSUME TypeOK, Delivering, InTurn, NEW p \in Procs, pc[p] # "idle",
           NEW r \in RuleIndex, Undisturbed(r), Shown(r), Head(pending[p]).rule = r
    PROVE  /\ At(r, p, 1)
           /\ \A q \in Procs : \A i \in 1 .. Len(pending[q]) :
                 pending[q][i].rule = r => q = p /\ i = 1
           /\ UNCHANGED pending /\ At(r, p, 1)' => Shown(r)'
<1>1. 1 \in 1 .. Len(pending[p]) /\ pending[p][1].rule = r
    BY HeadFacts
<1>2. At(r, p, 1)
    BY <1>1 DEF Shown
<1>3. \A q \in Procs : \A i \in 1 .. Len(pending[q]) :
         pending[q][i].rule = r => q = p /\ i = 1
    BY <1>1 DEF Undisturbed, InTurn
<1>4. UNCHANGED pending /\ At(r, p, 1)' => Shown(r)'
    BY <1>1, <1>3 DEF Shown
<1> QED
    BY <1>2, <1>3, <1>4

\* An alert is posted: from nothing shown to a message in hand.
LEMMA ShowingPost ==
    ASSUME TypeOK, Delivering, InTurn, Showing, NEW p \in Procs, PostAlert(p)
    PROVE  Showing'
<1> SUFFICES ASSUME failures' = 0, NEW r \in RuleIndex, Undisturbed(r)'
             PROVE  Shown(r)'
    BY DEF Showing
<1>0. pc[p] = "notify" /\ pc[p] # "idle" /\ failures \in Nat
    BY AlertingAssumption DEF PostAlert, TypeOK
<1>1. /\ failures = 0 /\ board' = Posted(Head(pending[p]), "alert")
      /\ prev' = [prev EXCEPT ![p] = IF HasToken(Head(pending[p]).rule)
                                     THEN Len(board) + 1 ELSE UnknownMessage]
      /\ pc' = [pc EXCEPT ![p] = "record"]
    BY <1>0 DEF PostAlert, SlackOK, SlackFails
<1>2. /\ UNCHANGED <<monitors, pending, open, raced>>
      /\ Head(pending[p]).event = "fired"
    BY DEF PostAlert
<1>3. Undisturbed(r) /\ Shown(r)
    BY <1>1, <1>2 DEF Undisturbed, Showing
<1>4. /\ pc'[p] = "record" /\ \A q \in Procs : q # p => pc'[q] = pc[q] /\ prev'[q] = prev[q]
      /\ HasToken(Head(pending[p]).rule) => prev'[p] = Len(board) + 1
    BY <1>1 DEF TypeOK
<1>5. CASE Head(pending[p]).rule # r
  <2>1. AlertsShown(r)' = AlertsShown(r)
      BY <1>0, <1>1, <1>5, PostedShown
  <2> QED
      BY <1>0, <1>2, <1>3, <1>4, <1>5, <2>1, OthersShown
<1>6. CASE Head(pending[p]).rule = r
  <2>1. At(r, p, 1) /\ pending[p][1].event = "fired"
      BY <1>0, <1>2, <1>3, <1>6, OneShown, HeadFacts
  <2>2. Gone(r)
      BY <1>0, <2>1 DEF At, SlackHalf, SlackDone
  <2>3. AlertsShown(r)' = AlertsShown(r) \cup {Len(board) + 1} /\ Len(board) \in Nat
      BY <1>0, <1>1, <1>6, PostedShown
  <2>4. prev'[p] = Len(board) + 1 /\ prev'[p] > 0
      BY <1>3, <1>4, <1>6, <2>3 DEF Undisturbed
  <2>5. AlertsShown(r)' = {prev'[p]} /\ ruleKey(r) \notin DOMAIN open'
      BY <1>2, <2>2, <2>3, <2>4 DEF Gone
  <2>6. At(r, p, 1)'
      BY <1>4, <2>4, <2>5 DEF At, SlackHalf, InHand
  <2> QED
      BY <1>0, <1>2, <1>3, <1>6, <2>6, OneShown
<1> QED
    BY <1>5, <1>6

\* It is remembered under the rule's key.
LEMMA ShowingRecord ==
    ASSUME TypeOK, Delivering, InTurn, Showing, NEW p \in Procs, RecordOpen(p)
    PROVE  Showing'
<1> SUFFICES ASSUME failures' = 0, NEW r \in RuleIndex, Undisturbed(r)'
             PROVE  Shown(r)'
    BY DEF Showing
<1>0. pc[p] = "record" /\ pc[p] # "idle"
    BY DEF RecordOpen
<1> DEFINE key == ruleKey(Head(pending[p]).rule)
<1>1. /\ failures = 0 /\ UNCHANGED <<monitors, pending, board, raced>>
      /\ open' = [k \in DOMAIN open \cup {key} |-> IF k = key THEN prev[p] ELSE open[k]]
      /\ prev' = [prev EXCEPT ![p] = NoMessage] /\ pc' = [pc EXCEPT ![p] = "publish"]
    BY DEF RecordOpen
<1>2. Undisturbed(r) /\ Shown(r)
    BY <1>1 DEF Undisturbed, Showing
<1>3. AlertsShown(r)' = AlertsShown(r)
    BY <1>1 DEF AlertsShown
<1>4. pc'[p] = "publish" /\ \A q \in Procs : q # p => pc'[q] = pc[q] /\ prev'[q] = prev[q]
    BY <1>1 DEF TypeOK
<1>5. CASE Head(pending[p]).rule # r
  <2>1. key # ruleKey(r)
      BY <1>0, <1>2, <1>5, KeyOfItsOwn, HeadFacts DEF Undisturbed
  <2> HIDE DEF key
  <2>2. /\ ruleKey(r) \in DOMAIN open' <=> ruleKey(r) \in DOMAIN open
        /\ ruleKey(r) \in DOMAIN open => open'[ruleKey(r)] = open[ruleKey(r)]
      BY <1>1, <2>1
  <2> QED
      BY <1>0, <1>1, <1>2, <1>3, <1>4, <1>5, <2>2, OthersShown
<1>6. CASE Head(pending[p]).rule = r
  <2>1. At(r, p, 1) /\ pending[p][1].event = "fired"
      BY <1>0, <1>2, <1>6, OneShown, HeadFacts DEF Delivering
  <2>2. InHand(r, p)
      BY <1>0, <2>1 DEF At, SlackHalf
  <2>3. key = ruleKey(r)
      BY <1>6
  <2> HIDE DEF key
  <2>4. ruleKey(r) \in DOMAIN open' /\ open'[ruleKey(r)] = prev[p]
      BY <1>1, <2>3
  <2>5. Remembered(r)'
      BY <1>3, <2>2, <2>4 DEF Remembered, InHand
  <2>6. At(r, p, 1)'
      BY <1>1, <1>4, <2>1, <2>5 DEF At, SlackHalf, SlackDone
  <2> QED
      BY <1>0, <1>1, <1>2, <1>6, <2>6, OneShown
<1> QED
    BY <1>5, <1>6

\* A recovery takes it in hand again.
LEMMA ShowingTake ==
    ASSUME TypeOK, Delivering, InTurn, Showing, NEW p \in Procs, TakeOpen(p)
    PROVE  Showing'
<1> SUFFICES ASSUME failures' = 0, NEW r \in RuleIndex, Undisturbed(r)'
             PROVE  Shown(r)'
    BY DEF Showing
<1>0. pc[p] = "notify" /\ pc[p] # "idle"
    BY DEF TakeOpen
<1> DEFINE key == ruleKey(Head(pending[p]).rule)
<1>1. /\ failures = 0 /\ UNCHANGED <<monitors, pending, board, raced>>
      /\ Head(pending[p]).event = "resolved"
      /\ open' = [k \in DOMAIN open \ {key} |-> open[k]]
      /\ prev' = [prev EXCEPT ![p] = OpenAt(key)] /\ pc' = [pc EXCEPT ![p] = "resolve"]
    BY DEF TakeOpen, Take
<1>2. Undisturbed(r) /\ Shown(r)
    BY <1>1 DEF Undisturbed, Showing
<1>3. AlertsShown(r)' = AlertsShown(r)
    BY <1>1 DEF AlertsShown
<1>4. /\ pc'[p] = "resolve" /\ prev'[p] = OpenAt(key)
      /\ \A q \in Procs : q # p => pc'[q] = pc[q] /\ prev'[q] = prev[q]
    BY <1>1 DEF TypeOK
<1>5. CASE Head(pending[p]).rule # r
  <2>1. key # ruleKey(r)
      BY <1>0, <1>2, <1>5, KeyOfItsOwn, HeadFacts DEF Undisturbed
  <2> HIDE DEF key
  <2>2. /\ ruleKey(r) \in DOMAIN open' <=> ruleKey(r) \in DOMAIN open
        /\ ruleKey(r) \in DOMAIN open => open'[ruleKey(r)] = open[ruleKey(r)]
      BY <1>1, <2>1
  <2> QED
      BY <1>0, <1>1, <1>2, <1>3, <1>4, <1>5, <2>2, OthersShown
<1>6. CASE Head(pending[p]).rule = r
  <2>1. At(r, p, 1) /\ pending[p][1].event = "resolved"
      BY <1>0, <1>1, <1>2, <1>6, OneShown, HeadFacts
  <2>2. Remembered(r)
      BY <1>0, <2>1 DEF At, SlackHalf, SlackDone
  <2>3. key = ruleKey(r)
      BY <1>6
  <2> HIDE DEF key
  <2>4. ruleKey(r) \notin DOMAIN open' /\ prev'[p] = open[ruleKey(r)]
      BY <1>1, <1>4, <2>2, <2>3 DEF OpenAt, Remembered
  <2>5. InHand(r, p)'
      BY <1>3, <2>2, <2>4 DEF Remembered, InHand
  <2>6. At(r, p, 1)'
      BY <1>4, <2>5 DEF At, SlackHalf
  <2> QED
      BY <1>0, <1>1, <1>2, <1>6, <2>6, OneShown
<1> QED
    BY <1>5, <1>6

\* The message in hand is edited: no alert is shown any more.
LEMMA ShowingResolved ==
    ASSUME TypeOK, Delivering, HeldOnce, InTurn, Showing, NEW p \in Procs, PostResolved(p)
    PROVE  Showing'
<1> SUFFICES ASSUME failures' = 0, NEW r \in RuleIndex, Undisturbed(r)'
             PROVE  Shown(r)'
    BY DEF Showing
<1>0. pc[p] = "resolve" /\ pc[p] # "idle" /\ failures \in Nat
    BY AlertingAssumption DEF PostResolved, TypeOK
<1>1. /\ failures = 0 /\ board' = Resolved(p)
      /\ UNCHANGED <<monitors, pending, open, raced>>
      /\ prev' = [prev EXCEPT ![p] = NoMessage] /\ pc' = [pc EXCEPT ![p] = "publish"]
    BY <1>0 DEF PostResolved, SlackOK, SlackFails, Resolved
<1>2. Undisturbed(r) /\ Shown(r)
    BY <1>1 DEF Undisturbed, Showing
<1>3. AlertsShown(r)' = AlertsShown(r) \ {prev[p]}
    BY <1>0, <1>1, ResolvedShown
<1>4. pc'[p] = "publish" /\ \A q \in Procs : q # p => pc'[q] = pc[q] /\ prev'[q] = prev[q]
    BY <1>1 DEF TypeOK
<1>5. CASE Head(pending[p]).rule # r
  <2>1. ASSUME prev[p] \in AlertsShown(r) PROVE FALSE
    <3>1. prev[p] > 0
        BY <2>1 DEF AlertsShown, TypeOK
    <3>2. \/ Remembered(r) \/ Gone(r)
          \/ \E q \in Procs : q # p /\ InHand(r, q)
      <4>1. CASE \A q \in Procs : \A i \in 1 .. Len(pending[q]) : pending[q][i].rule # r
          BY <1>2, <4>1 DEF Shown
      <4>2. ASSUME NEW q \in Procs, NEW i \in 1 .. Len(pending[q]), pending[q][i].rule = r
            PROVE  Remembered(r) \/ Gone(r) \/ \E s \in Procs : s # p /\ InHand(r, s)
        <5>1. At(r, q, i)
            BY <1>2, <4>2 DEF Shown
        <5>2. q # p \/ i # 1
            BY <1>0, <1>5, <4>2, HeadFacts
        <5> QED
            BY <5>1, <5>2 DEF At, SlackHalf
      <4> QED
          BY <4>1, <4>2
    <3>3. CASE Remembered(r)
        BY <2>1, <3>1, <3>3 DEF Remembered, HeldOnce
    <3>4. CASE Gone(r)
        BY <2>1, <3>4 DEF Gone
    <3>5. ASSUME NEW q \in Procs, q # p, InHand(r, q) PROVE FALSE
        BY <2>1, <3>1, <3>5 DEF InHand, HeldOnce
    <3> QED
        BY <3>2, <3>3, <3>4, <3>5
  <2>2. AlertsShown(r)' = AlertsShown(r)
      BY <1>3, <2>1
  <2> QED
      BY <1>0, <1>1, <1>2, <1>4, <1>5, <2>2, OthersShown
<1>6. CASE Head(pending[p]).rule = r
  <2>1. At(r, p, 1) /\ pending[p][1].event = "resolved"
      BY <1>0, <1>2, <1>6, OneShown, HeadFacts DEF Delivering
  <2>2. InHand(r, p)
      BY <1>0, <2>1 DEF At, SlackHalf
  <2>3. Gone(r)'
      BY <1>1, <1>3, <2>2 DEF InHand, Gone
  <2>4. At(r, p, 1)'
      BY <1>1, <1>4, <2>1, <2>3 DEF At, SlackHalf, SlackDone
  <2> QED
      BY <1>0, <1>1, <1>2, <1>6, <2>4, OneShown
<1> QED
    BY <1>5, <1>6

\* The last report of a rule in turn says whether the rule is firing.
LEMMA LastReport ==
    ASSUME TypeOK, Placed, InTurn, EventsAlternate, NEW p \in Procs,
           NEW i \in 1 .. Len(pending[p]), NEW r \in RuleIndex, pending[p][i].rule = r,
           r \notin raced
    PROVE  monitors[r].fired <=> pending[p][i].event = "fired"
<1>1. pending[p][i].number = Len(events[r]) /\ Known(pending[p][i])
    BY DEF InTurn, Placed
<1>2. /\ Len(events[r]) \in 1 .. Len(events[r])
      /\ pending[p][i].event = events[r][Len(events[r])]
    BY <1>1 DEF Known
<1>3. /\ events[r][Len(events[r])] = IF Len(events[r]) % 2 = 1 THEN "fired" ELSE "resolved"
      /\ monitors[r].fired <=> Len(events[r]) % 2 = 1
    BY <1>2 DEF EventsAlternate
<1> QED
    BY <1>2, <1>3

\* Publishing ends the delivery of a notification: what is shown stays.
LEMMA ShowingPublish ==
    ASSUME TypeOK, Delivering, Placed, InTurn, EventsAlternate, Showing,
           NEW p \in Procs, PublishFeed(p)
    PROVE  Showing'
<1> SUFFICES ASSUME failures' = 0, NEW r \in RuleIndex, Undisturbed(r)'
             PROVE  Shown(r)'
    BY DEF Showing
<1>0. pc[p] = "publish" /\ pc[p] # "idle"
    BY DEF PublishFeed
<1>1. /\ Len(pending[p]) \in Nat /\ Len(pending[p]) >= 1
      /\ Len(pending'[p]) = Len(pending[p]) - 1
      /\ \A i \in 1 .. Len(pending'[p]) : pending'[p][i] = pending[p][i + 1]
      /\ \A q \in Procs : q # p => pending'[q] = pending[q]
      /\ UNCHANGED <<raced, monitors, open, prev, board, failures>>
    BY PublishFacts
<1>2. Undisturbed(r) /\ Shown(r)
    BY <1>1 DEF Undisturbed, Showing
<1>3. AlertsShown(r)' = AlertsShown(r)
    BY <1>1 DEF AlertsShown
<1>4. /\ Remembered(r)' <=> Remembered(r)
      /\ Gone(r)' <=> Gone(r)
      /\ \A q \in Procs : InHand(r, q)' <=> InHand(r, q)
    BY <1>1, <1>3 DEF Remembered, Gone, InHand
<1>5. pc'[p] \in {"idle", "notify"} /\ \A q \in Procs : q # p => pc'[q] = pc[q]
    BY DEF PublishFeed, TypeOK
<1>6. Head(pending[p]) = pending[p][1] /\ 1 \in 1 .. Len(pending[p])
    BY <1>0, <1>1, HeadFacts
<1>7. ASSUME NEW q \in Procs, NEW i \in 1 .. Len(pending'[q]), pending'[q][i].rule = r
      PROVE  At(r, q, i)'
  <2>1. CASE q # p
    <3>1. At(r, q, i)
        BY <1>1, <1>2, <1>7, <2>1 DEF Shown
    <3> QED
        BY <1>1, <1>4, <1>5, <2>1, <3>1 DEF At, SlackHalf, SlackDone
  <2>2. CASE q = p
    <3>1. /\ i \in Nat /\ i + 1 \in 1 .. Len(pending[p]) /\ i + 1 # 1
          /\ pending'[p][i] = pending[p][i + 1]
        BY <1>1, <2>2
    <3>2. PICK j \in 1 .. Len(pending[p]) : j # 1 /\ pending'[p][i] = pending[p][j]
        BY <3>1
    <3>3. At(r, p, j)
        BY <1>2, <1>7, <2>2, <3>2 DEF Shown
    <3>4. IF pending[p][j].event = "fired" THEN Gone(r) ELSE Remembered(r)
        BY <3>2, <3>3 DEF At, SlackHalf, SlackDone
    <3> QED
        BY <1>4, <1>5, <2>2, <3>2, <3>4 DEF At, SlackHalf, SlackDone
  <2> QED
      BY <2>1, <2>2
<1>8. ASSUME \A q \in Procs : \A i \in 1 .. Len(pending'[q]) : pending'[q][i].rule # r
      PROVE  IF monitors'[r].fired THEN Remembered(r)' ELSE Gone(r)'
  <2>1. CASE pending[p][1].rule # r
    <3>1. ASSUME NEW q \in Procs, NEW i \in 1 .. Len(pending[q])
          PROVE  pending[q][i].rule # r
      <4>1. CASE q # p
          BY <1>1, <1>8, <4>1
      <4>2. CASE q = p /\ i = 1
          BY <2>1, <4>2
      <4>3. CASE q = p /\ i # 1
        <5>1. i - 1 \in 1 .. Len(pending'[p]) /\ (i - 1) + 1 = i
            BY <1>1, <4>3
        <5>2. pending'[p][i - 1] = pending[p][i]
            BY <1>1, <4>3, <5>1
        <5> QED
            BY <1>8, <4>3, <5>1, <5>2
      <4> QED
          BY <4>1, <4>2, <4>3
    <3>2. IF monitors[r].fired THEN Remembered(r) ELSE Gone(r)
        BY <1>2, <3>1 DEF Shown
    <3> QED
        BY <1>1, <1>4, <3>2
  <2>2. CASE pending[p][1].rule = r
    <3>1. At(r, p, 1)
        BY <1>2, <1>6, <2>2 DEF Shown
    <3>2. IF pending[p][1].event = "fired" THEN Remembered(r) ELSE Gone(r)
        BY <1>0, <3>1 DEF At, SlackHalf, SlackDone
    <3>3. monitors[r].fired <=> pending[p][1].event = "fired"
        BY <1>2, <1>6, <2>2, LastReport DEF Undisturbed
    <3> QED
        BY <1>1, <1>4, <3>2, <3>3
  <2> QED
      BY <2>1, <2>2
<1> QED
    BY <1>7, <1>8 DEF Shown

\* A report of a rule that has none under way finds the channel in agreement.
LEMMA ShowingEvaluation ==
    ASSUME TypeOK, Delivering, Showing, NEW p, NEW result, Evaluation(p, result)
    PROVE  Showing'
<1> SUFFICES ASSUME failures' = 0, NEW r \in RuleIndex, Undisturbed(r)'
             PROVE  Shown(r)'
    BY DEF Showing
<1> DEFINE R == Reporting(result)
<1>1. /\ p \in Procs /\ pending[p] = << >>
      /\ \A q \in Procs : q # p => pending'[q] = pending[q]
      /\ \A i \in 1 .. Len(pending'[p]) :
            /\ pending'[p][i].rule \in R
            /\ pending'[p][i].event = result[pending'[p][i].rule].event
      /\ \A s \in R : \E i \in 1 .. Len(pending'[p]) : pending'[p][i].rule = s
      /\ raced \subseteq raced'
      /\ \A s \in R \ raced' :
            \A q \in Procs : \A i \in 1 .. Len(pending[q]) : pending[q][i].rule # s
    BY EvaluationFacts
<1>2. /\ UNCHANGED <<prev, open, board, failures>>
      /\ Tells(monitors[r], result[r]) /\ monitors'[r] = result[r].monitor
      /\ pc' = [pc EXCEPT ![p] = IF R = {} THEN "idle" ELSE "notify"]
      /\ r \in R <=> result[r].event # "none"
    BY DEF Evaluation, Evaluate, Reporting
<1> HIDE DEF R
<1>3. pc'[p] \in {"idle", "notify"} /\ \A q \in Procs : q # p => pc'[q] = pc[q]
    BY <1>1, <1>2 DEF TypeOK
<1>4. Undisturbed(r) /\ Shown(r) /\ r \notin raced'
    BY <1>1, <1>2 DEF Undisturbed, Showing
<1>5. AlertsShown(r)' = AlertsShown(r)
    BY <1>2 DEF AlertsShown
<1>6. /\ Remembered(r)' <=> Remembered(r)
      /\ Gone(r)' <=> Gone(r)
      /\ \A q \in Procs : InHand(r, q)' <=> InHand(r, q)
    BY <1>2, <1>5 DEF Remembered, Gone, InHand
<1>7. CASE r \in R
  <2>1. IF monitors[r].fired THEN Remembered(r) ELSE Gone(r)
      BY <1>1, <1>4, <1>7 DEF Shown
  <2>2. result[r].event = "fired" <=> ~ monitors[r].fired
      BY <1>2, <1>7 DEF Tells, Events
  <2>3. ASSUME NEW q \in Procs, NEW i \in 1 .. Len(pending'[q]), pending'[q][i].rule = r
        PROVE  At(r, q, i)'
    <3>1. q = p
        BY <1>1, <1>4, <1>7, <2>3
    <3>2. pending'[q][i].event = result[r].event
        BY <1>1, <2>3, <3>1
    <3>3. IF pending'[q][i].event = "fired" THEN Gone(r)' ELSE Remembered(r)'
        BY <1>6, <2>1, <2>2, <3>2
    <3> QED
        BY <1>3, <3>1, <3>3 DEF At, SlackHalf, SlackDone
  <2>4. \E i \in 1 .. Len(pending'[p]) : pending'[p][i].rule = r
      BY <1>1, <1>7
  <2> QED
      BY <1>1, <2>3, <2>4 DEF Shown
<1>8. CASE r \notin R
  <2>1. monitors'[r].fired <=> monitors[r].fired
    <3>1. monitors[r].fired \in BOOLEAN /\ result[r].monitor.fired \in BOOLEAN
        BY <1>2 DEF TypeOK, Tells, MonitorRecord
    <3> QED
        BY <1>2, <1>8, <3>1 DEF Tells
  <2>2. ASSUME NEW q \in Procs, NEW i \in 1 .. Len(pending'[q]), pending'[q][i].rule = r
        PROVE  At(r, q, i)'
    <3>1. q # p
        BY <1>1, <1>8, <2>2
    <3>2. At(r, q, i)
        BY <1>1, <1>4, <2>2, <3>1 DEF Shown
    <3> QED
        BY <1>1, <1>3, <1>6, <3>1, <3>2 DEF At, SlackHalf, SlackDone
  <2>3. ASSUME \A q \in Procs : \A i \in 1 .. Len(pending'[q]) : pending'[q][i].rule # r
        PROVE  IF monitors'[r].fired THEN Remembered(r)' ELSE Gone(r)'
    <3>1. Len(pending[p]) = 0
        BY <1>1
    <3>2. \A q \in Procs : \A i \in 1 .. Len(pending[q]) : pending[q][i].rule # r
        BY <1>1, <2>3, <3>1
    <3> QED
        BY <1>4, <1>6, <2>1, <3>2 DEF Shown
  <2> QED
      BY <2>2, <2>3 DEF Shown
<1> QED
    BY <1>7, <1>8

LEMMA ShowingStep ==
    ASSUME TypeOK, Delivering, HeldOnce, Placed, InTurn, EventsAlternate, Showing,
           [Next]_vars
    PROVE  Showing'
<1>1. CASE UNCHANGED <<monitors, pc, pending, prev, open, board, failures, raced>>
    BY <1>1 DEF Showing, Shown, At, Undisturbed, SlackHalf, SlackDone, Remembered, InHand,
                Gone, AlertsShown
<1>2. ASSUME NEW p, NEW result, Evaluation(p, result) PROVE Showing'
    BY <1>2, ShowingEvaluation
<1>3. ASSUME NEW p \in Procs, Deliver(p) PROVE Showing'
    BY <1>3, ShowingPost, ShowingRecord, ShowingTake, ShowingResolved, ShowingPublish
       DEF Deliver
<1> QED
    BY <1>1, <1>2, <1>3, EvaluationByStep DEF Next, Tick, vars

LEMMA ShowingInit == Init => Showing
<1> SUFFICES ASSUME Init, NEW r \in RuleIndex PROVE Shown(r)
    BY DEF Showing
<1>1. \A p \in Procs : Len(pending[p]) = 0
    BY DEF Init
<1>2. Gone(r)
    BY DEF Init, Gone, AlertsShown
<1>3. ~ monitors[r].fired
    BY InitFacts
<1> QED
    BY <1>1, <1>2, <1>3 DEF Shown

\* With nothing left to deliver, the channel shows what the rules say.
LEMMA AgreesBecause ==
    TypeOK /\ Delivering /\ Showing => BoardAgrees
<1> SUFFICES ASSUME TypeOK, Delivering, Showing, Quiet, failures = 0,
                    NEW r \in RuleIndex \ raced, HasToken(r), OfItsOwn(r)
             PROVE  ShownRight(r)
    BY DEF BoardAgrees
<1>1. \A p \in Procs : Len(pending[p]) = 0
    BY DEF Quiet, Delivering
<1>2. IF monitors[r].fired THEN Remembered(r) ELSE Gone(r)
    BY <1>1 DEF Showing, Undisturbed, Shown
<1>3. CASE monitors[r].fired
    BY <1>2, <1>3 DEF Remembered, ShownRight
<1>4. CASE ~ monitors[r].fired
    BY <1>2, <1>4 DEF Gone, ShownRight
<1> QED
    BY <1>3, <1>4

\* Once nobody delivers and as long as Slack has not failed, the channel shows the alert
\* of every rule that is firing and of no other, but for the rules that reported during
\* a delivery of their own or share their key.
THEOREM ChannelAgrees == Spec => []BoardAgrees
<1>1. TypeOK /\ Delivering /\ HeldOnce /\ (Placed /\ InTurn) /\ EventsAlternate /\ Showing
        /\ [Next]_vars => Showing'
    BY ShowingStep
<1>2. Init => Showing
    BY ShowingInit
<1>3. TypeOK /\ Delivering /\ Showing => BoardAgrees
    BY AgreesBecause
<1> QED
    BY <1>1, <1>2, <1>3, TypeCorrect, Held, Reports, ReportsAlternate, PTL DEF Spec

=============================================================================
