--------------------------- MODULE DashboardProofs ---------------------------
(***************************************************************************)
(* Proofs that the dashboard's picture agrees with the system of record as   *)
(* far as events reach it, and a page with that picture: for any rules, any  *)
(* buffer, and any number of faults and restarts.                            *)
(***************************************************************************)
EXTENDS Dashboard, FiniteSetTheorems, SequenceTheorems, TLAPS

-----------------------------------------------------------------------------
(* The inductive invariant.                                                *)

Event == SampleEvents \cup AlertEvents

\* What the watch's state says of the rest
Connected ==
    /\ pc # "watching" => ~ subscribed
    /\ ~ subscribed => ch = << >>
    /\ ~ up => /\ ~ subscribed /\ firing = {} /\ outbox = << >> /\ evaluating = {}
               /\ lostAlerts /\ lostSamples = Paths
    /\ pc = "cats" => cats \subseteq PathsOf(tree)

\* A rule with that key is firing
FiringKey(k) == \E r \in firing : ruleKey(r) = k

\* The events about a key and about a path
KeyEvents(k) == {ev \in AlertEvents : ruleKey(ev.rule) = k}

PathEvents(p) == {ev \in SampleEvents : ev.rule.path = p}

\* No event of a set is in the queue; ev is the last one
NoneOf(q, evs) == \A i \in 1 .. Len(q) : q[i] \notin evs

LastOne(q, evs, ev) ==
    \E i \in 1 .. Len(q) : /\ q[i] = ev /\ ev \in evs
                           /\ \A j \in 1 .. Len(q) : i < j => q[j] \notin evs

\* What is to be published says how things are now
OutboxTrue ==
    \A i \in 1 .. Len(outbox) :
        /\ outbox[i] \in AlertEvents =>
              /\ outbox[i].rule \in configured
              /\ outbox[i].alert = "fired" <=> FiringKey(ruleKey(outbox[i].rule))
        /\ outbox[i] \in SampleEvents =>
              /\ store[outbox[i].rule.path] # << >>
              /\ outbox[i].value = Last(store[outbox[i].rule.path])

\* The dashboard knows whether a rule with key k is firing, or the watch will tell it
KeyKnown(k) ==
    \/ NoneOf(ch, KeyEvents(k)) /\ (k \in firingRules <=> FiringKey(k))
    \/ \E ev \in KeyEvents(k) :
          LastOne(ch, KeyEvents(k), ev) /\ (ev.alert = "fired" <=> FiringKey(k))

AlertsKnown ==
    ~ lostAlerts =>
        /\ tree = configured
        /\ \A i \in 1 .. Len(ch) : ch[i] \in AlertEvents => ch[i].rule \in configured
        /\ \A k \in Keys : NoneOf(outbox, KeyEvents(k)) => KeyKnown(k)

\* Two windows on the same stream
Agree(ws, vs) == (ws = << >> <=> vs = << >>) /\ (vs # << >> => Last(ws) = Last(vs))

\* The dashboard knows the latest sample of p, or the watch will tell it
PathKnown(p) ==
    \/ NoneOf(ch, PathEvents(p)) /\ Agree(window[p], store[p])
    \/ \E ev \in PathEvents(p) :
          LastOne(ch, PathEvents(p), ev) /\ store[p] # << >> /\ ev.value = Last(store[p])

SamplesKnown ==
    \A p \in Paths \ lostSamples :
        /\ p \in PathsOf(configured) => p \in PathsOf(tree)
        /\ p \in PathsOf(tree) /\ NoneOf(outbox, PathEvents(p)) => PathKnown(p)

\* What a page shows and was not told to be out of date
PageKnown == \A p \in DOMAIN page \ unseen : page[p] = status(p)

-----------------------------------------------------------------------------
(* Queues, windows and events.                                             *)

\* An event more at the end of a queue.
LEMMA QueueAppend ==
    ASSUME NEW S, NEW q \in Seq(S), NEW e \in S, NEW evs
    PROVE  /\ e \in evs => LastOne(Append(q, e), evs, e)
           /\ e \notin evs => /\ NoneOf(q, evs) => NoneOf(Append(q, e), evs)
                              /\ \A ev : LastOne(q, evs, ev) => LastOne(Append(q, e), evs, ev)
<1>1. /\ Len(q) \in Nat /\ Len(Append(q, e)) = Len(q) + 1
      /\ Append(q, e)[Len(q) + 1] = e
      /\ \A i \in 1 .. Len(q) : Append(q, e)[i] = q[i]
    OBVIOUS
<1>2. ASSUME NEW i \in 1 .. Len(q) + 1 PROVE i \in 1 .. Len(q) \/ i = Len(q) + 1
    BY <1>1
<1>3. e \in evs => LastOne(Append(q, e), evs, e)
  <2>1. Len(q) + 1 \in 1 .. Len(q) + 1 /\ \A j \in 1 .. Len(q) + 1 : ~ Len(q) + 1 < j
      BY <1>1
  <2> QED
      BY <1>1, <2>1 DEF LastOne
<1>4. e \notin evs /\ NoneOf(q, evs) => NoneOf(Append(q, e), evs)
    BY <1>1, <1>2 DEF NoneOf
<1>5. ASSUME e \notin evs, NEW ev, LastOne(q, evs, ev) PROVE LastOne(Append(q, e), evs, ev)
  <2>1. PICK i \in 1 .. Len(q) : /\ q[i] = ev /\ ev \in evs
                                 /\ \A j \in 1 .. Len(q) : i < j => q[j] \notin evs
      BY <1>5 DEF LastOne
  <2>2. i \in 1 .. Len(q) + 1 /\ Append(q, e)[i] = ev
      BY <1>1, <2>1
  <2>3. \A j \in 1 .. Len(q) + 1 : i < j => Append(q, e)[j] \notin evs
      BY <1>1, <1>2, <1>5, <2>1
  <2> QED
      BY <1>1, <2>1, <2>2, <2>3 DEF LastOne
<1> QED
    BY <1>3, <1>4, <1>5

\* An event less at its beginning.
LEMMA QueueTail ==
    ASSUME NEW S, NEW q \in Seq(S), q # << >>, NEW evs
    PROVE  /\ Head(q) \in S /\ Tail(q) \in Seq(S) /\ Len(Tail(q)) = Len(q) - 1
           /\ Head(q) = q[1] /\ \A i \in 1 .. Len(Tail(q)) : Tail(q)[i] = q[i + 1]
           /\ NoneOf(q, evs) => Head(q) \notin evs /\ NoneOf(Tail(q), evs)
           /\ \A ev : LastOne(q, evs, ev) =>
                 \/ LastOne(Tail(q), evs, ev)
                 \/ ev = Head(q) /\ ev \in evs /\ NoneOf(Tail(q), evs)
<1>1. /\ Len(q) \in Nat /\ Len(q) >= 1 /\ Tail(q) \in Seq(S) /\ Len(Tail(q)) = Len(q) - 1
      /\ Head(q) = q[1] /\ \A i \in 1 .. Len(Tail(q)) : Tail(q)[i] = q[i + 1]
      /\ Head(q) \in S
    OBVIOUS
<1>2. ASSUME NEW i \in 1 .. Len(Tail(q))
      PROVE  i + 1 \in 1 .. Len(q) /\ Tail(q)[i] = q[i + 1] /\ i \in Int
    BY <1>1
<1>3. NoneOf(q, evs) => Head(q) \notin evs /\ NoneOf(Tail(q), evs)
    BY <1>1, <1>2 DEF NoneOf
<1>4. ASSUME NEW ev, LastOne(q, evs, ev)
      PROVE  \/ LastOne(Tail(q), evs, ev)
             \/ ev = Head(q) /\ ev \in evs /\ NoneOf(Tail(q), evs)
  <2>1. PICK i \in 1 .. Len(q) : /\ q[i] = ev /\ ev \in evs
                                 /\ \A j \in 1 .. Len(q) : i < j => q[j] \notin evs
      BY <1>4 DEF LastOne
  <2>2. CASE i = 1
    <3>1. \A j \in 1 .. Len(Tail(q)) : i < j + 1
        BY <2>2
    <3>2. NoneOf(Tail(q), evs)
        BY <1>2, <2>1, <3>1 DEF NoneOf
    <3> QED
        BY <1>1, <2>1, <2>2, <3>2
  <2>3. CASE i # 1
    <3>1. i - 1 \in 1 .. Len(Tail(q)) /\ (i - 1) + 1 = i
        BY <1>1, <2>3
    <3>2. Tail(q)[i - 1] = ev
        BY <1>2, <2>1, <3>1
    <3>3. \A j \in 1 .. Len(Tail(q)) : i - 1 < j => Tail(q)[j] \notin evs
      <4> SUFFICES ASSUME NEW j \in 1 .. Len(Tail(q)), i - 1 < j
                   PROVE  Tail(q)[j] \notin evs
          OBVIOUS
      <4>1. i < j + 1 /\ j + 1 \in 1 .. Len(q)
          BY <1>1
      <4> QED
          BY <1>2, <2>1, <4>1
    <3> QED
        BY <2>1, <3>1, <3>2, <3>3 DEF LastOne
  <2> QED
      BY <2>2, <2>3
<1> QED
    BY <1>1, <1>3, <1>4

\* Of a window the latest samples are kept.
LEMMA LastOfFacts ==
    ASSUME NEW S, NEW s \in Seq(S)
    PROVE  /\ LastOf(History, s) \in Seq(S) /\ Len(LastOf(History, s)) <= History
           /\ Agree(LastOf(History, s), s)
<1>1. History \in Nat /\ History >= 1
    BY DashboardAssumption
<1>2. PICK n \in Nat : n = Len(s) /\ \A i \in 1 .. n : s[i] \in S
    OBVIOUS
<1>3. PICK a \in Nat : a = 1 + (IF n > History THEN n - History ELSE 0)
    BY <1>1, <1>2
<1>4. /\ a >= 1 /\ a <= n + 1 /\ n - a + 1 <= History /\ n - a + 1 \in Nat
      /\ n # 0 => n - a + 1 >= 1
    BY <1>1, <1>3
<1> DEFINE w == SubSeq(s, a, n)
<1>5. LastOf(History, s) = w
    BY <1>2, <1>3 DEF LastOf
<1>6. \A i \in a .. n : s[i] \in S
    BY <1>2, <1>4
<1>7. /\ w \in Seq(S) /\ Len(w) = IF a <= n THEN n - a + 1 ELSE 0
      /\ \A i \in 1 .. n - a + 1 : w[i] = s[a + i - 1]
    BY <1>6, SubSeqProperties
<1> HIDE DEF w
<1>8. Len(w) = n - a + 1
    BY <1>4, <1>7
<1>9. CASE n = 0
  <2>0. a = 1 /\ Len(w) = 0 /\ Len(s) = 0
      BY <1>1, <1>2, <1>3, <1>8, <1>9
  <2>1. s = << >> /\ w = << >>
      BY <1>7, <2>0, EmptySeq
  <2> QED
      BY <1>4, <1>5, <1>7, <1>8, <2>1 DEF Agree
<1>10. CASE n # 0
  <2>1. PICK k \in Nat : k = n - a + 1 /\ k >= 1
      BY <1>4, <1>10
  <2>2. a + k - 1 = n /\ k \in 1 .. n - a + 1
      BY <2>1
  <2>3. w[k] = s[n]
      BY <1>7, <2>2
  <2>4. s # << >> /\ w # << >>
      BY <1>2, <1>7, <1>8, <1>10, <2>1
  <2> QED
      BY <1>2, <1>4, <1>5, <1>7, <1>8, <2>1, <2>3, <2>4 DEF Agree, Last
<1> QED
    BY <1>9, <1>10

\* Events are about a rule or about a sample.
LEMMA EventFacts ==
    /\ \A ev \in AlertEvents :
          /\ IsAlert(ev) /\ ev.rule \in Rules /\ ev.alert \in {"fired", "resolved"}
          /\ ruleKey(ev.rule) \in Keys /\ ev.rule.path \in Paths /\ ev \notin SampleEvents
    /\ \A ev \in SampleEvents :
          /\ ~ IsAlert(ev) /\ ev.rule.path \in Paths /\ ev.value \in Values
          /\ ev.alert = "none"
    /\ \A p \in Paths, v \in Values :
          /\ SampleEvent(p, v) \in SampleEvents /\ SampleEvent(p, v).rule.path = p
          /\ SampleEvent(p, v).value = v
    /\ \A r \in Rules :
          /\ AlertEvent(r) \in AlertEvents /\ AlertEvent(r).rule = r
          /\ AlertEvent(r).alert = "fired" <=> r \notin firing
<1>1. \A ev \in SampleEvents :
          /\ ~ IsAlert(ev) /\ ev.rule.path \in Paths /\ ev.value \in Values
          /\ ev.alert = "none"
    BY DEF SampleEvents, SampleEvent, IsAlert
<1>2. \A ev \in AlertEvents :
          /\ IsAlert(ev) /\ ev.rule \in Rules /\ ev.alert \in {"fired", "resolved"}
    BY DEF AlertEvents, IsAlert
<1>3. \A r \in Rules : ruleKey(r) \in Keys /\ r.path \in Paths
    BY DEF Keys, Paths, PathsOf
<1>4. \A p \in Paths, v \in Values :
          /\ SampleEvent(p, v) \in SampleEvents /\ SampleEvent(p, v).rule.path = p
          /\ SampleEvent(p, v).value = v
    BY DEF SampleEvents, SampleEvent
<1>5. \A r \in Rules :
          /\ AlertEvent(r) \in AlertEvents /\ AlertEvent(r).rule = r
          /\ AlertEvent(r).alert = "fired" <=> r \notin firing
    BY DEF AlertEvents, AlertEvent
<1> QED
    BY <1>1, <1>2, <1>3, <1>4, <1>5

-----------------------------------------------------------------------------
(* What the actions do.                                                    *)

LEMMA StatusType ==
    ASSUME NEW p, NEW keys, NEW win
    PROVE  StatusWith(p, keys, win) \in Severities
    BY DEF StatusWith, kpiStatus, Severities

\* Rules that flip: one event for each, saying how it is afterwards.
LEMMA FlipFacts ==
    ASSUME TypeOK, NEW rules, rules \subseteq configured, Flip(rules)
    PROVE  /\ flips' \in 0 .. MaxFlips /\ firing' = (firing \ rules) \cup (rules \ firing)
           /\ firing' \subseteq configured /\ outbox' \in Seq(Event) /\ Len(outbox') \in Nat
           /\ \A i \in 1 .. Len(outbox') :
                 /\ outbox'[i] \in AlertEvents /\ outbox'[i].rule \in rules
                 /\ outbox'[i].alert = "fired" <=> outbox'[i].rule \notin firing
           /\ \A r \in rules : \E i \in 1 .. Len(outbox') : outbox'[i].rule = r
<1>1. IsFiniteSet(rules) /\ rules \subseteq Rules
    BY DashboardAssumption, FS_Subset DEF TypeOK
<1>2. PICK n \in Nat : n = Cardinality(rules)
    BY <1>1, FS_CardinalityType
<1>3. flips' \in 0 .. MaxFlips
    BY <1>2, DashboardAssumption DEF Flip, TypeOK
<1>4. PICK order \in [1 .. n -> rules] :
         /\ \A r \in rules : \E i \in 1 .. n : order[i] = r
         /\ outbox' = [i \in 1 .. n |-> AlertEvent(order[i])]
    BY <1>2 DEF Flip, Orders
<1>5. \A i \in 1 .. n : /\ AlertEvent(order[i]) \in AlertEvents
                        /\ AlertEvent(order[i]).rule = order[i] /\ order[i] \in rules
                        /\ AlertEvent(order[i]).alert = "fired" <=> order[i] \notin firing
    BY <1>1, EventFacts
<1>6. outbox' \in Seq(Event) /\ Len(outbox') = n
  <2>1. outbox' \in [1 .. n -> Event]
      BY <1>4, <1>5 DEF Event
  <2> QED
      BY <2>1
<1>7. \A i \in 1 .. n : outbox'[i] = AlertEvent(order[i])
    BY <1>4
<1>8. firing' = (firing \ rules) \cup (rules \ firing) /\ firing' \subseteq configured
    BY DEF Flip, TypeOK
<1>9. \A r \in rules : \E i \in 1 .. n : outbox'[i].rule = r
    BY <1>4, <1>5, <1>7
<1> QED
    BY <1>3, <1>5, <1>6, <1>7, <1>8, <1>9

\* Publishing: the event is buffered, or lost and the loss noted.
LEMMA PublishFacts ==
    ASSUME TypeOK, NEW ev \in Event, Publish(ev)
    PROVE  /\ ch' \in Seq(Event) /\ Len(ch') <= Buffer
           /\ lostAlerts' \in BOOLEAN /\ lostSamples' \subseteq Paths
           /\ \/ /\ subscribed /\ ch' = Append(ch, ev)
                 /\ lostAlerts' = lostAlerts /\ lostSamples' = lostSamples
              \/ /\ ch' = ch /\ ev \in AlertEvents
                 /\ lostAlerts' /\ lostSamples' = lostSamples
              \/ /\ ch' = ch /\ ev \in SampleEvents
                 /\ lostAlerts' = lostAlerts
                 /\ lostSamples' = lostSamples \cup {ev.rule.path}
<1>1. /\ ch \in Seq(Event) /\ Len(ch) \in Nat /\ Len(ch) <= Buffer /\ Buffer \in Nat
      /\ lostAlerts \in BOOLEAN /\ lostSamples \subseteq Paths /\ subscribed \in BOOLEAN
    BY DashboardAssumption DEF TypeOK, Event
<1>2. /\ ev \in AlertEvents => IsAlert(ev)
      /\ ev \in SampleEvents => ~ IsAlert(ev) /\ ev.rule.path \in Paths
      /\ ev \in AlertEvents \/ ev \in SampleEvents
    BY EventFacts DEF Event
<1>3. CASE subscribed /\ Len(ch) < Buffer
  <2>1. ch' = Append(ch, ev) /\ lostAlerts' = lostAlerts /\ lostSamples' = lostSamples
      BY <1>1, <1>3 DEF Publish
  <2> QED
      BY <1>1, <1>3, <2>1
<1>4. CASE ~ (subscribed /\ Len(ch) < Buffer)
  <2>1. CASE ev \in AlertEvents
    <3>1. ch' = ch /\ lostAlerts' = TRUE /\ lostSamples' = lostSamples
        BY <1>2, <1>4, <2>1 DEF Publish
    <3> QED
        BY <1>1, <2>1, <3>1
  <2>2. CASE ev \in SampleEvents
    <3>1. ch' = ch /\ lostAlerts' = lostAlerts
          /\ lostSamples' = lostSamples \cup {ev.rule.path}
        BY <1>1, <1>2, <1>4, <2>2 DEF Publish
    <3> QED
        BY <1>1, <1>2, <2>2, <3>1
  <2> QED
      BY <1>2, <2>1, <2>2
<1> QED
    BY <1>3, <1>4

\* The event that is published next is no longer to be published.
LEMMA PublishEventFacts ==
    ASSUME TypeOK, PublishEvent
    PROVE  /\ Head(outbox) \in Event /\ Publish(Head(outbox))
           /\ outbox' \in Seq(Event) /\ Len(outbox) \in Nat /\ Len(outbox') = Len(outbox) - 1
           /\ 1 \in 1 .. Len(outbox) /\ Head(outbox) = outbox[1]
           /\ \A i \in 1 .. Len(outbox') : outbox'[i] = outbox[i + 1]
<1>1. outbox \in Seq(Event) /\ outbox # << >> /\ outbox' = Tail(outbox)
    BY DEF TypeOK, PublishEvent, Event
<1> QED
    BY <1>1, QueueTail DEF PublishEvent

\* Handling an event of a path that has a rule: the picture follows, and the page.
LEMMA HandleFacts ==
    ASSUME TypeOK, Handle
    PROVE  /\ ch # << >> /\ Head(ch) \in Event /\ ch' = Tail(ch) /\ ch' \in Seq(Event)
           /\ Len(ch') <= Buffer /\ Head(ch).rule.path \in Paths
           /\ Head(ch).rule.path \notin PathsOf(tree) =>
                 UNCHANGED <<firingRules, window, page, unseen>>
           /\ Head(ch).rule.path \in PathsOf(tree) =>
                 /\ Head(ch) \in AlertEvents =>
                       /\ firingRules' = IF Head(ch).alert = "fired"
                                         THEN firingRules \cup {ruleKey(Head(ch).rule)}
                                         ELSE firingRules \ {ruleKey(Head(ch).rule)}
                       /\ UNCHANGED window
                 /\ Head(ch) \in SampleEvents =>
                       /\ window' = [window EXCEPT ![Head(ch).rule.path] =
                                        LastOf(History, Append(@, Head(ch).value))]
                       /\ UNCHANGED firingRules
                 /\ sse => unseen' = unseen \ {Head(ch).rule.path}
                 /\ ~ sse => unseen' = unseen \cup {Head(ch).rule.path}
                 /\ page' = IF sse /\ Head(ch).rule.path \in DOMAIN page
                            THEN [page EXCEPT ![Head(ch).rule.path] =
                                     StatusWith(Head(ch).rule.path, firingRules', window')]
                            ELSE page
<1>1. ch \in Seq(Event) /\ ch # << >> /\ ch' = Tail(ch) /\ Len(ch) <= Buffer /\ Buffer \in Nat
    BY DashboardAssumption DEF TypeOK, Handle, Event
<1>2. Head(ch) \in Event /\ Tail(ch) \in Seq(Event) /\ Len(Tail(ch)) = Len(ch) - 1
    BY <1>1, QueueTail
<1>3. Len(Tail(ch)) <= Buffer
    BY <1>1, <1>2
<1>4. Head(ch).rule.path \in Paths
    BY <1>2, EventFacts DEF Event
<1> DEFINE ev == Head(ch)
           p == ev.rule.path
<1>5. CASE p \notin PathsOf(tree)
    BY <1>1, <1>2, <1>3, <1>4, <1>5 DEF Handle
<1>6. CASE p \in PathsOf(tree)
  <2>1. /\ ev \in AlertEvents => ev.alert \in {"fired", "resolved"}
        /\ ev \in SampleEvents => ev.alert = "none"
      BY EventFacts
  <2>2. ev \in AlertEvents =>
           /\ firingRules' = IF ev.alert = "fired" THEN firingRules \cup {ruleKey(ev.rule)}
                             ELSE firingRules \ {ruleKey(ev.rule)}
           /\ UNCHANGED window
      BY <1>6, <2>1 DEF Handle
  <2>3. ev \in SampleEvents =>
           /\ window' = [window EXCEPT ![p] = LastOf(History, Append(@, ev.value))]
           /\ UNCHANGED firingRules
      BY <1>6, <2>1 DEF Handle, Slid
  <2>4. /\ sse => unseen' = unseen \ {p}
        /\ ~ sse => unseen' = unseen \cup {p}
        /\ page' = IF sse /\ p \in DOMAIN page
                   THEN [page EXCEPT ![p] = StatusWith(p, firingRules', window')]
                   ELSE page
      BY <1>6 DEF Handle, Told, applyStatus
  <2> QED
      BY <1>1, <1>2, <1>3, <1>4, <1>6, <2>2, <2>3, <2>4
<1> QED
    BY <1>5, <1>6

-----------------------------------------------------------------------------
(* Types.                                                                  *)

\* What the system of record does keeps the types.
LEMMA SorTypes ==
    ASSUME TypeOK, Connected, Sor
    PROVE  TypeOK' /\ Connected'
<1> USE DashboardAssumption
<1>1. CASE Store
  <2>1. PICK p \in Paths, v \in Values :
           /\ store' = [store EXCEPT ![p] = Append(@, v)]
           /\ outbox' = <<SampleEvent(p, v)>>
           /\ evaluating' = {p}
      BY <1>1 DEF Store
  <2>2. SampleEvent(p, v) \in Event
      BY EventFacts DEF Event
  <2>3. outbox' \in Seq(SampleEvents \cup AlertEvents)
      BY <2>1, <2>2 DEF Event
  <2>4. store' \in [Paths -> Seq(Values)] /\ samples' \in 0 .. MaxSamples
    <3>1. store[p] \in Seq(Values)
        BY DEF TypeOK
    <3>2. Append(store[p], v) \in Seq(Values)
        BY <3>1
    <3> QED
        BY <1>1, <2>1, <3>2 DEF TypeOK, Store
  <2>5. UNCHANGED <<up, configured, firing, flips, subscribed, ch, liveVars, pageVars, faults,
                    lostAlerts, lostSamples>> /\ up
      BY <1>1 DEF Store
  <2>6. TypeOK'
      BY <2>1, <2>3, <2>4, <2>5 DEF TypeOK, liveVars, pageVars
  <2>7. Connected'
      BY <2>5 DEF Connected, TypeOK, liveVars, pageVars
  <2> QED
      BY <2>6, <2>7
<1>2. CASE PublishEvent
  <2>1. /\ Head(outbox) \in Event /\ Publish(Head(outbox)) /\ outbox' \in Seq(Event)
        /\ outbox # << >>
      BY <1>2, PublishEventFacts DEF PublishEvent
  <2>2. /\ ch' \in Seq(Event) /\ Len(ch') <= Buffer
        /\ lostAlerts' \in BOOLEAN /\ lostSamples' \subseteq Paths
        /\ ~ subscribed => ch' = ch
      BY <2>1, PublishFacts
  <2>3. UNCHANGED <<up, configured, firing, store, evaluating, samples, flips, subscribed,
                    liveVars, pageVars, faults>>
      BY <1>2 DEF PublishEvent
  <2>4. TypeOK'
      BY <2>1, <2>2, <2>3 DEF TypeOK, Event, liveVars, pageVars
  <2>5. Connected'
      BY <2>1, <2>2, <2>3 DEF Connected, liveVars, pageVars
  <2> QED
      BY <2>4, <2>5
<1>3. CASE Evaluate
  <2>1. PICK p \in evaluating : \E flipping \in SUBSET {r \in configured : r.path = p} :
           Flip(flipping)
      BY <1>3 DEF Evaluate
  <2>2. /\ flips' \in 0 .. MaxFlips /\ firing' \subseteq configured /\ outbox' \in Seq(Event)
      BY <2>1, FlipFacts
  <2>3. /\ evaluating' = {} /\ evaluating # {}
        /\ UNCHANGED <<up, configured, store, samples, subscribed, ch, liveVars, pageVars,
                       faults, lostAlerts, lostSamples>>
      BY <1>3 DEF Evaluate
  <2>4. TypeOK'
      BY <2>2, <2>3 DEF TypeOK, Event, liveVars, pageVars
  <2>5. Connected'
      BY <2>3 DEF Connected, liveVars, pageVars
  <2> QED
      BY <2>4, <2>5
<1>4. CASE CheckAbsent
  <2>1. PICK r \in configured \ firing : Flip({r})
      BY <1>4 DEF CheckAbsent
  <2>2. /\ flips' \in 0 .. MaxFlips /\ firing' \subseteq configured /\ outbox' \in Seq(Event)
      BY <2>1, FlipFacts
  <2>3. /\ up
        /\ UNCHANGED <<up, configured, store, evaluating, samples, subscribed, ch, liveVars,
                       pageVars, faults, lostAlerts, lostSamples>>
      BY <1>4 DEF CheckAbsent
  <2>4. TypeOK'
      BY <2>2, <2>3 DEF TypeOK, Event, liveVars, pageVars
  <2>5. Connected'
      BY <2>3 DEF Connected, liveVars, pageVars
  <2> QED
      BY <2>4, <2>5
<1>5. CASE Stop
  <2>1. << >> \in Seq(Values) /\ << >> \in Seq(SampleEvents \cup AlertEvents)
        /\ Len(<< >>) = 0
      OBVIOUS
  <2>2. store' \in [Paths -> Seq(Values)] /\ faults' \in 0 .. MaxFaults
      BY <1>5, <2>1 DEF TypeOK, Stop
  <2>3. /\ ch' \in Seq(SampleEvents \cup AlertEvents) /\ Len(ch') <= Buffer
        /\ outbox' \in Seq(SampleEvents \cup AlertEvents)
      BY <1>5, <2>1 DEF Stop
  <2>4. /\ up' = FALSE /\ firing' = {} /\ evaluating' = {} /\ subscribed' = FALSE
        /\ lostAlerts' = TRUE /\ lostSamples' = Paths
        /\ UNCHANGED <<configured, samples, flips, liveVars, pageVars>>
      BY <1>5 DEF Stop
  <2>5. TypeOK'
      BY <2>2, <2>3, <2>4 DEF TypeOK, liveVars, pageVars
  <2>6. Connected'
      BY <1>5 DEF Connected, Stop, liveVars, pageVars
  <2> QED
      BY <2>5, <2>6
<1>6. CASE Start
  <2>1. /\ configured' \subseteq Rules /\ up' = TRUE /\ firing' = {}
        /\ UNCHANGED <<store, evaluating, outbox, samples, flips, subscribed, ch,
                       liveVars, pageVars, faults, lostAlerts, lostSamples>>
      BY <1>6 DEF Connected, Start
  <2>2. TypeOK'
      BY <2>1 DEF TypeOK, liveVars, pageVars
  <2>3. Connected'
      BY <2>1 DEF Connected, liveVars, pageVars
  <2> QED
      BY <2>2, <2>3
<1> QED
    BY <1>1, <1>2, <1>3, <1>4, <1>5, <1>6 DEF Sor

\* So does the dashboard.
LEMMA LiveTypes ==
    ASSUME TypeOK, Connected, Live
    PROVE  TypeOK' /\ Connected'
<1> USE DashboardAssumption
<1>0. CallFails => faults' \in 0 .. MaxFaults
    BY DEF CallFails, TypeOK
<1>1. CASE LoadRules
  <2>1. tree' = configured /\ cats' = PathsOf(configured)
    <3>1. {s.rule : s \in RuleStatus} = configured
      <4>1. \A s \in RuleStatus : s.rule \in configured
          BY DEF RuleStatus
      <4>2. \A r \in configured : \E s \in RuleStatus : s.rule = r
        <5> TAKE r \in configured
        <5> DEFINE s == [rule |-> r, firing |-> r \in firing]
        <5>1. s \in RuleStatus /\ s.rule = r
            BY DEF RuleStatus
        <5> QED
            BY <5>1
      <4> QED
          BY <4>1, <4>2
    <3> QED
        BY <1>1, <3>1 DEF LoadRules
  <2>2. firingRules' \subseteq Keys
      BY <1>1 DEF LoadRules, RuleStatus, Keys, TypeOK
  <2>3. cats' \subseteq Paths
      BY <2>1 DEF TypeOK, PathsOf, Paths
  <2>4. /\ lastError' = FALSE /\ pc' = "cats" /\ lostAlerts' = FALSE /\ unseen' = Paths /\ up
        /\ UNCHANGED <<sorVars, subscribed, ch, window, page, sse, faults, lostSamples>>
        /\ ~ subscribed
      BY <1>1 DEF LoadRules, Connected
  <2>5. TypeOK'
      BY <2>1, <2>2, <2>3, <2>4 DEF TypeOK, sorVars
  <2>6. Connected'
      BY <2>1, <2>4 DEF Connected, sorVars
  <2> QED
      BY <2>5, <2>6
<1>2. CASE LoadFails
  <2>1. TypeOK'
      BY <1>0, <1>2 DEF TypeOK, LoadFails, sorVars, pageVars
  <2>2. Connected'
      BY <1>2 DEF Connected, LoadFails, sorVars, pageVars
  <2> QED
      BY <2>1, <2>2
<1>3. CASE Cat
  <2>1. PICK p \in cats :
         /\ window' = [window EXCEPT ![p] = LastOf(History, store[p])]
         /\ cats' = cats \ {p}
         /\ lostSamples' = lostSamples \ {p}
         /\ unseen' = unseen \cup {p}
      BY <1>3 DEF Cat
  <2>2. p \in Paths /\ store[p] \in Seq(Values)
      BY DEF TypeOK
  <2>3. LastOf(History, store[p]) \in Seq(Values) /\ Len(LastOf(History, store[p])) <= History
      BY <2>2, LastOfFacts
  <2>4. window' \in [Paths -> Seq(Values)] /\ \A q \in Paths : Len(window'[q]) <= History
      BY <2>1, <2>2, <2>3 DEF TypeOK
  <2>5. /\ up
        /\ UNCHANGED <<sorVars, subscribed, ch, pc, tree, firingRules, lastError, page, sse,
                       faults, lostAlerts>>
      BY <1>3 DEF Cat
  <2>6. TypeOK'
      BY <2>1, <2>2, <2>4, <2>5 DEF TypeOK, sorVars
  <2>7. Connected'
      BY <2>1, <2>5 DEF Connected, sorVars
  <2> QED
      BY <2>6, <2>7
<1>4. CASE CatFails
  <2>1. PICK p \in cats :
         /\ window' = [window EXCEPT ![p] = << >>]
         /\ cats' = cats \ {p}
         /\ lostSamples' = lostSamples \cup {p}
         /\ unseen' = unseen \cup {p}
      BY <1>4 DEF CatFails
  <2>2. p \in Paths /\ << >> \in Seq(Values) /\ Len(<< >>) = 0
      BY DEF TypeOK
  <2>3. window' \in [Paths -> Seq(Values)] /\ \A q \in Paths : Len(window'[q]) <= History
      BY <2>1, <2>2 DEF TypeOK
  <2>4. UNCHANGED <<sorVars, subscribed, ch, pc, tree, firingRules, lastError, page, sse,
                    lostAlerts>>
      BY <1>4 DEF CatFails
  <2>5. faults' \in 0 .. MaxFaults
      BY <1>0, <1>4 DEF CatFails
  <2>6. TypeOK'
      BY <2>1, <2>2, <2>3, <2>4, <2>5 DEF TypeOK, sorVars
  <2>7. Connected'
      BY <2>1, <2>2, <2>4 DEF Connected, TypeOK, sorVars
  <2> QED
      BY <2>6, <2>7
<1>5. CASE Loaded \/ Reload
  <2>1. /\ pc' \in {"watch", "load"} /\ pc # "watching"
        /\ UNCHANGED <<sorVars, subscribed, ch, tree, firingRules, window, cats, lastError,
                       pageVars, faults, lostAlerts, lostSamples>>
      BY <1>5 DEF Loaded, Reload
  <2>2. TypeOK'
      BY <2>1 DEF TypeOK, sorVars, pageVars
  <2>3. Connected'
      BY <2>1 DEF Connected, sorVars, pageVars
  <2> QED
      BY <2>2, <2>3
<1>6. CASE OpenWatch
  <2>1. ch' \in Seq(SampleEvents \cup AlertEvents) /\ Len(ch') <= Buffer
      BY <1>6 DEF OpenWatch
  <2>2. TypeOK'
      BY <1>6, <2>1 DEF TypeOK, OpenWatch, sorVars, pageVars
  <2>3. Connected'
      BY <1>6 DEF Connected, OpenWatch, sorVars, pageVars
  <2> QED
      BY <2>2, <2>3
<1>7. CASE Handle
  <2>1. /\ Head(ch) \in Event /\ ch' \in Seq(Event) /\ Len(ch') <= Buffer
        /\ Head(ch).rule.path \in Paths
      BY <1>7, HandleFacts
  <2>2. UNCHANGED <<sorVars, subscribed, pc, tree, cats, lastError, sse, faults,
                    lostAlerts, lostSamples>> /\ subscribed
      BY <1>7 DEF Handle
  <2>3. /\ firingRules' \subseteq Keys /\ unseen' \subseteq Paths
        /\ window' \in [Paths -> Seq(Values)]
        /\ \A p \in Paths : Len(window'[p]) <= History
        /\ \A p \in DOMAIN page' : p \in Paths /\ page'[p] \in Severities
    <3>1. CASE Head(ch).rule.path \notin PathsOf(tree)
      <4>1. UNCHANGED <<firingRules, window, page, unseen>>
          BY <1>7, <3>1, HandleFacts
      <4> QED
          BY <4>1 DEF TypeOK
    <3>2. CASE Head(ch).rule.path \in PathsOf(tree)
      <4>1. unseen' \subseteq Paths
          BY <1>7, <2>1, <3>2, HandleFacts DEF TypeOK
      <4>2. \A p \in DOMAIN page' : p \in Paths /\ page'[p] \in Severities
        <5>1. StatusWith(Head(ch).rule.path, firingRules', window') \in Severities
            BY StatusType
        <5>2. page' = IF sse /\ Head(ch).rule.path \in DOMAIN page
                      THEN [page EXCEPT ![Head(ch).rule.path] =
                               StatusWith(Head(ch).rule.path, firingRules', window')]
                      ELSE page
            BY <1>7, <3>2, HandleFacts
        <5> QED
            BY <5>1, <5>2 DEF TypeOK
      <4>3. CASE Head(ch) \in AlertEvents
        <5>1. ruleKey(Head(ch).rule) \in Keys
            BY <4>3, EventFacts
        <5> QED
            BY <1>7, <3>2, <4>1, <4>2, <4>3, <5>1, HandleFacts DEF TypeOK
      <4>4. CASE Head(ch) \in SampleEvents
        <5> DEFINE p == Head(ch).rule.path
                   s == Append(window[p], Head(ch).value)
        <5>1. Head(ch).value \in Values /\ window[p] \in Seq(Values)
            BY <2>1, <4>4, EventFacts DEF TypeOK
        <5>2. s \in Seq(Values)
            BY <5>1
        <5> HIDE DEF s
        <5>3. LastOf(History, s) \in Seq(Values) /\ Len(LastOf(History, s)) <= History
            BY <5>2, LastOfFacts
        <5>4. window' = [window EXCEPT ![p] = LastOf(History, s)] /\ UNCHANGED firingRules
            BY <1>7, <3>2, <4>4, HandleFacts DEF s
        <5> QED
            BY <2>1, <4>1, <4>2, <5>3, <5>4 DEF TypeOK
      <4> QED
          BY <2>1, <4>3, <4>4 DEF Event
    <3> QED
        BY <3>1, <3>2
  <2>4. TypeOK'
      BY <2>1, <2>2, <2>3 DEF TypeOK, Event, sorVars
  <2>5. Connected'
      BY <2>2 DEF Connected, sorVars
  <2> QED
      BY <2>4, <2>5
<1>8. CASE WatchDrops
  <2>1. ch' \in Seq(SampleEvents \cup AlertEvents) /\ Len(ch') <= Buffer
      BY <1>8 DEF WatchDrops
  <2>2. \A i \in DOMAIN ch : ch[i].rule.path \in Paths
    <3>1. \A i \in DOMAIN ch : ch[i] \in Event
        BY DEF TypeOK, Event
    <3> QED
        BY <3>1, EventFacts DEF Event
  <2>3. /\ lostSamples' \subseteq Paths /\ lostAlerts' \in BOOLEAN /\ lastError' \in BOOLEAN
        /\ faults' \in 0 .. MaxFaults
        /\ pc' = "sleep" /\ subscribed' = FALSE /\ ch' = << >>
        /\ UNCHANGED <<sorVars, tree, firingRules, window, cats, pageVars>>
    <3>1. lostSamples' \subseteq Paths
        BY <1>8, <2>2 DEF WatchDrops, TypeOK
    <3>2. lostAlerts' \in BOOLEAN
        BY <1>8 DEF WatchDrops
    <3>3. lastError' \in BOOLEAN
        BY <1>8 DEF WatchDrops, TypeOK
    <3>4. faults' \in 0 .. MaxFaults
        BY <1>0, <1>8 DEF WatchDrops, TypeOK
    <3> QED
        BY <1>8, <3>1, <3>2, <3>3, <3>4 DEF WatchDrops, AfterDrop
  <2>4. TypeOK'
      BY <2>1, <2>3 DEF TypeOK, sorVars, pageVars
  <2>5. ~ up => lostAlerts' /\ lostSamples' = Paths
      BY <1>8, <2>3 DEF Connected, WatchDrops
  <2>6. Connected'
      BY <2>3, <2>5 DEF Connected, sorVars
  <2> QED
      BY <2>4, <2>6
<1> QED
    BY <1>1, <1>2, <1>3, <1>4, <1>5, <1>6, <1>7, <1>8 DEF Live

\* So does a browser.
LEMMA BrowserTypes ==
    ASSUME TypeOK, Connected, Browser
    PROVE  TypeOK' /\ Connected'
<1> USE DashboardAssumption
<1>1. /\ UNCHANGED <<sorVars, subscribed, ch, liveVars, lostAlerts, lostSamples>>
      /\ faults' \in 0 .. MaxFaults /\ sse' \in BOOLEAN /\ unseen' \subseteq Paths
  <2>1. CASE OpenPage
      BY <2>1 DEF OpenPage, TypeOK
  <2>2. CASE ConnectEvents
      BY <2>2 DEF ConnectEvents, TypeOK
  <2>3. CASE DropEvents
    <3>1. faults' \in 0 .. MaxFaults
        BY <2>3 DEF DropEvents, TypeOK
    <3> QED
        BY <2>3, <3>1 DEF DropEvents
  <2> QED
      BY <2>1, <2>2, <2>3 DEF Browser
<1>2. \A p \in DOMAIN page' : p \in Paths /\ page'[p] \in Severities
  <2>1. CASE OpenPage
    <3>1. PICK shown \in SUBSET PathsOf(tree) : page' = [p \in shown |-> status(p)]
        BY <2>1 DEF OpenPage, Rendered
    <3>2. shown \subseteq Paths
        BY DEF TypeOK, Paths, PathsOf
    <3>3. \A p \in shown : status(p) \in Severities
        BY StatusType DEF status
    <3> QED
        BY <3>1, <3>2, <3>3
  <2>2. CASE ConnectEvents \/ DropEvents
      BY <2>2 DEF ConnectEvents, DropEvents, TypeOK
  <2> QED
      BY <2>1, <2>2 DEF Browser
<1>3. TypeOK'
    BY <1>1, <1>2 DEF TypeOK, sorVars, liveVars
<1>4. Connected'
    BY <1>1 DEF Connected, sorVars, liveVars
<1> QED
    BY <1>3, <1>4

\* They hold at first.
LEMMA TypeInit == Init => TypeOK /\ Connected
<1> SUFFICES ASSUME Init PROVE TypeOK /\ Connected
    OBVIOUS
<1>1. << >> \in Seq(Values) /\ << >> \in Seq(SampleEvents \cup AlertEvents)
      /\ Len(<< >>) = 0 /\ DOMAIN << >> = {}
    OBVIOUS
<1>2. /\ store \in [Paths -> Seq(Values)] /\ window \in [Paths -> Seq(Values)]
      /\ \A p \in Paths : Len(window[p]) <= History
      /\ Len(ch) <= Buffer /\ ch \in Seq(SampleEvents \cup AlertEvents)
      /\ outbox \in Seq(SampleEvents \cup AlertEvents)
    BY <1>1, DashboardAssumption DEF Init
<1>3. \A p \in DOMAIN page : p \in Paths /\ page[p] \in Severities
    BY <1>1 DEF Init
<1>4. TypeOK
  <2>1. samples \in 0 .. MaxSamples /\ flips \in 0 .. MaxFlips /\ faults \in 0 .. MaxFaults
      BY DashboardAssumption DEF Init
  <2> QED
      BY <1>2, <1>3, <2>1 DEF Init, TypeOK
<1>5. Connected
    BY DEF Init, Connected
<1> QED
    BY <1>4, <1>5

\* Every step keeps them.
LEMMA TypeStep ==
    ASSUME TypeOK, Connected, [Next]_vars
    PROVE  TypeOK' /\ Connected'
<1>1. CASE Next
    BY <1>1, SorTypes, LiveTypes, BrowserTypes DEF Next
<1>2. CASE UNCHANGED vars
  <2>1. TypeOK'
      BY <1>2 DEF TypeOK, vars, sorVars, liveVars, pageVars
  <2>2. Connected'
      BY <1>2 DEF Connected, vars, sorVars, liveVars, pageVars
  <2> QED
      BY <2>1, <2>2
<1> QED
    BY <1>1, <1>2

\* The types hold, and what the watch's state says of the rest: a dashboard that is not
\* watching has no subscription and nothing buffered, and a system of record that is down
\* has no events left to publish.  Live.run, load and handle; tee.Ingest.
THEOREM TypeCorrect == Spec => [](TypeOK /\ Connected)
    BY TypeInit, TypeStep, PTL DEF Spec

-----------------------------------------------------------------------------
(* A page and the picture.                                                 *)

\* A metric's severity depends on its own rules and window only.
LEMMA StatusSame ==
    ASSUME NEW p, NEW keys, NEW keys2, NEW win, NEW win2,
           p \in firingPathsOf(keys) <=> p \in firingPathsOf(keys2), win[p] = win2[p]
    PROVE  StatusWith(p, keys, win) = StatusWith(p, keys2, win2)
    BY DEF StatusWith, kpiStatus

\* A rule that flips changes the severity of no other metric.
LEMMA FlippedKey ==
    ASSUME NEW keys, NEW r, NEW q, q # r.path
    PROVE  /\ q \in firingPathsOf(keys \cup {ruleKey(r)}) <=> q \in firingPathsOf(keys)
           /\ q \in firingPathsOf(keys \ {ruleKey(r)}) <=> q \in firingPathsOf(keys)
<1>1. ruleKey(r)[1] = r.path
    BY DEF ruleKey
<1> QED
    BY <1>1 DEF firingPathsOf

\* While neither the picture nor the page changes, both agree as before.
LEMMA PageKept ==
    ASSUME PageKnown, UNCHANGED <<tree, firingRules, window, page, unseen>>
    PROVE  PageKnown'
    BY DEF PageKnown, status, StatusWith

LEMMA PageStep ==
    ASSUME TypeOK, Connected, PageKnown, [Next]_vars
    PROVE  PageKnown'
<1>1. CASE Sor
  <2>1. UNCHANGED <<liveVars, pageVars>>
      BY <1>1 DEF Sor, Store, PublishEvent, Evaluate, CheckAbsent, Stop, Start
  <2> QED
      BY <2>1, PageKept DEF liveVars, pageVars
<1>2. CASE LoadRules
  <2>1. unseen' = Paths /\ page' = page
      BY <1>2 DEF LoadRules
  <2> QED
      BY <2>1 DEF PageKnown, TypeOK
<1>3. CASE LoadFails \/ Loaded \/ OpenWatch \/ WatchDrops \/ Reload
  <2>1. UNCHANGED <<tree, firingRules, window, pageVars>>
      BY <1>3 DEF LoadFails, Loaded, OpenWatch, WatchDrops, Reload
  <2> QED
      BY <2>1, PageKept DEF pageVars
<1>4. CASE Cat \/ CatFails
  <2>1. PICK p \in cats : /\ \E w : window' = [window EXCEPT ![p] = w]
                          /\ unseen' = unseen \cup {p}
      BY <1>4 DEF Cat, CatFails
  <2>2. UNCHANGED <<tree, firingRules, page>>
      BY <1>4 DEF Cat, CatFails
  <2>3. ASSUME NEW q \in DOMAIN page' \ unseen' PROVE page'[q] = status(q)'
    <3>1. q \in DOMAIN page \ unseen /\ q # p /\ q \in Paths
        BY <2>1, <2>2 DEF TypeOK
    <3>2. window'[q] = window[q]
        BY <2>1, <3>1 DEF TypeOK
    <3>3. page[q] = StatusWith(q, firingRules, window)
        BY <3>1 DEF PageKnown, status
    <3>4. StatusWith(q, firingRules, window) = StatusWith(q, firingRules', window')
        BY <2>2, <3>2, StatusSame
    <3> QED
        BY <2>2, <3>3, <3>4 DEF status, StatusWith
  <2> QED
      BY <2>3 DEF PageKnown
<1>5. CASE Handle
  <2> DEFINE p == Head(ch).rule.path
  <2>1. UNCHANGED tree
      BY <1>5 DEF Handle
  <2>2. CASE p \notin PathsOf(tree)
    <3>1. UNCHANGED <<firingRules, window, page, unseen>>
        BY <1>5, <2>2, HandleFacts
    <3> QED
        BY <2>1, <3>1, PageKept
  <2>3. CASE p \in PathsOf(tree)
    <3>1. ASSUME NEW q \in DOMAIN page' \ unseen' PROVE page'[q] = status(q)'
      <4>1. /\ page' = IF sse /\ p \in DOMAIN page
                       THEN [page EXCEPT ![p] = StatusWith(p, firingRules', window')]
                       ELSE page
            /\ sse => unseen' = unseen \ {p}
            /\ ~ sse => unseen' = unseen \cup {p}
          BY <1>5, <2>3, HandleFacts
      <4>2. q \in DOMAIN page
          BY <4>1
      <4>3. status(q)' = StatusWith(q, firingRules', window')
          BY <2>1 DEF status, StatusWith
      <4>4. CASE q = p
        <5>1. sse
            BY <4>1, <4>4
        <5> QED
            BY <4>1, <4>2, <4>3, <4>4, <5>1
      <4>5. CASE q # p
        <5>1. page'[q] = page[q] /\ q \notin unseen
            BY <4>1, <4>2, <4>5
        <5>2. page[q] = StatusWith(q, firingRules, window)
            BY <4>2, <5>1 DEF PageKnown, status
        <5>3. q \in firingPathsOf(firingRules) <=> q \in firingPathsOf(firingRules')
          <6>1. CASE Head(ch) \in AlertEvents
            <7>1. firingRules' = IF Head(ch).alert = "fired"
                                 THEN firingRules \cup {ruleKey(Head(ch).rule)}
                                 ELSE firingRules \ {ruleKey(Head(ch).rule)}
                BY <1>5, <2>3, <6>1, HandleFacts
            <7> QED
                BY <4>5, <7>1, FlippedKey
          <6>2. CASE Head(ch) \in SampleEvents
              BY <1>5, <2>3, <6>2, HandleFacts
          <6> QED
              BY <1>5, <6>1, <6>2, HandleFacts DEF Event
        <5>4. window[q] = window'[q]
          <6>1. q \in Paths /\ window \in [Paths -> Seq(Values)]
              BY <4>2 DEF TypeOK
          <6>2. CASE Head(ch) \in AlertEvents
              BY <1>5, <2>3, <6>2, HandleFacts
          <6>3. CASE Head(ch) \in SampleEvents
            <7>1. window' = [window EXCEPT ![p] = LastOf(History, Append(@, Head(ch).value))]
                BY <1>5, <2>3, <6>3, HandleFacts
            <7> QED
                BY <4>5, <6>1, <7>1
          <6> QED
              BY <1>5, <6>2, <6>3, HandleFacts DEF Event
        <5>5. StatusWith(q, firingRules, window) = StatusWith(q, firingRules', window')
            BY <5>3, <5>4, StatusSame
        <5> QED
            BY <4>3, <5>1, <5>2, <5>5
      <4> QED
          BY <4>4, <4>5
    <3> QED
        BY <3>1 DEF PageKnown
  <2> QED
      BY <2>2, <2>3
<1>6. CASE OpenPage
  <2>1. PICK shown \in SUBSET PathsOf(tree) : page' = [p \in shown |-> status(p)]
      BY <1>6 DEF OpenPage, Rendered
  <2>2. UNCHANGED <<tree, firingRules, window>>
      BY <1>6 DEF OpenPage, liveVars
  <2>3. \A p : status(p)' = status(p)
      BY <2>2 DEF status, StatusWith
  <2> QED
      BY <2>1, <2>3 DEF PageKnown
<1>7. CASE ConnectEvents
    BY <1>7, PageKept DEF ConnectEvents, liveVars
<1>8. CASE DropEvents
  <2>1. unseen' = Paths /\ page' = page
      BY <1>8 DEF DropEvents
  <2> QED
      BY <2>1 DEF PageKnown, TypeOK
<1>9. CASE UNCHANGED vars
    BY <1>9, PageKept DEF vars, liveVars, pageVars
<1> QED
    BY <1>1, <1>2, <1>3, <1>4, <1>5, <1>6, <1>7, <1>8, <1>9 DEF Next, Live, Browser

\* A page that listens shows what the dashboard would render, except where it was not told
\* of a change: whatever the order of loads, events, reloads and reconnects.  Live.handle,
\* Live.status and app.js applyStatus.
THEOREM PageUpToDate == Spec => []PageFollows
<1>1. Init => PageKnown
  <2>1. DOMAIN << >> = {}
      OBVIOUS
  <2> QED
      BY <2>1 DEF Init, PageKnown
<1>2. TypeOK /\ Connected /\ PageKnown /\ [Next]_vars => PageKnown'
    BY PageStep
<1>3. PageKnown => PageFollows
    BY DEF PageKnown, PageFollows
<1> QED
    BY <1>1, <1>2, <1>3, TypeCorrect, PTL DEF Spec

-----------------------------------------------------------------------------
(* What is to be published.                                                *)

\* An evaluation, or a check of the absent rules: every event it makes says how the rules
\* of that key are afterwards, and no other key's rules change.
LEMMA FlipKeys ==
    ASSUME TypeOK, Evaluate \/ CheckAbsent
    PROVE  /\ outbox = << >> /\ outbox' \in Seq(Event) /\ Len(outbox') \in Nat
           /\ UNCHANGED <<configured, store, subscribed, ch, liveVars, lostAlerts, lostSamples>>
           /\ \A i \in 1 .. Len(outbox') :
                 /\ outbox'[i] \in AlertEvents /\ outbox'[i].rule \in configured
                 /\ outbox'[i].alert = "fired" <=>
                       \E r \in firing' : ruleKey(r) = ruleKey(outbox'[i].rule)
           /\ \A k : NoneOf(outbox', KeyEvents(k)) => (FiringKey(k)' <=> FiringKey(k))
<1>1. PICK rules \in SUBSET configured :
         /\ Flip(rules)
         /\ \A r, q \in configured : ruleKey(r) = ruleKey(q) /\ r \in rules \cap firing =>
                                        (q \in rules <=> q \in firing)
  <2>1. CASE Evaluate
    <3>1. PICK p \in evaluating : \E flipping \in SUBSET {r \in configured : r.path = p} :
             /\ FlipTogether({r \in configured : r.path = p}, flipping)
             /\ Flip(flipping)
        BY <2>1 DEF Evaluate
    <3>2. PICK flipping \in SUBSET {r \in configured : r.path = p} :
             /\ FlipTogether({r \in configured : r.path = p}, flipping)
             /\ Flip(flipping)
        BY <3>1
    <3>3. ASSUME NEW r \in configured, NEW q \in configured, ruleKey(r) = ruleKey(q),
                 r \in flipping \cap firing
          PROVE  q \in flipping <=> q \in firing
      <4>1. r.path = p /\ q.path = r.path
          BY <3>2, <3>3 DEF ruleKey
      <4> QED
          BY <3>2, <3>3, <4>1 DEF FlipTogether
    <3> QED
        BY <3>2, <3>3
  <2>2. CASE CheckAbsent
    <3>1. PICK r \in configured \ firing : Flip({r})
        BY <2>2 DEF CheckAbsent
    <3> QED
        BY <3>1
  <2> QED
      BY <2>1, <2>2
<1>2. /\ outbox = << >>
      /\ UNCHANGED <<configured, store, subscribed, ch, liveVars, lostAlerts, lostSamples>>
    BY DEF Evaluate, CheckAbsent
<1>3. /\ firing' = (firing \ rules) \cup (rules \ firing)
      /\ firing' \subseteq configured /\ outbox' \in Seq(Event) /\ Len(outbox') \in Nat
      /\ \A i \in 1 .. Len(outbox') :
            /\ outbox'[i] \in AlertEvents /\ outbox'[i].rule \in rules
            /\ outbox'[i].alert = "fired" <=> outbox'[i].rule \notin firing
      /\ \A r \in rules : \E i \in 1 .. Len(outbox') : outbox'[i].rule = r
    BY <1>1, FlipFacts
<1>4. ASSUME NEW i \in 1 .. Len(outbox')
      PROVE  outbox'[i].alert = "fired" <=>
                \E r \in firing' : ruleKey(r) = ruleKey(outbox'[i].rule)
  <2> DEFINE q == outbox'[i].rule
  <2>1. q \in rules /\ (outbox'[i].alert = "fired" <=> q \notin firing)
      BY <1>3
  <2> HIDE DEF q
  <2>2. CASE q \notin firing
    <3>1. q \in firing'
        BY <1>3, <2>1, <2>2
    <3> QED
        BY <2>1, <2>2, <3>1 DEF q
  <2>3. CASE q \in firing
    <3>1. ASSUME NEW r \in firing', ruleKey(r) = ruleKey(q) PROVE FALSE
      <4>1. r \in rules <=> r \in firing
          BY <1>1, <1>3, <2>1, <2>3, <3>1
      <4> QED
          BY <1>3, <4>1
    <3> QED
        BY <2>1, <2>3, <3>1 DEF q
  <2> QED
      BY <2>2, <2>3
<1>5. ASSUME NEW k, NoneOf(outbox', KeyEvents(k)) PROVE FiringKey(k)' <=> FiringKey(k)
  <2>1. ASSUME NEW r \in rules PROVE ruleKey(r) # k
    <3>1. PICK i \in 1 .. Len(outbox') : outbox'[i].rule = r /\ outbox'[i] \in AlertEvents
        BY <1>3
    <3> QED
        BY <1>5, <3>1 DEF NoneOf, KeyEvents
  <2> QED
      BY <1>3, <2>1 DEF FiringKey
<1> QED
    BY <1>1, <1>2, <1>3, <1>4, <1>5

LEMMA OutboxStep ==
    ASSUME TypeOK, Connected, OutboxTrue, [Next]_vars
    PROVE  OutboxTrue'
<1>1. CASE Store
  <2>1. PICK p \in Paths, v \in Values :
           /\ store' = [store EXCEPT ![p] = Append(@, v)]
           /\ outbox' = <<SampleEvent(p, v)>>
      BY <1>1 DEF Store
  <2>2. store[p] \in Seq(Values)
      BY DEF TypeOK
  <2>3. Append(store[p], v) # << >> /\ Last(Append(store[p], v)) = v
    <3>1. PICK n \in Nat : n = Len(store[p])
        BY <2>2
    <3>2. Len(Append(store[p], v)) = n + 1 /\ Append(store[p], v)[n + 1] = v
        BY <2>2, <3>1
    <3> QED
        BY <2>2, <3>1, <3>2 DEF Last
  <2>4. store'[p] = Append(store[p], v)
      BY <2>1 DEF TypeOK
  <2>5. /\ SampleEvent(p, v) \in SampleEvents /\ SampleEvent(p, v) \notin AlertEvents
        /\ SampleEvent(p, v).rule.path = p /\ SampleEvent(p, v).value = v
      BY EventFacts
  <2>6. Len(outbox') = 1 /\ outbox'[1] = SampleEvent(p, v)
      BY <2>1
  <2>7. \A i \in 1 .. Len(outbox') : outbox'[i] = SampleEvent(p, v)
      BY <2>6
  <2> QED
      BY <2>3, <2>4, <2>5, <2>7 DEF OutboxTrue
<1>2. CASE PublishEvent
  <2>1. UNCHANGED <<configured, firing, store>>
      BY <1>2 DEF PublishEvent
  <2>2. ASSUME NEW i \in 1 .. Len(outbox')
        PROVE  /\ outbox'[i] \in AlertEvents =>
                     /\ outbox'[i].rule \in configured'
                     /\ outbox'[i].alert = "fired" <=>
                           \E r \in firing' : ruleKey(r) = ruleKey(outbox'[i].rule)
               /\ outbox'[i] \in SampleEvents =>
                     /\ store'[outbox'[i].rule.path] # << >>
                     /\ outbox'[i].value = Last(store'[outbox'[i].rule.path])
    <3>1. /\ Len(outbox) \in Nat /\ Len(outbox') = Len(outbox) - 1
          /\ outbox'[i] = outbox[i + 1]
        BY <1>2, PublishEventFacts
    <3>2. i + 1 \in 1 .. Len(outbox)
        BY <3>1
    <3> QED
        BY <2>1, <3>1, <3>2 DEF OutboxTrue, FiringKey
  <2> QED
      BY <2>2 DEF OutboxTrue, FiringKey
<1>3. CASE Evaluate \/ CheckAbsent
  <2>1. \A i \in 1 .. Len(outbox') :
           /\ outbox'[i] \in AlertEvents /\ outbox'[i] \notin SampleEvents
           /\ outbox'[i].rule \in configured'
           /\ outbox'[i].alert = "fired" <=>
                 \E r \in firing' : ruleKey(r) = ruleKey(outbox'[i].rule)
      BY <1>3, FlipKeys, EventFacts
  <2> QED
      BY <2>1 DEF OutboxTrue, FiringKey
<1>4. CASE Stop \/ Start
  <2>1. outbox' = << >>
      BY <1>4 DEF Stop, Start, Connected
  <2>2. Len(outbox') = 0
      BY <2>1
  <2> QED
      BY <2>2 DEF OutboxTrue
<1>5. CASE UNCHANGED sorVars
    BY <1>5 DEF OutboxTrue, FiringKey, sorVars
<1>6. Live => UNCHANGED sorVars
    BY DEF Live, LoadRules, LoadFails, Cat, CatFails, Loaded, OpenWatch, Handle, WatchDrops,
           Reload
<1>7. Browser => UNCHANGED sorVars
    BY DEF Browser, OpenPage, ConnectEvents, DropEvents
<1>8. UNCHANGED vars => UNCHANGED sorVars
    BY DEF vars
<1> QED
    BY <1>1, <1>2, <1>3, <1>4, <1>5, <1>6, <1>7, <1>8 DEF Next, Sor

-----------------------------------------------------------------------------
(* Which rules are firing.                                                 *)

\* What the system of record says of a key and what the dashboard has of it stay as they are.
LEMMA KeyKept ==
    ASSUME NEW k, KeyKnown(k), ch' = ch, k \in firingRules' <=> k \in firingRules,
           FiringKey(k)' <=> FiringKey(k)
    PROVE  KeyKnown(k)'
    BY DEF KeyKnown, NoneOf, LastOne, KeyEvents

\* Nothing the alerts depend on changes.
LEMMA AlertsKept ==
    ASSUME AlertsKnown,
           UNCHANGED <<configured, firing, outbox, ch, tree, firingRules, lostAlerts>>
    PROVE  AlertsKnown'
<1> SUFFICES ASSUME ~ lostAlerts' PROVE AlertsKnown'
    BY DEF AlertsKnown
<1>1. ASSUME NEW k \in Keys, NoneOf(outbox', KeyEvents(k)) PROVE KeyKnown(k)'
  <2>1. KeyKnown(k) /\ (FiringKey(k)' <=> FiringKey(k))
      BY <1>1 DEF AlertsKnown, FiringKey
  <2> QED
      BY <2>1, KeyKept
<1>2. /\ tree' = configured'
      /\ \A i \in 1 .. Len(ch') : ch'[i] \in AlertEvents => ch'[i].rule \in configured'
    BY DEF AlertsKnown
<1>3. \A k \in Keys : NoneOf(outbox', KeyEvents(k)) => KeyKnown(k)'
    BY <1>1
<1> QED
    BY <1>2, <1>3 DEF AlertsKnown, KeyEvents

\* Nothing is buffered: the dashboard has what the system of record says of a key.
LEMMA KeyBufferless ==
    ASSUME NEW k, ch' = << >>, k \in firingRules' <=> FiringKey(k)'
    PROVE  KeyKnown(k)'
<1>1. Len(ch') = 0
    OBVIOUS
<1> QED
    BY <1>1 DEF KeyKnown, NoneOf

LEMMA AlertsStep ==
    ASSUME TypeOK, Connected, OutboxTrue, AlertsKnown, [Next]_vars
    PROVE  AlertsKnown'
<1>0. ch \in Seq(Event) /\ outbox \in Seq(Event) /\ Len(ch) \in Nat
    BY DEF TypeOK, Event
<1>1. ASSUME outbox = << >>, ~ lostAlerts, NEW k \in Keys PROVE KeyKnown(k)
  <2>1. Len(outbox) = 0
      BY <1>1
  <2> QED
      BY <1>1, <2>1 DEF AlertsKnown, NoneOf
<1>2. CASE Store
  <2>1. /\ outbox = << >>
        /\ UNCHANGED <<configured, firing, ch, tree, firingRules, lostAlerts>>
      BY <1>2 DEF Store, liveVars
  <2>2. ASSUME ~ lostAlerts, NEW k \in Keys PROVE KeyKnown(k)'
    <3>1. KeyKnown(k) /\ (FiringKey(k)' <=> FiringKey(k))
        BY <1>1, <2>1, <2>2 DEF FiringKey
    <3> QED
        BY <2>1, <3>1, KeyKept
  <2>3. ~ lostAlerts => \A k \in Keys : KeyKnown(k)'
      BY <2>2
  <2> QED
      BY <2>1, <2>3 DEF AlertsKnown
<1>3. CASE PublishEvent
  <2> SUFFICES ASSUME ~ lostAlerts' PROVE AlertsKnown'
      BY DEF AlertsKnown
  <2> DEFINE ev == Head(outbox)
  <2>1. UNCHANGED <<configured, firing, tree, firingRules>>
      BY <1>3 DEF PublishEvent, liveVars
  <2>2. /\ ev \in Event /\ Publish(ev) /\ Len(outbox) \in Nat /\ Len(outbox') = Len(outbox) - 1
        /\ 1 \in 1 .. Len(outbox) /\ ev = outbox[1]
        /\ \A i \in 1 .. Len(outbox') : outbox'[i] = outbox[i + 1]
      BY <1>3, PublishEventFacts
  <2> HIDE DEF ev
  <2>3. /\ ~ lostAlerts
        /\ ch' = Append(ch, ev) \/ (ch' = ch /\ ev \in SampleEvents)
    <3>1. lostAlerts \in BOOLEAN
        BY DEF TypeOK
    <3> QED
        BY <2>2, <3>1, PublishFacts DEF Publish
  <2>4. ev \in AlertEvents => /\ ev.rule \in configured
                              /\ ev.alert = "fired" <=> FiringKey(ruleKey(ev.rule))
      BY <2>2 DEF OutboxTrue
  <2>5. \A i \in 1 .. Len(ch') : ch'[i] \in AlertEvents => ch'[i].rule \in configured'
    <3>1. \A i \in 1 .. Len(ch) : ch[i] \in AlertEvents => ch[i].rule \in configured
        BY <2>3 DEF AlertsKnown
    <3>2. CASE ch' = Append(ch, ev)
      <4>1. ASSUME NEW i \in 1 .. Len(ch') PROVE i \in 1 .. Len(ch) \/ ch'[i] = ev
          BY <1>0, <2>2, <3>2
      <4>2. \A i \in 1 .. Len(ch) : ch'[i] = ch[i]
          BY <1>0, <2>2, <3>2
      <4> QED
          BY <2>1, <2>4, <3>1, <4>1, <4>2
    <3>3. CASE ch' = ch
        BY <2>1, <3>1, <3>3
    <3> QED
        BY <2>3, <3>2, <3>3
  <2>6. ASSUME NEW k \in Keys, NoneOf(outbox', KeyEvents(k)) PROVE KeyKnown(k)'
    <3>0. FiringKey(k)' <=> FiringKey(k)
        BY <2>1 DEF FiringKey
    <3>1. CASE ev \in KeyEvents(k)
      <4>1. ev \in AlertEvents /\ ruleKey(ev.rule) = k /\ ev \notin SampleEvents
          BY <3>1, EventFacts DEF KeyEvents
      <4>2. ch' = Append(ch, ev)
          BY <2>3, <4>1
      <4>3. LastOne(ch', KeyEvents(k), ev)
          BY <1>0, <2>2, <3>1, <4>2, QueueAppend
      <4>4. ev.alert = "fired" <=> FiringKey(k)'
          BY <2>4, <3>0, <4>1
      <4>5. \E e \in KeyEvents(k) :
               LastOne(ch', KeyEvents(k), e) /\ (e.alert = "fired" <=> FiringKey(k)')
          BY <3>1, <4>3, <4>4
      <4> QED
          BY <4>5 DEF KeyKnown, KeyEvents, LastOne
    <3>2. CASE ev \notin KeyEvents(k)
      <4>1. NoneOf(outbox, KeyEvents(k))
        <5>1. ASSUME NEW i \in 1 .. Len(outbox) PROVE outbox[i] \notin KeyEvents(k)
          <6>1. CASE i = 1
              BY <2>2, <3>2, <6>1
          <6>2. CASE i # 1
            <7>1. i - 1 \in 1 .. Len(outbox') /\ (i - 1) + 1 = i
                BY <2>2, <6>2
            <7>2. outbox'[i - 1] = outbox[i]
                BY <2>2, <7>1
            <7> QED
                BY <2>6, <7>1, <7>2 DEF NoneOf
          <6> QED
              BY <6>1, <6>2
        <5> QED
            BY <5>1 DEF NoneOf
      <4>2. KeyKnown(k)
          BY <2>3, <2>6, <4>1 DEF AlertsKnown
      <4>3. CASE ch' = ch
          BY <2>1, <3>0, <4>2, <4>3, KeyKept
      <4>4. CASE ch' = Append(ch, ev)
        <5>1. /\ NoneOf(ch, KeyEvents(k)) => NoneOf(ch', KeyEvents(k))
              /\ \A e : LastOne(ch, KeyEvents(k), e) => LastOne(ch', KeyEvents(k), e)
            BY <1>0, <2>2, <3>2, <4>4, QueueAppend
        <5>2. \/ NoneOf(ch', KeyEvents(k)) /\ (k \in firingRules' <=> FiringKey(k)')
              \/ \E e \in KeyEvents(k) :
                    LastOne(ch', KeyEvents(k), e) /\ (e.alert = "fired" <=> FiringKey(k)')
            BY <2>1, <3>0, <4>2, <5>1 DEF KeyKnown
        <5> QED
            BY <5>2 DEF KeyKnown, KeyEvents, LastOne, NoneOf
      <4> QED
          BY <2>3, <4>3, <4>4
    <3> QED
        BY <3>1, <3>2
  <2>7. \A k \in Keys : NoneOf(outbox', KeyEvents(k)) => KeyKnown(k)'
      BY <2>6
  <2>8. tree' = configured'
      BY <2>1, <2>3 DEF AlertsKnown
  <2> QED
      BY <2>5, <2>7, <2>8 DEF AlertsKnown, KeyEvents
<1>4. CASE Evaluate \/ CheckAbsent
  <2>1. /\ outbox = << >> /\ UNCHANGED <<configured, ch, tree, firingRules, lostAlerts>>
        /\ \A k : NoneOf(outbox', KeyEvents(k)) => (FiringKey(k)' <=> FiringKey(k))
      BY <1>4, FlipKeys DEF liveVars
  <2>2. ASSUME ~ lostAlerts, NEW k \in Keys, NoneOf(outbox', KeyEvents(k)) PROVE KeyKnown(k)'
    <3>1. KeyKnown(k) /\ (FiringKey(k)' <=> FiringKey(k))
        BY <1>1, <2>1, <2>2
    <3> QED
        BY <2>1, <3>1, KeyKept
  <2>3. ~ lostAlerts => \A k \in Keys : NoneOf(outbox', KeyEvents(k)) => KeyKnown(k)'
      BY <2>2
  <2> QED
      BY <2>1, <2>3 DEF AlertsKnown, KeyEvents
<1>5. CASE Stop \/ Start
  <2>1. lostAlerts'
      BY <1>5 DEF Stop, Start, Connected
  <2> QED
      BY <2>1 DEF AlertsKnown
<1>6. CASE LoadRules
  <2>1. ch' = << >> /\ Len(ch') = 0
      BY <1>6 DEF LoadRules, Connected
  <2>2. UNCHANGED <<configured, firing>>
      BY <1>6 DEF LoadRules, sorVars
  <2>3. \A s \in RuleStatus : s.rule \in configured /\ (s.firing <=> s.rule \in firing)
    <3> TAKE s \in RuleStatus
    <3>1. PICK r \in configured : s = [rule |-> r, firing |-> r \in firing]
        BY DEF RuleStatus
    <3>2. s.rule = r
        BY <3>1
    <3>3. s.firing = (r \in firing)
        BY <3>1, Zenon
    <3> QED
        BY <3>2, <3>3, Zenon
  <2>4. \A r \in configured : \E s \in RuleStatus : s.rule = r
    <3> TAKE r \in configured
    <3> DEFINE s == [rule |-> r, firing |-> r \in firing]
    <3>1. s \in RuleStatus /\ s.rule = r
        BY DEF RuleStatus
    <3> QED
        BY <3>1
  <2>5. tree' = {s.rule : s \in RuleStatus}
        /\ firingRules' = {ruleKey(s.rule) : s \in {s \in RuleStatus : s.firing}}
      BY <1>6 DEF LoadRules
  <2>6. tree' = configured'
      BY <2>2, <2>3, <2>4, <2>5
  <2>7. ASSUME NEW k \in Keys PROVE KeyKnown(k)'
    <3>1. k \in firingRules' <=> \E r \in firing : ruleKey(r) = k
        BY <2>3, <2>4, <2>5 DEF TypeOK
    <3>2. k \in firingRules' <=> FiringKey(k)'
        BY <2>2, <3>1 DEF FiringKey
    <3> QED
        BY <2>1, <3>2, KeyBufferless
  <2>8. \A k \in Keys : KeyKnown(k)'
      BY <2>7
  <2> QED
      BY <2>1, <2>6, <2>8 DEF AlertsKnown
<1>7. CASE LoadFails \/ Cat \/ CatFails \/ Loaded \/ Reload
  <2>1. UNCHANGED <<sorVars, ch, tree, firingRules, lostAlerts>>
      BY <1>7 DEF LoadFails, Cat, CatFails, Loaded, Reload
  <2> QED
      BY <2>1, AlertsKept DEF sorVars
<1>8. CASE OpenWatch
  <2>1. UNCHANGED <<sorVars, ch, tree, firingRules, lostAlerts>>
      BY <1>8 DEF OpenWatch, Connected
  <2> QED
      BY <2>1, AlertsKept DEF sorVars
<1>9. CASE Handle
  <2> DEFINE ev == Head(ch)
  <2>1. /\ UNCHANGED <<sorVars, tree, lostAlerts>>
        /\ ch # << >> /\ ev \in Event /\ ch' = Tail(ch) /\ ev = ch[1] /\ Len(ch) >= 1
        /\ Len(ch') = Len(ch) - 1 /\ \A i \in 1 .. Len(ch') : ch'[i] = ch[i + 1]
    <3>1. /\ UNCHANGED <<sorVars, tree, lostAlerts>>
          /\ ch # << >> /\ ev \in Event /\ ch' = Tail(ch)
        BY <1>9, HandleFacts DEF Handle
    <3>2. Len(ch) >= 1
        BY <1>0, <3>1
    <3> QED
        BY <1>0, <3>1, <3>2, QueueTail
  <2> SUFFICES ASSUME ~ lostAlerts' PROVE AlertsKnown'
      BY DEF AlertsKnown
  <2>2. ~ lostAlerts /\ tree = configured
      BY <2>1 DEF AlertsKnown
  <2>3. \A i \in 1 .. Len(ch') : ch'[i] \in AlertEvents => ch'[i].rule \in configured'
    <3>1. ASSUME NEW i \in 1 .. Len(ch') PROVE i + 1 \in 1 .. Len(ch)
        BY <1>0, <2>1
    <3> QED
        BY <2>1, <2>2, <3>1 DEF AlertsKnown, sorVars
  <2>4. ev \in AlertEvents => ev.rule.path \in PathsOf(tree)
    <3>1. 1 \in 1 .. Len(ch)
        BY <1>0, <2>1
    <3> QED
        BY <2>1, <2>2, <3>1 DEF AlertsKnown, PathsOf
  <2>5. /\ ev \in AlertEvents =>
              firingRules' = IF ev.alert = "fired" THEN firingRules \cup {ruleKey(ev.rule)}
                             ELSE firingRules \ {ruleKey(ev.rule)}
        /\ ev \in SampleEvents => firingRules' = firingRules
    <3>1. ev.rule.path \notin PathsOf(tree) => UNCHANGED firingRules
        BY <1>9, HandleFacts
    <3>2. ev.rule.path \in PathsOf(tree) =>
            /\ ev \in AlertEvents =>
                  firingRules' = IF ev.alert = "fired" THEN firingRules \cup {ruleKey(ev.rule)}
                                 ELSE firingRules \ {ruleKey(ev.rule)}
            /\ ev \in SampleEvents => firingRules' = firingRules
        BY <1>9, HandleFacts
    <3> QED
        BY <2>4, <3>1, <3>2
  <2>6. ASSUME NEW k \in Keys, NoneOf(outbox', KeyEvents(k)) PROVE KeyKnown(k)'
    <3>0. /\ KeyKnown(k) /\ (FiringKey(k)' <=> FiringKey(k))
        BY <2>1, <2>2, <2>6 DEF AlertsKnown, FiringKey, sorVars
    <3>1. /\ NoneOf(ch, KeyEvents(k)) => ev \notin KeyEvents(k) /\ NoneOf(ch', KeyEvents(k))
          /\ \A e : LastOne(ch, KeyEvents(k), e) =>
                \/ LastOne(ch', KeyEvents(k), e)
                \/ e = ev /\ ev \in KeyEvents(k) /\ NoneOf(ch', KeyEvents(k))
        BY <1>0, <2>1, QueueTail
    <3>2. ev \notin KeyEvents(k) => (k \in firingRules' <=> k \in firingRules)
      <4>1. ev \in AlertEvents /\ ev \notin KeyEvents(k) => ruleKey(ev.rule) # k
          BY DEF KeyEvents
      <4> QED
          BY <2>1, <2>5, <4>1 DEF Event
    <3>3. ev \in KeyEvents(k) => (k \in firingRules' <=> ev.alert = "fired")
      <4>1. ev \in KeyEvents(k) => ev \in AlertEvents /\ ruleKey(ev.rule) = k
          BY DEF KeyEvents
      <4> QED
          BY <2>5, <4>1
    <3>4. \/ NoneOf(ch', KeyEvents(k)) /\ (k \in firingRules' <=> FiringKey(k)')
          \/ \E e \in KeyEvents(k) :
                LastOne(ch', KeyEvents(k), e) /\ (e.alert = "fired" <=> FiringKey(k)')
      <4>1. CASE NoneOf(ch, KeyEvents(k)) /\ (k \in firingRules <=> FiringKey(k))
          BY <3>0, <3>1, <3>2, <4>1
      <4>2. CASE \E e \in KeyEvents(k) :
                    LastOne(ch, KeyEvents(k), e) /\ (e.alert = "fired" <=> FiringKey(k))
          BY <3>0, <3>1, <3>3, <4>2
      <4> QED
          BY <3>0, <4>1, <4>2 DEF KeyKnown
    <3> QED
        BY <3>4 DEF KeyKnown, KeyEvents, LastOne, NoneOf
  <2>7. \A k \in Keys : NoneOf(outbox', KeyEvents(k)) => KeyKnown(k)'
      BY <2>6
  <2> QED
      BY <2>1, <2>2, <2>3, <2>7 DEF AlertsKnown, KeyEvents, sorVars
<1>10. CASE WatchDrops
  <2>1. /\ UNCHANGED <<sorVars, tree, firingRules>> /\ ch' = << >>
        /\ lostAlerts' = (lostAlerts \/ \E i \in DOMAIN ch : IsAlert(ch[i]))
      BY <1>10 DEF WatchDrops
  <2> SUFFICES ASSUME ~ lostAlerts' PROVE AlertsKnown'
      BY DEF AlertsKnown
  <2>2. ~ lostAlerts /\ \A i \in 1 .. Len(ch) : ch[i] \notin AlertEvents
    <3>1. DOMAIN ch = 1 .. Len(ch)
        BY <1>0
    <3> QED
        BY <2>1, <3>1, EventFacts
  <2>3. ASSUME NEW k \in Keys, NoneOf(outbox', KeyEvents(k)) PROVE KeyKnown(k)'
    <3>1. KeyKnown(k) /\ (FiringKey(k)' <=> FiringKey(k))
        BY <2>1, <2>2, <2>3 DEF AlertsKnown, FiringKey, sorVars
    <3>2. k \in firingRules <=> FiringKey(k)
        BY <2>2, <3>1 DEF KeyKnown, LastOne, KeyEvents
    <3> QED
        BY <2>1, <3>1, <3>2, KeyBufferless
  <2>4. \A k \in Keys : NoneOf(outbox', KeyEvents(k)) => KeyKnown(k)'
      BY <2>3
  <2>5. Len(ch') = 0
      BY <2>1
  <2> QED
      BY <2>1, <2>2, <2>4, <2>5 DEF AlertsKnown, KeyEvents, sorVars
<1>11. CASE Browser
  <2>1. UNCHANGED <<sorVars, ch, liveVars, lostAlerts>>
      BY <1>11 DEF Browser, OpenPage, ConnectEvents, DropEvents
  <2> QED
      BY <2>1, AlertsKept DEF sorVars, liveVars
<1>12. CASE UNCHANGED vars
    BY <1>12, AlertsKept DEF vars, sorVars, liveVars
<1> QED
    BY <1>2, <1>3, <1>4, <1>5, <1>6, <1>7, <1>8, <1>9, <1>10, <1>11, <1>12
       DEF Next, Sor, Live

-----------------------------------------------------------------------------
(* The latest samples.                                                     *)

\* What is buffered and what both sides have of a path stay as they are.
LEMMA PathKept ==
    ASSUME NEW p, PathKnown(p), ch' = ch, window'[p] = window[p], store'[p] = store[p]
    PROVE  PathKnown(p)'
    BY DEF PathKnown, NoneOf, LastOne, PathEvents

\* Nothing is buffered: the window agrees with the store.
LEMMA PathBufferless ==
    ASSUME NEW p, ch' = << >>, Agree(window'[p], store'[p])
    PROVE  PathKnown(p)'
<1>1. Len(ch') = 0
    OBVIOUS
<1> QED
    BY <1>1 DEF PathKnown, NoneOf

\* Nothing the samples depend on changes; events may be made, or losses noted.
LEMMA SamplesKept ==
    ASSUME SamplesKnown,
           UNCHANGED <<configured, store, ch, tree, window>>, lostSamples \subseteq lostSamples',
           outbox' = outbox \/ outbox = << >>
    PROVE  SamplesKnown'
<1>1. ASSUME NEW p \in Paths \ lostSamples'
      PROVE  /\ p \in PathsOf(configured') => p \in PathsOf(tree')
             /\ p \in PathsOf(tree') /\ NoneOf(outbox', PathEvents(p)) => PathKnown(p)'
  <2>1. p \in Paths \ lostSamples
      OBVIOUS
  <2>2. NoneOf(outbox', PathEvents(p)) => NoneOf(outbox, PathEvents(p))
    <3>1. outbox = << >> => Len(outbox) = 0
        OBVIOUS
    <3> QED
        BY <3>1 DEF NoneOf
  <2>3. PathKnown(p) => PathKnown(p)'
      BY PathKept
  <2> QED
      BY <2>1, <2>2, <2>3 DEF SamplesKnown
<1> QED
    BY <1>1 DEF SamplesKnown, PathEvents, PathsOf

LEMMA SamplesStep ==
    ASSUME TypeOK, Connected, OutboxTrue, SamplesKnown, [Next]_vars
    PROVE  SamplesKnown'
<1>0. ch \in Seq(Event) /\ outbox \in Seq(Event) /\ Len(ch) \in Nat
    BY DEF TypeOK, Event
<1>1. CASE Store
  <2>1. PICK p \in Paths, v \in Values :
           /\ store' = [store EXCEPT ![p] = Append(@, v)]
           /\ outbox' = <<SampleEvent(p, v)>>
      BY <1>1 DEF Store
  <2>2. outbox = << >> /\ Len(outbox) = 0
        /\ UNCHANGED <<configured, ch, tree, window, lostSamples>>
      BY <1>1 DEF Store, liveVars
  <2>3. ASSUME NEW q \in Paths \ lostSamples', q \in PathsOf(tree),
               NoneOf(outbox', PathEvents(q))
        PROVE  PathKnown(q)'
    <3>1. q # p
      <4>1. Len(outbox') = 1 /\ outbox'[1] = SampleEvent(p, v)
          BY <2>1
      <4>2. SampleEvent(p, v) \in PathEvents(p)
          BY EventFacts DEF PathEvents
      <4> QED
          BY <2>3, <4>1, <4>2 DEF NoneOf
    <3>2. store'[q] = store[q]
        BY <2>1, <3>1 DEF TypeOK
    <3>3. PathKnown(q)
        BY <2>2, <2>3 DEF SamplesKnown, NoneOf
    <3> QED
        BY <2>2, <3>2, <3>3, PathKept
  <2>4. \A q \in Paths \ lostSamples' :
           q \in PathsOf(tree) /\ NoneOf(outbox', PathEvents(q)) => PathKnown(q)'
      BY <2>3
  <2> QED
      BY <2>2, <2>4 DEF SamplesKnown, PathEvents
<1>2. CASE PublishEvent
  <2> DEFINE ev == Head(outbox)
  <2>1. UNCHANGED <<configured, store, tree, window>>
      BY <1>2 DEF PublishEvent, liveVars
  <2>2. /\ ev \in Event /\ Publish(ev) /\ Len(outbox) \in Nat /\ Len(outbox') = Len(outbox) - 1
        /\ 1 \in 1 .. Len(outbox) /\ ev = outbox[1]
        /\ \A i \in 1 .. Len(outbox') : outbox'[i] = outbox[i + 1]
      BY <1>2, PublishEventFacts
  <2> HIDE DEF ev
  <2>3. \/ ch' = Append(ch, ev) /\ lostSamples' = lostSamples
        \/ ch' = ch /\ ev \in AlertEvents /\ lostSamples' = lostSamples
        \/ ch' = ch /\ ev \in SampleEvents /\ lostSamples' = lostSamples \cup {ev.rule.path}
      BY <2>2, PublishFacts
  <2>4. ev \in SampleEvents => /\ store[ev.rule.path] # << >>
                               /\ ev.value = Last(store[ev.rule.path])
      BY <2>2 DEF OutboxTrue
  <2>5. ASSUME NEW p \in Paths \ lostSamples', p \in PathsOf(tree),
               NoneOf(outbox', PathEvents(p))
        PROVE  PathKnown(p)'
    <3>0. p \in Paths \ lostSamples /\ (ch' = Append(ch, ev) \/ (ch' = ch /\ ev \notin PathEvents(p)))
        BY <2>3, EventFacts DEF PathEvents
    <3>1. CASE ev \in PathEvents(p)
      <4>1. ev \in SampleEvents /\ ev.rule.path = p
          BY <3>1 DEF PathEvents
      <4>2. LastOne(ch', PathEvents(p), ev)
          BY <1>0, <2>2, <3>0, <3>1, QueueAppend
      <4>3. \E e \in PathEvents(p) : /\ LastOne(ch', PathEvents(p), e)
                                     /\ store'[p] # << >> /\ e.value = Last(store'[p])
          BY <2>1, <2>4, <3>1, <4>1, <4>2
      <4> QED
          BY <4>3 DEF PathKnown, PathEvents, LastOne
    <3>2. CASE ev \notin PathEvents(p)
      <4>1. NoneOf(outbox, PathEvents(p))
        <5>1. ASSUME NEW i \in 1 .. Len(outbox) PROVE outbox[i] \notin PathEvents(p)
          <6>1. CASE i = 1
              BY <2>2, <3>2, <6>1
          <6>2. CASE i # 1
            <7>1. i - 1 \in 1 .. Len(outbox') /\ (i - 1) + 1 = i
                BY <2>2, <6>2
            <7>2. outbox'[i - 1] = outbox[i]
                BY <2>2, <7>1
            <7> QED
                BY <2>5, <7>1, <7>2 DEF NoneOf
          <6> QED
              BY <6>1, <6>2
        <5> QED
            BY <5>1 DEF NoneOf
      <4>2. PathKnown(p)
          BY <2>5, <3>0, <4>1 DEF SamplesKnown
      <4>3. CASE ch' = ch
          BY <2>1, <4>2, <4>3, PathKept
      <4>4. CASE ch' = Append(ch, ev)
        <5>1. /\ NoneOf(ch, PathEvents(p)) => NoneOf(ch', PathEvents(p))
              /\ \A e : LastOne(ch, PathEvents(p), e) => LastOne(ch', PathEvents(p), e)
            BY <1>0, <2>2, <3>2, <4>4, QueueAppend
        <5>2. \/ NoneOf(ch', PathEvents(p)) /\ Agree(window'[p], store'[p])
              \/ \E e \in PathEvents(p) :
                    LastOne(ch', PathEvents(p), e) /\ store'[p] # << >> /\ e.value = Last(store'[p])
            BY <2>1, <4>2, <5>1 DEF PathKnown
        <5> QED
            BY <5>2 DEF PathKnown, PathEvents, LastOne, NoneOf
      <4> QED
          BY <3>0, <4>3, <4>4
    <3> QED
        BY <3>1, <3>2
  <2>6. \A p \in Paths \ lostSamples' :
           /\ p \in PathsOf(configured') => p \in PathsOf(tree')
           /\ p \in PathsOf(tree') /\ NoneOf(outbox', PathEvents(p)) => PathKnown(p)'
      BY <2>1, <2>3, <2>5 DEF SamplesKnown
  <2> QED
      BY <2>6 DEF SamplesKnown, PathEvents, PathsOf
<1>3. CASE Evaluate \/ CheckAbsent
    BY <1>3, FlipKeys, SamplesKept DEF liveVars
<1>4. CASE Stop \/ Start
  <2>1. lostSamples' = Paths
      BY <1>4 DEF Stop, Start, Connected
  <2> QED
      BY <2>1 DEF SamplesKnown
<1>5. CASE LoadRules
  <2>1. UNCHANGED <<configured, store, ch, outbox, window, lostSamples>>
      BY <1>5 DEF LoadRules, sorVars
  <2>2. PathsOf(tree') \subseteq PathsOf(configured) /\ PathsOf(configured) \subseteq PathsOf(tree')
    <3>1. \A s \in RuleStatus : s.rule \in configured
        BY DEF RuleStatus
    <3>2. \A r \in configured : \E s \in RuleStatus : s.rule = r
      <4> TAKE r \in configured
      <4> DEFINE s == [rule |-> r, firing |-> r \in firing]
      <4>1. s \in RuleStatus /\ s.rule = r
          BY DEF RuleStatus
      <4> QED
          BY <4>1
    <3> QED
        BY <1>5, <3>1, <3>2 DEF LoadRules, PathsOf
  <2>3. ASSUME NEW p \in Paths \ lostSamples', p \in PathsOf(tree'),
               NoneOf(outbox', PathEvents(p))
        PROVE  PathKnown(p)'
    <3>1. p \in PathsOf(tree)
        BY <2>1, <2>2, <2>3 DEF SamplesKnown
    <3>2. PathKnown(p)
        BY <2>1, <2>3, <3>1 DEF SamplesKnown
    <3> QED
        BY <2>1, <3>2, PathKept
  <2>4. \A p \in Paths \ lostSamples' :
           /\ p \in PathsOf(configured') => p \in PathsOf(tree')
           /\ p \in PathsOf(tree') /\ NoneOf(outbox', PathEvents(p)) => PathKnown(p)'
      BY <2>1, <2>2, <2>3
  <2> QED
      BY <2>4 DEF SamplesKnown, PathEvents, PathsOf
<1>6. CASE Cat \/ CatFails
  <2>1. PICK p \in cats : \/ /\ window' = [window EXCEPT ![p] = LastOf(History, store[p])]
                             /\ lostSamples' = lostSamples \ {p}
                          \/ /\ window' = [window EXCEPT ![p] = << >>]
                             /\ lostSamples' = lostSamples \cup {p}
      BY <1>6 DEF Cat, CatFails
  <2>2. UNCHANGED <<configured, store, outbox, ch, tree>>
      BY <1>6 DEF Cat, CatFails, sorVars
  <2>3. ch' = << >> /\ p \in PathsOf(tree) /\ p \in Paths
      BY <1>6, <2>2 DEF Cat, CatFails, Connected, TypeOK
  <2>4. ASSUME NEW q \in Paths \ lostSamples', q # p
        PROVE  q \in Paths \ lostSamples /\ (PathKnown(q) => PathKnown(q)')
    <3>1. window'[q] = window[q] /\ q \in Paths \ lostSamples
        BY <2>1, <2>4 DEF TypeOK
    <3> QED
        BY <2>2, <3>1, PathKept
  <2>5. ASSUME p \notin lostSamples' PROVE PathKnown(p)'
    <3>1. store[p] \in Seq(Values)
        BY <2>3 DEF TypeOK
    <3>2. window'[p] = LastOf(History, store[p])
        BY <2>1, <2>3, <2>5 DEF TypeOK
    <3>3. Agree(window'[p], store'[p])
        BY <2>2, <3>1, <3>2, LastOfFacts
    <3> QED
        BY <2>3, <3>3, PathBufferless
  <2>6. \A q \in Paths \ lostSamples' :
           /\ q \in PathsOf(configured') => q \in PathsOf(tree')
           /\ q \in PathsOf(tree') /\ NoneOf(outbox', PathEvents(q)) => PathKnown(q)'
    <3> TAKE q \in Paths \ lostSamples'
    <3>1. CASE q = p
        BY <2>2, <2>3, <2>5, <3>1
    <3>2. CASE q # p
        BY <2>2, <2>4, <3>2 DEF SamplesKnown
    <3> QED
        BY <3>1, <3>2
  <2> QED
      BY <2>6 DEF SamplesKnown, PathEvents, PathsOf
<1>7. CASE LoadFails \/ Loaded \/ Reload
  <2>1. UNCHANGED <<sorVars, ch, tree, window, lostSamples>>
      BY <1>7 DEF LoadFails, Loaded, Reload
  <2> QED
      BY <2>1, SamplesKept DEF sorVars
<1>8. CASE OpenWatch
  <2>1. UNCHANGED <<sorVars, ch, tree, window, lostSamples>>
      BY <1>8 DEF OpenWatch, Connected
  <2> QED
      BY <2>1, SamplesKept DEF sorVars
<1>9. CASE Handle
  <2> DEFINE ev == Head(ch)
             p == ev.rule.path
  <2>1. /\ UNCHANGED <<sorVars, tree, lostSamples>>
        /\ ch # << >> /\ ev \in Event /\ ch' = Tail(ch) /\ p \in Paths
        /\ p \notin PathsOf(tree) => UNCHANGED window
        /\ p \in PathsOf(tree) =>
              /\ ev \in AlertEvents => UNCHANGED window
              /\ ev \in SampleEvents =>
                    window' = [window EXCEPT ![p] = LastOf(History, Append(@, ev.value))]
    <3>1. UNCHANGED <<sorVars, tree, lostSamples>>
        BY <1>9 DEF Handle
    <3>2. /\ ch # << >> /\ ev \in Event /\ ch' = Tail(ch) /\ p \in Paths
          /\ p \notin PathsOf(tree) => UNCHANGED window
        BY <1>9, HandleFacts
    <3>3. p \in PathsOf(tree) =>
              /\ ev \in AlertEvents => UNCHANGED window
              /\ ev \in SampleEvents =>
                    window' = [window EXCEPT ![p] = LastOf(History, Append(@, ev.value))]
        BY <1>9, HandleFacts
    <3> QED
        BY <3>1, <3>2, <3>3
  <2> HIDE DEF ev
  <2>2. ASSUME NEW q \in Paths \ lostSamples', q \in PathsOf(tree),
               NoneOf(outbox', PathEvents(q))
        PROVE  PathKnown(q)'
    <3>0. PathKnown(q) /\ store' = store
        BY <2>1, <2>2 DEF SamplesKnown, sorVars
    <3>1. /\ NoneOf(ch, PathEvents(q)) => ev \notin PathEvents(q) /\ NoneOf(ch', PathEvents(q))
          /\ \A e : LastOne(ch, PathEvents(q), e) =>
                \/ LastOne(ch', PathEvents(q), e)
                \/ e = ev /\ ev \in PathEvents(q) /\ NoneOf(ch', PathEvents(q))
        BY <1>0, <2>1, QueueTail DEF ev
    <3>2. ev \notin PathEvents(q) => window'[q] = window[q]
      <4>1. ev \in SampleEvents /\ ev \notin PathEvents(q) => p # q
          BY DEF PathEvents
      <4>2. window \in [Paths -> Seq(Values)]
          BY DEF TypeOK
      <4> QED
          BY <2>1, <2>2, <4>1, <4>2 DEF Event
    <3>3. ev \in PathEvents(q) =>
             window'[q] # << >> /\ Last(window'[q]) = ev.value
      <4> SUFFICES ASSUME ev \in PathEvents(q)
                   PROVE  window'[q] # << >> /\ Last(window'[q]) = ev.value
          OBVIOUS
      <4>1. ev \in SampleEvents /\ p = q /\ ev.value \in Values
          BY EventFacts DEF PathEvents
      <4>2. window[q] \in Seq(Values) /\ window \in [Paths -> Seq(Values)]
          BY DEF TypeOK
      <4>3. window'[q] = LastOf(History, Append(window[q], ev.value))
          BY <2>1, <2>2, <4>1, <4>2
      <4>4. Append(window[q], ev.value) \in Seq(Values)
          BY <4>1, <4>2
      <4>5. Append(window[q], ev.value) # << >> /\ Last(Append(window[q], ev.value)) = ev.value
        <5>1. PICK n \in Nat : n = Len(window[q])
            BY <4>2
        <5>2. /\ Len(Append(window[q], ev.value)) = n + 1
              /\ Append(window[q], ev.value)[n + 1] = ev.value
            BY <4>1, <4>2, <5>1
        <5> QED
            BY <4>1, <4>2, <5>1, <5>2 DEF Last
      <4>6. Agree(window'[q], Append(window[q], ev.value))
          BY <4>3, <4>4, LastOfFacts
      <4> QED
          BY <4>5, <4>6 DEF Agree
    <3>4. \/ NoneOf(ch', PathEvents(q)) /\ Agree(window'[q], store'[q])
          \/ \E e \in PathEvents(q) :
                LastOne(ch', PathEvents(q), e) /\ store'[q] # << >> /\ e.value = Last(store'[q])
      <4>1. CASE NoneOf(ch, PathEvents(q)) /\ Agree(window[q], store[q])
          BY <3>0, <3>1, <3>2, <4>1
      <4>2. CASE \E e \in PathEvents(q) :
                   LastOne(ch, PathEvents(q), e) /\ store[q] # << >> /\ e.value = Last(store[q])
          BY <3>0, <3>1, <3>3, <4>2 DEF Agree
      <4> QED
          BY <3>0, <4>1, <4>2 DEF PathKnown
    <3> QED
        BY <3>4 DEF PathKnown, PathEvents, LastOne, NoneOf
  <2>3. \A q \in Paths \ lostSamples' :
           /\ q \in PathsOf(configured') => q \in PathsOf(tree')
           /\ q \in PathsOf(tree') /\ NoneOf(outbox', PathEvents(q)) => PathKnown(q)'
      BY <2>1, <2>2 DEF SamplesKnown, sorVars
  <2> QED
      BY <2>3 DEF SamplesKnown, PathEvents, PathsOf
<1>10. CASE WatchDrops
  <2>1. /\ UNCHANGED <<sorVars, tree, window>> /\ ch' = << >>
        /\ lostSamples' = lostSamples \cup
                             {ch[i].rule.path : i \in {i \in DOMAIN ch : ~ IsAlert(ch[i])}}
      BY <1>10 DEF WatchDrops
  <2>2. ASSUME NEW p \in Paths \ lostSamples', p \in PathsOf(tree),
               NoneOf(outbox', PathEvents(p))
        PROVE  PathKnown(p)'
    <3>1. p \in Paths \ lostSamples /\ \A i \in 1 .. Len(ch) : ch[i] \notin PathEvents(p)
      <4>1. DOMAIN ch = 1 .. Len(ch)
          BY <1>0
      <4> QED
          BY <2>1, <4>1, EventFacts DEF PathEvents
    <3>2. PathKnown(p)
        BY <2>1, <2>2, <3>1 DEF SamplesKnown, sorVars
    <3>3. Agree(window[p], store[p])
        BY <3>1, <3>2 DEF PathKnown, LastOne
    <3> QED
        BY <2>1, <3>3, PathBufferless DEF sorVars
  <2>3. \A p \in Paths \ lostSamples' :
           /\ p \in PathsOf(configured') => p \in PathsOf(tree')
           /\ p \in PathsOf(tree') /\ NoneOf(outbox', PathEvents(p)) => PathKnown(p)'
      BY <2>1, <2>2 DEF SamplesKnown, sorVars
  <2> QED
      BY <2>3 DEF SamplesKnown, PathEvents, PathsOf
<1>11. CASE Browser
  <2>1. UNCHANGED <<sorVars, ch, liveVars, lostSamples>>
      BY <1>11 DEF Browser, OpenPage, ConnectEvents, DropEvents
  <2> QED
      BY <2>1, SamplesKept DEF sorVars, liveVars
<1>12. CASE UNCHANGED vars
    BY <1>12, SamplesKept DEF vars, sorVars, liveVars
<1> QED
    BY <1>1, <1>2, <1>3, <1>4, <1>5, <1>6, <1>7, <1>8, <1>9, <1>10, <1>11, <1>12
       DEF Next, Sor, Live

-----------------------------------------------------------------------------
\* Once nothing is on its way, the dashboard shows every metric in the colour that follows
\* from the system of record's own state, but for the losses the model names: an alert or
\* sample between load and watch, at a full buffer or in a watch that dropped, and a sample
\* load could not read.  Live.load, Live.handle, Live.status; Feed.publish.
THEOREM PictureAgrees == Spec => []SeverityAgrees
<1> DEFINE Inv == TypeOK /\ Connected /\ OutboxTrue /\ AlertsKnown /\ SamplesKnown
<1>1. Init => Inv
  <2> SUFFICES ASSUME Init PROVE OutboxTrue /\ AlertsKnown /\ SamplesKnown
      BY TypeInit
  <2>1. Len(outbox) = 0 /\ lostAlerts /\ lostSamples = Paths
      BY DEF Init
  <2> QED
      BY <2>1 DEF OutboxTrue, AlertsKnown, SamplesKnown
<1>2. Inv /\ [Next]_vars => Inv'
    BY TypeStep, OutboxStep, AlertsStep, SamplesStep
<1>3. Inv => SeverityAgrees
  <2> SUFFICES ASSUME Inv, Quiet, ~ lostAlerts, NEW p \in PathsOf(configured) \ lostSamples
               PROVE  status(p) = SorStatus(p)
      BY DEF SeverityAgrees
  <2>1. Len(ch) = 0 /\ Len(outbox) = 0
      BY DEF Quiet
  <2>2. \A k \in Keys : k \in firingRules <=> FiringKey(k)
      BY <2>1 DEF AlertsKnown, NoneOf, KeyKnown, LastOne
  <2>3. firingPathsOf(firingRules) = PathsOf(firing)
    <3>1. ASSUME NEW q, q \in firingPathsOf(firingRules) PROVE q \in PathsOf(firing)
      <4>1. PICK k \in firingRules : k[1] = q
          BY <3>1 DEF firingPathsOf
      <4>2. PICK r \in firing : ruleKey(r) = k
          BY <2>2 DEF TypeOK, FiringKey
      <4>3. ruleKey(r)[1] = r.path
          BY DEF ruleKey
      <4> QED
          BY <4>1, <4>2, <4>3 DEF PathsOf
    <3>2. ASSUME NEW q, q \in PathsOf(firing) PROVE q \in firingPathsOf(firingRules)
      <4>1. PICK r \in firing : r.path = q
          BY <3>2 DEF PathsOf
      <4>2. ruleKey(r) \in Keys /\ FiringKey(ruleKey(r))
          BY DEF TypeOK, Keys, FiringKey
      <4>3. ruleKey(r)[1] = q
          BY <4>1 DEF ruleKey
      <4> QED
          BY <2>2, <4>2, <4>3 DEF firingPathsOf
    <3> QED
        BY <3>1, <3>2
  <2>4. tree = configured
      BY DEF AlertsKnown
  <2>5. Agree(window[p], store[p])
    <3>1. p \in Paths \ lostSamples
        BY DEF TypeOK, Paths, PathsOf
    <3> QED
        BY <2>1, <2>4, <3>1 DEF SamplesKnown, NoneOf, PathKnown, LastOne
  <2> QED
      BY <2>3, <2>4, <2>5 DEF status, StatusWith, SorStatus, kpiStatus, Agree
<1> QED
    BY <1>1, <1>2, <1>3, PTL DEF Spec

=============================================================================
