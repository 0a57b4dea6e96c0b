------------------------------ MODULE Alerting ------------------------------
(***************************************************************************)
(* From a sample to a Slack message: the alerter (internal/usecase/alert.go) *)
(* evaluates its rules under a mutex and delivers what they report after    *)
(* releasing it, first to Slack (internal/adapter/slack) and then to the    *)
(* live feed.  Handlers are the receiver's concurrent requests, Checker the *)
(* goroutine of the check ticker.  Slack itself is external: a call to it   *)
(* succeeds, fails without effect, or takes effect and still fails for the  *)
(* caller (the HTTP client's timeout, an unreadable answer).                *)
(***************************************************************************)
EXTENDS Monitor, FiniteSets, Sequences, SequencesExt, Functions

CONSTANTS
    Handlers,      \* the goroutines that ingest samples
    Checker,       \* the goroutine of the check ticker
    Rules,         \* the configured rules, in the order of alert.conf
    Values,        \* the values samples can have
    Grace,         \* the absent grace, in clock units
    BotChannels,   \* the channels posted to with a bot token, not a webhook
    MaxLag,        \* how much older than its arrival a sample's time may be
    MaxTime,       \* bound: the last instant of the clock
    MaxSamples,    \* bound: the samples ingested
    MaxFailures    \* bound: the Slack calls that fail

ASSUME AlertingAssumption ==
    /\ Checker \notin Handlers
    /\ Rules \in Seq(Range(Rules))
    /\ Grace \in Nat
    /\ MaxLag \in Nat /\ MaxTime \in Nat \ {0} /\ MaxSamples \in Nat /\ MaxFailures \in Nat

VARIABLES
    monitors,    \* Alerter.ordered: the rules' monitors
    clock,       \* the wall clock
    samples,     \* how many samples were ingested
    pc,          \* where each goroutine is
    pending,     \* each goroutine's notifications still to be delivered
    prev,        \* each goroutine's message: the one posted, or taken from open
    open,        \* slack.Notifier.open: the message of an alert, by rule key
    board,       \* the messages in the Slack channel
    failures,    \* how many Slack calls have failed
    feed,        \* what was published on the live feed
    events,      \* what each rule has reported, in the order the mutex gave it
    raced        \* the rules that reported while one of theirs was being delivered

vars == <<monitors, clock, samples, pc, pending, prev, open, board, failures,
          feed, events, raced>>

Procs == Handlers \cup {Checker}

RuleIndex == DOMAIN Rules

Streams == {Rules[r].stream : r \in RuleIndex}

NoMessage == 0

\* What a webhook's answer says of the message posted: nothing
UnknownMessage == -1

-----------------------------------------------------------------------------
Init ==
    /\ clock = 1
    /\ monitors = [r \in RuleIndex |->
                      Check(NewMonitor(Rules[r], Grace), clock).monitor]
    /\ samples = 0
    /\ pc = [p \in Procs |-> "idle"]
    /\ pending = [p \in Procs |-> << >>]
    /\ prev = [p \in Procs |-> NoMessage]
    /\ open = << >>
    /\ board = << >>
    /\ failures = 0
    /\ feed = << >>
    /\ events = [r \in RuleIndex |-> << >>]
    /\ raced = {}

\* The rules that have something to report
Reporting(result) == {r \in RuleIndex : result[r].event # "none"}

\* They in the order of alert.conf
InOrder(rules) ==
    {order \in [1 .. Cardinality(rules) -> rules] :
        /\ \A r \in rules : \E i \in DOMAIN order : order[i] = r
        /\ \A i, j \in DOMAIN order : i < j => order[i] < order[j]}

\* What rule r reports.  The number tells apart its notifications.
NotificationOf(r, result) ==
    [rule |-> r, event |-> result[r].event, number |-> Len(events[r]) + 1]

\* The part Observe and Check share: the monitors take the results, what they
\* report becomes pending, the mutex is released and send begins
Evaluate(p, result) ==
    /\ monitors' = [r \in RuleIndex |-> result[r].monitor]
    /\ events' = [r \in RuleIndex |-> IF r \in Reporting(result)
                                     THEN Append(events[r], result[r].event)
                                     ELSE events[r]]
    /\ \E order \in InOrder(Reporting(result)) :
         pending' = [pending EXCEPT ![p] =
                        [i \in DOMAIN order |-> NotificationOf(order[i], result)]]
    /\ raced' = raced \cup {r \in Reporting(result) :
                   \E q \in Procs : \E nt \in ToSet(pending[q]) : nt.rule = r}
    /\ pc' = [pc EXCEPT ![p] = IF Reporting(result) = {} THEN "idle" ELSE "notify"]

\* Alerter.Observe, up to the call of send; the sample's time is its sender's
AlerterObserve(p) ==
    /\ pc[p] = "idle"
    /\ samples < MaxSamples
    /\ \E id \in Streams, t \in clock - MaxLag .. clock, v \in Values :
         /\ t >= 1
         /\ Evaluate(p, [r \in RuleIndex |->
                           IF Rules[r].stream = id
                           THEN Observe(monitors[r], t, v)
                           ELSE [monitor |-> monitors[r], event |-> "none"]])
    /\ samples' = samples + 1
    /\ UNCHANGED <<clock, prev, open, board, failures, feed>>

\* Alerter.Check, up to the call of send
AlerterCheck ==
    /\ pc[Checker] = "idle"
    /\ Evaluate(Checker, [r \in RuleIndex |-> Check(monitors[r], clock)])
    /\ UNCHANGED <<clock, samples, prev, open, board, failures, feed>>

-----------------------------------------------------------------------------
(* Delivery: Notifiers.Notify calls Slack, then the feed, for each of the   *)
(* pending notifications in turn.                                          *)

\* Mutant of ruleKey: the stream alone
ruleKeyStream(r) == <<Rules[r].stream>>

\* slack.ruleKey: the duration is not part of it
ruleKey(r) ==
    <<Rules[r].stream, Rules[r].op, Rules[r].threshold, Rules[r].channel>>

HasToken(r) == Rules[r].channel \in BotChannels

\* A Slack call that changes the board to after if it takes effect
SlackOK(after) == board' = after /\ failures' = failures

SlackFails(after) ==
    /\ failures < MaxFailures
    /\ failures' = failures + 1
    /\ board' \in {board, after}

Posted(nt, state) ==
    Append(board, [rule |-> nt.rule, number |-> nt.number, state |-> state])

\* Mutant of AfterRefusal: ends the delivery
AfterRefusalEnd == "idle"

\* Where the delivery goes on when Slack's post has failed: Notifiers.Notify joins
\* the error and calls the next notifier, the feed
AfterRefusal == "publish"

\* Notify of an alert posts a message; the mutex of the notifier is not held
PostAlert(p) ==
    /\ pc[p] = "notify"
    /\ Head(pending[p]).event = "fired"
    /\ \/ /\ SlackOK(Posted(Head(pending[p]), "alert"))
          /\ prev' = [prev EXCEPT ![p] = IF HasToken(Head(pending[p]).rule)
                                         THEN Len(board) + 1
                                         ELSE UnknownMessage]
          /\ pc' = [pc EXCEPT ![p] = "record"]
       \/ /\ SlackFails(Posted(Head(pending[p]), "alert"))
          /\ prev' = prev
          /\ pc' = [pc EXCEPT ![p] = AfterRefusal]
    /\ UNCHANGED <<monitors, clock, samples, pending, open, feed, events, raced>>

\* ... and then remembers it under the rule's key
RecordOpen(p) ==
    /\ pc[p] = "record"
    /\ LET key == ruleKey(Head(pending[p]).rule)
       IN open' = [k \in DOMAIN open \cup {key} |->
                      IF k = key THEN prev[p] ELSE open[k]]
    /\ prev' = [prev EXCEPT ![p] = NoMessage]
    /\ pc' = [pc EXCEPT ![p] = "publish"]
    /\ UNCHANGED <<monitors, clock, samples, pending, board, failures, feed,
                   events, raced>>

\* The message remembered under a key
OpenAt(key) == IF key \in DOMAIN open THEN open[key] ELSE NoMessage

\* Mutant of Take: does not delete what it takes
TakeKeeps(p, key) == prev' = [prev EXCEPT ![p] = OpenAt(key)] /\ open' = open

\* Mutant of Take: waits for the alert's message to be recorded
TakeWaits(p, key) ==
    /\ key \in DOMAIN open
    /\ prev' = [prev EXCEPT ![p] = OpenAt(key)]
    /\ open' = [k \in DOMAIN open \ {key} |-> open[k]]

Take(p, key) ==
    /\ prev' = [prev EXCEPT ![p] = OpenAt(key)]
    /\ open' = [k \in DOMAIN open \ {key} |-> open[k]]

\* Notify of a recovery takes the rule's message out of open
TakeOpen(p) ==
    /\ pc[p] = "notify"
    /\ Head(pending[p]).event = "resolved"
    /\ Take(p, ruleKey(Head(pending[p]).rule))
    /\ pc' = [pc EXCEPT ![p] = "resolve"]
    /\ UNCHANGED <<monitors, clock, samples, pending, board, failures, feed,
                   events, raced>>

\* ... and edits it, or posts a new one when there is none that can be edited
PostResolved(p) ==
    /\ pc[p] = "resolve"
    /\ LET after == IF prev[p] > 0
                    THEN [board EXCEPT ![prev[p]].state = "resolved"]
                    ELSE Posted(Head(pending[p]), "resolved")
       IN SlackOK(after) \/ SlackFails(after)
    /\ prev' = [prev EXCEPT ![p] = NoMessage]
    /\ pc' = [pc EXCEPT ![p] = "publish"]
    /\ UNCHANGED <<monitors, clock, samples, pending, open, feed, events, raced>>

\* Notifiers.Notify goes on to the feed whatever Slack answered, and send to the
\* next notification
PublishFeed(p) ==
    /\ pc[p] = "publish"
    /\ feed' = Append(feed, Head(pending[p]))
    /\ pending' = [pending EXCEPT ![p] = Tail(@)]
    /\ pc' = [pc EXCEPT ![p] = IF Tail(pending[p]) = << >> THEN "idle" ELSE "notify"]
    /\ UNCHANGED <<monitors, clock, samples, prev, open, board, failures,
                   events, raced>>

Tick ==
    /\ clock < MaxTime
    /\ clock' = clock + 1
    /\ UNCHANGED <<monitors, samples, pc, pending, prev, open, board, failures,
                   feed, events, raced>>

Deliver(p) ==
    PostAlert(p) \/ RecordOpen(p) \/ TakeOpen(p) \/ PostResolved(p) \/ PublishFeed(p)

Next ==
    \/ \E p \in Handlers : AlerterObserve(p)
    \/ AlerterCheck
    \/ \E p \in Procs : Deliver(p)
    \/ Tick

Spec == Init /\ [][Next]_vars

\* A Slack call comes back: the HTTP client gives up after five seconds
FairSpec == Spec /\ \A p \in Procs : WF_vars(Deliver(p))

-----------------------------------------------------------------------------
(* Properties.                                                             *)

Notification ==
    [rule : RuleIndex, event : {"fired", "resolved"}, number : Nat]

Message == [rule : RuleIndex, number : Nat, state : {"alert", "resolved"}]

MonitorRecord ==
    [rule : Range(Rules), grace : {Grace}, since : Int, lastSeen : Int, fired : BOOLEAN]

TypeOK ==
    /\ monitors \in [RuleIndex -> MonitorRecord]
    /\ \A r \in RuleIndex : monitors[r].rule = Rules[r]
    /\ clock \in 1 .. MaxTime
    /\ samples \in 0 .. MaxSamples
    /\ pc \in [Procs -> {"idle", "notify", "record", "resolve", "publish"}]
    /\ pending \in [Procs -> Seq(Notification)]
    /\ prev \in [Procs -> {NoMessage, UnknownMessage} \cup 1 .. Len(board)]
    /\ \A k \in DOMAIN open : open[k] \in {UnknownMessage} \cup 1 .. Len(board)
    /\ board \in Seq(Message)
    /\ failures \in 0 .. MaxFailures
    /\ feed \in Seq(Notification)
    /\ events \in [RuleIndex -> Seq({"fired", "resolved"})]
    /\ raced \subseteq RuleIndex

\* A rule's events alternate, beginning with fired, and the last one says what
\* Status reports: a rule fires once per episode and resolves once, whichever
\* goroutines evaluate it (Monitor, "fires once per breach episode").
EventsAlternate ==
    \A r \in RuleIndex :
        /\ \A i \in 1 .. Len(events[r]) :
              events[r][i] = IF i % 2 = 1 THEN "fired" ELSE "resolved"
        /\ monitors[r].fired <=> Len(events[r]) % 2 = 1

\* Nobody delivers
Quiet == \A p \in Procs : pc[p] = "idle"

\* What rule r has reported, as notifications
Reported(r) ==
    {[rule |-> r, event |-> events[r][n], number |-> n] : n \in 1 .. Len(events[r])}

\* The state is well-typed, and every notification is either still with the goroutine
\* that delivers it or has been on the feed, once: also those that Slack refused.
\* The feed carries a rule's notifications in the order in which it reported them,
\* unless it reported again while its last one was still being delivered (send;
\* Notifiers, "delivers each notification to every notifier in turn").
NothingLost ==
    /\ TypeOK
    /\ UNION {Reported(r) : r \in RuleIndex} =
          ToSet(feed) \cup UNION {ToSet(pending[p]) : p \in Procs}
    /\ IsInjective(feed)
    /\ \A p \in Procs :
          /\ IsInjective(pending[p])
          /\ ToSet(feed) \cap ToSet(pending[p]) = {}
          /\ \A q \in Procs \ {p} : ToSet(pending[q]) \cap ToSet(pending[p]) = {}
    /\ \A i, j \in 1 .. Len(feed) :
          i < j /\ feed[i].rule = feed[j].rule /\ feed[i].rule \notin raced =>
              feed[i].number < feed[j].number
    /\ \A i \in 1 .. Len(feed), p \in Procs : \A nt \in ToSet(pending[p]) :
          nt.rule = feed[i].rule /\ nt.rule \notin raced => feed[i].number < nt.number

\* A message that may still be edited shows an alert and is known in one place
\* only: it is never edited twice, nor after it reads RESOLVED (Notify deletes
\* the entry before it edits).
EditedOnce ==
    LET holders(msg) == {k \in DOMAIN open : open[k] = msg} \cup
                        {p \in Procs : prev[p] = msg}
    IN \A msg \in DOMAIN board :
          /\ \A x, y \in holders(msg) : x = y
          /\ holders(msg) # {} => board[msg].state = "alert"

AlertsShown(r) ==
    {msg \in DOMAIN board : board[msg].rule = r /\ board[msg].state = "alert"}

\* The channel shows one alert of the rule when it is firing, otherwise none
ShownRight(r) ==
    /\ monitors[r].fired <=> AlertsShown(r) # {}
    /\ \A x, y \in AlertsShown(r) : x = y

\* No other rule differs from r in its duration only
OfItsOwn(r) ==
    \A q \in RuleIndex \ {r} :
        \/ Rules[q].stream # Rules[r].stream
        \/ Rules[q].op # Rules[r].op
        \/ Rules[q].threshold # Rules[r].threshold
        \/ Rules[q].channel # Rules[r].channel

\* Once nobody delivers and as long as Slack has not failed, the channel shows the
\* alert of every rule that is firing and of no other, in a message of its own
\* that was edited when the rule recovered: whatever the deliveries of other
\* rules did meanwhile, unless the rule itself reported again while its last
\* notification was still being delivered, or shares its key (Notify; ruleKey).
BoardAgrees ==
    Quiet /\ failures = 0 =>
        \A r \in RuleIndex \ raced : HasToken(r) /\ OfItsOwn(r) => ShownRight(r)

\* ... without that exception (README, Alerting: "that same message is edited to
\* read RESOLVED").  It does not hold: a recovery can overtake its alert.
AlertsEdited ==
    Quiet /\ failures = 0 => \A r \in RuleIndex : HasToken(r) => ShownRight(r)

\* Delivery ends: neither a handler nor the check ticker stays in send, whatever
\* Slack does, so ingestion and checking go on (send).
SendReturns == \A p \in Procs : (pc[p] # "idle") ~> (pc[p] = "idle")

=============================================================================
