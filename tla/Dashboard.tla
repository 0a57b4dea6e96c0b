----------------------------- MODULE Dashboard ------------------------------
(***************************************************************************)
(* The web dashboard's picture of the system of record (webui/src/live.ts)  *)
(* and of that picture in a browser's page (webui/public/app.js).  Live     *)
(* loads the rules and a window of samples per metric with single calls,    *)
(* and only then opens the watch that brings what changes.                  *)
(*                                                                         *)
(* The system of record is reduced to what those calls see: one goroutine   *)
(* that stores a sample, publishes it, evaluates the rules and publishes    *)
(* what they report (tee.Ingest).  An evaluation flips any of the rules: when *)
(* they really do is the matter of RuleMonitor, several goroutines that of  *)
(* Alerting.                                                                *)
(***************************************************************************)
EXTENDS Monitor, FiniteSets, Sequences, SequencesExt, Functions

CONSTANTS
    Rules,         \* the rules an alert.conf may hold
    Values,        \* the values samples can have
    Buffer,        \* the capacity of a subscriber's channel
    History,       \* how many samples Live keeps for a metric
    MaxSamples,    \* bound: the samples ingested
    MaxFlips,      \* bound: the rules that fire or resolve
    MaxFaults      \* bound: the calls that fail, the watches that drop, restarts

ASSUME DashboardAssumption ==
    /\ Rules # {} /\ IsFiniteSet(Rules)
    /\ Buffer \in Nat \ {0}
    /\ History \in Nat \ {0}
    /\ MaxSamples \in Nat /\ MaxFlips \in Nat /\ MaxFaults \in Nat

VARIABLES
    up,            \* the system of record answers
    configured,    \* the rules of its alert.conf
    firing,        \* the rules that are firing
    store,         \* the values stored, by path
    evaluating,    \* the path whose sample is not shown to the alerter yet, if any
    outbox,        \* the events the ingesting goroutine has still to publish
    subscribed,    \* the dashboard's watch is one of the feed's subscribers
    ch,            \* what is buffered for it
    pc,            \* where the dashboard is
    tree,          \* Live.tree and Live.kpis: the rules as loaded
    firingRules,   \* Live.firingRules: the keys of the rules that are firing
    window,        \* Live.window: recent values, by path
    cats,          \* the paths whose samples load is waiting for
    lastError,     \* Live.lastError is set
    page,          \* the severities a browser's page shows, by path
    sse,           \* the page is among Live.listeners
    samples, flips, faults,   \* how many there were
    unseen,        \* the paths whose change the page was not told of
    lostAlerts,    \* no rules were loaded, or an alert since did not get through
    lostSamples    \* the paths of which no samples were, or one since did not

sorVars == <<up, configured, firing, store, evaluating, outbox, samples, flips>>

liveVars == <<pc, tree, firingRules, window, cats, lastError>>

pageVars == <<page, sse, unseen>>

vars == <<sorVars, subscribed, ch, liveVars, pageVars, faults, lostAlerts, lostSamples>>

PathsOf(rules) == {r.path : r \in rules}

Paths == PathsOf(Rules)

-----------------------------------------------------------------------------
(* What both sides compute.                                                *)

\* live.ts ruleKey: neither the duration nor the channel is part of it.  Rules with
\* the same key have the same condition and resolve with the same sample.
ruleKey(r) == <<r.path, r.op, r.threshold>>

\* kpiStatus: red when a rule on the path is firing, else by the latest value;
\* an absent rule never holds on a value
kpiStatus(rules, path, values, firingPaths) ==
    IF path \in firingPaths THEN "red"
    ELSE IF values = << >> THEN "unknown"
    ELSE IF \E r \in rules : r.path = path /\ Holds(r.op, Last(values), r.threshold)
    THEN "amber" ELSE "green"

\* Live.firingPaths
firingPathsOf(keys) == {key[1] : key \in keys}

\* Live.status, of the firing rules and the window given
StatusWith(path, keys, win) ==
    IF path \in PathsOf(tree)
    THEN kpiStatus(tree, path, win[path], firingPathsOf(keys))
    ELSE "unknown"

status(path) == StatusWith(path, firingRules, window)

\* The last n elements, slice(-n)
LastOf(n, s) == SubSeq(s, 1 + (IF Len(s) > n THEN Len(s) - n ELSE 0), Len(s))

-----------------------------------------------------------------------------
Init ==
    /\ up \in BOOLEAN
    /\ configured = Rules
    /\ firing = {}
    /\ store = [p \in Paths |-> << >>]
    /\ evaluating = {}
    /\ outbox = << >>
    /\ subscribed = FALSE
    /\ ch = << >>
    /\ pc = "load"
    /\ tree = {}
    /\ firingRules = {}
    /\ window = [p \in Paths |-> << >>]
    /\ cats = {}
    /\ lastError = FALSE
    /\ page = << >>
    /\ sse = FALSE
    /\ samples = 0 /\ flips = 0 /\ faults = 0
    /\ unseen = {}
    /\ lostAlerts = TRUE
    /\ lostSamples = Paths

-----------------------------------------------------------------------------
(* The system of record.                                                   *)

\* What a watch is sent of a sample, and of a rule that flips
SampleEvent(path, value) == [rule |-> [path |-> path], value |-> value, alert |-> "none"]

AlertEvent(r) ==
    [rule |-> r, value |-> 0, alert |-> IF r \in firing THEN "resolved" ELSE "fired"]

IsAlert(ev) == ev.alert # "none"

\* Feed.publish to the dashboard's watch, when there is one and it has room
Publish(ev) ==
    LET through == subscribed /\ Len(ch) < Buffer
    IN /\ ch' = IF through THEN Append(ch, ev) ELSE ch
       /\ lostAlerts' = (lostAlerts \/ (~ through /\ IsAlert(ev)))
       /\ lostSamples' = IF through \/ IsAlert(ev) THEN lostSamples
                         ELSE lostSamples \cup {ev.rule.path}

\* tee.Ingest, first: the sample is stored
Store ==
    /\ up /\ evaluating = {} /\ outbox = << >> /\ samples < MaxSamples
    /\ samples' = samples + 1
    /\ \E p \in Paths, v \in Values :
         /\ store' = [store EXCEPT ![p] = Append(@, v)]
         /\ outbox' = <<SampleEvent(p, v)>>
         /\ evaluating' = {p}
    /\ UNCHANGED <<up, configured, firing, flips, subscribed, ch, liveVars, pageVars,
                   faults, lostAlerts, lostSamples>>

\* Feed.Ingest of the sample, Feed.Notify of what the rules report
PublishEvent ==
    /\ outbox # << >>
    /\ Publish(Head(outbox))
    /\ outbox' = Tail(outbox)
    /\ UNCHANGED <<up, configured, firing, store, evaluating, samples, flips, subscribed,
                   liveVars, pageVars, faults>>

\* The rules of a set in any order, as alert.conf may have them
Orders(rules) ==
    {order \in [1 .. Cardinality(rules) -> rules] :
        \A r \in rules : \E i \in DOMAIN order : order[i] = r}

\* The rules of a set flip; their notifications are to be published
Flip(rules) ==
    /\ Cardinality(rules) + flips <= MaxFlips
    /\ flips' = flips + Cardinality(rules)
    /\ firing' = (firing \ rules) \cup (rules \ firing)
    /\ \E order \in Orders(rules) :
         outbox' = [i \in DOMAIN order |-> AlertEvent(order[i])]

\* What can flip with one sample: absent rules that are firing resolve, and rules that
\* differ in their duration only resolve together
FlipTogether(rules, flipping) ==
    /\ \A r \in rules : r.op = "absent" => (r \in flipping <=> r \in firing)
    /\ \A r, q \in rules : ruleKey(r) = ruleKey(q) /\ r \in flipping \cap firing =>
                                (q \in flipping <=> q \in firing)

\* ... then shown to the alerter
Evaluate ==
    /\ outbox = << >>
    /\ \E p \in evaluating :
         LET onPath == {r \in configured : r.path = p}
         IN \E flipping \in SUBSET onPath :
               FlipTogether(onPath, flipping) /\ Flip(flipping)
    /\ evaluating' = {}
    /\ UNCHANGED <<up, configured, store, samples, subscribed, ch, liveVars, pageVars,
                   faults, lostAlerts, lostSamples>>

\* The check ticker finds an absent rule's stream silent
CheckAbsent ==
    /\ up /\ evaluating = {} /\ outbox = << >>
    /\ \E r \in configured \ firing : r.op = "absent" /\ Flip({r})
    /\ UNCHANGED <<up, configured, store, evaluating, samples, subscribed, ch, liveVars,
                   pageVars, faults, lostAlerts, lostSamples>>

\* The process ends and all it knows is forgotten
Stop ==
    /\ up
    /\ faults < MaxFaults
    /\ faults' = faults + 1
    /\ up' = FALSE
    /\ firing' = {}
    /\ store' = [p \in Paths |-> << >>]
    /\ evaluating' = {}
    /\ outbox' = << >>
    /\ subscribed' = FALSE
    /\ ch' = << >>
    /\ lostAlerts' = TRUE
    /\ lostSamples' = Paths
    /\ UNCHANGED <<configured, samples, flips, liveVars, pageVars>>

\* It is started, perhaps with another alert.conf
Start ==
    /\ ~ up
    /\ up' = TRUE
    /\ configured' \in SUBSET Rules \ {{}}
    /\ UNCHANGED <<firing, store, evaluating, outbox, samples, flips, subscribed, ch,
                   liveVars, pageVars, faults, lostAlerts, lostSamples>>

-----------------------------------------------------------------------------
(* The dashboard.                                                          *)

\* A call fails: the system of record is down, or something else is wrong
CallFails ==
    IF up THEN faults < MaxFaults /\ faults' = faults + 1 ELSE faults' = faults

\* What Rules answers: every rule with its firing state (Alerter.Status)
RuleStatus == {[rule |-> r, firing |-> r \in firing] : r \in configured}

\* load has the rules and asks for the samples of each of their paths
LoadRules ==
    /\ pc = "load" /\ up
    /\ lastError' = FALSE
    /\ tree' = {s.rule : s \in RuleStatus}
    /\ firingRules' = {ruleKey(s.rule) : s \in {s \in RuleStatus : s.firing}}
    /\ cats' = PathsOf({s.rule : s \in RuleStatus})
    /\ pc' = "cats"
    /\ lostAlerts' = FALSE
    /\ unseen' = Paths
    /\ UNCHANGED <<sorVars, subscribed, ch, window, page, sse, faults, lostSamples>>

\* load fails: main goes on to run, and run to the next watch
LoadFails ==
    /\ pc = "load"
    /\ CallFails
    /\ lastError' = TRUE
    /\ pc' = "watch"
    /\ UNCHANGED <<sorVars, subscribed, ch, tree, firingRules, window, cats,
                   pageVars, lostAlerts, lostSamples>>

\* One of load's calls of cat is answered
Cat ==
    /\ pc = "cats" /\ up
    /\ \E p \in cats :
         /\ window' = [window EXCEPT ![p] = LastOf(History, store[p])]
         /\ cats' = cats \ {p}
         /\ lostSamples' = lostSamples \ {p}
         /\ unseen' = unseen \cup {p}
    /\ UNCHANGED <<sorVars, subscribed, ch, pc, tree, firingRules, lastError,
                   page, sse, faults, lostAlerts>>

\* ... or fails, which load takes for no samples
CatFails ==
    /\ pc = "cats"
    /\ CallFails
    /\ \E p \in cats :
         /\ window' = [window EXCEPT ![p] = << >>]
         /\ cats' = cats \ {p}
         /\ lostSamples' = lostSamples \cup {p}
         /\ unseen' = unseen \cup {p}
    /\ UNCHANGED <<sorVars, subscribed, ch, pc, tree, firingRules, lastError,
                   page, sse, lostAlerts>>

Loaded ==
    /\ pc = "cats" /\ cats = {}
    /\ pc' = "watch"
    /\ UNCHANGED <<sorVars, subscribed, ch, tree, firingRules, window, cats, lastError,
                   pageVars, faults, lostAlerts, lostSamples>>

\* run opens the watch
OpenWatch ==
    /\ pc = "watch" /\ ~ subscribed /\ up
    /\ subscribed' = TRUE
    /\ ch' = << >>
    /\ pc' = "watching"
    /\ UNCHANGED <<sorVars, tree, firingRules, window, cats, lastError,
                   pageVars, faults, lostAlerts, lostSamples>>

\* Mutant of Slid: a full window takes no more
SlidUntilFull(ws, v) ==
    IF Len(ws) < History THEN Append(ws, v) ELSE ws

\* A window that takes a sample and lets its oldest go
Slid(ws, v) == LastOf(History, Append(ws, v))

\* Mutant of Told: the severity before the event
ToldBefore(p) == status(p)

\* The severity an update carries: the one after the event
Told(p) == StatusWith(p, firingRules', window')

\* app.js applyStatus: the page's element of that path changes its colour
applyStatus(path, severity) == [page EXCEPT ![path] = severity]

\* Live.handle: nothing for a path without a rule; a listening page then shows the
\* path's new severity
Handle ==
    /\ pc = "watching" /\ subscribed /\ ch # << >>
    /\ ch' = Tail(ch)
    /\ UNCHANGED <<sorVars, subscribed, pc, tree, cats, lastError, sse, faults,
                   lostAlerts, lostSamples>>
    /\ LET ev == Head(ch)
           p == ev.rule.path
           known == p \in PathsOf(tree)
       IN /\ firingRules' =
               CASE known /\ ev.alert = "fired" -> firingRules \cup {ruleKey(ev.rule)}
                 [] known /\ ev.alert = "resolved" -> firingRules \ {ruleKey(ev.rule)}
                 [] OTHER -> firingRules
          /\ window' = IF known /\ ev.alert = "none"
                       THEN [window EXCEPT ![p] = Slid(@, ev.value)]
                       ELSE window
          /\ page' = IF known /\ sse /\ p \in DOMAIN page
                     THEN applyStatus(p, Told(p))
                     ELSE page
          /\ unseen' = CASE known /\ sse -> unseen \ {p}
                         [] known /\ ~ sse -> unseen \cup {p}
                         [] OTHER -> unseen

\* Mutant of AfterDrop: run ends with the first watch
AfterDropEnd == "done"

\* Where run goes when its watch has ended
AfterDrop == "sleep"

\* The watch cannot be opened, or drops, and what is buffered for it is gone; one that
\* ends without an error sets none
WatchDrops ==
    /\ pc \in {"watch", "watching"}
    /\ IF pc = "watching" /\ ~ subscribed THEN faults' = faults ELSE CallFails
    /\ subscribed' = FALSE
    /\ ch' = << >>
    /\ lastError' = TRUE \/ (pc = "watching" /\ lastError' = lastError)
    /\ pc' = AfterDrop
    /\ lostAlerts' = (lostAlerts \/ \E i \in DOMAIN ch : IsAlert(ch[i]))
    /\ lostSamples' = lostSamples \cup
                         {ch[i].rule.path : i \in {i \in DOMAIN ch : ~ IsAlert(ch[i])}}
    /\ UNCHANGED <<sorVars, tree, firingRules, window, cats, pageVars>>

\* run waits and loads again
Reload ==
    /\ pc = "sleep"
    /\ pc' = "load"
    /\ UNCHANGED <<sorVars, subscribed, ch, tree, firingRules, window, cats, lastError,
                   pageVars, faults, lostAlerts, lostSamples>>

-----------------------------------------------------------------------------
(* A browser.                                                              *)

\* A page shows each of its metrics in the colour of its severity
Rendered(shown) == [p \in shown |-> status(p)]

\* A page is rendered with the picture of that moment, of all metrics or of those
\* of a namespace or service; its events come later
OpenPage ==
    /\ \E shown \in SUBSET PathsOf(tree) : page' = Rendered(shown)
    /\ sse' = FALSE
    /\ unseen' = {}
    /\ UNCHANGED <<sorVars, subscribed, ch, liveVars, faults, lostAlerts,
                   lostSamples>>

\* EventSource connects, or connects again: app.get("/events"), onUpdate
ConnectEvents ==
    /\ page # << >> /\ ~ sse
    /\ sse' = TRUE
    /\ UNCHANGED <<sorVars, subscribed, ch, liveVars, page, unseen, faults,
                   lostAlerts, lostSamples>>

\* The browser's connection drops, perhaps with updates on their way: onAbort
\* removes the listener
DropEvents ==
    /\ sse
    /\ faults < MaxFaults
    /\ faults' = faults + 1
    /\ sse' = FALSE
    /\ unseen' = Paths
    /\ UNCHANGED <<sorVars, subscribed, ch, liveVars, page, lostAlerts,
                   lostSamples>>

-----------------------------------------------------------------------------
Sor == Store \/ PublishEvent \/ Evaluate \/ CheckAbsent \/ Stop \/ Start

Live ==
    \/ LoadRules \/ LoadFails \/ Cat \/ CatFails \/ Loaded
    \/ OpenWatch \/ Handle \/ WatchDrops \/ Reload

Browser == OpenPage \/ ConnectEvents \/ DropEvents

Next == Sor \/ Live \/ Browser

Spec == Init /\ [][Next]_vars

\* The dashboard's calls come back, its timer fires, and the goroutine that
\* ingests goes on
FairSpec == Spec /\ WF_vars(Live) /\ WF_vars(PublishEvent \/ Evaluate)

-----------------------------------------------------------------------------
(* Properties.                                                             *)

Severities == {"red", "amber", "green", "unknown"}

Keys == {ruleKey(r) : r \in Rules}

SampleEvents == {SampleEvent(p, v) : p \in Paths, v \in Values}

AlertEvents == [rule : Rules, value : {0}, alert : {"fired", "resolved"}]

TypeOK ==
    /\ up \in BOOLEAN /\ subscribed \in BOOLEAN /\ lastError \in BOOLEAN /\ sse \in BOOLEAN
    /\ configured \subseteq Rules /\ firing \subseteq configured
    /\ store \in [Paths -> Seq(Values)]
    /\ evaluating \subseteq Paths
    /\ outbox \in Seq(SampleEvents \cup AlertEvents)
    /\ ch \in Seq(SampleEvents \cup AlertEvents) /\ Len(ch) <= Buffer
    /\ pc \in {"load", "cats", "watch", "watching", "sleep"}
    /\ tree \subseteq Rules /\ firingRules \subseteq Keys
    /\ window \in [Paths -> Seq(Values)]
    /\ \A p \in Paths : Len(window[p]) <= History
    /\ cats \subseteq Paths
    /\ \A p \in DOMAIN page : p \in Paths /\ page[p] \in Severities
    /\ samples \in 0 .. MaxSamples /\ flips \in 0 .. MaxFlips /\ faults \in 0 .. MaxFaults
    /\ unseen \subseteq Paths
    /\ lostAlerts \in BOOLEAN /\ lostSamples \subseteq Paths

\* Nothing is on its way to the dashboard
Quiet == subscribed /\ ch = << >> /\ evaluating = {} /\ outbox = << >>

\* What the dashboard would show if it knew all that the system of record knows
SorStatus(p) == kpiStatus(configured, p, store[p], PathsOf(firing))

\* The state is well-typed, with windows no longer than they should be, and
\* once nothing is on its way, the dashboard shows every metric in the colour
\* that follows from the system of record's own state, unless an event came
\* between load and watch, found the watch's buffer full or was lost with it: the order of load's
\* calls, repeated and stale events do no harm (load, handle and status).
SeverityAgrees ==
    TypeOK /\ (Quiet /\ ~ lostAlerts =>
        \A p \in PathsOf(configured) \ lostSamples : status(p) = SorStatus(p))

\* Once nothing is on its way, a dashboard that reports no error shows every metric
\* with a firing rule in red (live.ts, "keeps the dashboard's in-memory picture of the SoR: ... which
\* rules are firing").
PictureCurrent ==
    Quiet /\ ~ lastError => PathsOf(firing) \subseteq firingPathsOf(firingRules)

\* A page that listens shows what the dashboard would render, except where the
\* picture changed while it did not listen or without an update to it, as load
\* changes it: an update carries the severity after the event, and the next one
\* for the same metric mends an older omission (handle and applyStatus).
PageFollows == sse => \A p \in DOMAIN page \ unseen : page[p] = status(p)

\* Once the system of record stays up, the dashboard gets its watch back and
\* keeps it (run).
WatchReopened == <>[]up => <>[]subscribed

=============================================================================
