-------------------------------- MODULE Feed --------------------------------
(***************************************************************************)
(* The live feed (internal/usecase/feed.go) and the gRPC Watch calls that   *)
(* subscribe to it (internal/adapter/grpcapi, Watch).  Events are numbered *)
(* in the order the feed's mutex gives them: which sample or alert an event *)
(* carries makes no difference to its delivery.                             *)
(*                                                                         *)
(* Every method of the feed runs under its mutex from beginning to end and  *)
(* is one step.                                                             *)
(***************************************************************************)
EXTENDS Integers, Sequences

CONSTANTS
    Watchers,    \* the clients of Watch, with at most one call each at a time
    Buffer,      \* the capacity of a subscriber's channel
    MaxEvents    \* bound: the events published

ASSUME FeedAssumption ==
    /\ Buffer \in Nat \ {0}
    /\ MaxEvents \in Nat

VARIABLES
    subs,       \* Feed.subs: the subscribers the feed publishes to
    ch,         \* subscriber.ch: the events buffered
    closed,     \* the subscribers whose channel is closed
    panicked,   \* something was sent on a closed channel
    pc,         \* where each Watch call is
    held,       \* the event a Watch call is sending to its client, 0 if none
    sent,       \* the events the client has been sent
    gone,       \* the clients that have disconnected: their contexts are done
    events,     \* how many events have been published
    since,      \* how many of them before each subscription
    missed      \* the events each subscriber's full channel had no room for

feedVars == <<subs, ch, closed, panicked, pc, held, sent, gone, events, since, missed>>

-----------------------------------------------------------------------------
FeedInit ==
    /\ subs = {}
    /\ ch = [w \in Watchers |-> << >>]
    /\ closed = {}
    /\ panicked = FALSE
    /\ pc = [w \in Watchers |-> "start"]
    /\ held = [w \in Watchers |-> 0]
    /\ sent = [w \in Watchers |-> << >>]
    /\ gone = {}
    /\ events = 0
    /\ since = [w \in Watchers |-> 0]
    /\ missed = [w \in Watchers |-> {}]

\* Mutant of HasRoom: one more than the channel holds
HasRoomForOneMore(w) == Len(ch[w]) <= Buffer

\* A send on w's channel would not block
HasRoom(w) == Len(ch[w]) < Buffer

\* Feed.publish, from Ingest or from Notify: a subscriber without room misses the
\* event, and nobody waits
Publish ==
    /\ events < MaxEvents
    /\ events' = events + 1
    /\ ch' = [w \in Watchers |->
                 IF w \in subs /\ HasRoom(w) THEN Append(ch[w], events + 1) ELSE ch[w]]
    /\ missed' = [w \in Watchers |->
                     IF w \in subs /\ ~ HasRoom(w)
                     THEN missed[w] \cup {events + 1} ELSE missed[w]]
    /\ panicked' = (panicked \/ subs \cap closed # {})
    /\ UNCHANGED <<subs, closed, pc, held, sent, gone, since>>

\* Mutant of Subscribe: begins after the next event
SubscribeLate(w) ==
    /\ pc[w] = "start"
    /\ ch' = [ch EXCEPT ![w] = << >>]
    /\ closed' = closed \ {w}
    /\ subs' = subs \cup {w}
    /\ since' = [since EXCEPT ![w] = events + 1]
    /\ held' = [held EXCEPT ![w] = 0]
    /\ sent' = [sent EXCEPT ![w] = << >>]
    /\ missed' = [missed EXCEPT ![w] = {}]
    /\ pc' = [pc EXCEPT ![w] = "select"]
    /\ UNCHANGED <<panicked, gone, events>>

\* Watch subscribes with a channel of its own; from now on it has its place in
\* subs until its cancel
Subscribe(w) ==
    /\ pc[w] = "start"
    /\ ch' = [ch EXCEPT ![w] = << >>]
    /\ closed' = closed \ {w}
    /\ subs' = subs \cup {w}
    /\ since' = [since EXCEPT ![w] = events]
    /\ held' = [held EXCEPT ![w] = 0]
    /\ sent' = [sent EXCEPT ![w] = << >>]
    /\ missed' = [missed EXCEPT ![w] = {}]
    /\ pc' = [pc EXCEPT ![w] = "select"]
    /\ UNCHANGED <<panicked, gone, events>>

\* Mutant of Receive: takes the newest event
ReceiveNewest(w) ==
    /\ pc[w] = "select"
    /\ ch[w] # << >>
    /\ held' = [held EXCEPT ![w] = ch[w][Len(ch[w])]]
    /\ ch' = [ch EXCEPT ![w] = SubSeq(@, 1, Len(@) - 1)]
    /\ pc' = [pc EXCEPT ![w] = "send"]
    /\ UNCHANGED <<subs, closed, panicked, sent, gone, events, since, missed>>

\* Watch's select takes an event, also when its context is done as well
Receive(w) ==
    /\ pc[w] = "select"
    /\ ch[w] # << >>
    /\ held' = [held EXCEPT ![w] = Head(ch[w])]
    /\ ch' = [ch EXCEPT ![w] = Tail(@)]
    /\ pc' = [pc EXCEPT ![w] = "send"]
    /\ UNCHANGED <<subs, closed, panicked, sent, gone, events, since, missed>>

\* stream.Send accepts the event; a client that does not read keeps it waiting
SendOK(w) ==
    /\ pc[w] = "send"
    /\ w \notin gone
    /\ sent' = [sent EXCEPT ![w] = Append(@, held[w])]
    /\ held' = [held EXCEPT ![w] = 0]
    /\ pc' = [pc EXCEPT ![w] = "select"]
    /\ UNCHANGED <<subs, ch, closed, panicked, gone, events, since, missed>>

\* stream.Send returns an error: Watch returns
SendFails(w) ==
    /\ pc[w] = "send"
    /\ pc' = [pc EXCEPT ![w] = "return"]
    /\ UNCHANGED <<subs, ch, closed, panicked, held, sent, gone, events, since, missed>>

\* Watch's select sees that the context is done
ContextDone(w) ==
    /\ pc[w] = "select"
    /\ w \in gone
    /\ pc' = [pc EXCEPT ![w] = "return"]
    /\ UNCHANGED <<subs, ch, closed, panicked, held, sent, gone, events, since, missed>>

\* Mutant of Cancel: closes the channel and leaves the subscriber registered
CancelKeepsSubscriber(w) ==
    /\ pc[w] = "return"
    /\ closed' = closed \cup {w}
    /\ pc' = [pc EXCEPT ![w] = "done"]
    /\ UNCHANGED <<subs, panicked, ch, held, sent, gone, events, since, missed>>

\* The deferred cancel of Watch; a subscriber that is closed stays as it is
Cancel(w) ==
    /\ pc[w] = "return"
    /\ closed' = closed \cup {w}
    /\ subs' = IF w \in closed THEN subs ELSE subs \ {w}
    /\ pc' = [pc EXCEPT ![w] = "done"]
    /\ UNCHANGED <<panicked, ch, held, sent, gone, events, since, missed>>

\* The client of a Watch call disconnects, at any moment of the call
Disconnect(w) ==
    /\ pc[w] # "done"
    /\ w \notin gone
    /\ gone' = gone \cup {w}
    /\ UNCHANGED <<subs, ch, closed, panicked, pc, held, sent, events, since, missed>>

\* A client calls Watch again
Reconnect(w) ==
    /\ pc[w] = "done"
    /\ gone' = gone \ {w}
    /\ pc' = [pc EXCEPT ![w] = "start"]
    /\ UNCHANGED <<subs, ch, closed, panicked, held, sent, events, since, missed>>

Watch(w) ==
    \/ Receive(w)
    \/ SendOK(w)
    \/ SendFails(w)
    \/ ContextDone(w)
    \/ Cancel(w)

FeedNext ==
    \/ Publish
    \/ \E w \in Watchers :
         Reconnect(w) \/ Subscribe(w) \/ Watch(w) \/ Disconnect(w)

FeedSpec == FeedInit /\ [][FeedNext]_feedVars

\* Watch takes what its select offers and runs its cancel.  A Send comes back
\* once the client has gone (its context is done); before that it may wait for
\* the client for ever, so nothing is assumed of SendOK.
Fairness ==
    \A w \in Watchers :
        /\ WF_feedVars(Receive(w) \/ ContextDone(w))
        /\ WF_feedVars(w \in gone /\ SendFails(w))
        /\ WF_feedVars(Cancel(w))

FeedFairSpec == FeedSpec /\ Fairness

-----------------------------------------------------------------------------
(* Properties.                                                             *)

FeedTypeOK ==
    /\ subs \subseteq Watchers
    /\ ch \in [Watchers -> Seq(1 .. MaxEvents)]
    /\ closed \subseteq Watchers
    /\ panicked \in BOOLEAN
    /\ pc \in [Watchers -> {"start", "select", "send", "return", "done"}]
    /\ held \in [Watchers -> 0 .. MaxEvents]
    /\ sent \in [Watchers -> Seq(1 .. MaxEvents)]
    /\ gone \subseteq Watchers
    /\ events \in 0 .. MaxEvents
    /\ since \in [Watchers -> 0 .. MaxEvents]
    /\ missed \in [Watchers -> SUBSET (1 .. MaxEvents)]

\* No goroutine sends on a closed channel, which would bring the whole program
\* down (publish and cancel, under the same mutex).
NeverPanics == ~ panicked

\* A channel never holds more than its buffer: a client that has stopped reading
\* costs a bounded amount of memory (NewFeed's buffer).
Bounded == \A w \in Watchers : Len(ch[w]) <= Buffer

\* The events before and after position i of a sequence are in order
Increasing(s) == \A i, j \in 1 .. Len(s) : i < j => s[i] < s[j]

\* A client gets events in the order they were published and none twice: what it
\* was sent, what is being sent and what is buffered for it (publish and Watch).
InOrder ==
    \A w \in Watchers :
        /\ Increasing(sent[w])
        /\ Increasing(ch[w])
        /\ \A i \in 1 .. Len(sent[w]), j \in 1 .. Len(ch[w]) : sent[w][i] < ch[w][j]
        /\ held[w] # 0 =>
              /\ \A i \in 1 .. Len(sent[w]) : sent[w][i] < held[w]
              /\ \A j \in 1 .. Len(ch[w]) : held[w] < ch[w][j]

\* The events a subscription has got or will get
Got(w) ==
    {sent[w][i] : i \in 1 .. Len(sent[w])}
        \cup ({held[w]} \ {0})
        \cup {ch[w][i] : i \in 1 .. Len(ch[w])}

\* While a client is subscribed, every event since its subscription reached it,
\* is on its way to it, or found its channel full (Feed, "a subscriber that
\* falls behind its buffer misses events").
Accounted ==
    \A w \in subs :
        /\ since[w] + 1 .. events = Got(w) \cup missed[w]
        /\ Got(w) \cap missed[w] = {}

\* The subscription of a client that has gone is removed in the end, also when
\* nothing is published any more: it does not fill its buffer for ever (Watch's
\* deferred cancel).
Released == \A w \in Watchers : (w \in gone /\ w \in subs) ~> (w \notin subs)

=============================================================================
