------------------------------ MODULE Receiver ------------------------------
(***************************************************************************)
(* The OTLP receiver (adapter/otlp): requests of several exporters, decoded  *)
(* and ingested sample by sample by a handler each, and answered afterwards. *)
(* An exporter that has no answer may send its request again, also while the *)
(* first one is still being handled.                                        *)
(*                                                                         *)
(* A request is what its body decodes to: resources with their attributes,   *)
(* and in them metrics with their points or scopes with their log records.   *)
(* Values, units and texts are left out.                                    *)
(***************************************************************************)
EXTENDS Paths, FiniteSets, TLC

CONSTANTS
    Exports,     \* the requests exporters send, by name
    RequestOf,   \* what each of them is
    Handlers,    \* the goroutines that serve requests
    WordBits,    \* the bits of a time stamp, 64
    Window,      \* how long samples are kept
    StartTime,   \* the time when serving starts
    MaxTicks,    \* bound: how far the clock goes
    MaxPosts     \* bound: how often requests are sent

IsList(seq) == seq \in Seq(ToSet(seq))

\* What a time stamp can be on the wire
Nanos == 0 .. 2^WordBits - 1

\* A decoded body is lists of lists, each as long as it may be, and so are names
ASSUME ExportsAssumption ==
    \A x \in Exports :
        /\ IsList(RequestOf[x].resources)
        /\ \A res \in ToSet(RequestOf[x].resources) :
              /\ IsList(res.attrs) /\ IsList(res.items)
              /\ \A kv \in ToSet(res.attrs) : IsList(kv.value)
              /\ \A item \in ToSet(res.items) :
                    /\ IsList(item.name)
                    /\ IF RequestOf[x].route = "metrics"
                       THEN /\ IsList(item.points)
                            /\ \A p \in ToSet(item.points) : p.nanos \in Nanos
                       ELSE /\ IsList(item.records)
                            /\ \A rec \in ToSet(item.records) :
                                  rec.nanos \in Nanos /\ rec.observed \in Nanos

\* Serving starts later after 1970 than samples are kept
ASSUME ServingAssumption ==
    /\ IsFiniteSet(Handlers)
    /\ Window \in Nat /\ StartTime \in Int /\ StartTime >= Window /\ MaxTicks \in Nat

\* Powers of two are numbers (the provers know nothing of exponents)
ASSUME WordAssumption == 2^WordBits \in Nat /\ 2^(WordBits - 1) \in Nat \ {0}

VARIABLES
    now,         \* the clock
    handler,     \* the request each handler serves, and the samples still to ingest
    posts,       \* how often each request was sent
    acked,       \* the requests answered with 200, as the exporters know
    ingested     \* the samples given to the sink, in order

receiverVars == <<now, handler, posts, acked, ingested>>

\* ts is the time stamp taken last, at the instant taken
Free == [req |-> "none", step |-> "free", pending |-> << >>, ts |-> 0, taken |-> 0]

-----------------------------------------------------------------------------
(* Decoding.                                                               *)

\* identity: the last of several attributes counts; one that is no string is empty
identity(attrs) ==
    FoldLeft(LAMBDA who, kv :
                CASE kv.key = "service.namespace" -> [who EXCEPT !.ns = kv.value]
                  [] kv.key = "service.name" -> [who EXCEPT !.svc = kv.value]
                  [] OTHER -> who,
             [ns |-> <<"default">>, svc |-> <<"unknown">>], attrs)

StreamID(who, kind, name) == [ns |-> who.ns, svc |-> who.svc, kind |-> kind, name |-> name]

Each(f(_), seq) == FlattenSeq([i \in DOMAIN seq |-> f(seq[i])])

\* A sample to ingest: its time stamp is taken then, or is that of the one before
Sample(id, nanos, same) == [id |-> id, nanos |-> nanos, same |-> same]

\* numbers: a point without a value is skipped
numbers(id, points) ==
    Each(LAMBDA p : IF p.value THEN <<Sample(id, p.nanos, FALSE)>> ELSE << >>, points)

\* metric: a histogram is two streams, the second where a point has a sum, and the
\* samples of a point have one time
metric(who, m) ==
    LET id(suffix) == StreamID(who, <<"metrics">>, m.name \o suffix)
    IN CASE m.type \in {"gauge", "sum"} -> numbers(id(<< >>), m.points)
         [] m.type = "histogram" ->
              Each(LAMBDA p : <<Sample(id(<<".count">>), p.nanos, FALSE)>>
                              \o IF p.value THEN <<Sample(id(<<".sum">>), p.nanos, TRUE)>>
                                 ELSE << >>, m.points)
         [] OTHER -> << >>

\* Mutant of ScopeName: no default
ScopeNameAsGiven(name) == name

ScopeName(name) == IF name = << >> THEN <<"default">> ELSE name

\* logStamp: the time of the event, or else of its observation
logStamp(rec) == IF rec.nanos # 0 THEN rec.nanos ELSE rec.observed

logs(who, scope) ==
    Each(LAMBDA rec : <<Sample(StreamID(who, <<"logs">>, ScopeName(scope.name)),
                               logStamp(rec), FALSE)>>, scope.records)

\* metrics and logs: the samples of a request in the order they are ingested
Samples(req) ==
    Each(LAMBDA res :
            LET who == identity(res.attrs)
            IN Each(LAMBDA item : IF req.route = "metrics" THEN metric(who, item)
                                  ELSE logs(who, item), res.items),
         req.resources)

\* Mutant of stamp: a missing time stamp is taken for a time
stampAsSent(nanos) == IF nanos >= 2^(WordBits - 1) THEN nanos - 2^WordBits ELSE nanos

\* stamp: nothing is now; int64 wraps
stamp(nanos) ==
    CASE nanos = 0 -> now
      [] nanos >= 2^(WordBits - 1) -> nanos - 2^WordBits
      [] OTHER -> nanos

-----------------------------------------------------------------------------
ReceiverInit ==
    /\ now = StartTime
    /\ handler = [h \in Handlers |-> Free]
    /\ posts = [x \in Exports |-> 0]
    /\ acked = {}
    /\ ingested = << >>

\* An exporter sends a request, for the first time or again for want of an answer
Post(h) ==
    /\ handler[h] = Free
    /\ FoldFunction(+, 0, posts) < MaxPosts
    /\ \E x \in Exports \ acked :
         /\ handler' = [handler EXCEPT ![h] = [Free EXCEPT !.req = x, !.step = "read"]]
         /\ posts' = [posts EXCEPT ![x] = @ + 1]
    /\ UNCHANGED <<now, acked, ingested>>

\* The handler returns; the connection may be gone, and the answer with it
Answer(h, status) ==
    /\ handler' = [handler EXCEPT ![h] = Free]
    /\ \E arrives \in BOOLEAN :
         acked' = IF arrives /\ status = 200 THEN acked \cup {handler[h].req} ELSE acked
    /\ UNCHANGED <<now, posts, ingested>>

\* serve's answer to a request whose body arrives
Status(req) ==
    IF req.method # "POST" THEN 405
    ELSE IF req.media \notin {"protobuf", "json"} THEN 415
    ELSE IF req.body # "good" THEN 400 ELSE 200

\* serve refuses the request; one it would take can still be cut off or too long
Refuse(h) ==
    /\ handler[h].step = "read"
    /\ LET status == Status(RequestOf[handler[h].req])
       IN Answer(h, IF status = 200 THEN 400 ELSE status)

Decode(h) ==
    /\ handler[h].step = "read"
    /\ Status(RequestOf[handler[h].req]) = 200
    /\ handler' = [handler EXCEPT ![h].step = "handle",
                                  ![h].pending = Samples(RequestOf[handler[h].req])]
    /\ UNCHANGED <<now, posts, acked, ingested>>

\* Mutant of Handled: the answer does not wait for the samples
HandledEarly(h) == handler[h].step = "handle"

\* handle has returned
Handled(h) == handler[h].step = "handle" /\ handler[h].pending = << >>

\* Sink.Ingest of one sample
Ingest(h) ==
    /\ handler[h].pending # << >>
    /\ LET s == Head(handler[h].pending)
           ts == IF s.same THEN handler[h].ts ELSE stamp(s.nanos)
           taken == IF s.same THEN handler[h].taken ELSE now
       IN /\ ingested' = Append(ingested,
                [id |-> s.id, time |-> ts, nanos |-> s.nanos, came |-> taken,
                 req |-> handler[h].req, left |-> Len(handler[h].pending)])
          /\ handler' = [handler EXCEPT ![h].pending = Tail(@), ![h].ts = ts,
                                        ![h].taken = taken]
    /\ UNCHANGED <<now, posts, acked>>

Reply(h) == Handled(h) /\ Answer(h, 200)

Tick ==
    /\ now < StartTime + MaxTicks
    /\ now' = now + 1
    /\ UNCHANGED <<handler, posts, acked, ingested>>

ReceiverNext ==
    \/ Tick
    \/ \E h \in Handlers : Post(h) \/ Refuse(h) \/ Decode(h) \/ Ingest(h) \/ Reply(h)

-----------------------------------------------------------------------------
(* Properties.                                                             *)

ReceiverTypeOK ==
    /\ now \in StartTime .. StartTime + MaxTicks
    /\ \A h \in Handlers : handler[h].req \in Exports \cup {"none"}
                           /\ handler[h].step \in {"free", "read", "handle"}
    /\ acked \subseteq Exports

\* How often the sample of x that has n samples after it and itself is stored
Copies(x, n) == Cardinality({i \in DOMAIN ingested : ingested[i].req = x
                                                    /\ ingested[i].left = n})

Good(x) ==
    RequestOf[x].method = "POST" /\ RequestOf[x].media \in {"protobuf", "json"}
    /\ RequestOf[x].body = "good"

\* An exporter that was told 200 can forget the request: each of its samples has
\* been ingested, whatever other handlers did meanwhile (serve, handle).
AckedStored ==
    \A x \in acked : \A n \in 1 .. Len(Samples(RequestOf[x])) : Copies(x, n) >= 1

\* A sample is stored at most once for each time its request was sent, and never of
\* a request that is not a well-formed POST, in whole or in part (serve: nothing is
\* ingested before the whole body has been decoded).
NoMoreThanSent ==
    \A i \in DOMAIN ingested :
        LET s == ingested[i]
        IN Good(s.req) /\ Copies(s.req, s.left) <= posts[s.req]

\* What an exporter knows of its samples, and what it can have caused (serve).
StoredAsSent == AckedStored /\ NoMoreThanSent

\* A sample is outside the window when its time stamp is taken only if its sender said
\* so, with a time too old or with one of 2^63 nanoseconds and more, which is taken for
\* a time before 1970; one that says nothing never is, nor is the second sample of a
\* histogram's point, which has the stamp of the first (stamp, logStamp, Window.Cutoff).
LateOnlyBySender ==
    \A i \in DOMAIN ingested :
        LET s == ingested[i]
        IN s.time < s.came - Window <=>
               s.nanos \in 1 .. s.came - Window - 1 \/ s.nanos >= 2^(WordBits - 1)

\* The names a request gives: attributes and metrics' names, and scopes' if any
GivenNames(req) ==
    UNION {{kv.value : kv \in ToSet(res.attrs)} \cup
           ({item.name : item \in ToSet(res.items)}
              \ (IF req.route = "logs" THEN {<< >>} ELSE {}))
           : res \in ToSet(req.resources)}

\* A request gives an empty name, or one with a slash
Misnamed(x) == \E name \in GivenNames(RequestOf[x]) : name = << >> \/ Slash \in ToSet(name)

\* A stream has a path that leads back to it, unless its sender gave an empty name
\* or one with a slash (identity, logs, StreamID.Path, ParsePath).
Addressable ==
    \A i \in DOMAIN ingested :
        LET id == ingested[i].id
            parts == PathString(id)
        IN \/ ParsePath([absolute |-> TRUE, parts |-> parts]) = "ok"
              /\ Depth(parts) = 4 /\ StreamIDOf(parts) = id
           \/ Misnamed(ingested[i].req)

=============================================================================
