------------------------------ MODULE MemStore ------------------------------
(***************************************************************************)
(* The system of record: the in-memory store (internal/adapter/memstore),  *)
(* the ingesters that append to it and trim it back into budget, and the   *)
(* evictor that forgets what is older than the retention window            *)
(* (internal/usecase/ingest.go).                                           *)
(*                                                                         *)
(* The store guards its state with one RWMutex.  A method that holds it for *)
(* one update is one step; the two methods that loop while holding it       *)
(* (DropOldest and DropBefore) take a step per iteration with lock held, so *)
(* that nobody else can run in between, exactly as in the code.  Between    *)
(* the three store calls of one Ingest nothing is held.                     *)
(***************************************************************************)
EXTENDS Integers, Sequences, FiniteSets

CONSTANTS
    StreamIDs,    \* the streams senders write to
    Ingesters,    \* the receiver's concurrent request handlers
    Evictor,      \* the goroutine of the eviction ticker
    Unlocked,     \* the value of lock when nobody holds the mutex
    MaxSamples,   \* domain.Budget.MaxSamples: 0 or less is unlimited
    Retention,    \* domain.Window.Duration, in clock units
    MaxTime,      \* bound: the last instant of the clock and of a time stamp
    MaxArrivals   \* bound: how many samples are ingested in a behaviour

ASSUME ProcessAssumption ==
    /\ Evictor \notin Ingesters
    /\ Unlocked \notin Ingesters
    /\ Unlocked # Evictor
    /\ IsFiniteSet(Ingesters)

ASSUME BoundAssumption ==
    /\ MaxSamples \in Int
    /\ Retention \in Nat
    /\ MaxTime \in Nat \ {0}
    /\ MaxArrivals \in Nat

VARIABLES
    streams,   \* Store.streams: an entry per stream the store holds
    count,     \* Store.count
    lock,      \* Store.mu: who holds it for writing
    pc,        \* where each ingester is in Ingest, and the evictor in Run
    n,         \* each ingester's argument of DropOldest, then its loop counter
    cutoff,    \* the evictor's argument of DropBefore
    todo,      \* the streams DropBefore has still to visit
    clock,     \* the wall clock the evictor reads
    arrivals   \* how many samples were appended: numbers them in order

vars == <<streams, count, lock, pc, n, cutoff, todo, clock, arrivals>>

Times == 1 .. MaxTime

Sample == [time : Times, arrival : 1 .. MaxArrivals]

-----------------------------------------------------------------------------
(* The store's helpers.                                                    *)

\* streams[id] of the Go map: the nil slice when there is no entry
Entry(id) == IF id \in DOMAIN streams THEN streams[id] ELSE << >>

Put(id, ss) ==
    [x \in DOMAIN streams \cup {id} |-> IF x = id THEN ss ELSE streams[x]]

Delete(id) == [x \in DOMAIN streams \ {id} |-> streams[x]]

\* ss[i:] of the code: ss without its first i samples
Suffix(ss, i) == [j \in 1 .. Len(ss) - i |-> ss[i + j]]

\* Mutant of DropFirst: leaves an emptied entry in the map
DropFirstKeepsEntry(id, i) == Put(id, Suffix(streams[id], i))

\* Mutant of DropFirst: a last sample that is left goes with the entry
DropFirstEarly(id, i) ==
    IF i >= Len(streams[id]) - 1 THEN Delete(id) ELSE Put(id, Suffix(streams[id], i))

\* The streams without the first i samples of id: an entry that would be left
\* empty is deleted
DropFirst(id, i) ==
    IF i = Len(streams[id]) THEN Delete(id) ELSE Put(id, Suffix(streams[id], i))

\* Mutant of ScanResult: compares with !After, so that a sample goes in front
\* of the ones with its own time
ScanResultUnstable(ss, t) ==
    {i \in 0 .. Len(ss) :
        /\ i = 0 \/ ~ (t <= ss[i].time)
        /\ \A j \in i + 1 .. Len(ss) : t <= ss[j].time}

\* Mutant of ScanResult: appends without looking
ScanResultAtEnd(ss, t) == {Len(ss)}

\* The index Append's backward scan stops at: everything behind it is later than
\* t, and it is 0 or stands after a sample that is not later than t
ScanResult(ss, t) ==
    {i \in 0 .. Len(ss) :
        /\ i = 0 \/ ~ (t < ss[i].time)
        /\ \A j \in i + 1 .. Len(ss) : t < ss[j].time}

\* ss with s put behind its first i samples (append, copy and assignment)
Insert(ss, i, s) ==
    [j \in 1 .. Len(ss) + 1 |->
        IF j <= i THEN ss[j] ELSE IF j = i + 1 THEN s ELSE ss[j - 1]]

\* Mutant of Excess: trims one too few
ExcessOffByOne(c) ==
    IF MaxSamples <= 0 \/ c <= MaxSamples THEN 0 ELSE c - MaxSamples - 1

\* Budget.Excess
Excess(c) == IF MaxSamples <= 0 \/ c <= MaxSamples THEN 0 ELSE c - MaxSamples

\* Mutant of HasOldestHead: keeps the stream with the newest head
HasNewestHead(id) ==
    \A x \in DOMAIN streams : streams[x][1].time <= streams[id][1].time

\* DropOldest's inner loop can choose id: Go visits a map in any order, so on a
\* tie any of the streams with the oldest head
HasOldestHead(id) ==
    \A x \in DOMAIN streams : streams[id][1].time <= streams[x][1].time

\* Mutant of SearchResult: the search leaves out the last sample
SearchResultButLast(ss, c) ==
    {i \in 0 .. Len(ss) - 1 :
        /\ i = 0 \/ ss[i].time < c
        /\ i = Len(ss) - 1 \/ ~ (ss[i + 1].time < c)}

\* sort.Search returns an index at which the predicate turns from false to
\* true; on a slice that is not ordered there may be several, and which of them
\* it finds is not specified
SearchResult(ss, c) ==
    {i \in 0 .. Len(ss) :
        /\ i = 0 \/ ss[i].time < c
        /\ i = Len(ss) \/ ~ (ss[i + 1].time < c)}

-----------------------------------------------------------------------------
Init ==
    /\ streams = << >>
    /\ count = 0
    /\ lock = Unlocked
    /\ pc = [p \in Ingesters \cup {Evictor} |-> "idle"]
    /\ n = [p \in Ingesters |-> 0]
    /\ cutoff = 0
    /\ todo = {}
    /\ clock = 1
    /\ arrivals = 0

\* Ingest, first call: Store.Append.  The sample's time is the sender's: any.
StoreAppend(p) ==
    /\ pc[p] = "idle"
    /\ lock = Unlocked
    /\ arrivals < MaxArrivals
    /\ \E id \in StreamIDs, t \in Times : \E i \in ScanResult(Entry(id), t) :
         streams' = Put(id, Insert(Entry(id), i,
                                   [time |-> t, arrival |-> arrivals + 1]))
    /\ count' = count + 1
    /\ arrivals' = arrivals + 1
    /\ pc' = [pc EXCEPT ![p] = "count"]
    /\ UNCHANGED <<lock, n, cutoff, todo, clock>>

\* Ingest, second call: Store.Count, and the budget's answer to it
StoreCount(p) ==
    /\ pc[p] = "count"
    /\ lock = Unlocked
    /\ n' = [n EXCEPT ![p] = Excess(count)]
    /\ pc' = [pc EXCEPT ![p] = IF Excess(count) > 0 THEN "drop" ELSE "idle"]
    /\ UNCHANGED <<streams, count, lock, cutoff, todo, clock, arrivals>>

\* Ingest, third call: Store.DropOldest(n) takes the mutex ...
DropOldestLock(p) ==
    /\ pc[p] = "drop"
    /\ lock = Unlocked
    /\ lock' = p
    /\ pc' = [pc EXCEPT ![p] = "dropping"]
    /\ UNCHANGED <<streams, count, n, cutoff, todo, clock, arrivals>>

\* ... drops the oldest sample of the store, n times ...
DropOldestStep(p) ==
    /\ pc[p] = "dropping"
    /\ n[p] > 0
    /\ \E id \in DOMAIN streams :
         /\ HasOldestHead(id)
         /\ streams' = DropFirst(id, 1)
    /\ count' = count - 1
    /\ n' = [n EXCEPT ![p] = @ - 1]
    /\ UNCHANGED <<lock, pc, cutoff, todo, clock, arrivals>>

\* ... or until the store is empty, and returns.
DropOldestReturn(p) ==
    /\ pc[p] = "dropping"
    /\ n[p] = 0 \/ DOMAIN streams = {}
    /\ lock' = Unlocked
    /\ n' = [n EXCEPT ![p] = 0]
    /\ pc' = [pc EXCEPT ![p] = "idle"]
    /\ UNCHANGED <<streams, count, cutoff, todo, clock, arrivals>>

\* Evictor.Run computes its cutoff before DropBefore waits for the mutex
EvictorRun ==
    /\ pc[Evictor] = "idle"
    /\ cutoff' = clock - Retention
    /\ pc' = [pc EXCEPT ![Evictor] = "drop"]
    /\ UNCHANGED <<streams, count, lock, n, todo, clock, arrivals>>

\* DropBefore takes the mutex and begins its loop over the map
DropBeforeLock ==
    /\ pc[Evictor] = "drop"
    /\ lock = Unlocked
    /\ lock' = Evictor
    /\ todo' = DOMAIN streams
    /\ pc' = [pc EXCEPT ![Evictor] = "dropping"]
    /\ UNCHANGED <<streams, count, n, cutoff, clock, arrivals>>

\* One iteration of DropBefore's loop over the streams
DropBeforeStep ==
    /\ pc[Evictor] = "dropping"
    /\ \E id \in todo : \E i \in SearchResult(streams[id], cutoff) :
         /\ streams' = IF i = 0 THEN streams ELSE DropFirst(id, i)
         /\ count' = count - i
         /\ todo' = todo \ {id}
    /\ UNCHANGED <<lock, pc, n, cutoff, clock, arrivals>>

DropBeforeReturn ==
    /\ pc[Evictor] = "dropping"
    /\ todo = {}
    /\ lock' = Unlocked
    /\ pc' = [pc EXCEPT ![Evictor] = "idle"]
    /\ UNCHANGED <<streams, count, n, cutoff, todo, clock, arrivals>>

\* Time passes whatever the processes do
Tick ==
    /\ clock < MaxTime
    /\ clock' = clock + 1
    /\ UNCHANGED <<streams, count, lock, pc, n, cutoff, todo, arrivals>>

Next ==
    \/ \E p \in Ingesters :
         \/ StoreAppend(p)
         \/ StoreCount(p)
         \/ DropOldestLock(p)
         \/ DropOldestStep(p)
         \/ DropOldestReturn(p)
    \/ EvictorRun
    \/ DropBeforeLock
    \/ DropBeforeStep
    \/ DropBeforeReturn
    \/ Tick

\* The eviction ticker keeps firing, the scheduler runs every goroutine that can
\* run, and Go's mutex hands itself over to whoever has waited for long (its
\* starvation mode), which is strong fairness of taking it.  Nobody has to send.
Fairness ==
    /\ WF_vars(Tick)
    /\ WF_vars(EvictorRun)
    /\ SF_vars(DropBeforeLock)
    /\ WF_vars(DropBeforeStep)
    /\ WF_vars(DropBeforeReturn)
    /\ \A p \in Ingesters :
         /\ SF_vars(StoreCount(p))
         /\ SF_vars(DropOldestLock(p))
         /\ WF_vars(DropOldestStep(p))
         /\ WF_vars(DropOldestReturn(p))

Spec == Init /\ [][Next]_vars

FairSpec == Spec /\ Fairness

-----------------------------------------------------------------------------
(* Properties.                                                             *)

TypeOK ==
    /\ DOMAIN streams \subseteq StreamIDs
    /\ streams = [id \in DOMAIN streams |-> streams[id]]
    /\ \A id \in DOMAIN streams : streams[id] \in Seq(Sample)
    /\ count \in Int
    /\ lock \in Ingesters \cup {Evictor, Unlocked}
    /\ pc \in [Ingesters \cup {Evictor} -> {"idle", "count", "drop", "dropping"}]
    /\ n \in [Ingesters -> Nat]
    /\ cutoff \in Int
    /\ todo \subseteq StreamIDs
    /\ clock \in Times
    /\ arrivals \in 0 .. MaxArrivals

\* The processes inside Ingest
Busy == {p \in Ingesters : pc[p] # "idle"}

\* Every place a stored sample occupies
Slots == UNION {{id} \X (1 .. Len(streams[id])) : id \in DOMAIN streams}

\* The counter the budget is enforced by is the number of samples stored, at
\* every iteration of every loop and not only between calls (Store.count is
\* maintained by hand in Append, DropOldest and DropBefore).
CountExact == IsFiniteSet(Slots) /\ count = Cardinality(Slots)

\* No stream is kept without samples: DropOldest reads ss[0] of every entry of
\* the map, which would panic on an empty one, and the listings built from the
\* map's keys would show streams with nothing in them.
NoEmptyEntry == \A id \in DOMAIN streams : streams[id] # << >>

\* s comes before r in a stream: by time, and by arrival when the times are equal
Precedes(s, r) ==
    s.time < r.time \/ (s.time = r.time /\ s.arrival < r.arrival)

\* Each stream is ordered by time and samples with equal times stay in the order
\* they arrived in, whoever dropped whatever in between (Append, "keeping the
\* stream ordered by time").
Ordered ==
    \A id \in DOMAIN streams : \A i, j \in 1 .. Len(streams[id]) :
        i < j => Precedes(streams[id][i], streams[id][j])

\* What Ordered needs to be inductive: the next arrival number is new.
ArrivalsKnown ==
    \A id \in DOMAIN streams : \A i \in 1 .. Len(streams[id]) :
        streams[id][i].arrival <= arrivals

\* The store is over its budget by at most the Ingest calls under way, and so
\* never when none is: although each of them acts on a count that others have
\* changed since (Ingest, "then trims the store back into budget").
BudgetBound == MaxSamples > 0 => count <= MaxSamples + Cardinality(Busy)

\* What BudgetBound needs to be inductive: a process about to drop n samples
\* leaves the store over budget by at most the other calls under way.
BudgetInv ==
    MaxSamples > 0 =>
        /\ count <= MaxSamples + Cardinality(Busy)
        /\ \A p \in Ingesters :
              pc[p] \in {"drop", "dropping"} =>
                  count <= MaxSamples + n[p] + Cardinality(Busy) - 1

\* What the program counters say about the mutex and the loop variables: who
\* holds the mutex is in its loop, and who waits has something to drop.
LockInv ==
    /\ \A p \in Ingesters \cup {Evictor} : pc[p] = "dropping" <=> lock = p
    /\ \A p \in Ingesters : pc[p] = "drop" => n[p] > 0
    /\ pc[Evictor] = "dropping" => todo \subseteq DOMAIN streams

\* The sweep leaves no sample older than its cutoff in the streams it has been
\* to, although it only looks for one index by binary search.
SweptClean ==
    pc[Evictor] = "dropping" =>
        \A id \in DOMAIN streams \ todo : \A i \in 1 .. Len(streams[id]) :
            streams[id][i].time >= cutoff

\* The cutoff the evictor works with is never ahead of the window, however long
\* it waits for the mutex.
CutoffPast ==
    pc[Evictor] \in {"drop", "dropping"} => cutoff <= clock - Retention

\* The samples stored, as a set
Stored == UNION {{streams[id][i] : i \in 1 .. Len(streams[id])} :
                    id \in DOMAIN streams}

Dropped == Stored \ Stored'

DropJustified ==
    \A s \in Dropped :
        \/ \A r \in Stored : s.time <= r.time
        \/ s.time < clock - Retention

\* A sample is dropped only if it is the oldest there is, or if it is out of the
\* retention window by the clock of that moment: also when the evictor waited
\* long for the mutex or an ingester drops what it counted long ago.
DropsOnlyOldest == [][DropJustified]_vars

\* A sample with the stream it is in
In(id, s) == [stream |-> id, time |-> s.time, arrival |-> s.arrival]

\* The samples stored, each with its stream
Kept == UNION {{In(id, streams[id][i]) : i \in 1 .. Len(streams[id])} :
                  id \in DOMAIN streams}

Promise == INSTANCE SampleStore WITH kept <- Kept, taken <- arrivals, now <- clock

\* The store keeps what SampleStore promises: at every step of every loop, with
\* handlers and the evictor in any order, a reader sees a sample from the moment
\* it is appended and until it is forgotten as the oldest, or with everything
\* its stream has from before a cutoff that is out of the window (Append,
\* DropOldest, DropBefore).
Implements == Promise!Spec

\* A sample that the retention window has passed is forgotten in the end, even
\* if nothing is ingested any more (Evictor, run by the ticker of cmd/sor).
EventuallyForgotten ==
    \A k \in 1 .. MaxArrivals :
        (\E s \in Stored : s.arrival = k /\ s.time < MaxTime - Retention)
            ~> ~ \E s \in Stored : s.arrival = k

=============================================================================
