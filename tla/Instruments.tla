---------------------------- MODULE Instruments -----------------------------
(***************************************************************************)
(* The client library's cached instruments (client/client.go, lazy) while   *)
(* Start installs a new meter provider.  Requests call get from many        *)
(* goroutines, and record on what they got (module Middleware).  The        *)
(* instrument that build makes records to the provider that was the global  *)
(* one at that moment.                                                      *)
(*                                                                         *)
(* Providers are numbered in the order they are installed; 0 is the global  *)
(* provider before the first SetMeterProvider, which from then on hands     *)
(* everything on to provider 1 (go.opentelemetry.io/otel/internal/global).  *)
(***************************************************************************)
EXTENDS Integers

CONSTANTS
    Requests,    \* the goroutines that use the instruments
    Unlocked,    \* what lock holds when nobody holds the mutex
    MaxStarts    \* bound: the calls of Start

ASSUME InstrumentsAssumption == Unlocked \notin Requests /\ MaxStarts \in Nat

VARIABLES
    generation,   \* the counter of that name
    provider,     \* the global meter provider
    starting,     \* where the call of Start is
    starts,       \* how often Start was called
    cached,       \* lazy.p: the generation and the provider of the instruments
    lock,         \* lazy.mu
    pc, gen,      \* where each request is, and the generation it has read
    got,          \* the provider of the instruments a request has got
    oldest        \* the provider that was global when the request began

instrumentVars ==
    <<generation, provider, starting, starts, cached, lock, pc, gen, got, oldest>>

NoValue == [gen |-> -1, provider |-> 0]

\* Where what is recorded on an instrument of provider p ends up
Target(p) == IF p = 0 /\ provider > 0 THEN 1 ELSE p

InstrumentsInit ==
    /\ generation = 0 /\ provider = 0
    /\ starting = "no"
    /\ starts = 0
    /\ cached = NoValue
    /\ lock = Unlocked
    /\ pc = [r \in Requests |-> "idle"]
    /\ gen = [r \in Requests |-> 0]
    /\ got = [r \in Requests |-> 0]
    /\ oldest = [r \in Requests |-> 0]

-----------------------------------------------------------------------------
requestVars == <<cached, lock, pc, gen, got, oldest>>

\* Start announces a new generation ...
StartBegin ==
    /\ starting = "no"
    /\ starts < MaxStarts
    /\ starts' = starts + 1
    /\ generation' = generation + 1
    /\ starting' = "yes"
    /\ UNCHANGED <<provider, requestVars>>

\* ... returns when there is no endpoint, or an exporter cannot be made ...
StartWithoutProvider ==
    /\ starting = "yes"
    /\ starting' = "no"
    /\ UNCHANGED <<generation, provider, starts, requestVars>>

\* ... or installs its meter provider
SetMeterProvider ==
    /\ starting = "yes"
    /\ starting' = "no"
    /\ provider' = provider + 1
    /\ UNCHANGED <<generation, starts, requestVars>>

startVars == <<generation, provider, starting, starts>>

\* Mutant of Fresh: whatever is cached will do
FreshAny(r) == cached # NoValue

\* The instruments cached are of the generation the request has read
Fresh(r) == cached # NoValue /\ cached.gen = gen[r]

\* get reads the generation
GetBegin(r) ==
    /\ pc[r] = "idle"
    /\ gen' = [gen EXCEPT ![r] = generation]
    /\ oldest' = [oldest EXCEPT ![r] = Target(provider)]
    /\ pc' = [pc EXCEPT ![r] = "look"]
    /\ UNCHANGED <<startVars, cached, lock, got>>

\* ... and returns what is cached for it, without the mutex
GetCached(r) ==
    /\ pc[r] = "look"
    /\ Fresh(r)
    /\ got' = [got EXCEPT ![r] = cached.provider]
    /\ pc' = [pc EXCEPT ![r] = "use"]
    /\ UNCHANGED <<startVars, cached, lock, gen, oldest>>

GetLock(r) ==
    /\ pc[r] = "look" /\ ~ Fresh(r)
    /\ pc' = [pc EXCEPT ![r] = "lock"]
    /\ UNCHANGED <<startVars, cached, lock, gen, got, oldest>>

\* Mutant of Release: whoever finds it built keeps the mutex
ReleaseNot(r) == r

\* The deferred unlock
Release(r) == Unlocked

\* Somebody else may have built it meanwhile
GetLocked(r) ==
    /\ pc[r] = "lock" /\ lock = Unlocked
    /\ IF Fresh(r)
       THEN /\ got' = [got EXCEPT ![r] = cached.provider]
            /\ pc' = [pc EXCEPT ![r] = "use"]
            /\ lock' = Release(r)
       ELSE /\ lock' = r
            /\ pc' = [pc EXCEPT ![r] = "build"]
            /\ got' = got
    /\ UNCHANGED <<startVars, cached, gen, oldest>>

\* The meter comes from the provider that is the global one at this moment
Meter == provider

\* build makes the counters and histograms of that meter
Build(r) ==
    /\ pc[r] = "build"
    /\ got' = [got EXCEPT ![r] = Meter]
    /\ pc' = [pc EXCEPT ![r] = "store"]
    /\ UNCHANGED <<startVars, cached, lock, gen, oldest>>

GetStore(r) ==
    /\ pc[r] = "store"
    /\ cached' = [gen |-> gen[r], provider |-> got[r]]
    /\ lock' = Release(r)
    /\ pc' = [pc EXCEPT ![r] = "use"]
    /\ UNCHANGED <<startVars, gen, got, oldest>>

\* What get does once it has read the generation
Get(r) == GetCached(r) \/ GetLock(r) \/ GetLocked(r) \/ Build(r) \/ GetStore(r)

Start == StartBegin \/ StartWithoutProvider \/ SetMeterProvider

-----------------------------------------------------------------------------
(* Properties.                                                             *)

InstrumentsTypeOK ==
    /\ starts \in 0 .. MaxStarts /\ generation = starts
    /\ starting \in {"no", "yes"}
    /\ provider \in 0 .. generation /\ (starting = "yes" => provider < generation)
    /\ cached \in [gen : -1 .. MaxStarts, provider : 0 .. MaxStarts]
    /\ gen \in [Requests -> 0 .. MaxStarts]
    /\ got \in [Requests -> 0 .. MaxStarts]
    /\ oldest \in [Requests -> 0 .. MaxStarts]
    /\ \A r \in Requests : pc[r] \in {"build", "store"} <=> lock = r

\* A request never records to a provider older than the one before the latest it
\* could have seen: however requests and Starts interleave, the cache is at most
\* one Start behind (get, which compares generations twice).
AtMostOneBehind ==
    \A r \in Requests : pc[r] = "use" => Target(got[r]) >= oldest[r] - 1

\* No request waits for its instruments for ever, whatever Start does (get).
GetReturns == \A r \in Requests : pc[r] = "look" ~> pc[r] = "use"

=============================================================================
