----------------------------- MODULE Middleware -----------------------------
(***************************************************************************)
(* The client library's middleware: HTTPMiddleware (client/http.go) and the  *)
(* gRPC interceptors (client/grpc.go) around a handler or a call, recording   *)
(* on the instruments that lazy.get returns (module Instruments).  A process  *)
(* uses one lazy for its HTTP server, one for both kinds of gRPC handler and  *)
(* one per client interceptor; side says which of them this is.              *)
(*                                                                         *)
(* Durations and bytes are left out.  Panics are those something around the  *)
(* middleware recovers from, as net/http does.                              *)
(***************************************************************************)
EXTENDS Instruments, FiniteSets

CONSTANT MaxCalls   \* bound: the requests made

ASSUME MiddlewareAssumption == IsFiniteSet(Requests) /\ MaxCalls \in Nat

VARIABLES
    side,      \* "http", "server" or "client"
    calls,     \* how many requests were made
    call,      \* of each request: what it is, and how far
    metric,    \* the counters, each by the provider its instrument came from
    ended      \* how many requests ended in each way, by the provider of the instruments
               \* they began on; hinted: in an error that an informational status came
               \* before; panic: by a gRPC handler's panic

callVars == <<side, calls, call, metric, ended>>

vars == <<instrumentVars, callVars>>

Providers == 0 .. MaxStarts

Forms == [http |-> {"handler"}, server |-> {"handler"}, client |-> {"unary", "stream"}]

\* The errors of gRPC: none, the end of a stream, and statuses
Errors == {"nil", "EOF", "OK", "NotFound", "Internal"}

callerCodes == {"NotFound"}

classify(err) ==
    CASE err \in {"nil", "OK"} -> "ok"
      [] err \in callerCodes -> "caller"
      [] OTHER -> "server"

Counters == {"active", "requests", "errors", "clientErrors"}

Ways == {"ok", "caller", "server", "hinted", "panic"}

\* 103 is informational: net/http sends it and goes on to a final status
Codes == {103, 200, 404, 500}

NoCall ==
    [form |-> "none", status |-> 200, wrote |-> FALSE, sent |-> 0, hint |-> FALSE,
     over |-> FALSE]

Init ==
    /\ InstrumentsInit
    /\ side \in DOMAIN Forms
    /\ calls = 0
    /\ call = [r \in Requests |-> NoCall]
    /\ metric = [name \in Counters |-> [p \in Providers |-> 0]]
    /\ ended = [how \in Ways |-> [p \in Providers |-> 0]]

-----------------------------------------------------------------------------
Add(counters, name, p, n) == [counters EXCEPT ![name][p] = @ + n]

Running(r) == pc[r] = "running"

notPc == <<startVars, cached, lock, gen, got, oldest>>

Ends(r, how) ==
    /\ pc' = [pc EXCEPT ![r] = "idle"]
    /\ call' = [call EXCEPT ![r] = NoCall]
    /\ ended' = Add(ended, how, got[r], 1)

\* A request comes, and its goroutine goes into get
Arrive(r) ==
    /\ calls < MaxCalls
    /\ calls' = calls + 1
    /\ GetBegin(r)
    /\ \E form \in Forms[side] : call' = [call EXCEPT ![r] = [NoCall EXCEPT !.form = form]]
    /\ UNCHANGED <<side, metric, ended>>

\* WithSkipMethods: the handler runs by itself
Skipped(r) ==
    /\ side = "server" /\ pc[r] = "idle" /\ calls < MaxCalls
    /\ calls' = calls + 1
    /\ UNCHANGED <<instrumentVars, side, call, metric, ended>>

\* The get of the request's goroutine goes on
InGet(r) == Get(r) /\ UNCHANGED callVars

\* Clients have no counter of calls in flight
HasActive == side # "client"

\* in.active.Add, begin: the request is in flight
Begin(r) ==
    /\ pc[r] = "use"
    /\ pc' = [pc EXCEPT ![r] = "running"]
    /\ metric' = IF HasActive THEN Add(metric, "active", got[r], 1) ELSE metric
    /\ UNCHANGED <<notPc, side, calls, call, ended>>

\* Mutant of CountedOn: the instruments are fetched again at the end
CountedOnLatest(r) == provider

\* The instruments a request ends on are those it began on
CountedOn(r) == got[r]

\* What the end of a request records: HTTPMiddleware's deferred function, and
\* the function begin returns
Done(r, outcome) ==
    LET down == IF HasActive THEN Add(metric, "active", CountedOn(r), -1) ELSE metric
        counted == Add(down, "requests", CountedOn(r), 1)
    IN CASE outcome = "server" -> Add(counted, "errors", CountedOn(r), 1)
         [] outcome = "caller" /\ side = "server" -> Add(counted, "clientErrors", CountedOn(r), 1)
         [] OTHER -> counted

-----------------------------------------------------------------------------
(* net/http around HTTPMiddleware                                          *)

\* responseWriter keeps the first status
Status(c, code) == IF c.wrote THEN c.status ELSE code

\* What the client is sent: the first final status (net/http)
Sent(c, code) == IF c.sent = 0 /\ code >= 200 THEN code ELSE c.sent

\* Whether the status kept is an informational one
Hint(c, code) == IF c.wrote THEN c.hint ELSE code = 103

WriteHeader(r) ==
    /\ side = "http" /\ Running(r)
    /\ \E code \in Codes :
         call' = [call EXCEPT ![r].status = Status(call[r], code), ![r].wrote = TRUE,
                              ![r].sent = Sent(call[r], code),
                              ![r].hint = Hint(call[r], code)]
    /\ UNCHANGED <<instrumentVars, side, calls, metric, ended>>

\* A body before any header: net/http sends 200
Write(r) ==
    /\ side = "http" /\ Running(r)
    /\ call' = [call EXCEPT ![r].wrote = TRUE, ![r].sent = Sent(call[r], 200)]
    /\ UNCHANGED <<instrumentVars, side, calls, metric, ended>>

\* The handler returns, or panics; the deferred function runs either way
ServeHTTPEnds(r) ==
    /\ side = "http" /\ Running(r)
    /\ metric' = Done(r, IF call[r].status >= 500 THEN "server" ELSE "ok")
    /\ Ends(r, CASE call[r].sent < 500 -> "ok"
                 [] call[r].sent >= 500 /\ call[r].hint -> "hinted"
                 [] OTHER -> "server")
    /\ UNCHANGED <<notPc, side, calls>>

-----------------------------------------------------------------------------
(* gRPC                                                                    *)

Finishes(r, err) ==
    /\ metric' = Done(r, classify(err))
    /\ UNCHANGED <<notPc, side, calls>>

\* UnaryServerInterceptor and StreamServerInterceptor after the handler, and
\* UnaryClientInterceptor after the call
Returns(r) ==
    /\ Running(r) /\ side \in {"server", "client"} /\ call[r].form # "stream"
    /\ \E err \in Errors : Finishes(r, err) /\ Ends(r, classify(err))

\* done is not deferred in the server's interceptors
Panics(r) ==
    /\ Running(r) /\ side = "server"
    /\ Ends(r, "panic")
    /\ UNCHANGED <<notPc, side, calls, metric>>

\* StreamClientInterceptor when the stream cannot be opened
StreamerFails(r) ==
    /\ Running(r) /\ call[r].form = "stream" /\ ~ call[r].wrote
    /\ \E err \in Errors \ {"nil"} : Finishes(r, err) /\ Ends(r, classify(err))

\* ... and when it is: the caller has its clientStream
StreamerOpens(r) ==
    /\ Running(r) /\ call[r].form = "stream" /\ ~ call[r].wrote
    /\ call' = [call EXCEPT ![r].wrote = TRUE]
    /\ UNCHANGED <<instrumentVars, side, calls, metric, ended>>

StreamEnd(err) == IF err = "EOF" THEN "nil" ELSE err

\* Mutant of Once: every error counts
OnceEach(r) == TRUE

\* sync.Once
Once(r) == ~ call[r].over

\* RecvMsg returns an error, which it goes on doing when called again; the first
\* is the end of the stream.  A message changes nothing.
RecvMsg(r) ==
    /\ Running(r) /\ call[r].form = "stream" /\ call[r].wrote
    /\ \E err \in Errors \ {"nil"} :
         /\ metric' = IF Once(r) THEN Done(r, classify(StreamEnd(err))) ELSE metric
         /\ ended' = IF call[r].over THEN ended
                     ELSE Add(ended, IF err = "EOF" THEN "ok" ELSE classify(err), got[r], 1)
    /\ call' = [call EXCEPT ![r].over = TRUE]
    /\ UNCHANGED <<instrumentVars, side, calls>>

\* The caller is done with the stream, perhaps before its end
Leave(r) ==
    /\ Running(r) /\ call[r].form = "stream" /\ call[r].wrote
    /\ pc' = [pc EXCEPT ![r] = "idle"]
    /\ call' = [call EXCEPT ![r] = NoCall]
    /\ UNCHANGED <<notPc, side, calls, metric, ended>>

Serve(r) ==
    \/ Arrive(r) \/ Skipped(r) \/ InGet(r) \/ Begin(r)
    \/ WriteHeader(r) \/ Write(r) \/ ServeHTTPEnds(r)
    \/ Returns(r) \/ Panics(r)
    \/ StreamerFails(r) \/ StreamerOpens(r) \/ RecvMsg(r) \/ Leave(r)

Next == (Start /\ UNCHANGED callVars) \/ \E r \in Requests : Serve(r)

Spec == Init /\ [][Next]_vars

\* A request in get is scheduled, and gets the mutex when it is free
FairSpec == Spec /\ \A r \in Requests : WF_vars(InGet(r))

-----------------------------------------------------------------------------
(* Properties.                                                             *)

\* Where a request can be
Places == {"idle", "look", "lock", "build", "store", "use", "running"}

TypeOK ==
    /\ InstrumentsTypeOK
    /\ pc \in [Requests -> Places]
    /\ side \in DOMAIN Forms
    /\ calls \in 0 .. MaxCalls
    /\ call \in [Requests -> [form : {"none", "handler", "unary", "stream"},
                              status : Codes, wrote : BOOLEAN, sent : {0} \cup Codes,
                              hint : BOOLEAN, over : BOOLEAN]]
    /\ metric \in [Counters -> [Providers -> Int]]
    /\ ended \in [Ways -> [Providers -> Nat]]

\* The counter of requests in flight is right for every provider, also when Start has
\* installed another one since the request began: what is counted up is counted down
\* on the same instrument.  Only a panic in a gRPC handler leaves it raised, for ever
\* (HTTPMiddleware's defer; begin and done without one).
ActiveAccounted ==
    \A p \in Providers :
        metric["active"][p] = ended["panic"][p] +
            IF HasActive THEN Cardinality({r \in Requests : Running(r) /\ got[r] = p}) ELSE 0

\* Every call that ends is counted once, and only then, on the instruments it began
\* on: streams by the first error RecvMsg returns, and not if abandoned before it;
\* skipped methods not at all.
CountedOnce ==
    \A p \in Providers :
        metric["requests"][p] = ended["ok"][p] + ended["caller"][p] + ended["server"][p]
                                + ended["hinted"][p]

\* Errors are the calls that failed on the server's side: those whose client was sent
\* a status of 500 or more, or that returned a status which is not the caller's doing;
\* the end of a stream is none.  Of the former, those that had sent an informational
\* status first are missed (responseWriter.WriteHeader, classify, RecvMsg).
ErrorsTrue == \A p \in Providers : metric["errors"][p] = ended["server"][p]

\* The state is well-typed, and the counters say what happened to the calls (the
\* deferred function of HTTPMiddleware, begin's, and RecvMsg's once).
CallsCounted == TypeOK /\ CountedOnce /\ ErrorsTrue

=============================================================================
