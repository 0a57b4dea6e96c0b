---------------------------- MODULE ClientProofs ----------------------------
(***************************************************************************)
(* Proofs about the client side: that the middleware's counters are right    *)
(* and its instruments not too old, for any number of goroutines, of         *)
(* requests and of calls of Start; and that the sample application reports   *)
(* its bursts as they were, for any number of services and of keys.          *)
(***************************************************************************)
EXTENDS Middleware, SampleApp, FiniteSetTheorems, TLAPS

-----------------------------------------------------------------------------
(* Types.                                                                  *)

CallRecord ==
    [form : {"none", "handler", "unary", "stream"}, status : Codes, wrote : BOOLEAN,
     sent : {0} \cup Codes, hint : BOOLEAN, over : BOOLEAN]

\* The request that has not begun is a call record.
LEMMA NoCallType ==
    /\ NoCall \in CallRecord
    /\ \A form \in {"handler", "unary", "stream"} :
          [NoCall EXCEPT !.form = form] \in CallRecord
<1>1. NoCall \in CallRecord
    BY Zenon DEF NoCall, CallRecord, Codes
<1>2. ASSUME NEW c \in CallRecord, NEW form \in {"handler", "unary", "stream"}
      PROVE  [c EXCEPT !.form = form] \in CallRecord
    BY DEF CallRecord
<1> QED
    BY <1>1, <1>2, Zenon

\* Neither does a call record cease to be one when headers are written.
LEMMA HeaderType ==
    ASSUME NEW c \in CallRecord, NEW status \in Codes, NEW sent \in {0} \cup Codes,
           NEW hint \in BOOLEAN
    PROVE  [c EXCEPT !.status = status, !.wrote = TRUE, !.sent = sent, !.hint = hint]
               \in CallRecord
    BY DEF CallRecord

\* Counting keeps the type of the counters, and changes one of them.
LEMMA AddFacts ==
    ASSUME NEW Names, NEW T \in {Nat, Int}, NEW c \in [Names -> [Providers -> T]],
           NEW name \in Names, NEW p \in Providers, NEW n \in Int, c[name][p] + n \in T
    PROVE  /\ Add(c, name, p, n) \in [Names -> [Providers -> T]]
           /\ Add(c, name, p, n)[name][p] = c[name][p] + n
           /\ \A m \in Names, q \in Providers :
                 <<m, q>> # <<name, p>> => Add(c, name, p, n)[m][q] = c[m][q]
    BY DEF Add

\* What classify returns is a way to end.
LEMMA ClassifyType ==
    ASSUME NEW err \in Errors
    PROVE  classify(err) \in {"ok", "caller", "server"}
    BY DEF classify, Errors

\* Get moves one request on and keeps the mutex with whoever builds.
LEMMA GetTypes ==
    ASSUME TypeOK, NEW r \in Requests, Get(r)
    PROVE  /\ InstrumentsTypeOK'
           /\ pc' \in [Requests -> Places]
<1> USE InstrumentsAssumption DEF TypeOK, InstrumentsTypeOK, startVars, Places
<1>1. CASE GetCached(r)
    BY <1>1 DEF GetCached
<1>2. CASE GetLock(r)
    BY <1>2 DEF GetLock
<1>3. CASE GetLocked(r)
    BY <1>3 DEF GetLocked, Release
<1>4. CASE Build(r)
    BY <1>4 DEF Build, Meter
<1>5. CASE GetStore(r)
    BY <1>5 DEF GetStore, Release
<1> QED
    BY <1>1, <1>2, <1>3, <1>4, <1>5 DEF Get

\* Where a request is does not matter to the instruments' types, unless it builds.
LEMMA MoveTypes ==
    ASSUME TypeOK, NEW r \in Requests, NEW to \in {"idle", "running"},
           pc[r] \notin {"build", "store"}, pc' = [pc EXCEPT ![r] = to], UNCHANGED notPc
    PROVE  /\ InstrumentsTypeOK'
           /\ pc' \in [Requests -> Places]
    BY DEF TypeOK, InstrumentsTypeOK, startVars, notPc, Places

\* The end of a request keeps the counters' type.
LEMMA DoneTypes ==
    ASSUME TypeOK, NEW r \in Requests, NEW outcome
    PROVE  Done(r, outcome) \in [Counters -> [Providers -> Int]]
<1>1. got[r] \in Providers /\ metric \in [Counters -> [Providers -> Int]]
    BY DEF TypeOK, InstrumentsTypeOK, Providers
<1>2. ASSUME NEW c \in [Counters -> [Providers -> Int]], NEW name \in Counters, NEW n \in Int
      PROVE  Add(c, name, CountedOn(r), n) \in [Counters -> [Providers -> Int]]
    BY <1>1 DEF Add, CountedOn
<1> DEFINE down == IF HasActive THEN Add(metric, "active", CountedOn(r), -1) ELSE metric
           counted == Add(down, "requests", CountedOn(r), 1)
<1>0. /\ "active" \in Counters /\ "requests" \in Counters
      /\ "errors" \in Counters /\ "clientErrors" \in Counters
    BY DEF Counters
<1>3. down \in [Counters -> [Providers -> Int]]
  <2>1. -1 \in Int
      OBVIOUS
  <2>2. Add(metric, "active", CountedOn(r), -1) \in [Counters -> [Providers -> Int]]
      BY <1>0, <1>1, <1>2, <2>1
  <2> QED
      BY <1>1, <2>2
<1>4. counted \in [Counters -> [Providers -> Int]]
    BY <1>0, <1>2, <1>3
<1>5. /\ Add(counted, "errors", CountedOn(r), 1) \in [Counters -> [Providers -> Int]]
      /\ Add(counted, "clientErrors", CountedOn(r), 1) \in [Counters -> [Providers -> Int]]
    BY <1>0, <1>2, <1>4
<1> QED
    BY <1>4, <1>5 DEF Done

\* So does it the histories'.
LEMMA EndedTypes ==
    ASSUME TypeOK, NEW r \in Requests, NEW how \in Ways
    PROVE  Add(ended, how, got[r], 1) \in [Ways -> [Providers -> Nat]]
<1>1. got[r] \in Providers /\ ended \in [Ways -> [Providers -> Nat]]
    BY DEF TypeOK, InstrumentsTypeOK, Providers
<1>2. ended[how] \in [Providers -> Nat] /\ ended[how][got[r]] + 1 \in Nat
    BY <1>1
<1> QED
    BY <1>1, <1>2 DEF Add

\* Start changes nothing a request holds.
LEMMA StartTypes ==
    ASSUME TypeOK, Start
    PROVE  InstrumentsTypeOK' /\ UNCHANGED requestVars
<1> USE InstrumentsAssumption DEF TypeOK, InstrumentsTypeOK, requestVars
<1>1. CASE StartBegin
    BY <1>1 DEF StartBegin
<1>2. CASE StartWithoutProvider
    BY <1>2 DEF StartWithoutProvider
<1>3. CASE SetMeterProvider
    BY <1>3 DEF SetMeterProvider
<1> QED
    BY <1>1, <1>2, <1>3 DEF Start

\* The end of a request keeps all types.
LEMMA EndsTypes ==
    ASSUME TypeOK, NEW r \in Requests, NEW how \in Ways, Running(r), Ends(r, how),
           UNCHANGED notPc, UNCHANGED <<side, calls>>,
           metric' \in [Counters -> [Providers -> Int]]
    PROVE  TypeOK'
<1>1. InstrumentsTypeOK' /\ pc' \in [Requests -> Places]
    BY MoveTypes DEF Ends, Running
<1>2. call' \in [Requests -> CallRecord]
    BY NoCallType DEF Ends, TypeOK, CallRecord
<1>3. ended' \in [Ways -> [Providers -> Nat]]
    BY EndedTypes DEF Ends
<1> QED
    BY <1>1, <1>2, <1>3 DEF TypeOK, CallRecord

\* A request that only gets on with its handler keeps all types.
LEMMA CallTypes ==
    ASSUME TypeOK, NEW r \in Requests, NEW c \in CallRecord,
           call' = [call EXCEPT ![r] = c],
           UNCHANGED <<instrumentVars, side, calls>>,
           metric' \in [Counters -> [Providers -> Int]],
           ended' \in [Ways -> [Providers -> Nat]]
    PROVE  TypeOK'
<1>1. call' \in [Requests -> CallRecord]
    BY DEF TypeOK, CallRecord
<1> QED
    BY <1>1 DEF TypeOK, InstrumentsTypeOK, CallRecord, instrumentVars

\* Every step keeps the types.
LEMMA TypeStep == TypeOK /\ [Next]_vars => TypeOK'
<1> SUFFICES ASSUME TypeOK, [Next]_vars
             PROVE  TypeOK'
    OBVIOUS
<1>0. /\ metric \in [Counters -> [Providers -> Int]]
      /\ ended \in [Ways -> [Providers -> Nat]]
    BY DEF TypeOK
<1>1. CASE Start /\ UNCHANGED callVars
    BY <1>1, StartTypes DEF TypeOK, callVars, requestVars
<1>2. ASSUME NEW r \in Requests, Serve(r)
      PROVE  TypeOK'
  <2>0. got[r] \in Providers /\ call[r] \in CallRecord
      BY DEF TypeOK, InstrumentsTypeOK, Providers, CallRecord
  <2>1. CASE Arrive(r)
    <3>1. PICK form \in Forms[side] :
             call' = [call EXCEPT ![r] = [NoCall EXCEPT !.form = form]]
        BY <2>1 DEF Arrive
    <3>2. form \in {"handler", "unary", "stream"}
        BY <3>1 DEF Forms, TypeOK
    <3>3. call' \in [Requests -> CallRecord]
        BY <3>1, <3>2, NoCallType DEF TypeOK, CallRecord
    <3>4. Target(provider) = provider
        BY DEF Target
    <3>5. /\ InstrumentsTypeOK'
          /\ pc' \in [Requests -> Places]
        BY <2>1, <3>4, InstrumentsAssumption
           DEF Arrive, GetBegin, TypeOK, InstrumentsTypeOK, startVars, Places
    <3>6. calls' \in 0 .. MaxCalls
        BY <2>1, MiddlewareAssumption DEF Arrive, TypeOK
    <3> QED
        BY <2>1, <3>3, <3>5, <3>6 DEF Arrive, TypeOK, CallRecord
  <2>2. CASE Skipped(r)
      BY <2>2, MiddlewareAssumption DEF Skipped, TypeOK, InstrumentsTypeOK, instrumentVars
  <2>3. CASE InGet(r)
      BY <2>3, GetTypes DEF InGet, TypeOK, callVars
  <2>4. CASE Begin(r)
    <3>1. /\ InstrumentsTypeOK'
          /\ pc' \in [Requests -> Places]
        BY <2>4, MoveTypes DEF Begin
    <3>2. metric' \in [Counters -> [Providers -> Int]]
      <4>1. "active" \in Counters
          BY DEF Counters
      <4>2. Add(metric, "active", got[r], 1) \in [Counters -> [Providers -> Int]]
          BY <1>0, <2>0, <4>1 DEF Add
      <4> QED
          BY <2>4, <1>0, <4>2 DEF Begin
    <3> QED
        BY <2>4, <3>1, <3>2 DEF Begin, TypeOK
  <2>5. CASE WriteHeader(r)
    <3>1. PICK code \in Codes :
             call' = [call EXCEPT ![r].status = Status(call[r], code), ![r].wrote = TRUE,
                                  ![r].sent = Sent(call[r], code),
                                  ![r].hint = Hint(call[r], code)]
        BY <2>5 DEF WriteHeader
    <3> DEFINE c == [call[r] EXCEPT !.status = Status(call[r], code), !.wrote = TRUE,
                                    !.sent = Sent(call[r], code),
                                    !.hint = Hint(call[r], code)]
    <3>2. call' = [call EXCEPT ![r] = c]
        BY <3>1 DEF TypeOK
    <3>3. c \in CallRecord
      <4>1. Status(call[r], code) \in Codes /\ Sent(call[r], code) \in {0} \cup Codes
          BY <2>0 DEF CallRecord, Status, Sent
      <4>2. Hint(call[r], code) \in BOOLEAN
          BY <2>0 DEF CallRecord, Hint
      <4> QED
          BY <2>0, <4>1, <4>2, HeaderType
    <3> QED
        BY <2>5, <1>0, <3>2, <3>3, CallTypes DEF WriteHeader
  <2>6. CASE Write(r)
    <3> DEFINE c == [call[r] EXCEPT !.wrote = TRUE, !.sent = Sent(call[r], 200)]
    <3>1. call' = [call EXCEPT ![r] = c]
        BY <2>6 DEF Write, TypeOK
    <3>2. Sent(call[r], 200) \in {0} \cup Codes
        BY <2>0 DEF CallRecord, Sent, Codes
    <3>3. c \in CallRecord
        BY <2>0, <3>2 DEF CallRecord
    <3> QED
        BY <2>6, <1>0, <3>1, <3>3, CallTypes DEF Write
  <2>7. CASE ServeHTTPEnds(r)
    <3>1. PICK how \in Ways : Ends(r, how)
        BY <2>7 DEF ServeHTTPEnds, Ways
    <3> QED
        BY <2>7, <3>1, EndsTypes, DoneTypes DEF ServeHTTPEnds
  <2>8. ASSUME NEW err \in Errors, Running(r), Finishes(r, err), Ends(r, classify(err))
        PROVE  TypeOK'
    <3>1. classify(err) \in Ways
        BY ClassifyType DEF Ways
    <3> QED
        BY <2>8, <3>1, EndsTypes, DoneTypes DEF Finishes
  <2>9. CASE Returns(r) \/ StreamerFails(r)
      BY <2>8, <2>9 DEF Returns, StreamerFails
  <2>10. CASE Panics(r)
      BY <2>10, <1>0, EndsTypes DEF Panics, Ways
  <2>11. CASE StreamerOpens(r)
    <3>1. call' = [call EXCEPT ![r] = [call[r] EXCEPT !.wrote = TRUE]]
        BY <2>11 DEF StreamerOpens, TypeOK
    <3>2. [call[r] EXCEPT !.wrote = TRUE] \in CallRecord
        BY <2>0 DEF CallRecord
    <3> QED
        BY <2>11, <1>0, <3>1, <3>2, CallTypes DEF StreamerOpens
  <2>12. CASE RecvMsg(r)
    <3>1. call' = [call EXCEPT ![r] = [call[r] EXCEPT !.over = TRUE]]
        BY <2>12 DEF RecvMsg, TypeOK
    <3>2. [call[r] EXCEPT !.over = TRUE] \in CallRecord
        BY <2>0 DEF CallRecord
    <3>3. PICK err \in Errors \ {"nil"} :
            /\ metric' = IF Once(r) THEN Done(r, classify(StreamEnd(err))) ELSE metric
            /\ ended' = IF call[r].over THEN ended
                        ELSE Add(ended, IF err = "EOF" THEN "ok" ELSE classify(err), got[r], 1)
        BY <2>12 DEF RecvMsg
    <3>4. (IF err = "EOF" THEN "ok" ELSE classify(err)) \in Ways
        BY <3>3, ClassifyType DEF Ways
    <3>5. metric' \in [Counters -> [Providers -> Int]]
        BY <1>0, <3>3, DoneTypes
    <3>6. ended' \in [Ways -> [Providers -> Nat]]
        BY <1>0, <3>3, <3>4, EndedTypes
    <3> QED
        BY <2>12, <3>1, <3>2, <3>5, <3>6, CallTypes DEF RecvMsg
  <2>13. CASE Leave(r)
    <3>1. /\ InstrumentsTypeOK'
          /\ pc' \in [Requests -> Places]
        BY <2>13, MoveTypes DEF Leave, Running
    <3>2. call' \in [Requests -> CallRecord]
        BY <2>13, NoCallType DEF Leave, TypeOK, CallRecord
    <3> QED
        BY <2>13, <3>1, <3>2 DEF Leave, TypeOK, CallRecord
  <2> QED
      BY <1>2, <2>1, <2>2, <2>3, <2>4, <2>5, <2>6, <2>7, <2>9, <2>10, <2>11, <2>12, <2>13
         DEF Serve
<1>3. CASE UNCHANGED vars
    BY <1>3 DEF TypeOK, InstrumentsTypeOK, vars, instrumentVars, callVars
<1> QED
    BY <1>1, <1>2, <1>3 DEF Next

\* The middleware's state keeps its types, and the mutex of get is held by exactly
\* the request that builds.
THEOREM TypeCorrect == Spec => []TypeOK
<1>1. Init => TypeOK
    BY InstrumentsAssumption, MiddlewareAssumption
       DEF Init, InstrumentsInit, TypeOK, InstrumentsTypeOK, NoValue, NoCall, Codes, Forms,
           Providers, Places
<1> QED
    BY <1>1, TypeStep, PTL DEF Spec

-----------------------------------------------------------------------------
(* How old a request's instruments can be.                                 *)

\* An instrument of provider p is as new as the current generation demands: one
\* Start at most has installed a provider since the generation began
Recent(p) == p >= provider - 1 /\ (starting = "yes" => p = provider)

\* A request that has read the generation and has no instruments yet
Getting(r) == pc[r] \in {"look", "lock", "build", "store"}

\* What is built or cached for a generation is at most one provider behind what
\* anybody of that generation has seen: provider changes once at most while
\* generation stays the same.
AgeInv ==
    /\ \A r \in Requests : gen[r] <= generation /\ oldest[r] <= provider
    /\ cached.gen <= generation
    /\ cached.gen = generation => Recent(cached.provider)
    /\ \A s \in Requests : pc[s] = "store" /\ gen[s] = generation => Recent(got[s])
    /\ \A r \in Requests : Getting(r) /\ cached.gen = gen[r] =>
          cached.provider >= oldest[r] - 1
    /\ \A r, s \in Requests : Getting(r) /\ pc[s] = "store" /\ gen[s] = gen[r] =>
          got[s] >= oldest[r] - 1
    /\ \A r \in Requests : pc[r] = "use" => got[r] >= oldest[r] - 1

\* A request that ends, or begins its handler, leaves all instruments as old as
\* they are.
LEMMA AgeOfOthers ==
    ASSUME TypeOK, AgeInv, UNCHANGED notPc,
           \/ UNCHANGED pc
           \/ \E r \in Requests, to \in {"idle", "running"} : pc' = [pc EXCEPT ![r] = to]
    PROVE  AgeInv'
    BY DEF TypeOK, InstrumentsTypeOK, AgeInv, Getting, Recent, notPc, startVars

\* Start keeps the age bound: a new generation has nothing cached yet, and a new
\* provider comes only once in a generation.
LEMMA AgeStart ==
    ASSUME TypeOK, AgeInv, Start
    PROVE  AgeInv'
<1> USE DEF TypeOK, InstrumentsTypeOK, AgeInv, Getting, Recent, requestVars
<1>1. CASE StartBegin
    BY <1>1 DEF StartBegin
<1>2. CASE StartWithoutProvider
    BY <1>2 DEF StartWithoutProvider
<1>3. CASE SetMeterProvider
    BY <1>3 DEF SetMeterProvider
<1> QED
    BY <1>1, <1>2, <1>3 DEF Start

\* So does get, whoever else is in it.
LEMMA AgeGet ==
    ASSUME TypeOK, AgeInv, NEW r \in Requests, GetBegin(r) \/ Get(r)
    PROVE  AgeInv'
<1> USE DEF TypeOK, InstrumentsTypeOK, AgeInv, Getting, Recent, startVars
<1>1. CASE GetBegin(r)
    BY <1>1 DEF GetBegin, Target
<1>2. CASE GetCached(r)
    BY <1>2 DEF GetCached, Fresh
<1>3. CASE GetLock(r)
    BY <1>3 DEF GetLock
<1>4. CASE GetLocked(r)
  <2>1. CASE Fresh(r)
      BY ZenonT(30), <1>4, <2>1 DEF GetLocked, Fresh, Release
  <2>2. CASE ~ Fresh(r)
    <3>1. pc' = [pc EXCEPT ![r] = "build"] /\ UNCHANGED <<startVars, cached, gen, got, oldest>>
        BY <1>4, <2>2 DEF GetLocked
    <3> QED
        BY <1>4, <3>1 DEF GetLocked
  <2> QED
      BY <2>1, <2>2
<1>5. CASE Build(r)
    BY <1>5 DEF Build, Meter
<1>6. CASE GetStore(r)
    BY <1>6 DEF GetStore, Release
<1> QED
    BY <1>1, <1>2, <1>3, <1>4, <1>5, <1>6 DEF Get

\* Every step keeps the age bound.
LEMMA AgeStep == TypeOK /\ AgeInv /\ [Next]_vars => AgeInv'
<1> SUFFICES ASSUME TypeOK, AgeInv, [Next]_vars
             PROVE  AgeInv'
    OBVIOUS
<1>1. CASE Start /\ UNCHANGED callVars
    BY <1>1, AgeStart
<1>2. ASSUME NEW r \in Requests, Arrive(r) \/ InGet(r)
      PROVE  AgeInv'
    BY <1>2, AgeGet DEF Arrive, InGet
<1>3. ASSUME NEW r \in Requests,
             \/ Skipped(r) \/ WriteHeader(r) \/ Write(r) \/ StreamerOpens(r) \/ RecvMsg(r)
      PROVE  AgeInv'
  <2>1. UNCHANGED instrumentVars
      BY <1>3 DEF Skipped, WriteHeader, Write, StreamerOpens, RecvMsg
  <2> QED
      BY <2>1, AgeOfOthers DEF instrumentVars, notPc, startVars
<1>4. ASSUME NEW r \in Requests, Begin(r)
      PROVE  AgeInv'
    BY <1>4, AgeOfOthers DEF Begin
<1>5. ASSUME NEW r \in Requests,
             \/ ServeHTTPEnds(r) \/ Returns(r) \/ Panics(r) \/ StreamerFails(r) \/ Leave(r)
      PROVE  AgeInv'
  <2>1. UNCHANGED notPc /\ pc' = [pc EXCEPT ![r] = "idle"]
      BY <1>5 DEF ServeHTTPEnds, Returns, Panics, StreamerFails, Leave, Ends, Finishes
  <2> QED
      BY <2>1, AgeOfOthers
<1>6. CASE UNCHANGED vars
    BY <1>6, AgeOfOthers DEF vars, instrumentVars, notPc, startVars
<1> QED
    BY <1>1, <1>2, <1>3, <1>4, <1>5, <1>6 DEF Next, Serve

\* A request never records to a provider older than the one before the latest it
\* could have seen (lazy.get against Start).
THEOREM InstrumentsFresh == Spec => []AtMostOneBehind
<1>1. Init => AgeInv
    BY DEF Init, InstrumentsInit, AgeInv, Recent, Getting, NoValue
<1>2. TypeOK /\ AgeInv => AtMostOneBehind
    BY DEF TypeOK, InstrumentsTypeOK, AgeInv, AtMostOneBehind, Target
<1> QED
    BY <1>1, <1>2, AgeStep, TypeCorrect, PTL DEF Spec

-----------------------------------------------------------------------------
(* What the counters say.                                                  *)

\* A call has a form of its side: only clients have streams
FormInv == \A r \in Requests : call[r].form \in {"none"} \cup Forms[side]

\* Every step keeps the side, and the forms to it.
LEMMA FormStep == TypeOK /\ FormInv /\ [Next]_vars => FormInv' /\ UNCHANGED side
<1> SUFFICES ASSUME TypeOK, FormInv, [Next]_vars
             PROVE  FormInv' /\ UNCHANGED side
    OBVIOUS
<1>0. call \in [Requests -> CallRecord]
    BY DEF TypeOK, CallRecord
<1>1. UNCHANGED side
    BY DEF Next, Serve, callVars, vars, Arrive, Skipped, InGet, Begin, WriteHeader, Write,
           ServeHTTPEnds, Returns, Panics, StreamerFails, StreamerOpens, RecvMsg, Leave, Finishes
<1>2. CASE UNCHANGED call
    BY <1>1, <1>2 DEF FormInv
<1>3. ASSUME NEW r \in Requests, NEW c, c.form \in {"none", call[r].form} \cup Forms[side],
             call' = [call EXCEPT ![r] = c]
      PROVE  FormInv'
    BY <1>0, <1>1, <1>3 DEF FormInv
<1>4. ASSUME NEW r \in Requests, Serve(r), call' # call
      PROVE  FormInv'
  <2>1. CASE call' = [call EXCEPT ![r] = NoCall]
      BY <2>1, <1>3 DEF NoCall
  <2>2. CASE Arrive(r)
    <3>1. PICK form \in Forms[side] : call' = [call EXCEPT ![r] = [NoCall EXCEPT !.form = form]]
        BY <2>2 DEF Arrive
    <3> QED
        BY <3>1, <1>3 DEF NoCall
  <2>3. ASSUME NEW status, NEW sent, NEW hint,
               call' = [call EXCEPT ![r].status = status, ![r].wrote = TRUE, ![r].sent = sent,
                                    ![r].hint = hint]
        PROVE  FormInv'
    <3> DEFINE c == [call[r] EXCEPT !.status = status, !.wrote = TRUE, !.sent = sent,
                                    !.hint = hint]
    <3>1. call' = [call EXCEPT ![r] = c]
        BY <1>0, <2>3
    <3>2. c.form = call[r].form
        BY <1>0 DEF CallRecord
    <3> HIDE DEF c
    <3> QED
        BY <1>3, <3>1, <3>2
  <2>4. CASE WriteHeader(r)
      BY <2>3, <2>4 DEF WriteHeader
  <2>5. CASE Write(r)
      BY <1>0, <1>1, <2>5 DEF Write, FormInv, CallRecord
  <2>6. CASE StreamerOpens(r) \/ RecvMsg(r)
      BY <1>0, <1>1, <2>6 DEF StreamerOpens, RecvMsg, FormInv, CallRecord
  <2> QED
      BY <1>4, <2>1, <2>2, <2>4, <2>5, <2>6
         DEF Serve, Skipped, InGet, callVars, Begin, ServeHTTPEnds, Returns, Panics,
             StreamerFails, Leave, Ends
<1> QED
    BY <1>1, <1>2, <1>4 DEF Next, callVars, vars

\* What responseWriter remembers of a request: the status of the first header, which
\* is the final one sent unless an informational one came before it
HeaderInv ==
    side = "http" => \A r \in Requests :
        LET c == call[r]
        IN /\ ~ c.wrote => c.status = 200 /\ c.sent = 0 /\ ~ c.hint
           /\ c.wrote => c.status = IF c.hint THEN 103 ELSE c.sent

\* Every step keeps what is remembered of the headers.
LEMMA HeaderStep == TypeOK /\ FormInv /\ HeaderInv /\ [Next]_vars => HeaderInv'
<1> SUFFICES ASSUME TypeOK, FormInv, HeaderInv, [Next]_vars, side = "http"
             PROVE  HeaderInv'
    BY FormStep DEF HeaderInv
<1> DEFINE Kept(c) == /\ ~ c.wrote => c.status = 200 /\ c.sent = 0 /\ ~ c.hint
                      /\ c.wrote => c.status = IF c.hint THEN 103 ELSE c.sent
<1>0. /\ call \in [Requests -> CallRecord]
      /\ \A r \in Requests : Kept(call[r])
    BY DEF TypeOK, CallRecord, HeaderInv
<1>1. CASE UNCHANGED call
    BY <1>0, <1>1 DEF HeaderInv
<1>2. ASSUME NEW r \in Requests, NEW c, Kept(c), call' = [call EXCEPT ![r] = c]
      PROVE  HeaderInv'
    BY <1>0, <1>2 DEF HeaderInv
<1>3. ASSUME NEW r \in Requests, Serve(r), call' # call
      PROVE  HeaderInv'
  <2>0. call[r] \in CallRecord /\ Kept(call[r])
      BY <1>0
  <2>1. CASE call' = [call EXCEPT ![r] = NoCall]
      BY <2>1, <1>2 DEF NoCall
  <2>2. CASE Arrive(r)
    <3>1. PICK form : call' = [call EXCEPT ![r] = [NoCall EXCEPT !.form = form]]
        BY <2>2 DEF Arrive
    <3> QED
        BY <3>1, <1>2 DEF NoCall
  <2>3. CASE WriteHeader(r)
    <3>1. PICK code \in Codes :
             call' = [call EXCEPT ![r].status = Status(call[r], code), ![r].wrote = TRUE,
                                  ![r].sent = Sent(call[r], code),
                                  ![r].hint = Hint(call[r], code)]
        BY <2>3 DEF WriteHeader
    <3> DEFINE c == [call[r] EXCEPT !.status = Status(call[r], code), !.wrote = TRUE,
                                    !.sent = Sent(call[r], code),
                                    !.hint = Hint(call[r], code)]
    <3>2. call' = [call EXCEPT ![r] = c]
        BY ZenonT(30), <3>1, <1>0
    <3>3. /\ c.wrote
          /\ c.status = Status(call[r], code) /\ c.sent = Sent(call[r], code)
          /\ c.hint = Hint(call[r], code)
        BY <2>0 DEF CallRecord
    <3>4. Status(call[r], code) = IF Hint(call[r], code) THEN 103 ELSE Sent(call[r], code)
        BY <2>0 DEF CallRecord, Status, Hint, Sent, Codes
    <3>5. Kept(c)
        BY <3>3, <3>4
    <3> QED
        BY <3>2, <3>5, <1>2
  <2>4. CASE Write(r)
    <3> DEFINE c == [call[r] EXCEPT !.wrote = TRUE, !.sent = Sent(call[r], 200)]
    <3>1. call' = [call EXCEPT ![r] = c]
        BY ZenonT(30), <2>4, <1>0 DEF Write
    <3>2. Kept(c)
        BY <2>0 DEF CallRecord, Sent, Codes
    <3> QED
        BY <3>1, <3>2, <1>2
  <2>5. ~ StreamerOpens(r) /\ ~ RecvMsg(r)
      BY DEF StreamerOpens, RecvMsg, FormInv, Forms
  <2> QED
      BY <1>3, <2>1, <2>2, <2>3, <2>4, <2>5
         DEF Serve, Skipped, InGet, callVars, Begin, ServeHTTPEnds, Returns, Panics,
             StreamerFails, Leave, Ends
<1> QED
    BY <1>1, <1>3 DEF Next, callVars, vars

\* The end of a request counts it on the instruments it began on, and nowhere else.
LEMMA DoneFacts ==
    ASSUME TypeOK, NEW r \in Requests, NEW outcome, NEW p \in Providers
    PROVE  /\ Done(r, outcome)["active"][p] =
                 metric["active"][p] - IF HasActive /\ p = got[r] THEN 1 ELSE 0
           /\ Done(r, outcome)["requests"][p] =
                 metric["requests"][p] + IF p = got[r] THEN 1 ELSE 0
           /\ Done(r, outcome)["errors"][p] =
                 metric["errors"][p] + IF p = got[r] /\ outcome = "server" THEN 1 ELSE 0
<1> DEFINE Type == [Counters -> [Providers -> Int]]
           down == IF HasActive THEN Add(metric, "active", CountedOn(r), -1) ELSE metric
           counted == Add(down, "requests", CountedOn(r), 1)
<1>0. /\ "active" \in Counters /\ "requests" \in Counters
      /\ "errors" \in Counters /\ "clientErrors" \in Counters
    BY DEF Counters
<1>1. got[r] \in Providers /\ metric \in Type
    BY DEF TypeOK, InstrumentsTypeOK, Providers
<1>2. ASSUME NEW c \in Type, NEW name \in Counters, NEW n \in Int
      PROVE  /\ Add(c, name, CountedOn(r), n) \in Type
             /\ \A m \in Counters :
                   Add(c, name, CountedOn(r), n)[m][p] =
                       IF m = name /\ p = got[r] THEN c[m][p] + n ELSE c[m][p]
    BY <1>1 DEF Add, CountedOn
<1> HIDE DEF Type
<1>3. /\ down \in Type
      /\ \A m \in Counters :
            down[m][p] = IF HasActive /\ m = "active" /\ p = got[r] THEN metric[m][p] + (-1)
                         ELSE metric[m][p]
  <2>1. CASE HasActive
    <3>1. -1 \in Int
        OBVIOUS
    <3> QED
        BY <1>0, <1>1, <1>2, <2>1, <3>1
  <2>2. CASE ~ HasActive
      BY <1>1, <2>2
  <2> QED
      BY <2>1, <2>2
<1> HIDE DEF down
<1>4. /\ counted \in Type
      /\ \A m \in Counters :
            counted[m][p] = IF m = "requests" /\ p = got[r] THEN down[m][p] + 1 ELSE down[m][p]
    BY <1>0, <1>2, <1>3
<1> HIDE DEF counted
<1>5. \A name \in {"errors", "clientErrors"}, m \in Counters :
         Add(counted, name, CountedOn(r), 1)[m][p] =
             IF m = name /\ p = got[r] THEN counted[m][p] + 1 ELSE counted[m][p]
    BY <1>0, <1>2, <1>4
<1>6. Done(r, outcome) = CASE outcome = "server" -> Add(counted, "errors", CountedOn(r), 1)
                           [] outcome = "caller" /\ side = "server" ->
                                 Add(counted, "clientErrors", CountedOn(r), 1)
                           [] OTHER -> counted
    BY DEF Done, counted, down
<1>7. /\ metric["active"][p] \in Int /\ metric["requests"][p] \in Int
      /\ metric["errors"][p] \in Int
    BY <1>0, <1>1 DEF Type
<1>8. \A m \in Counters \ {"clientErrors"} :
         Done(r, outcome)[m][p] =
             IF m = "errors" /\ outcome = "server" /\ p = got[r] THEN counted[m][p] + 1
             ELSE counted[m][p]
    BY <1>5, <1>6
<1> QED
    BY <1>0, <1>3, <1>4, <1>7, <1>8

\* Whatever a request ends in is counted as that: errors are server errors.
LEMMA EndCounted ==
    ASSUME TypeOK, CountedOnce, ErrorsTrue, NEW r \in Requests, NEW outcome,
           NEW how \in {"ok", "caller", "server", "hinted"},
           how = "server" <=> outcome = "server",
           metric' = Done(r, outcome), ended' = Add(ended, how, got[r], 1)
    PROVE  CountedOnce' /\ ErrorsTrue'
<1>1. got[r] \in Providers /\ ended \in [Ways -> [Providers -> Nat]]
    BY DEF TypeOK, InstrumentsTypeOK, Providers
<1>2. \A w \in Ways, p \in Providers :
         ended'[w][p] = IF w = how /\ p = got[r] THEN ended[w][p] + 1 ELSE ended[w][p]
    BY <1>1 DEF Add
<1> SUFFICES ASSUME NEW p \in Providers
             PROVE  /\ metric'["requests"][p] = ended'["ok"][p] + ended'["caller"][p]
                                                + ended'["server"][p] + ended'["hinted"][p]
                    /\ metric'["errors"][p] = ended'["server"][p]
    BY DEF CountedOnce, ErrorsTrue
<1>3. /\ "ok" \in Ways /\ "caller" \in Ways /\ "server" \in Ways /\ "hinted" \in Ways
    BY DEF Ways
<1>4. /\ ended["ok"][p] \in Nat /\ ended["caller"][p] \in Nat
      /\ ended["server"][p] \in Nat /\ ended["hinted"][p] \in Nat
    BY <1>1, <1>3
<1>5. /\ metric["requests"][p] = ended["ok"][p] + ended["caller"][p] + ended["server"][p]
                                 + ended["hinted"][p]
      /\ metric["errors"][p] = ended["server"][p]
    BY DEF CountedOnce, ErrorsTrue
<1>6. /\ metric'["requests"][p] = metric["requests"][p] + IF p = got[r] THEN 1 ELSE 0
      /\ metric'["errors"][p] =
            metric["errors"][p] + IF p = got[r] /\ outcome = "server" THEN 1 ELSE 0
    BY DoneFacts
<1> QED
    BY <1>2, <1>3, <1>4, <1>5, <1>6

\* A request that ends in nothing the counters tell leaves them true.
LEMMA NothingCounted ==
    ASSUME CountedOnce, ErrorsTrue,
           \A p \in Providers : /\ metric'["requests"][p] = metric["requests"][p]
                                /\ metric'["errors"][p] = metric["errors"][p],
           \A how \in {"ok", "caller", "server", "hinted"}, p \in Providers :
               ended'[how][p] = ended[how][p]
    PROVE  CountedOnce' /\ ErrorsTrue'
    BY DEF CountedOnce, ErrorsTrue

\* Every step keeps the counters true.
LEMMA CountStep ==
    TypeOK /\ HeaderInv /\ CountedOnce /\ ErrorsTrue /\ [Next]_vars
        => CountedOnce' /\ ErrorsTrue'
<1> SUFFICES ASSUME TypeOK, HeaderInv, CountedOnce, ErrorsTrue, [Next]_vars
             PROVE  CountedOnce' /\ ErrorsTrue'
    OBVIOUS
<1>1. CASE UNCHANGED <<metric, ended>>
    BY <1>1, NothingCounted
<1>2. ASSUME NEW r \in Requests, Serve(r), ~ UNCHANGED <<metric, ended>>
      PROVE  CountedOnce' /\ ErrorsTrue'
  <2>0. /\ got[r] \in Providers /\ call[r] \in CallRecord
        /\ metric \in [Counters -> [Providers -> Int]]
        /\ ended \in [Ways -> [Providers -> Nat]]
      BY DEF TypeOK, InstrumentsTypeOK, Providers, CallRecord
  <2>1. CASE Begin(r)
    <3>1. metric' = Add(metric, "active", got[r], 1) \/ metric' = metric
        BY <2>1 DEF Begin
    <3>2. "active" \in Counters /\ "requests" \in Counters /\ "errors" \in Counters
        BY DEF Counters
    <3>3. \A p \in Providers : /\ metric'["requests"][p] = metric["requests"][p]
                               /\ metric'["errors"][p] = metric["errors"][p]
        BY <2>0, <3>1, <3>2 DEF Add
    <3> QED
        BY <2>1, <3>3, NothingCounted DEF Begin
  <2>2. CASE ServeHTTPEnds(r)
    <3> DEFINE outcome == IF call[r].status >= 500 THEN "server" ELSE "ok"
               how == CASE call[r].sent < 500 -> "ok"
                        [] call[r].sent >= 500 /\ call[r].hint -> "hinted"
                        [] OTHER -> "server"
    <3>1. metric' = Done(r, outcome) /\ Ends(r, how)
        BY <2>2 DEF ServeHTTPEnds
    <3>2. /\ ~ call[r].wrote => call[r].status = 200 /\ call[r].sent = 0
          /\ call[r].wrote => call[r].status = IF call[r].hint THEN 103 ELSE call[r].sent
        BY <2>2 DEF ServeHTTPEnds, HeaderInv
    <3>3. call[r].status \in Int /\ call[r].sent \in Int
        BY <2>0 DEF CallRecord, Codes
    <3>4. how = "server" <=> outcome = "server"
        BY <3>2, <3>3
    <3>5. how \in {"ok", "caller", "server", "hinted"}
        OBVIOUS
    <3> HIDE DEF how, outcome
    <3> QED
        BY <3>1, <3>4, <3>5, EndCounted DEF Ends
  <2>3. ASSUME NEW err \in Errors, Finishes(r, err), Ends(r, classify(err))
        PROVE  CountedOnce' /\ ErrorsTrue'
      BY <2>3, ClassifyType, EndCounted DEF Finishes, Ends
  <2>4. CASE Returns(r) \/ StreamerFails(r)
      BY <2>3, <2>4 DEF Returns, StreamerFails
  <2>5. CASE Panics(r)
    <3>1. ended' = Add(ended, "panic", got[r], 1) /\ UNCHANGED metric
        BY <2>5 DEF Panics, Ends
    <3>2. \A how \in {"ok", "caller", "server", "hinted"} : how \in Ways /\ how # "panic"
        BY DEF Ways
    <3>3. \A how \in {"ok", "caller", "server", "hinted"}, p \in Providers :
             ended'[how][p] = ended[how][p]
        BY <2>0, <3>1, <3>2 DEF Add
    <3> QED
        BY <3>1, <3>3, NothingCounted
  <2>6. CASE RecvMsg(r)
    <3>1. PICK err \in Errors \ {"nil"} :
            /\ metric' = IF Once(r) THEN Done(r, classify(StreamEnd(err))) ELSE metric
            /\ ended' = IF call[r].over THEN ended
                        ELSE Add(ended, IF err = "EOF" THEN "ok" ELSE classify(err), got[r], 1)
        BY <2>6 DEF RecvMsg
    <3> DEFINE how == IF err = "EOF" THEN "ok" ELSE classify(err)
    <3>2. metric' = Done(r, classify(StreamEnd(err))) /\ ended' = Add(ended, how, got[r], 1)
        BY <1>2, <3>1 DEF Once
    <3>3. classify(StreamEnd(err)) = how
      <4>1. CASE err = "EOF"
        <5>1. StreamEnd(err) = "nil" /\ how = "ok"
            BY <4>1 DEF StreamEnd
        <5>2. classify("nil") = "ok"
            BY DEF classify, callerCodes
        <5> QED
            BY <5>1, <5>2
      <4>2. CASE err # "EOF"
          BY <4>2 DEF StreamEnd
      <4> QED
          BY <4>1, <4>2
    <3>4. how \in {"ok", "caller", "server", "hinted"}
        BY <3>1, ClassifyType
    <3> HIDE DEF how
    <3> QED
        BY <3>2, <3>3, <3>4, EndCounted
  <2> QED
      BY <1>2, <2>1, <2>2, <2>4, <2>5, <2>6
         DEF Serve, Arrive, Skipped, InGet, callVars, WriteHeader, Write, StreamerOpens, Leave
<1> QED
    BY <1>1, <1>2 DEF Next, callVars, vars

\* Both invariants that the counters rest on hold at first.
LEMMA CallsInit == Init => FormInv /\ HeaderInv /\ CountedOnce /\ ErrorsTrue
    BY DEF Init, FormInv, HeaderInv, CountedOnce, ErrorsTrue, NoCall, Counters, Ways

\* What the middleware counts is what happened: every call that ends, once, and as an
\* error exactly when it failed on the server's side and no informational status hid
\* it, whatever calls overlap and however often Start replaces the provider.
THEOREM CallsTold == Spec => []CallsCounted
<1>1. TypeOK /\ FormInv /\ HeaderInv /\ CountedOnce /\ ErrorsTrue /\ [Next]_vars
        => (FormInv /\ HeaderInv /\ CountedOnce /\ ErrorsTrue)'
    BY FormStep, HeaderStep, CountStep
<1>2. TypeOK /\ CountedOnce /\ ErrorsTrue => CallsCounted
    BY DEF CallsCounted
<1> QED
    BY <1>1, <1>2, CallsInit, TypeCorrect, PTL DEF Spec

-----------------------------------------------------------------------------
(* The requests in flight.                                                 *)

\* The requests that the counter of provider p has to show
Flight(p) == {r \in Requests : Running(r) /\ got[r] = p}

\* Where the requests in flight and their instruments stay the same, so does their
\* number.
LEMMA FlightSame ==
    ASSUME NEW p \in Providers,
           \A r \in Requests : (Running(r) /\ got[r] = p) <=> (Running(r)' /\ got'[r] = p)
    PROVE  Flight(p)' = Flight(p)
    BY DEF Flight

\* Only finitely many requests are in flight.
LEMMA FlightFinite ==
    ASSUME NEW p \in Providers
    PROVE  IsFiniteSet(Flight(p)) /\ Cardinality(Flight(p)) \in Nat
<1>1. Flight(p) \subseteq Requests
    BY DEF Flight
<1> QED
    BY <1>1, MiddlewareAssumption, FS_Subset, FS_CardinalityType

\* A request that begins is one more in flight, on its provider.
LEMMA FlightBegins ==
    ASSUME NEW r \in Requests, pc \in [Requests -> Places], got \in [Requests -> Providers],
           ~ Running(r), pc' = [pc EXCEPT ![r] = "running"], UNCHANGED got
    PROVE  Cardinality(Flight(got[r])') = Cardinality(Flight(got[r])) + 1
<1>1. Flight(got[r])' = Flight(got[r]) \cup {r} /\ r \notin Flight(got[r])
    BY DEF Flight, Running
<1> QED
    BY <1>1, FlightFinite, FS_AddElement

\* One that ends is one less.
LEMMA FlightEnds ==
    ASSUME NEW r \in Requests, pc \in [Requests -> Places], got \in [Requests -> Providers],
           Running(r), pc' = [pc EXCEPT ![r] = "idle"], UNCHANGED got
    PROVE  Cardinality(Flight(got[r])') = Cardinality(Flight(got[r])) - 1
<1>1. Flight(got[r])' = Flight(got[r]) \ {r} /\ r \in Flight(got[r])
    BY DEF Flight, Running
<1> QED
    BY ZenonT(30), <1>1, FlightFinite, FS_RemoveElement

\* How many requests the counter of provider p has to show
InFlight(p) == IF HasActive THEN Cardinality(Flight(p)) ELSE 0

\* Every step keeps the counter of requests in flight right.
LEMMA ActiveStep ==
    TypeOK /\ FormInv /\ ActiveAccounted /\ [Next]_vars => ActiveAccounted'
<1> SUFFICES ASSUME TypeOK, FormInv, ActiveAccounted, [Next]_vars, NEW p \in Providers
             PROVE  metric'["active"][p] = ended'["panic"][p] + InFlight(p)'
    BY DEF ActiveAccounted, InFlight, Flight
<1>0. /\ metric["active"][p] = ended["panic"][p] + InFlight(p)
      /\ HasActive' <=> HasActive
    BY FormStep DEF ActiveAccounted, InFlight, Flight, HasActive
<1>1. /\ "active" \in Counters /\ "panic" \in Ways
      /\ metric \in [Counters -> [Providers -> Int]] /\ ended \in [Ways -> [Providers -> Nat]]
      /\ pc \in [Requests -> Places] /\ got \in [Requests -> Providers]
  <2>1. pc \in [Requests -> Places] /\ got \in [Requests -> Providers]
      BY DEF TypeOK, InstrumentsTypeOK, Providers, Places
  <2>2. metric \in [Counters -> [Providers -> Int]] /\ ended \in [Ways -> [Providers -> Nat]]
      BY DEF TypeOK
  <2>3. "active" \in Counters /\ "panic" \in Ways
      BY DEF Counters, Ways
  <2> QED
      BY <2>1, <2>2, <2>3
<1>2. Cardinality(Flight(p)) \in Nat /\ ended["panic"][p] \in Nat
    BY <1>1, FlightFinite
<1>3. ASSUME metric'["active"][p] = metric["active"][p], ended'["panic"][p] = ended["panic"][p],
             \A r \in Requests : (Running(r) /\ got[r] = p) <=> (Running(r)' /\ got'[r] = p)
      PROVE  metric'["active"][p] = ended'["panic"][p] + InFlight(p)'
    BY <1>0, <1>3, FlightSame DEF InFlight
<1>4. CASE Start /\ UNCHANGED callVars
    BY <1>4, <1>3, StartTypes DEF callVars, requestVars, Running
<1>5. CASE UNCHANGED vars
    BY <1>5, <1>3 DEF vars, instrumentVars, callVars, Running
<1>6. ASSUME NEW r \in Requests, Serve(r)
      PROVE  metric'["active"][p] = ended'["panic"][p] + InFlight(p)'
  <2>1. CASE Skipped(r) \/ WriteHeader(r) \/ Write(r) \/ StreamerOpens(r)
      BY <2>1, <1>3 DEF Skipped, WriteHeader, Write, StreamerOpens, instrumentVars, Running
  <2>2. CASE Arrive(r)
      BY <1>1, <2>2, <1>3 DEF Arrive, GetBegin, Running
  <2>3. CASE InGet(r)
    <3>1. UNCHANGED callVars /\ Get(r)
        BY <2>3 DEF InGet
    <3>2. /\ ~ Running(r) /\ ~ Running(r)'
          /\ \A s \in Requests : s # r => pc'[s] = pc[s] /\ got'[s] = got[s]
        BY <1>1, <3>1 DEF Get, GetCached, GetLock, GetLocked, Build, GetStore, Running
    <3> QED
        BY <3>1, <3>2, <1>3 DEF callVars, Running
  <2>4. CASE Begin(r)
    <3>1. /\ pc' = [pc EXCEPT ![r] = "running"] /\ ~ Running(r) /\ UNCHANGED <<got, ended>>
        BY <2>4 DEF Begin, Running, notPc
    <3>2. metric'["active"][p] = metric["active"][p] + IF HasActive /\ p = got[r] THEN 1 ELSE 0
        BY <1>1, <2>4 DEF Begin, Add
    <3>3. CASE p = got[r]
      <4>1. Cardinality(Flight(p)') = Cardinality(Flight(p)) + 1
          BY <1>1, <3>1, <3>3, FlightBegins
      <4> QED
          BY <1>0, <1>1, <1>2, <3>1, <3>2, <3>3, <4>1 DEF InFlight
    <3>4. CASE p # got[r]
        BY <1>1, <1>3, <3>1, <3>2, <3>4 DEF Running
    <3> QED
        BY <3>3, <3>4
  <2>5. ASSUME NEW outcome, NEW how \in {"ok", "caller", "server", "hinted"}, Running(r),
               metric' = Done(r, outcome), Ends(r, how), UNCHANGED got
        PROVE  metric'["active"][p] = ended'["panic"][p] + InFlight(p)'
    <3>1. /\ pc' = [pc EXCEPT ![r] = "idle"]
          /\ ended'["panic"][p] = ended["panic"][p]
        BY <1>1, <2>5 DEF Ends, Add
    <3>2. metric'["active"][p] = metric["active"][p] - IF HasActive /\ p = got[r] THEN 1 ELSE 0
        BY <2>5, DoneFacts
    <3>3. CASE p = got[r]
      <4>1. Cardinality(Flight(p)') = Cardinality(Flight(p)) - 1
          BY <1>1, <2>5, <3>1, <3>3, FlightEnds
      <4> QED
          BY <1>0, <1>1, <1>2, <3>1, <3>2, <3>3, <4>1 DEF InFlight
    <3>4. CASE p # got[r]
        BY <1>1, <1>3, <2>5, <3>1, <3>2, <3>4 DEF Running
    <3> QED
        BY <3>3, <3>4
  <2>6. CASE ServeHTTPEnds(r)
    <3>1. PICK how \in {"ok", "caller", "server", "hinted"} : Ends(r, how)
        BY <2>6 DEF ServeHTTPEnds
    <3> QED
        BY <2>6, <2>5, <3>1 DEF ServeHTTPEnds, notPc
  <2>7. CASE Returns(r) \/ StreamerFails(r)
    <3>1. PICK err \in Errors : Finishes(r, err) /\ Ends(r, classify(err)) /\ Running(r)
        BY <2>7 DEF Returns, StreamerFails
    <3> QED
        BY <2>5, <3>1, ClassifyType DEF Finishes, notPc
  <2>8. CASE Panics(r)
    <3>1. /\ Running(r) /\ HasActive /\ pc' = [pc EXCEPT ![r] = "idle"]
          /\ ended' = Add(ended, "panic", got[r], 1) /\ UNCHANGED <<got, metric>>
        BY <2>8 DEF Panics, Ends, notPc, HasActive
    <3>2. ended'["panic"][p] = ended["panic"][p] + IF p = got[r] THEN 1 ELSE 0
        BY <1>1, <3>1 DEF Add
    <3>3. CASE p = got[r]
      <4>1. Cardinality(Flight(p)') = Cardinality(Flight(p)) - 1
          BY <1>1, <3>1, <3>3, FlightEnds
      <4> QED
          BY <1>0, <1>1, <1>2, <3>1, <3>2, <3>3, <4>1 DEF InFlight
    <3>4. CASE p # got[r]
        BY <1>1, <1>2, <1>3, <3>1, <3>2, <3>4 DEF Running
    <3> QED
        BY <3>3, <3>4
  <2>9. CASE RecvMsg(r) \/ Leave(r)
    <3>1. side = "client"
        BY <2>9 DEF RecvMsg, Leave, FormInv, Forms, TypeOK
    <3>2. ~ HasActive
        BY <3>1 DEF HasActive
    <3>3. CASE Leave(r)
        BY <1>0, <3>2, <3>3 DEF Leave, InFlight
    <3>4. CASE RecvMsg(r)
      <4>1. PICK err \in Errors \ {"nil"} :
              /\ metric' = IF Once(r) THEN Done(r, classify(StreamEnd(err))) ELSE metric
              /\ ended' = IF call[r].over THEN ended
                          ELSE Add(ended, IF err = "EOF" THEN "ok" ELSE classify(err), got[r], 1)
          BY <3>4 DEF RecvMsg
      <4>2. (IF err = "EOF" THEN "ok" ELSE classify(err)) # "panic"
          BY <4>1, ClassifyType
      <4>3. ended'["panic"][p] = ended["panic"][p]
          BY <1>1, <4>1, <4>2 DEF Add
      <4>4. metric'["active"][p] = metric["active"][p]
          BY <1>1, <3>2, <4>1, DoneFacts
      <4> QED
          BY <1>0, <3>2, <4>3, <4>4 DEF InFlight
    <3> QED
        BY <2>9, <3>3, <3>4
  <2> QED
      BY <1>6, <2>1, <2>2, <2>3, <2>4, <2>6, <2>7, <2>8, <2>9 DEF Serve
<1> QED
    BY <1>4, <1>5, <1>6 DEF Next

\* The counter of requests in flight is right, on every provider's instrument, but for
\* the gRPC handlers that panicked.
THEOREM ActiveRight == Spec => []ActiveAccounted
<1>1. Init => ActiveAccounted
  <2> SUFFICES ASSUME Init, NEW p \in Providers
               PROVE  metric["active"][p] = ended["panic"][p] + InFlight(p)
      BY DEF ActiveAccounted, InFlight, Flight
  <2>1. Flight(p) = {}
      BY DEF Init, InstrumentsInit, Flight, Running
  <2> QED
      BY <2>1, FS_EmptySet DEF Init, InFlight, Counters, Ways
<1> QED
    BY <1>1, CallsInit, FormStep, ActiveStep, TypeCorrect, PTL DEF Spec

-----------------------------------------------------------------------------
(* The sample application: types.                                          *)

\* The initial state is well-typed.
LEMMA AppTypeInit == AppInit => AppTypeOK
<1> SUFFICES ASSUME AppInit PROVE AppTypeOK
  OBVIOUS
<1>1. nextBlip \in [Services -> Nat]
  BY SampleAppAssumption DEF AppInit
<1>2. /\ until \in [Services -> Untils(Duration)]
      /\ blip \in [Services -> UNION {Untils(d) : d \in BlipFor \cup {0}}]
  BY DEF AppInit, Untils
<1>3. todo \in Seq(Services) /\ log \in [Services -> Seq(Report)]
  BY DEF AppInit
<1>4. clock \in 1 .. MaxTime /\ now \in [Services -> 0 .. clock] /\ read \in 0 .. clock
      /\ keys \in 0 .. MaxKeys
  BY SampleAppAssumption DEF AppInit
<1>5. paused \in BOOLEAN
  BY Zenon DEF AppInit
<1>6. /\ current \in [Services -> {"normal", "blipping", "bursting"}]
      /\ loop \in [Services -> {"select", "blip", "pace", "tick", "returned"}]
      /\ main \in {"control", "cancelled", "shutdown", "exited"}
  BY DEF AppInit
<1> QED
  BY <1>1, <1>2, <1>3, <1>4, <1>5, <1>6 DEF AppTypeOK

\* What a report adds to a log.
LEMMA ReportedType ==
    ASSUME NEW s \in Services, NEW what \in {"Bursting", "Ended"}, NEW t \in Nat,
           log \in [Services -> Seq(Report)]
    PROVE  /\ Reported(s, what, t) \in [Services -> Seq(Report)]
           /\ \A x \in Services : x # s => Reported(s, what, t)[x] = log[x]
           /\ Len(Reported(s, what, t)[s]) = Len(log[s]) + 1
           /\ Reported(s, what, t)[s][Len(log[s]) + 1] = [what |-> what, at |-> t]
           /\ \A i \in 1 .. Len(log[s]) : Reported(s, what, t)[s][i] = log[s][i]
<1>1. [what |-> what, at |-> t] \in Report
  BY DEF Report
<1> DEFINE new == Append(log[s], [what |-> what, at |-> t])
<1>2. /\ new \in Seq(Report) /\ Len(new) = Len(log[s]) + 1
      /\ new[Len(log[s]) + 1] = [what |-> what, at |-> t]
      /\ \A i \in 1 .. Len(log[s]) : new[i] = log[s][i]
  BY <1>1
<1> HIDE DEF new
<1>3. Reported(s, what, t) = [log EXCEPT ![s] = new]
  BY DEF Reported, new
<1> QED
  BY <1>2, <1>3

\* Every step keeps the state well-typed.
LEMMA AppTypeStep == AppTypeOK /\ [AppNext]_appVars => AppTypeOK'
<1> SUFFICES ASSUME AppTypeOK, [AppNext]_appVars PROVE AppTypeOK'
  OBVIOUS
<1> USE SampleAppAssumption
<1>0. clock \in Nat /\ MaxTime \in Nat /\ read \in Nat /\ now \in [Services -> Nat]
  BY DEF AppTypeOK
<1>1. CASE Key
  <2>1. todo' \in Seq(Services)
    <3>1. CASE todo' = [s \in Services |-> s]
      BY <3>1 DEF Services
    <3>2. ASSUME NEW s \in Services, todo' = <<s>> PROVE todo' \in Seq(Services)
      BY <3>2
    <3>3. CASE UNCHANGED todo
      BY <3>3 DEF AppTypeOK
    <3> QED
      BY <1>1, <3>1, <3>2, <3>3, Zenon DEF Key
  <2>2. paused' \in BOOLEAN
    <3>1. paused \in BOOLEAN
      BY Zenon DEF AppTypeOK
    <3> QED
      BY <1>1, <3>1, Zenon DEF Key, togglePause
  <2>3. main' \in {"control", "cancelled", "shutdown", "exited"}
    BY <1>1 DEF Key, AppTypeOK
  <2>4. keys' \in 0 .. MaxKeys
    BY <1>1 DEF Key, AppTypeOK
  <2>5. UNCHANGED <<clock, until, blip, nextBlip, current, loop, now, read, log>>
    BY <1>1 DEF Key
  <2> QED
    BY <2>1, <2>2, <2>3, <2>4, <2>5 DEF AppTypeOK
<1>2. CASE Signal \/ Exit
  BY <1>2 DEF Signal, Exit, AppTypeOK
<1>3. CASE ReadClock
  BY <1>3 DEF ReadClock, AppTypeOK
<1>4. CASE StartBurst
  <2> DEFINE s == Head(todo)
  <2>1. s \in Services /\ Tail(todo) \in Seq(Services)
    BY <1>4 DEF StartBurst, AppTypeOK
  <2> HIDE DEF s
  <2>2. startFor(until[s], read, Duration) \in Untils(Duration)
    <3>1. read \in 1 .. MaxTime /\ until[s] \in Untils(Duration)
      BY <1>4, <2>1 DEF StartBurst, AppTypeOK
    <3> QED
      BY <3>1 DEF startFor, Untils
  <2>3. until' \in [Services -> Untils(Duration)]
    <3>1. until' = [until EXCEPT ![s] = startFor(@, read, Duration)]
      BY <1>4 DEF StartBurst, s
    <3> QED
      BY <2>1, <2>2, <3>1 DEF AppTypeOK
  <2>4. log' \in [Services -> Seq(Report)]
    <3>1. log' = IF Begins(until[s], read) THEN Reported(s, "Bursting", read) ELSE log
      BY <1>4 DEF StartBurst, s
    <3> QED
      BY <1>0, <2>1, <3>1, ReportedType DEF AppTypeOK
  <2>5. todo' = Tail(todo) /\ read' = 0
        /\ UNCHANGED <<clock, blip, nextBlip, current, loop, now, paused, keys, main>>
    BY <1>4 DEF StartBurst
  <2>6. todo' \in Seq(Services) /\ read' \in 0 .. clock'
    BY <1>0, <2>1, <2>5
  <2> QED
    BY <2>3, <2>4, <2>5, <2>6 DEF AppTypeOK
<1>5. CASE Tick
  <2>1. clock' = clock + 1 /\ clock' \in 1 .. MaxTime
    BY <1>5 DEF Tick, AppTypeOK
  <2>2. 0 .. clock \subseteq 0 .. clock'
    BY <1>0, <2>1
  <2>3. UNCHANGED <<until, blip, nextBlip, current, loop, now, todo, read, paused, keys,
                    main, log>>
    BY <1>5 DEF Tick
  <2>4. now \in [Services -> 0 .. clock] /\ read \in 0 .. clock
    BY DEF AppTypeOK
  <2>5. \A s \in Services : now[s] \in 0 .. clock'
    BY <2>2, <2>4
  <2>6. now' \in [Services -> 0 .. clock'] /\ read' \in 0 .. clock'
    BY <2>2, <2>3, <2>4, <2>5
  <2> QED
    BY <2>1, <2>3, <2>6 DEF AppTypeOK
<1>6. ASSUME NEW s \in Services, TickerFires(s) \/ NoBlip(s) \/ RunReturns(s)
      PROVE  AppTypeOK'
  <2>1. \E place \in {"blip", "pace", "returned"} : loop' = [loop EXCEPT ![s] = place]
    BY <1>6 DEF TickerFires, NoBlip, RunReturns
  <2>2. loop' \in [Services -> {"select", "blip", "pace", "tick", "returned"}]
    BY <2>1 DEF AppTypeOK
  <2>3. now' \in [Services -> 0 .. clock]
    <3>1. now \in [Services -> 0 .. clock] /\ clock \in 0 .. clock
      BY <1>0 DEF AppTypeOK
    <3>2. now' = [now EXCEPT ![s] = clock] \/ now' = now
      BY <1>6 DEF TickerFires, NoBlip, RunReturns
    <3> QED
      BY <3>1, <3>2
  <2>4. UNCHANGED <<clock, until, blip, nextBlip, current, todo, read, paused, keys, main,
                    log>>
    BY <1>6 DEF TickerFires, NoBlip, RunReturns
  <2> QED
    BY <2>2, <2>3, <2>4 DEF AppTypeOK
<1>7. ASSUME NEW s \in Services, Pace(s) PROVE AppTypeOK'
  <2>1. PaceAt(s, now[s]) \in {"normal", "blipping", "bursting"}
    BY DEF PaceAt
  <2> QED
    BY <1>7, <2>1 DEF Pace, AppTypeOK
<1>8. ASSUME NEW s \in Services, Blip(s) PROVE AppTypeOK'
  <2>1. PICK d \in BlipFor : /\ blip' = [blip EXCEPT ![s] = startFor(@, now[s], d)]
                             /\ \E t \in NextBlip(s, d) :
                                   nextBlip' = [nextBlip EXCEPT ![s] = t]
    BY <1>8 DEF Blip
  <2>2. PICK g \in BlipGap : nextBlip' = [nextBlip EXCEPT ![s] = now[s] + d + g]
    BY <2>1 DEF NextBlip
  <2>3. now[s] \in 1 .. MaxTime
    <3>1. now[s] \in 0 .. MaxTime /\ nextBlip[s] \in Nat
      BY DEF AppTypeOK
    <3> QED
      BY <1>8, <3>1 DEF Blip, BlipDue
  <2>4. startFor(blip[s], now[s], d) \in UNION {Untils(e) : e \in BlipFor \cup {0}}
    <3>1. now[s] + d \in Untils(d)
      BY <2>3 DEF Untils
    <3>2. blip[s] \in UNION {Untils(e) : e \in BlipFor \cup {0}}
      BY DEF AppTypeOK
    <3> QED
      BY <3>1, <3>2 DEF startFor
  <2>5. blip' \in [Services -> UNION {Untils(e) : e \in BlipFor \cup {0}}]
    BY <2>1, <2>4 DEF AppTypeOK
  <2>6. now[s] + d + g \in Nat
    BY <2>3
  <2>7. nextBlip' \in [Services -> Nat]
    BY <2>2, <2>6 DEF AppTypeOK
  <2>8. loop' = [loop EXCEPT ![s] = "pace"]
        /\ UNCHANGED <<clock, until, current, now, todo, read, paused, keys, main, log>>
    BY <1>8 DEF Blip
  <2>9. loop' \in [Services -> {"select", "blip", "pace", "tick", "returned"}]
    BY <2>8 DEF AppTypeOK
  <2> QED
    BY <2>5, <2>7, <2>8, <2>9 DEF AppTypeOK
<1>9. ASSUME NEW s \in Services, Ticks(s) PROVE AppTypeOK'
  <2>1. /\ until' = [until EXCEPT ![s] = Ticked(@, now[s])]
        /\ log' = IF Expired(until[s], now[s]) THEN Reported(s, "Ended", now[s]) ELSE log
        /\ blip' = [blip EXCEPT ![s] = Ticked(@, now[s])]
        /\ loop' = [loop EXCEPT ![s] = "select"]
        /\ UNCHANGED <<clock, nextBlip, current, now, todo, read, paused, keys, main>>
    BY <1>9 DEF Ticks
  <2>2. until' \in [Services -> Untils(Duration)]
    BY <2>1 DEF AppTypeOK, Ticked, Untils
  <2>3. blip' \in [Services -> UNION {Untils(e) : e \in BlipFor \cup {0}}]
    <3>1. 0 \in UNION {Untils(e) : e \in BlipFor \cup {0}}
      BY DEF Untils
    <3>2. Ticked(blip[s], now[s]) \in UNION {Untils(e) : e \in BlipFor \cup {0}}
      BY <3>1 DEF Ticked, AppTypeOK
    <3> QED
      BY <2>1, <3>2 DEF AppTypeOK
  <2>4. log' \in [Services -> Seq(Report)]
    BY <1>0, <2>1, ReportedType DEF AppTypeOK
  <2>5. loop' \in [Services -> {"select", "blip", "pace", "tick", "returned"}]
    BY <2>1 DEF AppTypeOK
  <2> QED
    BY <2>1, <2>2, <2>3, <2>4, <2>5 DEF AppTypeOK
<1>10. CASE UNCHANGED appVars
  BY <1>10 DEF appVars, AppTypeOK
<1> QED
  BY <1>1, <1>2, <1>3, <1>4, <1>5, <1>6, <1>7, <1>8, <1>9, <1>10
  DEF AppNext, Control, Run

-----------------------------------------------------------------------------
(* The reports of a burst.                                                 *)

\* What BurstsReported says of one service's reports
WellReported(l) ==
    \A i \in 1 .. Len(l) :
        /\ i = 1 => l[i].what = "Bursting"
        /\ i > 1 /\ l[i - 1].what = "Bursting" => l[i].at >= l[i - 1].at + Duration
        /\ i > 1 /\ l[i].what = "Ended" => l[i - 1].what = "Bursting"

\* Whether the last report is of a burst that began
Begun(l) == Len(l) > 0 /\ l[Len(l)].what = "Bursting"

\* The inductive invariant: a service's burst is until the end of the one it reported
\* last, and idle if it reported that one's end; and the blip is over when the next is due
BurstInv ==
    \A s \in Services :
        /\ blip[s] = 0 \/ blip[s] < nextBlip[s]
        /\ until[s] # 0 <=> Begun(log[s])
        /\ Begun(log[s]) => until[s] = log[s][Len(log[s])].at + Duration
        /\ WellReported(log[s])

\* Reports stay well-ordered when a burst begins that no unfinished one precedes, and
\* when one that began ends.
LEMMA ReportAdded ==
    ASSUME NEW l \in Seq(Report), NEW m \in Seq(Report), WellReported(l),
           Len(m) = Len(l) + 1, \A i \in 1 .. Len(l) : m[i] = l[i],
           m[Len(m)].what = "Bursting" \/ Begun(l),
           Begun(l) => m[Len(m)].at >= l[Len(l)].at + Duration
    PROVE  WellReported(m)
<1> USE SampleAppAssumption
<1>0. PICK n \in Nat : n = Len(l)
  OBVIOUS
<1> SUFFICES ASSUME NEW i \in 1 .. n + 1
             PROVE  /\ i = 1 => m[i].what = "Bursting"
                    /\ i > 1 /\ m[i - 1].what = "Bursting" =>
                          m[i].at >= m[i - 1].at + Duration
                    /\ i > 1 /\ m[i].what = "Ended" => m[i - 1].what = "Bursting"
  BY <1>0 DEF WellReported
<1>1. CASE i <= n
  <2>1. i \in 1 .. n /\ (i > 1 => i - 1 \in 1 .. n)
    BY <1>1
  <2>2. m[i] = l[i] /\ (i > 1 => m[i - 1] = l[i - 1])
    BY <1>0, <2>1
  <2> QED
    BY <1>0, <2>1, <2>2 DEF WellReported
<1>2. CASE i = n + 1
  <2>1. i > 1 => i - 1 = n /\ n \in 1 .. n /\ m[i - 1] = l[n]
    BY <1>0, <1>2
  <2>2. i = 1 => ~ Begun(l)
    BY <1>0, <1>2 DEF Begun
  <2>3. m[i].what = "Bursting" \/ Begun(l)
    BY <1>0, <1>2
  <2>4. i > 1 => (Begun(l) <=> m[i - 1].what = "Bursting")
    BY <1>0, <1>2, <2>1 DEF Begun
  <2>5. i > 1 /\ Begun(l) => m[i].at >= m[i - 1].at + Duration
    BY <1>0, <1>2, <2>1
  <2> QED
    BY <2>2, <2>3, <2>4, <2>5
<1> QED
  BY <1>1, <1>2

\* A service whose burst, blip and log a step leaves alone keeps the invariant.
LEMMA BurstOfOthers ==
    BurstInv /\ UNCHANGED <<until, blip, nextBlip, log>> => BurstInv'
BY DEF BurstInv, WellReported, Begun

\* Every step keeps the invariant: the key loop starts a burst only when the time it read
\* is past the last one's end, and the request loop ends one only then.
LEMMA BurstStep == AppTypeOK /\ BurstInv /\ [AppNext]_appVars => BurstInv'
<1> SUFFICES ASSUME AppTypeOK, BurstInv, [AppNext]_appVars PROVE BurstInv'
  OBVIOUS
<1> USE SampleAppAssumption
<1>0. /\ read \in Nat /\ now \in [Services -> Nat] /\ nextBlip \in [Services -> Nat]
      /\ until \in [Services -> Nat] /\ log \in [Services -> Seq(Report)]
      /\ blip \in [Services -> Nat]
  <2>1. \A d \in Nat : Untils(d) \subseteq Nat
    BY DEF Untils
  <2>2. UNION {Untils(d) : d \in BlipFor \cup {0}} \subseteq Nat
    BY <2>1
  <2>3. Untils(Duration) \subseteq Nat
    BY <2>1
  <2>4. until \in [Services -> Untils(Duration)] /\ log \in [Services -> Seq(Report)]
        /\ blip \in [Services -> UNION {Untils(d) : d \in BlipFor \cup {0}}]
    BY DEF AppTypeOK
  <2>5. until \in [Services -> Nat] /\ blip \in [Services -> Nat]
    BY <2>2, <2>3, <2>4
  <2> QED
    BY <2>4, <2>5 DEF AppTypeOK
<1>1. CASE StartBurst
  <2>0. Head(todo) \in Services
    BY <1>1 DEF StartBurst, AppTypeOK
  <2>1. PICK s \in Services : s = Head(todo)
    BY <2>0
  <2>2. /\ until' = [until EXCEPT ![s] = startFor(@, read, Duration)]
        /\ log' = IF Begins(until[s], read) THEN Reported(s, "Bursting", read) ELSE log
        /\ read # 0 /\ UNCHANGED <<blip, nextBlip>>
    BY <1>1, <2>1 DEF StartBurst
  <2>3. CASE Begins(until[s], read)
    <3>1. log' = Reported(s, "Bursting", read)
      BY <2>2, <2>3
    <3>2. until' = [until EXCEPT ![s] = read + Duration]
      BY <2>2, <2>3 DEF startFor
    <3>3. /\ log' \in [Services -> Seq(Report)]
          /\ \A x \in Services : x # s => log'[x] = log[x]
          /\ Len(log'[s]) = Len(log[s]) + 1
          /\ log'[s][Len(log[s]) + 1] = [what |-> "Bursting", at |-> read]
          /\ \A i \in 1 .. Len(log[s]) : log'[s][i] = log[s][i]
      <4>1. PICK what \in {"Bursting", "Ended"} : what = "Bursting"
        OBVIOUS
      <4>2. PICK t \in Nat : t = read
        BY <1>0
      <4> DEFINE l == Reported(s, what, t)
      <4>3. /\ l \in [Services -> Seq(Report)]
            /\ \A x \in Services : x # s => l[x] = log[x]
            /\ Len(l[s]) = Len(log[s]) + 1
            /\ l[s][Len(log[s]) + 1] = [what |-> what, at |-> t]
            /\ \A i \in 1 .. Len(log[s]) : l[s][i] = log[s][i]
        <5>1. log \in [Services -> Seq(Report)]
          BY <1>0
        <5> QED
          BY <5>1, ReportedType
      <4>4. log' = l
        BY <3>1, <4>1, <4>2
      <4> HIDE DEF l
      <4> QED
        BY <4>1, <4>2, <4>3, <4>4
    <3>4. Begun(log'[s]) /\ log'[s][Len(log'[s])].at = read
          /\ log'[s][Len(log'[s])].what = "Bursting"
      BY <1>0, <2>1, <3>3 DEF Begun
    <3>5. until'[s] = read + Duration /\ until'[s] # 0
      BY <1>0, <2>1, <2>2, <3>2
    <3>6. Begun(log[s]) => read >= log[s][Len(log[s])].at + Duration
      <4>1. until[s] = 0 \/ read >= until[s]
        BY <1>0, <2>1, <2>3 DEF Begins, Active
      <4> QED
        BY <1>0, <2>1, <4>1 DEF BurstInv
    <3>7. WellReported(log'[s])
      <4>1. log[s] \in Seq(Report) /\ log'[s] \in Seq(Report) /\ WellReported(log[s])
        BY <1>0, <2>1, <3>3 DEF BurstInv
      <4> QED
        BY <3>3, <3>4, <3>6, <4>1, ReportAdded
    <3>8. ASSUME NEW x \in Services
          PROVE  /\ blip'[x] = 0 \/ blip'[x] < nextBlip'[x]
                 /\ until'[x] # 0 <=> Begun(log'[x])
                 /\ Begun(log'[x]) => until'[x] = log'[x][Len(log'[x])].at + Duration
                 /\ WellReported(log'[x])
      <4>1. CASE x = s
        BY <2>2, <3>4, <3>5, <3>7, <4>1 DEF BurstInv
      <4>2. CASE x # s
        <5>1. until'[x] = until[x] /\ log'[x] = log[x] /\ blip'[x] = blip[x]
              /\ nextBlip'[x] = nextBlip[x]
          BY <1>0, <2>1, <2>2, <3>2, <3>3, <4>2
        <5> QED
          BY <5>1 DEF BurstInv
      <4> QED
        BY <4>1, <4>2
    <3> QED
      BY <3>8, Zenon DEF BurstInv
  <2>4. CASE ~ Begins(until[s], read)
    <3>1. UNCHANGED <<until, log>>
      BY <1>0, <2>1, <2>2, <2>4 DEF startFor
    <3> QED
      BY <2>2, <3>1, BurstOfOthers
  <2> QED
    BY <2>3, <2>4
<1>2. ASSUME NEW s \in Services, Ticks(s) PROVE BurstInv'
  <2>1. /\ until' = [until EXCEPT ![s] = Ticked(@, now[s])]
        /\ log' = IF Expired(until[s], now[s]) THEN Reported(s, "Ended", now[s]) ELSE log
        /\ blip' = [blip EXCEPT ![s] = Ticked(@, now[s])]
        /\ UNCHANGED nextBlip
    BY <1>2 DEF Ticks
  <2>2. ASSUME NEW x \in Services PROVE blip'[x] = 0 \/ blip'[x] < nextBlip'[x]
    <3>1. blip'[x] = 0 \/ blip'[x] = blip[x]
      BY <1>0, <2>1 DEF Ticked
    <3> QED
      BY <2>1, <3>1 DEF BurstInv
  <2>3. CASE Expired(until[s], now[s])
    <3>1. log' = Reported(s, "Ended", now[s])
      BY <2>1, <2>3
    <3>2. until' = [until EXCEPT ![s] = 0]
      BY <2>1, <2>3 DEF Ticked
    <3>3. /\ log' \in [Services -> Seq(Report)]
          /\ \A x \in Services : x # s => log'[x] = log[x]
          /\ Len(log'[s]) = Len(log[s]) + 1
          /\ log'[s][Len(log[s]) + 1] = [what |-> "Ended", at |-> now[s]]
          /\ \A i \in 1 .. Len(log[s]) : log'[s][i] = log[s][i]
      <4>1. PICK what \in {"Bursting", "Ended"} : what = "Ended"
        OBVIOUS
      <4>2. PICK t \in Nat : t = now[s]
        BY <1>0
      <4> DEFINE l == Reported(s, what, t)
      <4>3. /\ l \in [Services -> Seq(Report)]
            /\ \A x \in Services : x # s => l[x] = log[x]
            /\ Len(l[s]) = Len(log[s]) + 1
            /\ l[s][Len(log[s]) + 1] = [what |-> what, at |-> t]
            /\ \A i \in 1 .. Len(log[s]) : l[s][i] = log[s][i]
        BY <1>0, ReportedType
      <4>4. log' = l
        BY <3>1, <4>1, <4>2
      <4> HIDE DEF l
      <4> QED
        BY <4>1, <4>2, <4>3, <4>4
    <3>4. ~ Begun(log'[s]) /\ log'[s][Len(log'[s])].at = now[s]
      BY <1>0, <3>3 DEF Begun
    <3>5. Begun(log[s]) /\ now[s] >= log[s][Len(log[s])].at + Duration
      <4>1. until[s] # 0 /\ now[s] >= until[s]
        BY <1>0, <2>3 DEF Expired
      <4> QED
        BY <1>0, <4>1 DEF BurstInv
    <3>6. WellReported(log'[s])
      <4>1. log[s] \in Seq(Report) /\ log'[s] \in Seq(Report) /\ WellReported(log[s])
        BY <1>0, <3>3 DEF BurstInv
      <4> QED
        BY <3>3, <3>4, <3>5, <4>1, ReportAdded
    <3>7. ASSUME NEW x \in Services
          PROVE  /\ until'[x] # 0 <=> Begun(log'[x])
                 /\ Begun(log'[x]) => until'[x] = log'[x][Len(log'[x])].at + Duration
                 /\ WellReported(log'[x])
      <4>1. CASE x = s
        BY <1>0, <3>2, <3>4, <3>6, <4>1
      <4>2. CASE x # s
        <5>1. until'[x] = until[x] /\ log'[x] = log[x]
          BY <1>0, <3>2, <3>3, <4>2
        <5> QED
          BY <5>1 DEF BurstInv
      <4> QED
        BY <4>1, <4>2
    <3> QED
      BY <2>2, <3>7, Zenon DEF BurstInv
  <2>4. CASE ~ Expired(until[s], now[s])
    <3>1. UNCHANGED <<until, log>>
      BY <1>0, <2>1, <2>4 DEF Ticked
    <3> QED
      BY <2>2, <3>1 DEF BurstInv, Begun, WellReported
  <2> QED
    BY <2>3, <2>4
<1>3. ASSUME NEW s \in Services, Blip(s) PROVE BurstInv'
  <2>1. PICK d \in BlipFor : /\ blip' = [blip EXCEPT ![s] = startFor(@, now[s], d)]
                             /\ \E t \in NextBlip(s, d) :
                                   nextBlip' = [nextBlip EXCEPT ![s] = t]
    BY <1>3 DEF Blip
  <2>2. PICK g \in BlipGap : nextBlip' = [nextBlip EXCEPT ![s] = now[s] + d + g]
    BY <2>1 DEF NextBlip
  <2>3. startFor(blip[s], now[s], d) = now[s] + d
    <3>1. now[s] > nextBlip[s]
      BY <1>3 DEF Blip, BlipDue
    <3>2. blip[s] = 0 \/ blip[s] < nextBlip[s]
      BY DEF BurstInv
    <3> QED
      BY <1>0, <3>1, <3>2 DEF startFor, Begins, Active
  <2>4. ASSUME NEW x \in Services PROVE blip'[x] = 0 \/ blip'[x] < nextBlip'[x]
    <3>1. CASE x = s
      <4>1. blip'[s] = now[s] + d /\ nextBlip'[s] = now[s] + d + g
        BY <1>0, <2>1, <2>2, <2>3
      <4>2. now[s] \in Nat /\ d \in Nat /\ g \in Nat /\ g > 0
        BY <1>0
      <4> QED
        BY <3>1, <4>1, <4>2
    <3>2. CASE x # s
      BY <1>0, <2>1, <2>2, <3>2 DEF BurstInv
    <3> QED
      BY <3>1, <3>2
  <2>5. UNCHANGED <<until, log>>
    BY <1>3 DEF Blip
  <2> QED
    BY <2>4, <2>5 DEF BurstInv, Begun, WellReported
<1>4. CASE Key \/ Signal \/ Exit \/ ReadClock \/ Tick
           \/ \E s \in Services : TickerFires(s) \/ NoBlip(s) \/ Pace(s) \/ RunReturns(s)
  <2>1. UNCHANGED <<until, blip, nextBlip, log>>
    BY <1>4 DEF Key, Signal, Exit, ReadClock, Tick, TickerFires, NoBlip, Pace, RunReturns
  <2> QED
    BY <2>1, BurstOfOthers
<1>5. CASE UNCHANGED appVars
  BY <1>5, BurstOfOthers DEF appVars
<1> QED
  BY <1>1, <1>2, <1>3, <1>4, <1>5 DEF AppNext, Control, Run

\* At the start nothing is reported and no burst is on.
LEMMA BurstInit == AppInit => BurstInv
<1> SUFFICES ASSUME AppInit, NEW s \in Services
             PROVE  /\ blip[s] = 0 /\ until[s] = 0
                    /\ ~ Begun(log[s]) /\ WellReported(log[s])
  BY DEF BurstInv
<1>1. log[s] = << >> /\ Len(log[s]) = 0
  BY DEF AppInit
<1> QED
  BY <1>1 DEF AppInit, Begun, WellReported

\* For any number of services, of keys and of instants, and any durations: the bursts of
\* a service are reported as they were, one after another and each to its end, although
\* both loops compare with times they read before they got the mutex; and a blip that is
\* announced begins (burst.startFor, burst.tick, simulator.run).
THEOREM BurstsTold == AppSpec => []BurstsReported
<1>1. AppInit => AppTypeOK /\ BurstInv
  BY AppTypeInit, BurstInit
<1>2. AppTypeOK /\ BurstInv /\ [AppNext]_appVars => AppTypeOK' /\ BurstInv'
  BY AppTypeStep, BurstStep
<1>3. AppTypeOK /\ BurstInv => BurstsReported
  BY DEF BurstInv, BurstsReported, WellReported
<1> QED
  BY <1>1, <1>2, <1>3, PTL DEF AppSpec

=============================================================================
