------------------------------ MODULE SampleApp ------------------------------
(***************************************************************************)
(* The sample application (cmd/sample-app): per simulated service a loop of  *)
(* requests with its burst and its random blips, and the loop that           *)
(* dispatches key presses to all of them, until q or a signal.  A burst is   *)
(* shared by both loops and guarded by a mutex, but each of them reads the   *)
(* clock before it takes it.  The collector only asks whether a burst is     *)
(* active.  What the requests record is left out: it is sent like any other  *)
(* service's (module Receiver).                                              *)
(***************************************************************************)
EXTENDS Integers, Sequences

CONSTANTS
    Sims,       \* how many services are simulated
    Duration,   \* of a burst: the flag burst
    BlipFor,    \* what randDuration(blipMinFor, blipMaxFor) can give
    BlipGap,    \* what randDuration(blipMinGap, blipMaxGap) can give
    MaxTime,    \* bound: the last instant
    MaxKeys     \* bound: the keys pressed

\* The blips' bounds are positive constants of the code; a negative flag is left out
ASSUME SampleAppAssumption ==
    /\ Sims \in Nat /\ Duration \in Nat
    /\ BlipFor \subseteq Nat \ {0} /\ BlipGap \subseteq Nat \ {0}
    /\ MaxTime \in Nat \ {0} /\ MaxKeys \in Nat

VARIABLES
    clock,      \* the wall clock
    until,      \* burst.until of each service, 0 when it is the zero time
    blip,       \* the same of its blip
    nextBlip,   \* run's variable of that name
    current,    \* the pace run has set its ticker to
    loop, now,    \* where run is, and the time it read when its ticker fired
    todo,       \* the services control has still to call startBurst for
    read,       \* the time startBurst has read for the first of them, or 0
    paused,     \* whether the gauges are paused
    keys,       \* how many keys were pressed
    main,       \* where the main goroutine is
    log         \* what each service's burst reported, in the order of its mutex

appVars == <<clock, until, blip, nextBlip, current, loop, now, todo, read, paused,
          keys, main, log>>

Services == 1 .. Sims

\* burst.active
Active(u, t) == u # 0 /\ t < u

\* Mutant of Begins: starts over while a burst is running
BeginsAlways(u, t) == TRUE

\* burst.startFor reports true
Begins(u, t) == ~ Active(u, t)

\* burst.startFor: until afterwards
startFor(u, t, d) == IF Begins(u, t) THEN t + d ELSE u

\* Mutant of Expired: looks for the very moment
ExpiredExactly(u, t) == u # 0 /\ t = u

\* burst.tick reports true
Expired(u, t) == u # 0 /\ ~ (t < u)

\* burst.tick: until afterwards
Ticked(u, t) == IF Expired(u, t) THEN 0 ELSE u

Reported(s, what, t) == [log EXCEPT ![s] = Append(@, [what |-> what, at |-> t])]

-----------------------------------------------------------------------------
AppInit ==
    /\ clock = 1
    /\ until = [s \in Services |-> 0]
    /\ blip = [s \in Services |-> 0]
    /\ nextBlip \in [Services -> {1 + g : g \in BlipGap}]
    /\ current = [s \in Services |-> "normal"]
    /\ loop = [s \in Services |-> "select"]
    /\ now = [s \in Services |-> 0]
    /\ todo = << >>
    /\ read = 0
    /\ paused = FALSE
    /\ keys = 0
    /\ main = "control"
    /\ log = [s \in Services |-> << >>]

\* simulator.togglePause, of every service
togglePause == paused' = ~ paused

\* control takes a key from the channel: b for every service, a digit for one,
\* p for all gauges, q and Ctrl-C to leave; any other is ignored
Key ==
    /\ main \in {"control", "cancelled"} /\ todo = << >> /\ keys < MaxKeys
    /\ keys' = keys + 1
    /\ \/ /\ \/ todo' = [s \in Services |-> s]
             \/ \E s \in Services : todo' = <<s>>
          /\ UNCHANGED <<paused, main>>
       \/ togglePause /\ UNCHANGED <<todo, main>>
       \/ main = "control" /\ main' = "shutdown" /\ UNCHANGED <<todo, paused>>
    /\ UNCHANGED <<clock, until, blip, nextBlip, current, loop, now, read, log>>

\* startBurst reads the clock ...
ReadClock ==
    /\ todo # << >> /\ read = 0
    /\ read' = clock
    /\ UNCHANGED <<clock, until, blip, nextBlip, current, loop, now, todo, paused,
                   keys, main, log>>

\* ... and calls start, which reports whether a burst began
StartBurst ==
    /\ todo # << >> /\ read # 0
    /\ LET s == Head(todo) IN
         /\ until' = [until EXCEPT ![s] = startFor(@, read, Duration)]
         /\ log' = IF Begins(until[s], read) THEN Reported(s, "Bursting", read) ELSE log
    /\ todo' = Tail(todo)
    /\ read' = 0
    /\ UNCHANGED <<clock, blip, nextBlip, current, loop, now, paused, keys, main>>

\* SIGTERM ends the context; control's select may still take a key before it sees it
Signal ==
    /\ main = "control"
    /\ main' = "cancelled"
    /\ UNCHANGED <<clock, until, blip, nextBlip, current, loop, now, todo, read, paused,
                   keys, log>>

\* control returns, the deferred shutdowns flush the pipelines while the services
\* go on (stop is deferred first and so called last), and the process is gone
Exit ==
    /\ main \in {"shutdown", "cancelled"} /\ todo = << >>
    /\ main' = "exited"
    /\ UNCHANGED <<clock, until, blip, nextBlip, current, loop, now, todo, read, paused,
                   keys, log>>

\* run's select: the ticker has fired
TickerFires(s) ==
    /\ loop[s] = "select"
    /\ loop' = [loop EXCEPT ![s] = "blip"]
    /\ now' = [now EXCEPT ![s] = clock]
    /\ UNCHANGED <<clock, until, blip, nextBlip, current, todo, read, paused, keys,
                   main, log>>

BlipDue(s) == now[s] > nextBlip[s] /\ ~ Active(until[s], now[s])

\* When the blip after one of d may come
NextBlip(s, d) == {now[s] + d + g : g \in BlipGap}

\* A blip begins unless a burst is running; nobody looks at what startFor returns
Blip(s) ==
    /\ loop[s] = "blip" /\ BlipDue(s)
    /\ \E d \in BlipFor :
         /\ blip' = [blip EXCEPT ![s] = startFor(@, now[s], d)]
         /\ \E t \in NextBlip(s, d) : nextBlip' = [nextBlip EXCEPT ![s] = t]
    /\ loop' = [loop EXCEPT ![s] = "pace"]
    /\ UNCHANGED <<clock, until, current, now, todo, read, paused, keys, main, log>>

NoBlip(s) ==
    /\ loop[s] = "blip" /\ ~ BlipDue(s)
    /\ loop' = [loop EXCEPT ![s] = "pace"]
    /\ UNCHANGED <<clock, until, blip, nextBlip, current, now, todo, read, paused,
                   keys, main, log>>

\* simulator.pace
PaceAt(s, t) ==
    IF Active(until[s], t) THEN "bursting"
    ELSE IF Active(blip[s], t) THEN "blipping" ELSE "normal"

\* The ticker is set to the pace of the time read, and a request is simulated
Pace(s) ==
    /\ loop[s] = "pace"
    /\ current' = [current EXCEPT ![s] = PaceAt(s, now[s])]
    /\ loop' = [loop EXCEPT ![s] = "tick"]
    /\ UNCHANGED <<clock, until, blip, nextBlip, now, todo, read, paused, keys, main, log>>

\* After the request both bursts are ticked, with the time read before it
Ticks(s) ==
    /\ loop[s] = "tick"
    /\ until' = [until EXCEPT ![s] = Ticked(@, now[s])]
    /\ log' = IF Expired(until[s], now[s]) THEN Reported(s, "Ended", now[s]) ELSE log
    /\ blip' = [blip EXCEPT ![s] = Ticked(@, now[s])]
    /\ loop' = [loop EXCEPT ![s] = "select"]
    /\ UNCHANGED <<clock, nextBlip, current, now, todo, read, paused, keys, main>>

\* run's select: the context is done
RunReturns(s) ==
    /\ loop[s] = "select" /\ main = "cancelled"
    /\ loop' = [loop EXCEPT ![s] = "returned"]
    /\ UNCHANGED <<clock, until, blip, nextBlip, current, now, todo, read, paused,
                   keys, main, log>>

Run(s) ==
    /\ main # "exited"
    /\ TickerFires(s) \/ Blip(s) \/ NoBlip(s) \/ Pace(s) \/ Ticks(s) \/ RunReturns(s)

Tick ==
    /\ clock < MaxTime
    /\ clock' = clock + 1
    /\ UNCHANGED <<until, blip, nextBlip, current, loop, now, todo, read, paused, keys,
                   main, log>>

Control == ReadClock \/ StartBurst \/ Exit

AppNext == Key \/ Signal \/ Control \/ Tick \/ \E s \in Services : Run(s)

AppSpec == AppInit /\ [][AppNext]_appVars

\* The tickers fire, goroutines that can run do; nobody has to press a key
AppFairSpec ==
    /\ AppSpec
    /\ WF_appVars(Tick)
    /\ WF_appVars(Control)
    /\ \A s \in Services : WF_appVars(Run(s))

-----------------------------------------------------------------------------
(* Properties.                                                             *)

\* Instants a burst that may last d can be active until
Untils(d) == {0} \cup {t + d : t \in 1 .. MaxTime}

Report == [what : {"Bursting", "Ended"}, at : Nat]

AppTypeOK ==
    /\ clock \in 1 .. MaxTime
    /\ until \in [Services -> Untils(Duration)]
    /\ blip \in [Services -> UNION {Untils(d) : d \in BlipFor \cup {0}}]
    /\ nextBlip \in [Services -> Nat]
    /\ current \in [Services -> {"normal", "blipping", "bursting"}]
    /\ loop \in [Services -> {"select", "blip", "pace", "tick", "returned"}]
    /\ now \in [Services -> 0 .. clock]
    /\ todo \in Seq(Services)
    /\ read \in 0 .. clock
    /\ paused \in BOOLEAN
    /\ keys \in 0 .. MaxKeys
    /\ main \in {"control", "cancelled", "shutdown", "exited"}
    /\ log \in [Services -> Seq(Report)]

\* The state is well-typed; no blip is due while one lasts, so that one which run
\* announces does begin, although run does not look at what startFor reports.
\* Bursts of a service do not overlap, and each is reported to end at most once,
\* after all of its duration: although the key loop and the request loop compare
\* with times they read before they got the mutex (startFor, tick).  A burst
\* whose end is not reported was followed by another one after it was over.
BurstsReported ==
    /\ AppTypeOK
    /\ \A s \in Services : blip[s] = 0 \/ blip[s] < nextBlip[s]
    /\ \A s \in Services : \A i \in 1 .. Len(log[s]) :
          /\ i = 1 => log[s][i].what = "Bursting"
          /\ i > 1 /\ log[s][i - 1].what = "Bursting" =>
                log[s][i].at >= log[s][i - 1].at + Duration
          /\ i > 1 /\ log[s][i].what = "Ended" => log[s][i - 1].what = "Bursting"

\* Every burst is over in the end, or another has begun, as long as the
\* application runs: the request loop ticks it at whatever pace it is (run).
BurstsEnd ==
    \A s \in Services : \A u \in 1 .. MaxTime :
        until[s] = u ~> until[s] # u \/ main # "control"

=============================================================================
