------------------------------ MODULE MCIntake ------------------------------
(* Instances of Intake for TLC.                                            *)
EXTENDS Intake

Symmetry == Permutations(Handlers)

Metric(ns, svc, name) == [absolute |-> TRUE, parts |-> <<<<ns>>, <<svc>>, <<"metrics">>, name>>]

MCPathOf ==
    "/iam/api/metrics/cpu.dat" :> Metric("iam", "api", <<"cpu", ".dat">>)
    @@ "/default/unknown/metrics/lat.count.dat" :>
          Metric("default", "unknown", <<"lat", ".count", ".dat">>)
    @@ "/iam/api/metrics" :> [absolute |-> TRUE, parts |-> <<<<"iam">>, <<"api">>, <<"metrics">>>>]
    @@ "/iam/api/logs/cpu.dat" :>
          [absolute |-> TRUE, parts |-> <<<<"iam">>, <<"api">>, <<"logs">>, <<"cpu", ".dat">>>>]

MCThresholds == "0" :> 0 @@ "9" :> 9

MCDurations == "5m" :> 5

MCTooLong == <<"...">>

MCReferences == {"${HOOK}", "${EMPTY}", "${UNSET}"}

\* A variable may be empty, hold two words, or be set in one environment only
MCEnvironments ==
    LET Env(hook) == "${HOOK}" :> hook @@ "${EMPTY}" :> << >>
    IN {[build |-> Env(<<"dummy">>), run |-> Env(<<"https:">>)],
        [build |-> Env(<<"dummy">>), run |-> Env(<<"two", "words">>)],
        [build |-> Env(<<"dummy">>), run |-> "${EMPTY}" :> << >>]}

Slack == <<"channel", "ops", "slack", "${HOOK}">>

CPUAlert == <<"alert", "/iam/api/metrics/cpu.dat", ">", "9", "for", "5m", "to", "ops">>

AbsentAlert ==
    <<"alert", "/default/unknown/metrics/lat.count.dat", "absent", "for", "5m", "to", "ops">>

\* A change to the k-th word of the alert
Alert(k, word) == [CPUAlert EXCEPT ![k] = word]

MCLines ==
    {<< >>, <<"#", "${UNSET}">>, <<"${EMPTY}">>, MCTooLong, <<"page", "me">>,
     Slack,
     <<"channel", "dev", "slack-bot", "token", "C1">>,
     <<"channel", "ops", "slack-bot", "${UNSET}", "C1">>,
     <<"channel", "ops", "slack", "${EMPTY}">>, <<"channel", "ops", "email", "me">>,
     CPUAlert, Alert(8, "dev"), Alert(2, "/iam/api/metrics"), Alert(2, "/iam/api/logs/cpu.dat"),
     Alert(3, "=="), Alert(4, "high"), Alert(6, "soon"), Alert(7, "at"), <<"alert">>,
     AbsentAlert}

\* All files of up to two lines, and those that declare a channel and end in an alert
MCFiles ==
    {<< >>} \cup {<<l>> : l \in MCLines} \cup {<<l, m>> : l, m \in MCLines}
    \cup {<<Slack, l, m>> : l \in MCLines, m \in {CPUAlert, Alert(8, "dev")}}

-----------------------------------------------------------------------------
Attr(k, v) == [key |-> k, value |-> v]

IAM == <<Attr("service.name", <<"old">>), Attr("service.namespace", <<"iam">>),
         Attr("service.name", <<"api">>), Attr("host.name", <<"h">>)>>

Point(nanos, value) == [nanos |-> nanos, value |-> value]

Export(route, attrs, items) ==
    [route |-> route, method |-> "POST", media |-> "protobuf", body |-> "good",
     resources |-> <<[attrs |-> attrs, items |-> items]>>]

Gauge == Export("metrics", IAM,
    <<[name |-> <<"cpu">>, type |-> "gauge", points |-> <<Point(0, TRUE), Point(5, FALSE), Point(6, TRUE)>>],
      [name |-> <<"sum">>, type |-> "summary", points |-> <<Point(6, TRUE)>>]>>)

MCRequestOf ==
    [gauge |-> Gauge,
     histogram |-> [Export("metrics", << >>,
        <<[name |-> <<"lat">>, type |-> "histogram", points |-> <<Point(9, FALSE), Point(0, TRUE)>>]>>)
          EXCEPT !.media = "json"],
     logs |-> Export("logs", IAM,
        <<[name |-> << >>, records |-> <<[nanos |-> 0, observed |-> 6]>>],
          [name |-> <<"cpu">>, records |-> <<[nanos |-> 0, observed |-> 0]>>]>>),
     slashed |-> Export("metrics",
        <<Attr("service.namespace", <<"iam", "/", "api", "/", "metrics", "/", "cpu", ".dat">>),
          Attr("service.name", << >>)>>,
        <<[name |-> <<"a", "/", "b">>, type |-> "sum", points |-> <<Point(1, TRUE)>>]>>),
     get |-> [Gauge EXCEPT !.method = "GET"],
     text |-> [Gauge EXCEPT !.media = "text"],
     garbled |-> [Gauge EXCEPT !.body = "garbled"]]

MCExports == DOMAIN MCRequestOf

=============================================================================
