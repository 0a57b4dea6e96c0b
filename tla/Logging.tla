------------------------------ MODULE Logging -------------------------------
(***************************************************************************)
(* The client library's logging (client/slog.go, client/stdlog.go): loggers  *)
(* derived from one another, a fan-out that redacts and hands each record to  *)
(* the application's handler and to the bridge to OpenTelemetry, and what the *)
(* system of record makes of the severity (adapter/otlp).                   *)
(*                                                                         *)
(* An attribute is a key with a value, or a group of attributes; the path of  *)
(* a value is the sequence of keys that the code joins with dots.           *)
(***************************************************************************)
EXTENDS Integers, Sequences, FiniteSets, SequencesExt

CONSTANTS
    Attrs,        \* the attributes used
    Groups,       \* the names of groups, "" too
    Secret,       \* the paths Options.Redact matches
    Levels,       \* the levels of records
    AppLevel,     \* the least level the application's handler takes
    MaxLoggers,   \* bound: the loggers derived
    MaxLines      \* bound: the lines of one write to the standard logger

VARIABLES
    loggers,   \* the loggers: the fan-out's prefix, the sinks, and what they were given
    emitted,   \* what the last call made each sink write
    expected   \* what that call was given

vars == <<loggers, emitted, expected>>

Redacted == "[REDACTED]"

Sinks == {"app", "bridge"}

\* The path below a group; one without a name adds nothing
Sub(prefix, key) == IF key = "" THEN prefix ELSE Append(prefix, key)

RECURSIVE redactAttr(_, _)

\* redactAttr
redactAttr(prefix, a) ==
    CASE a.group -> [a EXCEPT !.members = [i \in DOMAIN @ |->
                                              redactAttr(Sub(prefix, a.key), @[i])]]
      [] ~ a.group /\ Append(prefix, a.key) \in Secret -> [a EXCEPT !.value = Redacted]
      [] OTHER -> a

RECURSIVE renderAttr(_, _)

\* renderAttr: the values with their paths, groups flattened.  The application's
\* handler, a slog.TextHandler unless it brings its own, does the same.
renderAttr(prefix, a) ==
    IF a.group
    THEN FlattenSeq([i \in DOMAIN a.members |-> renderAttr(Sub(prefix, a.key), a.members[i])])
    ELSE <<[path |-> Append(prefix, a.key), value |-> a.value]>>

NewSink == [prefix |-> << >>, attrs |-> << >>]

NewLogger ==
    [prefix |-> << >>, sinks |-> [s \in Sinks |-> NewSink], given |-> << >>, open |-> << >>]

Init ==
    /\ loggers = <<NewLogger>>
    /\ emitted = [s \in Sinks |-> << >>]
    /\ expected = << >>

Derive(prefix, sinks, given, open) ==
    /\ Len(loggers) < MaxLoggers
    /\ loggers' = Append(loggers, [prefix |-> prefix, sinks |-> sinks,
                                   given |-> given, open |-> open])
    /\ UNCHANGED <<emitted, expected>>

\* bridge.WithAttrs: rendered below the groups open at that time
SinkWithAttrs(s, a) == [s EXCEPT !.attrs = @ \o renderAttr(s.prefix, a)]

\* bridge.WithGroup
SinkWithGroup(s, name) == [s EXCEPT !.prefix = Append(@, name)]

\* fanout.WithAttrs
WithAttrs(l) ==
    \E a \in Attrs :
        LET clean == redactAttr(loggers[l].prefix, a)
        IN Derive(loggers[l].prefix,
                  [s \in Sinks |-> SinkWithAttrs(loggers[l].sinks[s], clean)],
                  loggers[l].given \o renderAttr(loggers[l].open, a), loggers[l].open)

\* Mutant of Opened: the fan-out does not follow the groups its sinks open
OpenedOnlyBelow(prefix, name) == prefix

\* The prefix of a logger with a group opened
Opened(prefix, name) == Append(prefix, name)

\* fanout.WithGroup
WithGroup(l) ==
    \E name \in Groups \ {""} :
        Derive(Opened(loggers[l].prefix, name),
               [s \in Sinks |-> SinkWithGroup(loggers[l].sinks[s], name)],
               loggers[l].given, Append(loggers[l].open, name))

-----------------------------------------------------------------------------
\* The first number of each of OpenTelemetry's ranges
Numbers == [TRACE |-> 1, DEBUG |-> 5, INFO |-> 9, WARN |-> 13, ERROR |-> 17, FATAL |-> 21]

\* severity of the bridge: slog's levels, and the gaps between them
severity(level) ==
    LET text == CASE level < -4 -> "TRACE"
                  [] level \in -4 .. -1 -> "DEBUG"
                  [] level \in 0 .. 3 -> "INFO"
                  [] level \in 4 .. 7 -> "WARN"
                  [] level \in 8 .. 11 -> "ERROR"
                  [] OTHER -> "FATAL"
    IN [number |-> Numbers[text], text |-> text]

\* severity of the receiver, for a record that has a number only
severityOf(number) ==
    CASE number = 0 -> "UNSET"
      [] number \in 1 .. 4 -> "TRACE"
      [] number \in 5 .. 8 -> "DEBUG"
      [] number \in 9 .. 12 -> "INFO"
      [] number \in 13 .. 16 -> "WARN"
      [] number \in 17 .. 20 -> "ERROR"
      [] OTHER -> "FATAL"

\* fanout.Enabled: the first sink's level governs
Enabled(level) == level >= AppLevel

\* fanout.Handle joins the sinks' errors: each has had the record
Delivers(s, appFails) == TRUE

\* One record with the attributes at logger l, as its sinks write it
Record(l, a, level) ==
    LET clean == redactAttr(loggers[l].prefix, a)
    IN [s \in Sinks |->
           [attrs |-> loggers[l].sinks[s].attrs \o renderAttr(loggers[l].sinks[s].prefix, clean),
            level |-> level, severity |-> severity(level)]]

\* A logger's Handle; the application's handler may fail
Handle(l) ==
    \E a \in Attrs, level \in {v \in Levels : Enabled(v)}, appFails \in BOOLEAN :
        /\ emitted' = [s \in Sinks |-> IF Delivers(s, appFails) THEN <<Record(l, a, level)[s]>>
                                       ELSE << >>]
        /\ expected' = <<loggers[l].given \o renderAttr(loggers[l].open, a)>>
        /\ UNCHANGED loggers

\* lineWriter.Write: each line is an INFO record without attributes, and the first
\* that a sink fails to write is the last
Write ==
    \E lines \in 1 .. MaxLines : \E failing \in 1 .. lines + 1 :
        LET written == IF failing <= lines THEN failing ELSE lines
            Line == [attrs |-> << >>, level |-> 0, severity |-> severity(0)]
        IN /\ Enabled(0)
           /\ emitted' = [s \in Sinks |->
                 [i \in 1 .. IF Delivers(s, failing = written) THEN written ELSE written - 1
                    |-> Line]]
           /\ expected' = [i \in 1 .. written |-> << >>]
           /\ UNCHANGED loggers

Next == Write \/ \E l \in DOMAIN loggers : WithAttrs(l) \/ WithGroup(l) \/ Handle(l)

Spec == Init /\ [][Next]_vars

-----------------------------------------------------------------------------
(* Properties.                                                             *)

TypeOK ==
    /\ Len(loggers) \in 1 .. MaxLoggers
    /\ \A l \in DOMAIN loggers : \A s \in Sinks :
          loggers[l].sinks[s].prefix = loggers[l].prefix
    /\ \A s \in Sinks : \A rec \in ToSet(emitted[s]) : rec.level >= AppLevel

Clean(v) == IF v.path \in Secret THEN [v EXCEPT !.value = Redacted] ELSE v

\* However loggers are derived, with attributes and groups before and after each other
\* and groups within groups, both sinks write every value given, in order, under its
\* full path, and redacted exactly if that path is to be (fanout, redactAttr).
RedactedByPath ==
    \A s \in Sinks : \A i \in DOMAIN emitted[s] :
        emitted[s][i].attrs = [k \in DOMAIN expected[i] |-> Clean(expected[i][k])]

\* A record that the application's own handler fails to write reaches the system of
\* record all the same (fanout.Handle, lineWriter.Write).
BridgeHasAll == Len(emitted["bridge"]) = Len(expected)

\* The system of record names a record's severity the same whether it goes by the text
\* or by the number the bridge has sent (slog.go and receiver.go, severity).
SeveritiesAgree ==
    \A i \in DOMAIN emitted["bridge"] :
        LET sent == emitted["bridge"][i].severity IN severityOf(sent.number) = sent.text

\* The state is well-typed, and every record is logged in full, by both sinks, without
\* its secrets and under one severity (fanout, bridge, lineWriter).
LoggedInFull == TypeOK /\ RedactedByPath /\ BridgeHasAll /\ SeveritiesAgree

=============================================================================
