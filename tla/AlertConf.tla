----------------------------- MODULE AlertConf ------------------------------
(***************************************************************************)
(* alert.conf (adapter/alertconf): the line loop of ParseEnv as run twice by *)
(* sor, once with -validate when an image is built and once at start, each   *)
(* time with the environment of the moment.                                 *)
(*                                                                         *)
(* A file is a sequence of lines and a line the sequence of its words.  A    *)
(* word may be a reference ${NAME} to an environment variable, whose value   *)
(* is a sequence of words.  What paths, numbers and durations the words      *)
(* spell is given by functions: words outside their domains do not parse.    *)
(***************************************************************************)
EXTENDS Paths, FiniteSets

CONSTANTS
    Files,          \* the files considered
    References,     \* the words of the form ${NAME}
    Environments,   \* pairs of environments: that of the build and that of the run
    PathOf,         \* the path a word spells
    Thresholds,     \* strconv.ParseFloat
    Durations,      \* time.ParseDuration
    TooLong         \* a line that does not fit the scanner's buffer

\* strings.Fields leaves no empty word
Words == STRING \ {""}

ASSUME FilesAssumption == Files \subseteq Seq(Seq(Words))

\* A path is split at its slashes
ASSUME PathsAssumption ==
    \A word \in DOMAIN PathOf :
        PathOf[word] \in [absolute : BOOLEAN, parts : Seq(Seq(STRING \ {Slash}))]

ASSUME EnvironmentsAssumption ==
    \A e \in Environments : \A lookup \in {e.build, e.run} :
        \A ref \in DOMAIN lookup : lookup[ref] \in Seq(Words)

VARIABLES
    file, env,     \* the file, and the environments it is read in
    phase,         \* what the process is doing
    verdict,       \* what -validate has said: "unknown", "valid" or "invalid"
    at,            \* the line ParseEnv is at, 0 before the file is open
    seen, cfg      \* ParseEnv's variables

confVars == <<file, env, phase, verdict, at, seen, cfg>>

NoConfig == [channels |-> << >>, rules |-> << >>]

Reading == phase \in {"validating", "starting"}

\* Mutant of Lookup: -validate does not expand, as Parse does
LookupAtStart == IF phase = "starting" THEN env.run ELSE [ref \in References |-> <<ref>>]

\* os.LookupEnv of the process that reads the file
Lookup == IF phase = "validating" THEN env.build ELSE env.run

Ignored(words) == words = << >> \/ words[1] = "#"

\* expand, then strings.Fields: a value may have no words, or several
Expanded(lookup, words) ==
    FlattenSeq([i \in DOMAIN words |->
        IF words[i] \in DOMAIN lookup THEN lookup[words[i]] ELSE <<words[i]>>])

Fields(words) == Expanded(Lookup, words)

Unset(words) == (ToSet(words) \cap References) \ DOMAIN Lookup # {}

\* parseChannel finds no fault
GoodChannel(args) ==
    Len(args) >= 2 /\ CASE args[2] = "slack" -> Len(args) = 3
                        [] args[2] = "slack-bot" -> Len(args) = 4
                        [] OTHER -> FALSE

Channel(args) ==
    [name |-> args[1],
     destination |-> IF args[2] = "slack"
                     THEN [webhook |-> args[3], token |-> "", channelID |-> ""]
                     ELSE [webhook |-> "", token |-> args[3], channelID |-> args[4]]]

\* The absent form with a threshold spliced in
Spliced(args) ==
    IF Len(args) >= 2 /\ args[2] = "absent"
    THEN <<args[1], args[2], "0">> \o SubSeq(args, 3, Len(args)) ELSE args

ParseOp == {">", ">=", "<", "<=", "absent"}

\* domain.ParsePath of a word, and whether it is a file of metrics
IsMetric(word) ==
    /\ word \in DOMAIN PathOf /\ ParsePath(PathOf[word]) = "ok"
    /\ LET parts == PathOf[word].parts IN Depth(parts) = 4 /\ parts[3] = <<"metrics">>

\* parseAlert finds no fault
GoodAlert(args) ==
    /\ Len(args) = 7
    /\ args[4] = "for" /\ args[6] = "to"
    /\ IsMetric(args[1])
    /\ args[2] \in ParseOp
    /\ args[3] \in DOMAIN Thresholds /\ args[5] \in DOMAIN Durations

Rule(args) ==
    [stream |-> StreamIDOf(PathOf[args[1]].parts), op |-> args[2],
     threshold |-> Thresholds[args[3]], for |-> Durations[args[5]], channel |-> args[7]]

\* Mutant of Declared: the check of a rule's channel is left out
DeclaredAny(directive, name) == directive = "alert" \/ name \in seen

\* Whether the channel a directive names has been declared above it
Declared(directive, name) == name \in seen

\* ParseEnv goes on after the line
GoodLine(words) ==
    LET fields == Fields(words)  args == Tail(fields)
    IN IF Ignored(words) THEN TRUE
       ELSE /\ ~ Unset(words)
            /\ CASE fields = << >> -> TRUE
                 [] fields # << >> /\ fields[1] = "channel" ->
                      GoodChannel(args) /\ ~ Declared("channel", args[1])
                 [] fields # << >> /\ fields[1] = "alert" ->
                      GoodAlert(Spliced(args)) /\ Declared("alert", Last(args))
                 [] OTHER -> FALSE

ConfInit ==
    /\ file \in Files /\ env \in Environments
    /\ phase \in {"validating", "starting"}
    /\ verdict = "unknown"
    /\ at = 0 /\ seen = {} /\ cfg = NoConfig

\* The parse ends in an error: the process exits, log.Fatal or os.Exit(1)
Fail ==
    /\ verdict' = IF phase = "validating" THEN "invalid" ELSE verdict
    /\ phase' = "stopped"
    /\ cfg' = NoConfig
    /\ UNCHANGED <<file, env, at, seen>>

\* Load cannot open the file, or opens it
OpenFails == Reading /\ at = 0 /\ Fail

Open ==
    /\ Reading /\ at = 0
    /\ at' = 1
    /\ UNCHANGED <<file, env, phase, verdict, seen, cfg>>

Scans == Reading /\ at \in 1 .. Len(file)

\* A line the scanner cannot hold ends the loop with sc.Err
ScanFails == Scans /\ file[at] = TooLong /\ Fail

LineFails == Scans /\ file[at] # TooLong /\ ~ GoodLine(file[at]) /\ Fail

LineRead ==
    /\ Scans /\ file[at] # TooLong /\ GoodLine(file[at])
    /\ LET fields == IF Ignored(file[at]) THEN << >> ELSE Fields(file[at])
           args == Tail(fields)
       IN CASE fields = << >> -> UNCHANGED <<seen, cfg>>
            [] fields # << >> /\ fields[1] = "channel" ->
                 /\ seen' = seen \cup {args[1]}
                 /\ cfg' = [cfg EXCEPT !.channels = Append(@, Channel(args))]
            [] fields # << >> /\ fields[1] = "alert" ->
                 /\ cfg' = [cfg EXCEPT !.rules = Append(@, Rule(Spliced(args)))]
                 /\ seen' = seen
    /\ at' = at + 1
    /\ UNCHANGED <<file, env, phase, verdict>>

\* -validate prints its summary; the image is built, and later sor starts
Validated ==
    /\ phase = "validating" /\ at = Len(file) + 1
    /\ verdict' = "valid" /\ phase' = "starting"
    /\ at' = 0 /\ seen' = {} /\ cfg' = NoConfig
    /\ UNCHANGED <<file, env>>

\* main goes on to serve with what it has read
Started ==
    /\ phase = "starting" /\ at = Len(file) + 1
    /\ phase' = "serving"
    /\ UNCHANGED <<file, env, verdict, at, seen, cfg>>

ConfNext == OpenFails \/ Open \/ ScanFails \/ LineFails \/ LineRead \/ Validated \/ Started

\* main.destinations: what the Slack notifier posts to, by channel
Destinations ==
    [name \in {ch.name : ch \in ToSet(cfg.channels)} |->
        (CHOOSE ch \in ToSet(cfg.channels) : ch.name = name).destination]

-----------------------------------------------------------------------------
(* Properties.                                                             *)

ConfTypeOK ==
    /\ phase \in {"validating", "starting", "serving", "stopped"}
    /\ verdict \in {"unknown", "valid", "invalid"}
    /\ at \in 0 .. Len(file) + 1
    /\ Len(cfg.channels) + Len(cfg.rules) <= at

\* The lines of a kind among the first n, as written
Lines(directive, n) ==
    {i \in 1 .. n : ~ Ignored(file[i]) /\ Fields(file[i]) # << >>
                     /\ Fields(file[i])[1] = directive}

\* The first n lines as the package's comment describes a file, said of all of
\* them at once: usable lines, names declared once and above their use.
WellFormed(n) ==
    LET Args(i) == Tail(Fields(file[i]))
        chans == Lines("channel", n)
        alerts == Lines("alert", n)
    IN /\ \A i \in 1 .. n :
             file[i] # TooLong /\ (Ignored(file[i]) \/
                (~ Unset(file[i]) /\ (Fields(file[i]) = << >> \/ i \in chans \cup alerts)))
       /\ \A i \in chans : GoodChannel(Args(i))
       /\ \A i \in alerts : GoodAlert(Spliced(Args(i)))
       /\ \A i, j \in chans : Args(i)[1] = Args(j)[1] => i = j
       /\ \A i \in alerts : \E j \in chans : j < i /\ Args(j)[1] = Last(Args(i))

\* Whatever comes before it, the first bad line and no other ends the parse, and
\* nothing of a file with a bad line is used (ParseEnv).
FirstBadLine ==
    /\ Scans => WellFormed(at - 1)
    /\ phase = "serving" => WellFormed(Len(file))
                            /\ Len(cfg.channels) = Cardinality(Lines("channel", Len(file)))
                            /\ Len(cfg.rules) = Cardinality(Lines("alert", Len(file)))
    /\ phase = "stopped" => cfg = NoConfig

\* A rule that is watched can be told of: its channel has a destination, and one
\* that Slack can be reached with (parseAlert, main.destinations, slack.Notify).
RulesDelivered ==
    phase = "serving" => \A r \in ToSet(cfg.rules) :
        /\ r.channel \in DOMAIN Destinations
        /\ LET d == Destinations[r.channel]
           IN d.webhook # "" \/ (d.token # "" /\ d.channelID # "")

\* Of a file all or nothing is used, and what is used is of use (ParseEnv).
FileHonoured == FirstBadLine /\ RulesDelivered

\* The two environments give the file's lines the same words, but for the destinations
\* of channels, and set the same variables
OnlyDestinationsDiffer ==
    \A i \in 1 .. Len(file) : ~ Ignored(file[i]) =>
        LET built == Expanded(env.build, file[i])
            run == Expanded(env.run, file[i])
        IN /\ ToSet(file[i]) \cap References \cap DOMAIN env.build \subseteq DOMAIN env.run
           /\ Len(built) = Len(run)
           /\ \A k \in 1 .. Len(built) :
                 built[k] = run[k] \/ (built[1] = "channel" /\ k > 3)

\* A file that -validate accepts starts, if it can be opened, when the variables it names
\* are set then as well and make a difference to destinations only (README, "dummy"
\* values at build time; ParseEnv).
ValidatedStarts ==
    [][verdict = "valid" /\ phase = "starting" /\ at > 0 /\ OnlyDestinationsDiffer
         => phase' # "stopped"]_confVars

=============================================================================
