-------------------------------- MODULE VFS ---------------------------------
(***************************************************************************)
(* The virtual filesystem: usecase.Browser over a store that changes while  *)
(* it is read, as the shell sees it through the HTTP API, and as a caller of *)
(* the API sees it with a path of its own.                                  *)
(*                                                                         *)
(* Paths and stream IDs are those of module Paths.                          *)
(***************************************************************************)
EXTENDS Paths, FiniteSets

CONSTANTS
    Pieces,      \* what names are made of
    StreamIDs,   \* the streams samples may come for
    Requests,    \* the paths users ask for
    MaxChanges   \* bound: how often the set of streams changes

ASSUME PiecesAssumption == DatSuffix \in Pieces /\ KindDirs \subseteq Seq(Pieces)

Name == Seq(Pieces)

Path == [absolute : BOOLEAN, parts : Seq(Name)]

\* The names of streams are not empty and have no slashes: what the receiver makes of
\* others is the subject of Receiver's Addressable
ASSUME StreamsAssumption ==
    /\ StreamIDs \subseteq [ns : Name, svc : Name, kind : KindDirs, name : Name]
    /\ \A id \in StreamIDs : \A name \in {id.ns, id.svc, id.name} :
          name # << >> /\ Slash \notin ToSet(name)

ASSUME RequestsAssumption == Requests \subseteq Path /\ MaxChanges \in Nat

VARIABLES
    stored,    \* the streams that hold samples, the domain of Store.streams
    changes,   \* how often it has changed
    cwd,       \* Shell.cwd, as components
    call,      \* the call of Browser in progress, NoCall if none
    answer,    \* what the last call returned, NoAnswer while one is in progress
    seen       \* the sets stored has been since the call began

vars == <<stored, changes, cwd, call, answer, seen>>

NoCall == [op |-> "none"]

NoAnswer == [kind |-> "none"]

-----------------------------------------------------------------------------
(* memstore: the lists, each read under the lock.                          *)

Namespaces == {id.ns : id \in stored}

Services(ns) == {id.svc : id \in {i \in stored : i.ns = ns}}

Streams(ns, svc, kind) ==
    {id.name : id \in {i \in stored : i.ns = ns /\ i.svc = svc /\ i.kind = kind}}

-----------------------------------------------------------------------------
Init ==
    /\ stored = {}
    /\ changes = 0
    /\ cwd = << >>
    /\ call = NoCall
    /\ answer = NoAnswer
    /\ seen = {}

\* The first sample of a stream arrives, or its last one is forgotten
StoreChanges ==
    /\ changes < MaxChanges
    /\ changes' = changes + 1
    /\ \E id \in StreamIDs :
         stored' = IF id \in stored THEN stored \ {id} ELSE stored \cup {id}
    /\ seen' = IF call = NoCall THEN seen ELSE seen \cup {stored'}
    /\ UNCHANGED <<cwd, call, answer>>

\* path.Clean of an absolute path
Clean(parts) ==
    FoldLeft(LAMBDA acc, part :
                CASE part \in {<< >>, <<".">>} -> acc
                  [] part = <<"..">> -> IF acc = << >> THEN acc ELSE Front(acc)
                  [] OTHER -> Append(acc, part),
             << >>, parts)

\* Shell.resolve
resolve(path) ==
    [absolute |-> TRUE,
     parts |-> Clean(IF path.absolute THEN path.parts ELSE cwd \o path.parts)]

Begin(op, path) ==
    /\ call = NoCall
    /\ call' = [op |-> op, path |-> path, checked |-> FALSE]
    /\ answer' = NoAnswer
    /\ seen' = {stored}
    /\ UNCHANGED <<stored, changes, cwd>>

\* Shell.cd, Shell.ls and Shell.cat call the browser with a clean path
ShellCommand ==
    \E op \in {"cd", "ls", "cat"}, path \in Requests : Begin(op, resolve(path))

\* A caller of the HTTP or the gRPC API sends any path
Request == \E op \in {"ls", "cat"}, path \in Requests : Begin(op, path)

\* The call returns; cd goes to the directory that could be listed
Return(kind, entries) ==
    /\ answer' = [kind |-> kind, entries |-> entries, path |-> call.path]
    /\ call' = NoCall
    /\ cwd' = IF call.op = "cd" /\ kind = "entries" THEN call.path.parts ELSE cwd
    /\ UNCHANGED <<stored, changes, seen>>

Fails(error) == Return(error, {})

Entries(set) == Return("entries", set)

Parts == call.path.parts

InLs == call.op \in {"cd", "ls"} /\ ParsePath(call.path) = "ok"

\* ls and cat of a path that does not parse
BadPath ==
    /\ call # NoCall
    /\ ParsePath(call.path) # "ok"
    /\ Fails(ParsePath(call.path))

\* The HTTP client gives up, or the system of record cannot be reached
Unreachable ==
    /\ call # NoCall
    /\ Fails("internal")

LsRoot == InLs /\ Depth(Parts) = 0 /\ Entries(Namespaces)

\* Ls looks whether the directory exists: contains, checkService
LsCheck ==
    /\ InLs /\ ~ call.checked
    /\ Depth(Parts) \in 1 .. 3
    /\ IF IF Depth(Parts) = 1 THEN Parts[1] \in Namespaces
                              ELSE Parts[2] \in Services(Parts[1])
       THEN /\ call' = [call EXCEPT !.checked = TRUE]
            /\ UNCHANGED <<stored, changes, cwd, answer, seen>>
       ELSE Fails("not_found")

\* ... and then reads it, in a second call of the store
LsList ==
    /\ InLs /\ call.checked
    /\ CASE Depth(Parts) = 1 -> Entries(Services(Parts[1]))
         [] Depth(Parts) = 2 -> Entries(KindDirs)
         [] Depth(Parts) = 3 ->
              Entries({FileName(n) : n \in Streams(Parts[1], Parts[2], Parts[3])})

\* Mutant of LsStream: lists the file itself, as a Unix ls does
LsStreamLists ==
    /\ InLs /\ Depth(Parts) = 4
    /\ IF StreamIDOf(Parts) \in stored THEN Entries({Parts[4]}) ELSE Fails("not_found")

LsStream ==
    /\ InLs /\ Depth(Parts) = 4
    /\ Fails(IF StreamIDOf(Parts) \in stored THEN "not_dir" ELSE "not_found")

Cat ==
    /\ call.op = "cat" /\ ParsePath(call.path) = "ok"
    /\ CASE Depth(Parts) # 4 -> Fails("is_dir")
         [] Depth(Parts) = 4 /\ StreamIDOf(Parts) \notin stored -> Fails("not_found")
         [] OTHER -> Return("samples", {})

Next ==
    \/ StoreChanges
    \/ ShellCommand \/ Request
    \/ BadPath \/ Unreachable
    \/ LsRoot \/ LsCheck \/ LsList \/ LsStream \/ Cat

Spec == Init /\ [][Next]_vars

-----------------------------------------------------------------------------
(* Properties.  The layout is the tree of all prefixes of the streams' paths, *)
(* with both kinds under every service.                                     *)

Call == [op : {"cd", "ls", "cat"}, path : Path, checked : BOOLEAN]

Answer ==
    [kind : {"entries", "samples", "bad_path", "not_found", "not_dir", "is_dir",
             "internal"},
     entries : SUBSET Name, path : Path]

TypeOK ==
    /\ stored \subseteq StreamIDs
    /\ changes \in 0 .. MaxChanges
    /\ cwd \in Seq(Name)
    /\ call \in {NoCall} \cup Call
    /\ answer \in {NoAnswer} \cup Answer
    /\ seen \subseteq SUBSET StreamIDs

Tree(S) ==
    {<< >>} \cup UNION {{SubSeq(PathString(id), 1, n) : n \in 1 .. 4} \cup
                        {<<id.ns, id.svc, kind>> : kind \in KindDirs} : id \in S}

Children(S, parts) ==
    {Last(q) : q \in {q \in Tree(S) : q # << >> /\ Front(q) = parts}}

\* The state is well-typed, and every answer was right at some moment of the call: a
\* listing shows what the directory held, a path that was not found was not there, a
\* file was one (Browser's Ls and Cat, of which each reads the store up to twice).
AnswersTrue ==
    /\ TypeOK
    /\ answer.kind # "none" =>
        LET parts == answer.path.parts
        IN \E S \in seen :
              CASE answer.kind = "entries" -> answer.entries = Children(S, parts)
                [] answer.kind = "not_found" -> parts \notin Tree(S)
                [] answer.kind \in {"not_dir", "samples"} ->
                     parts \in Tree(S) /\ Len(parts) = 4
                [] answer.kind = "is_dir" -> Len(parts) < 4
                [] answer.kind = "bad_path" -> parts \notin Tree(S)
                                               \/ ~ answer.path.absolute
                [] OTHER -> TRUE

\* The shell never stands in a file nor outside the layout, whatever it is told
\* and whatever is forgotten meanwhile (cd).
CwdIsDirectory ==
    /\ Len(cwd) < 4
    /\ \A i \in 1 .. Len(cwd) : cwd[i] # << >>
    /\ Len(cwd) = 3 => cwd[3] \in KindDirs

\* A stream can be asked for by its path, cleaned by the shell, and by no other
\* stream's: the path leads back to the stream, unless its namespace or service is
\* called . or .. (ParsePath, String, FileName).
Reachable ==
    \A id \in stored :
        LET parts == Clean(PathString(id))
        IN {id.ns, id.svc} \cap {<<".">>, <<"..">>} = {} =>
              /\ ParsePath([absolute |-> TRUE, parts |-> parts]) = "ok"
              /\ Depth(parts) = 4 /\ StreamIDOf(parts) = id

=============================================================================
