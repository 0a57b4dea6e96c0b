------------------------------- MODULE Paths --------------------------------
(***************************************************************************)
(* domain.Path: how streams are named in the virtual filesystem.            *)
(*                                                                         *)
(* A path is its components, whether or not it begins with a slash; a name  *)
(* is the sequence of its pieces, so that the suffix .dat and a slash can be *)
(* told from the rest: << >> is the empty name.                             *)
(***************************************************************************)
EXTENDS Integers, Sequences, SequencesExt, FiniteSetsExt

DatSuffix == ".dat"

Slash == "/"

\* Mutant of FileName: does not repeat a suffix
FileNameOnce(name) ==
    IF name # << >> /\ Last(name) = DatSuffix THEN name ELSE Append(name, DatSuffix)

FileName(name) == Append(name, DatSuffix)

\* A .dat file with something before the suffix
IsFile(part) == part # << >> /\ Last(part) = DatSuffix /\ Len(part) > 1

KindDirs == {<<"logs">>, <<"metrics">>}

\* What is wrong with the i-th component
PartError(parts, i) ==
    IF parts[i] = << >> THEN "bad_path"
    ELSE IF (i = 3 /\ parts[i] \notin KindDirs) \/ (i = 4 /\ ~ IsFile(parts[i]))
    THEN "not_found" ELSE "ok"

\* ParsePath's error: that of the first component with one
ParsePath(path) ==
    LET wrong == {i \in 1 .. Len(path.parts) : PartError(path.parts, i) # "ok"}
    IN IF ~ path.absolute THEN "bad_path"
       ELSE IF Len(path.parts) > 4 THEN "not_found"
       ELSE IF wrong = {} THEN "ok" ELSE PartError(path.parts, Min(wrong))

\* Path.Depth of a path that parsed: its components are not empty
Depth(parts) == Len(parts)

\* Mutant of StreamIDOf: takes the name with its suffix
StreamIDOfFile(parts) ==
    [ns |-> parts[1], svc |-> parts[2], kind |-> parts[3], name |-> parts[4]]

\* Path.StreamID: the name is the file's without its suffix
StreamIDOf(parts) ==
    [ns |-> parts[1], svc |-> parts[2], kind |-> parts[3], name |-> Front(parts[4])]

\* What a name is once it stands between the slashes of a path
Components(name) ==
    FoldLeft(LAMBDA acc, piece :
                IF piece = Slash THEN Append(acc, << >>)
                ELSE [acc EXCEPT ![Len(acc)] = Append(@, piece)],
             << << >> >>, name)

\* StreamID.Path and Path.String: an empty field ends the path
PathString(id) ==
    LET full == <<id.ns, id.svc, id.kind, id.name>>
        unset == {i \in 1 .. 4 : full[i] = << >>}
        set == IF unset # {} THEN SubSeq(full, 1, Min(unset) - 1)
               ELSE <<id.ns, id.svc, id.kind, FileName(id.name)>>
    IN FlattenSeq([i \in DOMAIN set |-> Components(set[i])])

=============================================================================
