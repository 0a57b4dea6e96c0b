------------------------------- MODULE MCVFS --------------------------------
(* Instances of VFS for TLC.                                               *)
EXTENDS VFS

ID(ns, svc, kind, name) ==
    [ns |-> ns, svc |-> svc, kind |-> <<kind>>, name |-> name]

MCPieces ==
    {".dat", ".", "..", "metrics", "logs", "traces", "iam", "web", "api", "cpu", "x"}

\* Streams that share a namespace, a service or a name; one is called cpu.dat
MCStreamIDs ==
    {ID(<<"iam">>, <<"api">>, "metrics", <<"cpu">>),
     ID(<<"iam">>, <<"api">>, "logs", <<"cpu", ".dat">>),
     ID(<<"web">>, <<"api">>, "metrics", <<"cpu">>)}

Absolute(parts) == [absolute |-> TRUE, parts |-> parts]

Relative(parts) == [absolute |-> FALSE, parts |-> parts]

\* Every prefix of a stream's path; the paths that parse to errors; and what is
\* typed relative to where one stands
MCRequests ==
    {Absolute(SubSeq(PathString(id), 1, n)) : id \in MCStreamIDs, n \in 0 .. 4}
    \cup {Absolute(<<<<"iam">>, << >>>>),
          Absolute(<<<<"iam">>, <<"api">>, <<"traces">>>>),
          Absolute(<<<<"iam">>, <<"api">>, <<"metrics">>, <<".dat">>>>),
          Absolute(<<<<"iam">>, <<"api">>, <<"metrics">>, <<"cpu">>>>),
          Absolute(<<<<"iam">>, <<"api">>, <<"metrics">>, <<"x">>, <<"cpu", ".dat">>>>)}
    \cup {Relative(<<<<"..">>>>), Relative(<<<<"api">>>>),
          Relative(<<<<"..">>, <<"logs">>, <<"cpu", ".dat", ".dat">>>>)}

=============================================================================
