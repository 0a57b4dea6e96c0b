----------------------------- MODULE MCLogging ------------------------------
(* Instances of Logging for TLC.                                           *)
EXTENDS Logging

Leaf(key, value) == [key |-> key, group |-> FALSE, value |-> value]

Group(key, members) == [key |-> key, group |-> TRUE, members |-> members]

\* A secret by itself, in groups of one and two levels, and in one without a name
MCAttrs ==
    {Leaf("token", "t"),
     Group("db", <<Leaf("user", "v"), Leaf("token", "w")>>),
     Group("db", <<Group("db", <<Leaf("token", "x")>>), Group("", <<Leaf("token", "y")>>)>>)}

\* As a pattern would that wants the group before the key
MCSecret == {<<"db", "token">>, <<"db", "db", "token">>}

\* The last level of each range, and one that is not logged
MCLevels == {-6, -5, -1, 3, 7, 11, 12}

MCAppLevel == -5

=============================================================================
