--------------------------- MODULE MCRuleMonitor ----------------------------
(* Instances of RuleMonitor for TLC.                                       *)
EXTENDS RuleMonitor

\* A strict and a non-strict comparison at the boundary, one with a duration and
\* one without, and an absent rule
MCRules ==
    {[op |-> ">", threshold |-> 1, For |-> 2],
     [op |-> "<=", threshold |-> 1, For |-> 0],
     [op |-> "absent", threshold |-> 0, For |-> 2]}

=============================================================================
