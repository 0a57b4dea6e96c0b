---------------------------- MODULE MCDashboard -----------------------------
(* Instances of Dashboard for TLC.                                         *)
EXTENDS Dashboard

MCRule(path, op) == [path |-> path, op |-> op, threshold |-> 0]

\* A threshold and an absent rule on the same metric
OneMetric == {MCRule("cpu", ">"), MCRule("cpu", "absent")}

=============================================================================
