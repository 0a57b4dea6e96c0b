----------------------------- MODULE MCAlerting -----------------------------
(* Instances of Alerting for TLC.                                          *)
EXTENDS Alerting

MCRule(op, threshold, duration, channel) ==
    [stream |-> "cpu", op |-> op, threshold |-> threshold, For |-> duration,
     channel |-> channel]

\* Two severities of the same metric, and an absent rule on a webhook channel
MixedRules ==
    <<MCRule(">", 0, 0, "ops"), MCRule(">", 1, 1, "ops"), MCRule("absent", 0, 1, "web")>>

OneRule == <<MCRule(">", 0, 0, "ops")>>

=============================================================================
