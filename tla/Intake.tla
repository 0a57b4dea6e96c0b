------------------------------- MODULE Intake -------------------------------
(***************************************************************************)
(* The system of record from its start to the samples its rules see: sor     *)
(* reads alert.conf (AlertConf), and with what it has read serves exporters  *)
(* (Receiver), handing every sample to the alerter (tee.Ingest).             *)
(***************************************************************************)
EXTENDS AlertConf, Receiver

vars == <<confVars, receiverVars>>

Init == ConfInit /\ ReceiverInit

\* log.Fatal of a bad file comes before the servers are started
Serve == phase = "serving" /\ ReceiverNext /\ UNCHANGED confVars

Next == (ConfNext /\ UNCHANGED receiverVars) \/ Serve

Spec == Init /\ [][Next]_vars

\* Alerter.Observe: the samples a rule's monitor is shown
Observed(rule) == {i \in DOMAIN ingested : ingested[i].id = rule.stream}

-----------------------------------------------------------------------------
(* Properties.                                                             *)

TypeOK == ConfTypeOK /\ ReceiverTypeOK /\ (ingested # << >> => phase = "serving")

\* Line i is the k-th alert line of the file
IsAlertLine(k, i) ==
    /\ i \in Lines("alert", Len(file))
    /\ Cardinality({j \in Lines("alert", Len(file)) : j <= i}) = k

\* The samples a listing shows under the path that line i names
Listed(i) ==
    {n \in DOMAIN ingested :
        PathString(ingested[n].id) = PathOf[Fields(file[i])[2]].parts}

\* The state is well-typed, and the k-th rule is shown the samples of the file that the
\* k-th alert line names, and no others: the path written in alert.conf and the one a
\* sample's stream is listed under agree, except that a stream with an empty name or a
\* slash in one can be listed where another is (parseAlert, metric, StreamID.Path,
\* Alerter.Observe).
RuleSeesItsFile ==
    TypeOK /\ (phase = "serving" => \A k \in DOMAIN cfg.rules :
        \E i \in 1 .. Len(file) :
            /\ IsAlertLine(k, i)
            /\ Observed(cfg.rules[k]) \subseteq Listed(i)
            /\ \A n \in Listed(i) \ Observed(cfg.rules[k]) : Misnamed(ingested[n].req))

=============================================================================
