----------------------------- MODULE Detection -----------------------------
(***************************************************************************)
(* What _detect_anomalies (janitor/scheduler.py) makes of a snapshot       *)
(* (janitor/models/metrics.py): pure operators.                            *)
(*                                                                         *)
(* An anomaly is its title, which is what find_open compares; the server   *)
(* is the same for all of a snapshot.  Severities and descriptions follow  *)
(* from the same readings and steer nothing.                               *)
(***************************************************************************)
EXTENDS Naturals

CONSTANT
    Threshold      \* ThresholdConfig, of the four gauges of a node

Gauges == {"cpu", "ram", "disk", "load"}

ASSUME DetectionAssumption == Threshold \in [Gauges -> Nat]

\* Titles embed the state they report; "state" is a list of words.
Title(what, of, state) == [what |-> what, of |-> of, state |-> state]

High == <<"high">>

\* A snapshot before anything has been read.  "services" is the dict
\* service_statuses as a set of its items, "smart" the text smart_summary as
\* the words said for each disk: nothing, too, if there is no summary.
EmptySnapshot == [nodes |-> {}, vms |-> {}, storages |-> {},
                  services |-> {}, smart |-> {}]

-----------------------------------------------------------------------------

\* Seeded fault in HighGauges: a reading has to exceed its threshold.
HighGaugesAbove(m) == {g \in Gauges : m.reading[g] > Threshold[g]}

HighGauges(m) == {g \in Gauges : m.reading[g] >= Threshold[g]}

NodeAnomalies(nodes) ==
    UNION {{Title(g, m.node, High) : g \in HighGauges(m)} : m \in nodes}

\* The title does not name the node: a guest listed twice is one anomaly.
GuestAnomalies(vms) ==
    {Title(v.vm_type, v.vmid, <<v.status>>) :
        v \in {w \in vms : w.status \in {"error", "unknown"}}}

\* Storages are held to the threshold of the nodes' disks.
StorageAnomalies(storages) ==
    {Title("storage", s.storage_id, High) :
        s \in {r \in storages : r.percent_used >= Threshold["disk"]}}

ServiceAnomalies(statuses) ==
    {Title("service", s.service, s.status) :
        s \in {r \in statuses : r.status \notin {<<"active">>, <<"unknown">>}}}

\* A search for the word in the whole text, whoever says it and of what.
SmartAnomalies(smart) ==
    {Title("smart", "disks", <<"failed">>) : r \in {q \in smart : "failed" \in q.says}}

DetectAnomalies(snapshot) ==
    NodeAnomalies(snapshot.nodes) \cup GuestAnomalies(snapshot.vms)
      \cup StorageAnomalies(snapshot.storages)
      \cup ServiceAnomalies(snapshot.services)
      \cup SmartAnomalies(snapshot.smart)

=============================================================================
