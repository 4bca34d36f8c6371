------------------------------- MODULE Survey -------------------------------
(***************************************************************************)
(* How a snapshot of one Proxmox cluster comes about (_collect_snapshot in *)
(* janitor/scheduler.py, the collectors in janitor/proxmox and             *)
(* get_smart_summary in janitor/ssh/commands.py) and what is detected in   *)
(* it.  The collectors go from node to node, service to service and disk   *)
(* to disk, and await every answer: the cluster changes under the walk.    *)
(***************************************************************************)
EXTENDS Detection, Sequences, SequencesExt

CONSTANTS
    NodeOrder,     \* the nodes in the order get_nodes lists them, offline too
    ServiceOrder,  \* PVE_SERVICES
    DiskOrder,     \* the disks in the order lsblk lists them
    Guests,        \* VMs and containers
    GuestType,     \* "qemu" or "lxc"
    Storages,      \* storage ids; every node lists all of them
    Checks,        \* ChecksConfig: what is collected and examined
    HasSSH,        \* is there an SSH configuration for the server?
    Readings,      \* the values a gauge or a storage's usage takes
    MaxChanges     \* bound: changes of the cluster in a behaviour

Nodes == Range(NodeOrder)
Services == Range(ServiceOrder)
Disks == Range(DiskOrder)

AllChecks == {"node_metrics", "vm_status", "storage_pools",
              "proxmox_services", "smart_disk_health"}

ASSUME SurveyAssumption ==
    /\ NodeOrder \in Seq(Nodes) /\ Len(NodeOrder) > 0
    /\ ServiceOrder \in Seq(Services) /\ DiskOrder \in Seq(Disks)
    /\ GuestType \in [Guests -> {"qemu", "lxc"}]
    /\ Checks \subseteq AllChecks
    /\ HasSSH \in BOOLEAN
    /\ 0 \in Readings /\ Readings \subseteq Nat
    /\ MaxChanges \in Nat

VARIABLES
    \* environment: the cluster
    online,        \* the nodes that answer
    reading,       \* the gauges of each node
    guest,         \* the node and the status of each guest
    usage,         \* how full each node finds each storage; 0, too, for one
                   \* without a total, as an inactive storage has
    service,       \* the state of each service on the SSH host
    health,        \* what smartctl makes of each disk there
    ssh,           \* how the SSH host takes commands
    \* the program
    at,            \* how many stops of the walk are done + 1, 0 between walks
    snap,          \* what has been collected so far
    found,         \* the anomalies of the last snapshot that was completed
    \* history of the walk
    seen,          \* the problems there were at some moment of it
    held,          \* the problems there were all the time
    missed,        \* those that were overlooked at some moment
    misread,       \* what was taken for a problem at some moment, and is none
    moved,         \* the guests that migrated, the failed disks that changed
    cut,           \* did the SSH host fail to answer for a moment?
    changes        \* changes of the cluster so far

clusterVars == <<online, reading, guest, usage, service, health, ssh>>
surveyVars == <<at, snap, found>>
historyVars == <<seen, held, missed, misread, moved, cut>>

vars == <<clusterVars, surveyVars, historyVars, changes>>

-----------------------------------------------------------------------------
(* The cluster, and what is wrong with it *)

\* "unknown" stands for an answer without a status, too.
GuestStatuses == {"running", "stopped", "error", "unknown"}

ServiceStates == {"active", "reloading", "failed"}

\* is-active prints the state and succeeds for the first two; otherwise
\* "|| echo inactive" adds a line.
Report(state) ==
    IF state \in {"active", "reloading"} THEN <<state>> ELSE <<state, "inactive">>

\* "silent": the command ends without output and without an exit status,
\* which SSHManager.run makes "" and 0 of; "gone": run raises.
SSHStates == {"answers", "silent", "gone"}

\* The words that count in what smartctl -H prints about a disk.  Of one it
\* cannot open it says so: "... open device: ... failed: ...".  Whenever it
\* does not succeed, "|| echo" adds a line.
Output == [passed     |-> {"passed"},
           failed     |-> {"failed", "unavailable"},
           unreadable |-> {"open", "failed", "unavailable"}]

HealthStates == DOMAIN Output

FirstNode == NodeOrder[1]

\* The online nodes on which the storage is as full as a disk may not be.
FullOn(s) == {n \in online : Threshold["disk"] <= usage[n][s]}

\* The problems an omniscient observer with the program's thresholds sees at
\* this moment, stated from the cluster and not from what is collected: a
\* storage may be full on any node, and a disk fails if smartctl says that
\* it does, not if smartctl fails.
Problems ==
    {p \in [what: Gauges, of: Nodes, state: {High}] :
        /\ "node_metrics" \in Checks
        /\ p.of \in online /\ Threshold[p.what] <= reading[p.of][p.what]}
    \cup
    {Title(GuestType[v], v, <<guest[v].status>>) :
        v \in {w \in Guests : /\ "vm_status" \in Checks
                              /\ guest[w].node \in online
                              /\ guest[w].status \in {"error", "unknown"}}}
    \cup
    {Title("storage", s, High) :
        s \in {r \in Storages : "storage_pools" \in Checks /\ FullOn(r) # {}}}
    \cup
    {Title("service", s, Report(service[s])) :
        s \in {r \in Services : /\ "proxmox_services" \in Checks /\ HasSSH
                                /\ service[r] # "active"}}
    \cup
    {Title("smart", "disks", <<"failed">>) :
        d \in {e \in Disks : /\ "smart_disk_health" \in Checks /\ HasSSH
                             /\ health[e] = "failed"}}

\* Where the program does not see what the observer sees.  Storages are told
\* apart by id and the first node's answer stays: one that is full on other
\* nodes only, as "local" is on each node by itself, is overlooked.
Overlooked ==
    {Title("storage", s, High) :
        s \in {r \in Storages : /\ "storage_pools" \in Checks
                                /\ FullOn(r) # {} /\ FirstNode \notin FullOn(r)}}

\* And where it sees what is not there: a disk that cannot be opened is taken
\* for a failed one, and a service of which nothing is said for one that is
\* in the state "".
Misread ==
    {Title("smart", "disks", <<"failed">>) :
        d \in {e \in Disks : /\ "smart_disk_health" \in Checks /\ HasSSH
                             /\ ssh = "answers" /\ health[e] = "unreadable"}}
    \cup
    {Title("service", s, <<>>) :
        s \in {r \in Services : /\ "proxmox_services" \in Checks /\ HasSSH
                                /\ ssh = "silent"}}

-----------------------------------------------------------------------------
(* The walk *)

\* SystemSnapshot: what a walk may have collected.
Snapshot ==
    [nodes: SUBSET [node: Nodes, reading: [Gauges -> Readings]],
     vms: SUBSET [vmid: Guests, vm_type: {"qemu", "lxc"}, status: GuestStatuses],
     storages: SUBSET [storage_id: Storages, percent_used: Readings],
     services: SUBSET [service: Services,
                       status: {Report(s) : s \in ServiceStates} \cup {<<>>, <<"unknown">>}],
     smart: SUBSET [disk: Disks, says: {Output[h] : h \in HealthStates} \cup {{}}]]

\* A stop of the walk: one call that is awaited.
Stops(check, call, seq) ==
    IF check \in Checks THEN [i \in 1..Len(seq) |-> <<call, seq[i]>>] ELSE <<>>

GuestStops ==
    IF "vm_status" \in Checks
    THEN [i \in 1..2*Len(NodeOrder) |->
             IF i % 2 = 1 THEN <<"qemu", NodeOrder[(i + 1) \div 2]>>
                          ELSE <<"lxc", NodeOrder[i \div 2]>>]
    ELSE <<>>

SSHStops ==
    IF HasSSH
    THEN Stops("proxmox_services", "service", ServiceOrder)
           \o Stops("smart_disk_health", "lsblk", <<"disks">>)
           \o Stops("smart_disk_health", "smartctl", DiskOrder)
    ELSE <<>>

Walk ==
    Stops("node_metrics", "status", NodeOrder) \o GuestStops
      \o Stops("storage_pools", "storage", NodeOrder) \o SSHStops

WalkEnd == Len(Walk) + 1

\* The walk has arrived at a call of this kind, about this node, service...
Due(call, x) == at \in 1..Len(Walk) /\ Walk[at] = <<call, x>>

Forget ==
    /\ seen' = {} /\ held' = {} /\ missed' = {} /\ misread' = {}
    /\ moved' = {} /\ cut' = FALSE

\* What the answer to the call adds to the snapshot.
Collected(field, items) ==
    /\ snap' = [snap EXCEPT ![field] = @ \cup items]
    /\ at' = at + 1
    /\ UNCHANGED <<clusterVars, found, historyVars, changes>>

BeginWalk ==
    /\ at = 0 /\ at' = 1
    /\ snap' = EmptySnapshot
    /\ seen' = Problems /\ held' = Problems
    /\ missed' = Overlooked /\ misread' = Misread
    /\ moved' = {} /\ cut' = (ssh # "answers")
    /\ UNCHANGED <<clusterVars, found, changes>>

ReadStatus(n) ==
    /\ Due("status", n) /\ n \in online
    /\ Collected("nodes", {[node |-> n, reading |-> reading[n]]})

ReadGuests(type, n) ==
    /\ Due(type, n) /\ n \in online
    /\ Collected("vms",
          {[vmid |-> v, vm_type |-> type, status |-> guest[v].status] :
              v \in {w \in Guests : GuestType[w] = type /\ guest[w].node = n}})

\* Seeded fault in ReadStorage: the last node to list a storage counts.
ReadStorageLast(n) ==
    /\ Due("storage", n) /\ n \in online
    /\ snap' = [snap EXCEPT !.storages =
                  {[storage_id |-> s, percent_used |-> usage[n][s]] : s \in Storages}]
    /\ at' = at + 1
    /\ UNCHANGED <<clusterVars, found, historyVars, changes>>

\* Seeded fault in ReadStorage: a storage is listed once per node.
ReadStorageAgain(n) ==
    /\ Due("storage", n) /\ n \in online
    /\ Collected("storages",
          {[storage_id |-> s, percent_used |-> usage[n][s]] : s \in Storages})

\* A storage id that has been listed by an earlier node is passed over.
ReadStorage(n) ==
    /\ Due("storage", n) /\ n \in online
    /\ Collected("storages",
          {[storage_id |-> s, percent_used |-> usage[n][s]] :
              s \in Storages \ {r.storage_id : r \in snap.storages}})

\* A node that is offline does not answer, the call raises, and nothing
\* catches it: the snapshot of the whole cluster is lost.
NodeRaises(call, n) ==
    /\ Due(call, n) /\ n \notin online
    /\ at' = 0 /\ snap' = EmptySnapshot
    /\ Forget
    /\ UNCHANGED <<clusterVars, found, changes>>

\* Seeded fault in ReadService: what cannot be asked is taken to be down.
ReadServiceGuesses(s) ==
    /\ Due("service", s)
    /\ Collected("services",
          {[service |-> s, status |-> IF ssh = "answers" THEN Report(service[s])
                                                        ELSE Report("inactive")]})

\* The status is what the command has printed, nothing included; if it cannot
\* be run the status is unknown.
ReadService(s) ==
    /\ Due("service", s)
    /\ Collected("services",
          {[service |-> s, status |-> IF ssh = "answers" THEN Report(service[s])
                                     ELSE IF ssh = "silent" THEN <<>>
                                     ELSE <<"unknown">>]})

ListDisks ==
    /\ Due("lsblk", "disks") /\ ssh = "answers"
    /\ Collected("smart", {})

\* lsblk prints nothing: "No disks found" is the summary.
ListsNoDisks ==
    /\ Due("lsblk", "disks") /\ ssh = "silent"
    /\ at' = WalkEnd
    /\ UNCHANGED <<clusterVars, snap, found, historyVars, changes>>

\* Seeded fault in ReadDisk: the summary is that of the last disk.
ReadDiskReplaces(d) ==
    /\ Due("smartctl", d) /\ ssh # "gone"
    /\ snap' = [snap EXCEPT !.smart =
                  {[disk |-> d, says |-> IF ssh = "answers" THEN Output[health[d]] ELSE {}]}]
    /\ at' = at + 1
    /\ UNCHANGED <<clusterVars, found, historyVars, changes>>

ReadDisk(d) ==
    /\ Due("smartctl", d) /\ ssh # "gone"
    /\ Collected("smart",
          {[disk |-> d, says |-> IF ssh = "answers" THEN Output[health[d]] ELSE {}]})

\* One command of the summary raises: the exception is swallowed and the
\* answers of the disks before are lost with it.
SmartRaises ==
    /\ ssh = "gone"
    /\ Due("lsblk", "disks") \/ \E d \in Disks : Due("smartctl", d)
    /\ snap' = [snap EXCEPT !.smart = {}]
    /\ at' = WalkEnd
    /\ UNCHANGED <<clusterVars, found, historyVars, changes>>

\* The gather has returned, and the tick examines the snapshot.
Detect ==
    /\ at = WalkEnd /\ at' = 0
    /\ found' = DetectAnomalies(snap)
    /\ snap' = EmptySnapshot
    /\ Forget
    /\ UNCHANGED <<clusterVars, changes>>

SurveyStep ==
    \/ BeginWalk
    \/ \E n \in Nodes :
          \/ ReadStatus(n) \/ ReadStorage(n)
          \/ \E type \in {"qemu", "lxc"} : ReadGuests(type, n)
          \/ \E call \in {"status", "qemu", "lxc", "storage"} : NodeRaises(call, n)
    \/ \E s \in Services : ReadService(s)
    \/ ListDisks \/ ListsNoDisks \/ (\E d \in Disks : ReadDisk(d)) \/ SmartRaises
    \/ Detect

-----------------------------------------------------------------------------
(* The cluster changes *)

NodeGoesOrComes(n) ==
    /\ online' = IF n \in online THEN online \ {n} ELSE online \cup {n}
    /\ UNCHANGED <<reading, guest, usage, service, health, ssh>>

ReadingChanges(n, g, r) ==
    /\ reading' = [reading EXCEPT ![n][g] = r]
    /\ UNCHANGED <<online, guest, usage, service, health, ssh>>

GuestChanges(v, status) ==
    /\ guest' = [guest EXCEPT ![v].status = status]
    /\ UNCHANGED <<online, reading, usage, service, health, ssh>>

GuestMigrates(v, n) ==
    /\ guest[v].node \in online /\ n \in online
    /\ guest' = [guest EXCEPT ![v].node = n]
    /\ UNCHANGED <<online, reading, usage, service, health, ssh>>

UsageChanges(n, s, r) ==
    /\ usage' = [usage EXCEPT ![n][s] = r]
    /\ UNCHANGED <<online, reading, guest, service, health, ssh>>

ServiceChanges(s, state) ==
    /\ service' = [service EXCEPT ![s] = state]
    /\ UNCHANGED <<online, reading, guest, usage, health, ssh>>

DiskChanges(d, state) ==
    /\ health' = [health EXCEPT ![d] = state]
    /\ UNCHANGED <<online, reading, guest, usage, service, ssh>>

SSHChanges(state) ==
    /\ ssh' = state
    /\ UNCHANGED <<online, reading, guest, usage, service, health>>

ClusterChange ==
    \/ \E n \in Nodes :
          \/ NodeGoesOrComes(n)
          \/ \E g \in Gauges, r \in Readings : ReadingChanges(n, g, r)
          \/ \E s \in Storages, r \in Readings : UsageChanges(n, s, r)
    \/ \E v \in Guests :
          \/ \E status \in GuestStatuses : GuestChanges(v, status)
          \/ \E n \in Nodes : GuestMigrates(v, n)
    \/ \E s \in Services, state \in ServiceStates : ServiceChanges(s, state)
    \/ \E d \in Disks, state \in HealthStates : DiskChanges(d, state)
    \/ \E state \in SSHStates : SSHChanges(state)

\* What a change adds to the history of a walk.
Witness ==
    /\ seen' = seen \cup Problems' /\ held' = held \cap Problems'
    /\ missed' = missed \cup Overlooked' /\ misread' = misread \cup Misread'
    /\ moved' = moved \cup {v \in Guests : guest'[v].node # guest[v].node}
                     \cup {d \in Disks : health[d] = "failed" /\ health'[d] # "failed"}
    /\ cut' = (cut \/ ssh' # "answers")

ClusterStep ==
    /\ changes < MaxChanges /\ changes' = changes + 1
    /\ ClusterChange /\ clusterVars' # clusterVars
    /\ IF at = 0 THEN UNCHANGED historyVars ELSE Witness
    /\ UNCHANGED surveyVars

-----------------------------------------------------------------------------

\* A calm cluster: whatever is wrong with it comes about in a ClusterStep.
Init ==
    /\ online = Nodes /\ ssh = "answers" /\ health = [d \in Disks |-> "passed"]
    /\ reading = [n \in Nodes |-> [g \in Gauges |-> 0]]
    /\ guest = [v \in Guests |-> [node |-> FirstNode, status |-> "running"]]
    /\ usage = [n \in Nodes |-> [s \in Storages |-> 0]]
    /\ service = [s \in Services |-> "active"]
    /\ at = 0 /\ snap = EmptySnapshot /\ found = {}
    /\ seen = {} /\ held = {} /\ missed = {} /\ misread = {}
    /\ moved = {} /\ cut = FALSE
    /\ changes = 0

Next == SurveyStep \/ ClusterStep

Spec == Init /\ [][Next]_vars

\* The walks go on: every call ends.
FairSpec == Spec /\ WF_vars(SurveyStep)

-----------------------------------------------------------------------------
(* Properties *)

ClusterTypeOK ==
    /\ online \subseteq Nodes /\ ssh \in SSHStates
    /\ health \in [Disks -> HealthStates]
    /\ reading \in [Nodes -> [Gauges -> Readings]]
    /\ guest \in [Guests -> [node: Nodes, status: GuestStatuses]]
    /\ usage \in [Nodes -> [Storages -> Readings]]
    /\ service \in [Services -> ServiceStates]

WalkTypeOK ==
    /\ at \in 0..WalkEnd /\ cut \in BOOLEAN
    /\ snap \in Snapshot
    /\ at = 0 => snap = EmptySnapshot /\ seen = {} /\ misread = {}
    /\ held \subseteq seen
    /\ \A r, s \in snap.storages : r.storage_id = s.storage_id => r = s

\* Types, and: between walks nothing is left of the last one, and a snapshot
\* holds a storage id once, whichever nodes list it.
TypeOK == ClusterTypeOK /\ WalkTypeOK

\* A snapshot is torn: its parts were read at different moments, and no
\* moment need have been like it.  Still every anomaly found in it was a
\* problem of the cluster at some moment of the walk, but for disks that could
\* not be opened and services of which nothing was said: these two are the
\* only false alarms.
OnlyMisreadIsFalse == [][found' # found => found' \subseteq seen \cup misread]_vars

\* The problems that a walk owes us: those that lasted throughout, unless
\* they slipped by on a migrating guest or from disk to disk, or the host
\* that knows of them did not answer, or the first node knew nothing of them.
Owed ==
    {p \in held \ missed :
        /\ p.what \in {"qemu", "lxc"} => p.of \notin moved
        /\ p.what = "smart" => moved \cap Disks = {}
        /\ p.what \in {"service", "smart"} => ~cut}

\* A walk that is completed finds the problems it owes us, whatever else has
\* come and gone meanwhile.
LastingIsFound == [][at = WalkEnd /\ at' = 0 => Owed \subseteq found']_vars

\* What EventuallyAccurate rests on: a walk during which no problem came,
\* went or slipped by, although it asks one thing after the other, finds what
\* is wrong with the cluster and not overlooked, and nothing else that was
\* not misread.
QuietWalkExact ==
    [][at = WalkEnd /\ at' = 0 /\ seen = held /\ moved = {} /\ ~cut
          => Problems \ missed \subseteq found' /\ found' \subseteq Problems \cup misread]_vars

\* When the cluster has come to rest and everything answers, the walks settle
\* on what is wrong with it, to the last storage that only other nodes know to
\* be full and the last disk that cannot be opened: nothing else is missing,
\* nothing else added, and nothing left over from before.
EventuallyAccurate ==
    <>[](online = Nodes /\ ssh = "answers")
        => <>[](found = (Problems \ Overlooked) \cup Misread)

-----------------------------------------------------------------------------
(* What the documentation says and the code does not do *)

\* README: "Polls Proxmox nodes on a configurable interval for CPU, RAM".  A
\* node that answers and stays over its threshold is found sooner or later,
\* whatever the other nodes do.
OnlineNodeFound ==
    \A n \in Nodes, g \in Gauges :
        <>[](n \in online /\ reading[n][g] >= Threshold[g])
            => <>(Title(g, n, High) \in found)

=============================================================================
