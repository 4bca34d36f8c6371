---------------------------- MODULE SurveyProofs ----------------------------
(***************************************************************************)
(* Proofs about Survey, for every cluster, configuration and number of     *)
(* changes.                                                                *)
(***************************************************************************)
EXTENDS Survey, TLAPS, SequenceTheorems

-----------------------------------------------------------------------------
(* The walk *)

Calls == {"status", "qemu", "lxc", "storage", "service", "lsblk", "smartctl"}

StopSet == Calls \X (Nodes \cup Services \cup Disks \cup {"disks"})

\* The stops of one check are a sequence over the things it asks about.
LEMMA StopsType ==
    ASSUME NEW check, NEW call \in Calls, NEW S, NEW seq \in Seq(S)
    PROVE  Stops(check, call, seq) \in Seq(Calls \X S)
  BY DEF Stops

LEMMA GuestStopsType == GuestStops \in Seq(Calls \X Nodes)
<1>1. CASE "vm_status" \in Checks
  <2>1. \A i \in 1..2*Len(NodeOrder) :
          /\ i % 2 = 1 => (i + 1) \div 2 \in 1..Len(NodeOrder)
          /\ i % 2 # 1 => i \div 2 \in 1..Len(NodeOrder)
    BY SurveyAssumption
  <2>2. \A j \in 1..Len(NodeOrder) : NodeOrder[j] \in Nodes
    BY SurveyAssumption
  <2>3. GuestStops \in [1..2*Len(NodeOrder) -> Calls \X Nodes]
    BY <1>1, <2>1, <2>2 DEF GuestStops, Calls
  <2>4. 2*Len(NodeOrder) \in Nat
    BY SurveyAssumption
  <2>5. \A n \in Nat : \A S : [1..n -> S] \subseteq Seq(S)
    OBVIOUS
  <2>. QED  BY <2>3, <2>4, <2>5
<1>2. CASE "vm_status" \notin Checks
  BY <1>2 DEF GuestStops
<1>. QED  BY <1>1, <1>2

\* The walk is a finite sequence of stops.
LEMMA WalkType == Walk \in Seq(StopSet)
<1>1. Stops("node_metrics", "status", NodeOrder) \in Seq(Calls \X Nodes)
  BY StopsType, SurveyAssumption DEF Calls
<1>2. Stops("storage_pools", "storage", NodeOrder) \in Seq(Calls \X Nodes)
  BY StopsType, SurveyAssumption DEF Calls
<1>3. Stops("proxmox_services", "service", ServiceOrder) \in Seq(Calls \X Services)
  BY StopsType, SurveyAssumption DEF Calls
<1>4. <<"disks">> \in Seq({"disks"})
  OBVIOUS
<1>5. Stops("smart_disk_health", "lsblk", <<"disks">>) \in Seq(Calls \X {"disks"})
  BY StopsType, <1>4 DEF Calls
<1>6. Stops("smart_disk_health", "smartctl", DiskOrder) \in Seq(Calls \X Disks)
  BY StopsType, SurveyAssumption DEF Calls
<1>7. \A S, T : S \subseteq T => Seq(S) \subseteq Seq(T)
  OBVIOUS
<1>8. /\ Calls \X Nodes \subseteq StopSet /\ Calls \X Services \subseteq StopSet
      /\ Calls \X Disks \subseteq StopSet /\ Calls \X {"disks"} \subseteq StopSet
  BY DEF StopSet
<1>9. SSHStops \in Seq(StopSet)
  BY <1>3, <1>5, <1>6, <1>7, <1>8, ConcatProperties, SMT DEF SSHStops
<1>10. GuestStops \in Seq(StopSet)
  BY <1>7, <1>8, GuestStopsType
<1>. QED  BY <1>1, <1>2, <1>7, <1>8, <1>9, <1>10, ConcatProperties DEF Walk

LEMMA WalkEndType == WalkEnd \in Nat /\ WalkEnd > 0
  BY WalkType DEF WalkEnd

-----------------------------------------------------------------------------
(* Types *)

LEMMA EmptyType == EmptySnapshot \in Snapshot /\ EmptySnapshot.storages = {}
  BY DEF EmptySnapshot, Snapshot

\* What TypeOK asks of the walk's own state holds whenever no walk is going on.
AtRest == /\ at = 0 /\ snap = EmptySnapshot
          /\ seen = {} /\ held = {} /\ misread = {} /\ cut = FALSE

LEMMA AtRestType == AtRest => WalkTypeOK
<1>. SUFFICES ASSUME AtRest PROVE WalkTypeOK
  OBVIOUS
<1>1. at \in 0..WalkEnd
  BY WalkEndType DEF AtRest
<1>2. snap \in Snapshot /\ snap.storages = {}
  BY EmptyType DEF AtRest
<1>. QED  BY <1>1, <1>2 DEF AtRest, WalkTypeOK

LEMMA TypeInit == Init => TypeOK
<1>. SUFFICES ASSUME Init PROVE TypeOK
  OBVIOUS
<1>1. FirstNode \in Nodes
  BY SurveyAssumption DEF FirstNode
<1>2. /\ reading \in [Nodes -> [Gauges -> Readings]]
      /\ usage \in [Nodes -> [Storages -> Readings]]
      /\ guest \in [Guests -> [node: Nodes, status: GuestStatuses]]
      /\ service \in [Services -> ServiceStates]
      /\ health \in [Disks -> HealthStates]
  BY <1>1, SurveyAssumption DEF Init, GuestStatuses, ServiceStates, HealthStates, Output
<1>. QED
  BY <1>2, AtRestType DEF AtRest, Init, TypeOK, ClusterTypeOK, WalkTypeOK, SSHStates

LEMMA AtRestNext == AtRest' => WalkTypeOK'
  BY AtRestType, PTL

\* An answer that adds well-typed items keeps the types.
LEMMA CollectedType ==
    ASSUME TypeOK, at \in 1..Len(Walk),
           NEW field \in {"nodes", "vms", "services", "smart"}, NEW items,
           Collected(field, items),
           [snap EXCEPT ![field] = @ \cup items] \in Snapshot
    PROVE  TypeOK'
<1>1. at' \in 0..WalkEnd /\ at' # 0
  BY WalkType DEF Collected, WalkEnd
<1>2. snap' \in Snapshot /\ snap'.storages = snap.storages
  BY DEF Collected, TypeOK, ClusterTypeOK, WalkTypeOK, Snapshot
<1>. QED
  BY <1>1, <1>2 DEF Collected, TypeOK, ClusterTypeOK, WalkTypeOK, clusterVars, historyVars, Snapshot

LEMMA WalkStepType ==
    ASSUME TypeOK, SurveyStep
    PROVE  TypeOK'
<1>1. CASE BeginWalk
  BY <1>1, WalkEndType DEF BeginWalk, TypeOK, ClusterTypeOK, WalkTypeOK, clusterVars, EmptySnapshot, Snapshot
<1>2. ASSUME NEW n \in Nodes, ReadStatus(n) PROVE TypeOK'
  <2>1. reading[n] \in [Gauges -> Readings]
    BY DEF TypeOK, ClusterTypeOK, WalkTypeOK
  <2>. DEFINE new == {[node |-> n, reading |-> reading[n]]}
  <2>2. new \subseteq [node: Nodes, reading: [Gauges -> Readings]]
    BY <2>1
  <2>3. Collected("nodes", new) /\ at \in 1..Len(Walk)
    BY <1>2 DEF ReadStatus, Due
  <2>. HIDE DEF new
  <2>4. [snap EXCEPT !["nodes"] = @ \cup new] \in Snapshot
    BY <2>2 DEF TypeOK, ClusterTypeOK, WalkTypeOK, Snapshot
  <2>. QED  BY <2>3, <2>4, CollectedType
<1>3. ASSUME NEW n \in Nodes, ReadStorage(n) PROVE TypeOK'
  <2>. DEFINE new == {[storage_id |-> s, percent_used |-> usage[n][s]] :
                        s \in Storages \ {r.storage_id : r \in snap.storages}}
  <2>1. \A s \in Storages : usage[n][s] \in Readings
    BY DEF TypeOK, ClusterTypeOK, WalkTypeOK
  <2>2. new \subseteq [storage_id: Storages, percent_used: Readings]
    BY <2>1
  <2>3. /\ snap' \in Snapshot /\ snap'.storages = snap.storages \cup new
    BY <1>3, <2>2 DEF ReadStorage, Collected, TypeOK, ClusterTypeOK, WalkTypeOK, Snapshot
  <2>4. \A r, s \in snap'.storages : r.storage_id = s.storage_id => r = s
    BY <2>3 DEF TypeOK, ClusterTypeOK, WalkTypeOK
  <2>5. at' \in 0..WalkEnd /\ at' # 0
    BY <1>3, WalkType DEF ReadStorage, Collected, Due, WalkEnd
  <2>. HIDE DEF new
  <2>. QED
    BY <1>3, <2>3, <2>4, <2>5 DEF ReadStorage, Collected, TypeOK, ClusterTypeOK, WalkTypeOK, clusterVars, historyVars
<1>4. ASSUME NEW n \in Nodes, NEW type \in {"qemu", "lxc"}, ReadGuests(type, n) PROVE TypeOK'
  <2>. DEFINE new == {[vmid |-> v, vm_type |-> type, status |-> guest[v].status] :
                        v \in {w \in Guests : GuestType[w] = type /\ guest[w].node = n}}
  <2>1. \A v \in Guests : guest[v].status \in GuestStatuses
    BY DEF TypeOK, ClusterTypeOK, WalkTypeOK
  <2>2. new \subseteq [vmid: Guests, vm_type: {"qemu", "lxc"}, status: GuestStatuses]
    BY <2>1
  <2>3. [snap EXCEPT !["vms"] = @ \cup new] \in Snapshot
    BY <2>2 DEF TypeOK, ClusterTypeOK, WalkTypeOK, Snapshot
  <2>4. at \in 1..Len(Walk) /\ Collected("vms", new)
    BY <1>4 DEF ReadGuests, Due
  <2>. HIDE DEF new
  <2>. QED  BY <2>3, <2>4, CollectedType
<1>5. ASSUME NEW n \in Nodes, NEW call, NodeRaises(call, n) PROVE TypeOK'
  <2>1. AtRest'
    BY <1>5 DEF NodeRaises, Forget, AtRest
  <2>. QED
    BY <1>5, <2>1, AtRestNext DEF NodeRaises, TypeOK, ClusterTypeOK, WalkTypeOK, clusterVars
<1>6. ASSUME NEW s \in Services, ReadService(s) PROVE TypeOK'
  <2>. DEFINE status == IF ssh = "answers" THEN Report(service[s])
                        ELSE IF ssh = "silent" THEN <<>>
                        ELSE <<"unknown">>
  <2>1. status \in {Report(t) : t \in ServiceStates} \cup {<<>>, <<"unknown">>}
    BY DEF TypeOK, ClusterTypeOK, WalkTypeOK
  <2>. DEFINE new == {[service |-> s, status |-> status]}
  <2>2. Collected("services", new) /\ at \in 1..Len(Walk)
    BY <1>6 DEF ReadService, Due
  <2>. HIDE DEF status
  <2>3. new \subseteq [service: Services,
                        status: {Report(t) : t \in ServiceStates} \cup {<<>>, <<"unknown">>}]
    BY <2>1
  <2>. HIDE DEF new
  <2>4. [snap EXCEPT !["services"] = @ \cup new] \in Snapshot
    BY <2>3 DEF TypeOK, ClusterTypeOK, WalkTypeOK, Snapshot
  <2>. QED  BY <2>2, <2>4, CollectedType
<1>7. CASE ListDisks
  <2>1. [snap EXCEPT !["smart"] = @ \cup {}] \in Snapshot
    BY DEF TypeOK, ClusterTypeOK, WalkTypeOK, Snapshot
  <2>. QED  BY <1>7, <2>1, CollectedType DEF ListDisks, Due
<1>8. ASSUME NEW d \in Disks, ReadDisk(d) PROVE TypeOK'
  <2>. DEFINE says == IF ssh = "answers" THEN Output[health[d]] ELSE {}
  <2>1. says \in {Output[h] : h \in HealthStates} \cup {{}}
    BY DEF TypeOK, ClusterTypeOK
  <2>. DEFINE new == {[disk |-> d, says |-> says]}
  <2>2. Collected("smart", new) /\ at \in 1..Len(Walk)
    BY <1>8 DEF ReadDisk, Due
  <2>. HIDE DEF says
  <2>3. new \subseteq [disk: Disks, says: {Output[h] : h \in HealthStates} \cup {{}}]
    BY <2>1
  <2>. HIDE DEF new
  <2>4. [snap EXCEPT !["smart"] = @ \cup new] \in Snapshot
    BY <2>3 DEF TypeOK, ClusterTypeOK, WalkTypeOK, Snapshot
  <2>. QED  BY <2>2, <2>4, CollectedType
<1>9. CASE SmartRaises
  <2>1. snap' \in Snapshot /\ snap'.storages = snap.storages
    BY <1>9 DEF SmartRaises, TypeOK, ClusterTypeOK, WalkTypeOK, Snapshot
  <2>2. at' \in 0..WalkEnd /\ at' # 0
    BY <1>9, WalkEndType DEF SmartRaises
  <2>. QED
    BY <1>9, <2>1, <2>2 DEF SmartRaises, TypeOK, ClusterTypeOK, WalkTypeOK, clusterVars, historyVars
<1>10. CASE ListsNoDisks
  <2>1. at' \in 0..WalkEnd /\ at' # 0
    BY <1>10, WalkEndType DEF ListsNoDisks
  <2>. QED
    BY <1>10, <2>1 DEF ListsNoDisks, Due, TypeOK, ClusterTypeOK, WalkTypeOK, clusterVars, historyVars
<1>11. CASE Detect
  <2>1. AtRest'
    BY <1>11 DEF Detect, Forget, AtRest
  <2>. QED  BY <1>11, <2>1, AtRestNext DEF Detect, TypeOK, ClusterTypeOK, WalkTypeOK, clusterVars
<1>. QED
  BY <1>1, <1>2, <1>3, <1>4, <1>5, <1>6, <1>7, <1>8, <1>9, <1>10, <1>11 DEF SurveyStep

LEMMA ClusterStepType ==
    ASSUME TypeOK, ClusterStep
    PROVE  TypeOK'
<1>. DEFINE Typed ==
       /\ online' \subseteq Nodes /\ ssh' \in SSHStates
       /\ health' \in [Disks -> HealthStates]
       /\ reading' \in [Nodes -> [Gauges -> Readings]]
       /\ guest' \in [Guests -> [node: Nodes, status: GuestStatuses]]
       /\ usage' \in [Nodes -> [Storages -> Readings]]
       /\ service' \in [Services -> ServiceStates]
<1>1. Typed
  <2>1. ASSUME NEW n \in Nodes, NodeGoesOrComes(n) PROVE Typed
    BY <2>1 DEF NodeGoesOrComes, TypeOK, ClusterTypeOK, WalkTypeOK
  <2>2. ASSUME NEW n \in Nodes, NEW g \in Gauges, NEW r \in Readings, ReadingChanges(n, g, r)
        PROVE Typed
    BY <2>2 DEF ReadingChanges, TypeOK, ClusterTypeOK, WalkTypeOK
  <2>3. ASSUME NEW n \in Nodes, NEW s \in Storages, NEW r \in Readings, UsageChanges(n, s, r)
        PROVE Typed
    BY <2>3 DEF UsageChanges, TypeOK, ClusterTypeOK, WalkTypeOK
  <2>4. ASSUME NEW v \in Guests, NEW status \in GuestStatuses, GuestChanges(v, status)
        PROVE Typed
    BY <2>4 DEF GuestChanges, TypeOK, ClusterTypeOK, WalkTypeOK
  <2>5. ASSUME NEW v \in Guests, NEW n \in Nodes, GuestMigrates(v, n) PROVE Typed
    BY <2>5 DEF GuestMigrates, TypeOK, ClusterTypeOK, WalkTypeOK
  <2>6. ASSUME NEW s \in Services, NEW state \in ServiceStates, ServiceChanges(s, state)
        PROVE Typed
    BY <2>6 DEF ServiceChanges, TypeOK, ClusterTypeOK, WalkTypeOK
  <2>7. ASSUME NEW d \in Disks, NEW state \in HealthStates, DiskChanges(d, state) PROVE Typed
    BY <2>7 DEF DiskChanges, TypeOK, ClusterTypeOK, WalkTypeOK
  <2>8. ASSUME NEW state \in SSHStates, SSHChanges(state) PROVE Typed
    BY <2>8 DEF SSHChanges, TypeOK, ClusterTypeOK, WalkTypeOK
  <2>9. ClusterChange
    BY DEF ClusterStep
  <2>. HIDE DEF Typed
  <2>. QED
    BY <2>1, <2>2, <2>3, <2>4, <2>5, <2>6, <2>7, <2>8, <2>9 DEF ClusterChange
<1>2. held' \subseteq seen' /\ cut' \in BOOLEAN /\ (at = 0 => seen' = {} /\ misread' = {})
  BY <1>1 DEF ClusterStep, Witness, TypeOK, ClusterTypeOK, WalkTypeOK, historyVars
<1>. QED
  BY <1>1, <1>2 DEF ClusterStep, surveyVars, TypeOK, ClusterTypeOK, WalkTypeOK

LEMMA TypeStep == TypeOK /\ [Next]_vars => TypeOK'
<1>1. ASSUME TypeOK, UNCHANGED vars PROVE TypeOK'
  BY <1>1 DEF TypeOK, ClusterTypeOK, WalkTypeOK, vars, clusterVars, surveyVars, historyVars
<1>. QED  BY <1>1, WalkStepType, ClusterStepType DEF Next

\* Whatever the cluster does, the state is well typed, nothing of a walk is
\* left when it is over, and a storage is in a snapshot once.
THEOREM TypeCorrect == Spec => []TypeOK
  BY TypeInit, TypeStep, PTL DEF Spec

-----------------------------------------------------------------------------
(* The order of the walk *)

Rank == [c \in Calls |-> CASE c = "status" -> 1
                           [] c \in {"qemu", "lxc"} -> 2
                           [] c = "storage" -> 3
                           [] c = "service" -> 4
                           [] c = "lsblk" -> 5
                           [] OTHER -> 6]

CheckOf == [c \in Calls |-> CASE c = "status" -> "node_metrics"
                              [] c \in {"qemu", "lxc"} -> "vm_status"
                              [] c = "storage" -> "storage_pools"
                              [] c = "service" -> "proxmox_services"
                              [] OTHER -> "smart_disk_health"]

\* What holds of the walk and of its parts: the calls come in the order of
\* their ranks, only enabled checks call, and the first node is the first to
\* be asked about its storages.
WellFormed(s, low, high) ==
    /\ s \in Seq(StopSet)
    /\ \A i \in 1..Len(s) :
          /\ Rank[s[i][1]] \in low..high
          /\ CheckOf[s[i][1]] \in Checks
          /\ Rank[s[i][1]] \in 4..6 => HasSSH
          /\ s[i][1] = "storage" => \E j \in 1..i : s[j] = <<"storage", FirstNode>>
    /\ \A i, j \in 1..Len(s) : i <= j => Rank[s[i][1]] <= Rank[s[j][1]]

LEMMA RankType == Rank \in [Calls -> 1..6]
  BY DEF Rank, Calls

LEMMA ConcatWellFormed ==
    ASSUME NEW s, NEW t, NEW low \in Nat, NEW mid \in Nat, NEW high \in Nat,
           low <= mid, mid < high,
           WellFormed(s, low, mid), WellFormed(t, mid + 1, high)
    PROVE  WellFormed(s \o t, low, high)
<1>1. /\ s \in Seq(StopSet) /\ t \in Seq(StopSet)
      /\ Len(s) \in Nat /\ Len(t) \in Nat
  BY DEF WellFormed
<1>2. /\ s \o t \in Seq(StopSet)
      /\ Len(s \o t) = Len(s) + Len(t)
      /\ \A i \in 1..Len(s) : (s \o t)[i] = s[i]
      /\ \A i \in 1..Len(t) : (s \o t)[Len(s) + i] = t[i]
  BY <1>1
<1>3. \A i \in 1..Len(s \o t) : i \notin 1..Len(s) =>
          i - Len(s) \in 1..Len(t) /\ (s \o t)[i] = t[i - Len(s)]
  <2>. SUFFICES ASSUME NEW i \in 1..Len(s \o t), i \notin 1..Len(s)
                PROVE  i - Len(s) \in 1..Len(t) /\ (s \o t)[i] = t[i - Len(s)]
    OBVIOUS
  <2>1. i - Len(s) \in 1..Len(t) /\ Len(s) + (i - Len(s)) = i
    BY <1>1, <1>2
  <2>. QED  BY <2>1, <1>2
<1>4. /\ \A i \in 1..Len(s) : Rank[s[i][1]] \in low..mid
      /\ \A i \in 1..Len(t) : Rank[t[i][1]] \in (mid + 1)..high
  BY DEF WellFormed
<1>. DEFINE u == s \o t
<1>5. ASSUME NEW i \in 1..Len(u)
      PROVE  /\ Rank[u[i][1]] \in low..high
             /\ CheckOf[u[i][1]] \in Checks
             /\ Rank[u[i][1]] \in 4..6 => HasSSH
             /\ u[i][1] = "storage" => \E j \in 1..i : u[j] = <<"storage", FirstNode>>
  <2>1. CASE i \in 1..Len(s)
    <3>1. u[i] = s[i] /\ \A j \in 1..i : u[j] = s[j]
      BY <2>1, <1>1, <1>2
    <3>2. /\ Rank[s[i][1]] \in low..mid
          /\ CheckOf[s[i][1]] \in Checks
          /\ Rank[s[i][1]] \in 4..6 => HasSSH
      BY <2>1 DEF WellFormed
    <3>3. s[i][1] = "storage" => \E j \in 1..i : s[j] = <<"storage", FirstNode>>
      BY <2>1 DEF WellFormed
    <3>. HIDE DEF u
    <3>. QED  BY <3>1, <3>2, <3>3
  <2>2. CASE i \notin 1..Len(s)
    <3>1. i - Len(s) \in 1..Len(t) /\ u[i] = t[i - Len(s)]
      BY <2>2, <1>3
    <3>2. /\ Rank[t[i - Len(s)][1]] \in (mid + 1)..high
          /\ CheckOf[t[i - Len(s)][1]] \in Checks
          /\ Rank[t[i - Len(s)][1]] \in 4..6 => HasSSH
          /\ t[i - Len(s)][1] = "storage" =>
               \E j \in 1..(i - Len(s)) : t[j] = <<"storage", FirstNode>>
      BY <3>1 DEF WellFormed
    <3>3. ASSUME u[i][1] = "storage"
          PROVE  \E j \in 1..i : u[j] = <<"storage", FirstNode>>
      <4>1. PICK j \in 1..(i - Len(s)) : t[j] = <<"storage", FirstNode>>
        BY <3>1, <3>2, <3>3
      <4>2. j \in 1..Len(t) /\ Len(s) + j \in 1..i
        BY <3>1, <1>1
      <4>3. u[Len(s) + j] = <<"storage", FirstNode>>
        BY <4>1, <4>2, <1>2
      <4>. QED  BY <4>2, <4>3
    <3>. HIDE DEF u
    <3>. QED  BY <3>1, <3>2, <3>3
  <2>. QED  BY <2>1, <2>2
<1>6. ASSUME NEW i \in 1..Len(u), NEW j \in 1..Len(u), i <= j
      PROVE  Rank[u[i][1]] <= Rank[u[j][1]]
  <2>1. CASE i \in 1..Len(s) /\ j \in 1..Len(s)
    <3>1. u[i] = s[i] /\ u[j] = s[j]
      BY <2>1, <1>2
    <3>. HIDE DEF u
    <3>. QED  BY <2>1, <3>1, <1>6 DEF WellFormed
  <2>2. CASE i \in 1..Len(s) /\ j \notin 1..Len(s)
    <3>1. /\ u[i] = s[i] /\ Rank[s[i][1]] \in low..mid
          /\ u[j] = t[j - Len(s)] /\ Rank[t[j - Len(s)][1]] \in (mid + 1)..high
      BY <2>2, <1>2, <1>3, <1>4
    <3>. HIDE DEF u
    <3>. QED  BY <3>1
  <2>3. CASE i \notin 1..Len(s) /\ j \notin 1..Len(s)
    <3>1. /\ i - Len(s) \in 1..Len(t) /\ j - Len(s) \in 1..Len(t)
          /\ i - Len(s) <= j - Len(s)
          /\ u[i] = t[i - Len(s)] /\ u[j] = t[j - Len(s)]
      BY <2>3, <1>1, <1>3, <1>6
    <3>. HIDE DEF u
    <3>. QED  BY <3>1 DEF WellFormed
  <2>4. ~(i \notin 1..Len(s) /\ j \in 1..Len(s))
    BY <1>1, <1>2, <1>6
  <2>. QED  BY <2>1, <2>2, <2>3, <2>4
<1>. QED  BY <1>2, <1>5, <1>6 DEF WellFormed

\* The stops of one check, all of one rank.
LEMMA StopsWellFormed ==
    ASSUME NEW check, NEW call \in Calls, CheckOf[call] = check,
           NEW S, S \subseteq Nodes \cup Services \cup Disks \cup {"disks"},
           NEW seq \in Seq(S),
           Rank[call] \in 4..6 => HasSSH,
           call = "storage" => seq = NodeOrder
    PROVE  WellFormed(Stops(check, call, seq), Rank[call], Rank[call])
<1>. DEFINE s == Stops(check, call, seq)
<1>1. s \in Seq(StopSet)
  <2>1. s \in Seq(Calls \X S)
    BY StopsType
  <2>2. Calls \X S \subseteq StopSet
    BY DEF StopSet
  <2>. HIDE DEF s
  <2>. QED  BY <2>1, <2>2
<1>2. ASSUME check \notin Checks PROVE WellFormed(s, Rank[call], Rank[call])
  <2>1. s = <<>>
    BY <1>2 DEF Stops
  <2>2. Len(s) = 0
    BY <2>1
  <2>. HIDE DEF s
  <2>. QED  BY <1>1, <2>2 DEF WellFormed
<1>3. ASSUME check \in Checks PROVE WellFormed(s, Rank[call], Rank[call])
  <2>1. /\ Len(s) = Len(seq) /\ Len(s) \in Nat
        /\ \A i \in 1..Len(s) : s[i] = <<call, seq[i]>>
    BY <1>3 DEF Stops
  <2>2. ASSUME NEW i \in 1..Len(s), s[i][1] = "storage"
        PROVE  \E j \in 1..i : s[j] = <<"storage", FirstNode>>
    <3>1. call = "storage" /\ 1 \in 1..i /\ 1 \in 1..Len(s)
      BY <2>1, <2>2
    <3>2. s[1] = <<"storage", FirstNode>>
      BY <2>1, <3>1 DEF FirstNode
    <3>. QED  BY <3>1, <3>2
  <2>3. \A i \in 1..Len(s) : s[i][1] = call
    BY <2>1
  <2>. HIDE DEF s
  <2>. QED  BY <1>1, <1>3, <2>1, <2>2, <2>3, RankType DEF WellFormed
<1>. QED  BY <1>2, <1>3

LEMMA GuestStopsWellFormed == WellFormed(GuestStops, 2, 2)
<1>1. GuestStops \in Seq(StopSet)
  <2>1. Calls \X Nodes \subseteq StopSet
    BY DEF StopSet
  <2>. QED  BY <2>1, GuestStopsType
<1>2. \A i \in 1..Len(GuestStops) :
         "vm_status" \in Checks /\ GuestStops[i][1] \in {"qemu", "lxc"}
  BY SurveyAssumption DEF GuestStops
<1>3. \A c \in {"qemu", "lxc"} : Rank[c] = 2 /\ CheckOf[c] = "vm_status" /\ c # "storage"
  BY DEF Rank, CheckOf, Calls
<1>. QED  BY <1>1, <1>2, <1>3 DEF WellFormed

LEMMA SSHStopsWellFormed == WellFormed(SSHStops, 4, 6)
<1>1. CASE ~HasSSH
  <2>1. SSHStops = <<>> /\ Len(SSHStops) = 0
    BY <1>1 DEF SSHStops
  <2>. QED  BY <2>1 DEF WellFormed
<1>2. CASE HasSSH
  <2>. DEFINE a == Stops("proxmox_services", "service", ServiceOrder)
              b == Stops("smart_disk_health", "lsblk", <<"disks">>)
              c == Stops("smart_disk_health", "smartctl", DiskOrder)
  <2>1. /\ Rank["service"] = 4 /\ Rank["lsblk"] = 5 /\ Rank["smartctl"] = 6
        /\ CheckOf["service"] = "proxmox_services"
        /\ CheckOf["lsblk"] = "smart_disk_health"
        /\ CheckOf["smartctl"] = "smart_disk_health"
        /\ {"service", "lsblk", "smartctl"} \subseteq Calls
    BY DEF Rank, CheckOf, Calls
  <2>2. <<"disks">> \in Seq({"disks"})
    OBVIOUS
  <2>3. WellFormed(a, 4, 4)
    BY <1>2, <2>1, StopsWellFormed, SurveyAssumption
  <2>4. WellFormed(b, 5, 5)
    BY <1>2, <2>1, <2>2, StopsWellFormed
  <2>5. WellFormed(c, 6, 6)
    BY <1>2, <2>1, StopsWellFormed, SurveyAssumption
  <2>6. SSHStops = (a \o b) \o c
    BY <1>2 DEF SSHStops
  <2>. HIDE DEF a, b, c
  <2>7. WellFormed(a \o b, 4, 5)
    BY <2>3, <2>4, ConcatWellFormed
  <2>. QED  BY <2>5, <2>6, <2>7, ConcatWellFormed
<1>. QED  BY <1>1, <1>2

LEMMA WalkWellFormed == WellFormed(Walk, 1, 6)
<1>. DEFINE a == Stops("node_metrics", "status", NodeOrder)
            c == Stops("storage_pools", "storage", NodeOrder)
<1>1. /\ Rank["status"] = 1 /\ Rank["storage"] = 3
      /\ CheckOf["status"] = "node_metrics" /\ CheckOf["storage"] = "storage_pools"
      /\ {"status", "storage"} \subseteq Calls
  BY DEF Rank, CheckOf, Calls
<1>2. WellFormed(a, 1, 1)
  BY <1>1, StopsWellFormed, SurveyAssumption
<1>3. WellFormed(c, 3, 3)
  BY <1>1, StopsWellFormed, SurveyAssumption
<1>4. Walk = ((a \o GuestStops) \o c) \o SSHStops
  BY DEF Walk
<1>. HIDE DEF a, c
<1>5. WellFormed(a \o GuestStops, 1, 2)
  BY <1>2, GuestStopsWellFormed, ConcatWellFormed
<1>6. WellFormed((a \o GuestStops) \o c, 1, 3)
  BY <1>3, <1>5, ConcatWellFormed
<1>. QED  BY <1>4, <1>6, SSHStopsWellFormed, ConcatWellFormed

\* An enabled check asks about everything there is to ask about.
LEMMA StopsCover ==
    ASSUME NEW check \in Checks, NEW call, NEW S, NEW seq \in Seq(S), NEW x \in Range(seq)
    PROVE  Contains(Stops(check, call, seq), <<call, x>>)
<1>1. PICK i \in 1..Len(seq) : seq[i] = x
  BY DEF Range
<1>2. /\ Len(Stops(check, call, seq)) = Len(seq)
      /\ Stops(check, call, seq)[i] = <<call, x>>
  BY <1>1 DEF Stops
<1>. QED  BY <1>1, <1>2 DEF Contains

LEMMA ConcatCovers ==
    ASSUME NEW s \in Seq(StopSet), NEW t \in Seq(StopSet), NEW x,
           Contains(s, x) \/ Contains(t, x)
    PROVE  Contains(s \o t, x)
<1>1. ASSUME NEW i \in 1..Len(s), s[i] = x
      PROVE  i \in 1..Len(s \o t) /\ (s \o t)[i] = x
  BY <1>1
<1>2. ASSUME NEW i \in 1..Len(t), t[i] = x
      PROVE  Len(s) + i \in 1..Len(s \o t) /\ (s \o t)[Len(s) + i] = x
  BY <1>2
<1>. QED  BY <1>1, <1>2 DEF Contains

LEMMA GuestStopsCover ==
    ASSUME "vm_status" \in Checks, NEW n \in Nodes, NEW type \in {"qemu", "lxc"}
    PROVE  Contains(GuestStops, <<type, n>>)
<1>1. PICK k \in 1..Len(NodeOrder) : NodeOrder[k] = n
  BY DEF Nodes, Range
<1>2. /\ 2*Len(NodeOrder) \in Nat
      /\ 2*k \in 1..2*Len(NodeOrder) /\ 2*k - 1 \in 1..2*Len(NodeOrder)
      /\ (2*k) % 2 = 0 /\ (2*k) \div 2 = k
      /\ (2*k - 1) % 2 = 1 /\ (2*k - 1 + 1) \div 2 = k
  BY SurveyAssumption
<1>3. Len(GuestStops) = 2*Len(NodeOrder)
  BY <1>2 DEF GuestStops
<1>4. GuestStops[2*k] = <<"lxc", n>> /\ GuestStops[2*k - 1] = <<"qemu", n>>
  BY <1>1, <1>2 DEF GuestStops
<1>. QED  BY <1>2, <1>3, <1>4 DEF Contains

\* The call is made somewhere on the walk.
OnWalk(call, x) == Contains(Walk, <<call, x>>)

LEMMA WalkCovers ==
    /\ "node_metrics" \in Checks => \A n \in Nodes : OnWalk("status", n)
    /\ "vm_status" \in Checks =>
          \A n \in Nodes, type \in {"qemu", "lxc"} : OnWalk(type, n)
    /\ "storage_pools" \in Checks => OnWalk("storage", FirstNode)
    /\ HasSSH /\ "proxmox_services" \in Checks => \A s \in Services : OnWalk("service", s)
    /\ HasSSH /\ "smart_disk_health" \in Checks => \A d \in Disks : OnWalk("smartctl", d)
<1>. DEFINE a == Stops("node_metrics", "status", NodeOrder)
            c == Stops("storage_pools", "storage", NodeOrder)
            e == Stops("proxmox_services", "service", ServiceOrder)
            f == Stops("smart_disk_health", "lsblk", <<"disks">>)
            g == Stops("smart_disk_health", "smartctl", DiskOrder)
<1>1. /\ a \in Seq(StopSet) /\ c \in Seq(StopSet) /\ e \in Seq(StopSet)
      /\ f \in Seq(StopSet) /\ g \in Seq(StopSet) /\ GuestStops \in Seq(StopSet)
  <2>1. <<"disks">> \in Seq({"disks"})
    OBVIOUS
  <2>2. /\ a \in Seq(Calls \X Nodes) /\ c \in Seq(Calls \X Nodes)
        /\ e \in Seq(Calls \X Services) /\ f \in Seq(Calls \X {"disks"})
        /\ g \in Seq(Calls \X Disks)
    BY <2>1, StopsType, SurveyAssumption DEF Calls
  <2>3. /\ Calls \X Nodes \subseteq StopSet /\ Calls \X Services \subseteq StopSet
        /\ Calls \X Disks \subseteq StopSet /\ Calls \X {"disks"} \subseteq StopSet
    BY DEF StopSet
  <2>. HIDE DEF a, c, e, f, g
  <2>. QED  BY <2>2, <2>3, GuestStopsType
<1>2. Walk = ((a \o GuestStops) \o c) \o SSHStops
  BY DEF Walk
<1>3. HasSSH => SSHStops = (e \o f) \o g
  BY DEF SSHStops
<1>4. SSHStops \in Seq(StopSet)
  BY SSHStopsWellFormed DEF WellFormed
<1>5. /\ "node_metrics" \in Checks => \A n \in Nodes : Contains(a, <<"status", n>>)
      /\ "storage_pools" \in Checks => Contains(c, <<"storage", FirstNode>>)
      /\ "proxmox_services" \in Checks => \A s \in Services : Contains(e, <<"service", s>>)
      /\ "smart_disk_health" \in Checks => \A d \in Disks : Contains(g, <<"smartctl", d>>)
  <2>1. FirstNode \in Nodes
    BY SurveyAssumption DEF FirstNode
  <2>2. "node_metrics" \in Checks => \A n \in Nodes : Contains(a, <<"status", n>>)
    BY StopsCover, SurveyAssumption DEF Nodes
  <2>3. "storage_pools" \in Checks => \A n \in Nodes : Contains(c, <<"storage", n>>)
    BY StopsCover, SurveyAssumption DEF Nodes
  <2>4. "proxmox_services" \in Checks => \A s \in Services : Contains(e, <<"service", s>>)
    BY StopsCover, SurveyAssumption DEF Services
  <2>5. "smart_disk_health" \in Checks => \A d \in Disks : Contains(g, <<"smartctl", d>>)
    BY StopsCover, SurveyAssumption DEF Disks
  <2>. QED  BY <2>1, <2>2, <2>3, <2>4, <2>5
<1>. HIDE DEF a, c, e, f, g
<1>6. \A s, t \in Seq(StopSet) : s \o t \in Seq(StopSet)
  OBVIOUS
<1>7. \A x : Contains(a, x) \/ Contains(GuestStops, x) \/ Contains(c, x) \/ Contains(SSHStops, x) => Contains(Walk, x)
  <2>. SUFFICES ASSUME NEW x,
                       Contains(a, x) \/ Contains(GuestStops, x) \/ Contains(c, x) \/ Contains(SSHStops, x)
                PROVE  Contains(Walk, x)
    OBVIOUS
  <2>1. Contains(a, x) \/ Contains(GuestStops, x) => Contains(a \o GuestStops, x)
    BY <1>1, ConcatCovers
  <2>2. Contains(a \o GuestStops, x) \/ Contains(c, x) => Contains((a \o GuestStops) \o c, x)
    BY <1>1, <1>6, ConcatCovers
  <2>3. Contains((a \o GuestStops) \o c, x) \/ Contains(SSHStops, x) => Contains(Walk, x)
    BY <1>1, <1>2, <1>4, <1>6, ConcatCovers
  <2>. QED  BY <2>1, <2>2, <2>3
<1>8. HasSSH => \A x : Contains(e, x) \/ Contains(g, x) => Contains(SSHStops, x)
  <2>. SUFFICES ASSUME HasSSH, NEW x, Contains(e, x) \/ Contains(g, x)
                PROVE  Contains(SSHStops, x)
    OBVIOUS
  <2>1. Contains(e, x) => Contains(e \o f, x)
    BY <1>1, ConcatCovers
  <2>2. e \o f \in Seq(StopSet) /\ SSHStops = (e \o f) \o g
    BY <1>1, <1>3, <1>6
  <2>3. Contains(e \o f, x) \/ Contains(g, x) => Contains(SSHStops, x)
    BY <1>1, <2>2, ConcatCovers
  <2>. QED  BY <2>1, <2>3
<1>9. "vm_status" \in Checks =>
         \A n \in Nodes, type \in {"qemu", "lxc"} : Contains(GuestStops, <<type, n>>)
  BY GuestStopsCover
<1>10. \A call, x : Contains(Walk, <<call, x>>) => OnWalk(call, x)
  BY DEF OnWalk
<1>. QED  BY <1>5, <1>7, <1>8, <1>9, <1>10

-----------------------------------------------------------------------------
(* What the walk has found so far *)

\* The call has been made and answered.
Passed(call, x) == \E j \in 1..(at - 1) : j <= Len(Walk) /\ Walk[j] = <<call, x>>

\* Walking, all that was wrong, overlooked or misread at the start or since
\* has been noted, and what is still held against the cluster is wrong with
\* it now.
HistoryInv ==
    at # 0 => /\ Problems \subseteq seen /\ held \subseteq Problems
              /\ Overlooked \subseteq missed /\ Misread \subseteq misread
              /\ ~cut => ssh = "answers"

\* No anomaly of the snapshot so far was invented, but for what was misread.
HonestInv == DetectAnomalies(snap) \subseteq seen \cup misread

\* A lasting problem is in the snapshot once the call that would find it has
\* been answered.
NodesInv ==
    at # 0 => \A n \in Nodes, g \in Gauges :
        Title(g, n, High) \in held /\ Passed("status", n)
            => Title(g, n, High) \in NodeAnomalies(snap.nodes)

GuestsInv ==
    at # 0 => \A v \in Guests \ moved, s \in GuestStatuses :
        Title(GuestType[v], v, <<s>>) \in held /\ Passed(GuestType[v], guest[v].node)
            => Title(GuestType[v], v, <<s>>) \in GuestAnomalies(snap.vms)

\* Until the first node has been asked there is no storage in the snapshot,
\* and then there are all of them: it is the first node's answer that stays.
StoragesInv ==
    at # 0 => /\ IF Passed("storage", FirstNode)
                 THEN Storages \subseteq {r.storage_id : r \in snap.storages}
                 ELSE snap.storages = {}
              /\ \A s \in Storages :
                    Title("storage", s, High) \in held \ missed /\ Passed("storage", FirstNode)
                        => Title("storage", s, High) \in StorageAnomalies(snap.storages)

ServicesInv ==
    at # 0 /\ ~cut => \A s \in Services, r \in ServiceStates :
        Title("service", s, Report(r)) \in held /\ Passed("service", s)
            => Title("service", s, Report(r)) \in ServiceAnomalies(snap.services)

\* One failing disk accounts for a SMART problem that lasts, unless disks are
\* replaced.
DisksInv ==
    at # 0 /\ ~cut /\ moved \cap Disks = {} /\ Title("smart", "disks", <<"failed">>) \in held
        => \E d \in Disks :
              /\ health[d] = "failed"
              /\ Passed("smartctl", d)
                  => Title("smart", "disks", <<"failed">>) \in SmartAnomalies(snap.smart)

FoundInv ==
    /\ TypeOK /\ HistoryInv /\ HonestInv
    /\ NodesInv /\ GuestsInv /\ StoragesInv /\ ServicesInv /\ DisksInv

\* A title tells what kind of problem it is about.
LEMMA ProblemKinds ==
    /\ \A g \in Gauges : \A n : Title(g, n, High) \in Problems =>
          /\ "node_metrics" \in Checks /\ n \in Nodes
          /\ n \in online /\ Threshold[g] <= reading[n][g]
    /\ \A v \in Guests, s \in GuestStatuses : Title(GuestType[v], v, <<s>>) \in Problems =>
          /\ "vm_status" \in Checks
          /\ guest[v].node \in online /\ guest[v].status = s /\ s \in {"error", "unknown"}
    /\ \A s : Title("storage", s, High) \in Problems =>
          /\ "storage_pools" \in Checks /\ s \in Storages
          /\ FullOn(s) # {}
    /\ \A s, r : Title("service", s, r) \in Problems =>
          /\ "proxmox_services" \in Checks /\ HasSSH /\ s \in Services
          /\ service[s] # "active" /\ r = Report(service[s])
    /\ \A r : Title("smart", "disks", r) \in Problems =>
          /\ "smart_disk_health" \in Checks /\ HasSSH
          /\ \E d \in Disks : health[d] = "failed"
<1>1. \A v \in Guests : GuestType[v] \in {"qemu", "lxc"}
  BY SurveyAssumption
<1>2. \A g \in Gauges : g \notin {"qemu", "lxc", "storage", "service", "smart"}
  BY DEF Gauges
<1>. QED
  BY <1>1, <1>2 DEF Problems, Title, High

\* What is wrong, overlooked or misread depends on the cluster alone.
LEMMA SameCluster ==
    ASSUME UNCHANGED clusterVars
    PROVE  Problems' = Problems /\ Overlooked' = Overlooked /\ Misread' = Misread
  BY DEF clusterVars, Problems, Overlooked, Misread, FullOn

LEMMA PassedStep ==
    ASSUME NEW call, NEW x, Due(call, x), at' = at + 1
    PROVE  \A c, y : Passed(c, y)' <=> Passed(c, y) \/ (c = call /\ y = x)
<1>1. at \in 1..Len(Walk) /\ Walk[at] = <<call, x>> /\ Len(Walk) \in Nat
  BY WalkType DEF Due
<1>2. ASSUME NEW c, NEW y, Passed(c, y)' PROVE Passed(c, y) \/ (c = call /\ y = x)
  <2>1. PICK j \in 1..(at' - 1) : j <= Len(Walk) /\ Walk[j] = <<c, y>>
    BY <1>2 DEF Passed
  <2>2. j = at \/ j \in 1..(at - 1)
    BY <1>1
  <2>. QED  BY <2>1, <2>2, <1>1 DEF Passed
<1>3. ASSUME NEW c, NEW y, Passed(c, y) \/ (c = call /\ y = x) PROVE Passed(c, y)'
  <2>1. PICK j \in 1..at : j <= Len(Walk) /\ Walk[j] = <<c, y>>
    BY <1>1, <1>3 DEF Passed
  <2>. QED  BY <2>1, <1>1 DEF Passed
<1>. QED  BY <1>2, <1>3

\* What a call that has come due says about the configuration.
LEMMA DueEnabled ==
    ASSUME NEW call \in Calls, NEW x, Due(call, x)
    PROVE  /\ CheckOf[call] \in Checks
           /\ Rank[call] \in 4..6 => HasSSH
           /\ call = "storage" /\ x # FirstNode => Passed("storage", FirstNode)
<1>1. at \in 1..Len(Walk) /\ Walk[at] = <<call, x>> /\ Len(Walk) \in Nat
  BY WalkType DEF Due
<1>2. /\ CheckOf[Walk[at][1]] \in Checks
      /\ Rank[Walk[at][1]] \in 4..6 => HasSSH
      /\ Walk[at][1] = "storage" => \E j \in 1..at : Walk[j] = <<"storage", FirstNode>>
  BY <1>1, WalkWellFormed DEF WellFormed
<1>3. ASSUME call = "storage", x # FirstNode PROVE Passed("storage", FirstNode)
  <2>1. PICK j \in 1..at : Walk[j] = <<"storage", FirstNode>>
    BY <1>1, <1>2, <1>3
  <2>2. j # at
    BY <2>1, <1>1, <1>3
  <2>. QED  BY <2>1, <2>2, <1>1 DEF Passed
<1>. QED  BY <1>1, <1>2, <1>3

LEMMA CollectedFields ==
    ASSUME TypeOK, NEW items
    PROVE  /\ Collected("nodes", items) =>
                /\ snap'.nodes = snap.nodes \cup items /\ snap'.vms = snap.vms
                /\ snap'.storages = snap.storages /\ snap'.services = snap.services
                /\ snap'.smart = snap.smart
           /\ Collected("vms", items) =>
                /\ snap'.nodes = snap.nodes /\ snap'.vms = snap.vms \cup items
                /\ snap'.storages = snap.storages /\ snap'.services = snap.services
                /\ snap'.smart = snap.smart
           /\ Collected("storages", items) =>
                /\ snap'.nodes = snap.nodes /\ snap'.vms = snap.vms
                /\ snap'.storages = snap.storages \cup items
                /\ snap'.services = snap.services /\ snap'.smart = snap.smart
           /\ Collected("services", items) =>
                /\ snap'.nodes = snap.nodes /\ snap'.vms = snap.vms
                /\ snap'.storages = snap.storages
                /\ snap'.services = snap.services \cup items /\ snap'.smart = snap.smart
           /\ Collected("smart", items) =>
                /\ snap'.nodes = snap.nodes /\ snap'.vms = snap.vms
                /\ snap'.storages = snap.storages /\ snap'.services = snap.services
                /\ snap'.smart = snap.smart \cup items
  BY DEF Collected, TypeOK, WalkTypeOK, Snapshot

\* A step of the walk leaves alone what it has no answer for.
LEMMA Untouched ==
    ASSUME FoundInv, NEW call, NEW x, Due(call, x), at' = at + 1,
           UNCHANGED <<clusterVars, historyVars>>
    PROVE  /\ HistoryInv'
           /\ snap'.nodes = snap.nodes /\ call # "status" => NodesInv'
           /\ snap'.vms = snap.vms /\ call \notin {"qemu", "lxc"} => GuestsInv'
           /\ snap'.storages = snap.storages /\ call # "storage" => StoragesInv'
           /\ snap'.services = snap.services /\ call # "service" => ServicesInv'
           /\ snap'.smart = snap.smart /\ call # "smartctl" => DisksInv'
<1>1. at # 0 /\ at' # 0
  BY WalkType DEF Due
<1>2. \A c, y : Passed(c, y)' <=> Passed(c, y) \/ (c = call /\ y = x)
  BY PassedStep
<1>3. HistoryInv'
  BY <1>1, SameCluster DEF FoundInv, HistoryInv, clusterVars, historyVars
<1>4. ASSUME snap'.nodes = snap.nodes, call # "status" PROVE NodesInv'
  BY <1>1, <1>2, <1>4 DEF FoundInv, NodesInv, historyVars
<1>5. ASSUME snap'.vms = snap.vms, call \notin {"qemu", "lxc"} PROVE GuestsInv'
  <2>1. \A v \in Guests : GuestType[v] # call
    BY <1>5, SurveyAssumption
  <2>. QED  BY <1>1, <1>2, <1>5, <2>1 DEF FoundInv, GuestsInv, historyVars, clusterVars
<1>6. ASSUME snap'.storages = snap.storages, call # "storage" PROVE StoragesInv'
  BY <1>1, <1>2, <1>6 DEF FoundInv, StoragesInv, historyVars
<1>7. ASSUME snap'.services = snap.services, call # "service" PROVE ServicesInv'
  BY <1>1, <1>2, <1>7 DEF FoundInv, ServicesInv, historyVars
<1>8. ASSUME snap'.smart = snap.smart, call # "smartctl" PROVE DisksInv'
  BY <1>1, <1>2, <1>8 DEF FoundInv, DisksInv, historyVars, clusterVars
<1>. QED  BY <1>3, <1>4, <1>5, <1>6, <1>7, <1>8

LEMMA StatusFound ==
    ASSUME FoundInv, NEW n \in Nodes, ReadStatus(n), TypeOK'
    PROVE  FoundInv'
<1>. DEFINE m == [node |-> n, reading |-> reading[n]]
<1>1. /\ Due("status", n) /\ at' = at + 1 /\ n \in online
      /\ UNCHANGED <<clusterVars, historyVars>> /\ Collected("nodes", {m})
  BY DEF ReadStatus, Collected
<1>2. /\ snap'.nodes = snap.nodes \cup {m} /\ snap'.vms = snap.vms
      /\ snap'.storages = snap.storages /\ snap'.services = snap.services
      /\ snap'.smart = snap.smart
  BY <1>1, CollectedFields DEF FoundInv
<1>3. /\ HistoryInv' /\ GuestsInv' /\ StoragesInv' /\ ServicesInv' /\ DisksInv'
  BY <1>1, <1>2, Untouched
<1>4. "node_metrics" \in Checks
  BY <1>1, DueEnabled DEF Calls, CheckOf
<1>5. at # 0 /\ Problems \subseteq seen /\ held \subseteq Problems
  BY <1>1, WalkType DEF FoundInv, HistoryInv, Due
<1>6. NodeAnomalies(snap'.nodes)
        = NodeAnomalies(snap.nodes) \cup {Title(g, n, High) : g \in HighGauges(m)}
  BY <1>2 DEF NodeAnomalies
<1>7. HighGauges(m) = {g \in Gauges : Threshold[g] <= reading[n][g]}
  <2>1. \A g \in Gauges : reading[n][g] \in Nat /\ Threshold[g] \in Nat
    <3>1. reading[n] \in [Gauges -> Readings] /\ Readings \subseteq Nat
      BY SurveyAssumption DEF FoundInv, TypeOK, ClusterTypeOK
    <3>. QED  BY <3>1, DetectionAssumption
  <2>. QED  BY <2>1 DEF HighGauges
<1>8. HonestInv'
  <2>1. \A g \in HighGauges(m) : Title(g, n, High) \in Problems
    BY <1>1, <1>4, <1>7 DEF Problems, Title
  <2>2. seen' = seen /\ misread' = misread
    BY <1>1 DEF historyVars
  <2>. HIDE DEF m
  <2>. QED
    BY <1>2, <1>5, <1>6, <2>1, <2>2 DEF FoundInv, HonestInv, DetectAnomalies
<1>9. NodesInv'
  <2>. SUFFICES ASSUME NEW k \in Nodes, NEW g \in Gauges,
                       Title(g, k, High) \in held, Passed("status", k)'
                PROVE  Title(g, k, High) \in NodeAnomalies(snap'.nodes)
    BY <1>1 DEF NodesInv, historyVars
  <2>1. CASE Passed("status", k)
    BY <1>5, <1>6, <2>1 DEF FoundInv, NodesInv
  <2>2. CASE k = n
    <3>1. Threshold[g] <= reading[n][g]
      BY <1>5, <2>2, ProblemKinds
    <3>. QED  BY <1>6, <1>7, <2>2, <3>1
  <2>. QED  BY <1>1, <2>1, <2>2, PassedStep
<1>. QED  BY <1>3, <1>8, <1>9 DEF FoundInv

LEMMA GuestsFound ==
    ASSUME FoundInv, NEW n \in Nodes, NEW type \in {"qemu", "lxc"}, ReadGuests(type, n), TypeOK'
    PROVE  FoundInv'
<1>. DEFINE here == {w \in Guests : GuestType[w] = type /\ guest[w].node = n}
            new == {[vmid |-> v, vm_type |-> type, status |-> guest[v].status] : v \in here}
<1>1. /\ Due(type, n) /\ at' = at + 1 /\ n \in online
      /\ UNCHANGED <<clusterVars, historyVars>> /\ Collected("vms", new)
  BY DEF ReadGuests, Collected
<1>2. /\ snap'.nodes = snap.nodes /\ snap'.vms = snap.vms \cup new
      /\ snap'.storages = snap.storages /\ snap'.services = snap.services
      /\ snap'.smart = snap.smart
  <2>. HIDE DEF new
  <2>. QED  BY <1>1, CollectedFields DEF FoundInv
<1>3. /\ HistoryInv' /\ NodesInv' /\ StoragesInv' /\ ServicesInv' /\ DisksInv'
  BY <1>1, <1>2, Untouched
<1>4. "vm_status" \in Checks
  BY <1>1, DueEnabled DEF Calls, CheckOf
<1>5. at # 0 /\ Problems \subseteq seen /\ held \subseteq Problems
  BY <1>1, WalkType DEF FoundInv, HistoryInv, Due
<1>6. GuestAnomalies(new) =
        {Title(GuestType[v], v, <<guest[v].status>>) :
            v \in {w \in here : guest[w].status \in {"error", "unknown"}}}
  <2>1. ASSUME NEW t \in GuestAnomalies(new)
        PROVE  \E v \in here : /\ guest[v].status \in {"error", "unknown"}
                              /\ t = Title(GuestType[v], v, <<guest[v].status>>)
    <3>1. PICK r \in new : /\ r.status \in {"error", "unknown"}
                           /\ t = Title(r.vm_type, r.vmid, <<r.status>>)
      BY <2>1 DEF GuestAnomalies
    <3>2. PICK v \in here : r = [vmid |-> v, vm_type |-> type, status |-> guest[v].status]
      BY <3>1
    <3>3. r.vm_type = GuestType[v] /\ r.vmid = v /\ r.status = guest[v].status
      BY <3>2
    <3>. QED  BY <3>1, <3>3
  <2>2. ASSUME NEW v \in here, guest[v].status \in {"error", "unknown"}
        PROVE  Title(GuestType[v], v, <<guest[v].status>>) \in GuestAnomalies(new)
    <3>. DEFINE r == [vmid |-> v, vm_type |-> type, status |-> guest[v].status]
    <3>1. /\ r \in new /\ r.status \in {"error", "unknown"} /\ GuestType[v] = type
          /\ r.vmid = v /\ r.vm_type = type /\ r.status = guest[v].status
      BY <2>2
    <3>. HIDE DEF r, new
    <3>. QED  BY <3>1 DEF GuestAnomalies
  <2>. HIDE DEF new
  <2>. QED  BY <2>1, <2>2
<1>7. GuestAnomalies(snap'.vms) = GuestAnomalies(snap.vms) \cup GuestAnomalies(new)
  <2>. HIDE DEF new
  <2>. QED  BY <1>2 DEF GuestAnomalies
<1>8. HonestInv'
  <2>1. GuestAnomalies(new) \subseteq Problems
    BY <1>1, <1>4, <1>6 DEF Problems
  <2>2. seen' = seen /\ misread' = misread
    BY <1>1 DEF historyVars
  <2>. HIDE DEF new
  <2>. QED
    BY <1>2, <1>5, <1>7, <2>1, <2>2 DEF FoundInv, HonestInv, DetectAnomalies
<1>9. GuestsInv'
  <2>. SUFFICES ASSUME NEW v \in Guests \ moved, NEW s \in GuestStatuses,
                       Title(GuestType[v], v, <<s>>) \in held,
                       Passed(GuestType[v], guest[v].node)'
                PROVE  Title(GuestType[v], v, <<s>>) \in GuestAnomalies(snap'.vms)
    BY <1>1 DEF GuestsInv, historyVars, clusterVars
  <2>1. guest' = guest
    BY <1>1 DEF clusterVars
  <2>2. Passed(GuestType[v], guest[v].node) \/ (GuestType[v] = type /\ guest[v].node = n)
    BY <1>1, <2>1, PassedStep
  <2>3. CASE Passed(GuestType[v], guest[v].node)
    BY <1>5, <1>7, <2>3 DEF FoundInv, GuestsInv
  <2>4. CASE GuestType[v] = type /\ guest[v].node = n
    <3>1. guest[v].status = s /\ s \in {"error", "unknown"}
      BY <1>5, ProblemKinds
    <3>. QED  BY <1>6, <1>7, <2>4, <3>1
  <2>. QED  BY <2>2, <2>3, <2>4
<1>. QED  BY <1>3, <1>8, <1>9 DEF FoundInv

LEMMA StorageFound ==
    ASSUME FoundInv, NEW n \in Nodes, ReadStorage(n), TypeOK'
    PROVE  FoundInv'
<1>. DEFINE old == {r.storage_id : r \in snap.storages}
            new == {[storage_id |-> s, percent_used |-> usage[n][s]] : s \in Storages \ old}
<1>1. /\ Due("storage", n) /\ at' = at + 1 /\ n \in online
      /\ UNCHANGED <<clusterVars, historyVars>> /\ Collected("storages", new)
  BY DEF ReadStorage, Collected
<1>2. /\ snap'.nodes = snap.nodes /\ snap'.vms = snap.vms
      /\ snap'.storages = snap.storages \cup new /\ snap'.services = snap.services
      /\ snap'.smart = snap.smart
  <2>. HIDE DEF new
  <2>. QED  BY <1>1, CollectedFields DEF FoundInv
<1>3. /\ HistoryInv' /\ NodesInv' /\ GuestsInv' /\ ServicesInv' /\ DisksInv'
  BY <1>1, <1>2, Untouched
<1>4. "storage_pools" \in Checks
  BY <1>1, DueEnabled DEF Calls, CheckOf
<1>5. at # 0 /\ Problems \subseteq seen /\ held \subseteq Problems
      /\ Overlooked \subseteq missed
      /\ seen' = seen /\ held' = held /\ missed' = missed /\ misread' = misread
  BY <1>1, WalkType DEF FoundInv, HistoryInv, Due, historyVars
<1>6. StorageAnomalies(snap'.storages)
        = StorageAnomalies(snap.storages) \cup StorageAnomalies(new)
  <2>. HIDE DEF new
  <2>. QED  BY <1>2 DEF StorageAnomalies
<1>7. CASE Passed("storage", FirstNode)
  <2>1. new = {} /\ snap'.storages = snap.storages
    BY <1>2, <1>5, <1>7 DEF FoundInv, StoragesInv
  <2>2. Passed("storage", FirstNode)'
    BY <1>1, <1>7, PassedStep
  <2>3. HonestInv'
    BY <1>2, <1>5, <2>1 DEF FoundInv, HonestInv, DetectAnomalies
  <2>4. StoragesInv'
    BY <1>5, <1>7, <2>1, <2>2 DEF FoundInv, StoragesInv
  <2>. QED  BY <1>3, <2>3, <2>4 DEF FoundInv
<1>8. CASE ~Passed("storage", FirstNode)
  <2>1. n = FirstNode /\ snap.storages = {} /\ old = {}
    BY <1>1, <1>5, <1>8, DueEnabled DEF Calls, FoundInv, StoragesInv
  <2>2. Passed("storage", FirstNode)'
    BY <1>1, <2>1, PassedStep
  <2>3. \A s \in Storages : /\ usage[n][s] \in Nat /\ Threshold["disk"] \in Nat
    <3>1. usage[n] \in [Storages -> Readings] /\ Readings \subseteq Nat
      BY SurveyAssumption DEF FoundInv, TypeOK, ClusterTypeOK
    <3>. QED  BY <3>1, DetectionAssumption DEF Gauges
  <2>4. ASSUME NEW t \in StorageAnomalies(new)
        PROVE  t \in Problems
    <3>1. PICK r \in new : r.percent_used >= Threshold["disk"]
                           /\ t = Title("storage", r.storage_id, High)
      BY <2>4 DEF StorageAnomalies
    <3>2. PICK s \in Storages : r = [storage_id |-> s, percent_used |-> usage[n][s]]
      BY <3>1
    <3>3. t = Title("storage", s, High) /\ Threshold["disk"] <= usage[FirstNode][s]
      BY <2>1, <2>3, <3>1, <3>2
    <3>4. FullOn(s) # {}
      BY <1>1, <2>1, <3>3 DEF FullOn
    <3>. QED  BY <1>4, <3>3, <3>4 DEF Problems
  <2>5. ASSUME NEW s \in Storages, Threshold["disk"] <= usage[n][s]
        PROVE  Title("storage", s, High) \in StorageAnomalies(new)
    <3>. DEFINE r == [storage_id |-> s, percent_used |-> usage[n][s]]
    <3>1. r \in new /\ r.storage_id = s /\ r.percent_used >= Threshold["disk"]
      BY <2>1, <2>3, <2>5
    <3>. HIDE DEF r, new
    <3>. QED  BY <3>1 DEF StorageAnomalies
  <2>6. Storages \subseteq {r.storage_id : r \in new}
    <3>1. ASSUME NEW s \in Storages PROVE \E r \in new : r.storage_id = s
      <4>. DEFINE r == [storage_id |-> s, percent_used |-> usage[n][s]]
      <4>1. r \in new /\ r.storage_id = s
        BY <2>1
      <4>. QED  BY <4>1
    <3>. HIDE DEF new
    <3>. QED  BY <3>1
  <2>. HIDE DEF new
  <2>7. HonestInv'
    BY <1>2, <1>5, <1>6, <2>4 DEF FoundInv, HonestInv, DetectAnomalies
  <2>8. StoragesInv'
    <3>1. snap'.storages = new
      BY <1>2, <2>1
    <3>2. ASSUME NEW s \in Storages, Title("storage", s, High) \in held \ missed
          PROVE  Title("storage", s, High) \in StorageAnomalies(new)
      <4>1. FullOn(s) # {} /\ Title("storage", s, High) \notin Overlooked
        BY <1>5, <3>2, ProblemKinds
      <4>2. FirstNode \in FullOn(s)
        BY <1>4, <4>1 DEF Overlooked
      <4>. QED  BY <2>1, <2>5, <4>2 DEF FullOn
    <3>. QED  BY <1>5, <2>2, <2>6, <3>1, <3>2 DEF StoragesInv
  <2>. QED  BY <1>3, <2>7, <2>8 DEF FoundInv
<1>. QED  BY <1>7, <1>8

LEMMA ServiceFound ==
    ASSUME FoundInv, NEW s \in Services, ReadService(s), TypeOK'
    PROVE  FoundInv'
<1>. DEFINE status == IF ssh = "answers" THEN Report(service[s])
                      ELSE IF ssh = "silent" THEN <<>>
                      ELSE <<"unknown">>
            new == {[service |-> s, status |-> status]}
            reported == status \notin {<<"active">>, <<"unknown">>}
<1>1. /\ Due("service", s) /\ at' = at + 1
      /\ UNCHANGED <<clusterVars, historyVars>> /\ Collected("services", new)
  BY DEF ReadService, Collected
<1>2. /\ snap'.nodes = snap.nodes /\ snap'.vms = snap.vms
      /\ snap'.storages = snap.storages /\ snap'.services = snap.services \cup new
      /\ snap'.smart = snap.smart
  <2>. HIDE DEF new
  <2>. QED  BY <1>1, CollectedFields DEF FoundInv
<1>3. /\ HistoryInv' /\ NodesInv' /\ GuestsInv' /\ StoragesInv' /\ DisksInv'
  BY <1>1, <1>2, Untouched
<1>4. "proxmox_services" \in Checks /\ HasSSH
  BY <1>1, DueEnabled DEF Calls, CheckOf, Rank
<1>5. /\ at # 0 /\ Problems \subseteq seen /\ held \subseteq Problems /\ Misread \subseteq misread
      /\ seen' = seen /\ held' = held /\ misread' = misread
      /\ cut' = cut /\ (~cut => ssh = "answers")
  BY <1>1, WalkType DEF FoundInv, HistoryInv, Due, historyVars
<1>6. /\ \A r \in {"reloading", "failed"} : Report(r) \notin {<<"active">>, <<"unknown">>}
      /\ Report("active") = <<"active">>
  BY DEF Report
<1>7. service[s] \in ServiceStates
  BY DEF FoundInv, TypeOK, ClusterTypeOK
<1>8. ServiceAnomalies(snap'.services)
        = ServiceAnomalies(snap.services)
            \cup (IF reported THEN {Title("service", s, status)} ELSE {})
  <2>1. ServiceAnomalies(snap'.services) = ServiceAnomalies(snap.services) \cup ServiceAnomalies(new)
    <3>. HIDE DEF new
    <3>. QED  BY <1>2 DEF ServiceAnomalies
  <2>. HIDE DEF status
  <2>2. CASE reported
    <3>1. \A t : t \in ServiceAnomalies(new) => t = Title("service", s, status)
      BY DEF ServiceAnomalies
    <3>. DEFINE r == [service |-> s, status |-> status]
    <3>2. r \in new /\ r.service = s /\ r.status = status
      OBVIOUS
    <3>. HIDE DEF r, new
    <3>3. Title("service", s, status) \in ServiceAnomalies(new)
      BY <2>2, <3>2 DEF ServiceAnomalies
    <3>4. ServiceAnomalies(new) = {Title("service", s, status)}
      BY <3>1, <3>3
    <3>. HIDE DEF reported
    <3>. QED  BY <2>1, <2>2, <3>4
  <2>3. CASE ~reported
    <3>1. ServiceAnomalies(new) = {}
      BY <2>3 DEF ServiceAnomalies
    <3>. HIDE DEF new, reported
    <3>. QED  BY <2>1, <2>3, <3>1
  <2>. QED  BY <2>2, <2>3
<1>9. HonestInv'
  <2>1. reported => Title("service", s, status) \in Problems \cup Misread
    <3>1. CASE ssh = "answers"
      BY <1>4, <1>6, <3>1 DEF Problems
    <3>2. CASE ssh = "silent"
      <4>1. status = <<>> /\ Title("service", s, <<>>) \in Misread
        BY <1>4, <3>2 DEF Misread
      <4>. HIDE DEF status
      <4>. QED  BY <4>1
    <3>3. CASE ssh \notin {"answers", "silent"}
      BY <3>3
    <3>. QED  BY <3>1, <3>2, <3>3
  <2>. HIDE DEF status, reported
  <2>. QED  BY <1>2, <1>5, <1>8, <2>1 DEF FoundInv, HonestInv, DetectAnomalies
<1>10. ServicesInv'
  <2>. SUFFICES ASSUME ~cut, NEW u \in Services, NEW r \in ServiceStates,
                       Title("service", u, Report(r)) \in held, Passed("service", u)'
                PROVE  Title("service", u, Report(r)) \in ServiceAnomalies(snap'.services)
    BY <1>5 DEF ServicesInv
  <2>1. CASE Passed("service", u)
    <3>1. Title("service", u, Report(r)) \in ServiceAnomalies(snap.services)
      BY <1>5, <2>1 DEF FoundInv, ServicesInv
    <3>. HIDE DEF status, reported
    <3>. QED  BY <1>8, <3>1
  <2>2. CASE u = s
    <3>1. service[s] # "active" /\ Report(r) = Report(service[s])
      BY <1>5, <2>2, ProblemKinds
    <3>2. status = Report(service[s]) /\ reported
      BY <1>5, <1>6, <1>7, <3>1 DEF ServiceStates
    <3>. HIDE DEF status, reported
    <3>. QED  BY <1>8, <2>2, <3>1, <3>2
  <2>. QED  BY <1>1, <2>1, <2>2, PassedStep
<1>. QED  BY <1>3, <1>9, <1>10 DEF FoundInv

LEMMA DiskFound ==
    ASSUME FoundInv, NEW d \in Disks, ReadDisk(d), TypeOK'
    PROVE  FoundInv'
<1>. DEFINE smart == Title("smart", "disks", <<"failed">>)
            says == IF ssh = "answers" THEN Output[health[d]] ELSE {}
            new == {[disk |-> d, says |-> says]}
<1>1. /\ Due("smartctl", d) /\ at' = at + 1
      /\ UNCHANGED <<clusterVars, historyVars>> /\ Collected("smart", new)
  BY DEF ReadDisk, Collected
<1>2. /\ snap'.nodes = snap.nodes /\ snap'.vms = snap.vms
      /\ snap'.storages = snap.storages /\ snap'.services = snap.services
      /\ snap'.smart = snap.smart \cup new
  <2>. HIDE DEF new
  <2>. QED  BY <1>1, CollectedFields DEF FoundInv
<1>3. /\ HistoryInv' /\ NodesInv' /\ GuestsInv' /\ StoragesInv' /\ ServicesInv'
  BY <1>1, <1>2, Untouched
<1>4. "smart_disk_health" \in Checks /\ HasSSH
  BY <1>1, DueEnabled DEF Calls, CheckOf, Rank
<1>5. /\ at # 0 /\ Problems \subseteq seen /\ Misread \subseteq misread
      /\ health' = health /\ seen' = seen /\ held' = held /\ misread' = misread
      /\ cut' = cut /\ moved' = moved /\ (~cut => ssh = "answers")
  BY <1>1, WalkType DEF FoundInv, HistoryInv, Due, historyVars, clusterVars
<1>6. SmartAnomalies(snap'.smart)
        = SmartAnomalies(snap.smart) \cup (IF "failed" \in says THEN {smart} ELSE {})
  <2>1. SmartAnomalies(snap'.smart) = SmartAnomalies(snap.smart) \cup SmartAnomalies(new)
    <3>. HIDE DEF new
    <3>. QED  BY <1>2 DEF SmartAnomalies
  <2>. DEFINE r == [disk |-> d, says |-> says]
  <2>2. new = {r} /\ r.says = says
    OBVIOUS
  <2>. HIDE DEF new, r, says
  <2>3. SmartAnomalies(new) = IF "failed" \in says THEN {smart} ELSE {}
    BY <2>2 DEF SmartAnomalies
  <2>. QED  BY <2>1, <2>3
<1>7. health[d] \in HealthStates
  BY DEF FoundInv, TypeOK, ClusterTypeOK
<1>8. HonestInv'
  <2>1. "failed" \in says => ssh = "answers" /\ health[d] \in {"failed", "unreadable"}
    BY <1>7 DEF HealthStates, Output
  <2>2. "failed" \in says => smart \in Problems \cup Misread
    BY <1>4, <2>1 DEF Problems, Misread
  <2>. HIDE DEF smart, says
  <2>. QED  BY <1>2, <1>5, <1>6, <2>2 DEF FoundInv, HonestInv, DetectAnomalies
<1>9. DisksInv'
  <2>. SUFFICES ASSUME ~cut, moved \cap Disks = {}, smart \in held
                PROVE  \E e \in Disks :
                          /\ health[e] = "failed"
                          /\ Passed("smartctl", e)' => smart \in SmartAnomalies(snap'.smart)
    BY <1>5 DEF DisksInv
  <2>1. PICK e \in Disks : /\ health[e] = "failed"
                           /\ Passed("smartctl", e) => smart \in SmartAnomalies(snap.smart)
    BY <1>5 DEF FoundInv, DisksInv
  <2>2. Passed("smartctl", e)' => Passed("smartctl", e) \/ e = d
    BY <1>1, PassedStep
  <2>3. e = d => "failed" \in says
    BY <1>5, <2>1 DEF Output
  <2>. HIDE DEF says, smart
  <2>. QED  BY <1>6, <2>1, <2>2, <2>3
<1>. QED  BY <1>3, <1>8, <1>9 DEF FoundInv

LEMMA ListFound ==
    ASSUME FoundInv, ListDisks, TypeOK'
    PROVE  FoundInv'
<1>1. /\ Due("lsblk", "disks") /\ at' = at + 1
      /\ UNCHANGED <<clusterVars, historyVars>> /\ Collected("smart", {})
  BY DEF ListDisks, Collected
<1>2. /\ snap'.nodes = snap.nodes /\ snap'.vms = snap.vms
      /\ snap'.storages = snap.storages /\ snap'.services = snap.services
      /\ snap'.smart = snap.smart
  BY <1>1, CollectedFields DEF FoundInv
<1>3. /\ HistoryInv' /\ NodesInv' /\ GuestsInv' /\ StoragesInv' /\ ServicesInv' /\ DisksInv'
  BY <1>1, <1>2, Untouched
<1>4. HonestInv'
  BY <1>1, <1>2 DEF FoundInv, HonestInv, DetectAnomalies, historyVars
<1>. QED  BY <1>3, <1>4 DEF FoundInv

\* The walk jumps to its end: what it leaves out are reports of disks, which
\* nobody is owed once the host has failed to answer.
LEMMA SmartLost ==
    ASSUME FoundInv, SmartRaises \/ ListsNoDisks, TypeOK'
    PROVE  FoundInv'
<1>1. PICK c, x : c \in {"lsblk", "smartctl"} /\ Due(c, x)
  BY DEF SmartRaises, ListsNoDisks
<1>2. at \in 1..Len(Walk) /\ Walk[at] = <<c, x>> /\ Len(Walk) \in Nat
  BY <1>1, WalkType DEF Due
<1>3. /\ at # 0 /\ at' # 0 /\ cut /\ cut' /\ at' = Len(Walk) + 1
      /\ UNCHANGED <<clusterVars, historyVars>>
  BY <1>2 DEF SmartRaises, ListsNoDisks, FoundInv, HistoryInv, historyVars, WalkEnd
<1>4. ASSUME NEW k \in {"status", "qemu", "lxc", "storage"}, NEW y
      PROVE  Passed(k, y)' <=> Passed(k, y)
  <2>1. ASSUME Passed(k, y)' PROVE Passed(k, y)
    <3>1. PICK j \in 1..(at' - 1) : j <= Len(Walk) /\ Walk[j] = <<k, y>>
      BY <2>1 DEF Passed
    <3>2. ASSUME at <= j PROVE FALSE
      <4>1. Rank[Walk[at][1]] <= Rank[Walk[j][1]]
        BY <1>2, <1>3, <3>1, <3>2, WalkWellFormed DEF WellFormed
      <4>2. Rank[k] \in 1..3 /\ Rank[c] \in 5..6
        BY <1>1 DEF Rank, Calls
      <4>. QED  BY <1>2, <3>1, <4>1, <4>2
    <3>. QED  BY <1>2, <1>3, <3>1, <3>2 DEF Passed
  <2>2. ASSUME Passed(k, y) PROVE Passed(k, y)'
    BY <1>2, <1>3, <2>2 DEF Passed
  <2>. QED  BY <2>1, <2>2
<1>5. /\ snap'.nodes = snap.nodes /\ snap'.vms = snap.vms
      /\ snap'.storages = snap.storages /\ snap'.services = snap.services
      /\ snap'.smart \in {{}, snap.smart}
  BY DEF SmartRaises, ListsNoDisks, FoundInv, TypeOK, WalkTypeOK, Snapshot
<1>6. HistoryInv' /\ ServicesInv' /\ DisksInv'
  BY <1>3, SameCluster DEF FoundInv, HistoryInv, ServicesInv, DisksInv, clusterVars, historyVars
<1>7. HonestInv'
  BY <1>3, <1>5 DEF FoundInv, HonestInv, DetectAnomalies, SmartAnomalies, historyVars
<1>8. NodesInv' /\ StoragesInv'
  BY <1>3, <1>4, <1>5 DEF FoundInv, NodesInv, StoragesInv, historyVars
<1>9. GuestsInv'
  <2>1. \A v \in Guests : GuestType[v] \in {"qemu", "lxc"}
    BY SurveyAssumption
  <2>. QED  BY <1>3, <1>4, <1>5, <2>1 DEF FoundInv, GuestsInv, historyVars, clusterVars
<1>. QED  BY <1>6, <1>7, <1>8, <1>9 DEF FoundInv

LEMMA EmptyDetects == DetectAnomalies(EmptySnapshot) = {}
  BY DEF DetectAnomalies, EmptySnapshot, NodeAnomalies, GuestAnomalies, StorageAnomalies,
         ServiceAnomalies, SmartAnomalies

Resting == TypeOK /\ at = 0

LEMMA RestFound == Resting => FoundInv
<1>. SUFFICES ASSUME Resting PROVE FoundInv
  OBVIOUS
<1>1. HonestInv
  BY EmptyDetects DEF Resting, HonestInv, TypeOK, WalkTypeOK
<1>. QED
  BY <1>1 DEF Resting, FoundInv, HistoryInv, NodesInv, GuestsInv, StoragesInv, ServicesInv, DisksInv

LEMMA RestFoundNext == Resting' => FoundInv'
  BY RestFound, PTL

LEMMA BeginFound ==
    ASSUME BeginWalk, TypeOK'
    PROVE  FoundInv'
<1>1. /\ at' = 1 /\ snap' = EmptySnapshot /\ seen' = Problems' /\ held' = Problems'
      /\ missed' = Overlooked' /\ misread' = Misread'
      /\ cut' = (ssh' # "answers") /\ health' = health /\ Problems' = Problems
  BY SameCluster DEF BeginWalk, clusterVars
<1>2. \A c, x : ~Passed(c, x)'
  BY <1>1 DEF Passed
<1>3. HistoryInv' /\ HonestInv'
  BY <1>1, EmptyDetects DEF HistoryInv, HonestInv
<1>4. NodesInv' /\ GuestsInv' /\ ServicesInv'
  BY <1>2 DEF NodesInv, GuestsInv, ServicesInv
<1>5. StoragesInv'
  BY <1>1, <1>2 DEF StoragesInv, EmptySnapshot
<1>6. DisksInv'
  <2>1. Title("smart", "disks", <<"failed">>) \in Problems => \E d \in Disks : health[d] = "failed"
    BY ProblemKinds
  <2>. QED  BY <1>1, <1>2, <2>1 DEF DisksInv
<1>. QED  BY <1>3, <1>4, <1>5, <1>6 DEF FoundInv

\* A change of the cluster during a walk.
LEMMA ChangeFound ==
    ASSUME FoundInv, ClusterStep, at # 0, TypeOK'
    PROVE  FoundInv'
<1>1. /\ at' = at /\ snap' = snap
      /\ seen' = seen \cup Problems' /\ held' = held \cap Problems'
      /\ missed' = missed \cup Overlooked' /\ misread' = misread \cup Misread'
      /\ moved' = moved \cup {v \in Guests : guest'[v].node # guest[v].node}
                        \cup {d \in Disks : health[d] = "failed" /\ health'[d] # "failed"}
      /\ cut' = (cut \/ ssh' # "answers")
  BY DEF ClusterStep, Witness, surveyVars
<1>2. \A c, x : Passed(c, x)' <=> Passed(c, x)
  BY <1>1 DEF Passed
<1>3. /\ held' \subseteq held /\ missed \subseteq missed' /\ moved \subseteq moved'
      /\ \A v \in Guests \ moved' : guest'[v].node = guest[v].node
      /\ moved' \cap Disks = {} => moved \cap Disks = {}
      /\ moved' \cap Disks = {} => \A d \in Disks : health[d] = "failed" => health'[d] = "failed"
      /\ ~cut' => ~cut
  BY <1>1 DEF FoundInv, TypeOK, ClusterTypeOK
<1>4. HistoryInv' /\ HonestInv'
  BY <1>1 DEF FoundInv, HistoryInv, HonestInv
<1>5. NodesInv' /\ StoragesInv'
  BY <1>1, <1>2, <1>3 DEF FoundInv, NodesInv, StoragesInv
<1>6. GuestsInv'
  BY <1>1, <1>2, <1>3 DEF FoundInv, GuestsInv
<1>7. ServicesInv'
  BY <1>1, <1>2, <1>3 DEF FoundInv, ServicesInv
<1>8. DisksInv'
  BY <1>1, <1>2, <1>3 DEF FoundInv, DisksInv
<1>. QED  BY <1>4, <1>5, <1>6, <1>7, <1>8 DEF FoundInv

LEMMA FoundInit == Init => FoundInv
<1>. SUFFICES ASSUME Init PROVE FoundInv
  OBVIOUS
<1>. QED  BY TypeInit, RestFound DEF Init, Resting

LEMMA FoundStep == FoundInv /\ [Next]_vars => FoundInv'
<1>. SUFFICES ASSUME FoundInv, [Next]_vars PROVE FoundInv'
  OBVIOUS
<1>1. TypeOK'
  BY TypeStep DEF FoundInv
<1>2. TypeOK' /\ at' = 0 => FoundInv'
  BY RestFoundNext DEF Resting
<1>3. CASE BeginWalk
  BY <1>1, <1>3, BeginFound
<1>4. CASE \E n \in Nodes : ReadStatus(n)
  BY <1>1, <1>4, StatusFound
<1>5. CASE \E n \in Nodes : ReadStorage(n)
  BY <1>1, <1>5, StorageFound
<1>6. CASE \E n \in Nodes, type \in {"qemu", "lxc"} : ReadGuests(type, n)
  BY <1>1, <1>6, GuestsFound
<1>7. CASE \E n \in Nodes, call \in {"status", "qemu", "lxc", "storage"} : NodeRaises(call, n)
  BY <1>1, <1>2, <1>7 DEF NodeRaises
<1>8. CASE \E s \in Services : ReadService(s)
  BY <1>1, <1>8, ServiceFound
<1>9. CASE ListDisks
  BY <1>1, <1>9, ListFound
<1>10. CASE \E d \in Disks : ReadDisk(d)
  BY <1>1, <1>10, DiskFound
<1>11. CASE SmartRaises \/ ListsNoDisks
  BY <1>1, <1>11, SmartLost
<1>12. CASE Detect
  BY <1>1, <1>2, <1>12 DEF Detect
<1>13. CASE ClusterStep
  <2>1. at = 0 => at' = 0
    BY <1>13 DEF ClusterStep, surveyVars
  <2>. QED  BY <1>1, <1>2, <1>13, <2>1, ChangeFound
<1>14. CASE UNCHANGED vars
  <2>1. \A c, x : Passed(c, x)' <=> Passed(c, x)
    BY <1>14 DEF Passed, vars, surveyVars
  <2>2. Problems' = Problems /\ Overlooked' = Overlooked /\ Misread' = Misread
    BY <1>14, SameCluster DEF vars
  <2>3. /\ HistoryInv' /\ HonestInv' /\ NodesInv' /\ StoragesInv' /\ ServicesInv'
    BY <1>14, <2>1, <2>2
    DEF FoundInv, HistoryInv, HonestInv, NodesInv, StoragesInv, ServicesInv,
        vars, surveyVars, historyVars, clusterVars
  <2>4. GuestsInv' /\ DisksInv'
    BY <1>14, <2>1 DEF FoundInv, GuestsInv, DisksInv, vars, surveyVars, historyVars, clusterVars
  <2>. QED  BY <1>1, <2>3, <2>4 DEF FoundInv
<1>. QED
  BY <1>3, <1>4, <1>5, <1>6, <1>7, <1>8, <1>9, <1>10, <1>11, <1>12, <1>13, <1>14
  DEF Next, SurveyStep

LEMMA FoundAlways == Spec => []FoundInv
  BY FoundInit, FoundStep, PTL DEF Spec

\* The two ways to misread an answer are the only ways to invent an anomaly:
\* whatever else is found in a snapshot, torn as it may be, was wrong with the
\* cluster at some moment of its walk.
THEOREM OnlyMisreadInvented == Spec => OnlyMisreadIsFalse
<1>1. ASSUME FoundInv, [Next]_vars
      PROVE  [found' # found => found' \subseteq seen \cup misread]_vars
  <2>1. CASE Detect
    BY <1>1, <2>1 DEF Detect, FoundInv, HonestInv
  <2>2. ASSUME ~Detect PROVE found' = found
    BY <1>1, <2>2
    DEF Next, SurveyStep, BeginWalk, ReadStatus, ReadStorage, ReadGuests, NodeRaises,
        ReadService, ListDisks, ListsNoDisks, ReadDisk, SmartRaises, Collected, ClusterStep, surveyVars, vars
  <2>. QED  BY <2>1, <2>2
<1>. QED  BY <1>1, FoundAlways, PTL DEF Spec, OnlyMisreadIsFalse

\* At the end of the walk every call has been made, so that what the walk
\* owes us is in the snapshot.
LEMMA OwedFound ==
    ASSUME FoundInv, at = WalkEnd
    PROVE  Owed \subseteq DetectAnomalies(snap)
<1>1. at # 0 /\ at - 1 = Len(Walk) /\ Len(Walk) \in Nat
  BY WalkType DEF WalkEnd
<1>2. \A c, x : OnWalk(c, x) => Passed(c, x)
  BY <1>1 DEF OnWalk, Contains, Passed
<1>. SUFFICES ASSUME NEW p \in Owed PROVE p \in DetectAnomalies(snap)
  OBVIOUS
<1>3. p \in held \ missed /\ p \in Problems
  BY <1>1 DEF Owed, FoundInv, HistoryInv
<1>4. ASSUME NEW g \in Gauges, NEW n \in Nodes, p = Title(g, n, High)
      PROVE  p \in NodeAnomalies(snap.nodes)
  <2>1. Passed("status", n)
    BY <1>2, <1>3, <1>4, ProblemKinds, WalkCovers
  <2>. QED  BY <1>1, <1>3, <1>4, <2>1 DEF FoundInv, NodesInv
<1>5. ASSUME NEW v \in Guests, p = Title(GuestType[v], v, <<guest[v].status>>)
      PROVE  p \in GuestAnomalies(snap.vms)
  <2>1. /\ GuestType[v] \in {"qemu", "lxc"} /\ guest[v].node \in Nodes
        /\ guest[v].status \in GuestStatuses
    BY SurveyAssumption DEF FoundInv, TypeOK, ClusterTypeOK
  <2>2. "vm_status" \in Checks
    BY <1>3, <1>5, <2>1, ProblemKinds
  <2>3. Passed(GuestType[v], guest[v].node)
    BY <1>2, <2>1, <2>2, WalkCovers
  <2>4. v \notin moved
    BY <1>5, <2>1 DEF Owed, Title
  <2>. QED  BY <1>1, <1>3, <1>5, <2>1, <2>3, <2>4 DEF FoundInv, GuestsInv
<1>6. ASSUME NEW s \in Storages, p = Title("storage", s, High)
      PROVE  p \in StorageAnomalies(snap.storages)
  <2>1. Passed("storage", FirstNode)
    BY <1>2, <1>3, <1>6, ProblemKinds, WalkCovers
  <2>. QED  BY <1>1, <1>3, <1>6, <2>1 DEF FoundInv, StoragesInv
<1>7. ASSUME NEW s \in Services, p = Title("service", s, Report(service[s]))
      PROVE  p \in ServiceAnomalies(snap.services)
  <2>1. "proxmox_services" \in Checks /\ HasSSH
    BY <1>3, <1>7, ProblemKinds
  <2>2. Passed("service", s)
    BY <1>2, <2>1, WalkCovers
  <2>3. ~cut
    BY <1>7 DEF Owed, Title
  <2>4. service[s] \in ServiceStates
    BY DEF FoundInv, TypeOK, ClusterTypeOK
  <2>. QED  BY <1>1, <1>3, <1>7, <2>2, <2>3, <2>4 DEF FoundInv, ServicesInv
<1>8. ASSUME p = Title("smart", "disks", <<"failed">>)
      PROVE  p \in SmartAnomalies(snap.smart)
  <2>1. ~cut /\ moved \cap Disks = {}
    BY <1>8 DEF Owed, Title
  <2>2. PICK d \in Disks : Passed("smartctl", d) => p \in SmartAnomalies(snap.smart)
    BY <1>1, <1>3, <1>8, <2>1 DEF FoundInv, DisksInv
  <2>3. "smart_disk_health" \in Checks /\ HasSSH
    BY <1>3, <1>8, ProblemKinds
  <2>. QED  BY <1>2, <2>2, <2>3, WalkCovers
<1>9. \/ \E g \in Gauges, n \in Nodes : p = Title(g, n, High)
      \/ \E v \in Guests : p = Title(GuestType[v], v, <<guest[v].status>>)
      \/ \E s \in Storages : p = Title("storage", s, High)
      \/ \E s \in Services : p = Title("service", s, Report(service[s]))
      \/ p = Title("smart", "disks", <<"failed">>)
  BY <1>3 DEF Problems, Title
<1>. QED  BY <1>4, <1>5, <1>6, <1>7, <1>8, <1>9 DEF DetectAnomalies

\* A walk that has made all its calls ends by being examined.
LEMMA WalkEnds ==
    ASSUME Next, at = WalkEnd, at' = 0
    PROVE  Detect
<1>1. ~(at \in 1..Len(Walk)) /\ at # 0
  BY WalkType DEF WalkEnd
<1>. QED
  BY <1>1
  DEF Next, SurveyStep, BeginWalk, ReadStatus, ReadStorage, ReadGuests, NodeRaises,
      ReadService, ListDisks, ListsNoDisks, ReadDisk, SmartRaises, Due, ClusterStep, surveyVars

\* A problem that lasts throughout a walk is found by it, unless it slips by
\* on a migrating guest or a disk that changes, its host does not answer, or
\* the first node overlooks it.
THEOREM LastingFound == Spec => LastingIsFound
<1>1. ASSUME FoundInv, [Next]_vars
      PROVE  [at = WalkEnd /\ at' = 0 => Owed \subseteq found']_vars
  <2>. SUFFICES ASSUME at = WalkEnd, at' = 0, Next PROVE Owed \subseteq found'
    BY <1>1
  <2>. QED  BY <1>1, WalkEnds, OwedFound DEF Detect
<1>. QED  BY <1>1, FoundAlways, PTL DEF Spec, LastingIsFound

\* When nothing came or went during a walk, both together tell the findings:
\* the problems but for those overlooked, and nothing else but what is misread.
THEOREM QuietWalkFindsAll == Spec => QuietWalkExact
<1>1. ASSUME FoundInv, [Next]_vars
      PROVE  [at = WalkEnd /\ at' = 0 /\ seen = held /\ moved = {} /\ ~cut
                => /\ Problems \ missed \subseteq found'
                   /\ found' \subseteq Problems \cup misread]_vars
  <2>. SUFFICES ASSUME at = WalkEnd, at' = 0, seen = held, moved = {}, ~cut, Next
                PROVE  /\ Problems \ missed \subseteq found'
                       /\ found' \subseteq Problems \cup misread
    BY <1>1
  <2>1. at # 0
    BY WalkType DEF WalkEnd
  <2>2. Problems = held /\ Problems = seen
    BY <1>1, <2>1 DEF FoundInv, HistoryInv
  <2>3. Owed = held \ missed
    BY DEF Owed
  <2>4. found' = DetectAnomalies(snap)
    BY WalkEnds DEF Detect
  <2>5. Problems \ missed \subseteq found'
    BY <1>1, <2>2, <2>3, <2>4, OwedFound
  <2>6. found' \subseteq Problems \cup misread
    BY <1>1, <2>2, <2>4 DEF FoundInv, HonestInv
  <2>. QED  BY <2>5, <2>6
<1>. QED  BY <1>1, FoundAlways, PTL DEF Spec, QuietWalkExact

=============================================================================
