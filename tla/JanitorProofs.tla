--------------------------- MODULE JanitorProofs ---------------------------
(***************************************************************************)
(* Theorems about Janitor, for every value of its constants.               *)
(***************************************************************************)
EXTENDS Janitor, TLAPS

-----------------------------------------------------------------------------
(* The registry operations *)

\* Storing an issue adds its id to the registry and touches no other issue.
LEMMA PutEffect ==
    ASSUME NEW i, NEW r, Put(i, r)
    PROVE  /\ Registered' = Registered \cup {i}
           /\ issues'[i] = r
           /\ \A j \in Registered \ {i} : issues'[j] = issues[j]
           /\ issues' = [j \in Registered \cup {i} |-> IF j = i THEN r ELSE issues[j]]
BY DEF Put, Registered

\* Storing an issue keeps the registry and its file well typed.
LEMMA PutType ==
    ASSUME RegistryTypeOK, NEW i \in Ids, NEW r \in Issue, Put(i, r)
    PROVE  RegistryTypeOK'
<1> DEFINE reg == [j \in Registered \cup {i} |-> IF j = i THEN r ELSE issues[j]]
<1>1. /\ DOMAIN reg \subseteq Ids
      /\ reg \in [DOMAIN reg -> Issue]
  BY DEF RegistryTypeOK
<1>2. FileOf(reg) \in [DOMAIN reg -> IssueDict] /\ DOMAIN FileOf(reg) = DOMAIN reg
  BY <1>1 DEF FileOf, ToDict, Issue, IssueDict
<1>3. issues' = reg
  BY DEF Put
<1>4. /\ Registered' \subseteq Ids
      /\ issues' \in [Registered' -> Issue]
  BY <1>1, <1>3 DEF Registered
<1>5. Save(reg)
  BY DEF Put
<1>6. CASE disk' = FileOf(reg) /\ synced' = TRUE
  BY <1>1, <1>2, <1>4, <1>6 DEF RegistryTypeOK
<1>7. CASE SavesMayFail /\ disk' \in {disk, FileOf(reg), Torn} /\ synced' = FALSE
  BY <1>1, <1>2, <1>4, <1>7 DEF RegistryTypeOK
<1> QED
  BY <1>5, <1>6, <1>7 DEF Save

\* Types are preserved by what leaves the registry alone.
LEMMA UnchangedRegistryType ==
    ASSUME RegistryTypeOK, UNCHANGED registryVars
    PROVE  RegistryTypeOK' /\ Registered' = Registered
BY DEF RegistryTypeOK, Registered, registryVars

\* The handlers' part of the types is kept when the registry only grows.
LEMMA BotsTypeKept ==
    ASSUME BotsTypeOK, UNCHANGED botVars, Registered \subseteq Registered'
    PROVE  BotsTypeOK'
BY DEF BotsTypeOK, botVars

\* Likewise for the scheduler's part.
LEMMA SchedulerTypeKept ==
    ASSUME SchedulerTypeOK, UNCHANGED schedulerVars, Registered \subseteq Registered'
    PROVE  SchedulerTypeOK'
BY DEF SchedulerTypeOK, schedulerVars

LEMMA NotifierTypeKept ==
    ASSUME NotifierTypeOK, UNCHANGED notifierVars
    PROVE  NotifierTypeOK'
BY DEF NotifierTypeOK, notifierVars

\* A delivery through one of the notifiers keeps the counters' type.
LEMMA DeliverType ==
    ASSUME NotifierTypeOK, NEW i \in Ids, NEW n \in NotifierNames,
           Deliver(i, n), UNCHANGED ready
    PROVE  NotifierTypeOK'
BY DEF NotifierTypeOK, Deliver

\* Every notifier has one of the two names.
LEMMA NotifierNamed ==
    /\ Len(Notifiers) \in Nat
    /\ \A p \in 1..Len(Notifiers) : Notifiers[p] \in NotifierNames
    /\ Notifiers # <<>> => 1 \in 1..Len(Notifiers)
    /\ Notifiers = <<>> => Len(Notifiers) = 0
BY NotifierAssumption DEF NotifierAssumption

-----------------------------------------------------------------------------
(* Type correctness *)

\* The decision to alert leaves the scheduler with a registered issue.
LEMMA AlertType ==
    ASSUME SchedulerTypeOK, NEW i, i \in Registered', NEW k \in Keys,
           AlertUnlessCooling(i, k),
           work' \subseteq Keys, UNCHANGED present
    PROVE  SchedulerTypeOK'
<1>1. CASE k \in cooling /\ phase' = "working" /\ cur' = NoId /\ UNCHANGED <<pos, cooling>>
  BY <1>1 DEF SchedulerTypeOK, Phases
<1>2. CASE /\ k \notin cooling /\ Notifiers = <<>> /\ cooling' = cooling \cup {k}
           /\ phase' = "working" /\ cur' = NoId /\ UNCHANGED pos
  BY <1>2 DEF SchedulerTypeOK, Phases
<1>3. CASE /\ k \notin cooling /\ Notifiers # <<>> /\ cooling' = cooling \cup {k}
           /\ phase' = "alerting" /\ cur' = i /\ pos' = 1
  BY <1>3, NotifierNamed DEF SchedulerTypeOK, Phases
<1> QED
  BY <1>1, <1>2, <1>3 DEF AlertUnlessCooling

\* What an analysis makes of an issue is an issue.
LEMMA AnalyzedType ==
    ASSUME NEW r \in Issue, NEW suggests \in BOOLEAN, NEW records \in BOOLEAN,
           NEW b \in BOOLEAN
    PROVE  /\ Analyzed(r, suggests, records) \in Issue
           /\ [Analyzed(r, suggests, records) EXCEPT !.notified = b] \in Issue
           /\ Analyzed(r, suggests, records).key \in Keys
BY SchedulerAssumption DEF Analyzed, Issue, IssueStatus, SchedulerAssumption

\* Moving on to the next notifier, or ending the broadcast, keeps the types.
LEMMA AdvanceType ==
    ASSUME RegistryTypeOK, SchedulerTypeOK, phase = "alerting", Advance,
           UNCHANGED <<work, cooling, present>>
    PROVE  RegistryTypeOK' /\ SchedulerTypeOK' /\ Registered \subseteq Registered'
<1>1. cur \in Registered /\ cur \in Ids /\ issues[cur] \in Issue
  BY DEF SchedulerTypeOK, RegistryTypeOK
<1>2. [issues[cur] EXCEPT !.notified = TRUE] \in Issue
  BY <1>1 DEF Issue
<1>3. CASE pos = Len(Notifiers)
  <2>1. Put(cur, [issues[cur] EXCEPT !.notified = TRUE]) /\ phase' = "working" /\ cur' = NoId
    BY <1>3 DEF Advance
  <2>2. RegistryTypeOK' /\ Registered' = Registered \cup {cur}
    BY <1>1, <1>2, <2>1, PutType, PutEffect
  <2>3. SchedulerTypeOK'
    BY <1>3, <2>1 DEF SchedulerTypeOK, Advance, Phases
  <2> QED
    BY <2>2, <2>3
<1>4. CASE pos # Len(Notifiers)
  <2>1. pos' = pos + 1 /\ UNCHANGED <<phase, cur, registryVars>>
    BY <1>4 DEF Advance
  <2>2. RegistryTypeOK' /\ Registered' = Registered
    BY <2>1, UnchangedRegistryType
  <2>3. SchedulerTypeOK'
    BY <1>4, <2>1, <2>2, NotifierNamed DEF SchedulerTypeOK
  <2> QED
    BY <2>2, <2>3
<1> QED
  BY <1>3, <1>4

\* The steps of the scheduler's task keep the types.
LEMMA SchedulerStepType ==
    ASSUME TypeOK, SchedulerStep, UNCHANGED <<botVars, processVars>>
    PROVE  TypeOK'
<1> USE DEF TypeOK, processVars, setupVars
<1> SUFFICES /\ RegistryTypeOK' /\ NotifierTypeOK' /\ SchedulerTypeOK'
             /\ Registered \subseteq Registered'
  BY BotsTypeKept
<1>1. CASE Collect
  <2>1. RegistryTypeOK' /\ Registered' = Registered
    BY <1>1, UnchangedRegistryType DEF Collect
  <2>2. SchedulerTypeOK'
    BY <1>1 DEF Collect, SchedulerTypeOK, Phases
  <2> QED
    BY <1>1, <2>1, <2>2, NotifierTypeKept DEF Collect
<1>2. CASE \E k \in Keys : RefreshExisting(k)
  <2>1. PICK k \in Keys : RefreshExisting(k)
    BY <1>2
  <2>2. PICK i \in FindOpen(k) : Put(i, issues[i])
    BY <2>1 DEF RefreshExisting
  <2>3. i \in Registered /\ i \in Ids /\ issues[i] \in Issue
    BY <2>2 DEF FindOpen, ListActive, RegistryTypeOK
  <2>4. RegistryTypeOK' /\ Registered' = Registered \cup {i}
    BY <2>2, <2>3, PutType, PutEffect
  <2>5. SchedulerTypeOK'
    BY <2>1, <2>4 DEF RefreshExisting, SchedulerTypeOK
  <2> QED
    BY <2>1, <2>4, <2>5, NotifierTypeKept DEF RefreshExisting
<1>3. CASE \E k \in Keys : RegisterAndAnalyze(k)
  <2>1. PICK k \in Keys : RegisterAndAnalyze(k)
    BY <1>3
  <2>2. PICK i \in Ids \ Registered : Put(i, NewIssue(k)) /\ cur' = i
    BY <2>1 DEF RegisterAndAnalyze
  <2>3. NewIssue(k) \in Issue
    BY DEF NewIssue, Issue, IssueStatus
  <2>4. RegistryTypeOK' /\ Registered' = Registered \cup {i}
    BY <2>2, <2>3, PutType, PutEffect
  <2>5. SchedulerTypeOK'
    BY <2>1, <2>2, <2>4 DEF RegisterAndAnalyze, SchedulerTypeOK, Phases
  <2> QED
    BY <2>1, <2>4, <2>5, NotifierTypeKept DEF RegisterAndAnalyze
<1>4. CASE \E k \in Keys : RegisterUnanalyzed(k)
  <2>1. PICK k \in Keys : RegisterUnanalyzed(k)
    BY <1>4
  <2> DEFINE r == [NewIssue(k) EXCEPT !.notified = BroadcastIsEmpty(k)]
  <2>2. PICK i \in Ids \ Registered : Put(i, r) /\ AlertUnlessCooling(i, k)
    BY <2>1 DEF RegisterUnanalyzed
  <2>3. BroadcastIsEmpty(k) \in BOOLEAN
    BY DEF BroadcastIsEmpty
  <2>4. r \in Issue
    BY <2>3 DEF NewIssue, Issue, IssueStatus
  <2>5. RegistryTypeOK' /\ Registered' = Registered \cup {i}
    BY <2>2, <2>4, PutType, PutEffect
  <2>6. SchedulerTypeOK'
    BY <2>1, <2>2, <2>5, AlertType DEF RegisterUnanalyzed, SchedulerTypeOK
  <2> QED
    BY <2>1, <2>5, <2>6, NotifierTypeKept DEF RegisterUnanalyzed
<1>5. CASE AnalysisConcludes
  <2>1. cur \in Registered /\ cur \in Ids /\ issues[cur] \in Issue
    BY <1>5 DEF AnalysisConcludes, SchedulerTypeOK, RegistryTypeOK
  <2>2. PICK suggests \in BOOLEAN, records \in BOOLEAN :
           LET r == Analyzed(issues[cur], suggests, records)
           IN  /\ Put(cur, [r EXCEPT !.notified = BroadcastIsEmpty(r.key)])
               /\ AlertUnlessCooling(cur, r.key)
    BY <1>5 DEF AnalysisConcludes
  <2> DEFINE r == Analyzed(issues[cur], suggests, records)
  <2>3. BroadcastIsEmpty(r.key) \in BOOLEAN
    BY DEF BroadcastIsEmpty
  <2>4. r.key \in Keys /\ [r EXCEPT !.notified = BroadcastIsEmpty(r.key)] \in Issue
    BY <2>1, <2>3, AnalyzedType
  <2>5. RegistryTypeOK' /\ Registered' = Registered \cup {cur}
    BY <2>1, <2>2, <2>4, PutType, PutEffect
  <2>6. SchedulerTypeOK'
    BY <1>5, <2>1, <2>2, <2>4, <2>5, AlertType DEF AnalysisConcludes, SchedulerTypeOK
  <2> QED
    BY <1>5, <2>5, <2>6, NotifierTypeKept DEF AnalysisConcludes
<1>6. CASE AnalysisRaises
  <2>1. cur \in Registered /\ cur \in Ids /\ issues[cur] \in Issue /\ issues[cur].key \in Keys
    BY <1>6 DEF AnalysisRaises, SchedulerTypeOK, RegistryTypeOK, Issue
  <2>2. [issues[cur] EXCEPT !.notified = TRUE] \in Issue
    BY <2>1 DEF Issue
  <2>3. \/ Put(cur, [issues[cur] EXCEPT !.notified = TRUE])
        \/ UNCHANGED registryVars
    BY <1>6 DEF AnalysisRaises
  <2>4. RegistryTypeOK' /\ Registered \subseteq Registered'
    BY <2>1, <2>2, <2>3, PutType, PutEffect, UnchangedRegistryType
  <2>5. SchedulerTypeOK'
    BY <1>6, <2>1, <2>4, AlertType DEF AnalysisRaises, SchedulerTypeOK
  <2> QED
    BY <1>6, <2>4, <2>5, NotifierTypeKept DEF AnalysisRaises
<1>7. CASE SendSkips
  BY <1>7, AdvanceType, NotifierTypeKept DEF SendSkips
<1>8. CASE SendDelivers
  <2>1. cur \in Ids /\ Notifiers[pos] \in NotifierNames
    BY <1>8, NotifierNamed DEF SendDelivers, SchedulerTypeOK, RegistryTypeOK
  <2> QED
    BY <1>8, <2>1, AdvanceType, DeliverType DEF SendDelivers
<1>9. CASE SendRaises
  <2>1. cur \in Ids /\ Notifiers[pos] \in NotifierNames
    BY <1>9, NotifierNamed DEF SendRaises, SchedulerTypeOK, RegistryTypeOK
  <2>2. NotifierTypeOK'
    BY <1>9, <2>1, DeliverType, NotifierTypeKept DEF SendRaises, notifierVars
  <2>3. RegistryTypeOK' /\ Registered' = Registered
    BY <1>9, UnchangedRegistryType DEF SendRaises
  <2>4. SchedulerTypeOK'
    BY <1>9 DEF SendRaises, SchedulerTypeOK, Phases
  <2> QED
    BY <2>2, <2>3, <2>4
<1>10. CASE EndTick
  <2>1. RegistryTypeOK' /\ Registered' = Registered
    BY <1>10, UnchangedRegistryType DEF EndTick
  <2>2. SchedulerTypeOK'
    BY <1>10 DEF EndTick, SchedulerTypeOK, Phases
  <2> QED
    BY <1>10, <2>1, <2>2, NotifierTypeKept DEF EndTick
<1> QED
  BY <1>1, <1>2, <1>3, <1>4, <1>5, <1>6, <1>7, <1>8, <1>9, <1>10 DEF SchedulerStep

\* Setting the status of a registered issue keeps the registry's types.
LEMMA SetStatusType ==
    ASSUME RegistryTypeOK, NEW i \in Registered, NEW s \in IssueStatus, SetStatus(i, s)
    PROVE  RegistryTypeOK' /\ Registered' = Registered
<1>1. i \in Ids /\ issues[i] \in Issue
  BY DEF RegistryTypeOK
<1>2. [issues[i] EXCEPT !.status = s] \in Issue
  BY <1>1 DEF Issue
<1>3. Put(i, [issues[i] EXCEPT !.status = s])
  BY DEF SetStatus
<1>4. RegistryTypeOK'
  BY <1>1, <1>2, <1>3, PutType
<1>5. Registered' = Registered \cup {i}
  BY <1>3, PutEffect
<1> QED
  BY <1>4, <1>5

\* The steps of a suspended /fix handler keep the types.
LEMMA HandlerStepType ==
    ASSUME TypeOK, NEW h \in Handlers, HandlerStep(h),
           UNCHANGED <<schedulerVars, notifierVars, processVars>>
    PROVE  TypeOK'
<1> USE DEF TypeOK, processVars, setupVars
<1> SUFFICES RegistryTypeOK' /\ Registered' = Registered /\ BotsTypeOK'
  BY SchedulerTypeKept, NotifierTypeKept
<1>1. fix[h].stage # "idle" => fix[h].id \in Registered
  BY DEF BotsTypeOK
<1>2. Idle \in [stage: FixStages, id: Ids \cup {NoId}] /\ Idle.stage = "idle"
  BY DEF Idle, FixStages
<1>3. CASE DeferRaises(h)
  <2>1. RegistryTypeOK' /\ Registered' = Registered
    BY <1>3, UnchangedRegistryType DEF DeferRaises
  <2> QED
    BY <1>2, <1>3, <2>1 DEF DeferRaises, BotsTypeOK
<1>4. CASE FixMarksResolved(h)
  <2>1. RegistryTypeOK' /\ Registered' = Registered
    BY <1>1, <1>4, SetStatusType DEF FixMarksResolved, IssueStatus
  <2> QED
    BY <1>2, <1>4, <2>1 DEF FixMarksResolved, BotsTypeOK
<1>5. CASE FixDispatches(h)
  <2>1. RegistryTypeOK' /\ Registered' = Registered
    BY <1>1, <1>5, SetStatusType DEF FixDispatches, IssueStatus
  <2>2. CASE debugger
    <3>1. /\ fix' = [fix EXCEPT ![h].stage = "dispatching"]
          /\ dispatched' = dispatched \cup {fix[h].id}
          /\ commands' = commands /\ fix[h].stage = "deferring"
      BY <1>5, <2>2 DEF FixDispatches
    <3> QED
      BY <1>1, <2>1, <3>1 DEF BotsTypeOK, FixStages
  <2>3. CASE ~debugger
    BY <1>2, <1>5, <2>1, <2>3 DEF FixDispatches, BotsTypeOK
  <2> QED
    BY <2>1, <2>2, <2>3
<1>6. CASE DispatchReturns(h)
  <2>1. RegistryTypeOK' /\ Registered' = Registered
    <3>1. PICK s \in {"resolved", "failed"} : SetStatus(fix[h].id, s)
      BY <1>6 DEF DispatchReturns
    <3> QED
      BY <1>1, <1>6, <3>1, SetStatusType DEF DispatchReturns, IssueStatus
  <2> QED
    BY <1>2, <1>6, <2>1 DEF DispatchReturns, BotsTypeOK
<1> QED
  BY <1>3, <1>4, <1>5, <1>6 DEF HandlerStep

\* The commands of the operator keep the types.
LEMMA OperatorStepType ==
    ASSUME TypeOK, OperatorStep, UNCHANGED <<schedulerVars, notifierVars, processVars>>
    PROVE  TypeOK'
<1> USE DEF TypeOK, processVars, setupVars
<1> SUFFICES RegistryTypeOK' /\ Registered' = Registered /\ BotsTypeOK'
  BY SchedulerTypeKept, NotifierTypeKept
<1>1. CASE \E h \in Handlers, i \in Ids : DiscordFix(h, i)
  <2>1. RegistryTypeOK' /\ Registered' = Registered
    BY <1>1, UnchangedRegistryType DEF DiscordFix
  <2> QED
    BY <1>1, <2>1 DEF DiscordFix, BotsTypeOK, FixStages, Command
<1>2. CASE \E i \in Ids : DiscordDeny(i)
  <2>1. RegistryTypeOK' /\ Registered' = Registered
    BY <1>2, SetStatusType DEF DiscordDeny, IssueStatus
  <2> QED
    BY <1>2, <2>1 DEF DiscordDeny, BotsTypeOK, Command
<1>3. CASE \E i \in Ids : TelegramFix(i)
  <2>1. RegistryTypeOK' /\ Registered' = Registered
    BY <1>3, SetStatusType DEF TelegramFix, IssueStatus
  <2> QED
    BY <1>3, <2>1 DEF TelegramFix, BotsTypeOK, Command
<1>4. CASE \E i \in Ids : TelegramDeny(i)
  <2>1. RegistryTypeOK' /\ Registered' = Registered
    BY <1>4, SetStatusType DEF TelegramDeny, IssueStatus
  <2> QED
    BY <1>4, <2>1 DEF TelegramDeny, BotsTypeOK, Command
<1> QED
  BY <1>1, <1>2, <1>3, <1>4 DEF OperatorStep

\* A restart empties the process: the types hold as they do initially.
LEMMA RestartType ==
    ASSUME TypeOK, Restart
    PROVE  TypeOK'
<1>1. EmptyRegistry \in [{} -> Issue] /\ DOMAIN EmptyRegistry = {}
  BY DEF EmptyRegistry
<1>2. RegistryTypeOK'
  BY <1>1 DEF TypeOK, Restart, RegistryTypeOK, Registered
<1>3. NotifierTypeOK'
  BY DEF TypeOK, Restart, NotifierTypeOK, ReadyAtStart, NothingDelivered
<1>4. SchedulerTypeOK'
  BY DEF TypeOK, Restart, SchedulerTypeOK, Phases
<1>5. BotsTypeOK'
  BY DEF TypeOK, Restart, BotsTypeOK, Idle, FixStages
<1>6. clients' \subseteq Servers /\ debugger' \in BOOLEAN /\ restarts' \in Nat
  BY SchedulerAssumption DEF TypeOK, Restart
<1> QED
  BY <1>2, <1>3, <1>4, <1>5, <1>6 DEF TypeOK

\* A shutdown leaves no coroutine with an issue but the handlers.
LEMMA ShutdownType ==
    ASSUME TypeOK, Shutdown, UNCHANGED <<botVars, processVars>>
    PROVE  TypeOK'
<1>1. RegistryTypeOK' /\ Registered' = Registered
  BY UnchangedRegistryType DEF TypeOK, Shutdown
<1>2. NotifierTypeOK'
  <2>1. CASE UNCHANGED delivered
    BY <2>1, NotifierTypeKept DEF TypeOK, Shutdown, notifierVars
  <2>2. CASE phase = "alerting" /\ Deliver(cur, Notifiers[pos])
    <3>1. cur \in Ids /\ Notifiers[pos] \in NotifierNames
      BY <2>2, NotifierNamed DEF TypeOK, SchedulerTypeOK, RegistryTypeOK
    <3> QED
      BY <2>2, <3>1, DeliverType DEF TypeOK, Shutdown
  <2> QED
    BY <2>1, <2>2 DEF Shutdown
<1>3. SchedulerTypeOK'
  BY DEF TypeOK, Shutdown, SchedulerTypeOK, Phases
<1> QED
  BY <1>1, <1>2, <1>3, BotsTypeKept DEF TypeOK, processVars, setupVars

\* Every step keeps the types.
LEMMA TypeStep ==
    ASSUME TypeOK, [Next]_vars
    PROVE  TypeOK'
<1>1. CASE SchedulerStep /\ UNCHANGED <<botVars, processVars>>
  BY <1>1, SchedulerStepType
<1>2. CASE EnvironmentStep /\ UNCHANGED <<botVars, processVars>>
  <2>1. RegistryTypeOK' /\ Registered' = Registered
    BY <1>2, UnchangedRegistryType
       DEF TypeOK, EnvironmentStep, CooldownExpires, AnomalyAppears, AnomalyClears
  <2>2. NotifierTypeOK'
    BY <1>2, NotifierTypeKept
       DEF TypeOK, EnvironmentStep, CooldownExpires, AnomalyAppears, AnomalyClears
  <2>3. SchedulerTypeOK'
    BY <1>2, <2>1 DEF TypeOK, SchedulerTypeOK, EnvironmentStep,
                      CooldownExpires, AnomalyAppears, AnomalyClears
  <2> QED
    BY <1>2, <2>1, <2>2, <2>3, BotsTypeKept DEF TypeOK, processVars, setupVars
<1>3. CASE OnReady /\ UNCHANGED <<registryVars, schedulerVars, botVars, processVars>>
  <2>1. RegistryTypeOK' /\ Registered' = Registered
    BY <1>3, UnchangedRegistryType DEF TypeOK
  <2>2. NotifierTypeOK'
    BY <1>3 DEF TypeOK, NotifierTypeOK, OnReady
  <2> QED
    BY <1>3, <2>1, <2>2, BotsTypeKept, SchedulerTypeKept DEF TypeOK, processVars, setupVars
<1>4. CASE OperatorStep /\ UNCHANGED <<schedulerVars, notifierVars, processVars>>
  BY <1>4, OperatorStepType
<1>5. CASE \E h \in Handlers : HandlerStep(h)
             /\ UNCHANGED <<schedulerVars, notifierVars, processVars>>
  BY <1>5, HandlerStepType
<1>6. CASE Restart
  BY <1>6, RestartType
<1>7. CASE UNCHANGED vars
  <2>1. UNCHANGED <<registryVars, notifierVars, schedulerVars, botVars, processVars>>
    BY <1>7 DEF vars
  <2>2. RegistryTypeOK' /\ Registered' = Registered
    BY <2>1, UnchangedRegistryType DEF TypeOK
  <2> QED
    BY <2>1, <2>2, NotifierTypeKept, SchedulerTypeKept, BotsTypeKept
       DEF TypeOK, processVars, setupVars
<1>8. CASE Shutdown /\ UNCHANGED <<botVars, processVars>>
  BY <1>8, ShutdownType
<1> QED
  BY <1>1, <1>2, <1>3, <1>4, <1>5, <1>6, <1>7, <1>8 DEF Next

LEMMA TypeInit == Init => TypeOK
<1> SUFFICES ASSUME Init PROVE TypeOK
  OBVIOUS
<1>1. EmptyRegistry \in [{} -> Issue] /\ EmptyRegistry \in [{} -> IssueDict]
      /\ DOMAIN EmptyRegistry = {}
  BY DEF EmptyRegistry
<1>2. RegistryTypeOK
  BY <1>1 DEF Init, RegistryTypeOK, Registered
<1>3. NotifierTypeOK
  BY DEF Init, NotifierTypeOK, ReadyAtStart, NothingDelivered
<1>4. SchedulerTypeOK
  BY DEF Init, SchedulerTypeOK, Phases
<1>5. BotsTypeOK
  BY DEF Init, BotsTypeOK, Idle, FixStages
<1> QED
  BY <1>2, <1>3, <1>4, <1>5, SchedulerAssumption DEF Init, TypeOK

\* However the scheduler, the handlers and the restarts interleave, the state
\* is well formed: above all, a suspended coroutine's issue is registered.
THEOREM TypeCorrect == Spec => []TypeOK
BY TypeInit, TypeStep, PTL DEF Spec

-----------------------------------------------------------------------------
(* The steps that change the registry *)

\* A suspended /fix holds an issue the AI has suggested an action for.
HandlersHoldSuggested ==
    \A h \in Handlers : fix[h].stage # "idle" => issues[fix[h].id].suggested

\* As long as no analysis records parameters, no handler ever gets to the
\* dispatch: that is what keeps a resumed /fix from reopening an issue.
NothingToDispatch ==
    ~RecordsParams => /\ \A i \in Registered : ~issues[i].params
                      /\ \A h \in Handlers : fix[h].stage # "dispatching"

HandlerInv ==
    TypeOK /\ FixedWasSuggested /\ HandlersHoldSuggested /\ NothingToDispatch

\* What a step may make of an issue: its key stays, a suggestion is never
\* withdrawn, only an issue with a suggestion gets past "open" undenied, and
\* unless parameters are recorded a closed issue is not reopened.
Rewrite(old, new) ==
    /\ new.key = old.key
    /\ old.suggested => new.suggested
    /\ new.status \notin {"open", "denied"} => new.suggested
    /\ ~RecordsParams => /\ new.params => old.params
                         /\ old.status \in Terminal => new.status \in Terminal

\* The ways in which a step may change the registry.
Rewrites == \E i \in Registered, r \in Issue : Put(i, r) /\ Rewrite(issues[i], r)

Registers ==
    \E k \in Keys, i \in Ids \ Registered, r \in Issue :
        /\ FindOpen(k) = {}
        /\ r.key = k /\ r.status = "open" /\ ~r.params
        /\ Put(i, r)

\* Setting the flag "notified" is a rewrite.
LEMMA NotifiedRewrite ==
    ASSUME HandlerInv, NEW i \in Registered, NEW b \in BOOLEAN,
           Put(i, [issues[i] EXCEPT !.notified = b])
    PROVE  Rewrites
<1>1. issues[i] \in Issue
  BY DEF HandlerInv, TypeOK, RegistryTypeOK
<1>2. [issues[i] EXCEPT !.notified = b] \in Issue
  BY <1>1 DEF Issue
<1>3. Rewrite(issues[i], [issues[i] EXCEPT !.notified = b])
  BY <1>1 DEF Rewrite, HandlerInv, FixedWasSuggested, Issue
<1> QED
  BY <1>2, <1>3 DEF Rewrites

\* So is setting the status of an issue, to "denied" or, if it has a
\* suggestion, to another closed status or (with parameters) to "executing".
LEMMA StatusRewrite ==
    ASSUME HandlerInv, NEW i \in Registered, NEW s \in IssueStatus, SetStatus(i, s),
           s # "open",
           s # "denied" => issues[i].suggested,
           s \notin Terminal => RecordsParams
    PROVE  Rewrites
<1> DEFINE r == [issues[i] EXCEPT !.status = s]
<1>1. issues[i] \in Issue
  BY DEF HandlerInv, TypeOK, RegistryTypeOK
<1>2. r \in Issue /\ r.status = s /\ r.key = issues[i].key
      /\ r.suggested = issues[i].suggested /\ r.params = issues[i].params
  BY <1>1 DEF Issue
<1>3. Rewrite(issues[i], r)
  BY <1>2 DEF Rewrite
<1>4. Put(i, r)
  BY DEF SetStatus
<1> QED
  BY <1>2, <1>3, <1>4 DEF Rewrites

\* What the scheduler's task does to the registry.
LEMMA SchedulerRegistry ==
    ASSUME HandlerInv, SchedulerStep
    PROVE  UNCHANGED registryVars \/ Rewrites \/ Registers
<1> USE DEF HandlerInv, TypeOK
<1>1. CASE \/ Collect \/ SendRaises \/ EndTick
  BY <1>1 DEF Collect, SendRaises, EndTick
<1>2. CASE \E k \in Keys : RefreshExisting(k)
  <2>1. PICK k \in Keys : \E i \in FindOpen(k) : Put(i, issues[i])
    BY <1>2 DEF RefreshExisting
  <2>2. PICK i \in Registered : Put(i, issues[i])
    BY <2>1 DEF FindOpen, ListActive
  <2>3. issues[i] \in Issue /\ Rewrite(issues[i], issues[i])
    BY <2>2 DEF RegistryTypeOK, Rewrite, FixedWasSuggested
  <2> QED
    BY <2>2, <2>3 DEF Rewrites
<1>3. CASE \E k \in Keys : RegisterAndAnalyze(k)
  <2>1. PICK k \in Keys, i \in Ids \ Registered : FindOpen(k) = {} /\ Put(i, NewIssue(k))
    BY <1>3 DEF RegisterAndAnalyze
  <2>2. /\ NewIssue(k) \in Issue /\ NewIssue(k).key = k
        /\ NewIssue(k).status = "open" /\ ~NewIssue(k).params
    BY DEF NewIssue, Issue, IssueStatus
  <2> QED
    BY <2>1, <2>2 DEF Registers
<1>4. CASE \E k \in Keys : RegisterUnanalyzed(k)
  <2>1. PICK k \in Keys, i \in Ids \ Registered :
           FindOpen(k) = {} /\ Put(i, [NewIssue(k) EXCEPT !.notified = BroadcastIsEmpty(k)])
    BY <1>4 DEF RegisterUnanalyzed
  <2> DEFINE r == [NewIssue(k) EXCEPT !.notified = BroadcastIsEmpty(k)]
  <2>2. BroadcastIsEmpty(k) \in BOOLEAN
    BY DEF BroadcastIsEmpty
  <2>3. r \in Issue /\ r.key = k /\ r.status = "open" /\ ~r.params
    BY <2>2 DEF NewIssue, Issue, IssueStatus
  <2> QED
    BY <2>1, <2>3 DEF Registers
<1>5. CASE AnalysisConcludes
  <2>1. cur \in Registered /\ issues[cur] \in Issue
    BY <1>5 DEF AnalysisConcludes, SchedulerTypeOK, RegistryTypeOK
  <2>2. PICK suggests \in BOOLEAN, records \in BOOLEAN :
           LET a == Analyzed(issues[cur], suggests, records)
           IN  /\ records => suggests /\ RecordsParams
               /\ Put(cur, [a EXCEPT !.notified = BroadcastIsEmpty(a.key)])
    BY <1>5 DEF AnalysisConcludes
  <2> DEFINE a == Analyzed(issues[cur], suggests, records)
             r == [a EXCEPT !.notified = BroadcastIsEmpty(a.key)]
  <2>3. BroadcastIsEmpty(a.key) \in BOOLEAN
    BY DEF BroadcastIsEmpty
  <2>4. r \in Issue
    BY <2>1, <2>3, AnalyzedType
  <2>5. Rewrite(issues[cur], a)
    BY <2>1, <2>2 DEF Analyzed, Rewrite, FixedWasSuggested, Issue, Terminal
  <2>6. r.key = a.key /\ r.status = a.status /\ r.suggested = a.suggested /\ r.params = a.params
    BY <2>1 DEF Analyzed, Issue
  <2>7. Rewrite(issues[cur], r)
    BY <2>5, <2>6 DEF Rewrite
  <2> QED
    BY <2>1, <2>2, <2>4, <2>7 DEF Rewrites
<1>6. CASE AnalysisRaises
  BY <1>6, NotifiedRewrite DEF AnalysisRaises, SchedulerTypeOK
<1>7. CASE SendSkips \/ SendDelivers
  BY <1>7, NotifiedRewrite DEF SendSkips, SendDelivers, Advance, SchedulerTypeOK
<1> QED
  BY <1>1, <1>2, <1>3, <1>4, <1>5, <1>6, <1>7 DEF SchedulerStep

\* What the bots' commands and handlers do to the registry.
LEMMA BotsRegistry ==
    ASSUME HandlerInv, OperatorStep \/ \E h \in Handlers : HandlerStep(h)
    PROVE  UNCHANGED registryVars \/ Rewrites
<1> USE DEF HandlerInv, TypeOK
<1>1. CASE \E h \in Handlers, i \in Ids : DiscordFix(h, i)
  BY <1>1 DEF DiscordFix
<1>2. CASE \E i \in Ids : DiscordDeny(i) \/ TelegramDeny(i)
  BY <1>2, StatusRewrite DEF DiscordDeny, TelegramDeny, IssueStatus, Terminal
<1>3. CASE \E i \in Ids : TelegramFix(i)
  BY <1>3, StatusRewrite DEF TelegramFix, IssueStatus, Terminal, FixedWasSuggested
<1>4. ASSUME NEW h \in Handlers, HandlerStep(h)
      PROVE  UNCHANGED registryVars \/ Rewrites
  <2>1. fix[h].stage # "idle" =>
           fix[h].id \in Registered /\ issues[fix[h].id].suggested
    BY DEF BotsTypeOK, HandlersHoldSuggested
  <2>2. CASE DeferRaises(h)
    BY <2>2 DEF DeferRaises
  <2>3. CASE FixMarksResolved(h)
    BY <2>1, <2>3, StatusRewrite DEF FixMarksResolved, IssueStatus, Terminal
  <2>4. CASE FixDispatches(h)
    BY <2>1, <2>4, StatusRewrite DEF FixDispatches, IssueStatus, Terminal, NothingToDispatch
  <2>5. CASE DispatchReturns(h)
    <3>1. PICK s \in {"resolved", "failed"} : SetStatus(fix[h].id, s)
      BY <2>5 DEF DispatchReturns
    <3> QED
      BY <2>1, <2>5, <3>1, StatusRewrite DEF DispatchReturns, IssueStatus, Terminal
  <2> QED
    BY <1>4, <2>2, <2>3, <2>4, <2>5 DEF HandlerStep
<1> QED
  BY <1>1, <1>2, <1>3, <1>4 DEF OperatorStep

\* A step leaves the registry alone, rewrites an issue within Rewrite's
\* limits, registers an issue for an anomaly that has none, or restarts.
LEMMA RegistryStep ==
    ASSUME HandlerInv, [Next]_vars
    PROVE  UNCHANGED registryVars \/ Rewrites \/ Registers \/ Restart
<1>1. CASE EnvironmentStep
  BY <1>1 DEF EnvironmentStep, CooldownExpires, AnomalyAppears, AnomalyClears
<1>2. CASE UNCHANGED vars
  BY <1>2 DEF vars
<1>3. CASE Shutdown
  BY <1>3 DEF Shutdown
<1> QED
  BY <1>1, <1>2, <1>3, SchedulerRegistry, BotsRegistry DEF Next

\* Unless the process restarts, every issue stays registered and changes
\* within Rewrite's limits, and new issues are open.
LEMMA IssueStep ==
    ASSUME HandlerInv, [Next]_vars, ~Restart
    PROVE  /\ \A j \in Registered : j \in Registered' /\ Rewrite(issues[j], issues'[j])
           /\ \A j \in Registered' \ Registered :
                 issues'[j].status = "open" /\ ~issues'[j].params
<1>1. \A j \in Registered : Rewrite(issues[j], issues[j])
  BY DEF Rewrite, HandlerInv, FixedWasSuggested
<1>2. CASE UNCHANGED registryVars
  BY <1>1, <1>2 DEF registryVars, Registered
<1>3. CASE Rewrites
  <2>1. PICK i \in Registered, r \in Issue : Put(i, r) /\ Rewrite(issues[i], r)
    BY <1>3 DEF Rewrites
  <2>2. /\ Registered' = Registered \cup {i} /\ issues'[i] = r
        /\ \A j \in Registered \ {i} : issues'[j] = issues[j]
    BY <2>1, PutEffect
  <2> QED
    BY <1>1, <2>1, <2>2
<1>4. CASE Registers
  <2>1. PICK i \in Ids \ Registered, r \in Issue :
           Put(i, r) /\ r.status = "open" /\ ~r.params
    BY <1>4 DEF Registers
  <2>2. /\ Registered' = Registered \cup {i} /\ issues'[i] = r
        /\ \A j \in Registered \ {i} : issues'[j] = issues[j]
    BY <2>1, PutEffect
  <2> QED
    BY <1>1, <2>1, <2>2
<1> QED
  BY <1>2, <1>3, <1>4, RegistryStep

\* What a step does to the handlers, told by where each of them is after it:
\* it was there before, or it has just been invoked on an issue that awaits
\* approval, or it has got from the defer to the dispatch of its action.
LEMMA FixStep ==
    ASSUME HandlerInv, [Next]_vars, ~Restart, NEW h \in Handlers
    PROVE  \/ fix'[h].stage = "idle"
           \/ fix'[h] = fix[h]
           \/ /\ fix'[h].stage = "deferring" /\ fix'[h].id \in Registered
              /\ issues[fix'[h].id].status = "awaiting_approval"
           \/ /\ fix'[h].id = fix[h].id /\ fix[h].stage = "deferring"
              /\ issues[fix[h].id].params
<1> USE DEF HandlerInv, TypeOK, BotsTypeOK
<1>1. CASE UNCHANGED fix
  BY <1>1
<1>2. CASE \E g \in Handlers, i \in Ids : DiscordFix(g, i)
  BY <1>2 DEF DiscordFix
<1>3. CASE \E g \in Handlers : DeferRaises(g) \/ FixMarksResolved(g) \/ DispatchReturns(g)
  BY <1>3 DEF DeferRaises, FixMarksResolved, DispatchReturns, Idle
<1>4. CASE \E g \in Handlers : FixDispatches(g)
  <2>1. PICK g \in Handlers : FixDispatches(g)
    BY <1>4
  <2>2. /\ issues[fix[g].id].params /\ fix[g].stage = "deferring"
        /\ \/ fix' = [fix EXCEPT ![g].stage = "dispatching"]
           \/ fix' = [fix EXCEPT ![g] = Idle]
    BY <2>1 DEF FixDispatches
  <2> QED
    BY <2>2 DEF Idle
<1> QED
  BY <1>1, <1>2, <1>3, <1>4
     DEF Next, vars, botVars, EnvironmentStep, OperatorStep, HandlerStep,
         DiscordDeny, TelegramFix, TelegramDeny

\* HandlerInv is inductive.
LEMMA HandlerInvStep ==
    ASSUME HandlerInv, [Next]_vars
    PROVE  HandlerInv'
<1>1. TypeOK'
  BY TypeStep DEF HandlerInv
<1>2. CASE Restart
  BY <1>1, <1>2 DEF HandlerInv, Restart, EmptyRegistry, Registered, Idle,
                    FixedWasSuggested, HandlersHoldSuggested, NothingToDispatch
<1>3. CASE ~Restart
  <2>1. FixedWasSuggested'
    BY <1>3, IssueStep DEF FixedWasSuggested, Rewrite
  <2>2. ASSUME NEW h \in Handlers, fix'[h].stage # "idle"
        PROVE  issues'[fix'[h].id].suggested
    <3>1. fix'[h].id \in Registered /\ issues[fix'[h].id].suggested
      BY <1>3, <2>2, FixStep
         DEF HandlerInv, HandlersHoldSuggested, FixedWasSuggested, TypeOK, BotsTypeOK
    <3> QED
      BY <1>3, <3>1, IssueStep DEF Rewrite
  <2>3. ASSUME ~RecordsParams, NEW i \in Registered' PROVE ~issues'[i].params
    BY <1>3, <2>3, IssueStep DEF Rewrite, HandlerInv, NothingToDispatch
  <2>4. ASSUME ~RecordsParams, NEW h \in Handlers PROVE fix'[h].stage # "dispatching"
    BY <1>3, <2>4, FixStep DEF HandlerInv, TypeOK, BotsTypeOK, NothingToDispatch
  <2> QED
    BY <1>1, <2>1, <2>2, <2>3, <2>4
       DEF HandlerInv, HandlersHoldSuggested, NothingToDispatch
<1> QED
  BY <1>2, <1>3

LEMMA HandlerInvInit == Init => HandlerInv
BY TypeInit DEF HandlerInv, Init, EmptyRegistry, Registered, Idle,
                FixedWasSuggested, HandlersHoldSuggested, NothingToDispatch

LEMMA HandlerInvAlways == Spec => []HandlerInv
BY HandlerInvInit, HandlerInvStep, PTL DEF Spec

-----------------------------------------------------------------------------
(* The theorems *)

\* Only an issue the AI has suggested an action for is approved, run,
\* resolved or failed, whichever handler is suspended while whatever else
\* happens to its issue.
THEOREM FixedSuggested == Spec => []FixedWasSuggested
<1>1. HandlerInv => FixedWasSuggested
  BY DEF HandlerInv
<1> QED
  BY <1>1, HandlerInvAlways, PTL

\* In the program as it is, no step reopens a closed issue.
THEOREM ClosedFinal ==
    ASSUME ~RecordsParams
    PROVE  Spec => ClosedStaysClosed
<1>1. ASSUME HandlerInv, [Next]_vars
      PROVE  [\A i \in Registered \cap DOMAIN issues' :
                issues[i].status \in Terminal => issues'[i].status \in Terminal]_vars
  <2>1. CASE Restart
    BY <2>1 DEF Restart, EmptyRegistry
  <2>2. CASE ~Restart
    BY <1>1, <2>2, IssueStep DEF Rewrite
  <2> QED
    BY <2>1, <2>2
<1> QED
  BY <1>1, HandlerInvAlways, PTL DEF Spec, ClosedStaysClosed

\* In the program as it is, an anomaly never has two active issues.
THEOREM UniqueActive ==
    ASSUME ~RecordsParams
    PROVE  Spec => []ActiveUnique
<1>1. Init => ActiveUnique
  BY DEF Init, EmptyRegistry, ActiveUnique, ListActive, Registered
<1>2. ASSUME HandlerInv, ActiveUnique, [Next]_vars
      PROVE  ActiveUnique'
  <2>1. SUFFICES ASSUME NEW i \in ListActive', NEW j \in ListActive',
                        issues'[i].key = issues'[j].key
                 PROVE  i = j
    BY DEF ActiveUnique
  <2>2. /\ i \in Registered' /\ issues'[i].status \notin Terminal
        /\ j \in Registered' /\ issues'[j].status \notin Terminal
    BY DEF ListActive, IsActive
  <2>3. CASE Restart
    BY <2>2, <2>3 DEF Restart, EmptyRegistry, Registered
  <2>4. CASE ~Restart /\ i \in Registered /\ j \in Registered
    BY <1>2, <2>1, <2>2, <2>4, IssueStep DEF Rewrite, ActiveUnique, ListActive, IsActive
  <2>5. CASE ~Restart /\ ~(i \in Registered /\ j \in Registered)
    <3>1. Registers
      <4>1. ~(UNCHANGED registryVars)
        BY <2>2, <2>5 DEF registryVars, Registered
      <4>2. ASSUME NEW m \in Registered, NEW r, Put(m, r) PROVE FALSE
        <5>1. Registered' = Registered \cup {m}
          BY <4>2, PutEffect
        <5> QED
          BY <2>2, <2>5, <5>1
      <4>3. ~Rewrites
        BY <4>2 DEF Rewrites
      <4> QED
        BY <1>2, <2>5, <4>1, <4>3, RegistryStep
    <3>2. PICK k \in Keys, n \in Ids \ Registered, r \in Issue :
             FindOpen(k) = {} /\ r.key = k /\ Put(n, r)
      BY <3>1 DEF Registers
    <3>3. /\ Registered' = Registered \cup {n} /\ issues'[n].key = k
          /\ \A m \in Registered \ {n} : issues'[m] = issues[m]
      BY <3>2, PutEffect
    <3>4. ASSUME NEW m \in Registered', m # n, issues'[m].status \notin Terminal
          PROVE  issues'[m].key # k
      BY <3>2, <3>3, <3>4 DEF FindOpen, ListActive, IsActive
    <3> QED
      BY <2>1, <2>2, <2>5, <3>3, <3>4
  <2> QED
    BY <2>3, <2>4, <2>5
<1> QED
  BY <1>1, <1>2, HandlerInvAlways, PTL DEF Spec

\* Every step that changes an issue leaves it saved, or the save failed.
THEOREM DiskFollows == Spec => []DiskCurrent
<1>1. Init => DiskCurrent
  BY DEF Init, DiskCurrent
<1>2. ASSUME HandlerInv, DiskCurrent, [Next]_vars
      PROVE  DiskCurrent'
  <2>1. CASE UNCHANGED registryVars
    BY <1>2, <2>1 DEF DiskCurrent, registryVars, FileOf
  <2>2. ASSUME NEW i, NEW r, Put(i, r)
        PROVE  DiskCurrent'
    BY <2>2 DEF Put, Save, DiskCurrent, FileOf
  <2>3. CASE Restart
    BY <2>3 DEF Restart, DiskCurrent
  <2> QED
    BY <1>2, <2>1, <2>2, <2>3, RegistryStep DEF Rewrites, Registers
<1> QED
  BY <1>1, <1>2, HandlerInvAlways, PTL DEF Spec

=============================================================================
