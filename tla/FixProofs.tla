------------------------------ MODULE FixProofs -----------------------------
(***************************************************************************)
(* Theorems about the operator's commands of Janitor: which of them may    *)
(* change a closed issue, and what /fix runs.                              *)
(***************************************************************************)
EXTENDS JanitorProofs

-----------------------------------------------------------------------------
(* Closed issues *)

\* What setting the status of an issue does to the statuses.
LEMMA SetStatusEffect ==
    ASSUME RegistryTypeOK, NEW i \in Registered, NEW s \in IssueStatus, SetStatus(i, s)
    PROVE  /\ issues'[i].status = s
           /\ issues'[i].suggested = issues[i].suggested
           /\ issues'[i].params = issues[i].params
           /\ \A j \in Registered \ {i} : issues'[j] = issues[j]
           /\ Registered' = Registered
<1>1. issues[i] \in Issue
  BY DEF RegistryTypeOK
<1>2. /\ issues'[i] = [issues[i] EXCEPT !.status = s]
      /\ \A j \in Registered \ {i} : issues'[j] = issues[j]
      /\ Registered' = Registered \cup {i}
  BY PutEffect DEF SetStatus
<1> QED
  BY <1>1, <1>2 DEF Issue

\* A closed issue keeps its status in this step.
ClosedKept ==
    \A i \in Registered :
        issues[i].status \in Terminal => issues'[i].status = issues[i].status

\* No step of the scheduler's task changes the status of a closed issue, the
\* end of an analysis during which its issue was denied included.
LEMMA SchedulerKeepsClosed ==
    ASSUME TypeOK, SchedulerStep
    PROVE  ClosedKept
<1> USE DEF TypeOK
<1>1. ASSUME UNCHANGED registryVars PROVE ClosedKept
  BY <1>1 DEF registryVars, ClosedKept
<1>2. ASSUME NEW i, NEW r, Put(i, r),
             i \in Registered /\ issues[i].status \in Terminal
                => r.status = issues[i].status
      PROVE  ClosedKept
  BY <1>2, PutEffect DEF ClosedKept
<1>3. CASE \/ Collect \/ SendRaises \/ EndTick
  BY <1>1, <1>3 DEF Collect, SendRaises, EndTick
<1>4. CASE \E k \in Keys : RefreshExisting(k)
  BY <1>2, <1>4 DEF RefreshExisting
<1>5. CASE \E k \in Keys : RegisterAndAnalyze(k) \/ RegisterUnanalyzed(k)
  <2>1. PICK i \in Ids \ Registered : \E r : Put(i, r)
    BY <1>5 DEF RegisterAndAnalyze, RegisterUnanalyzed
  <2> QED
    BY <1>2, <2>1
<1>6. CASE AnalysisConcludes
  <2>1. cur \in Registered /\ issues[cur] \in Issue
    BY <1>6 DEF AnalysisConcludes, SchedulerTypeOK, RegistryTypeOK
  <2>2. PICK suggests \in BOOLEAN, records \in BOOLEAN :
           LET a == Analyzed(issues[cur], suggests, records)
           IN  /\ records => suggests /\ RecordsParams
               /\ Put(cur, [a EXCEPT !.notified = BroadcastIsEmpty(a.key)])
    BY <1>6 DEF AnalysisConcludes
  <2> DEFINE a == Analyzed(issues[cur], suggests, records)
             r == [a EXCEPT !.notified = BroadcastIsEmpty(a.key)]
  <2>3. issues[cur].status \in Terminal => r.status = issues[cur].status
    BY <2>1 DEF Analyzed, Issue, Terminal
  <2>4. Put(cur, r)
    BY <2>2
  <2> HIDE DEF r
  <2> QED
    BY <1>2, <2>3, <2>4
<1>7. ASSUME NEW i \in Registered, NEW b, Put(i, [issues[i] EXCEPT !.notified = b])
      PROVE  ClosedKept
  <2>1. issues[i] \in Issue
    BY DEF RegistryTypeOK
  <2>2. [issues[i] EXCEPT !.notified = b].status = issues[i].status
    BY <2>1 DEF Issue
  <2> QED
    BY <1>2, <1>7, <2>2
<1>8. CASE AnalysisRaises
  BY <1>1, <1>7, <1>8 DEF AnalysisRaises, SchedulerTypeOK
<1>9. CASE SendSkips \/ SendDelivers
  BY <1>1, <1>7, <1>9 DEF SendSkips, SendDelivers, Advance, SchedulerTypeOK
<1> QED
  BY <1>3, <1>4, <1>5, <1>6, <1>8, <1>9 DEF SchedulerStep

\* The change of an issue in this step is one that ClosedChangesByCommand
\* allows.
Allowed(i) ==
    issues[i].status \in Terminal /\ issues'[i].status # issues[i].status
       => \/ issues'[i].status = "denied"
          \/ \E h \in Handlers : /\ fix[h].stage # "idle" /\ fix[h].id = i
                                /\ fix'[h] # fix[h]

\* A handler that goes on changes the issue it holds, and no other.
LEMMA HandlerChangesItsOwn ==
    ASSUME HandlerInv, NEW h \in Handlers, HandlerStep(h), NEW i \in Registered
    PROVE  Allowed(i)
<1> USE DEF HandlerInv, TypeOK
<1>1. fix \in [Handlers -> [stage: FixStages, id: Ids \cup {NoId}]]
  BY DEF BotsTypeOK
<1>2. fix[h].stage # "idle"
  BY DEF HandlerStep, DeferRaises, FixMarksResolved, FixDispatches, DispatchReturns
<1>3. fix[h].id \in Registered
  BY <1>2 DEF BotsTypeOK
<1>4. fix'[h] # fix[h]
  <2>1. ASSUME fix' = [fix EXCEPT ![h] = Idle] PROVE fix'[h] # fix[h]
    BY <1>1, <1>2, <2>1 DEF Idle
  <2>2. ASSUME fix[h].stage = "deferring", fix' = [fix EXCEPT ![h].stage = "dispatching"]
        PROVE  fix'[h] # fix[h]
    <3>1. fix'[h].stage = "dispatching"
      BY <1>1, <2>2
    <3> QED
      BY <2>2, <3>1
  <2> QED
    BY <2>1, <2>2
       DEF HandlerStep, DeferRaises, FixMarksResolved, FixDispatches, DispatchReturns
<1>5. \/ UNCHANGED registryVars
      \/ \E s \in IssueStatus : SetStatus(fix[h].id, s)
  BY DEF HandlerStep, DeferRaises, FixMarksResolved, FixDispatches, DispatchReturns, IssueStatus
<1>6. i # fix[h].id => issues'[i] = issues[i]
  BY <1>3, <1>5, SetStatusEffect DEF registryVars
<1> QED
  BY <1>2, <1>4, <1>6 DEF Allowed

\* A command changes no closed issue, but for a denial.
LEMMA CommandAllowed ==
    ASSUME HandlerInv, OperatorStep, NEW i \in Registered
    PROVE  Allowed(i)
<1> USE DEF HandlerInv, TypeOK
<1>1. CASE \E h \in Handlers, j \in Ids : DiscordFix(h, j)
  BY <1>1 DEF DiscordFix, registryVars, Allowed
<1>2. CASE \E j \in Ids : DiscordDeny(j) \/ TelegramDeny(j)
  <2>1. PICK j \in Registered : SetStatus(j, "denied")
    BY <1>2 DEF DiscordDeny, TelegramDeny
  <2> QED
    BY <2>1, SetStatusEffect DEF IssueStatus, Allowed
<1>3. CASE \E j \in Ids : TelegramFix(j)
  <2>1. PICK j \in Registered :
           issues[j].status = "awaiting_approval" /\ SetStatus(j, "resolved")
    BY <1>3 DEF TelegramFix
  <2> QED
    BY <2>1, SetStatusEffect DEF IssueStatus, Allowed, Terminal
<1> QED
  BY <1>1, <1>2, <1>3 DEF OperatorStep

\* Whether or not analyses record parameters, however many handlers are
\* suspended and whatever the scheduler is doing: the status of a closed
\* issue changes only by a denial, or by a /fix that was invoked on it and
\* resumes in this step.
THEOREM OnlyCommandsChangeClosed == Spec => ClosedChangesByCommand
<1>1. ASSUME HandlerInv, [Next]_vars
      PROVE  \A i \in Registered \cap DOMAIN issues' : Allowed(i)
  <2>1. ASSUME ClosedKept PROVE \A i \in Registered : Allowed(i)
    BY <2>1 DEF ClosedKept, Allowed
  <2>2. ASSUME UNCHANGED registryVars PROVE \A i \in Registered : Allowed(i)
    BY <2>2 DEF registryVars, Allowed
  <2>3. CASE SchedulerStep
    BY <1>1, <2>1, <2>3, SchedulerKeepsClosed DEF HandlerInv
  <2>4. CASE EnvironmentStep \/ Shutdown
    BY <2>2, <2>4
       DEF EnvironmentStep, CooldownExpires, AnomalyAppears, AnomalyClears, Shutdown
  <2>5. CASE OperatorStep \/ \E h \in Handlers : HandlerStep(h)
    BY <1>1, <2>5, CommandAllowed, HandlerChangesItsOwn
  <2>6. CASE Restart
    BY <2>6 DEF Restart, EmptyRegistry
  <2>7. CASE OnReady /\ UNCHANGED registryVars
    BY <2>2, <2>7
  <2>8. CASE UNCHANGED vars
    BY <2>2, <2>8 DEF vars
  <2> QED
    BY <1>1, <2>3, <2>4, <2>5, <2>6, <2>7, <2>8 DEF Next
<1>2. ASSUME HandlerInv, [Next]_vars
      PROVE  [\A i \in Registered \cap DOMAIN issues' :
                issues[i].status \in Terminal /\ issues'[i].status # issues[i].status
                   => \/ issues'[i].status = "denied"
                      \/ \E h \in Handlers : /\ fix[h].stage # "idle" /\ fix[h].id = i
                                            /\ fix'[h] # fix[h]]_vars
  BY <1>1, <1>2 DEF Allowed
<1> QED
  BY <1>2, HandlerInvAlways, PTL DEF Spec, ClosedChangesByCommand

-----------------------------------------------------------------------------
(* What /fix runs *)

NothingRun == dispatched = {}

\* In the program as it is, no /fix ever runs anything, in any state: what
\* the run fix_noop shows of one behaviour holds of all.
THEOREM FixRunsNothing ==
    ASSUME ~RecordsParams
    PROVE  Spec => []NothingRun
<1>1. Init => NothingRun
  BY DEF Init, NothingRun
<1>2. ASSUME HandlerInv, NothingRun, [Next]_vars
      PROVE  NothingRun'
  <2>1. ASSUME NEW h \in Handlers PROVE ~FixDispatches(h)
    BY <1>2 DEF HandlerInv, NothingToDispatch, FixDispatches, TypeOK, BotsTypeOK
  <2> QED
    BY <1>2, <2>1
       DEF Next, vars, botVars, EnvironmentStep, OperatorStep, HandlerStep, DiscordFix,
           DiscordDeny, TelegramFix, TelegramDeny, DeferRaises, FixMarksResolved,
           DispatchReturns, Restart, NothingRun
<1> QED
  BY <1>1, <1>2, HandlerInvAlways, PTL DEF Spec

=============================================================================
