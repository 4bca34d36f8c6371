----------------------------- MODULE Scheduler -----------------------------
(***************************************************************************)
(* The monitoring loop (janitor/scheduler.py): one asyncio task that       *)
(* collects a snapshot per server, turns each anomaly into at most one     *)
(* active issue, has the AI analyse new issues and broadcasts their alert. *)
(* An action is the code between two awaits; while the task is suspended   *)
(* in an await the bots' handlers run.                                     *)
(***************************************************************************)
EXTENDS Notifier

CONSTANTS
    Servers,       \* the configured Proxmox servers
    ServerOf,      \* the server an anomaly is reported for
    Flaky,         \* the servers that may not answer, at the start or later
    Providers,     \* can an AI provider be created? What a start may find
    RecordsParams  \* may an analysis set Issue.action_params?  The code as
                   \* written never does: FALSE

ASSUME SchedulerAssumption ==
    /\ ServerOf \in [Keys -> Servers]
    /\ Servers # {} /\ Flaky \subseteq Servers
    /\ Providers \subseteq BOOLEAN
    /\ RecordsParams \in BOOLEAN

VARIABLES
    phase,         \* where the task is suspended
    work,          \* anomalies of this tick not looked at yet
    cur,           \* the issue being analysed or announced
    pos,           \* the notifier whose send_alert is awaited
    cooling,       \* keys alerted less than alert_cooldown_seconds ago
    present,       \* environment: the anomalies a collection would report
    clients,       \* the servers that main connected to
    debugger       \* is there an AI debugger?

schedulerVars == <<phase, work, cur, pos, cooling, present>>

\* Handed to the scheduler when it is made, and never changed.
setupVars == <<clients, debugger>>

Phases == {"sleeping", "working", "analyzing", "alerting", "stopped"}

\* main drops a server it cannot connect to, and exits if none is left.
Connectable(connected) ==
    connected # {} /\ connected \subseteq Servers /\ Servers \ Flaky \subseteq connected

-----------------------------------------------------------------------------
(* One tick *)

\* Seeded fault in Collect: one server that raises spoils the whole gather.
CollectAllOrNothing ==
    /\ phase = "sleeping"
    /\ \E failed \in SUBSET Flaky : work' = IF failed \cap clients = {}
                                          THEN {k \in present : ServerOf[k] \in clients}
                                          ELSE {}
    /\ phase' = "working"
    /\ UNCHANGED <<cur, pos, cooling, present, registryVars, notifierVars>>

\* gather() over the connected servers; one whose collection raised is
\* skipped.  Snapshots are processed in a fixed order, which no property depends on:
\* "work" is the set of anomalies found in those that succeeded.
Collect ==
    /\ phase = "sleeping"
    /\ \E failed \in SUBSET Flaky :
          work' = {k \in present : ServerOf[k] \in clients \ failed}
    /\ phase' = "working"
    /\ UNCHANGED <<cur, pos, cooling, present, registryVars, notifierVars>>

\* _should_alert and what follows it up to the next await.  The cooldown of
\* the key starts here, before anything is sent.  With no notifier enabled
\* the broadcast is over at once.
AlertUnlessCooling(i, k) ==
    \/ /\ k \in cooling
       /\ phase' = "working" /\ cur' = NoId
       /\ UNCHANGED <<pos, cooling>>
    \/ /\ k \notin cooling
       /\ cooling' = cooling \cup {k}
       /\ IF Notifiers = <<>>
          THEN phase' = "working" /\ cur' = NoId /\ UNCHANGED pos
          ELSE phase' = "alerting" /\ cur' = i /\ pos' = 1

BroadcastIsEmpty(k) == k \notin cooling /\ Notifiers = <<>>

\* Seeded fault in RefreshExisting: a persisting anomaly is announced again.
RefreshRealerts(k) ==
    /\ phase = "working"
    /\ k \in work
    /\ \E i \in FindOpen(k) : Put(i, issues[i]) /\ AlertUnlessCooling(i, k)
    /\ work' = work \ {k}
    /\ UNCHANGED <<present, notifierVars>>

\* The anomaly has an active issue: refresh its metrics, do not alert again.
RefreshExisting(k) ==
    /\ phase = "working"
    /\ k \in work
    /\ \E i \in FindOpen(k) : Put(i, issues[i])
    /\ work' = work \ {k}
    /\ UNCHANGED <<phase, cur, pos, cooling, present, notifierVars>>

\* Seeded fault in RegisterAndAnalyze: the issue is not added before the await.
AnalyzeUnregistered(k) ==
    /\ phase = "working" /\ debugger
    /\ k \in work /\ FindOpen(k) = {}
    /\ \E i \in Ids \ Registered : cur' = i
    /\ phase' = "analyzing"
    /\ work' = work \ {k}
    /\ UNCHANGED <<pos, cooling, present, registryVars, notifierVars>>

\* Seeded fault in RegisterAndAnalyze: no look for an active issue.
RegisterAgain(k) ==
    /\ phase = "working" /\ debugger
    /\ k \in work
    /\ \E i \in Ids \ Registered : Put(i, NewIssue(k)) /\ cur' = i
    /\ phase' = "analyzing"
    /\ work' = work \ {k}
    /\ UNCHANGED <<pos, cooling, present, notifierVars>>

\* A new anomaly: registered, then handed to the AI, whose first answer is
\* awaited.
RegisterAndAnalyze(k) ==
    /\ phase = "working" /\ debugger
    /\ k \in work /\ FindOpen(k) = {}
    /\ \E i \in Ids \ Registered :
          /\ Put(i, NewIssue(k))
          /\ cur' = i
    /\ phase' = "analyzing"
    /\ work' = work \ {k}
    /\ UNCHANGED <<pos, cooling, present, notifierVars>>

\* The same without an AI provider: registering and the decision to alert
\* are one step.
RegisterUnanalyzed(k) ==
    /\ phase = "working" /\ ~debugger
    /\ k \in work /\ FindOpen(k) = {}
    /\ \E i \in Ids \ Registered :
          /\ Put(i, [NewIssue(k) EXCEPT !.notified = BroadcastIsEmpty(k)])
          /\ AlertUnlessCooling(i, k)
    /\ work' = work \ {k}
    /\ UNCHANGED <<present, notifierVars>>

\* Seeded fault in Analyzed: the status is set whatever it has become.
AnalyzedReopens(r, suggests, records) ==
    [r EXCEPT !.suggested = @ \/ suggests,
              !.params = @ \/ records,
              !.status = IF suggests THEN "awaiting_approval" ELSE @]

\* What analyze_issue makes of the issue when the conversation is over:
\* the final text names an action or not ("not" stands for the exhausted
\* tool rounds too).  The operator may have denied the issue meanwhile.
Analyzed(r, suggests, records) ==
    [r EXCEPT !.suggested = @ \/ suggests,
              !.params = @ \/ records,
              !.status = IF suggests /\ @ = "open"
                         THEN "awaiting_approval" ELSE @]

AnalysisConcludes ==
    /\ phase = "analyzing"
    /\ \E suggests \in BOOLEAN, records \in BOOLEAN :
          LET r == Analyzed(issues[cur], suggests, records)
          IN  /\ records => suggests /\ RecordsParams
              /\ Put(cur, [r EXCEPT !.notified = BroadcastIsEmpty(r.key)])
              /\ AlertUnlessCooling(cur, r.key)
    /\ UNCHANGED <<work, present, notifierVars>>

\* Seeded fault in AnalysisRaises: the anomaly is looked at again in this tick.
AnalysisRequeues ==
    /\ phase = "analyzing"
    /\ work' = work \cup {issues[cur].key}
    /\ phase' = "working" /\ cur' = NoId
    /\ UNCHANGED <<pos, cooling, present, registryVars, notifierVars>>

\* The provider or a tool raised: the issue stays as it is, nothing is saved
\* for it, and the alert goes out without an analysis.
AnalysisRaises ==
    /\ phase = "analyzing"
    /\ LET k == issues[cur].key
       IN  /\ IF BroadcastIsEmpty(k)
              THEN Put(cur, [issues[cur] EXCEPT !.notified = TRUE])
              ELSE UNCHANGED registryVars
           /\ AlertUnlessCooling(cur, k)
    /\ UNCHANGED <<work, present, notifierVars>>

\* MultiNotifier.send_alert returns after its last notifier, and the issue
\* counts as notified.
Advance ==
    IF pos = Len(Notifiers)
    THEN /\ Put(cur, [issues[cur] EXCEPT !.notified = TRUE])
         /\ phase' = "working" /\ cur' = NoId
         /\ UNCHANGED pos
    ELSE /\ pos' = pos + 1
         /\ UNCHANGED <<phase, cur, registryVars>>

\* A notifier without a channel returns normally, having sent nothing.
SendSkips ==
    /\ phase = "alerting"
    /\ Notifiers[pos] \notin ready
    /\ Advance
    /\ UNCHANGED <<work, cooling, present, notifierVars>>

SendDelivers ==
    /\ phase = "alerting"
    /\ Notifiers[pos] \in ready
    /\ Deliver(cur, Notifiers[pos])
    /\ Advance
    /\ UNCHANGED <<work, cooling, present, ready>>

\* Seeded fault in SendRaises: the issue counts as notified all the same.
RaiseMarksNotified ==
    /\ phase = "alerting"
    /\ Notifiers[pos] \in ready
    /\ Put(cur, [issues[cur] EXCEPT !.notified = TRUE])
    /\ phase' = "sleeping" /\ work' = {} /\ cur' = NoId
    /\ UNCHANGED <<pos, cooling, present, notifierVars>>

\* Seeded fault in SendRaises: nothing catches the exception, the loop ends.
RaiseKillsLoop ==
    /\ phase = "alerting"
    /\ Notifiers[pos] \in ready
    /\ phase' = "dead" /\ work' = {} /\ cur' = NoId
    /\ UNCHANGED <<pos, cooling, present, registryVars, notifierVars>>

\* The send raises, whether the message got through or not: the exception
\* leaves the broadcast and the tick, and run() logs it and sleeps.
SendRaises ==
    /\ phase = "alerting"
    /\ Notifiers[pos] \in ready
    /\ \/ Deliver(cur, Notifiers[pos])
       \/ UNCHANGED delivered
    /\ phase' = "sleeping" /\ work' = {} /\ cur' = NoId
    /\ UNCHANGED <<pos, cooling, present, registryVars, ready>>

EndTick ==
    /\ phase = "working"
    /\ work = {}
    /\ phase' = "sleeping"
    /\ UNCHANGED <<work, cur, pos, cooling, present, registryVars, notifierVars>>

-----------------------------------------------------------------------------
(* Time and the monitored servers *)

CooldownExpires(k) ==
    /\ k \in cooling
    /\ cooling' = cooling \ {k}
    /\ UNCHANGED <<phase, work, cur, pos, present, registryVars, notifierVars>>

AnomalyAppears(k) ==
    /\ k \notin present
    /\ present' = present \cup {k}
    /\ UNCHANGED <<phase, work, cur, pos, cooling, registryVars, notifierVars>>

AnomalyClears(k) ==
    /\ k \in present
    /\ present' = present \ {k}
    /\ UNCHANGED <<phase, work, cur, pos, cooling, registryVars, notifierVars>>

\* The steps of the scheduler's task.
SchedulerStep ==
    \/ Collect
    \/ \E k \in Keys : \/ RefreshExisting(k)
                       \/ RegisterAndAnalyze(k)
                       \/ RegisterUnanalyzed(k)
    \/ AnalysisConcludes \/ AnalysisRaises
    \/ SendSkips \/ SendDelivers \/ SendRaises
    \/ EndTick

EnvironmentStep ==
    \E k \in Keys : CooldownExpires(k) \/ AnomalyAppears(k) \/ AnomalyClears(k)

\* While the task awaits an analysis or a send, it holds a registered issue.
SchedulerTypeOK ==
    /\ phase \in Phases
    /\ work \subseteq Keys /\ cooling \subseteq Keys /\ present \subseteq Keys
    /\ IF phase \in {"analyzing", "alerting"} THEN cur \in Registered ELSE cur = NoId
    /\ pos \in Nat
    /\ phase = "alerting" => pos \in 1..Len(Notifiers)

=============================================================================
