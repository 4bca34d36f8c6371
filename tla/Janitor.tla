------------------------------ MODULE Janitor ------------------------------
(***************************************************************************)
(* The running program (janitor/main.py): the scheduler's task and the     *)
(* bots' handlers on one event loop, sharing the issue registry, in a      *)
(* process that may be shut down, or die, and be started again.            *)
(***************************************************************************)
EXTENDS Bots

CONSTANT
    MaxRestarts    \* bound: restarts of the process in a behaviour

ASSUME JanitorAssumption == MaxRestarts \in Nat

VARIABLE
    restarts       \* history: restarts so far

processVars == <<setupVars, restarts>>

vars == <<registryVars, notifierVars, schedulerVars, botVars, processVars>>

Init ==
    /\ issues = EmptyRegistry /\ disk = EmptyRegistry /\ synced = FALSE
    /\ ready = ReadyAtStart /\ delivered = NothingDelivered
    /\ phase = "sleeping" /\ work = {} /\ cur = NoId /\ pos = 1
    /\ cooling = {} /\ present = {}
    /\ fix = [h \in Handlers |-> Idle]
    /\ dispatched = {} /\ commands = 0 /\ restarts = 0
    /\ clients \in {c \in SUBSET Servers : Connectable(c)}
    /\ debugger \in Providers

\* SIGTERM: main cancels the scheduler's task, in whichever await it is, and
\* an alert that was being sent may or may not get through.  While the bots
\* are being stopped their handlers go on; Restart is the end of that.
Shutdown ==
    /\ restarts < MaxRestarts
    /\ phase \in {"sleeping", "analyzing", "alerting"}
    /\ phase' = "stopped" /\ work' = {} /\ cur' = NoId
    /\ \/ /\ phase = "alerting" /\ Notifiers[pos] \in ready
          /\ Deliver(cur, Notifiers[pos])
       \/ UNCHANGED delivered
    /\ UNCHANGED <<pos, cooling, present, ready, registryVars>>

\* The process ends, or dies between two steps or inside a write of
\* issues.json, and is started again (docker-compose: restart unless-stopped).
\* What was in memory is gone; issues.json stays, and is not read back.
Restart ==
    /\ restarts < MaxRestarts /\ restarts' = restarts + 1
    /\ issues' = EmptyRegistry /\ synced' = FALSE
    /\ ready' = ReadyAtStart /\ delivered' = NothingDelivered
    /\ phase' = "sleeping" /\ work' = {} /\ cur' = NoId /\ pos' = 1
    /\ cooling' = {}
    /\ fix' = [h \in Handlers |-> Idle]
    /\ dispatched' = {}
    /\ disk' \in {disk, Torn}
    /\ clients' \in {c \in SUBSET Servers : Connectable(c)}
    /\ debugger' \in Providers
    /\ UNCHANGED <<present, commands>>

Next ==
    \/ SchedulerStep /\ UNCHANGED <<botVars, processVars>>
    \/ EnvironmentStep /\ UNCHANGED <<botVars, processVars>>
    \/ OnReady /\ UNCHANGED <<registryVars, schedulerVars, botVars, processVars>>
    \/ OperatorStep /\ UNCHANGED <<schedulerVars, notifierVars, processVars>>
    \/ \E h \in Handlers : HandlerStep(h)
         /\ UNCHANGED <<schedulerVars, notifierVars, processVars>>
    \/ Shutdown /\ UNCHANGED <<botVars, processVars>>
    \/ Restart

Spec == Init /\ [][Next]_vars

\* Every await of the scheduler ends: asyncio.sleep returns, the HTTP clients
\* of Proxmox, of the AI providers and of the notifiers time out, and (an
\* assumption: SSHManager.run sets no timeout) an SSH command returns or
\* raises.  Time passes.  Nothing is assumed of the operator or of on_ready.
Fairness ==
    /\ WF_vars(SchedulerStep /\ UNCHANGED <<botVars, processVars>>)
    /\ \A k \in Keys : WF_vars(CooldownExpires(k) /\ UNCHANGED <<botVars, processVars>>)

FairSpec == Spec /\ Fairness

-----------------------------------------------------------------------------
(* Safety *)

\* Types, and what ties the suspended coroutines to the registry: the issue
\* the scheduler is busy with and those the handlers hold are registered.
TypeOK ==
    /\ RegistryTypeOK
    /\ NotifierTypeOK
    /\ SchedulerTypeOK
    /\ BotsTypeOK
    /\ clients \subseteq Servers /\ debugger \in BOOLEAN /\ restarts \in Nat

\* find_open's promise, "to avoid duplicates": an anomaly has at most one
\* active issue, although /fix and /deny close issues while the scheduler
\* is suspended in the middle of a tick.
ActiveUnique ==
    \A i, j \in ListActive : issues[i].key = issues[j].key => i = j

\* Nothing reopens a closed issue: neither an analysis that ends after the
\* operator has denied its issue, nor a /fix that resumes after a /deny.
ClosedStaysClosed ==
    [][\A i \in Registered \cap DOMAIN issues' :
          issues[i].status \in Terminal => issues'[i].status \in Terminal]_vars

\* The windows in which a closed issue changes, whether an analysis records
\* parameters or not: a denial, and a Discord /fix that was invoked on this very
\* issue, resumes and goes on.  No analysis, tick or other command does it.
ClosedChangesByCommand ==
    [][\A i \in Registered \cap DOMAIN issues' :
          issues[i].status \in Terminal /\ issues'[i].status # issues[i].status
             => \/ issues'[i].status = "denied"
                \/ \E h \in Handlers : /\ fix[h].stage # "idle" /\ fix[h].id = i
                                      /\ fix'[h] # fix[h]]_vars

\* "don't re-alert": whatever raises, resumes or is redetected, no notifier
\* delivers the alert of an issue twice.
AlertedOnce == \A p \in Ids \X NotifierNames : delivered[p] <= 1

\* The flag "notified" can be trusted for a notifier that was able to send
\* all along: it has delivered the alert, even if another one raised.
NotifiedWasDelivered ==
    \A i \in Registered : issues[i].notified =>
        \A n \in ReadyAtStart : delivered[<<i, n>>] = 1

\* Whenever the event loop is free, issues.json holds the registry, unless
\* the last write failed or nothing has been written since the start: no
\* handler suspends between changing an issue and saving it.
DiskCurrent == synced => disk = FileOf(issues)

\* Only an issue for which the AI has suggested an action is ever awaiting
\* approval, and only such an issue is approved, run, resolved or failed.
FixedWasSuggested ==
    \A i \in Registered :
        issues[i].status \notin {"open", "denied"} => issues[i].suggested

-----------------------------------------------------------------------------
(* The registry keeps the promise of IssueTracker *)

TheIssue(found) == IF found = {} THEN NoId ELSE CHOOSE i \in found : TRUE

Tracker == INSTANCE IssueTracker WITH
    tracking <- [k \in Keys |-> TheIssue(FindOpen(k))],
    closed <- Registered \ ListActive

\* Seen from the anomalies, the interleaved scheduler and handlers behave
\* like a tracker that opens and closes one issue at a time.
TracksIssues == Tracker!TrackerSpec

-----------------------------------------------------------------------------
(* The alerts keep the promise of Announcer *)

Alerts == INSTANCE Announcer WITH
    Names <- NotifierNames,
    told <- delivered,
    past <- Registered \ (IF phase = "analyzing" THEN {cur} ELSE {}),
    announcing <- IF phase = "alerting" THEN cur ELSE NoId

\* Whatever raises, cools down, is redetected or is shut down: an issue gets
\* one turn to be announced, after its analysis, and nothing else sends.
AnnouncesOnce == Alerts!AnnouncerSpec

-----------------------------------------------------------------------------
(* Liveness *)

\* The awaits that are left of what the tick does with one anomaly.
StepsLeft ==
    CASE phase \in {"sleeping", "stopped"} -> 0
      [] phase = "working" -> 1
      [] phase = "alerting" -> 2 + (Len(Notifiers) - pos)
      [] phase = "analyzing" -> 2 + Len(Notifiers)

\* What TickEnds rests on: whatever moves the scheduler's task within a tick
\* brings it closer to the end, and neither a failure nor the operator, who
\* closes issues under it, puts anything back.
TickShrinks ==
    [][phase \notin {"sleeping", "stopped"} /\ <<phase, work, cur, pos>>' # <<phase, work, cur, pos>>
          => \/ work' \subseteq work /\ work' # work
             \/ work' = work /\ StepsLeft' < StepsLeft]_vars

\* An anomaly that persists on a server whose collection works gets an
\* issue, even if every alert of every tick raises and ends the tick.
PersistentAnomalyTracked ==
    \A k \in Keys : ServerOf[k] \notin Flaky =>
        (k \in present ~> (k \notin present \/ FindOpen(k) # {}))

\* A tick always comes to its end, and with it the next collection.
TickEnds == (phase # "sleeping") ~> (phase = "sleeping")

-----------------------------------------------------------------------------
(* What the documentation says and the code does not do *)

\* README: "/deny: Reject a pending fix".  A denied issue stays denied.
DenialIsFinal ==
    [][\A i \in Registered \cap DOMAIN issues' :
          issues[i].status = "denied" => issues'[i].status = "denied"]_vars

\* README: "/fix: Approve a pending AI-suggested fix".  An issue that /fix
\* has resolved has had its action run.
ApprovedFixRuns ==
    \A i \in Registered : issues[i].status = "resolved" => i \in dispatched

\* config.example.yaml: the cooldown is the "minimum seconds between repeat
\* alerts".  An issue that stays active is announced sooner or later.
ActiveIssueAnnounced ==
    \A i \in Ids : (i \in Registered /\ IsActive(i))
        ~> (i \in Registered => issues[i].notified \/ ~IsActive(i))

\* IssueRegistry: "JSON persistence for crash recovery".  The active issues
\* found in issues.json are in the registry of the restarted process.
RestartRecovers ==
    [][restarts' # restarts /\ disk # Torn
         => {i \in DOMAIN disk : disk[i].status \notin Terminal}
               \subseteq DOMAIN issues']_vars

=============================================================================
