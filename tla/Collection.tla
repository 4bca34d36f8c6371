----------------------------- MODULE Collection -----------------------------
(***************************************************************************)
(* Collecting snapshots (_collect_snapshot and gather in janitor/          *)
(* scheduler.py, with janitor/proxmox and janitor/ssh/commands.py): the    *)
(* tick of the scheduler and the ad hoc collection of a bot command, each  *)
(* with one coroutine per server, over the connections of SSHManager.      *)
(***************************************************************************)
EXTENDS SSHManager

CONSTANTS
    Servers,       \* the connected Proxmox servers
    SSHTarget,     \* the host each server's SSH commands go to
    Flaky,         \* the servers whose API calls may raise
    LastCommand,   \* SSH commands for a snapshot: the services, SMART, the journal
    AfterFailure,  \* where a snapshot goes on when one of them raises
    Hanging,       \* hosts on which a command may run for ever
    MaxAdHoc,      \* bound: bot commands that collect snapshots
    MaxFaults      \* bound: dropped connections and vanished hosts

Gathers == {"tick", "bot"}

ASSUME CollectionAssumption ==
    /\ SSHTarget \in [Servers -> Hosts]
    /\ {"tick"} \X Servers \subseteq Tasks
    /\ Tasks \subseteq Gathers \X Servers
    /\ \A t \in Tasks : HostOf[t] = SSHTarget[t[2]]
    /\ Flaky \subseteq Servers
    /\ LastCommand \in [Servers -> Nat]
    /\ \A s \in Servers : \A n \in 1..LastCommand[s] :
          AfterFailure[s][n] \in (n + 1)..(LastCommand[s] + 1)
    /\ Hanging \subseteq Hosts
    /\ MaxAdHoc \in Nat /\ MaxFaults \in Nat

VARIABLES
    col,           \* each coroutine's place, and whether a command failed
    adHoc,         \* history: bot commands so far
    faults         \* history: faults so far

vars == <<sshVars, col, adHoc, faults>>

\* A coroutine awaits the API (0), its command number at, or is finished.
Places == {"idle", "api", "ssh", "snapshot", "raised"}
At(p, n, b) == [place |-> p, at |-> n, blind |-> b]
Idle == At("idle", 0, FALSE)

Init ==
    /\ SSHInit
    /\ col = [t \in Tasks |-> Idle]
    /\ adHoc = 0 /\ faults = 0

-----------------------------------------------------------------------------
(* One gather *)

Members(g) == {t \in Tasks : t[1] = g}

\* gather() starts a coroutine per server, which calls the API.
StartGather(g) ==
    /\ \A t \in Members(g) : col[t] = Idle
    /\ g = "bot" => adHoc < MaxAdHoc
    /\ adHoc' = IF g = "bot" THEN adHoc + 1 ELSE adHoc
    /\ col' = [t \in Tasks |-> IF t[1] = g THEN At("api", 0, FALSE) ELSE col[t]]
    /\ UNCHANGED <<sshVars, faults>>

\* The coroutine turns to command n, or returns its snapshot.
Turn(t, n, blind) ==
    IF n <= LastCommand[t[2]]
    THEN /\ col' = [col EXCEPT ![t] = At("ssh", n, blind)]
         /\ Acquire(t)
    ELSE /\ col' = [col EXCEPT ![t] = At("snapshot", 0, blind)]
         /\ use' = [use EXCEPT ![t] = Free]
         /\ UNCHANGED cache

\* The API calls of the snapshot succeed, and the first command, if any of
\* the SSH checks is enabled for the server, is run.
ApiAnswers(t) ==
    /\ col[t].place = "api"
    /\ UNCHANGED <<up, link, adHoc, faults>>
    /\ Turn(t, 1, FALSE)

\* One of them raises, and nothing catches it: there is no snapshot.
ApiRaises(t) ==
    /\ col[t].place = "api" /\ t[2] \in Flaky
    /\ col' = [col EXCEPT ![t] = At("raised", 0, FALSE)]
    /\ UNCHANGED <<sshVars, adHoc, faults>>

\* Seeded fault in Proceed: a command that raises is tried again.
ProceedRetries(t, failed) ==
    LET n == col[t].at
    IN  Turn(t, IF failed THEN n ELSE n + 1, col[t].blind)

\* A command has ended, normally or with an exception, which is swallowed:
\* after a service (its status is then "unknown") comes the next one, while
\* the first SMART command that raises is the last of them.
Proceed(t, failed) ==
    LET n == col[t].at
    IN  Turn(t, IF failed THEN AfterFailure[t[2]][n] ELSE n + 1, col[t].blind \/ failed)

CommandSucceeds(t) ==
    /\ CommandReturns(t) /\ Proceed(t, FALSE)
    /\ UNCHANGED <<adHoc, faults>>

CommandFails(t) ==
    /\ CommandRaises(t) /\ Proceed(t, TRUE)
    /\ UNCHANGED <<adHoc, faults>>

CannotConnect(t) ==
    /\ ConnectFails(t) /\ Proceed(t, TRUE)
    /\ UNCHANGED <<adHoc, faults>>

Connect(t) ==
    /\ Connected(t)
    /\ UNCHANGED <<col, adHoc, faults>>

\* Seeded fault in EndGather: gather() gives up at the first exception, as it
\* does without return_exceptions, and leaves the other coroutines running.
EndGatherEarly(g) ==
    /\ \E t \in Members(g) : col[t].place \in {"snapshot", "raised"}
    /\ \A t \in Members(g) :
          \/ col[t].place \in {"snapshot", "raised"}
          \/ \E u \in Members(g) : col[u].place = "raised"
    /\ col' = [t \in Tasks |-> IF t[1] = g THEN Idle ELSE col[t]]
    /\ UNCHANGED <<sshVars, adHoc, faults>>

\* gather() returns when every coroutine has finished.
EndGather(g) ==
    /\ \A t \in Members(g) : col[t].place \in {"snapshot", "raised"}
    /\ col' = [t \in Tasks |-> IF t[1] = g THEN Idle ELSE col[t]]
    /\ UNCHANGED <<sshVars, adHoc, faults>>

-----------------------------------------------------------------------------
(* The network and the servers *)

Fault == faults < MaxFaults /\ faults' = faults + 1

EnvironmentStep ==
    \/ /\ \E h \in Hosts : HostGoes(h) \/ (\E n \in 1..Links : LinkDrops(h, n))
       /\ Fault /\ UNCHANGED <<col, adHoc>>
    \/ /\ \E h \in Hosts : HostComes(h)
       /\ UNCHANGED <<col, adHoc, faults>>

\* The steps of a coroutine that end whatever the servers do: an API call
\* and a connect have timeouts, and a lost connection ends its command.
PromptStep(t) ==
    \/ ApiAnswers(t) \/ ApiRaises(t)
    \/ Connect(t) \/ CannotConnect(t) \/ CommandFails(t)

Next ==
    \/ \E g \in Gathers : StartGather(g) \/ EndGather(g)
    \/ \E t \in Tasks : PromptStep(t) \/ CommandSucceeds(t)
    \/ EnvironmentStep

Spec == Init /\ [][Next]_vars

\* The scheduler keeps ticking, and what has a timeout ends.  A command ends
\* except on the hosts where it may hang: run sets no timeout for it.
Fairness ==
    /\ WF_vars(StartGather("tick")) /\ WF_vars(EndGather("tick"))
    /\ \A t \in Tasks : WF_vars(PromptStep(t))
    /\ \A t \in Tasks : HostOf[t] \notin Hanging => WF_vars(CommandSucceeds(t))

FairSpec == Spec /\ Fairness

-----------------------------------------------------------------------------
(* Properties *)

\* A coroutine is in SSHManager.run exactly while it is at a command, and
\* every cached or used connection is one that was opened.
TypeOK ==
    /\ SSHTypeOK
    /\ col \in [Tasks -> [place: Places, at: Nat, blind: BOOLEAN]]
    /\ \A t \in Tasks : (use[t] # Free) <=> (col[t].place = "ssh")
    /\ \A t \in Tasks :
          col[t].at \in IF col[t].place = "ssh" THEN 1..LastCommand[t[2]] ELSE {0}
    /\ \A h \in Hosts : cache[h] # 0 => link[h][cache[h]] # "unused"
    /\ \A t \in Tasks : use[t].on # 0 => link[HostOf[t]][use[t].on] # "unused"

\* close_all closes what is cached, and coroutines that connect at the same
\* time overwrite each other's entry, so that connections are left open for
\* good.  But no more than this: of the coroutines that use a host, each opens
\* one at the start and all but one an additional one after every fault.
LeaksBounded ==
    \A t \in Tasks :
        LET users == {u \in Tasks : HostOf[u] = HostOf[t]}
            open == {n \in 1..Links : link[HostOf[t]][n] = "open"}
        IN  Cardinality(open) <= Cardinality(users) + faults * (Cardinality(users) - 1)

\* The awaits a coroutine has before it, at most: the API, and for each
\* command a connect and the command itself.
Ahead(t) ==
    IF col[t].place = "api" THEN 2 * LastCommand[t[2]] + 1
    ELSE IF col[t].place = "ssh"
         THEN 2 * (LastCommand[t[2]] - col[t].at) + (IF use[t] = Connecting THEN 2 ELSE 1)
         ELSE 0

\* What GatherEnds rests on: nothing is tried twice.  Each step of a
\* coroutine leaves it fewer awaits, however the connections are lost and
\* replaced under it, and no other coroutine that shares them sends it back.
CoroutinesAdvance ==
    [][\A t \in Tasks :
          Ahead(t) > 0 /\ <<col[t], use[t]>>' # <<col[t], use[t]>>
             => Ahead(t)' < Ahead(t)]_vars

\* A tick's collection ends, whatever the other server and the bots do.
GatherEnds == (\E t \in Members("tick") : col[t] # Idle)
                 ~> (\A t \in Members("tick") : col[t] = Idle)

\* A server whose API answers and whose host is up for good.
HealthyInTheEnd(s) == s \notin Flaky /\ <>[](SSHTarget[s] \in up)

\* Tick after tick has a snapshot of the server in which no command failed.
KeepsBeingSeen(s) ==
    /\ []<>(col[<<"tick", s>>] = At("snapshot", 0, FALSE))
    /\ []<>(col[<<"tick", s>>] = Idle)

\* "automatic reconnection": once a server is healthy again the ticks see
\* everything of it again, whatever connections were lost, raced for or left
\* stale before.
Reconnects == \A s \in Servers : HealthyInTheEnd(s) => KeepsBeingSeen(s)

-----------------------------------------------------------------------------
(* What the documentation says and the code does not do *)

\* README: "Polls Proxmox nodes on a configurable interval".  A healthy
\* server keeps being polled, even if commands hang on another one's host.
HealthyServerPolled ==
    \A s \in Servers :
        SSHTarget[s] \notin Hanging /\ HealthyInTheEnd(s) => KeepsBeingSeen(s)

=============================================================================
