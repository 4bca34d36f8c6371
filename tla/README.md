# Proxmox Janitor in TLA+

TLA+ modules, TLC configurations and TLAPS proofs about the program in `src/janitor`: an
agent that polls Proxmox servers, turns what it finds into issues, has an AI analyse them,
alerts the operator through Discord and Telegram, and takes the operator's `/fix` and
`/deny`.

Everything runs on one asyncio event loop. A coroutine is interrupted only where it awaits,
so an action of these modules is the code from one await to the next, and the interleavings
are those of coroutines.

## 1. Inventory

| Part (src/janitor) | State | Operations | Correct if |
|---|---|---|---|
| Issue registry (`models/registry.py`, `models/issue.py`) | dict of issues by id; `issues.json` | `add`, `update`, `get`, `find_open`, `list_active`, `_save` | one active issue per anomaly; closed issues stay closed; the file follows the dict |
| Scheduler (`scheduler.py`) | `_running`, `_last_alert`; the tick's locals | `run`, `_tick`, `_collect_snapshot`, `_detect_anomalies`, `_should_alert` | each lasting anomaly is tracked and announced once; no failure ends the loop |
| Notifiers (`notifications/base.py`) | the list of notifiers | `send_alert` (broadcast) | an alert reaches every notifier that can send, once |
| Discord bot (`notifications/discord_bot.py`) | the two channels (None until `on_ready`) | `/fix`, `/deny`, read-only commands, `send_alert`, `start`, `stop` | commands act on the status the operator saw |
| Telegram bot (`notifications/telegram_bot.py`) | the application | the same | the same |
| AI debugger (`ai/debugger.py`) | messages of a conversation | `analyze_issue`, `interactive_session` | bounded rounds, every tool call answered before the next chat |
| Executor (`actions/executor.py`, `ai/tools.py`) | the permissions | `execute`, `execute_read_only`, `_dispatch` | only what level and lists permit is launched |
| AI providers (`ai/*_provider.py`) | an API client | `chat` | an answer or an exception |
| SSH manager (`ssh/client.py`, `ssh/commands.py`) | cache of connections | `run`, `_get_conn`, `close_all` | reconnects; few connections stay open without an owner |
| Proxmox collectors (`proxmox/*.py`) | none | a walk over nodes, services, disks | what they report was there, what lasts is reported |
| Anomaly detection (`scheduler.py`, `models/metrics.py`) | none | `_detect_anomalies` | the findings follow from the snapshot |
| Lifecycle (`main.py`) | everything above, wired | start, shutdown | one server or notifier that fails takes no other with it |
| Configuration, formatting, logging | | | not modelled |

How the parts interact. The scheduler's task and the handlers of both bots share the registry
and the `Issue` objects in it: all of them hold references across awaits. Ticks and bot
commands share the cached SSH connections. Analyses and `/debug` sessions reach the servers
through the executor only. `main` builds everything before it starts the notifiers, and the
notifiers before the scheduler; a container restarts a process that died.

What is hard here: a handler or an analysis that resumes after somebody else changed its
issue; exceptions that leave a broadcast and a tick half-way; alerts that race the start of
Discord; a process that dies between two writes of its file; coroutines that reconnect at the
same time; a conversation that is cut off among its tool calls; a snapshot that takes dozens of
calls while the cluster changes; a shutdown in the middle of an alert. `PROJECT.json` lists these
hazards at their lines.

## 2. Modules

    Registry <- Notifier <- Scheduler <- Bots <- Janitor     the core, composed by EXTENDS
                      MCJanitor, JanitorProofs <- AlertProofs, FixProofs, TickProofs, TrackerProofs
    Detection <- Survey                  one snapshot, call by call, and what is found in it
                 MCSurvey, SurveyProofs
    Executor <- Session                  a conversation with the AI
                MCSession, SessionProofs
    SSHManager <- Collection             collecting snapshots over shared connections
                  MCCollection, CollectionProofs

Three abstract specifications say what a part promises, and the detailed modules are shown to
implement them (`INSTANCE ... WITH`, as a property of a run and as a theorem):

    IssueTracker  <- Janitor     one issue per anomaly at a time, opened once, closed once
    Announcer     <- Janitor     one turn to be announced per issue, nobody is told twice
    Dialogue      <- Session     the turns of AI and program, every call answered in order

**Registry.** `issues` is `_issues`; `disk` is the content of `issues.json` (a list of issue
dicts, or `Torn`). An issue keeps the fields that the control flow reads. `Put` is `add` and
`update`: neither awaits, so both are conjuncts of the actions of their callers. `Save` writes
the file, or fails at any point and is silent about it. Ids are distinct; `Keys` are the
(server, title) pairs that `find_open` compares.

**Notifier.** `Notifiers` is the list `main` builds; `ready` are those whose `send_alert` finds
a channel. Telegram is ready when the scheduler starts (its `start` is awaited), Discord at
`OnReady`. `delivered` is a history variable: what reached the operator.

**Scheduler.** `phase` says in which await the task is: sleeping, analysing, alerting; "working"
is the place between two anomalies of a tick. The tick never awaits there except in what the
other phases stand for, but TLC may let a handler in: a few more interleavings than the program
has, none less. `Collect` takes the anomalies of the servers that answered; then one action
per anomaly, with the code's branches: refresh an existing issue, register and analyse, or
register only. `clients` and `debugger` are what `main` hands over: the servers it could connect
to (`Connectable`: it drops the others and exits if none is left) and whether it has an AI
provider. `AlertUnlessCooling` is `_should_alert`: the cooldown starts before the send.
`SendRaises` ends the tick, as an exception in the broadcast does. Anomalies and cooldowns come
and go in the environment. `Collection` and `Survey` look inside `Collect`.

**Bots.** `/fix` of Discord is two actions: up to `await interaction.response.defer()`, where it
holds the issue in `fix[h]`, and after it. `/deny` and Telegram's commands change and save
the issue before their first await, so each is one action. Read-only commands change nothing.

**Janitor.** The composition. `Shutdown` is SIGTERM: `main` cancels the scheduler's task in
whichever await it is, `except Exception` does not catch that, and an alert being sent may or may
not get through; then the notifiers are stopped, while handlers that were suspended go on.
`Restart` is the end of the process, after a shutdown, or by a crash at any step or in the middle
of a write, and the start of the next one, which may connect to other servers.

**IssueTracker.** The abstract specification: an anomaly is tracked by at most one issue at a
time, an issue is opened once and closed once. `TracksIssues` maps `tracking` to the active
issue of each key and `closed` to the rest of the registry.

**Announcer.** Alerting without ticks, analyses and failures: an issue's turn comes once, is used
or missed, and while it is being announced each notifier tells of it at most once; an announcement
may break off and is never taken up again. `AnnouncesOnce` maps `told` to what was delivered,
`announcing` to the issue in the broadcast, and `past` to the registered issues but the one that
is still being analysed. What `lost_alert` shows is a turn that is missed.

**Dialogue.** The protocol of tool use that the providers impose, without tools, gate and permissions.
`FollowsDialogue` maps `asked` to the calls that have no answer yet; dispatching an action is a
stutter.

**Executor, Session.** `Gate` is `execute` up to `_dispatch`, as a function of configuration and
tool. A session is one call of `analyze_issue` or `interactive_session`; `calls` are the tool
calls of all rounds, `answers` the results appended to the messages. Conversations share no
state, so one is modelled. The core's `AnalysisConcludes` and `AnalysisRaises` are its ends.

**Detection, Survey.** `Detection` is `_detect_anomalies`: a snapshot's titles, embedded
states included, as pure operators. `Survey` is how a snapshot of one cluster comes about: `Walk`
lists the calls of `_collect_snapshot` in order (a status per node, VMs and containers per node,
the storages of each node, the services, `lsblk`, then a `smartctl` per disk), `at` is the call
that is awaited, `snap` what has been collected, `found` the anomalies of the last completed
snapshot. `ReadStorage` passes over ids already seen; `NodeRaises` loses the snapshot; `SmartRaises`
drops the summary. What the SSH host prints is kept as far as the program reads it: a service's
answer as a list of words, `ReadService` being "unknown" if the command cannot be run (`ssh` is
"gone") and nothing if it ends without output and exit status ("silent"), which
`SSHManager.run` passes on as a success; and of `smartctl -H` the words of `Output`, among which
"failed" comes from a disk that fails and from one that cannot be opened.
The cluster (`online`, `reading`, `guest`, `usage`, `service`, `health`, `ssh`) changes between any
two calls.

`Problems` is what an omniscient observer with the same thresholds would call wrong at this moment,
stated from the cluster: any online node's full storage, and disks that fail, not disks that do
not open. Two operators say where the program differs. `Overlooked` are the storages that
are full on other nodes than the first; `Misread` are disks that cannot be opened and services of which
nothing is said. `seen`, `held`, `missed`, `misread`, `moved` and `cut` are the history of the walk
that the properties speak of. The core's `present` is what a walk at this moment would find on all
servers, and its `Collect` takes it at one moment; `Survey` says what that abstraction is worth.

**SSHManager, Collection.** `cache` is `_connections`; a connection object is open, lost (no
socket), or stale (its peer has gone and nobody has told us). `Acquire` is `_get_conn` up to
`await connect`; `Connected` stores whatever it gets. `Collection` adds the coroutines of
`gather`: API calls, then `LastCommand` commands one after the other (none for a server without SSH
checks), each of which may raise. After one that raises, `AfterFailure` says where the snapshot
goes on: after a service with the next one, after `lsblk` or a `smartctl` with the journal, since
the summary is given up. The tick collects from all servers, and a bot command
(`collect_all_snapshots`) does so at the same time. `collect_snapshot_for` has no caller.

### Constants worth a word

`RecordsParams` says whether analyses may set `Issue.action_params`. They never do (no code assigns
the field), so it is FALSE wherever the program as it is is meant. The run `restarts` alone sets
it: there each analysis records parameters or does not, so that the run contains the behaviours of
the program as it is and those that reach the branch of `/fix` that dispatches the action, which is
dead today.

`Providers` says what a start may find: an AI provider, none, or either. `Checks` of `Survey` is
`ChecksConfig`; cluster health and logs are left out, since nothing examines them.

`Flaky` are the servers that may not answer, at the start or later; `Hanging` the hosts on which an SSH command
may never return.

## 3. What the runs check

| Run | Question | Bounds |
|---|---|---|
| `operators` | Do operators of both bots, two suspended `/fix`, the ticks, a shutdown and a restart leave one active issue per anomaly, closed issues closed, the file current, and only suggested fixes fixed? Is an alert delivered at most once, and does `notified` mean delivered by every notifier ready all along? Does it all implement `IssueTracker` and `Announcer`? | 1 anomaly, 3 issues, both notifiers, with and without a provider, 2 handlers, 3 commands, 1 restart |
| `restarts` | With failing and torn writes, a shutdown and a crash: is the file current but for a failed write? Who may change a closed issue, whether parameters are recorded or not? | 1 anomaly, 3 issues, 2 handlers, 2 commands, 1 restart |
| `progress` | Under fairness: does a lasting anomaly of a reachable server get its issue, and does each tick end, even if every alert raises, and come closer to its end with each step? | 2 anomalies, 2 servers (one flaky, at the start too), 3 issues, 1 command |
| `survey` | Does a torn snapshot report only what was a problem at some moment of its walk, but for the two misreadings, and all that was one throughout and not overlooked? Are the findings exact if no problem came or went meanwhile, and once the cluster is at rest? | 2 nodes, a VM, a container, a storage on both nodes, a service, 2 disks; readings below and at their threshold; 3 changes |
| `sessions` | Is only what is permitted launched, in every configuration? Is every call answered before the next chat, and the conversation one that `Dialogue` allows? Bounded rounds, an end? | all levels, all lists over 3 actions; 2 rounds, 2 calls |
| `polling` | How many open connections may lose their owner? Does no coroutine go back, does each collection end, and does a healthy server keep being seen? | 2 servers behind one host, 4 coroutines, 2 SMART commands for one server and 1 for the other, 1 fault, 8 connections |

Why these bounds are enough to be of interest: uniqueness needs a second issue of the same key,
registered after the first was closed, and a handler that still holds the first (3 issues, 2
handlers and 3 commands leave room for it). A broadcast that fails half-way needs two notifiers,
and a second anomaly behind it in `progress`. An anomaly announced twice needs its key to cool
down and the issue to be found again, which one anomaly does. The permission lists matter per
action only, and two rounds of two calls contain every way a call can be followed: in its round,
by a chat, by the end. Three changes during one walk let a guest fail, migrate and recover, or a
node go, come and fail; two nodes are enough to list a guest twice or never, two disks to lose the
first one's answer to the second. Two nodes are also what it takes for a storage to be full on the second
one only. Four coroutines on one host race for one connection; by `LeaksBounded` seven can be open
after one fault, so eight connections leave room to see the bound broken.
Bounded things (`MaxCommands`, `MaxRestarts`, `MaxAdHoc`, `MaxFaults`, `MaxChanges`, `Ids`,
`Links`) are counted in guards; `MaxRestarts` bounds `Shutdown`, too, so that every shutdown can be
followed by a start. When the ids are used up, no new anomaly can be registered:
`CHECK_DEADLOCK FALSE` is not needed for it because anomalies and time go on. It is set for
`sessions` only, where a conversation stops at its end. Symmetry (of ids and of handlers) is used
in safety runs only.

Each property is also run against a seeded fault: operators such as `FindOpenOnly`,
`RefreshRealerts`, `ReadDiskReplaces` or `ConnectedUncached`, commented "Seeded fault in ...", take the
place of the operator they name, and TLC then finds the property violated.

### Disagreements with the documentation

Six runs expect a violation. Their properties state what a document or comment says.

| Run | Says | Does |
|---|---|---|
| `denial` | README: `/deny` rejects a pending fix | a `/fix` suspended in `defer()` overwrites the denial with "resolved" |
| `fix_noop` | README: `/fix` approves an AI-suggested fix | the issue is marked as resolved and nothing is run, by either bot |
| `lost_alert` | `config.example.yaml`: the cooldown is between *repeat* alerts | an issue whose key is still cooling when it is registered is never announced |
| `recovery` | `registry.py`: persistence "for crash recovery" | the file is never read |
| `hang` | README: polls on a configurable interval | one SSH command that hangs stops the polling of all servers |
| `blind` | README: polls Proxmox nodes for CPU, RAM, disk, ... | while one node of a cluster is down, nothing of that cluster is examined |

`lost_alert`, `hang` and `blind` are liveness properties and run under the fairness below; their
counterexamples loop in ticks, or stay in an await that nothing bounds.

Met while modelling, and not made into runs: an alert sent before `on_ready` is dropped and
counts as notified (`discord_bot.py:223`, `scheduler.py:96`); a notifier that raises keeps the
alert from those after it (`base.py:33`); `/deny` closes issues with no pending fix
(`discord_bot.py:198`); an action "queued for approval" (`executor.py:61`) is queued nowhere; an
analysis may ask approval for what it has already run (`debugger.py:163`); a failed service
restart is "ok" (`executor.py:148`); OpenAI's API refuses the message format of tool rounds
(`debugger.py:134`, `ChatRefused`); two coroutines that connect at once leave an open connection
that nobody can close (`client.py:66`); the `local` storage of every node but the first is passed
over, since storages are told apart by id (`storage.py:16`), which `Overlooked` states; `smartctl`'s
message that it cannot open a disk is taken for a failure, since the word is searched for in the whole text
(`scheduler.py:267`), and a service of which nothing is said is reported as "Service X is "
(`services.py:28`, `client.py:74`), which `Misread` states; a deny list that names a read-only tool is
not consulted (`debugger.py:104`); a problem whose status changes gets a
second issue, since titles embed it (`scheduler.py:227`), and one that goes away leaves its issue
active, so that its return is not announced (`scheduler.py:81`); a server that cannot be connected
to at the start is not tried again (`main.py:58`).

## 4. Fairness

`Janitor!Fairness`: the scheduler's task takes its next step, and cooldowns expire. `run` is a
loop whose every await ends: `asyncio.sleep`, and requests of HTTP clients that time out. For
SSH commands this is an assumption, since `SSHManager.run` sets no timeout; `Collection` drops
it for `Hanging` hosts, and the run `hang` shows the consequence. Nothing is assumed of
operators, of `on_ready`, of handlers or of the servers.

`Survey!FairSpec`: the walks go on, since each of their calls ends (the same awaits); nothing is
assumed of the cluster, and `EventuallyAccurate` speaks of a cluster that has come to rest by
itself.

`Session!FairSpec`: the conversation goes on (the same awaits). `Collection!Fairness`: ticks
start and end, API calls and connects end (they have timeouts), a lost connection ends its
command, and commands on hosts that do not hang end.

## 5. What is proved

TLAPS proves these for every value of the constants that satisfies the `ASSUME`s of the modules
(types of the parameters, nothing else).

`JanitorProofs`, theorems about `Spec`:

- `TypeCorrect`: `TypeOK`, including that the issue of each suspended coroutine is registered.
- `FixedSuggested`: `FixedWasSuggested`.
- `UniqueActive`: `ActiveUnique`; `ClosedFinal`: `ClosedStaysClosed`. Both assume
  `~RecordsParams`: with recorded parameters a `/fix` that resumes would set a denied issue to
  "executing", and so reopen it.
- `DiskFollows`: `DiskCurrent`.

The argument. What makes these inductive is what is known of a handler that resumes without
looking at its issue again: `HandlerInv` adds to `TypeOK` and `FixedWasSuggested` that the issue
it holds carries a suggestion, which no step takes back (`HandlersHoldSuggested`), and that
without recorded parameters no issue has any and nobody dispatches (`NothingToDispatch`).
`RegistryStep` then says what every step does to the registry: it leaves it alone, rewrites one
issue within the limits of `Rewrite`, registers an issue for an anomaly that has no active one,
or restarts. The invariants and `ClosedStaysClosed` follow from that lemma, without looking at
single actions again.

`FixProofs` is about the operator's commands.

- `OnlyCommandsChangeClosed` (`ClosedChangesByCommand`) needs no assumption on `RecordsParams`:
  where closed issues do not stay closed, it says which windows reopen or overwrite them. Only a
  denial does, or a `/fix` that was invoked on this very issue and resumes in that step; the end of
  an analysis never does. `SchedulerKeepsClosed` goes through the steps of the task,
  `HandlerChangesItsOwn` uses that a handler holds a registered issue and moves when it writes.
- `FixRunsNothing`: as the program is (`~RecordsParams`), no `/fix` launches anything, in any
  reachable state. The run `fix_noop` shows the same of one behaviour.

`TickProofs`: `NoTickGrows` (`TickShrinks`). A tick has a set of anomalies to look at and, for the
present one, a number of awaits left (`StepsLeft`); every step that moves the task makes the first
smaller or leaves it and makes the second smaller. The lemmas take the ways a step does that one by one:
an anomaly is done, the analysis is over, the broadcast advances, the tick is dropped.

`AlertProofs`: `NeverTwice` (`AlertedOnce`) and `FlagIsTrue` (`NotifiedWasDelivered`). Neither is
inductive. `AlertInv` says what makes them so: of an issue that is not registered, or is
being analysed, nothing has been delivered, and while an issue is announced nothing has been
delivered by the notifiers from `pos` on, and all those before it that were ready from the start
have delivered. Steps that touch neither deliveries nor flags are dealt with once
(`QuietStep`). From the same invariant follows `ImplementsAnnouncer` (`AnnouncesOnce`): a
registration without an analysis and the end of an analysis take a turn, a delivery is `Tell`
(nothing has been delivered by the notifier at `pos`), a send that skips or raises and a
cancellation fall silent or stutter, a restart is `Forget`.

`TrackerProofs`: `ImplementsTracker` (`TracksIssues`, assuming `~RecordsParams`), the refinement,
again from `RegistryStep`: a rewrite that leaves the status class alone is a stutter, one that
ends the issue is `Close`, for which `ActiveUnique` is needed (the closed issue was the one that was
tracked), a registration is `Open`, a restart `Forget`.

`SessionProofs`: `GateHolds` (`OnlyPermittedRuns`), `AllAnswered` (`AnsweredBeforeChat`) and `Bounded`
(`RoundsBounded`), from `SessionInv`: the answers so far belong to the first calls in order, an action that is running was permitted, and
the calls of finished rounds fit into them, which is what makes the bound inductive, and
`TypeCorrect` (`TypeOK`). `ImplementsDialogue` (`FollowsDialogue`) follows from the same invariant: the
calls without an answer are a sequence (`AskedSeq`), an answer takes the first one off
(`AskedShrinks`), and the answer to the last one is `AnswerLast`, with or without a turn
left. `StricterPermitsLess` is about `Gate` alone: a lower level, a shorter allow list or a
longer deny list never permits more.

`SurveyProofs`: `TypeCorrect` (`TypeOK`), `OnlyMisreadInvented` (`OnlyMisreadIsFalse`) and
`LastingFound` (`LastingIsFound`), for every cluster, set of checks, order of the walk and number of
changes. The invariant says of every part of the snapshot collected so far that what would be
found in it has been seen or misread, and of every call behind the walk that what was held since
the start, was not overlooked and did not slip by, is in it. `QuietWalkFindsAll` (`QuietWalkExact`)
puts both together: if what was seen is what was held, the findings are the problems, less what was
overlooked and with what was misread.

`CollectionProofs`: `TypeCorrect` (`TypeOK`), for any number of coroutines, hosts and faults. It is
inductive: it says where a coroutine is whenever it is in `SSHManager.run`, and that
what is cached or in use has been opened. The steps fall into those that look for a connection
(`GoesOn`), those that leave `run` or never were in it (`LeavesRun`), a connect, and what happens
to the connections meanwhile (`LinksChange`). `NoneGoesBack` (`CoroutinesAdvance`): every step of a
coroutine, a reconnect included, leaves it fewer awaits.
`LeaksAreBounded` (`LeaksBounded`) bounds the connections that racing coroutines leave open. The bound is
not inductive; `LeaksInv` relates it to the cache. While the cached connection has a socket,
those open and those being opened are together at most one per coroutine and `users - 1` more per
fault; while it has none, those still open are what earlier faults left behind, at most `users - 1`
each.

Every safety invariant, action property and refinement that a passing run checks is stated by one of
these theorems. Only model-checked are the liveness properties
(`PersistentAnomalyTracked`, `TickEnds`, `SessionEnds`, `GatherEnds`, `Reconnects`,
`EventuallyAccurate`): fairness and `ENABLED` are out of this prover's reach. Of three of them the
part that does not need fairness is proved: `NoTickGrows` for `TickEnds`, `NoneGoesBack` for
`GatherEnds`, `QuietWalkFindsAll` for `EventuallyAccurate`; for `SessionEnds`, `Dialogue` limits the
turns and takes a call off with each answer.

## 6. Not modelled

- Severities, descriptions, and the metrics and logs of an issue: they steer nothing.
- The health of the cluster: it is collected, shown by the bots, and examined nowhere; so is the
  threshold `network_errors_per_min`.
- Starting and stopping the bots and `close_all`: what they do ends with the process. How a client
  authenticates (a token makes no request until the first call, a key connects at once).
- Parsing the configuration, texts, formatting, logging, command lines and their output.
- What an action does on the server, and tokens and costs of chats.
- A Telegram bot that is enabled without a token or chat id: it is always ready here.
- `/fix` and `/deny` on ids that do not exist answer and do nothing. Two issues with the same
  random id, and two servers configured under one name.

## 7. Plan

Done: the core with its start, shutdown and restarts, conversations, connections, surveys and
detection, the three refinements and the theorems above. What would come next: `Collection` over `Survey`
(one walk per server over the shared connections), which is too large for TLC as it stands; what
an action does on the server, so that "ok" can be compared with its effect; and `close_all`, if
connections ever outlive a shutdown.
