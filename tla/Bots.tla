-------------------------------- MODULE Bots --------------------------------
(***************************************************************************)
(* The commands that change issues: /fix and /deny of the Discord bot      *)
(* (janitor/notifications/discord_bot.py) and of the Telegram bot          *)
(* (janitor/notifications/telegram_bot.py).                                *)
(*                                                                         *)
(* Discord runs every interaction as a task of its own, and its /fix       *)
(* suspends between the check of the issue's status and its update.  The   *)
(* Telegram handlers and both /deny handlers read and update the issue     *)
(* with no await in between: one step each.  A command that only answers   *)
(* ("not found", "not awaiting approval") changes no state and is left out.*)
(***************************************************************************)
EXTENDS Scheduler

CONSTANTS
    Handlers,      \* concurrent invocations of the Discord /fix handler
    MaxCommands    \* bound: commands the operator issues in a behaviour

ASSUME BotsAssumption == MaxCommands \in Nat

VARIABLES
    fix,           \* the suspended Discord /fix handlers
    dispatched,    \* history: issues whose action a handler has launched
    commands       \* history: commands issued so far

botVars == <<fix, dispatched, commands>>

FixStages == {"idle", "deferring", "dispatching"}

Idle == [stage |-> "idle", id |-> NoId]

Command == commands < MaxCommands /\ commands' = commands + 1

SetStatus(i, s) == Put(i, [issues[i] EXCEPT !.status = s])

-----------------------------------------------------------------------------
(* Discord *)

\* /fix up to interaction.response.defer(): the issue is known and awaiting.
DiscordFix(h, i) ==
    /\ "discord" \in Enabled
    /\ fix[h].stage = "idle"
    /\ i \in Registered /\ issues[i].status = "awaiting_approval"
    /\ Command
    /\ fix' = [fix EXCEPT ![h] = [stage |-> "deferring", id |-> i]]
    /\ UNCHANGED <<dispatched, registryVars>>

\* defer() raises (the interaction has expired): nothing has been changed.
DeferRaises(h) ==
    /\ fix[h].stage = "deferring"
    /\ fix' = [fix EXCEPT ![h] = Idle]
    /\ UNCHANGED <<dispatched, commands, registryVars>>

\* After the defer, no action to run: the issue is marked as resolved,
\* whatever its status has become.
FixMarksResolved(h) ==
    LET i == fix[h].id
    IN  /\ fix[h].stage = "deferring"
        /\ ~(issues[i].suggested /\ issues[i].params)
        /\ SetStatus(i, "resolved")
        /\ fix' = [fix EXCEPT ![h] = Idle]
        /\ UNCHANGED <<dispatched, commands>>

\* After the defer, an action to run: the _dispatch of the executor of the
\* scheduler's debugger is awaited.  Without a debugger the handler ends and
\* leaves the issue executing.
FixDispatches(h) ==
    LET i == fix[h].id
    IN  /\ fix[h].stage = "deferring"
        /\ issues[i].suggested /\ issues[i].params
        /\ SetStatus(i, "executing")
        /\ IF debugger
           THEN /\ fix' = [fix EXCEPT ![h].stage = "dispatching"]
                /\ dispatched' = dispatched \cup {i}
           ELSE /\ fix' = [fix EXCEPT ![h] = Idle]
                /\ UNCHANGED dispatched
        /\ UNCHANGED commands

\* Seeded fault in DispatchReturns: the outcome is not saved.
DispatchUnsaved(h) ==
    /\ fix[h].stage = "dispatching"
    /\ \E s \in {"resolved", "failed"} : issues' = [issues EXCEPT ![fix[h].id].status = s]
    /\ fix' = [fix EXCEPT ![h] = Idle]
    /\ UNCHANGED <<dispatched, commands, disk, synced>>

\* _dispatch returns a result, never raises.
DispatchReturns(h) ==
    /\ fix[h].stage = "dispatching"
    /\ \E s \in {"resolved", "failed"} : SetStatus(fix[h].id, s)
    /\ fix' = [fix EXCEPT ![h] = Idle]
    /\ UNCHANGED <<dispatched, commands>>

\* /deny, whatever the status of the issue.
DiscordDeny(i) ==
    /\ "discord" \in Enabled
    /\ i \in Registered
    /\ Command
    /\ SetStatus(i, "denied")
    /\ UNCHANGED <<fix, dispatched>>

-----------------------------------------------------------------------------
(* Telegram *)

\* Seeded fault in TelegramFix: the status of the issue is not looked at.
TelegramFixAny(i) ==
    /\ "telegram" \in Enabled
    /\ i \in Registered
    /\ Command
    /\ SetStatus(i, "resolved")
    /\ UNCHANGED <<fix, dispatched>>

TelegramFix(i) ==
    /\ "telegram" \in Enabled
    /\ i \in Registered /\ issues[i].status = "awaiting_approval"
    /\ Command
    /\ SetStatus(i, "resolved")
    /\ UNCHANGED <<fix, dispatched>>

\* Seeded fault in TelegramDeny: the change is not saved.
TelegramDenyUnsaved(i) ==
    /\ "telegram" \in Enabled
    /\ i \in Registered
    /\ Command
    /\ issues' = [issues EXCEPT ![i].status = "denied"]
    /\ UNCHANGED <<fix, dispatched, disk, synced>>

TelegramDeny(i) ==
    /\ "telegram" \in Enabled
    /\ i \in Registered
    /\ Command
    /\ SetStatus(i, "denied")
    /\ UNCHANGED <<fix, dispatched>>

-----------------------------------------------------------------------------

\* The steps of a Discord handler that has been invoked.
HandlerStep(h) ==
    \/ DeferRaises(h) \/ FixMarksResolved(h)
    \/ FixDispatches(h) \/ DispatchReturns(h)

OperatorStep ==
    \/ \E h \in Handlers, i \in Ids : DiscordFix(h, i)
    \/ \E i \in Ids : DiscordDeny(i) \/ TelegramFix(i) \/ TelegramDeny(i)

\* A suspended handler holds a registered issue.
BotsTypeOK ==
    /\ fix \in [Handlers -> [stage: FixStages, id: Ids \cup {NoId}]]
    /\ \A h \in Handlers : fix[h].stage # "idle" => fix[h].id \in Registered
    /\ dispatched \subseteq Registered
    /\ commands \in Nat

=============================================================================
