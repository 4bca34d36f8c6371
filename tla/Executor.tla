------------------------------ MODULE Executor ------------------------------
(***************************************************************************)
(* The permission gate (janitor/actions/executor.py) between the AI's tool *)
(* calls and the servers: what it decides for an action under a            *)
(* configuration, and what a dispatched action may do and answer.          *)
(***************************************************************************)
EXTENDS Naturals, Sequences

ReadOnlyTools == {"get_node_metrics", "get_vm_list", "get_logs"}

ActionTools == {"restart_vm", "restart_service", "run_ssh_command"}

Levels == {"read_only", "suggest", "semi_auto", "full_auto"}

\* PermissionsConfig.  The two lists name any strings; those of interest are
\* the tools', and "unknown" for every other name the AI may come up with.
Permissions == [level: Levels,
                allow: SUBSET (ActionTools \cup {"unknown"}),
                deny: SUBSET (ActionTools \cup {"unknown"})]

\* Seeded fault in Gate: the deny list is looked at last.
GateDenyLast(perms, a) ==
    CASE perms.level = "read_only" -> "denied"
      [] perms.level = "suggest" -> "pending"
      [] perms.level = "semi_auto" -> IF a \in perms.allow THEN "dispatch" ELSE "pending"
      [] perms.level = "full_auto" -> IF a \in perms.deny THEN "denied" ELSE "dispatch"

\* ActionExecutor.execute up to _dispatch.
Gate(perms, a) ==
    CASE a \in perms.deny -> "denied"
      [] a \notin perms.deny /\ perms.level = "read_only" -> "denied"
      [] a \notin perms.deny /\ perms.level = "suggest" -> "pending"
      [] a \notin perms.deny /\ perms.level = "semi_auto" ->
            IF a \in perms.allow THEN "dispatch" ELSE "pending"
      [] a \notin perms.deny /\ perms.level = "full_auto" -> "dispatch"

\* The status of what _dispatch may return for an action: every exception
\* becomes "failed", and so does a name that is no action.  "ok" does not mean
\* that the action succeeded: restart_service answers it whatever the exit
\* code of its command was.
DispatchResults(a) == IF a \in ActionTools THEN {"ok", "failed"} ELSE {"failed"}

=============================================================================
