----------------------------- MODULE MCSession -----------------------------
(***************************************************************************)
(* Small instances of Session: which configurations and tools are studied. *)
(***************************************************************************)
EXTENDS Session

\* One read-only tool stands for the three, which the gate treats alike.
OneOfEachKind == {"get_logs"} \cup ActionTools \cup {"unknown"}

\* Every level with every pair of lists over the actions.
AllConfigs == [level: Levels, allow: SUBSET ActionTools, deny: SUBSET ActionTools]

=============================================================================
