------------------------------ MODULE Registry ------------------------------
(***************************************************************************)
(* The issue registry (janitor/models/registry.py) and the issues it       *)
(* holds (janitor/models/issue.py).                                        *)
(*                                                                         *)
(* The registry is a dict from issue id to Issue, rewritten to issues.json *)
(* by every add and update.  Its methods never await, so each of them is   *)
(* part of the event-loop step of its caller: the operators below are      *)
(* conjuncts of the actions of Scheduler and Bots.                         *)
(***************************************************************************)
EXTENDS Naturals, Sequences

CONSTANTS
    Ids,           \* issue ids; add() is given one the registry does not hold
    NoId,          \* "no issue"
    Keys,          \* what deduplication compares: (server_name, title) pairs
    Torn,          \* the content of an issues.json whose write was cut short
    SavesMayFail   \* whether the write of issues.json can raise

ASSUME RegistryAssumption ==
    /\ NoId \notin Ids
    /\ SavesMayFail \in BOOLEAN

VARIABLES
    issues,        \* IssueRegistry._issues
    disk,          \* content of issues.json
    synced         \* history: the last _save of this process succeeded

registryVars == <<issues, disk, synced>>

-----------------------------------------------------------------------------
(* Issues *)

IssueStatus == {"open", "awaiting_approval", "approved", "executing",
                "resolved", "denied", "failed"}

Terminal == {"resolved", "denied", "failed"}

\* The fields of Issue that the program's control flow reads.  "suggested"
\* stands for ai_suggested_action and action_type, which are set together.
Issue == [key: Keys,
          status: IssueStatus,
          suggested: BOOLEAN,   \* ai_suggested_action is not None
          params: BOOLEAN,      \* action_params is not None
          notified: BOOLEAN]

NewIssue(k) == [key |-> k, status |-> "open", suggested |-> FALSE,
                params |-> FALSE, notified |-> FALSE]

\* Issue.to_dict: everything but "notified" (and the two text excerpts).
IssueDict == [key: Keys, status: IssueStatus, suggested: BOOLEAN, params: BOOLEAN]

ToDict(r) == [key |-> r.key, status |-> r.status,
              suggested |-> r.suggested, params |-> r.params]

-----------------------------------------------------------------------------
(* Registry operations *)

Registered == DOMAIN issues

IsActive(i) == i \in Registered /\ issues[i].status \notin Terminal

ListActive == {i \in Registered : IsActive(i)}

\* Seeded fault in FindOpen: only issues that are still open count.
FindOpenOnly(k) == {i \in ListActive : issues[i].key = k /\ issues[i].status = "open"}

\* find_open returns the first element of this set, None if it is empty.
FindOpen(k) == {i \in ListActive : issues[i].key = k}

\* The list of dicts that _save writes for a registry.
FileOf(reg) == [i \in DOMAIN reg |-> ToDict(reg[i])]

\* _save swallows every exception: a write that fails before the file is
\* opened leaves the old content, one that fails later a truncated file, and
\* when a step saves twice the first write may have succeeded.
Save(reg) ==
    \/ disk' = FileOf(reg) /\ synced' = TRUE
    \/ SavesMayFail /\ disk' \in {disk, FileOf(reg), Torn} /\ synced' = FALSE

\* add and update: store the issue under its id, then save the registry.
Put(i, r) ==
    LET reg == [j \in Registered \cup {i} |-> IF j = i THEN r ELSE issues[j]]
    IN  issues' = reg /\ Save(reg)

\* __init__: the registry starts empty, whatever issues.json holds.
EmptyRegistry == [i \in {} |-> NoId]

-----------------------------------------------------------------------------

RegistryTypeOK ==
    /\ Registered \subseteq Ids
    /\ issues \in [Registered -> Issue]
    /\ disk # Torn => /\ DOMAIN disk \subseteq Ids
                      /\ disk \in [DOMAIN disk -> IssueDict]
    /\ synced \in BOOLEAN

=============================================================================
