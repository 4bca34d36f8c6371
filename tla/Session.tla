------------------------------ MODULE Session ------------------------------
(***************************************************************************)
(* One conversation with the AI (janitor/ai/debugger.py): the analysis of  *)
(* an issue, or a /debug session.  Rounds of a chat and the tool calls it  *)
(* asks for, which go through the permission gate of the executor.         *)
(* Conversations share no state, so one is enough.                         *)
(***************************************************************************)
EXTENDS Executor

CONSTANTS
    Tools,         \* the tool names the AI may answer with
    MaxRounds,     \* MAX_TOOL_ROUNDS
    MaxCalls,      \* bound: tool calls in one answer
    Configs        \* the configurations under study

ASSUME SessionAssumption ==
    /\ Tools \subseteq ReadOnlyTools \cup ActionTools \cup {"unknown"}
    /\ MaxRounds \in Nat \ {0}
    /\ MaxCalls \in Nat \ {0}
    /\ Configs \subseteq Permissions

VARIABLES
    perms,         \* the configured permissions
    dialect,       \* the API family of the configured provider
    kind,          \* analyze_issue or interactive_session
    stage,         \* where the coroutine is
    rounds,        \* chats begun
    calls,         \* tool calls the AI has asked for, in all rounds
    answers,       \* results appended to the messages, in all rounds
    launched,      \* history: actions handed to _dispatch
    suggested,     \* Issue.ai_suggested_action
    outcome        \* how the conversation ended

vars == <<perms, dialect, kind, stage, rounds, calls, answers, launched,
          suggested, outcome>>

config == <<perms, dialect, kind>>

Stages == {"chatting", "calling", "acting", "over"}
Outcomes == {"none", "concluded", "exhausted", "raised", "refused"}
Answer == [tool: Tools, status: {"text", "ok", "pending", "denied", "failed"}]

\* The call that is to be executed next.
Call == calls[Len(answers) + 1]

Init ==
    /\ perms \in Configs
    /\ dialect \in {"anthropic", "openai"}
    /\ kind \in {"analysis", "interactive"}
    /\ stage = "chatting" /\ rounds = 1
    /\ calls = <<>> /\ answers = <<>> /\ launched = {}
    /\ suggested = "none" /\ outcome = "none"

End(o) == stage' = "over" /\ outcome' = o

-----------------------------------------------------------------------------
(* Chats *)

\* The provider answers with tool calls.
ChatRequestsTools ==
    /\ stage = "chatting"
    /\ \E n \in 1..MaxCalls : \E new \in [1..n -> Tools] : calls' = calls \o new
    /\ stage' = "calling"
    /\ UNCHANGED <<config, rounds, answers, launched, suggested, outcome>>

\* It answers with text only.  For an analysis, _extract_suggested_action
\* takes one of two actions, or none, from the wording of the text.
ChatConcludes ==
    /\ stage = "chatting"
    /\ \/ kind = "analysis" /\ suggested' \in {"none", "restart_vm", "restart_service"}
       \/ kind = "interactive" /\ UNCHANGED suggested
    /\ End("concluded")
    /\ UNCHANGED <<config, rounds, calls, answers, launched>>

\* The request fails, or the answer cannot be decoded.
ChatRaises ==
    /\ stage = "chatting"
    /\ End("raised")
    /\ UNCHANGED <<config, rounds, calls, answers, launched, suggested>>

\* The messages of earlier rounds are in Anthropic's format.  The OpenAI
\* provider passes them on as they are, and the API behind it may refuse
\* them: OpenAI's does, a more lenient server may not.
ChatRefused ==
    /\ stage = "chatting"
    /\ dialect = "openai" /\ calls # <<>>
    /\ End("refused")
    /\ UNCHANGED <<config, rounds, calls, answers, launched, suggested>>

-----------------------------------------------------------------------------
(* Tool calls *)

\* Seeded fault in Answered: one round more than MAX_TOOL_ROUNDS.
AnsweredOneMore(r) ==
    /\ answers' = Append(answers, r)
    /\ IF Len(answers) + 1 < Len(calls)
       THEN stage' = "calling" /\ UNCHANGED <<rounds, outcome>>
       ELSE IF rounds <= MaxRounds
            THEN stage' = "chatting" /\ rounds' = rounds + 1 /\ UNCHANGED outcome
            ELSE End("exhausted") /\ UNCHANGED rounds

\* Seeded fault in Answered: the next chat begins after the first result.
AnsweredTooSoon(r) ==
    /\ answers' = Append(answers, r)
    /\ IF rounds < MaxRounds
       THEN stage' = "chatting" /\ rounds' = rounds + 1 /\ UNCHANGED outcome
       ELSE End("exhausted") /\ UNCHANGED rounds

\* The result r of a call is appended to the messages; after the last call
\* of the round the next chat begins, unless all rounds are used up.
Answered(r) ==
    /\ answers' = Append(answers, r)
    /\ IF Len(answers) + 1 < Len(calls)
       THEN stage' = "calling" /\ UNCHANGED <<rounds, outcome>>
       ELSE IF rounds < MaxRounds
            THEN stage' = "chatting" /\ rounds' = rounds + 1 /\ UNCHANGED outcome
            ELSE End("exhausted") /\ UNCHANGED rounds

Reply(t, s) == [tool |-> t, status |-> s]

ReadOnlyReturns ==
    /\ stage = "calling" /\ Call \in ReadOnlyTools
    /\ Answered(Reply(Call, "text"))
    /\ UNCHANGED <<config, calls, launched, suggested>>

\* execute_read_only lets an exception of Proxmox or SSH out: it ends the
\* conversation.
ReadOnlyRaises ==
    /\ stage = "calling" /\ Call \in ReadOnlyTools
    /\ End("raised")
    /\ UNCHANGED <<config, rounds, calls, answers, launched, suggested>>

\* Seeded fault in GateRefuses: a pending action waits for its approval.
GateWaits ==
    /\ stage = "calling" /\ Call \notin ReadOnlyTools
    /\ \/ /\ Gate(perms, Call) = "denied"
          /\ Answered(Reply(Call, "denied"))
       \/ /\ Gate(perms, Call) = "pending"
          /\ stage' = "waiting"
          /\ UNCHANGED <<answers, rounds, outcome>>
    /\ UNCHANGED <<config, calls, launched, suggested>>

\* The gate denies the action or calls it pending: nothing is recorded for
\* it but the answer to the AI.
GateRefuses ==
    /\ stage = "calling" /\ Call \notin ReadOnlyTools
    /\ Gate(perms, Call) \in {"denied", "pending"}
    /\ Answered(Reply(Call, Gate(perms, Call)))
    /\ UNCHANGED <<config, calls, launched, suggested>>

Dispatch ==
    /\ stage = "calling" /\ Call \notin ReadOnlyTools
    /\ Gate(perms, Call) = "dispatch"
    /\ stage' = "acting"
    /\ launched' = launched \cup {Call}
    /\ UNCHANGED <<config, rounds, calls, answers, suggested, outcome>>

DispatchReturns ==
    /\ stage = "acting"
    /\ \E r \in DispatchResults(Call) : Answered(Reply(Call, r))
    /\ UNCHANGED <<config, calls, launched, suggested>>

-----------------------------------------------------------------------------

Next ==
    \/ ChatRequestsTools \/ ChatConcludes \/ ChatRaises \/ ChatRefused
    \/ ReadOnlyReturns \/ ReadOnlyRaises
    \/ GateRefuses \/ Dispatch \/ DispatchReturns

Spec == Init /\ [][Next]_vars

\* Every await of the conversation ends: a chat, a tool, a dispatched action.
\* (For tools that use SSH this is an assumption, see the README.)
FairSpec == Spec /\ WF_vars(Next)

-----------------------------------------------------------------------------
(* Properties *)

TypeOK ==
    /\ perms \in Configs
    /\ dialect \in {"anthropic", "openai"}
    /\ kind \in {"analysis", "interactive"}
    /\ stage \in Stages
    /\ rounds \in 1..MaxRounds
    /\ calls \in Seq(Tools)
    /\ answers \in Seq(Answer)
    /\ Len(answers) <= Len(calls)
    /\ stage \in {"calling", "acting"} => Len(answers) < Len(calls)
    /\ launched \subseteq Tools
    /\ suggested \in {"none", "restart_vm", "restart_service"}
    /\ outcome \in Outcomes

\* The provider's contract: when a chat begins, every tool call of the
\* rounds before it has been answered, in the order of the calls, whatever
\* the gate decided and however the dispatched actions ended.
AnsweredBeforeChat ==
    stage = "chatting" =>
        /\ Len(answers) = Len(calls)
        /\ \A n \in 1..Len(calls) : answers[n].tool = calls[n]

\* The conversation as the provider's API sees it.
Contract == INSTANCE Dialogue WITH
    turn <- CASE stage = "chatting" -> "ai"
              [] stage \in {"calling", "acting"} -> "agent"
              [] stage = "over" -> "over",
    asked <- [n \in 1..(Len(calls) - Len(answers)) |-> calls[Len(answers) + n]],
    left <- MaxRounds - rounds + 1

\* However tools and actions end, the conversation follows the protocol of
\* Dialogue: turns alternate, calls are answered in order, rounds run out.
FollowsDialogue == Contract!DialogueSpec

\* README's table of permission levels, with the deny list "always blocked
\* regardless of level": what the AI may run on its own.
MayRun(p, a) ==
    /\ a \notin p.deny
    /\ \/ p.level = "full_auto"
       \/ p.level = "semi_auto" /\ a \in p.allow

\* However a conversation goes on, and under every configuration, it launches
\* only actions that the README's table lets the AI run on its own, and the
\* AI is never told that anything else succeeded.
OnlyPermittedRuns ==
    /\ \A a \in launched : a \notin ReadOnlyTools /\ MayRun(perms, a)
    /\ \A n \in 1..Len(answers) : answers[n].status = "ok" => answers[n].tool \in launched

\* MAX_TOOL_ROUNDS bounds the chats of a conversation, each of which answers
\* at most MaxCalls calls, and only a conversation that has used all of them
\* ends without an answer or an error.
RoundsBounded ==
    /\ rounds <= MaxRounds
    /\ Len(calls) <= rounds * MaxCalls
    /\ outcome = "exhausted" => rounds = MaxRounds /\ suggested = "none"

\* Every conversation ends.
SessionEnds == <>(stage = "over")

=============================================================================
