------------------------------ MODULE Dialogue ------------------------------
(***************************************************************************)
(* What the API of an AI provider asks of the program that talks to it,    *)
(* and the program of itself: the AI and the program take turns, the AI's  *)
(* tool calls are answered one by one and in order before its next turn,   *)
(* and the AI has a limited number of turns.                               *)
(***************************************************************************)
EXTENDS Naturals, Sequences

CONSTANTS Tools, MaxRounds

VARIABLES
    turn,          \* whose turn it is
    asked,         \* the tool calls still to be answered
    left           \* the turns of the AI that are left, this one included

dialogueVars == <<turn, asked, left>>

DialogueInit == turn = "ai" /\ asked = <<>> /\ left = MaxRounds

Ask ==
    /\ turn = "ai"
    /\ turn' = "agent"
    /\ asked' \in Seq(Tools) \ {<<>>}
    /\ UNCHANGED left

\* The first of several calls is answered.
AnswerOne ==
    /\ turn = "agent"
    /\ Len(asked) > 1
    /\ asked' = Tail(asked)
    /\ UNCHANGED <<turn, left>>

\* The last one is answered: the AI takes another turn, if it has one left.
AnswerLast ==
    /\ turn = "agent"
    /\ Len(asked) = 1
    /\ asked' = <<>>
    /\ IF left > 1
       THEN turn' = "ai" /\ left' = left - 1
       ELSE turn' = "over" /\ UNCHANGED left

\* The AI has concluded, or an exception ends the conversation.
Leave ==
    /\ turn # "over"
    /\ turn' = "over"
    /\ UNCHANGED <<asked, left>>

DialogueNext == Ask \/ AnswerOne \/ AnswerLast \/ Leave

DialogueSpec == DialogueInit /\ [][DialogueNext]_dialogueVars

=============================================================================
