--------------------------- MODULE SessionProofs ---------------------------
(***************************************************************************)
(* Theorems about Session, for every set of tools, every number of rounds  *)
(* and calls and every configuration.                                      *)
(***************************************************************************)
EXTENDS Session, SequenceTheorems, TLAPS

\* Sequences of calls grow at their end.
LEMMA ConcatCalls ==
    ASSUME NEW s \in Seq(Tools), NEW n \in Nat, NEW new \in [1..n -> Tools]
    PROVE  /\ s \o new \in Seq(Tools)
           /\ Len(s \o new) = Len(s) + n
           /\ \A m \in 1..Len(s) : (s \o new)[m] = s[m]
<1>1. new \in Seq(Tools) /\ Len(new) = n
  OBVIOUS
<1> QED
  BY <1>1

\* Every reply is an answer to its call.
LEMMA ReplyAnswer ==
    ASSUME NEW a \in Tools, NEW s \in {"text", "denied", "pending", "ok", "failed"}
    PROVE  Reply(a, s) \in Answer /\ Reply(a, s).tool = a /\ Reply(a, s).status = s
BY DEF Reply, Answer

\* The parts of the invariant: answers follow the calls, an action that is
\* running has been permitted, and rounds and calls stay within their limits.
AnswersFollowCalls ==
    /\ stage = "chatting" => Len(answers) = Len(calls)
    /\ \A n \in 1..Len(answers) : answers[n].tool = calls[n]

ActingIsPermitted == stage = "acting" => Call \in launched

CallsWithinRounds ==
    /\ Len(calls) <= rounds * MaxCalls
    /\ stage = "chatting" => Len(calls) <= (rounds - 1) * MaxCalls

EndedProperly ==
    /\ outcome = "exhausted" => rounds = MaxRounds
    /\ stage # "over" => outcome = "none" /\ suggested = "none"
    /\ suggested # "none" => outcome = "concluded"

SessionInv ==
    /\ TypeOK /\ AnswersFollowCalls /\ ActingIsPermitted
    /\ OnlyPermittedRuns /\ CallsWithinRounds /\ EndedProperly

\* What appending the answer r to the current call does.
LEMMA AnsweredEffect ==
    ASSUME TypeOK, stage \in {"calling", "acting"}, NEW r \in Answer, Answered(r),
           UNCHANGED <<config, calls, launched, suggested>>
    PROVE  /\ TypeOK'
           /\ answers' \in Seq(Answer) /\ Len(answers') = Len(answers) + 1
           /\ \A n \in 1..Len(answers) : answers'[n] = answers[n]
           /\ answers'[Len(answers) + 1] = r
           /\ stage' \in {"calling", "chatting", "over"}
           /\ stage' = "chatting" => Len(answers') = Len(calls) /\ rounds' = rounds + 1
           /\ stage' # "chatting" => rounds' = rounds
           /\ outcome' # outcome => outcome' = "exhausted" /\ rounds = MaxRounds
           /\ stage' # "over" => outcome' = outcome
<1>1. /\ answers' \in Seq(Answer) /\ Len(answers') = Len(answers) + 1
      /\ \A n \in 1..Len(answers) : answers'[n] = answers[n]
      /\ answers'[Len(answers) + 1] = r
  BY DEF Answered, TypeOK
<1>2. /\ Len(answers) \in Nat /\ Len(calls) \in Nat /\ Len(answers) < Len(calls)
      /\ rounds \in 1..MaxRounds /\ MaxRounds \in Nat
  BY SessionAssumption DEF TypeOK, SessionAssumption
<1>3. CASE Len(answers) + 1 < Len(calls)
  <2>1. stage' = "calling" /\ rounds' = rounds /\ outcome' = outcome
    BY <1>3 DEF Answered
  <2> QED
    BY <1>1, <1>2, <1>3, <2>1 DEF TypeOK, Stages, config
<1>4. CASE ~(Len(answers) + 1 < Len(calls)) /\ rounds < MaxRounds
  <2>1. stage' = "chatting" /\ rounds' = rounds + 1 /\ outcome' = outcome
    BY <1>4 DEF Answered
  <2> QED
    BY <1>1, <1>2, <1>4, <2>1 DEF TypeOK, Stages, config
<1>5. CASE ~(Len(answers) + 1 < Len(calls)) /\ ~(rounds < MaxRounds)
  <2>1. stage' = "over" /\ outcome' = "exhausted" /\ rounds' = rounds /\ rounds = MaxRounds
    BY <1>2, <1>5 DEF Answered, End
  <2> QED
    BY <1>1, <1>2, <1>5, <2>1 DEF TypeOK, Stages, Outcomes, config
<1> QED
  BY <1>3, <1>4, <1>5

\* The arithmetic of one more round.
LEMMA OneMoreRound ==
    ASSUME NEW r \in Nat, NEW c \in Nat
    PROVE  (r + 1 - 1) * c = r * c /\ (r - 1) * c + c = r * c /\ (r + 1) * c = r * c + c
<1>1. r * c \in Nat /\ (r - 1) * c = r * c - c /\ (r + 1) * c = r * c + c
  OBVIOUS
<1> QED
  BY <1>1

\* Appending an answer keeps the invariant if the answer is honest about
\* what has been launched.
LEMMA AnsweredInv ==
    ASSUME SessionInv, stage \in {"calling", "acting"}, NEW r \in Answer, Answered(r),
           r.tool = Call, r.status = "ok" => r.tool \in launched,
           UNCHANGED <<config, calls, launched, suggested>>
    PROVE  SessionInv'
<1>1. /\ TypeOK'
      /\ answers' \in Seq(Answer) /\ Len(answers') = Len(answers) + 1
      /\ \A n \in 1..Len(answers) : answers'[n] = answers[n]
      /\ answers'[Len(answers) + 1] = r
      /\ stage' \in {"calling", "chatting", "over"}
      /\ stage' = "chatting" => Len(answers') = Len(calls) /\ rounds' = rounds + 1
      /\ stage' # "chatting" => rounds' = rounds
      /\ outcome' # outcome => outcome' = "exhausted" /\ rounds = MaxRounds
      /\ stage' # "over" => outcome' = outcome
  BY AnsweredEffect DEF SessionInv
<1>2. Len(answers) \in Nat /\ Len(calls) \in Nat /\ rounds \in Nat /\ MaxCalls \in Nat
  BY SessionAssumption DEF SessionInv, TypeOK, SessionAssumption
<1>3. AnswersFollowCalls'
  BY <1>1, <1>2 DEF SessionInv, AnswersFollowCalls, Call
<1>4. OnlyPermittedRuns'
  BY <1>1, <1>2 DEF SessionInv, OnlyPermittedRuns, MayRun, config
<1>5. CallsWithinRounds'
  BY <1>1, <1>2, OneMoreRound DEF SessionInv, CallsWithinRounds
<1>6. EndedProperly'
  BY <1>1 DEF SessionInv, EndedProperly, config
<1> QED
  BY <1>1, <1>3, <1>4, <1>5, <1>6 DEF SessionInv, ActingIsPermitted

LEMMA SessionInvInit == Init => SessionInv
<1> SUFFICES ASSUME Init PROVE SessionInv
  OBVIOUS
<1>1. MaxRounds \in Nat \ {0} /\ MaxCalls \in Nat
  BY SessionAssumption DEF SessionAssumption
<1>2. TypeOK
  BY <1>1 DEF Init, TypeOK, Stages, Outcomes
<1>3. AnswersFollowCalls /\ ActingIsPermitted /\ OnlyPermittedRuns /\ EndedProperly
  BY DEF Init, AnswersFollowCalls, ActingIsPermitted, OnlyPermittedRuns, EndedProperly
<1>4. CallsWithinRounds
  BY <1>1 DEF Init, CallsWithinRounds
<1> QED
  BY <1>2, <1>3, <1>4 DEF SessionInv

LEMMA SessionInvStep ==
    ASSUME SessionInv, [Next]_vars
    PROVE  SessionInv'
<1>1. /\ Len(answers) \in Nat /\ Len(calls) \in Nat /\ rounds \in Nat /\ MaxCalls \in Nat
      /\ stage \in {"calling", "acting"} => Call \in Tools
  BY SessionAssumption DEF SessionInv, TypeOK, SessionAssumption, Call
<1>2. CASE ChatRequestsTools
  <2>1. PICK n \in 1..MaxCalls : \E new \in [1..n -> Tools] : calls' = calls \o new
    BY <1>2 DEF ChatRequestsTools
  <2>2. /\ calls' \in Seq(Tools) /\ Len(calls') = Len(calls) + n
        /\ \A m \in 1..Len(calls) : calls'[m] = calls[m]
    <3>1. PICK new \in [1..n -> Tools] : calls' = calls \o new
      BY <2>1
    <3>2. n \in Nat /\ calls \in Seq(Tools)
      BY <1>1 DEF SessionInv, TypeOK
    <3> QED
      BY <3>1, <3>2, ConcatCalls
  <2>3. stage = "chatting" /\ stage' = "calling"
        /\ UNCHANGED <<config, rounds, answers, launched, suggested, outcome>>
    BY <1>2 DEF ChatRequestsTools
  <2>4. Len(answers) = Len(calls)
    BY <2>3 DEF SessionInv, AnswersFollowCalls
  <2>5. TypeOK'
    BY <1>1, <2>2, <2>3, <2>4 DEF SessionInv, TypeOK, Stages, config
  <2>6. AnswersFollowCalls' /\ ActingIsPermitted'
    BY <1>1, <2>2, <2>3, <2>4 DEF SessionInv, AnswersFollowCalls, ActingIsPermitted
  <2>7. OnlyPermittedRuns' /\ EndedProperly'
    BY <2>3 DEF SessionInv, OnlyPermittedRuns, EndedProperly, MayRun, config
  <2>8. CallsWithinRounds'
    BY <1>1, <2>1, <2>2, <2>3, OneMoreRound DEF SessionInv, CallsWithinRounds
  <2> QED
    BY <2>5, <2>6, <2>7, <2>8 DEF SessionInv
<1>3. CASE ChatConcludes \/ ChatRaises \/ ChatRefused \/ ReadOnlyRaises
  <2>1. /\ stage \in {"chatting", "calling"} /\ stage' = "over"
        /\ outcome' \in {"concluded", "raised", "refused"}
        /\ UNCHANGED <<config, rounds, calls, answers, launched>>
        /\ suggested' # suggested => kind = "analysis" /\ outcome' = "concluded"
        /\ suggested' \in {"none", "restart_vm", "restart_service", suggested}
    BY <1>3 DEF ChatConcludes, ChatRaises, ChatRefused, ReadOnlyRaises, End
  <2>2. TypeOK'
    BY <2>1 DEF SessionInv, TypeOK, Stages, Outcomes, config
  <2>3. AnswersFollowCalls' /\ ActingIsPermitted' /\ OnlyPermittedRuns' /\ CallsWithinRounds'
    BY <2>1 DEF SessionInv, AnswersFollowCalls, ActingIsPermitted, OnlyPermittedRuns,
                CallsWithinRounds, MayRun, config
  <2>4. EndedProperly'
    BY <2>1 DEF SessionInv, EndedProperly, config
  <2> QED
    BY <2>2, <2>3, <2>4 DEF SessionInv
<1>4. CASE ReadOnlyReturns
  BY <1>1, <1>4, ReplyAnswer, AnsweredInv DEF ReadOnlyReturns
<1>5. CASE GateRefuses
  BY <1>1, <1>5, ReplyAnswer, AnsweredInv DEF GateRefuses
<1>6. CASE Dispatch
  <2>1. /\ stage = "calling" /\ stage' = "acting" /\ launched' = launched \cup {Call}
        /\ Call \notin ReadOnlyTools /\ Gate(perms, Call) = "dispatch"
        /\ UNCHANGED <<config, rounds, calls, answers, suggested, outcome>>
    BY <1>6 DEF Dispatch
  <2>2. MayRun(perms, Call)
    <3>1. perms.level \in Levels
      BY SessionAssumption DEF SessionInv, TypeOK, SessionAssumption, Permissions
    <3> QED
      BY <2>1, <3>1 DEF MayRun, Gate, Levels
  <2>3. TypeOK'
    BY <1>1, <2>1 DEF SessionInv, TypeOK, Stages, config
  <2>4. OnlyPermittedRuns' /\ ActingIsPermitted'
    BY <2>1, <2>2 DEF SessionInv, OnlyPermittedRuns, ActingIsPermitted, MayRun, config, Call
  <2>5. AnswersFollowCalls' /\ CallsWithinRounds' /\ EndedProperly'
    BY <2>1 DEF SessionInv, AnswersFollowCalls, CallsWithinRounds, EndedProperly, config
  <2> QED
    BY <2>3, <2>4, <2>5 DEF SessionInv
<1>7. CASE DispatchReturns
  <2>1. PICK r \in DispatchResults(Call) : Answered(Reply(Call, r))
    BY <1>7 DEF DispatchReturns
  <2>2. r \in {"ok", "failed"}
    BY <2>1 DEF DispatchResults
  <2>3. stage = "acting" /\ Call \in launched
    BY <1>7 DEF DispatchReturns, SessionInv, ActingIsPermitted
  <2> QED
    BY <1>1, <1>7, <2>1, <2>2, <2>3, ReplyAnswer, AnsweredInv DEF DispatchReturns
<1>8. CASE UNCHANGED vars
  BY <1>8 DEF vars, config, SessionInv, TypeOK, AnswersFollowCalls, ActingIsPermitted, Call,
              OnlyPermittedRuns, MayRun, CallsWithinRounds, EndedProperly
<1> QED
  BY <1>2, <1>3, <1>4, <1>5, <1>6, <1>7, <1>8 DEF Next

LEMMA SessionInvAlways == Spec => []SessionInv
BY SessionInvInit, SessionInvStep, PTL DEF Spec

-----------------------------------------------------------------------------
(* The theorems *)

\* A conversation is always in one of its stages, with no more answers than
\* calls, and an unanswered call wherever one is being executed.
THEOREM TypeCorrect == Spec => []TypeOK
<1>1. SessionInv => TypeOK
  BY DEF SessionInv
<1> QED
  BY <1>1, SessionInvAlways, PTL

\* Whatever the AI asks for and whatever the configuration, only actions
\* that the README's table permits are launched, and nothing else is
\* reported to the AI as done.
THEOREM GateHolds == Spec => []OnlyPermittedRuns
<1>1. SessionInv => OnlyPermittedRuns
  BY DEF SessionInv
<1> QED
  BY <1>1, SessionInvAlways, PTL

\* No chat begins with an unanswered tool call.
THEOREM AllAnswered == Spec => []AnsweredBeforeChat
<1>1. SessionInv => AnsweredBeforeChat
  BY DEF SessionInv, AnswersFollowCalls, AnsweredBeforeChat
<1> QED
  BY <1>1, SessionInvAlways, PTL

\* A conversation makes at most MaxRounds chats.
THEOREM Bounded == Spec => []RoundsBounded
<1>1. SessionInv => RoundsBounded
  BY DEF SessionInv, TypeOK, CallsWithinRounds, EndedProperly, RoundsBounded
<1> QED
  BY <1>1, SessionInvAlways, PTL

-----------------------------------------------------------------------------
(* Conversations implement Dialogue *)

\* The refinement mapping of Contract.
Turn ==
    CASE stage = "chatting" -> "ai"
      [] stage \in {"calling", "acting"} -> "agent"
      [] stage = "over" -> "over"

Asked == [n \in 1..(Len(calls) - Len(answers)) |-> calls[Len(answers) + n]]

Left == MaxRounds - rounds + 1

\* The unanswered calls are a sequence of tools, as long as answers are
\* missing.
LEMMA AskedSeq ==
    ASSUME NEW c \in Seq(Tools), NEW a \in Nat, a <= Len(c)
    PROVE  /\ [n \in 1..(Len(c) - a) |-> c[a + n]] \in Seq(Tools)
           /\ Len([n \in 1..(Len(c) - a) |-> c[a + n]]) = Len(c) - a
<1> DEFINE s == [n \in 1..(Len(c) - a) |-> c[a + n]]
<1>1. Len(c) \in Nat /\ Len(c) - a \in Nat
  OBVIOUS
<1>2. \A n \in 1..(Len(c) - a) : c[a + n] \in Tools
  BY <1>1
<1>3. s \in [1..(Len(c) - a) -> Tools]
  BY <1>2
<1>4. s \in Seq(Tools)
  BY <1>1, <1>3
<1>5. DOMAIN s = 1..(Len(c) - a) /\ DOMAIN s = 1..Len(s) /\ Len(s) \in Nat
  BY <1>4
<1>6. Len(s) = Len(c) - a
  BY <1>1, <1>5
<1> QED
  BY <1>4, <1>6

LEMMA AskedType ==
    ASSUME TypeOK
    PROVE  Asked \in Seq(Tools) /\ Len(Asked) = Len(calls) - Len(answers)
BY AskedSeq DEF TypeOK, Asked

\* Answering the next call takes it off what is asked.
LEMMA AskedShrinks ==
    ASSUME TypeOK, Len(answers') = Len(answers) + 1, Len(answers) < Len(calls),
           UNCHANGED calls
    PROVE  Asked' = Tail(Asked)
<1> DEFINE k == Len(calls) - Len(answers) - 1
<1>1. /\ Len(answers) \in Nat /\ Len(calls) \in Nat /\ calls \in Seq(Tools)
      /\ Asked \in Seq(Tools) /\ Len(Asked) = k + 1 /\ k \in Nat
  BY AskedType DEF TypeOK
<1>2. Asked' = [n \in 1..(Len(calls) - (Len(answers) + 1)) |-> calls[(Len(answers) + 1) + n]]
  BY DEF Asked
<1>3. Asked' \in Seq(Tools) /\ Len(Asked') = k
  BY <1>1, <1>2, AskedSeq
<1>4. Asked # <<>>
  BY <1>1
<1>5. /\ Tail(Asked) \in Seq(Tools) /\ Len(Tail(Asked)) = k
      /\ \A n \in 1..k : Tail(Asked)[n] = Asked[n + 1]
  <2>1. /\ Tail(Asked) \in Seq(Tools) /\ Len(Tail(Asked)) = Len(Asked) - 1
        /\ \A n \in 1..Len(Tail(Asked)) : Tail(Asked)[n] = Asked[n + 1]
    BY <1>1, <1>4, HeadTailProperties
  <2> QED
    BY <1>1, <2>1
<1>6. \A n \in 1..k : Asked'[n] = calls[Len(answers) + 1 + n]
  BY <1>1, <1>2
<1>7. \A n \in 1..k : Asked[n + 1] = calls[Len(answers) + (n + 1)]
  BY <1>1 DEF Asked
<1>8. \A n \in 1..Len(Asked') : Asked'[n] = Tail(Asked)[n]
  BY <1>1, <1>3, <1>5, <1>6, <1>7
<1> QED
  BY <1>3, <1>5, <1>8, SeqEqual

\* Answering a call is one of Dialogue's answers.
LEMMA AnsweredFollows ==
    ASSUME SessionInv, stage \in {"calling", "acting"}, NEW r \in Answer, Answered(r),
           UNCHANGED <<config, calls, launched, suggested>>
    PROVE  Contract!DialogueNext
<1>1. /\ Len(answers) \in Nat /\ Len(calls) \in Nat /\ Len(answers) < Len(calls)
      /\ rounds \in 1..MaxRounds /\ MaxRounds \in Nat /\ TypeOK
  BY SessionAssumption DEF SessionInv, TypeOK, SessionAssumption
<1>2. Len(answers') = Len(answers) + 1
  BY <1>1, AnsweredEffect
<1>3. Asked' = Tail(Asked) /\ Asked \in Seq(Tools) /\ Len(Asked) = Len(calls) - Len(answers)
  BY <1>1, <1>2, AskedType, AskedShrinks
<1>4. Turn = "agent"
  BY DEF Turn
<1>5. CASE Len(answers) + 1 < Len(calls)
  <2>1. Turn' = "agent" /\ Left' = Left
    BY <1>5 DEF Answered, Turn, Left
  <2>2. Len(Asked) > 1
    BY <1>1, <1>3, <1>5
  <2>3. Contract!AnswerOne
    BY <1>3, <1>4, <2>1, <2>2 DEF Contract!AnswerOne, Turn, Asked, Left
  <2> QED
    BY <2>3 DEF Contract!DialogueNext
<1>6. CASE ~(Len(answers) + 1 < Len(calls))
  <2>1. Len(Asked) = 1 /\ Asked' = <<>>
    BY <1>1, <1>3, <1>6
  <2>2. CASE rounds < MaxRounds
    <3>1. Turn' = "ai" /\ rounds' = rounds + 1
      BY <1>6, <2>2 DEF Answered, Turn
    <3>2. Left > 1 /\ Left' = Left - 1
      BY <1>1, <2>2, <3>1 DEF Left
    <3>3. Contract!AnswerLast
      BY <1>4, <2>1, <3>1, <3>2 DEF Contract!AnswerLast, Turn, Asked, Left
    <3> QED
      BY <3>3 DEF Contract!DialogueNext
  <2>3. CASE ~(rounds < MaxRounds)
    <3>1. Turn' = "over" /\ rounds' = rounds
      BY <1>6, <2>3 DEF Answered, End, Turn
    <3>2. ~(Left > 1) /\ Left' = Left
      BY <1>1, <2>3, <3>1 DEF Left
    <3>3. Contract!AnswerLast
      BY <1>4, <2>1, <3>1, <3>2 DEF Contract!AnswerLast, Turn, Asked, Left
    <3> QED
      BY <3>3 DEF Contract!DialogueNext
  <2> QED
    BY <2>2, <2>3
<1> QED
  BY <1>5, <1>6

LEMMA DialogueStep ==
    ASSUME SessionInv, [Next]_vars
    PROVE  UNCHANGED <<Turn, Asked, Left>> \/ Contract!DialogueNext
<1>1. /\ Len(answers) \in Nat /\ Len(calls) \in Nat
      /\ stage \in {"calling", "acting"} => Call \in Tools
  BY DEF SessionInv, TypeOK, Call
<1>2. CASE ChatRequestsTools
  <2>1. PICK n \in 1..MaxCalls : \E new \in [1..n -> Tools] : calls' = calls \o new
    BY <1>2 DEF ChatRequestsTools
  <2>2. calls' \in Seq(Tools) /\ Len(calls') = Len(calls) + n /\ n \in Nat /\ n > 0
    <3>1. PICK new \in [1..n -> Tools] : calls' = calls \o new
      BY <2>1
    <3>2. n \in Nat /\ n > 0 /\ calls \in Seq(Tools)
      BY SessionAssumption DEF SessionInv, TypeOK, SessionAssumption
    <3> QED
      BY <3>1, <3>2, ConcatCalls
  <2>3. /\ stage = "chatting" /\ stage' = "calling"
        /\ UNCHANGED <<rounds, answers>> /\ Len(answers) = Len(calls)
    BY <1>2 DEF ChatRequestsTools, SessionInv, AnswersFollowCalls
  <2>4. Asked' \in Seq(Tools) /\ Len(Asked') = n
    BY <1>1, <2>2, <2>3, AskedSeq DEF Asked
  <2>5. Asked' \in Seq(Tools) \ {<<>>}
    BY <2>2, <2>4
  <2>6. Turn = "ai" /\ Turn' = "agent" /\ Left' = Left
    BY <2>3 DEF Turn, Left
  <2>7. Contract!Ask
    BY <2>5, <2>6 DEF Contract!Ask, Turn, Asked, Left
  <2> QED
    BY <2>7 DEF Contract!DialogueNext
<1>3. CASE ChatConcludes \/ ChatRaises \/ ChatRefused \/ ReadOnlyRaises
  <2>1. /\ stage \in {"chatting", "calling"} /\ stage' = "over"
        /\ UNCHANGED <<rounds, calls, answers>>
    BY <1>3 DEF ChatConcludes, ChatRaises, ChatRefused, ReadOnlyRaises, End
  <2>2. Turn # "over" /\ Turn' = "over" /\ Asked' = Asked /\ Left' = Left
    BY <2>1 DEF Turn, Asked, Left
  <2>3. Contract!Leave
    BY <2>2 DEF Contract!Leave, Turn, Asked, Left
  <2> QED
    BY <2>3 DEF Contract!DialogueNext
<1>4. CASE ReadOnlyReturns
  BY <1>1, <1>4, ReplyAnswer, AnsweredFollows DEF ReadOnlyReturns
<1>5. CASE GateRefuses
  BY <1>1, <1>5, ReplyAnswer, AnsweredFollows DEF GateRefuses
<1>6. CASE Dispatch
  BY <1>6 DEF Dispatch, Turn, Asked, Left
<1>7. CASE DispatchReturns
  <2>1. PICK r \in {"ok", "failed"} : Answered(Reply(Call, r))
    BY <1>7 DEF DispatchReturns, DispatchResults
  <2> QED
    BY <1>1, <1>7, <2>1, ReplyAnswer, AnsweredFollows DEF DispatchReturns
<1>8. CASE UNCHANGED vars
  BY <1>8 DEF vars, Turn, Asked, Left
<1> QED
  BY <1>2, <1>3, <1>4, <1>5, <1>6, <1>7, <1>8 DEF Next

\* For any number of rounds and calls, and however tools and actions end:
\* the conversation is one that the provider's protocol allows, and the
\* program's own limit ends.
THEOREM ImplementsDialogue == Spec => FollowsDialogue
<1>1. Init => Contract!DialogueInit
  <2> SUFFICES ASSUME Init PROVE Contract!DialogueInit
    OBVIOUS
  <2>1. Len(calls) = 0 /\ Len(answers) = 0 /\ rounds = 1 /\ MaxRounds \in Nat
    BY SessionAssumption DEF Init, SessionAssumption
  <2>2. Asked = <<>>
    BY <2>1 DEF Asked
  <2>3. Turn = "ai" /\ Left = MaxRounds
    BY <2>1 DEF Init, Turn, Left
  <2> QED
    BY <2>2, <2>3 DEF Contract!DialogueInit, Turn, Asked, Left
<1>2. ASSUME SessionInv, [Next]_vars
      PROVE  [Contract!DialogueNext]_(Contract!dialogueVars)
  BY <1>2, DialogueStep DEF Contract!dialogueVars, Turn, Asked, Left
<1> QED
  BY <1>1, <1>2, SessionInvAlways, PTL DEF Spec, FollowsDialogue, Contract!DialogueSpec

-----------------------------------------------------------------------------
(* The gate *)

\* The levels, from the one that lets the AI do least to the one that lets it
\* do most.
AtMost(l, m) ==
    \/ l = "read_only"
    \/ l = "suggest" /\ m # "read_only"
    \/ l = "semi_auto" /\ m \in {"semi_auto", "full_auto"}
    \/ l = "full_auto" /\ m = "full_auto"

\* Whoever denies more, allows less or lowers the level permits no action
\* that was not permitted before, and denies none the fewer: the order in
\* which execute looks at the level and at the lists makes no exception.
THEOREM StricterPermitsLess ==
    ASSUME NEW p \in Permissions, NEW q \in Permissions, NEW a,
           AtMost(p.level, q.level), p.allow \subseteq q.allow, q.deny \subseteq p.deny
    PROVE  /\ Gate(p, a) = "dispatch" => Gate(q, a) = "dispatch"
           /\ Gate(q, a) = "denied" => Gate(p, a) = "denied"
<1>1. p.level \in Levels /\ q.level \in Levels
  BY DEF Permissions
<1> QED
  BY <1>1 DEF Gate, AtMost, Levels

=============================================================================
