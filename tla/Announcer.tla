----------------------------- MODULE Announcer -----------------------------
(***************************************************************************)
(* What the alerting promises the operator, without the tick, the analyses *)
(* and the failures it happens in: an issue gets one chance to be          *)
(* announced, issues are announced one at a time, and an announcement      *)
(* tells nobody twice and is never resumed.  A restart forgets everything. *)
(***************************************************************************)
EXTENDS Naturals

CONSTANTS Ids, NoId, Names

VARIABLES
    told,          \* how often each notifier has told of each issue
    past,          \* the issues that have had their chance
    announcing     \* the issue that is being announced, if any

announcerVars == <<told, past, announcing>>

NothingTold == [p \in Ids \X Names |-> 0]

AnnouncerInit == told = NothingTold /\ past = {} /\ announcing = NoId

\* An issue's turn comes, and is used or missed.
TakeTurn(i) ==
    /\ announcing = NoId
    /\ i \notin past
    /\ past' = past \cup {i}
    /\ announcing' \in {i, NoId}
    /\ UNCHANGED told

\* One more notifier tells of the issue, perhaps as the last one.
Tell(n) ==
    /\ announcing # NoId
    /\ told[<<announcing, n>>] = 0
    /\ told' = [told EXCEPT ![<<announcing, n>>] = 1]
    /\ announcing' \in {announcing, NoId}
    /\ UNCHANGED past

\* The announcement is over, or broken off.
FallSilent ==
    /\ announcing # NoId
    /\ announcing' = NoId
    /\ UNCHANGED <<told, past>>

Forget == told' = NothingTold /\ past' = {} /\ announcing' = NoId

AnnouncerNext ==
    \/ \E i \in Ids : TakeTurn(i)
    \/ \E n \in Names : Tell(n)
    \/ FallSilent
    \/ Forget

AnnouncerSpec == AnnouncerInit /\ [][AnnouncerNext]_announcerVars

=============================================================================
