---------------------------- MODULE IssueTracker ----------------------------
(***************************************************************************)
(* What the issue registry promises its users, without the coroutines that *)
(* share it: an anomaly is tracked by at most one issue at a time, an      *)
(* issue is opened once, under an id not seen before, and once closed it   *)
(* is never tracked again.  A restart of the process forgets everything.   *)
(***************************************************************************)
CONSTANTS Ids, Keys, NoId

VARIABLES
    tracking,      \* the open issue of each anomaly, NoId if it has none
    closed         \* the issues that were closed

trackerVars == <<tracking, closed>>

Nothing == [k \in Keys |-> NoId]

Tracked == {tracking[k] : k \in Keys} \ {NoId}

TrackerInit == tracking = Nothing /\ closed = {}

Open(k, i) ==
    /\ tracking[k] = NoId
    /\ i \notin Tracked \cup closed
    /\ tracking' = [tracking EXCEPT ![k] = i]
    /\ UNCHANGED closed

Close(k) ==
    /\ tracking[k] # NoId
    /\ closed' = closed \cup {tracking[k]}
    /\ tracking' = [tracking EXCEPT ![k] = NoId]

Forget == tracking' = Nothing /\ closed' = {}

TrackerNext ==
    \/ \E k \in Keys, i \in Ids : Open(k, i)
    \/ \E k \in Keys : Close(k)
    \/ Forget

TrackerSpec == TrackerInit /\ [][TrackerNext]_trackerVars

=============================================================================
