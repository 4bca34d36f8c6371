---------------------------- MODULE TrackerProofs ---------------------------
(***************************************************************************)
(* Janitor implements IssueTracker: seen from the anomalies, the scheduler *)
(* and the handlers together open and close one issue at a time.           *)
(***************************************************************************)
EXTENDS JanitorProofs

\* The refinement mapping of Tracker.
Tracking == [k \in Keys |-> TheIssue(FindOpen(k))]

Closed == Registered \ ListActive

TrackerInv == HandlerInv /\ ActiveUnique

-----------------------------------------------------------------------------

\* An anomaly with one active issue is tracked by it.
LEMMA TheIssueIs ==
    /\ TheIssue({}) = NoId
    /\ \A i : TheIssue({i}) = i
    /\ \A S : S # {} => TheIssue(S) \in S
BY DEF TheIssue

LEMMA TrackingIs == \A k \in Keys : Tracking[k] = TheIssue(FindOpen(k))
BY DEF Tracking

LEMMA TrackingNextIs == Tracking' = [k \in Keys |-> TheIssue(FindOpen(k)')]
BY DEF Tracking, TheIssue

\* A step that finds the same active issues for every anomaly, and has the
\* same ones closed, does nothing to the tracker.
LEMMA TrackerStutters ==
    ASSUME \A k \in Keys : FindOpen(k)' = FindOpen(k), Closed' = Closed
    PROVE  UNCHANGED <<Tracking, Closed>>
BY DEF Tracking

\* What storing an issue does to the active issues of an anomaly.
LEMMA PutFinds ==
    ASSUME NEW i, NEW r, Put(i, r), NEW k
    PROVE  /\ FindOpen(k)' =
                IF r.key = k /\ r.status \notin Terminal
                THEN FindOpen(k) \cup {i} ELSE FindOpen(k) \ {i}
           /\ Registered' = Registered \cup {i}
           /\ i \in ListActive' <=> r.status \notin Terminal
           /\ \A j \in Registered \ {i} : j \in ListActive' <=> j \in ListActive
<1>1. /\ Registered' = Registered \cup {i} /\ issues'[i] = r
      /\ \A j \in Registered \ {i} : issues'[j] = issues[j]
  BY PutEffect
<1> QED
  BY <1>1 DEF FindOpen, ListActive, IsActive

\* An issue that stays as active as it was.
LEMMA RewriteStutters ==
    ASSUME TrackerInv, NEW i \in Registered, NEW r, Put(i, r), Rewrite(issues[i], r),
           r.status \in Terminal <=> issues[i].status \in Terminal
    PROVE  UNCHANGED <<Tracking, Closed>>
<1>1. \A k \in Keys : FindOpen(k)' = FindOpen(k)
  BY PutFinds DEF FindOpen, ListActive, IsActive, Rewrite
<1>2. Closed' = Closed
  BY PutFinds DEF Closed, ListActive, IsActive
<1> QED
  BY <1>1, <1>2, TrackerStutters

\* An issue that is closed was the one its anomaly was tracked by.
LEMMA RewriteCloses ==
    ASSUME TrackerInv, NEW i \in Registered, NEW r, Put(i, r),
           r.status \in Terminal, issues[i].status \notin Terminal
    PROVE  \E k \in Keys : /\ Tracking[k] # NoId
                           /\ Closed' = Closed \cup {Tracking[k]}
                           /\ Tracking' = [Tracking EXCEPT ![k] = NoId]
<1>1. issues[i].key \in Keys /\ i \in Ids /\ i # NoId
  BY RegistryAssumption DEF TrackerInv, HandlerInv, TypeOK, RegistryTypeOK, Issue
<1> PICK c \in Keys : c = issues[i].key
  BY <1>1
<1>2. FindOpen(c) = {i}
  BY DEF TrackerInv, ActiveUnique, FindOpen, ListActive, IsActive
<1>3. Tracking[c] = i
  BY <1>1, <1>2, TrackingIs, TheIssueIs
<1>4. FindOpen(c)' = {} /\ \A k \in Keys \ {c} : FindOpen(k)' = FindOpen(k)
  <2>1. \A k \in Keys : FindOpen(k)' = FindOpen(k) \ {i}
    BY PutFinds
  <2>2. \A k \in Keys \ {c} : i \notin FindOpen(k)
    BY DEF FindOpen
  <2>3. FindOpen(c)' = {}
    <3>1. FindOpen(c)' = FindOpen(c) \ {i}
      BY <2>1
    <3> QED
      BY <1>2, <3>1
  <2>4. \A k \in Keys \ {c} : FindOpen(k)' = FindOpen(k)
    BY <2>1, <2>2
  <2> QED
    BY <2>3, <2>4
<1>5. Tracking' = [Tracking EXCEPT ![c] = NoId]
  <2>1. Tracking'[c] = NoId
    BY <1>4, TrackingNextIs, TheIssueIs
  <2>2. \A k \in Keys \ {c} : Tracking'[k] = Tracking[k]
    BY <1>4, TrackingNextIs, TrackingIs
  <2> QED
    BY <1>1, <2>1, <2>2, TrackingNextIs DEF Tracking
<1>6. Closed' = Closed \cup {i}
  BY PutFinds DEF Closed, ListActive, IsActive
<1> QED
  BY <1>1, <1>3, <1>5, <1>6

\* An issue that is registered is tracked from then on.
LEMMA RegistersOpens ==
    ASSUME TrackerInv, NEW k \in Keys, NEW i \in Ids \ Registered, NEW r, FindOpen(k) = {},
           r.key = k, r.status = "open", Put(i, r)
    PROVE  /\ Tracking[k] = NoId
           /\ i \notin ({Tracking[c] : c \in Keys} \ {NoId}) \cup Closed
           /\ Tracking' = [Tracking EXCEPT ![k] = i]
           /\ Closed' = Closed
<1>1. r.status \notin Terminal
  BY DEF Terminal
<1>2. FindOpen(k)' = {i} /\ \A c \in Keys \ {k} : FindOpen(c)' = FindOpen(c)
  BY <1>1, PutFinds DEF FindOpen, ListActive
<1>3. Tracking' = [Tracking EXCEPT ![k] = i]
  <2>1. Tracking'[k] = i
    BY <1>2, TrackingNextIs, TheIssueIs
  <2>2. \A c \in Keys \ {k} : Tracking'[c] = Tracking[c]
    BY <1>2, TrackingNextIs, TrackingIs
  <2> QED
    BY <2>1, <2>2, TrackingNextIs DEF Tracking
<1>4. ASSUME NEW c \in Keys, FindOpen(c) # {} PROVE Tracking[c] \in Registered
  <2>1. Tracking[c] \in FindOpen(c)
    BY <1>4, TrackingIs, TheIssueIs
  <2> QED
    BY <2>1 DEF FindOpen, ListActive
<1>5. i \notin ({Tracking[c] : c \in Keys} \ {NoId}) \cup Closed
  BY <1>4, TrackingIs, TheIssueIs DEF Closed
<1>6. Closed' = Closed
  BY <1>1, PutFinds DEF Closed, ListActive
<1> QED
  BY <1>3, <1>5, <1>6, TrackingIs, TheIssueIs

LEMMA RestartForgets ==
    ASSUME Restart
    PROVE  Tracking' = [k \in Keys |-> NoId] /\ Closed' = {}
<1>1. Registered' = {}
  BY DEF Restart, Registered, EmptyRegistry
<1>2. Closed' = {} /\ \A k \in Keys : FindOpen(k)' = {}
  BY <1>1 DEF Closed, FindOpen, ListActive
<1> QED
  BY <1>2, TrackingNextIs, TheIssueIs

-----------------------------------------------------------------------------

\* Every step is one of the tracker's steps, or none.
LEMMA TrackerStep ==
    ASSUME ~RecordsParams, TrackerInv, [Next]_vars
    PROVE  \/ UNCHANGED <<Tracking, Closed>>
           \/ Tracker!TrackerNext
<1> USE DEF Tracking, Closed
<1>1. CASE UNCHANGED registryVars
  <2>1. \A k \in Keys : FindOpen(k)' = FindOpen(k)
    BY <1>1 DEF FindOpen, ListActive, IsActive, Registered, registryVars
  <2>2. Closed' = Closed
    BY <1>1 DEF ListActive, IsActive, Registered, registryVars
  <2> QED
    BY <2>1, <2>2, TrackerStutters
<1>2. CASE Rewrites
  <2>1. PICK i \in Registered, r \in Issue : Put(i, r) /\ Rewrite(issues[i], r)
    BY <1>2 DEF Rewrites
  <2>2. CASE r.status \in Terminal <=> issues[i].status \in Terminal
    BY <1>2, <2>1, <2>2, RewriteStutters
  <2>3. CASE r.status \in Terminal /\ issues[i].status \notin Terminal
    BY <2>1, <2>3, RewriteCloses DEF Tracker!TrackerNext, Tracker!Close
  <2> QED
    BY <2>1, <2>2, <2>3 DEF Rewrite
<1>3. CASE Registers
  <2>1. PICK k \in Keys, i \in Ids \ Registered, r \in Issue :
           FindOpen(k) = {} /\ r.key = k /\ r.status = "open" /\ Put(i, r)
    BY <1>3 DEF Registers
  <2> QED
    BY <2>1, RegistersOpens DEF Tracker!TrackerNext, Tracker!Open, Tracker!Tracked
<1>4. CASE Restart
  BY <1>4, RestartForgets DEF Tracker!TrackerNext, Tracker!Forget, Tracker!Nothing
<1> QED
  BY <1>1, <1>2, <1>3, <1>4, RegistryStep DEF TrackerInv

LEMMA TrackerStart == Init => Tracker!TrackerInit
<1> SUFFICES ASSUME Init PROVE Tracker!TrackerInit
  OBVIOUS
<1>1. Registered = {}
  BY DEF Init, Registered, EmptyRegistry
<1>2. \A k \in Keys : FindOpen(k) = {}
  BY <1>1 DEF FindOpen, ListActive
<1> QED
  BY <1>1, <1>2, TheIssueIs DEF Tracker!TrackerInit, Tracker!Nothing

\* In the program as it is, the interleaved scheduler and handlers implement
\* the tracker that opens and closes one issue at a time.
THEOREM ImplementsTracker ==
    ASSUME ~RecordsParams
    PROVE  Spec => TracksIssues
<1>1. Spec => []TrackerInv
  BY HandlerInvAlways, UniqueActive, PTL DEF TrackerInv
<1>2. ASSUME TrackerInv, [Next]_vars
      PROVE  [Tracker!TrackerNext]_(Tracker!trackerVars)
  BY <1>2, TrackerStep DEF Tracker!trackerVars, Tracking, Closed
<1> QED
  BY <1>1, <1>2, TrackerStart, PTL DEF Spec, TracksIssues, Tracker!TrackerSpec

=============================================================================
