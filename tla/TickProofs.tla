------------------------------ MODULE TickProofs ----------------------------
(***************************************************************************)
(* A tick of Janitor comes closer to its end with every step that moves    *)
(* it: the safety half of TickEnds, for any number of anomalies, notifiers *)
(* and handlers.  With the fairness of the scheduler's task, and since the *)
(* anomalies of a tick are finitely many, the tick ends.                   *)
(***************************************************************************)
EXTENDS JanitorProofs

\* What TickShrinks asks of a step within a tick.
Shrinks ==
    \/ work' \subseteq work /\ work' # work
    \/ work' = work /\ StepsLeft' < StepsLeft

\* The awaits that are left, by phase.
LEMMA StepsLeftNow ==
    ASSUME TypeOK
    PROVE  /\ phase = "working" => StepsLeft = 1
           /\ phase = "alerting" => /\ StepsLeft = 2 + (Len(Notifiers) - pos)
                                    /\ pos \in 1..Len(Notifiers)
           /\ phase = "analyzing" => StepsLeft = 2 + Len(Notifiers)
           /\ Len(Notifiers) \in Nat /\ pos \in Nat
BY NotifierNamed DEF TypeOK, SchedulerTypeOK, StepsLeft

LEMMA StepsLeftThen ==
    /\ phase' \in {"sleeping", "stopped"} => StepsLeft' = 0
    /\ phase' = "working" => StepsLeft' = 1
    /\ phase' = "alerting" => StepsLeft' = 2 + (Len(Notifiers) - pos')
BY DEF StepsLeft

\* An anomaly that has been looked at is not looked at again in this tick.
LEMMA AnomalyDone ==
    ASSUME NEW k \in work, work' = work \ {k}
    PROVE  Shrinks
BY DEF Shrinks

\* The task is cancelled, the tick gives up, or the process dies.
LEMMA TickDropped ==
    ASSUME TypeOK, phase \notin {"sleeping", "stopped"},
           phase' \in {"sleeping", "stopped"}, work' = {}
    PROVE  Shrinks
<1>1. StepsLeft' = 0 /\ StepsLeft > 0
  BY StepsLeftNow, StepsLeftThen DEF TypeOK, SchedulerTypeOK, Phases
<1> QED
  BY <1>1 DEF Shrinks

\* The decision to alert ends the analysis.
LEMMA AnalysisDone ==
    ASSUME TypeOK, phase = "analyzing", NEW i, NEW k, AlertUnlessCooling(i, k),
           UNCHANGED work
    PROVE  Shrinks
<1>1. StepsLeft = 2 + Len(Notifiers) /\ Len(Notifiers) \in Nat
  BY StepsLeftNow
<1>2. phase' = "working" \/ (phase' = "alerting" /\ pos' = 1)
  BY DEF AlertUnlessCooling
<1>3. StepsLeft' < StepsLeft
  BY <1>1, <1>2, StepsLeftThen
<1> QED
  BY <1>3 DEF Shrinks

\* The next notifier takes over, or the broadcast is over.
LEMMA BroadcastAdvances ==
    ASSUME TypeOK, phase = "alerting", Advance, UNCHANGED work
    PROVE  Shrinks
<1>1. /\ StepsLeft = 2 + (Len(Notifiers) - pos)
      /\ pos \in 1..Len(Notifiers) /\ Len(Notifiers) \in Nat
  BY StepsLeftNow
<1>2. phase' = "working" \/ (phase' = "alerting" /\ pos' = pos + 1)
  BY DEF Advance
<1>3. StepsLeft' < StepsLeft
  BY <1>1, <1>2, StepsLeftThen
<1> QED
  BY <1>3 DEF Shrinks

\* Every step of the task within a tick.
LEMMA TaskShrinks ==
    ASSUME TypeOK, phase \notin {"sleeping", "stopped"}, SchedulerStep
    PROVE  Shrinks
<1>1. ~Collect
  BY DEF Collect
<1>2. CASE \E k \in Keys : \/ RefreshExisting(k) \/ RegisterAndAnalyze(k)
                           \/ RegisterUnanalyzed(k)
  BY <1>2, AnomalyDone DEF RefreshExisting, RegisterAndAnalyze, RegisterUnanalyzed
<1>3. CASE AnalysisConcludes \/ AnalysisRaises
  BY <1>3, AnalysisDone DEF AnalysisConcludes, AnalysisRaises
<1>4. CASE SendSkips \/ SendDelivers
  BY <1>4, BroadcastAdvances DEF SendSkips, SendDelivers
<1>5. CASE SendRaises
  BY <1>5, TickDropped DEF SendRaises
<1>6. CASE EndTick
  <2>1. phase = "working" /\ phase' = "sleeping" /\ work' = {}
    BY <1>6 DEF EndTick
  <2> QED
    BY <2>1, TickDropped
<1> QED
  BY <1>1, <1>2, <1>3, <1>4, <1>5, <1>6 DEF SchedulerStep

\* Nothing else moves the task within a tick, except to end it.
LEMMA TickStep ==
    ASSUME TypeOK, [Next]_vars, phase \notin {"sleeping", "stopped"},
           ~UNCHANGED <<phase, work, cur, pos>>
    PROVE  Shrinks
<1>1. CASE SchedulerStep
  BY <1>1, TaskShrinks
<1>2. CASE Shutdown \/ Restart
  BY <1>2, TickDropped DEF Shutdown, Restart
<1>3. \/ SchedulerStep \/ Shutdown \/ Restart
      \/ UNCHANGED <<phase, work, cur, pos>>
  BY DEF Next, vars, schedulerVars, EnvironmentStep, CooldownExpires, AnomalyAppears,
         AnomalyClears
<1> QED
  BY <1>1, <1>2, <1>3

-----------------------------------------------------------------------------
(* The theorem *)

\* However many anomalies and notifiers there are, whatever raises, and
\* whatever the operator does to the issue the tick is busy with: a step that
\* moves the tick brings it closer to its end.
THEOREM NoTickGrows == Spec => TickShrinks
<1>1. ASSUME TypeOK, [Next]_vars
      PROVE  [phase \notin {"sleeping", "stopped"}
                 /\ <<phase, work, cur, pos>>' # <<phase, work, cur, pos>>
              => \/ work' \subseteq work /\ work' # work
                 \/ work' = work /\ StepsLeft' < StepsLeft]_vars
  BY <1>1, TickStep DEF Shrinks
<1> QED
  BY <1>1, TypeCorrect, PTL DEF Spec, TickShrinks

=============================================================================
