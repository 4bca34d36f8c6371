---------------------------- MODULE AlertProofs ----------------------------
(***************************************************************************)
(* Theorems about the alerts of Janitor: no notifier delivers one twice,   *)
(* and an issue that counts as notified was delivered by every notifier    *)
(* that could send all along; and the alerts implement Announcer.          *)
(***************************************************************************)
EXTENDS JanitorProofs

\* No message about the issue has reached the operator.
Undelivered(i) == \A n \in NotifierNames : delivered[<<i, n>>] = 0

\* A broadcast in progress: the notifiers from pos on have not delivered the
\* alert, and those before have if they were ready when the scheduler started.
Broadcasting ==
    /\ \A p \in pos..Len(Notifiers) : delivered[<<cur, Notifiers[p]>>] = 0
    /\ \A p \in 1..(pos - 1) :
          Notifiers[p] \in ReadyAtStart => delivered[<<cur, Notifiers[p]>>] = 1

\* What AlertedOnce and NotifiedWasDelivered rest on: an issue is announced
\* by the one broadcast after its registration, and by no other.
AlertInv ==
    /\ AlertedOnce
    /\ NotifiedWasDelivered
    /\ ReadyAtStart \subseteq ready
    /\ \A i \in Ids \ Registered : Undelivered(i)
    /\ phase = "analyzing" => Undelivered(cur)
    /\ phase = "alerting" => Broadcasting

-----------------------------------------------------------------------------

\* No issue newly counts as notified, unless nobody was to be notified.
NoneNotified ==
    \A i \in Registered' : issues'[i].notified =>
        (i \in Registered /\ issues[i].notified) \/ ReadyAtStart = {}

\* What a step that sends nothing may do to the scheduler's task.
MovesQuietly ==
    \/ phase' \notin {"analyzing", "alerting"}
    \/ UNCHANGED <<phase, cur, pos>>
    \/ phase' = "analyzing" /\ Undelivered(cur')
    \/ phase' = "alerting" /\ pos' = 1 /\ Undelivered(cur')

\* A step that sends nothing keeps the invariant.
LEMMA QuietStep ==
    ASSUME AlertInv, UNCHANGED delivered, ready \subseteq ready',
           Registered \subseteq Registered', NoneNotified, MovesQuietly
    PROVE  AlertInv'
<1>1. \A i : Undelivered(i)' <=> Undelivered(i)
  BY DEF Undelivered
<1>2. AlertedOnce' /\ NotifiedWasDelivered'
  BY DEF AlertInv, AlertedOnce, NotifiedWasDelivered, NoneNotified
<1>3. phase' = "analyzing" => Undelivered(cur)'
  BY <1>1 DEF AlertInv, MovesQuietly, Undelivered
<1>4. phase' = "alerting" => Broadcasting'
  <2>1. CASE UNCHANGED <<phase, cur, pos>>
    BY <2>1 DEF AlertInv, Broadcasting
  <2>2. CASE phase' = "alerting" /\ pos' = 1 /\ Undelivered(cur')
    BY <2>2, NotifierNamed DEF Broadcasting, Undelivered
  <2> QED
    BY <2>1, <2>2 DEF MovesQuietly
<1>5. \A i \in Ids \ Registered' : Undelivered(i)'
  BY <1>1 DEF AlertInv
<1> QED
  BY <1>2, <1>3, <1>4, <1>5 DEF AlertInv

\* The decision to alert about an issue nobody has heard of moves quietly,
\* and an empty broadcast is one without notifiers.
LEMMA AlertQuietly ==
    ASSUME NEW i, NEW k, AlertUnlessCooling(i, k), Undelivered(i)
    PROVE  MovesQuietly
<1>1. CASE phase' = "working"
  BY <1>1 DEF MovesQuietly
<1>2. CASE phase' = "alerting" /\ cur' = i /\ pos' = 1
  BY <1>2 DEF MovesQuietly
<1> QED
  BY <1>1, <1>2 DEF AlertUnlessCooling

LEMMA EmptyBroadcast == ASSUME NEW k, BroadcastIsEmpty(k) PROVE ReadyAtStart = {}
BY NotifierNamed DEF BroadcastIsEmpty, ReadyAtStart, Enabled

\* Storing an issue that counts as notified no more than it did.
LEMMA PutQuietly ==
    ASSUME NEW i, NEW r, Put(i, r),
           r.notified => (i \in Registered /\ issues[i].notified) \/ ReadyAtStart = {}
    PROVE  NoneNotified /\ Registered \subseteq Registered'
<1>1. /\ Registered' = Registered \cup {i} /\ issues'[i] = r
      /\ \A j \in Registered \ {i} : issues'[j] = issues[j]
  BY PutEffect
<1> QED
  BY <1>1 DEF NoneNotified

LEMMA SameQuietly ==
    ASSUME UNCHANGED registryVars
    PROVE  NoneNotified /\ Registered' = Registered
BY DEF NoneNotified, Registered, registryVars

\* The scheduler up to the broadcast.
LEMMA TickQuietly ==
    ASSUME HandlerInv, AlertInv,
           \/ Collect \/ EndTick \/ AnalysisConcludes \/ AnalysisRaises
           \/ \E k \in Keys : RefreshExisting(k) \/ RegisterAndAnalyze(k) \/ RegisterUnanalyzed(k)
    PROVE  AlertInv'
<1>1. CASE Collect \/ EndTick
  <2>1. UNCHANGED <<delivered, ready>> /\ MovesQuietly /\ UNCHANGED registryVars
    BY <1>1 DEF Collect, EndTick, MovesQuietly, notifierVars
  <2> QED
    BY <2>1, QuietStep, SameQuietly
<1>2. ASSUME NEW k \in Keys, RefreshExisting(k) PROVE AlertInv'
  <2>1. PICK i \in Registered : Put(i, issues[i])
    BY <1>2 DEF RefreshExisting, FindOpen, ListActive
  <2>2. NoneNotified /\ Registered \subseteq Registered'
    BY <2>1, PutQuietly
  <2>3. UNCHANGED <<delivered, ready>> /\ MovesQuietly
    BY <1>2 DEF RefreshExisting, MovesQuietly, notifierVars
  <2> QED
    BY <2>2, <2>3, QuietStep
<1>3. ASSUME NEW k \in Keys, RegisterAndAnalyze(k) PROVE AlertInv'
  <2>1. PICK i \in Ids \ Registered : Put(i, NewIssue(k)) /\ cur' = i
    BY <1>3 DEF RegisterAndAnalyze
  <2>2. NoneNotified /\ Registered \subseteq Registered'
    BY <2>1, PutQuietly DEF NewIssue
  <2>3. UNCHANGED <<delivered, ready>> /\ MovesQuietly
    BY <1>3, <2>1 DEF RegisterAndAnalyze, MovesQuietly, notifierVars, AlertInv
  <2> QED
    BY <2>2, <2>3, QuietStep
<1>4. ASSUME NEW k \in Keys, RegisterUnanalyzed(k) PROVE AlertInv'
  <2>1. PICK i \in Ids \ Registered :
           /\ Put(i, [NewIssue(k) EXCEPT !.notified = BroadcastIsEmpty(k)])
           /\ AlertUnlessCooling(i, k)
    BY <1>4 DEF RegisterUnanalyzed
  <2>2. NoneNotified /\ Registered \subseteq Registered'
    BY <2>1, PutQuietly, EmptyBroadcast DEF NewIssue
  <2>3. Undelivered(i)
    BY DEF AlertInv
  <2>4. UNCHANGED <<delivered, ready>> /\ MovesQuietly
    BY <1>4, <2>1, <2>3, AlertQuietly DEF RegisterUnanalyzed, notifierVars
  <2> QED
    BY <2>2, <2>4, QuietStep
<1>5. CASE AnalysisConcludes
  <2>1. cur \in Registered /\ issues[cur] \in Issue /\ Undelivered(cur)
    BY <1>5 DEF AnalysisConcludes, HandlerInv, TypeOK, SchedulerTypeOK, RegistryTypeOK, AlertInv
  <2>2. PICK suggests \in BOOLEAN, records \in BOOLEAN :
           LET a == Analyzed(issues[cur], suggests, records)
           IN  /\ Put(cur, [a EXCEPT !.notified = BroadcastIsEmpty(a.key)])
               /\ AlertUnlessCooling(cur, a.key)
    BY <1>5 DEF AnalysisConcludes
  <2> DEFINE a == Analyzed(issues[cur], suggests, records)
             r == [a EXCEPT !.notified = BroadcastIsEmpty(a.key)]
  <2>3. r.notified => ReadyAtStart = {}
    <3>1. a \in Issue
      BY <2>1, AnalyzedType
    <3> HIDE DEF a
    <3>2. r.notified = BroadcastIsEmpty(a.key)
      BY <3>1 DEF Issue
    <3> QED
      BY <3>2, EmptyBroadcast
  <2>4. Put(cur, r) /\ AlertUnlessCooling(cur, a.key)
    BY <2>2
  <2> HIDE DEF a, r
  <2>5. NoneNotified /\ Registered \subseteq Registered'
    BY <2>3, <2>4, PutQuietly
  <2>6. UNCHANGED <<delivered, ready>> /\ MovesQuietly
    BY <1>5, <2>1, <2>4, AlertQuietly DEF AnalysisConcludes, notifierVars
  <2> QED
    BY <2>5, <2>6, QuietStep
<1>6. CASE AnalysisRaises
  <2>1. Undelivered(cur)
    BY <1>6 DEF AnalysisRaises, AlertInv
  <2>2. NoneNotified /\ Registered \subseteq Registered'
    BY <1>6, PutQuietly, SameQuietly, EmptyBroadcast DEF AnalysisRaises
  <2>3. UNCHANGED <<delivered, ready>> /\ MovesQuietly
    BY <1>6, <2>1, AlertQuietly DEF AnalysisRaises, notifierVars
  <2> QED
    BY <2>2, <2>3, QuietStep
<1> QED
  BY <1>1, <1>2, <1>3, <1>4, <1>5, <1>6

\* What the notifier at pos has made of the broadcast when it is over with
\* its alert: it has been delivered, or the notifier was not ready at first.
LEMMA AdvanceAlert ==
    ASSUME HandlerInv, AlertInv, phase = "alerting", Advance, UNCHANGED ready,
           \/ Deliver(cur, Notifiers[pos])
           \/ UNCHANGED delivered /\ Notifiers[pos] \notin ready
    PROVE  AlertInv'
<1>1. /\ cur \in Registered /\ cur \in Ids /\ issues[cur] \in Issue
      /\ pos \in 1..Len(Notifiers) /\ pos \in Nat
      /\ delivered \in [Ids \X NotifierNames -> Nat]
  BY DEF HandlerInv, TypeOK, SchedulerTypeOK, RegistryTypeOK, NotifierTypeOK
<1>2. /\ Len(Notifiers) \in Nat
      /\ \A p \in 1..Len(Notifiers) : Notifiers[p] \in NotifierNames
      /\ \A p, q \in 1..Len(Notifiers) : Notifiers[p] = Notifiers[q] => p = q
  BY NotifierNamed, NotifierAssumption
\* The message goes out once, and about no other issue.
<1>3. /\ \A i \in Ids, n \in NotifierNames :
            <<i, n>> # <<cur, Notifiers[pos]>> => delivered'[<<i, n>>] = delivered[<<i, n>>]
      /\ Notifiers[pos] \in ReadyAtStart => delivered'[<<cur, Notifiers[pos]>>] = 1
      /\ delivered'[<<cur, Notifiers[pos]>>] <= 1
  <2>1. delivered[<<cur, Notifiers[pos]>>] = 0
    BY <1>1 DEF AlertInv, Broadcasting
  <2>2. CASE Deliver(cur, Notifiers[pos])
    BY <1>1, <1>2, <2>1, <2>2 DEF Deliver
  <2>3. CASE UNCHANGED delivered /\ Notifiers[pos] \notin ready
    BY <2>1, <2>3 DEF AlertInv
  <2> QED
    BY <2>2, <2>3
<1>4. AlertedOnce'
  <2>1. ASSUME NEW i \in Ids, NEW n \in NotifierNames PROVE delivered'[<<i, n>>] <= 1
    BY <1>3 DEF AlertInv, AlertedOnce
  <2> QED
    BY <2>1 DEF AlertedOnce
<1>5. /\ Registered' = Registered
      /\ \A i \in Registered \ {cur} : issues'[i] = issues[i]
      /\ issues'[cur].notified => pos = Len(Notifiers) \/ issues[cur].notified
  <2>1. CASE pos = Len(Notifiers)
    <3>1. Put(cur, [issues[cur] EXCEPT !.notified = TRUE])
      BY <2>1 DEF Advance
    <3>2. /\ Registered' = Registered \cup {cur}
          /\ \A i \in Registered \ {cur} : issues'[i] = issues[i]
      BY <3>1, PutEffect
    <3> QED
      BY <1>1, <2>1, <3>2
  <2>2. CASE pos # Len(Notifiers)
    BY <2>2 DEF Advance, registryVars, Registered
  <2> QED
    BY <2>1, <2>2
\* The broadcast so far, the notifier at pos included.
<1>6. \A p \in 1..pos : Notifiers[p] \in ReadyAtStart => delivered'[<<cur, Notifiers[p]>>] = 1
  <2>1. ASSUME NEW p \in 1..(pos - 1), Notifiers[p] \in ReadyAtStart
        PROVE  delivered'[<<cur, Notifiers[p]>>] = 1
    <3>1. p \in 1..Len(Notifiers) /\ p # pos
      BY <1>1, <1>2
    <3>2. Notifiers[p] \in NotifierNames /\ Notifiers[p] # Notifiers[pos]
      BY <1>1, <1>2, <3>1
    <3>3. delivered[<<cur, Notifiers[p]>>] = 1
      BY <2>1 DEF AlertInv, Broadcasting
    <3> QED
      BY <1>1, <1>3, <3>2, <3>3
  <2> QED
    BY <1>1, <1>3, <2>1
<1>7. NotifiedWasDelivered'
  <2>1. ASSUME NEW i \in Registered, issues'[i].notified, NEW n \in ReadyAtStart
        PROVE  delivered'[<<i, n>>] = 1
    <3>1. i \in Ids /\ n \in NotifierNames
      BY DEF HandlerInv, TypeOK, RegistryTypeOK, ReadyAtStart, NotifierNames
    <3>2. CASE i # cur
      <4>1. issues[i].notified /\ delivered[<<i, n>>] = 1
        BY <1>5, <2>1, <3>2 DEF AlertInv, NotifiedWasDelivered
      <4> QED
        BY <1>3, <3>1, <3>2, <4>1
    <3>3. CASE i = cur /\ pos = Len(Notifiers)
      <4>1. PICK p \in 1..Len(Notifiers) : n = Notifiers[p]
        BY DEF ReadyAtStart, Enabled
      <4> QED
        BY <1>6, <2>1, <3>3, <4>1
    <3>4. CASE i = cur /\ issues[cur].notified
      <4>1. delivered[<<cur, n>>] = 1
        BY <1>1, <3>4 DEF AlertInv, NotifiedWasDelivered
      <4>2. n # Notifiers[pos]
        BY <1>1, <4>1 DEF AlertInv, Broadcasting
      <4> QED
        BY <1>1, <1>3, <3>1, <3>4, <4>1, <4>2
    <3> QED
      BY <1>5, <2>1, <3>2, <3>3, <3>4
  <2> QED
    BY <1>5, <2>1 DEF NotifiedWasDelivered
<1>8. phase' = "alerting" => Broadcasting'
  <2>1. ASSUME phase' = "alerting"
        PROVE  pos' = pos + 1 /\ cur' = cur
    BY <2>1 DEF Advance
  <2>2. \A p \in (pos + 1)..Len(Notifiers) : delivered'[<<cur, Notifiers[p]>>] = 0
    BY <1>1, <1>2, <1>3 DEF AlertInv, Broadcasting
  <2> QED
    BY <1>1, <1>6, <2>1, <2>2 DEF Broadcasting
<1>9. phase' \in {"working", "alerting"}
  <2>1. CASE pos = Len(Notifiers)
    BY <2>1 DEF Advance
  <2>2. CASE pos # Len(Notifiers)
    BY <2>2 DEF Advance
  <2> QED
    BY <2>1, <2>2
<1>10. \A i \in Ids \ Registered' : Undelivered(i)'
  <2>1. ASSUME NEW i \in Ids \ Registered', NEW n \in NotifierNames
        PROVE  delivered'[<<i, n>>] = 0
    <3>1. i \in Ids \ Registered /\ i # cur
      BY <1>1, <1>5
    <3>2. delivered[<<i, n>>] = 0
      BY <3>1 DEF AlertInv, Undelivered
    <3> QED
      BY <1>3, <3>1, <3>2
  <2> QED
    BY <2>1 DEF Undelivered
<1> QED
  BY <1>4, <1>7, <1>8, <1>9, <1>10 DEF AlertInv

\* A broadcast that is broken off, by an exception or by a shutdown, has sent
\* one more message or not, and is not resumed.
LEMMA BrokenOff ==
    ASSUME HandlerInv, AlertInv, SendRaises \/ Shutdown
    PROVE  AlertInv'
<1>1. /\ phase' \notin {"analyzing", "alerting"} /\ UNCHANGED <<ready, registryVars>>
      /\ UNCHANGED delivered \/ (phase = "alerting" /\ Deliver(cur, Notifiers[pos]))
  BY DEF SendRaises, Shutdown
<1>2. CASE UNCHANGED delivered
  BY <1>1, <1>2, QuietStep, SameQuietly DEF MovesQuietly
<1>3. CASE phase = "alerting" /\ Deliver(cur, Notifiers[pos])
  <2>1. /\ cur \in Registered /\ cur \in Ids /\ Notifiers[pos] \in NotifierNames
        /\ pos \in 1..Len(Notifiers)
        /\ delivered \in [Ids \X NotifierNames -> Nat]
    BY <1>3, NotifierNamed
       DEF HandlerInv, TypeOK, SchedulerTypeOK, RegistryTypeOK, NotifierTypeOK
  <2>2. delivered[<<cur, Notifiers[pos]>>] = 0
    BY <1>3, <2>1 DEF AlertInv, Broadcasting
  <2>3. /\ delivered'[<<cur, Notifiers[pos]>>] = 1
        /\ \A i \in Ids, n \in NotifierNames :
              <<i, n>> # <<cur, Notifiers[pos]>> => delivered'[<<i, n>>] = delivered[<<i, n>>]
    BY <1>3, <2>1, <2>2 DEF Deliver
  <2>4. AlertedOnce'
    <3>1. ASSUME NEW i \in Ids, NEW n \in NotifierNames PROVE delivered'[<<i, n>>] <= 1
      BY <2>3 DEF AlertInv, AlertedOnce
    <3> QED
      BY <3>1 DEF AlertedOnce
  <2>5. NotifiedWasDelivered'
    <3>1. ASSUME NEW i \in Registered, issues[i].notified, NEW n \in ReadyAtStart
          PROVE  delivered'[<<i, n>>] = 1
      <4>1. i \in Ids /\ n \in NotifierNames /\ delivered[<<i, n>>] = 1
        BY <3>1 DEF HandlerInv, TypeOK, RegistryTypeOK, ReadyAtStart, NotifierNames,
                    AlertInv, NotifiedWasDelivered
      <4> QED
        BY <2>2, <2>3, <4>1
    <3> QED
      BY <1>1, <3>1 DEF NotifiedWasDelivered, registryVars, Registered
  <2>6. \A i \in Ids \ Registered' : Undelivered(i)'
    BY <1>1, <2>1, <2>3 DEF AlertInv, Undelivered, registryVars, Registered
  <2> QED
    BY <1>1, <2>4, <2>5, <2>6 DEF AlertInv
<1> QED
  BY <1>1, <1>2, <1>3

\* The bots and their handlers neither send alerts nor touch the flag.
LEMMA BotsQuietly ==
    ASSUME HandlerInv, AlertInv, OperatorStep \/ \E h \in Handlers : HandlerStep(h),
           UNCHANGED <<schedulerVars, notifierVars>>
    PROVE  AlertInv'
<1>1. \/ UNCHANGED registryVars
      \/ \E i \in Registered, s \in IssueStatus : SetStatus(i, s)
  BY DEF OperatorStep, HandlerStep, DiscordFix, DiscordDeny, TelegramFix, TelegramDeny,
         DeferRaises, FixMarksResolved, FixDispatches, DispatchReturns, IssueStatus,
         HandlerInv, TypeOK, BotsTypeOK
<1>2. ASSUME NEW i \in Registered, NEW s, SetStatus(i, s)
      PROVE  NoneNotified /\ Registered \subseteq Registered'
  <2>1. issues[i] \in Issue
    BY DEF HandlerInv, TypeOK, RegistryTypeOK
  <2>2. [issues[i] EXCEPT !.status = s].notified = issues[i].notified
    BY <2>1 DEF Issue
  <2> QED
    BY <1>2, <2>2, PutQuietly DEF SetStatus
<1>3. UNCHANGED <<delivered, ready>> /\ MovesQuietly
  BY DEF notifierVars, schedulerVars, MovesQuietly
<1> QED
  BY <1>1, <1>2, <1>3, QuietStep, SameQuietly

LEMMA AlertStart ==
    ASSUME Registered = {}, ready = ReadyAtStart, delivered = NothingDelivered,
           phase = "sleeping"
    PROVE  AlertInv
BY DEF AlertInv, AlertedOnce, NotifiedWasDelivered, Undelivered, NothingDelivered

LEMMA AlertStartNext ==
    Registered' = {} /\ ready' = ReadyAtStart /\ delivered' = NothingDelivered
      /\ phase' = "sleeping" => AlertInv'
BY DEF AlertInv, AlertedOnce, NotifiedWasDelivered, Undelivered, NothingDelivered

LEMMA AlertStep ==
    ASSUME HandlerInv, AlertInv, [Next]_vars
    PROVE  AlertInv'
<1>1. CASE SchedulerStep
  <2>1. CASE SendSkips \/ SendDelivers
    BY <2>1, AdvanceAlert DEF SendSkips, SendDelivers, notifierVars
  <2>2. CASE SendRaises
    BY <2>2, BrokenOff
  <2> QED
    BY <1>1, <2>1, <2>2, TickQuietly DEF SchedulerStep
<1>2. CASE EnvironmentStep
  <2>1. UNCHANGED <<delivered, ready, registryVars>> /\ MovesQuietly
    BY <1>2 DEF EnvironmentStep, CooldownExpires, AnomalyAppears, AnomalyClears,
                MovesQuietly, notifierVars
  <2> QED
    BY <2>1, QuietStep, SameQuietly
<1>3. CASE OnReady /\ UNCHANGED <<registryVars, schedulerVars>>
  <2>1. UNCHANGED delivered /\ ready \subseteq ready' /\ MovesQuietly
    BY <1>3 DEF OnReady, MovesQuietly, schedulerVars
  <2> QED
    BY <1>3, <2>1, QuietStep, SameQuietly
<1>4. CASE /\ OperatorStep \/ \E h \in Handlers : HandlerStep(h)
           /\ UNCHANGED <<schedulerVars, notifierVars>>
  BY <1>4, BotsQuietly
<1>5. CASE Shutdown
  BY <1>5, BrokenOff
<1>6. CASE Restart
  <2>1. Registered' = {}
    BY <1>6 DEF Restart, Registered, EmptyRegistry
  <2> QED
    BY <1>6, <2>1, AlertStartNext DEF Restart
<1>7. CASE UNCHANGED vars
  <2>1. UNCHANGED <<delivered, ready, registryVars>> /\ MovesQuietly
    BY <1>7 DEF vars, notifierVars, schedulerVars, MovesQuietly
  <2> QED
    BY <2>1, QuietStep, SameQuietly
<1> QED
  BY <1>1, <1>2, <1>3, <1>4, <1>5, <1>6, <1>7 DEF Next

LEMMA AlertAlways == Spec => []AlertInv
<1>1. Init => AlertInv
  BY AlertStart DEF Init, Registered, EmptyRegistry
<1> QED
  BY <1>1, HandlerInvAlways, AlertStep, PTL DEF Spec

-----------------------------------------------------------------------------
(* The theorems *)

\* Whatever raises, resumes, is redetected or is shut down half-way, and
\* however many notifiers, anomalies and handlers there are: no notifier
\* delivers the alert of an issue twice.
THEOREM NeverTwice == Spec => []AlertedOnce
<1>1. AlertInv => AlertedOnce
  BY DEF AlertInv
<1> QED
  BY <1>1, AlertAlways, PTL

\* An issue counts as notified only if each notifier that could send all
\* along has delivered its alert.
THEOREM FlagIsTrue == Spec => []NotifiedWasDelivered
<1>1. AlertInv => NotifiedWasDelivered
  BY DEF AlertInv
<1> QED
  BY <1>1, AlertAlways, PTL

-----------------------------------------------------------------------------
(* The alerts implement Announcer *)

\* The refinement mapping of Alerts.
Past == Registered \ (IF phase = "analyzing" THEN {cur} ELSE {})

Announcing == IF phase = "alerting" THEN cur ELSE NoId

\* A step that sends nothing, registers nothing and leaves the task's issue
\* where it was does nothing to the announcer.
LEMMA AnnouncerStutters ==
    ASSUME Registered' = Registered, UNCHANGED delivered,
           \/ UNCHANGED <<phase, cur>>
           \/ phase \notin {"analyzing", "alerting"} /\ phase' \notin {"analyzing", "alerting"}
    PROVE  UNCHANGED <<delivered, Past, Announcing>>
BY DEF Past, Announcing

\* The decision to alert is the issue's turn.
LEMMA TurnTaken ==
    ASSUME phase # "alerting", NEW i \in Ids, i \notin Past, NEW k, AlertUnlessCooling(i, k),
           Registered' = Past \cup {i}, UNCHANGED delivered
    PROVE  Alerts!TakeTurn(i)
<1>1. \/ phase' = "working"
      \/ phase' = "alerting" /\ cur' = i
  BY DEF AlertUnlessCooling
<1>2. Announcing = NoId /\ Announcing' \in {i, NoId} /\ Past' = Past \cup {i}
  BY <1>1 DEF Announcing, Past
<1> QED
  BY <1>2 DEF Alerts!TakeTurn, Past, Announcing

\* Storing an issue that is there registers none.
LEMMA PutThere ==
    ASSUME NEW i \in Registered, \E r : Put(i, r)
    PROVE  Registered' = Registered
<1>1. PICK r : Put(i, r)
  OBVIOUS
<1>2. Registered' = Registered \cup {i}
  BY <1>1, PutEffect
<1> QED
  BY <1>2

\* The scheduler up to the broadcast, again.
LEMMA TickAnnounces ==
    ASSUME HandlerInv,
           \/ Collect \/ EndTick \/ AnalysisConcludes \/ AnalysisRaises
           \/ \E k \in Keys : RefreshExisting(k) \/ RegisterAndAnalyze(k) \/ RegisterUnanalyzed(k)
    PROVE  UNCHANGED <<delivered, Past, Announcing>> \/ Alerts!AnnouncerNext
<1>1. UNCHANGED delivered /\ NoId \notin Ids
  BY RegistryAssumption
     DEF Collect, EndTick, AnalysisConcludes, AnalysisRaises, RefreshExisting,
         RegisterAndAnalyze, RegisterUnanalyzed, notifierVars, RegistryAssumption
<1>2. CASE Collect \/ EndTick
  BY <1>1, <1>2, AnnouncerStutters DEF Collect, EndTick, registryVars, Registered
<1>3. CASE \E k \in Keys : RefreshExisting(k)
  <2>1. PICK i \in Registered : Put(i, issues[i])
    BY <1>3 DEF RefreshExisting, FindOpen, ListActive
  <2>2. Registered' = Registered /\ UNCHANGED <<phase, cur>>
    BY <1>3, <2>1, PutThere DEF RefreshExisting
  <2> QED
    BY <1>1, <2>2, AnnouncerStutters
<1>4. CASE \E k \in Keys : RegisterAndAnalyze(k)
  <2>1. PICK k \in Keys, i \in Ids \ Registered : Put(i, NewIssue(k)) /\ cur' = i
    BY <1>4 DEF RegisterAndAnalyze
  <2>2. Registered' = Registered \cup {i} /\ phase = "working" /\ phase' = "analyzing"
    BY <1>4, <2>1, PutEffect DEF RegisterAndAnalyze
  <2>3. Past' = Past /\ Announcing' = Announcing
    BY <2>1, <2>2 DEF Past, Announcing
  <2> QED
    BY <1>1, <2>3
<1>5. CASE \E k \in Keys : RegisterUnanalyzed(k)
  <2>1. PICK k \in Keys, i \in Ids \ Registered : \E r : Put(i, r) /\ AlertUnlessCooling(i, k)
    BY <1>5 DEF RegisterUnanalyzed
  <2>2. Registered' = Registered \cup {i} /\ phase = "working"
    BY <1>5, <2>1, PutEffect DEF RegisterUnanalyzed
  <2>3. Past = Registered
    BY <2>2 DEF Past
  <2>4. Alerts!TakeTurn(i)
    BY <1>1, <2>1, <2>2, <2>3, TurnTaken
  <2> QED
    BY <2>4 DEF Alerts!AnnouncerNext
<1>6. CASE AnalysisConcludes \/ AnalysisRaises
  <2>1. phase = "analyzing" /\ cur \in Registered /\ cur \in Ids
    BY <1>6 DEF AnalysisConcludes, AnalysisRaises, HandlerInv, TypeOK, SchedulerTypeOK,
                RegistryTypeOK
  <2>2. \E k : AlertUnlessCooling(cur, k)
    BY <1>6 DEF AnalysisConcludes, AnalysisRaises
  <2>3. UNCHANGED registryVars \/ \E r : Put(cur, r)
    BY <1>6 DEF AnalysisConcludes, AnalysisRaises
  <2>4. Registered' = Registered
    BY <2>1, <2>3, PutThere DEF registryVars, Registered
  <2>5. cur \notin Past /\ Registered' = Past \cup {cur}
    BY <2>1, <2>4 DEF Past
  <2>6. Alerts!TakeTurn(cur)
    BY <1>1, <2>1, <2>2, <2>5, TurnTaken
  <2> QED
    BY <2>1, <2>6 DEF Alerts!AnnouncerNext
<1> QED
  BY <1>2, <1>3, <1>4, <1>5, <1>6

\* A message about the announced issue that is told once.
LEMMA Told ==
    ASSUME HandlerInv, AlertInv, phase = "alerting", Deliver(cur, Notifiers[pos]),
           Registered' = Registered, phase' # "analyzing",
           phase' = "alerting" => cur' = cur
    PROVE  Alerts!AnnouncerNext
<1>1. /\ cur \in Registered /\ cur \in Ids /\ NoId \notin Ids
      /\ pos \in 1..Len(Notifiers) /\ Notifiers[pos] \in NotifierNames
      /\ delivered \in [Ids \X NotifierNames -> Nat]
  BY RegistryAssumption, NotifierNamed
     DEF HandlerInv, TypeOK, SchedulerTypeOK, RegistryTypeOK, NotifierTypeOK, RegistryAssumption
<1>2. delivered[<<cur, Notifiers[pos]>>] = 0
  BY <1>1 DEF AlertInv, Broadcasting
<1>3. delivered' = [delivered EXCEPT ![<<cur, Notifiers[pos]>>] = 1]
  BY <1>1, <1>2 DEF Deliver
<1>4. /\ Announcing = cur /\ Announcing' \in {cur, NoId} /\ cur # NoId
      /\ Past' = Past
  BY <1>1 DEF Announcing, Past
<1>5. Alerts!Tell(Notifiers[pos])
  BY <1>2, <1>3, <1>4 DEF Alerts!Tell, Announcing, Past
<1> QED
  BY <1>1, <1>5 DEF Alerts!AnnouncerNext

\* The broadcast, notifier by notifier.
LEMMA SendAnnounces ==
    ASSUME HandlerInv, AlertInv, SendSkips \/ SendDelivers
    PROVE  UNCHANGED <<delivered, Past, Announcing>> \/ Alerts!AnnouncerNext
<1>1. /\ phase = "alerting" /\ Advance
      /\ cur \in Registered /\ cur \in Ids /\ NoId \notin Ids
  BY RegistryAssumption
     DEF SendSkips, SendDelivers, HandlerInv, TypeOK, SchedulerTypeOK, RegistryTypeOK,
         RegistryAssumption
<1>2. Registered' = Registered
  <2>1. UNCHANGED registryVars \/ \E r : Put(cur, r)
    BY <1>1 DEF Advance
  <2> QED
    BY <1>1, <2>1, PutThere DEF registryVars, Registered
<1>3. \/ phase' = "working"
      \/ UNCHANGED <<phase, cur>>
  BY <1>1 DEF Advance
<1>4. CASE SendDelivers
  BY <1>1, <1>2, <1>3, <1>4, Told DEF SendDelivers
<1>5. CASE SendSkips
  <2>1. UNCHANGED delivered
    BY <1>5 DEF SendSkips, notifierVars
  <2>2. CASE phase' = "working"
    <3>1. Announcing = cur /\ cur # NoId /\ Announcing' = NoId /\ Past' = Past
      BY <1>1, <1>2, <2>2 DEF Announcing, Past
    <3>2. Alerts!FallSilent
      BY <2>1, <3>1 DEF Alerts!FallSilent, Announcing, Past
    <3> QED
      BY <3>2 DEF Alerts!AnnouncerNext
  <2>3. CASE UNCHANGED <<phase, cur>>
    BY <1>2, <2>1, <2>3, AnnouncerStutters
  <2> QED
    BY <1>3, <2>2, <2>3
<1> QED
  BY <1>4, <1>5

\* A broadcast that is broken off; an issue whose analysis is cancelled has
\* missed its turn.
LEMMA BreakAnnounces ==
    ASSUME HandlerInv, AlertInv, SendRaises \/ Shutdown
    PROVE  UNCHANGED <<delivered, Past, Announcing>> \/ Alerts!AnnouncerNext
<1>1. /\ phase' \in {"sleeping", "stopped"} /\ Registered' = Registered
      /\ UNCHANGED delivered \/ (phase = "alerting" /\ Deliver(cur, Notifiers[pos]))
      /\ NoId \notin Ids
  BY RegistryAssumption DEF SendRaises, Shutdown, registryVars, Registered, RegistryAssumption
<1>2. CASE phase = "alerting" /\ Deliver(cur, Notifiers[pos])
  BY <1>1, <1>2, Told
<1>3. CASE UNCHANGED delivered /\ phase \in {"analyzing", "alerting"}
  <2>1. cur \in Registered /\ cur \in Ids /\ cur # NoId
    BY <1>1, <1>3 DEF HandlerInv, TypeOK, SchedulerTypeOK, RegistryTypeOK
  <2>2. CASE phase = "alerting"
    <3>1. Announcing = cur /\ Announcing' = NoId /\ Past' = Past
      BY <1>1, <2>2 DEF Announcing, Past
    <3>2. Alerts!FallSilent
      BY <1>3, <2>1, <3>1 DEF Alerts!FallSilent, Announcing, Past
    <3> QED
      BY <3>2 DEF Alerts!AnnouncerNext
  <2>3. CASE phase = "analyzing"
    <3>1. /\ Announcing = NoId /\ Announcing' = NoId /\ cur \notin Past
          /\ Past' = Past \cup {cur}
      BY <1>1, <2>1, <2>3 DEF Announcing, Past
    <3>2. Alerts!TakeTurn(cur)
      BY <1>3, <3>1 DEF Alerts!TakeTurn, Announcing, Past
    <3> QED
      BY <2>1, <3>2 DEF Alerts!AnnouncerNext
  <2> QED
    BY <1>3, <2>2, <2>3
<1>4. CASE UNCHANGED delivered /\ phase \notin {"analyzing", "alerting"}
  BY <1>1, <1>4, AnnouncerStutters
<1> QED
  BY <1>1, <1>2, <1>3, <1>4

\* Every step is one of the announcer's steps, or none.
LEMMA AnnouncerStep ==
    ASSUME HandlerInv, AlertInv, [Next]_vars
    PROVE  UNCHANGED <<delivered, Past, Announcing>> \/ Alerts!AnnouncerNext
<1>1. CASE SchedulerStep
  BY <1>1, TickAnnounces, SendAnnounces, BreakAnnounces DEF SchedulerStep
<1>2. CASE Shutdown
  BY <1>2, BreakAnnounces
<1>3. CASE \/ EnvironmentStep
           \/ OnReady /\ UNCHANGED <<registryVars, schedulerVars>>
           \/ UNCHANGED vars
  <2>1. UNCHANGED <<delivered, phase, cur, issues>>
    BY <1>3 DEF EnvironmentStep, CooldownExpires, AnomalyAppears, AnomalyClears, OnReady,
                vars, notifierVars, schedulerVars, registryVars
  <2> QED
    BY <2>1, AnnouncerStutters DEF Registered
<1>4. CASE /\ OperatorStep \/ \E h \in Handlers : HandlerStep(h)
           /\ UNCHANGED <<schedulerVars, notifierVars>>
  <2>1. UNCHANGED registryVars \/ \E i \in Registered : \E r : Put(i, r)
    BY <1>4, BotsRegistry DEF Rewrites
  <2>2. Registered' = Registered
    BY <2>1, PutThere DEF registryVars, Registered
  <2>3. UNCHANGED <<delivered, phase, cur>>
    BY <1>4 DEF schedulerVars, notifierVars
  <2> QED
    BY <2>2, <2>3, AnnouncerStutters
<1>5. CASE Restart
  <2>1. Registered' = {} /\ phase' = "sleeping" /\ delivered' = NothingDelivered
    BY <1>5 DEF Restart, Registered, EmptyRegistry
  <2>2. Past' = {} /\ Announcing' = NoId
    BY <2>1 DEF Past, Announcing
  <2>3. Alerts!Forget
    BY <2>1, <2>2 DEF Alerts!Forget, Alerts!NothingTold, NothingDelivered, Past, Announcing
  <2> QED
    BY <2>3 DEF Alerts!AnnouncerNext
<1> QED
  BY <1>1, <1>2, <1>3, <1>4, <1>5 DEF Next

\* Whatever raises, cools down, is redetected, cancelled or shut down, and
\* however many anomalies, notifiers and handlers there are: the alerts are
\* those of an announcer that gives every issue one turn.
THEOREM ImplementsAnnouncer == Spec => AnnouncesOnce
<1>1. Init => Alerts!AnnouncerInit
  BY DEF Init, Registered, EmptyRegistry, NothingDelivered, Alerts!AnnouncerInit,
         Alerts!NothingTold
<1>2. ASSUME HandlerInv, AlertInv, [Next]_vars
      PROVE  [Alerts!AnnouncerNext]_(Alerts!announcerVars)
  BY <1>2, AnnouncerStep DEF Alerts!announcerVars, Past, Announcing
<1> QED
  BY <1>1, <1>2, HandlerInvAlways, AlertAlways, PTL
     DEF Spec, AnnouncesOnce, Alerts!AnnouncerSpec

=============================================================================
