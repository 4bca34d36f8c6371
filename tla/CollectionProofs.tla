-------------------------- MODULE CollectionProofs --------------------------
(***************************************************************************)
(* Theorems about Collection, for any number of servers, hosts, bot        *)
(* commands, faults and connections: the state is well typed, every step   *)
(* of a coroutine is one towards its end, and no more connections are left *)
(* open than the races for them explain.                                   *)
(***************************************************************************)
EXTENDS Collection, FiniteSetTheorems, TLAPS

LEMMA Constants ==
    /\ \A t \in Tasks : HostOf[t] \in Hosts /\ t[2] \in Servers
    /\ \A s \in Servers : LastCommand[s] \in Nat
    /\ Links \in Nat \ {0}
BY SSHAssumption, CollectionAssumption DEF SSHAssumption, CollectionAssumption, Gathers

\* The states a coroutine may be in inside SSHManager.run.
LEMMA Uses ==
    /\ Free # Connecting /\ Free.stage = "free" /\ Connecting.stage = "connecting"
    /\ Free.on = 0 /\ Connecting.on = 0
    /\ \A n : /\ Running(n).stage = "running" /\ Running(n).on = n
              /\ Running(n) # Free /\ Running(n) # Connecting
BY DEF Free, Connecting, Running

LEMMA Coroutine ==
    ASSUME NEW p \in Places, NEW n \in Nat, NEW b \in BOOLEAN
    PROVE  /\ At(p, n, b) \in [place: Places, at: Nat, blind: BOOLEAN]
           /\ At(p, n, b).place = p /\ At(p, n, b).at = n
BY DEF At

\* A connection that is in use or cached has been opened.
Opened ==
    /\ \A h \in Hosts : cache[h] # 0 => link[h][cache[h]] # "unused"
    /\ \A t \in Tasks : use[t].on # 0 => link[HostOf[t]][use[t].on] # "unused"

\* What the connections of a host may have become in a step: none is as if it
\* had never been opened.
LinksGrow ==
    /\ link' \in [Hosts -> [1..Links -> LinkStates]]
    /\ \A h \in Hosts, n \in 1..Links : link[h][n] # "unused" => link'[h][n] # "unused"

\* What was open stays as good as opened for those who leave cache and use as
\* they were.
LEMMA OpenedStays ==
    ASSUME SSHTypeOK, Opened, LinksGrow
    PROVE  /\ \A h \in Hosts : cache[h] # 0 => link'[h][cache[h]] # "unused"
           /\ \A t \in Tasks : use[t].on # 0 => link'[HostOf[t]][use[t].on] # "unused"
<1>1. \A h \in Hosts : cache[h] # 0 => cache[h] \in 1..Links
  BY Constants DEF SSHTypeOK
<1>2. ASSUME NEW t \in Tasks, use[t].on # 0 PROVE use[t].on \in 1..Links
  <2>1. use[t] \in {Free, Connecting} \cup {Running(n) : n \in 1..Links}
    BY DEF SSHTypeOK
  <2> QED
    BY <1>2, <2>1, Uses
<1> QED
  BY <1>1, <1>2, Constants DEF Opened, LinksGrow

\* Looking for a connection leaves the coroutine with one that has a socket,
\* or connecting.
LEMMA AcquireEffect ==
    ASSUME SSHTypeOK, Opened, LinksGrow, NEW t \in Tasks, Acquire(t)
    PROVE  /\ cache' \in [Hosts -> 0..Links]
           /\ use' \in [Tasks -> {Free, Connecting} \cup {Running(n) : n \in 1..Links}]
           /\ \A u \in Tasks \ {t} : use'[u] = use[u]
           /\ use'[t] # Free
           /\ Opened'
<1> DEFINE h == HostOf[t]
<1>1. h \in Hosts /\ cache[h] \in 0..Links /\ Links \in Nat
  BY Constants DEF SSHTypeOK
<1>2. CASE cache[h] # 0 /\ HasSocket(h, cache[h])
  <2>1. use' = [use EXCEPT ![t] = Running(cache[h])] /\ cache' = cache
    BY <1>2 DEF Acquire
  <2>2. link'[h][cache[h]] \in {"open", "stale"} /\ cache[h] \in 1..Links
    BY <1>1, <1>2 DEF HasSocket
  <2>3. use'[t] = Running(cache[h]) /\ \A u \in Tasks \ {t} : use'[u] = use[u]
    BY <2>1 DEF SSHTypeOK
  <2>4. use' \in [Tasks -> {Free, Connecting} \cup {Running(n) : n \in 1..Links}]
    BY <2>1, <2>2 DEF SSHTypeOK
  <2>5. Opened'
    BY <2>1, <2>2, <2>3, Uses, OpenedStays DEF Opened
  <2> QED
    BY <1>1, <2>1, <2>2, <2>3, <2>4, <2>5, Uses DEF SSHTypeOK
<1>3. CASE ~(cache[h] # 0 /\ HasSocket(h, cache[h]))
  <2>1. use' = [use EXCEPT ![t] = Connecting] /\ cache' = [cache EXCEPT ![h] = 0]
    BY <1>3 DEF Acquire
  <2>2. use'[t] = Connecting /\ \A u \in Tasks \ {t} : use'[u] = use[u]
    BY <2>1 DEF SSHTypeOK
  <2>3. cache' \in [Hosts -> 0..Links]
    BY <1>1, <2>1 DEF SSHTypeOK
  <2>4. Opened'
    BY <2>1, <2>2, Uses, OpenedStays DEF Opened, SSHTypeOK
  <2> QED
    BY <2>1, <2>2, <2>3, <2>4, Uses DEF SSHTypeOK
<1> QED
  BY <1>2, <1>3

-----------------------------------------------------------------------------

\* One coroutine t goes on to another command, looking for a connection.
LEMMA GoesOn ==
    ASSUME TypeOK, UNCHANGED up, LinksGrow, NEW t \in Tasks, Acquire(t),
           NEW n \in 1..LastCommand[t[2]], NEW b \in BOOLEAN,
           col' = [col EXCEPT ![t] = At("ssh", n, b)]
    PROVE  TypeOK'
<1>1. SSHTypeOK /\ Opened
  BY DEF TypeOK, Opened
<1>2. /\ cache' \in [Hosts -> 0..Links]
      /\ use' \in [Tasks -> {Free, Connecting} \cup {Running(m) : m \in 1..Links}]
      /\ \A u \in Tasks \ {t} : use'[u] = use[u]
      /\ use'[t] # Free
      /\ Opened'
  BY <1>1, AcquireEffect
<1>3. SSHTypeOK'
  BY <1>1, <1>2 DEF SSHTypeOK, LinksGrow
<1>4. At("ssh", n, b) \in [place: Places, at: Nat, blind: BOOLEAN]
      /\ At("ssh", n, b).place = "ssh" /\ At("ssh", n, b).at = n
  BY Constants, Coroutine DEF Places
<1>5. /\ col' \in [Tasks -> [place: Places, at: Nat, blind: BOOLEAN]]
      /\ col'[t].place = "ssh" /\ col'[t].at = n
      /\ \A u \in Tasks \ {t} : col'[u] = col[u]
  BY <1>4 DEF TypeOK
<1>6. \A u \in Tasks :
        /\ (use'[u] # Free) <=> (col'[u].place = "ssh")
        /\ col'[u].at \in IF col'[u].place = "ssh" THEN 1..LastCommand[u[2]] ELSE {0}
  BY <1>2, <1>5, Constants DEF TypeOK
<1>7. TypeOK'
  BY <1>2, <1>3, <1>5, <1>6 DEF TypeOK, Opened
<1> QED
  BY <1>7

\* Coroutines that are outside SSHManager.run, or leave it, start nothing.
LEMMA LeavesRun ==
    ASSUME TypeOK, UNCHANGED <<up, cache>>, LinksGrow,
           use' \in [Tasks -> {Free, Connecting} \cup {Running(m) : m \in 1..Links}],
           col' \in [Tasks -> [place: Places, at: Nat, blind: BOOLEAN]],
           \A t \in Tasks : \/ use'[t] = use[t] /\ col'[t] = col[t]
                            \/ /\ use'[t] = Free /\ col'[t].place # "ssh"
                               /\ col'[t].at = 0
    PROVE  TypeOK'
<1>1. SSHTypeOK /\ Opened
  BY DEF TypeOK, Opened
<1>2. SSHTypeOK'
  BY <1>1 DEF SSHTypeOK, LinksGrow
<1>3. Opened'
  BY <1>1, OpenedStays, Uses DEF Opened
<1>4. \A t \in Tasks :
        /\ (use'[t] # Free) <=> (col'[t].place = "ssh")
        /\ col'[t].at \in IF col'[t].place = "ssh" THEN 1..LastCommand[t[2]] ELSE {0}
  BY Constants DEF TypeOK
<1> QED
  BY <1>2, <1>3, <1>4, Uses DEF TypeOK, Opened

\* What happens to connections while no coroutine moves.
LEMMA LinksChange ==
    ASSUME TypeOK, LinksGrow, UNCHANGED <<cache, use, col>>, up' \subseteq Hosts
    PROVE  TypeOK'
<1>1. SSHTypeOK /\ Opened
  BY DEF TypeOK, Opened
<1>2. SSHTypeOK' /\ Opened'
  BY <1>1, OpenedStays DEF SSHTypeOK, LinksGrow, Opened
<1> QED
  BY <1>2 DEF TypeOK, Opened

\* Connections only ever leave the state of being unused.
LEMMA LinksGrowing ==
    ASSUME SSHTypeOK,
           \/ UNCHANGED link
           \/ \E h \in Hosts, n \in 1..Links, s \in LinkStates \ {"unused"} :
                 link' = [link EXCEPT ![h][n] = s]
           \/ \E h \in Hosts : HostGoes(h)
    PROVE  LinksGrow
<1>1. link \in [Hosts -> [1..Links -> LinkStates]]
  BY DEF SSHTypeOK
<1>2. CASE UNCHANGED link
  BY <1>1, <1>2 DEF LinksGrow
<1>3. ASSUME NEW h \in Hosts, NEW n \in 1..Links, NEW s \in LinkStates \ {"unused"},
             link' = [link EXCEPT ![h][n] = s]
      PROVE  LinksGrow
  BY <1>1, <1>3 DEF LinksGrow
<1>4. ASSUME NEW h \in Hosts, HostGoes(h) PROVE LinksGrow
  <2>1. link' = [link EXCEPT ![h] =
                   [n \in 1..Links |-> IF link[h][n] = "open" THEN "stale" ELSE link[h][n]]]
    BY <1>4 DEF HostGoes
  <2> QED
    BY <1>1, <2>1 DEF LinksGrow, LinkStates
<1> QED
  BY <1>2, <1>3, <1>4

-----------------------------------------------------------------------------

LEMMA InitType == Init => TypeOK
<1> SUFFICES ASSUME Init PROVE TypeOK
  OBVIOUS
<1>1. /\ Idle \in [place: Places, at: Nat, blind: BOOLEAN]
      /\ Idle.place # "ssh" /\ Idle.at = 0
  BY Coroutine DEF Idle, At, Places
<1>2. SSHTypeOK
  BY Constants DEF Init, SSHInit, SSHTypeOK, LinkStates
<1>3. /\ \A h \in Hosts : cache[h] = 0
      /\ \A t \in Tasks : use[t] = Free /\ col[t] = Idle
      /\ col \in [Tasks -> [place: Places, at: Nat, blind: BOOLEAN]]
  BY <1>1 DEF Init, SSHInit
<1> QED
  BY <1>1, <1>2, <1>3, Uses, Constants DEF TypeOK

\* Gathers start and end, and an API call raises, outside SSHManager.run.
LEMMA OutsideRun ==
    ASSUME TypeOK,
           \/ \E g \in Gathers : StartGather(g) \/ EndGather(g)
           \/ \E t \in Tasks : ApiRaises(t)
    PROVE  TypeOK'
<1>1. /\ UNCHANGED <<up, cache, link, use>> /\ LinksGrow
      /\ use' \in [Tasks -> {Free, Connecting} \cup {Running(m) : m \in 1..Links}]
  <2>1. UNCHANGED sshVars
    BY DEF StartGather, EndGather, ApiRaises
  <2> QED
    BY <2>1, LinksGrowing DEF TypeOK, SSHTypeOK, sshVars
<1>2. \A t \in Tasks : col[t].place # "ssh" => use[t] = Free
  BY DEF TypeOK
<1>3. \A p \in {"api", "raised", "idle"} :
         /\ At(p, 0, FALSE) \in [place: Places, at: Nat, blind: BOOLEAN]
         /\ At(p, 0, FALSE).place # "ssh" /\ At(p, 0, FALSE).at = 0
  BY DEF At, Places
<1> DEFINE Moves ==
        /\ col' \in [Tasks -> [place: Places, at: Nat, blind: BOOLEAN]]
        /\ \A t \in Tasks : \/ col'[t] = col[t]
                            \/ /\ col[t].place # "ssh"
                               /\ col'[t].place # "ssh" /\ col'[t].at = 0
<1>4. Moves
  <2>1. ASSUME NEW g \in Gathers, StartGather(g) PROVE Moves
    <3>1. col' = [t \in Tasks |-> IF t[1] = g THEN At("api", 0, FALSE) ELSE col[t]]
          /\ \A t \in Members(g) : col[t] = At("idle", 0, FALSE)
      BY <2>1 DEF StartGather, Idle
    <3> QED
      BY <1>3, <3>1 DEF TypeOK, Members
  <2>2. ASSUME NEW g \in Gathers, EndGather(g) PROVE Moves
    <3>1. col' = [t \in Tasks |-> IF t[1] = g THEN At("idle", 0, FALSE) ELSE col[t]]
          /\ \A t \in Members(g) : col[t].place \in {"snapshot", "raised"}
      BY <2>2 DEF EndGather, Idle
    <3> QED
      BY <1>3, <3>1 DEF TypeOK, Members
  <2>3. ASSUME NEW t \in Tasks, ApiRaises(t) PROVE Moves
    <3>1. col' = [col EXCEPT ![t] = At("raised", 0, FALSE)] /\ col[t].place = "api"
      BY <2>3 DEF ApiRaises
    <3> QED
      BY <1>3, <3>1 DEF TypeOK
  <2> QED
    BY <2>1, <2>2, <2>3
<1> QED
  BY <1>1, <1>2, <1>4, LeavesRun

\* A coroutine turns to its next command, or is done.
LEMMA TurnEffect ==
    ASSUME TypeOK, UNCHANGED up, LinksGrow, NEW t \in Tasks,
           NEW n \in Nat \ {0}, NEW b \in BOOLEAN, Turn(t, n, b)
    PROVE  TypeOK'
<1>1. LastCommand[t[2]] \in Nat
  BY Constants
<1>2. CASE n <= LastCommand[t[2]]
  <2>1. col' = [col EXCEPT ![t] = At("ssh", n, b)] /\ Acquire(t)
    BY <1>2 DEF Turn
  <2>2. n \in 1..LastCommand[t[2]]
    BY <1>1, <1>2
  <2> QED
    BY <2>1, <2>2, GoesOn
<1>3. CASE ~(n <= LastCommand[t[2]])
  <2>1. /\ col' = [col EXCEPT ![t] = At("snapshot", 0, b)]
        /\ use' = [use EXCEPT ![t] = Free] /\ cache' = cache
    BY <1>3 DEF Turn
  <2>2. /\ At("snapshot", 0, b) \in [place: Places, at: Nat, blind: BOOLEAN]
        /\ At("snapshot", 0, b).place # "ssh" /\ At("snapshot", 0, b).at = 0
    BY DEF At, Places
  <2>3. /\ use' \in [Tasks -> {Free, Connecting} \cup {Running(m) : m \in 1..Links}]
        /\ use'[t] = Free /\ \A u \in Tasks \ {t} : use'[u] = use[u]
    BY <2>1 DEF TypeOK, SSHTypeOK
  <2>4. /\ col' \in [Tasks -> [place: Places, at: Nat, blind: BOOLEAN]]
        /\ col'[t].place # "ssh" /\ col'[t].at = 0
        /\ \A u \in Tasks \ {t} : col'[u] = col[u]
    BY <2>1, <2>2 DEF TypeOK
  <2> QED
    BY <2>1, <2>3, <2>4, LeavesRun
<1> QED
  BY <1>2, <1>3

\* A command that is over is followed by a later one, or by none.
LEMMA ProceedTurns ==
    ASSUME TypeOK, NEW t \in Tasks, use[t] # Free, NEW failed \in BOOLEAN,
           Proceed(t, failed)
    PROVE  \E n \in Nat \ {0}, b \in BOOLEAN : n > col[t].at /\ Turn(t, n, b)
<1> DEFINE n == IF failed THEN AfterFailure[t[2]][col[t].at] ELSE col[t].at + 1
<1>1. /\ col[t].at \in 1..LastCommand[t[2]] /\ LastCommand[t[2]] \in Nat
      /\ t[2] \in Servers /\ (col[t].blind \/ failed) \in BOOLEAN
  BY Constants DEF TypeOK
<1>2. AfterFailure[t[2]][col[t].at] \in (col[t].at + 1)..(LastCommand[t[2]] + 1)
  BY <1>1, CollectionAssumption DEF CollectionAssumption
<1>3. n \in Nat \ {0} /\ n > col[t].at
  BY <1>1, <1>2
<1>4. Turn(t, n, col[t].blind \/ failed)
  BY DEF Proceed
<1> QED
  BY <1>1, <1>3, <1>4

\* connect returns a connection nobody has had before.
LEMMA ConnectEffect ==
    ASSUME TypeOK, NEW t \in Tasks, Connect(t)
    PROVE  TypeOK'
<1> DEFINE h == HostOf[t]
<1>1. PICK n \in 1..Links :
         /\ link' = [link EXCEPT ![h][n] = "open"]
         /\ cache' = [cache EXCEPT ![h] = n]
         /\ use' = [use EXCEPT ![t] = Running(n)]
  BY DEF Connect, Connected, Fresh
<1>2. use[t] = Connecting /\ UNCHANGED <<up, col, adHoc, faults>> /\ h \in Hosts
  BY Constants DEF Connect, Connected
<1>3. SSHTypeOK /\ Opened /\ Links \in Nat
  BY Constants DEF TypeOK, Opened
<1>4. LinksGrow
  BY <1>1, <1>2, <1>3, LinksGrowing DEF LinkStates
<1>5. link'[h][n] = "open"
  BY <1>1, <1>2, <1>3 DEF SSHTypeOK
<1>6. SSHTypeOK'
  BY <1>1, <1>2, <1>3, <1>4 DEF SSHTypeOK, LinksGrow
<1>7. /\ use'[t] = Running(n) /\ \A u \in Tasks \ {t} : use'[u] = use[u]
      /\ cache'[h] = n /\ \A g \in Hosts \ {h} : cache'[g] = cache[g]
  BY <1>1, <1>2, <1>3 DEF SSHTypeOK
<1>8. Opened'
  BY <1>3, <1>4, <1>5, <1>7, Uses, OpenedStays DEF Opened
<1> QED
  BY <1>2, <1>6, <1>7, <1>8, Uses DEF TypeOK, Opened

-----------------------------------------------------------------------------

LEMMA CollectionStep ==
    ASSUME TypeOK, [Next]_vars
    PROVE  TypeOK'
<1>1. SSHTypeOK
  BY DEF TypeOK
<1>2. CASE UNCHANGED vars
  BY <1>1, <1>2, LinksGrowing, LinksChange DEF vars, sshVars, SSHTypeOK
<1>3. CASE \E g \in Gathers : StartGather(g) \/ EndGather(g)
  BY <1>3, OutsideRun
<1>4. ASSUME NEW t \in Tasks, ApiAnswers(t) PROVE TypeOK'
  <2>1. LinksGrow
    BY <1>1, <1>4, LinksGrowing DEF ApiAnswers
  <2>2. Turn(t, 1, FALSE) /\ UNCHANGED up
    BY <1>4 DEF ApiAnswers
  <2>3. 1 \in Nat \ {0}
    OBVIOUS
  <2> QED
    BY <2>1, <2>2, <2>3, TurnEffect
<1>5. CASE \E t \in Tasks : ApiRaises(t)
  BY <1>5, OutsideRun
<1>6. ASSUME NEW t \in Tasks, Connect(t) PROVE TypeOK'
  BY <1>6, ConnectEffect
<1>7. ASSUME NEW t \in Tasks, CannotConnect(t) \/ CommandFails(t) \/ CommandSucceeds(t)
      PROVE  TypeOK'
  <2>1. use[t] # Free /\ UNCHANGED <<up, adHoc, faults>>
        /\ \E failed \in BOOLEAN : Proceed(t, failed)
    BY <1>7, Uses DEF CannotConnect, CommandFails, CommandSucceeds,
                      ConnectFails, CommandRaises, CommandReturns
  <2>2. LinksGrow
    <3>1. CASE CommandFails(t)
      <4>1. link' = [link EXCEPT ![HostOf[t]][use[t].on] = "lost"]
            /\ use[t].stage = "running"
        BY <3>1 DEF CommandFails, CommandRaises
      <4>2. use[t].on \in 1..Links
        BY <1>1, <4>1, Uses DEF SSHTypeOK
      <4> QED
        BY <1>1, <4>1, <4>2, Constants, LinksGrowing DEF LinkStates
    <3>2. CASE CannotConnect(t) \/ CommandSucceeds(t)
      BY <1>1, <3>2, LinksGrowing
         DEF CannotConnect, CommandSucceeds, ConnectFails, CommandReturns
    <3> QED
      BY <1>7, <3>1, <3>2
  <2> QED
    BY <2>1, <2>2, ProceedTurns, TurnEffect
<1>8. CASE EnvironmentStep
  <2>1. LinksGrow
    <3>1. CASE \E h \in Hosts : HostGoes(h)
      BY <1>1, <3>1, LinksGrowing
    <3>2. CASE \E h \in Hosts : \E n \in 1..Links : LinkDrops(h, n)
      BY <1>1, <3>2, LinksGrowing DEF LinkDrops, LinkStates
    <3>3. CASE \E h \in Hosts : HostComes(h)
      BY <1>1, <3>3, LinksGrowing DEF HostComes
    <3> QED
      BY <1>8, <3>1, <3>2, <3>3 DEF EnvironmentStep
  <2>2. UNCHANGED <<cache, use, col>> /\ up' \subseteq Hosts
    BY <1>1, <1>8 DEF EnvironmentStep, HostGoes, HostComes, LinkDrops, SSHTypeOK
  <2> QED
    BY <2>1, <2>2, LinksChange
<1> QED
  BY <1>2, <1>3, <1>4, <1>5, <1>6, <1>7, <1>8 DEF Next, PromptStep

\* A coroutine is inside SSHManager.run exactly while it is at a command, and
\* whatever is cached or in use has been opened.
THEOREM TypeCorrect == Spec => []TypeOK
<1>1. TypeOK /\ [Next]_vars => TypeOK'
  BY CollectionStep
<1> QED
  BY <1>1, InitType, PTL DEF Spec

-----------------------------------------------------------------------------
(* Coroutines come closer to their end *)

\* CoroutinesAdvance, of one coroutine and one step.
AdvancesNow(t) ==
    Ahead(t) > 0 /\ <<col[t], use[t]>>' # <<col[t], use[t]>>
       => Ahead(t)' < Ahead(t)

\* What is ahead of a coroutine inside SSHManager.run, now and then.
LEMMA AheadNow ==
    ASSUME TypeOK, NEW t \in Tasks, col[t].place = "ssh"
    PROVE  /\ Ahead(t) \in Nat
           /\ Ahead(t) > 2 * (LastCommand[t[2]] - col[t].at)
           /\ use[t] = Connecting => Ahead(t) = 2 * (LastCommand[t[2]] - col[t].at) + 2
BY Constants DEF TypeOK, Ahead

LEMMA AheadThen ==
    ASSUME NEW t \in Tasks, NEW n \in Nat, LastCommand[t[2]] \in Nat,
           n <= LastCommand[t[2]], col'[t].place = "ssh", col'[t].at = n
    PROVE  /\ Ahead(t)' \in Nat /\ Ahead(t)' <= 2 * (LastCommand[t[2]] - n) + 2
           /\ use'[t] # Connecting => Ahead(t)' = 2 * (LastCommand[t[2]] - n) + 1
BY DEF Ahead

\* Turning to another command leaves the other coroutines where they are.
LEMMA OthersStay ==
    ASSUME TypeOK, NEW t \in Tasks, NEW n, NEW b, Turn(t, n, b)
    PROVE  \A u \in Tasks \ {t} : col'[u] = col[u] /\ use'[u] = use[u]
<1>1. /\ \E c : col' = [col EXCEPT ![t] = c]
      /\ \E c : use' = [use EXCEPT ![t] = c]
  BY DEF Turn, Acquire
<1> QED
  BY <1>1 DEF TypeOK, SSHTypeOK

\* It brings the coroutine itself closer to its end.
LEMMA TurnAdvances ==
    ASSUME TypeOK, NEW t \in Tasks, NEW n \in Nat, NEW b \in BOOLEAN, Turn(t, n, b),
           Ahead(t) \in Nat, Ahead(t) > 0, Ahead(t) > 2 * (LastCommand[t[2]] + 1 - n)
    PROVE  \A u \in Tasks : AdvancesNow(u)
<1>1. LastCommand[t[2]] \in Nat
  BY Constants
<1>2. Ahead(t)' < Ahead(t)
  <2>1. CASE n <= LastCommand[t[2]]
    <3>1. col'[t] = At("ssh", n, b)
      BY <2>1 DEF Turn, TypeOK
    <3>2. col'[t].place = "ssh" /\ col'[t].at = n
      BY <3>1 DEF At
    <3>3. Ahead(t)' \in Nat /\ Ahead(t)' <= 2 * (LastCommand[t[2]] - n) + 2
      BY <1>1, <2>1, <3>2, AheadThen
    <3> QED
      BY <1>1, <3>3
  <2>2. CASE ~(n <= LastCommand[t[2]])
    <3>1. col'[t] = At("snapshot", 0, b)
      BY <2>2 DEF Turn, TypeOK
    <3>2. Ahead(t)' = 0
      BY <3>1 DEF At, Ahead
    <3> QED
      BY <3>2
  <2> QED
    BY <2>1, <2>2
<1> QED
  BY <1>2, OthersStay DEF AdvancesNow

LEMMA AdvanceStep ==
    ASSUME TypeOK, [Next]_vars
    PROVE  \A t \in Tasks : AdvancesNow(t)
<1>1. CASE UNCHANGED <<col, use>>
  BY <1>1 DEF AdvancesNow
<1>2. ASSUME NEW g \in Gathers, StartGather(g) \/ EndGather(g), NEW u \in Tasks
      PROVE  AdvancesNow(u)
  <2>1. u \in Members(g) => Ahead(u) = 0
    BY <1>2 DEF StartGather, EndGather, Ahead, Idle, At
  <2>2. u \notin Members(g) => col'[u] = col[u]
    BY <1>2 DEF StartGather, EndGather, Members
  <2>3. use' = use
    BY <1>2 DEF StartGather, EndGather, sshVars
  <2> QED
    BY <2>1, <2>2, <2>3 DEF AdvancesNow
<1>3. ASSUME NEW t \in Tasks, ApiAnswers(t) PROVE \A u \in Tasks : AdvancesNow(u)
  <2>1. LastCommand[t[2]] \in Nat /\ Ahead(t) = 2 * LastCommand[t[2]] + 1
    BY <1>3, Constants DEF ApiAnswers, Ahead
  <2>2. Turn(t, 1, FALSE)
    BY <1>3 DEF ApiAnswers
  <2>3. Ahead(t) \in Nat /\ Ahead(t) > 0 /\ Ahead(t) > 2 * (LastCommand[t[2]] + 1 - 1)
    BY <2>1
  <2> QED
    BY <2>2, <2>3, TurnAdvances
<1>4. ASSUME NEW t \in Tasks, ApiRaises(t) PROVE \A u \in Tasks : AdvancesNow(u)
  <2>1. LastCommand[t[2]] \in Nat /\ Ahead(t) = 2 * LastCommand[t[2]] + 1
    BY <1>4, Constants DEF ApiRaises, Ahead
  <2>2. Ahead(t)' = 0
    BY <1>4 DEF ApiRaises, TypeOK, At, Ahead
  <2>3. use' = use /\ \A u \in Tasks \ {t} : col'[u] = col[u]
    BY <1>4 DEF ApiRaises, TypeOK, sshVars
  <2> QED
    BY <2>1, <2>2, <2>3 DEF AdvancesNow
<1>5. ASSUME NEW t \in Tasks, Connect(t) PROVE \A u \in Tasks : AdvancesNow(u)
  <2>1. /\ use[t] = Connecting /\ UNCHANGED col
        /\ \E n \in 1..Links : use' = [use EXCEPT ![t] = Running(n)]
    BY <1>5 DEF Connect, Connected, Fresh
  <2>2. /\ use'[t] # Connecting
        /\ \A u \in Tasks \ {t} : use'[u] = use[u]
    BY <2>1, Uses DEF TypeOK, SSHTypeOK
  <2>3. /\ col[t].place = "ssh" /\ col[t].at \in Nat /\ LastCommand[t[2]] \in Nat
        /\ col[t].at <= LastCommand[t[2]]
    BY <2>1, Uses, Constants DEF TypeOK
  <2>4. Ahead(t)' < Ahead(t)
    BY <2>1, <2>2, <2>3, AheadNow, AheadThen
  <2> QED
    BY <2>1, <2>2, <2>4 DEF AdvancesNow
<1>6. ASSUME NEW t \in Tasks, CannotConnect(t) \/ CommandFails(t) \/ CommandSucceeds(t)
      PROVE  \A u \in Tasks : AdvancesNow(u)
  <2>1. use[t] # Free /\ \E failed \in BOOLEAN : Proceed(t, failed)
    BY <1>6, Uses DEF CannotConnect, CommandFails, CommandSucceeds,
                      ConnectFails, CommandRaises, CommandReturns
  <2>2. PICK n \in Nat \ {0}, b \in BOOLEAN : n > col[t].at /\ Turn(t, n, b)
    BY <2>1, ProceedTurns
  <2>3. /\ col[t].place = "ssh" /\ col[t].at \in Nat /\ LastCommand[t[2]] \in Nat
        /\ col[t].at <= LastCommand[t[2]]
    BY <2>1, Constants DEF TypeOK
  <2>4. Ahead(t) \in Nat /\ Ahead(t) > 2 * (LastCommand[t[2]] - col[t].at)
    BY <2>3, AheadNow
  <2>5. Ahead(t) > 0 /\ Ahead(t) > 2 * (LastCommand[t[2]] + 1 - n)
    BY <2>2, <2>3, <2>4
  <2> QED
    BY <2>2, <2>4, <2>5, TurnAdvances
<1>7. CASE EnvironmentStep \/ UNCHANGED vars
  BY <1>1, <1>7 DEF EnvironmentStep, HostGoes, HostComes, LinkDrops, vars, sshVars
<1> QED
  BY <1>2, <1>3, <1>4, <1>5, <1>6, <1>7 DEF Next, PromptStep

\* For any number of servers, commands and faults: whatever moves a coroutine
\* that is collecting brings it closer to its end.
THEOREM NoneGoesBack == Spec => CoroutinesAdvance
<1>1. ASSUME TypeOK, [Next]_vars
      PROVE  [\A t \in Tasks :
                 Ahead(t) > 0 /\ <<col[t], use[t]>>' # <<col[t], use[t]>>
                    => Ahead(t)' < Ahead(t)]_vars
  BY <1>1, AdvanceStep DEF AdvancesNow
<1> QED
  BY <1>1, TypeCorrect, PTL DEF Spec, CoroutinesAdvance

-----------------------------------------------------------------------------
(* Connections left open *)

Users(h) == {u \in Tasks : HostOf[u] = h}
OpenOn(h) == {n \in 1..Links : link[h][n] = "open"}
Waiting(h) == {u \in Users(h) : use[u] = Connecting}

\* A coroutine that looks for a connection would find the cached one.
Usable(h) == cache[h] # 0 /\ link[h][cache[h]] \in {"open", "stale"}

\* What the faults have left behind, at most.
Left(h) == faults * (Cardinality(Users(h)) - 1)

\* Nobody starts to connect while the cached connection is usable.  It stops
\* being so by a fault only, and one that is stale is the last of its time.
LeaksOn(h) ==
    /\ Usable(h) => Cardinality(OpenOn(h)) + Cardinality(Waiting(h))
                       <= Cardinality(Users(h)) + Left(h)
    /\ ~Usable(h) => Cardinality(OpenOn(h)) <= Left(h)
    /\ cache[h] # 0 /\ link[h][cache[h]] = "stale" => OpenOn(h) = {}

LeaksInv ==
    /\ TypeOK /\ faults \in Nat
    /\ \A t \in Tasks : LeaksOn(HostOf[t])

\* The sets are finite, and a host that a coroutine uses has users.
LEMMA Sizes ==
    ASSUME NEW t \in Tasks, NEW S, S \subseteq OpenOn(HostOf[t]),
           NEW W, W \subseteq Users(HostOf[t])
    PROVE  /\ IsFiniteSet(OpenOn(HostOf[t])) /\ IsFiniteSet(Users(HostOf[t]))
           /\ IsFiniteSet(S) /\ Cardinality(S) \in Nat
           /\ Cardinality(S) <= Cardinality(OpenOn(HostOf[t]))
           /\ IsFiniteSet(W) /\ Cardinality(W) \in Nat
           /\ Cardinality(W) <= Cardinality(Users(HostOf[t]))
           /\ Cardinality(OpenOn(HostOf[t])) \in Nat
           /\ Cardinality(Users(HostOf[t])) \in Nat \ {0}
<1> DEFINE h == HostOf[t]
<1>1. IsFiniteSet(1..Links) /\ OpenOn(h) \subseteq 1..Links
  BY Constants, FS_Interval DEF OpenOn
<1>2. IsFiniteSet(OpenOn(h))
  BY <1>1, FS_Subset
<1>3. IsFiniteSet(Users(h))
  BY SSHAssumption, FS_Subset DEF SSHAssumption, Users
<1>4. Users(h) # {}
  BY DEF Users
<1> QED
  BY <1>2, <1>3, <1>4, FS_Subset, FS_CardinalityType, FS_EmptySet

\* Faults add to what may be left behind, each as much.
LEMMA LeftGrows ==
    ASSUME NEW t \in Tasks, faults \in Nat, faults' \in {faults, faults + 1}
    PROVE  /\ Left(HostOf[t]) \in Nat /\ Left(HostOf[t])' \in Nat
           /\ faults' = faults => Left(HostOf[t])' = Left(HostOf[t])
           /\ faults' = faults + 1 =>
                 Left(HostOf[t])' = Left(HostOf[t]) + Cardinality(Users(HostOf[t])) - 1
<1> DEFINE c == Cardinality(Users(HostOf[t])) - 1
<1>1. c \in Nat
  BY Sizes
<1>2. \A f \in Nat, d \in Nat : f * d \in Nat /\ (f + 1) * d = f * d + d
  OBVIOUS
<1>3. Left(HostOf[t]) = faults * c
  BY DEF Left
<1>4. Left(HostOf[t])' = faults' * c
  BY DEF Left, Users
<1>5. Cardinality(Users(HostOf[t])) = c + 1
  BY Sizes
<1> HIDE DEF c
<1>6. faults * c \in Nat /\ (faults + 1) * c = faults * c + c
  BY <1>1, <1>2
<1>7. CASE faults' = faults
  <2>1. Left(HostOf[t])' = faults * c
    BY <1>4, <1>7
  <2> QED
    BY <1>3, <1>6, <1>7, <2>1
<1>8. CASE faults' = faults + 1
  <2>1. Left(HostOf[t])' = faults * c + c
    BY <1>4, <1>6, <1>8
  <2> QED
    BY <1>1, <1>3, <1>5, <1>6, <1>8, <2>1
<1> QED
  BY <1>7, <1>8

\* A step that opens nothing and lets nobody in to connect while the cached
\* connection is usable; it may find out that a stale one is lost.
LEMMA LeaksKept ==
    ASSUME NEW t \in Tasks, LeaksOn(HostOf[t]), faults \in Nat,
           faults' \in {faults, faults + 1},
           OpenOn(HostOf[t])' \subseteq OpenOn(HostOf[t]),
           Usable(HostOf[t])' => /\ Usable(HostOf[t])
                                 /\ Waiting(HostOf[t])' \subseteq Waiting(HostOf[t]),
           Usable(HostOf[t]) /\ ~Usable(HostOf[t])' => OpenOn(HostOf[t]) = {},
           (cache[HostOf[t]] # 0 /\ link[HostOf[t]][cache[HostOf[t]]] = "stale")'
              => OpenOn(HostOf[t])' = {}
    PROVE  LeaksOn(HostOf[t])'
<1> DEFINE h == HostOf[t]
           o == Cardinality(OpenOn(h))
           w == Cardinality(Waiting(h))
           u == Cardinality(Users(h))
           l == Left(h)
           on == Cardinality(OpenOn(h)')
           wn == Cardinality(Waiting(h)')
           ln == Left(h)'
<1>1. o \in Nat /\ on \in Nat /\ on <= o /\ u \in Nat \ {0} /\ w \in Nat
  BY Sizes DEF Waiting
<1>2. l \in Nat /\ ln \in Nat /\ ln >= l
  BY <1>1, LeftGrows
<1>3. Users(h)' = Users(h)
  BY DEF Users
<1>4. ASSUME Usable(h)' PROVE on + wn <= u + ln
  <2>1. Waiting(h)' \subseteq Waiting(h) /\ IsFiniteSet(Waiting(h))
    BY <1>4, Sizes DEF Waiting
  <2>2. wn \in Nat /\ wn <= w
    BY <2>1, FS_Subset, FS_CardinalityType
  <2>3. o + w <= u + l
    BY <1>4 DEF LeaksOn
  <2> QED
    BY <1>1, <1>2, <2>2, <2>3
<1>5. ASSUME ~Usable(h)' PROVE on <= ln
  <2>1. CASE Usable(h)
    <3>1. OpenOn(h)' = {}
      BY <1>5, <2>1
    <3> QED
      BY <1>2, <3>1, FS_EmptySet
  <2>2. CASE ~Usable(h)
    <3>1. o <= l
      BY <2>2 DEF LeaksOn
    <3> QED
      BY <1>1, <1>2, <3>1
  <2> QED
    BY <2>1, <2>2
<1> QED
  BY <1>3, <1>4, <1>5 DEF LeaksOn

\* A step in which connections of a host are at most found out to be lost.
FoundLost(h) ==
    \A n \in 1..Links : \/ link'[h][n] = link[h][n]
                        \/ link[h][n] # "open" /\ link'[h][n] = "lost"

\* Looking for a connection, after a command or the API calls, or leaving.
LEMMA TurnLeaks ==
    ASSUME LeaksInv, TypeOK', faults' = faults, NEW t \in Tasks, NEW n, NEW b, Turn(t, n, b),
           \A u \in Tasks : FoundLost(HostOf[u]),
           \A h \in Hosts \ {HostOf[t]} : link'[h] = link[h],
           NEW g \in Tasks
    PROVE  LeaksOn(HostOf[g])'
<1> DEFINE h == HostOf[g]
<1>1. /\ h \in Hosts /\ cache[h] \in 0..Links /\ cache'[h] \in 0..Links
      /\ FoundLost(h) /\ LeaksOn(h) /\ faults \in Nat
  BY Constants DEF LeaksInv, TypeOK, SSHTypeOK
<1>2. OpenOn(h)' \subseteq OpenOn(h)
  BY <1>1 DEF FoundLost, OpenOn
<1>3. \/ cache'[h] = cache[h]
      \/ h = HostOf[t] /\ cache'[h] = 0 /\ (cache[h] = 0 \/ ~HasSocket(h, cache[h]))
  BY <1>1 DEF Turn, Acquire, LeaksInv, TypeOK, SSHTypeOK
<1>4. Usable(h)' => Usable(h)
  BY <1>1, <1>3, Constants DEF Usable, FoundLost
<1>5. ASSUME Usable(h)' PROVE Waiting(h)' \subseteq Waiting(h)
  <2>1. \A u \in Tasks \ {t} : use'[u] = use[u]
    BY OthersStay DEF LeaksInv
  <2>2. HostOf[t] = h => use'[t] # Connecting
    <3>1. CASE HostOf[t] = h
      <4>1. cache'[h] # 0 /\ HasSocket(h, cache'[h])
        BY <1>5 DEF Usable, HasSocket
      <4>2. cache'[h] = cache[h]
        BY <1>3, <4>1
      <4>3. use' \in {[use EXCEPT ![t] = Running(cache[h])], [use EXCEPT ![t] = Free]}
        BY <3>1, <4>1, <4>2 DEF Turn, Acquire
      <4> QED
        BY <4>3, Uses DEF LeaksInv, TypeOK, SSHTypeOK
    <3> QED
      BY <3>1
  <2> QED
    BY <2>1, <2>2 DEF Waiting, Users
<1>6. ASSUME Usable(h), ~Usable(h)' PROVE OpenOn(h) = {}
  <2>1. link'[h][cache[h]] \notin {"open", "stale"}
    BY <1>3, <1>6 DEF Usable, HasSocket
  <2>2. link[h][cache[h]] = "stale"
    BY <1>1, <1>6, <2>1, Constants DEF Usable, FoundLost
  <2> QED
    BY <1>1, <1>6, <2>2 DEF LeaksOn, Usable
<1>7. ASSUME (cache[h] # 0 /\ link[h][cache[h]] = "stale")' PROVE OpenOn(h)' = {}
  <2>1. cache[h] # 0 /\ link[h][cache[h]] = "stale"
    BY <1>1, <1>3, <1>7, Constants DEF FoundLost
  <2> QED
    BY <1>1, <1>2, <2>1 DEF LeaksOn
<1> HIDE DEF h
<1> QED
  BY <1>1, <1>2, <1>4, <1>5, <1>6, <1>7, LeaksKept DEF h

\* A step that concerns no coroutine and no connection of the host.
LEMMA SameLeaks ==
    ASSUME LeaksInv, faults' \in {faults, faults + 1}, NEW g \in Tasks,
           link'[HostOf[g]] = link[HostOf[g]], cache'[HostOf[g]] = cache[HostOf[g]],
           \A u \in Users(HostOf[g]) : use'[u] = use[u]
    PROVE  LeaksOn(HostOf[g])'
<1> DEFINE h == HostOf[g]
<1>1. /\ OpenOn(h)' = OpenOn(h) /\ Waiting(h)' = Waiting(h) /\ Usable(h)' = Usable(h)
      /\ (cache[h] # 0 /\ link[h][cache[h]] = "stale")'
            = (cache[h] # 0 /\ link[h][cache[h]] = "stale")
  BY DEF OpenOn, Waiting, Users, Usable
<1>2. LeaksOn(h) /\ faults \in Nat
  BY DEF LeaksInv
<1>3. cache[h] # 0 /\ link[h][cache[h]] = "stale" => OpenOn(h) = {}
  BY <1>2 DEF LeaksOn
<1> QED
  BY <1>1, <1>2, <1>3, LeaksKept

\* One coroutine stops waiting, and its connection is cached.
LEMMA ConnectLeaks ==
    ASSUME LeaksInv, NEW t \in Tasks, Connect(t), NEW g \in Tasks
    PROVE  LeaksOn(HostOf[g])'
<1> DEFINE h == HostOf[t]
<1>1. PICK n \in 1..Links :
         /\ link[h][n] # "open"
         /\ link' = [link EXCEPT ![h][n] = "open"]
         /\ cache' = [cache EXCEPT ![h] = n]
         /\ use' = [use EXCEPT ![t] = Running(n)]
  BY DEF Connect, Connected, Fresh
<1>2. use[t] = Connecting /\ faults' = faults /\ h \in Hosts
  BY Constants DEF Connect, Connected
<1>3. SSHTypeOK /\ faults \in Nat /\ LeaksOn(h) /\ n # 0
  BY <1>1, Constants DEF LeaksInv, TypeOK
<1>4. CASE HostOf[g] # h
  BY <1>1, <1>2, <1>3, <1>4, SameLeaks, Constants DEF SSHTypeOK, Users
<1>5. CASE HostOf[g] = h
  <2>1. link'[h][n] = "open" /\ cache'[h] = n
        /\ \A m \in 1..Links : m # n => link'[h][m] = link[h][m]
    BY <1>1, <1>2, <1>3 DEF SSHTypeOK
  <2>2. use'[t] # Connecting /\ \A u \in Tasks \ {t} : use'[u] = use[u]
    BY <1>1, <1>3, Uses DEF SSHTypeOK
  <2>3. OpenOn(h)' = OpenOn(h) \cup {n} /\ n \notin OpenOn(h)
    BY <1>1, <2>1 DEF OpenOn
  <2>4. Waiting(h)' = Waiting(h) \ {t} /\ t \in Waiting(h)
    BY <1>2, <2>2 DEF Waiting, Users
  <2>5. /\ Cardinality(OpenOn(h)') = Cardinality(OpenOn(h)) + 1
        /\ Cardinality(Waiting(h)') = Cardinality(Waiting(h)) - 1
    <3>1. IsFiniteSet(OpenOn(h)) /\ IsFiniteSet(Waiting(h))
      BY Sizes DEF Waiting
    <3> QED
      BY <2>3, <2>4, <3>1, FS_AddElement, FS_RemoveElement
  <2>6. /\ Cardinality(OpenOn(h)) \in Nat /\ Cardinality(Waiting(h)) \in Nat
        /\ Cardinality(Waiting(h)) <= Cardinality(Users(h))
        /\ Cardinality(Users(h)) \in Nat
    BY Sizes DEF Waiting
  <2>7. Left(h) \in Nat /\ Left(h)' = Left(h) /\ Users(h)' = Users(h)
    BY <1>2, <1>3, LeftGrows DEF Users
  <2>8. Cardinality(OpenOn(h)) + Cardinality(Waiting(h)) <= Cardinality(Users(h)) + Left(h)
    <3>1. CASE Usable(h)
      BY <1>3, <3>1 DEF LeaksOn
    <3>2. CASE ~Usable(h)
      <4>1. Cardinality(OpenOn(h)) <= Left(h)
        BY <1>3, <3>2 DEF LeaksOn
      <4> QED
        BY <2>6, <2>7, <4>1
    <3> QED
      BY <3>1, <3>2
  <2>9. Cardinality(OpenOn(h)') + Cardinality(Waiting(h)') <= Cardinality(Users(h)') + Left(h)'
    BY <2>5, <2>6, <2>7, <2>8
  <2>10. Usable(h)' /\ link'[h][cache'[h]] # "stale"
    BY <1>3, <2>1 DEF Usable
  <2> QED
    BY <1>5, <2>9, <2>10 DEF LeaksOn
<1> QED
  BY <1>4, <1>5

\* A fault frees the coroutines to open one connection each, at the price of
\* one that was open, or of all.
LEMMA FaultLeaks ==
    ASSUME LeaksInv, NEW h \in Hosts, Fault,
           HostGoes(h) \/ \E n \in 1..Links : LinkDrops(h, n),
           NEW g \in Tasks
    PROVE  LeaksOn(HostOf[g])'
<1>1. SSHTypeOK /\ faults \in Nat /\ LeaksOn(HostOf[g]) /\ faults' = faults + 1
  BY DEF LeaksInv, TypeOK, Fault
<1>2. UNCHANGED <<cache, use>>
  BY DEF HostGoes, LinkDrops
<1>3. CASE HostOf[g] # h
  <2>1. link'[HostOf[g]] = link[HostOf[g]]
    BY <1>1, <1>3, Constants DEF SSHTypeOK, HostGoes, LinkDrops
  <2> QED
    BY <1>1, <1>2, <2>1, SameLeaks
<1>4. CASE HostOf[g] = h
  <2> DEFINE o == Cardinality(OpenOn(h))
             on == Cardinality(OpenOn(h)')
             w == Cardinality(Waiting(h))
             u == Cardinality(Users(h))
             l == Left(h)
  <2>1. o \in Nat /\ w \in Nat /\ w <= u /\ u \in Nat \ {0} /\ IsFiniteSet(OpenOn(h))
    BY <1>4, Sizes DEF Waiting
  <2>2. /\ Left(h)' = l + u - 1 /\ l \in Nat /\ Users(h)' = Users(h)
        /\ Waiting(h)' = Waiting(h)
    BY <1>1, <1>2, <1>4, LeftGrows DEF Users, Waiting
  <2>3. CASE HostGoes(h)
    <3>1. link'[h] = [n \in 1..Links |-> IF link[h][n] = "open" THEN "stale" ELSE link[h][n]]
      BY <1>1, <2>3 DEF HostGoes, SSHTypeOK
    <3>2. OpenOn(h)' = {}
      BY <3>1 DEF OpenOn
    <3>3. on = 0
      BY <3>2, FS_EmptySet
    <3>4. 0 + w <= u + Left(h)' /\ 0 <= Left(h)'
      BY <2>1, <2>2
    <3> QED
      BY <1>4, <2>2, <3>2, <3>3, <3>4 DEF LeaksOn
  <2>4. ASSUME NEW n \in 1..Links, LinkDrops(h, n) PROVE LeaksOn(h)'
    <3>1. /\ link[h][n] = "open" /\ link'[h][n] = "lost"
          /\ \A m \in 1..Links : m # n => link'[h][m] = link[h][m]
      BY <1>1, <2>4 DEF LinkDrops, SSHTypeOK
    <3>2. OpenOn(h)' = OpenOn(h) \ {n} /\ n \in OpenOn(h)
      BY <3>1 DEF OpenOn
    <3>3. on = o - 1
      BY <2>1, <3>2, FS_RemoveElement
    <3>4. cache[h] \in 0..Links
      BY <1>1 DEF SSHTypeOK
    <3>5. ASSUME Usable(h)' PROVE on + w <= u + Left(h)'
      <4>1. Usable(h)
        BY <1>2, <3>1, <3>4, <3>5, Constants DEF Usable
      <4>2. o + w <= u + l
        BY <1>1, <1>4, <4>1 DEF LeaksOn
      <4> QED
        BY <2>1, <2>2, <3>3, <4>2
    <3>6. on <= Left(h)'
      <4>1. CASE Usable(h)
        <5>1. o + w <= u + l
          BY <1>1, <1>4, <4>1 DEF LeaksOn
        <5> QED
          BY <2>1, <2>2, <3>3, <5>1
      <4>2. CASE ~Usable(h)
        <5>1. o <= l
          BY <1>1, <1>4, <4>2 DEF LeaksOn
        <5> QED
          BY <2>1, <2>2, <3>3, <5>1
      <4> QED
        BY <4>1, <4>2
    <3>7. ASSUME cache'[h] # 0, link'[h][cache'[h]] = "stale" PROVE OpenOn(h)' = {}
      <4>1. link[h][cache[h]] = "stale" /\ cache[h] # 0
        BY <1>2, <3>1, <3>4, <3>7, Constants
      <4>2. OpenOn(h) = {}
        BY <1>1, <1>4, <4>1 DEF LeaksOn
      <4> QED
        BY <3>2, <4>2
    <3> QED
      BY <2>2, <3>5, <3>6, <3>7 DEF LeaksOn
  <2> QED
    BY <1>4, <2>3, <2>4
<1> QED
  BY <1>3, <1>4

LEMMA LeaksStep ==
    ASSUME LeaksInv, [Next]_vars
    PROVE  LeaksInv'
<1>1. TypeOK /\ SSHTypeOK /\ faults \in Nat /\ TypeOK'
  BY CollectionStep DEF LeaksInv, TypeOK
<1> DEFINE Kept == \A g \in Tasks : LeaksOn(HostOf[g])'
<1>2. ASSUME faults' = faults, UNCHANGED <<cache, link, use>> PROVE Kept
  BY <1>2, SameLeaks
<1> HIDE DEF Kept
<1>3. ASSUME UNCHANGED vars \/ \E g \in Gathers : StartGather(g) \/ EndGather(g)
      PROVE  Kept
  <2>1. faults' = faults /\ UNCHANGED sshVars
    BY <1>3 DEF vars, StartGather, EndGather
  <2> QED
    BY <1>2, <2>1 DEF sshVars
<1>4. ASSUME NEW t \in Tasks, ApiRaises(t) PROVE Kept
  BY <1>2, <1>4 DEF ApiRaises, sshVars
<1>5. ASSUME NEW t \in Tasks, ApiAnswers(t) PROVE Kept
  <2>1. /\ Turn(t, 1, FALSE) /\ faults' = faults /\ link' = link
        /\ \A u \in Tasks : FoundLost(HostOf[u])
    BY <1>5 DEF ApiAnswers, FoundLost
  <2> QED
    BY <1>1, <2>1, TurnLeaks DEF Kept
<1>6. ASSUME NEW t \in Tasks, CannotConnect(t) \/ CommandFails(t) \/ CommandSucceeds(t)
      PROVE  Kept
  <2>1. use[t] # Free /\ faults' = faults /\ \E failed \in BOOLEAN : Proceed(t, failed)
    BY <1>6, Uses DEF CannotConnect, CommandFails, CommandSucceeds,
                      ConnectFails, CommandRaises, CommandReturns
  <2>2. PICK n \in Nat \ {0}, b \in BOOLEAN : Turn(t, n, b)
    BY <1>1, <2>1, ProceedTurns
  <2>3. \/ link' = link
        \/ /\ link[HostOf[t]][use[t].on] # "open"
           /\ link' = [link EXCEPT ![HostOf[t]][use[t].on] = "lost"]
    BY <1>6 DEF CannotConnect, CommandFails, CommandSucceeds,
                ConnectFails, CommandRaises, CommandReturns
  <2>4. /\ \A u \in Tasks : FoundLost(HostOf[u])
        /\ \A h \in Hosts \ {HostOf[t]} : link'[h] = link[h]
    <3>1. HostOf[t] \in Hosts /\ \A u \in Tasks : HostOf[u] \in Hosts
      BY Constants
    <3>2. CASE link' = link
      BY <3>2 DEF FoundLost
    <3>3. CASE /\ link[HostOf[t]][use[t].on] # "open"
               /\ link' = [link EXCEPT ![HostOf[t]][use[t].on] = "lost"]
      BY <1>1, <3>1, <3>3 DEF FoundLost, SSHTypeOK
    <3> QED
      BY <2>3, <3>2, <3>3
  <2> QED
    BY <1>1, <2>1, <2>2, <2>4, TurnLeaks DEF Kept
<1>7. ASSUME NEW t \in Tasks, Connect(t) PROVE Kept
  BY <1>7, ConnectLeaks DEF Kept
<1>8. ASSUME EnvironmentStep PROVE Kept
  <2>1. CASE faults' = faults /\ \E h \in Hosts : HostComes(h)
    BY <1>2, <2>1 DEF HostComes
  <2>2. CASE Fault /\ \E h \in Hosts : HostGoes(h) \/ \E n \in 1..Links : LinkDrops(h, n)
    BY <2>2, FaultLeaks DEF Kept
  <2> QED
    BY <1>8, <2>1, <2>2 DEF EnvironmentStep
<1>9. faults' \in Nat
  <2>1. faults' = faults \/ faults' = faults + 1
    BY DEF Next, vars, PromptStep, EnvironmentStep, Fault, StartGather, EndGather,
           ApiAnswers, ApiRaises, Connect, CannotConnect, CommandFails, CommandSucceeds
  <2> QED
    BY <1>1, <2>1
<1>10. Kept
  BY <1>3, <1>4, <1>5, <1>6, <1>7, <1>8 DEF Next, PromptStep
<1> QED
  BY <1>1, <1>9, <1>10 DEF LeaksInv, Kept

LEMMA LeaksInit == Init => LeaksInv
<1> SUFFICES ASSUME Init PROVE LeaksInv
  OBVIOUS
<1>1. TypeOK /\ faults = 0
  BY InitType DEF Init
<1>2. ASSUME NEW t \in Tasks PROVE LeaksOn(HostOf[t])
  <2> DEFINE h == HostOf[t]
  <2>1. h \in Hosts /\ cache[h] = 0 /\ \A n \in 1..Links : link[h][n] = "unused"
    BY Constants DEF Init, SSHInit
  <2>2. OpenOn(h) = {} /\ ~Usable(h)
    BY <2>1 DEF OpenOn, Usable
  <2>3. Cardinality(OpenOn(h)) = 0
    BY <2>2, FS_EmptySet
  <2>4. 0 <= Left(h)
    <3>1. Cardinality(Users(h)) - 1 \in Nat
      BY Sizes
    <3> QED
      BY <1>1, <3>1 DEF Left
  <2> QED
    BY <2>1, <2>2, <2>3, <2>4 DEF LeaksOn
<1> QED
  BY <1>1, <1>2 DEF LeaksInv

\* For any number of coroutines, connections and faults, and however the
\* coroutines race for the cache: the connections of a host that are open,
\* those left behind included, number no more than its users, and all but one
\* of them once more for every fault.
THEOREM LeaksAreBounded == Spec => []LeaksBounded
<1>1. ASSUME LeaksInv PROVE LeaksBounded
  <2> SUFFICES ASSUME NEW t \in Tasks
               PROVE  Cardinality(OpenOn(HostOf[t]))
                        <= Cardinality(Users(HostOf[t]))
                             + faults * (Cardinality(Users(HostOf[t])) - 1)
    BY DEF LeaksBounded, OpenOn, Users
  <2> DEFINE h == HostOf[t]
  <2>1. /\ Cardinality(OpenOn(h)) \in Nat /\ Cardinality(Users(h)) \in Nat
        /\ Cardinality(Waiting(h)) \in Nat
    BY Sizes DEF Waiting
  <2>2. Left(h) \in Nat
    <3>1. Cardinality(Users(h)) - 1 \in Nat /\ faults \in Nat
      BY <1>1, Sizes DEF LeaksInv
    <3> QED
      BY <3>1 DEF Left
  <2>3. \/ Cardinality(OpenOn(h)) + Cardinality(Waiting(h)) <= Cardinality(Users(h)) + Left(h)
        \/ Cardinality(OpenOn(h)) <= Left(h)
    BY <1>1 DEF LeaksInv, LeaksOn
  <2>4. Cardinality(OpenOn(h)) <= Cardinality(Users(h)) + Left(h)
    BY <2>1, <2>2, <2>3
  <2> QED
    BY <2>4 DEF Left
<1> QED
  BY <1>1, LeaksInit, LeaksStep, PTL DEF Spec

=============================================================================
