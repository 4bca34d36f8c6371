----------------------------- MODULE SSHManager -----------------------------
(***************************************************************************)
(* The SSH connections (janitor/ssh/client.py): one cached connection per  *)
(* user@host:port, shared by every coroutine that runs a command there.    *)
(* Checking the cache, connecting and storing the connection is not        *)
(* atomic: connecting is awaited.                                          *)
(***************************************************************************)
EXTENDS Naturals, FiniteSets

CONSTANTS
    Hosts,         \* the keys user@host:port
    Links,         \* connection objects of one host, numbered from 1
    Tasks,         \* the coroutines that run commands
    HostOf         \* the host a task's commands go to

ASSUME SSHAssumption ==
    /\ Links \in Nat \ {0}
    /\ HostOf \in [Tasks -> Hosts]
    /\ IsFiniteSet(Tasks)

VARIABLES
    up,            \* environment: the hosts that accept connections
    cache,         \* SSHManager._connections; 0 is "no entry"
    link,          \* the state of every connection object
    use            \* where each coroutine is in SSHManager.run

sshVars == <<up, cache, link, use>>

\* "stale" is a connection whose peer has gone without our knowing: it has a
\* socket, and what is sent on it comes to nothing.
LinkStates == {"unused", "open", "stale", "lost"}

Free == [stage |-> "free", on |-> 0]
Connecting == [stage |-> "connecting", on |-> 0]
Running(n) == [stage |-> "running", on |-> n]

SSHInit ==
    /\ up \in SUBSET Hosts
    /\ cache = [h \in Hosts |-> 0]
    /\ link = [h \in Hosts |-> [n \in 1..Links |-> "unused"]]
    /\ use = [t \in Tasks |-> Free]

\* get_extra_info("socket") is not None, after what this step does to it.
HasSocket(h, n) == link'[h][n] \in {"open", "stale"}

\* Seeded fault in Acquire: whatever is cached is used.
AcquireUnchecked(t) ==
    LET h == HostOf[t]
    IN  IF cache[h] # 0
        THEN use' = [use EXCEPT ![t] = Running(cache[h])] /\ UNCHANGED cache
        ELSE use' = [use EXCEPT ![t] = Connecting] /\ UNCHANGED cache

\* run up to its first await: a cached connection that has a socket is used
\* at once, any other is dropped from the cache and a new one opened.
Acquire(t) ==
    LET h == HostOf[t]
    IN  IF cache[h] # 0 /\ HasSocket(h, cache[h])
        THEN use' = [use EXCEPT ![t] = Running(cache[h])] /\ UNCHANGED cache
        ELSE /\ use' = [use EXCEPT ![t] = Connecting]
             /\ cache' = [cache EXCEPT ![h] = 0]

\* Numbers that no coroutine and no cache entry can reach any more are given
\* to new connection objects; an open connection keeps its number.
Fresh(h) ==
    {n \in 1..Links :
        /\ link[h][n] # "open" /\ cache[h] # n
        /\ \A t \in Tasks : HostOf[t] = h => use[t].on # n}

\* Seeded fault in Connected: the connection is used, but not cached.
ConnectedUncached(t) ==
    LET h == HostOf[t]
    IN  /\ use[t] = Connecting
        /\ h \in up
        /\ \E n \in Fresh(h) :
              /\ link' = [link EXCEPT ![h][n] = "open"]
              /\ use' = [use EXCEPT ![t] = Running(n)]
        /\ UNCHANGED <<up, cache>>

\* connect returns: the connection replaces whatever has been cached in the
\* meantime, and the command is sent.
Connected(t) ==
    LET h == HostOf[t]
    IN  /\ use[t] = Connecting
        /\ h \in up
        /\ \E n \in Fresh(h) :
              /\ \A m \in Fresh(h) : n <= m
              /\ link' = [link EXCEPT ![h][n] = "open"]
              /\ cache' = [cache EXCEPT ![h] = n]
              /\ use' = [use EXCEPT ![t] = Running(n)]
        /\ UNCHANGED up

\* connect raises, after connect_timeout_seconds at the latest.
ConnectFails(t) ==
    /\ use[t] = Connecting
    /\ HostOf[t] \notin up
    /\ UNCHANGED <<up, link>>

\* The command of a coroutine ends.
CommandReturns(t) ==
    /\ use[t].stage = "running"
    /\ link[HostOf[t]][use[t].on] = "open"
    /\ UNCHANGED <<up, link>>

\* The connection is lost under the command: run raises.  A stale connection
\* is found out at the latest now.
CommandRaises(t) ==
    LET h == HostOf[t]
        n == use[t].on
    IN  /\ use[t].stage = "running"
        /\ link[h][n] \in {"stale", "lost"}
        /\ link' = [link EXCEPT ![h][n] = "lost"]
        /\ UNCHANGED up

\* The peer closes the connection, and we hear of it.
LinkDrops(h, n) ==
    /\ link[h][n] = "open"
    /\ link' = [link EXCEPT ![h][n] = "lost"]
    /\ UNCHANGED <<up, cache, use>>

HostGoes(h) ==
    /\ h \in up
    /\ up' = up \ {h}
    /\ link' = [link EXCEPT ![h] =
                  [n \in 1..Links |-> IF @[n] = "open" THEN "stale" ELSE @[n]]]
    /\ UNCHANGED <<cache, use>>

HostComes(h) ==
    /\ h \notin up
    /\ up' = up \cup {h}
    /\ UNCHANGED <<cache, link, use>>

SSHTypeOK ==
    /\ up \subseteq Hosts
    /\ cache \in [Hosts -> 0..Links]
    /\ link \in [Hosts -> [1..Links -> LinkStates]]
    /\ use \in [Tasks -> {Free, Connecting} \cup {Running(n) : n \in 1..Links}]

=============================================================================
