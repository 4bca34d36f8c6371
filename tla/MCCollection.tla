---------------------------- MODULE MCCollection ----------------------------
(***************************************************************************)
(* Small instances of Collection.                                          *)
(***************************************************************************)
EXTENDS Collection

CONSTANTS s1, s2, h1, h2

\* Tick and bot command both gather from every server.
TaskSet == Gathers \X Servers

\* Two servers with a host each, or one host behind both of them.
OwnHosts == [s \in Servers |-> IF s = s1 THEN h1 ELSE h2]
SharedHost == [s \in Servers |-> h1]

\* A snapshot of s1 takes two commands and one of s2 takes one, or each two.
TwoThenOne == [s \in Servers |-> IF s = s1 THEN 2 ELSE 1]
TwoEach == [s \in Servers |-> 2]

\* Two services, each of which may fail by itself; or the list of the disks
\* and one disk, of which the first to raise is the last.
ToTheNext == [s \in Servers |-> <<2, 3>>]
SmartGivesUp == [s \in Servers |-> IF s = s1 THEN <<3, 3>> ELSE <<2>>]

TaskHost == [t \in TaskSet |-> SSHTarget[t[2]]]

=============================================================================
