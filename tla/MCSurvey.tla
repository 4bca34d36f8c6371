------------------------------ MODULE MCSurvey ------------------------------
(***************************************************************************)
(* A small instance of Survey: two nodes, a VM and a container, one        *)
(* storage that both nodes list, a service and two disks.  A reading is    *)
(* below its threshold or exactly at it.                                   *)
(***************************************************************************)
EXTENDS Survey, TLC

CONSTANTS n1, n2, vm, ct, local, svc, d1, d2

TwoNodes == <<n1, n2>>
OneService == <<svc>>
TwoDisks == <<d1, d2>>
VMAndContainer == (vm :> "qemu") @@ (ct :> "lxc")
AtOne == [g \in Gauges |-> 1]

=============================================================================
