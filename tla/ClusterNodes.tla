---------------------------- MODULE ClusterNodes ----------------------------
(* The node ids of one cluster, shared by the network and the supervisors: *)
(* the integers 1..N that Cluster.__init__ numbers its servers with.       *)
EXTENDS Integers

CONSTANT Nodes

ASSUME Nodes \subseteq Nat \ {0}
=============================================================================
