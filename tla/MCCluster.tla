----------------------------- MODULE MCCluster -----------------------------
(* One cluster run of two nodes, for TLC.                                  *)
EXTENDS Cluster

MCNodes == {1, 2}

Sched(fr, to, max) == [type |-> "Schedule", node |-> fr, to |-> to, max |-> max]
Crash(n) == [type |-> "Crash", node |-> n, to |-> 0, max |-> 0]
Restart(n) == [type |-> "Restart", node |-> n, to |-> 0, max |-> 0]
ClientReq == [type |-> "ClientRequest", node |-> 0, to |-> 0, max |-> 0]

\* Schedules as the generator makes them: Schedule steps with a crash of a
\* node, its restart later, and a client request.
MCSchedules ==
  { <<Crash(2), Sched(2, 1, 1), ClientReq, Restart(2), Sched(1, 2, 1)>> }
=============================================================================
