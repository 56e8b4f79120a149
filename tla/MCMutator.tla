----------------------------- MODULE MCMutator -----------------------------
(* The mutators over two nodes, two Schedule steps and up to two crashes.  *)
EXTENDS Mutator

MCNodes == {1, 2}

\* Every well-paired ordering of two Schedule steps and one Crash/Restart
\* pair per crash id, on any nodes.
MCInputs ==
  LET Pairs(a, b) ==
        IF CrashQuota = 1 THEN {CrashStep(a, 0), RestartStep(a, 0)}
        ELSE {CrashStep(a, 0), RestartStep(a, 0), CrashStep(b, 1), RestartStep(b, 1)}
  IN {s \in UNION {SetToSeqs({SchedStep(1, 2, 1), SchedStep(2, 1, 2)} \cup Pairs(a, b)) :
                   a \in Nodes, b \in Nodes} : WellPaired(s)}
=============================================================================
