----------------------------- MODULE MCDriver -----------------------------
(* Fuzzer.run over the three strategies, for TLC.                          *)
EXTENDS Driver

MCFuzzers == <<"modelfuzz", "random", "trace">>

\* Events of two nodes, and a ClientRequest event posted by a target, which
\* the event mapper gives no node (network.py:253).
Tmo(n) == [name |-> "Timeout", node |-> n]
Ldr(n) == [name |-> "BecomeLeader", node |-> n]
TgtReq == [name |-> "ClientRequest"]

\* Two interleavings of the same node histories, and a trace that swaps
\* the order of node 1's events.
MCTraces == { <<Tmo(1), Ldr(1), Ldr(2)>>,
              <<Ldr(2), TgtReq, Tmo(1), Ldr(1)>>,
              <<Ldr(1), Tmo(1), Ldr(2)>> }
=============================================================================
