------------------------------ MODULE Cluster ------------------------------
(***************************************************************************)
(* One cluster run (modelfuzz/cluster.py, Cluster.run): the orchestrator   *)
(* on the main thread, the interception network (Network), one supervisor *)
(* thread and target process per node (Server), and the client threads.   *)
(*                                                                         *)
(* The orchestrator waits for every node to register, then executes the    *)
(* schedule's steps in order until the list ends, the wall-clock deadline  *)
(* passes or a supervisor flags an error; it then collects the errors and  *)
(* tears the cluster down.  Wall-clock time is not modelled: each timeout  *)
(* is a step that may happen whenever its wait is in progress.             *)
(***************************************************************************)
EXTENDS Network, Server

CONSTANTS
  Schedules     \* the schedules a run may be given (sequences of steps)

VARIABLES
  schedule,     \* Cluster.schedule
  orch,         \* main thread: "register", "steps", "sn", "stop", "join", "joinwait",
                \* "clients", "done"
  idx,          \* index of the next schedule step
  crashed,      \* the local set `crashed` of Cluster.run
  executed,     \* Cluster.executed_schedule
  clients,      \* Cluster.clients: per client [pc, proc, err]
  netUp,        \* the network's event loop is running
  stopAt,       \* the node cluster_stop is closing or joining
  result        \* [status: "none", "ok" or "NodeRegisterTimeout",
                \*  servers, clients: those check_error reported in error]

cluVars == <<schedule, orch, idx, crashed, executed, clients, netUp, stopAt, result>>
vars == <<netVars, srvVars, cluVars>>

StepKinds == {"Schedule", "Crash", "Restart", "ClientRequest"}
Client == [pc : {"waiting", "end"}, proc : {"running", "dead"}, err : BOOLEAN]
N == Cardinality(Nodes)

Init ==
  /\ NetInit
  /\ SrvInit
  /\ schedule \in Schedules
  /\ orch = "register"
  /\ idx = 1
  /\ crashed = {}
  /\ executed = <<>>
  /\ clients = <<>>
  /\ netUp = TRUE
  /\ stopAt = 1
  /\ result = [status |-> "none", servers |-> {}, clients |-> {}]

-----------------------------------------------------------------------------
(* Registration: poll get_num_replicas() until all N nodes registered.     *)

OrchRegistered ==
  /\ orch = "register"
  /\ Cardinality(replicas) = N
  /\ orch' = "steps"
  /\ UNCHANGED <<netVars, srvVars, schedule, idx, crashed, executed, clients,
                 netUp, stopAt, result>>

\* The registration deadline passes: return at once with NodeRegisterTimeout,
\* without cluster_stop.
OrchRegisterTimeout ==
  /\ orch = "register"
  /\ Cardinality(replicas) # N
  /\ orch' = "done"
  /\ result' = [result EXCEPT !.status = "NodeRegisterTimeout"]
  /\ UNCHANGED <<netVars, srvVars, schedule, idx, crashed, executed, clients,
                 netUp, stopAt>>

-----------------------------------------------------------------------------
(* The step loop.                                                          *)

\* check_error(): the servers and clients whose error_flg is set.
ErrServers == {n \in Nodes : errorFlg[n]}
ErrClients == {k \in DOMAIN clients : clients[k].err}
check_error == ErrServers # {} \/ ErrClients # {}

\* The loop ends: deadline passed, an error was flagged, or no steps are left.
OrchLeaveLoop ==
  /\ orch = "steps"
  /\ \/ idx <= Len(schedule)                 \* time.time() > timeout
     \/ check_error
     \/ idx > Len(schedule)
  /\ orch' = "stop"
  /\ result' = [result EXCEPT !.status = "ok", !.servers = ErrServers,
                              !.clients = ErrClients]
  /\ UNCHANGED <<netVars, srvVars, schedule, idx, crashed, executed, clients,
                 netUp, stopAt>>

\* The step has been handled: record it as executed and go on.
StepDone ==
  /\ executed' = Append(executed, schedule[idx])
  /\ idx' = idx + 1

\* Crash step: kill the node's server unless already crashed; emit Remove.
DoCrash(n) ==
  /\ IF n \notin crashed
       THEN /\ crash(n)
            /\ crashed' = crashed \cup {n}
            /\ add_event([name |-> "Remove", node |-> n])
       ELSE UNCHANGED <<srvVars, crashed, trace>>
  /\ UNCHANGED <<mailboxes, replicas, leaderId, hPending, sn, msgCtr, hLook, reqMap, reqCtr>>

\* Restart step: restart the node's server if crashed; emit Add.
DoRestart(n) ==
  /\ IF n \in crashed
       THEN /\ restart(n)
            /\ crashed' = crashed \ {n}
            /\ add_event([name |-> "Add", node |-> n])
       ELSE UNCHANGED <<srvVars, crashed, trace>>
  /\ UNCHANGED <<mailboxes, replicas, leaderId, hPending, sn, msgCtr, hLook, reqMap, reqCtr>>

\* Fault: the leader test accepts any id but 0, the -1 "no leader" included.
DoClientRequestAnyLeader ==
  /\ IF leaderId # 0 /\ leaderId \notin crashed
       THEN /\ clients' = Append(clients, [pc |-> "waiting", proc |-> "running",
                                           err |-> FALSE])
            /\ add_event([name |-> "ClientRequest", leader |-> leaderId])
       ELSE UNCHANGED <<clients, trace>>
  /\ UNCHANGED <<mailboxes, replicas, leaderId, hPending, sn, msgCtr, hLook, reqMap, reqCtr, srvVars, crashed>>

\* ClientRequest step: start a client on the hinted leader if it is known
\* and not crashed, and emit ClientRequest; otherwise drop the request.
DoClientRequest ==
  /\ IF leaderId > 0 /\ leaderId \notin crashed
       THEN /\ clients' = Append(clients, [pc |-> "waiting", proc |-> "running",
                                           err |-> FALSE])
            /\ add_event([name |-> "ClientRequest", leader |-> leaderId])
       ELSE UNCHANGED <<clients, trace>>
  /\ UNCHANGED <<mailboxes, replicas, leaderId, hPending, sn, msgCtr, hLook, reqMap, reqCtr, srvVars, crashed>>

OrchStep ==
  LET s == schedule[idx] IN
  /\ orch = "steps"
  /\ idx <= Len(schedule)
  /\ ~check_error
  /\ \/ /\ s.type = "Crash"
        /\ DoCrash(s.node) /\ StepDone
        /\ UNCHANGED clients
     \/ /\ s.type = "Restart"
        /\ DoRestart(s.node) /\ StepDone
        /\ UNCHANGED clients
     \/ /\ s.type = "ClientRequest"
        /\ DoClientRequest /\ StepDone
     \/ /\ s.type = "Schedule" /\ s.node \in crashed
        /\ StepDone
        /\ UNCHANGED <<netVars, srvVars, crashed, clients>>
  /\ UNCHANGED <<schedule, orch, netUp, stopAt, result>>

\* Schedule step from a live node: call schedule_node and wait for it.
OrchSchedule ==
  LET s == schedule[idx] IN
  /\ orch = "steps"
  /\ idx <= Len(schedule)
  /\ ~check_error
  /\ s.type = "Schedule" /\ s.node \notin crashed
  /\ SNStart(s.node, s.to, s.max, s.to \in crashed)
  /\ orch' = "sn"
  /\ UNCHANGED <<srvVars, schedule, idx, crashed, executed, clients, netUp, stopAt, result>>

OrchScheduleDone ==
  /\ orch = "sn"
  /\ sn.phase = "idle"
  /\ orch' = "steps"
  /\ StepDone
  /\ UNCHANGED <<netVars, srvVars, schedule, crashed, clients, netUp, stopAt, result>>

-----------------------------------------------------------------------------
(* cluster_stop: stop the network, close and join every server in order,   *)
(* then close and join every client.                                       *)

OrchStopNetwork ==
  /\ orch = "stop"
  /\ netUp' = FALSE
  /\ orch' = "join"
  /\ UNCHANGED <<netVars, srvVars, schedule, idx, crashed, executed, clients, stopAt, result>>

\* server.close(); server.join(): the join waits for the thread to end.
OrchCloseServer ==
  /\ orch = "join"
  /\ stopAt \in Nodes
  /\ srvClose(stopAt)
  /\ orch' = "joinwait"
  /\ UNCHANGED <<netVars, schedule, idx, crashed, executed, clients, netUp, stopAt, result>>

OrchJoinServer ==
  /\ orch = "joinwait"
  /\ spc[stopAt] = "end"
  /\ stopAt' = stopAt + 1
  /\ orch' = IF stopAt + 1 \in Nodes THEN "join" ELSE "clients"
  /\ UNCHANGED <<netVars, srvVars, schedule, idx, crashed, executed, clients, netUp, result>>

\* RatisClient.close: kill() the process (killing one that has already
\* exited raises ProcessLookupError, which is swallowed) and mark it done.
\* error_flg is left as it was.
client_close(c) == [c EXCEPT !.proc = "dead"]

\* client.close(); client.join() for every client: each is killed and its
\* thread, which only ever awaits its process, ends.
OrchStopClients ==
  /\ orch = "clients"
  /\ clients' = [k \in DOMAIN clients |-> [client_close(clients[k]) EXCEPT !.pc = "end"]]
  /\ orch' = "done"
  /\ UNCHANGED <<netVars, srvVars, schedule, idx, crashed, executed, netUp, stopAt, result>>

-----------------------------------------------------------------------------
(* Client threads (modelfuzz/client.py): run_client awaits the process and *)
(* flags an error on a return code other than 0 and -9; when its own wait  *)
(* times out (rc -1 here) it flags an error.  Either way the process ends  *)
(* in close(): run_client's on an error, run's own otherwise.              *)

ClientExit(k, rc) ==
  /\ clients[k].pc = "waiting" /\ clients[k].proc = "running"
  /\ clients' = [clients EXCEPT ![k] = client_close([pc |-> "end", proc |-> @.proc,
                                                      err |-> ~NormalExit(rc)])]
  /\ UNCHANGED <<netVars, srvVars, schedule, orch, idx, crashed, executed, netUp,
                 stopAt, result>>

-----------------------------------------------------------------------------
(* The targets: a live server process registers, posts intercepted         *)
(* messages and events while the network is up, or exits on its own.       *)

Live == {n \in Nodes : proc[n] = "running"}

\* A target's post reaches a handler only while the network is up.
TargetPost ==
  /\ netUp
  /\ \/ \E n \in Live : HandleReplica(n)
     \/ \E e \in Edges, d \in Data \cup {NoData} :
          e[1] \in Live /\ HandleMessageEnqueue(e[1], e[2], d)
     \/ \E kind \in {"BecomeLeader", "Timeout"}, n \in Live : HandleEvent(kind, n)
  /\ UNCHANGED <<srvVars, cluVars>>

TargetExit ==
  /\ \E n \in Nodes, rc \in ExitCodes : ProcExit(n, rc)
  /\ UNCHANGED <<netVars, cluVars>>

\* Cluster.run has returned: the run is over (a terminal state, not a deadlock).
Finished == orch = "done" /\ UNCHANGED vars

Next ==
  \/ Finished
  \/ OrchRegistered \/ OrchRegisterTimeout
  \/ OrchStep \/ OrchSchedule \/ OrchScheduleDone \/ OrchLeaveLoop
  \/ OrchStopNetwork \/ OrchCloseServer \/ OrchJoinServer \/ OrchStopClients
  \/ SNStep /\ UNCHANGED <<srvVars, cluVars>>
  \/ (HandleMessageParams \/ HandleMessageRecord) /\ UNCHANGED <<srvVars, cluVars>>
  \/ \E n \in Nodes : SrvThreadStep(n) /\ UNCHANGED <<netVars, cluVars>>
  \/ \E k \in DOMAIN clients, rc \in ExitCodes \cup {-1} : ClientExit(k, rc)
  \/ TargetPost \/ TargetExit

Spec == Init /\ [][Next]_vars

-----------------------------------------------------------------------------
(* Properties.                                                             *)

Step == [type : StepKinds, node : Nodes \cup {0}, to : Nodes \cup {0}, max : 0..MaxMsgs]

ClusterTypeOK ==
  /\ NetTypeOK
  /\ SrvTypeOK
  /\ schedule \in Seq(Step)
  /\ orch \in {"register", "steps", "sn", "stop", "join", "joinwait", "clients", "done"}
  /\ idx \in 1..(Len(schedule) + 1)
  /\ crashed \subseteq Nodes
  /\ executed \in Seq(Step)
  /\ clients \in Seq(Client)
  /\ netUp \in BOOLEAN
  /\ stopAt \in 1..(N + 1)
  /\ result \in [status : {"none", "ok", "NodeRegisterTimeout"},
                 servers : SUBSET Nodes, clients : SUBSET Nat]

\* While the step loop runs, a node in `crashed` has no live process: a Crash
\* step kills the server (crash() from the main thread) before the node is
\* counted as crashed, and nothing respawns it until its Restart.
CrashedIsDown ==
  orch \in {"steps", "sn"} => \A n \in crashed : proc[n] # "running"

\* A server's error_flg, which check_error reports as a bug, is set only if
\* its process failed on its own or the supervisor's wait timed out on a
\* live process: a SIGKILL sent by crash() or by cluster_stop's close()
\* (return code -9, excused by run_server) is never taken for a bug.
NoErrorFromKill ==
  \A n \in Nodes : errorFlg[n] => killedBy[n] \in {"self", "timeout"}

\* Once every node has registered, the run ends, and by then every supervisor
\* thread has ended with its process dead: cluster_stop's close and join
\* cannot hang on a server.
CleanShutdown ==
  (orch = "steps") ~> (orch = "done" /\ \A n \in Nodes : spc[n] = "end" /\ proc[n] # "running")

\* While the step loop runs, a node the orchestrator does not count as
\* crashed, whose process the fuzzer killed, is being respawned: its
\* supervisor still waits and has a restart pending or a spawn under way
\* (spec 4.3: restart respawns the process with restart=1).
RestartRespawns ==
  orch \in {"steps", "sn"} =>
    \A n \in Nodes \ crashed :
      killedBy[n] = "kill" =>
        \/ proc[n] = "running"
        \/ wait[n] /\ (restartProc[n] \/ spc[n] = "start")

\* Fairness: the main thread, the network's loop thread and every supervisor
\* and client thread keep running; a target is never obliged to post, exit
\* or register, and a timeout is never obliged to fire.
Fairness ==
  /\ WF_vars(OrchRegistered \/ OrchStep \/ OrchSchedule \/ OrchScheduleDone
             \/ OrchLeaveLoop \/ OrchStopNetwork \/ OrchCloseServer
             \/ OrchJoinServer \/ OrchStopClients)
  /\ WF_vars(SNStep /\ UNCHANGED <<srvVars, cluVars>>)
  /\ WF_vars((HandleMessageParams \/ HandleMessageRecord) /\ UNCHANGED <<srvVars, cluVars>>)
  /\ \A n \in Nodes : WF_vars((SrvSpawn(n) \/ SrvWaitDone(n) \/ SrvLoop(n))
                               /\ UNCHANGED <<netVars, cluVars>>)

FairSpec == Spec /\ Fairness

=============================================================================
