---------------------------- MODULE ScheduleSteps ----------------------------
(***************************************************************************)
(* Schedules as lists of step dicts (modelfuzz/fuzzer.py, mutator.py), and *)
(* what a well-formed schedule is.  A step is a record with the fields     *)
(* every kind of step may carry; fields a kind does not use are 0 or NoId. *)
(***************************************************************************)
EXTENDS ClusterNodes, SequencesExt

CONSTANTS
  MaxMessages,  \* params.max_messages: the cap of a Schedule step's max_msgs
  Steps,        \* params.steps: Schedule steps per generated schedule
  CrashQuota    \* params.crash_quota: crashes per generated schedule

NoId == -1

SchedStep(fr, to, max) == [type |-> "Schedule", node |-> fr, to |-> to, max |-> max, cid |-> NoId]
CrashStep(n, c) == [type |-> "Crash", node |-> n, to |-> 0, max |-> 0, cid |-> c]
RestartStep(n, c) == [type |-> "Restart", node |-> n, to |-> 0, max |-> 0, cid |-> c]
ClientStep == [type |-> "ClientRequest", node |-> 0, to |-> 0, max |-> 0, cid |-> NoId]

\* The steps of each kind as the generator builds them.
StepRec ==
       [type : {"Schedule"}, node : Nodes, to : Nodes, max : 1..MaxMessages, cid : {NoId}]
  \cup [type : {"Crash", "Restart"}, node : Nodes, to : {0}, max : {0}, cid : Nat]
  \cup [type : {"ClientRequest"}, node : {0}, to : {0}, max : {0}, cid : {NoId}]

\* list.insert(index, x) for 0 <= index <= len(list).
PyInsert(s, index, x) == InsertAt(s, index + 1, x)

-----------------------------------------------------------------------------
(* Well-formed schedules (spec: "Invariant on generated schedules").       *)

\* Every Crash has exactly one later Restart with its crash_id on its node,
\* and every Restart has an earlier Crash with its crash_id on its node.
WellPaired(s) ==
  /\ \A i \in 1..Len(s) : s[i].type = "Crash" =>
       Cardinality({j \in (i + 1)..Len(s) : s[j].type = "Restart"
                      /\ s[j].cid = s[i].cid /\ s[j].node = s[i].node}) = 1
  /\ \A j \in 1..Len(s) : s[j].type = "Restart" =>
       \E i \in 1..(j - 1) : s[i].type = "Crash"
                            /\ s[i].cid = s[j].cid /\ s[i].node = s[j].node

\* Schedule steps go between two distinct nodes with 1 <= max_msgs <= cap.
StepsWellFormed(s) ==
  \A i \in 1..Len(s) :
    s[i].type = "Schedule" =>
      /\ s[i].node \in Nodes /\ s[i].to \in Nodes /\ s[i].node # s[i].to
      /\ s[i].max \in 1..MaxMessages

=============================================================================
