----------------------------- MODULE ScheduleGen -----------------------------
(***************************************************************************)
(* Fuzzer.generate_schedules (modelfuzz/fuzzer.py) building one schedule:  *)
(* `steps` Schedule steps, then `crash_quota` Crash steps inserted at      *)
(* random positions, then a Restart per crash inserted at a random         *)
(* position after the index recorded for its crash, then `client_requests` *)
(* ClientRequest steps at random positions.  One action per loop           *)
(* iteration; each random choice is an \E over the range the code draws     *)
(* from (random.randint is inclusive at both ends).                        *)
(***************************************************************************)
EXTENDS ScheduleSteps

CONSTANTS
  ClientRequests  \* params.client_requests

VARIABLES
  schedule,     \* the list being built
  phase,        \* which loop runs: "sched", "crash", "restart", "client", "done"
  k,            \* the loop counter of the current phase
  crashSteps    \* crash_steps: <<index, node>> as recorded at insertion

genVars == <<schedule, phase, k, crashSteps>>

GenInit ==
  /\ schedule = <<>>
  /\ phase = "sched"
  /\ k = 0
  /\ crashSteps = <<>>

\* Fault: max_msgs drawn from range(max_messages) instead of randint(1, ...).
MaxChoicesFromZero == 0..(MaxMessages - 1)

\* random.randint(1, max_messages).
MaxChoices == 1..MaxMessages

\* Add 'Schedule' type steps.
AddSchedule ==
  /\ phase = "sched" /\ k < Steps
  /\ \E node \in Nodes, to \in Nodes, max \in MaxChoices :
       /\ to # node
       /\ schedule' = Append(schedule, SchedStep(node, to, max))
  /\ k' = k + 1
  /\ UNCHANGED <<phase, crashSteps>>

\* Fault: the restart is drawn from the crash's own index onwards.
RestartRangeFromCrash(crashIndex, len) == crashIndex..len

\* randint(crash_index + 1, len(schedule)).
RestartRange(crashIndex, len) == (crashIndex + 1)..len

\* Add 'Crash' type steps, remembering each insertion index.
AddCrash ==
  /\ phase = "crash" /\ k < CrashQuota
  /\ \E index \in 0..Len(schedule), node \in Nodes :
       /\ schedule' = PyInsert(schedule, index, CrashStep(node, k))
       /\ crashSteps' = Append(crashSteps, <<index, node>>)
  /\ k' = k + 1
  /\ UNCHANGED phase

\* Add 'Restart' type steps, after the recorded index of their crash.
AddRestart ==
  /\ phase = "restart" /\ k < Len(crashSteps)
  /\ LET cs == crashSteps[k + 1] IN
       \E index \in RestartRange(cs[1], Len(schedule)) :
         schedule' = PyInsert(schedule, index, RestartStep(cs[2], k))
  /\ k' = k + 1
  /\ UNCHANGED <<phase, crashSteps>>

\* Add 'ClientRequest' type steps.
AddClient ==
  /\ phase = "client" /\ k < ClientRequests
  /\ \E index \in 0..Len(schedule) : schedule' = PyInsert(schedule, index, ClientStep)
  /\ k' = k + 1
  /\ UNCHANGED <<phase, crashSteps>>

\* A loop has run its count: go on to the next one.  The crashed-list scan
\* between the Restart and ClientRequest loops changes no state: its
\* assert is commented out.
NextPhase ==
  /\ \/ phase = "sched" /\ k = Steps /\ phase' = "crash"
     \/ phase = "crash" /\ k = CrashQuota /\ phase' = "restart"
     \/ phase = "restart" /\ k = Len(crashSteps) /\ phase' = "client"
     \/ phase = "client" /\ k = ClientRequests /\ phase' = "done"
  /\ k' = 0
  /\ UNCHANGED <<schedule, crashSteps>>

\* The schedule is appended to the pool: generation of it is over.
Generated == phase = "done" /\ UNCHANGED genVars

GenNext == AddSchedule \/ AddCrash \/ AddRestart \/ AddClient \/ NextPhase \/ Generated

GenSpec == GenInit /\ [][GenNext]_genVars

GenTypeOK ==
  /\ schedule \in Seq(StepRec)
  /\ \A i \in 1..Len(schedule) : schedule[i].cid \in {NoId} \cup 0..(CrashQuota - 1)
  /\ phase \in {"sched", "crash", "restart", "client", "done"}
  /\ k \in 0..(Steps + CrashQuota + ClientRequests)
  /\ crashSteps \in Seq((0..(Steps + CrashQuota)) \X Nodes)

\* A generated schedule is well formed (spec: every Crash has exactly one
\* later Restart with its crash_id on its node; Schedule steps are between
\* distinct nodes with max_msgs in range), whatever positions the random
\* draws of the crash and restart insertions pick.
GenWellFormed ==
  phase = "done" => WellPaired(schedule) /\ StepsWellFormed(schedule)

=============================================================================
