------------------------------ MODULE Pipeline ------------------------------
(***************************************************************************)
(* The life of one schedule in Fuzzer.run (modelfuzz/fuzzer.py): drawn by *)
(* generate_schedules, executed by Cluster.run up to the step where the    *)
(* deadline passed or an error was flagged, and the executed prefix handed *)
(* to the mutator (fuzzer.py:89-90).  Composes ScheduleGen and Mutator;    *)
(* the mutator's `input` is the executed schedule.                         *)
(***************************************************************************)
EXTENDS ScheduleGen, Mutator

VARIABLE ran    \* Cluster.run has returned its executed schedule

pipeVars == <<genVars, mutVars, ran>>

PipeInit ==
  /\ GenInit
  /\ input = <<>> /\ sched = <<>>
  /\ chain \in {Chain(t) : t \in MutatorTypes}
  /\ mi = 1 /\ j = 0
  /\ ran = FALSE

\* Cluster.run's step loop: each step is appended to executed_schedule
\* after it runs, and the loop breaks before step n+1 when the deadline
\* has passed or check_error flags a server.
Execute ==
  /\ phase = "done" /\ ~ran
  /\ \E n \in 1..Len(schedule) : input' = SubSeq(schedule, 1, n) /\ sched' = input'
  /\ ran' = TRUE
  /\ UNCHANGED <<genVars, chain, mi, j>>

PipeNext ==
  \/ (AddSchedule \/ AddCrash \/ AddRestart \/ AddClient \/ NextPhase)
       /\ UNCHANGED <<mutVars, ran>>
  \/ Execute
  \/ ran /\ (SwapNodesStep \/ SwapCrashNodesStep \/ SwapCrashStepsStep
             \/ SwapMaxStep \/ NextMutator \/ Mutated)
         /\ UNCHANGED <<genVars, ran>>

PipeSpec == PipeInit /\ [][PipeNext]_pipeVars

=============================================================================
