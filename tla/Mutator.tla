------------------------------- MODULE Mutator -------------------------------
(***************************************************************************)
(* The schedule mutators (modelfuzz/mutator.py) applied by Fuzzer.run to   *)
(* the executed schedule of a run that found new states.                   *)
(*                                                                         *)
(* A mutator makes `mutation_count` iterations, each drawing random        *)
(* indices; the combined mutator applies the four mutators in turn.  Each  *)
(* iteration is one action and each random draw an \E.  Positions are      *)
(* Python list indices: 0-based, and -1 (a search that found nothing)      *)
(* denotes the last element.                                               *)
(***************************************************************************)
EXTENDS ScheduleSteps

CONSTANTS
  MutatorTypes,   \* the --mutator values to consider
  MutationCount,  \* params.mutation_count
  Inputs          \* schedules handed to mutate()

VARIABLES
  input,        \* the schedule as handed to mutate() (ghost)
  sched,        \* the list, mutated in place
  chain,        \* the mutators MutatorFactory built, in order
  mi,           \* index of the mutator now running
  j             \* its iteration counter

mutVars == <<input, sched, chain, mi, j>>

\* MutatorFactory.get_mutator: "all" (and anything unknown) is the combined
\* mutator, which runs the four in this order.
Chain(type) ==
  IF type \in {"swap_nodes", "swap_crash_nodes", "swap_crash_steps", "swap_max_messages"}
    THEN <<type>>
    ELSE <<"swap_nodes", "swap_crash_nodes", "swap_crash_steps", "swap_max_messages">>

MutInit ==
  /\ input \in Inputs
  /\ sched = input
  /\ chain \in {Chain(t) : t \in MutatorTypes}
  /\ mi = 1
  /\ j = 0

-----------------------------------------------------------------------------
(* Python list operations on 0-based indices, -1 meaning the last one.     *)

Pos(s, i) == IF i < 0 THEN Len(s) + i + 1 ELSE i + 1
PyAt(s, i) == s[Pos(s, i)]
PyPop(s, i) == RemoveAt(s, Pos(s, i))
PySwap(s, a, b) == [s EXCEPT ![Pos(s, a)] = s[Pos(s, b)], ![Pos(s, b)] = s[Pos(s, a)]]

\* Index of the n-th Schedule step (counting from 0), or dflt if there is none.
NthSched(s, n, dflt) ==
  LET P == {i \in 1..Len(s) : s[i].type = "Schedule"
              /\ Cardinality({q \in 1..(i - 1) : s[q].type = "Schedule"}) = n}
  IN IF P = {} THEN dflt ELSE (CHOOSE i \in P : TRUE) - 1

\* Index of the last step of the given type with crash_id c, or -1.
LastWith(s, type, c) == SelectLastInSeq(s, LAMBDA st : st.type = type /\ st.cid = c) - 1

-----------------------------------------------------------------------------
(* One iteration of each mutator.                                          *)

\* SwapNodesMutator: swap the first_idx-th and second_idx-th Schedule steps.
SwapNodes(s, f, g) == PySwap(s, NthSched(s, f, -1), NthSched(s, g, -1))

\* Fault: the crash steps are swapped but their restarts are not.
CrashSwapNoRepair(s, f, g) == PySwap(s, LastWith(s, "Crash", f), LastWith(s, "Crash", g))

\* SwapCrashNodesMutator with crash_quota > 1: swap the Crash steps of two
\* crash ids, then swap their Restart steps to repair the order.
CrashSwap(s, f, g) ==
  LET s1 == PySwap(s, LastWith(s, "Crash", f), LastWith(s, "Crash", g))
  IN PySwap(s1, LastWith(s1, "Restart", f), LastWith(s1, "Restart", g))

\* SwapCrashNodesMutator with crash_quota = 1: every Crash step gets another
\* node (random.choice per step, given here by `pick`); Restarts are left.
CrashRenode(s, pick) ==
  [i \in 1..Len(s) |-> IF s[i].type = "Crash" THEN [s[i] EXCEPT !.node = pick[i]] ELSE s[i]]

\* Fault: the Restart is popped and never reinserted.
RestartMovesDropped(s2, idx, cs) == {PyPop(s2, LastWith(s2, "Restart", idx))}

\* SwapCrashStepsMutator, second half: pop the Restart of crash_id idx and
\* reinsert it at a random index greater than the crash's OLD index cs.
RestartMoves(s2, idx, cs) ==
  LET rs == LastWith(s2, "Restart", idx)
      rt == PyAt(s2, rs)
      s3 == PyPop(s2, rs)
  IN IF cs < Len(s3)
       THEN {PyInsert(s3, i, rt) : i \in {i \in 0..Len(s3) : i > cs}}
       ELSE {Append(s3, rt)}

\* SwapCrashStepsMutator: pop the Crash of crash_id idx, reinsert it at a
\* random index, then move its Restart.
CrashStepMoves(s, idx) ==
  LET cs == LastWith(s, "Crash", idx)
      st == PyAt(s, cs)
      s1 == PyPop(s, cs)
  IN UNION {RestartMoves(PyInsert(s1, ins, st), idx, cs) : ins \in 0..Len(s1)}

\* Fault: max_msgs is swapped without checking that both steps have one.
SwapMaxNoKeyCheck(s, f, g) ==
  LET a == Pos(s, NthSched(s, f, 0))
      b == Pos(s, NthSched(s, g, 0))
  IN [s EXCEPT ![a].max = s[b].max, ![b].max = s[a].max]

\* SwapMaxMessagesMutator: swap max_msgs of two Schedule steps; an index
\* not found stays 0, and the swap is skipped unless both steps have one.
SwapMax(s, f, g) ==
  LET a == Pos(s, NthSched(s, f, 0))
      b == Pos(s, NthSched(s, g, 0))
  IN IF s[a].type = "Schedule" /\ s[b].type = "Schedule"
       THEN [s EXCEPT ![a].max = s[b].max, ![b].max = s[a].max]
       ELSE s

-----------------------------------------------------------------------------

Iterating(name) == mi <= Len(chain) /\ chain[mi] = name /\ j < MutationCount

Iterated == j' = j + 1 /\ UNCHANGED <<input, chain, mi>>

SwapNodesStep ==
  /\ Iterating("swap_nodes")
  /\ \E f \in 0..(Steps - 1), g \in 0..(Steps - 1) :
       f # g /\ sched' = SwapNodes(sched, f, g)
  /\ Iterated

SwapCrashNodesStep ==
  /\ Iterating("swap_crash_nodes")
  /\ IF CrashQuota = 1
       THEN \E pick \in [1..Len(sched) -> Nodes] :
              /\ \A i \in 1..Len(sched) : sched[i].type = "Crash" => pick[i] # sched[i].node
              /\ sched' = CrashRenode(sched, pick)
       ELSE \E f \in 0..(CrashQuota - 1), g \in 0..(CrashQuota - 1) :
              f # g /\ sched' = CrashSwap(sched, f, g)
  /\ Iterated

SwapCrashStepsStep ==
  /\ Iterating("swap_crash_steps")
  /\ \E idx \in 0..(CrashQuota - 1) : sched' \in CrashStepMoves(sched, idx)
  /\ Iterated

SwapMaxStep ==
  /\ Iterating("swap_max_messages")
  /\ \E f \in 0..(Steps - 1), g \in 0..(Steps - 1) :
       f # g /\ sched' = SwapMax(sched, f, g)
  /\ Iterated

\* A mutator has made its mutation_count iterations: the next one starts.
NextMutator ==
  /\ mi <= Len(chain) /\ j = MutationCount
  /\ mi' = mi + 1 /\ j' = 0
  /\ UNCHANGED <<input, sched, chain>>

\* mutate() has returned the schedule.
Mutated == mi > Len(chain) /\ UNCHANGED mutVars

MutNext ==
  SwapNodesStep \/ SwapCrashNodesStep \/ SwapCrashStepsStep \/ SwapMaxStep
  \/ NextMutator \/ Mutated

MutSpec == MutInit /\ [][MutNext]_mutVars

-----------------------------------------------------------------------------
(* Properties.                                                             *)

Kinds(s) == [i \in 1..Len(s) |-> <<s[i].type, s[i].cid>>]

MutTypeOK ==
  /\ sched \in Seq(StepRec)
  /\ chain \in {Chain(t) : t \in MutatorTypes}
  /\ mi \in 1..(Len(chain) + 1)
  /\ j \in 0..MutationCount

\* Every mutator only rearranges the steps it is given (or changes a node or
\* a max_msgs field): no iteration drops, duplicates or invents a step,
\* whatever indices the searches find or miss.
MutKeepsSteps == ToBag(Kinds(sched)) = ToBag(Kinds(input))

\* Mutation keeps a well-paired schedule well paired (spec: for every
\* generated or mutated schedule, each Crash is followed by exactly one
\* Restart with its crash_id on its node), after every iteration.
MutPreservesPairing == WellPaired(input) => WellPaired(sched)

=============================================================================
