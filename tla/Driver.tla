------------------------------- MODULE Driver -------------------------------
(***************************************************************************)
(* The fuzzer's outer loop, Fuzzer.run (modelfuzz/fuzzer.py), with the     *)
(* guiders of modelfuzz/guider.py.  Schedules are abstracted to their      *)
(* is_mutated tag; a cluster run to the result it hands back: whether it   *)
(* reported errors, the state keys the oracle answers for its trace (none  *)
(* when the oracle is down), and its event trace.  A batch runs            *)
(* in a process pool, so its results are any W such results, or the pool  *)
(* raised and run_batch returned None.  Around it, main (main.py) checks   *)
(* seed_frequency against workers and runs `experiments` fresh fuzzers.    *)
(***************************************************************************)
EXTENDS Integers, Sequences, FiniteSets, TLC

CONSTANTS
  Fuzzers,              \* params.fuzzers, in order: "modelfuzz", "random", "trace"
  Workers,              \* params.workers (W)
  Iterations,           \* params.iterations
  SeedFrequencies,      \* the --seed-frequency values the command line may give
  SeedPopulation,       \* params.seed_population
  MutationsPerSchedule, \* params.mutations_per_schedule
  Keys,                 \* abstract state keys the oracle may return
  Traces,               \* event traces a run may record: sequences of events
  Experiments,          \* params.experiments
  FloatRangeRaises,     \* the interpreter's random.randint rejects a float bound
                        \* (TRUE from Python 3.12 on)
  MutatorType,          \* params.mutator_type
  MutationCount,        \* params.mutation_count
  Steps,                \* params.steps
  CrashQuotas           \* the --crash-quota values the command line may give

VARIABLES
  sf,         \* args.seed_frequency
  cq,         \* args.crash_quota
  exp,        \* main's experiment index
  fi,         \* index in Fuzzers of the strategy now running
  i,          \* the batch loop variable: 0, W, 2W, ...
  pc,         \* "iter": top of the batch loop; "results": in the results loop;
              \* "ret": Fuzzer.run has returned to main; "done": main has ended
  pool,       \* sch_pool: the is_mutated tag of each pooled schedule
  batchOk,    \* run_batch returned a list (not None)
  results,    \* the batch results still to process
  seen,       \* TLCGuider.states: the keys seen so far
  graphs,     \* TraceGuider.traces: the event graphs (their ids) seen so far
  traced,     \* the traces the trace guider has taken since its reset (ghost)
  coverage,   \* stats[fuzzer]['coverage']
  exc,        \* where the exception that ended the program was raised, or "none":
              \* "get_configs" (IndexError), "iterate" (TypeError), "unpack"
              \* (ValueError), "mutate" (IndexError), "randint" (TypeError)
  seededAt    \* the batch index i at which the pool was last reseeded (ghost)

drvVars == <<sf, cq, exp, fi, i, pc, pool, batchOk, results, seen, graphs, traced, coverage, exc, seededAt>>

\* TLCGuider.get_states: the keys of the states the oracle returns for the
\* trace, or none when the request fails.
OracleAnswers == SUBSET Keys

\* What Cluster.run can return: a 3-tuple (executed, trace, errors), or the
\* 2-tuple of a registration timeout (cluster.py:117).
RunResultOver(T) ==
       [shape : {"triple"}, errors : BOOLEAN, keys : OracleAnswers, trace : T]
  \cup [shape : {"timeout"}]

RunResult == RunResultOver(Traces)

\* Only the trace guider reads a run's trace, so the runs of the other
\* strategies are given one trace.
RunTraces == IF Fuzzers[fi] = "trace" THEN Traces ELSE {CHOOSE t \in Traces : TRUE}

\* run_batch: executor.map over the W configs; if any run raises, the
\* exception is printed and results stays None.
run_batch == {<<FALSE, <<>>>>} \cup {<<TRUE, rs>> : rs \in [1..Workers -> RunResultOver(RunTraces)]}

\* get_configs: pop(0) W times.
get_configs(p) == SubSeq(p, Workers + 1, Len(p))

\* A list of n freshly generated (random, not mutated) schedules.
Fresh(n) == [k \in 1..n |-> FALSE]

\* Fault: main accepts any seed frequency.
main_check_none(f) == TRUE

\* main: a seed frequency that is not a multiple of workers is refused.
main_check(f) == f % Workers = 0

\* main parses the arguments and, unless the check refuses them, builds the
\* first Fuzzer (empty pool and stats) and calls its run.
DrvInit ==
  /\ sf \in SeedFrequencies /\ cq \in CrashQuotas /\ exp = 1
  /\ fi = 1 /\ i = 0 /\ pc = IF main_check(sf) THEN "iter" ELSE "done"
  /\ pool = <<>> /\ batchOk = TRUE /\ results = <<>>
  /\ seen = {} /\ graphs = {} /\ traced = {}
  /\ coverage = <<>>
  /\ exc = "none"
  /\ seededAt = 0

\* If the pool has fewer than W schedules, generate the missing ones.
TopUp(p) == IF Len(p) < Workers THEN p \o Fresh(Workers - Len(p)) ELSE p

\* Every seed_frequency iterations the pool is cleared and reseeded.
SeedRefresh(p) == IF i % sf = 0 THEN Fresh(SeedPopulation) ELSE p

\* One batch: reseed, top up, get_configs pops W schedules (pop(0) on an
\* empty list raises IndexError), and run_batch returns the results.
RunBatch ==
  LET p == TopUp(SeedRefresh(pool)) IN
  /\ pc = "iter" /\ i < Iterations
  /\ seededAt' = IF i % sf = 0 THEN i ELSE seededAt
  /\ IF Len(p) >= Workers
       THEN /\ pool' = get_configs(p)
            /\ \E rb \in run_batch : batchOk' = rb[1] /\ results' = rb[2]
            /\ pc' = "results"
            /\ UNCHANGED exc
       ELSE /\ exc' = "get_configs" /\ pc' = "done"
            /\ UNCHANGED <<pool, batchOk, results>>
  /\ UNCHANGED <<sf, cq, exp, fi, i, seen, graphs, traced, coverage>>

\* Fault: the guider replaces its seen-set by the run's keys.
AddStatesReplace(s, keys) == keys

\* TLCGuider.add_and_get_new_states: insert the keys never seen before.
AddStates(s, keys) == s \cup keys

\* TLCGuider.add_and_get_new_states: the number of keys never seen before.
TLCNewStates(r) == Cardinality(r.keys \ seen)

\* The marker TLCGuider.get_states appends to the caller's trace.
ResetMarker == [reset |-> TRUE]

\* Fault: an event node is not linked to the node's previous event.
create_event_graph_noprev(t) ==
  {[name |-> t[k].name, node |-> t[k].node] : k \in {k \in DOMAIN t : "node" \in DOMAIN t[k]}}

\* TraceGuider.create_event_graph: one pass over the trace.  The reset
\* marker is skipped; an event without params.node raises KeyError, which
\* the bare except swallows.  Any other event becomes a node record linked
\* (prev) to the node's previous event, and is keyed by its hash, modelled
\* as the record itself.  The graph's id is the hash of the set of records.
RECURSIVE EventNodes(_, _, _)
EventNodes(t, cur, nodes) ==
  IF t = <<>> THEN nodes
  ELSE LET e == Head(t) IN
       IF "reset" \in DOMAIN e \/ "node" \notin DOMAIN e
         THEN EventNodes(Tail(t), cur, nodes)
         ELSE LET n == e.node
                  node_ == IF n \in DOMAIN cur
                             THEN [name |-> e.name, node |-> n, prev |-> cur[n]]
                             ELSE [name |-> e.name, node |-> n]
              IN EventNodes(Tail(t), (n :> node_) @@ cur, nodes \cup {node_})

create_event_graph(t) == EventNodes(t, <<>>, {})

\* TraceGuider.add_and_get_new_states: the embedded TLC guider's get_states
\* first appends the reset marker to the trace; then 1 if the trace's event
\* graph is new.
TraceGraph(r) == create_event_graph(Append(r.trace, ResetMarker))

TraceNewStates(r) == IF TraceGraph(r) \in graphs THEN 0 ELSE 1

\* GuiderFactory.get_guider: modelfuzz and random use the TLC guider,
\* trace the trace guider.
NewStates(r) == IF Fuzzers[fi] = "trace" THEN TraceNewStates(r) ELSE TLCNewStates(r)

\* Fault: the trace guider's coverage also counts its graph classes.
get_coverage_graphs(s) == Cardinality(s) + Cardinality(graphs)

\* get_coverage: the size of the (embedded) TLC guider's seen-set.
get_coverage(s) == Cardinality(s)

\* MutatorFactory.get_mutator: the mutators mutate() runs, in order; "all"
\* (and anything unknown) is the combined mutator.
MutatorChain ==
  IF MutatorType \in {"swap_nodes", "swap_crash_nodes", "swap_crash_steps", "swap_max_messages"}
    THEN <<MutatorType>>
    ELSE <<"swap_nodes", "swap_crash_nodes", "swap_crash_steps", "swap_max_messages">>

\* SwapNodes and SwapMaxMessages draw the second of two distinct Schedule
\* indices below steps: random.choice of an empty list when steps < 2.
ScheduleChoiceRaises == Steps < 2

\* SwapCrashNodes, unless crash_quota is 1, and SwapCrashSteps draw a crash
\* id below crash_quota: random.choice of an empty range when it is 0.
CrashChoiceRaises(q) == q = 0

\* One mutation raises IndexError if a mutator of the chain does, in its
\* first iteration; CombinedMutator's try/finally does not catch it.
mutate_raises(q) ==
  /\ MutationCount > 0
  /\ \E k \in 1..Len(MutatorChain) :
       LET t == MutatorChain[k] IN
       \/ t \in {"swap_nodes", "swap_max_messages"} /\ ScheduleChoiceRaises
       \/ t \in {"swap_crash_nodes", "swap_crash_steps"} /\ CrashChoiceRaises(q)

\* The results loop meets None (run_batch failed: iterating it raises
\* TypeError) or a registration timeout's 2-tuple (unpacking it raises
\* ValueError); nothing catches either.
ResultRaises ==
  /\ pc = "results"
  /\ \/ ~batchOk
     \/ results # <<>> /\ Head(results).shape = "timeout"
  /\ exc' = IF ~batchOk THEN "iterate" ELSE "unpack"
  /\ pc' = "done"
  /\ UNCHANGED <<sf, cq, exp, fi, i, pool, batchOk, results, seen, graphs, traced, coverage, seededAt>>

\* A run that feeds the pool: no errors, new states, a strategy other than random.
Feeds(r, new) == ~r.errors /\ new > 0 /\ Fuzzers[fi] # "random"

\* One iteration of the results loop over a 3-tuple: the guider takes the
\* trace; a run with errors is logged as a bug; otherwise a feeding run
\* earns mutations_per_schedule mutated children per new state, unless the
\* first mutate() raises; the coverage sample is recorded.
HandleResult ==
  /\ pc = "results" /\ batchOk /\ results # <<>> /\ Head(results).shape = "triple"
  /\ LET r == Head(results)
         new == NewStates(r)
         seen1 == AddStates(seen, r.keys)
     IN /\ seen' = seen1
        /\ graphs' = IF Fuzzers[fi] = "trace" THEN graphs \cup {TraceGraph(r)} ELSE graphs
        /\ traced' = IF Fuzzers[fi] = "trace" THEN traced \cup {r.trace} ELSE traced
        /\ \/ /\ Feeds(r, new) /\ mutate_raises(cq)
              /\ exc' = "mutate" /\ pc' = "done"
              /\ UNCHANGED <<pool, results, coverage>>
           \/ /\ ~(Feeds(r, new) /\ mutate_raises(cq))
              /\ pool' = IF Feeds(r, new)
                           THEN pool \o [k \in 1..(MutationsPerSchedule * new) |-> TRUE]
                           ELSE pool
              /\ coverage' = Append(coverage, get_coverage(seen1))
              /\ results' = Tail(results)
              /\ UNCHANGED <<pc, exc>>
  /\ UNCHANGED <<sf, cq, exp, fi, i, batchOk, seededAt>>

\* The results loop is over: the next batch.
NextBatch ==
  /\ pc = "results" /\ batchOk /\ results = <<>>
  /\ i' = i + Workers /\ pc' = "iter"
  /\ UNCHANGED <<sf, cq, exp, fi, pool, batchOk, results, seen, graphs, traced, coverage, exc, seededAt>>

\* The batch loop is over: clear the pool, and start the next strategy with
\* fresh stats and a fresh guider, or return the stats to main.
NextFuzzer ==
  /\ pc = "iter" /\ i >= Iterations
  /\ pool' = <<>>
  /\ IF fi < Len(Fuzzers)
       THEN /\ fi' = fi + 1 /\ i' = 0
            /\ seen' = {} /\ graphs' = {} /\ traced' = {} /\ coverage' = <<>>
            /\ UNCHANGED pc
       ELSE /\ pc' = "ret"
            /\ UNCHANGED <<fi, i, seen, graphs, traced, coverage>>
  /\ UNCHANGED <<sf, cq, exp, batchOk, results, exc, seededAt>>

\* main's experiment loop after fuzzer.run returned: it reseeds with
\* random.randint(0, 1e20), which raises TypeError where a float bound is
\* rejected, then writes experiment_stats.json and builds the next Fuzzer.
MainNextExperiment ==
  /\ pc = "ret"
  /\ IF FloatRangeRaises
       THEN /\ exc' = "randint" /\ pc' = "done"
            /\ UNCHANGED <<exp, fi, i, seen, graphs, traced, coverage, seededAt>>
       ELSE /\ IF exp < Experiments
                 THEN /\ exp' = exp + 1 /\ fi' = 1 /\ i' = 0 /\ pc' = "iter"
                      /\ seen' = {} /\ graphs' = {} /\ traced' = {} /\ coverage' = <<>> /\ seededAt' = 0
                 ELSE /\ pc' = "done"
                      /\ UNCHANGED <<exp, fi, i, seen, graphs, traced, coverage, seededAt>>
            /\ UNCHANGED exc
  /\ UNCHANGED <<sf, cq, pool, batchOk, results>>

\* main has returned or the program has raised.
Stopped == pc = "done" /\ UNCHANGED drvVars

DrvNext == RunBatch \/ ResultRaises \/ HandleResult \/ NextBatch \/ NextFuzzer \/ MainNextExperiment \/ Stopped

DrvSpec == DrvInit /\ [][DrvNext]_drvVars

-----------------------------------------------------------------------------
(* Properties.                                                             *)

\* The event graphs the traces may hash to.
GraphIds == {TraceGraph([trace |-> t]) : t \in Traces}

DrvTypeOK ==
  /\ sf \in SeedFrequencies /\ cq \in CrashQuotas /\ exp \in 1..Experiments
  /\ fi \in 1..Len(Fuzzers)
  /\ i \in 0..(Iterations + Workers - 1)
  /\ pc \in {"iter", "results", "ret", "done"}
  /\ seededAt \in 0..(Iterations + Workers - 1)
  /\ pool \in Seq(BOOLEAN)
  /\ results \in Seq(RunResult)
  /\ seen \subseteq Keys /\ traced \subseteq Traces
  /\ graphs \subseteq GraphIds
  /\ coverage \in Seq(0..Cardinality(Keys))
  /\ exc \in {"none", "get_configs", "iterate", "unpack", "mutate", "randint"}

\* Every batch runs schedules from a pool reseeded fewer than seed_frequency
\* iterations before: the batch index i steps by workers, and main refuses a
\* seed frequency that is not a multiple of workers (spec 4.7: the seed
\* refresh aligns with batch boundaries).
ReseedPeriod == pc = "results" => i - seededAt < sf

\* The program never ends with an exception: a failed batch is skipped and
\* a registration timeout yields a run without a trace (spec 7: errors do
\* not abort the batch; spec 8: the fuzzer completes all iterations
\* without raising).
FuzzerCompletes == exc = "none"

\* The coverage series of a strategy never decreases, whatever keys, graphs
\* and oracle outages the runs bring (spec: the guider's seen-set is
\* monotonically non-decreasing), and, while no exception has ended the
\* program, its last sample is the seen-set's size.
CoverageMonotone ==
  /\ \A k \in 1..(Len(coverage) - 1) : coverage[k] <= coverage[k + 1]
  /\ exc = "none" /\ coverage # <<>> => coverage[Len(coverage)] = Cardinality(seen)

\* Reference classes for the trace guider: each node's own subsequence of
\* the trace's events (events without a node belong to none); the order
\* between nodes is forgotten.
OnNode(t, n) == SelectSeq(t, LAMBDA e : "node" \in DOMAIN e /\ e.node = n)

NodeHistories(t) ==
  [n \in {t[k].node : k \in {k \in DOMAIN t : "node" \in DOMAIN t[k]}} |-> OnNode(t, n)]

\* The trace strategy counts a run as new exactly when its trace differs
\* from every trace taken before in some node's own order of events, never
\* in the interleaving between nodes: the event graph TraceGuider builds in
\* one pass over the merged trace, each event linked to the previous event
\* of its node, keeps one class per distinct set of node histories.
TraceClasses == Cardinality(graphs) = Cardinality({NodeHistories(t) : t \in traced})

=============================================================================
