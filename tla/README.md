# TLA+ models of the ModelFuzz Ratis fuzzer

The sources live in `src/ratis-fuzzing/ratis-fuzzer/modelfuzz`. The fuzzer runs
Ratis clusters (Java processes) under a schedule of steps and records an event
trace of each run. It feeds the trace to a TLC server for state coverage and
mutates schedules that found new states.

## The system and how its parts interact

Each cluster run (`Cluster.run`, cluster.py) happens in one worker process and
uses these threads:

* **Network** (network.py). An aiohttp server on its own event-loop thread.
  Targets POST to `/replica` to register, to `/message` for each intercepted
  Raft message, and to `/event` for lifecycle events. Messages queue in
  per-edge `mailboxes` (`fr_to`). Events append to `event_trace`. A
  `threading.Lock` guards only part of each handler.
* **EventMapper** (network.py). Turns messages and events into trace
  parameters. It keeps the leader hint `leader_id`: `BecomeLeader` sets it and
  `Timeout` resets it to -1. It also numbers the data of log entries
  (`get_request_number`). Both threads call it without the lock: the loop
  thread from `handle_message`, the main thread from `schedule_node`.
* **RatisServer** (server.py). One supervisor thread per node. It spawns the
  target process, waits for it with a timeout of `timeout+10`, and runs a
  restart loop. The main thread calls `crash()`, `restart()` and `close()` on
  the same object. Both threads share the flags `wait`, `restart_flg`,
  `restart_process`, `error_flg` and `returncode`.
* **RatisClient** (client.py). One thread per client request, awaiting one
  process.
* **Orchestrator** (main thread, `Cluster.run`). It waits for all nodes to
  register, then executes the schedule's steps until the list ends, the
  deadline passes, or `check_error` sees an error flag. It then calls
  `cluster_stop`: stop the network, close and join each server, then each
  client. A `Schedule` step calls `Network.schedule_node` on the main thread,
  which pops up to `max_msgs` messages of an edge and records and posts a
  `DeliverMessage` for each one.

Above a run, `Fuzzer.run` (fuzzer.py) does three things: it generates random
schedules, runs batches in a process pool, passes each trace to a guider
(guider.py), and pushes mutated schedules (mutator.py) back into the pool.
This loop runs on one thread. Its nondeterminism comes from what the runs
return and what the oracle answers.

## Modules

| module | models | state / actions |
|---|---|---|
| `ClusterNodes` | shared constant `Nodes` | — |
| `Channel` | abstract per-edge FIFO channel | `chan`, `taken`; `Send`, `Take` |
| `Network` | network.py `Network` + `EventMapper` | `mailboxes`, `replicas`, `trace`, `leaderId`, `hPending` (message enqueued, SendMessage not yet added), `sn` (frame of the running `schedule_node`: phase, loop index `i`, popped list, lookup stage), `msgCtr`, `hLook` (the loop thread's progress through `get_request_number`), `reqMap`, `reqCtr`; actions `HandleReplica`, `HandleMessageEnqueue` (under the lock), `HandleMessageParams` (one line of `get_request_number` per step), `HandleMessageRecord`, `HandleEvent`, `SNStart`, `SNPop` (one `enumerate` iteration, one lock acquisition), `SNEndPop` (with the lookup `replicas[str(to)]`, network.py:149, so the receiver must have registered; the main thread calls `schedule_node` only once all nodes have, as `Cluster.run` does), `SNParams`, `SNDeliver`, `SNReturn` |
| `Server` | server.py `RatisServer` | `spc` (thread pc), `proc`, `exitCode`, the five flags, ghost `killedBy`; thread actions `SrvSpawn`, `SrvWaitDone` (includes the finally `close()`), `SrvWaitTimeout` (also after a kill or an exit, before the awaited `wait()` returns), `SrvLoop`; main-thread operators `crash`, `restart`, `srvClose`; target `ProcExit` |
| `Cluster` | cluster.py `Cluster.run` + `cluster_stop`, client.py | composes Network and Server by `EXTENDS`; `orch` (main thread pc), `idx`, `crashed`, `executed`, `clients`, `netUp`, `stopAt`, `result`; one action per branch of the step loop and per teardown step, and `ClientExit`, `TargetPost`, `TargetExit` for the environment; `client_close` is `RatisClient.close` |
| `ScheduleSteps` | step dicts of fuzzer.py / mutator.py | step constructors, `PyInsert` (`list.insert`), `WellPaired` and `StepsWellFormed` (the spec's invariant on schedules) |
| `ScheduleGen` | fuzzer.py `generate_schedules` | `schedule`, `phase` (which loop runs), `k` (its counter), `crashSteps`; `AddSchedule`, `AddCrash`, `AddRestart`, `AddClient`, `NextPhase`; every `random.randint`/`sample` is an `\E` over its inclusive range |
| `Mutator` | mutator.py, applied at fuzzer.py:89-90 | `input` (ghost), `sched`, `chain` (what `MutatorFactory` built), `mi`, `j`; one action per iteration of each mutator; searches that find nothing give index -1 (or 0 in SwapMaxMessages), and `Pos` applies Python's negative indexing |
| `Pipeline` | fuzzer.py:74-91 with cluster.py:119-131 | composes ScheduleGen and Mutator by `EXTENDS`: a generated schedule, `Execute` (the prefix the step loop ran before the deadline or an error), then the mutator on that prefix; `ran` |
| `Driver` | main.py `main`; fuzzer.py `Fuzzer.run`, `get_configs`, `run_batch`; guider.py; mutator.py `MutatorFactory` | `sf` (seed_frequency), `cq` (crash_quota), `exp` (experiment), `fi` (strategy), `i`, `pc`, `pool` (is_mutated tags), `batchOk`, `results`, `seen` (TLCGuider keys), `graphs` (TraceGuider's event graphs), ghost `traced` (the traces the trace guider took), `coverage`, `exc` (the raise site, or none), ghost `seededAt`; `RunBatch` (reseed, top up, pop W, run), `ResultRaises` (unpacking `None` or a 2-tuple), `HandleResult` (one iteration of the results loop, including a raising `mutate`), `NextBatch`, `NextFuzzer`, `MainNextExperiment`; `create_event_graph` (a `RECURSIVE` pass over the trace) |
| `MCNetwork`, `MCCluster`, `MCScheduleGen`, `MCMutator`, `MCPipeline`, `MCDriver` | TLC instances | nodes `{1,2}`, schedule constructors, mutator inputs, strategy list |

Threads interleave at the points where Python can switch between them. A
handler on the loop thread never awaits after it reads its body, so it runs
atomically with respect to the other handlers. It does not run atomically
with respect to the main thread, so each half of `handle_message` either side
of the lock release is a step of its own. `schedule_node` takes one step per
lock acquisition. `get_request_number` takes one step per line (membership
test, map write, counter increment, returned lookup), because the other thread
can run between any two of them. Ports, files, logging and the command lines
are abstracted away. A message is `[id, fr, to, data]` with a fresh id and
one entry payload or none.

In `Driver`, a cluster run is what it returns: a 3-tuple with or without
errors, the oracle's keys for its trace (none when the oracle is down) and
its event trace, or the registration timeout's 2-tuple. Only the trace guider
reads the trace, so the other strategies' runs all carry one trace. The trace
guider's `get_states` first appends the reset marker to the trace, then
`create_event_graph` turns it into a set of event records, each linked by
`prev` to the previous record of its node. A sha256 id is modelled by the
record it hashes, which is injective as a hash is meant to be. A batch is any W
results, or `None` when the process pool raised. An exception that ends
`Fuzzer.run` sets `exc` and stops the model, because nothing in `main.py`
catches it. `Init` picks `seed_frequency` and `crash_quota` among the command
line values, and runs only if main's check `seed_frequency % workers == 0`
passes. `MainNextExperiment` is the experiments loop of main.py: a fresh
`Fuzzer` per experiment, after `random.randint(0, 1e20)`. The constant
`FloatRangeRaises` says whether the Python in use rejects the float bound
(TypeError on 3.12 and later). Whether `mutate` raises is derived from the
parameters: `MutatorChain` is what `MutatorFactory` builds, and a schedule or
crash mutator raises when `steps` < 2 or `crash_quota` is 0.

`Network` refines `Channel`. The refinement maps `chan` to `mailboxes`, and
`taken` to the messages recorded as delivered on each edge followed by those
popped but not yet recorded (`ChannelRefinement`).

## Runs

| run | cfg | result | what it shows |
|---|---|---|---|
| network | MCNetwork.cfg | pass (~1.7M states) | `NetTypeOK`; `ChannelRefinement`: with handlers and `schedule_node` interleaved per lock acquisition, a mailbox never loses, duplicates or reorders a message |
| network_send | MCNetwork_send.cfg | violation | `SendBeforeDeliver`: a DeliverMessage can be traced before its SendMessage (network.py:110) |
| network_drain | MCNetwork_drain.cfg | violation | `DrainContract`: with 2 messages and `max_msgs` 2, only 1 is popped (network.py:139) |
| cluster | MCCluster.cfg | pass (~554k states) | `ClusterTypeOK`; `CrashedIsDown`; `CleanShutdown`: once registered, the run ends with every supervisor thread ended and every process dead |
| cluster_kill | MCCluster_kill.cfg | violation | `NoErrorFromKill`: after crash() sends SIGKILL, the supervisor's wait deadline passes before `wait()` returns, and the TimeoutError branch flags an error that check_error reports as a server failure (server.py:76) |
| cluster_restart | MCCluster_RestartRespawns.cfg | violation | `RestartRespawns`: after Crash then Restart the node is never respawned, because `run_server`'s finally `close()` cleared `wait` (server.py:83) |
| network_reqnum | MCNetwork_reqnum.cfg | violation | `RequestNumberStable`: both threads miss the entry's data in `request_map` and number it in turn, so the SendMessage and DeliverMessage of one message carry different numbers (network.py:296) |
| schedgen_quota2 | MCScheduleGen_quota2.cfg | violation | `GenWellFormed`: with `crash_quota` 2, a second Crash inserted before the first shifts it, and the first Restart, placed by the stale index, lands before its Crash (fuzzer.py:175) |
| pipeline | MCPipeline.cfg | pass (~380k states) | `GenTypeOK`; `GenWellFormed`: with `crash_quota` 1 every generated schedule is well paired and well formed; `MutTypeOK`; `MutKeepsSteps`: every mutator type only rearranges the steps of the executed prefix (or rewrites a node or `max_msgs`) |
| mutator_crash | MCMutator_crash.cfg | violation | `MutPreservesPairing`, with quota 1 and the two crash mutators: SwapCrashNodes renodes the Crash but not its Restart (mutator.py:68), and SwapCrashSteps reinserts the Restart after the Crash's old index, before its new one (mutator.py:127). TLC reports the shorter SwapCrashNodes trace; with `{"swap_crash_steps"}` alone the same cfg is violated too |
| driver | MCDriver.cfg | pass (~6.3M states, under 2 minutes) | `DrvTypeOK`; `CoverageMonotone`: each strategy's coverage series never decreases and ends at the seen-set's size, across oracle outages, trace-guider graphs and the per-strategy guider reset; `ReseedPeriod`: no batch runs more than `seed_frequency` iterations after the last reseed, because main refuses a frequency that is not a multiple of W; `TraceClasses`: the trace guider has as many graphs as there are distinct sets of per-node event histories among the traces it took, so a run counts as new exactly when some node's own order of events is new |
| driver_abort | MCDriver_abort.cfg | violation | `FuzzerCompletes`: the program ends with an exception. TLC finds four causes, each confirmed alone: a failed batch (`None`, TypeError, fuzzer.py:75), a registration timeout's 2-tuple (ValueError, fuzzer.py:75), `crash_quota` 0 making SwapCrashNodes raise IndexError (mutator.py:70), and `randint` with a float bound before `experiment_stats.json` is written (main.py:72) |

Each property of a passing run has a mutant in PROJECT.json, written as a
plausible code fault, and TLC finds that mutant.

### Bounds

* Two nodes, so one edge in each direction.
* `MaxSent` caps the intercepted messages: 2 in the `network` runs, 1 in `cluster`.
* `MaxMsgs` = 2 for `max_msgs`.
* `MaxTrace` bounds the lifecycle events a target posts: 2 in the `network`
  runs, 1 in the `cluster` runs, where one event already gives a leader hint
  to the ClientRequest step or a Timeout.
* `Data` = one payload value, enough for both threads to number the same
  entry. With `Data`, the `network` run uses `MaxSent` = 2 (1.7M states,
  about a minute). The `cluster` runs use `Data` = {}, because the cluster's
  properties do not depend on request numbers.

Two messages on one edge are already enough to show the drain bug and the
append-during-pop interleavings. The `network` run lets the main thread call
`schedule_node` on any edge with any `max_msgs`, any number of times.

The `cluster` schedule is `Crash(2), Schedule(2→1), ClientRequest, Restart(2),
Schedule(1→2)`. It exercises every branch of the step loop: a Schedule from a
crashed node and one from a live node, a ClientRequest with and without a
leader hint, and Crash and Restart. Targets may exit on their own with code 1.

The generator runs with 2 Schedule steps, one ClientRequest and
`crash_quota` 1 (`pipeline`) or 2 (`schedgen_quota2`). With 2 crashes, the insertion shifts that cause the
stale index already appear. In `pipeline` the mutator runs on every non-empty prefix of every generated
schedule, because the executed schedule ends early when the deadline passes
or an error is flagged. The `mutator_crash` inputs are every well-paired
ordering of 2 Schedule steps and one Crash/Restart pair on any node.
`mutation_count` is 2. The default is
10, but iterations are independent draws.

The driver runs three strategies (modelfuzz, random, trace), W = 2 and
`iterations` 6. `seed_frequency` is 3 or 4: main refuses 3, and 4 gives a
strategy a reseeded batch, an unseeded batch that depends on the top-up and
the mutated children, and a reseeded one again. `seed_population` is 2 = W,
the smallest size that still needs the top-up. There are three oracle keys,
and three event traces of two nodes: two interleavings of the same node
histories (one with a target's ClientRequest event, which has no node), and
one that swaps the order of node 1's two events. That is the least that
tells a graph that forgets the order between nodes from one that forgets a
node's own order. There are 2 experiments, so the per-experiment reset is
reached. The mutator is `"all"` with `mutation_count` 1, `steps` 2 and
`crash_quota` 0 or 1: the passing run holds with both, and quota 0 is one of
the causes `driver_abort` finds.

### Fairness

The main thread, the loop thread's second half of `handle_message`, the
`schedule_node` steps and each supervisor thread get weak fairness. These are
ordinary threads that keep running. Nothing is fair for the targets: they may
never register, post, or exit. Timeouts are never forced, because wall-clock
time is not modelled and a timeout is just a step that may happen. A
supervisor's wait timeout is therefore not fair, and `CleanShutdown` does not
rely on it: `close()` kills the process, and the thread then ends.
For the same reason the deadline may fall anywhere, also between a kill and
the return of the awaited `wait()` (`cluster_kill`); how wide that window is
in wall-clock time is outside the model.

## Not modelled, and the plan

* **A short pool in `get_configs`** (fuzzer.py:107). The IndexError branch is
  modelled, but the top-up just before it (fuzzer.py:68-69) always refills
  the pool to W, so the branch is unreachable and no property is spent on it.
* **Pairing under the mutators that keep it.** `MutPreservesPairing` is
  checked where it fails (`mutator_crash`). For SwapNodes, SwapMaxMessages
  and the quota-2 SwapCrashNodes with its Restart repair, `pipeline` checks
  `MutKeepsSteps` only.

* **The registration timeout leaves the cluster running** (cluster.py:117):
  `run` returns before `cluster_stop`. This follows from the early return
  alone; the consequence, `Fuzzer.run` raising on the 2-tuple, is checked by
  `driver_abort`.
* **An empty executed schedule** also makes `CombinedMutator` raise
  (mutator.py:169). It needs a deadline of about zero, so the driver's
  `steps` bound covers it only through `ScheduleChoiceRaises`.
* **SwapNodes on a truncated schedule** breaks pairing (mutator.py:56). TLC
  finds this with the `mutator_crash` cfg and `{"swap_nodes"}`, but it is the
  same kind of fault as `mutator_crash` and has no run of its own.
* **Documented divergences without a run:**
  * the coverage series has W*ceil(iterations/W) samples, not `iterations`
    (fuzzer.py:59); MCDriver uses a multiple of W, as main's defaults do;
  * the trace guider counts new graphs during an oracle outage (guider.py:78);
    `TraceNewStates` states it directly.
* **Events without a node** (guider.py:101). A ClientRequest posted by a
  target has no `params.node`, so `create_event_graph` drops it through the
  bare `except`, while the spec makes every event a graph node.
  `TraceClasses` follows the code here; the spec's version is documented but
  has no violation run.
* **Aliasing of mutated children** (fuzzer.py:90). Driver abstracts
  schedules to their is_mutated tag.
* **The second reset marker** (guider.py:39). On an error run `get_states`
  appends a second marker to the same trace. That only changes what the
  oracle is asked for `error.states`, which goes to the error file.
* **The request value of ClientRequest steps** (cluster.py:162).
  `client_request` is never incremented, so every ClientRequest event of a
  run carries request 1, and every client opens the same two log files with
  mode `w+`. Cluster abstracts the request value and the log files, and the
  `cluster` schedule has one ClientRequest step.
* **Messages without an id** (network.py:30). `Message.from_str` takes
  `params` only when the message has an id, which the spec makes optional.
  Without one, `handle_message` raises after enqueueing (no SendMessage),
  and `schedule_node` raises after popping, losing the messages popped with
  it. The targets' message format is outside this repository, so Network's
  messages always carry an id.
* **Registration before the network listens** (cluster.py:88). The
  servers start right after the network thread, before its site is bound.
  Whether a target retries is decided by the Java code.
* **The ClientRequest branch of `map_event_params`** (network.py:253). It
  depends on whether the Java targets post ClientRequest events.
* Out of scope: `main.py` argument parsing and file output, the stale
  `ratis-fuzzer_` copy, `test.py`, `sampler.py` and the Java targets. The
  `analysis/` scripts read the output format of another tool and plot it;
  `split_state_parts` is a pure string routine with no state to check.
