# Sprokit in TLA+

KWIVER's *sprokit* (`sprokit/`) is a dataflow framework: a pipeline of
processes, connected by bounded queues, run by a scheduler. This directory
holds TLA+ modules translated from its C++ code, TLC configurations that check
them on small instances, and proofs for all instances that TLAPS checks.

`PROJECT.json` lists the runs, maps every definition to the lines it models,
names the hazards of the code and gives, for each property, a mistake in the
code (an operator `<Definition>_<mistake>` in the module itself) that the
property detects.

To check: `tlc -config MCEdge.cfg MCEdge`, and so on for each `.cfg`;
`tlapm EdgeProofs.tla`, and so on for `SchedulerProofs`, `EmbeddedProofs`,
`DataflowProofs`, `PipelineProofs`, `FlowProofs`, `MuxProofs` and
`ListsProofs`, for the proofs.

Paths below are relative to the root of the repository; `pipeline/` stands for
`sprokit/src/sprokit/pipeline/`.

## 1. Inventory

### Components

**Edge** (`pipeline/edge.cxx`). One queue between an output port and an input
port.
State: the deque `q`, the flag `downstream_complete`, two reader-writer locks,
two condition variables.
Operations: `push_datum`, `try_push_datum` (upstream thread); `peek_datum`,
`get_datum`, `try_get_datum`, `mark_downstream_as_complete` (downstream
thread).
Hard: the flag and the queue are under different locks, notifications are sent
after the lock is released, waits may time out or wake up for nothing, and
`push_datum` on a non-blocking edge may drop data but not control messages.
(`try_push_datum` has a time limit for every packet and returns false when it
gives one up; nothing in the repository but `test_edge.cxx` calls it.)
Correct if: order is kept, the capacity is a bound, nothing is lost silently,
no thread sleeps for ever, and what was peeked is what is taken.

**Process** (`pipeline/process.cxx`). The base class that drives every node.
State: configured, initialized, `is_complete`, core frequency, a stamp for
each output port, the edges of its ports.
Operations: `step` (check inputs, propagate control data or call `_step`, send
the heartbeat, see whether the readers are gone), `mark_process_as_complete`,
and the declaration of ports, `configure`, `init`, `reset`, `reconfigure`.
Hard: every process is in a thread of its own; completion travels downstream
as a datum and upstream as a flag, at the same time; inputs with different
frequencies must stay synchronous over many steps; one `step` blocks several
times.
Correct if: data meet with equal stamps, `complete` is pushed once and last,
nothing that was sent in time is left behind, and every thread ends.

**Pipeline** (`pipeline/pipeline.cxx`). Processes, planned connections, edges,
and the flags of its set-up. A connection whose types are not known yet waits
in one of four lists.
Operations: `add_process`, `connect`, `disconnect`, `setup_pipeline` (clusters,
configuration, types, edges, checks for required ports, cycles and
frequencies), `reset`, `reconfigure`, `start`, `stop`.
Hard: `connect` is called by the application, by every stage of set-up and by
`reset`, and sorts the connection into another list each time; the type of one
port decides that of others, in an order that the names and the calls give;
the frequency check walks the connections in any order, with rational numbers,
and puts off those it cannot decide; any stage may throw.
Correct if: the verdict and the types depend on the connections alone, each
accepted connection ends up as one edge, a pipeline is accepted exactly when
frequencies exist that balance it, with the smallest ones, and set-up returns
or throws.

**Schedulers** (`pipeline/scheduler.cxx`, `sprokit/src/schedulers/`).
`scheduler` guards `start`, `wait`, `pause`, `resume` and `stop` by a mutex
and the flags `running` and `paused`. `thread_per_process_scheduler` gives
each process a thread, pauses them by a reader-writer lock, and stops them by
interruption. `sync_scheduler` steps all processes in one thread.
Hard: the calls come from several threads, one of which may be blocked in
`wait` or `pause`; a step under the pause lock may wait for a process that the
lock keeps from stepping; a stop does not join.
Correct if: a paused pipeline stands still, the pause lock is released by
whoever ends the pause and only once, stop reaches threads that wait, and each
call returns.

**Flow processes** (`sprokit/processes/flow/`). `distribute_process` deals the
data of a stream to several ports in turn, `collate_process` gathers them
again; `mux_process` interleaves streams; the rest pass or drop.
State: for each tag, the ports and the port whose turn it is.
Hard: they manage their inputs themselves (`check_none`) and serve several
tags in one loop, so that one blocked call holds all of them; the two
iterators never compare notes except over the status edge.
Correct if: collate restores the stream, and never waits for what is not
coming; mux keeps the rounds of each group when sources end, and ends when
they have.

**Adapters and embedded pipeline** (`sprokit/processes/adapters/`,
`vital/util/bounded_buffer.h`). An application sends data sets to a pipeline
and receives results through two bounded buffers of two.
State: the rings, the stop flag, `m_at_end`, whether the output adapter waits
when its queue is full.
Operations: `send`, `send_end_of_input`, `receive`, `stop`, `wait`; `_step` of
both adapters.
Hard: the buffers' waits are no interruption points, end of data takes a place
in the buffer and never gives way, `Full` is asked outside the mutex, and the
end may come from either side.
Correct if: a buffer is a FIFO, results arrive in order and the end last,
nothing is dropped unless it was asked for, the application comes to the end,
and a stop reaches every thread that does not wait for the application.

**The rest.** The pipeline language and its bakery (`pipeline_util`),
factories, plug-in loading, configuration and logging, thread pools
(`vital/util`), data types, algorithms and *arrows*, transport, bindings and
applets. They are listed one by one in `PROJECT.json` with the reason they are
not modelled.

### How they interact

```
 application -- start/wait/pause/resume/stop --> scheduler ---- thread --.
      |                                             | pipeline::start/stop |
      | connect, setup_pipeline                     v                      v
      '---------------------------------------> pipeline          process::step
                                                 | edges, core_frequency   |
                                                 '-------> edge <----------'
                                          push (upstream) | peek, get (downstream)
                                                          | mark_downstream_as_complete
```

A process learns of the end of its inputs by a `complete` datum, of the end of
its readers by `is_downstream_complete`, and the scheduler learns of the end
of a process from the `_heartbeat` port, through a monitor edge.

## 2. Modules

| module | models | state and actions |
|---|---|---|
| `EdgeSpec` | what an edge promises | a bounded FIFO channel that the reader may close; `Offer`/`Accept`/`FailToSend`, `Ask`/`Receive`/`Look`/`FailToReceive`, `Close` |
| `Edge` | `edge.cxx` | the two threads with program counters; one action for each critical section, wait, timeout, spurious wakeup and notification |
| `EdgeProofs` | | the inductive invariant of `Edge` and what follows |
| `Dataflow` | `process::step` in one thread per process, over any pipeline given as constants | queues, closed flags, the remaining calls of each step; `Propagate`, `Step`, `StepAndStop`, `Grab`, `Push`, `EndStep` |
| `SyncScheduler` | `sync_scheduler.cxx` over the steps of `Dataflow`, and the other scheduler beside it | the queue of processes; `Turn` (a call of the process whose turn it is) and `OwnThread` |
| `Scheduler` | `scheduler.cxx`, `thread_per_process_scheduler.cxx` | the scheduler's flags and mutex, the pause lock, the threads; one action for each call or, if it may block, for each part of it |
| `SchedulerProofs` | | the inductive invariant of `Scheduler` and what follows |
| `Frequencies` | `pipeline::check_port_frequencies` | the work list and the map of fractions; one action for each branch of the loop |
| `Pipeline` | `pipeline.cxx`: connect, disconnect, set-up, start, stop, reset; the types of ports in `process.cxx` | the lists, the flags, the types, and what set-up has still to do; one action for each call of `connect` and each piece of a stage between two calls |
| `Mux` | `mux_process` with sources and readers around it | queues, the loop over groups, the ports left and whose turn it is; one action for each call on an edge |
| `FifoSpec` | what a bounded buffer promises | a FIFO of bounded length; `Put`, `Get` |
| `BoundedBuffer` | `bounded_buffer.h` | the ring, its indices, the threads that wait; `Send`, `Receive` and the waits, one action for each critical section |
| `Embedded` | the adapters and `embedded_pipeline`, composed from `Dataflow` and `BoundedBuffer` | what each adapter does with its queue, what the application has sent and received, who was interrupted |
| `Flow` | `distribute_process`, `collate_process` with workers between them | queues, the two loops (tags, turn, calls that remain, current ports), the workers; one action for each call on an edge |
| `DataflowProofs`, `EmbeddedProofs`, `PipelineProofs`, `FlowProofs`, `MuxProofs` | | inductive invariants and what follows, each for the module it is named after (`DataflowProofs` also for `SyncScheduler`, `EmbeddedProofs` also for `BoundedBuffer`, `PipelineProofs` also for `Frequencies`) |
| `Lists`, `ListsProofs` | | two functions on sequences that the modules use, and the facts about sequences that the proofs need |
| `MC*` | | small instances for TLC |

They fit together as follows. `Edge` implements `EdgeSpec` (checked), so
`Dataflow`, `Flow` and `Mux` use queues that behave as `EdgeSpec` says, with
one atomic step for a call. Two facts about `Edge` justify this: a peek shows
what the next reads return (`PeekTheorem`), and after the reader has closed an
edge at most one datum gets in, which nobody reads (`LateTheorem`).
`Pipeline` builds the graph that `DataflowAssumption` describes, and
`Frequencies` its core frequencies. `SyncScheduler` extends `Dataflow` and runs
the same steps in one thread. `Embedded` extends both `Dataflow` and
`BoundedBuffer`: its adapters are two processes of `Dataflow` whose `_step`
also calls a buffer. `Scheduler` replaces processes by a chain that may block
on each other, because all it needs of a step is that it can wait; `Dataflow`
has the steps in full.

### Abstractions

- A datum is its kind, and a number or a stamp where order matters. Payloads,
  port types and error texts are left out.
- `Edge` has one upstream and one downstream thread, as the pipeline builds
  it. `complete_mutex` and `mutex` are not variables: no action spans a
  critical section, and no code takes the second while it holds the first in
  a way another thread could notice.
- The upstream process of `Edge` makes `MaxPushes` calls, which also number
  the data. The downstream process peeks at up to `MaxPeeks` data, no more
  than the capacity: a peek beyond it waits for ever (listed as a hazard,
  since neither `process.cxx` nor `pipeline.cxx` compares the two).
- `Dataflow` merges the peeks of `check_required_input` into one step, since
  nobody but the process itself takes data from its edges. A process without
  inputs makes at most `MaxSteps` steps. Data checking is at its default
  level `check_valid`; the heartbeat always gets through.
- `Scheduler` models `boost::shared_mutex` from its use: a waiting writer bars
  the entry of new readers until the last of the old ones leaves. Calls that
  cannot block while they hold `scheduler::mut` are one step. At most
  `MaxRuns` runs start. The end of the scheduler object is not modelled.
- `Pipeline` has a fixed set of processes and of connections that may be asked
  for, each once. What a process adds by itself (creating a port when it is
  connected, refusing a type, throwing from a hook) is left out, as is the
  frequency check, which is `Frequencies`. The checks on the whole graph, which
  change nothing, are one step. Once a reset was broken off by an exception
  (`failed`) the properties say nothing until the next reset.
- `Flow` takes the ports of a tag as they were connected, in the same order on
  both processes (`FlowAssumption`); the workers answer each datum by one
  datum. A final reader may end in any of its steps. So may one of `Mux`,
  whose sources may end at any time.
- `BoundedBuffer` wakes no thread for nothing: a spurious wakeup tests the
  condition again and waits again, which no other thread can notice.
- `Embedded` numbers the data sets by their turn; a datum carries that number
  in its stamp. The application has either one thread for each direction, or
  the loop of the documentation (`embedded_pipeline.h`), which receives one
  data set for each that it sent. A data set has a datum for each port of the
  input adapter; one that has not makes the adapter throw in its thread, which
  ends the program. Interruption reaches a thread at the top of `run_process`
  and in the waits on edges, and nowhere else.

## 3. Runs

| run | instance | shows |
|---|---|---|
| `edge` | capacity 2, non-blocking, 4 pushes of data or control messages by `push_datum` or `try_push_datum`, peeks at 2 data | the invariants below, and that `Edge` implements `EdgeSpec` |
| `dataflow` | a diamond (source, two filters, sink) over edges of capacity 1, where a filter and the sink may end at any step, under both schedulers; and ports of frequency 2 along two paths that meet; flush and empty data in both | no early end in either direction leaves a thread behind, stamps agree, batches are whole, the one thread of `sync_scheduler` never blocks |
| `scheduler` | two clients with all five calls, a chain of two | pause, resume, stop and wait in any interleaving |
| `frequencies` | 18200 initial states: connected pipelines of up to 4 processes and 3 connections over a few frequencies, 0 among them, connections in every order | exact verdict and smallest frequencies |
| `pipeline` | four processes, two nested clusters, four of seven connections in any order, one reset | verdict and types by the connections alone, nothing lost, set-up ends |
| `flow` | two tags, two workers each, edges of capacity 1, streams of up to 3 and 1 items | streams restored, no wait in vain, everything ends |
| `mux` | three sources of up to 3 items in two groups, in opposite orders, edges of capacity 1 | rounds kept, nothing missing, everything ends |
| `embedded` | input adapter, worker, output adapter; edges of capacity 1, buffers of 2, up to 3 data sets | results in order, the buffers are FIFOs, the end arrives, what a stop reaches |

### The properties

`Edge`: `InOrderDelivery`, `NoControlLost` (comment in `push_datum`: "We can
lose data but not control messages"; what `try_push_datum` gives up is counted
apart, in `refused`, since its caller is told), `PeekedIsNext`, `AtMostOneLateDatum`,
`NoLostWakeup` (a thread that waits for what is there is about to be
notified), `AbstractSpec` (refinement, with its liveness: a push that finds
room and a read that finds data return).

`Dataflow`: `Synchronized` (no stamp mismatch ever), `CompleteIsLast`,
`CompletePushed` (every reader of a process that ended learns of it),
`NothingLeftBehind` (all that was sent on the input that ended first is
processed, and as many data on the others), `NoWorkForNobody` (at most one
result is computed after the last reader left), `Terminates`.
`SyncScheduler`: `TurnNeverBlocks` (the process whose turn it is finds all it
reads and room for all it writes, also while processes end).

`Scheduler`: `PausedMeansStill` (no thread of any run is in a step while the
scheduler is paused), `PauseLockOwned`, `TrackingNeverFails` (the
`logic_error` of `pipeline::stop` is never thrown), `StopTakesEffect`.

`Frequencies`: `AcceptedIsBalanced`, `RejectedIsUnbalanced`,
`SmallestFrequencies`, `CheckEnds`.

`Pipeline`: `NothingLost` (the edges of a pipeline that is set up are those of
the accepted connections, clusters replaced, each once), `SharingRespected`
(one reader only if it is mutable), `VerdictByTypes` (set-up succeeds exactly
when a typing exists, said without an order, and gives the types of that
typing), `SetupEnds`.

`Flow`: `OrderRestored` (what comes out is a prefix of what went in, control
data included), `NeverWaitsInVain` (the branch that collate waits on has what
it waits for), `Terminates`.

`Mux`: `MuxedInOrder` (each item is preceded by exactly the items of the
earlier rounds and ports; `complete` comes after all), `Terminates`.

`Embedded`: `DeliveredInOrder` (in order, once, without a gap if the output
adapter waits, and all of them if the end came through the pipeline),
`NeverWaitsToDrop` (an adapter that may drop waits for nothing but the end),
`ImplementsFifo` (refinement of `FifoSpec`), `Ends`, `StopReaches`.

### Bounds

- Edge: capacity 2 is the least at which a peek at the second datum, a full
  queue and a half-full one all occur. Four pushes fill it, block and go on
  after room was made. All of its safety is proved for every bound.
- Dataflow: in the diamond, capacity 1 makes every push block as early as it
  can, and three steps of the source are enough for a datum in each filter,
  one in each edge and one waiting. In the other pipeline two steps of the
  source go through two batches; an error in the increment of a stamp shows in
  the second. `sync_scheduler` runs the diamond only: the rates of the other
  are what `EvenlyStepped` excludes.
- Scheduler: with two clients one can wait or pause while the other stops or
  starts; two processes are the least that can wait for each other. A single
  run suffices for `StopTakesEffect`; the safety properties are proved for
  any number of runs, clients and processes.
- Frequencies: three connections are the least that make a cycle (whose last
  connection is validated, not propagated) or a work list with two
  unconnected ends in front (`Requeue`). The `8` in `RejectedIsUnbalanced`
  and the `16` in `SmallestFrequencies` exceed what the frequencies of the
  instance (at most 3 along 3 connections) need for the pipelines they reject
  and accept.
- Flow: three items pass each of two ports and wrap around; a second tag of a
  different length is erased from the loop before or after the first. The
  reader of the long stream may end early, which lets the end travel
  upstream through both processes.
- Pipeline: four connections are the most that a chain through both
  flow-dependent processes and a second link need; the seven include chains
  that cannot be typed, an input fed twice and a shared port with a mutable
  reader. Two clusters, one inside the other, make the mapping run twice. In
  the passing run only connections that are never pinned are taken back (see
  `pipeline_disconnect`), and no mutable reader of a shared port has a
  deferred type (the refusal at `pipeline.cxx:1298`, listed below).
- Mux: three ports are the least at which erasing one leaves a turn to take
  among the others; three items make rounds before, at and after that.
- Embedded: three data sets fill a buffer of two and wrap its ring around; with
  the edges of capacity 1 a fourth is in every place at once.

### Fairness

- `Edge`: both threads run, and the reader goes on until it closes the edge.
  That is what the loop of a scheduler does. Spurious wakeups and timeouts of
  a running limit are in the thread's own fairness; spurious wakeups are never
  promised.
- `Dataflow`: each process has a thread, which moves whenever it is not
  blocked (weak fairness for each process, no more).
- `Scheduler`: threads move when they can. A thread that waits for a lock that
  is free again and again gets it (strong fairness on `LockShared`,
  `PauseReturns` and `WaitReturns`), since boost's locks queue on condition
  variables that are notified at each release. No client is obliged to call
  anything.
- `Frequencies`: the loop runs on.
- `Pipeline`: a call of `setup_pipeline` or `reset` goes on. Nobody need make
  one.
- `SyncScheduler`: the one thread, or each of the threads.
- `Flow` and `Mux`: only that *some* process moves when one can. This is
  weaker than a fair thread for each.
- `Embedded`: each process and each direction of the application goes on
  unless it is blocked. Nobody need call `stop`.

Deadlock is checked wherever the modelled system must not stop (`Dataflow`,
`Frequencies` and `Flow` add a stuttering step for the end of all threads, and
the reader of `Edge` may mark the edge again). It is switched off where the
system may stop: the clients of `Scheduler` and the application of `Pipeline`
may be done, `Mux` includes the policy that blocks (`mux_any`; `Terminates`
covers the other), and the threads of `Embedded` that a stop does not reach
wait for ever (`Ends` and `StopReaches` say when).

### Disagreements with the documentation

Each of these runs checks one property and fails, with the code as it is.

| run | property | what happens |
|---|---|---|
| `dataflow_mixed` | `Synchronized` | inputs of frequency 2 and 1 carry unequal stamps from the second step on, since a port's stamp advances by the frequency on each of its pushes |
| `scheduler_pause_deadlock` | `PauseTakesEffect` | `pause` waits for a step that waits for another process, which the waiting writer keeps out; the mutex of the scheduler is held meanwhile, so `stop` cannot help |
| `pipeline_disconnect` | `StaysDisconnected` | a connection that waits in `type_pinnings` is not forgotten by `disconnect` (nor by `remove_process`); set-up connects it again |
| `mux_any` | `AnyCompletes` | the default policy reads one datum more of every port of the group, the one that just ended included, and waits for ever |

Further ones met on the way, each for a reader to judge, have no run:

- a process that reads 3 data a step waits for ever when its source ends in the
  middle of a batch: `check_required_input` peeks at position 2 although
  position 1 holds `complete` (`process.cxx:2050`);
- a process that ends because its required outputs are done pushes nothing on
  an optional one, whose reader waits for ever (`process.cxx:370`);
- a `wait` that returns late stops the run that was started in between
  (`scheduler.cxx:124`); `wait` is refused after `stop`, although `scheduler.h`
  sends the caller there; each run without a reset leaves one more monitor edge
  on the heartbeat port, which fills after 10 steps
  (`thread_per_process_scheduler.cxx:178`);
- connections of frequency 0 that are the only link between two parts make
  `check_port_frequencies` loop for ever (`pipeline.cxx:2183`; `Cut` in
  `Frequencies`); a connection of a process to itself that comes first
  overwrites the seed (`2129`);
- a group of flow-dependent ports whose only neighbours are of any type makes
  `propagate_pinned_types` call itself for ever (`PinnedByAny` in `Pipeline`);
- a connection that is refused stays planned, so that `reset` throws at it and
  leaves `setup_in_progress` set (`pipeline.cxx:570`). From then on `connect`
  plans nothing (`pipeline.cxx:379`), so the next reset loses what was
  connected in between, although `pipeline.h:212` says that all connections are
  made again (TLC finds it with `MaxResets = 2`, in 29 steps; `failed` keeps
  `NothingLost` silent until then); types that set-up gave
  to ports persist over `reset` unless the process declares its ports anew;
- a connection of a shared port with a mutable reader whose type is deferred
  finds its own mark when it is retried, and is refused (`pipeline.cxx:1298`);
- `reset` does not reset `is_complete` (`process.cxx:294`), so that a pipeline
  that ran to its end completes at once in the next run;
- distribute and collate use their ports in the order of connection although
  the documentation says sorted; a tag that ended is unknown to `_reset`;
- a worker between distribute and collate that ends by itself puts a `complete`
  into the middle of the stream (`collate_process.cxx:304`);
- `sync_scheduler` takes pipelines with unequal core frequencies and blocks in
  the long run;
- `embedded_pipeline::stop` does not wait, as its documentation says; the loop
  of the documentation leaves the input adapter waiting if a process ended by
  itself (`GaveUp`); `m_context` keeps its own owner alive, so that destroying
  an embedded pipeline does not stop it (`embedded_pipeline.cxx:134`).

## 4. Proofs

All theorems are of the form `Spec => []P`, for every value of the constants
that the named assumption allows.

### EdgeProofs (assumption: `EdgeAssumption`)

The invariants of `Edge` are not inductive one by one. `EdgeInv` adds
`ThreadInv`: what each program counter says about the thread's datum, call and
time limit. Three links carry the argument.

1. *Control data have no time limit in `push_datum`* (`up.call = "push"` and
   `up.limit # "none"` imply that the datum is data), so when `push_datum`
   drops a datum it never is a control message. `try_push_datum` gives up
   control messages too, as `test_edge.cxx` expects of it.
2. *A reader inside a call has not closed the edge*, so closing never meets a
   peek, and what was peeked is still in front.
3. *A waiting thread's condition is false, or its peer is about to notify.*
   The store and the pop are the steps that make it true, and each moves its
   own thread to `notify`; closing wakes the writer in the same step.

The steps that only move a program counter are treated together
(`ThreadStep`, with the frame lemma `ThreadStepFrame`). One lemma per conjunct
shows that each remaining action keeps it, and `EdgeInvariant` joins them.
`TypeCorrect`, `CapacityTheorem` (that an edge never exceeds its capacity), `OrderTheorem`, `ControlTheorem`,
`PeekTheorem`, `LateTheorem` and `WakeupTheorem` follow.

`EdgeImplementsChannel` is the safety half of the refinement: under the
mapping of `Edge!Abstract`, the initial states are initial states of the
channel, and every step of a thread is one of its steps or a stutter. The
invariant is needed where the channel's guards speak of what the code has
tested earlier, as in "not asked while the channel is closed".

### SchedulerProofs (assumption: `SchedulerAssumption`)

`SchedInv` strengthens the properties by six facts: the readers of the pause
lock are exactly the threads inside a turn of their loop (of *any* run);
a writer excludes readers; the pipeline's `running` is the scheduler's; a
client inside `pause` holds the mutex, so that the scheduler is still running
and not paused; threads of later runs do not exist yet.

`PauseTheorem` then follows without mention of runs: paused means that a
writer holds the lock, so there are no readers, so no thread is in its step.
`PauseLockTheorem` and `TrackingTheorem` are conjuncts. There is a lemma per
call of a client, one for the common part of `stop` and of the end of `wait`,
and one each for entering, moving in and leaving the shared lock.

### DataflowProofs (assumptions: `TopologyAssumption`, `DataflowAssumption`)

The steps of `Dataflow` and the turns of `SyncScheduler` are the same actions,
so each theorem is proved for both `Spec` and `SyncSpec`. Most lemmas are about
`AnyNext`, which adds to these steps that a thread is interrupted wherever it
is (`Interruption`); `EmbeddedProofs` needs them so. Where nobody interrupts, a
thread ends only between steps, and complete (`ExitInv`). The topology is any:
the assumptions say what a set-up pipeline has, edges with one end each in two
ports, frequencies that balance, and edges that hold what a step reads.

- `BaseInv`: the types; the calls that remain in a step are in the order of
  the code, first the reads, then the pushes port by port; a closed edge is
  empty and its reader complete. Gives `TypesCorrect`.
- `CompleteInv`: a `complete` in a queue is its last datum, and its sender has
  ended and has nothing left to push there. Gives `CompleteComesLast`.
- `WastedInv`: a process whose work was for nobody is complete or about to
  see that its readers are gone. Gives `OneWastedStep`.
- `SyncInv`: the stamps on an edge, those in the queue, those of the pushes to
  come and that of the port itself, are one arithmetic progression
  (`ChainInv`); the inputs of one process progress alike, whatever mixture of
  data and control messages they carry (`FitInv`). Gives `StampsMeet`, under
  `Aligned`: the required inputs of one process are read equally often, and
  one at a time if there are flushes. The run `dataflow_mixed` shows that it
  fails without.
- `ToldInv`: once a process has decided to end, each of its edges is closed,
  holds `complete`, is about to, or its reader has itself decided. Gives
  `EndIsTold`, under `Aligned` and `AllRequired`: no edge is optional. With
  optional ports the theorem is false (`process.cxx:370`, listed above).

- `CountInv`: what was sent, handed on and waits on an edge, while its reader
  has not met the end. The stamps of a process count its steps (`TallyInv`);
  what was sent on an edge is what was handed to `_step` and what is in the queue,
  and the stamp in front says how much was handed on (`PlaceInv`); the stamp of
  a `complete` is a whole number of its reader's steps (`LastInv`), so that it
  is met in front of a batch, never inside one; and where it is met, nothing is
  left on that edge (`LeftInv`). Gives `AllIsProcessed`, the theorem for
  `NothingLeftBehind`, under `Aligned`, `SourceKinds = {}` (sources push nothing
  but data) and `Whole(size)` for some `size`: a source may end after any of its
  steps, and what it has sent by then must be whole steps of its reader. Where
  every process that may end by itself has core frequency 1, `size = Core` is
  such, by `DataflowAssumption`; so it is in both pipelines that are checked.
  Without `Whole` the rest of a batch stays behind.
- `TurnInv` (`NeverBlocks`, the theorem for `TurnNeverBlocks`, under `Aligned` and
  `AllRequired`): what the one thread of `sync_scheduler` finds on each edge. The
  queue holds the processes that go on, each once, and only the one in front
  is inside a step (`LineInv`). While the sender of an edge stands before its
  reader, the edge is empty; from the sender's turn to the reader's it fills
  with what one step pushes, which is what one step reads, since all processes
  of a `sync` pipeline have one core frequency. So a turn finds all that it
  reads, and room for all that it writes by `DataflowAssumption`: an edge holds
  what a step reads. That the order is the sorted one is needed only at the start;
  whoever goes on joins behind, so that no rotation of it has to be described.
  A sender that has ended has left `complete` (`ToldInv`), and the reader meets it
  at its next turn and ends. Without `Aligned` a mismatch of stamps would turn
  that `complete` into an error, and the turn after it would find nothing.

The join of two batches of `MCDataflow` is outside `Aligned`, since it flushes
inputs of frequency 2; there, and where sources push flush and empty data, the
properties are model-checked.

### EmbeddedProofs (assumptions: `EmbeddedAssumption` and those of both parts)

- `RingInv` (`RingCorrect`, `BufferIsFifo`): `end` is `buffered` places after
  `begin`, around the ring, for every buffer. It makes the contents, read from
  `begin` on, a sequence to whose end `Send` appends and from whose front
  `Receive` takes, so `BufferSpec`, for any set of threads, implements `FifoSpec`
  (the specification promises no liveness, so this is the refinement in full).
  The arithmetic is that of `%`: the places of two elements are equal only if
  they are a whole ring apart.
- `OaInv` (`DropsInstead`): the output adapter waits for its queue only inside
  a `Send`; if it must not wait, and does not send the end, it has seen room,
  and only it could have filled it since. Holds in any pipeline.
- `Delivery` (`OrderKept`, `QueuesAreFifos`): what becomes of each data set,
  under `OneEachStep`: no optional inputs, frequencies of 1, and only the input
  adapter is a source. The pipeline of `MCEmbedded` is one. With other rates a
  data set is no longer one step of the output adapter, and
  `DeliveredInOrder` says something else.

Every action of `Embedded` is a step of `Dataflow`, an interruption, or leaves the
pipeline alone (`EmbeddedSteps`), so the pipeline keeps `PipeInv`, which is
`BaseInv`, `CompleteInv`, `SyncInv` and `CountInv` of the section above. The rest
follows the data from place to place:

1. *Into the pipeline* (`FeedInv`). What the input adapter has taken and what is
   in its ring, in this order, is what `send` was called with; the stamps of the
   adapter count what it has taken.
2. *Inside* (`OriginInv`). No datum is ahead of the input adapter, and the stamp
   of a `complete` is the number of all data sets, unless a process ended by
   itself (`Broke`, which never becomes false again).
3. *Out of it* (`OutInv`). What was received, what is in the ring and what the
   output adapter has in its hands, in this order (`Outcome`), is increasing, no
   further than the adapter's own steps, and ends with the end of the data if
   it has met it; without gaps, if nothing may be dropped.

The three meet in the output adapter's step: `PlaceInv` says that the stamp in
front of its input is the number of its steps (`OutcomePlaces`), so that the
data set it makes of it is the next one. `QueuesAreFifos` needs `Delivery` only to
know that nothing but data sets and the end is sent (`SendsAnElement`). An
interruption anywhere, and `stop` at any time, are among the steps.

### PipelineProofs (assumptions: `PipelineAssumption`, `FrequenciesAssumption`)

Of `Pipeline`:

- `ListsInv` and `FlagsInv`: what each list may hold, and which flags go with
  which stage of set-up. A connection that waits for a type has an untyped
  end. Gives `TypesCorrect`.
- `SharingInv`: a connection of a shared port is made only when the port is
  marked by it, and a mark for a mutable reader excludes all others. Gives
  `SharedPortsRespected`.
- `StageInv` and `HeldInv`: the connections in any of the lists, or in the
  hands of the stage that is running, are those that were accepted, with the
  clusters' already replaced (`Pending`, `Flat`); and each list is empty once
  the stage is over that goes through it. Gives `NoConnectionLost` and
  `TakenBackIsGone`, both under `NeverPinned`: what may be taken back is a
  connection of a cluster or has no end whose type is open. `MCPipeline`
  satisfies it; the run `pipeline_disconnect` shows what happens without.
- `VerdictInv` (`VerdictDependsOnTypes`, the theorem for `VerdictByTypes`): why
  neither the verdict nor the types depend on the order in which the connections
  are asked for and handed from list to list. Its parts say what is true in the
  middle of set-up, in terms of the closures that know no order.
  1. *A type that was given is wanted* (`TypesFound`). The type of a port is its
     own, or is in `Pins` of all the accepted connections, not only of those
     made so far; ports of one tag have the same one. So a port that may not
     take a type is in a group of which two are wanted, and no order would help
     (`CannotSetIsBad`, `RefusedIsBad`).
  2. *A connection that waits, waits for a reason* (`KindsFound`). What was made
     agrees; an untyped connection has two ports without a type, unless
     `propagate` has still to look at the process of one of them. At the end of
     set-up the untyped ports are then closed under connections and tags, so
     that their group has no pin (`UntypedIsBad`), and where none is left, the
     ports of one type are closed, so that each group has one (`TypedAtTheEnd`).
  3. *Each input is counted* (`CountInv`). For every input of a process, the
     connections in all the lists that will feed it are as many as the accepted
     ones that do; so `make_connections` finds two exactly if two were accepted.
  4. *A mark of a mutable reader has its connection* (`MarksFound`), and no
     such connection still waits.

  Hypotheses, beside finitely many ports and `NeverPinned`, each the other side
  of something the code does, and all true in `MCPipeline`:
  `NoFlowLoop`, no connection of a process to itself has two open types:
  `propagate` looks at the downstream end first (`pipeline.cxx:1346`), so that it
  does not see a type that came to the upstream end of such a connection;
  `MappedOnce`, the ports that an input of a cluster stands for share no port of a
  process: otherwise one accepted connection gives that port two edges;
  `SharedPlainly`, a mutable reader of a shared port is asked for between ports
  of fixed types that agree, and is not taken back: `check_connection_flags`
  marks the port (`pipeline.cxx:1298`) before the types are looked at, nothing but
  `reset` takes the mark away, and a second attempt of the same connection, once
  its type is known, is then refused because of its own mark.

Of `Frequencies`, for any pipelines of finitely many processes whose connections
join two different ones, with any rational frequencies and in any order:

- `WorkInv`: a connection is in the work list or fits the frequencies of its
  ends, which are fractions in lowest terms. When the work list is empty, the
  pipeline is balanced by the fractions, so also by the core frequencies, which
  are the fractions times the least common multiple of their denominators:
  `AcceptedRuns`, the theorem for `AcceptedIsBalanced`.
- `RatioInv`: *any* frequencies that balance the connections are in proportion
  to those found so far. So a connection on which those disagree cannot be
  balanced at all: `MismatchIsReal`, for `RejectedIsUnbalanced` without its bound.
- That the core frequencies have no common divisor (`CoreFrequenciesSmallest`,
  for `SmallestFrequencies`): one of the fractions is 1, so a common divisor
  divides the multiple; with it divided out, the quotient would be a smaller
  common multiple. What is needed of divisors (Euclid's algorithm finds the
  greatest one, a fraction has one lowest form, the least common multiple
  divides the others) is proved from the naturals, since the library has no
  such theorems.

### FlowProofs (assumption: `FlowAssumption`)

`TypeInv` gives `TypesCorrect`. `OrderInv` follows every item: the numbers of
the items of a tag tell which turn, and so which branch, each belongs to. For
a branch, what is in collate's edge, the worker's hand and distribute's edge,
in that order (`Line`), and what distribute is about to push there (`Coming`),
are exactly the items of the source between the last one that collate has taken
from that branch and the last one that distribute has taken from the source
(`Flows`). A control message is in every branch, a datum in one. `OrderRestored`
and `NeverWaitsInVain` (`OrderIsRestored`, `NoVainWait`) follow: the next item
that collate asks for is in front of the line of its branch. The invariant
speaks only while nobody has given up (`Live`); afterwards collate is complete
and pushes nothing more. TLC checks `OrderInv` on the instance of `MCFlow`.

### MuxProofs (assumption: `MuxAssumption`)

`TypeInv` gives `TypesCorrect`. Its part `LoopInv` is about erasing while a
loop goes on: a group that was found complete is behind the iterator, or is the
one whose calls are being made, and any other has its place among the ports that
are left.

`OrderInv` gives `RoundsInOrder`, the theorem for `MuxedInOrder`. What mux has
taken of a source for a group (`Taken`) is what the source has sent, less what is
in the edge and the item it still has to push there. `RoundOK`: mux has taken one
item more from the ports before the iterator than from that port and those after
it, and everything from a port that was erased, which was no more than the rounds
so far. It follows that what was taken is exactly what belongs before the item
whose turn it is (`RoundSplit`), and `PassedOn` says that this is what is in the
stream of the group. `Settled` makes the order final: no item that belongs before
one in the stream can still be sent. An erased port keeps the others in
the same round whether the iterator stays in its place or wraps
(`OrderTurnCompleteAll`). The invariant says nothing of the rounds of a group
that is complete, whose last calls `TurnOK` describes. TLC checks `OrderInv` on
an instance of `MCMux` with two items per source.

### ListsProofs

Facts about sequences, concatenation (`Concat`), choice (`Chosen`) and equality
of sequences. They are proved by well-founded induction on the naturals in set
form (a set without a least element is empty): the library's induction
theorems, which take an operator as a parameter, are of no use to the provers.
`SelectSeq` and the folds of the community modules are defined by such
operators, so the modules that are proved about use `Chosen` and `Concat`.

### Only model-checked

- Liveness under fairness (`StopTakesEffect`, `Terminates`, `SetupEnds`,
  `CheckEnds`, `Ends`, `StopReaches`, the liveness part of the refinement of
  `EdgeSpec`): the prover has no rules for fairness.
- `NothingLeftBehind` where a source pushes flush or empty data: the stamps
  then count steps, not data, and a reader may discard part of a batch.
- `CompletePushed` and `Synchronized` outside the hypotheses under which they are
  proved, as in the join of the two batches in `MCDataflow`. Those hypotheses are not there for the proofs alone: with optional
  ports, and with inputs read at different rates, the code behaves otherwise
  (`process.cxx:370`, and the run `dataflow_mixed`).
- `DeliveredInOrder` and `ImplementsFifo` outside `OneEachStep`, and
  `VerdictByTypes` outside its four hypotheses.

## 5. Not modelled

- *Of a modelled part*: `reconfigure`, `add_process` and `remove_process`, the
  configuration keys and instrumentation of a process, data checking levels
  other than the default, the heartbeat's edge, the compatibility checks of the
  schedulers' constructors, the destruction of a scheduler and of an embedded
  pipeline, `bounded_buffer::Reset`, the hooks of `embedded_pipeline`.
- *Thread pools* (`vital/util/thread_pool*`): a work queue under one mutex that
  no scheduler of sprokit uses; the `thread_pool_scheduler` among the examples
  starts nothing.
- *The pipeline language and its bakery, factories, plug-in loading,
  configuration, logging*: sequential, without a state that outlives a call
  but for registries that are filled at start-up.
- *`vital` types and algorithms, `arrows`, `track_oracle`, the processes that
  wrap them, transport, bindings, tools*: numeric and image code, file formats
  (KLV, video, images), and vendored system libraries (`kwiversys`). They are
  nine tenths of the repository's lines. They are the payload of a datum or the
  body of a `_step`: no state is shared between threads, no protocol is
  followed, and what they compute is out of a model checker's reach. The share
  of all lines that the modules cover is small for that reason; of the
  execution core of sprokit (edges, steps, schedulers, set-up, flow processes,
  adapters) little is left out.

## 6. Plan

What is left, in this order:

1. `Dataflow`: `NothingLeftBehind` with flush and empty data; the places of
   `CountInv` would count batches instead of data.
2. `Embedded`: what the application receives through pipelines of other rates.
3. `Pipeline`: runs for connections outside `SharedPlainly` and `NoFlowLoop`,
   where the verdict does depend on the order.
4. `reconfigure` while a process runs, and optional inputs, of which two
   hazards are without a property.
