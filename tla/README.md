# A verification of disruptor.go in TLA+

disruptor.go is a Go library for passing events between goroutines through a
ring of preallocated slots. Producers claim sequence numbers, fill the slots
and publish them. Event processors wait for sequences, call a handler with the
event in place and publish their own progress, which in turn gates the
producers. On top of this sit dependency graphs of processors, and a scheduler
that runs a graph with conditional edges for every event.

This directory holds TLA+ models of the code under `src/`, the TLC
configurations that check them on small instances, and theorems about them
that TLAPS proves for all instances. `PROJECT.json` relates every definition
to the lines it models.

## 1. Inventory

| Component | State | Operations | Correct when |
|---|---|---|---|
| Ring (`pkg/ringbuffer/ring_buffer.go`) | slots, mask | publish (claim, translate, publish), try-publish, get, add and remove gating sequences | a handler's event is the one published under its sequence |
| Multi-producer sequencer (`internal/sequencer/base.go`, `multi_producer.go`, `internal/availability`) | `nextSequence`, gating slice and mutex, one lap flag per slot, cursor | `NextN`, `TryNextN`, `PublishRange`, `HighestPublished`, gating | no claim passes the slowest gating sequence; the cursor uncovers only published sequences; no publication stays hidden |
| Single-producer sequencer (`single_producer.go`) | the same without flags; cached minimum, atomic count of gating sequences | the same, claiming without a lock | the same, and the cached minimum never runs ahead |
| Wait strategies (`pkg/wait/wait.go`) | condition variable, generation counter, `context.AfterFunc` hooks | `WaitFor`, `WaitForCapacity`, `SignalAllWhenBlocking` | no wakeup is lost; cancellation always ends a wait |
| Barrier (`pkg/ringbuffer/barrier.go`) | alert flag, dependency sequences | `WaitFor`, `Alert`, `ClearAlert` | a sequence is seen only after all dependencies have finished it |
| Event processor (`pkg/processor/processor.go`) | progress, started flag, cancel function, terminal error | `Start`, `Stop`, `Wait`, the `run` loop with lifecycle callbacks | in order, nothing skipped, removed from the gating set when it ends |
| Exception handlers (`pkg/event/exception.go`) | retry attempts per sequence | `OnEventError` and its lifecycle variants | a retry budget is per failed event |
| Disruptor (`pkg/disruptor/disruptor.go`, `graph_processors.go`) | processors, halt notifier | `HandleEventsWithOptions`, `HandleGraph`, `Start`, `Stop`, `Wait` | a halt stops the rest; `Wait` returns |
| Runtime graph scheduler (`pkg/disruptor/runtime_graph_processors.go`) | per event: node states, edge outcomes, ready queue, tasks in flight | `OnEvent`, submit, complete, resolve, drain | a node runs at most once, after its inbound edges are settled, and nothing is in flight when `OnEvent` returns |
| Static graph (`pkg/graph`) and runtime graph (`pkg/runtimegraph`) | nodes, edges, frozen plan | build, validate, plan, snapshot | what validation accepts is acyclic and connected, and the plan is a topological order |
| Runtime variables (`pkg/runtimevars`) | the bag of an event's variables | `Set`, `Delete`, reset per event; `LookupValue`, `Lookup` over bag, provider and event | a lookup finds what a path was worth at one moment of it, in the event being handled |
| Expressions (`pkg/expression`) | the compiled tree of an edge's condition, the adapter chain | scan, parse, compile; evaluate with conversion, comparison and bit operators | a tree is the one the grammar has; an outcome is what the expression means under the values read; numbers compare as what they are |
| Metrics, options, translators, padding, examples, benchmarks | none of their own | | |

How they interact. A producer goroutine calls the ring, which calls its
sequencer; a claim that finds no room waits in the wait strategy. A publication
stores to the cursor or the flags and then signals the strategy. A processor
goroutine calls its barrier, which reads the cursor and the Sequences of the
processors it depends on and waits in the same strategy; after each event the
processor stores its Sequence and signals. The sequencer reads the Sequences
of the gating processors (all of them for plain handlers, the leaves for a
graph) when it checks capacity. `Stop` comes from any goroutine: it cancels the
context of each processor, alerts its barrier and signals. All of this is
shared memory: mutexes, atomics, one condition variable.

What is hard here: reads of several atomics that move meanwhile; flags set
outside the mutex in any order; a cache written after the lock that protects
its inputs was released; the window between looking and falling asleep; a
context that ends at any point; processors that leave while others still work;
halts and retries in a graph; results of parallel nodes in any order, and a
scheduler whose state is reused for the next event. `PROJECT.json` lists 40 such hazards with their
lines, and which property covers each.

## 2. Modules

    RingIndex            slot and lap of a sequence          pure
    EventLog             what a sequencer promises           abstract
      MultiProducer      implements EventLog
      SingleProducer     implements EventLog
    BlockingWait         users of the sequencer that wait    + MCBlockingWait
    Pipeline             what processors promise             abstract
      Processors         implements Pipeline                 + MCProcessors
    CycleSearch          the search both kinds of graph make
      GraphPlan          static graphs and their plans       + MCGraphPlan
      RuntimeGraph       building and validating a graph
    Routing              the active join                     abstract
      RuntimeScheduler   implements Routing, on RuntimeGraph + MCRuntimeScheduler
    Values               numbers and how they compare        pure
    RuntimeVariables     bag, provider, event, lookups
    Expressions          tokens, operators, adapters         pure
      Parser             compilation, token by token
      Language           what expressions are and mean       reference
      Conditions         an edge's expression in use,        + MCConditions
                         composes RuntimeVariables and Parser
    MultiProducer_proofs, SingleProducer_proofs, BlockingWait_proofs,
    Processors_proofs, CycleSearch_proofs, GraphPlan_proofs,
    RuntimeScheduler_proofs, Conditions_proofs

`Name_Change` definitions stand beside `Name`: each is a mistake the code could
have made there (a dropped test, a forgotten signal). No specification uses
them; with one in place of `Name`, TLC finds a property violated, and the
mutants of `PROJECT.json` say which.

### EventLog

The abstract log, with five variables: how far sequences are `claimed`, which
are `pending`, how far they are `visible`, who is `subscribed` and at which
`pos`. A claim takes up to `Size` further sequences and does not pass a
subscriber by more than `Size`; sequences are filled one at a time in any
order; visibility moves forward over what is claimed and no longer pending;
subscribers advance behind it. It is what the rest of the program relies on, and
`BlockingWait` uses these rules in place of a sequencer.

### MultiProducer

| Model | Code |
|---|---|
| `nextSequence`, `gating`, `mu` | `baseSequencer.nextSequence`, `gatingSequences`, `mu` |
| `availability`, `AvailabilityFlag` | `multiProducerSequencer.availabilityBuffer`: the lap of the last publication per slot |
| `unread`, `minimum`, `scan` | locals of `minimumGatingSequenceLocked` and of the scanner |
| `pc`, `call`, `lo`, `hi`, `at` | where a producer is in `PublishEvent`, and the range it holds |
| `Request`, `Cancel`, `LockClaim`, `ReadGating`, `Grant`, `Refuse` | `NextN` / `TryNextN` |
| `WriteEvent` | the translator on a slot; a translator that panics leaves the slot and publishes it all the same |
| `SetAvailable`, `LockPublish`, `ScanAvailable`, `AdvanceCursor` | `PublishRange`, `setAvailable`, `advanceCursorLocked`, `HighestPublished` |
| `AddGating`, `BeginRead`, `EndRead`, `RemoveGating` | a processor as the sequencer sees it |

A step accesses at most one location that others write without the mutex, so
critical sections take several steps and consumers move between the reads of
their Sequences. `call.n` runs over every legal size of a claim, `call.block`
tells `NextN` from `TryNextN`. Go's atomics are sequentially consistent, so
interleaving is the right memory model.

A processor that registers late starts at -1 wherever the producers are, and
without any gating sequence producers may lap each other and lose
publications. The code allows both, and the model does too. The properties say
under which condition they hold: `InWindow(c)` for the former, `~ laps` for the
latter, and `WindowKept` and `LapsOnlyUngated` show that these conditions,
once true of a gated ring, stay so.

### SingleProducer

The claim reads `gatingCount`, then `cachedGatingSequence`, then under
`gatingMu` every gating sequence, and stores the minimum after the lock was
released; each is a step. `AddBegin`/`AddEnd` and `RemoveBegin`/`RemoveEnd` are
the two halves of a registration and a removal, which hold `gatingMu`.
`known` (consumers registered when the call began) and `inTime` (consumers
registered before the ring overran them) are history variables.

`RegisterWhileClaiming` says whether a registration may overlap a claim.
`FALSE` is the setting in which the safety properties hold: consumers register
before or between claims, and may leave at any time. `TRUE` is what the code
allows and gives the first finding.

### BlockingWait

Producers in `NextN`/`WaitForCapacity`, processors in `run`/`Barrier.WaitFor`/
`WaitFor`, the goroutine `context.AfterFunc` starts, and `Stop`. `stage` is the
program counter of all of them. `current` is the set of waiters whose remembered
generation is still the strategy's: `SignalAll` empties it and wakes the
sleepers, `ReadGeneration` adds to it. This is the generation counter up to
everything the code does with it, which is to compare two of its values, and
keeps the model finite. `hook` is the life of a context's `AfterFunc`: off, set,
launched (its goroutine is about to signal). `Upstream` is the dependency graph
of the processors, and its leaves are the ones that gate.

A publication, a claim and a look at what is available are one step here. The
sequences they read only grow, and each of them is an operation of `EventLog`.
Claims are of one sequence: the size of a claim does not matter to who is
woken. A processor's handler may take forever (`StoreSequence` has no
fairness); the liveness properties name `HandlersReturn` where they need it.

### Pipeline

Stages that finish published events one at a time, in order, each behind those
it needs. A stage may fail at its next event and then never finishes another;
in a graph the failed event is not finished, so nothing behind it moves
on to that event, otherwise it is.

### Processors

What becomes of a group of processors when things go wrong. A publication is one
step and waiting is a repeated test: how they wait is `BlockingWait`'s subject.

| Model | Code |
|---|---|
| `mode`, `started`, `HandleEvents`, `HandleGraph`, `Start` | `Disruptor` and the modes that exclude each other |
| `stage`, `avail`, `seq` | where `run` is, the end of its batch, the processor's Sequence |
| `Policy`, `LifecycleActions`, `EventActions` | the exception handlers; `"custom"` is a user's own, which may return any action each time |
| `Handler`, `attempts`, `SetAttempts` | `RetryExceptionHandler.attempts`, and which processors share one |
| `terminal`, `StoreTerminal`, `crashed` | the concrete type in the `terminalErr` `atomic.Value`; a store of another type panics |
| `OnStart`, `PollBarrier`, `LookBarrier`, `OnBatchStart`, `OnEvent`, `RetryEvent`, `SkipEvent`, `HaltOnEvent`, `NotifyHalt`, `OnShutdown`, `RemoveGating`, `Done` | `run` with its deferred calls |
| `at`, `Once`, `StopProcessor` | three callers of `Stop`: a user, the `stopOnce` of `Wait` and the halt notifier's; each stops one processor per step |
| `task`, `ProcessorWait`, `StopOnce` | `processorWaitTask.run`, one per processor |
| `tries`, `gaveUp`, `haltedAt` | history variables |

`BatchEventProcessor.Stop` is one step: it sets a flag, cancels the context,
alerts the barrier, in this order, and each of the three ends the processor.
A panic of a callback is an error of it. All processors are registered by one
call, `Wait` is called at most once and after `Start`, and a user calls `Stop` at
most once (a second `Stop` of a processor returns at its flag).

### RuntimeGraph

Nodes are numbers in the order of their names, so that a node's number orders
nodes as its index in the plan does. `Node` and `Edge` are the builder's calls
in any order until the graph is handled; `ValidEdge` is `validateEdgeLocked`,
`BeginSearch` and `FindCycle` the search of `CycleSearch`, `Valid` the rest of
validation, `BuildPlan` what freezes the graph. `Validate`, and `BuildPlan` of a
graph it refuses, end in `ValidateReturns`. Labels, metadata, snapshots and
exports are left out.

### Routing

The active join: an edge is decided once its source is through (live or dead)
or skipped (dead only). A node runs once, when all its inbound edges are decided
and one is live; it is skipped when none is. An executor may refuse a node. The
event finishes when no edge can be decided and no node can run, so that what is
still open lies behind a refused node. A failure halts everything, and then no
handler is running.

### CycleSearch

`graphCycleFinder` and `runtimeGraphCycleFinder`, the same code twice. A call of
`visit` is taken apart: `VisitNext` and `LookAtUnseen` enter one, from the loop of
`findCycleLocked` and from the loop of another, `LookAtStacked` finds a node of the
stack and ends the search with `StackCycle`, `VisitReturns` marks a node done,
`AllSeen` ends the search without a cycle. `marks` is the finder's `state`, `stack`
its `stack`. The graph's mutex is held meanwhile, so that the builder waits (`Open`).

### GraphPlan

What becomes of a static graph: it is built, validated, frozen into a plan, and
the plan is turned into processors.

| Model | Code |
|---|---|
| `nodes`, `edges`, `handled` | the fields of `Graph`; `frozen` is set together with `handled` |
| `Node`, `Edge` with `ValidEdge` | `Node`, `Edge`, `validateEdgeLocked`; a `Join` is several `Edge`s, which it neither locks together nor takes back |
| `BeginSearch`, `FindCycle`, `ValidateReturns` | the search of `CycleSearch`, which `Validate` and `BuildPlan` begin with, and the end of a call that leaves the graph as it is |
| `Valid` with `Unreachable`, `Blocked` | the rest of `validateLocked` |
| `BuildPlan`, `Place`, `PlanBuilt`; `degree`, `ready`, `order` | `BuildPlan` and `topologicalOrder`, one turn of its loop per step |
| `CreateProcessor`, `Registered`; `created`, `gating` | the loop of `HandleGraph` and its end |

Nodes are numbers in the order of their names, so the sorted list `ready` is a
set of which `Place` takes the least. `HandleGraph` holds the Disruptor's mutex
and nothing it reads changes after the freeze; taking it apart exposes the
invariant of its loops. The stage `"missing"` is its error for an upstream
processor that does not exist. The Disruptor's mode and start are in
`Processors`.

### RuntimeScheduler

The event handler that routes an event through the graph. Its processor is the
one of `Processors`; here it appears as `OnEvent` after `OnEvent`, and as
`Halt` when an error comes back.

| Model | Code |
|---|---|
| `resolved`, `selected`, `scheduled`, `done`, `attempts` | the node states of `runtimeGraphRunState`; `attempts` is the node's retry handler's |
| `ready`, `inFlight`, `endReached` | the fields of these names |
| `task` | a node's task: queued, running, or its result in the `results` channel |
| `todo`, `skips` | what the loops of `processStart` and `completeNode`, and the recursion of `resolveInbound`, have still to do |
| `OnEvent` with `Reset` | `OnEvent` and `reset` |
| `Evaluate`, `ConditionFails`, `ResolveSkipped` with `ResolveInbound` | `processStart`, `completeNode`, `resolveInbound` |
| `SubmitNode`, `Accept`, `Reject` | the loop of `OnEvent`, `submitNode` and its rejected submission |
| `CompleteNode`, `RetryNode`, `FailNode` with `NodeActions`, `GraphActions` | `completeNode`, `handleNodeFailure`, `handleRuntimeException` and the exception handlers |
| `DrainInFlight`, `Halt`, `Return`, `NoRouteFails` | `drainInFlight` and the end of `OnEvent` |
| `Take`, `HandlerReturns`, `CancelQueued`, `Shutdown` | the executor (external, as the code uses it) and `runtimeGraphNodeTask` |
| `taken`, `passed`, `ran`, `refused` | history variables for the refinement |

What a condition says and what a handler returns is chosen when it is called.
The edges of a skipped node are resolved one per step before anything else;
no callback comes in between. `executor` is inline (one worker), the internal
pool with as many queue places as workers, or the caller's, which may be shut
down at any time and then cancels what it has queued. `Panics` says whether a
condition may panic: `{FALSE}` is the setting in which the properties hold,
with `TRUE` in it the third finding appears.

### RuntimeVariables

| Model | Code |
|---|---|
| `bag`, `Put`, `Reset` | `Bag.values` with `Set` and `Delete`; `Clear` and the new provider and event of `Context.Reset` |
| `provider`, `event`, `FieldValue` | `View.Provider`, `View.Event` and what `reflectTypedValue` makes of a field |
| `at`, `LookTyped`, `LookAgain`, `LookBoxed` | `View.LookupValue`, which asks the bag for a typed value and then for any, the provider and the resolver; then `View.Lookup`, which the evaluator tries when the former finds nothing |
| `ValidPath` | `ValidatePath` |
| `written`, `seen` | history: what handlers wrote for this event, and what the path was worth during the lookup |

An access to the bag holds its mutex and is a step; handlers of parallel nodes
set and delete variables between them.

### Values and Expressions

`Values` has the comparison of the numeric kinds as `value.go` spells it out
per pair of kinds, with integers of any width and any set of floats that integers
are rounded to. `Expressions` has tokens, operators and what a node makes of the
values of its operands (`Decides`, `Answer`), the conversions, and the chain of number
adapters: the place of an adapter is the number of those `finalizeNumberAdapters`
sorts before it, and the first in place that handles a request is asked. A word is the
set of its bits, which is a constant, so that the proofs hold for every width.

### Parser

| Model | Code |
|---|---|
| `source`, `pos`, `Peek` | the tokens of `runtimeExpressionParser`, its position, `peek` |
| `calls` | the calls of `parseExpression` under way: what each stands behind, its minimal precedence and where its nodes begin |
| `code` | the nodes made so far, operands before operators; an operator has the number of nodes of its right operand |
| `ParseBegins`, `ParseEnds` | `Compile`, from the scanner's check of the paths to the token that must not be left |
| `ParseLiteral`, `ParsePath`, `ParsePrefix`, `NoOperand` | the cases of `parsePrefix` |
| `ParseOperator`, `OperandReturns`, `ParenthesisReturns` | the loop of `parseExpression` and its returns, to the loop that called it, behind `!` and behind a parenthesis |

A tree is the sequence of its nodes, so that a recursive program becomes a machine
with a stack, which can be proved about. The calls keep where they begin as history.

### Language

The same without the code: the grammar of `src/docs/api-guide.md:372-407` as the set of
trees a sequence of tokens has at each level of precedence, and the meaning of every
node of a tree under one assignment of values. The adapter asked is found by its order
and place, numbers compare as what they are, `&&` and `||` are truth tables, and there
is no order of evaluation.

### Conditions

An edge gets an expression, which is compiled; each event then evaluates it
while handlers write variables.

| Model | Code |
|---|---|
| `BeginCompile`, `Compile`, `AddEdge` | `WhenExpression`, which compiles; an error refuses the edge |
| `OnEvent`, `EndEvent` | the event's context and its reset, the end of the event |
| `visits`, `result` | the calls of `evaluate` under way, each with its node and the value of its left operand, and what the last one has returned |
| `BeginEvaluation`, `Decide` | `EvaluateBool` |
| `EvaluateLiteral`, `EvaluatePath` with `LookUp` and `TakeValue`, `EvaluateOperand`, `EvaluateRight`, `EvaluateReturns` | the `evaluate` methods of the nodes; a lookup takes the steps of `RuntimeVariables` |
| `HandlerWrites`, `quiet` | handlers of parallel nodes, which write between any two of these steps; history: none has during this evaluation |

In `RuntimeScheduler` an evaluation is one step with any outcome; that handlers
write for the event being handled only is `NothingInFlight` there.

## 3. What the runs check

| Run | Instance | Properties | Shows |
|---|---|---|---|
| `multi_producer` | 2 producers, 2 consumers, 2 slots, 3 sequences | `TypeOK`, `ReadIntact`, `NothingHidden`, `WindowKept`, `LapsOnlyUngated`, `LogSpec`, `Delivered`, `CallsReturn` | the sequencer implements the log, no handler's event is overwritten, no publication stays hidden; what is claimed reaches every consumer that stays, and refused claims are granted when there is room |
| `single_producer` | 2 consumers, 2 slots, 5 sequences, no registration inside a claim | `ReadIntact`, `CacheConservative`, `LogSpec`, `Delivered`, `CallsReturn` | the cached minimum is safe, also while consumers leave |
| `single_producer_race` | the same with registration inside a claim | `ClaimBehindGating` violated | finding 1 |
| `blocking_wait` | 2 producers, chain of 2 processors, 2 slots, 3 sequences | `NoLostWakeup`, `DependenciesFirst` | no interleaving of signal, cancellation, stop and wait loses a wakeup |
| `blocking_wait_live` | 2 producers, 1 processor, 1 slot, 2 sequences | `CallsReturn`, `CancelReturns`, `Delivered`, `StopEnds` | calls return, also when cancelled under a stuck handler; events arrive; `Stop` ends everything |
| `processors` | 2 processors, chained or side by side, custom and retry handler, 2 slots, 3 sequences | `TypeOK`, `HaltContained`, `WaitComplete`, `RetryBudget`, `PipelineSpec` | order and halts as the pipeline promises; `Wait` reports everything and only at the end; budgets are exact |
| `processors_live` | the same with custom and retry handler, 1 sequence | `HaltEndsGraph`, `WaitReturns` | one halted event ends the graph; `Wait` returns after one failure |
| `terminal_error_panic` | 2 processors, fatal and retry handler, 1 sequence | `NeverCrashes` violated | finding 2 |
| `graph_plan` | graphs of at most 4 nodes with any edges between two of them, 2 possible entries and 2 exits, built in every order | `TypeOK`, `CycleFound`, `UpstreamFirst`, `PlanComplete`, `GatingCoversAll`, `HandleGraphReturns` | the cycle search ends, is exact and what it reports is a cycle; a plan is complete and in order, and its leaves gate for all |
| `runtime_graph` | every graph of at most 3 nodes, built in every order; inline, internal and caller's executor with 2 workers; nodes without handler, with retry and with custom handler; 2 events | `TypeOK`, `NothingInFlight`, `NoneLeftWaiting`, `RoutingSpec`, `EventReturns` | the scheduler implements the active join, leaves no join waiting and nothing in flight, and always returns |
| `condition_panic` | graphs of at most 2 nodes, internal executor, conditions may panic | `NothingInFlight` violated | finding 3 |
| `conditions` | every expression of at most 5 tokens of an alphabet of 8, and some longer ones; 3-bit integers; 2 paths, 2 providers, 3 events, handlers that write 3 values; 3 number adapters; 2 events one after the other | `LookupCurrent`, `CompiledExactly`, `OutcomeMeant` | a lookup is current under concurrent writes; the parser builds the only tree the grammar has, or none when there is none; outcomes are what expressions mean |

**Bounds.** `MaxSeq` bounds the sequences claimed; nothing in the code depends
on a bound, it only ends the exploration, so runs that reach it stop
(`CHECK_DEADLOCK FALSE`). Two slots and three sequences reuse a slot with another
lap in its flag; claims of one and of two sequences mix, and a claim as large as
the ring occurs. In `multi_producer` later laps are left to the theorems, which
cover every safety property of that run; `single_producer` goes round two
and a half times. Two producers are needed for
publications out of order and are enough for a gap in front of a published
sequence; two consumers are needed for a minimum read while both move.
In `blocking_wait` three sequences on two slots make a claim wait for the first
event to be finished. `blocking_wait_live` has one slot, so that two producers
contend for a single place that one signal announces. `processors` needs two
processors for a halt to be contained, three sequences for a batch of more than
one event and for an event after a reused slot, and one retry to tell a budget
from none; its custom handler takes every branch a built-in one does. The
liveness properties of `processors_live` are about the end of a graph, for which
one event is enough: a processor halts at it, skips it or handles it while another
halts, and each may fail before and after it. `graph_plan` has four nodes because
a diamond with a shortcut between its branches needs four; with entries 2 and 4
and exits 1 and 3 the order of a plan is rarely that of the names, and 135
different graphs pass validation. `runtime_graph` has every graph of three
nodes because three are what a diamond's half, a join behind a skipped node and
a chain behind a refused one need; with two workers and no queue of the caller's
executor, three ready nodes are one too many, so rejections occur; the second
event shows what the first left behind. In `conditions` the alphabet has
operators of four levels (`||`, `==`, `|`, `<<`), `!`, parentheses and a path, and five
tokens are enough for two operators of any two of these levels side by side and for `!`
before a parenthesis; the others appear in longer expressions; 3-bit words have
negative integers, unsigned ones beyond the signed range and, with floats to which
5 and 7 are rounded as 4 and 8, integers that are equal only as floats. Three
adapters with equal and different orders, one that fails, tell the chain from the
order of registration; the second event shows whether the first one's variables are
gone. `MCConditions` also has TLC evaluate `ComparisonsExact` for these words, and
`BitsExact`: operators on sets of bits are the arithmetic of the words.
Symmetry is used only in
`blocking_wait`, which has no liveness, over the producers.

**Fairness.** Weak fairness on the steps of a goroutine inside a call: Go
schedules every runnable goroutine. Strong fairness on taking a mutex, because
`sync.Mutex` hands the lock to a waiter that has starved for a millisecond (and
a waiting `RLock` is let in when a writer releases). Nobody is obliged to begin
a call, to cancel, to register, to leave or to call `Stop`, and handlers need
not return except in properties that say so. In `Processors` callbacks do
return, and weak fairness on the steps of a processor rules out that its handler
answers Retry for ever, which changes nothing in the model. `RuntimeScheduler`
says the same with strong fairness on the steps by which a node succeeds or
gives up; conditions return, and an executor runs or cancels what it accepts.
In `GraphPlan` weak fairness on the steps of the search and of `HandleGraph`, calls
that never wait.

## 4. What is proved

TLAPS proves the following for every set of producers and consumers, every ring
size, every bound and (in `BlockingWait` and `Processors`) every dependency
graph, every mix of exception handlers and every retry budget, and in
`GraphPlan` and `RuntimeScheduler` for every graph, number of workers and queue places,
and in `Conditions` for every set of expressions of any length, paths, values,
providers and events, every width of integers and every chain of number adapters. The
assumptions are those the modules state: `Size` is a positive integer, `MaxSeq` a
natural number, `None` is no producer, producers are not processors and
`Upstream` maps processors to sets of processors, in `Processors` earlier ones.

* `MultiProducer_proofs`: `TypeCorrect`, `NoOverwriteWhileRead`
  (`ReadIntact`), `NothingStaysHidden` (`NothingHidden`), `WindowIsKept`
  (`WindowKept`), `NoLapWhileGated` (`LapsOnlyUngated`) and `ImplementsLog`
  (`Spec => LogSpec`).
* `SingleProducer_proofs`, for registrations that do not overlap a claim
  (`~ RegisterWhileClaiming`): `TypeCorrect`, `CacheNeverAhead`
  (`CacheConservative`), `ReadsIntact` (`ReadIntact`), `ClaimsBehindGating`
  (`ClaimBehindGating`, which the run `single_producer_race` refutes without the
  condition) and `ImplementsLog` (`Spec => LogSpec`).
* `BlockingWait_proofs`: `WakeupsNotLost` (`Spec => []NoLostWakeup`) and, for
  dependencies without a cycle (a numbering that grows along them),
  `DependenciesRespected` (`DependenciesFirst`).
* `Processors_proofs`: `TypeCorrect`, `HaltIsContained` (`HaltContained`),
  `ImplementsPipeline` (`Spec => PipelineSpec`), `WaitIsComplete`
  (`WaitComplete`) and, if no two processors share a retry handler,
  `BudgetIsKept` (`RetryBudget`).
* `GraphPlan_proofs`, on the lemmas of `CycleSearch_proofs`: `TypeCorrect`,
  `SearchFindsCycles` (`CycleFound`), `UpstreamComesFirst` (`UpstreamFirst`),
  `PlanIsComplete` (`PlanComplete`) and `LeavesGateForAll` (`GatingCoversAll`).
* `RuntimeScheduler_proofs`, for conditions that do not panic
  (`Panics \subseteq {FALSE}`): `TypeCorrect`, `NothingLeftInFlight`
  (`NothingInFlight`), `NothingLeftWaiting` (`NoneLeftWaiting`) and `ImplementsJoin`
  (`Spec => RoutingSpec`).
* `Conditions_proofs`: `LookupsAreCurrent` (`LookupCurrent`), `OutcomesAreMeant`
  (`OutcomeMeant`), `CompilationIsExact` (`CompiledExactly`) and `ComparisonsAreExact`
  (`ComparisonsExact`, for every width and rounding that satisfies `IntAssumption` and
  `FloatAssumption`).

Every safety property of a passing run is thereby a theorem.

**The argument for MultiProducer.** None of the properties is inductive. `IInv`
adds, in the order in which they rest on each other:

1. `TypeOK`, `ConsumersBehind`, `RangesClaimed`, `RangesDisjoint`: who holds
   which sequences. The mutex makes ranges disjoint, although their owners write
   and flag them without it.
2. `CheckSound`: the minimum read so far is still a lower bound for the
   sequences it was read from, since they only grow. This is why reading them
   one by one is safe. It gives `WindowKept` and `LapsOnlyUngated`.
3. `FlagsTrue`, `NoGapPassed`: a flag equals the lap of a sequence only once its
   owner set it, so neither cursor nor scan passes an unpublished sequence. With
   `CheckSound` this gives `ImplementsLog`.
4. `NoLap`, `RingHolds`: without a lap all claims beyond the cursor fit in the
   ring, so a slot holds the last sequence written to it. This gives `ReadIntact`.
5. `FlagsStay`, `NothingHidden`: a flag once set stays until the slot is
   claimed again. Therefore a scan that stops early stops at a sequence whose
   owner has still to take the mutex and scan again, and the last one covers all.

**The argument for SingleProducer.** There are three ways to be granted a claim,
and `IInv` makes each of them mean that no gating consumer is passed:
`CountTrue` (the count runs ahead of the set only while somebody joins, and `CallTrue`
says that nobody does during a claim, so a count of zero is an empty set),
`CacheConservative` and `MinimumTrue` (a minimum once read stays a lower bound,
since Sequences only grow and a removal only takes conditions away).
`ClaimsBehind` puts the three together. With it `WindowKept` and `RingTrue` (the last
lap of the ring holds what was written there) carry `ReadIntact`, and a claim is a
claim of the log. The assumption on registrations is used in `CallTrue` only,
which is where the first finding breaks the argument.

**The argument for BlockingWait.** `NoLostWakeup` speaks of sleepers only. The
strengthening extends it to everybody whose generation is `current`:
`ProgressSignalled` says that if what such a waiter has looked at has changed
since, a signal is due, and `InterruptSignalled` the same for its context and
alert. The strategy's test of the generation inside the mutex then carries this
from the look to the sleep. `HooksSet` is what makes a context count as such a
change: from before the look until the return its hook is set or has fired.
`DependenciesFirst` rests on `DInv`: a batch under way ends within what each
dependency has finished (`BatchesReady`), so nobody overtakes (`NoneOvertakes`), and a
claim that leaves the leaves their slots leaves everybody theirs (`SlotsKept`): of
the processors a claim would overrun, the last in the numbering would be a leaf.

**The argument for Processors.** `IInv` says where a processor stands
relative to its batch: `BatchAvailable` (a batch reaches no further than what is
published and what the dependencies have finished, and stays so because
Sequences only grow), `HaltedStay` (a halted processor is on its way out and, in a
graph, before the event that halted it) and `NewUntouched` (nothing moves before
`Start`, so a registration finds the pipeline untouched). The refinement and
`HaltContained` follow: a processor inside a batch has its next event finished by
all it needs, and a halted one never finishes its own. `EndInv` follows an
error from the processor to the caller of `Wait`: a halt leaves a
terminal error, a processor that has ended stores no further one and gates
nobody, and a task reads the error only then. `AttemptsCounted` says that the
attempts a handler keeps for the event its processor is at are its failures there,
and that it keeps none for later events. This needs the handler to be its own:
attempts are kept per sequence (`exception.go:132`), and processors that share a
handler use up and reset each other's.

**The argument for GraphPlan.** `DegreesTrue` and `ReadyTrue` give the loop of
`topologicalOrder` its meaning: an in-degree is the number of predecessors
not placed yet, and what is ready is exactly what has none. With `OrderTrue`
this puts a node after all it depends on, without any use of validation: a graph
with a cycle would get an order that is correct as far as it goes. That is what
`Processors` assumes of its `Upstream`. Validation is needed for completeness.
For the search, `SearchInv` says that the stack is a path of the nodes marked 1, and that
the nodes marked 2 can be ranked along the edges, none of which leaves them: a node gets
its mark when all its neighbours have theirs, and is then ranked in front of them. A search
that has marked every node leaves a ranking of the graph, which has no cycle then; one that meets a
node of its stack has a cycle in its hands.
`Ranked` keeps a numbering of the nodes along the edges from the moment
validation has found no cycle. If nodes were left when nothing is ready, the one
of the least rank among them would be ready. For the gating, the processor of the
highest rank among those that lag has nobody behind it, so it is a leaf.

**The argument for RuntimeScheduler.** The scheduler knows edges only through
two counters per node, and nodes through flags. `IInv` relates them to the
edges themselves, which the history variables record. `EdgesOnce`: an edge waits in
`todo` or `skips` until it is decided and never comes back, since its source completes
or is skipped once. `CountersTrue`: then the counters are cardinalities, and a
comparison of `resolved` with the number of inbound edges says that all of them
are decided. `FlagsTrue`: so a node is scheduled exactly when its edges are
decided, and ready or skipped by whether one was selected. `NothingForgotten`:
while the scheduler routes, every edge of a node that is through is decided or
waits, and the busy tasks are the nodes that have run and are not through.
`Counted` equates `inFlight` with the number of those tasks, or leaves at most
one when they run inline. With this `Return` is only possible where the join has
nothing more to do, and the drain ends only when no task is left. `Handled` holds the
fact about the graph that this needs: validation gives every node an inbound edge.
A condition that panics breaks `NothingInFlight` and with it the invariant, as
finding 3 shows, so the theorems assume that none does. `NoneLeftWaiting` needs
more than the scheduler: if nodes were left when it has nothing more to do, each would
have a predecessor that is left too, and of those the ranking that `GraphInv` keeps from
validation has a least one.

**The argument for lookups.** A lookup that finds nothing in the bag goes on
to the provider, so it may answer with the provider's value although a handler has
set the path meanwhile. That answer was the worth of the path when the bag was asked
in vain, a moment of the lookup; a value found in the bag is the worth right then.
`LookupInv` keeps this together: during a lookup the present
worth is in `seen`, and once the bag is asked for the last time provider and event
have nothing. `BagOfEvent` says that the bag holds this event's writes only.

**The argument for evaluation.** `Meanings` is a recursive function on the
nodes of a tree. `MeaningsUnfold` gives it its equation: a node refers to
earlier ones only (`WellFormed`, which the parser keeps), so a function that satisfies
the equation exists on every initial part of the tree, and were there two, they would differ
at a least node. `VisitsTrue` says that the visits under way lead from the root to the
present node and that a left operand kept by one has its meaning and decides nothing;
`ResultTrue` that what has been returned is the meaning of the node it is returned for;
`LookupTrue` that an undisturbed lookup has seen one value. A step then needs three facts about
operators: what `Answer` yields is the `Sense` of the node, operands that are not
evaluated do not matter to it, and the adapter first in place is the first by order and
registration. Values stay those their Go types have (`Proper`), for which comparisons are exact.

**The argument for compilation.** The grammar is a recursive function too, on the parts
of a sequence of tokens: `Size` orders them, shorter ones first and then by level, and
`GrammarUnfolds` follows as above. `Spine` turns a tree into the loop of
`parseExpression`: the set of what the loop has, where that ends and of which level it is,
on its way to the tree, from the first operand up. `GrammarInv` has two
halves. `Sound`: what each call has made is a tree of its tokens at its level, so what is
accepted is a tree of the grammar. `Promised`: for every tree the grammar has there are
goals for the calls under way, each reached from the goal of the next one, that end in that
tree; no operator that a call would take in stands behind its goal, so the next
token decides what the parser has to do, and the lemmas `LeafIsPromised` to
`ReturnIsPromised` show that it does it. A refusal would break a promise, so what is refused has no tree; and in the end the
promise for any tree is that it is the one that was built. `GrammarInv` speaks of
all trees and goals, so TLC does not evaluate it; it checks its consequence,
`CompiledExactly`, for every expression of five tokens.

## 5. Only model-checked

Liveness (`Delivered`, `CallsReturn`, `CancelReturns`, `StopEnds`,
`HaltEndsGraph`, `WaitReturns`, `HandleGraphReturns`, `EventReturns`), since the
prover has neither fairness with `ENABLED` nor induction over data; and `BitsExact`, which
needs induction over the width and is evaluated for three bits.

## 6. Findings

1. **Registration during a claim is forgotten** (`single_producer.go:200`, run
   `single_producer_race`). `hasAvailableCapacity` computes the minimum of the
   gating sequences under `gatingMu` and stores it in `cachedGatingSequence` after
   releasing it. An `AddGatingSequences` in between resets the cache, and the
   store undoes the reset: later claims compare with a minimum that does not know
   the new consumer. `src/README.md:405-406` says that a producer can claim a
   slot only when the wrap point stays behind the slowest gating sequence.
2. **A second terminal error ends the process** (`processor.go:350`, run
   `terminal_error_panic`). `storeTerminalErr` stores the join of both errors, whose
   concrete type differs from the first one's, and `atomic.Value.Store` panics on
   an inconsistent type. A halt or a deadline followed by a failing `OnShutdown`
   is enough. `src/docs/api-guide.md:617-619, 638` says that such failures end up
   in the error of `Wait`.
3. **A condition that panics leaves tasks behind**
   (`runtime_graph_processors.go:852`, run `condition_panic`). Handlers of nodes run
   behind a recover, conditions do not. A panic of one unwinds `OnEvent` past
   `drainInFlight`, and the processor, which recovers it, halts and stops gating
   while tasks of the event still run. `src/docs/api-guide.md:421-422` says that
   condition and panic failures are routed through the graph's exception handler.

Seen while modelling, part of the models, and not a finding of a run:

* On `Stop` a waiting leaf ends at once and leaves the gating set while an upstream
  processor may still be in its handler (`processor.go:206, 507-514`); a producer
  that goes on may claim that event's slot. `DependenciesFirst` therefore speaks of
  slots only while the leaves gate.
* A halt from `OnStart` or `OnBatchStart` does not notify the rest of a graph
  (`processor.go:209, 233`); `Wait` or `Stop` ends it.
* A node the executor rejects under Continue is done without its outgoing edges
  resolved (`runtime_graph_processors.go:805`), so joins behind it stay open until
  the event ends. The internal pool has as many queue places as workers
  (`runtime_graph_processors.go:384-389`), so an event with more ready nodes at once
  than twice the workers may meet that rejection.
* A value of a type defined over an integer is an int when it is a field of the
  event, which the resolver reads by its kind, and an object when a handler set it.
* A nil pointer in the event is a variable that does not exist, so `${p} == nil` is
  an error there; a nil in the bag is one that compares.
* NaN satisfies neither of two opposite comparisons, so neither of two edges that
  look complementary is taken. All other numbers take exactly one.
* A condition is no snapshot: each variable is looked up when the evaluation gets
  to it, and handlers may write between two of them. `OutcomeMeant` therefore
  speaks of evaluations no handler writes in.

## 7. Not modelled, and the plan

`PROJECT.json` gives the state of every component. Cache-line padding, metrics,
options, examples and benchmarks hold no state the properties could speak of.
`BusySpinStrategy` polls: its users behave as users of a strategy that signals
all the time, so it has no wakeup to lose. What an ungated ring loses once
producers have lapped each other is documented behaviour of the code and shown
only as the condition `laps`.

Of the runtime variables and expressions the following is left out: the characters the
scanner reads (an expression starts as tokens), the reflective walk through an event
and its cache of compiled paths (the resolver answers per path), and `NoopContext`,
which has no state. Labels, metadata, snapshots and the Mermaid and DOT exports of
both graphs are text the properties do not speak of.

What remains to be done, in this order:

1. **Composition**: the scheduler inside a processor of `Processors`, so that a
   failed event of the runtime graph and the gating of its slot appear in one model.
2. **Stop in a graph**: which slots stay safe after a leaf has left, stated for the
   processors that are still in their handlers.
3. **Runtime graph options**: executors, node defaults and the plan of `pkg/runtimegraph`
   beyond what the scheduler reads.

## 8. Running

    tlc -workers 2 -config MultiProducer.cfg MultiProducer.tla
    tlc -workers 2 -config SingleProducer.cfg SingleProducer.tla
    tlc -workers 2 -config BlockingWait.cfg MCBlockingWait.tla
    tlc -workers 2 -config Processors.cfg MCProcessors.tla
    tlc -workers 2 -config GraphPlan.cfg MCGraphPlan.tla
    tlc -workers 2 -config RuntimeScheduler.cfg MCRuntimeScheduler.tla
    tlc -workers 2 -config Conditions.cfg MCConditions.tla
    tlapm MultiProducer_proofs.tla
    tlapm SingleProducer_proofs.tla
    tlapm BlockingWait_proofs.tla
    tlapm Processors_proofs.tla
    tlapm CycleSearch_proofs.tla
    tlapm GraphPlan_proofs.tla
    tlapm RuntimeScheduler_proofs.tla
    tlapm Conditions_proofs.tla

The other configurations go with the module of the same stem. Each run ends
within about three minutes on two cores.
