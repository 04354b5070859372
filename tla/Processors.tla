------------------------------ MODULE Processors ------------------------------
(***************************************************************************)
(* The event processors of a Disruptor: what becomes of them and of the    *)
(* producers they gate when callbacks fail, somebody stops them, their     *)
(* context ends or somebody waits for them                                 *)
(* (src/pkg/processor/processor.go, src/pkg/event/exception.go,            *)
(* src/pkg/disruptor/disruptor.go and graph_processors.go).                *)
(*                                                                         *)
(* A publication is one step here and waiting is a test that is repeated:  *)
(* EventLog and BlockingWait are about those.  A panic in a callback is an *)
(* error of the callback.  The processors are 1..N in the order of their   *)
(* creation, which is a topological order of the graph.                    *)
(* A definition Name_Change is a mistake the code could have made in Name. *)
(***************************************************************************)
EXTENDS Integers

CONSTANTS
  N,            \* number of processors
  Upstream,     \* for each processor, those it depends on in a graph
  Policy,       \* for each processor, the kind of its exception handler
  Handler,      \* for each processor, which retry handler it uses
  MaxRetries,   \* of the retry handlers
  Exhausted,    \* and their action when they give up
  Size,         \* number of slots
  MaxSeq        \* bound of the model: the highest sequence published

Procs == 1 .. N

Policies == {"fatal", "ignore", "retry", "custom"}

ASSUME NAssumption == N \in Nat
ASSUME UpstreamAssumption ==
  /\ Upstream \in [Procs -> SUBSET Procs]
  /\ \A c \in Procs : \A d \in Upstream[c] : d < c
ASSUME PolicyAssumption ==
  Policy \in [Procs -> Policies] /\ Handler \in [Procs -> Procs]
ASSUME RetryAssumption == MaxRetries \in Nat /\ Exhausted \in {"halt", "continue"}
ASSUME SizeAssumption == Size \in Nat \ {0}
ASSUME MaxSeqAssumption == MaxSeq \in Nat

VARIABLES
  mode,      \* Disruptor.mode
  started,   \* Disruptor.started
  cursor,    \* highest published sequence
  gating,    \* processors whose Sequence gates the producers
  seq,       \* Sequence of each processor: the last one it has finished
  avail,     \* the end of its batch
  stage,     \* where its run is
  terminal,  \* concrete type of its terminalErr, "none" before the first
  crashed,   \* a panic nobody recovers has ended the process
  attempts,  \* of each retry handler: attempts per sequence
  parent,    \* the context given to Start
  stopped,   \* processors whose context is cancelled and barrier alerted
  at,        \* how far each of the three callers of Stop has come
  task,      \* the processorWaitTask of each processor
  reported,  \* the processors whose error reached Disruptor.Wait
  tries,     \* history: failures of the event a processor is at
  gaveUp,    \* history: failures of the last event it gave up
  haltedAt   \* history: the event that halted a processor, -1 for none

facadeVars == <<mode, started, parent>>
logVars == <<cursor, gating, seq>>
errVars == <<terminal, crashed>>
retryVars == <<attempts, tries, gaveUp>>
stopVars == <<stopped, at>>
waitVars == <<task, reported>>
vars == <<facadeVars, logVars, avail, stage, errVars, retryVars, stopVars,
          waitVars, haltedAt>>

(* Disruptor.Stop called by a user, by the stopOnce of Disruptor.Wait, and *)
(* stopProcessors of the halt notifier.                                    *)
Stoppers == {"user", "wait", "halt"}

Init ==
  /\ mode = "unset"
  /\ started = FALSE
  /\ cursor = -1
  /\ gating = {}
  /\ seq = [c \in Procs |-> -1]
  /\ avail = [c \in Procs |-> -1]
  /\ stage = [c \in Procs |-> "new"]
  /\ terminal = [c \in Procs |-> "none"]
  /\ crashed = FALSE
  /\ attempts = [h \in Procs |-> [s \in 0 .. MaxSeq |-> 0]]
  /\ parent = "live"
  /\ stopped = {}
  /\ at = [s \in Stoppers |-> -1]
  /\ task = [c \in Procs |-> "none"]
  /\ reported = {}
  /\ tries = [c \in Procs |-> 0]
  /\ gaveUp = [c \in Procs |-> 0]
  /\ haltedAt = [c \in Procs |-> -1]

--------------------------------------------------------------------------------
(* Registration, Start, publications, the end of the context *)

Leaves == {c \in Procs : \A d \in Procs : c \notin Upstream[d]}

(* Registering fails once the Disruptor has started.  All processors are   *)
(* registered by one call; the two modes exclude each other.               *)
HandleEvents ==
  /\ ~ started
  /\ mode = "unset"
  /\ mode' = "fan_out"
  /\ gating' = Procs
  /\ UNCHANGED <<started, parent, cursor, seq, avail, stage, errVars, retryVars,
                 stopVars, waitVars, haltedAt>>

HandleGraph ==
  /\ ~ started
  /\ mode = "unset"
  /\ mode' = "graph"
  /\ gating' = Leaves
  /\ UNCHANGED <<started, parent, cursor, seq, avail, stage, errVars, retryVars,
                 stopVars, waitVars, haltedAt>>

Start ==
  /\ ~ started
  /\ mode # "unset"
  /\ started' = TRUE
  /\ UNCHANGED <<mode, parent, logVars, avail, stage, errVars, retryVars,
                 stopVars, waitVars, haltedAt>>

Go(c, s) == stage' = [stage EXCEPT ![c] = s]

(* Disruptor.Start starts one processor after the other; each sets its     *)
(* Sequence to -1, which it is.                                            *)
StartProcessor(c) ==
  /\ started
  /\ stage[c] = "new"
  /\ \A d \in Procs : d < c => stage[d] # "new"
  /\ Go(c, "start")
  /\ UNCHANGED <<facadeVars, logVars, avail, errVars, retryVars, stopVars,
                 waitVars, haltedAt>>

Publish ==
  /\ cursor < MaxSeq   \* bound
  /\ \A c \in gating : cursor + 1 - Size <= seq[c]
  /\ cursor' = cursor + 1
  /\ UNCHANGED <<facadeVars, gating, seq, avail, stage, errVars, retryVars,
                 stopVars, waitVars, haltedAt>>

(* The context is cancelled, or its deadline passes.                       *)
ParentEnds ==
  /\ parent = "live"
  /\ parent' \in {"cancelled", "expired"}
  /\ UNCHANGED <<mode, started, logVars, avail, stage, errVars, retryVars,
                 stopVars, waitVars, haltedAt>>

--------------------------------------------------------------------------------
(* Exception handlers *)

Actions == {"halt", "continue", "retry"}

(* What a failure of OnStart, OnBatchStart or OnShutdown leads to.         *)
LifecycleActions(c) ==
  CASE Policy[c] \in {"fatal", "retry"} -> {"halt"}
    [] Policy[c] = "ignore" -> {"continue"}
    [] OTHER -> Actions

(* What a failed event leads to.  Attempts are counted per handler and     *)
(* sequence.                                                               *)
EventActions_OneMore(c) ==
  CASE Policy[c] = "fatal" -> {"halt"}
    [] Policy[c] = "ignore" -> {"continue"}
    [] Policy[c] = "retry" ->
         {IF attempts[Handler[c]][seq[c] + 1] <= MaxRetries THEN "retry" ELSE Exhausted}
    [] OTHER -> Actions
EventActions(c) ==
  CASE Policy[c] = "fatal" -> {"halt"}
    [] Policy[c] = "ignore" -> {"continue"}
    [] Policy[c] = "retry" ->
         {IF attempts[Handler[c]][seq[c] + 1] < MaxRetries THEN "retry" ELSE Exhausted}
    [] OTHER -> Actions

(* The attempts of the event c is at become n; other handlers keep none.   *)
SetAttempts(c, n) ==
  attempts' = IF Policy[c] = "retry"
              THEN [attempts EXCEPT ![Handler[c]][seq[c] + 1] = n]
              ELSE attempts

Attempts(c) == attempts[Handler[c]][seq[c] + 1]

(* terminalErr is an atomic.Value: a second error is joined to the first,  *)
(* and storing the join panics unless the first one has that type too.     *)
StoreTerminal(c, kind) ==
  IF terminal[c] = "none"
  THEN terminal' = [terminal EXCEPT ![c] = kind] /\ UNCHANGED crashed
  ELSE crashed' = (terminal[c] # "join") /\ UNCHANGED terminal

--------------------------------------------------------------------------------
(* The run of a processor *)

(* A lifecycle callback at stage s succeeds, or its failure is passed over *)
(* or halts the run, or it is called again.                                *)
Succeeds(c, s, next) ==
  /\ stage[c] = s
  /\ Go(c, next)
  /\ UNCHANGED <<facadeVars, logVars, avail, errVars, retryVars, stopVars,
                 waitVars, haltedAt>>

Fails(c, s, next, end) ==
  /\ stage[c] = s
  /\ \/ "continue" \in LifecycleActions(c) /\ Go(c, next) /\ UNCHANGED errVars
     \/ "retry" \in LifecycleActions(c) /\ UNCHANGED <<stage, errVars>>
     \/ /\ "halt" \in LifecycleActions(c)
        /\ \E kind \in {"plain", "join"} : StoreTerminal(c, kind)
        /\ Go(c, end)
  /\ UNCHANGED <<facadeVars, logVars, avail, retryVars, stopVars, waitVars,
                 haltedAt>>

(* Without a successful start there is no shutdown callback.               *)
OnStart(c) ==
  Succeeds(c, "start", "wait") \/ Fails(c, "start", "wait", "remove")

OnBatchStart(c) ==
  Succeeds(c, "batch", "handle") \/ Fails(c, "batch", "handle", "shutdown")

OnShutdown(c) ==
  Succeeds(c, "shutdown", "remove") \/ Fails(c, "shutdown", "remove", "remove")

Needs(c) == IF mode = "graph" THEN Upstream[c] ELSE {}

(* availableSequence: the least of the cursor and the dependencies.        *)
IsAvailable_Cursor(c, s) == s = cursor
IsAvailable(c, s) ==
  /\ s \in {cursor} \union {seq[d] : d \in Needs(c)}
  /\ s <= cursor /\ \A d \in Needs(c) : s <= seq[d]

Interrupted(c) == c \in stopped \/ parent # "live"

(* Barrier.WaitFor tests for an interruption.  The error of a context that *)
(* ran out of time is terminal, unless the processor was stopped.          *)
PollBarrier(c) ==
  /\ stage[c] = "wait"
  /\ IF Interrupted(c)
     THEN /\ Go(c, "shutdown")
          /\ IF c \notin stopped /\ parent = "expired"
             THEN StoreTerminal(c, "plain")
             ELSE UNCHANGED errVars
     ELSE Go(c, "look") /\ UNCHANGED errVars
  /\ UNCHANGED <<facadeVars, logVars, avail, retryVars, stopVars, waitVars,
                 haltedAt>>

(* Then it looks at what is available, and waits if there is nothing.      *)
LookBarrier(c) ==
  /\ stage[c] = "look"
  /\ \E s \in -1 .. MaxSeq :
       /\ IsAvailable(c, s)
       /\ IF seq[c] < s
          THEN avail' = [avail EXCEPT ![c] = s] /\ Go(c, "batch")
          ELSE Interrupted(c) /\ Go(c, "wait") /\ UNCHANGED avail
  /\ UNCHANGED <<facadeVars, logVars, errVars, retryVars, stopVars, waitVars,
                 haltedAt>>

(* The loop goes to the next event of the batch, or back to the barrier.   *)
Advance_OneMore(c) ==
  /\ seq' = [seq EXCEPT ![c] = @ + 1]
  /\ tries' = [tries EXCEPT ![c] = 0]
  /\ Go(c, IF seq[c] < avail[c] THEN "handle" ELSE "wait")
Advance(c) ==
  /\ seq' = [seq EXCEPT ![c] = @ + 1]
  /\ tries' = [tries EXCEPT ![c] = 0]
  /\ Go(c, IF seq[c] + 1 < avail[c] THEN "handle" ELSE "wait")

OnEvent(c) ==
  /\ stage[c] = "handle"
  /\ SetAttempts(c, 0)
  /\ Advance(c)
  /\ UNCHANGED <<facadeVars, cursor, gating, avail, errVars, gaveUp, stopVars,
                 waitVars, haltedAt>>

EventFails(c) ==
  /\ stage[c] = "handle"
  /\ UNCHANGED <<facadeVars, cursor, gating, avail, stopVars, waitVars>>

(* ExceptionActionRetry: the same event again.                             *)
RetryEvent(c) ==
  /\ EventFails(c)
  /\ "retry" \in EventActions(c)
  /\ SetAttempts(c, Attempts(c) + 1)
  /\ tries' = [tries EXCEPT ![c] = IF Policy[c] = "retry" THEN @ + 1 ELSE @]
  /\ UNCHANGED <<seq, stage, errVars, gaveUp, haltedAt>>

GiveUp(c) ==
  /\ SetAttempts(c, 0)
  /\ gaveUp' = [gaveUp EXCEPT ![c] = tries[c] + 1]

(* ExceptionActionContinue: the event counts as handled.                   *)
SkipEvent(c) ==
  /\ EventFails(c)
  /\ "continue" \in EventActions(c)
  /\ GiveUp(c)
  /\ Advance(c)
  /\ UNCHANGED <<errVars, haltedAt>>

(* ExceptionActionHalt: fan-out processors count the event as handled,     *)
(* graph processors do not and stop the others.                            *)
HaltAdvances_Always == TRUE
HaltAdvances == mode = "fan_out"

HaltOnEvent(c) ==
  /\ EventFails(c)
  /\ "halt" \in EventActions(c)
  /\ GiveUp(c)
  /\ seq' = IF HaltAdvances THEN [seq EXCEPT ![c] = @ + 1] ELSE seq
  /\ tries' = [tries EXCEPT ![c] = 0]
  /\ \E kind \in {"plain", "join"} : StoreTerminal(c, kind)
  /\ Go(c, IF mode = "graph" THEN "notify" ELSE "shutdown")
  /\ haltedAt' = [haltedAt EXCEPT ![c] = seq[c] + 1]

Finished(s) == at[s] = N

(* A sync.Once around Stop: the first caller runs it, in its own           *)
(* goroutine, and all callers wait until it has ended.                     *)
Once(s) == at[s] = -1 /\ at' = [at EXCEPT ![s] = 0]

NotifyHalt_Forgotten(c) ==
  /\ stage[c] = "notify"
  /\ Go(c, "shutdown")
  /\ UNCHANGED <<facadeVars, logVars, avail, errVars, retryVars, stopVars,
                 waitVars, haltedAt>>
NotifyHalt(c) ==
  /\ stage[c] = "notify"
  /\ \/ Once("halt") /\ UNCHANGED stage
     \/ Finished("halt") /\ Go(c, "shutdown") /\ UNCHANGED at
  /\ UNCHANGED <<facadeVars, logVars, avail, errVars, retryVars, stopped,
                 waitVars, haltedAt>>

(* The deferred calls of run, last of all the WaitGroup's.                 *)
RemoveGating(c) ==
  /\ stage[c] = "remove"
  /\ gating' = gating \ {c}
  /\ Go(c, "done")
  /\ UNCHANGED <<facadeVars, cursor, seq, avail, errVars, retryVars, stopVars,
                 waitVars, haltedAt>>

Done(c) ==
  /\ stage[c] = "done"
  /\ Go(c, "ended")
  /\ UNCHANGED <<facadeVars, logVars, avail, errVars, retryVars, stopVars,
                 waitVars, haltedAt>>

--------------------------------------------------------------------------------
(* Stop and Wait *)

UserStop ==
  /\ mode # "unset"
  /\ Once("user")
  /\ UNCHANGED <<facadeVars, logVars, avail, stage, errVars, retryVars, stopped,
                 waitVars, haltedAt>>

(* Every caller of Stop stops the processors in the order of creation.     *)
(* One that has not been started has no context to cancel; its alert will  *)
(* end it.                                                                 *)
StopProcessor(s) ==
  /\ at[s] \in 0 .. N - 1
  /\ stopped' = stopped \union {at[s] + 1}
  /\ at' = [at EXCEPT ![s] = @ + 1]
  /\ UNCHANGED <<facadeVars, logVars, avail, stage, errVars, retryVars,
                 waitVars, haltedAt>>

(* Disruptor.Wait, after Start: one goroutine per processor.               *)
Wait ==
  /\ N > 0
  /\ \A c \in Procs : stage[c] # "new" /\ task[c] = "none"
  /\ task' = [c \in Procs |-> "waiting"]
  /\ UNCHANGED <<facadeVars, logVars, avail, stage, errVars, retryVars,
                 stopVars, reported, haltedAt>>

(* The processor's WaitGroup lets the task go on.                          *)
HasEnded_Early(c) == stage[c] \in {"remove", "done", "ended"}
HasEnded(c) == stage[c] = "ended"

(* With an error the task stops the other processors, once for all tasks.  *)
AfterWait_NoStop(c) == "sent"
AfterWait(c) == IF terminal[c] = "none" THEN "sent" ELSE "once"

ProcessorWait(c) ==
  /\ task[c] = "waiting"
  /\ HasEnded(c)
  /\ task' = [task EXCEPT ![c] = AfterWait(c)]
  /\ reported' = IF terminal[c] = "none" THEN reported ELSE reported \union {c}
  /\ UNCHANGED <<facadeVars, logVars, avail, stage, errVars, retryVars,
                 stopVars, haltedAt>>

StopOnce(c) ==
  /\ task[c] = "once"
  /\ \/ Once("wait") /\ UNCHANGED task
     \/ Finished("wait") /\ task' = [task EXCEPT ![c] = "sent"] /\ UNCHANGED at
  /\ UNCHANGED <<facadeVars, logVars, avail, stage, errVars, retryVars, stopped,
                 reported, haltedAt>>

--------------------------------------------------------------------------------
Run(c) ==
  \/ OnStart(c) \/ PollBarrier(c) \/ LookBarrier(c) \/ OnBatchStart(c)
  \/ OnEvent(c) \/ RetryEvent(c) \/ SkipEvent(c) \/ HaltOnEvent(c)
  \/ NotifyHalt(c) \/ OnShutdown(c) \/ RemoveGating(c) \/ Done(c)

Facade == HandleEvents \/ HandleGraph \/ Start \/ UserStop \/ Wait

Next ==
  /\ ~ crashed
  /\ \/ Facade \/ Publish \/ ParentEnds
     \/ \E c \in Procs : StartProcessor(c) \/ Run(c)
     \/ \E c \in Procs : ProcessorWait(c) \/ StopOnce(c)
     \/ \E s \in Stoppers : StopProcessor(s)

Spec == Init /\ [][Next]_vars

(* Goroutines that can move do, and callbacks return.  A retry that a      *)
(* custom handler decides changes nothing here, so that these conditions   *)
(* also say that it does not retry for ever.  Nobody has to register,      *)
(* start, publish, stop or wait.                                           *)
Fairness ==
  /\ \A c \in Procs :
       WF_vars(~ crashed /\ (StartProcessor(c) \/ Run(c)))
  /\ \A c \in Procs : WF_vars(~ crashed /\ (ProcessorWait(c) \/ StopOnce(c)))
  /\ \A s \in Stoppers : WF_vars(~ crashed /\ StopProcessor(s))

FairSpec == Spec /\ Fairness

--------------------------------------------------------------------------------
(* Properties *)

StageNames ==
  {"new", "start", "wait", "look", "batch", "handle", "notify", "shutdown",
   "remove", "done", "ended"}

FacadeType ==
  /\ mode \in {"unset", "fan_out", "graph"}
  /\ started \in BOOLEAN /\ (started => mode # "unset")
  /\ parent \in {"live", "cancelled", "expired"}

RunType ==
  /\ cursor \in -1 .. MaxSeq
  /\ seq \in [Procs -> -1 .. MaxSeq]
  /\ \A c \in Procs : seq[c] <= cursor
  /\ avail \in [Procs -> -1 .. MaxSeq]
  /\ stage \in [Procs -> StageNames]
  /\ \A c \in Procs : stage[c] \in {"batch", "handle"} =>
       seq[c] < avail[c] /\ avail[c] <= cursor
  /\ haltedAt \in [Procs -> -1 .. MaxSeq]

Registered ==
  CASE mode = "unset" -> {} [] mode = "fan_out" -> Procs [] OTHER -> Leaves

GatingType == gating = {c \in Registered : stage[c] \notin {"done", "ended"}}

ErrorType ==
  /\ terminal \in [Procs -> {"none", "plain", "join"}]
  /\ crashed \in BOOLEAN
  /\ task \in [Procs -> {"none", "waiting", "once", "sent"}]
  /\ reported \subseteq Procs

RetryType ==
  /\ attempts \in [Procs -> [0 .. MaxSeq -> 0 .. MaxRetries]]
  /\ tries \in [Procs -> Nat]
  /\ gaveUp \in [Procs -> Nat]

StopType ==
  /\ stopped \subseteq Procs
  /\ at \in [Stoppers -> -1 .. N]

(* Every variable stays in its type; a processor that runs has not been    *)
(* removed from the gating set, and inside a batch it is before its end,   *)
(* which has been published.                                               *)
TypeOK ==
  FacadeType /\ RunType /\ GatingType /\ ErrorType /\ RetryType /\ StopType

Halted == {c \in Procs : haltedAt[c] # -1}

(* A halt in a graph keeps the failed event from everything downstream,    *)
(* however many processors halt and stop at the same time                  *)
(* (processor.go:263-269, barrier.go:120-134).                             *)
HaltContained ==
  mode = "graph" =>
    \A c \in Halted, d \in Procs :
      c \in Upstream[d] /\ stage[d] = "handle" => seq[d] + 1 < haltedAt[c]

(* The processors implement the Pipeline: in order, behind what they       *)
(* depend on, and nothing after a halt (processor.go:214-281).             *)
Line == INSTANCE Pipeline
          WITH Stages <- Procs,
               needs <- [c \in Procs |-> Needs(c)],
               isGraph <- mode = "graph",
               published <- cursor,
               pos <- seq,
               failed <- Halted
PipelineSpec == Line!Spec

Waited == \A c \in Procs : task[c] = "sent"

(* When Disruptor.Wait returns, nobody runs a callback any more, nobody    *)
(* gates the producers, and the errors of all processors are reported,     *)
(* those of shutdown included (processor.go:204-212, disruptor.go:179-207).*)
WaitComplete ==
  N > 0 /\ Waited =>
    /\ \A c \in Procs : stage[c] = "ended"
    /\ gating = {}
    /\ reported = {c \in Procs : terminal[c] # "none"}
    /\ Halted \subseteq reported

(* A processor with a retry handler gives an event up after MaxRetries     *)
(* retries, no sooner and no later (exception.go:128-142,                  *)
(* api-guide.md:633-634), if it has the handler for itself: attempts are   *)
(* counted per sequence, and those who share a handler count together.     *)
RetryBudget ==
  \A c \in Procs : Policy[c] = "retry" =>
    tries[c] <= MaxRetries /\ gaveUp[c] \in {0, MaxRetries + 1}

AllEnded == \A c \in Procs : stage[c] = "ended"

(* An event that halts one processor of a graph ends them all, those       *)
(* included that have not been started yet, although nobody waits          *)
(* (graph_processors.go:157-170).                                          *)
HaltEndsGraph ==
  mode = "graph" /\ Halted # {} ~> AllEnded \/ crashed

(* Once one processor has failed, Disruptor.Wait stops the others and      *)
(* returns, in both modes (disruptor.go:58-65, 179-207).                   *)
WaitReturns ==
  (\E c \in Procs : task[c] # "none" /\ terminal[c] # "none") ~> Waited \/ crashed

(* What api-guide.md:617-619 and 638 say: a failure of a callback, also a  *)
(* second one, becomes an error that Wait returns.                         *)
NeverCrashes == ~ crashed

--------------------------------------------------------------------------------
(* The inductive invariant behind the theorems of Processors_proofs.       *)

LineTypes ==
  /\ mode \in {"unset", "fan_out", "graph"}
  /\ started \in BOOLEAN
  /\ cursor \in Int
  /\ seq \in [Procs -> Nat \union {-1}]
  /\ avail \in [Procs -> Int]
  /\ stage \in [Procs -> StageNames]
  /\ haltedAt \in [Procs -> Int]

(* Nothing moves before Start, and Start needs registered processors.      *)
NewUntouched ==
  /\ mode = "unset" => ~ started
  /\ \A c \in Procs :
       /\ ~ started => stage[c] = "new"
       /\ stage[c] = "new" => seq[c] = -1 /\ haltedAt[c] = -1

(* A batch never reaches past what is published or past a dependency.      *)
BatchAvailable ==
  \A c \in Procs : stage[c] \in {"batch", "handle"} =>
    /\ seq[c] < avail[c] /\ avail[c] <= cursor
    /\ \A d \in Needs(c) : avail[c] <= seq[d]

(* A halted processor is on its way out, and in a graph it stays before    *)
(* the event that halted it.                                               *)
HaltedStay ==
  \A c \in Halted :
    /\ stage[c] \in {"notify", "shutdown", "remove", "done", "ended"}
    /\ mode = "graph" => haltedAt[c] = seq[c] + 1

IInv == LineTypes /\ NewUntouched /\ BatchAvailable /\ HaltedStay

(* What has ended is out of the gating set.                                *)
GatingRuns ==
  /\ gating \subseteq Procs
  /\ \A c \in gating : stage[c] \notin {"done", "ended"}

(* A task passes on the terminal error of a processor that has ended, and  *)
(* such a processor stores no further one.                                 *)
TasksReport ==
  \A c \in Procs :
    IF task[c] \in {"once", "sent"}
    THEN stage[c] = "ended" /\ (c \in reported <=> terminal[c] # "none")
    ELSE c \notin reported

(* An event that halts a processor leaves a terminal error.                *)
HaltsTerminal == \A c \in Halted : terminal[c] # "none"

EndInv ==
  /\ terminal \in [Procs -> {"none", "plain", "join"}]
  /\ task \in [Procs -> {"none", "waiting", "once", "sent"}]
  /\ haltedAt \in [Procs -> Int] /\ stage \in [Procs -> StageNames]
  /\ reported \subseteq Procs
  /\ GatingRuns /\ TasksReport /\ HaltsTerminal

(* Every processor with a retry handler has one of its own.                *)
OwnHandlers ==
  \A c, d \in Procs :
    Policy[c] = "retry" /\ Policy[d] = "retry" /\ Handler[c] = Handler[d] => c = d

(* The handler's attempts are the failures of the event its processor is   *)
(* at, and it has none for later events.                                   *)
AttemptsCounted ==
  \A c \in Procs : Policy[c] = "retry" =>
    /\ tries[c] \in 0 .. MaxRetries
    /\ gaveUp[c] \in {0, MaxRetries + 1}
    /\ \A s \in 0 .. MaxSeq : s > seq[c] =>
         attempts[Handler[c]][s] = IF s = seq[c] + 1 THEN tries[c] ELSE 0
===============================================================================
