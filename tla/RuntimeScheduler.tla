---------------------------- MODULE RuntimeScheduler ----------------------------
(***************************************************************************)
(* The scheduler of a runtime graph: how one event is routed through the   *)
(* graph, inline or by the tasks of an executor                            *)
(* (src/pkg/disruptor/runtime_graph_processors.go).                        *)
(*                                                                         *)
(* The scheduler is the event handler of one processor (see Processors);   *)
(* the processor gives it one event after the other, and halts when it     *)
(* returns an error.  Conditions, handlers and the variables provider are  *)
(* choices here; variables and metrics are left out.  The executor is      *)
(* external: it is modelled from the calls made to it.                     *)
(* A definition Name_Change is a mistake the code could have made in Name. *)
(***************************************************************************)
EXTENDS RuntimeGraph

CONSTANTS
  Executors,      \* what may run the nodes: "inline", "internal", "caller"
  Workers,        \* of the internal and of the caller's executor
  CallerQueue,    \* queue places of the caller's executor
  NodePolicy,     \* kind of each node's exception handler
  GraphPolicy,    \* kind of the graph's exception handler
  MaxRetries,     \* of the nodes' retry handlers
  Exhausted,      \* and their action when they give up
  NoRoute,        \* RuntimeNoRouteAction
  Panics,         \* whether a condition that fails may do so by a panic
  MaxEvent        \* bound of the model: the last sequence

ASSUME ExecutorAssumption ==
  /\ Executors \subseteq {"inline", "internal", "caller"}
  /\ Workers \in Nat \ {0} /\ CallerQueue \in Nat
  /\ "internal" \in Executors => Workers > 1
ASSUME PolicyAssumption ==
  /\ NodePolicy \in [Names -> {"none", "retry", "custom"}]
  /\ GraphPolicy \in {"fatal", "custom"}
  /\ MaxRetries \in Nat /\ Exhausted \in {"halt", "continue"}
  /\ NoRoute \in {"halt", "complete"}
  /\ Panics \in SUBSET BOOLEAN
ASSUME MaxEventAssumption == MaxEvent \in Nat

VARIABLES
  executor,    \* the executor in use, "unset" before HandleRuntimeGraph
  closed,      \* the caller has shut its executor down
  task,        \* what has become of the task given to the executor for a node
  seq,         \* the last event the scheduler returned from without an error
  stage,       \* "idle", inside OnEvent "route" or "drain", "halted" for good
  resolved,    \* per node: inbound edges resolved,
  selected,    \* and those of them that were selected
  scheduled,   \* nodes all of whose inbound edges were resolved
  done,        \* nodes that are through, skipped or refused
  ready,       \* scheduled nodes to be submitted
  todo,        \* edges processStart or completeNode has still to evaluate
  skips,       \* edges of skipped nodes resolveInbound has still to resolve
  inFlight,    \* tasks submitted whose results have not been received
  endReached,  \* an edge to END was selected
  attempts,    \* of the nodes' retry handlers, for the event
  taken,       \* history: edges selected for the event
  passed,      \* history: edges not selected
  ran,         \* history: nodes given to the executor
  refused      \* history: nodes the executor rejected

poolVars == <<executor, closed, task>>
joinVars == <<resolved, selected, scheduled, done, ready>>
workVars == <<todo, skips, inFlight, endReached, attempts>>
historyVars == <<taken, passed, ran, refused>>
vars == <<graphVars, poolVars, seq, stage, joinVars, workVars, historyVars>>

Zero == [n \in Names |-> 0]

Init ==
  /\ GraphInit
  /\ executor = "unset" /\ closed = FALSE
  /\ task = [n \in Names |-> "none"]
  /\ seq = -1 /\ stage = "idle"
  /\ resolved = Zero /\ selected = Zero
  /\ scheduled = {} /\ done = {} /\ ready = {}
  /\ todo = {} /\ skips = {} /\ inFlight = 0 /\ endReached = FALSE
  /\ attempts = Zero
  /\ taken = {} /\ passed = {} /\ ran = {} /\ refused = {}

Build ==
  /\ \/ \E n \in Names : Node(n)
     \/ \E e \in Possible : Edge(e)
     \/ BeginSearch \/ FindCycle \/ ValidateReturns
  /\ UNCHANGED <<poolVars, seq, stage, joinVars, workVars, historyVars>>

HandleRuntimeGraph ==
  /\ BuildPlan
  /\ executor' \in Executors
  /\ UNCHANGED <<closed, task, seq, stage, joinVars, workVars, historyVars>>

--------------------------------------------------------------------------------
(* Failures *)

(* The graph's exception handler; an action it does not know is a halt.    *)
GraphActions ==
  IF GraphPolicy = "fatal" THEN {"halt"} ELSE {"halt", "continue", "retry"}

(* A panic and a node without a handler of its own go to the graph's.      *)
NodeActions(n, outcome) ==
  CASE outcome = "panic" \/ NodePolicy[n] = "none" -> GraphActions
    [] NodePolicy[n] = "retry" ->
         {IF attempts[n] < MaxRetries THEN "retry" ELSE Exhausted}
    [] OTHER -> {"halt", "continue", "retry"}

Counts(n, outcome) == outcome = "error" /\ NodePolicy[n] = "retry"

(* OnEvent returns an error once the results of all tasks are in.          *)
Fail ==
  /\ stage' = "drain"
  /\ todo' = {}
  /\ skips' = {}

--------------------------------------------------------------------------------
(* OnEvent *)

Results == {"ok", "error", "panic"}

(* reset: what is left in the results channel is thrown away, but a task   *)
(* that has not sent its result yet would send it into the next event.     *)
Reset_KeepsCounters ==
  /\ UNCHANGED <<resolved, selected>>
  /\ scheduled' = {} /\ done' = {} /\ ready' = {}
  /\ skips' = {} /\ inFlight' = 0 /\ endReached' = FALSE
  /\ attempts' = Zero
  /\ task' = [n \in Names |-> IF task[n] \in Results THEN "none" ELSE task[n]]
  /\ taken' = {} /\ passed' = {} /\ ran' = {} /\ refused' = {}
Reset ==
  /\ resolved' = Zero /\ selected' = Zero
  /\ scheduled' = {} /\ done' = {} /\ ready' = {}
  /\ skips' = {} /\ inFlight' = 0 /\ endReached' = FALSE
  /\ attempts' = Zero
  /\ task' = [n \in Names |-> IF task[n] \in Results THEN "none" ELSE task[n]]
  /\ taken' = {} /\ passed' = {} /\ ran' = {} /\ refused' = {}

OnEvent ==
  /\ handled
  /\ stage = "idle"
  /\ seq < MaxEvent   \* bound
  /\ Reset
  /\ todo' = Outgoing(Start)
  /\ stage' = "route"
  /\ UNCHANGED <<graphVars, executor, closed, seq>>

(* The processor is stopped, or the variables provider returns an error.   *)
StopIdle ==
  /\ handled
  /\ stage = "idle"
  /\ stage' = "halted"
  /\ UNCHANGED <<graphVars, poolVars, seq, joinVars, workVars, historyVars>>

(* resolveInbound without its recursion: the last edge of a node makes it  *)
(* ready, or skips it.                                                     *)
AllResolved_OneEarly(n) == resolved[n] + 2 >= Incoming(n)
AllResolved_Before(n) == resolved[n] >= Incoming(n)
AllResolved(n) == resolved[n] + 1 >= Incoming(n)

ResolveInbound(n, isSelected, rest) ==
  LET now == IF isSelected THEN selected[n] + 1 ELSE selected[n]
      last == AllResolved(n) /\ n \notin scheduled
      skip == last /\ now = 0
  IN  IF n \in done
      THEN UNCHANGED joinVars /\ skips' = rest
      ELSE /\ resolved' = [resolved EXCEPT ![n] = @ + 1]
           /\ selected' = [selected EXCEPT ![n] = now]
           /\ scheduled' = IF last THEN scheduled \union {n} ELSE scheduled
           /\ done' = IF skip THEN done \union {n} ELSE done
           /\ ready' = IF last /\ ~ skip THEN ready \union {n} ELSE ready
           /\ skips' = IF skip
                       THEN rest \union {e \in Outgoing(n) : e[2] # End}
                       ELSE rest

(* The edges of a skipped node are resolved before anything else happens;  *)
(* no callback comes in between, so their order does not matter.           *)
ResolveSkipped ==
  /\ stage = "route"
  /\ \E e \in skips :
       /\ ResolveInbound(e[2], FALSE, skips \ {e})
       /\ passed' = passed \union {e}
  /\ UNCHANGED <<graphVars, poolVars, seq, stage, todo, inFlight, endReached,
                 attempts, taken, ran, refused>>

NextEdges == {e \in todo : \A f \in todo : e[2] <= f[2]}

(* The next edge of processStart or completeNode, in the order of their    *)
(* destinations: its condition holds, or not, or cannot be evaluated and   *)
(* the graph's handler lets the edge pass for one that does not hold.      *)
Evaluate(isSelected) ==
  /\ stage = "route"
  /\ skips = {}
  /\ \E e \in NextEdges :
       /\ todo' = todo \ {e}
       /\ IF e[2] = End
          THEN /\ endReached' = (endReached \/ isSelected)
               /\ UNCHANGED <<joinVars, skips>>
          ELSE /\ ResolveInbound(e[2], isSelected, {})
               /\ UNCHANGED endReached
       /\ IF isSelected
          THEN taken' = taken \union {e} /\ UNCHANGED passed
          ELSE passed' = passed \union {e} /\ UNCHANGED taken
  /\ UNCHANGED <<graphVars, poolVars, seq, stage, inFlight, attempts, ran, refused>>

(* Otherwise the event fails.  A panic of the condition is recovered only  *)
(* outside OnEvent, in the processor: nothing in between waits for tasks.  *)
ConditionFails ==
  /\ stage = "route"
  /\ skips = {}
  /\ todo # {}
  /\ \E panics \in Panics :
       IF panics THEN stage' = "halted" /\ UNCHANGED <<todo, skips>> ELSE Fail
  /\ UNCHANGED <<graphVars, poolVars, seq, joinVars, inFlight, endReached,
                 attempts, historyVars>>

--------------------------------------------------------------------------------
(* The executor: a fixed number of workers behind a bounded queue, which   *)
(* rejects a task when all places are taken or when it is shut down.       *)

In(states) == {n \in Names : task[n] \in states}

Busy == {n \in Names : task[n] # "none"}

Places == Workers + IF executor = "internal" THEN Workers ELSE CallerQueue

Rejects(n) ==
  executor # "inline" /\ (closed \/ Cardinality(In({"queued", "running"})) >= Places)

Set(n, s) == task' = [task EXCEPT ![n] = s]

Take(n) ==
  /\ task[n] = "queued"
  /\ Cardinality(In({"running"})) < Workers
  /\ Set(n, "running")
  /\ UNCHANGED <<graphVars, executor, closed, seq, stage, joinVars, workVars,
                 historyVars>>

(* runtimeGraphNodeTask.Run: a panic of the handler is recovered.          *)
HandlerReturns(n) ==
  /\ task[n] = "running"
  /\ \E outcome \in Results : Set(n, outcome)
  /\ UNCHANGED <<graphVars, executor, closed, seq, stage, joinVars, workVars,
                 historyVars>>

(* An executor that is shut down may drop the tasks in its queue, and      *)
(* tells them so.                                                          *)
CancelQueued_Silent(n) ==
  /\ closed
  /\ task[n] = "queued"
  /\ Set(n, "none")
  /\ UNCHANGED <<graphVars, executor, closed, seq, stage, joinVars, workVars,
                 historyVars>>
CancelQueued(n) ==
  /\ closed
  /\ task[n] = "queued"
  /\ Set(n, "error")
  /\ UNCHANGED <<graphVars, executor, closed, seq, stage, joinVars, workVars,
                 historyVars>>

(* The caller shuts its executor down at any time; OnShutdown the internal *)
(* one when the processor has left its loop.                               *)
Shutdown ==
  /\ executor = "caller" \/ (executor = "internal" /\ stage = "halted")
  /\ ~ closed
  /\ closed' = TRUE
  /\ UNCHANGED <<graphVars, executor, task, seq, stage, joinVars, workVars,
                 historyVars>>

--------------------------------------------------------------------------------
(* Nodes *)

Inline == executor = "inline"

(* The scheduler has nothing to evaluate and no inline handler to wait for.*)
Free == stage = "route" /\ skips = {} /\ todo = {} /\ (Inline => Busy = {})

(* A node is given to the executor; flying counts the other tasks.         *)
Accept(n, flying) ==
  /\ ~ Rejects(n)
  /\ Set(n, IF Inline THEN "running" ELSE "queued")
  /\ inFlight' = IF Inline THEN flying ELSE flying + 1
  /\ ran' = ran \union {n}
  /\ UNCHANGED <<stage, todo, skips, done, refused>>

(* The error of the executor goes to the graph's handler, whatever the     *)
(* node has: the event ends, or the node is done and its outgoing edges    *)
(* are never resolved.                                                     *)
Reject(n, flying) ==
  /\ Rejects(n)
  /\ Set(n, "none")
  /\ inFlight' = flying
  /\ refused' = refused \union {n}
  /\ \/ "continue" \in GraphActions /\ done' = done \union {n} /\ UNCHANGED <<stage, todo, skips>>
     \/ GraphActions # {"continue"} /\ Fail /\ UNCHANGED done
  /\ UNCHANGED ran

(* The loop of OnEvent submits all ready nodes, least index first.         *)
SubmitNode ==
  /\ Free
  /\ \E n \in ready :
       /\ \A m \in ready : n <= m
       /\ ready' = ready \ {n}
       /\ IF n \in done
          THEN UNCHANGED <<task, inFlight, stage, todo, skips, done, ran, refused>>
          ELSE Accept(n, inFlight) \/ Reject(n, inFlight)
  /\ UNCHANGED <<graphVars, executor, closed, seq, resolved, selected, scheduled,
                 endReached, attempts, taken, passed>>

(* It receives a result when it has no ready node left; after an inline    *)
(* call it receives it at once.                                            *)
Receives(n) ==
  /\ stage = "route" /\ skips = {} /\ todo = {}
  /\ task[n] \in Results
  /\ ~ Inline => ready = {} /\ inFlight > 0

Landed == IF inFlight > 0 THEN inFlight - 1 ELSE inFlight

(* A node that succeeded, or whose failure is passed over: its outgoing    *)
(* edges are evaluated next.                                               *)
CompleteNode(n) ==
  /\ Receives(n)
  /\ n \in done \/ task[n] = "ok" \/ "continue" \in NodeActions(n, task[n])
  /\ IF n \in done
     THEN UNCHANGED <<done, todo, attempts>>
     ELSE /\ done' = done \union {n}
          /\ todo' = Outgoing(n)
          /\ attempts' = [attempts EXCEPT ![n] = 0]
  /\ Set(n, "none")
  /\ inFlight' = Landed
  /\ UNCHANGED <<graphVars, executor, closed, seq, stage, resolved, selected,
                 scheduled, ready, skips, endReached, historyVars>>

RetryNode(n) ==
  /\ Receives(n)
  /\ n \notin done
  /\ task[n] # "ok" /\ "retry" \in NodeActions(n, task[n])
  /\ attempts' = IF Counts(n, task[n]) THEN [attempts EXCEPT ![n] = @ + 1] ELSE attempts
  /\ Accept(n, Landed) \/ Reject(n, Landed)
  /\ UNCHANGED <<graphVars, executor, closed, seq, resolved, selected, scheduled,
                 ready, endReached, taken, passed>>

FailNode(n) ==
  /\ Receives(n)
  /\ n \notin done
  /\ task[n] # "ok" /\ "halt" \in NodeActions(n, task[n])
  /\ attempts' = IF Counts(n, task[n]) THEN [attempts EXCEPT ![n] = 0] ELSE attempts
  /\ Set(n, "none")
  /\ inFlight' = Landed
  /\ Fail
  /\ UNCHANGED <<graphVars, executor, closed, seq, joinVars, endReached, historyVars>>

--------------------------------------------------------------------------------
(* The end of OnEvent *)

DrainInFlight(n) ==
  /\ stage = "drain"
  /\ inFlight > 0
  /\ task[n] \in Results
  /\ Set(n, "none")
  /\ inFlight' = inFlight - 1
  /\ UNCHANGED <<graphVars, executor, closed, seq, stage, joinVars, todo, skips,
                 endReached, attempts, historyVars>>

Drained_AtOnce == TRUE
Drained == inFlight = 0

(* OnEvent returns its error; the fatal handler of the processor halts it. *)
Halt ==
  /\ stage = "drain"
  /\ Drained
  /\ stage' = "halted"
  /\ UNCHANGED <<graphVars, poolVars, seq, joinVars, workVars, historyVars>>

Finished == Free /\ ready = {} /\ inFlight = 0

Return ==
  /\ Finished
  /\ endReached \/ NoRoute = "complete" \/ "continue" \in GraphActions
  /\ stage' = "idle"
  /\ seq' = seq + 1
  /\ UNCHANGED <<graphVars, poolVars, joinVars, workVars, historyVars>>

NoRouteFails ==
  /\ Finished
  /\ ~ endReached /\ NoRoute = "halt" /\ GraphActions # {"continue"}
  /\ stage' = "halted"
  /\ UNCHANGED <<graphVars, poolVars, seq, joinVars, workVars, historyVars>>

Scheduler ==
  \/ ResolveSkipped \/ ConditionFails \/ SubmitNode
  \/ \E b \in BOOLEAN : Evaluate(b)
  \/ \E n \in Names : CompleteNode(n) \/ RetryNode(n) \/ FailNode(n) \/ DrainInFlight(n)
  \/ Halt \/ Return \/ NoRouteFails

Pool(n) == Take(n) \/ HandlerReturns(n) \/ CancelQueued(n)

Next ==
  \/ Build \/ HandleRuntimeGraph \/ OnEvent \/ StopIdle \/ Scheduler \/ Shutdown
  \/ \E n \in Names : Pool(n)

Spec == Init /\ [][Next]_vars

(* Conditions and handlers return, an executor that has accepted a task    *)
(* runs or cancels it, and no exception handler retries for ever.          *)
Fairness ==
  /\ WF_vars(Scheduler)
  /\ \A n \in Names : WF_vars(Pool(n))
  /\ \A n \in Names : SF_vars(CompleteNode(n) \/ FailNode(n))

FairSpec == Spec /\ Fairness

--------------------------------------------------------------------------------
(* Properties *)

(* Types and bounds: no more edges are resolved than a node has, and no    *)
(* more tasks are in flight than the graph has nodes, which is the         *)
(* capacity of the results channel: no worker blocks on sending its result *)
(* (runtime_graph_processors.go:597).                                      *)
TypeOK ==
  /\ GraphType /\ SearchType
  /\ executor \in Executors \union {"unset"} /\ closed \in BOOLEAN
  /\ task \in [Names -> {"none", "queued", "running"} \union Results]
  /\ seq \in -1 .. MaxEvent
  /\ stage \in {"idle", "route", "drain", "halted"}
  /\ \A n \in Names : resolved[n] \in 0 .. Incoming(n) /\ selected[n] \in 0 .. resolved[n]
  /\ done \subseteq scheduled /\ scheduled \subseteq nodes /\ ready \subseteq scheduled \ done
  /\ todo \subseteq edges /\ skips \subseteq edges
  /\ inFlight \in 0 .. Cardinality(nodes)
  /\ endReached \in BOOLEAN
  /\ attempts \in [Names -> 0 .. MaxRetries]

(* Between two events and after a halt no task of the scheduler is left in *)
(* the executor and no result in its channel: a late one would be counted  *)
(* for the next event, and a handler would use an event the producers may  *)
(* overwrite (runtime_graph_processors.go:430-446, 667-672).  A condition  *)
(* that panics breaks it.                                                  *)
NothingInFlight ==
  stage \in {"idle", "halted"} => inFlight = 0 /\ Busy = {}

(* When an event returns, every node has run or been skipped: no join is   *)
(* left waiting for an edge nobody resolves, unless the executor refused a *)
(* node.  Nothing in the scheduler sees to it, only that validation found  *)
(* the graph acyclic and rooted (runtime_graph_processors.go:430-446).     *)
NoneLeftWaiting == Finished /\ refused = {} => done = nodes

(* The scheduler implements the active join: counters and flags decide     *)
(* exactly what the edges say (runtime_graph_processors.go:692-741), for   *)
(* every valid graph, order of results, failure and rejection.             *)
Join == INSTANCE Routing
          WITH Nodes <- Names,
               edges <- IF handled THEN edges ELSE {},
               phase <- CASE stage = "idle" -> "idle"
                          [] stage = "halted" -> "halted"
                          [] OTHER -> "busy",
               live <- taken,
               dead <- passed,
               running <- IF stage = "halted" THEN {} ELSE ran \ (done \union refused),
               complete <- (ran \intersect done) \ refused,
               refused <- refused
RoutingSpec == Join!Spec

(* Every event the scheduler begins it also leaves, whatever fails and     *)
(* whoever shuts the executor down (runtime_graph_processors.go:430-446).  *)
EventReturns == stage = "route" ~> stage \in {"idle", "halted"}

--------------------------------------------------------------------------------
(* The inductive invariant behind the theorems of RuntimeScheduler_proofs. *)

Decided == taken \union passed
Used == ran \union refused
Complete == (ran \intersect done) \ refused
Skipped == done \ Used

Types ==
  /\ GraphType
  /\ \A e \in edges : e[1] \in nodes \union {Start} /\ e[2] \in nodes \union {End}
  /\ executor \in {"unset", "inline", "internal", "caller"}
  /\ task \in [Names -> {"none", "queued", "running"} \union Results]
  /\ stage \in {"idle", "route", "drain", "halted"}
  /\ resolved \in [Names -> Nat] /\ selected \in [Names -> Nat]
  /\ scheduled \subseteq nodes /\ inFlight \in Nat
  /\ todo \subseteq edges /\ skips \subseteq {e \in edges : e[2] # End}
  /\ taken \subseteq edges /\ passed \subseteq edges

(* Before the graph is handled nothing has happened; afterwards every node *)
(* has an inbound edge, since the entries are the sources.                 *)
Handled ==
  IF handled
  THEN executor # "unset" /\ search = "idle" /\ \A n \in nodes : Inbound(n) # {}
  ELSE /\ stage = "idle"
       /\ taken = {} /\ passed = {} /\ scheduled = {} /\ done = {} /\ ready = {}
       /\ ran = {} /\ refused = {} /\ todo = {} /\ skips = {}
       /\ resolved = Zero /\ selected = Zero

(* Tasks belong to scheduled nodes that are not ready any more; each is    *)
(* counted, an inline one by the scheduler's waiting for it.               *)
Counted ==
  /\ Busy \subseteq scheduled \ ready
  /\ IF Inline
     THEN /\ inFlight = 0
          /\ \A m, n \in Busy : m = n
          /\ stage = "drain" \/ todo # {} => Busy = {}
     ELSE inFlight = Cardinality(Busy)

(* An edge is decided once: it waits in todo or skips before, its source   *)
(* is Start, complete or skipped.                                          *)
EdgesOnce ==
  /\ taken \intersect passed = {}
  /\ (todo \union skips) \intersect Decided = {}
  /\ \A e \in todo : e[1] = Start \/ e[1] \in Complete
  /\ \A e \in skips : e[1] \in Skipped
  /\ \A e \in Decided : e[1] = Start \/ e[1] \in done \ refused

(* The counters are what the edges say.                                    *)
CountersTrue ==
  \A n \in Names :
    /\ resolved[n] = Cardinality(Inbound(n) \intersect Decided)
    /\ selected[n] = Cardinality(Inbound(n) \intersect taken)

(* And the flags are what the counters say.                                *)
FlagsTrue ==
  /\ \A n \in Names : Inbound(n) # {} =>
       (n \in scheduled <=> Inbound(n) \subseteq Decided)
  /\ done \subseteq scheduled
  /\ ready \union Used \subseteq scheduled
  /\ scheduled \subseteq ready \union Used \union done
  /\ ready \intersect (Used \union done) = {}
  /\ \A n \in ready \union Used : Inbound(n) \intersect taken # {}
  /\ \A n \in Skipped : Inbound(n) \intersect taken = {}

(* While it routes, the scheduler has not forgotten an edge or a task.     *)
NothingForgotten ==
  stage = "route" =>
    /\ \A e \in edges :
         /\ e[1] \in Complete \union {Start} => e \in Decided \union todo
         /\ e[1] \in Skipped /\ e[2] # End => e \in Decided \union skips
    /\ Busy = ran \ (done \union refused)
    /\ refused \subseteq done

IInv ==
  /\ Types /\ Handled /\ Counted /\ NothingInFlight
  /\ EdgesOnce /\ CountersTrue /\ FlagsTrue /\ NothingForgotten
===============================================================================
