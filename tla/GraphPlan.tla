------------------------------- MODULE GraphPlan -------------------------------
(***************************************************************************)
(* The builder of a static graph, the plan it is frozen into and the       *)
(* processors created from the plan (src/pkg/graph/graph.go, join.go,      *)
(* plan.go and snapshot.go, HandleGraph in                                 *)
(* src/pkg/disruptor/graph_processors.go).                                 *)
(*                                                                         *)
(* Nodes are the numbers 1..N in the order of their names.  Labels,        *)
(* metadata, handlers and exports are left out.  HandleGraph is taken      *)
(* apart: one step for BuildPlan up to its loop, one for each turn of the  *)
(* loop of topologicalOrder, one for each processor it creates.            *)
(* A definition Name_Change is a mistake the code could have made in Name. *)
(***************************************************************************)
EXTENDS CycleSearch

VARIABLES
  handled,   \* Graph.handled, which is set together with Graph.frozen
  stage,     \* how far HandleGraph is
  degree,    \* inDegree of topologicalOrder
  ready,     \* its sorted list of nodes that can be placed
  order,     \* Plan.Order
  created,   \* number of processors created: those of a prefix of order
  gating     \* the nodes whose processor gates the producers

graph == <<nodes, edges, handled, searchVars>>
planVars == <<stage, degree, ready, order, created, gating>>
vars == <<graph, planVars>>

Init ==
  /\ nodes = {} /\ edges = {} /\ handled = FALSE
  /\ SearchInit
  /\ stage = "build"
  /\ degree = [n \in Names |-> 0]
  /\ ready = {}
  /\ order = <<>>
  /\ created = 0
  /\ gating = {}

--------------------------------------------------------------------------------
(* Building *)

(* The mutex is free and the graph not frozen.                             *)
Open == ~ handled /\ search = "idle"

Node(n) ==
  /\ Open
  /\ n \notin nodes
  /\ nodes' = nodes \union {n}
  /\ UNCHANGED <<edges, handled, searchVars, planVars>>

(* What validateEdgeLocked accepts.                                        *)
ValidEdge(e) ==
  /\ e[1] # e[2]
  /\ e # <<Start, End>>
  /\ e[1] \in nodes \union {Start}
  /\ e[2] \in nodes \union {End}

(* Edge, and each of the edges a Join adds one after the other without     *)
(* holding the lock in between or taking back those before a refused one.  *)
Edge(e) ==
  /\ Open
  /\ ValidEdge(e)
  /\ edges' = edges \union {e}
  /\ UNCHANGED <<nodes, handled, searchVars, planVars>>

--------------------------------------------------------------------------------
(* Validation *)

Entries == {n \in nodes : <<Start, n>> \in edges}
Exits == {n \in nodes : <<n, End>> \in edges}

Sources == {n \in nodes : Upstream(n) = {}}
Leaves == {n \in nodes : Downstream(n) = {}}

(* graphReachable, over the neighbours each node has in an adjacency map.  *)
Reachable(from, adjacency) ==
  LET reach[found \in SUBSET nodes] ==
        LET more == found \union UNION {adjacency[n] : n \in found}
        IN  IF more = found THEN found ELSE reach[more]
  IN  reach[from]

Unreachable == nodes \ Reachable(Entries, [n \in nodes |-> Downstream(n)])
Blocked == nodes \ Reachable(Exits, [n \in nodes |-> Upstream(n)])

(* Validate and BuildPlan search for a cycle first.                        *)
BeginSearch ==
  /\ Open
  /\ SearchBegins
  /\ UNCHANGED <<nodes, edges, handled, planVars>>

FindCycle ==
  /\ SearchStep
  /\ UNCHANGED <<nodes, edges, handled, planVars>>

(* Validate, and BuildPlan of a graph it refuses, leave it as it is.       *)
ValidateReturns ==
  /\ SearchEnds
  /\ UNCHANGED <<nodes, edges, handled, planVars>>

Valid ==
  /\ search = "acyclic"
  /\ Entries # {} /\ Exits # {}
  /\ Entries = Sources
  /\ Exits = Leaves
  /\ Unreachable = {}
  /\ Blocked = {}

--------------------------------------------------------------------------------
(* HandleGraph *)

InDegree_WithStart(n) == Cardinality({e \in edges : e[2] = n})
InDegree(n) == Cardinality(Upstream(n))

BuildPlan ==
  /\ Valid
  /\ SearchEnds
  /\ handled' = TRUE
  /\ stage' = "order"
  /\ degree' = [n \in Names |-> InDegree(n)]
  /\ ready' = {n \in nodes : degree'[n] = 0}
  /\ UNCHANGED <<nodes, edges, order, created, gating>>

(* The nodes that become ready when a predecessor of theirs is placed.     *)
Freed_AtOnce(next, left) == next
Freed_OneEarly(next, left) == {n \in next : left[n] <= 1}
Freed(next, left) == {n \in next : left[n] = 0}

(* A turn of the loop of topologicalOrder, with the node of the least name.*)
Place ==
  /\ stage = "order"
  /\ ready # {}
  /\ LET name == Min(ready)
         next == Downstream(name)
         left == [n \in Names |-> IF n \in next THEN degree[n] - 1 ELSE degree[n]]
     IN  /\ order' = Append(order, name)
         /\ degree' = left
         /\ ready' = (ready \ {name}) \union Freed(next, left)
  /\ UNCHANGED <<graph, stage, created, gating>>

PlanBuilt ==
  /\ stage = "order"
  /\ ready = {}
  /\ stage' = "create"
  /\ UNCHANGED <<graph, degree, ready, order, created, gating>>

Before(i) == {order[j] : j \in 1 .. i - 1}

Gates_Sources(n) == n \in Sources
Gates(n) == n \in Leaves

(* The next processor.  HandleGraph gives up, the graph handled and the    *)
(* gating sequences in place, when one it depends on does not exist.       *)
CreateProcessor ==
  /\ stage = "create"
  /\ created < Len(order)
  /\ LET name == order[created + 1]
         known == Upstream(name) \subseteq Before(created + 1)
     IN  /\ stage' = IF known THEN stage ELSE "missing"
         /\ created' = IF known THEN created + 1 ELSE created
         /\ gating' = IF known /\ Gates(name) THEN gating \union {name} ELSE gating
  /\ UNCHANGED <<graph, degree, ready, order>>

Registered ==
  /\ stage = "create"
  /\ created = Len(order)
  /\ stage' = "done"
  /\ UNCHANGED <<graph, degree, ready, order, created, gating>>

HandleGraph == Place \/ PlanBuilt \/ CreateProcessor \/ Registered

Next ==
  \/ \E n \in Names : Node(n)
  \/ \E e \in Possible : Edge(e)
  \/ BeginSearch \/ FindCycle \/ ValidateReturns
  \/ BuildPlan
  \/ HandleGraph

Spec == Init /\ [][Next]_vars

(* Both are straight-line code that runs until it returns.                 *)
FairSpec == Spec /\ WF_vars(FindCycle) /\ WF_vars(HandleGraph)

--------------------------------------------------------------------------------
(* Properties *)

(* The variables have the values the code can give them.                   *)
TypeOK ==
  /\ nodes \subseteq Names
  /\ edges \subseteq Possible
  /\ SearchType
  /\ handled \in BOOLEAN
  /\ stage \in {"build", "order", "create", "done", "missing"}
  /\ handled <=> stage # "build"
  /\ degree \in [Names -> Nat]
  /\ ready \subseteq nodes
  /\ order \in Seq(nodes)
  /\ created \in 0 .. Len(order)
  /\ gating \subseteq nodes

(* Every node comes after all it depends on, so that HandleGraph always    *)
(* finds the processors whose Sequences the new barrier takes              *)
(* (graph_processors.go:107).                                              *)
UpstreamFirst ==
  /\ stage # "missing"
  /\ \A i \in 1 .. Len(order) : Upstream(order[i]) \subseteq Before(i)

(* The loop places every node of a graph it was allowed to plan, and none  *)
(* twice: no handler is silently left without a processor (plan.go:107).   *)
PlanComplete ==
  stage \in {"create", "done"} =>
    /\ IsInjective(order)
    /\ nodes = {order[i] : i \in 1 .. Len(order)}

(* Only the leaves gate the producers, and that is enough: however far the *)
(* processors have come, each behind those upstream of it, some gating one *)
(* is no further than any given one, so that no producer can lap it        *)
(* (graph_processors.go:130, plan.Leaves).                                 *)
GatingCoversAll ==
  stage = "done" =>
    \A ahead \in [nodes -> BOOLEAN] :
      (\A n \in nodes : \A m \in Upstream(n) : ahead[n] => ahead[m])
        => \A n \in nodes : ~ ahead[n] => \E g \in gating : ~ ahead[g]

(* HandleGraph returns: the search ends whatever the graph, goes round no  *)
(* cycle and visits no node twice (snapshot.go visit), and a graph that    *)
(* validation has passed and the plan has frozen gets all its processors,  *)
(* since it could not be handled a second time (plan.go:57).               *)
HandleGraphReturns ==
  /\ search = "running" ~> search # "running"
  /\ handled ~> stage = "done"
===============================================================================
