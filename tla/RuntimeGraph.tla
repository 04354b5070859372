------------------------------ MODULE RuntimeGraph ------------------------------
(***************************************************************************)
(* The builder of a runtime graph and the plan it is frozen into           *)
(* (src/pkg/runtimegraph/graph.go, helpers.go and plan.go).                *)
(*                                                                         *)
(* Nodes are numbers in the order of their names, which is the order of    *)
(* their indices in the plan.  Labels, metadata, snapshots and exports are *)
(* left out; what an edge's condition says is chosen when it is evaluated. *)
(***************************************************************************)
EXTENDS CycleSearch

VARIABLE handled   \* RuntimeGraph.handled, which also means frozen

graphVars == <<nodes, edges, handled, search, marks, stack, cycle>>

GraphInit ==
  /\ nodes = {}
  /\ edges = {}
  /\ handled = FALSE
  /\ SearchInit

(* The mutex is free and the graph not frozen.                             *)
Open == ~ handled /\ search = "idle"

Node(n) ==
  /\ Open
  /\ n \notin nodes
  /\ nodes' = nodes \union {n}
  /\ UNCHANGED <<edges, handled, searchVars>>

(* What validateEdgeLocked accepts; adding an edge again replaces it.      *)
ValidEdge(e) ==
  CASE e[1] = Start -> e[2] \in nodes
    [] e[2] = End -> e[1] \in nodes
    [] OTHER -> e[1] # e[2] /\ e[1] \in nodes /\ e[2] \in nodes

Edge(e) ==
  /\ Open
  /\ e \in Possible
  /\ ValidEdge(e)
  /\ edges' = edges \union {e}
  /\ UNCHANGED <<nodes, handled, searchVars>>

--------------------------------------------------------------------------------
(* Validation *)

Entries == {n \in nodes : <<Start, n>> \in edges}
Exits == {n \in nodes : <<n, End>> \in edges}
Sources == {n \in nodes : \A e \in Processing : e[2] # n}
Leaves == {n \in nodes : \A e \in Processing : e[1] # n}

(* graphReachable along the edges of a graph, and against them.            *)
Reachable(from, graph) ==
  LET reach[found \in SUBSET nodes] ==
        LET more == found \union {e[2] : e \in {f \in graph : f[1] \in found}}
        IN  IF more = found THEN found ELSE reach[more]
  IN  reach[from]

Reversed == {<<e[2], e[1]>> : e \in Processing}

(* Validate and BuildPlan search for a cycle first.                        *)
BeginSearch ==
  /\ Open
  /\ SearchBegins
  /\ UNCHANGED <<nodes, edges, handled>>

FindCycle ==
  /\ SearchStep
  /\ UNCHANGED <<nodes, edges, handled>>

(* Validate, and BuildPlan of a graph it refuses, leave it as it is.       *)
ValidateReturns ==
  /\ SearchEnds
  /\ UNCHANGED <<nodes, edges, handled>>

Valid ==
  /\ search = "acyclic"
  /\ Entries # {} /\ Entries = Sources
  /\ Exits # {} /\ Exits = Leaves
  /\ Reachable(Entries, Processing) = nodes
  /\ Reachable(Exits, Reversed) = nodes

(* The guard and the effect of BuildPlan on the graph.                     *)
BuildPlan ==
  /\ Valid
  /\ SearchEnds
  /\ handled' = TRUE
  /\ UNCHANGED <<nodes, edges>>

--------------------------------------------------------------------------------
(* The plan *)

Inbound(n) == {e \in edges : e[2] = n}
Outgoing(n) == {e \in edges : e[1] = n}
Incoming(n) == Cardinality(Inbound(n))

GraphType ==
  /\ nodes \subseteq Names
  /\ edges \subseteq Possible
  /\ handled \in BOOLEAN

(* The part of the scheduler's invariant that is about the graph: what has *)
(* been handled has passed the search.                                     *)
GraphInv ==
  /\ SearchInv
  /\ EdgesWithin
  /\ handled => search = "idle" /\ Ranks(nodes) # {}
===============================================================================
