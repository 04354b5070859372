------------------------------ MODULE CycleSearch ------------------------------
(***************************************************************************)
(* The nodes and edges of a graph, and the depth-first search for a cycle  *)
(* that validation makes (graphCycleFinder in src/pkg/graph/snapshot.go    *)
(* and, line for line the same, runtimeGraphCycleFinder in                 *)
(* src/pkg/runtimegraph/graph.go).                                         *)
(*                                                                         *)
(* Nodes are the numbers 1..N in the order of their names.  A call of      *)
(* visit is taken apart: one step for its entry, one for the neighbour it  *)
(* comes to next, one for its return.  The caller holds the graph's mutex  *)
(* meanwhile.                                                              *)
(* A definition Name_Change is a mistake the code could have made in Name. *)
(***************************************************************************)
EXTENDS Integers, Sequences, FiniteSets, SequencesExt

CONSTANTS
  N,          \* number of node names
  Possible    \* bound of the model: the edges that may be added

Names == 1 .. N
Start == 0
End == N + 1

ASSUME NAssumption == N \in Nat
ASSUME PossibleAssumption == Possible \subseteq (Names \union {Start}) \X (Names \union {End})

VARIABLES
  nodes,     \* the names registered so far
  edges,     \* the edges added so far
  search,    \* "idle", "running", or its result: "acyclic", "cyclic"
  marks,     \* state of the finder: 0 not seen, 1 on the stack, 2 done
  stack,     \* its stack, which is that of the calls of visit under way
  cycle      \* the cycle it returns

searchVars == <<search, marks, stack, cycle>>

Processing == {e \in edges : e[1] # Start /\ e[2] # End}
Upstream(n) == {e[1] : e \in {f \in Processing : f[2] = n}}
Downstream(n) == {e[2] : e \in {f \in Processing : f[1] = n}}

NoMarks == [n \in Names |-> 0]

SearchInit == search = "idle" /\ marks = NoMarks /\ stack = <<>> /\ cycle = <<>>

(* A search leaves nothing behind: its finder is a local of the call.      *)
SearchEnds ==
  /\ search \in {"acyclic", "cyclic"}
  /\ search' = "idle" /\ marks' = NoMarks /\ stack' = <<>> /\ cycle' = <<>>

--------------------------------------------------------------------------------
(* A graph without nodes is refused before the search.                     *)
SearchBegins ==
  /\ search = "idle"
  /\ nodes # {}
  /\ search' = "running"
  /\ UNCHANGED <<marks, stack, cycle>>

Enter(n) ==
  /\ marks' = [marks EXCEPT ![n] = 1]
  /\ stack' = Append(stack, n)

Unseen == {n \in nodes : marks[n] = 0}

(* The loop of findCycleLocked, when no visit is under way.                *)
VisitNext ==
  /\ search = "running"
  /\ stack = <<>>
  /\ Unseen # {}
  /\ Enter(Min(Unseen))
  /\ UNCHANGED <<search, cycle>>

AllSeen ==
  /\ search = "running"
  /\ stack = <<>>
  /\ Unseen = {}
  /\ search' = "acyclic"
  /\ UNCHANGED <<marks, stack, cycle>>

Visited == stack[Len(stack)]

(* The neighbours the loop of visit has still to look at.  It passes over  *)
(* those that are done, and those it has come to are done when it goes on. *)
Pending == {m \in Downstream(Visited) : marks[m] # 2}

LookAtUnseen ==
  /\ search = "running"
  /\ stack # <<>>
  /\ Pending # {}
  /\ marks[Min(Pending)] = 0
  /\ Enter(Min(Pending))
  /\ UNCHANGED <<search, cycle>>

(* stackCycle                                                              *)
StackCycle_Whole(n) == Append(stack, n)
StackCycle(n) ==
  LET first == CHOOSE i \in DOMAIN stack :
                 stack[i] = n /\ \A j \in 1 .. i - 1 : stack[j] # n
  IN  Append(SubSeq(stack, first, Len(stack)), n)

LookAtStacked ==
  /\ search = "running"
  /\ stack # <<>>
  /\ Pending # {}
  /\ marks[Min(Pending)] = 1
  /\ cycle' = StackCycle(Min(Pending))
  /\ search' = "cyclic"
  /\ UNCHANGED <<marks, stack>>

Left_Forgotten(n) == [marks EXCEPT ![n] = 0]
Left(n) == [marks EXCEPT ![n] = 2]

VisitReturns ==
  /\ search = "running"
  /\ stack # <<>>
  /\ Pending = {}
  /\ marks' = Left(Visited)
  /\ stack' = Front(stack)
  /\ UNCHANGED <<search, cycle>>

SearchStep == VisitNext \/ AllSeen \/ LookAtUnseen \/ LookAtStacked \/ VisitReturns

--------------------------------------------------------------------------------
(* What the search finds, and why *)

SearchType ==
  /\ search \in {"idle", "running", "acyclic", "cyclic"}
  /\ marks \in [Names -> 0 .. 2]
  /\ stack \in Seq(nodes)
  /\ cycle \in Seq(nodes)
  /\ search = "idle" => SearchInit

(* The edges of the search join nodes of the graph.                        *)
EdgesWithin == \A e \in Processing : e[1] \in nodes /\ e[2] \in nodes /\ e[1] # e[2]

Done == {n \in nodes : marks[n] = 2}

(* The numberings of the nodes of S along the edges, none of which leaves S*)
Ranks(S) ==
  {rank \in [S -> 1 .. Cardinality(S)] :
     \A e \in Processing : e[1] \in S => e[2] \in S /\ rank[e[1]] < rank[e[2]]}

(* The stack holds the nodes marked 1, once each, and is a path.           *)
StackIsPath ==
  /\ IsInjective(stack)
  /\ \A n \in Names : marks[n] = 1 <=> \E i \in 1 .. Len(stack) : stack[i] = n
  /\ \A n \in Names : marks[n] # 0 => n \in nodes
  /\ \A i \in 1 .. Len(stack) - 1 : <<stack[i], stack[i + 1]>> \in edges

(* The search reports a cycle exactly when the nodes cannot be ranked along*)
(* the edges, and what it reports is a cycle: it comes back to the node it *)
(* starts from, passes every other node once and follows edges, whatever   *)
(* was added in whatever order (snapshot.go findCycleLocked).              *)
CycleFound ==
  /\ search = "acyclic" =>
       \E rank \in [nodes -> 1 .. Cardinality(nodes)] :
         \A e \in Processing : rank[e[1]] < rank[e[2]]
  /\ search = "cyclic" =>
       /\ Len(cycle) > 1 /\ cycle[1] = cycle[Len(cycle)]
       /\ IsInjective(Tail(cycle))
       /\ \A i \in 1 .. Len(cycle) - 1 : <<cycle[i], cycle[i + 1]>> \in edges

SearchInv ==
  /\ SearchType
  /\ StackIsPath
  /\ search # "idle" => Ranks(Done) # {}
  /\ search = "acyclic" => Done = nodes
  /\ search = "cyclic" =>
       /\ Len(cycle) > 1 /\ cycle[1] = cycle[Len(cycle)]
       /\ IsInjective(Tail(cycle))
       /\ \A i \in 1 .. Len(cycle) - 1 : <<cycle[i], cycle[i + 1]>> \in edges
================================================================================
