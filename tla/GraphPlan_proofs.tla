---------------------------- MODULE GraphPlan_proofs ----------------------------
(***************************************************************************)
(* A plan puts every node after those it depends on, places every node of  *)
(* an acyclic graph, and the leaves gate for all, for every graph.         *)
(***************************************************************************)
EXTENDS GraphPlan, CycleSearch_proofs

--------------------------------------------------------------------------------
(* The inductive invariant *)

Placed == {order[i] : i \in 1 .. Len(order)}

(* A handled graph is not searched, and the search that allowed it to be   *)
(* handled has found its nodes to have an order.                           *)
SearchTrue == SearchInv /\ (handled => search = "idle")
Ranked == handled => Ranks(nodes) # {}

(* inDegree counts the predecessors still to be placed, and what is ready  *)
(* is what has none and is not placed itself.                              *)
DegreesTrue ==
  handled => \A n \in Names : degree[n] = Cardinality(Upstream(n) \ Placed)
ReadyTrue ==
  handled => ready = {n \in nodes \ Placed : Upstream(n) \subseteq Placed}

OrderTrue ==
  /\ \A n \in nodes : \A i \in 1 .. Len(order) : order[i] = n => Upstream(n) \subseteq Before(i)
  /\ IsInjective(order)
  /\ ~ handled => order = <<>>
  /\ stage \in {"create", "done"} => ready = {}

CreationTrue ==
  /\ stage # "missing"
  /\ stage = "done" => created = Len(order)
  /\ \A n \in nodes : n \in gating <=> n \in Leaves /\ n \in Before(created + 1)

IInv ==
  /\ TypeOK /\ EdgesWithin /\ SearchTrue /\ Ranked
  /\ DegreesTrue /\ ReadyTrue /\ OrderTrue /\ CreationTrue

(* The predecessors and successors of a node are nodes, finitely many, and *)
(* a node is not its own.                                                  *)
LEMMA Neighbours ==
  ASSUME TypeOK, EdgesWithin, NEW n
  PROVE  /\ Upstream(n) \subseteq nodes /\ Downstream(n) \subseteq nodes
         /\ n \notin Upstream(n) /\ n \notin Downstream(n)
         /\ \A m : m \in Downstream(n) <=> n \in Upstream(m)
         /\ IsFiniteSet(Upstream(n))
         /\ \A S : IsFiniteSet(Upstream(n) \ S)
<1>1. /\ Upstream(n) \subseteq nodes /\ Downstream(n) \subseteq nodes
      /\ n \notin Upstream(n) /\ n \notin Downstream(n)
      /\ \A m : m \in Downstream(n) <=> n \in Upstream(m)
  BY DEF EdgesWithin, Upstream, Downstream
<1>3. IsFiniteSet(Upstream(n))
  BY <1>1, FiniteNodes DEF TypeOK
<1>4. \A S : IsFiniteSet(Upstream(n) \ S)
  BY <1>3, FS_Subset
<1> QED
  BY <1>1, <1>3, <1>4

(* Once the graph is handled its views stay as they are.                   *)
LEMMA SameViews ==
  ASSUME UNCHANGED graph
  PROVE  /\ handled' = handled /\ nodes' = nodes /\ edges' = edges
         /\ Processing' = Processing /\ Leaves' = Leaves
         /\ EdgesWithin => EdgesWithin'
         /\ SearchTrue => SearchTrue'
         /\ Ranked => Ranked'
         /\ SearchType => SearchType'
         /\ \A n : Upstream(n)' = Upstream(n)
<1>1. UNCHANGED <<nodes, edges, handled, search, marks, stack, cycle>>
  BY DEF graph, searchVars
<1>2. Processing' = Processing /\ Done' = Done /\ \A S : Ranks(S)' = Ranks(S)
  BY <1>1 DEF Processing, Done, Ranks
<1>3. SearchType = SearchType' /\ StackIsPath = StackIsPath'
  BY <1>1 DEF SearchType, SearchInit, StackIsPath
<1>4. SearchTrue => SearchTrue'
  BY <1>1, <1>2, <1>3 DEF SearchTrue, SearchInv
<1>5. Ranked => Ranked'
  BY <1>1, <1>2 DEF Ranked
<1> QED
  BY <1>1, <1>2, <1>3, <1>4, <1>5 DEF Leaves, EdgesWithin, Upstream, Downstream

--------------------------------------------------------------------------------
(* The steps *)

(* A turn of the loop keeps the counters and the order true.               *)
LEMMA PlaceStep ==
  ASSUME IInv, Place
  PROVE  IInv'
<1> USE DEF IInv
<1> DEFINE name == Min(ready)
           next == Downstream(name)
           left == [n \in Names |-> IF n \in next THEN degree[n] - 1 ELSE degree[n]]
<1>1. handled /\ stage = "order"
  BY DEF Place, TypeOK
<1>2. name \in ready /\ name \in nodes /\ name \in Names
  <2>1. ready \in SUBSET Nat /\ ready # {}
    BY NAssumption DEF Place, TypeOK, Names
  <2> QED
    BY <2>1, MinIn DEF TypeOK
<1>3. name \notin Placed /\ Upstream(name) \subseteq Placed
  BY <1>1, <1>2 DEF ReadyTrue
<1>4. /\ order' = Append(order, name) /\ degree' = left
      /\ ready' = (ready \ {name}) \union Freed(next, left)
      /\ UNCHANGED <<graph, stage, created, gating>>
  BY DEF Place
<1> HIDE DEF name, next, left
<1>5. /\ order \in Seq(nodes) /\ order' \in Seq(nodes)
      /\ Len(order) \in Nat /\ Len(order') = Len(order) + 1
      /\ order'[Len(order) + 1] = name
      /\ \A i \in 1 .. Len(order) : order'[i] = order[i]
  BY <1>2, <1>4 DEF TypeOK
<1>6. Placed' = Placed \union {name}
  BY <1>5 DEF Placed
<1>7. /\ handled' = handled /\ nodes' = nodes /\ edges' = edges /\ Leaves' = Leaves
      /\ stage' = stage /\ created' = created /\ gating' = gating
      /\ EdgesWithin' /\ SearchTrue' /\ Ranked' /\ SearchType'
      /\ \A n : Upstream(n)' = Upstream(n)
  BY <1>4, SameViews DEF TypeOK
<1>8. \A n \in Names : degree'[n] = Cardinality(Upstream(n) \ Placed')
  <2> SUFFICES ASSUME NEW n \in Names
               PROVE  left[n] = Cardinality(Upstream(n) \ Placed')
    BY <1>4
  <2>1. IsFiniteSet(Upstream(n) \ Placed) /\ (n \in next <=> name \in Upstream(n))
    BY Neighbours DEF next
  <2>2. Upstream(n) \ Placed' = (Upstream(n) \ Placed) \ {name}
    BY <1>6
  <2>3. CASE n \in next
    <3>1. Cardinality(Upstream(n) \ Placed') = Cardinality(Upstream(n) \ Placed) - 1
      BY <1>3, <2>1, <2>2, <2>3, FS_RemoveElement
    <3> QED
      BY <1>1, <2>3, <3>1 DEF DegreesTrue, left
  <2>4. CASE n \notin next
    <3>1. Upstream(n) \ Placed' = Upstream(n) \ Placed
      BY <2>1, <2>2, <2>4
    <3> QED
      BY <1>1, <2>4, <3>1 DEF DegreesTrue, left
  <2> QED
    BY <2>3, <2>4
<1>9. ready' = {n \in nodes \ Placed' : Upstream(n) \subseteq Placed'}
  <2>1. next \subseteq nodes /\ name \notin next
    BY Neighbours DEF next
  <2>2. \A n \in Names : (n \in next <=> name \in Upstream(n))
    BY Neighbours DEF next
  <2>3. ASSUME NEW n \in next
        PROVE  n \notin Placed
    <3> SUFFICES ASSUME NEW i \in 1 .. Len(order), order[i] = n
                 PROVE  FALSE
      BY DEF Placed
    <3>1. name \in Before(i)
      BY <2>1, <2>2 DEF OrderTrue, TypeOK
    <3> QED
      BY <1>3, <1>5, <3>1 DEF Before, Placed
  <2>4. ASSUME NEW n \in next
        PROVE  left[n] = 0 <=> Upstream(n) \subseteq Placed'
    <3>1. n \in Names /\ IsFiniteSet(Upstream(n) \ Placed')
      BY <2>1, Neighbours DEF TypeOK
    <3>2. left[n] = Cardinality(Upstream(n) \ Placed')
      BY <1>4, <1>8, <3>1
    <3> QED
      BY <3>1, <3>2, FS_EmptySet
  <2>5. ASSUME NEW n
        PROVE  n \in ready' <=> n \in nodes \ Placed' /\ Upstream(n) \subseteq Placed'
    <3>1. n \in ready <=> n \in nodes \ Placed /\ Upstream(n) \subseteq Placed
      BY <1>1 DEF ReadyTrue
    <3>2. n \in ready' <=> (n \in ready /\ n # name) \/ (n \in next /\ left[n] = 0)
      BY <1>4 DEF Freed
    <3>3. CASE n \in next
      BY <1>6, <2>1, <2>3, <2>4, <3>1, <3>2, <3>3
    <3>4. CASE n \notin next
      <4>1. n \in nodes => name \notin Upstream(n)
        BY <2>2, <3>4 DEF TypeOK
      <4> QED
        BY <1>6, <3>1, <3>2, <3>4, <4>1
    <3> QED
      BY <3>3, <3>4
  <2> QED
    BY <2>5
<1>10. \A n \in nodes : \A i \in 1 .. Len(order') : order'[i] = n => Upstream(n) \subseteq Before(i)'
  <2> SUFFICES ASSUME NEW n \in nodes, NEW i \in 1 .. Len(order'), order'[i] = n
               PROVE  Upstream(n) \subseteq Before(i)'
    OBVIOUS
  <2>1. CASE i \in 1 .. Len(order)
    <3>1. Upstream(n) \subseteq Before(i)
      BY <1>5, <2>1 DEF OrderTrue
    <3> QED
      BY <1>5, <2>1, <3>1 DEF Before
  <2>2. CASE i = Len(order) + 1
    BY <1>3, <1>5, <2>2 DEF Before, Placed
  <2> QED
    BY <1>5, <2>1, <2>2
<1>11. IsInjective(order')
  BY <1>3, <1>5 DEF IsInjective, Placed, OrderTrue
<1>12. TypeOK'
  <2>1. ready' \subseteq nodes
    BY <1>9
  <2>2. degree' \in [Names -> Nat]
    <3>1. \A n \in Names : degree'[n] \in Nat
      BY <1>8, Neighbours, FS_CardinalityType
    <3>2. degree' = [n \in Names |-> degree'[n]]
      BY <1>4 DEF left
    <3> QED
      BY <3>1, <3>2
  <2>3. created' \in 0 .. Len(order')
    BY <1>5, <1>7 DEF TypeOK
  <2> QED
    BY <1>5, <1>7, <2>1, <2>2, <2>3 DEF TypeOK
<1>13. CreationTrue'
  <2>1. Before(created + 1)' = Before(created + 1)
    <3>1. created \in Nat /\ created <= Len(order)
      BY <1>5 DEF TypeOK
    <3>2. \A j \in 1 .. created + 1 - 1 : order'[j] = order[j]
      BY <1>5, <3>1
    <3>3. \A m : m \in Before(created + 1)' <=> m \in Before(created + 1)
      BY <1>7, <3>1, <3>2 DEF Before
    <3> QED
      BY <3>3 DEF Before
  <2> QED
    BY <1>1, <1>7, <2>1 DEF CreationTrue
<1>14. DegreesTrue' /\ ReadyTrue'
  BY <1>7, <1>8, <1>9 DEF DegreesTrue, ReadyTrue
<1>15. OrderTrue'
  BY <1>1, <1>7, <1>10, <1>11 DEF OrderTrue
<1> QED
  BY <1>7, <1>12, <1>13, <1>14, <1>15

(* Nodes and edges are added before anything is planned.                   *)
LEMMA BuildStep ==
  ASSUME IInv,
         (\E n \in Names : Node(n)) \/ (\E e \in Possible : Edge(e))
  PROVE  IInv'
<1> USE DEF IInv
<1>1. /\ ~ handled /\ stage = "build" /\ order = <<>> /\ created = 0 /\ gating = {}
      /\ search = "idle"
      /\ UNCHANGED <<handled, searchVars, stage, degree, ready, order, created, gating>>
  <2>1. ~ handled /\ stage = "build" /\ order = <<>>
    BY DEF Node, Edge, Open, TypeOK, OrderTrue
  <2>2. created = 0
    BY <2>1 DEF TypeOK
  <2>3. gating = {}
    BY <2>2 DEF CreationTrue, Before, TypeOK
  <2> QED
    BY <2>1, <2>2, <2>3 DEF Node, Edge, Open, planVars
<1>2. nodes \subseteq nodes' /\ nodes' \subseteq Names /\ edges' \subseteq Possible
  BY DEF Node, Edge, TypeOK
<1>2a. SearchTrue' /\ Ranked'
  <2>1. SearchInv'
    BY <1>1, SearchOver DEF SearchTrue
  <2> QED
    BY <1>1, <2>1 DEF SearchTrue, Ranked
<1>3. TypeOK'
  <2>1. order' \in Seq(nodes') /\ ready' \subseteq nodes' /\ gating' \subseteq nodes'
    BY <1>1, <1>2 DEF TypeOK
  <2> QED
    BY <1>1, <1>2, <1>2a, <2>1 DEF TypeOK, SearchTrue, SearchInv
<1>4. EdgesWithin'
  <2>1. CASE \E n \in Names : Node(n)
    BY <2>1 DEF Node, EdgesWithin, Processing
  <2>2. CASE \E e \in Possible : Edge(e)
    BY <2>2 DEF Edge, ValidEdge, EdgesWithin, Processing
  <2> QED
    BY <2>1, <2>2
<1>5. DegreesTrue' /\ ReadyTrue'
  BY <1>1 DEF DegreesTrue, ReadyTrue
<1>6. OrderTrue'
  BY <1>1 DEF OrderTrue, IsInjective
<1>7. CreationTrue'
  BY <1>1 DEF CreationTrue, Before
<1> QED
  BY <1>2a, <1>3, <1>4, <1>5, <1>6, <1>7

(* BuildPlan counts the predecessors before any node is placed.            *)
LEMMA PlanStep ==
  ASSUME IInv, BuildPlan
  PROVE  IInv'
<1> USE DEF IInv
<1>1. /\ ~ handled /\ order = <<>> /\ handled' = TRUE /\ stage' = "order"
      /\ search = "acyclic" /\ search' = "idle"
      /\ degree' = [n \in Names |-> InDegree(n)]
      /\ ready' = {n \in nodes : degree'[n] = 0}
      /\ UNCHANGED <<nodes, edges, order, created, gating>>
  BY DEF BuildPlan, Valid, SearchEnds, SearchTrue, OrderTrue
<1>1a. SearchInv'
  BY SearchOver DEF BuildPlan
<1>1b. SearchTrue' /\ Ranked' /\ SearchType'
  <2>1. Ranks(nodes) # {} /\ Ranks(nodes)' = Ranks(nodes)
    BY <1>1 DEF SearchTrue, SearchInv, Ranks, Processing
  <2> QED
    BY <1>1, <1>1a, <2>1 DEF SearchTrue, Ranked, SearchInv
<1>2. /\ EdgesWithin' /\ Leaves' = Leaves
      /\ \A n : Upstream(n)' = Upstream(n)
  BY <1>1 DEF Processing, EdgesWithin, Leaves, Upstream, Downstream
<1>3. Placed = {} /\ Placed' = {}
  BY <1>1 DEF Placed
<1>4. \A n \in Names : degree'[n] = Cardinality(Upstream(n) \ Placed')
  BY <1>1, <1>3 DEF InDegree
<1>5. \A n \in Names : degree'[n] \in Nat /\ (degree'[n] = 0 <=> Upstream(n) \subseteq Placed')
  BY <1>3, <1>4, Neighbours, FS_CardinalityType, FS_EmptySet
<1>6. ready' = {n \in nodes \ Placed' : Upstream(n) \subseteq Placed'}
  BY <1>1, <1>3, <1>5 DEF TypeOK
<1>7. TypeOK'
  <2>1. degree' \in [Names -> Nat]
    BY <1>1, <1>5
  <2> QED
    BY <1>1, <1>1b, <2>1 DEF TypeOK
<1>8. DegreesTrue' /\ ReadyTrue'
  BY <1>1, <1>2, <1>4, <1>6 DEF DegreesTrue, ReadyTrue
<1>9. OrderTrue'
  BY <1>1 DEF OrderTrue
<1>10. CreationTrue'
  BY <1>1, <1>2 DEF CreationTrue, Before
<1> QED
  BY <1>1b, <1>2, <1>7, <1>8, <1>9, <1>10

(* A processor is created after all it depends on.                         *)
LEMMA CreateStep ==
  ASSUME IInv, CreateProcessor
  PROVE  IInv'
<1> USE DEF IInv
<1> DEFINE name == order[created + 1]
<1>1. /\ created \in Nat /\ created + 1 \in 1 .. Len(order) /\ Len(order) \in Nat
      /\ name \in nodes
  BY DEF CreateProcessor, TypeOK
<1>2. Upstream(name) \subseteq Before(created + 1)
  BY <1>1 DEF OrderTrue
<1>3. /\ stage = "create" /\ stage' = stage /\ created' = created + 1
      /\ gating' = IF name \in Leaves THEN gating \union {name} ELSE gating
      /\ UNCHANGED <<graph, degree, ready, order>>
  BY <1>2 DEF CreateProcessor, Gates
<1> HIDE DEF name
<1>4. /\ handled' = handled /\ nodes' = nodes /\ edges' = edges /\ Leaves' = Leaves
      /\ EdgesWithin' /\ SearchTrue' /\ Ranked' /\ SearchType'
      /\ \A n : Upstream(n)' = Upstream(n)
  BY <1>3, SameViews DEF TypeOK
<1>5. TypeOK'
  BY <1>1, <1>3, <1>4 DEF TypeOK
<1>6. DegreesTrue' /\ ReadyTrue'
  BY <1>3, <1>4 DEF DegreesTrue, ReadyTrue, Placed
<1>7. OrderTrue'
  BY <1>3, <1>4 DEF OrderTrue, Before
<1>8. CreationTrue'
  <2>1. Before(created + 1)' = Before(created + 1) \union {name}
    BY <1>1, <1>3 DEF Before, name
  <2> QED
    BY <1>1, <1>3, <1>4, <2>1 DEF CreationTrue
<1> QED
  BY <1>4, <1>5, <1>6, <1>7, <1>8

(* The steps between the loops, and stuttering.                            *)
LEMMA OtherSteps ==
  ASSUME IInv, PlanBuilt \/ Registered \/ UNCHANGED vars
  PROVE  IInv'
<1> USE DEF IInv
<1>1. UNCHANGED <<graph, degree, ready, order, created, gating>>
  BY DEF PlanBuilt, Registered, vars, planVars, planVars
<1>2. /\ handled' = handled /\ nodes' = nodes /\ edges' = edges /\ Leaves' = Leaves
      /\ EdgesWithin' /\ SearchTrue' /\ Ranked' /\ SearchType'
      /\ \A n : Upstream(n)' = Upstream(n)
  BY <1>1, SameViews DEF TypeOK
<1>3. TypeOK'
  BY <1>1, <1>2 DEF PlanBuilt, Registered, vars, planVars, TypeOK
<1>4. DegreesTrue' /\ ReadyTrue'
  BY <1>1, <1>2 DEF DegreesTrue, ReadyTrue, Placed
<1>5. OrderTrue'
  <2>1. stage' \in {"create", "done"} => ready' = {}
    BY <1>1 DEF PlanBuilt, Registered, vars, planVars, OrderTrue
  <2> QED
    BY <1>1, <1>2, <2>1 DEF OrderTrue, Before
<1>6. CreationTrue'
  <2>1. Before(created + 1)' = Before(created + 1)
    BY <1>1 DEF Before
  <2>2. stage' # "missing" /\ (stage' = "done" => created' = Len(order'))
    BY <1>1 DEF PlanBuilt, Registered, vars, planVars, CreationTrue
  <2> QED
    BY <1>1, <1>2, <2>1, <2>2 DEF CreationTrue
<1> QED
  BY <1>2, <1>3, <1>4, <1>5, <1>6

(* The steps of a search.                                                  *)
LEMMA ValidationStep ==
  ASSUME IInv, BeginSearch \/ FindCycle \/ ValidateReturns
  PROVE  IInv'
<1> USE DEF IInv
<1>1. /\ UNCHANGED <<nodes, edges, handled, stage, degree, ready, order, created, gating>>
      /\ SearchBegins \/ SearchStep \/ SearchEnds
      /\ ~ handled
  BY DEF BeginSearch, FindCycle, ValidateReturns, planVars, Open, SearchTrue, SearchStep, SearchEnds,
         VisitNext, AllSeen, LookAtUnseen, LookAtStacked, VisitReturns
<1>2. SearchInv'
  BY <1>1, SearchStays DEF SearchTrue, TypeOK, GraphGiven
<1>3. SearchTrue' /\ Ranked' /\ SearchType'
  BY <1>1, <1>2 DEF SearchTrue, Ranked, SearchInv
<1>4. EdgesWithin' /\ Leaves' = Leaves
  BY <1>1 DEF EdgesWithin, Processing, Leaves, Downstream
<1>5. TypeOK'
  BY <1>1, <1>3 DEF TypeOK
<1>6. DegreesTrue' /\ ReadyTrue'
  BY <1>1 DEF DegreesTrue, ReadyTrue
<1>7. OrderTrue'
  BY <1>1 DEF OrderTrue
<1>8. CreationTrue'
  BY <1>1, <1>4 DEF CreationTrue, Before
<1> QED
  BY <1>3, <1>4, <1>5, <1>6, <1>7, <1>8

LEMMA InitIInv == Init => IInv
<1> SUFFICES ASSUME Init PROVE IInv
  OBVIOUS
<1>1. TypeOK
  <2>1. order \in Seq(nodes) /\ created \in 0 .. Len(order)
    BY DEF Init
  <2> QED
    BY <2>1, NoSearch DEF Init, TypeOK, SearchInv
<1>2. EdgesWithin /\ DegreesTrue /\ ReadyTrue /\ SearchTrue /\ Ranked
  BY NoSearch DEF Init, EdgesWithin, Processing, DegreesTrue, ReadyTrue, SearchTrue, Ranked
<1>3. OrderTrue
  BY DEF Init, OrderTrue, IsInjective
<1>4. CreationTrue
  BY DEF Init, CreationTrue
<1> QED
  BY <1>1, <1>2, <1>3, <1>4 DEF IInv

LEMMA StepIInv == IInv /\ [Next]_vars => IInv'
<1> SUFFICES ASSUME IInv, [Next]_vars PROVE IInv'
  OBVIOUS
<1>1. CASE (\E n \in Names : Node(n)) \/ (\E e \in Possible : Edge(e))
  BY <1>1, BuildStep
<1>2. CASE BuildPlan
  BY <1>2, PlanStep
<1>3. CASE Place
  BY <1>3, PlaceStep
<1>4. CASE CreateProcessor
  BY <1>4, CreateStep
<1>5. CASE BeginSearch \/ FindCycle \/ ValidateReturns
  BY <1>5, ValidationStep
<1>6. CASE PlanBuilt \/ Registered \/ UNCHANGED vars
  BY <1>6, OtherSteps
<1> QED
  BY <1>1, <1>2, <1>3, <1>4, <1>5, <1>6 DEF Next, HandleGraph

LEMMA Invariance == Spec => []IInv
<1>1. IInv /\ [Next]_vars => IInv'
  BY StepIInv
<1> QED
  BY <1>1, InitIInv, PTL DEF Spec

--------------------------------------------------------------------------------
(* The results *)

(* Every variable keeps the values the code can give it.                   *)
THEOREM TypeCorrect == Spec => []TypeOK
<1>1. IInv => TypeOK
  BY DEF IInv
<1> QED
  BY <1>1, Invariance, PTL

(* No processor is created before one it depends on, whatever the graph:   *)
(* the order alone sees to it, not the search for cycles                   *)
(* (plan.go topologicalOrder, graph_processors.go HandleGraph).            *)
THEOREM UpstreamComesFirst == Spec => []UpstreamFirst
<1>1. IInv => UpstreamFirst
  <2> SUFFICES ASSUME IInv, NEW i \in 1 .. Len(order)
               PROVE  stage # "missing" /\ Upstream(order[i]) \subseteq Before(i)
    BY DEF UpstreamFirst, IInv, CreationTrue
  <2>1. order[i] \in nodes
    BY DEF IInv, TypeOK
  <2> QED
    BY <2>1 DEF IInv, OrderTrue, CreationTrue
<1> QED
  BY <1>1, Invariance, PTL

(* Every node is placed when nothing is ready: of the nodes left, one of   *)
(* the least rank would have all its predecessors placed.                  *)
LEMMA AllPlaced ==
  ASSUME IInv, handled, ready = {}
  PROVE  nodes = Placed
<1> USE DEF IInv
<1> DEFINE rest == nodes \ Placed
<1>1. PICK rank : rank \in Ranks(nodes)
  BY DEF Ranked
<1>2. Cardinality(nodes) \in Nat
  BY FiniteNodes DEF TypeOK
<1>3. /\ \A n \in nodes : rank[n] \in Nat
      /\ \A n \in nodes : \A m \in Upstream(n) : rank[m] < rank[n]
  BY <1>1, <1>2 DEF Ranks, Upstream, EdgesWithin
<1>4. ASSUME rest # {} PROVE FALSE
  <2> DEFINE S == {rank[n] : n \in rest}
  <2>1. S \in SUBSET Nat /\ S # {}
    BY <1>3, <1>4
  <2>2. PICK n \in rest : \A m \in rest : rank[n] <= rank[m]
    <3>1. PICK x \in S : \A y \in S : x <= y
      BY <2>1, Least
    <3> QED
      BY <3>1
  <2>3. Upstream(n) \subseteq nodes
    BY Neighbours
  <2>4. Upstream(n) \intersect rest = {}
    BY <1>3, <2>2, <2>3
  <2>5. n \in ready
    BY <2>2, <2>3, <2>4 DEF ReadyTrue
  <2> QED
    BY <2>5
<1>5. Placed \subseteq nodes
  BY DEF Placed, TypeOK
<1> QED
  BY <1>4, <1>5

(* Whatever was added in whatever order, a search that ends reports a cycle*)
(* exactly when there is one, and what it reports is one (snapshot.go      *)
(* findCycleLocked).                                                       *)
THEOREM SearchFindsCycles == Spec => []CycleFound
<1>1. IInv => CycleFound
  BY SearchExact DEF IInv, SearchTrue, TypeOK, GraphGiven
<1> QED
  BY <1>1, Invariance, PTL

(* No handler is left without a processor, and none has two (plan.go       *)
(* topologicalOrder).                                                      *)
THEOREM PlanIsComplete == Spec => []PlanComplete
<1>1. IInv => PlanComplete
  <2> SUFFICES ASSUME IInv, stage \in {"create", "done"}
               PROVE  IsInjective(order) /\ nodes = {order[i] : i \in 1 .. Len(order)}
    BY DEF PlanComplete
  <2>1. handled /\ ready = {}
    BY DEF IInv, TypeOK, OrderTrue
  <2> QED
    BY <2>1, AllPlaced DEF IInv, OrderTrue, Placed
<1> QED
  BY <1>1, Invariance, PTL

(* Waiting for the leaves is waiting for all: of the processors that are   *)
(* not ahead the one of the highest rank is a leaf (graph_processors.go    *)
(* HandleGraph, ProducerGating).                                           *)
THEOREM LeavesGateForAll == Spec => []GatingCoversAll
<1>1. IInv => GatingCoversAll
  <2> SUFFICES ASSUME IInv, stage = "done",
                      NEW ahead \in [nodes -> BOOLEAN],
                      \A n \in nodes : \A m \in Upstream(n) : ahead[n] => ahead[m],
                      NEW k \in nodes, ~ ahead[k]
               PROVE  \E g \in gating : ~ ahead[g]
    BY DEF GatingCoversAll
  <2> USE DEF IInv
  <2> DEFINE behind == {n \in nodes : ~ ahead[n]}
             top == Cardinality(nodes)
  <2>1. handled /\ ready = {} /\ created = Len(order)
    BY DEF TypeOK, OrderTrue, CreationTrue
  <2>2. nodes = Before(created + 1)
    BY <2>1, AllPlaced DEF Placed, Before, TypeOK
  <2>3. gating = Leaves
    BY <2>2 DEF CreationTrue, TypeOK, Leaves
  <2>4. PICK rank : rank \in Ranks(nodes)
    BY <2>1 DEF Ranked
  <2>5. top \in Nat
    BY FiniteNodes DEF TypeOK
  <2>6. /\ \A n \in nodes : rank[n] \in 1 .. top
        /\ \A n \in nodes : \A m \in Upstream(n) : rank[m] < rank[n]
    BY <2>4 DEF Ranks, Upstream, EdgesWithin
  <2> DEFINE S == {top - rank[n] : n \in behind}
  <2>7. S \in SUBSET Nat /\ S # {}
    BY <2>5, <2>6
  <2>8. PICK n \in behind : \A m \in behind : top - rank[n] <= top - rank[m]
    <3>1. PICK x \in S : \A y \in S : x <= y
      BY <2>7, Least
    <3> QED
      BY <3>1
  <2>9. ASSUME NEW m \in Downstream(n) PROVE FALSE
    <3>1. m \in nodes /\ n \in Upstream(m)
      BY <2>8, Neighbours
    <3>2. m \in behind
      BY <2>8, <3>1
    <3>3. rank[n] < rank[m]
      BY <2>6, <3>1
    <3> QED
      BY <2>5, <2>6, <2>8, <3>1, <3>2, <3>3
  <2>10. n \in Leaves
    BY <2>8, <2>9 DEF Leaves
  <2> QED
    BY <2>3, <2>8, <2>10
<1> QED
  BY <1>1, Invariance, PTL
=================================================================================
