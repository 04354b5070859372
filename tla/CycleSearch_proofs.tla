--------------------------- MODULE CycleSearch_proofs ---------------------------
(***************************************************************************)
(* The search for a cycle is exact: SearchInv is kept by its steps and     *)
(* gives CycleFound, for every graph.                                      *)
(***************************************************************************)
EXTENDS CycleSearch, FiniteSetTheorems, WellFoundedInduction, TLAPS

(* A set of natural numbers that is not empty has a least element.         *)
LEMMA Least ==
  ASSUME NEW S \in SUBSET Nat, S # {}
  PROVE  \E x \in S : \A y \in S : x <= y
<1>1. IsWellFoundedOn(OpToRel(<, Nat), Nat)
  BY NatLessThanWellFounded
<1>2. PICK x \in S : \A y \in S : <<y, x>> \notin OpToRel(<, Nat)
  BY <1>1, WFMin
<1>3. ASSUME NEW y \in S PROVE x <= y
  <2>1. x \in Nat /\ y \in Nat
    OBVIOUS
  <2>2. ~ (y < x)
    BY <1>2, <2>1 DEF OpToRel
  <2> QED
    BY <2>1, <2>2
<1> QED
  BY <1>3

(* The node of the least name is one of them.                              *)
LEMMA MinIn ==
  ASSUME NEW S \in SUBSET Nat, S # {}
  PROVE  Min(S) \in S
BY Least DEF Min

(* A graph has finitely many nodes, and so has every part of it.           *)
LEMMA FiniteNodes ==
  ASSUME nodes \subseteq Names
  PROVE  \A S \in SUBSET nodes : IsFiniteSet(S) /\ Cardinality(S) \in Nat
<1>1. IsFiniteSet(Names)
  BY NAssumption, FS_Interval DEF Names
<1> QED
  BY <1>1, FS_Subset, FS_CardinalityType

(* What the search may assume of the graph.                                *)
GraphGiven == nodes \subseteq Names /\ edges \subseteq Possible /\ EdgesWithin

LEMMA EdgesArePairs ==
  ASSUME GraphGiven, NEW n, NEW m \in Downstream(n)
  PROVE  n \in nodes /\ m \in nodes /\ m # n /\ <<n, m>> \in edges /\ <<n, m>> \in Processing
<1>1. PICK e \in Processing : e[1] = n /\ e[2] = m
  BY DEF Downstream
<1>2. e \in edges /\ e = <<e[1], e[2]>>
  BY <1>1, PossibleAssumption DEF GraphGiven, Processing
<1> QED
  BY <1>1, <1>2 DEF GraphGiven, EdgesWithin

--------------------------------------------------------------------------------
(* The steps *)

(* A node not seen yet is put on the stack.                                *)
LEMMA EnterStep ==
  ASSUME GraphGiven, SearchInv, search = "running",
         NEW n \in nodes, marks[n] = 0, Enter(n),
         stack # <<>> => <<Visited, n>> \in edges,
         UNCHANGED <<nodes, edges, search, cycle>>
  PROVE  SearchInv'
<1> USE DEF SearchInv, GraphGiven
<1>1. /\ marks \in [Names -> 0 .. 2] /\ n \in Names
      /\ marks' = [marks EXCEPT ![n] = 1]
  BY DEF SearchType, Enter
<1>2. /\ stack \in Seq(nodes) /\ stack' \in Seq(nodes)
      /\ Len(stack) \in Nat /\ Len(stack') = Len(stack) + 1
      /\ stack'[Len(stack) + 1] = n
      /\ \A i \in 1 .. Len(stack) : stack'[i] = stack[i]
  BY DEF SearchType, Enter
<1>3. \A i \in 1 .. Len(stack) : stack[i] \in nodes /\ stack[i] # n
  BY <1>1, <1>2 DEF StackIsPath
<1>4. SearchType'
  <2>1. marks' \in [Names -> 0 .. 2]
    BY <1>1
  <2> QED
    BY <1>2, <2>1 DEF SearchType
<1>5. StackIsPath'
  <2>1. IsInjective(stack')
    BY <1>2, <1>3 DEF StackIsPath, IsInjective
  <2>2. ASSUME NEW m \in Names
        PROVE  marks'[m] = 1 <=> \E i \in 1 .. Len(stack') : stack'[i] = m
    <3>1. CASE m = n
      BY <1>1, <1>2, <3>1
    <3>2. CASE m # n
      <4>1. marks'[m] = marks[m]
        BY <1>1, <3>2
      <4>2. (\E i \in 1 .. Len(stack') : stack'[i] = m) <=> \E i \in 1 .. Len(stack) : stack[i] = m
        BY <1>2, <3>2
      <4> QED
        BY <4>1, <4>2 DEF StackIsPath
    <3> QED
      BY <3>1, <3>2
  <2>3. \A m \in Names : marks'[m] # 0 => m \in nodes'
    BY <1>1 DEF StackIsPath
  <2>4. ASSUME NEW i \in 1 .. Len(stack') - 1
        PROVE  <<stack'[i], stack'[i + 1]>> \in edges'
    <3>1. CASE i = Len(stack)
      <4>1. stack # <<>> /\ i \in 1 .. Len(stack)
        BY <1>2, <3>1
      <4> QED
        BY <1>2, <3>1, <4>1 DEF Visited
    <3>2. CASE i # Len(stack)
      <4>1. i \in 1 .. Len(stack) - 1 /\ i \in 1 .. Len(stack) /\ i + 1 \in 1 .. Len(stack)
        BY <1>2, <3>2
      <4> QED
        BY <1>2, <4>1 DEF StackIsPath
    <3> QED
      BY <3>1, <3>2
  <2> QED
    BY <2>1, <2>2, <2>3, <2>4 DEF StackIsPath
<1>6. Done' = Done
  BY <1>1 DEF Done
<1>7. Ranks(Done)' = Ranks(Done)
  BY <1>6 DEF Ranks, Processing
<1> QED
  BY <1>4, <1>5, <1>7

LEMMA VisitNextStep ==
  ASSUME GraphGiven, SearchInv, VisitNext, UNCHANGED <<nodes, edges>>
  PROVE  SearchInv'
<1>1. Unseen \in SUBSET Nat /\ Unseen # {}
  <2>1. Names \subseteq Nat
    BY NAssumption DEF Names
  <2>2. Unseen \subseteq nodes
    BY DEF Unseen
  <2> QED
    BY <2>1, <2>2 DEF VisitNext, GraphGiven
<1>2. Min(Unseen) \in Unseen
  BY <1>1, MinIn
<1>3. Min(Unseen) \in nodes /\ marks[Min(Unseen)] = 0
  BY <1>2 DEF Unseen
<1> QED
  BY <1>3, EnterStep DEF VisitNext

(* The neighbour the loop of visit comes to next.                          *)
LEMMA PendingMin ==
  ASSUME GraphGiven, Pending # {}
  PROVE  /\ Min(Pending) \in Pending /\ Min(Pending) \in nodes
         /\ <<Visited, Min(Pending)>> \in edges
<1>1. Pending \subseteq Downstream(Visited)
  BY DEF Pending
<1>2. Pending \subseteq nodes
  BY <1>1, EdgesArePairs
<1>3. Pending \in SUBSET Nat
  BY <1>2, NAssumption DEF GraphGiven, Names
<1>4. Min(Pending) \in Pending
  BY <1>3, MinIn
<1> QED
  BY <1>1, <1>2, <1>4, EdgesArePairs

LEMMA LookAtUnseenStep ==
  ASSUME GraphGiven, SearchInv, LookAtUnseen, UNCHANGED <<nodes, edges>>
  PROVE  SearchInv'
BY PendingMin, EnterStep DEF LookAtUnseen

(* The part of the stack from the node met again, and that node, are a     *)
(* cycle.                                                                  *)
LEMMA LookAtStackedStep ==
  ASSUME GraphGiven, SearchInv, LookAtStacked, UNCHANGED <<nodes, edges>>
  PROVE  SearchInv'
<1> USE DEF SearchInv, GraphGiven
<1> DEFINE next == Min(Pending)
           top == Len(stack)
           IsFirst(i) == stack[i] = next /\ \A j \in 1 .. i - 1 : stack[j] # next
           first == CHOOSE i \in DOMAIN stack : IsFirst(i)
<1>1. next \in Pending /\ next \in nodes /\ <<stack[top], next>> \in edges
  BY PendingMin DEF LookAtStacked, Visited
<1>2. /\ marks[next] = 1 /\ cycle' = StackCycle(next) /\ search' = "cyclic"
      /\ UNCHANGED <<nodes, edges, marks, stack>>
  BY DEF LookAtStacked
<1> HIDE DEF next
<1>3. stack \in Seq(nodes) /\ top \in Nat /\ DOMAIN stack = 1 .. top
  BY DEF SearchType
<1>4. first \in 1 .. top /\ stack[first] = next
  <2> DEFINE S == {i \in 1 .. top : stack[i] = next}
  <2>1. S # {} /\ S \in SUBSET Nat
    BY <1>1, <1>2, <1>3 DEF StackIsPath
  <2> HIDE DEF S
  <2>2. PICK i \in S : \A j \in S : i <= j
    BY <2>1, Least
  <2> USE DEF S
  <2>3. \A j \in 1 .. i - 1 : stack[j] # next
    <3> SUFFICES ASSUME NEW j \in 1 .. i - 1, stack[j] = next PROVE FALSE
      OBVIOUS
    <3>1. j \in 1 .. top /\ ~ (i <= j)
      BY <1>3, <2>2
    <3> QED
      BY <2>2, <3>1
  <2>4. \E k \in DOMAIN stack : IsFirst(k)
    BY <1>3, <2>2, <2>3
  <2>5. first \in DOMAIN stack /\ IsFirst(first)
    BY <2>4
  <2> QED
    BY <1>3, <2>5
<1>5. cycle' = Append(SubSeq(stack, first, top), next)
  BY <1>2 DEF StackCycle
<1> HIDE DEF first, top
<1>6. first \in Nat /\ first >= 1 /\ first <= top
  BY <1>3, <1>4
<1> DEFINE part == SubSeq(stack, first, top)
           length == top - first + 1
<1>7. /\ part \in Seq(nodes) /\ Len(part) = length /\ length \in Nat
      /\ \A i \in 1 .. length : part[i] = stack[first + i - 1]
  BY <1>3, <1>6 DEF top
<1> HIDE DEF part
<1>8. /\ cycle' \in Seq(nodes) /\ Len(cycle') = length + 1
      /\ cycle'[length + 1] = next
      /\ \A i \in 1 .. length : cycle'[i] = stack[first + i - 1]
  BY <1>1, <1>5, <1>7 DEF part
<1>9. Len(cycle') > 1 /\ cycle'[1] = cycle'[Len(cycle')]
  <2>1. length >= 1 /\ 1 \in 1 .. length
    BY <1>6, <1>3
  <2>2. cycle'[1] = stack[first]
    BY <1>6, <1>8, <2>1
  <2> QED
    BY <1>4, <1>7, <1>8, <2>1, <2>2
<1>10. IsInjective(Tail(cycle'))
  <2>1. /\ DOMAIN Tail(cycle') = 1 .. length
        /\ \A i \in 1 .. length : Tail(cycle')[i] = cycle'[i + 1]
    BY <1>7, <1>8
  <2>2. \A i \in 1 .. length - 1 : Tail(cycle')[i] = stack[first + i]
    <3> SUFFICES ASSUME NEW i \in 1 .. length - 1
                 PROVE  Tail(cycle')[i] = stack[first + i]
      OBVIOUS
    <3>1. i \in 1 .. length /\ i + 1 \in 1 .. length /\ first + (i + 1) - 1 = first + i
      BY <1>6, <1>7
    <3> QED
      BY <1>8, <2>1, <3>1
  <2>3. Tail(cycle')[length] = stack[first]
    <3>1. length \in 1 .. length
      BY <1>6, <1>3
    <3> QED
      BY <1>4, <1>8, <2>1, <3>1
  <2> DEFINE at(i) == IF i = length THEN first ELSE first + i
  <2>4. \A i \in 1 .. length : at(i) \in 1 .. top /\ Tail(cycle')[i] = stack[at(i)]
    <3> SUFFICES ASSUME NEW i \in 1 .. length
                 PROVE  at(i) \in 1 .. top /\ Tail(cycle')[i] = stack[at(i)]
      OBVIOUS
    <3>1. CASE i = length
      BY <1>4, <2>3, <3>1
    <3>2. CASE i # length
      <4>1. i \in 1 .. length - 1 /\ first + i \in 1 .. top
        BY <1>3, <1>6, <3>2
      <4> QED
        BY <2>2, <3>2, <4>1
    <3> QED
      BY <3>1, <3>2
  <2>5. \A i, j \in 1 .. length : at(i) = at(j) => i = j
    BY <1>3, <1>6
  <2> HIDE DEF at
  <2>6. \A i, j \in 1 .. top : stack[i] = stack[j] => i = j
    BY <1>3 DEF StackIsPath, IsInjective
  <2>7. ASSUME NEW i \in 1 .. length, NEW j \in 1 .. length, Tail(cycle')[i] = Tail(cycle')[j]
        PROVE  i = j
    <3>1. at(i) \in 1 .. top /\ at(j) \in 1 .. top /\ stack[at(i)] = stack[at(j)]
      BY <2>4, <2>7
    <3>2. at(i) = at(j)
      BY <2>6, <3>1
    <3> QED
      BY <2>5, <3>2
  <2> QED
    BY <2>1, <2>7 DEF IsInjective
<1>11. ASSUME NEW i \in 1 .. Len(cycle') - 1
       PROVE  <<cycle'[i], cycle'[i + 1]>> \in edges
  <2>1. i \in 1 .. length /\ cycle'[i] = stack[first + i - 1]
    BY <1>7, <1>8
  <2>2. CASE i = length
    <3>1. first + i - 1 = top
      BY <1>3, <1>6, <2>2
    <3> QED
      BY <1>1, <1>8, <2>1, <2>2, <3>1
  <2>3. CASE i # length
    <3>1. /\ i + 1 \in 1 .. length /\ first + (i + 1) - 1 = (first + i - 1) + 1
          /\ first + i - 1 \in 1 .. top - 1
      BY <1>3, <1>6, <2>1, <2>3
    <3>2. cycle'[i + 1] = stack[(first + i - 1) + 1]
      BY <1>8, <3>1
    <3> QED
      BY <2>1, <3>1, <3>2 DEF StackIsPath, top
  <2> QED
    BY <2>2, <2>3
<1>12. SearchType'
  BY <1>2, <1>8 DEF SearchType
<1>13. StackIsPath'
  BY <1>2 DEF StackIsPath
<1>14. search # "idle" /\ Ranks(Done)' = Ranks(Done)
  BY <1>2 DEF LookAtStacked, Ranks, Done, Processing
<1> QED
  BY <1>2, <1>9, <1>10, <1>11, <1>12, <1>13, <1>14

(* A node that is left has only nodes before it that are done: it gets the *)
(* least number, and the others move up by one.                            *)
LEMMA VisitReturnsStep ==
  ASSUME GraphGiven, SearchInv, VisitReturns, UNCHANGED <<nodes, edges>>
  PROVE  SearchInv'
<1> USE DEF SearchInv, GraphGiven
<1> DEFINE top == Len(stack)
<1>1. /\ search = "running" /\ stack # <<>> /\ Pending = {}
      /\ marks' = [marks EXCEPT ![Visited] = 2] /\ stack' = SubSeq(stack, 1, top - 1)
      /\ UNCHANGED <<nodes, edges, search, cycle>>
  BY DEF VisitReturns, Left, Front
<1>2. stack \in Seq(nodes) /\ top \in Nat \ {0} /\ DOMAIN stack = 1 .. top
  BY <1>1 DEF SearchType
<1>3. Visited \in nodes /\ Visited \in Names /\ marks[Visited] = 1 /\ Visited = stack[top]
  BY <1>2 DEF Visited, StackIsPath
<1>4. /\ stack' \in Seq(nodes) /\ Len(stack') = top - 1
      /\ \A i \in 1 .. top - 1 : stack'[i] = stack[i]
  BY <1>1, <1>2
<1>5. /\ marks \in [Names -> 0 .. 2] /\ marks' \in [Names -> 0 .. 2]
      /\ marks'[Visited] = 2
      /\ \A n \in Names : n # Visited => marks'[n] = marks[n]
  BY <1>1, <1>3 DEF SearchType
<1> HIDE DEF top
<1>6. SearchType'
  BY <1>1, <1>4, <1>5 DEF SearchType
<1>7. \A i, j \in 1 .. top : stack[i] = stack[j] => i = j
  BY <1>2 DEF StackIsPath, IsInjective
<1>8. StackIsPath'
  <2>1. IsInjective(stack')
    BY <1>2, <1>4, <1>7 DEF IsInjective
  <2>2. ASSUME NEW n \in Names
        PROVE  marks'[n] = 1 <=> \E i \in 1 .. Len(stack') : stack'[i] = n
    <3>1. CASE n = Visited
      <4>1. \A i \in 1 .. top - 1 : stack[i] # Visited
        BY <1>2, <1>3, <1>7
      <4> QED
        BY <1>2, <1>4, <1>5, <3>1, <4>1
    <3>2. CASE n # Visited
      <4>1. marks[n] = 1 <=> \E i \in 1 .. top : stack[i] = n
        BY DEF StackIsPath, top
      <4>2. (\E i \in 1 .. top : stack[i] = n) <=> \E i \in 1 .. top - 1 : stack[i] = n
        BY <1>2, <1>3, <3>2
      <4>3. (\E i \in 1 .. top - 1 : stack[i] = n) <=> \E i \in 1 .. Len(stack') : stack'[i] = n
        BY <1>4
      <4> QED
        BY <1>5, <3>2, <4>1, <4>2, <4>3
    <3> QED
      BY <3>1, <3>2
  <2>3. \A n \in Names : marks'[n] # 0 => n \in nodes'
    BY <1>1, <1>3, <1>5 DEF StackIsPath
  <2>4. ASSUME NEW i \in 1 .. Len(stack') - 1
        PROVE  <<stack'[i], stack'[i + 1]>> \in edges'
    <3>1. i \in 1 .. top - 1 /\ i + 1 \in 1 .. top - 1
      BY <1>2, <1>4
    <3>2. <<stack[i], stack[i + 1]>> \in edges
      BY <3>1 DEF StackIsPath, top
    <3> QED
      BY <1>1, <1>4, <3>1, <3>2
  <2> QED
    BY <2>1, <2>2, <2>3, <2>4 DEF StackIsPath
<1>9. Done' = Done \union {Visited} /\ Visited \notin Done
  BY <1>1, <1>3, <1>5 DEF Done
<1>10. Downstream(Visited) \subseteq Done
  BY <1>1, EdgesArePairs DEF Pending, Done
<1>11. /\ Cardinality(Done) \in Nat
       /\ Cardinality(Done') = Cardinality(Done) + 1
  <2>1. IsFiniteSet(Done) /\ Cardinality(Done) \in Nat
    BY FiniteNodes DEF Done
  <2> QED
    BY <1>9, <2>1, FS_AddElement
<1>12. PICK rank : rank \in Ranks(Done)
  BY <1>1
<1> DEFINE size == Cardinality(Done)
           above == [n \in Done' |-> IF n = Visited THEN 1 ELSE rank[n] + 1]
<1>13. /\ rank \in [Done -> 1 .. size]
       /\ \A e \in Processing : e[1] \in Done => e[2] \in Done /\ rank[e[1]] < rank[e[2]]
  BY <1>12 DEF Ranks
<1>14. above \in [Done' -> 1 .. Cardinality(Done')]
  <2> SUFFICES ASSUME NEW n \in Done'
               PROVE  (IF n = Visited THEN 1 ELSE rank[n] + 1) \in 1 .. size + 1
    BY <1>11
  <2>1. CASE n = Visited
    BY <1>11, <2>1
  <2>2. CASE n # Visited
    <3>1. rank[n] \in 1 .. size
      BY <1>9, <1>13, <2>2
    <3> QED
      BY <1>11, <2>2, <3>1
  <2> QED
    BY <2>1, <2>2
<1>15. ASSUME NEW e \in Processing, e[1] \in Done'
       PROVE  e[2] \in Done' /\ above[e[1]] < above[e[2]]
  <2>1. e[2] \in Done
    <3>1. CASE e[1] = Visited
      BY <1>10, <3>1 DEF Downstream
    <3>2. CASE e[1] # Visited
      BY <1>9, <1>13, <1>15, <3>2
    <3> QED
      BY <3>1, <3>2
  <2>2. e[2] # Visited /\ e[2] \in Done' /\ above[e[2]] = rank[e[2]] + 1
    BY <1>9, <2>1
  <2>3. rank[e[2]] \in 1 .. size
    BY <1>13, <2>1
  <2>4. CASE e[1] = Visited
    BY <1>9, <1>11, <2>2, <2>3, <2>4
  <2>5. CASE e[1] # Visited
    <3>1. e[1] \in Done /\ above[e[1]] = rank[e[1]] + 1
      BY <1>9, <1>15, <2>5
    <3>2. rank[e[1]] < rank[e[2]] /\ rank[e[1]] \in 1 .. size
      BY <1>13, <3>1
    <3> QED
      BY <1>11, <2>2, <2>3, <3>1, <3>2
  <2> QED
    BY <2>4, <2>5
<1>16. above \in Ranks(Done)'
  BY <1>1, <1>14, <1>15 DEF Ranks, Processing
<1> QED
  BY <1>1, <1>6, <1>8, <1>16

(* The other steps leave the marks as they are.                            *)
LEMMA QuietSteps ==
  ASSUME GraphGiven, SearchInv, UNCHANGED <<nodes, edges>>,
         SearchBegins \/ AllSeen \/ UNCHANGED searchVars
  PROVE  SearchInv'
<1> USE DEF SearchInv, GraphGiven
<1>1. UNCHANGED <<nodes, edges, marks, stack, cycle>>
  BY DEF SearchBegins, AllSeen, searchVars
<1>2. StackIsPath' /\ Done' = Done /\ Ranks(Done)' = Ranks(Done)
  BY <1>1 DEF StackIsPath, Done, Ranks, Processing
<1>3. CASE SearchBegins
  <2>1. Done = {}
    BY <1>3 DEF SearchBegins, SearchType, SearchInit, NoMarks, Done
  <2>2. Cardinality({}) = 0
    BY FS_EmptySet
  <2>3. [n \in {} |-> 1] \in Ranks({})
    BY <2>2 DEF Ranks
  <2>4. SearchType'
    BY <1>1, <1>3 DEF SearchBegins, SearchType
  <2> QED
    BY <1>1, <1>2, <1>3, <2>1, <2>3, <2>4 DEF SearchBegins
<1>4. CASE AllSeen
  <2>1. \A n \in nodes : marks[n] \in {1, 2}
    BY <1>4 DEF AllSeen, Unseen, SearchType
  <2>2. \A n \in nodes : marks[n] # 1
    BY <1>4 DEF AllSeen, StackIsPath
  <2>3. Done = nodes
    BY <2>1, <2>2 DEF Done
  <2>4. SearchType'
    BY <1>1, <1>4 DEF AllSeen, SearchType
  <2> QED
    BY <1>1, <1>2, <1>4, <2>3, <2>4 DEF AllSeen
<1>5. CASE UNCHANGED searchVars
  <2>1. search' = search
    BY <1>5 DEF searchVars
  <2>2. SearchType'
    BY <1>1, <2>1 DEF SearchType, SearchInit
  <2> QED
    BY <1>1, <1>2, <2>1, <2>2
<1> QED
  BY <1>3, <1>4, <1>5

(* Without a search there is nothing to keep: so it begins, and so it is   *)
(* when validation returns or nodes and edges are added.                   *)
LEMMA NoSearch == SearchInit => SearchInv
<1> SUFFICES ASSUME SearchInit PROVE SearchInv
  OBVIOUS
<1>1. SearchType
  BY DEF SearchInit, SearchType, NoMarks
<1>2. StackIsPath
  BY DEF SearchInit, StackIsPath, NoMarks, IsInjective
<1> QED
  BY <1>1, <1>2 DEF SearchInv, SearchInit

LEMMA SearchOver ==
  ASSUME SearchEnds \/ (SearchInv /\ search = "idle" /\ UNCHANGED searchVars)
  PROVE  SearchInv'
<1>1. SearchInit'
  BY DEF SearchEnds, SearchInit, SearchInv, SearchType, searchVars, NoMarks
<1>2. SearchInit' => SearchInv'
  BY NoSearch, PTL
<1> QED
  BY <1>1, <1>2

(* The steps of a search keep SearchInv.                                   *)
LEMMA SearchStays ==
  ASSUME GraphGiven, SearchInv, UNCHANGED <<nodes, edges>>,
         SearchBegins \/ SearchStep \/ SearchEnds \/ UNCHANGED searchVars
  PROVE  SearchInv'
BY VisitNextStep, LookAtUnseenStep, LookAtStackedStep, VisitReturnsStep, QuietSteps, SearchOver
   DEF SearchStep

(* What the search has found when it is over.                              *)
LEMMA SearchExact ==
  ASSUME GraphGiven, SearchInv
  PROVE  CycleFound
<1>1. ASSUME search = "acyclic"
      PROVE  \E rank \in [nodes -> 1 .. Cardinality(nodes)] :
               \A e \in Processing : rank[e[1]] < rank[e[2]]
  <2>1. Ranks(nodes) # {}
    BY <1>1 DEF SearchInv
  <2>2. PICK rank : rank \in Ranks(nodes)
    BY <2>1
  <2> QED
    BY <2>2 DEF Ranks, GraphGiven, EdgesWithin
<1> QED
  BY <1>1 DEF SearchInv, CycleFound
=================================================================================
