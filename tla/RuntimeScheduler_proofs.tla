------------------------ MODULE RuntimeScheduler_proofs ------------------------
(***************************************************************************)
(* The scheduler leaves nothing in flight between two events and           *)
(* implements the active join, for every graph, every executor, every mix  *)
(* of exception handlers and every number of events, as long as conditions *)
(* fail by an error and not by a panic.                                    *)
(***************************************************************************)
EXTENDS RuntimeScheduler, CycleSearch_proofs

--------------------------------------------------------------------------------
(* Finite sets *)

(* The edges of a graph and the busy nodes are finitely many.              *)
LEMMA Finite ==
  ASSUME Types
  PROVE  IsFiniteSet(edges) /\ IsFiniteSet(Busy)
<1>1. IsFiniteSet(0 .. N + 1)
  BY NAssumption, FS_Interval
<1>2. Names \union {Start} \subseteq 0 .. N + 1 /\ Names \union {End} \subseteq 0 .. N + 1
  BY NAssumption DEF Names, Start, End
<1>3. IsFiniteSet(Names \union {Start}) /\ IsFiniteSet(Names \union {End})
  BY <1>1, <1>2, FS_Subset
<1>4. IsFiniteSet((Names \union {Start}) \X (Names \union {End}))
  BY <1>3, FS_Product
<1>5. edges \subseteq (Names \union {Start}) \X (Names \union {End})
  BY PossibleAssumption DEF Types, GraphType
<1>6. Busy \subseteq 0 .. N + 1
  BY <1>2 DEF Busy
<1> QED
  BY <1>1, <1>4, <1>5, <1>6, FS_Subset

(* What becomes of the number of busy nodes when one leaves or joins.      *)
LEMMA BusyCount ==
  ASSUME IsFiniteSet(Busy), NEW n
  PROVE  /\ Cardinality(Busy) \in Nat
         /\ Cardinality(Busy) = 0 <=> Busy = {}
         /\ n \in Busy => /\ Cardinality(Busy) > 0
                          /\ Cardinality(Busy \ {n}) = Cardinality(Busy) - 1
         /\ n \notin Busy => Cardinality(Busy \union {n}) = Cardinality(Busy) + 1
<1>1. Cardinality(Busy) \in Nat /\ (Cardinality(Busy) = 0 <=> Busy = {})
  BY FS_CardinalityType, FS_EmptySet
<1>2. n \in Busy => Cardinality(Busy \ {n}) = Cardinality(Busy) - 1
  BY FS_RemoveElement
<1>3. n \notin Busy => Cardinality(Busy \union {n}) = Cardinality(Busy) + 1
  BY FS_AddElement
<1> QED
  BY <1>1, <1>2, <1>3

(* Nodes are no terminals, and no terminal is the other.                   *)
LEMMA NoTerminal == Start \notin Names /\ End \notin Names /\ Start # End
BY NAssumption DEF Names, Start, End

--------------------------------------------------------------------------------
(* The join *)

(* resolveInbound of an edge that was open keeps the counters and flags    *)
(* true, and its node had been neither scheduled, skipped nor run before.  *)
LEMMA Resolve ==
  ASSUME Types, CountersTrue, FlagsTrue,
         NEW e \in edges, e[2] # End, e \notin Decided,
         NEW sel \in BOOLEAN, NEW rest,
         ResolveInbound(e[2], sel, rest),
         UNCHANGED <<graphVars, ran, refused>>,
         taken' = IF sel THEN taken \union {e} ELSE taken,
         passed' = IF sel THEN passed ELSE passed \union {e}
  PROVE  /\ e[2] \in nodes
         /\ e[2] \notin scheduled \union done \union ready \union Used
         /\ resolved' \in [Names -> Nat] /\ selected' \in [Names -> Nat]
         /\ scheduled \subseteq scheduled' /\ scheduled' \subseteq nodes
         /\ CountersTrue' /\ FlagsTrue'
         /\ ready' \subseteq ready \union {e[2]}
         /\ \/ done' = done /\ skips' = rest
            \/ /\ done' = done \union {e[2]}
               /\ skips' = rest \union {f \in Outgoing(e[2]) : f[2] # End}
<1> DEFINE n == e[2]
<1>1. n \in nodes /\ n \in Names
  BY DEF Types, GraphType
<1>2. e \in Inbound(n)
  BY DEF Inbound
<1>3. n \notin scheduled \union done \union ready \union Used
  BY <1>1, <1>2 DEF FlagsTrue
<1>4. Decided' = Decided \union {e}
  BY DEF Decided
<1>5. \A m : Inbound(m)' = Inbound(m) /\ Incoming(m)' = Incoming(m) /\ Outgoing(m)' = Outgoing(m)
  BY DEF Inbound, Incoming, Outgoing, graphVars
<1>6. \A m : m # n => /\ Inbound(m) \intersect Decided' = Inbound(m) \intersect Decided
                      /\ Inbound(m) \intersect taken' = Inbound(m) \intersect taken
  BY <1>4 DEF Inbound
<1>7. \A S : IsFiniteSet(Inbound(n) \intersect S)
  BY Finite, FS_Subset DEF Inbound
<1>8. IsFiniteSet(Inbound(n))
  BY Finite, FS_Subset DEF Inbound
<1>9. /\ resolved' = [resolved EXCEPT ![n] = @ + 1]
      /\ selected' = [selected EXCEPT ![n] = IF sel THEN selected[n] + 1 ELSE selected[n]]
  BY <1>3 DEF ResolveInbound
<1>10. resolved' \in [Names -> Nat] /\ selected' \in [Names -> Nat]
  BY <1>1, <1>9 DEF Types
<1>11. resolved'[n] = Cardinality(Inbound(n) \intersect Decided')
  <2>1. Inbound(n) \intersect Decided' = (Inbound(n) \intersect Decided) \union {e}
    BY <1>2, <1>4
  <2>2. Cardinality(Inbound(n) \intersect Decided') = Cardinality(Inbound(n) \intersect Decided) + 1
    BY <2>1, <1>7, FS_AddElement
  <2> QED
    BY <2>2, <1>1, <1>9 DEF CountersTrue, Types
<1>12. selected'[n] = Cardinality(Inbound(n) \intersect taken')
  <2>1. CASE sel
    <3>1. Inbound(n) \intersect taken' = (Inbound(n) \intersect taken) \union {e}
      BY <1>2, <2>1
    <3>2. e \notin taken
      BY DEF Decided
    <3>3. Cardinality(Inbound(n) \intersect taken') = Cardinality(Inbound(n) \intersect taken) + 1
      BY <3>1, <3>2, <1>7, FS_AddElement
    <3> QED
      BY <3>3, <2>1, <1>1, <1>9 DEF CountersTrue, Types
  <2>2. CASE ~ sel
    BY <2>2, <1>1, <1>9 DEF CountersTrue, Types
  <2> QED
    BY <2>1, <2>2
<1>13. CountersTrue'
  <2> SUFFICES ASSUME NEW m \in Names
               PROVE  /\ resolved'[m] = Cardinality(Inbound(m) \intersect Decided')
                      /\ selected'[m] = Cardinality(Inbound(m) \intersect taken')
    BY <1>5 DEF CountersTrue
  <2>1. CASE m = n
    BY <2>1, <1>11, <1>12
  <2>2. CASE m # n
    BY <2>2, <1>6, <1>9 DEF CountersTrue, Types
  <2> QED
    BY <2>1, <2>2
<1> DEFINE all == Inbound(n) \subseteq Decided'
           none == Inbound(n) \intersect taken' = {}
<1>14. AllResolved(n) <=> all
  <2>1. Cardinality(Inbound(n)) \in Nat /\ Cardinality(Inbound(n) \intersect Decided') \in Nat
    BY <1>7, <1>8, FS_CardinalityType
  <2>2. /\ Cardinality(Inbound(n) \intersect Decided') <= Cardinality(Inbound(n))
        /\ Cardinality(Inbound(n)) = Cardinality(Inbound(n) \intersect Decided')
             => Inbound(n) = Inbound(n) \intersect Decided'
    BY <1>8, FS_Subset
  <2>3. AllResolved(n) <=> Cardinality(Inbound(n) \intersect Decided') >= Cardinality(Inbound(n))
    BY <1>1, <1>9, <1>11 DEF AllResolved, Incoming, Types
  <2>4. all => Inbound(n) \intersect Decided' = Inbound(n)
    OBVIOUS
  <2> QED
    BY <2>1, <2>2, <2>3, <2>4
<1>15. selected'[n] = 0 <=> none
  BY <1>7, <1>12, FS_EmptySet
<1>16. (IF sel THEN selected[n] + 1 ELSE selected[n]) = selected'[n]
  BY <1>1, <1>9 DEF Types
<1>17. /\ scheduled' = IF all THEN scheduled \union {n} ELSE scheduled
       /\ done' = IF all /\ none THEN done \union {n} ELSE done
       /\ ready' = IF all /\ ~ none THEN ready \union {n} ELSE ready
       /\ skips' = IF all /\ none THEN rest \union {f \in Outgoing(n) : f[2] # End} ELSE rest
  BY <1>3, <1>14, <1>15, <1>16 DEF ResolveInbound
<1>18. FlagsTrue'
  <2>1. Used' = Used
    BY DEF Used
  <2> HIDE DEF all, none
  <2>2. \A m \in Names : Inbound(m) # {} => (m \in scheduled' <=> Inbound(m) \subseteq Decided')
    <3> SUFFICES ASSUME NEW m \in Names, Inbound(m) # {}
                 PROVE  m \in scheduled' <=> Inbound(m) \subseteq Decided'
      OBVIOUS
    <3>1. CASE m = n
      BY <3>1, <1>3, <1>17 DEF all
    <3>2. CASE m # n
      <4>1. m \in scheduled' <=> m \in scheduled
        BY <3>2, <1>17
      <4>2. Inbound(m) \subseteq Decided' <=> Inbound(m) \subseteq Decided
        BY <3>2, <1>6
      <4> QED
        BY <4>1, <4>2 DEF FlagsTrue
    <3> QED
      BY <3>1, <3>2
  <2>3. /\ done' \subseteq scheduled'
        /\ ready' \union Used \subseteq scheduled'
        /\ scheduled' \subseteq ready' \union Used \union done'
        /\ ready' \intersect (Used \union done') = {}
    BY <1>3, <1>17 DEF FlagsTrue
  <2>4. \A m \in ready' \union Used : Inbound(m) \intersect taken' # {}
    <3> SUFFICES ASSUME NEW m \in ready' \union Used
                 PROVE  Inbound(m) \intersect taken' # {}
      OBVIOUS
    <3>1. CASE m = n
      BY <3>1, <1>3, <1>17 DEF none
    <3>2. CASE m # n
      BY <3>2, <1>6, <1>17 DEF FlagsTrue
    <3> QED
      BY <3>1, <3>2
  <2>5. \A m \in done' \ Used : Inbound(m) \intersect taken' = {}
    <3> SUFFICES ASSUME NEW m \in done' \ Used
                 PROVE  Inbound(m) \intersect taken' = {}
      OBVIOUS
    <3>1. CASE m = n
      BY <3>1, <1>3, <1>17 DEF none
    <3>2. CASE m # n
      BY <3>2, <1>6, <1>17 DEF FlagsTrue, Skipped
    <3> QED
      BY <3>1, <3>2
  <2> QED
    BY <2>1, <2>2, <2>3, <2>4, <2>5, <1>5 DEF FlagsTrue, Skipped
<1>19. scheduled' \subseteq nodes
  BY <1>1, <1>17 DEF Types
<1> QED
  BY <1>1, <1>3, <1>10, <1>13, <1>17, <1>18, <1>19

--------------------------------------------------------------------------------
(* The invariant *)

(* It holds at first: nothing has been built.                              *)
LEMMA Initially == Init => IInv
<1> SUFFICES ASSUME Init PROVE IInv
  OBVIOUS
<1> USE DEF Init, GraphInit, Zero
<1>1. Busy = {} /\ Decided = {} /\ Used = {} /\ Complete = {} /\ Skipped = {}
  BY DEF Busy, Decided, Used, Complete, Skipped
<1>2. Types
  BY DEF Types, GraphType
<1>3. CountersTrue
  BY <1>1, FS_EmptySet DEF CountersTrue
<1> QED
  BY <1>1, <1>2, <1>3, FS_EmptySet DEF IInv, Handled, Counted, NothingInFlight, EdgesOnce, FlagsTrue, NothingForgotten, Inbound, Inline

(* Building changes the graph only while nothing has happened.             *)
LEMMA BuildKeeps == IInv /\ Build => IInv'
<1> SUFFICES ASSUME IInv, Build PROVE IInv'
  OBVIOUS
<1> USE DEF Build, Node, Edge, Open, poolVars, joinVars, workVars, historyVars
<1>1. ~ handled /\ UNCHANGED <<handled, poolVars, seq, stage, joinVars, workVars, historyVars>>
  <2>1. CASE BeginSearch \/ FindCycle \/ ValidateReturns
    BY <2>1 DEF IInv, Handled, BeginSearch, FindCycle, ValidateReturns, SearchEnds, SearchStep,
                VisitNext, AllSeen, LookAtUnseen, LookAtStacked, VisitReturns
  <2> QED
    BY <2>1
<1>2. nodes \subseteq nodes' /\ nodes' \subseteq Names /\ edges' \subseteq Possible
  BY DEF IInv, Types, GraphType, BeginSearch, FindCycle, ValidateReturns
<1>3. \A e \in edges' : e[1] \in nodes' \union {Start} /\ e[2] \in nodes' \union {End}
  <2>1. CASE \E n \in Names : Node(n)
    BY <2>1, <1>2 DEF IInv, Types
  <2>2. CASE \E f \in Possible : Edge(f)
    <3>1. PICK f \in Possible : Edge(f)
      BY <2>2
    <3>2. f \in (Names \union {Start}) \X (Names \union {End})
      BY PossibleAssumption
    <3>3. f[1] \in nodes \union {Start} /\ f[2] \in nodes \union {End}
      BY <3>1, <3>2 DEF ValidEdge
    <3>4. nodes' = nodes /\ edges' = edges \union {f}
      BY <3>1
    <3> QED
      BY <3>3, <3>4 DEF IInv, Types
  <2>3. CASE BeginSearch \/ FindCycle \/ ValidateReturns
    BY <2>3 DEF IInv, Types, BeginSearch, FindCycle, ValidateReturns
  <2> QED
    BY <2>1, <2>2, <2>3
<1>4. Types'
  BY <1>1, <1>2, <1>3 DEF IInv, Types, GraphType, Handled
<1>5. /\ Busy' = Busy /\ Decided' = {} /\ Used' = {} /\ Complete' = {} /\ Skipped' = {}
      /\ Inline' = Inline
  BY <1>1 DEF IInv, Handled, Busy, Decided, Used, Complete, Skipped, Inline
<1>6. CountersTrue'
  BY <1>1, <1>5, FS_EmptySet DEF IInv, Handled, CountersTrue, Zero
<1> QED
  BY <1>1, <1>4, <1>5, <1>6 DEF IInv, Handled, Counted, NothingInFlight, EdgesOnce, FlagsTrue, NothingForgotten, Zero

(* A valid graph has an inbound edge for every node.                       *)
LEMMA ValidInbound ==
  ASSUME Types, Valid
  PROVE  edges # {} /\ \A n \in nodes : Inbound(n) # {}
<1> USE DEF Valid, Entries, Sources, Processing, Inbound
<1>1. \A n \in nodes : Inbound(n) # {}
  <2> SUFFICES ASSUME NEW n \in nodes PROVE Inbound(n) # {}
    OBVIOUS
  <2>1. CASE n \in Entries
    <3>1. <<Start, n>> \in edges
      BY <2>1
    <3> QED
      BY <3>1
  <2>2. CASE n \notin Entries
    BY <2>2
  <2> QED
    BY <2>1, <2>2
<1> QED
  BY <1>1

LEMMA HandleKeeps == IInv /\ HandleRuntimeGraph => IInv'
<1> SUFFICES ASSUME IInv, HandleRuntimeGraph PROVE IInv'
  OBVIOUS
<1> USE DEF HandleRuntimeGraph, BuildPlan, SearchEnds, joinVars, workVars, historyVars
<1>1. executor' \in {"inline", "internal", "caller"}
  BY ExecutorAssumption
<1>2. /\ Busy' = Busy /\ Decided' = Decided /\ Used' = Used /\ Complete' = Complete
      /\ Skipped' = Skipped /\ \A n : Inbound(n)' = Inbound(n)
  BY DEF Busy, Decided, Used, Complete, Skipped, Inbound
<1>3. Busy = {} /\ inFlight = 0
  BY FS_EmptySet DEF IInv, Handled, Counted
<1>4. Handled'
  BY <1>1, <1>2, ValidInbound DEF IInv, Handled
<1>5. Types'
  BY <1>1 DEF IInv, Types, GraphType
<1>6. CountersTrue' /\ FlagsTrue' /\ EdgesOnce' /\ NothingForgotten'
  BY <1>2 DEF IInv, Handled, CountersTrue, FlagsTrue, EdgesOnce, NothingForgotten
<1>7. Counted' /\ NothingInFlight'
  BY <1>2, <1>3, FS_EmptySet DEF IInv, Handled, Counted, NothingInFlight, Inline
<1> QED
  BY <1>4, <1>5, <1>6, <1>7 DEF IInv

LEMMA OnEventKeeps == IInv /\ OnEvent => IInv'
<1> SUFFICES ASSUME IInv, OnEvent PROVE IInv'
  OBVIOUS
<1> USE DEF OnEvent, Reset, graphVars
<1>1. Busy = {} /\ inFlight = 0
  BY DEF IInv, NothingInFlight
<1>2. task' = task
  BY <1>1 DEF IInv, Types, Busy, Results
<1>3. /\ Busy' = {} /\ Decided' = {} /\ Used' = {} /\ Complete' = {} /\ Skipped' = {}
      /\ \A n : Inbound(n)' = Inbound(n)
  BY <1>1, <1>2 DEF Busy, Decided, Used, Complete, Skipped, Inbound
<1>4. Types'
  BY <1>2 DEF IInv, Types, GraphType, Zero, Outgoing
<1>5. CountersTrue'
  BY <1>3, FS_EmptySet DEF CountersTrue, Zero
<1>6. FlagsTrue' /\ EdgesOnce' /\ NothingForgotten'
  BY <1>3 DEF FlagsTrue, EdgesOnce, NothingForgotten, Outgoing
<1>7. Counted' /\ NothingInFlight' /\ Handled'
  BY <1>3, FS_EmptySet DEF IInv, Handled, Counted, NothingInFlight, Inline
<1> QED
  BY <1>4, <1>5, <1>6, <1>7 DEF IInv
(* The executor moves a task without taking it away or bringing one.       *)
LEMMA PoolKeeps ==
  IInv /\ (Shutdown \/ \E n \in Names : Pool(n)) => IInv'
<1> SUFFICES ASSUME IInv, Shutdown \/ \E n \in Names : Pool(n) PROVE IInv'
  OBVIOUS
<1> USE DEF graphVars, joinVars, workVars, historyVars
<1>1. /\ UNCHANGED <<graphVars, executor, seq, stage, joinVars, workVars, historyVars>>
      /\ task' \in [Names -> {"none", "queued", "running"} \union Results]
      /\ \A n \in Names : task'[n] = "none" <=> task[n] = "none"
  <2>1. CASE Shutdown
    BY <2>1 DEF Shutdown, IInv, Types
  <2>2. CASE \E n \in Names : Pool(n)
    <3>1. PICK n \in Names : Pool(n)
      BY <2>2
    <3>2. UNCHANGED <<graphVars, executor, seq, stage, joinVars, workVars, historyVars>>
      BY <3>1 DEF Pool, Take, HandlerReturns, CancelQueued
    <3>3. PICK s \in {"running"} \union Results : task' = [task EXCEPT ![n] = s]
      BY <3>1 DEF Pool, Take, HandlerReturns, CancelQueued, Set, Results
    <3>4. task[n] # "none"
      BY <3>1 DEF Pool, Take, HandlerReturns, CancelQueued
    <3>5. s # "none"
      BY DEF Results
    <3> QED
      BY <3>2, <3>3, <3>4, <3>5 DEF IInv, Types
  <2> QED
    BY <2>1, <2>2
<1>2. /\ Busy' = Busy /\ Decided' = Decided /\ Used' = Used /\ Complete' = Complete
      /\ Skipped' = Skipped /\ Inline' = Inline /\ \A n : Inbound(n)' = Inbound(n)
  BY <1>1 DEF Busy, Decided, Used, Complete, Skipped, Inbound, Inline
<1>3. Types' /\ Handled'
  BY <1>1, <1>2 DEF IInv, Types, GraphType, Handled, Zero
<1>4. CountersTrue' /\ FlagsTrue' /\ EdgesOnce' /\ NothingForgotten'
  BY <1>1, <1>2 DEF IInv, CountersTrue, FlagsTrue, EdgesOnce, NothingForgotten
<1>5. Counted' /\ NothingInFlight'
  BY <1>1, <1>2 DEF IInv, Counted, NothingInFlight
<1> QED
  BY <1>3, <1>4, <1>5 DEF IInv

(* Deciding an edge.                                                       *)
LEMMA EvaluateKeeps == \A b \in BOOLEAN : IInv /\ Evaluate(b) => IInv'
<1> SUFFICES ASSUME NEW sel \in BOOLEAN, IInv, Evaluate(sel) PROVE IInv'
  OBVIOUS
<1> USE DEF graphVars, poolVars, joinVars
<1>1. PICK e \in todo :
        /\ todo' = todo \ {e}
        /\ IF e[2] = End THEN UNCHANGED <<joinVars, skips>> ELSE ResolveInbound(e[2], sel, {})
        /\ taken' = IF sel THEN taken \union {e} ELSE taken
        /\ passed' = IF sel THEN passed ELSE passed \union {e}
  BY DEF Evaluate, NextEdges
<1>2. /\ UNCHANGED <<graphVars, poolVars, seq, stage, inFlight, attempts, ran, refused>>
      /\ stage = "route" /\ skips = {}
  BY DEF Evaluate
<1>3. e \in edges /\ e \notin Decided /\ (e[1] = Start \/ e[1] \in Complete)
  BY DEF IInv, Types, EdgesOnce
<1>4. Decided' = Decided \union {e} /\ Used' = Used /\ Busy' = Busy /\ Inline' = Inline
  BY <1>1, <1>2 DEF Decided, Used, Busy, Inline
<1>5. \A n : Inbound(n)' = Inbound(n) /\ Outgoing(n)' = Outgoing(n)
  BY <1>2 DEF Inbound, Outgoing
<1> DEFINE fresh == e[2] \in nodes /\ e[2] \notin scheduled \union done \union ready \union Used
           skip == fresh /\ done' = done \union {e[2]} /\ skips' = {f \in Outgoing(e[2]) : f[2] # End}
<1>6. /\ CountersTrue' /\ FlagsTrue'
      /\ resolved' \in [Names -> Nat] /\ selected' \in [Names -> Nat]
      /\ scheduled \subseteq scheduled' /\ scheduled' \subseteq nodes
      /\ ready' = ready \/ (fresh /\ ready' \subseteq ready \union {e[2]})
      /\ (done' = done /\ skips' = {}) \/ skip
  <2>1. CASE e[2] = End
    <3>1. \A n \in Names : /\ Inbound(n) \intersect Decided' = Inbound(n) \intersect Decided
                           /\ Inbound(n) \intersect taken' = Inbound(n) \intersect taken
      BY <2>1, <1>1, <1>4, NoTerminal DEF Inbound
    <3>2. UNCHANGED <<joinVars, skips>>
      BY <2>1, <1>1
    <3>3. CountersTrue'
      BY <3>1, <3>2, <1>5 DEF IInv, CountersTrue
    <3>4. scheduled \subseteq Names /\ done \subseteq scheduled /\ ready \union Used \subseteq scheduled
      BY DEF IInv, Types, GraphType, FlagsTrue
    <3>5. \A n \in Names : Inbound(n) \subseteq Decided' <=> Inbound(n) \subseteq Decided
      BY <3>1
    <3>6. FlagsTrue'
      BY <3>1, <3>2, <3>4, <3>5, <1>4, <1>5 DEF IInv, FlagsTrue, Skipped
    <3> QED
      BY <3>2, <3>3, <3>6, <1>2 DEF IInv, Types
  <2>2. CASE e[2] # End
    <3>1. ResolveInbound(e[2], sel, {}) /\ UNCHANGED <<graphVars, ran, refused>>
      BY <2>2, <1>1, <1>2
    <3>2. Types /\ CountersTrue /\ FlagsTrue
      BY DEF IInv
    <3>3. taken' = IF sel THEN taken \union {e} ELSE taken
      BY <1>1
    <3>4. passed' = IF sel THEN passed ELSE passed \union {e}
      BY <1>1
    <3>5. e \in edges /\ e \notin Decided
      BY <1>3
    <3>6. /\ fresh /\ CountersTrue' /\ FlagsTrue'
          /\ resolved' \in [Names -> Nat] /\ selected' \in [Names -> Nat]
          /\ scheduled \subseteq scheduled' /\ scheduled' \subseteq nodes
          /\ ready' \subseteq ready \union {e[2]}
          /\ \/ done' = done /\ skips' = {}
             \/ /\ done' = done \union {e[2]}
                /\ skips' = {} \union {f \in Outgoing(e[2]) : f[2] # End}
      BY <3>1, <3>2, <3>3, <3>4, <3>5, <2>2, Resolve
    <3> QED
      BY <3>6
  <2> QED
    BY <2>1, <2>2
<1>7. Complete' = Complete
  BY <1>2, <1>6 DEF Complete, Used
<1>8. Skipped \subseteq Skipped' /\ (skip => Skipped' = Skipped \union {e[2]}) /\ (~ skip => Skipped' = Skipped)
  BY <1>4, <1>6 DEF Skipped
<1>9. Types' /\ Handled'
  <2>1. skips' \subseteq {f \in edges : f[2] # End}
    BY <1>6 DEF Outgoing
  <2> QED
    BY <2>1, <1>1, <1>2, <1>3, <1>5, <1>6 DEF IInv, Types, GraphType, Handled
<1>10. EdgesOnce'
  <2>1. \A f \in Outgoing(e[2]) : skip => f \notin Decided'
    <3>1. \A f \in Decided : f[1] = Start \/ f[1] \in done
      BY DEF IInv, EdgesOnce
    <3>2. fresh => e[2] # Start /\ e[2] \notin done /\ e[2] \notin Complete
      BY NoTerminal DEF IInv, Types, GraphType, Complete
    <3> QED
      BY <3>1, <3>2, <1>3, <1>4 DEF Outgoing
  <2>2. taken' \intersect passed' = {}
    BY <1>1, <1>3 DEF IInv, EdgesOnce, Decided
  <2>3. (todo' \union skips') \intersect Decided' = {}
    BY <1>1, <1>4, <1>6, <2>1 DEF IInv, EdgesOnce
  <2>4. \A f \in skips' : f[1] \in Skipped'
    BY <1>6, <1>8 DEF Outgoing
  <2>5. \A f \in Decided' : f[1] = Start \/ f[1] \in done' \ refused'
    BY <1>2, <1>3, <1>4, <1>6 DEF IInv, EdgesOnce, Complete
  <2> QED
    BY <1>1, <1>7, <2>2, <2>3, <2>4, <2>5 DEF IInv, EdgesOnce
<1>11. Counted'
  <2>1. todo # {}
    OBVIOUS
  <2>2. Busy \subseteq scheduled' \ ready'
    BY <1>6 DEF IInv, Counted
  <2> QED
    BY <2>1, <2>2, <1>2, <1>4 DEF IInv, Counted
<1>12. NothingForgotten'
  <2>1. \A f \in edges : f[1] \in Complete \union {Start} => f \in Decided' \union todo'
    BY <1>1, <1>2, <1>4 DEF IInv, NothingForgotten
  <2>2. \A f \in edges : f[1] \in Skipped' /\ f[2] # End => f \in Decided' \union skips'
    BY <1>2, <1>4, <1>6, <1>8 DEF IInv, NothingForgotten, Outgoing
  <2>3. Busy = ran \ (done' \union refused)
    BY <1>2, <1>6 DEF IInv, NothingForgotten, Used
  <2>4. refused \subseteq done'
    BY <1>2, <1>6 DEF IInv, NothingForgotten
  <2> QED
    BY <2>1, <2>2, <2>3, <2>4, <1>2, <1>4, <1>7 DEF NothingForgotten
<1>13. NothingInFlight'
  BY <1>2 DEF NothingInFlight
<1> QED
  BY <1>6, <1>9, <1>10, <1>11, <1>12, <1>13 DEF IInv
(* Deciding an edge of a skipped node.                                     *)
LEMMA SkippedKeeps == IInv /\ ResolveSkipped => IInv'
<1> SUFFICES ASSUME IInv, ResolveSkipped PROVE IInv'
  OBVIOUS
<1> USE DEF graphVars, poolVars
<1>1. PICK e \in skips :
        /\ ResolveInbound(e[2], FALSE, skips \ {e})
        /\ passed' = passed \union {e}
  BY DEF ResolveSkipped
<1>2. /\ UNCHANGED <<graphVars, poolVars, seq, stage, todo, inFlight, attempts, taken, ran, refused>>
      /\ stage = "route"
  BY DEF ResolveSkipped
<1>3. e \in edges /\ e[2] # End /\ e \notin Decided /\ e[1] \in Skipped
  BY DEF IInv, Types, EdgesOnce
<1>4. Decided' = Decided \union {e} /\ Used' = Used /\ Busy' = Busy /\ Inline' = Inline
  BY <1>1, <1>2 DEF Decided, Used, Busy, Inline
<1>5. \A n : Inbound(n)' = Inbound(n) /\ Outgoing(n)' = Outgoing(n)
  BY <1>2 DEF Inbound, Outgoing
<1> DEFINE fresh == e[2] \in nodes /\ e[2] \notin scheduled \union done \union ready \union Used
           skip == /\ done' = done \union {e[2]}
                   /\ skips' = (skips \ {e}) \union {f \in Outgoing(e[2]) : f[2] # End}
<1>6. /\ fresh /\ CountersTrue' /\ FlagsTrue'
      /\ resolved' \in [Names -> Nat] /\ selected' \in [Names -> Nat]
      /\ scheduled \subseteq scheduled' /\ scheduled' \subseteq nodes
      /\ ready' \subseteq ready \union {e[2]}
      /\ (done' = done /\ skips' = skips \ {e}) \/ skip
  <2>1. Types /\ CountersTrue /\ FlagsTrue
    BY DEF IInv
  <2>2. taken' = IF FALSE THEN taken \union {e} ELSE taken
    BY <1>2
  <2>3. passed' = IF FALSE THEN passed ELSE passed \union {e}
    BY <1>1
  <2> QED
    BY <2>1, <2>2, <2>3, <1>1, <1>2, <1>3, Resolve
<1>7. Complete' = Complete
  BY <1>2, <1>6 DEF Complete, Used
<1>8. /\ Skipped \subseteq Skipped'
      /\ skip => Skipped' = Skipped \union {e[2]}
      /\ done' = done => Skipped' = Skipped
  BY <1>4, <1>6 DEF Skipped
<1>9. Types' /\ Handled'
  <2>1. skips' \subseteq {f \in edges : f[2] # End}
    BY <1>6 DEF Outgoing, IInv, Types
  <2> QED
    BY <2>1, <1>1, <1>2, <1>3, <1>5, <1>6 DEF IInv, Types, GraphType, Handled
<1>10. EdgesOnce'
  <2>1. \A f \in Outgoing(e[2]) : f \notin Decided'
    <3>1. \A f \in Decided : f[1] = Start \/ f[1] \in done
      BY DEF IInv, EdgesOnce
    <3>2. e[2] # Start /\ e[2] \notin Skipped
      BY <1>6, NoTerminal DEF IInv, Types, GraphType, Skipped
    <3> QED
      BY <3>1, <3>2, <1>3, <1>4, <1>6 DEF Outgoing
  <2>2. taken' \intersect passed' = {}
    BY <1>1, <1>2, <1>3 DEF IInv, EdgesOnce, Decided
  <2>3. e \notin todo
    BY <1>3, NoTerminal DEF IInv, EdgesOnce, Skipped, Complete, Used, FlagsTrue, Types, GraphType
  <2>4. (todo' \union skips') \intersect Decided' = {}
    BY <1>2, <1>4, <1>6, <2>1, <2>3 DEF IInv, EdgesOnce
  <2>5. \A f \in skips' : f[1] \in Skipped'
    BY <1>6, <1>8 DEF Outgoing, IInv, EdgesOnce
  <2>6. \A f \in Decided' : f[1] = Start \/ f[1] \in done' \ refused'
    BY <1>2, <1>3, <1>4, <1>6 DEF IInv, EdgesOnce, Skipped, Used
  <2> QED
    BY <1>2, <1>7, <2>2, <2>4, <2>5, <2>6 DEF IInv, EdgesOnce
<1>11. Counted'
  <2>1. Busy \subseteq scheduled' \ ready'
    BY <1>6 DEF IInv, Counted
  <2> QED
    BY <2>1, <1>2, <1>4 DEF IInv, Counted
<1>12. NothingForgotten'
  <2>1. \A f \in edges : f[1] \in Complete \union {Start} => f \in Decided' \union todo'
    BY <1>2, <1>4 DEF IInv, NothingForgotten
  <2>2. \A f \in edges : f[1] \in Skipped' /\ f[2] # End => f \in Decided' \union skips'
    BY <1>2, <1>4, <1>6, <1>8 DEF IInv, NothingForgotten, Outgoing
  <2>3. Busy = ran \ (done' \union refused)
    BY <1>2, <1>6 DEF IInv, NothingForgotten, Used
  <2>4. refused \subseteq done'
    BY <1>2, <1>6 DEF IInv, NothingForgotten
  <2> QED
    BY <2>1, <2>2, <2>3, <2>4, <1>2, <1>4, <1>7 DEF NothingForgotten
<1>13. NothingInFlight'
  BY <1>2 DEF NothingInFlight
<1> QED
  BY <1>6, <1>9, <1>10, <1>11, <1>12, <1>13 DEF IInv

(* What a step of a node changes outside the executor: Used may grow by    *)
(* the node and with it done, and the rest of the join stays.              *)
LEMMA NodeKeeps ==
  ASSUME IInv, stage = "route", todo = {}, skips = {}, NEW n \in Names,
         UNCHANGED <<graphVars, executor, resolved, selected, scheduled, taken, passed>>,
         ready' = ready \ {n}, n \in (ready \union Used) \ done,
         Used' = Used \union {n}, ran \subseteq ran', refused \subseteq refused',
         done' = done \/ (done' = done \union {n} /\ n \in Used'),
         Complete' \ {n} = Complete \ {n},
         IF n \in Complete' THEN todo' = Outgoing(n) ELSE todo' = {},
         refused' \ {n} = refused \ {n},
         skips' = {}, stage' \in {"route", "drain"},
         task' \in [Names -> {"none", "queued", "running"} \union Results],
         inFlight' \in Nat,
         Counted',
         stage' = "route" => /\ Busy' = ran' \ (done' \union refused')
                             /\ refused' \subseteq done'
  PROVE  IInv'
<1> USE DEF graphVars
<1>1. \A m : Inbound(m)' = Inbound(m) /\ Outgoing(m)' = Outgoing(m)
  BY DEF Inbound, Outgoing
<1>2. Decided' = Decided /\ n \notin Complete
  BY DEF Decided, Complete
<1>3. Skipped' = Skipped
  BY DEF Skipped
<1>4. Types' /\ Handled'
  BY <1>1 DEF IInv, Types, GraphType, Handled, Outgoing
<1>5. CountersTrue'
  BY <1>1, <1>2 DEF IInv, CountersTrue
<1>6. FlagsTrue'
  <2>1. ready' \union Used' = ready \union Used
    OBVIOUS
  <2> QED
    BY <1>1, <1>2, <1>3, <2>1 DEF IInv, FlagsTrue
<1>7. EdgesOnce'
  <2>1. \A f \in Decided : f[1] # n
    BY NoTerminal DEF IInv, EdgesOnce
  <2>2. \A f \in Decided' : f[1] = Start \/ f[1] \in done' \ refused'
    BY <1>2, <2>1 DEF IInv, EdgesOnce
  <2>3. todo' \intersect Decided = {} /\ \A f \in todo' : f[1] \in Complete'
    BY <2>1 DEF Outgoing
  <2> QED
    BY <1>2, <2>2, <2>3 DEF IInv, EdgesOnce
<1>8. NothingForgotten'
  BY <1>1, <1>2, <1>3 DEF IInv, NothingForgotten, Outgoing
<1>9. NothingInFlight'
  BY DEF NothingInFlight
<1> QED
  BY <1>4, <1>5, <1>6, <1>7, <1>8, <1>9 DEF IInv
(* The executor's side of giving a task to it, and of taking its result.   *)
LEMMA AcceptBusy ==
  ASSUME Types, NEW n \in Names, NEW flying, Accept(n, flying)
  PROVE  /\ Busy' = Busy \union {n}
         /\ task' \in [Names -> {"none", "queued", "running"} \union Results]
BY DEF Types, Accept, Set, Busy

LEMMA ClearBusy ==
  ASSUME Types, NEW n \in Names, Set(n, "none")
  PROVE  /\ Busy' = Busy \ {n}
         /\ task' \in [Names -> {"none", "queued", "running"} \union Results]
BY DEF Types, Set, Busy

LEMMA SubmitKeeps == IInv /\ SubmitNode => IInv'
<1> SUFFICES ASSUME IInv, SubmitNode PROVE IInv'
  OBVIOUS
<1> USE DEF graphVars
<1>1. PICK n \in ready :
        /\ ready' = ready \ {n}
        /\ n \notin done => Accept(n, inFlight) \/ Reject(n, inFlight)
  BY DEF SubmitNode
<1>2. /\ UNCHANGED <<graphVars, executor, closed, seq, resolved, selected, scheduled,
                     endReached, attempts, taken, passed>>
      /\ stage = "route" /\ skips = {} /\ todo = {} /\ (Inline => Busy = {})
  BY DEF SubmitNode, Free
<1>3. n \in Names /\ n \in scheduled /\ n \notin done /\ n \notin Used /\ n \notin Busy
  BY DEF IInv, FlagsTrue, Types, GraphType, Counted
<1>4. IsFiniteSet(Busy)
  BY Finite DEF IInv
<1>5. Inline' = Inline
  BY <1>2 DEF Inline
<1>6. CASE Accept(n, inFlight)
  <2>1. /\ Busy' = Busy \union {n}
        /\ task' \in [Names -> {"none", "queued", "running"} \union Results]
    BY <1>3, <1>6, AcceptBusy DEF IInv
  <2>2. /\ inFlight' = IF Inline THEN inFlight ELSE inFlight + 1
        /\ ran' = ran \union {n} /\ UNCHANGED <<stage, todo, skips, done, refused>>
    BY <1>6 DEF Accept
  <2>3. Cardinality(Busy \union {n}) = Cardinality(Busy) + 1 /\ inFlight \in Nat
    BY <1>3, <1>4, BusyCount DEF IInv, Types
  <2>4. Counted'
    BY <1>1, <1>2, <1>3, <1>5, <2>1, <2>2, <2>3 DEF IInv, Counted
  <2>5. Used' = Used \union {n} /\ Complete' = Complete
    BY <1>3, <2>2 DEF Used, Complete
  <2>6. n \notin Complete'
    BY <1>3, <2>5 DEF Complete
  <2>7. Busy' = ran' \ (done' \union refused') /\ refused' \subseteq done'
    BY <1>2, <1>3, <2>1, <2>2 DEF IInv, NothingForgotten, Used
  <2> QED
    BY <1>1, <1>2, <1>3, <2>1, <2>2, <2>3, <2>4, <2>5, <2>6, <2>7, NodeKeeps
<1>7. CASE Reject(n, inFlight)
  <2>1. /\ Busy' = Busy
        /\ task' \in [Names -> {"none", "queued", "running"} \union Results]
    BY <1>3, <1>7, ClearBusy DEF IInv, Reject
  <2>2. /\ inFlight' = inFlight /\ ran' = ran /\ refused' = refused \union {n}
        /\ todo' = {} /\ skips' = {}
        /\ \/ done' = done \union {n} /\ stage' = "route"
           \/ done' = done /\ stage' = "drain"
        /\ ~ Inline
    BY <1>2, <1>7 DEF Reject, Fail, Rejects, Inline
  <2>3. inFlight \in Nat
    BY DEF IInv, Types
  <2>4. Counted'
    BY <1>1, <1>2, <1>5, <2>1, <2>2 DEF IInv, Counted
  <2>5. Used' = Used \union {n} /\ Complete' = Complete
    BY <1>3, <2>2 DEF Used, Complete
  <2>6. n \notin Complete'
    BY <1>3, <2>5 DEF Complete
  <2>7. stage' = "route" => Busy' = ran' \ (done' \union refused') /\ refused' \subseteq done'
    BY <1>2, <1>3, <2>1, <2>2 DEF IInv, NothingForgotten, Used
  <2> QED
    BY <1>1, <1>2, <1>3, <2>1, <2>2, <2>3, <2>4, <2>5, <2>6, <2>7, NodeKeeps
<1> QED
  BY <1>1, <1>3, <1>6, <1>7

(* A node whose result is received is in flight and not through.           *)
LEMMA Received ==
  ASSUME IInv, NEW n \in Names, Receives(n)
  PROVE  /\ stage = "route" /\ skips = {} /\ todo = {}
         /\ n \in Busy /\ n \in ran /\ n \notin done /\ n \notin refused /\ n \notin ready
         /\ Inline => Busy = {n} /\ inFlight = 0
         /\ ~ Inline => /\ inFlight = Cardinality(Busy) /\ inFlight > 0
                        /\ Cardinality(Busy \ {n}) = inFlight - 1
         /\ inFlight \in Nat
<1>1. stage = "route" /\ skips = {} /\ todo = {} /\ task[n] \in Results
  BY DEF Receives
<1>2. n \in Busy
  BY <1>1 DEF Busy, Results
<1>3. n \in ran /\ n \notin done /\ n \notin refused /\ n \notin ready
  BY <1>1, <1>2 DEF IInv, NothingForgotten, Counted
<1>4. Inline => Busy = {n} /\ inFlight = 0
  BY <1>2 DEF IInv, Counted
<1>5. ~ Inline => inFlight = Cardinality(Busy)
  BY DEF IInv, Counted
<1>6. Cardinality(Busy) > 0 /\ Cardinality(Busy \ {n}) = Cardinality(Busy) - 1
  BY <1>2, Finite, BusyCount DEF IInv
<1>7. inFlight \in Nat
  BY DEF IInv, Types
<1> QED
  BY <1>1, <1>2, <1>3, <1>4, <1>5, <1>6, <1>7

LEMMA CompleteKeeps == \A n \in Names : IInv /\ CompleteNode(n) => IInv'
<1> SUFFICES ASSUME NEW n \in Names, IInv, CompleteNode(n) PROVE IInv'
  OBVIOUS
<1> USE DEF graphVars, historyVars
<1>1. Receives(n)
  BY DEF CompleteNode
<1>2. /\ stage = "route" /\ skips = {} /\ todo = {}
      /\ n \in Busy /\ n \in ran /\ n \notin done /\ n \notin refused /\ n \notin ready
      /\ Inline => Busy = {n} /\ inFlight = 0
      /\ ~ Inline => inFlight > 0 /\ Cardinality(Busy \ {n}) = inFlight - 1
      /\ inFlight \in Nat
  BY <1>1, Received
<1>3. /\ done' = done \union {n} /\ todo' = Outgoing(n) /\ Set(n, "none") /\ inFlight' = Landed
      /\ UNCHANGED <<graphVars, executor, closed, seq, stage, resolved, selected,
                      scheduled, ready, skips, endReached, historyVars>>
  BY <1>2 DEF CompleteNode
<1>4. /\ Busy' = Busy \ {n}
      /\ task' \in [Names -> {"none", "queued", "running"} \union Results]
  BY <1>3, ClearBusy DEF IInv
<1>5. Counted' /\ inFlight' \in Nat
  <2>1. CASE Inline
    BY <2>1, <1>2, <1>3, <1>4 DEF IInv, Counted, Inline, Landed
  <2>2. CASE ~ Inline
    <3>1. inFlight' = inFlight - 1 /\ inFlight' = Cardinality(Busy') /\ inFlight' \in Nat
      BY <2>2, <1>2, <1>3, <1>4 DEF Landed
    <3>2. ~ Inline' /\ Busy' \subseteq scheduled' \ ready'
      BY <2>2, <1>3, <1>4 DEF IInv, Counted, Inline
    <3> QED
      BY <3>1, <3>2 DEF Counted
  <2> QED
    BY <2>1, <2>2
<1>6. Used' = Used /\ Complete' = Complete \union {n} /\ n \in Used
  BY <1>2, <1>3 DEF Used, Complete
<1>7. Busy' = ran' \ (done' \union refused') /\ refused' \subseteq done'
  BY <1>2, <1>3, <1>4 DEF IInv, NothingForgotten
<1> QED
  BY <1>2, <1>3, <1>4, <1>5, <1>6, <1>7, NodeKeeps

LEMMA RetryKeeps == \A n \in Names : IInv /\ RetryNode(n) => IInv'
<1> SUFFICES ASSUME NEW n \in Names, IInv, RetryNode(n) PROVE IInv'
  OBVIOUS
<1> USE DEF graphVars
<1>1. /\ Receives(n) /\ (Accept(n, Landed) \/ Reject(n, Landed))
      /\ UNCHANGED <<graphVars, executor, closed, seq, resolved, selected, scheduled,
                      ready, endReached, taken, passed>>
  BY DEF RetryNode
<1>2. /\ stage = "route" /\ skips = {} /\ todo = {}
      /\ n \in Busy /\ n \in ran /\ n \notin done /\ n \notin refused /\ n \notin ready
      /\ Inline => Busy = {n} /\ inFlight = 0
      /\ ~ Inline => /\ inFlight = Cardinality(Busy) /\ inFlight > 0
                     /\ Cardinality(Busy \ {n}) = inFlight - 1
      /\ inFlight \in Nat
  BY <1>1, Received
<1>3. Inline' = Inline /\ n \in Used /\ n \notin Complete
  BY <1>1, <1>2 DEF Inline, Used, Complete
<1>4. CASE Accept(n, Landed)
  <2>1. /\ Busy' = Busy
        /\ task' \in [Names -> {"none", "queued", "running"} \union Results]
    BY <1>2, <1>4, AcceptBusy DEF IInv
  <2>2. /\ inFlight' = IF Inline THEN Landed ELSE Landed + 1
        /\ ran' = ran /\ UNCHANGED <<stage, todo, skips, done, refused>>
    BY <1>2, <1>4 DEF Accept
  <2>3. inFlight' = inFlight
    BY <1>2, <2>2 DEF Landed
  <2>4. Counted'
    BY <1>1, <1>3, <2>1, <2>2, <2>3 DEF IInv, Counted
  <2>5. Used' = Used /\ Complete' = Complete
    BY <2>2 DEF Used, Complete
  <2>6. Busy' = ran' \ (done' \union refused') /\ refused' \subseteq done'
    BY <1>2, <2>1, <2>2 DEF IInv, NothingForgotten
  <2> QED
    BY <1>1, <1>2, <1>3, <2>1, <2>2, <2>3, <2>4, <2>5, <2>6, NodeKeeps
<1>5. CASE Reject(n, Landed)
  <2>1. /\ Busy' = Busy \ {n}
        /\ task' \in [Names -> {"none", "queued", "running"} \union Results]
    BY <1>5, ClearBusy DEF IInv, Reject
  <2>2. /\ inFlight' = Landed /\ ran' = ran /\ refused' = refused \union {n}
        /\ todo' = {} /\ skips' = {}
        /\ \/ done' = done \union {n} /\ stage' = "route"
           \/ done' = done /\ stage' = "drain"
        /\ ~ Inline
    BY <1>2, <1>5 DEF Reject, Fail, Rejects, Inline
  <2>3. inFlight' = Cardinality(Busy') /\ inFlight' \in Nat
    BY <1>2, <2>1, <2>2 DEF Landed
  <2>4. Counted'
    BY <1>1, <1>3, <2>1, <2>2, <2>3 DEF IInv, Counted
  <2>5. Used' = Used /\ Complete' = Complete /\ n \notin Complete'
    BY <1>2, <1>3, <2>2 DEF Used, Complete
  <2>6. stage' = "route" => Busy' = ran' \ (done' \union refused') /\ refused' \subseteq done'
    BY <1>2, <2>1, <2>2 DEF IInv, NothingForgotten
  <2> QED
    BY <1>1, <1>2, <1>3, <2>1, <2>2, <2>3, <2>4, <2>5, <2>6, NodeKeeps
<1> QED
  BY <1>1, <1>4, <1>5

LEMMA FailKeeps == \A n \in Names : IInv /\ FailNode(n) => IInv'
<1> SUFFICES ASSUME NEW n \in Names, IInv, FailNode(n) PROVE IInv'
  OBVIOUS
<1> USE DEF graphVars, joinVars, historyVars
<1>1. /\ Receives(n) /\ Set(n, "none") /\ inFlight' = Landed
      /\ stage' = "drain" /\ todo' = {} /\ skips' = {}
      /\ UNCHANGED <<graphVars, executor, closed, seq, joinVars, endReached, historyVars>>
  BY DEF FailNode, Fail
<1>2. /\ stage = "route" /\ skips = {} /\ todo = {}
      /\ n \in Busy /\ n \in ran /\ n \notin done /\ n \notin refused /\ n \notin ready
      /\ Inline => Busy = {n} /\ inFlight = 0
      /\ ~ Inline => inFlight > 0 /\ Cardinality(Busy \ {n}) = inFlight - 1
      /\ inFlight \in Nat
  BY <1>1, Received
<1>3. /\ Busy' = Busy \ {n}
      /\ task' \in [Names -> {"none", "queued", "running"} \union Results]
  BY <1>1, ClearBusy DEF IInv
<1>4. Counted' /\ inFlight' \in Nat
  <2>1. CASE Inline
    BY <2>1, <1>1, <1>2, <1>3 DEF IInv, Counted, Inline, Landed
  <2>2. CASE ~ Inline
    <3>1. inFlight' = inFlight - 1 /\ inFlight' = Cardinality(Busy') /\ inFlight' \in Nat
      BY <2>2, <1>1, <1>2, <1>3 DEF Landed
    <3>2. ~ Inline' /\ Busy' \subseteq scheduled' \ ready'
      BY <2>2, <1>1, <1>3 DEF IInv, Counted, Inline
    <3> QED
      BY <3>1, <3>2 DEF Counted
  <2> QED
    BY <2>1, <2>2
<1>5. Used' = Used /\ Complete' = Complete /\ n \in Used /\ n \notin Complete
  BY <1>1, <1>2 DEF Used, Complete
<1> QED
  BY <1>1, <1>2, <1>3, <1>4, <1>5, NodeKeeps
(* Failures and the end of an event.  Here a condition that panics would   *)
(* break the invariant.                                                    *)
LEMMA EndKeeps ==
  ASSUME Panics \subseteq {FALSE}
  PROVE  IInv /\ (ConditionFails \/ Halt \/ Return \/ NoRouteFails \/ StopIdle) => IInv'
<1> SUFFICES ASSUME IInv, ConditionFails \/ Halt \/ Return \/ NoRouteFails \/ StopIdle
             PROVE  IInv'
  OBVIOUS
<1> USE DEF graphVars, poolVars, joinVars, workVars, historyVars
<1>1. /\ handled /\ stage' \in {"idle", "drain", "halted"}
      /\ UNCHANGED <<graphVars, poolVars, joinVars, inFlight, historyVars>>
      /\ (todo' = todo /\ skips' = skips) \/ (todo' = {} /\ skips' = {})
      /\ stage' = "drain" => todo # {}
      /\ stage' \in {"idle", "halted"} => inFlight = 0 /\ Busy = {}
  <2>1. CASE ConditionFails
    BY <2>1 DEF ConditionFails, Fail, IInv, Handled
  <2>2. CASE Halt
    <3>1. inFlight = 0 /\ stage = "drain"
      BY <2>2 DEF Halt, Drained
    <3>2. Busy = {}
      BY <3>1, Finite, FS_EmptySet DEF IInv, Counted
    <3> QED
      BY <2>2, <3>1, <3>2 DEF Halt, IInv, Handled
  <2>3. CASE Return \/ NoRouteFails
    <3>1. inFlight = 0 /\ stage = "route" /\ (Inline => Busy = {})
      BY <2>3 DEF Return, NoRouteFails, Finished, Free
    <3>2. Busy = {}
      BY <3>1, Finite, FS_EmptySet DEF IInv, Counted
    <3> QED
      BY <2>3, <3>1, <3>2 DEF Return, NoRouteFails, IInv, Handled
  <2>4. CASE StopIdle
    BY <2>4 DEF StopIdle, IInv, NothingInFlight
  <2> QED
    BY <2>1, <2>2, <2>3, <2>4
<1>2. /\ Busy' = Busy /\ Decided' = Decided /\ Used' = Used /\ Complete' = Complete
      /\ Skipped' = Skipped /\ Inline' = Inline /\ \A n : Inbound(n)' = Inbound(n)
  BY <1>1 DEF Busy, Decided, Used, Complete, Skipped, Inbound, Inline
<1>3. Types' /\ Handled' /\ CountersTrue' /\ FlagsTrue' /\ EdgesOnce' /\ NothingForgotten'
  BY <1>1, <1>2 DEF IInv, Types, GraphType, Handled, CountersTrue, FlagsTrue, EdgesOnce, NothingForgotten
<1>4. Counted' /\ NothingInFlight'
  BY <1>1, <1>2 DEF IInv, Counted, NothingInFlight
<1> QED
  BY <1>3, <1>4 DEF IInv

LEMMA DrainKeeps == \A n \in Names : IInv /\ DrainInFlight(n) => IInv'
<1> SUFFICES ASSUME NEW n \in Names, IInv, DrainInFlight(n) PROVE IInv'
  OBVIOUS
<1> USE DEF graphVars, joinVars, historyVars
<1>1. /\ stage = "drain" /\ inFlight > 0 /\ Set(n, "none") /\ inFlight' = inFlight - 1
      /\ n \in Busy
      /\ UNCHANGED <<graphVars, executor, closed, seq, stage, joinVars, todo, skips, historyVars>>
  BY DEF DrainInFlight, Busy, Results
<1>2. /\ Busy' = Busy \ {n}
      /\ task' \in [Names -> {"none", "queued", "running"} \union Results]
  BY <1>1, ClearBusy DEF IInv
<1>3. /\ Decided' = Decided /\ Used' = Used /\ Complete' = Complete
      /\ Skipped' = Skipped /\ Inline' = Inline /\ \A m : Inbound(m)' = Inbound(m)
  BY <1>1 DEF Decided, Used, Complete, Skipped, Inbound, Inline
<1>4. ~ Inline /\ inFlight' \in Nat /\ inFlight' = Cardinality(Busy')
  BY <1>1, <1>2, Finite, BusyCount DEF IInv, Counted, Types
<1>5. Types' /\ Handled' /\ CountersTrue' /\ FlagsTrue' /\ EdgesOnce' /\ NothingForgotten'
  BY <1>1, <1>2, <1>3, <1>4 DEF IInv, Types, GraphType, Handled, CountersTrue, FlagsTrue, EdgesOnce, NothingForgotten
<1>6. Counted' /\ NothingInFlight'
  BY <1>1, <1>2, <1>3, <1>4 DEF IInv, Counted, NothingInFlight
<1> QED
  BY <1>5, <1>6 DEF IInv

LEMMA Inductive ==
  ASSUME Panics \subseteq {FALSE}
  PROVE  IInv /\ [Next]_vars => IInv'
<1> SUFFICES ASSUME IInv, [Next]_vars PROVE IInv'
  OBVIOUS
<1>1. CASE UNCHANGED vars
  <2>1. /\ UNCHANGED <<graphVars, executor, stage, inFlight, joinVars, task, todo, skips, historyVars>>
    BY <1>1 DEF vars, poolVars, workVars
  <2>2. /\ Busy' = Busy /\ Decided' = Decided /\ Used' = Used /\ Complete' = Complete
        /\ Skipped' = Skipped /\ Inline' = Inline /\ \A m : Inbound(m)' = Inbound(m)
    BY <2>1 DEF Busy, Decided, Used, Complete, Skipped, Inbound, Inline, graphVars, joinVars, historyVars
  <2> QED
    BY <2>1, <2>2 DEF IInv, Types, GraphType, Handled, CountersTrue, FlagsTrue, EdgesOnce, NothingForgotten, Counted, NothingInFlight, graphVars, joinVars, historyVars
<1>2. CASE Scheduler
  BY <1>2, SkippedKeeps, SubmitKeeps, EvaluateKeeps, CompleteKeeps, RetryKeeps, FailKeeps, DrainKeeps, EndKeeps DEF Scheduler
<1> QED
  BY <1>1, <1>2, BuildKeeps, HandleKeeps, OnEventKeeps, EndKeeps, PoolKeeps DEF Next

(* While no condition panics, no task and no result outlives its event:    *)
(* when OnEvent returns, whatever failed, was rejected or was cancelled,   *)
(* everything it submitted has been received (runtime_graph_processors.go, *)
(* 430-446 and 667-672), so that the next event starts with a clean        *)
(* channel and no handler holds a sequence that the processor releases.    *)
THEOREM NothingLeftInFlight ==
  ASSUME Panics \subseteq {FALSE}
  PROVE  Spec => []NothingInFlight
<1>1. IInv => NothingInFlight
  BY DEF IInv
<1> QED
  BY <1>1, Initially, Inductive, PTL DEF Spec
--------------------------------------------------------------------------------
(* The active join *)

(* At first there is no graph and no event.                                *)
LEMMA InitMaps == Init => Join!Init
BY DEF Init, GraphInit, Join!Init

(* A scheduled node that is not skipped is active, a skipped one skipped.  *)
LEMMA JoinFlags ==
  ASSUME IInv, handled
  PROVE  /\ \A n \in ready \union Used : Join!Active(n)
         /\ \A n \in Skipped : n \in Names /\ Join!Skipped(n)
         /\ stage # "halted" => Join!Used = Used
<1> USE DEF IInv, Handled, FlagsTrue, Types, GraphType, Join!Active, Join!Decided, Join!Skipped, Join!Inbound, Inbound, Decided
<1>1. \A n \in scheduled : Inbound(n) # {} /\ Inbound(n) \subseteq Decided
  OBVIOUS
<1>2. ASSUME NEW n \in ready \union Used PROVE Join!Active(n)
  BY <1>1 DEF EdgesOnce
<1>3. ASSUME NEW n \in Skipped PROVE n \in Names /\ Join!Skipped(n)
  BY <1>1 DEF Skipped
<1>4. stage # "halted" => Join!Used = Used
  BY DEF Join!Used, Used
<1> QED
  BY <1>2, <1>3, <1>4

(* A step of the scheduler decides an edge.                                *)
Decides(e, sel) ==
  /\ e \notin Decided
  /\ e[1] = Start \/ e[1] \in Complete \/ (e[1] \in Skipped /\ ~ sel)
  /\ taken' = IF sel THEN taken \union {e} ELSE taken
  /\ passed' = IF sel THEN passed ELSE passed \union {e}
  /\ IF e[2] = End THEN UNCHANGED joinVars
     ELSE \E rest : ResolveInbound(e[2], sel, rest)

(* Deciding an edge is deciding it in the join; a node skipped by it had   *)
(* neither run nor been refused.                                           *)
LEMMA DecideMaps ==
  IInv /\ (ResolveSkipped \/ \E b \in BOOLEAN : Evaluate(b)) => Join!Next
<1> SUFFICES ASSUME IInv, ResolveSkipped \/ \E b \in BOOLEAN : Evaluate(b)
             PROVE  Join!Next
  OBVIOUS
<1> USE DEF graphVars, joinVars
<1>1. PICK e \in edges, sel \in BOOLEAN : Decides(e, sel)
  <2>1. CASE ResolveSkipped
    <3>1. PICK e \in skips :
            /\ ResolveInbound(e[2], FALSE, skips \ {e})
            /\ passed' = passed \union {e} /\ taken' = taken
      BY <2>1 DEF ResolveSkipped
    <3>2. e \in edges /\ e[2] # End /\ e \notin Decided /\ e[1] \in Skipped
      BY DEF IInv, Types, EdgesOnce
    <3> QED
      BY <3>1, <3>2 DEF Decides
  <2>2. CASE \E b \in BOOLEAN : Evaluate(b)
    <3>0. PICK b \in BOOLEAN : Evaluate(b)
      BY <2>2
    <3>1. PICK e \in todo :
            /\ IF e[2] = End THEN UNCHANGED joinVars ELSE ResolveInbound(e[2], b, {})
            /\ taken' = IF b THEN taken \union {e} ELSE taken
            /\ passed' = IF b THEN passed ELSE passed \union {e}
      BY <3>0 DEF Evaluate, NextEdges
    <3>2. e \in edges /\ e \notin Decided /\ (e[1] = Start \/ e[1] \in Complete)
      BY DEF IInv, Types, EdgesOnce
    <3> QED
      BY <3>1, <3>2 DEF Decides
  <2> QED
    BY <2>1, <2>2
<1>2. /\ UNCHANGED <<graphVars, stage, ran, refused>> /\ stage = "route" /\ handled
  BY DEF ResolveSkipped, Evaluate, IInv, Handled
<1>3. done' = done \/ (done' = done \union {e[2]} /\ e[2] \notin Used)
  <2>1. CASE e[2] = End
    BY <2>1, <1>1 DEF Decides
  <2>2. CASE e[2] # End
    <3>1. PICK rest : ResolveInbound(e[2], sel, rest)
      BY <2>2, <1>1 DEF Decides
    <3>2. Types /\ CountersTrue /\ FlagsTrue /\ UNCHANGED <<graphVars, ran, refused>>
      BY <1>2 DEF IInv
    <3>3. /\ e[2] \notin scheduled \union done \union ready \union Used
          /\ \/ done' = done /\ skips' = rest
             \/ /\ done' = done \union {e[2]}
                /\ skips' = rest \union {f \in Outgoing(e[2]) : f[2] # End}
      BY <1>1, <2>2, <3>1, <3>2, Resolve DEF Decides
    <3> QED
      BY <3>3
  <2> QED
    BY <2>1, <2>2
<1>4. /\ (ran \ (done \union refused))' = ran \ (done \union refused)
      /\ ((ran \intersect done) \ refused)' = (ran \intersect done) \ refused
  BY <1>2, <1>3 DEF Used
<1>5. sel => ~ (e[1] \in Names /\ Join!Skipped(e[1]))
  <2>1. CASE e[1] = Start
    BY <2>1, NoTerminal
  <2>2. CASE e[1] \in Complete
    BY <2>2, <1>2, JoinFlags DEF Complete, Used, Join!Active
  <2> QED
    BY <2>1, <2>2, <1>1 DEF Decides
<1>6. e[1] = Start \/ e[1] \in (ran \intersect done) \ refused \/ (e[1] \in Names /\ Join!Skipped(e[1]))
  BY <1>1, <1>2, JoinFlags DEF Decides, Complete
<1>7. Join!Decide(e)
  BY <1>1, <1>2, <1>4, <1>5, <1>6 DEF Decides, Join!Decide, Decided
<1> QED
  BY <1>2, <1>7 DEF Join!Next
(* A node given to the executor runs, or is refused, for the first time or *)
(* when it is retried.                                                     *)
LEMMA GiveMaps ==
  IInv /\ (SubmitNode \/ \E n \in Names : RetryNode(n)) => [Join!Next]_(Join!vars)
<1> SUFFICES ASSUME IInv, SubmitNode \/ \E n \in Names : RetryNode(n)
             PROVE  Join!Next \/ UNCHANGED Join!vars
  BY DEF Join!vars
<1> USE DEF graphVars
<1>1. CASE SubmitNode
  <2>1. PICK n \in ready : n \notin done => Accept(n, inFlight) \/ Reject(n, inFlight)
    BY <1>1 DEF SubmitNode
  <2>2. /\ UNCHANGED <<graphVars, taken, passed>> /\ stage = "route" /\ handled
    BY <1>1 DEF SubmitNode, Free, IInv, Handled
  <2>3. n \in Names /\ n \notin done /\ n \notin Used
    BY DEF IInv, FlagsTrue, Types, GraphType
  <2>4. Join!Active(n) /\ n \notin Join!Used
    BY <2>2, <2>3, JoinFlags
  <2>5. CASE Accept(n, inFlight)
    <3>1. Join!Run(n)
      BY <2>2, <2>3, <2>4, <2>5 DEF Accept, Join!Run, Used
    <3> QED
      BY <2>3, <3>1 DEF Join!Next
  <2>6. CASE Reject(n, inFlight)
    <3>1. /\ refused' = refused \union {n} /\ ran' = ran /\ stage' \in {"route", "drain"}
          /\ done' = done \/ done' = done \union {n}
      BY <2>2, <2>6 DEF Reject, Fail
    <3>2. Join!Refuse(n)
      BY <2>2, <2>3, <2>4, <3>1 DEF Join!Refuse, Used
    <3> QED
      BY <2>3, <3>2 DEF Join!Next
  <2> QED
    BY <2>1, <2>3, <2>5, <2>6
<1>2. CASE \E n \in Names : RetryNode(n)
  <2>1. PICK n \in Names : RetryNode(n)
    BY <1>2
  <2>2. /\ Receives(n) /\ (Accept(n, Landed) \/ Reject(n, Landed))
        /\ UNCHANGED <<graphVars, taken, passed>>
    BY <2>1 DEF RetryNode
  <2>3. stage = "route" /\ n \in ran /\ n \notin done /\ n \notin refused
    BY <2>2, Received
  <2>4. CASE Accept(n, Landed)
    BY <2>2, <2>3, <2>4 DEF Accept, Join!vars
  <2>5. CASE Reject(n, Landed)
    <3>1. /\ refused' = refused \union {n} /\ ran' = ran /\ stage' \in {"route", "drain"}
          /\ done' = done \/ done' = done \union {n}
      BY <2>3, <2>5 DEF Reject, Fail
    <3>2. Join!Refuse(n)
      BY <2>2, <2>3, <3>1 DEF Join!Refuse
    <3> QED
      BY <3>2 DEF Join!Next
  <2> QED
    BY <2>2, <2>4, <2>5
<1> QED
  BY <1>1, <1>2

(* A node that completes had been running.                                 *)
LEMMA CompleteMaps == \A n \in Names : IInv /\ CompleteNode(n) => Join!Next
<1> SUFFICES ASSUME NEW n \in Names, IInv, CompleteNode(n) PROVE Join!Complete(n)
  BY DEF Join!Next
<1>1. Receives(n)
  BY DEF CompleteNode
<1>2. stage = "route" /\ n \in ran /\ n \notin done /\ n \notin refused
  BY <1>1, Received
<1>3. done' = done \union {n} /\ UNCHANGED <<graphVars, stage, historyVars>>
  BY <1>2 DEF CompleteNode
<1> QED
  BY <1>2, <1>3 DEF Join!Complete, graphVars, historyVars

(* The event ends when no edge can be decided and no node can run: what is *)
(* open lies behind a node that was refused.                               *)
LEMMA ReturnMaps == IInv /\ Return => Join!Next
<1> SUFFICES ASSUME IInv, Return PROVE Join!Finish
  BY DEF Join!Next
<1>1. /\ stage = "route" /\ skips = {} /\ todo = {} /\ ready = {} /\ inFlight = 0
      /\ Inline => Busy = {}
      /\ stage' = "idle" /\ UNCHANGED <<graphVars, poolVars, joinVars, workVars, historyVars>>
  BY DEF Return, Finished, Free
<1>2. handled
  BY <1>1 DEF IInv, Handled
<1>3. Busy = {} /\ ran \ (done \union refused) = {}
  <2>1. Busy = {}
    BY <1>1, Finite, FS_EmptySet DEF IInv, Counted
  <2> QED
    BY <1>1, <2>1 DEF IInv, NothingForgotten
<1>4. \A e \in edges : e[1] \in Complete \union {Start} => e \in Decided
  BY <1>1 DEF IInv, NothingForgotten
<1>5. \A e \in edges : e[1] \in Skipped /\ e[2] # End => e \in Decided
  BY <1>1 DEF IInv, NothingForgotten
<1>6. Join!Used = Used
  BY <1>1, <1>2, JoinFlags
<1>7. ASSUME NEW n \in nodes, n \notin Used, Inbound(n) \subseteq Decided
      PROVE  n \in Skipped /\ Join!Skipped(n)
  <2>1. n \in Names /\ Inbound(n) # {}
    BY <1>2, <1>7 DEF IInv, Handled, Types, GraphType
  <2>2. n \in scheduled
    BY <1>7, <2>1 DEF IInv, FlagsTrue
  <2>3. n \in Skipped
    BY <1>1, <1>7, <2>2 DEF IInv, FlagsTrue, Skipped
  <2> QED
    BY <1>2, <2>3, JoinFlags
<1>8. ASSUME NEW n \in {e[2] : e \in edges} \intersect Names, Join!Waits(n)
      PROVE  /\ ~ Join!Decided(n)
             /\ \A e \in Join!Inbound(n) \ (taken \union passed) : e[1] \in refused \/ Join!Waits(e[1])
  <2>1. n \in nodes /\ n \in Names /\ n \notin Used /\ ~ Join!Skipped(n) /\ n # End
    BY <1>6, <1>8, NoTerminal DEF Join!Waits, IInv, Types
  <2>2. ~ Join!Decided(n)
    BY <1>2, <1>7, <2>1 DEF Join!Decided, Join!Inbound, Inbound, Decided
  <2>3. ASSUME NEW e \in Join!Inbound(n) \ (taken \union passed), e[1] \notin refused
        PROVE  Join!Waits(e[1])
    <3>1. e \in edges /\ e[2] = n /\ e \notin Decided
      BY <1>2, <2>3 DEF Join!Inbound, Decided
    <3>2. e[1] \in nodes /\ e[1] \notin Complete
      BY <1>4, <3>1 DEF IInv, Types
    <3>3. e[1] \notin Used
      BY <1>3, <2>3, <3>2 DEF Used, Complete
    <3>4. e[1] \notin Skipped
      BY <1>5, <2>1, <3>1
    <3>5. ~ (Inbound(e[1]) \subseteq Decided)
      BY <1>7, <3>2, <3>3, <3>4
    <3>6. ~ Join!Skipped(e[1])
      BY <1>2, <3>5 DEF Join!Skipped, Join!Inbound, Inbound, Decided
    <3> QED
      BY <1>6, <3>3, <3>6 DEF Join!Waits
  <2> QED
    BY <2>2, <2>3
<1>9. \A n \in (ran \intersect done) \ refused : \A e \in edges : e[1] = n => e \in taken \union passed
  BY <1>4 DEF Complete, Decided
<1>10. /\ (ran \ (done \union refused))' = ran \ (done \union refused)
       /\ UNCHANGED <<edges, handled, taken, passed, ran, done, refused>>
  BY <1>1 DEF graphVars, joinVars, historyVars
<1> QED
  BY <1>1, <1>2, <1>3, <1>8, <1>9, <1>10 DEF Join!Finish

(* The other steps begin an event, build the graph, end everything, or     *)
(* change nothing that the join sees.                                      *)
LEMMA OtherMaps ==
  IInv /\ ( \/ Build \/ HandleRuntimeGraph \/ OnEvent \/ StopIdle \/ ConditionFails \/ Halt
            \/ NoRouteFails \/ Shutdown
            \/ \E n \in Names : FailNode(n) \/ DrainInFlight(n) \/ Pool(n)
            \/ UNCHANGED vars )
    => [Join!Next]_(Join!vars)
<1> USE DEF graphVars, poolVars, joinVars, workVars, historyVars
<1>1. IInv /\ Build => UNCHANGED Join!vars
  <2> SUFFICES ASSUME IInv, Build PROVE UNCHANGED Join!vars
    OBVIOUS
  <2>1. ~ handled /\ ~ handled'
    BY DEF Build, Node, Edge, Open, IInv, Handled, BeginSearch, FindCycle, ValidateReturns,
           SearchEnds, SearchStep, VisitNext, AllSeen, LookAtUnseen, LookAtStacked, VisitReturns
  <2> QED
    BY <2>1 DEF Build, Join!vars
<1>2. IInv /\ HandleRuntimeGraph => Join!Build
  <2> SUFFICES ASSUME IInv, HandleRuntimeGraph PROVE Join!Build
    OBVIOUS
  <2>1. edges # {} /\ ~ handled
    BY ValidInbound DEF HandleRuntimeGraph, BuildPlan, Valid, IInv, Handled
  <2> QED
    BY <2>1 DEF HandleRuntimeGraph, BuildPlan, IInv, Handled, Join!Build, Join!Used
<1>3. IInv /\ OnEvent => Join!Begin
  BY DEF OnEvent, Reset, Join!Begin
<1>4. StopIdle => Join!Halt
  BY DEF StopIdle, Join!Halt
<1>5. Halt \/ NoRouteFails => Join!Halt
  BY DEF Halt, NoRouteFails, Finished, Free, Join!Halt
<1>6. ConditionFails => Join!Halt \/ UNCHANGED Join!vars
  BY DEF ConditionFails, Fail, Join!Halt, Join!vars
<1>7. Shutdown => UNCHANGED Join!vars
  BY DEF Shutdown, Join!vars
<1>8. \A n \in Names : FailNode(n) => UNCHANGED Join!vars
  BY DEF FailNode, Receives, Fail, Join!vars
<1>9. \A n \in Names : DrainInFlight(n) \/ Pool(n) => UNCHANGED Join!vars
  BY DEF DrainInFlight, Pool, Take, HandlerReturns, CancelQueued, Join!vars
<1>10. UNCHANGED vars => UNCHANGED Join!vars
  BY DEF vars, Join!vars
<1>11. Join!Build \/ Join!Begin \/ Join!Halt => Join!Next
  BY DEF Join!Next
<1> QED
  BY <1>1, <1>2, <1>3, <1>4, <1>5, <1>6, <1>7, <1>8, <1>9, <1>10, <1>11

(* Every node runs at most once per event, after all its inbound edges     *)
(* have been decided and only if one of them was selected; skipping passes *)
(* on; and the event returns only when nothing more can happen: the        *)
(* counters and flags of runtime_graph_processors.go (692-741) implement   *)
(* the active join.                                                        *)
THEOREM ImplementsJoin ==
  ASSUME Panics \subseteq {FALSE}
  PROVE  Spec => RoutingSpec
<1>1. IInv /\ [Next]_vars => [Join!Next]_(Join!vars)
  <2> SUFFICES ASSUME IInv, [Next]_vars PROVE [Join!Next]_(Join!vars)
    OBVIOUS
  <2>1. CASE Scheduler
    BY <2>1, DecideMaps, GiveMaps, CompleteMaps, ReturnMaps, OtherMaps DEF Scheduler
  <2> QED
    BY <2>1, OtherMaps DEF Next
<1> QED
  BY <1>1, InitMaps, Initially, Inductive, PTL DEF Spec, RoutingSpec, Join!Spec
--------------------------------------------------------------------------------
(* Types *)

(* A graph is searched only while it is built, and handled when the search *)
(* has found it acyclic.                                                   *)
LEMMA GraphKept == IInv /\ GraphInv /\ [Next]_vars => GraphInv'
<1> SUFFICES ASSUME IInv, GraphInv, [Next]_vars PROVE GraphInv'
  OBVIOUS
<1>1. GraphGiven
  BY DEF GraphGiven, GraphInv, IInv, Types, GraphType
<1>2. CASE \E n \in Names : Node(n)
  <2>1. /\ search = "idle" /\ ~ handled /\ UNCHANGED <<edges, handled, searchVars>>
        /\ nodes \subseteq nodes'
    BY <1>2 DEF Node, Open
  <2>2. SearchInv'
    BY <2>1, SearchOver DEF GraphInv
  <2> QED
    BY <2>1, <2>2 DEF GraphInv, EdgesWithin, Processing
<1>3. CASE \E e \in Possible : Edge(e)
  <2>1. PICK e \in Possible : Edge(e)
    BY <1>3
  <2>2. /\ search = "idle" /\ ~ handled /\ UNCHANGED <<nodes, handled, searchVars>>
        /\ edges' = edges \union {e} /\ ValidEdge(e)
    BY <2>1 DEF Edge, Open
  <2>3. SearchInv'
    BY <2>2, SearchOver DEF GraphInv
  <2>4. e[1] # Start /\ e[2] # End => e[1] \in nodes /\ e[2] \in nodes /\ e[1] # e[2]
    BY <2>2 DEF ValidEdge
  <2> QED
    BY <2>2, <2>3, <2>4 DEF GraphInv, EdgesWithin, Processing
<1>4. CASE BeginSearch \/ FindCycle \/ ValidateReturns
  <2>1. /\ UNCHANGED <<nodes, edges, handled>> /\ ~ handled
        /\ (SearchBegins \/ SearchStep \/ SearchEnds)
    BY <1>4 DEF BeginSearch, FindCycle, ValidateReturns, Open, GraphInv, SearchEnds, SearchStep,
                VisitNext, AllSeen, LookAtUnseen, LookAtStacked, VisitReturns
  <2>2. SearchInv'
    BY <1>1, <2>1, SearchStays DEF GraphInv
  <2> QED
    BY <2>1, <2>2 DEF GraphInv, EdgesWithin, Processing
<1>5. CASE HandleRuntimeGraph
  <2>1. /\ UNCHANGED <<nodes, edges>> /\ search = "acyclic" /\ SearchEnds
    BY <1>5 DEF HandleRuntimeGraph, BuildPlan, Valid
  <2>2. SearchInv'
    BY <2>1, SearchOver
  <2>3. Ranks(nodes) # {} /\ Ranks(nodes)' = Ranks(nodes)
    BY <2>1 DEF GraphInv, SearchInv, Ranks, Processing
  <2> QED
    BY <2>1, <2>2, <2>3 DEF GraphInv, EdgesWithin, Processing, SearchEnds
<1>6. CASE UNCHANGED graphVars
  <2>1. UNCHANGED <<nodes, edges, handled, search, marks, stack, cycle>>
    BY <1>6 DEF graphVars
  <2>2. SearchInv'
    BY <1>1, <2>1, SearchStays DEF GraphInv, searchVars
  <2>3. Ranks(nodes)' = Ranks(nodes)
    BY <2>1 DEF Ranks, Processing
  <2> QED
    BY <2>1, <2>2, <2>3 DEF GraphInv, EdgesWithin, Processing
<1>7. Build \/ HandleRuntimeGraph \/ UNCHANGED graphVars
  <2>1. CASE Scheduler
    BY <2>1 DEF Scheduler, ResolveSkipped, ConditionFails, SubmitNode, Evaluate, CompleteNode,
                RetryNode, FailNode, DrainInFlight, Halt, Return, NoRouteFails
  <2>2. CASE OnEvent \/ StopIdle \/ Shutdown \/ (\E n \in Names : Pool(n)) \/ UNCHANGED vars
    BY <2>2 DEF OnEvent, StopIdle, Shutdown, Pool, Take, HandlerReturns, CancelQueued, vars
  <2> QED
    BY <2>1, <2>2 DEF Next
<1> QED
  BY <1>2, <1>3, <1>4, <1>5, <1>6, <1>7 DEF Build

LEMMA GraphInitially == Init => GraphInv
BY NoSearch DEF Init, GraphInit, GraphInv, EdgesWithin, Processing

(* What IInv does not say of the variables the join does not see.          *)
Rest ==
  /\ executor \in Executors \union {"unset"} /\ closed \in BOOLEAN
  /\ seq \in -1 .. MaxEvent /\ (stage \in {"route", "drain"} => seq < MaxEvent)
  /\ endReached \in BOOLEAN
  /\ attempts \in [Names -> 0 .. MaxRetries]

LEMMA RestKept == IInv /\ Rest /\ [Next]_vars => Rest'
<1> SUFFICES ASSUME IInv, Rest, [Next]_vars PROVE Rest'
  OBVIOUS
<1> USE PolicyAssumption, MaxEventAssumption DEF Rest, graphVars, poolVars, joinVars, workVars, historyVars
<1>1. CASE Build \/ HandleRuntimeGraph
  BY <1>1 DEF Build, HandleRuntimeGraph
<1>2. CASE OnEvent
  <2>1. attempts' \in [Names -> 0 .. MaxRetries]
    BY <1>2 DEF OnEvent, Reset, Zero
  <2>2. UNCHANGED <<executor, closed, seq>> /\ seq < MaxEvent /\ endReached' = FALSE
    BY <1>2 DEF OnEvent, Reset
  <2> QED
    BY <2>1, <2>2
<1>3. CASE StopIdle \/ Shutdown
  BY <1>3 DEF StopIdle, Shutdown
<1>4. CASE \E n \in Names : Pool(n)
  BY <1>4 DEF Pool, Take, HandlerReturns, CancelQueued
<1>5. CASE ResolveSkipped
  BY <1>5 DEF ResolveSkipped
<1>6. CASE \E b \in BOOLEAN : Evaluate(b)
  <2>1. PICK b \in BOOLEAN : Evaluate(b)
    BY <1>6
  <2>2. UNCHANGED <<executor, closed, seq, stage, attempts>>
    BY <2>1 DEF Evaluate
  <2>3. endReached' = endReached \/ endReached' = (endReached \/ b)
    BY <2>1 DEF Evaluate
  <2>4. endReached' \in BOOLEAN
    BY <2>3
  <2> QED
    BY <2>2, <2>4
<1>7. CASE ConditionFails
  BY <1>7 DEF ConditionFails, Fail
<1>8. CASE SubmitNode
  BY <1>8 DEF SubmitNode, Accept, Reject, Free, Fail
<1>9. ASSUME NEW n \in Names, CompleteNode(n) PROVE Rest'
  BY <1>9 DEF CompleteNode
<1>10. ASSUME NEW n \in Names, RetryNode(n) PROVE Rest'
  <2>1. /\ UNCHANGED <<executor, closed, seq, endReached>>
        /\ stage = "route" /\ task[n] # "ok" /\ "retry" \in NodeActions(n, task[n])
        /\ attempts' = IF Counts(n, task[n]) THEN [attempts EXCEPT ![n] = @ + 1] ELSE attempts
    BY <1>10 DEF RetryNode, Receives
  <2>2. Counts(n, task[n]) => attempts[n] < MaxRetries
    BY <2>1 DEF Counts, NodeActions
  <2>3. attempts' \in [Names -> 0 .. MaxRetries]
    BY <2>1, <2>2
  <2> QED
    BY <2>1, <2>3
<1>11. ASSUME NEW n \in Names, FailNode(n) PROVE Rest'
  BY <1>11 DEF FailNode, Receives, Fail
<1>12. ASSUME NEW n \in Names, DrainInFlight(n) PROVE Rest'
  BY <1>12 DEF DrainInFlight
<1>13. CASE Halt \/ Return \/ NoRouteFails
  BY <1>13 DEF Halt, Return, NoRouteFails, Finished, Free
<1>14. CASE UNCHANGED vars
  BY <1>14 DEF vars
<1> QED
  BY <1>1, <1>2, <1>3, <1>4, <1>5, <1>6, <1>7, <1>8, <1>9, <1>10, <1>11, <1>12, <1>13, <1>14 DEF Next, Scheduler

(* The invariant bounds the counters.                                      *)
LEMMA Bounds == IInv /\ GraphInv /\ Rest => TypeOK
<1> SUFFICES ASSUME IInv, GraphInv, Rest PROVE TypeOK
  OBVIOUS
<1>1. IsFiniteSet(edges) /\ IsFiniteSet(Busy)
  BY Finite DEF IInv
<1>2. \A n \in Names : resolved[n] \in 0 .. Incoming(n) /\ selected[n] \in 0 .. resolved[n]
  <2> SUFFICES ASSUME NEW n \in Names
               PROVE  resolved[n] \in 0 .. Incoming(n) /\ selected[n] \in 0 .. resolved[n]
    OBVIOUS
  <2>1. IsFiniteSet(Inbound(n))
    BY <1>1, FS_Subset DEF Inbound
  <2>2. /\ IsFiniteSet(Inbound(n) \intersect Decided)
        /\ Cardinality(Inbound(n) \intersect Decided) <= Cardinality(Inbound(n))
    BY <2>1, FS_Subset
  <2>3. /\ IsFiniteSet(Inbound(n) \intersect taken)
        /\ Cardinality(Inbound(n) \intersect taken) <= Cardinality(Inbound(n) \intersect Decided)
    <3>1. Inbound(n) \intersect taken \subseteq Inbound(n) \intersect Decided
      BY DEF Decided
    <3> QED
      BY <2>2, <3>1, FS_Subset
  <2>4. /\ Cardinality(Inbound(n)) \in Nat
        /\ Cardinality(Inbound(n) \intersect Decided) \in Nat
        /\ Cardinality(Inbound(n) \intersect taken) \in Nat
    BY <2>1, <2>2, <2>3, FS_CardinalityType
  <2> QED
    BY <2>2, <2>3, <2>4 DEF IInv, CountersTrue, Incoming
<1>3. inFlight \in 0 .. Cardinality(nodes)
  <2>1. IsFiniteSet(nodes)
    <3>1. IsFiniteSet(Names)
      BY NAssumption, FS_Interval DEF Names
    <3> QED
      BY <3>1, FS_Subset DEF IInv, Types, GraphType
  <2>2. Busy \subseteq nodes
    BY DEF IInv, Counted, Types
  <2>3. /\ Cardinality(Busy) \in Nat /\ Cardinality(nodes) \in Nat
        /\ Cardinality(Busy) <= Cardinality(nodes)
    BY <1>1, <2>1, <2>2, FS_Subset, FS_CardinalityType
  <2> QED
    BY <2>3 DEF IInv, Counted
<1>4. /\ done \subseteq scheduled /\ scheduled \subseteq nodes /\ ready \subseteq scheduled \ done
      /\ todo \subseteq edges /\ skips \subseteq edges
      /\ stage \in {"idle", "route", "drain", "halted"}
      /\ GraphType /\ task \in [Names -> {"none", "queued", "running"} \union Results]
  BY DEF IInv, FlagsTrue, Types
<1> QED
  BY <1>2, <1>3, <1>4 DEF TypeOK, Rest, GraphInv, SearchInv

(* Type correctness: no more tasks in flight than the results channel has  *)
(* places, no more edges resolved than a node has                          *)
(* (runtime_graph_processors.go:597, 692-741).                             *)
THEOREM TypeCorrect ==
  ASSUME Panics \subseteq {FALSE}
  PROVE  Spec => []TypeOK
<1>1. Init => Rest
  <2> SUFFICES ASSUME Init PROVE Rest
    OBVIOUS
  <2>1. attempts \in [Names -> 0 .. MaxRetries]
    BY PolicyAssumption DEF Init, Zero
  <2>2. seq \in -1 .. MaxEvent
    BY MaxEventAssumption DEF Init
  <2> QED
    BY <2>1, <2>2 DEF Init, Rest
<1> QED
  BY <1>1, Initially, Inductive, GraphInitially, GraphKept, RestKept, Bounds, PTL DEF Spec

--------------------------------------------------------------------------------
(* Nothing is left waiting *)

(* When the scheduler has nothing more to do, a node that is not done has  *)
(* a predecessor that is not done either, unless the executor refused one. *)
LEMMA NotDoneBehind ==
  ASSUME IInv, Finished, refused = {}, handled, NEW n \in nodes \ done
  PROVE  \E e \in Processing : e[2] = n /\ e[1] \in nodes \ done
<1> USE DEF IInv
<1>1. stage = "route" /\ todo = {} /\ skips = {} /\ ready = {} /\ Busy = {}
  <2>1. IsFiniteSet(Busy)
    BY Finite
  <2>2. Inline => Busy = {}
    BY DEF Finished, Free
  <2>3. ~ Inline => Cardinality(Busy) = 0
    BY DEF Counted, Finished
  <2> QED
    BY <2>1, <2>2, <2>3, FS_EmptySet DEF Finished, Free
<1>2. n \in Names /\ Inbound(n) # {}
  BY DEF Types, GraphType, Handled
<1>3. n \notin scheduled
  <2>1. n \notin ran
    BY <1>1 DEF NothingForgotten
  <2> QED
    BY <1>1, <2>1 DEF FlagsTrue, Used
<1>4. PICK e \in Inbound(n) : e \notin Decided
  BY <1>2, <1>3 DEF FlagsTrue
<1>5. e \in edges /\ e[2] = n /\ e[2] # End /\ e[1] \in nodes \union {Start}
  BY <1>2, <1>4, NoTerminal DEF Inbound, Types
<1>6. e[1] \notin Complete \union {Start} /\ e[1] \notin Skipped
  BY <1>1, <1>4, <1>5 DEF NothingForgotten
<1>7. e[1] \notin done
  BY <1>6 DEF Complete, Skipped, Used
<1>8. e \in Processing
  BY <1>5, <1>6 DEF Processing
<1> QED
  BY <1>5, <1>6, <1>7, <1>8

(* No join waits for ever for an edge nobody resolves: of the nodes that   *)
(* are not done one of the least rank would have a predecessor of a lesser *)
(* one (runtime_graph_processors.go OnEvent).                              *)
THEOREM NothingLeftWaiting ==
  ASSUME Panics \subseteq {FALSE}
  PROVE  Spec => []NoneLeftWaiting
<1>1. IInv /\ GraphInv => NoneLeftWaiting
  <2> SUFFICES ASSUME IInv, GraphInv, Finished, refused = {}, done # nodes
               PROVE  FALSE
    BY DEF NoneLeftWaiting
  <2>1. handled
    BY DEF IInv, Handled, Finished, Free
  <2>2. nodes \subseteq Names /\ done \subseteq nodes
    BY DEF IInv, Types, GraphType, FlagsTrue
  <2>3. PICK rank : rank \in Ranks(nodes)
    BY <2>1 DEF GraphInv
  <2>4. Cardinality(nodes) \in Nat
    BY <2>2, FiniteNodes
  <2>5. /\ \A n \in nodes : rank[n] \in Nat
        /\ \A e \in Processing : e[1] \in nodes => rank[e[1]] < rank[e[2]]
    BY <2>3, <2>4 DEF Ranks
  <2> DEFINE S == {rank[n] : n \in nodes \ done}
  <2>6. S \in SUBSET Nat /\ S # {}
    BY <2>2, <2>5
  <2>7. PICK n \in nodes \ done : \A m \in nodes \ done : rank[n] <= rank[m]
    <3>1. PICK x \in S : \A y \in S : x <= y
      BY <2>6, Least
    <3> QED
      BY <3>1
  <2>8. PICK e \in Processing : e[2] = n /\ e[1] \in nodes \ done
    BY <2>1, <2>7, NotDoneBehind
  <2>9. rank[e[1]] < rank[n] /\ rank[n] <= rank[e[1]]
    BY <2>5, <2>7, <2>8
  <2> QED
    BY <2>5, <2>8, <2>9
<1> QED
  BY <1>1, Initially, Inductive, GraphInitially, GraphKept, PTL DEF Spec
===============================================================================
