--------------------------- MODULE Conditions_proofs ----------------------------
(***************************************************************************)
(* The outcome of a condition is what its expression means (OutcomeMeant), *)
(* whatever the expressions, the values and the number adapters are: a     *)
(* looked-up value is current, the chain of adapters asks the first one,   *)
(* the comparison of two numbers is exact, and the evaluation of a tree    *)
(* yields the meaning of every node it visits.  And the tree is the only   *)
(* one the grammar has, or there is none (CompiledExactly): what the calls *)
(* of the parser have made is a tree of their tokens, and what the grammar *)
(* has is within their reach.                                              *)
(***************************************************************************)
EXTENDS Conditions, FiniteSetTheorems, SequenceTheorems, WellFoundedInduction, TLAPS

(* A set of natural numbers that is not empty has a least element.         *)
LEMMA Least ==
  ASSUME NEW S \in SUBSET Nat, S # {}
  PROVE  \E x \in S : \A y \in S : x <= y
<1>1. IsWellFoundedOn(OpToRel(<, Nat), Nat)
  BY NatLessThanWellFounded
<1>2. PICK x \in S : \A y \in S : <<y, x>> \notin OpToRel(<, Nat)
  BY <1>1, WFMin
<1>3. ASSUME NEW y \in S PROVE x <= y
  <2>1. x \in Nat /\ y \in Nat
    OBVIOUS
  <2>2. ~ (y < x)
    BY <1>2, <2>1 DEF OpToRel
  <2> QED
    BY <2>1, <2>2
<1> QED
  BY <1>3

--------------------------------------------------------------------------------
(* Lookups *)

(* The bag of a new graph is empty.                                        *)
LEMMA InvInit == VariablesInit => VariablesInv
  BY DEF VariablesInit, VariablesInv, BagOfEvent, LookupInv, LookupCurrent, Looking,
         Empty

(* What is in the bag is what the handlers of this event wrote.            *)
LEMMA BagStep ==
  ASSUME BagOfEvent, [VariablesNext]_variableVars
  PROVE  BagOfEvent'
<1> USE DEF BagOfEvent, sourceVars, lookupVars
<1>1. CASE Reset
  BY <1>1 DEF Reset, Empty
<1>2. ASSUME NEW p \in Paths, NEW v \in Written \union {Missing}, Put(p, v)
      PROVE  BagOfEvent'
  BY <1>2 DEF Put
<1>3. CASE Look
  BY <1>3 DEF Look, LookTyped, LookAgain, LookBoxed
<1>4. CASE EndLookups
  BY <1>4 DEF EndLookups
<1>5. ASSUME NEW p \in Valid, BeginLookup(p) PROVE BagOfEvent'
  BY <1>5 DEF BeginLookup
<1>6. CASE UNCHANGED variableVars
  BY <1>6 DEF variableVars
<1> QED
  BY <1>1, <1>2, <1>3, <1>4, <1>5, <1>6 DEF VariablesNext, Handler

(* A handler that writes the path during its lookup adds what the path is  *)
(* worth from then on; one that writes another path does not change it.    *)
LEMMA PutStep ==
  ASSUME VariablesInv, NEW p \in Paths, NEW v \in Written \union {Missing}, Put(p, v)
  PROVE  LookupInv' /\ LookupCurrent'
<1> USE DEF VariablesInv, BagOfEvent, LookupInv, LookupCurrent, Looking, Put
<1>1. UNCHANGED <<provider, event, path, at, found>> /\ seen \subseteq seen'
  OBVIOUS
<1>2. ASSUME Looking PROVE Worth(path)' \in seen'
  <2>1. CASE p = path
    BY <1>2, <2>1
  <2>2. CASE p # path
    <3>1. written'[path] = written[path]
      BY <1>2, <2>2
    <3>2. Worth(path)' = Worth(path)
      BY <3>1, <1>1 DEF Worth
    <3> QED
      BY <1>2, <2>2, <3>2
  <2> QED
    BY <2>1, <2>2
<1> QED
  BY <1>1, <1>2

(* A look that finds something finds what the path is worth now; the last  *)
(* one finds nothing in the bag, nor have provider and event anything.     *)
LEMMA LookStep ==
  ASSUME VariablesInv, Look
  PROVE  LookupInv' /\ LookupCurrent'
<1>a. Looking /\ UNCHANGED <<bag, provider, event, written, path, seen>>
  BY DEF Look, LookTyped, LookAgain, LookBoxed, Looking, sourceVars
<1>b. Worth(path)' = Worth(path) /\ FieldValue(event[path])' = FieldValue(event[path])
  BY <1>a DEF Worth, FieldValue
<1>c. bag[path] = written[path] /\ Worth(path) \in seen
  BY <1>a DEF VariablesInv, BagOfEvent, LookupInv
<1>1. CASE LookTyped
  <2>1. bag[path] # Missing => Worth(path) = bag[path]
    BY <1>c DEF Worth
  <2> QED
    BY <1>1, <1>a, <1>b, <1>c, <2>1
    DEF LookTyped, Find, GoOn, LookupInv, LookupCurrent, Looking, VariablesInv
<1>2. CASE LookAgain
  <2>1. CASE bag[path] # Missing
    <3>1. Worth(path) = bag[path] /\ found' = bag[path] /\ at' = "done"
      BY <1>2, <1>c, <2>1 DEF Worth, LookAgain, Find
    <3> QED
      BY <1>a, <1>c, <3>1 DEF LookupInv, LookupCurrent, Looking
  <2>2. CASE bag[path] = Missing /\ provider[path] # Missing
    <3>1. Worth(path) = provider[path] /\ found' = provider[path] /\ at' = "done"
      BY <1>2, <1>c, <2>2 DEF Worth, LookAgain, Find
    <3> QED
      BY <1>a, <1>c, <3>1 DEF LookupInv, LookupCurrent, Looking
  <2>3. CASE bag[path] = Missing /\ provider[path] = Missing
    <3>1. Worth(path) = FieldValue(event[path])
      BY <1>c, <2>3 DEF Worth
    <3>2. IF FieldValue(event[path]) # Missing
          THEN found' = FieldValue(event[path]) /\ at' = "done"
          ELSE at' = "boxed"
      BY <1>2, <2>3 DEF LookAgain, Find, GoOn
    <3> QED
      BY <1>a, <1>b, <1>c, <2>3, <3>1, <3>2
      DEF LookupInv, LookupCurrent, Looking, VariablesInv
  <2> QED
    BY <2>1, <2>2, <2>3
<1>3. CASE LookBoxed
  <2>1. Worth(path) = bag[path]
    BY <1>3, <1>c DEF LookBoxed, VariablesInv, LookupInv, Worth
  <2>2. found' = bag[path] /\ at' = "done"
    BY <1>3 DEF LookBoxed, Find
  <2> QED
    BY <1>a, <1>c, <2>1, <2>2 DEF LookupInv, LookupCurrent, Looking
<1> QED
  BY <1>1, <1>2, <1>3 DEF Look

(* The three parts are preserved together.                                 *)
LEMMA Inductive == VariablesInv /\ [VariablesNext]_variableVars => VariablesInv'
<1> SUFFICES ASSUME VariablesInv, [VariablesNext]_variableVars PROVE VariablesInv'
  OBVIOUS
<1>0. BagOfEvent'
  BY BagStep DEF VariablesInv
<1>1. CASE Reset
  BY <1>0, <1>1
  DEF Reset, VariablesInv, LookupInv, LookupCurrent, Looking, lookupVars
<1>2. CASE Handler
  BY <1>0, <1>2, PutStep DEF Handler, VariablesInv
<1>3. CASE Look
  BY <1>0, <1>3, LookStep DEF VariablesInv
<1>4. CASE EndLookups
  BY <1>0, <1>4 DEF EndLookups, VariablesInv, LookupInv, LookupCurrent, Looking
<1>5. ASSUME NEW p \in Valid, BeginLookup(p) PROVE VariablesInv'
  BY <1>0, <1>5
  DEF BeginLookup, VariablesInv, LookupInv, LookupCurrent, Looking, Worth, sourceVars
<1>6. CASE UNCHANGED variableVars
  BY <1>6
  DEF variableVars, sourceVars, lookupVars, VariablesInv, BagOfEvent, LookupInv,
      LookupCurrent, Looking, Worth
<1> QED
  BY <1>1, <1>2, <1>3, <1>4, <1>5, <1>6 DEF VariablesNext

--------------------------------------------------------------------------------
(* Comparisons *)

(* An integer of either type keeps its number.                             *)
LEMMA IntegerOrder ==
  ASSUME NEW l \in Numbers, NEW r \in Numbers, IsInteger(l), IsInteger(r),
         NEW op \in Comparisons
  PROVE  CompareNumeric(op, l, r) = Holds(op, l.n, r.n)
<1> USE IntAssumption DEF Numbers, Value, IsInteger, MinInt, MaxUint
<1>1. CASE l.kind = r.kind
  BY <1>1 DEF CompareNumeric
<1>2. CASE l.kind = "int" /\ r.kind = "uint"
  <2>1. CompareNumeric(op, l, r) = CompareSignedUnsigned(op, l.n, r.n)
    BY <1>2 DEF CompareNumeric
  <2>2. l.n \in Int /\ r.n \in Nat
    BY <1>2
  <2> QED
    BY <2>1, <2>2 DEF CompareSignedUnsigned, Holds, ToUint, Comparisons
<1>3. CASE l.kind = "uint" /\ r.kind = "int"
  <2>1. CompareNumeric(op, l, r) = CompareUnsignedSigned(op, l.n, r.n)
    BY <1>3 DEF CompareNumeric
  <2>2. l.n \in Nat /\ r.n \in Int
    BY <1>3
  <2> QED
    BY <2>1, <2>2 DEF CompareUnsignedSigned, Holds, ToUint, Comparisons
<1> QED
  BY <1>1, <1>2, <1>3

(* Rounding keeps the order of two numbers of which one is a float, or     *)
(* makes them equal.                                                       *)
LEMMA FloatOrder ==
  ASSUME NEW l \in Numbers, NEW r \in Numbers,
         "nan" \notin {l.kind, r.kind}, "float" \in {l.kind, r.kind}
  PROVE  /\ AsFloat(l) \in Int /\ AsFloat(r) \in Int
         /\ l.n < r.n => AsFloat(l) <= AsFloat(r)
         /\ l.n > r.n => AsFloat(l) >= AsFloat(r)
<1>1. ASSUME NEW v \in Numbers, v.kind \in {"int", "uint"}
      PROVE  v.n \in MinInt .. MaxUint /\ AsFloat(v) = FloatOf[v.n]
  BY <1>1, IntAssumption DEF Numbers, Value, AsFloat, MinInt, MaxUint
<1>2. ASSUME NEW v \in Numbers, v.kind = "float"
      PROVE  v.n \in Floats /\ AsFloat(v) = v.n
  BY <1>2 DEF Numbers, Value, AsFloat
<1>3. Floats \subseteq Int
  BY FloatAssumption
<1>4. ASSUME NEW i \in MinInt .. MaxUint, NEW f \in Floats
      PROVE  /\ FloatOf[i] \in Int
             /\ i <= f => FloatOf[i] <= f
             /\ f <= i => f <= FloatOf[i]
  BY <1>4, FloatAssumption
<1>5. MinInt .. MaxUint \subseteq Int
  BY IntAssumption DEF MinInt, MaxUint
<1>6. CASE l.kind = "float" /\ r.kind = "float"
  <2>1. l.n \in Int /\ r.n \in Int /\ AsFloat(l) = l.n /\ AsFloat(r) = r.n
    BY <1>2, <1>3, <1>6
  <2> QED
    BY <2>1
<1>7. CASE l.kind = "float" /\ r.kind \in {"int", "uint"}
  <2>1. l.n \in Floats /\ l.n \in Int /\ AsFloat(l) = l.n
    BY <1>2, <1>3, <1>7
  <2>2. r.n \in MinInt .. MaxUint /\ r.n \in Int /\ AsFloat(r) = FloatOf[r.n]
    BY <1>1, <1>5, <1>7
  <2> QED
    BY <2>1, <2>2, <1>4
<1>8. CASE l.kind \in {"int", "uint"} /\ r.kind = "float"
  <2>1. r.n \in Floats /\ r.n \in Int /\ AsFloat(r) = r.n
    BY <1>2, <1>3, <1>8
  <2>2. l.n \in MinInt .. MaxUint /\ l.n \in Int /\ AsFloat(l) = FloatOf[l.n]
    BY <1>1, <1>5, <1>8
  <2> QED
    BY <2>1, <2>2, <1>4
<1> QED
  BY <1>6, <1>7, <1>8 DEF Numbers, Value

(* Integers compare as the numbers they are, rounding reverses nothing,    *)
(* and opposite comparisons have opposite results, except for what is not  *)
(* a number (value.go:85-106).                                             *)
THEOREM ComparisonsAreExact == ComparisonsExact
<1> SUFFICES ASSUME NEW l \in Numbers, NEW r \in Numbers
    PROVE
      /\ IsInteger(l) /\ IsInteger(r) =>
           \A op \in Comparisons : CompareNumeric(op, l, r) = Holds(op, l.n, r.n)
      /\ CompareNumeric("!=", l, r) = ~ CompareNumeric("==", l, r)
      /\ IF "nan" \in {l.kind, r.kind}
         THEN \A op \in Comparisons \ {"!="} : ~ CompareNumeric(op, l, r)
         ELSE /\ l.n < r.n => CompareNumeric("<=", l, r)
              /\ l.n > r.n => CompareNumeric(">=", l, r)
              /\ CompareNumeric(">=", l, r) = ~ CompareNumeric("<", l, r)
              /\ CompareNumeric("<=", l, r) = ~ CompareNumeric(">", l, r)
  BY DEF ComparisonsExact
<1>0. l.kind \in {"int", "uint", "float", "nan"} /\ r.kind \in {"int", "uint", "float", "nan"}
  BY DEF Numbers, Value
<1>1. CASE IsInteger(l) /\ IsInteger(r)
  <2>1. \A op \in Comparisons : CompareNumeric(op, l, r) = Holds(op, l.n, r.n)
    BY <1>1, IntegerOrder
  <2>2. l.n \in Int /\ r.n \in Int
    BY <1>1, IntAssumption DEF Numbers, IsInteger, Value, MinInt, MaxUint
  <2>3. "nan" \notin {l.kind, r.kind}
    BY <1>1 DEF IsInteger
  <2>4. /\ CompareNumeric("==", l, r) = (l.n = r.n)
        /\ CompareNumeric("!=", l, r) = (l.n # r.n)
        /\ CompareNumeric(">", l, r) = (l.n > r.n)
        /\ CompareNumeric(">=", l, r) = (l.n >= r.n)
        /\ CompareNumeric("<", l, r) = (l.n < r.n)
        /\ CompareNumeric("<=", l, r) = (l.n <= r.n)
    BY <2>1 DEF Comparisons, Holds
  <2>5. CompareNumeric("!=", l, r) = ~ CompareNumeric("==", l, r)
    BY <2>4
  <2>6. /\ CompareNumeric(">=", l, r) = ~ CompareNumeric("<", l, r)
        /\ CompareNumeric("<=", l, r) = ~ CompareNumeric(">", l, r)
        /\ l.n < r.n => CompareNumeric("<=", l, r)
        /\ l.n > r.n => CompareNumeric(">=", l, r)
    <3>1. /\ (l.n >= r.n) = ~ (l.n < r.n)
          /\ (l.n <= r.n) = ~ (l.n > r.n)
          /\ l.n < r.n => l.n <= r.n
          /\ l.n > r.n => l.n >= r.n
      BY <2>2
    <3> QED
      BY <2>4, <3>1, Zenon
  <2> QED
    BY <2>1, <2>3, <2>5, <2>6, Zenon
<1>2. CASE "nan" \in {l.kind, r.kind}
  <2>1. ASSUME NEW op \in Comparisons PROVE CompareNumeric(op, l, r) = (op = "!=")
    <3>1. {l.kind, r.kind} \intersect {"float", "nan"} # {}
      BY <1>2
    <3>2. CompareNumeric(op, l, r) = CompareFloat(op, l, r)
      BY <3>1, <1>0 DEF CompareNumeric, IsInteger
    <3> QED
      BY <1>2, <3>2, Zenon DEF CompareFloat
  <2>2. /\ ~ (IsInteger(l) /\ IsInteger(r))
        /\ {"==", "!="} \subseteq Comparisons
    BY <1>2 DEF IsInteger, Comparisons
  <2> QED
    BY <1>2, <2>1, <2>2
<1>3. CASE "nan" \notin {l.kind, r.kind} /\ "float" \in {l.kind, r.kind}
  <2>1. ASSUME NEW op \in Comparisons
        PROVE  CompareNumeric(op, l, r) = Holds(op, AsFloat(l), AsFloat(r))
    <3>1. {l.kind, r.kind} \intersect {"float", "nan"} # {}
      BY <1>3
    <3>2. CompareNumeric(op, l, r) = CompareFloat(op, l, r)
      BY <3>1, <1>0 DEF CompareNumeric, IsInteger
    <3> QED
      BY <1>3, <3>2, Zenon DEF CompareFloat
  <2>2. /\ AsFloat(l) \in Int /\ AsFloat(r) \in Int
        /\ l.n < r.n => AsFloat(l) <= AsFloat(r)
        /\ l.n > r.n => AsFloat(l) >= AsFloat(r)
    BY <1>3, FloatOrder
  <2>3. /\ CompareNumeric("==", l, r) = (AsFloat(l) = AsFloat(r))
        /\ CompareNumeric("!=", l, r) = (AsFloat(l) # AsFloat(r))
        /\ CompareNumeric(">", l, r) = (AsFloat(l) > AsFloat(r))
        /\ CompareNumeric(">=", l, r) = (AsFloat(l) >= AsFloat(r))
        /\ CompareNumeric("<", l, r) = (AsFloat(l) < AsFloat(r))
        /\ CompareNumeric("<=", l, r) = (AsFloat(l) <= AsFloat(r))
    BY <2>1 DEF Comparisons, Holds
  <2>4. CompareNumeric("!=", l, r) = ~ CompareNumeric("==", l, r)
    BY <2>3
  <2>5. /\ CompareNumeric(">=", l, r) = ~ CompareNumeric("<", l, r)
        /\ CompareNumeric("<=", l, r) = ~ CompareNumeric(">", l, r)
        /\ l.n < r.n => CompareNumeric("<=", l, r)
        /\ l.n > r.n => CompareNumeric(">=", l, r)
    <3>1. /\ (AsFloat(l) >= AsFloat(r)) = ~ (AsFloat(l) < AsFloat(r))
          /\ (AsFloat(l) <= AsFloat(r)) = ~ (AsFloat(l) > AsFloat(r))
          /\ l.n < r.n => AsFloat(l) <= AsFloat(r)
          /\ l.n > r.n => AsFloat(l) >= AsFloat(r)
      BY <2>2
    <3> QED
      BY <2>3, <3>1, Zenon
  <2>6. ~ (IsInteger(l) /\ IsInteger(r))
    BY <1>3 DEF IsInteger
  <2> QED
    BY <1>3, <2>4, <2>5, <2>6, Zenon
<1> QED
  BY <1>0, <1>1, <1>2, <1>3 DEF IsInteger

--------------------------------------------------------------------------------
(* Number adapters *)

(* Orders and scales are integers.                                         *)
LEMMA AdapterSorts ==
  \A i \in DOMAIN Adapters : i \in Nat /\ Adapters[i].order \in Int /\ Adapters[i].scale \in Int
<1> DEFINE Sort == [order : Int, scale : Int,
                    handles : SUBSET {"convert", "compare", "bool"},
                    fails : SUBSET {"convert", "compare", "bool"}]
<1>1. Adapters \in Seq(Sort)
  BY AdapterAssumption
<1>2. \A a \in Sort : a.order \in Int /\ a.scale \in Int
  OBVIOUS
<1> HIDE DEF Sort
<1> QED
  BY <1>1, <1>2

(* One adapter comes before another, never both, and so are their places.  *)
LEMMA PlaceOrder ==
  /\ \A i \in DOMAIN Adapters : Place(i) \in Nat
  /\ \A i, j \in DOMAIN Adapters :
       /\ Before(i, j) \/ Before(j, i) \/ i = j
       /\ Before(i, j) => Place(i) < Place(j)
<1>1. /\ DOMAIN Adapters = 1 .. Len(Adapters) /\ Len(Adapters) \in Nat
      /\ \A i \in DOMAIN Adapters : Adapters[i].order \in Int
  BY AdapterAssumption, AdapterSorts
<1>2. IsFiniteSet(DOMAIN Adapters)
  BY <1>1, FS_Interval
<1> DEFINE ahead(i) == {k \in DOMAIN Adapters : Before(k, i)}
<1>3. ASSUME NEW i \in DOMAIN Adapters
      PROVE  IsFiniteSet(ahead(i)) /\ Cardinality(ahead(i)) \in Nat
  BY <1>2, FS_Subset, FS_CardinalityType
<1>4. ASSUME NEW i \in DOMAIN Adapters, NEW j \in DOMAIN Adapters, Before(i, j)
      PROVE  Place(i) < Place(j)
  <2>1. ASSUME NEW k \in ahead(i) PROVE k \in ahead(j)
    BY <1>1, <1>4, <2>1 DEF Before
  <2>2. i \in ahead(j) /\ i \notin ahead(i)
    BY <1>1, <1>4 DEF Before
  <2>3. ahead(i) \in SUBSET ahead(j) /\ ahead(i) # ahead(j)
    BY <2>1, <2>2
  <2> HIDE DEF ahead
  <2>4. /\ Cardinality(ahead(i)) <= Cardinality(ahead(j))
        /\ Cardinality(ahead(i)) # Cardinality(ahead(j))
    BY <1>3, <2>3, FS_Subset
  <2> QED
    BY <1>3, <2>4 DEF Place, ahead
<1>5. ASSUME NEW i \in DOMAIN Adapters, NEW j \in DOMAIN Adapters
      PROVE  Before(i, j) \/ Before(j, i) \/ i = j
  BY <1>1 DEF Before
<1>6. ASSUME NEW i \in DOMAIN Adapters PROVE Place(i) \in Nat
  BY <1>3, <1>6 DEF Place
<1> QED
  BY <1>4, <1>5, <1>6

(* The chain asks the adapter of the least order, among those the one that *)
(* was registered first (compiler.go:227-283).                             *)
LEMMA AdapterIsFirst ==
  ASSUME NEW request, IsHandled(request)
  PROVE  First(request) \in Handlers(request) /\ Adapter(request) = Adapters[First(request)]
<1> DEFINE H == Handlers(request)
           Asked(i) == i \in H /\ \A j \in H : Place(i) <= Place(j)
<1>1. H \subseteq DOMAIN Adapters /\ H # {} /\ DOMAIN Adapters \subseteq Nat
  BY AdapterAssumption DEF Handlers, IsHandled
<1>2. PICK c \in H : \A j \in H : Place(c) <= Place(j)
  <2> DEFINE places == {Place(i) : i \in H}
  <2>1. places \in SUBSET Nat /\ places # {}
    BY <1>1, PlaceOrder
  <2>2. \E x \in places : \A y \in places : x <= y
    BY <2>1, Least
  <2> QED
    BY <2>2
<1>3. ASSUME NEW i, Asked(i) PROVE \A j \in H : i = j \/ Before(i, j)
  BY <1>1, <1>3, PlaceOrder
<1> DEFINE least == {i \in H : \A j \in H : Adapters[i].order <= Adapters[j].order}
           Foremost(i) == i \in least /\ \A j \in least : i <= j
<1>4. \A i \in H : Adapters[i].order \in Int
  BY <1>1, AdapterSorts
<1>5. ASSUME NEW i, Asked(i) PROVE Foremost(i)
  <2>1. i \in least
    BY <1>3, <1>4, <1>5 DEF Before
  <2>2. ASSUME NEW j \in least PROVE i <= j
    <3>1. Adapters[j].order <= Adapters[i].order /\ j \in H /\ i \in H
      BY <1>5, <2>2
    <3>2. i = j \/ Before(i, j)
      BY <1>3, <1>5, <3>1
    <3> QED
      BY <1>1, <1>4, <3>1, <3>2 DEF Before
  <2> QED
    BY <2>1, <2>2
<1>6. ASSUME NEW i, NEW j, Foremost(i), Foremost(j) PROVE i = j
  <2>1. i <= j /\ j <= i /\ i \in Nat /\ j \in Nat
    BY <1>1, <1>6
  <2> QED
    BY <2>1
<1> DEFINE a == CHOOSE i \in H : \A j \in H : Place(i) <= Place(j)
<1>7. a \in H /\ Asked(a) /\ Adapter(request) = Adapters[a]
  BY <1>2 DEF Adapter
<1>8. Foremost(First(request))
  <2>1. \E i \in least : \A j \in least : i <= j
    BY <1>5, <1>7
  <2>2. First(request) = CHOOSE i \in least : \A j \in least : i <= j
    BY DEF First, Handlers
  <2> QED
    BY <2>1, <2>2
<1>9. a = First(request)
  BY <1>5, <1>6, <1>7, <1>8
<1> QED
  BY <1>7, <1>9

(* A value is converted to what it means, and to one a node may yield.     *)
LEMMA ConvertMeans ==
  ASSUME NEW v, Proper(v)
  PROVE  Convert(v) = Meant(v) /\ Proper(Convert(v))
<1>1. Convert(v) = Meant(v)
  BY AdapterIsFirst DEF Convert, Meant, IsHandled, Handlers
<1>2. CASE Convert(v) = Error
  BY <1>1, <1>2 DEF Error, Value, Proper, Anything, Kinds, IsNumeric
<1>3. CASE v.kind = "domain" /\ IsHandled("convert")
  <2>1. Adapter("convert").scale \in Int
    BY <1>3, AdapterIsFirst, AdapterSorts DEF Handlers
  <2>2. v.n \in Int
    BY DEF Proper, Anything
  <2>3. v.n * Adapter("convert").scale \in Int
    BY <2>1, <2>2
  <2> QED
    BY <1>1, <1>2, <1>3, <2>3 DEF Convert, Value, Proper, Anything, Kinds, IsNumeric
<1>4. CASE Convert(v) = v
  BY <1>1, <1>4
<1> QED
  BY <1>1, <1>2, <1>3, <1>4 DEF Convert

--------------------------------------------------------------------------------
(* Operators *)

LEMMA ProperIntegers ==
  ASSUME NEW v, Proper(v)
  PROVE  /\ v.n \in Int
         /\ IsInteger(v) /\ v.n >= 0 => v.n \in 0 .. MaxUint
         /\ IsNumeric(v) => v \in Numbers
  BY IntAssumption
  DEF Proper, Anything, IsInteger, IsNumeric, Numbers, Value, MaxUint, MinInt

(* Bit operators yield words.                                              *)
LEMMA WordsOfBits ==
  ASSUME NEW l \in 0 .. MaxUint, NEW r \in 0 .. MaxUint, NEW op \in BitOperators
  PROVE  Combine(op, l, r) \in 0 .. MaxUint
<1>1. ASSUME NEW S \in SUBSET Places PROVE Word(S) \in 0 .. MaxUint
  BY BitsAssumption DEF Word
<1>2. Bits[l] \in SUBSET Places /\ Bits[r] \in SUBSET Places
  BY BitsAssumption
<1>3. /\ Bits[l] \intersect Bits[r] \in SUBSET Places
      /\ Bits[l] \union Bits[r] \in SUBSET Places
      /\ (Bits[l] \ Bits[r]) \union (Bits[r] \ Bits[l]) \in SUBSET Places
      /\ Bits[l] \ Bits[r] \in SUBSET Places
      /\ {i \in Places : i - r \in Bits[l]} \in SUBSET Places
      /\ {i \in Places : i + r \in Bits[l]} \in SUBSET Places
  BY <1>2
<1>4. /\ Word(Bits[l] \intersect Bits[r]) \in 0 .. MaxUint
      /\ Word(Bits[l] \union Bits[r]) \in 0 .. MaxUint
      /\ Word((Bits[l] \ Bits[r]) \union (Bits[r] \ Bits[l])) \in 0 .. MaxUint
      /\ Word(Bits[l] \ Bits[r]) \in 0 .. MaxUint
      /\ Word({i \in Places : i - r \in Bits[l]}) \in 0 .. MaxUint
      /\ Word({i \in Places : i + r \in Bits[l]}) \in 0 .. MaxUint
  BY <1>1, <1>3
<1> QED
  BY <1>4 DEF Combine, BitOperators

(* Numbers compare as what they are, or as floats.                         *)
LEMMA CompareMeans ==
  ASSUME NEW l \in Numbers, NEW r \in Numbers, NEW op \in Comparisons
  PROVE  CompareNumeric(op, l, r) = Exactly(op, l, r)
<1>0. l.kind \in {"int", "uint", "float", "nan"} /\ r.kind \in {"int", "uint", "float", "nan"}
  BY DEF Numbers, Value
<1>1. CASE IsInteger(l) /\ IsInteger(r)
  <2>1. "nan" \notin {l.kind, r.kind}
    BY <1>1 DEF IsInteger
  <2> QED
    BY <1>1, <2>1, IntegerOrder DEF Exactly
<1>2. CASE ~ (IsInteger(l) /\ IsInteger(r))
  <2>1. {l.kind, r.kind} \intersect {"float", "nan"} # {}
    BY <1>0, <1>2 DEF IsInteger
  <2>2. CompareNumeric(op, l, r) = CompareFloat(op, l, r)
    BY <2>1, <1>0 DEF CompareNumeric, IsInteger
  <2> QED
    BY <1>2, <2>2, Zenon DEF CompareFloat, Exactly
<1> QED
  BY <1>1, <1>2

LEMMA TruthIsProper ==
  ASSUME NEW b
  PROVE  Proper(Truth(b)) /\ Truth(b).kind = "bool" /\ Truth(b) # Error
  BY DEF Truth, Proper, Anything, Kinds, Value, IsNumeric, Error

LEMMA ErrorIsProper == Proper(Error) /\ Error.kind = "error"
  BY DEF Proper, Anything, Kinds, Value, IsNumeric, Error

(* An operator on operands without errors yields what it means.            *)
LEMMA OperateMeans ==
  ASSUME NEW l, NEW r, Proper(l), Proper(r), l # Error, r # Error,
         NEW node, node[1] \in Comparisons \union BitOperators, NEW worth
  PROVE  /\ Operate(node[1], l, r) = Sense(node, l, r, worth)
         /\ Proper(Operate(node[1], l, r))
<1> DEFINE op == node[1]
<1>0. op \notin {"lit", "path", "!", "&&", "||"} /\ Error \notin {l, r}
  BY DEF Comparisons, BitOperators
<1>1. CASE op \in Comparisons
  <2>1. Sense(node, l, r, worth)
          = IF IsNumeric(l) /\ IsNumeric(r) THEN Truth(Exactly(op, l, r)) ELSE Compare(op, l, r)
    BY <1>0, <1>1 DEF Sense, Logical
  <2>2. CASE IsNumeric(l) /\ IsNumeric(r)
    <3>1. Compare(op, l, r) = Truth(CompareNumeric(op, l, r))
      BY <2>2 DEF Compare, IsNumeric
    <3>2. CompareNumeric(op, l, r) = Exactly(op, l, r)
      BY <1>1, <2>2, CompareMeans, ProperIntegers
    <3> QED
      BY <1>1, <2>1, <2>2, <3>1, <3>2, TruthIsProper DEF Operate
  <2>3. CASE ~ (IsNumeric(l) /\ IsNumeric(r))
    <3>1. Proper(Compare(op, l, r))
      BY TruthIsProper, ErrorIsProper DEF Compare, CompareBool, CompareNumber
    <3> QED
      BY <1>1, <2>1, <2>3, <3>1 DEF Operate
  <2> QED
    BY <2>2, <2>3
<1>2. CASE op \in BitOperators
  <2>0. op \notin Comparisons
    BY <1>2 DEF Comparisons, BitOperators
  <2>1. ({l.kind, r.kind} \subseteq {"int", "uint"}) = (IsInteger(l) /\ IsInteger(r))
    BY DEF IsInteger
  <2>2. l.n \in Int /\ r.n \in Int
    BY ProperIntegers
  <2>3. CASE ~ IsInteger(l) \/ ~ IsInteger(r) \/ l.n < 0 \/ r.n < 0
    <3>1. ~ ({l.kind, r.kind} \subseteq {"int", "uint"} /\ l.n >= 0 /\ r.n >= 0)
      BY <2>1, <2>2, <2>3
    <3>2. Sense(node, l, r, worth) = Error
      BY <1>0, <2>0, <3>1 DEF Sense, Logical
    <3> QED
      BY <2>0, <2>3, <3>2, ErrorIsProper DEF Operate, Bitwise
  <2>4. CASE IsInteger(l) /\ IsInteger(r) /\ l.n >= 0 /\ r.n >= 0
    <3> DEFINE u == Combine(op, l.n, r.n)
               fits == l.kind = "int" /\ r.kind = "int" /\ u <= MaxInt
               v == Value(IF fits THEN "int" ELSE "uint", u)
    <3>1. u \in 0 .. MaxUint
      BY <1>2, <2>4, ProperIntegers, WordsOfBits
    <3>2. Sense(node, l, r, worth) = v
      BY <1>0, <2>0, <2>1, <2>4 DEF Sense, Logical
    <3>3. Operate(op, l, r) = v
      <4>1. ({l.kind, r.kind} = {"int"}) = (l.kind = "int" /\ r.kind = "int")
        OBVIOUS
      <4>2. ~ (~ IsInteger(l) \/ ~ IsInteger(r) \/ l.n < 0 \/ r.n < 0)
        BY <2>2, <2>4
      <4>3. Operate(op, l, r)
              = Value(IF {l.kind, r.kind} = {"int"} /\ u <= MaxInt THEN "int" ELSE "uint", u)
        BY <2>0, <4>2 DEF Operate, Bitwise
      <4> QED
        BY <4>1, <4>3
    <3>4. Proper(v)
      <4> HIDE DEF u
      <4>1. u \in Int /\ (u <= MaxInt => u \in MinInt .. MaxInt)
        BY <3>1, IntAssumption DEF MaxUint, MinInt
      <4>2. v \in Numbers /\ v.kind \in {"int", "uint"} /\ v.n = u
        BY <3>1, <4>1 DEF Numbers, Value
      <4> QED
        BY <4>1, <4>2 DEF Proper, Anything, Kinds, Value
    <3> QED
      BY <3>2, <3>3, <3>4
  <2> QED
    BY <2>2, <2>3, <2>4
<1> QED
  BY <1>1, <1>2

--------------------------------------------------------------------------------
(* Nodes *)

LEMMA OperatorsSplit ==
  ASSUME NEW op \in Operators
  PROVE  /\ op \in {"!"} \union Logical \union Comparisons \union BitOperators
         /\ op \notin {"lit", "path"}
         /\ op \in Comparisons \union BitOperators => op \notin {"!"} \union Logical
  BY DEF Operators, Logical, Comparisons, BitOperators

LEMMA SenseCases ==
  ASSUME NEW node, NEW l, NEW r, NEW worth
  PROVE  /\ node[1] = "lit" => Sense(node, l, r, worth) = node[2]
         /\ node[1] = "path" => Sense(node, l, r, worth) = Meant(worth[node[2]])
         /\ node[1] = "!" =>
              Sense(node, l, r, worth) = IF r.kind = "bool" THEN Truth(r = False) ELSE Error
  BY DEF Sense, Logical

(* ! has one operand.                                                      *)
LEMMA NotMeans ==
  ASSUME NEW node, node[1] = "!", NEW left, NEW l, NEW v, Proper(v), NEW worth
  PROVE  /\ Answer("!", left, v) = Sense(node, l, v, worth)
         /\ Proper(Answer("!", left, v))
<1>1. Sense(node, l, v, worth) = IF v.kind = "bool" THEN Truth(v = False) ELSE Error
  BY SenseCases
<1>2. v = Error => v.kind # "bool"
  BY ErrorIsProper
<1>3. Answer("!", left, v) = IF v.kind = "bool" THEN Truth(v = False) ELSE Error
  <2>1. CASE v = Error
    BY <1>2, <2>1, Zenon DEF Answer
  <2>2. CASE v # Error
    <3> DEFINE yes == Truth(v = False)
    <3>1. Answer("!", left, v) = IF v.kind = "bool" THEN yes ELSE Error
      <4> HIDE DEF yes
      <4> QED
        BY <2>2 DEF Answer, Logical, yes
    <3> QED
      BY <3>1
  <2> QED
    BY <2>1, <2>2
<1> QED
  BY <1>1, <1>3, TruthIsProper, ErrorIsProper

(* What the left operand decides, the right one does not change.           *)
LEMMA LeftDecides ==
  ASSUME NEW node, node[1] \in Operators \ {"!"}, NEW v, Proper(v), Decides(node[1], v),
         NEW r, NEW worth
  PROVE  /\ Answer(node[1], NoValue, v) = Sense(node, v, r, worth)
         /\ Proper(Answer(node[1], NoValue, v))
<1> DEFINE op == node[1]
<1>0. op \notin {"lit", "path", "!"}
  BY OperatorsSplit
<1>1. CASE op \in Logical
  <2>1. Sense(node, v, r, worth)
          = IF v = Truth(op = "||") THEN v
            ELSE IF v.kind = "bool" /\ r.kind = "bool" THEN r ELSE Error
    BY <1>0, <1>1 DEF Sense
  <2>2. v = Error => v.kind # "bool" /\ v # Truth(op = "||")
    BY ErrorIsProper, TruthIsProper
  <2>3. v = Truth(op = "||") => v.kind = "bool"
    BY TruthIsProper
  <2>4. Answer(op, NoValue, v) = IF v # Error /\ v.kind = "bool" THEN v ELSE Error
    BY <1>0, <1>1 DEF Answer
  <2>5. v.kind = "bool" => v = Truth(op = "||")
    BY <2>2 DEF Decides
  <2> QED
    BY <2>1, <2>2, <2>3, <2>4, <2>5, TruthIsProper, ErrorIsProper
<1>2. CASE op \notin Logical
  <2>1. v = Error
    BY <1>2 DEF Decides
  <2>2. Sense(node, v, r, worth) = Error
    BY <1>0, <1>2, <2>1 DEF Sense
  <2>3. Answer(op, NoValue, v) = Error
    BY <2>1 DEF Answer
  <2> QED
    BY <2>2, <2>3, ErrorIsProper
<1> QED
  BY <1>1, <1>2

(* A left operand that does not decide leaves it to the right one.         *)
LEMMA RightAnswers ==
  ASSUME NEW node, node[1] \in Operators \ {"!"}, NEW l, NEW v, Proper(l), Proper(v),
         ~ Decides(node[1], l), NEW worth
  PROVE  /\ Answer(node[1], l, v) = Sense(node, l, v, worth)
         /\ Proper(Answer(node[1], l, v))
<1> DEFINE op == node[1]
<1>0. op \notin {"lit", "path", "!"} /\ l # Error
  BY OperatorsSplit DEF Decides
<1>1. CASE op \in Logical
  <2>1. l.kind = "bool" /\ l # Truth(op = "||")
    BY <1>1 DEF Decides
  <2>2. Sense(node, l, v, worth) = IF v.kind = "bool" THEN v ELSE Error
    BY <1>0, <1>1, <2>1 DEF Sense
  <2>3. v = Error => v.kind # "bool"
    BY ErrorIsProper
  <2>4. Answer(op, l, v) = IF v.kind = "bool" THEN v ELSE Error
    BY <1>0, <1>1, <2>3 DEF Answer
  <2> QED
    BY <2>2, <2>4, ErrorIsProper
<1>2. CASE op \notin Logical
  <2>1. op \in Comparisons \union BitOperators
    BY <1>2, OperatorsSplit
  <2>2. CASE v = Error
    <3>1. Sense(node, l, v, worth) = Error
      BY <1>0, <1>2, <2>2 DEF Sense
    <3> QED
      BY <2>2, <3>1, ErrorIsProper DEF Answer
  <2>3. CASE v # Error
    <3>1. Answer(op, l, v) = Operate(op, l, v)
      BY <1>0, <1>2, <2>3 DEF Answer
    <3> QED
      BY <1>0, <2>1, <2>3, <3>1, OperateMeans
  <2> QED
    BY <2>2, <2>3
<1> QED
  BY <1>1, <1>2

--------------------------------------------------------------------------------
(* Meanings *)

(* What a literal and a path mean does not depend on operands, nor what !  *)
(* means on a left one.                                                    *)
LEMMA SenseOfLeaf ==
  ASSUME NEW node, node[1] \in {"lit", "path"}, NEW l, NEW r, NEW worth
  PROVE  Sense(node, l, r, worth) = IF node[1] = "lit" THEN node[2] ELSE Meant(worth[node[2]])
  BY SenseCases

(* What a node of a tree may be.                                           *)
LEMMA NodeKinds ==
  ASSUME NEW node \in Nodes
  PROVE  /\ node[1] \in {"lit", "path"} \/ node[1] \in Operators
         /\ node[1] = "!" => node = <<"!", 0>>
         /\ node[1] = "lit" => Proper(node[2])
         /\ node[1] = "path" => node[2] \in Valid
<1> DEFINE Constant == Numbers \union [kind : {"bool", "string", "nil"}, n : Int]
<1>0. ASSUME NEW v \in Constant PROVE Proper(v)
  <2>1. CASE v \in Numbers
    <3>1. Floats \subseteq Int /\ MinInt .. MaxInt \subseteq Int /\ 0 .. MaxUint \subseteq Int
      BY IntAssumption, FloatAssumption DEF MinInt, MaxUint
    <3>2. v \in [kind : {"int", "uint", "float", "nan"}, n : Int]
      <4>1. CASE v \in [kind : {"int"}, n : MinInt .. MaxInt]
        BY <3>1, <4>1
      <4>2. CASE v \in [kind : {"uint"}, n : 0 .. MaxUint]
        BY <3>1, <4>2
      <4>3. CASE v \in [kind : {"float"}, n : Floats]
        BY <3>1, <4>3
      <4>4. CASE v = Value("nan", 0)
        BY <4>4 DEF Value
      <4> QED
        BY <2>1, <4>1, <4>2, <4>3, <4>4 DEF Numbers
    <3> QED
      BY <2>1, <3>2 DEF Proper, Anything, Kinds
  <2>2. CASE v \in [kind : {"bool", "string", "nil"}, n : Int]
    BY <2>2 DEF Proper, Anything, Kinds, IsNumeric
  <2> QED
    BY <1>0, <2>1, <2>2
<1> HIDE DEF Constant
<1>1. CASE node \in {"lit"} \X Constant
  BY <1>0, <1>1, OperatorsSplit
<1>2. CASE node \in {"path"} \X Valid
  BY <1>2, OperatorsSplit
<1>3. CASE node = <<"!", 0>>
  BY <1>3 DEF Operators
<1>4. CASE node \in (Operators \ {"!"}) \X Nat
  BY <1>4, OperatorsSplit
<1> QED
  BY <1>1, <1>2, <1>3, <1>4 DEF Nodes, Constant

(* The places of the operands of a node.                                   *)
Left(tree, n) == n - 1 - tree[n][2]

LEMMA OperandsInFront ==
  ASSUME NEW tree \in Seq(Nodes), WellFormed(tree),
         NEW n \in 1 .. Len(tree), tree[n][1] \in Operators
  PROVE  n - 1 \in 1 .. n - 1 /\ Left(tree, n) \in 1 .. n - 1
<1>1. tree[n] \in Nodes /\ n \in Nat
  OBVIOUS
<1>2. n > 1 /\ (tree[n][1] # "!" => tree[n][2] \in 1 .. n - 2)
  BY DEF WellFormed
<1>3. tree[n][1] = "!" => tree[n][2] = 0
  BY <1>1, NodeKinds
<1> QED
  BY <1>1, <1>2, <1>3 DEF Left

(* In a tree whose operators stand behind their operands every node has a  *)
(* meaning: the one its operands give it.                                  *)
LEMMA MeaningsUnfold ==
  ASSUME NEW tree \in Seq(Nodes), WellFormed(tree), NEW worth
  PROVE  \A n \in 1 .. Len(tree) :
           Meanings(tree, worth)[n]
             = Sense(tree[n], Meanings(tree, worth)[Left(tree, n)],
                     Meanings(tree, worth)[n - 1], worth)
<1> DEFINE sense(n, f) == Sense(tree[n], f[n - 1 - tree[n][2]], f[n - 1], worth)
           Solves(f, k) == f = [n \in 1 .. k |-> sense(n, f)]
<1>1. Len(tree) \in Nat /\ DOMAIN tree = 1 .. Len(tree)
  OBVIOUS
<1>2. ASSUME NEW n \in 1 .. Len(tree)
      PROVE  /\ tree[n][1] \in {"lit", "path"} \/ tree[n][1] \in Operators
             /\ tree[n][1] = "!" => tree[n] = <<"!", 0>>
  BY <1>1, <1>2, NodeKinds
<1>3. ASSUME NEW k \in 1 .. Len(tree), NEW f, NEW g, \A n \in 1 .. k - 1 : f[n] = g[n]
      PROVE  sense(k, f) = sense(k, g)
  <2>1. CASE tree[k][1] \in {"lit", "path"}
    BY <2>1, SenseOfLeaf
  <2>2. CASE tree[k][1] \in Operators
    <3>1. k - 1 \in 1 .. k - 1 /\ k - 1 - tree[k][2] \in 1 .. k - 1
      BY <1>1, <1>2, <2>2, OperandsInFront DEF Left
    <3>2. f[k - 1] = g[k - 1] /\ f[k - 1 - tree[k][2]] = g[k - 1 - tree[k][2]]
      BY <1>3, <3>1
    <3> QED
      BY <3>2
  <2> QED
    BY <1>2, <2>1, <2>2
<1>4. ASSUME NEW k \in 0 .. Len(tree), k # Len(tree), NEW f, Solves(f, k)
      PROVE  \E g : Solves(g, k + 1)
  <2>0. k \in Nat /\ k + 1 <= Len(tree)
    <3> HIDE DEF Solves
    <3> DEFINE size == Len(tree)
    <3>1. size \in Nat
      BY <1>1
    <3>2. k \in 0 .. size /\ k # size
      BY <1>4
    <3> HIDE DEF size
    <3>3. k \in Nat /\ k + 1 <= size
      BY <3>1, <3>2
    <3> QED
      BY <3>3 DEF size
  <2> DEFINE g == [n \in 1 .. k + 1 |-> IF n = k + 1 THEN sense(n, f) ELSE f[n]]
  <2>1. ASSUME NEW n \in 1 .. k + 1 PROVE g[n] = sense(n, g)
    <3>1. \A i \in 1 .. n - 1 : f[i] = g[i]
      BY <1>1
    <3>2. n \in 1 .. Len(tree)
      BY <2>0, <2>1
    <3>3. sense(n, f) = sense(n, g)
      BY <1>3, <3>1, <3>2
    <3>4. CASE n = k + 1
      BY <3>3, <3>4
    <3>5. CASE n # k + 1
      <4>1. n \in 1 .. k
        BY <1>1, <3>5
      <4>2. f[n] = sense(n, f)
        BY <1>4, <4>1
      <4> QED
        BY <3>3, <3>5, <4>2
    <3> QED
      BY <3>4, <3>5
  <2>2. g = [n \in 1 .. k + 1 |-> g[n]]
    OBVIOUS
  <2>3. g = [n \in 1 .. k + 1 |-> sense(n, g)]
    BY <2>1, <2>2
  <2> QED
    BY <2>3
<1> DEFINE Unsolved == {k \in 0 .. Len(tree) : ~ \E f : Solves(f, k)}
<1>5. Unsolved = {}
  <2>1. SUFFICES ASSUME Unsolved # {} PROVE FALSE
    OBVIOUS
  <2>2. Unsolved \in SUBSET Nat
    BY <1>1
  <2>3. PICK k \in Unsolved : \A j \in Unsolved : k <= j
    BY <2>1, <2>2, Least
  <2>4. k # 0
    <3>1. Solves(<<>>, 0)
      OBVIOUS
    <3> QED
      BY <2>3, <3>1
  <2>5. k - 1 \in 0 .. Len(tree) /\ k - 1 # Len(tree) /\ k - 1 \notin Unsolved
    <3> HIDE DEF Solves
    <3> QED
      BY <1>1, <2>3, <2>4
  <2>6. PICK f : Solves(f, k - 1)
    BY <2>5
  <2>7. \E g : Solves(g, (k - 1) + 1)
    BY <1>4, <2>5, <2>6
  <2>8. (k - 1) + 1 = k
    BY <1>1, <2>3
  <2> QED
    BY <2>3, <2>7, <2>8
<1> DEFINE m == Meanings(tree, worth)
<1>6. Solves(m, Len(tree))
  <2>1. \E f : Solves(f, Len(tree))
    <3>1. Len(tree) \in 0 .. Len(tree)
      BY <1>1
    <3> HIDE DEF Solves
    <3> QED
      BY <1>5, <3>1
  <2>2. m = CHOOSE f : Solves(f, Len(tree))
    BY <1>1 DEF Meanings
  <2> HIDE DEF m, Solves
  <2> QED
    BY <2>1, <2>2
<1>7. ASSUME NEW n \in 1 .. Len(tree) PROVE m[n] = sense(n, m)
  <2> HIDE DEF m
  <2> QED
    BY <1>6, <1>7
<1> QED
  BY <1>7 DEF Left

--------------------------------------------------------------------------------
(* The parser *)

LEMMA FrontOf ==
  ASSUME NEW S, NEW s \in Seq(S), s # <<>>
  PROVE  /\ Front(s) \in Seq(S)
         /\ Len(Front(s)) = Len(s) - 1
         /\ \A i \in 1 .. Len(s) - 1 : Front(s)[i] = s[i]
         /\ Len(s) \in Nat \ {0} /\ s[Len(s)] \in S
<1>1. Len(s) \in Nat \ {0}
  OBVIOUS
<1>2. s[Len(s)] \in S
  BY <1>1
<1>3. Len(s) - 1 \in Nat /\ 1 .. Len(s) - 1 \subseteq 1 .. Len(s)
  BY <1>1
<1>4. Front(s) \in Seq(S) /\ Len(Front(s)) = Len(s) - 1
  <2>0. Len(s) - 1 \in Nat /\ Len(s) - 1 <= Len(s)
    BY <1>1
  <2>1. PICK k \in Nat : k = Len(s) - 1 /\ k <= Len(s)
    BY <2>0
  <2>2. SubSeq(s, 1, k) \in Seq(S) /\ Len(SubSeq(s, 1, k)) = k
    BY <1>1, <2>1
  <2> QED
    BY <2>1, <2>2 DEF Front
<1>5. \A i \in 1 .. Len(s) - 1 : Front(s)[i] = s[i]
  BY <1>1, <1>3 DEF Front
<1> QED
  BY <1>1, <1>2, <1>4, <1>5

(* What stands next is a token or the end.                                 *)
LEMMA PeekIs ==
  ASSUME ParserInv, parse \in {"operand", "behind"}
  PROVE  /\ Peek[1] = "lit" => Peek[2] \in Literals
         /\ Peek[1] = "path" => Peek \in {"path"} \X Valid
         /\ Peek[1] = "op" => Peek[2] \in Operators
<1>1. source \in Seq(Tokens) /\ pos \in Nat \ {0} /\ Sentence(source, Valid)
  BY TokensAssumption DEF ParserInv
<1>2. CASE pos <= Len(source)
  <2>1. Peek = source[pos] /\ Peek \in Tokens /\ pos \in DOMAIN source
    BY <1>1, <1>2 DEF Peek
  <2>2. Peek[1] = "path" => Peek[2] \in Valid
    BY <1>1, <2>1 DEF Sentence
  <2>3. CASE Peek \in {"lit"} \X Literals
    BY <2>3
  <2>4. CASE Peek \in {"path"} \X Paths
    BY <2>2, <2>4
  <2>5. CASE Peek \in {"op"} \X Operators
    BY <2>5
  <2>6. CASE Peek \in {<<"(">>, <<")">>}
    BY <2>6
  <2> QED
    BY <2>1, <2>3, <2>4, <2>5, <2>6 DEF Tokens
<1>3. CASE ~ (pos <= Len(source))
  BY <1>3 DEF Peek
<1> QED
  BY <1>2, <1>3

(* A literal that is not refused is a node.                                *)
LEMMA LiteralIsNode ==
  ASSUME NEW l \in Literals, LiteralValue(l) # Error
  PROVE  <<"lit", LiteralValue(l)>> \in Nodes
<1> DEFINE Constant == Numbers \union [kind : {"bool", "string", "nil"}, n : Int]
<1>1. CASE l.kind = "integer"
  <2>0. SUFFICES LiteralValue(l) \in Numbers
    BY DEF Nodes
  <2>1. l.n \in Nat
    BY <1>1 DEF Literals
  <2>2. CASE l.n <= MaxInt
    <3>1. LiteralValue(l) = Value("int", l.n) /\ l.n \in MinInt .. MaxInt
      BY <1>1, <2>1, <2>2, IntAssumption DEF LiteralValue, MinInt
    <3>2. Value("int", l.n) \in [kind : {"int"}, n : MinInt .. MaxInt]
      BY <3>1 DEF Value
    <3> QED
      BY <3>1, <3>2 DEF Numbers
  <2>3. CASE l.n \in MaxInt + 1 .. MaxUint
    <3>1. LiteralValue(l) = Value("uint", l.n) /\ l.n \in 0 .. MaxUint
      BY <1>1, <2>1, <2>3, IntAssumption DEF LiteralValue, MaxUint
    <3>2. Value("uint", l.n) \in [kind : {"uint"}, n : 0 .. MaxUint]
      BY <3>1 DEF Value
    <3> QED
      BY <3>1, <3>2 DEF Numbers
  <2>4. CASE ~ (l.n <= MaxInt) /\ l.n \notin MaxInt + 1 .. MaxUint
    BY <1>1, <2>4 DEF LiteralValue
  <2> QED
    BY <2>2, <2>3, <2>4
<1>2. CASE l.kind # "integer"
  <2>1. LiteralValue(l) = l
    BY <1>2 DEF LiteralValue
  <2>2. CASE l \in [kind : {"float"}, n : Floats]
    BY <2>1, <2>2 DEF Nodes, Numbers
  <2>3. CASE l \in [kind : {"bool", "string", "nil"}, n : Int]
    BY <2>1, <2>3 DEF Nodes
  <2> QED
    BY <1>2, <2>2, <2>3 DEF Literals
<1> QED
  BY <1>1, <1>2

(* An operator put behind its operands leaves a tree well formed.          *)
LEMMA AppendWellFormed ==
  ASSUME NEW tree \in Seq(Nodes), WellFormed(tree), NEW node \in Nodes,
         node[1] \in Operators =>
           Len(tree) > 0 /\ (node[1] # "!" => node[2] \in 1 .. Len(tree) - 1)
  PROVE  /\ Append(tree, node) \in Seq(Nodes)
         /\ Len(Append(tree, node)) = Len(tree) + 1
         /\ WellFormed(Append(tree, node))
<1> DEFINE t == Append(tree, node)
<1>1. Len(tree) \in Nat /\ t \in Seq(Nodes) /\ Len(t) = Len(tree) + 1
  OBVIOUS
<1>2. ASSUME NEW n \in 1 .. Len(t), t[n][1] \in Operators
      PROVE  n > 1 /\ (t[n][1] # "!" => t[n][2] \in 1 .. n - 2)
  <2>1. CASE n \in 1 .. Len(tree)
    <3>1. t[n] = tree[n]
      BY <2>1
    <3> QED
      BY <1>2, <2>1, <3>1 DEF WellFormed
  <2>2. CASE n = Len(tree) + 1
    <3>1. t[n] = node
      BY <2>2
    <3> QED
      BY <1>1, <1>2, <2>2, <3>1
  <2> QED
    BY <1>1, <1>2, <2>1, <2>2
<1> QED
  BY <1>1, <1>2 DEF WellFormed

LEMMA PrecedenceIs ==
  ASSUME NEW op
  PROVE  Precedence(op) \in 0 .. 7
  BY DEF Precedence

LEMMA ParserInit0 == Init => ParserInv
  BY DEF Init, ParserInit, ParserInv, CallsTrue, WellFormed

LEMMA CallsFrom ==
  ASSUME ParserInv
  PROVE  \A i \in 1 .. Len(calls) : calls[i] \in Calls /\ calls[i].from \in Nat
<1>1. calls \in Seq(Calls)
  BY DEF ParserInv
<1>2. \A c \in Calls : c.from \in Nat
  BY DEF Calls
<1> QED
  BY <1>1, <1>2

LEMMA RefuseStep ==
  ASSUME ParserInv, Refuse
  PROVE  ParserInv'
  BY DEF Refuse, ParserInv, CallsTrue, WellFormed

LEMMA BeginsStep ==
  ASSUME ParserInv, ParseBegins(Valid)
  PROVE  ParserInv'
<1>1. CASE Sentence(source, Valid)
  <2>1. /\ parse = "idle" /\ parse' = "operand" /\ UNCHANGED <<source, pos, code>>
        /\ calls' = <<[op |-> "all", min |-> 1, from |-> 0, begin |-> 1]>>
    BY <1>1 DEF ParseBegins, Sentence, Call, ParserInv
  <2>2. code = <<>>
    BY <2>1 DEF ParserInv
  <2>3. calls' \in Seq(Calls) /\ CallsTrue'
    BY <2>1, <2>2 DEF Calls, CallsTrue
  <2>4. WellFormed(code)' /\ Sentence(source, Valid)'
    BY <1>1, <2>1 DEF ParserInv, WellFormed, Sentence
  <2> QED
    BY <2>1, <2>2, <2>3, <2>4 DEF ParserInv
<1>2. CASE ~ Sentence(source, Valid)
  BY <1>2, RefuseStep DEF ParseBegins, Sentence
<1> QED
  BY <1>1, <1>2

(* A leaf is made.                                                         *)
LEMMA LeafStep ==
  ASSUME ParserInv, parse = "operand", NEW node \in Nodes, node[1] \notin Operators,
         Make(node), pos' = pos + 1, parse' = "behind", UNCHANGED <<source, calls>>
  PROVE  ParserInv'
<1>1. code \in Seq(Nodes) /\ WellFormed(code) /\ code' = Append(code, node)
  BY DEF ParserInv, Make
<1>2. code' \in Seq(Nodes) /\ Len(code') = Len(code) + 1 /\ WellFormed(code')
  BY <1>1, AppendWellFormed
<1>3. CallsTrue'
  <2>1. ASSUME NEW i \in 1 .. Len(calls)
        PROVE  /\ calls[i].op \notin {"all", "(", "!"} => calls[i].from > 0
               /\ calls[i].from <= Len(code) /\ calls[i].from \in Nat
    BY <2>1, CallsFrom DEF ParserInv, CallsTrue
  <2>2. calls # <<>> /\ calls[1].op = "all"
    BY DEF ParserInv, CallsTrue
  <2>3. Len(code) \in Nat
    BY <1>1
  <2> QED
    BY <1>2, <2>1, <2>2, <2>3 DEF CallsTrue
<1>4. WellFormed(code)' /\ Sentence(source, Valid)'
  BY <1>2 DEF ParserInv, Sentence, WellFormed
<1> QED
  BY <1>2, <1>3, <1>4 DEF ParserInv

(* A call of parseExpression is made.                                      *)
LEMMA CallStep ==
  ASSUME ParserInv, parse \in {"operand", "behind"},
         NEW op \in {"("} \union Operators, NEW min \in 1 .. 8,
         parse = "operand" => op \in {"(", "!"},
         calls' = Append(calls, Call(op, min, pos + 1)),
         pos' = pos + 1, parse' = "operand", UNCHANGED <<source, code>>
  PROVE  ParserInv'
<1> DEFINE call == Call(op, min, pos + 1)
<1>1. code \in Seq(Nodes) /\ calls \in Seq(Calls) /\ Len(code) \in Nat /\ Len(calls) \in Nat
      /\ pos + 1 \in Nat
  BY DEF ParserInv
<1>2. call \in Calls /\ call.op = op /\ call.from = Len(code)
  BY <1>1 DEF Call, Calls
<1>3. calls # <<>> /\ calls[1].op = "all" /\ Len(calls) > 0
  BY <1>1 DEF ParserInv, CallsTrue
<1>4. parse = "behind" => Len(code) > 0
  <2>1. parse = "behind" => calls[1].from < Len(code)
    BY <1>1, <1>3 DEF ParserInv, CallsTrue
  <2>2. calls[1].from \in Nat
    BY <1>1, <1>3, CallsFrom
  <2> QED
    BY <1>1, <2>1, <2>2
<1> HIDE DEF call
<1>5. calls' \in Seq(Calls) /\ Len(calls') = Len(calls) + 1 /\ calls' # <<>>
  BY <1>1, <1>2 DEF call
<1>6. CallsTrue'
  <2>1. ASSUME NEW i \in 1 .. Len(calls')
        PROVE  /\ calls'[i].op \notin {"all", "(", "!"} => calls'[i].from > 0
               /\ calls'[i].from <= Len(code)
    <3>1. CASE i \in 1 .. Len(calls)
      <4>1. calls'[i] = calls[i]
        BY <1>1, <1>2, <3>1
      <4> QED
        BY <3>1, <4>1 DEF ParserInv, CallsTrue
    <3>2. CASE i = Len(calls) + 1
      <4>1. calls'[i] = call
        BY <1>1, <1>2, <3>2 DEF call
      <4> QED
        BY <1>1, <1>2, <1>4, <4>1
    <3> QED
      BY <1>1, <1>5, <2>1, <3>1, <3>2
  <2>2. calls'[1] = calls[1]
    BY <1>1, <1>2, <1>3
  <2> QED
    BY <1>3, <1>5, <2>1, <2>2 DEF CallsTrue
<1>7. WellFormed(code)' /\ Sentence(source, Valid)'
  BY DEF ParserInv, Sentence, WellFormed
<1> QED
  BY <1>5, <1>6, <1>7 DEF ParserInv

(* A call returns: its operand is behind what there was before it.         *)
LEMMA ReturnStep ==
  ASSUME ParserInv, parse = "behind", Innermost.op # "all",
         calls' = Front(calls), UNCHANGED <<source, parse>>,
         pos' = pos \/ pos' = pos + 1,
         code' \in Seq(Nodes), Len(code') \in Nat, Len(code) <= Len(code'), WellFormed(code')
  PROVE  ParserInv'
<1>1. code \in Seq(Nodes) /\ calls \in Seq(Calls) /\ Len(code) \in Nat
      /\ calls # <<>> /\ calls[1].op = "all"
  BY DEF ParserInv, CallsTrue
<1>2. /\ calls' \in Seq(Calls) /\ Len(calls') = Len(calls) - 1
      /\ \A i \in 1 .. Len(calls) - 1 : calls'[i] = calls[i]
      /\ Len(calls) \in Nat \ {0}
  BY <1>1, FrontOf
<1>3. Len(calls) # 1
  BY <1>1 DEF Innermost
<1>4. calls' # <<>> /\ calls'[1].op = "all"
  <2>1. 1 \in 1 .. Len(calls) - 1 /\ Len(calls') # 0
    BY <1>2, <1>3
  <2> QED
    BY <1>1, <1>2, <2>1
<1>5. CallsTrue'
  <2>1. ASSUME NEW i \in 1 .. Len(calls')
        PROVE  /\ calls'[i].op \notin {"all", "(", "!"} => calls'[i].from > 0
               /\ calls'[i].from < Len(code') /\ calls'[i].from \in Nat
    <3>1. i \in 1 .. Len(calls) /\ calls'[i] = calls[i]
      BY <1>2, <2>1
    <3>2. calls[i].from < Len(code) /\ calls[i].from \in Nat
      BY <3>1, CallsFrom DEF ParserInv, CallsTrue
    <3> QED
      BY <1>1, <3>1, <3>2 DEF ParserInv, CallsTrue
  <2> QED
    BY <1>4, <2>1 DEF CallsTrue
<1>6. WellFormed(code)' /\ Sentence(source, Valid)'
  BY DEF ParserInv, Sentence, WellFormed
<1> QED
  BY <1>2, <1>5, <1>6 DEF ParserInv

(* What the parser makes is well formed after every token and return.      *)
LEMMA ParseStepKeeps ==
  ASSUME ParserInv, ParseStep
  PROVE  ParserInv'
<1>1. CASE ParseLiteral
  <2>1. Peek[2] \in Literals
    BY <1>1, PeekIs DEF ParseLiteral
  <2>2. CASE LiteralValue(Peek[2]) = Error
    BY <1>1, <2>2, RefuseStep DEF ParseLiteral
  <2>3. CASE LiteralValue(Peek[2]) # Error
    <3>1. <<"lit", LiteralValue(Peek[2])>> \in Nodes
      BY <2>1, <2>3, LiteralIsNode
    <3>2. "lit" \notin Operators
      BY DEF Operators, Comparisons, BitOperators
    <3> QED
      BY <1>1, <2>3, <3>1, <3>2, LeafStep DEF ParseLiteral
  <2> QED
    BY <2>2, <2>3
<1>2. CASE ParsePath
  <2>1. Peek \in Nodes
    BY <1>2, PeekIs DEF ParsePath, Nodes
  <2>2. "path" \notin Operators
    BY DEF Operators, Comparisons, BitOperators
  <2> QED
    BY <1>2, <2>1, <2>2, LeafStep DEF ParsePath
<1>3. CASE ParsePrefix
  <2>1. PICK op \in {"!", "("} : calls' = Append(calls, Call(op, Inside(op), pos + 1))
    BY <1>3 DEF ParsePrefix
  <2>2. Inside(op) \in 1 .. 8 /\ op \in {"("} \union Operators
    BY DEF Inside, Operators
  <2> QED
    BY <1>3, <2>1, <2>2, CallStep DEF ParsePrefix
<1>4. CASE NoOperand
  BY <1>4, RefuseStep DEF NoOperand
<1>5. CASE ParseOperator
  <2>1. Peek[2] \in Operators
    BY <1>5, PeekIs DEF ParseOperator, TakesIn, IsOp
  <2>2. Precedence(Peek[2]) + 1 \in 1 .. 8
    BY PrecedenceIs
  <2> QED
    BY <1>5, <2>1, <2>2, CallStep DEF ParseOperator
<1>6. CASE OperandReturns
  <2> DEFINE op == Innermost.op
             right == IF op = "!" THEN 0 ELSE Len(code) - Innermost.from
  <2>1. code \in Seq(Nodes) /\ calls \in Seq(Calls) /\ calls # <<>> /\ WellFormed(code)
        /\ Len(code) \in Nat
    BY <1>6 DEF OperandReturns, ParserInv, CallsTrue
  <2>2. Innermost \in Calls /\ Len(calls) \in 1 .. Len(calls)
    BY <2>1, FrontOf DEF Innermost
  <2>3. /\ op \in Operators /\ Innermost.from \in Nat /\ Innermost.from < Len(code)
        /\ op # "!" => Innermost.from > 0
    BY <1>6, <2>2 DEF OperandReturns, ParserInv, CallsTrue, Innermost, Calls
  <2>4. op # "!" => right \in 1 .. Len(code) - 1
    BY <2>1, <2>3
  <2>5. <<op, right>> \in Nodes
    BY <2>1, <2>3, <2>4 DEF Nodes
  <2>6. code' = Append(code, <<op, right>>)
    BY <1>6 DEF OperandReturns, Make
  <2>7. Len(code) > 0
    BY <2>1, <2>3
  <2> HIDE DEF right
  <2>8. code' \in Seq(Nodes) /\ Len(code') = Len(code) + 1 /\ WellFormed(code')
    BY <2>1, <2>4, <2>5, <2>6, <2>7, AppendWellFormed
  <2> QED
    BY <1>6, <2>1, <2>8, ReturnStep DEF OperandReturns
<1>7. CASE ParenthesisReturns
  <2>1. CASE Peek = <<")">>
    <3>1. code' \in Seq(Nodes) /\ Len(code') \in Nat /\ Len(code) <= Len(code')
          /\ WellFormed(code')
      BY <1>7, <2>1 DEF ParenthesisReturns, ParserInv
    <3> QED
      BY <1>7, <2>1, <3>1, ReturnStep DEF ParenthesisReturns
  <2>2. CASE Peek # <<")">>
    BY <1>7, <2>2, RefuseStep DEF ParenthesisReturns
  <2> QED
    BY <2>1, <2>2
<1>8. CASE ParseEnds
  <2>1. CASE pos > Len(source)
    <3>1. /\ parse' = "accepted" /\ calls' = <<>> /\ UNCHANGED <<source, pos, code>>
          /\ parse = "behind"
      BY <1>8, <2>1 DEF ParseEnds
    <3>2. code # <<>>
      <4>1. calls # <<>> /\ calls \in Seq(Calls) /\ code \in Seq(Nodes)
        BY <3>1 DEF ParserInv, CallsTrue
      <4>2. calls[1].from < Len(code) /\ calls[1].from \in Nat
        BY <3>1, <4>1, CallsFrom DEF ParserInv, CallsTrue
      <4> QED
        BY <4>1, <4>2
    <3>3. CallsTrue'
      BY <3>1 DEF CallsTrue
    <3>4. WellFormed(code)'
      BY <3>1 DEF ParserInv, WellFormed
    <3> QED
      BY <3>1, <3>2, <3>3, <3>4 DEF ParserInv
  <2>2. CASE ~ (pos > Len(source))
    BY <1>8, <2>2, RefuseStep DEF ParseEnds
  <2> QED
    BY <2>1, <2>2
<1> QED
  BY <1>1, <1>2, <1>3, <1>4, <1>5, <1>6, <1>7, <1>8 DEF ParseStep

--------------------------------------------------------------------------------
(* The grammar *)

(* A part is less than another if it has fewer tokens or, as many, a       *)
(* higher level.                                                           *)
Size(lo, hi, level) == IF lo > hi THEN 8 - level ELSE 8 * (hi - lo + 1) + 8 - level
Measure(part) == Size(part[1], part[2], part[3])

LEMMA PartsAre ==
  ASSUME NEW s, NEW lo, NEW hi, NEW level
  PROVE  /\ <<lo, hi, level>> \in Parts(s)
              <=> lo \in 1 .. Len(s) + 1 /\ hi \in 0 .. Len(s) /\ level \in 1 .. 8
         /\ Measure(<<lo, hi, level>>) = Size(lo, hi, level)
  BY DEF Parts, Measure

LEMMA SizeBound ==
  ASSUME NEW lo \in Nat, NEW hi \in Nat, NEW level \in 1 .. 8
  PROVE  Size(lo, hi, level) \in Nat /\ Size(lo, hi, level) < 8 * (hi + 2)
  BY DEF Size

LEMMA HigherLevel ==
  ASSUME NEW lo \in Nat, NEW hi \in Nat, NEW level \in 1 .. 8
  PROVE  Size(lo, hi, level + 1) < Size(lo, hi, level)
  BY DEF Size

LEMMA FewerTokens ==
  ASSUME NEW lo \in Nat, NEW hi \in Nat, NEW level \in 1 .. 8, NEW k \in 1 .. 8, lo <= hi
  PROVE  /\ Size(lo + 1, hi, k) < Size(lo, hi, level)
         /\ Size(lo + 1, hi - 1, k) < Size(lo, hi, level)
         /\ \A i \in lo + 1 .. hi - 1 :
              Size(lo, i - 1, k) < Size(lo, hi, level) /\ Size(i + 1, hi, k) < Size(lo, hi, level)
<1>1. Size(lo + 1, hi, k) < Size(lo, hi, level) /\ Size(lo + 1, hi - 1, k) < Size(lo, hi, level)
  BY DEF Size
<1>2. ASSUME NEW i \in lo + 1 .. hi - 1
      PROVE  Size(lo, i - 1, k) < Size(lo, hi, level) /\ Size(i + 1, hi, k) < Size(lo, hi, level)
  BY DEF Size
<1> QED
  BY <1>1, <1>2

(* The trees of a part depend on those of lesser ones only.                *)
LEMMA RuleIsLocal ==
  ASSUME NEW s, Len(s) \in Nat, NEW f, NEW g,
         NEW lo \in 1 .. Len(s) + 1, NEW hi \in 0 .. Len(s), NEW level \in 1 .. 8,
         \A part \in Parts(s) : Measure(part) < Size(lo, hi, level) => f[part] = g[part]
  PROVE  Rule(s, f, lo, hi, level) = Rule(s, g, lo, hi, level)
<1>0. ASSUME NEW l \in 1 .. Len(s) + 1, NEW h \in 0 .. Len(s), NEW k \in 1 .. 8,
             Size(l, h, k) < Size(lo, hi, level)
      PROVE  f[<<l, h, k>>] = g[<<l, h, k>>]
  <2>1. <<l, h, k>> \in Parts(s) /\ Measure(<<l, h, k>>) = Size(l, h, k)
    BY PartsAre
  <2> QED
    BY <1>0, <2>1
<1>a. lo \in Nat /\ hi \in Nat
  OBVIOUS
<1>1. CASE level < 8
  <2>1. f[<<lo, hi, level + 1>>] = g[<<lo, hi, level + 1>>]
    <3>1. level + 1 \in 1 .. 8
      BY <1>1
    <3>2. Size(lo, hi, level + 1) < Size(lo, hi, level)
      BY <1>a, HigherLevel
    <3> QED
      BY <1>0, <3>1, <3>2
  <2>2. ASSUME NEW i \in lo + 1 .. hi - 1
        PROVE  /\ f[<<lo, i - 1, level>>] = g[<<lo, i - 1, level>>]
               /\ f[<<i + 1, hi, level + 1>>] = g[<<i + 1, hi, level + 1>>]
    <3>1. /\ i - 1 \in 0 .. Len(s) /\ i - 1 < hi /\ i - 1 \in Nat /\ lo <= hi
          /\ i + 1 \in 1 .. Len(s) + 1 /\ lo < i + 1 /\ i + 1 \in Nat /\ level + 1 \in 1 .. 8
      BY <1>1, <2>2
    <3>2. Size(lo, i - 1, level) < Size(lo, hi, level)
      BY <1>a, <3>1, <2>2, FewerTokens
    <3>3. Size(i + 1, hi, level + 1) < Size(lo, hi, level)
      BY <1>a, <3>1, <2>2, FewerTokens
    <3>4. f[<<lo, i - 1, level>>] = g[<<lo, i - 1, level>>]
      BY <1>0, <3>1, <3>2
    <3>5. f[<<i + 1, hi, level + 1>>] = g[<<i + 1, hi, level + 1>>]
      BY <1>0, <3>1, <3>3
    <3> QED
      BY <3>4, <3>5
  <2> DEFINE splits == {i \in lo + 1 .. hi - 1 : IsOp(s[i]) /\ Precedence(s[i][2]) = level}
             made(i, ls, rs) == {l \o r \o <<<<s[i][2], Len(r)>>>> : l \in ls, r \in rs}
             trees(h, i) == made(i, h[<<lo, i - 1, level>>], h[<<i + 1, hi, level + 1>>])
  <2>3. \A i \in splits : trees(f, i) = trees(g, i)
    <3> HIDE DEF made
    <3> QED
      BY <2>2
  <2>4. /\ Rule(s, f, lo, hi, level) = f[<<lo, hi, level + 1>>] \union UNION {trees(f, i) : i \in splits}
        /\ Rule(s, g, lo, hi, level) = g[<<lo, hi, level + 1>>] \union UNION {trees(g, i) : i \in splits}
    BY <1>1 DEF Rule
  <2> HIDE DEF trees, splits
  <2>5. {trees(f, i) : i \in splits} = {trees(g, i) : i \in splits}
    BY <2>3
  <2> QED
    BY <2>1, <2>4, <2>5
<1>2. CASE level = 8
  <2>1. CASE lo < hi
    <3>1. /\ lo + 1 \in 1 .. Len(s) + 1 /\ hi - 1 \in 0 .. Len(s) /\ lo + 1 \in Nat /\ hi - 1 \in Nat
          /\ 8 \in 1 .. 8 /\ 1 \in 1 .. 8
      BY <2>1
    <3>2. lo <= hi
      BY <2>1
    <3>3. f[<<lo + 1, hi, 8>>] = g[<<lo + 1, hi, 8>>]
      <4>1. Size(lo + 1, hi, 8) < Size(lo, hi, level)
        BY <1>a, <3>1, <3>2, FewerTokens
      <4> QED
        BY <1>0, <3>1, <4>1
    <3>4. f[<<lo + 1, hi - 1, 1>>] = g[<<lo + 1, hi - 1, 1>>]
      <4>1. Size(lo + 1, hi - 1, 1) < Size(lo, hi, level)
        BY <1>a, <3>1, <3>2, FewerTokens
      <4> QED
        BY <1>0, <3>1, <4>1
    <3> QED
      BY <1>2, <2>1, <3>3, <3>4 DEF Rule
  <2>2. CASE ~ (lo < hi)
    BY <1>2, <2>2 DEF Rule
  <2> QED
    BY <2>1, <2>2
<1> QED
  BY <1>1, <1>2

(* Every part has its trees.                                               *)
LEMMA GrammarUnfolds ==
  ASSUME NEW s, Len(s) \in Nat,
         NEW lo \in 1 .. Len(s) + 1, NEW hi \in 0 .. Len(s), NEW level \in 1 .. 8
  PROVE  Grammar(s)[<<lo, hi, level>>] = Rule(s, Grammar(s), lo, hi, level)
<1> DEFINE rule(f, part) == Rule(s, f, part[1], part[2], part[3])
           Solves(f, k) == \A part \in Parts(s) : Measure(part) < k => f[part] = rule(f, part)
           bound == 8 * (Len(s) + 2)
<1>1. ASSUME NEW part \in Parts(s)
      PROVE  /\ part[1] \in 1 .. Len(s) + 1 /\ part[2] \in 0 .. Len(s) /\ part[3] \in 1 .. 8
             /\ part = <<part[1], part[2], part[3]>>
             /\ Measure(part) \in Nat /\ Measure(part) < bound
  <2>1. /\ part[1] \in 1 .. Len(s) + 1 /\ part[2] \in 0 .. Len(s) /\ part[3] \in 1 .. 8
        /\ part = <<part[1], part[2], part[3]>>
    BY <1>1 DEF Parts
  <2>2. Measure(part) \in Nat /\ Measure(part) < 8 * (part[2] + 2)
    <3>1. part[1] \in Nat /\ part[2] \in Nat
      BY <2>1
    <3> QED
      BY <2>1, <3>1, SizeBound DEF Measure
  <2>3. 8 * (part[2] + 2) <= bound /\ part[2] \in Nat /\ bound \in Nat
    BY <2>1
  <2> HIDE DEF bound
  <2> QED
    BY <2>1, <2>2, <2>3
<1>2. ASSUME NEW f, NEW g, NEW part \in Parts(s),
             \A p \in Parts(s) : Measure(p) < Measure(part) => f[p] = g[p]
      PROVE  rule(f, part) = rule(g, part)
  <2>1. PICK l \in 1 .. Len(s) + 1, h \in 0 .. Len(s), k \in 1 .. 8 : part = <<l, h, k>>
    BY <1>1
  <2>2. \A p \in Parts(s) : Measure(p) < Size(l, h, k) => f[p] = g[p]
    BY <1>2, <2>1 DEF Measure
  <2>3. Rule(s, f, l, h, k) = Rule(s, g, l, h, k)
    <3>1. /\ Len(s) \in Nat /\ l \in 1 .. Len(s) + 1 /\ h \in 0 .. Len(s) /\ k \in 1 .. 8
      OBVIOUS
    <3> HIDE DEF bound
    <3> QED
      BY <2>2, <3>1, RuleIsLocal, SMTT(30)
  <2> QED
    BY <2>1, <2>3
<1>3. ASSUME NEW k \in Nat, NEW f, Solves(f, k) PROVE \E g : Solves(g, k + 1)
  <2> DEFINE g == [p \in Parts(s) |-> IF Measure(p) < k THEN f[p] ELSE rule(f, p)]
  <2>1. ASSUME NEW part \in Parts(s), Measure(part) < k + 1 PROVE g[part] = rule(g, part)
    <3>1. Measure(part) \in Nat /\ Measure(part) <= k
      BY <1>1, <2>1
    <3>2. g[part] = rule(f, part)
      BY <1>3, <2>1
    <3>3. \A p \in Parts(s) : Measure(p) < Measure(part) => f[p] = g[p]
      <4>1. ASSUME NEW p \in Parts(s), Measure(p) < Measure(part) PROVE Measure(p) < k
        BY <1>1, <3>1, <4>1
      <4> QED
        BY <4>1
    <3> HIDE DEF g
    <3> QED
      BY <1>2, <2>1, <3>2, <3>3
  <2> HIDE DEF g
  <2> QED
    BY <2>1
<1> DEFINE Unsolved == {k \in Nat : ~ \E f : Solves(f, k)}
<1>4. Unsolved = {}
  <2>1. SUFFICES ASSUME Unsolved # {} PROVE FALSE
    OBVIOUS
  <2>2. Unsolved \in SUBSET Nat
    OBVIOUS
  <2> HIDE DEF Solves
  <2>3. PICK k \in Unsolved : \A j \in Unsolved : k <= j
    BY <2>1, <2>2, Least
  <2>4. k # 0
    <3>1. Solves(<<>>, 0)
      BY <1>1 DEF Solves
    <3> QED
      BY <2>3, <3>1
  <2>5. k - 1 \in Nat /\ k - 1 \notin Unsolved /\ k - 1 + 1 = k
    BY <2>3, <2>4
  <2>6. PICK f : Solves(f, k - 1)
    BY <2>5
  <2>7. \E g : Solves(g, k - 1 + 1)
    BY <1>3, <2>5, <2>6
  <2> QED
    BY <2>3, <2>5, <2>7
<1>5. PICK f : Solves(f, bound)
  <2>1. bound \in Nat
    OBVIOUS
  <2> HIDE DEF Solves, bound
  <2> QED
    BY <1>4, <2>1
<1> DEFINE Whole(h) == h = [part \in Parts(s) |-> rule(h, part)]
           h0 == [part \in Parts(s) |-> f[part]]
<1>6. Whole(h0)
  <2>1. ASSUME NEW part \in Parts(s) PROVE h0[part] = rule(h0, part)
    <3>1. f[part] = rule(f, part)
      BY <1>1, <1>5, <2>1
    <3>2. rule(f, part) = rule(h0, part)
      <4>1. \A p \in Parts(s) : f[p] = h0[p]
        OBVIOUS
      <4> HIDE DEF h0
      <4> QED
        BY <1>2, <2>1, <4>1
    <3> QED
      BY <3>1, <3>2
  <2> HIDE DEF rule
  <2> QED
    BY <2>1
<1>7. Grammar(s) = CHOOSE h : Whole(h)
  BY DEF Grammar
<1>8. Whole(Grammar(s))
  <2> HIDE DEF Whole, h0
  <2> QED
    BY <1>6, <1>7
<1>9. <<lo, hi, level>> \in Parts(s)
  BY PartsAre
<1> QED
  BY <1>8, <1>9

PartTrees(s, lo, hi, level) == Grammar(s)[<<lo, hi, level>>]

(* A tree with the operator at i between its operands.                     *)
Joined(s, i, l, r) == l \o r \o <<<<s[i][2], Len(r)>>>>

IsSplit(s, i, level) == IsOp(s[i]) /\ Precedence(s[i][2]) = level

(* The trees of a level are those of the next one and those with an        *)
(* operator of the level.                                                  *)
LEMMA TreesOfLevel ==
  ASSUME NEW s, Len(s) \in Nat,
         NEW lo \in 1 .. Len(s) + 1, NEW hi \in 0 .. Len(s), NEW level \in 1 .. 7, NEW t
  PROVE  t \in PartTrees(s, lo, hi, level) <=>
           \/ t \in PartTrees(s, lo, hi, level + 1)
           \/ \E i \in lo + 1 .. hi - 1 :
                /\ IsSplit(s, i, level)
                /\ \E l \in PartTrees(s, lo, i - 1, level),
                      r \in PartTrees(s, i + 1, hi, level + 1) : t = Joined(s, i, l, r)
<1>0. level \in 1 .. 8 /\ level < 8
  OBVIOUS
<1>1. PartTrees(s, lo, hi, level) = Rule(s, Grammar(s), lo, hi, level)
  BY <1>0, GrammarUnfolds DEF PartTrees
<1> DEFINE splits == {i \in lo + 1 .. hi - 1 : IsOp(s[i]) /\ Precedence(s[i][2]) = level}
           made(i) == {Joined(s, i, l, r) :
                         l \in PartTrees(s, lo, i - 1, level), r \in PartTrees(s, i + 1, hi, level + 1)}
<1>2. Rule(s, Grammar(s), lo, hi, level)
        = PartTrees(s, lo, hi, level + 1) \union UNION {made(i) : i \in splits}
  <2> DEFINE g == Grammar(s)
             joins(i) == {l \o r \o <<<<s[i][2], Len(r)>>>> :
                            l \in g[<<lo, i - 1, level>>], r \in g[<<i + 1, hi, level + 1>>]}
  <2>1. Rule(s, g, lo, hi, level) = g[<<lo, hi, level + 1>>] \union UNION {joins(i) : i \in splits}
    <3> HIDE DEF g
    <3> QED
      BY <1>0 DEF Rule
  <2>2. \A i : joins(i) = made(i)
    BY DEF PartTrees, Joined
  <2> HIDE DEF joins, made, splits
  <2>3. {joins(i) : i \in splits} = {made(i) : i \in splits}
    BY <2>2
  <2> QED
    BY <2>1, <2>3 DEF PartTrees
<1>3. t \in UNION {made(i) : i \in splits} <=> \E i \in splits : t \in made(i)
  <2> HIDE DEF made, splits
  <2> QED
    OBVIOUS
<1>4. \A i : t \in made(i) <=>
        \E l \in PartTrees(s, lo, i - 1, level), r \in PartTrees(s, i + 1, hi, level + 1) :
          t = Joined(s, i, l, r)
  OBVIOUS
<1>5. \A i : i \in splits <=> i \in lo + 1 .. hi - 1 /\ IsSplit(s, i, level)
  BY DEF IsSplit
<1> HIDE DEF made, splits
<1> QED
  BY <1>1, <1>2, <1>3, <1>4, <1>5

(* What stands between two operators.                                      *)
LEMMA TreesOfOperand ==
  ASSUME NEW s, Len(s) \in Nat, NEW lo \in 1 .. Len(s) + 1, NEW hi \in 0 .. Len(s), NEW t
  PROVE  t \in PartTrees(s, lo, hi, 8) <=>
           \/ lo = hi /\ t \in Leaf(s[lo])
           \/ /\ lo < hi /\ s[lo] = <<"op", "!">>
              /\ \E u \in PartTrees(s, lo + 1, hi, 8) : t = Append(u, <<"!", 0>>)
           \/ /\ lo < hi /\ s[lo] = <<"(">> /\ s[hi] = <<")">>
              /\ t \in PartTrees(s, lo + 1, hi - 1, 1)
<1>0. 8 \in 1 .. 8 /\ ~ (8 < 8) /\ lo \in Int /\ hi \in Int
  OBVIOUS
<1>1. PartTrees(s, lo, hi, 8) = Rule(s, Grammar(s), lo, hi, 8)
  BY <1>0, GrammarUnfolds DEF PartTrees
<1>2. <<"op", "!">> # <<"(">>
  OBVIOUS
<1>3. CASE lo = hi
  BY <1>0, <1>1, <1>3 DEF Rule
<1>4. CASE lo > hi
  BY <1>0, <1>1, <1>4 DEF Rule
<1>5. CASE lo < hi
  <2>1. lo # hi /\ ~ (lo > hi)
    BY <1>0, <1>5
  <2>2. CASE s[lo] = <<"op", "!">>
    <3>1. PartTrees(s, lo, hi, 8) = {Append(u, <<"!", 0>>) : u \in PartTrees(s, lo + 1, hi, 8)}
      BY <1>0, <1>1, <2>1, <2>2 DEF Rule, PartTrees
    <3> QED
      BY <1>2, <2>1, <2>2, <3>1, <1>5
  <2>3. CASE s[lo] # <<"op", "!">>
    BY <1>0, <1>1, <1>5, <2>1, <2>3 DEF Rule, PartTrees
  <2> QED
    BY <2>2, <2>3
<1> QED
  BY <1>0, <1>3, <1>4, <1>5

LEMMA LowerLevel ==
  ASSUME NEW s, Len(s) \in Nat, NEW lo \in 1 .. Len(s) + 1, NEW hi \in 0 .. Len(s),
         NEW a \in 1 .. 8, NEW b \in 1 .. 8, a <= b, NEW t \in PartTrees(s, lo, hi, b)
  PROVE  t \in PartTrees(s, lo, hi, a)
<1> DEFINE Lacking == {d \in 0 .. b - a : t \notin PartTrees(s, lo, hi, b - d)}
<1>1. Lacking = {}
  <2> SUFFICES ASSUME Lacking # {} PROVE FALSE
    OBVIOUS
  <2>0. Lacking \in SUBSET Nat
    OBVIOUS
  <2> HIDE DEF Lacking
  <2>1. PICK d \in Lacking : \A e \in Lacking : d <= e
    BY <2>0, Least
  <2>2. d \in 0 .. b - a /\ t \notin PartTrees(s, lo, hi, b - d)
    BY <2>1 DEF Lacking
  <2>3. d # 0
    <3>1. b - 0 = b
      OBVIOUS
    <3> QED
      BY <2>2, <3>1
  <2>4. d - 1 \in 0 .. b - a /\ d - 1 \notin Lacking
    BY <2>1, <2>2, <2>3
  <2>5. t \in PartTrees(s, lo, hi, b - (d - 1))
    BY <2>4 DEF Lacking
  <2>6. b - (d - 1) = (b - d) + 1 /\ b - d \in 1 .. 7
    BY <2>2, <2>3
  <2>7. t \in PartTrees(s, lo, hi, b - d)
    BY <2>5, <2>6, TreesOfLevel
  <2> QED
    BY <2>2, <2>7
<1>2. b - a \in 0 .. b - a /\ b - (b - a) = a
  OBVIOUS
<1> QED
  BY <1>1, <1>2

Sensible(s) == s \in Seq(Tokens) /\ Sentence(s, Valid)

LEMMA SensibleTokens ==
  ASSUME NEW s, Sensible(s), NEW i \in 1 .. Len(s)
  PROVE  /\ s[i][1] = "lit" => s[i][2] \in Literals
         /\ s[i][1] = "path" => s[i] \in {"path"} \X Valid
         /\ s[i][1] = "op" => s[i] = <<"op", s[i][2]>> /\ s[i][2] \in Operators
<1>1. s[i] \in Tokens /\ i \in DOMAIN s
  BY DEF Sensible
<1>2. s[i][1] = "path" => s[i][2] \in Valid
  BY <1>1 DEF Sensible, Sentence
<1>3. CASE s[i] \in {"lit"} \X Literals
  BY <1>3
<1>4. CASE s[i] \in {"path"} \X Paths
  BY <1>2, <1>4
<1>5. CASE s[i] \in {"op"} \X Operators
  BY <1>5
<1>6. CASE s[i] \in {<<"(">>, <<")">>}
  BY <1>6
<1> QED
  BY <1>1, <1>3, <1>4, <1>5, <1>6 DEF Tokens

(* ! is no operator of a level.                                            *)
LEMMA Precedences ==
  ASSUME NEW op \in Operators
  PROVE  Precedence(op) \in 0 .. 7 /\ (Precedence(op) >= 1 => op \in Operators \ {"!"})
<1>1. Precedence("!") = 0
  BY DEF Precedence, Comparisons
<1> QED
  BY <1>1, PrecedenceIs

(* Trees consist of nodes.                                                 *)
LEMMA TreesOfNodes ==
  ASSUME NEW s, Sensible(s)
  PROVE  \A lo \in 1 .. Len(s) + 1, hi \in 0 .. Len(s), level \in 1 .. 8 :
           PartTrees(s, lo, hi, level) \subseteq Seq(Nodes)
<1>0. Len(s) \in Nat
  BY DEF Sensible
<1> DEFINE Typed(lo, hi, level) == PartTrees(s, lo, hi, level) \subseteq Seq(Nodes)
           Untyped(n) == \E lo \in 1 .. Len(s) + 1, hi \in 0 .. Len(s), level \in 1 .. 8 :
                           Size(lo, hi, level) = n /\ ~ Typed(lo, hi, level)
           Sizes == {n \in Nat : Untyped(n)}
<1>1. SUFFICES ASSUME Sizes # {} PROVE FALSE
  <2>1. ASSUME NEW lo \in 1 .. Len(s) + 1, NEW hi \in 0 .. Len(s), NEW level \in 1 .. 8
        PROVE  Size(lo, hi, level) \in Nat
    <3>1. lo \in Nat /\ hi \in Nat
      BY <1>0
    <3> QED
      BY <3>1, SizeBound
  <2> QED
    BY <2>1
<1>2. PICK n \in Sizes : \A m \in Sizes : n <= m
  BY <1>1, Least
<1>3. PICK lo \in 1 .. Len(s) + 1, hi \in 0 .. Len(s), level \in 1 .. 8 :
        Size(lo, hi, level) = n /\ ~ Typed(lo, hi, level)
  BY <1>2
<1>4. ASSUME NEW l \in 1 .. Len(s) + 1, NEW h \in 0 .. Len(s), NEW k \in 1 .. 8,
             Size(l, h, k) < Size(lo, hi, level)
      PROVE  Typed(l, h, k)
  <2>1. l \in Nat /\ h \in Nat
    BY <1>0
  <2>2. Size(l, h, k) \in Nat
    BY <2>1, SizeBound
  <2>3. n \in Nat /\ Size(l, h, k) < n
    BY <1>2, <1>3, <1>4
  <2>4. ~ Untyped(Size(l, h, k))
    <3>1. Size(l, h, k) \notin Sizes
      <4> HIDE DEF Sizes
      <4> QED
        BY <1>2, <2>2, <2>3
    <3> QED
      BY <2>2, <3>1
  <2> HIDE DEF Typed
  <2> QED
    BY <2>4
<1> HIDE DEF Sizes, Untyped
<1>5. lo \in Nat /\ hi \in Nat
  BY <1>0
<1>6. ASSUME NEW t \in PartTrees(s, lo, hi, level) PROVE t \in Seq(Nodes)
  <2>1. CASE level < 8
    <3>0. level \in 1 .. 7 /\ level + 1 \in 1 .. 8
      BY <2>1
    <3>1. CASE t \in PartTrees(s, lo, hi, level + 1)
      <4>1. Typed(lo, hi, level + 1)
        BY <1>4, <1>5, <3>0, HigherLevel
      <4> QED
        BY <3>1, <4>1
    <3>2. ASSUME NEW i \in lo + 1 .. hi - 1, IsSplit(s, i, level),
                 NEW l \in PartTrees(s, lo, i - 1, level),
                 NEW r \in PartTrees(s, i + 1, hi, level + 1), t = Joined(s, i, l, r)
          PROVE  t \in Seq(Nodes)
      <4>1. /\ i - 1 \in 0 .. Len(s) /\ i + 1 \in 1 .. Len(s) + 1 /\ lo <= hi
            /\ i \in 1 .. Len(s)
        BY <1>0, <3>2
      <4>2. Size(lo, i - 1, level) < Size(lo, hi, level)
            /\ Size(i + 1, hi, level + 1) < Size(lo, hi, level)
        BY <1>5, <3>0, <3>2, <4>1, FewerTokens
      <4>3. Typed(lo, i - 1, level)
        BY <1>4, <4>1, <4>2
      <4>4. Typed(i + 1, hi, level + 1)
        BY <1>4, <3>0, <4>1, <4>2
      <4>5. l \in Seq(Nodes) /\ r \in Seq(Nodes)
        BY <3>2, <4>3, <4>4
      <4>6. s[i][2] \in Operators \ {"!"}
        BY <3>0, <3>2, <4>1, SensibleTokens, Precedences DEF IsSplit, IsOp
      <4>7. <<s[i][2], Len(r)>> \in Nodes
        BY <4>5, <4>6 DEF Nodes
      <4> QED
        BY <3>2, <4>5, <4>7 DEF Joined
    <3>3. \/ t \in PartTrees(s, lo, hi, level + 1)
          \/ \E i \in lo + 1 .. hi - 1 :
               /\ IsSplit(s, i, level)
               /\ \E l \in PartTrees(s, lo, i - 1, level),
                     r \in PartTrees(s, i + 1, hi, level + 1) : t = Joined(s, i, l, r)
      <4> HIDE DEF Typed, Untyped, Sizes
      <4>1. level \in 1 .. 7 /\ t \in PartTrees(s, lo, hi, level)
        BY <1>6, <3>0
      <4> QED
        BY <1>0, <4>1, TreesOfLevel, SMTT(30)
    <3> QED
      BY <3>1, <3>2, <3>3
  <2>2. CASE level = 8
    <3>1. CASE lo = hi /\ t \in Leaf(s[lo])
      <4>1. lo \in 1 .. Len(s)
        BY <3>1
      <4>2. CASE s[lo][1] = "lit" /\ LiteralValue(s[lo][2]) # Error
        <5>1. t = <<<<"lit", LiteralValue(s[lo][2])>>>>
          BY <3>1, <4>2 DEF Leaf
        <5> QED
          BY <4>1, <4>2, <5>1, SensibleTokens, LiteralIsNode
      <4>3. CASE s[lo][1] = "path"
        <5>1. t = <<s[lo]>> /\ s[lo] \in Nodes
          BY <3>1, <4>1, <4>3, SensibleTokens DEF Leaf, Nodes
        <5> QED
          BY <5>1
      <4> QED
        BY <3>1, <4>2, <4>3 DEF Leaf
    <3>2. ASSUME lo < hi, NEW u \in PartTrees(s, lo + 1, hi, 8), t = Append(u, <<"!", 0>>)
          PROVE  t \in Seq(Nodes)
      <4>1. lo <= hi /\ lo + 1 \in 1 .. Len(s) + 1 /\ 8 \in 1 .. 8
        BY <3>2
      <4>2. Size(lo + 1, hi, 8) < Size(lo, hi, level)
        BY <1>5, <4>1, FewerTokens
      <4>3. Typed(lo + 1, hi, 8)
        BY <1>4, <4>1, <4>2
      <4>4. <<"!", 0>> \in Nodes
        BY DEF Nodes
      <4> QED
        BY <3>2, <4>3, <4>4
    <3>3. ASSUME lo < hi, t \in PartTrees(s, lo + 1, hi - 1, 1) PROVE t \in Seq(Nodes)
      <4>1. lo <= hi /\ lo + 1 \in 1 .. Len(s) + 1 /\ hi - 1 \in 0 .. Len(s) /\ 1 \in 1 .. 8
        BY <3>3
      <4>2. Size(lo + 1, hi - 1, 1) < Size(lo, hi, level)
        BY <1>5, <4>1, FewerTokens
      <4>3. Typed(lo + 1, hi - 1, 1)
        BY <1>4, <4>1, <4>2
      <4> QED
        BY <3>3, <4>3
    <3> QED
      BY <1>0, <1>6, <2>2, <3>1, <3>2, <3>3, TreesOfOperand
  <2> QED
    BY <2>1, <2>2
<1> QED
  BY <1>3, <1>6

--------------------------------------------------------------------------------
(* The loop of parseExpression, along a tree *)

(* What the loop has: where it ends, the tree and its level.               *)
Stages(s) == (0 .. Len(s)) \X Seq(Nodes) \X (1 .. 8)

(* The loop gets from x to y by the operator behind x.                     *)
Extends(s, x, y) ==
  /\ x[1] + 1 <= Len(s)
  /\ IsSplit(s, x[1] + 1, y[3])
  /\ y[3] <= x[3]
  /\ \E r \in PartTrees(s, x[1] + 2, y[1], y[3] + 1) : y[2] = Joined(s, x[1] + 1, x[2], r)

Ends(x, hi, t, min) == x[1] = hi /\ x[2] = t /\ min <= x[3]

(* The stages from which the loop gets to the tree t that ends at hi.      *)
Backward(s, hi, t, min) ==
  {S \in SUBSET Stages(s) :
     \A x \in Stages(s) : Ends(x, hi, t, min) \/ (\E y \in S : Extends(s, x, y)) => x \in S}
Spine(s, hi, t, min) == {x \in Stages(s) : \A S \in Backward(s, hi, t, min) : x \in S}

LEMMA SpineCloses ==
  ASSUME NEW s, NEW hi, NEW t, NEW min, NEW x \in Stages(s),
         Ends(x, hi, t, min) \/ \E y \in Spine(s, hi, t, min) : Extends(s, x, y)
  PROVE  x \in Spine(s, hi, t, min)
<1>1. ASSUME NEW S \in Backward(s, hi, t, min) PROVE x \in S
  <2>1. Spine(s, hi, t, min) \subseteq S
    BY DEF Spine
  <2>2. Ends(x, hi, t, min) \/ (\E y \in S : Extends(s, x, y)) => x \in S
    BY DEF Backward
  <2> QED
    BY <2>1, <2>2
<1> QED
  BY <1>1 DEF Spine

LEMMA SpineInverts ==
  ASSUME NEW s, NEW hi, NEW t, NEW min, NEW x \in Spine(s, hi, t, min)
  PROVE  Ends(x, hi, t, min) \/ \E y \in Spine(s, hi, t, min) : Extends(s, x, y)
<1> DEFINE Led(z) == Ends(z, hi, t, min) \/ \E y \in Spine(s, hi, t, min) : Extends(s, z, y)
           S == {z \in Spine(s, hi, t, min) : Led(z)}
<1>1. S \in SUBSET Stages(s) /\ S \subseteq Spine(s, hi, t, min)
  BY DEF Spine
<1>2. ASSUME NEW z \in Stages(s), Ends(z, hi, t, min) \/ \E y \in S : Extends(s, z, y)
      PROVE  z \in S
  <2>1. Led(z)
    BY <1>1, <1>2
  <2>2. z \in Spine(s, hi, t, min)
    BY <2>1, SpineCloses
  <2> QED
    BY <2>1, <2>2
<1> HIDE DEF S
<1>3. S \in Backward(s, hi, t, min)
  BY <1>1, <1>2 DEF Backward
<1>4. x \in S
  BY <1>3 DEF Spine
<1> QED
  BY <1>4 DEF S

(* Induction along the spine: what holds of its end and is handed back.    *)
LEMMA SpineWithin ==
  ASSUME NEW s, NEW hi, NEW t, NEW min, NEW S,
         \A x \in Stages(s) : Ends(x, hi, t, min) \/ (\E y \in S : Extends(s, x, y)) => x \in S
  PROVE  Spine(s, hi, t, min) \subseteq S
<1> DEFINE R == S \intersect Stages(s)
<1>1. R \in Backward(s, hi, t, min)
  BY DEF Backward
<1> QED
  BY <1>1 DEF Spine

LEMMA SpineLevels ==
  ASSUME NEW s, NEW hi, NEW t, NEW min \in 1 .. 8
  PROVE  \A x \in Spine(s, hi, t, min) : x \in Stages(s) /\ min <= x[3]
<1> DEFINE S == {x \in Stages(s) : min <= x[3]}
<1>1. ASSUME NEW x \in Stages(s), Ends(x, hi, t, min) \/ \E y \in S : Extends(s, x, y)
      PROVE  x \in S
  <2>1. CASE Ends(x, hi, t, min)
    BY <2>1 DEF Ends
  <2>2. ASSUME NEW y \in S, Extends(s, x, y) PROVE x \in S
    <3>1. y[3] \in Int /\ x[3] \in Int /\ min <= y[3] /\ y[3] <= x[3]
      BY <2>2 DEF Stages, Extends
    <3> QED
      BY <3>1
  <2> QED
    BY <1>1, <2>1, <2>2
<1> HIDE DEF S
<1>2. Spine(s, hi, t, min) \subseteq S
  BY <1>1, SpineWithin
<1> QED
  BY <1>2 DEF S

LEMMA SpineWeaker ==
  ASSUME NEW s, NEW hi, NEW t, NEW min \in 1 .. 7
  PROVE  Spine(s, hi, t, min + 1) \subseteq Spine(s, hi, t, min)
<1>1. ASSUME NEW x \in Stages(s), Ends(x, hi, t, min + 1) PROVE Ends(x, hi, t, min)
  <2>1. x[3] \in Int
    BY DEF Stages
  <2> QED
    BY <1>1, <2>1 DEF Ends
<1>2. \A x \in Stages(s) :
        Ends(x, hi, t, min + 1) \/ (\E y \in Spine(s, hi, t, min) : Extends(s, x, y))
          => x \in Spine(s, hi, t, min)
  BY <1>1, SpineCloses
<1> QED
  BY <1>2, SpineWithin

(* The loop gets to the left operand and goes on to the whole.             *)
LEMMA SpineJoins ==
  ASSUME NEW s, Len(s) \in Nat, NEW hi \in 0 .. Len(s), NEW min \in 1 .. 7,
         NEW i \in 1 .. Len(s), IsSplit(s, i, min),
         NEW l, NEW r \in PartTrees(s, i + 1, hi, min + 1), Joined(s, i, l, r) \in Seq(Nodes)
  PROVE  Spine(s, i - 1, l, min) \subseteq Spine(s, hi, Joined(s, i, l, r), min)
<1> DEFINE whole == <<hi, Joined(s, i, l, r), min>>
<1>1. whole \in Stages(s) /\ whole[1] = hi /\ whole[2] = Joined(s, i, l, r) /\ whole[3] = min
  BY DEF Stages
<1> HIDE DEF whole
<1>2. whole \in Spine(s, hi, Joined(s, i, l, r), min)
  <2>1. Ends(whole, hi, Joined(s, i, l, r), min)
    BY <1>1 DEF Ends
  <2> QED
    BY <1>1, <2>1, SpineCloses
<1>3. ASSUME NEW x \in Stages(s), Ends(x, i - 1, l, min) PROVE Extends(s, x, whole)
  <2>1. x[1] = i - 1 /\ x[2] = l /\ min <= x[3]
    BY <1>3 DEF Ends
  <2>2. x[1] + 1 = i /\ x[1] + 2 = i + 1 /\ i <= Len(s)
    BY <2>1
  <2> QED
    BY <1>1, <2>1, <2>2 DEF Extends
<1>4. \A x \in Stages(s) :
        Ends(x, i - 1, l, min)
            \/ (\E y \in Spine(s, hi, Joined(s, i, l, r), min) : Extends(s, x, y))
          => x \in Spine(s, hi, Joined(s, i, l, r), min)
  BY <1>2, <1>3, SpineCloses
<1> QED
  BY <1>4, SpineWithin

(* The loop begins with an operand.                                        *)
LEMMA SpineBegins ==
  ASSUME NEW s, Sensible(s)
  PROVE  \A lo \in 1 .. Len(s) + 1, hi \in 0 .. Len(s), min \in 1 .. 8 :
           \A t \in PartTrees(s, lo, hi, min) :
             \E j \in lo .. hi : \E v \in PartTrees(s, lo, j, 8) :
               <<j, v, 8>> \in Spine(s, hi, t, min)
<1>0. Len(s) \in Nat
  BY DEF Sensible
<1> DEFINE Begins(lo, hi, min) ==
             \A t \in PartTrees(s, lo, hi, min) :
               \E j \in lo .. hi : \E v \in PartTrees(s, lo, j, 8) :
                 <<j, v, 8>> \in Spine(s, hi, t, min)
           Barren(n) == \E lo \in 1 .. Len(s) + 1, hi \in 0 .. Len(s), min \in 1 .. 8 :
                           Size(lo, hi, min) = n /\ ~ Begins(lo, hi, min)
           Sizes == {n \in Nat : Barren(n)}
<1>1. SUFFICES ASSUME Sizes # {} PROVE FALSE
  <2>1. ASSUME NEW lo \in 1 .. Len(s) + 1, NEW hi \in 0 .. Len(s), NEW min \in 1 .. 8
        PROVE  Size(lo, hi, min) \in Nat
    <3>1. lo \in Nat /\ hi \in Nat
      BY <1>0
    <3> QED
      BY <3>1, SizeBound
  <2> HIDE DEF Begins
  <2>2. \A lo \in 1 .. Len(s) + 1, hi \in 0 .. Len(s), min \in 1 .. 8 : Begins(lo, hi, min)
    BY <1>1, <2>1
  <2> QED
    BY <2>2 DEF Begins
<1>a. Sizes \in SUBSET Nat
  OBVIOUS
<1> HIDE DEF Begins
<1>2. PICK n \in Sizes : \A m \in Sizes : n <= m
  BY <1>1, <1>a, Least
<1>3. PICK lo \in 1 .. Len(s) + 1, hi \in 0 .. Len(s), min \in 1 .. 8 :
        Size(lo, hi, min) = n /\ ~ Begins(lo, hi, min)
  BY <1>2
<1>4. ASSUME NEW l \in 1 .. Len(s) + 1, NEW h \in 0 .. Len(s), NEW k \in 1 .. 8,
             Size(l, h, k) < Size(lo, hi, min)
      PROVE  Begins(l, h, k)
  <2>1. l \in Nat /\ h \in Nat
    BY <1>0
  <2>2. Size(l, h, k) \in Nat
    BY <2>1, SizeBound
  <2>3. n \in Nat /\ Size(l, h, k) < n
    BY <1>2, <1>3, <1>4
  <2>4. ~ Barren(Size(l, h, k))
    <3>1. Size(l, h, k) \notin Sizes
      <4> HIDE DEF Sizes
      <4> QED
        BY <1>2, <2>2, <2>3
    <3> QED
      BY <2>2, <3>1
  <2> QED
    BY <2>4
<1> HIDE DEF Sizes, Barren
<1>5. lo \in Nat /\ hi \in Nat
  BY <1>0
<1>6. ASSUME NEW t \in PartTrees(s, lo, hi, min)
      PROVE  \E j \in lo .. hi : \E v \in PartTrees(s, lo, j, 8) :
               <<j, v, 8>> \in Spine(s, hi, t, min)
  <2>0. t \in Seq(Nodes)
    BY <1>6, TreesOfNodes
  <2>1. CASE min < 8
    <3>0. min \in 1 .. 7 /\ min + 1 \in 1 .. 8
      BY <2>1
    <3>1. CASE t \in PartTrees(s, lo, hi, min + 1)
      <4>1. Begins(lo, hi, min + 1)
        BY <1>4, <1>5, <3>0, HigherLevel
      <4>2. PICK j \in lo .. hi : \E v \in PartTrees(s, lo, j, 8) :
              <<j, v, 8>> \in Spine(s, hi, t, min + 1)
        BY <3>1, <4>1 DEF Begins
      <4> QED
        BY <3>0, <4>2, SpineWeaker
    <3>2. ASSUME NEW i \in lo + 1 .. hi - 1, IsSplit(s, i, min),
                 NEW l \in PartTrees(s, lo, i - 1, min),
                 NEW r \in PartTrees(s, i + 1, hi, min + 1), t = Joined(s, i, l, r)
          PROVE  \E j \in lo .. hi : \E v \in PartTrees(s, lo, j, 8) :
                   <<j, v, 8>> \in Spine(s, hi, t, min)
      <4>1. i - 1 \in 0 .. Len(s) /\ lo <= hi /\ i \in 1 .. Len(s)
        BY <1>0, <3>2
      <4>2. Size(lo, i - 1, min) < Size(lo, hi, min)
        BY <1>5, <3>2, <4>1, FewerTokens
      <4>3. Begins(lo, i - 1, min)
        BY <1>4, <4>1, <4>2
      <4>4. PICK j \in lo .. i - 1 : \E v \in PartTrees(s, lo, j, 8) :
              <<j, v, 8>> \in Spine(s, i - 1, l, min)
        BY <3>2, <4>3 DEF Begins
      <4>5. Spine(s, i - 1, l, min) \subseteq Spine(s, hi, t, min)
        BY <1>0, <2>0, <3>0, <3>2, <4>1, SpineJoins
      <4>6. j \in lo .. hi
        BY <3>2, <4>4
      <4> QED
        BY <4>4, <4>5, <4>6
    <3>3. \/ t \in PartTrees(s, lo, hi, min + 1)
          \/ \E i \in lo + 1 .. hi - 1 :
               /\ IsSplit(s, i, min)
               /\ \E l \in PartTrees(s, lo, i - 1, min),
                     r \in PartTrees(s, i + 1, hi, min + 1) : t = Joined(s, i, l, r)
      <4> HIDE DEF Barren, Sizes
      <4>1. min \in 1 .. 7 /\ t \in PartTrees(s, lo, hi, min)
        BY <1>6, <3>0
      <4> QED
        BY <1>0, <4>1, TreesOfLevel, SMTT(30)
    <3> QED
      BY <3>1, <3>2, <3>3
  <2>2. CASE min = 8
    <3>1. lo <= hi
      BY <1>0, <1>5, <1>6, <2>2, TreesOfOperand
    <3>2. <<hi, t, 8>> \in Stages(s) /\ Ends(<<hi, t, 8>>, hi, t, min)
      BY <2>0, <2>2 DEF Stages, Ends
    <3>3. <<hi, t, 8>> \in Spine(s, hi, t, min)
      BY <3>2, SpineCloses
    <3> QED
      BY <1>5, <1>6, <2>2, <3>1, <3>3
  <2>3. min < 8 \/ min = 8
    OBVIOUS
  <2> QED
    BY <2>1, <2>2, <2>3, Zenon
<1> QED
  BY <1>3, <1>6 DEF Begins

--------------------------------------------------------------------------------
(* Parts of sequences *)

LEMMA SubSeqOfAppend ==
  ASSUME NEW S, NEW s \in Seq(S), NEW x \in S, NEW a \in Nat, NEW b \in Nat, b <= Len(s)
  PROVE  SubSeq(Append(s, x), a + 1, b) = SubSeq(s, a + 1, b)
  OBVIOUS

LEMMA SubSeqJoins ==
  ASSUME NEW S, NEW s \in Seq(S), NEW x \in S, NEW a \in Nat, NEW b \in Nat, a <= b, b <= Len(s)
  PROVE  SubSeq(Append(s, x), a + 1, Len(s) + 1)
           = SubSeq(s, a + 1, b) \o SubSeq(s, b + 1, Len(s)) \o <<x>>
<1> DEFINE u == SubSeq(s, a + 1, b)
           v == SubSeq(s, b + 1, Len(s))
           w == SubSeq(Append(s, x), a + 1, Len(s) + 1)
<1>1. u \in Seq(S) /\ Len(u) = b - a /\ \A i \in 1 .. b - a : u[i] = s[a + i]
  OBVIOUS
<1>2. v \in Seq(S) /\ Len(v) = Len(s) - b /\ \A i \in 1 .. Len(s) - b : v[i] = s[b + i]
  OBVIOUS
<1>3. w \in Seq(S) /\ Len(w) = Len(s) + 1 - a /\ \A i \in 1 .. Len(s) + 1 - a : w[i] = Append(s, x)[a + i]
  OBVIOUS
<1> HIDE DEF u, v, w
<1> DEFINE z == u \o v \o <<x>>
<1>a. /\ u \o v \in Seq(S) /\ Len(u \o v) = Len(s) - a
      /\ \A i \in 1 .. Len(s) - a : (u \o v)[i] = IF i <= b - a THEN u[i] ELSE v[i - (b - a)]
  BY <1>1, <1>2, ConcatProperties
<1>4. /\ z \in Seq(S) /\ Len(z) = Len(s) + 1 - a
      /\ \A i \in 1 .. Len(s) + 1 - a : z[i] = IF i <= Len(s) - a THEN (u \o v)[i] ELSE x
  <2> DEFINE uv == u \o v
  <2>1. uv \in Seq(S) /\ Len(uv) = Len(s) - a /\ Len(s) - a \in Nat
    BY <1>a
  <2> HIDE DEF uv
  <2>2. /\ uv \o <<x>> \in Seq(S) /\ Len(uv \o <<x>>) = Len(s) + 1 - a
        /\ \A i \in 1 .. Len(s) + 1 - a : (uv \o <<x>>)[i] = IF i <= Len(s) - a THEN uv[i] ELSE x
    BY <2>1
  <2> QED
    BY <2>2 DEF uv
<1> HIDE DEF z
<1>5. ASSUME NEW i \in 1 .. Len(s) + 1 - a PROVE z[i] = w[i]
  <2>1. CASE i = Len(s) + 1 - a
    BY <1>3, <1>4, <2>1
  <2>2. CASE i <= b - a
    <3>1. a + i \in 1 .. Len(s) /\ i <= Len(s) - a /\ i \in 1 .. Len(s) - a
      BY <2>2
    <3> QED
      BY <1>1, <1>3, <1>4, <1>a, <2>2, <3>1
  <2>3. CASE ~ (i <= b - a) /\ i # Len(s) + 1 - a
    <3>1. /\ a + i \in 1 .. Len(s) /\ i <= Len(s) - a /\ i \in 1 .. Len(s) - a
          /\ i - (b - a) \in 1 .. Len(s) - b /\ b + (i - (b - a)) = a + i
      BY <2>3
    <3>2. w[i] = s[a + i]
      BY <1>3, <3>1
    <3>3. z[i] = v[i - (b - a)]
      BY <1>4, <1>a, <2>3, <3>1
    <3>4. v[i - (b - a)] = s[b + (i - (b - a))]
      BY <1>2, <3>1
    <3> QED
      BY <3>1, <3>2, <3>3, <3>4
  <2> QED
    BY <2>1, <2>2, <2>3
<1>6. z = w
  BY <1>3, <1>4, <1>5, SeqEqual
<1> QED
  BY <1>6 DEF u, v, w, z

LEMMA SubSeqOfNothing ==
  ASSUME NEW S, NEW s \in Seq(S), NEW a \in Nat
  PROVE  SubSeq(s, a + 1, a) = <<>>
  OBVIOUS

LEMMA SubSeqOfAll ==
  ASSUME NEW S, NEW s \in Seq(S)
  PROVE  SubSeq(s, 0 + 1, Len(s)) = s
  OBVIOUS

LEMMA SubSeqOfLast ==
  ASSUME NEW S, NEW s \in Seq(S), NEW x \in S
  PROVE  SubSeq(Append(s, x), Len(s) + 1, Len(Append(s, x))) = <<x>>
<1> DEFINE w == SubSeq(Append(s, x), Len(s) + 1, Len(s) + 1)
<1>1. w \in Seq(S) /\ Len(w) = 1 /\ w[1] = x /\ Len(Append(s, x)) = Len(s) + 1
  OBVIOUS
<1> HIDE DEF w
<1>2. w = <<x>>
  BY <1>1
<1> QED
  BY <1>1, <1>2 DEF w

LEMMA SubSeqIs ==
  ASSUME NEW S, NEW s \in Seq(S), NEW a \in Nat, NEW b \in Nat, b <= Len(s), a <= b
  PROVE  SubSeq(s, a + 1, b) \in Seq(S) /\ Len(SubSeq(s, a + 1, b)) = b - a
  OBVIOUS

--------------------------------------------------------------------------------
(* The parser and the grammar *)

(* What the call i has made so far of what it is to return.                *)
Taken(i) ==
  SubSeq(code, calls[i].from + 1, IF i < Len(calls) THEN calls[i + 1].from ELSE Len(code))

(* What it will have when the call behind it returns a tree that ends at   *)
(* hi, where that will be and its level.                                   *)
Delivered(i, tree) ==
  IF calls[i + 1].op = "(" THEN tree
  ELSE IF calls[i + 1].op = "!" THEN Append(tree, <<"!", 0>>)
  ELSE Joined(source, calls[i + 1].begin - 1, Taken(i), tree)
Ending(i, hi) == IF calls[i + 1].op = "(" THEN hi + 1 ELSE hi
Rank(i) == IF calls[i + 1].op \in {"!", "("} THEN 8 ELSE Precedence(calls[i + 1].op)

(* How the call behind it came to be.                                      *)
Leads(i) ==
  /\ calls[i + 1].op # "all"
  /\ calls[i].from <= calls[i + 1].from
  /\ calls[i].begin \in 1 .. Len(source)
  /\ calls[i + 1].op \in {"!", "("} =>
       /\ source[calls[i].begin] = IF calls[i + 1].op = "!" THEN <<"op", "!">> ELSE <<"(">>
       /\ calls[i + 1].begin = calls[i].begin + 1
       /\ calls[i + 1].from = calls[i].from
       /\ calls[i + 1].min = Inside(calls[i + 1].op)
  /\ calls[i + 1].op \notin {"!", "("} =>
       /\ calls[i + 1].begin - 1 \in calls[i].begin + 1 .. Len(source)
       /\ source[calls[i + 1].begin - 1] = <<"op", calls[i + 1].op>>
       /\ calls[i + 1].min = Precedence(calls[i + 1].op) + 1
       /\ calls[i].min <= Precedence(calls[i + 1].op)
       /\ Taken(i) \in PartTrees(source, calls[i].begin, calls[i + 1].begin - 2, Rank(i))

(* Behind an operand there is a tree, and no operator that would have to   *)
(* be in it.                                                               *)
Behind ==
  /\ Innermost.begin < pos
  /\ \E level \in Innermost.min .. 8 :
       /\ Taken(Len(calls)) \in PartTrees(source, Innermost.begin, pos - 1, level)
       /\ IsOp(Peek) => Precedence(Peek[2]) <= level

Sound ==
  /\ calls[1] = [op |-> "all", min |-> 1, from |-> 0, begin |-> 1]
  /\ \A i \in 1 .. Len(calls) - 1 : Leads(i)
  /\ pos <= Len(source) + 1
  /\ parse = "operand" => Innermost.begin = pos /\ Innermost.from = Len(code)
  /\ parse = "behind" => Behind

(* A goal is a tree and where it ends: it is one a call may return, and no *)
(* operator that it would take in stands behind it.                        *)
Aims(i, goal) ==
  /\ goal[2] \in PartTrees(source, calls[i].begin, goal[1], calls[i].min)
  /\ goal[1] < Len(source) /\ IsOp(source[goal[1] + 1]) =>
       Precedence(source[goal[1] + 1][2]) < calls[i].min

(* A call gets to its goal if the one behind it does.                      *)
Meets(i, goal, next) ==
  /\ calls[i + 1].op = "(" => next[1] < Len(source) /\ source[next[1] + 1] = <<")">>
  /\ <<Ending(i, next[1]), Delivered(i, next[2]), Rank(i)>>
       \in Spine(source, goal[1], goal[2], calls[i].min)

(* The innermost call has a tree that leads to its goal.                   *)
Approaches(goal) ==
  \E level \in 1 .. 8 :
    <<pos - 1, Taken(Len(calls)), level>> \in Spine(source, goal[1], goal[2], Innermost.min)

Goals == (0 .. Len(source)) \X Seq(Nodes)

(* The calls under way can still make the tree t of the whole.             *)
Promises(g, t) ==
  /\ Len(g) = Len(calls)
  /\ g[1] = <<Len(source), t>>
  /\ \A i \in 1 .. Len(calls) : Aims(i, g[i])
  /\ \A i \in 1 .. Len(calls) - 1 : Meets(i, g[i], g[i + 1])
  /\ parse = "behind" => Approaches(g[Len(calls)])
Promised(t) == \E g \in Seq(Goals) : Promises(g, t)

GrammarInv ==
  /\ parse \in {"operand", "behind"} => Sound /\ \A t \in Trees(source) : Promised(t)
  /\ parse = "accepted" => Trees(source) = {code}
  /\ parse = "refused" => ~ Sentence(source, Valid) \/ Trees(source) = {}

LEMMA AtLeast ==
  ASSUME NEW min \in 1 .. 8, NEW level \in min .. 8
  PROVE  level \in 1 .. 8 /\ min <= level
OBVIOUS

(* The calls but the innermost one keep what they have.                    *)
LEMMA CallsKept ==
  ASSUME ParserInv, UNCHANGED source, code' = code \/ \E node \in Nodes : code' = Append(code, node),
         NEW i \in 1 .. Len(calls) - 1, i + 1 <= Len(calls'),
         calls'[i] = calls[i], calls'[i + 1] = calls[i + 1]
  PROVE  /\ Taken(i)' = Taken(i)
         /\ Leads(i) => Leads(i)'
         /\ \A goal, next : Meets(i, goal, next) => Meets(i, goal, next)'
         /\ \A goal : Aims(i, goal) => Aims(i, goal)'
<1>1. code \in Seq(Nodes) /\ calls \in Seq(Calls) /\ Len(calls) \in Nat /\ i + 1 \in 1 .. Len(calls)
  BY DEF ParserInv
<1>2. /\ calls[i].from \in Nat /\ calls[i + 1].from \in Nat
      /\ calls[i + 1].from <= Len(code)
  BY <1>1, CallsFrom DEF ParserInv, CallsTrue
<1>3. i < Len(calls) /\ i < Len(calls')
  BY <1>1
<1>4. Taken(i) = SubSeq(code, calls[i].from + 1, calls[i + 1].from)
  BY <1>3 DEF Taken
<1>5. Taken(i)' = SubSeq(code', calls[i].from + 1, calls[i + 1].from)
  BY <1>3 DEF Taken
<1>6. Taken(i)' = Taken(i)
  <2>1. ASSUME NEW node \in Nodes, code' = Append(code, node) PROVE Taken(i)' = Taken(i)
    <3>1. SubSeq(Append(code, node), calls[i].from + 1, calls[i + 1].from)
            = SubSeq(code, calls[i].from + 1, calls[i + 1].from)
      BY <1>1, <1>2, SubSeqOfAppend, ZenonT(30)
    <3> QED
      BY <1>4, <1>5, <2>1, <3>1, Zenon
  <2>2. CASE code' = code
    BY <1>4, <1>5, <2>2, Zenon
  <2> QED
    BY <2>1, <2>2, Zenon
<1>7. Leads(i) => Leads(i)'
  BY <1>6 DEF Leads, Rank
<1>8. ASSUME NEW goal, NEW next, Meets(i, goal, next) PROVE Meets(i, goal, next)'
  BY <1>6, <1>8 DEF Meets, Ending, Delivered, Rank
<1>9. ASSUME NEW goal, Aims(i, goal) PROVE Aims(i, goal)'
  BY <1>9 DEF Aims
<1> QED
  BY <1>6, <1>7, <1>8, <1>9

LEMMA Parsing ==
  ASSUME ParserInv, parse \in {"operand", "behind"}
  PROVE  /\ code \in Seq(Nodes) /\ Len(code) \in Nat
         /\ calls \in Seq(Calls) /\ calls # <<>> /\ Len(calls) \in Nat \ {0}
         /\ Innermost = calls[Len(calls)] /\ Innermost \in Calls
         /\ \A i \in 1 .. Len(calls) :
              calls[i].from \in Nat /\ calls[i].begin \in Nat /\ calls[i].min \in 1 .. 8
                /\ calls[i].from <= Len(code)
         /\ Sensible(source) /\ Len(source) \in Nat /\ pos \in Nat \ {0}
<1>1. code \in Seq(Nodes) /\ calls \in Seq(Calls) /\ calls # <<>> /\ pos \in Nat \ {0}
  BY DEF ParserInv, CallsTrue
<1>2. Sensible(source) /\ Len(source) \in Nat
  BY TokensAssumption DEF ParserInv, Sensible
<1>3. Len(calls) \in Nat \ {0} /\ Len(code) \in Nat
  BY <1>1
<1>4. ASSUME NEW i \in 1 .. Len(calls)
      PROVE  calls[i].from \in Nat /\ calls[i].begin \in Nat /\ calls[i].min \in 1 .. 8
               /\ calls[i].from <= Len(code) /\ calls[i] \in Calls
  <2>1. calls[i] \in Calls /\ calls[i].from <= Len(code)
    BY <1>1, <1>4, CallsFrom DEF ParserInv, CallsTrue
  <2> QED
    BY <2>1 DEF Calls
<1>5. Innermost = calls[Len(calls)] /\ Innermost \in Calls
  BY <1>3, <1>4 DEF Innermost
<1> QED
  BY <1>1, <1>2, <1>3, <1>4, <1>5

LEMMA TreesArePart == Trees(source) = PartTrees(source, 1, Len(source), 1)
  BY DEF Trees, PartTrees

(* At the beginning the whole is to be made.                               *)
LEMMA GrammarBegins ==
  ASSUME ParserInv, ParserInv', GrammarInv, ParseBegins(Valid)
  PROVE  GrammarInv'
<1>1. CASE Sentence(source, Valid)
  <2>1. /\ parse = "idle" /\ parse' = "operand" /\ UNCHANGED <<source, pos, code>>
        /\ calls' = <<[op |-> "all", min |-> 1, from |-> 0, begin |-> 1]>>
    BY <1>1 DEF ParseBegins, Sentence, Call, ParserInv
  <2>2. code = <<>> /\ pos = 1 /\ source \in Seq(Tokens) /\ Sensible(source) /\ Len(source) \in Nat
    BY <1>1, <2>1, TokensAssumption DEF ParserInv, Sensible
  <2>3. /\ Len(calls') = 1 /\ calls'[1] = [op |-> "all", min |-> 1, from |-> 0, begin |-> 1]
        /\ Innermost' = calls'[1]
    BY <2>1 DEF Innermost
  <2>4. Sound'
    BY <2>1, <2>2, <2>3 DEF Sound
  <2>5. ASSUME NEW t \in Trees(source) PROVE Promised(t)'
    <3>1. t \in PartTrees(source, 1, Len(source), 1)
      BY <2>5, TreesArePart
    <3>2. t \in Seq(Nodes)
      BY <2>2, <3>1, TreesOfNodes
    <3>3. PICK g \in Seq(Goals) : Len(g) = 1 /\ g[1] = <<Len(source), t>>
      <4>1. <<<<Len(source), t>>>> \in Seq(Goals)
        BY <2>2, <3>2 DEF Goals
      <4> QED
        BY <4>1
    <3>4. Aims(1, g[1])'
      <4>1. g[1][1] = Len(source) /\ g[1][2] = t /\ ~ (Len(source) < Len(source))
        BY <2>2, <3>3
      <4> QED
        BY <2>1, <2>3, <3>1, <4>1 DEF Aims
    <3>5. Promises(g, t)'
      BY <2>1, <2>3, <3>3, <3>4 DEF Promises
    <3> QED
      BY <2>1, <3>3, <3>5 DEF Promised, Goals
  <2>6. Trees(source)' = Trees(source)
    BY <2>1
  <2> QED
    BY <2>1, <2>4, <2>5, <2>6 DEF GrammarInv
<1>2. CASE ~ Sentence(source, Valid)
  <2>1. Refuse /\ ParseBegins(Valid)
    BY <1>2 DEF ParseBegins, Sentence
  <2> QED
    BY <1>2, <2>1 DEF Refuse, GrammarInv
<1> QED
  BY <1>1, <1>2

(* A call that has not begun to make its operand needs one here.           *)
LEMMA AtOperand ==
  ASSUME ParserInv, Sound, parse = "operand",
         NEW t, NEW g \in Seq(Goals), Promises(g, t), NEW top, top = Len(calls)
  PROVE  /\ pos <= Len(source)
         /\ \E j \in pos .. Len(source) : \E v :
              /\ <<j, v, 8>> \in Spine(source, g[top][1], g[top][2], calls[top].min)
              /\ \/ j = pos /\ v \in Leaf(source[pos])
                 \/ /\ source[pos] = <<"op", "!">>
                    /\ \E u \in PartTrees(source, pos + 1, j, 8) : v = Append(u, <<"!", 0>>)
                 \/ /\ pos < j /\ source[pos] = <<"(">> /\ source[j] = <<")">>
                    /\ v \in PartTrees(source, pos + 1, j - 1, 1)
<1>1. /\ Sensible(source) /\ Len(source) \in Nat /\ pos \in 1 .. Len(source) + 1
      /\ top \in 1 .. Len(calls) /\ calls[top].min \in 1 .. 8 /\ calls[top].begin = pos
  BY Parsing DEF Sound
<1>2. g[top] \in Goals /\ Aims(top, g[top])
  BY <1>1 DEF Promises
<1>3. g[top][1] \in 0 .. Len(source)
      /\ g[top][2] \in PartTrees(source, pos, g[top][1], calls[top].min)
  BY <1>1, <1>2 DEF Goals, Aims
<1>4. PICK j \in pos .. g[top][1] : \E v \in PartTrees(source, pos, j, 8) :
        <<j, v, 8>> \in Spine(source, g[top][1], g[top][2], calls[top].min)
  BY <1>1, <1>3, SpineBegins
<1>5. PICK v \in PartTrees(source, pos, j, 8) :
        <<j, v, 8>> \in Spine(source, g[top][1], g[top][2], calls[top].min)
  BY <1>4
<1>6. j \in pos .. Len(source) /\ j \in 0 .. Len(source) /\ pos <= Len(source)
  BY <1>1, <1>3, <1>4
<1>7. \/ pos = j /\ v \in Leaf(source[pos])
      \/ /\ pos < j /\ source[pos] = <<"op", "!">>
         /\ \E u \in PartTrees(source, pos + 1, j, 8) : v = Append(u, <<"!", 0>>)
      \/ /\ pos < j /\ source[pos] = <<"(">> /\ source[j] = <<")">>
         /\ v \in PartTrees(source, pos + 1, j - 1, 1)
  <2>1. Len(source) \in Nat /\ pos \in 1 .. Len(source) + 1 /\ j \in 0 .. Len(source)
    BY <1>1, <1>6
  <2>2. v \in PartTrees(source, pos, j, 8)
    OBVIOUS
  <2> QED
    BY <2>1, <2>2, TreesOfOperand
<1> QED
  BY <1>5, <1>6, <1>7

LEMMA LeafOfToken ==
  ASSUME NEW token, NEW v, v \in Leaf(token)
  PROVE  /\ token[1] \in {"lit", "path"}
         /\ token # <<"op", "!">> /\ token # <<"(">>
         /\ token[1] = "lit" =>
              LiteralValue(token[2]) # Error /\ v = <<<<"lit", LiteralValue(token[2])>>>>
         /\ token[1] = "path" => v = <<token>>
<1>1. token[1] = "path" \/ (token[1] = "lit" /\ LiteralValue(token[2]) # Error)
  BY DEF Leaf
<1>2. <<"op", "!">>[1] = "op" /\ <<"(">>[1] = "("
  OBVIOUS
<1> QED
  BY <1>1, <1>2 DEF Leaf

(* A leaf is what the parser makes of a token.                             *)
LEMMA LeafIsSound ==
  ASSUME ParserInv, Sound, parse = "operand", pos <= Len(source),
         NEW node \in Nodes, Leaf(source[pos]) = {<<node>>},
         Make(node), pos' = pos + 1, parse' = "behind", UNCHANGED <<source, calls>>
  PROVE  Sound'
<1> DEFINE top == Len(calls)
<1>1. /\ code \in Seq(Nodes) /\ Len(code) \in Nat /\ code' = Append(code, node)
      /\ top \in Nat \ {0} /\ top \in 1 .. top /\ Innermost = calls[top]
      /\ Len(source) \in Nat /\ pos \in 1 .. Len(source) /\ calls[top].min \in 1 .. 8
      /\ calls[top].begin = pos /\ calls[top].from = Len(code)
  BY Parsing DEF Sound, Make
<1>2. ASSUME NEW i \in 1 .. top - 1 PROVE Leads(i)'
  <2>1. i + 1 <= Len(calls') /\ Leads(i)
    BY <1>1 DEF Sound
  <2> QED
    BY <1>1, <2>1, CallsKept
<1>3. Taken(top)' = <<node>>
  <2>1. Taken(top)' = SubSeq(code', Len(code) + 1, Len(code'))
    BY <1>1 DEF Taken
  <2> QED
    BY <1>1, <2>1, SubSeqOfLast
<1>4. <<node>> \in PartTrees(source, pos, pos, 8)
  <2>1. <<node>> \in Leaf(source[pos]) /\ pos \in 1 .. Len(source) + 1 /\ pos \in 0 .. Len(source)
    BY <1>1
  <2> QED
    BY <1>1, <2>1, TreesOfOperand
<1>5. Behind'
  <2>1. Innermost' = calls[top] /\ pos' - 1 = pos /\ pos < pos'
    BY <1>1 DEF Innermost
  <2>2. 8 \in calls[top].min .. 8
    BY <1>1
  <2>3. Precedence(Peek[2])' <= 8
    BY PrecedenceIs
  <2> QED
    BY <1>1, <1>3, <1>4, <2>1, <2>2, <2>3 DEF Behind
<1> QED
  BY <1>1, <1>2, <1>5 DEF Sound

LEMMA LeafIsPromised ==
  ASSUME ParserInv, Sound, parse = "operand", pos <= Len(source),
         NEW node \in Nodes, Leaf(source[pos]) = {<<node>>},
         Make(node), pos' = pos + 1, parse' = "behind", UNCHANGED <<source, calls>>,
         NEW t, Promised(t)
  PROVE  Promised(t)'
<1>1. PICK g \in Seq(Goals) : Promises(g, t)
  BY DEF Promised
<1>2. PICK top : top = Len(calls)
  OBVIOUS
<1>3. /\ code \in Seq(Nodes) /\ Len(code) \in Nat /\ code' = Append(code, node)
      /\ top \in Nat \ {0} /\ Innermost = calls[top] /\ Len(calls') = top
      /\ Len(source) \in Nat /\ pos \in 1 .. Len(source)
      /\ calls[top].begin = pos /\ calls[top].from = Len(code)
  BY <1>2, Parsing DEF Sound, Make
<1>4. ASSUME NEW i \in 1 .. top - 1 PROVE Meets(i, g[i], g[i + 1])'
  <2>1. i \in 1 .. Len(calls) - 1 /\ i + 1 <= Len(calls')
    BY <1>2, <1>3
  <2>2. Meets(i, g[i], g[i + 1])
    BY <1>1, <2>1, Zenon DEF Promises
  <2> QED
    BY <1>3, <2>1, <2>2, CallsKept
<1>5. ASSUME NEW i \in 1 .. top PROVE Aims(i, g[i])'
  BY <1>1, <1>2, <1>5 DEF Promises, Aims
<1>6. Taken(top)' = <<node>>
  <2>1. Taken(top)' = SubSeq(code', Len(code) + 1, Len(code'))
    BY <1>2, <1>3 DEF Taken
  <2> QED
    BY <1>3, <2>1, SubSeqOfLast
<1>7. <<pos, <<node>>, 8>> \in Spine(source, g[top][1], g[top][2], calls[top].min)
  <2>1. source[pos] # <<"op", "!">> /\ source[pos] # <<"(">>
    BY LeafOfToken
  <2> QED
    BY <1>1, <1>2, <2>1, AtOperand
<1>8. Approaches(g[top])'
  <2>1. pos' - 1 = pos /\ Innermost' = calls[top] /\ 8 \in 1 .. 8
    BY <1>2, <1>3 DEF Innermost
  <2> QED
    BY <1>2, <1>6, <1>7, <2>1 DEF Approaches
<1>9. Promises(g, t)'
  BY <1>1, <1>2, <1>4, <1>5, <1>8 DEF Promises
<1> QED
  BY <1>1, <1>9 DEF Promised, Goals

(* Another call is made behind the innermost one.                          *)
LEMMA CallIsSound ==
  ASSUME ParserInv, Sound, parse \in {"operand", "behind"}, pos <= Len(source),
         NEW op, NEW min, calls' = Append(calls, Call(op, min, pos + 1)),
         pos' = pos + 1, parse' = "operand", UNCHANGED <<source, code>>,
         NEW top, top = Len(calls), Leads(top)'
  PROVE  Sound'
<1>1. /\ top \in Nat \ {0} /\ calls \in Seq(Calls) /\ Len(source) \in Nat /\ pos \in Nat
  BY Parsing
<1>2. /\ Len(calls') = top + 1 /\ calls'[top + 1] = Call(op, min, pos + 1)
      /\ \A i \in 1 .. top : calls'[i] = calls[i]
  BY <1>1
<1>3. ASSUME NEW i \in 1 .. top PROVE Leads(i)'
  <2>1. CASE i = top
    BY <2>1
  <2>2. CASE i \in 1 .. top - 1
    <3>1. /\ i \in 1 .. Len(calls) - 1 /\ i + 1 <= Len(calls') /\ Leads(i)
          /\ calls'[i] = calls[i] /\ calls'[i + 1] = calls[i + 1]
      BY <1>1, <1>2, <2>2 DEF Sound
    <3> QED
      BY <3>1, CallsKept
  <2> QED
    BY <1>1, <2>1, <2>2
<1>4. Innermost' = Call(op, min, pos + 1) /\ calls'[1] = calls[1] /\ Len(calls') - 1 = top
  BY <1>1, <1>2 DEF Innermost
<1>5. Innermost'.begin = pos' /\ Innermost'.from = Len(code)
  BY <1>4 DEF Call
<1> QED
  BY <1>1, <1>3, <1>4, <1>5 DEF Sound

LEMMA CallIsPromised ==
  ASSUME ParserInv, parse \in {"operand", "behind"},
         NEW op, NEW min, calls' = Append(calls, Call(op, min, pos + 1)),
         pos' = pos + 1, parse' = "operand", UNCHANGED <<source, code>>,
         NEW t, NEW g \in Seq(Goals), Promises(g, t), NEW top, top = Len(calls),
         NEW next \in Goals, Aims(top + 1, next)', Meets(top, g[top], next)'
  PROVE  Promised(t)'
<1>1. top \in Nat \ {0} /\ calls \in Seq(Calls) /\ Len(g) = top
  BY Parsing DEF Promises
<1>2. /\ Len(calls') = top + 1 /\ \A i \in 1 .. top : calls'[i] = calls[i]
  BY <1>1
<1>3. PICK h \in Seq(Goals) : h = Append(g, next)
  <2>1. Append(g, next) \in Seq(Goals)
    OBVIOUS
  <2> QED
    BY <2>1
<1>4. Len(h) = top + 1 /\ h[top + 1] = next /\ \A i \in 1 .. top : h[i] = g[i]
  BY <1>1, <1>3
<1>5. ASSUME NEW i \in 1 .. top + 1 PROVE Aims(i, h[i])'
  <2>1. CASE i = top + 1
    BY <1>4, <2>1
  <2>2. CASE i \in 1 .. top
    <3>1. Aims(i, g[i]) /\ h[i] = g[i] /\ calls'[i] = calls[i]
      BY <1>2, <1>4, <2>2 DEF Promises
    <3> QED
      BY <3>1 DEF Aims
  <2> QED
    BY <1>1, <2>1, <2>2
<1>6. ASSUME NEW i \in 1 .. top PROVE Meets(i, h[i], h[i + 1])'
  <2>1. CASE i = top
    <3>1. h[i] = g[top] /\ h[i + 1] = next
      BY <1>1, <1>4, <2>1
    <3> QED
      BY <2>1, <3>1
  <2>2. CASE i \in 1 .. top - 1
    <3>1. /\ i \in 1 .. Len(calls) - 1 /\ i + 1 <= Len(calls') /\ Meets(i, g[i], g[i + 1])
          /\ calls'[i] = calls[i] /\ calls'[i + 1] = calls[i + 1]
          /\ h[i] = g[i] /\ h[i + 1] = g[i + 1]
      BY <1>1, <1>2, <1>4, <2>2 DEF Promises
    <3> QED
      BY <3>1, CallsKept
  <2> QED
    BY <1>1, <2>1, <2>2
<1>7. Promises(h, t)'
  <2>1. Len(calls') - 1 = top /\ h[1] = <<Len(source), t>>
    BY <1>1, <1>2, <1>4 DEF Promises
  <2> QED
    BY <1>2, <1>4, <1>5, <1>6, <2>1 DEF Promises
<1> QED
  BY <1>3, <1>7 DEF Promised, Goals

LEMMA TokenIs ==
  ASSUME ParserInv, parse \in {"operand", "behind"}, Peek # <<"end">>
  PROVE  pos \in 1 .. Len(source) /\ Peek = source[pos]
  BY Parsing DEF Peek

LEMMA InnermostBegins ==
  ASSUME ParserInv, parse \in {"operand", "behind"}, Sound
  PROVE  Innermost.begin \in Nat \ {0}
<1>0. PICK top : top = Len(calls)
  OBVIOUS
<1>1. top \in Nat \ {0} /\ Innermost = calls[top] /\ calls[top].begin \in Nat
  BY <1>0, Parsing
<1>2. CASE top = 1
  BY <1>1, <1>2 DEF Sound
<1>3. CASE top # 1
  <2>1. top - 1 \in 1 .. top - 1 /\ top - 1 + 1 = top
    BY <1>1, <1>3
  <2>2. Leads(top - 1)
    BY <1>0, <2>1 DEF Sound
  <2>3. /\ calls[top - 1].begin \in 1 .. Len(source)
        /\ \/ calls[top].begin = calls[top - 1].begin + 1
           \/ calls[top].begin - 1 \in calls[top - 1].begin + 1 .. Len(source)
    BY <2>1, <2>2 DEF Leads
  <2> QED
    BY <1>1, <2>3
<1> QED
  BY <1>2, <1>3

(* ! and a parenthesis begin an operand.                                   *)
LEMMA PrefixKeeps ==
  ASSUME ParserInv, Sound, ParsePrefix
  PROVE  /\ Sound'
         /\ \A t : Promised(t) => Promised(t)'
<1>1. PICK op \in {"!", "("} :
        /\ Peek = IF op = "!" THEN <<"op", "!">> ELSE <<"(">>
        /\ calls' = Append(calls, Call(op, Inside(op), pos + 1))
  BY DEF ParsePrefix
<1>2. parse = "operand" /\ parse' = "operand" /\ pos' = pos + 1 /\ UNCHANGED <<source, code>>
  BY DEF ParsePrefix
<1>3. Peek # <<"end">>
  BY <1>1
<1>4. pos \in 1 .. Len(source) /\ source[pos] = IF op = "!" THEN <<"op", "!">> ELSE <<"(">>
  BY <1>1, <1>2, <1>3, TokenIs
<1>5. PICK top : top = Len(calls)
  OBVIOUS
<1>6. /\ top \in Nat \ {0} /\ calls \in Seq(Calls) /\ Len(source) \in Nat /\ Len(code) \in Nat
      /\ calls[top].begin = pos /\ calls[top].from = Len(code) /\ Sensible(source)
  BY <1>2, <1>5, Parsing DEF Sound
<1>7. /\ calls'[top] = calls[top] /\ Len(calls') = top + 1
      /\ calls'[top + 1] = [op |-> op, min |-> Inside(op), from |-> Len(code), begin |-> pos + 1]
  BY <1>1, <1>5, <1>6 DEF Call
<1>8. Leads(top)'
  BY <1>1, <1>2, <1>4, <1>6, <1>7 DEF Leads
<1>9. Sound'
  BY <1>1, <1>2, <1>4, <1>5, <1>8, CallIsSound
<1>10. ASSUME NEW t, Promised(t) PROVE Promised(t)'
  <2>1. PICK g \in Seq(Goals) : Promises(g, t)
    BY <1>10 DEF Promised
  <2>2. PICK j \in pos .. Len(source) : \E v :
          /\ <<j, v, 8>> \in Spine(source, g[top][1], g[top][2], calls[top].min)
          /\ \/ j = pos /\ v \in Leaf(source[pos])
             \/ /\ source[pos] = <<"op", "!">>
                /\ \E u \in PartTrees(source, pos + 1, j, 8) : v = Append(u, <<"!", 0>>)
             \/ /\ pos < j /\ source[pos] = <<"(">> /\ source[j] = <<")">>
                /\ v \in PartTrees(source, pos + 1, j - 1, 1)
    BY <1>2, <1>5, <2>1, AtOperand
  <2>3. PICK v :
          /\ <<j, v, 8>> \in Spine(source, g[top][1], g[top][2], calls[top].min)
          /\ \/ j = pos /\ v \in Leaf(source[pos])
             \/ /\ source[pos] = <<"op", "!">>
                /\ \E u \in PartTrees(source, pos + 1, j, 8) : v = Append(u, <<"!", 0>>)
             \/ /\ pos < j /\ source[pos] = <<"(">> /\ source[j] = <<")">>
                /\ v \in PartTrees(source, pos + 1, j - 1, 1)
    BY <2>2
  <2>4. v \notin Leaf(source[pos])
    BY <1>4, LeafOfToken
  <2>5. ASSUME NEW next \in Goals, Aims(top + 1, next)', Meets(top, g[top], next)'
        PROVE  Promised(t)'
    BY <1>1, <1>2, <1>5, <2>1, <2>5, CallIsPromised
  <2>6. CASE op = "!"
    <3>1. source[pos] = <<"op", "!">> /\ <<"op", "!">> # <<"(">>
      BY <1>4, <2>6
    <3>2. PICK u \in PartTrees(source, pos + 1, j, 8) : v = Append(u, <<"!", 0>>)
      BY <2>3, <2>4, <3>1
    <3>3. pos + 1 \in 1 .. Len(source) + 1 /\ j \in 0 .. Len(source) /\ 8 \in 1 .. 8
      BY <1>4, <1>6, <2>2
    <3>4. u \in Seq(Nodes)
      BY <1>6, <3>2, <3>3, TreesOfNodes
    <3>5. PICK next \in Goals : next = <<j, u>>
      BY <3>3, <3>4 DEF Goals
    <3>6. calls'[top + 1].min = 8 /\ calls'[top + 1].begin = pos + 1 /\ calls'[top + 1].op = "!"
      BY <1>7, <2>6 DEF Inside
    <3>7. Aims(top + 1, next)'
      <4>1. Precedence(source[j + 1][2]) < 8
        BY PrecedenceIs
      <4> QED
        BY <1>2, <3>2, <3>5, <3>6, <4>1 DEF Aims
    <3>8. Meets(top, g[top], next)'
      BY <1>2, <1>7, <2>3, <3>2, <3>5, <3>6 DEF Meets, Ending, Delivered, Rank
    <3> QED
      BY <2>5, <3>7, <3>8
  <2>7. CASE op = "("
    <3>1. source[pos] = <<"(">> /\ <<"op", "!">> # <<"(">>
      BY <1>4, <2>7
    <3>2. /\ pos < j /\ source[j] = <<")">> /\ v \in PartTrees(source, pos + 1, j - 1, 1)
      BY <2>3, <2>4, <3>1
    <3>3. /\ pos + 1 \in 1 .. Len(source) + 1 /\ j - 1 \in 0 .. Len(source) /\ 1 \in 1 .. 8
          /\ j - 1 < Len(source) /\ j - 1 + 1 = j
      BY <1>4, <1>6, <2>2, <3>2, SMTT(20)
    <3>4. v \in Seq(Nodes)
      BY <1>6, <3>2, <3>3, TreesOfNodes
    <3>5. PICK next \in Goals : next = <<j - 1, v>>
      BY <3>3, <3>4 DEF Goals
    <3>6. calls'[top + 1].min = 1 /\ calls'[top + 1].begin = pos + 1 /\ calls'[top + 1].op = "("
      BY <1>7, <2>7 DEF Inside
    <3>7. Aims(top + 1, next)'
      <4>1. ~ IsOp(source[j])
        BY <3>2 DEF IsOp
      <4> QED
        BY <1>2, <3>2, <3>3, <3>5, <3>6, <4>1 DEF Aims
    <3>8. Meets(top, g[top], next)'
      BY <1>2, <1>7, <2>3, <3>2, <3>3, <3>5, <3>6 DEF Meets, Ending, Delivered, Rank
    <3> QED
      BY <2>5, <3>7, <3>8
  <2> QED
    BY <2>6, <2>7
<1> QED
  BY <1>9, <1>10

(* The innermost call goes on behind an operator.                          *)
LEMMA OperatorKeeps ==
  ASSUME ParserInv, Sound, ParseOperator
  PROVE  /\ Sound'
         /\ \A t : Promised(t) => Promised(t)'
<1>1. PICK top : top = Len(calls)
  OBVIOUS
<1>2. PICK op : op = Peek[2]
  OBVIOUS
<1>3. PICK p : p = Precedence(op)
  OBVIOUS
<1>4. /\ parse = "behind" /\ parse' = "operand" /\ pos' = pos + 1 /\ UNCHANGED <<source, code>>
      /\ calls' = Append(calls, Call(op, p + 1, pos + 1))
  BY <1>2, <1>3 DEF ParseOperator
<1>5. /\ top \in Nat \ {0} /\ calls \in Seq(Calls) /\ Len(source) \in Nat /\ Len(code) \in Nat
      /\ code \in Seq(Nodes) /\ Sensible(source)
      /\ Innermost = calls[top] /\ calls[top].begin \in Nat \ {0} /\ calls[top].min \in 1 .. 8
      /\ calls[top].from \in Nat /\ calls[top].from <= Len(code) /\ calls[top].begin < pos
  BY <1>1, <1>4, Parsing, InnermostBegins DEF Sound, Behind
<1>6. pos \in 1 .. Len(source) /\ IsOp(source[pos]) /\ source[pos][2] = op /\ calls[top].min <= p
  <2>1. Peek # <<"end">>
    BY DEF ParseOperator, TakesIn, IsOp
  <2> QED
    BY <1>2, <1>3, <1>4, <1>5, <2>1, TokenIs DEF ParseOperator, TakesIn
<1>7. source[pos] = <<"op", op>> /\ op \in Operators \ {"!"} /\ p \in 1 .. 7
  <2>1. source[pos] = <<"op", op>> /\ op \in Operators
    BY <1>5, <1>6, SensibleTokens DEF IsOp
  <2>2. p \in 0 .. 7 /\ (p >= 1 => op \in Operators \ {"!"})
    BY <1>3, <2>1, Precedences
  <2>3. PICK min \in 1 .. 8 : min = calls[top].min
    BY <1>5
  <2>4. min <= p
    BY <1>6, <2>3
  <2>5. p \in 1 .. 7
    BY <2>2, <2>3, <2>4
  <2> QED
    BY <2>1, <2>2, <2>5
<1>8. op \notin {"!", "(", "all"}
  BY <1>7 DEF Operators, Comparisons, BitOperators
<1>9. /\ calls'[top] = calls[top] /\ Len(calls') = top + 1
      /\ calls'[top + 1] = [op |-> op, min |-> p + 1, from |-> Len(code), begin |-> pos + 1]
  BY <1>1, <1>4, <1>5 DEF Call
<1>a. /\ calls'[top + 1].op = op /\ calls'[top + 1].begin = pos + 1
      /\ calls'[top + 1].min = p + 1 /\ calls'[top + 1].from = Len(code)
  BY <1>9
<1>b. calls'[top + 1].begin - 1 = pos /\ calls'[top + 1].begin - 2 = pos - 1
  <2>1. pos \in Int
    BY <1>6
  <2> QED
    BY <1>a, <2>1
<1>c. op # "(" /\ op # "!" /\ op \notin {"!", "("}
  BY <1>8
<1>d. calls[top].min \in Int /\ p \in Int
  <2>1. calls[top].min \in 1 .. 8
    BY <1>5
  <2>2. p \in 1 .. 7
    BY <1>7
  <2> QED
    BY <2>1, <2>2
<1>10. Taken(top)' = Taken(top)
  <2>1. top < top + 1 /\ ~ (top < top) /\ calls'[top + 1].from = Len(code)
    BY <1>5, <1>9
  <2> QED
    BY <1>1, <1>4, <1>9, <2>1 DEF Taken
<1>11. Taken(top) \in PartTrees(source, calls[top].begin, pos - 1, p)
  <2>1. PICK level \in calls[top].min .. 8 :
          /\ Taken(top) \in PartTrees(source, calls[top].begin, pos - 1, level)
          /\ p <= level
    BY <1>1, <1>2, <1>3, <1>4, <1>5 DEF Sound, Behind, ParseOperator, TakesIn
  <2>2. /\ calls[top].begin \in 1 .. Len(source) + 1 /\ pos - 1 \in 0 .. Len(source)
        /\ level \in 1 .. 8 /\ p \in 1 .. 8
    <3>1. calls[top].begin \in 1 .. Len(source) + 1 /\ pos - 1 \in 0 .. Len(source)
      BY <1>5, <1>6
    <3>2. level \in 1 .. 8
      BY <1>5, AtLeast, SMTT(20)
    <3>3. p \in 1 .. 8
      BY <1>7
    <3> QED
      BY <3>1, <3>2, <3>3
  <2> QED
    BY <1>5, <2>1, <2>2, LowerLevel
<1>12. Leads(top)'
  <2>1. /\ calls[top].begin \in 1 .. Len(source) /\ pos + 1 - 1 = pos /\ pos + 1 - 2 = pos - 1
        /\ pos \in calls[top].begin + 1 .. Len(source)
    BY <1>5, <1>6
  <2>2. Rank(top)' = p
    BY <1>3, <1>8, <1>9 DEF Rank
  <2>3. Taken(top)' \in PartTrees(source', calls'[top].begin, calls'[top + 1].begin - 2, Rank(top)')
    BY <1>4, <1>9, <1>10, <1>11, <1>b, <2>2
  <2>4. /\ calls'[top + 1].op # "all" /\ calls'[top].from <= calls'[top + 1].from
        /\ calls'[top].begin \in 1 .. Len(source') /\ calls'[top + 1].op \notin {"!", "("}
    BY <1>4, <1>5, <1>8, <1>9, <1>a, <2>1
  <2>5. /\ calls'[top + 1].begin - 1 \in calls'[top].begin + 1 .. Len(source')
        /\ source'[calls'[top + 1].begin - 1] = <<"op", calls'[top + 1].op>>
        /\ calls'[top + 1].min = Precedence(calls'[top + 1].op) + 1
        /\ calls'[top].min <= Precedence(calls'[top + 1].op)
    BY <1>3, <1>4, <1>6, <1>7, <1>9, <1>a, <1>b, <2>1
  <2> QED
    BY <2>3, <2>4, <2>5 DEF Leads
<1>13. Sound'
  BY <1>1, <1>4, <1>6, <1>12, CallIsSound
<1>14. ASSUME NEW t, Promised(t) PROVE Promised(t)'
  <2>1. PICK g \in Seq(Goals) : Promises(g, t)
    BY <1>14 DEF Promised
  <2>2. g[top] \in Goals /\ Aims(top, g[top]) /\ Approaches(g[top])
    BY <1>1, <1>4, <1>5, <2>1 DEF Promises
  <2>3. PICK level \in 1 .. 8 :
          <<pos - 1, Taken(top), level>> \in Spine(source, g[top][1], g[top][2], calls[top].min)
    BY <1>1, <1>5, <2>2 DEF Approaches
  <2>4. ~ Ends(<<pos - 1, Taken(top), level>>, g[top][1], g[top][2], calls[top].min)
    <3>1. SUFFICES ASSUME g[top][1] = pos - 1 PROVE FALSE
      BY DEF Ends
    <3>2. g[top][1] < Len(source) /\ g[top][1] + 1 = pos
      BY <1>5, <1>6, <3>1
    <3>3. p < calls[top].min /\ calls[top].min <= p
      BY <1>3, <1>6, <2>2, <3>2 DEF Aims
    <3> QED
      BY <1>d, <3>3
  <2>5. PICK y \in Spine(source, g[top][1], g[top][2], calls[top].min) :
          Extends(source, <<pos - 1, Taken(top), level>>, y)
    BY <2>3, <2>4, SpineInverts
  <2>6. y \in Stages(source)
    BY DEF Spine
  <2>7. y = <<y[1], y[2], y[3]>> /\ y[1] \in 0 .. Len(source)
    BY <2>6 DEF Stages
  <2>8. /\ y[3] = p
        /\ \E r \in PartTrees(source, pos + 1, y[1], p + 1) : y[2] = Joined(source, pos, Taken(top), r)
    <3>1. pos - 1 + 1 = pos /\ pos - 1 + 2 = pos + 1
      BY <1>6
    <3>2. y[3] = p
      BY <1>3, <1>6, <2>5, <3>1 DEF Extends, IsSplit
    <3> QED
      BY <2>5, <3>1, <3>2 DEF Extends
  <2>9. PICK r \in PartTrees(source, pos + 1, y[1], p + 1) : y[2] = Joined(source, pos, Taken(top), r)
    BY <2>8
  <2>10. r \in Seq(Nodes)
    <3>0. p + 1 \in 1 .. 8
      BY <1>7
    <3>1. pos + 1 \in 1 .. Len(source) + 1 /\ p + 1 \in 1 .. 8
      BY <1>5, <1>6, <3>0
    <3> QED
      BY <1>5, <2>7, <2>9, <3>1, TreesOfNodes
  <2>11. PICK next \in Goals : next = <<y[1], r>>
    BY <2>7, <2>10 DEF Goals
  <2>12. Aims(top + 1, next)'
    <3>1. ASSUME y[1] < Len(source), IsOp(source[y[1] + 1])
          PROVE  Precedence(source[y[1] + 1][2]) < p + 1
      <4>1. CASE Ends(y, g[top][1], g[top][2], calls[top].min)
        <5>1. Precedence(source[y[1] + 1][2]) < calls[top].min
          BY <2>2, <3>1, <4>1 DEF Ends, Aims
        <5>2. Precedence(source[y[1] + 1][2]) \in 0 .. 7
          BY PrecedenceIs
        <5>3. calls[top].min <= p
          BY <1>6
        <5> QED
          BY <1>d, <5>1, <5>2, <5>3
      <4>2. ASSUME NEW z \in Spine(source, g[top][1], g[top][2], calls[top].min),
                   Extends(source, y, z)
            PROVE  Precedence(source[y[1] + 1][2]) < p + 1
        <5>1. z[3] \in 1 .. 8
          BY DEF Spine, Stages
        <5>2. Precedence(source[y[1] + 1][2]) = z[3] /\ z[3] <= p
          BY <2>8, <4>2 DEF Extends, IsSplit
        <5> QED
          BY <1>7, <5>1, <5>2
      <4> QED
        BY <4>1, <4>2, SpineInverts
    <3> QED
      BY <1>4, <1>9, <2>9, <2>11, <3>1 DEF Aims
  <2>13. Meets(top, g[top], next)'
    <3>1. /\ Ending(top, y[1])' = y[1] /\ Rank(top)' = p
          /\ Delivered(top, r)' = Joined(source, pos, Taken(top), r)
      BY <1>3, <1>4, <1>10, <1>a, <1>b, <1>c DEF Ending, Delivered, Rank
    <3>2. next[1] = y[1] /\ next[2] = r
      BY <2>11
    <3>3. <<y[1], Joined(source, pos, Taken(top), r), p>>
            \in Spine(source, g[top][1], g[top][2], calls[top].min)
      BY <2>7, <2>8, <2>9
    <3>4. calls'[top + 1].op # "(" /\ calls'[top].min = calls[top].min
      BY <1>8, <1>9
    <3>5. <<Ending(top, next[1])', Delivered(top, next[2])', Rank(top)'>>
            \in Spine(source, g[top][1], g[top][2], calls[top].min)
      BY <3>1, <3>2, <3>3
    <3> QED
      BY <1>4, <3>4, <3>5 DEF Meets
  <2> QED
    BY <1>1, <1>4, <2>1, <2>12, <2>13, CallIsPromised
<1> QED
  BY <1>13, <1>14

(* When the innermost call takes in nothing more it has got to its goal.   *)
LEMMA GoalReached ==
  ASSUME ParserInv, Sound, parse = "behind", ~ TakesIn,
         NEW t, NEW g \in Seq(Goals), Promises(g, t), NEW top, top = Len(calls)
  PROVE  g[top] = <<pos - 1, Taken(top)>>
<1>1. /\ top \in 1 .. Len(calls) /\ Innermost = calls[top] /\ calls[top].min \in 1 .. 8
      /\ pos \in Nat \ {0} /\ Len(source) \in Nat
  BY Parsing
<1>2. g[top] \in Goals /\ Approaches(g[top])
  BY <1>1 DEF Promises
<1>3. PICK level \in 1 .. 8 :
        <<pos - 1, Taken(top), level>> \in Spine(source, g[top][1], g[top][2], calls[top].min)
  BY <1>1, <1>2 DEF Approaches
<1>4. ASSUME NEW y \in Spine(source, g[top][1], g[top][2], calls[top].min),
             Extends(source, <<pos - 1, Taken(top), level>>, y)
      PROVE  FALSE
  <2>1. pos - 1 + 1 = pos
    BY <1>1
  <2>2. pos <= Len(source) /\ IsOp(source[pos]) /\ Precedence(source[pos][2]) = y[3]
    BY <1>4, <2>1 DEF Extends, IsSplit
  <2>3. Peek = source[pos]
    BY <2>2 DEF Peek
  <2>4. calls[top].min <= y[3] /\ y[3] \in 1 .. 8
    <3>1. y \in Stages(source) /\ calls[top].min <= y[3]
      BY <1>1, SpineLevels
    <3> QED
      BY <3>1 DEF Stages
  <2> QED
    BY <1>1, <2>2, <2>3, <2>4 DEF TakesIn
<1>5. Ends(<<pos - 1, Taken(top), level>>, g[top][1], g[top][2], calls[top].min)
  BY <1>3, <1>4, SpineInverts
<1> QED
  BY <1>2, <1>5 DEF Ends, Goals

(* What is delivered is a tree of its level.                               *)
LEMMA DeliveryIsTree ==
  ASSUME ParserInv, parse \in {"operand", "behind"}, NEW i \in 1 .. Len(calls) - 1, Leads(i),
         NEW hi \in 0 .. Len(source), NEW tree \in PartTrees(source, calls[i + 1].begin, hi, calls[i + 1].min),
         calls[i + 1].begin <= hi,
         calls[i + 1].op = "(" => hi < Len(source) /\ source[hi + 1] = <<")">>
  PROVE  /\ Rank(i) \in calls[i].min .. 8
         /\ Delivered(i, tree) \in PartTrees(source, calls[i].begin, Ending(i, hi), Rank(i))
<1>1. /\ i \in 1 .. Len(calls) /\ i + 1 \in 1 .. Len(calls) /\ calls \in Seq(Calls)
      /\ calls[i].min \in 1 .. 8 /\ Sensible(source) /\ Len(source) \in Nat
      /\ calls[i].begin \in 1 .. Len(source)
  BY Parsing DEF Leads
<1>2. PICK op : op = calls[i + 1].op
  OBVIOUS
<1>3. PICK lo : lo = calls[i].begin
  OBVIOUS
<1>4. lo \in 1 .. Len(source) /\ lo \in 1 .. Len(source) + 1
  BY <1>1, <1>3
<1>5. CASE op = "!"
  <2>1. source[lo] = <<"op", "!">> /\ calls[i + 1].begin = lo + 1 /\ calls[i + 1].min = 8
    BY <1>2, <1>3, <1>5 DEF Leads, Inside
  <2>2. Delivered(i, tree) = Append(tree, <<"!", 0>>) /\ Ending(i, hi) = hi /\ Rank(i) = 8
    BY <1>2, <1>5 DEF Delivered, Ending, Rank
  <2>3. tree \in PartTrees(source, lo + 1, hi, 8) /\ lo < hi
    BY <1>4, <2>1
  <2>4. Append(tree, <<"!", 0>>) \in PartTrees(source, lo, hi, 8)
    BY <1>1, <1>4, <2>1, <2>3, TreesOfOperand
  <2> QED
    BY <1>1, <1>3, <2>2, <2>4
<1>6. CASE op = "("
  <2>1. source[lo] = <<"(">> /\ calls[i + 1].begin = lo + 1 /\ calls[i + 1].min = 1
    BY <1>2, <1>3, <1>6 DEF Leads, Inside
  <2>2. Delivered(i, tree) = tree /\ Ending(i, hi) = hi + 1 /\ Rank(i) = 8
    BY <1>2, <1>6 DEF Delivered, Ending, Rank
  <2>3. PICK closing : closing = hi + 1
    OBVIOUS
  <2>4. /\ lo < closing /\ closing - 1 = hi
        /\ closing \in 0 .. Len(source) /\ source[closing] = <<")">>
    BY <1>1, <1>2, <1>4, <1>6, <2>1, <2>3
  <2>5. tree \in PartTrees(source, lo + 1, closing - 1, 1)
    BY <2>1, <2>4
  <2>6. tree \in PartTrees(source, lo, closing, 8)
    BY <1>1, <1>4, <2>1, <2>4, <2>5, TreesOfOperand
  <2>7. 8 \in calls[i].min .. 8
    BY <1>1
  <2> QED
    BY <1>3, <2>2, <2>3, <2>6, <2>7
<1>7. CASE op \notin {"!", "("}
  <2>1. PICK p : p = Precedence(op)
    OBVIOUS
  <2>2. PICK k : k = calls[i + 1].begin - 1
    OBVIOUS
  <2>3. /\ k \in lo + 1 .. Len(source) /\ source[k] = <<"op", op>>
        /\ calls[i + 1].min = p + 1 /\ calls[i].min <= p
    BY <1>2, <1>3, <1>7, <2>1, <2>2 DEF Leads
  <2>4. calls[i + 1].begin = k + 1 /\ calls[i + 1].begin - 2 = k - 1 /\ k \in lo + 1 .. hi - 1
    <3>1. PICK b \in Nat : b = calls[i + 1].begin
      BY <1>1, Parsing
    <3>2. b <= hi /\ k = b - 1
      BY <2>2, <3>1
    <3>3. b = k + 1 /\ b - 2 = k - 1 /\ k \in lo + 1 .. hi - 1
      BY <2>3, <3>2
    <3> QED
      BY <3>1, <3>3
  <2>5. p \in 1 .. 7
    <3>1. p \in 0 .. 7
      BY <2>1, PrecedenceIs
    <3>2. PICK min \in 1 .. 8 : min = calls[i].min
      BY <1>1
    <3>3. min <= p
      BY <2>3, <3>2
    <3> QED
      BY <3>1, <3>2, <3>3
  <2>6. Rank(i) = p /\ Ending(i, hi) = hi /\ Delivered(i, tree) = Joined(source, k, Taken(i), tree)
    BY <1>2, <1>7, <2>1, <2>2 DEF Rank, Ending, Delivered
  <2>7. Taken(i) \in PartTrees(source, lo, k - 1, p) /\ tree \in PartTrees(source, k + 1, hi, p + 1)
    <3>1. Taken(i) \in PartTrees(source, calls[i].begin, calls[i + 1].begin - 2, Rank(i))
      BY <1>2, <1>7 DEF Leads
    <3> QED
      BY <1>3, <2>3, <2>4, <2>6, <3>1
  <2>8. IsSplit(source, k, p)
    BY <2>1, <2>3 DEF IsSplit, IsOp
  <2>9. Joined(source, k, Taken(i), tree) \in PartTrees(source, lo, hi, p)
    BY <1>1, <1>4, <2>4, <2>5, <2>7, <2>8, TreesOfLevel
  <2>10. p \in calls[i].min .. 8
    BY <1>1, <2>3, <2>5
  <2> QED
    BY <1>3, <2>6, <2>9, <2>10
<1> QED
  BY <1>5, <1>6, <1>7

LEMMA Indices ==
  ASSUME NEW top \in Nat, NEW i \in 1 .. top - 2
  PROVE  /\ i \in 1 .. top - 1 /\ i + 1 \in 1 .. top - 1 /\ i + 1 <= top - 1
         /\ i \in 1 .. top
  OBVIOUS

(* A call returns what it has to the one it was made from.                 *)
LEMMA ReturnIsSound ==
  ASSUME ParserInv, ParserInv', Sound, parse = "behind", parse' = "behind", ~ TakesIn, UNCHANGED source,
         NEW top, top = Len(calls), top # 1, calls' = Front(calls),
         code' = code \/ \E node \in Nodes : code' = Append(code, node),
         calls[top].op = "(" => Peek = <<")">>,
         pos' = Ending(top - 1, pos - 1) + 1,
         Taken(top - 1)' = Delivered(top - 1, Taken(top))
  PROVE  Sound'
<1>1. /\ top \in Nat /\ top >= 2 /\ top - 1 \in 1 .. top - 1 /\ top - 1 + 1 = top
      /\ calls \in Seq(Calls) /\ Len(source) \in Nat /\ pos \in Nat \ {0} /\ Innermost = calls[top]
      /\ calls[top].begin \in Nat /\ calls[top].min \in 1 .. 8
      /\ calls[top - 1].begin \in Nat /\ calls[top - 1].min \in 1 .. 8
  BY Parsing
<1>0. calls # <<>>
  BY Parsing
<1>2. /\ Len(calls') = top - 1 /\ \A i \in 1 .. top - 1 : calls'[i] = calls[i]
      /\ Innermost' = calls[top - 1]
  <2>1. Len(calls') = top - 1 /\ \A i \in 1 .. top - 1 : calls'[i] = calls[i]
    BY <1>0, <1>1, FrontOf, Zenon
  <2> QED
    BY <1>1, <2>1 DEF Innermost
<1>3. ASSUME NEW i \in 1 .. top - 2 PROVE Leads(i)'
  <2>1. /\ i \in 1 .. Len(calls) - 1 /\ i + 1 <= Len(calls')
        /\ i \in 1 .. top - 1 /\ i + 1 \in 1 .. top - 1
    BY <1>2, Indices
  <2>2. calls'[i] = calls[i] /\ calls'[i + 1] = calls[i + 1] /\ Leads(i)
    BY <1>2, <2>1, Zenon DEF Sound
  <2> QED
    BY <2>1, <2>2, CallsKept
<1>4. Leads(top - 1)
  BY <1>1 DEF Sound
<1>5. PICK level \in calls[top].min .. 8 :
        Taken(top) \in PartTrees(source, calls[top].begin, pos - 1, level)
  BY <1>1 DEF Sound, Behind
<1>6. calls[top].begin \in 1 .. Len(source) + 1 /\ pos - 1 \in 0 .. Len(source)
      /\ calls[top].begin <= pos - 1
  <2>1. /\ calls[top].begin < pos /\ calls[top].begin \in Nat \ {0}
        /\ pos <= Len(source) + 1
    BY <1>1, InnermostBegins DEF Sound, Behind
  <2>2. pos \in Nat /\ Len(source) \in Nat
    BY <1>1
  <2> QED
    BY <2>1, <2>2
<1>7. Taken(top) \in PartTrees(source, calls[top].begin, pos - 1, calls[top].min)
  <2>1. level \in 1 .. 8 /\ calls[top].min <= level
    <3>1. PICK min \in 1 .. 8 : min = calls[top].min
      BY <1>1
    <3>2. level \in min .. 8
      BY <1>5, <3>1
    <3>3. level \in 1 .. 8 /\ min <= level
      BY <3>2, AtLeast
    <3> QED
      BY <3>1, <3>3
  <2>2. calls[top].min \in 1 .. 8 /\ Sensible(source) /\ Len(source) \in Nat
    BY <1>1, Parsing
  <2> QED
    BY <1>5, <1>6, <2>1, <2>2, LowerLevel, Zenon
<1>8. calls[top].op = "(" => pos - 1 < Len(source) /\ source[pos - 1 + 1] = <<")">>
  <2>1. Peek = <<")">> => pos <= Len(source) /\ source[pos] = <<")">>
    BY DEF Peek
  <2>2. pos - 1 + 1 = pos /\ (pos <= Len(source) => pos - 1 < Len(source))
    BY <1>1
  <2> QED
    BY <2>1, <2>2
<1>9. /\ Rank(top - 1) \in calls[top - 1].min .. 8
      /\ Delivered(top - 1, Taken(top))
           \in PartTrees(source, calls[top - 1].begin, Ending(top - 1, pos - 1), Rank(top - 1))
  BY <1>1, <1>4, <1>6, <1>7, <1>8, DeliveryIsTree
<1>10. /\ Ending(top - 1, pos - 1) \in Nat /\ calls[top - 1].begin < pos'
       /\ pos' - 1 = Ending(top - 1, pos - 1) /\ pos' <= Len(source) + 1
  <2>1. calls[top - 1].begin < calls[top].begin
    <3>1. \/ calls[top].begin = calls[top - 1].begin + 1
          \/ calls[top].begin - 1 \in calls[top - 1].begin + 1 .. Len(source)
      BY <1>1, <1>4 DEF Leads
    <3>2. PICK a \in Nat : a = calls[top - 1].begin
      BY <1>1
    <3>3. PICK b \in Nat : b = calls[top].begin
      BY <1>1
    <3>4. a < b
      <4>1. CASE b = a + 1
        BY <4>1
      <4>2. CASE b - 1 \in a + 1 .. Len(source)
        BY <4>2
      <4> QED
        BY <3>1, <3>2, <3>3, <4>1, <4>2, Zenon
    <3> QED
      BY <3>2, <3>3, <3>4
  <2>2. \/ Ending(top - 1, pos - 1) = pos - 1
        \/ Ending(top - 1, pos - 1) = pos /\ pos - 1 < Len(source)
    <3>1. calls[top - 1 + 1] = calls[top] /\ pos - 1 + 1 = pos
      BY <1>1
    <3>2. Ending(top - 1, pos - 1) = IF calls[top].op = "(" THEN pos ELSE pos - 1
      BY <3>1 DEF Ending
    <3> QED
      BY <1>8, <3>2
  <2>3. PICK a \in Nat : a = calls[top - 1].begin
    BY <1>1
  <2>4. PICK b \in Nat : b = calls[top].begin
    BY <1>1
  <2>5. PICK e : e = Ending(top - 1, pos - 1)
    OBVIOUS
  <2>6. /\ a < b /\ b <= pos - 1 /\ pos - 1 <= Len(source) /\ pos' = e + 1
        /\ e = pos - 1 \/ (e = pos /\ pos - 1 < Len(source))
    BY <1>1, <1>6, <2>1, <2>2, <2>3, <2>4, <2>5
  <2>7. pos \in Nat /\ Len(source) \in Nat
    BY <1>1
  <2>8. e \in Nat /\ a < pos' /\ pos' - 1 = e /\ pos' <= Len(source) + 1
    <3>1. PICK p \in Nat : p = pos
      BY <2>7
    <3>2. PICK n \in Nat : n = Len(source)
      BY <2>7
    <3>3. PICK q : q = pos'
      OBVIOUS
    <3>4. a < b /\ b <= p - 1 /\ p - 1 <= n /\ q = e + 1
      BY <2>6, <3>1, <3>2, <3>3
    <3>5. e = p - 1 \/ (e = p /\ p - 1 < n)
      BY <2>6, <3>1, <3>2
    <3>6. e \in Nat /\ a < q /\ q - 1 = e /\ q <= n + 1
      <4>1. CASE e = p - 1
        BY <3>4, <4>1
      <4>2. CASE e = p /\ p - 1 < n
        BY <3>4, <4>2
      <4> QED
        BY <3>5, <4>1, <4>2
    <3> QED
      BY <3>2, <3>3, <3>6
  <2> QED
    BY <2>3, <2>5, <2>8
<1>11. IsOp(Peek)' => Precedence(Peek[2])' <= Rank(top - 1)
  <2>1. CASE calls[top].op \in {"!", "("}
    <3>1. Rank(top - 1) = 8
      BY <1>1, <2>1 DEF Rank
    <3>2. Precedence(Peek[2])' \in 0 .. 7
      BY PrecedenceIs
    <3> QED
      BY <3>1, <3>2
  <2>2. CASE calls[top].op \notin {"!", "("}
    <3>1. /\ calls[top].min = Precedence(calls[top].op) + 1
          /\ Rank(top - 1) = Precedence(calls[top].op)
      BY <1>1, <1>4, <2>2 DEF Leads, Rank
    <3>2. Peek' = Peek
      <4>1. calls[top - 1 + 1] = calls[top] /\ pos - 1 + 1 = pos
        BY <1>1
      <4>2. pos' = pos
        BY <2>2, <4>1 DEF Ending
      <4> QED
        BY <4>2 DEF Peek
    <3>3. ASSUME IsOp(Peek) PROVE Precedence(Peek[2]) <= Rank(top - 1)
      <4>1. ~ (Precedence(Peek[2]) >= calls[top].min)
        BY <1>1, <3>3 DEF TakesIn
      <4>2. Precedence(Peek[2]) \in 0 .. 7 /\ Precedence(calls[top].op) \in 0 .. 7
        BY PrecedenceIs
      <4>3. PICK p, q : p = Precedence(Peek[2]) /\ q = Precedence(calls[top].op)
        OBVIOUS
      <4>4. p \in 0 .. 7 /\ q \in 0 .. 7 /\ ~ (p >= q + 1)
        BY <3>1, <4>1, <4>2, <4>3
      <4>5. p <= q
        BY <4>4
      <4> QED
        BY <3>1, <4>3, <4>5
    <3> QED
      BY <3>2, <3>3
  <2> QED
    BY <2>1, <2>2
<1>12. Behind'
  BY <1>1, <1>2, <1>9, <1>10, <1>11 DEF Behind
<1>13. calls'[1] = calls[1]
  BY <1>1, <1>2
<1> QED
  BY <1>1, <1>2, <1>3, <1>10, <1>12, <1>13 DEF Sound

LEMMA ReturnIsPromised ==
  ASSUME ParserInv, Sound, parse = "behind", parse' = "behind", ~ TakesIn, UNCHANGED source,
         NEW top, top = Len(calls), top # 1, calls' = Front(calls),
         code' = code \/ \E node \in Nodes : code' = Append(code, node),
         pos' = Ending(top - 1, pos - 1) + 1,
         Taken(top - 1)' = Delivered(top - 1, Taken(top)),
         NEW t, Promised(t)
  PROVE  Promised(t)'
<1>1. PICK g \in Seq(Goals) : Promises(g, t)
  BY DEF Promised
<1>2. /\ top \in Nat /\ top >= 2 /\ top - 1 \in 1 .. top - 1 /\ top - 1 + 1 = top
      /\ calls \in Seq(Calls) /\ Len(g) = top /\ g # <<>> /\ pos \in Nat \ {0}
  BY <1>1, Parsing DEF Promises
<1>3. PICK h \in Seq(Goals) : h = Front(g)
  BY <1>2, FrontOf
<1>4. /\ Len(calls') = top - 1 /\ \A i \in 1 .. top - 1 : calls'[i] = calls[i]
      /\ Len(h) = top - 1 /\ \A i \in 1 .. top - 1 : h[i] = g[i]
  <2>1. Len(calls') = top - 1 /\ \A i \in 1 .. top - 1 : calls'[i] = calls[i]
    BY <1>2, FrontOf
  <2>2. Len(h) = top - 1 /\ \A i \in 1 .. top - 1 : h[i] = g[i]
    BY <1>2, <1>3, FrontOf
  <2> QED
    BY <2>1, <2>2
<1>5. Innermost' = calls[top - 1]
  BY <1>2, <1>4 DEF Innermost
<1>6. ASSUME NEW i \in 1 .. top - 1 PROVE Aims(i, h[i])'
  <2>1. i \in 1 .. Len(calls)
    BY <1>2
  <2>2. Aims(i, g[i])
    BY <1>1, <2>1, Zenon DEF Promises
  <2>3. h[i] = g[i] /\ calls'[i] = calls[i]
    BY <1>4
  <2> QED
    BY <2>2, <2>3 DEF Aims
<1>7. ASSUME NEW i \in 1 .. top - 2 PROVE Meets(i, h[i], h[i + 1])'
  <2>1. /\ i \in 1 .. Len(calls) - 1 /\ i + 1 <= Len(calls')
        /\ i \in 1 .. top - 1 /\ i + 1 \in 1 .. top - 1
    BY <1>2, <1>4, Indices
  <2>2. Meets(i, g[i], g[i + 1])
    BY <1>1, <2>1, Zenon DEF Promises
  <2>3. /\ calls'[i] = calls[i] /\ calls'[i + 1] = calls[i + 1]
        /\ h[i] = g[i] /\ h[i + 1] = g[i + 1]
    BY <1>4, <2>1
  <2> QED
    BY <2>1, <2>2, <2>3, CallsKept
<1>8. Approaches(h[top - 1])'
  <2>1. g[top] = <<pos - 1, Taken(top)>> /\ Meets(top - 1, g[top - 1], g[top])
    <3>1. g[top] = <<pos - 1, Taken(top)>>
      BY <1>1, GoalReached
    <3> QED
      BY <1>1, <1>2, <3>1 DEF Promises
  <2>2. <<Ending(top - 1, pos - 1), Delivered(top - 1, Taken(top)), Rank(top - 1)>>
          \in Spine(source, g[top - 1][1], g[top - 1][2], calls[top - 1].min)
    BY <2>1 DEF Meets
  <2>3. Rank(top - 1) \in 1 .. 8 /\ Ending(top - 1, pos - 1) \in Nat
    BY <2>2 DEF Spine, Stages
  <2>4. pos' - 1 = Ending(top - 1, pos - 1)
    BY <2>3
  <2>5. h[top - 1] = g[top - 1] /\ Len(calls') = top - 1
    BY <1>2, <1>4
  <2> QED
    BY <1>5, <2>2, <2>3, <2>4, <2>5 DEF Approaches
<1>9. Promises(h, t)'
  <2>1. Len(calls') - 1 = top - 2 /\ h[1] = <<Len(source), t>>
    BY <1>1, <1>2, <1>4 DEF Promises
  <2> QED
    BY <1>4, <1>6, <1>7, <1>8, <2>1 DEF Promises
<1> QED
  BY <1>9 DEF Promised, Goals

(* What a call returns is delivered to the one it was made from.           *)
LEMMA ReturnIsDelivered ==
  ASSUME ParserInv, ParserInv', Sound, parse = "behind", ~ TakesIn, UNCHANGED source,
         NEW top, top = Len(calls), calls' = Front(calls), calls[top].op # "all",
         IF calls[top].op = "("
         THEN code' = code
         ELSE code' = Append(code, <<calls[top].op, IF calls[top].op = "!"
                                                    THEN 0
                                                    ELSE Len(code) - calls[top].from>>)
  PROVE  /\ top # 1
         /\ code' = code \/ \E node \in Nodes : code' = Append(code, node)
         /\ Taken(top - 1)' = Delivered(top - 1, Taken(top))
<1>1. /\ top \in Nat \ {0} /\ calls \in Seq(Calls) /\ code \in Seq(Nodes) /\ Len(code) \in Nat
      /\ code' \in Seq(Nodes) /\ calls # <<>>
  BY Parsing DEF ParserInv
<1>2. top # 1
  BY DEF Sound
<1>3. /\ top - 1 \in 1 .. top - 1 /\ top - 1 + 1 = top /\ top - 1 < top /\ top - 1 \in 1 .. top
      /\ top \in 1 .. top
  BY <1>1, <1>2
<1>4. Leads(top - 1)
  BY <1>3 DEF Sound
<1>5. PICK a, b : a = calls[top - 1].from /\ b = calls[top].from
  OBVIOUS
<1>6. a \in Nat /\ b \in Nat /\ a <= b /\ b <= Len(code)
  <2>1. a <= b
    BY <1>3, <1>4, <1>5 DEF Leads
  <2> QED
    BY <1>3, <1>5, <2>1, Parsing
<1>7. Len(calls') = top - 1 /\ calls'[top - 1] = calls[top - 1]
  BY <1>1, <1>3, FrontOf
<1>8. Taken(top - 1)' = SubSeq(code', a + 1, Len(code'))
  <2>1. ~ (top - 1 < top - 1)
    BY <1>3
  <2> QED
    BY <1>5, <1>7, <2>1 DEF Taken
<1>9. Taken(top - 1) = SubSeq(code, a + 1, b) /\ Taken(top) = SubSeq(code, b + 1, Len(code))
  <2>1. top - 1 < Len(calls) /\ ~ (top < Len(calls)) /\ calls[top - 1 + 1] = calls[top]
    BY <1>1, <1>3
  <2> QED
    BY <1>5, <2>1 DEF Taken
<1>10. CASE calls[top].op = "("
  <2>1. a = b /\ code' = code
    BY <1>3, <1>4, <1>5, <1>10 DEF Leads
  <2>2. Delivered(top - 1, Taken(top)) = Taken(top)
    BY <1>3, <1>10 DEF Delivered
  <2> QED
    BY <1>2, <1>8, <1>9, <2>1, <2>2
<1>11. CASE calls[top].op # "("
  <2>1. PICK node : node = <<calls[top].op, IF calls[top].op = "!"
                                            THEN 0
                                            ELSE Len(code) - calls[top].from>>
    OBVIOUS
  <2>2. code' = Append(code, node)
    BY <1>11, <2>1
  <2>3. node \in Nodes
    <3>1. /\ Len(code') = Len(code) + 1 /\ code'[Len(code) + 1] = node
          /\ Len(code) + 1 \in 1 .. Len(code')
      BY <1>1, <2>2
    <3> QED
      BY <1>1, <3>1
  <2>4. Len(code') = Len(code) + 1
    BY <1>1, <2>2
  <2>5. Taken(top - 1)' = Taken(top - 1) \o Taken(top) \o <<node>>
    <3>1. SubSeq(Append(code, node), a + 1, Len(code) + 1)
            = SubSeq(code, a + 1, b) \o SubSeq(code, b + 1, Len(code)) \o <<node>>
      BY <1>1, <1>6, <2>3, SubSeqJoins, ZenonT(30)
    <3> QED
      BY <1>8, <1>9, <2>2, <2>4, <3>1
  <2>6. Taken(top) \in Seq(Nodes) /\ Len(Taken(top)) = Len(code) - b
    <3>1. Len(code) <= Len(code)
      BY <1>1
    <3> QED
      BY <1>1, <1>6, <1>9, <3>1, SubSeqIs
  <2>7. CASE calls[top].op = "!"
    <3>1. a = b
      BY <1>3, <1>4, <1>5, <2>7 DEF Leads
    <3>2. Taken(top - 1) = <<>>
      BY <1>1, <1>6, <1>9, <3>1, SubSeqOfNothing
    <3>3. node = <<"!", 0>>
      BY <2>1, <2>7
    <3>4. Delivered(top - 1, Taken(top)) = Append(Taken(top), node)
      BY <1>3, <2>7, <3>3 DEF Delivered
    <3>5. <<>> \o Taken(top) \o <<node>> = Append(Taken(top), node)
      BY <2>3, <2>6
    <3> QED
      BY <1>2, <2>2, <2>3, <2>5, <3>2, <3>4, <3>5
  <2>8. CASE calls[top].op # "!"
    <3>1. node = <<calls[top].op, Len(Taken(top))>>
      BY <1>5, <2>1, <2>6, <2>8
    <3>2. source[calls[top].begin - 1] = <<"op", calls[top].op>>
      BY <1>3, <1>4, <1>11, <2>8 DEF Leads
    <3>3. source[calls[top].begin - 1][2] = calls[top].op
      BY <3>2
    <3>4. Delivered(top - 1, Taken(top))
            = Joined(source, calls[top].begin - 1, Taken(top - 1), Taken(top))
      BY <1>3, <1>11, <2>8 DEF Delivered
    <3>5. Delivered(top - 1, Taken(top)) = Taken(top - 1) \o Taken(top) \o <<node>>
      BY <3>1, <3>3, <3>4, Zenon DEF Joined
    <3> QED
      BY <1>2, <2>2, <2>3, <2>5, <3>5
  <2> QED
    BY <2>7, <2>8
<1> QED
  BY <1>10, <1>11

(* What the parser has done and what the grammar lets it do agree.         *)
LEMMA GrammarStep ==
  ASSUME ParserInv, ParserInv', GrammarInv, ParseStep
  PROVE  GrammarInv'
<1>1. parse \in {"operand", "behind"} /\ UNCHANGED source
  BY DEF ParseStep, ParseLiteral, ParsePath, ParsePrefix, NoOperand, ParseOperator, OperandReturns,
         ParenthesisReturns, ParseEnds, Refuse
<1>2. Sound /\ \A t \in Trees(source) : Promised(t)
  BY <1>1 DEF GrammarInv
<1>3. ASSUME parse' \in {"operand", "behind"}, Sound', \A t : Promised(t) => Promised(t)'
      PROVE  GrammarInv'
  BY <1>1, <1>2, <1>3 DEF GrammarInv
<1>4. ASSUME Refuse, \A t : ~ Promised(t)
      PROVE  GrammarInv'
  BY <1>2, <1>4 DEF GrammarInv, Refuse
<1>5. PICK top : top = Len(calls)
  OBVIOUS
<1>6. /\ top \in Nat \ {0} /\ Innermost = calls[top] /\ Len(source) \in Nat /\ pos \in Nat \ {0}
      /\ code \in Seq(Nodes) /\ Sensible(source)
  BY <1>1, <1>5, Parsing
<1>7. ASSUME parse = "operand", NEW t, Promised(t)
      PROVE  /\ pos <= Len(source) /\ Peek = source[pos]
             /\ \/ \E v : v \in Leaf(Peek)
                \/ Peek = <<"op", "!">>
                \/ Peek = <<"(">>
  <2>1. PICK g \in Seq(Goals) : Promises(g, t)
    BY <1>7 DEF Promised
  <2>2. /\ pos <= Len(source)
        /\ (\E v : v \in Leaf(source[pos])) \/ source[pos] = <<"op", "!">> \/ source[pos] = <<"(">>
    BY <1>2, <1>5, <1>7, <2>1, AtOperand
  <2> QED
    BY <2>2 DEF Peek
<1>8. CASE ParseLiteral
  <2>1. Peek # <<"end">> /\ parse = "operand"
    BY <1>8 DEF ParseLiteral
  <2>2. pos \in 1 .. Len(source) /\ Peek = source[pos]
    BY <2>1, TokenIs
  <2>3. CASE LiteralValue(Peek[2]) = Error
    <3>1. Refuse /\ Peek[1] = "lit"
      BY <1>8, <2>3 DEF ParseLiteral
    <3>2. ASSUME NEW t, Promised(t) PROVE FALSE
      <4>1. (\E v : v \in Leaf(Peek)) \/ Peek = <<"op", "!">> \/ Peek = <<"(">>
        BY <1>7, <2>1, <3>2
      <4>2. \A v : v \notin Leaf(Peek)
        BY <2>3, <3>1, LeafOfToken
      <4> QED
        BY <3>1, <4>1, <4>2
    <3> QED
      BY <1>4, <3>1, <3>2
  <2>4. CASE LiteralValue(Peek[2]) # Error
    <3>1. PICK node : node = <<"lit", LiteralValue(Peek[2])>>
      OBVIOUS
    <3>2. /\ Make(node) /\ pos' = pos + 1 /\ parse' = "behind" /\ UNCHANGED <<source, calls>>
          /\ Leaf(source[pos]) = {<<node>>}
      BY <1>8, <2>2, <2>4, <3>1 DEF ParseLiteral, Leaf
    <3>3. node \in Nodes
      BY <1>8, <2>1, <2>4, <3>1, PeekIs, LiteralIsNode DEF ParseLiteral
    <3>4. Sound'
      BY <1>2, <1>6, <2>1, <2>2, <3>2, <3>3, LeafIsSound
    <3>5. \A t : Promised(t) => Promised(t)'
      BY <1>2, <1>6, <2>1, <2>2, <3>2, <3>3, LeafIsPromised
    <3> QED
      BY <1>3, <3>2, <3>4, <3>5
  <2> QED
    BY <2>3, <2>4
<1>9. CASE ParsePath
  <2>1. Peek # <<"end">> /\ parse = "operand"
    BY <1>9 DEF ParsePath
  <2>2. pos \in 1 .. Len(source) /\ Peek = source[pos]
    BY <2>1, TokenIs
  <2>3. PICK node : node = Peek
    OBVIOUS
  <2>4. /\ Make(node) /\ pos' = pos + 1 /\ parse' = "behind" /\ UNCHANGED <<source, calls>>
        /\ Leaf(source[pos]) = {<<node>>}
    BY <1>9, <2>2, <2>3 DEF ParsePath, Leaf
  <2>5. node \in Nodes
    BY <1>9, <2>1, <2>3, PeekIs DEF ParsePath, Nodes
  <2>6. Sound'
    BY <1>2, <1>6, <2>1, <2>2, <2>4, <2>5, LeafIsSound
  <2>7. \A t : Promised(t) => Promised(t)'
    BY <1>2, <1>6, <2>1, <2>2, <2>4, <2>5, LeafIsPromised
  <2> QED
    BY <1>3, <2>4, <2>6, <2>7
<1>10. CASE ParsePrefix
  BY <1>2, <1>3, <1>10, PrefixKeeps DEF ParsePrefix
<1>11. CASE NoOperand
  <2>1. /\ Refuse /\ parse = "operand" /\ Peek[1] \notin {"lit", "path", "("}
        /\ Peek # <<"op", "!">>
    BY <1>11 DEF NoOperand
  <2>2. ASSUME NEW t, Promised(t) PROVE FALSE
    <3>1. (\E v : v \in Leaf(Peek)) \/ Peek = <<"op", "!">> \/ Peek = <<"(">>
      BY <1>7, <2>1, <2>2
    <3>2. \A v : v \notin Leaf(Peek)
      BY <2>1, LeafOfToken
    <3> QED
      BY <2>1, <3>1, <3>2
  <2> QED
    BY <1>4, <2>1, <2>2
<1>12. CASE ParseOperator
  BY <1>2, <1>3, <1>12, OperatorKeeps DEF ParseOperator
<1>13. ASSUME parse = "behind", parse' = "behind", ~ TakesIn, calls' = Front(calls),
              calls[top].op # "all", pos' = Ending(top - 1, pos - 1) + 1,
              calls[top].op = "(" => Peek = <<")">>,
              IF calls[top].op = "("
              THEN code' = code
              ELSE code' = Append(code, <<calls[top].op, IF calls[top].op = "!"
                                                         THEN 0
                                                         ELSE Len(code) - calls[top].from>>)
       PROVE  GrammarInv'
  <2>1. /\ top # 1
        /\ code' = code \/ \E node \in Nodes : code' = Append(code, node)
        /\ Taken(top - 1)' = Delivered(top - 1, Taken(top))
    BY <1>1, <1>2, <1>5, <1>13, ReturnIsDelivered
  <2>2. Sound'
    BY <1>1, <1>2, <1>5, <1>13, <2>1, ReturnIsSound
  <2>3. \A t : Promised(t) => Promised(t)'
    BY <1>1, <1>2, <1>5, <1>13, <2>1, ReturnIsPromised
  <2> QED
    BY <1>3, <1>13, <2>2, <2>3
<1>14. CASE OperandReturns
  <2>1. /\ parse = "behind" /\ parse' = "behind" /\ ~ TakesIn /\ calls' = Front(calls) /\ pos' = pos
        /\ calls[top].op \notin {"all", "("}
        /\ code' = Append(code, <<calls[top].op, IF calls[top].op = "!"
                                                 THEN 0
                                                 ELSE Len(code) - calls[top].from>>)
    BY <1>6, <1>14 DEF OperandReturns, Make
  <2>2. pos' = Ending(top - 1, pos - 1) + 1
    <3>1. top - 1 + 1 = top /\ pos - 1 + 1 = pos
      BY <1>6
    <3> QED
      BY <2>1, <3>1 DEF Ending
  <2> QED
    BY <1>13, <2>1, <2>2
<1>15. CASE ParenthesisReturns
  <2>0. parse = "behind" /\ ~ TakesIn /\ calls[top].op = "("
    BY <1>6, <1>15 DEF ParenthesisReturns
  <2>1. top - 1 + 1 = top /\ pos - 1 + 1 = pos
    BY <1>6
  <2>2. CASE Peek = <<")">>
    <3>1. /\ parse' = "behind" /\ calls' = Front(calls) /\ pos' = pos + 1 /\ code' = code
      BY <1>15, <2>2 DEF ParenthesisReturns
    <3>2. pos' = Ending(top - 1, pos - 1) + 1
      BY <2>0, <2>1, <3>1 DEF Ending
    <3> QED
      BY <1>13, <2>0, <2>2, <3>1, <3>2
  <2>3. CASE Peek # <<")">>
    <3>1. Refuse
      BY <1>15, <2>3 DEF ParenthesisReturns
    <3>2. ASSUME NEW t, Promised(t) PROVE FALSE
      <4>1. PICK g \in Seq(Goals) : Promises(g, t)
        BY <3>2 DEF Promised
      <4>2. g[top] = <<pos - 1, Taken(top)>>
        BY <1>2, <1>5, <2>0, <4>1, GoalReached
      <4>3. top - 1 \in 1 .. top - 1
        <5>1. top # 1
          BY <1>2, <2>0 DEF Sound
        <5> QED
          BY <1>6, <5>1
      <4>4. Meets(top - 1, g[top - 1], g[top])
        BY <1>5, <2>1, <4>1, <4>3 DEF Promises
      <4>5. pos - 1 < Len(source) /\ source[pos] = <<")">>
        BY <2>0, <2>1, <4>2, <4>4 DEF Meets
      <4> QED
        BY <1>6, <2>3, <4>5 DEF Peek
    <3> QED
      BY <1>4, <3>1, <3>2
  <2> QED
    BY <2>2, <2>3
<1>16. CASE ParseEnds
  <2>1. parse = "behind" /\ ~ TakesIn /\ calls[top].op = "all"
    BY <1>6, <1>16 DEF ParseEnds
  <2>2. top = 1
    <3>1. SUFFICES ASSUME top # 1 PROVE FALSE
      OBVIOUS
    <3>2. top - 1 \in 1 .. top - 1 /\ top - 1 + 1 = top
      BY <1>6, <3>1
    <3>3. Leads(top - 1)
      BY <1>2, <1>5, <3>2 DEF Sound
    <3> QED
      BY <2>1, <3>2, <3>3 DEF Leads
  <2>3. calls[1] = [op |-> "all", min |-> 1, from |-> 0, begin |-> 1]
    BY <1>2 DEF Sound
  <2>4. Taken(1) = code
    <3>1. Taken(1) = SubSeq(code, 0 + 1, Len(code))
      BY <1>5, <2>2, <2>3 DEF Taken
    <3> QED
      BY <1>6, <3>1, SubSeqOfAll
  <2>5. ASSUME NEW t, Promised(t) PROVE t = code /\ pos - 1 = Len(source)
    <3>1. PICK g \in Seq(Goals) : Promises(g, t)
      BY <2>5 DEF Promised
    <3>2. g[1] = <<pos - 1, code>>
      BY <1>2, <1>5, <2>1, <2>2, <2>4, <3>1, GoalReached
    <3>3. g[1] = <<Len(source), t>>
      BY <3>1 DEF Promises
    <3> QED
      BY <3>2, <3>3
  <2>6. CASE pos > Len(source)
    <3>1. parse' = "accepted" /\ code' = code
      BY <1>16, <2>6 DEF ParseEnds
    <3>2. pos - 1 = Len(source)
      BY <1>2, <1>6, <2>6 DEF Sound
    <3>3. PICK level \in 1 .. 8 : code \in PartTrees(source, 1, Len(source), level)
      BY <1>2, <1>5, <1>6, <2>1, <2>2, <2>3, <2>4, <3>2 DEF Sound, Behind
    <3>4. code \in PartTrees(source, 1, Len(source), 1)
      <4>1. /\ 1 \in 1 .. Len(source) + 1 /\ Len(source) \in 0 .. Len(source) /\ 1 \in 1 .. 8
            /\ 1 <= level
        BY <1>6
      <4> QED
        BY <1>6, <3>3, <4>1, LowerLevel
    <3>5. Trees(source) = {code}
      BY <1>2, <2>5, <3>4, TreesArePart
    <3> QED
      BY <1>1, <3>1, <3>5 DEF GrammarInv
  <2>7. CASE ~ (pos > Len(source))
    <3>1. Refuse
      BY <1>16, <2>7 DEF ParseEnds
    <3>2. pos - 1 # Len(source)
      BY <1>6, <2>7
    <3> QED
      BY <1>4, <2>5, <3>1, <3>2
  <2> QED
    BY <2>6, <2>7
<1> QED
  BY <1>8, <1>9, <1>10, <1>11, <1>12, <1>14, <1>15, <1>16 DEF ParseStep

(* What is not a step of the parser leaves all of this alone.              *)
LEMMA GrammarKept ==
  ASSUME GrammarInv, UNCHANGED parserVars
  PROVE  GrammarInv'
<1>1. UNCHANGED <<source, parse, pos, calls, code>>
  BY DEF parserVars
<1>2. Sound => Sound'
  BY <1>1 DEF Sound, Behind, Leads, Taken, Rank, Innermost, Peek
<1>3. ASSUME NEW t, Promised(t) PROVE Promised(t)'
  <2>1. PICK g \in Seq(Goals) : Promises(g, t)
    BY <1>3 DEF Promised
  <2>2. Promises(g, t)'
    BY <1>1, <2>1
    DEF Promises, Aims, Meets, Approaches, Ending, Delivered, Taken, Rank, Innermost
  <2> QED
    BY <1>1, <2>1, <2>2 DEF Promised, Goals
<1> QED
  BY <1>1, <1>2, <1>3 DEF GrammarInv

--------------------------------------------------------------------------------
(* The evaluation *)

Worths == [p \in Valid |-> Worth(p)]

(* The meaning of a node is what its operands give it.                     *)
LEMMA MeanIs ==
  ASSUME ParserInv, NEW n \in 1 .. Len(code)
  PROVE  Mean(n) = Sense(code[n], Mean(Left(code, n)), Mean(n - 1), Worths)
<1>1. code \in Seq(Nodes) /\ WellFormed(code)
  BY DEF ParserInv
<1> QED
  BY <1>1, MeaningsUnfold DEF Mean, Worths

(* It changes with the variables only.                                     *)
LEMMA MeanKept ==
  ASSUME UNCHANGED <<code, sourceVars>>
  PROVE  Worths' = Worths /\ \A n : Mean(n)' = Mean(n)
<1>1. Worths' = Worths
  BY DEF Worths, Worth, sourceVars
<1>2. \A n : Mean(n)' = Mean(n)
  BY <1>1 DEF Mean, Worths
<1> QED
  BY <1>1, <1>2

(* What a path is worth is proper.                                         *)
LEMMA WorthIsProper ==
  ASSUME VariablesInv, SourcesProper, NEW p \in Valid
  PROVE  Proper(Worth(p))
  BY DEF VariablesInv, BagOfEvent, SourcesProper, Worth

LEMMA NoValueIsNot ==
  ASSUME NEW v, Proper(v)
  PROVE  v # NoValue /\ v \in Anything
  BY DEF Proper, NoValue, Value

(* The present visit.                                                      *)
LEMMA VisitedIs ==
  ASSUME ParserInv, VisitsTrue, visits \in Seq(Visits), visits # <<>>
  PROVE  /\ Len(visits) \in Nat \ {0}
         /\ visits[Len(visits)] \in Visits
         /\ VisitTrue(visits[Len(visits)])
         /\ Visited \in 1 .. Len(code) /\ Node \in Nodes
<1>1. /\ Len(visits) \in Nat \ {0} /\ Len(visits) \in 1 .. Len(visits)
      /\ visits[Len(visits)] \in Visits
  BY FrontOf
<1>2. VisitTrue(visits[Len(visits)])
  BY <1>1 DEF VisitsTrue
<1>3. Visited \in 1 .. Len(code)
  BY <1>2 DEF VisitTrue, Visited
<1>4. code \in Seq(Nodes)
  BY DEF ParserInv
<1> QED
  BY <1>1, <1>2, <1>3, <1>4 DEF Node

(* A visit that yields what its node means.                                *)
LEMMA YieldStep ==
  ASSUME ParserInv, VisitsTrue, visits \in Seq(Visits), visits # <<>>,
         NEW v, Yield(v), Proper(v), quiet => v = Mean(Visited),
         UNCHANGED <<code, sourceVars, quiet>>
  PROVE  /\ VisitsTrue' /\ ResultTrue' /\ visits' \in Seq(Visits)
         /\ result' # NoValue /\ result' \in Anything
<1> DEFINE top == Len(visits)
<1>1. /\ top \in Nat \ {0} /\ visits' \in Seq(Visits) /\ Len(visits') = top - 1
      /\ \A i \in 1 .. top - 1 : visits'[i] = visits[i]
  BY FrontOf DEF Yield
<1>2. \A n : Mean(n)' = Mean(n)
  BY MeanKept
<1>4. VisitsTrue'
  <2>1. ASSUME NEW i \in 1 .. Len(visits') PROVE VisitTrue(visits[i])'
    <3>1. i \in 1 .. top /\ visits'[i] = visits[i]
      BY <1>1
    <3>2. VisitTrue(visits[i])
      BY <3>1 DEF VisitsTrue
    <3> QED
      BY <1>2, <3>1, <3>2 DEF VisitTrue
  <2>2. ASSUME NEW i \in 1 .. Len(visits') - 1 PROVE Waits(visits[i], visits[i + 1])'
    <3>1. i \in 1 .. top - 1 /\ visits'[i] = visits[i] /\ visits'[i + 1] = visits[i + 1]
      BY <1>1
    <3> QED
      BY <3>1 DEF VisitsTrue, Waits, Awaited
  <2>3. visits' # <<>> => visits'[1].node = Len(code')
    <3>1. visits' # <<>> => 1 \in 1 .. top - 1
      BY <1>1
    <3> QED
      BY <1>1, <3>1 DEF VisitsTrue
  <2> QED
    BY <2>1, <2>2, <2>3 DEF VisitsTrue
<1>5. result' = v /\ result' # NoValue /\ result' \in Anything
  BY NoValueIsNot DEF Yield
<1>6. CASE visits' = <<>>
  <2>1. top = 1
    BY <1>1, <1>6
  <2>2. Visited = Len(code)
    BY <2>1 DEF VisitsTrue, Visited
  <2> QED
    BY <1>1, <1>2, <1>4, <1>5, <1>6, <2>2 DEF ResultTrue
<1>7. CASE visits' # <<>>
  <2>1. top - 1 \in 1 .. top - 1 /\ visits'[top - 1] = visits[top - 1] /\ top - 1 + 1 = top
    BY <1>1, <1>7
  <2>2. Waits(visits[top - 1], visits[top])
    BY <2>1 DEF VisitsTrue
  <2>3. Awaited(visits[Len(visits)])' = Visited /\ Node[1]' \in Operators
    BY <1>1, <2>1, <2>2 DEF Waits, Awaited, Visited, Node
  <2> QED
    BY <1>1, <1>2, <1>4, <1>5, <1>7, <2>3 DEF ResultTrue
<1> QED
  BY <1>6, <1>7

(* A visit that leads to an operand.                                       *)
LEMMA PushStep ==
  ASSUME ParserInv, VisitsTrue, visits \in Seq(Visits), visits # <<>>, Node[1] \in Operators,
         NEW left \in Anything, NEW n,
         left # NoValue =>
           /\ Node[1] # "!" /\ Proper(left) /\ ~ Decides(Node[1], left)
           /\ quiet => left = Mean(Left(code, Visited)),
         n = IF left = NoValue THEN Left(code, Visited) ELSE Visited - 1,
         visits' = Append([visits EXCEPT ![Len(visits)].left = left], Visit(n)),
         result' = NoValue,
         UNCHANGED <<code, sourceVars, quiet>>
  PROVE  VisitsTrue' /\ ResultTrue' /\ visits' \in Seq(Visits)
<1>0. PICK top : top = Len(visits)
  OBVIOUS
<1> DEFINE present == [node |-> Visited, left |-> left]
<1>1. /\ top \in Nat \ {0} /\ visits[top] \in Visits
      /\ Visited \in 1 .. Len(code) /\ Node \in Nodes /\ code \in Seq(Nodes)
  BY <1>0, VisitedIs DEF ParserInv
<1>2. \A m : Mean(m)' = Mean(m)
  BY MeanKept
<1>3. n \in 1 .. Visited - 1 /\ n \in 1 .. Len(code) /\ n \in Nat
  <2>1. WellFormed(code) /\ Visited \in Nat /\ Len(code) \in Nat
    BY <1>1 DEF ParserInv
  <2>2. Visited - 1 \in 1 .. Visited - 1 /\ Left(code, Visited) \in 1 .. Visited - 1
    BY <1>1, <2>1, OperandsInFront DEF Node
  <2> QED
    BY <1>1, <2>1, <2>2
<1>4. Visit(n) \in Visits /\ Visit(n).left = NoValue /\ Visit(n).node = n
  BY <1>3 DEF Visit, Visits, NoValue, Value, Anything, Kinds
<1>5. present \in Visits /\ [visits[top] EXCEPT !.left = left] = present
  BY <1>0, <1>1 DEF Visits, Visited
<1>6. [visits EXCEPT ![top].left = left] = [visits EXCEPT ![top] = present]
  BY <1>1, <1>5
<1> HIDE DEF present
<1>7. /\ visits' \in Seq(Visits) /\ Len(visits') = top + 1
      /\ visits'[top + 1] = Visit(n) /\ visits'[top] = present
      /\ \A i \in 1 .. top - 1 : visits'[i] = visits[i]
  <2> DEFINE s == [visits EXCEPT ![top] = present]
  <2>1. s \in Seq(Visits) /\ Len(s) = top /\ s[top] = present
        /\ \A i \in 1 .. top - 1 : s[i] = visits[i]
    BY <1>0, <1>1, <1>5
  <2> HIDE DEF s
  <2>2. visits' = Append(s, Visit(n))
    BY <1>0, <1>6 DEF s
  <2>3. PICK w \in Visits : w = Visit(n)
    BY <1>4
  <2>4. /\ Append(s, w) \in Seq(Visits) /\ Len(Append(s, w)) = top + 1
        /\ Append(s, w)[top + 1] = w /\ Append(s, w)[top] = s[top]
        /\ \A i \in 1 .. top - 1 : Append(s, w)[i] = s[i]
    BY <1>1, <2>1
  <2>5. visits' = Append(s, w)
    BY <2>2, <2>3
  <2> QED
    BY <2>1, <2>3, <2>4, <2>5
<1>8. VisitTrue(visits[top])'
  <2>1. present.node = Visited /\ present.left = left
    BY DEF present
  <2> QED
    BY <1>1, <1>2, <1>7, <2>1 DEF VisitTrue, Node, Left
<1>9. VisitTrue(visits[top + 1])'
  BY <1>3, <1>4, <1>7 DEF VisitTrue
<1>10. Waits(visits[top], visits[top + 1])'
  <2>1. present.node = Visited /\ present.left = left
    BY DEF present
  <2> QED
    BY <1>4, <1>7, <2>1 DEF Waits, Awaited, Node, Left
<1>11. VisitsTrue'
  <2>1. ASSUME NEW i \in 1 .. Len(visits') PROVE VisitTrue(visits[i])'
    <3>1. CASE i \in 1 .. top - 1
      <4>1. visits'[i] = visits[i] /\ VisitTrue(visits[i])
        BY <1>1, <1>7, <3>1 DEF VisitsTrue
      <4> QED
        BY <1>2, <4>1 DEF VisitTrue
    <3> QED
      BY <1>1, <1>7, <1>8, <1>9, <2>1, <3>1
  <2>2. ASSUME NEW i \in 1 .. Len(visits') - 1 PROVE Waits(visits[i], visits[i + 1])'
    <3>1. CASE i \in 1 .. top - 1
      <4>1. visits'[i] = visits[i] /\ Waits(visits[i], visits[i + 1])
        BY <1>1, <1>7, <3>1 DEF VisitsTrue
      <4>2. visits'[i + 1].node = visits[i + 1].node
        <5>1. CASE i + 1 = top
          BY <1>7, <5>1 DEF present, Visited
        <5>2. CASE i + 1 # top
          BY <1>1, <1>7, <3>1, <5>2
        <5> QED
          BY <5>1, <5>2
      <4> QED
        BY <4>1, <4>2 DEF Waits, Awaited
    <3>2. CASE i = top
      BY <1>10, <3>2
    <3> QED
      BY <1>1, <1>7, <2>2, <3>1, <3>2
  <2>3. visits'[1].node = Len(code')
    <3>1. CASE top = 1
      BY <1>7, <3>1 DEF present, Visited, VisitsTrue
    <3>2. CASE top # 1
      BY <1>1, <1>7, <3>2 DEF VisitsTrue
    <3> QED
      BY <3>1, <3>2
  <2> QED
    BY <2>1, <2>2, <2>3 DEF VisitsTrue
<1>12. ResultTrue'
  <2>1. visits' # <<>> /\ LeftValue' = NoValue
    BY <1>1, <1>4, <1>7 DEF LeftValue
  <2> QED
    BY <2>1 DEF ResultTrue
<1> QED
  BY <1>7, <1>11, <1>12

(* What a node with operands answers is what it means.                     *)
LEMMA AnswerMeans ==
  ASSUME ParserInv, VisitsTrue, ResultTrue, visits \in Seq(Visits), visits # <<>>,
         result # NoValue, ~ Continues
  PROVE  /\ Proper(Answer(Node[1], LeftValue, result))
         /\ quiet => Answer(Node[1], LeftValue, result) = Mean(Visited)
<1>1. /\ Visited \in 1 .. Len(code) /\ Node \in Nodes /\ VisitTrue(visits[Len(visits)])
  BY VisitedIs
<1>2. /\ Proper(result) /\ Node[1] \in Operators
      /\ quiet => result = Mean(Awaited(visits[Len(visits)]))
  BY DEF ResultTrue
<1>3. Mean(Visited) = Sense(Node, Mean(Left(code, Visited)), Mean(Visited - 1), Worths)
  BY <1>1, MeanIs DEF Node
<1>4. Awaited(visits[Len(visits)])
        = IF LeftValue = NoValue THEN Left(code, Visited) ELSE Visited - 1
  BY DEF Awaited, Visited, LeftValue, Left
<1>5. CASE Node[1] = "!"
  <2>1. LeftValue = NoValue
    BY <1>1, <1>5 DEF VisitTrue, LeftValue, Node, Visited
  <2>2. Left(code, Visited) = Visited - 1
    <3>1. Node = <<"!", 0>> /\ code[Visited] = Node
      BY <1>1, <1>5, NodeKinds DEF Node
    <3>2. Visited \in Nat
      BY <1>1
    <3> QED
      BY <3>1, <3>2 DEF Left
  <2>3. quiet => result = Mean(Visited - 1)
    BY <1>2, <1>4, <2>1, <2>2
  <2> DEFINE ml == Mean(Left(code, Visited))
  <2>4. /\ Answer("!", LeftValue, result) = Sense(Node, ml, result, Worths)
        /\ Proper(Answer("!", LeftValue, result))
    <3> HIDE DEF ml
    <3> QED
      BY <1>2, <1>5, NotMeans
  <2> QED
    BY <1>3, <1>5, <2>3, <2>4
<1>6. CASE Node[1] # "!" /\ LeftValue = NoValue
  <2>1. Decides(Node[1], result)
    BY <1>6 DEF Continues
  <2>2. quiet => result = Mean(Left(code, Visited))
    BY <1>2, <1>4, <1>6
  <2>3. /\ Answer(Node[1], NoValue, result) = Sense(Node, result, Mean(Visited - 1), Worths)
        /\ Proper(Answer(Node[1], NoValue, result))
    BY <1>2, <1>6, <2>1, LeftDecides
  <2> QED
    BY <1>3, <1>6, <2>2, <2>3
<1>7. CASE Node[1] # "!" /\ LeftValue # NoValue
  <2>1. /\ Proper(LeftValue) /\ ~ Decides(Node[1], LeftValue)
        /\ quiet => LeftValue = Mean(Left(code, Visited))
    BY <1>1, <1>7 DEF VisitTrue, LeftValue, Node, Visited, Left
  <2>2. quiet => result = Mean(Visited - 1)
    BY <1>2, <1>4, <1>7
  <2>3. /\ Answer(Node[1], LeftValue, result) = Sense(Node, LeftValue, result, Worths)
        /\ Proper(Answer(Node[1], LeftValue, result))
    BY <1>2, <1>7, <2>1, RightAnswers
  <2> QED
    BY <1>3, <2>1, <2>2, <2>3
<1> QED
  BY <1>5, <1>6, <1>7

--------------------------------------------------------------------------------
(* The steps *)

(* An event's sources hold proper values.                                  *)
LEMMA SourcesStep ==
  ASSUME IInv, [Next]_vars
  PROVE  SourcesProper'
<1>1. CASE Reset
  <2>1. ASSUME NEW p \in Valid PROVE Proper(Missing) /\ bag'[p] = Missing
    BY <1>1 DEF Reset, Empty, Missing, Proper, Anything, Kinds, IsNumeric
  <2>2. provider' \in Providers /\ event' \in Events
    BY <1>1 DEF Reset
  <2>3. ASSUME NEW p \in Valid PROVE Proper(provider'[p]) /\ Proper(FieldValue(event'[p]))
    BY <2>2, VariablesAssumption
  <2> QED
    BY <2>1, <2>3 DEF SourcesProper
<1>2. CASE Handler
  <2>1. PICK p \in Valid, v \in Written \union {Missing} : Put(p, v)
    BY <1>2 DEF Handler, Put
  <2>2. Proper(v)
    <3>1. Proper(Missing)
      BY DEF Missing, Proper, Anything, Kinds, IsNumeric
    <3> QED
      BY <3>1, VariablesAssumption
  <2>3. bag' = [bag EXCEPT ![p] = v] /\ UNCHANGED <<provider, event>> /\ DOMAIN bag = Valid
    BY <2>1 DEF Put, IInv, VariablesInv, BagOfEvent
  <2> QED
    BY <2>2, <2>3 DEF IInv, SourcesProper
<1>3. CASE UNCHANGED <<bag, provider, event>>
  BY <1>3 DEF IInv, SourcesProper
<1> QED
  BY <1>1, <1>2, <1>3
  DEF Next, vars, variableVars, sourceVars, BeginCompile, Compile, AddEdge, OnEvent,
      HandlerWrites, Evaluate, BeginEvaluation, EvaluateLiteral, EvaluatePath, LookUp,
      TakeValue, EvaluateOperand, EvaluateRight, EvaluateReturns, Decide, EndEvent,
      BeginLookup, Look, LookTyped, LookAgain, LookBoxed, EndLookups

(* The variables are handled as VariablesNext allows.                      *)
LEMMA VariablesStep ==
  ASSUME IInv, [Next]_vars
  PROVE  VariablesInv'
<1>1. ASSUME EvaluatePath PROVE VariablesNext
  <2>1. visits # <<>> /\ VisitsTrue /\ visits \in Seq(Visits) /\ ParserInv
    BY <1>1 DEF EvaluatePath, Entered, IInv, EvaluationInv
  <2>2. Node[2] \in Valid
    BY <1>1, <2>1, VisitedIs, NodeKinds DEF EvaluatePath
  <2> QED
    BY <1>1, <2>2 DEF EvaluatePath, VariablesNext
<1>2. [VariablesNext]_variableVars
  BY <1>1
  DEF Next, vars, VariablesNext, BeginCompile, Compile, AddEdge, OnEvent, HandlerWrites,
      Evaluate, BeginEvaluation, EvaluateLiteral, LookUp, TakeValue, EvaluateOperand,
      EvaluateRight, EvaluateReturns, Decide, EndEvent
<1> QED
  BY <1>2, Inductive DEF IInv

(* An edge is compiled before it is evaluated.                             *)
LEMMA ParserStep ==
  ASSUME IInv, [Next]_vars
  PROVE  ParserInv'
<1>1. CASE BeginCompile
  BY <1>1, BeginsStep DEF BeginCompile, IInv
<1>2. CASE Compile
  BY <1>2, ParseStepKeeps DEF Compile, IInv
<1>3. CASE UNCHANGED parserVars
  BY <1>3 DEF IInv, parserVars, ParserInv, CallsTrue, WellFormed, Sentence
<1> QED
  BY <1>1, <1>2, <1>3
  DEF Next, vars, AddEdge, OnEvent, HandlerWrites, Evaluate, BeginEvaluation,
      EvaluateLiteral, EvaluatePath, LookUp, TakeValue, EvaluateOperand, EvaluateRight,
      EvaluateReturns, Decide, EndEvent

(* Only the visit of a path looks something up.                            *)
LEMMA NoLookup ==
  ASSUME LookupTrue, ~ Entered \/ Node[1] # "path"
  PROVE  at = "none"
  BY DEF LookupTrue

(* What is true of an edge that is not being evaluated.                    *)
LEMMA Resting ==
  ASSUME IInv, stage # "evaluating"
  PROVE  visits = <<>> /\ result = NoValue /\ at = "none"
<1>1. visits = <<>> /\ result = NoValue /\ LookupTrue
  BY DEF IInv, EvaluationInv
<1> QED
  BY <1>1, NoLookup DEF Entered

LEMMA RestingStep ==
  ASSUME IInv,
         stage' \in {"new", "added", "refused", "begun", "decided"},
         stage' \notin {"new", "refused"} => parse' = "accepted",
         visits' = <<>>, result' = NoValue, at' = "none",
         \A v \in seen' : Proper(v)
  PROVE  EvaluationInv'
<1>1. result' \in Anything /\ visits' \in Seq(Visits)
  BY DEF NoValue, Value, Anything, Kinds
<1> QED
  BY <1>1 DEF EvaluationInv, LookupTrue

LEMMA BeginEvaluationStep ==
  ASSUME IInv, BeginEvaluation
  PROVE  EvaluationInv'
<1>1. /\ stage = "begun" /\ stage' = "evaluating" /\ visits' = <<Visit(Len(code))>>
      /\ UNCHANGED <<variableVars, parserVars, seq, result, outcome>>
  BY DEF BeginEvaluation
<1>2. result = NoValue /\ at = "none" /\ parse = "accepted"
  BY <1>1, Resting DEF IInv, EvaluationInv
<1>3. code \in Seq(Nodes) /\ code # <<>>
  BY <1>2 DEF IInv, ParserInv
<1>4. Len(code) \in 1 .. Len(code) /\ Len(code) \in Nat
  BY <1>3
<1>5. Visit(Len(code)) \in Visits /\ Visit(Len(code)).left = NoValue /\ Visit(Len(code)).node = Len(code)
  BY <1>4 DEF Visit, Visits, NoValue, Value, Anything, Kinds
<1>6. visits' \in Seq(Visits) /\ Len(visits') = 1 /\ visits'[1] = Visit(Len(code))
  BY <1>1, <1>5
<1>7. VisitsTrue'
  <2>1. VisitTrue(visits[1])'
    BY <1>1, <1>4, <1>5, <1>6 DEF VisitTrue, parserVars
  <2> QED
    BY <1>1, <1>5, <1>6, <2>1 DEF VisitsTrue, parserVars
<1>8. ResultTrue'
  BY <1>1, <1>2, <1>5, <1>6 DEF ResultTrue, LeftValue
<1> QED
  BY <1>1, <1>2, <1>6, <1>7, <1>8
  DEF IInv, EvaluationInv, LookupTrue, variableVars, lookupVars, parserVars

(* What IInv says of an evaluation.                                        *)
LEMMA Evaluating ==
  ASSUME IInv, stage = "evaluating"
  PROVE  /\ ParserInv /\ VisitsTrue /\ ResultTrue /\ LookupTrue /\ parse = "accepted"
         /\ visits \in Seq(Visits) /\ result \in Anything
         /\ VariablesInv /\ SourcesProper
  BY DEF IInv, EvaluationInv

(* A visit that ends.                                                      *)
LEMMA VisitEnds ==
  ASSUME IInv, stage = "evaluating", visits # <<>>,
         NEW v, Yield(v), Proper(v), quiet => v = Mean(Visited),
         at' = "none", \A w \in seen' : Proper(w),
         UNCHANGED <<sourceVars, parserVars, stage, quiet>>
  PROVE  EvaluationInv'
<1>1. /\ VisitsTrue' /\ ResultTrue' /\ visits' \in Seq(Visits)
      /\ result' # NoValue /\ result' \in Anything
  BY Evaluating, YieldStep DEF parserVars
<1> QED
  BY <1>1, Evaluating DEF EvaluationInv, LookupTrue, parserVars

LEMMA LiteralStep ==
  ASSUME IInv, EvaluateLiteral
  PROVE  EvaluationInv'
<1>1. stage = "evaluating" /\ visits # <<>> /\ Node[1] = "lit" /\ Yield(Node[2])
  BY DEF EvaluateLiteral, Entered
<1>2. Visited \in 1 .. Len(code) /\ Node \in Nodes
  BY <1>1, Evaluating, VisitedIs
<1>3. Proper(Node[2])
  BY <1>1, <1>2, NodeKinds
<1>4. Mean(Visited) = Node[2]
  BY <1>1, <1>2, Evaluating, MeanIs, SenseCases DEF Node
<1>5. at = "none"
  BY <1>1, Evaluating, NoLookup
<1> QED
  BY <1>1, <1>3, <1>4, <1>5, VisitEnds
  DEF EvaluateLiteral, IInv, EvaluationInv, variableVars, lookupVars

LEMMA PathStep ==
  ASSUME IInv, EvaluatePath
  PROVE  EvaluationInv'
<1>1. /\ stage = "evaluating" /\ visits # <<>> /\ Node[1] = "path" /\ Entered
      /\ BeginLookup(Node[2]) /\ UNCHANGED <<parserVars, stage, seq, evaluationVars>>
  BY DEF EvaluatePath, Entered
<1>2. Node \in Nodes
  BY <1>1, Evaluating, VisitedIs
<1>3. Node[2] \in Valid /\ Node = <<"path", Node[2]>>
  BY <1>1, <1>2, NodeKinds, OperatorsSplit DEF Nodes
<1>4. seen' = {Worth(Node[2])} /\ Proper(Worth(Node[2])) /\ at' = "typed" /\ path' = Node[2]
      /\ UNCHANGED sourceVars
  BY <1>1, <1>3, Evaluating, WorthIsProper DEF BeginLookup
<1>5. Worth(path)' = Worth(Node[2])
  BY <1>4 DEF Worth, sourceVars
<1>6. UNCHANGED <<code, visits, result, stage, quiet, parse>>
  BY <1>1 DEF parserVars, evaluationVars
<1>7. VisitsTrue' /\ ResultTrue'
  BY <1>1, <1>4, <1>6, Evaluating, MeanKept
  DEF VisitsTrue, VisitTrue, Waits, Awaited, ResultTrue, LeftValue, Node, Visited
<1>8. LookupTrue'
  BY <1>1, <1>3, <1>4, <1>5, <1>6 DEF LookupTrue, Entered, Node, Visited
<1> QED
  BY <1>1, <1>4, <1>6, <1>7, <1>8, Evaluating DEF EvaluationInv

LEMMA LookUpStep ==
  ASSUME IInv, LookUp
  PROVE  EvaluationInv'
<1>1. stage = "evaluating" /\ UNCHANGED <<parserVars, stage, seq, evaluationVars>> /\ Look
  BY DEF LookUp
<1>2. at # "none" /\ at' \in {"again", "boxed", "done"} /\ UNCHANGED <<sourceVars, path, seen>>
  BY <1>1 DEF Look, LookTyped, LookAgain, LookBoxed, Find, GoOn
<1>3. UNCHANGED <<code, visits, result, stage, quiet, parse>>
  BY <1>1 DEF parserVars, evaluationVars
<1>4. VisitsTrue' /\ ResultTrue'
  BY <1>1, <1>2, <1>3, Evaluating, MeanKept
  DEF VisitsTrue, VisitTrue, Waits, Awaited, ResultTrue, LeftValue, Node, Visited
<1>5. Worth(path)' = Worth(path)
  BY <1>2 DEF Worth, sourceVars
<1>6. LookupTrue'
  BY <1>1, <1>2, <1>3, <1>5, Evaluating DEF LookupTrue, Entered, Node, Visited
<1> QED
  BY <1>1, <1>2, <1>3, <1>4, <1>6 DEF IInv, EvaluationInv

LEMMA TakeStep ==
  ASSUME IInv, TakeValue
  PROVE  EvaluationInv'
<1>1. stage = "evaluating" /\ at = "done" /\ Yield(Convert(found)) /\ EndLookups
  BY DEF TakeValue, EndLookups
<1>2. visits # <<>> /\ Node = <<"path", path>> /\ (quiet => seen = {Worth(path)})
  BY <1>1, Evaluating DEF LookupTrue, Entered
<1>3. found \in seen /\ \A v \in seen : Proper(v)
  BY <1>1 DEF IInv, VariablesInv, LookupCurrent, EvaluationInv
<1>4. Convert(found) = Meant(found) /\ Proper(Convert(found))
  BY <1>3, ConvertMeans
<1>5. quiet => Convert(found) = Mean(Visited)
  <2>1. Visited \in 1 .. Len(code) /\ Node \in Nodes
    BY <1>2, <1>1, Evaluating, VisitedIs
  <2>2. path \in Valid /\ Node[1] = "path" /\ Node[2] = path
    BY <1>2, <2>1, NodeKinds
  <2>3. Mean(Visited) = Meant(Worths[path])
    BY <2>1, <2>2, <1>1, Evaluating, MeanIs, SenseCases DEF Node
  <2>4. Worths[path] = Worth(path)
    BY <2>2 DEF Worths
  <2> QED
    BY <1>2, <1>3, <1>4, <2>3, <2>4
<1> QED
  BY <1>1, <1>2, <1>4, <1>5, VisitEnds DEF TakeValue, EndLookups

LEMMA OperandStep ==
  ASSUME IInv, EvaluateOperand
  PROVE  EvaluationInv'
<1>1. /\ stage = "evaluating" /\ visits # <<>> /\ result = NoValue /\ Node[1] \notin {"lit", "path"}
      /\ visits' = Append(visits, Visit(Left(code, Visited)))
      /\ UNCHANGED <<variableVars, parserVars, stage, seq, result, outcome, quiet>>
  BY DEF EvaluateOperand, Entered, Left, Node
<1>2. Node[1] \in Operators /\ LeftValue = NoValue
  BY <1>1, Evaluating, VisitedIs, NodeKinds DEF ResultTrue
<1>3. [visits EXCEPT ![Len(visits)].left = NoValue] = visits
  <2>1. Len(visits) \in Nat \ {0} /\ visits[Len(visits)] \in Visits /\ visits \in Seq(Visits)
    BY <1>1, Evaluating, VisitedIs
  <2>2. [visits[Len(visits)] EXCEPT !.left = NoValue] = visits[Len(visits)]
    BY <1>2, <2>1 DEF LeftValue, Visits
  <2> QED
    BY <2>1, <2>2
<1>4. UNCHANGED <<code, sourceVars, quiet>> /\ NoValue \in Anything
  BY <1>1 DEF variableVars, parserVars, NoValue, Value, Anything, Kinds
<1>5. VisitsTrue' /\ ResultTrue' /\ visits' \in Seq(Visits)
  BY <1>1, <1>2, <1>3, <1>4, Evaluating, PushStep
<1>6. at = "none"
  BY <1>1, Evaluating, NoLookup
<1> QED
  BY <1>1, <1>5, <1>6
  DEF IInv, EvaluationInv, LookupTrue, variableVars, lookupVars, parserVars

LEMMA RightStep ==
  ASSUME IInv, EvaluateRight
  PROVE  EvaluationInv'
<1>1. /\ stage = "evaluating" /\ visits # <<>> /\ result # NoValue
      /\ Node[1] # "!" /\ LeftValue = NoValue /\ ~ Decides(Node[1], result)
      /\ visits' = Append([visits EXCEPT ![Len(visits)].left = result], Visit(Visited - 1))
      /\ result' = NoValue
      /\ UNCHANGED <<variableVars, parserVars, stage, seq, outcome, quiet>>
  BY DEF EvaluateRight, Resumed, Continues
<1>2. /\ Node[1] \in Operators /\ Proper(result)
      /\ quiet => result = Mean(Left(code, Visited))
  BY <1>1, Evaluating DEF ResultTrue, Awaited, LeftValue, Visited, Left
<1>3. UNCHANGED <<code, sourceVars, quiet>>
  BY <1>1 DEF variableVars, parserVars
<1>4. VisitsTrue' /\ ResultTrue' /\ visits' \in Seq(Visits)
  BY <1>1, <1>2, <1>3, Evaluating, PushStep
<1>5. at = "none" /\ result' \in Anything
  BY <1>1, Evaluating, NoLookup DEF Entered, NoValue, Value, Anything, Kinds
<1> QED
  BY <1>1, <1>4, <1>5
  DEF IInv, EvaluationInv, LookupTrue, variableVars, lookupVars, parserVars

LEMMA ReturnsStep ==
  ASSUME IInv, EvaluateReturns
  PROVE  EvaluationInv'
<1>1. /\ stage = "evaluating" /\ visits # <<>> /\ result # NoValue /\ ~ Continues
      /\ Yield(Answer(Node[1], LeftValue, result))
      /\ UNCHANGED <<variableVars, parserVars, stage, seq, outcome, quiet>>
  BY DEF EvaluateReturns, Resumed
<1>2. /\ Proper(Answer(Node[1], LeftValue, result))
      /\ quiet => Answer(Node[1], LeftValue, result) = Mean(Visited)
  BY <1>1, Evaluating, AnswerMeans
<1>3. at = "none"
  BY <1>1, Evaluating, NoLookup DEF Entered
<1> QED
  BY <1>1, <1>2, <1>3, VisitEnds DEF IInv, EvaluationInv, variableVars, lookupVars

(* A handler's write disturbs neither the visits nor what they wait for.   *)
LEMMA WriteStep ==
  ASSUME IInv, HandlerWrites
  PROVE  EvaluationInv'
<1>1. /\ quiet' = FALSE /\ UNCHANGED <<parserVars, stage, visits, result>>
      /\ stage \in {"begun", "evaluating"}
  BY DEF HandlerWrites
<1>2. PICK p \in Valid, v \in Written \union {Missing} : Put(p, v)
  BY DEF HandlerWrites, Handler, Put
<1>3. UNCHANGED <<at, path>> /\ seen' \subseteq seen \union {Worth(p)'}
  BY <1>2 DEF Put
<1>4. Proper(Worth(p)')
  <2>1. VariablesInv' /\ SourcesProper'
    BY VariablesStep, SourcesStep DEF Next
  <2>2. written'[p] # Missing => Worth(p)' = written'[p] /\ written'[p] = bag'[p]
    BY <2>1 DEF Worth, VariablesInv, BagOfEvent
  <2>3. Worth(p)' \in {bag'[p], provider'[p], FieldValue(event'[p])}
    BY <2>2 DEF Worth
  <2>4. Proper(bag'[p]) /\ Proper(provider'[p]) /\ Proper(FieldValue(event'[p]))
    BY <2>1 DEF SourcesProper
  <2> QED
    BY <2>3, <2>4
<1>5. UNCHANGED <<code, parse>>
  BY <1>1 DEF parserVars
<1>6. stage = "evaluating" => VisitsTrue' /\ ResultTrue'
  BY <1>1, <1>5, Evaluating
  DEF VisitsTrue, VisitTrue, Waits, Awaited, ResultTrue, LeftValue, Node, Visited
<1>7. LookupTrue'
  BY <1>1, <1>3, <1>5 DEF IInv, EvaluationInv, LookupTrue, Entered, Node, Visited
<1> QED
  BY <1>1, <1>3, <1>4, <1>5, <1>6, <1>7 DEF IInv, EvaluationInv

(* The evaluation is kept to its meaning by every step.                    *)
LEMMA EvaluationStep ==
  ASSUME IInv, [Next]_vars
  PROVE  EvaluationInv'
<1>0. /\ \A v \in seen : Proper(v)
      /\ stage \in {"new", "added", "refused", "begun", "evaluating", "decided"}
      /\ stage \notin {"new", "refused"} => parse = "accepted"
  BY DEF IInv, EvaluationInv
<1>1. CASE BeginCompile \/ Compile
  <2>1. parse \in {"idle", "operand", "behind"}
    BY <1>1
    DEF BeginCompile, ParseBegins, Compile, ParseStep, ParseLiteral, ParsePath, ParsePrefix,
        NoOperand, ParseOperator, OperandReturns, ParenthesisReturns, ParseEnds
  <2>2. stage \in {"new", "refused"} /\ UNCHANGED <<stage, visits, result, at, seen>>
    BY <1>0, <1>1, <2>1
    DEF BeginCompile, Compile, evaluationVars, variableVars, lookupVars
  <2> QED
    BY <1>0, <2>2, Resting, RestingStep
<1>2. CASE AddEdge
  <2>1. /\ stage = "new" /\ stage' = IF parse = "accepted" THEN "added" ELSE "refused"
        /\ UNCHANGED <<visits, result, at, seen, parse>>
    BY <1>2 DEF AddEdge, evaluationVars, variableVars, lookupVars, parserVars
  <2> QED
    BY <1>0, <2>1, Resting, RestingStep
<1>3. CASE OnEvent
  <2>1. stage = "added" /\ stage' = "begun" /\ UNCHANGED <<visits, result, at, seen, parse>>
    BY <1>3 DEF OnEvent, Reset, evaluationVars, lookupVars, parserVars
  <2> QED
    BY <1>0, <2>1, Resting, RestingStep
<1>4. CASE Decide
  <2>1. /\ stage = "evaluating" /\ stage' = "decided" /\ visits = <<>> /\ result' = NoValue
        /\ UNCHANGED <<visits, at, seen, parse>>
    BY <1>4 DEF Decide, variableVars, lookupVars, parserVars
  <2>2. at = "none"
    BY <2>1, Evaluating, NoLookup DEF Entered
  <2> QED
    BY <1>0, <2>1, <2>2, RestingStep
<1>5. CASE EndEvent
  <2>1. stage = "decided" /\ stage' = "added" /\ UNCHANGED <<visits, result, at, seen, parse>>
    BY <1>5 DEF EndEvent, variableVars, lookupVars, parserVars
  <2> QED
    BY <1>0, <2>1, Resting, RestingStep
<1>6. CASE UNCHANGED vars
  <2>1. UNCHANGED <<sourceVars, code, visits, result, at, path, seen, stage, quiet, parse>>
    BY <1>6 DEF vars, variableVars, lookupVars, parserVars, evaluationVars
  <2>2. Worth(path)' = Worth(path)
    BY <2>1 DEF Worth, sourceVars
  <2>3. LookupTrue'
    BY <2>1, <2>2 DEF IInv, EvaluationInv, LookupTrue, Entered, Node, Visited
  <2>4. stage = "evaluating" => VisitsTrue' /\ ResultTrue'
    BY <2>1, Evaluating, MeanKept
    DEF VisitsTrue, VisitTrue, Waits, Awaited, ResultTrue, LeftValue, Node, Visited
  <2> QED
    BY <2>1, <2>3, <2>4 DEF IInv, EvaluationInv
<1> QED
  BY <1>1, <1>2, <1>3, <1>4, <1>5, <1>6, WriteStep, BeginEvaluationStep, LiteralStep,
     PathStep, LookUpStep, TakeStep, OperandStep, RightStep, ReturnsStep
  DEF Next, Evaluate

(* What has been decided is what the expression means.                     *)
LEMMA OutcomeStep ==
  ASSUME IInv, [Next]_vars
  PROVE  OutcomeMeant'
<1>1. CASE Decide
  <2>1. /\ stage = "evaluating" /\ visits = <<>> /\ outcome' = ToBool(result)
        /\ UNCHANGED <<code, sourceVars, quiet>>
    BY <1>1 DEF Decide, variableVars, parserVars
  <2>2. quiet => result = Mean(Len(code))
    BY <2>1, Evaluating DEF ResultTrue
  <2>3. Mean(Len(code)) = Meaning(code, Worths) /\ Worths' = Worths
    BY <2>1, MeanKept DEF Mean, Meaning, Worths
  <2> QED
    BY <2>1, <2>2, <2>3 DEF OutcomeMeant, Worths
<1>2. CASE UNCHANGED vars
  <2>1. UNCHANGED <<stage, quiet, code, outcome, sourceVars>>
    BY <1>2 DEF vars, variableVars, parserVars, evaluationVars
  <2>2. Worths' = Worths
    BY <2>1, MeanKept
  <2> QED
    BY <2>1, <2>2 DEF IInv, OutcomeMeant, Worths
<1>3. CASE BeginCompile \/ Compile
  <2>1. parse # "accepted" /\ stage' = stage
    BY <1>3
    DEF BeginCompile, ParseBegins, Compile, ParseStep, ParseLiteral, ParsePath, ParsePrefix,
        NoOperand, ParseOperator, OperandReturns, ParenthesisReturns, ParseEnds
  <2> QED
    BY <2>1 DEF IInv, EvaluationInv, OutcomeMeant
<1>4. CASE stage' # "decided"
  BY <1>4 DEF OutcomeMeant
<1> QED
  BY <1>1, <1>2, <1>3, <1>4
  DEF Next, AddEdge, OnEvent, HandlerWrites, Evaluate, BeginEvaluation, EvaluateLiteral,
      EvaluatePath, LookUp, TakeValue, EvaluateOperand, EvaluateRight, EvaluateReturns,
      EndEvent, Entered, Resumed

LEMMA InitHolds == Init => IInv
<1> SUFFICES ASSUME Init PROVE IInv
  OBVIOUS
<1>1. VariablesInv
  BY InvInit DEF Init
<1>2. SourcesProper
  <2>1. Proper(Missing)
    BY DEF Missing, Proper, Anything, Kinds, IsNumeric
  <2>2. bag = Empty /\ provider = Empty /\ event = Empty
    BY DEF Init, VariablesInit
  <2>3. FieldValue(Missing) = Missing
    BY DEF FieldValue, Missing
  <2> QED
    BY <2>1, <2>2, <2>3 DEF SourcesProper, Empty
<1>3. ParserInv
  BY ParserInit0
<1>4. EvaluationInv
  BY DEF Init, VariablesInit, EvaluationInv, LookupTrue, NoValue, Value, Anything, Kinds
<1> QED
  BY <1>1, <1>2, <1>3, <1>4 DEF IInv, Init, OutcomeMeant

LEMMA IInvInductive == IInv /\ [Next]_vars => IInv'
  BY VariablesStep, SourcesStep, ParserStep, EvaluationStep, OutcomeStep DEF IInv

LEMMA GrammarInductive ==
  IInv /\ GrammarInv /\ [Next]_vars => IInv' /\ GrammarInv'
<1> SUFFICES ASSUME IInv, GrammarInv, [Next]_vars PROVE IInv' /\ GrammarInv'
  OBVIOUS
<1>1. ParserInv /\ IInv' /\ ParserInv'
  BY IInvInductive, ParserStep DEF IInv
<1>2. CASE BeginCompile
  BY <1>1, <1>2, GrammarBegins DEF BeginCompile
<1>3. CASE Compile
  BY <1>1, <1>3, GrammarStep DEF Compile
<1>4. CASE UNCHANGED parserVars
  BY <1>1, <1>4, GrammarKept
<1> QED
  BY <1>1, <1>2, <1>3, <1>4
  DEF Next, AddEdge, OnEvent, HandlerWrites, Evaluate, BeginEvaluation, EvaluateLiteral,
      EvaluatePath, LookUp, TakeValue, EvaluateOperand, EvaluateRight, EvaluateReturns,
      Decide, EndEvent, vars

--------------------------------------------------------------------------------
(* Theorems *)

(* What the parser accepts is a sentence of the grammar, what it builds    *)
(* the only tree the grammar has for it, and what it refuses is none       *)
(* (parser.go:28-104).                                                     *)
THEOREM CompilationIsExact == Spec => []CompiledExactly
<1>1. Init => IInv /\ GrammarInv
  BY InitHolds DEF GrammarInv, Init, ParserInit
<1>2. GrammarInv => CompiledExactly
  BY DEF GrammarInv, CompiledExactly
<1> QED
  BY <1>1, <1>2, GrammarInductive, PTL DEF Spec

(* If no handler writes meanwhile, the outcome of an evaluation is what    *)
(* the expression means: stopping at lookups, leaving out what has been    *)
(* decided and the chain of adapters change nothing (ast.go:92-263,        *)
(* value.go:25-66, compiler.go:177-283).                                   *)
THEOREM OutcomesAreMeant == Spec => []OutcomeMeant
<1>1. IInv => OutcomeMeant
  BY DEF IInv
<1> QED
  BY <1>1, InitHolds, IInvInductive, PTL DEF Spec

(* A value found is one the path had at some moment of its lookup, in this *)
(* event (context.go:167-217, bag.go:99-110).                              *)
THEOREM LookupsAreCurrent == Spec => []LookupCurrent
<1>1. IInv => LookupCurrent
  BY DEF IInv, VariablesInv
<1> QED
  BY <1>1, InitHolds, IInvInductive, PTL DEF Spec

================================================================================
