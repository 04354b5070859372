--------------------------------- MODULE Values ---------------------------------
(***************************************************************************)
(* The values of expressions and how numbers compare                       *)
(* (src/pkg/expression/value.go).                                          *)
(*                                                                         *)
(* A value is its kind and a number: of a bool 0 or 1, of a string its     *)
(* place in the lexicographic order, of an object or an adapter's number   *)
(* what tells it from others.  The float that is not a number has a kind   *)
(* of its own, "nan".                                                      *)
(***************************************************************************)
EXTENDS Integers

CONSTANTS
  MaxInt,    \* math.MaxInt64
  Floats,    \* the numbers float64 can represent,
  FloatOf    \* and the one an integer is rounded to

MinInt == - MaxInt - 1
MaxUint == 2 * MaxInt + 1

(* Rounding does not pass a number that can be represented.                *)
ASSUME IntAssumption == MaxInt \in Nat
ASSUME FloatAssumption ==
  /\ Floats \subseteq Int
  /\ FloatOf \in [MinInt .. MaxUint -> Floats]
  /\ \A i \in MinInt .. MaxUint, f \in Floats :
       (i <= f => FloatOf[i] <= f) /\ (f <= i => f <= FloatOf[i])

Value(kind, n) == [kind |-> kind, n |-> n]

Numbers ==
  [kind : {"int"}, n : MinInt .. MaxInt] \union [kind : {"uint"}, n : 0 .. MaxUint]
    \union [kind : {"float"}, n : Floats] \union {Value("nan", 0)}

IsInteger(v) == v.kind \in {"int", "uint"}
IsNumeric(v) == v.kind \in {"int", "uint", "float", "nan"}

Comparisons == {"==", "!=", ">", ">=", "<", "<="}

(* The same switch for every Go type, and for the result of an adapter.    *)
Holds(op, l, r) ==
  CASE op = "==" -> l = r
    [] op = "!=" -> l # r
    [] op = ">" -> l > r
    [] op = ">=" -> l >= r
    [] op = "<" -> l < r
    [] op = "<=" -> l <= r

(* uint64(i)                                                               *)
ToUint(i) == IF i < 0 THEN i + MaxUint + 1 ELSE i

CompareSignedUnsigned(op, l, r) ==
  IF l < 0 THEN op \in {"!=", "<", "<="} ELSE Holds(op, ToUint(l), r)

CompareUnsignedSigned(op, l, r) ==
  IF r < 0 THEN op \in {"!=", ">", ">="} ELSE Holds(op, l, ToUint(r))

AsFloat(v) == IF v.kind = "float" THEN v.n ELSE FloatOf[v.n]

CompareFloat(op, l, r) ==
  IF "nan" \in {l.kind, r.kind} THEN op = "!=" ELSE Holds(op, AsFloat(l), AsFloat(r))

CompareNumeric(op, l, r) ==
  CASE {l.kind, r.kind} \intersect {"float", "nan"} # {} -> CompareFloat(op, l, r)
    [] l.kind = r.kind /\ IsInteger(l) -> Holds(op, l.n, r.n)
    [] l.kind = "int" /\ r.kind = "uint" -> CompareSignedUnsigned(op, l.n, r.n)
    [] OTHER -> CompareUnsignedSigned(op, l.n, r.n)

--------------------------------------------------------------------------------
(* Signed and unsigned integers compare as the numbers they are, floats    *)
(* after rounding, which may make different numbers equal but never        *)
(* reverses them; and of two edges with opposite comparisons exactly one   *)
(* is selected, unless one side is not a number, when it is none or !=     *)
(* (value.go:85-106, src/docs/api-guide.md:380-382).                       *)
ComparisonsExact ==
  \A l, r \in Numbers :
    /\ IsInteger(l) /\ IsInteger(r) =>
         \A op \in Comparisons : CompareNumeric(op, l, r) = Holds(op, l.n, r.n)
    /\ CompareNumeric("!=", l, r) = ~ CompareNumeric("==", l, r)
    /\ IF "nan" \in {l.kind, r.kind}
       THEN \A op \in Comparisons \ {"!="} : ~ CompareNumeric(op, l, r)
       ELSE /\ l.n < r.n => CompareNumeric("<=", l, r)
            /\ l.n > r.n => CompareNumeric(">=", l, r)
            /\ CompareNumeric(">=", l, r) = ~ CompareNumeric("<", l, r)
            /\ CompareNumeric("<=", l, r) = ~ CompareNumeric(">", l, r)
===============================================================================
