------------------------------ MODULE Expressions ------------------------------
(***************************************************************************)
(* What the expressions of edges are made of: tokens, operators and the    *)
(* values they yield, number adapters (src/pkg/expression).  How tokens    *)
(* become a tree is Parser's, how a tree is evaluated Conditions'.         *)
(*                                                                         *)
(* A token is a literal, a path, an operator or a parenthesis.             *)
(* A definition Name_Change is a mistake the code could have made in Name. *)
(***************************************************************************)
EXTENDS Values, Sequences, FiniteSets

CONSTANTS
  Width,      \* bits of an integer
  Bits,       \* which of them a word has set
  Truths,     \* what strconv.ParseBool makes of some strings
  Adapters    \* the number adapters in the order of their registration

Places == 0 .. Width - 1

ASSUME BitsAssumption ==
  /\ Width \in Nat
  /\ Bits \in [0 .. MaxUint -> SUBSET Places]
  /\ \A S \in SUBSET Places : \E u \in 0 .. MaxUint : Bits[u] = S
ASSUME AdapterAssumption ==
  /\ Adapters \in Seq([order : Int, scale : Int,
                      handles : SUBSET {"convert", "compare", "bool"},
                      fails : SUBSET {"convert", "compare", "bool"}])
  /\ \A i \in DOMAIN Adapters : Adapters[i].fails \subseteq Adapters[i].handles

Error == Value("error", 0)
Truth(b) == Value("bool", IF b THEN 1 ELSE 0)
True == Truth(TRUE)
False == Truth(FALSE)

--------------------------------------------------------------------------------
(* Number adapters *)

(* finalizeNumberAdapters: in the order they ask for, then of registration.*)
(* An adapter's place is how many come before it.                          *)
Before(i, j) ==
  \/ Adapters[i].order < Adapters[j].order
  \/ Adapters[i].order = Adapters[j].order /\ i < j

Place_Unsorted(i) == i
Place(i) == Cardinality({j \in DOMAIN Adapters : Before(j, i)})

(* The first adapter of the chain that handles a request, or none.         *)
Handlers(request) == {i \in DOMAIN Adapters : request \in Adapters[i].handles}
IsHandled(request) == Handlers(request) # {}
Adapter(request) ==
  Adapters[CHOOSE i \in Handlers(request) : \A j \in Handlers(request) : Place(i) <= Place(j)]

(* The converters come before the adapters and take all but objects: here  *)
(* "named", of a type defined over an integer, and "domain", which only an *)
(* adapter knows.                                                          *)
Convert(v) ==
  CASE v.kind \in {"missing", "failed"} -> Error
    [] v.kind = "domain" /\ IsHandled("convert") ->
         IF "convert" \in Adapter("convert").fails
         THEN Error
         ELSE Value("number", v.n * Adapter("convert").scale)
    [] OTHER -> v

CompareNumber(op, l, r) ==
  IF /\ "number" \in {l.kind, r.kind} /\ {l.kind, r.kind} \subseteq {"number", "int", "uint"}
     /\ IsHandled("compare") /\ "compare" \notin Adapter("compare").fails
  THEN Truth(Holds(op, l.n, r.n))
  ELSE Error

(* The result of an expression becomes a bool, the operands of !, && and   *)
(* || have to be one.                                                      *)
ToBool(v) ==
  CASE v.kind \in {"bool", "int", "uint"} -> Truth(v.n # 0)
    [] v.kind = "string" -> IF v.n \in DOMAIN Truths THEN Truth(Truths[v.n]) ELSE Error
    [] v.kind = "number" /\ IsHandled("bool") /\ "bool" \notin Adapter("bool").fails ->
         Truth(v.n # 0)
    [] OTHER -> Error

--------------------------------------------------------------------------------
(* Operators *)

CompareBool(op, l, r) == IF op \in {"==", "!="} THEN Truth(Holds(op, l.n, r.n)) ELSE Error

Compare(op, l, r) ==
  CASE "nil" \in {l.kind, r.kind} ->
         IF op \in {"==", "!="} THEN Truth((l.kind = r.kind) = (op = "==")) ELSE Error
    [] IsNumeric(l) /\ IsNumeric(r) -> Truth(CompareNumeric(op, l, r))
    [] l.kind = "string" /\ r.kind = "string" -> Truth(Holds(op, l.n, r.n))
    [] l.kind = "bool" /\ r.kind = "bool" -> CompareBool(op, l, r)
    [] OTHER -> CompareNumber(op, l, r)

(* Words as sets of bits.                                                  *)
Word(S) == CHOOSE u \in 0 .. MaxUint : Bits[u] = S

BitOperators == {"&", "|", "^", "&^", "<<", ">>"}

Combine(op, l, r) ==
  CASE op = "&" -> Word(Bits[l] \intersect Bits[r])
    [] op = "|" -> Word(Bits[l] \union Bits[r])
    [] op = "^" -> Word((Bits[l] \ Bits[r]) \union (Bits[r] \ Bits[l]))
    [] op = "&^" -> Word(Bits[l] \ Bits[r])
    [] op = "<<" -> Word({i \in Places : i - r \in Bits[l]})
    [] op = ">>" -> Word({i \in Places : i + r \in Bits[l]})

(* Negative integers are refused, and what does not fit an int is a uint.  *)
Bitwise(op, l, r) ==
  IF ~ IsInteger(l) \/ ~ IsInteger(r) \/ l.n < 0 \/ r.n < 0
  THEN Error
  ELSE LET u == Combine(op, l.n, r.n)
       IN  Value(IF {l.kind, r.kind} = {"int"} /\ u <= MaxInt THEN "int" ELSE "uint", u)

Operate(op, l, r) == IF op \in Comparisons THEN Compare(op, l, r) ELSE Bitwise(op, l, r)

--------------------------------------------------------------------------------
(* Tokens *)

(* A literal without a point is an int if it can be, then a uint.          *)
LiteralValue(l) ==
  CASE l.kind # "integer" -> l
    [] l.kind = "integer" /\ l.n <= MaxInt -> Value("int", l.n)
    [] l.kind = "integer" /\ l.n \in MaxInt + 1 .. MaxUint -> Value("uint", l.n)
    [] OTHER -> Error

Precedence(op) ==
  CASE op = "||" -> 1
    [] op = "&&" -> 2
    [] op \in Comparisons -> 3
    [] op = "|" -> 4
    [] op = "^" -> 5
    [] op \in {"&", "&^"} -> 6
    [] op \in {"<<", ">>"} -> 7
    [] OTHER -> 0

IsOp(token) == token[1] = "op"
Operators == {"!", "&&", "||"} \union Comparisons \union BitOperators

--------------------------------------------------------------------------------
(* Nodes *)

Logical == {"&&", "||"}

(* A left operand after which the right one is not evaluated.              *)
Decides(op, v) ==
  \/ v = Error
  \/ op \in Logical /\ (v.kind = "bool" => v = Truth(op = "||"))

(* What a node yields when its last operand has yielded v, and the one     *)
(* before it, if there is one, left.                                       *)
Answer(op, left, v) ==
  CASE v = Error -> Error
    [] v # Error /\ op = "!" -> IF v.kind = "bool" THEN Truth(v = False) ELSE Error
    [] v # Error /\ op \in Logical -> IF v.kind = "bool" THEN v ELSE Error
    [] OTHER -> Operate(op, left, v)
===============================================================================
