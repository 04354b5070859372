------------------------------ MODULE MCConditions ------------------------------
(***************************************************************************)
(* Words of three bits.  Every expression of at most MaxTokens tokens of a *)
(* small alphabet is compiled; some with up to three lookups are evaluated *)
(* too.                                                                    *)
(***************************************************************************)
EXTENDS Conditions

CONSTANT MaxTokens

x == <<"x">>
y == <<"y">>
Trailing == <<"x", "">>
AllPaths == {x, y, Trailing}

X == <<"path", x>>
Y == <<"path", y>>
Lit(kind, n) == <<"lit", Value(kind, n)>>
Op(op) == <<"op", op>>
One == Lit("integer", 1)
Nil == Lit("nil", 0)

Alphabet == {X, Op("!"), Op("||"), Op("=="), Op("|"), Op("<<"), <<"(">>, <<")">>}
Short == UNION {[1 .. n -> Alphabet] : n \in 1 .. MaxTokens}

Some ==
  {<<X, Op(op), Y>> : op \in {"&&", "||", "==", "<", "&", "&^", "^", "|"}}
  \union {<<X, Op(op), One>> : op \in {"<<", ">>", ">="}}
  \union {<<X>>, <<Op("!"), X>>, <<X, Op("!="), Nil, Op("&&"), X, Op(">"), Y>>,
          <<X, Op("||"), Y, Op("&&"), X>>}
Odd ==
  {<<Lit("integer", n), Op("&&"), Lit("bool", 1)>> : n \in {1, 5, 9}}
  \union {<<<<"path", Trailing>>>>, <<>>}
  \union {<<X, Op(a), Y, Op(b), One>> : a, b \in {"&&", "<", "^", "&", "&^", ">>"}}
AllSources == Short \union Some \union Odd

Rounded == [i \in -4 .. 7 |-> CASE i = 5 -> 4 [] i = 7 -> 8 [] OTHER -> i]
Represented == (-4 .. 4) \union {6, 8}

ThreeBits == [u \in 0 .. 7 |-> {i \in 0 .. 2 : (u \div 2 ^ i) % 2 = 1}]

Texts == [n \in {0, 1} |-> n = 1]

ThreeAdapters ==
  << [order |-> 1, handles |-> {"convert", "compare"}, fails |-> {}, scale |-> 1],
     [order |-> 0, handles |-> {"convert"}, fails |-> {}, scale |-> -1],
     [order |-> 0, handles |-> {"convert", "bool"}, fails |-> {"bool"}, scale |-> 0] >>

HandlerValues == {Value("bool", 1), Value("int", -1), Value("uint", 7)}

Same(v) == [p \in {x, y} |-> v]
SomeProviders == {Same(Missing), [Same(Missing) EXCEPT ![y] = Value("domain", 1)]}
SomeEvents ==
  {[Same(Value("nil", 0)) EXCEPT ![y] = Value("named", 2)],
   [Same(Value("bool", 0)) EXCEPT ![y] = Failed],
   [Same(Value("float", 4)) EXCEPT ![x] = Value("nan", 0)]}

(* That comparisons are exact is a theorem of Conditions_proofs for        *)
(* every width; here TLC evaluates it for three bits.                      *)
ASSUME ComparisonsChecked == ComparisonsExact

(* Bit operators on words of three bits are the usual arithmetic.          *)
ASSUME BitsChecked == BitsExact
===============================================================================
