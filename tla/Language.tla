-------------------------------- MODULE Language --------------------------------
(***************************************************************************)
(* What an expression is and means, as src/docs/api-guide.md, lines        *)
(* 372-407, and the precedence table say it: the grammar level by level,   *)
(* and the meaning of a tree under given values of the paths.  Trees are   *)
(* sequences of nodes as in Parser.                                        *)
(***************************************************************************)
EXTENDS Expressions

Leaf(token) ==
  CASE token[1] = "lit" /\ LiteralValue(token[2]) # Error -> {<<<<"lit", LiteralValue(token[2])>>>>}
    [] token[1] = "path" -> {<<token>>}
    [] OTHER -> {}

(* The trees of the tokens lo .. hi of s, given those of their parts:      *)
(* operators of a level associate to the left, their operands are of       *)
(* higher levels; level 8 is an operand.                                   *)
Rule(s, trees, lo, hi, level) ==
  IF level < 8
  THEN trees[<<lo, hi, level + 1>>] \union
       UNION {{l \o r \o <<<<s[i][2], Len(r)>>>> :
                 l \in trees[<<lo, i - 1, level>>], r \in trees[<<i + 1, hi, level + 1>>]} :
              i \in {i \in lo + 1 .. hi - 1 : IsOp(s[i]) /\ Precedence(s[i][2]) = level}}
  ELSE IF lo = hi THEN Leaf(s[lo])
  ELSE IF lo > hi THEN {}
  ELSE IF s[lo] = <<"op", "!">>
  THEN {Append(t, <<"!", 0>>) : t \in trees[<<lo + 1, hi, 8>>]}
  ELSE IF s[lo] = <<"(">> /\ s[hi] = <<")">>
  THEN trees[<<lo + 1, hi - 1, 1>>]
  ELSE {}

Parts(s) == (1 .. Len(s) + 1) \X (0 .. Len(s)) \X (1 .. 8)

Grammar(s) == LET trees[part \in Parts(s)] == Rule(s, trees, part[1], part[2], part[3]) IN trees

Trees(s) == Grammar(s)[<<1, Len(s), 1>>]

Sentence(s, valid) == \A i \in DOMAIN s : s[i][1] = "path" => s[i][2] \in valid

(* The adapter asked first: the least order, among equals the first one    *)
(* registered.                                                             *)
First(request) ==
  LET asked == {i \in DOMAIN Adapters : request \in Adapters[i].handles}
      least == {i \in asked : \A j \in asked : Adapters[i].order <= Adapters[j].order}
  IN  CHOOSE i \in least : \A j \in least : i <= j

Meant(v) ==
  IF v.kind = "domain" /\ \E i \in DOMAIN Adapters : "convert" \in Adapters[i].handles
  THEN IF "convert" \in Adapters[First("convert")].fails
       THEN Error
       ELSE Value("number", v.n * Adapters[First("convert")].scale)
  ELSE Convert(v)

(* Numbers compare as what they are, or as floats if one of them is one;   *)
(* what is not a number differs from everything.                           *)
Exactly(op, l, r) ==
  IF "nan" \in {l.kind, r.kind} THEN op = "!="
  ELSE IF IsInteger(l) /\ IsInteger(r) THEN Holds(op, l.n, r.n)
  ELSE Holds(op, AsFloat(l), AsFloat(r))

(* The meaning of a node whose operands mean l and r, the latter the only  *)
(* one of !                                                                *)
Sense(node, l, r, worth) ==
  CASE node[1] = "lit" -> node[2]
    [] node[1] = "path" -> Meant(worth[node[2]])
    [] node[1] = "!" -> IF r.kind = "bool" THEN Truth(r = False) ELSE Error
    [] node[1] \in Logical ->
         IF l = Truth(node[1] = "||") THEN l
         ELSE IF l.kind = "bool" /\ r.kind = "bool" THEN r ELSE Error
    [] OTHER ->
         IF Error \in {l, r} THEN Error
         ELSE IF node[1] \in Comparisons
         THEN IF IsNumeric(l) /\ IsNumeric(r)
              THEN Truth(Exactly(node[1], l, r))
              ELSE Compare(node[1], l, r)
         ELSE IF {l.kind, r.kind} \subseteq {"int", "uint"} /\ l.n >= 0 /\ r.n >= 0
         THEN LET u == Combine(node[1], l.n, r.n)
                  fits == l.kind = "int" /\ r.kind = "int" /\ u <= MaxInt
              IN  Value(IF fits THEN "int" ELSE "uint", u)
         ELSE Error

(* The meaning of every node, without regard to an order of evaluation.    *)
Meanings(tree, worth) ==
  LET m[n \in DOMAIN tree] == Sense(tree[n], m[n - 1 - tree[n][2]], m[n - 1], worth)
  IN  m

Meaning(tree, worth) == Meanings(tree, worth)[Len(tree)]

--------------------------------------------------------------------------------
(* Bit operators as arithmetic modulo 2^Width.                             *)
Calculate(op, l, r) ==
  LET both == Combine("&", l, r)
  IN  CASE op = "&" -> l + r - Combine("|", l, r)
        [] op = "|" -> l + r - both
        [] op = "^" -> l + r - 2 * both
        [] op = "&^" -> l - both
        [] op = "<<" -> (l * 2 ^ r) % (MaxUint + 1)
        [] op = ">>" -> l \div 2 ^ r

BitsExact ==
  \A op \in BitOperators : \A l, r \in 0 .. MaxUint : Combine(op, l, r) = Calculate(op, l, r)
================================================================================
