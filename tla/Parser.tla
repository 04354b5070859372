--------------------------------- MODULE Parser ---------------------------------
(***************************************************************************)
(* The compilation of an expression (parser.go and Compile in compiler.go, *)
(* src/pkg/expression), a precedence-climbing parser taken apart: a step   *)
(* for each token, for each return of parseExpression and for its end.     *)
(*                                                                         *)
(* A tree is the sequence of its nodes in the order in which the parser    *)
(* makes them, operands before operators: <<"lit", value>>, <<"path", p>>, *)
(* <<"!", 0>> or <<operator, number of nodes of the right operand>>.  The  *)
(* last node is the root, the one before a node its last operand.          *)
(* A definition Name_Change is a mistake the code could have made in Name. *)
(***************************************************************************)
EXTENDS Expressions, SequencesExt

VARIABLES
  source,   \* tokens of the expression
  parse,    \* "idle", at an "operand" or behind one, "accepted", "refused"
  pos,      \* the next token
  calls,    \* the calls of parseExpression under way
  code      \* the nodes made so far

parserVars == <<source, parse, pos, calls, code>>

(* A call: what is in front of what it parses, the least precedence it may *)
(* take in, the number of nodes there were before and, as history, where   *)
(* it begins.                                                              *)
Call(op, min, begin) == [op |-> op, min |-> min, from |-> Len(code), begin |-> begin]

ParserInit == parse = "idle" /\ pos = 1 /\ calls = <<>> /\ code = <<>>

Peek == IF pos <= Len(source) THEN source[pos] ELSE <<"end">>

Refuse == parse' = "refused" /\ calls' = <<>> /\ code' = <<>> /\ UNCHANGED <<source, pos>>

(* The scanner refuses an expression with a path that is not valid.        *)
ParseBegins(valid) ==
  /\ parse = "idle"
  /\ IF \A i \in DOMAIN source : source[i][1] = "path" => source[i][2] \in valid
     THEN /\ parse' = "operand"
          /\ calls' = <<Call("all", 1, pos)>>
          /\ UNCHANGED <<source, pos, code>>
     ELSE Refuse

--------------------------------------------------------------------------------
(* parsePrefix *)

Make(node) == code' = Append(code, node)

ParseLiteral ==
  /\ parse = "operand"
  /\ Peek[1] = "lit"
  /\ IF LiteralValue(Peek[2]) = Error
     THEN Refuse
     ELSE /\ Make(<<"lit", LiteralValue(Peek[2])>>)
          /\ pos' = pos + 1
          /\ parse' = "behind"
          /\ UNCHANGED <<source, calls>>

ParsePath ==
  /\ parse = "operand"
  /\ Peek[1] = "path"
  /\ Make(Peek)
  /\ pos' = pos + 1
  /\ parse' = "behind"
  /\ UNCHANGED <<source, calls>>

(* What may stand behind ! is one operand, in parentheses anything.        *)
Inside_Loose(op) == 1
Inside(op) == IF op = "!" THEN 8 ELSE 1

ParsePrefix ==
  /\ parse = "operand"
  /\ \E op \in {"!", "("} :
       /\ Peek = IF op = "!" THEN <<"op", "!">> ELSE <<"(">>
       /\ calls' = Append(calls, Call(op, Inside(op), pos + 1))
  /\ pos' = pos + 1
  /\ UNCHANGED <<source, parse, code>>

NoOperand ==
  /\ parse = "operand"
  /\ Peek[1] \notin {"lit", "path", "("}
  /\ Peek # <<"op", "!">>
  /\ Refuse

--------------------------------------------------------------------------------
(* The loop of parseExpression *)

Innermost == calls[Len(calls)]

TakesIn == IsOp(Peek) /\ Precedence(Peek[2]) >= Innermost.min

ParseOperator ==
  /\ parse = "behind"
  /\ TakesIn
  /\ calls' = Append(calls, Call(Peek[2], Precedence(Peek[2]) + 1, pos + 1))
  /\ pos' = pos + 1
  /\ parse' = "operand"
  /\ UNCHANGED <<source, code>>

(* It returns to a loop it was called from with the right operand, or to   *)
(* parsePrefix behind !                                                    *)
OperandReturns ==
  /\ parse = "behind"
  /\ ~ TakesIn
  /\ Innermost.op \notin {"all", "("}
  /\ Make(<<Innermost.op, IF Innermost.op = "!" THEN 0 ELSE Len(code) - Innermost.from>>)
  /\ calls' = Front(calls)
  /\ UNCHANGED <<source, parse, pos>>

(* or behind a parenthesis, which has to be closed.                        *)
ParenthesisReturns ==
  /\ parse = "behind"
  /\ ~ TakesIn
  /\ Innermost.op = "("
  /\ IF Peek = <<")">>
     THEN /\ calls' = Front(calls)
          /\ pos' = pos + 1
          /\ UNCHANGED <<source, parse, code>>
     ELSE Refuse

(* Nothing may be left over.                                               *)
ParseEnds ==
  /\ parse = "behind"
  /\ ~ TakesIn
  /\ Innermost.op = "all"
  /\ IF pos > Len(source)
     THEN parse' = "accepted" /\ calls' = <<>> /\ UNCHANGED <<source, pos, code>>
     ELSE Refuse

ParseStep ==
  \/ ParseLiteral \/ ParsePath \/ ParsePrefix \/ NoOperand
  \/ ParseOperator \/ OperandReturns \/ ParenthesisReturns \/ ParseEnds
================================================================================
