------------------------------- MODULE Conditions -------------------------------
(***************************************************************************)
(* An edge of a runtime graph whose condition is an expression: compiled   *)
(* when the edge is added (src/pkg/runtimegraph/graph.go), evaluated by    *)
(* the scheduler for each event while handlers of nodes in flight write    *)
(* the event's variables (src/pkg/expression/compiler.go).                 *)
(*                                                                         *)
(* What the scheduler does with the outcome is RuntimeScheduler's: there   *)
(* an evaluation is one step with any outcome.  That handlers write only   *)
(* for the event being handled is its NothingInFlight.                     *)
(* A definition Name_Change is a mistake the code could have made in Name. *)
(***************************************************************************)
EXTENDS RuntimeVariables, Parser, Language

CONSTANTS
  Sources,    \* expressions given to WhenExpression
  Evaluated,  \* bound of the model: those of them that are also evaluated
  MaxEvent    \* bound of the model: the last sequence

VARIABLES
  stage,     \* "new" edge, "added", "refused"; an event "begun",
             \* its edge "evaluating" or "decided"
  seq,       \* the event
  visits,    \* the calls of evaluate under way, each with its node and the
             \* value of its left operand
  result,    \* what the last of them has returned
  outcome,   \* of the evaluation
  quiet      \* history: no handler has written during the evaluation

evaluationVars == <<visits, result, outcome, quiet>>
vars == <<variableVars, parserVars, stage, seq, evaluationVars>>

NoValue == Value("none", 0)

Literals ==
  [kind : {"integer"}, n : Nat] \union [kind : {"float"}, n : Floats]
    \union [kind : {"bool", "string", "nil"}, n : Int]
Tokens ==
  ({"lit"} \X Literals) \union ({"path"} \X Paths) \union ({"op"} \X Operators)
    \union {<<"(">>, <<")">>}

ASSUME TokensAssumption == Sources \subseteq Seq(Tokens)

(* A number is one its Go type has.                                        *)
Kinds ==
  {"missing", "failed", "error", "none", "bool", "string", "nil", "int", "uint", "float",
   "nan", "named", "domain", "number"}
Anything == [kind : Kinds, n : Int]
Proper(v) == v \in Anything /\ v.kind # "none" /\ (IsNumeric(v) => v \in Numbers)

ASSUME VariablesAssumption ==
  /\ \A v \in Written : Proper(v)
  /\ \A answers \in Providers, p \in Valid : Proper(answers[p])
  /\ \A fields \in Events, p \in Valid : Proper(FieldValue(fields[p]))

Init ==
  /\ VariablesInit
  /\ source \in Sources
  /\ ParserInit
  /\ stage = "new"
  /\ seq = -1
  /\ visits = <<>> /\ result = NoValue /\ outcome = Error /\ quiet = TRUE

(* WhenExpression compiles the expression; its error refuses the edge.     *)
BeginCompile ==
  /\ ParseBegins(Valid)
  /\ UNCHANGED <<variableVars, stage, seq, evaluationVars>>

Compile ==
  /\ ParseStep
  /\ UNCHANGED <<variableVars, stage, seq, evaluationVars>>

AddEdge ==
  /\ stage = "new"
  /\ parse \in {"accepted", "refused"}
  /\ stage' = IF parse = "accepted" THEN "added" ELSE "refused"
  /\ UNCHANGED <<variableVars, parserVars, seq, evaluationVars>>

OnEvent ==
  /\ stage = "added"
  /\ source \in Evaluated /\ seq < MaxEvent   \* bounds
  /\ Reset
  /\ stage' = "begun"
  /\ seq' = seq + 1
  /\ UNCHANGED <<parserVars, evaluationVars>>

HandlerWrites ==
  /\ stage \in {"begun", "evaluating"}
  /\ Handler
  /\ quiet' = FALSE
  /\ UNCHANGED <<parserVars, stage, seq, visits, result, outcome>>

--------------------------------------------------------------------------------
(* Evaluation *)

Visit(n) == [node |-> n, left |-> NoValue]

BeginEvaluation ==
  /\ stage = "begun"
  /\ stage' = "evaluating"
  /\ visits' = <<Visit(Len(code))>>
  /\ quiet' = TRUE
  /\ UNCHANGED <<variableVars, parserVars, seq, result, outcome>>

Visited == visits[Len(visits)].node
Node == code[Visited]
LeftValue == visits[Len(visits)].left

(* A node is visited, and its operands have still to be.                   *)
Entered == stage = "evaluating" /\ visits # <<>> /\ result = NoValue
(* Its operand has been, and has returned.                                 *)
Resumed == stage = "evaluating" /\ visits # <<>> /\ result # NoValue

Yield(v) == visits' = Front(visits) /\ result' = v

EvaluateLiteral ==
  /\ Entered
  /\ Node[1] = "lit"
  /\ Yield(Node[2])
  /\ UNCHANGED <<variableVars, parserVars, stage, seq, outcome, quiet>>

EvaluatePath ==
  /\ Entered
  /\ Node[1] = "path"
  /\ at = "none"
  /\ BeginLookup(Node[2])
  /\ UNCHANGED <<parserVars, stage, seq, evaluationVars>>

LookUp ==
  /\ stage = "evaluating"
  /\ Look
  /\ UNCHANGED <<parserVars, stage, seq, evaluationVars>>

TakeValue ==
  /\ stage = "evaluating"
  /\ Yield(Convert(found))
  /\ EndLookups
  /\ UNCHANGED <<parserVars, stage, seq, outcome, quiet>>

(* The operand of ! or the left one of another operator comes first.       *)
EvaluateOperand ==
  /\ Entered
  /\ Node[1] \notin {"lit", "path"}
  /\ visits' = Append(visits, Visit(Visited - 1 - Node[2]))
  /\ UNCHANGED <<variableVars, parserVars, stage, seq, result, outcome, quiet>>

Continues == Node[1] # "!" /\ LeftValue = NoValue /\ ~ Decides(Node[1], result)

EvaluateRight ==
  /\ Resumed
  /\ Continues
  /\ visits' = Append([visits EXCEPT ![Len(visits)].left = result], Visit(Visited - 1))
  /\ result' = NoValue
  /\ UNCHANGED <<variableVars, parserVars, stage, seq, outcome, quiet>>

EvaluateReturns ==
  /\ Resumed
  /\ ~ Continues
  /\ Yield(Answer(Node[1], LeftValue, result))
  /\ UNCHANGED <<variableVars, parserVars, stage, seq, outcome, quiet>>

Decide ==
  /\ stage = "evaluating"
  /\ visits = <<>>
  /\ outcome' = ToBool(result)
  /\ result' = NoValue
  /\ stage' = "decided"
  /\ UNCHANGED <<variableVars, parserVars, seq, visits, quiet>>

EndEvent ==
  /\ stage = "decided"
  /\ stage' = "added"
  /\ outcome' = Error
  /\ UNCHANGED <<variableVars, parserVars, seq, visits, result, quiet>>

Evaluate ==
  \/ BeginEvaluation \/ EvaluateLiteral \/ EvaluatePath \/ LookUp \/ TakeValue
  \/ EvaluateOperand \/ EvaluateRight \/ EvaluateReturns \/ Decide

Next ==
  \/ BeginCompile \/ Compile \/ AddEdge \/ OnEvent \/ HandlerWrites \/ Evaluate \/ EndEvent

Spec == Init /\ [][Next]_vars

--------------------------------------------------------------------------------
(* Properties *)

(* The precedence-climbing parser accepts an expression when the grammar   *)
(* has a tree for it, and that tree is the only one: it is what the parser *)
(* builds (parser.go:29-104).                                              *)
CompiledExactly ==
  stage = "new" =>
    /\ parse = "accepted" => Trees(source) = {code}
    /\ parse = "refused" => ~ Sentence(source, Valid) \/ Trees(source) = {}

(* If no handler writes meanwhile, the outcome of an evaluation that stops *)
(* at every lookup, leaves out what && and || have decided and converts    *)
(* with a chain of adapters is what the expression means (ast.go:92-263,   *)
(* value.go:25-66).                                                        *)
OutcomeMeant ==
  stage = "decided" /\ quiet =>
    outcome = ToBool(Meaning(code, [p \in Valid |-> Worth(p)]))
--------------------------------------------------------------------------------
(* The inductive invariant behind the theorems of Conditions_proofs. *)

Nodes ==
  ({"lit"} \X (Numbers \union [kind : {"bool", "string", "nil"}, n : Int]))
    \union ({"path"} \X Valid) \union {<<"!", 0>>} \union ((Operators \ {"!"}) \X Nat)

(* An operator stands behind its operands, of which none is empty.         *)
WellFormed(tree) ==
  \A n \in 1 .. Len(tree) : tree[n][1] \in Operators =>
    n > 1 /\ (tree[n][1] # "!" => tree[n][2] \in 1 .. n - 2)

Calls == [op : {"all", "("} \union Operators, min : 1 .. 8, from : Nat, begin : Nat]

(* Every call of parseExpression makes a node at least, before it returns. *)
CallsTrue ==
  /\ parse \in {"operand", "behind"} => calls # <<>> /\ calls[1].op = "all"
  /\ \A i \in 1 .. Len(calls) :
       /\ calls[i].op \notin {"all", "(", "!"} => calls[i].from > 0
       /\ calls[i].from <= Len(code)
       /\ parse = "behind" => calls[i].from < Len(code)

ParserInv ==
  /\ source \in Sources
  /\ parse \in {"idle", "operand", "behind", "accepted", "refused"}
  /\ pos \in Nat \ {0}
  /\ calls \in Seq(Calls)
  /\ code \in Seq(Nodes)
  /\ CallsTrue
  /\ WellFormed(code)
  /\ parse \in {"operand", "behind"} => Sentence(source, Valid)
  /\ parse = "idle" => code = <<>> /\ pos = 1
  /\ parse = "accepted" => code # <<>>

(* The present meaning of a node.                                          *)
Mean(n) == Meanings(code, [p \in Valid |-> Worth(p)])[n]

(* The node a visit is waiting for, and the one it leads to.               *)
Awaited(visit) ==
  IF visit.left = NoValue
  THEN visit.node - 1 - code[visit.node][2]
  ELSE visit.node - 1

Waits(visit, next) == code[visit.node][1] \in Operators /\ next.node = Awaited(visit)

(* A left operand that is kept has its meaning and decides nothing.        *)
VisitTrue(visit) ==
  /\ visit.node \in 1 .. Len(code)
  /\ visit.left # NoValue =>
       /\ code[visit.node][1] \in Operators \ {"!"}
       /\ Proper(visit.left)
       /\ ~ Decides(code[visit.node][1], visit.left)
       /\ quiet => visit.left = Mean(visit.node - 1 - code[visit.node][2])

(* Visits lead from the root to the present node.                          *)
VisitsTrue ==
  /\ visits # <<>> => visits[1].node = Len(code)
  /\ \A i \in 1 .. Len(visits) : VisitTrue(visits[i])
  /\ \A i \in 1 .. Len(visits) - 1 : Waits(visits[i], visits[i + 1])

(* What has been returned is the meaning of the node it is returned for.   *)
ResultTrue ==
  /\ result = NoValue => visits # <<>> /\ LeftValue = NoValue
  /\ result # NoValue =>
       /\ Proper(result)
       /\ visits # <<>> => Node[1] \in Operators
       /\ quiet =>
            result = Mean(IF visits = <<>> THEN Len(code) ELSE Awaited(visits[Len(visits)]))

(* A lookup is that of the path being visited; when it is not disturbed it *)
(* sees one value.                                                         *)
LookupTrue ==
  at # "none" =>
    /\ Entered /\ Node = <<"path", path>>
    /\ quiet => seen = {Worth(path)}

Visits == [node : Nat, left : Anything]

EvaluationInv ==
  /\ stage \in {"new", "added", "refused", "begun", "evaluating", "decided"}
  /\ stage \notin {"new", "refused"} => parse = "accepted"
  /\ visits \in Seq(Visits)
  /\ result \in Anything
  /\ at \in {"none", "typed", "again", "boxed", "done"}
  /\ \A v \in seen : Proper(v)
  /\ IF stage = "evaluating"
     THEN VisitsTrue /\ ResultTrue
     ELSE visits = <<>> /\ result = NoValue
  /\ LookupTrue

SourcesProper == \A p \in Valid : Proper(bag[p]) /\ Proper(provider[p]) /\ Proper(FieldValue(event[p]))

IInv ==
  /\ VariablesInv /\ SourcesProper
  /\ ParserInv
  /\ EvaluationInv
  /\ OutcomeMeant
===============================================================================
