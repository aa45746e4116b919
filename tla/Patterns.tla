------------------------------ MODULE Patterns ------------------------------
(***************************************************************************)
(* Pattern expressions: how the controller builds them from the patterns   *)
(* of a spec (buildJSONExpression, controllers/auth_config_controller.go)  *)
(* and how they are evaluated (pkg/jsonexp/expressions.go).  The outcome   *)
(* of an evaluation is "true", "false" or "error".                         *)
(***************************************************************************)
EXTENDS ApiValues

CONSTANT
  Refused  \* texts that are no regular expression, label selector, policy, ...

Pattern(selector, operator, value) ==
  [op |-> "pattern", selector |-> selector, operator |-> operator, value |-> value]

And(left, right) == [op |-> "and", left |-> left, right |-> right]

Or(left, right) == [op |-> "or", left |-> left, right |-> right]

AllOf(expressions) == FoldRight(And, expressions, And(Nil, Nil))

AnyOf(expressions) == FoldRight(Or, expressions, Or(Nil, Nil))

outcome(holds) == IF holds THEN "true" ELSE "false"

(***************************************************************************)
(* An authorization JSON gives each selector the items found there and     *)
(* whether they are an array.  gjson's String() of an array is its JSON,   *)
(* which is no text of a pattern; a regular expression stands for itself.  *)
(***************************************************************************)
patternMatches(p, json) ==
  LET found == json[p.selector]
      text == IF found.array THEN "[]" ELSE IF found.items = <<>> THEN "" ELSE Head(found.items)
  IN  CASE p.operator = "eq" -> outcome(p.value = text)
        [] p.operator = "neq" -> outcome(p.value # text)
        [] p.operator = "incl" -> outcome(Contains(found.items, p.value))
        [] p.operator = "excl" -> outcome(~Contains(found.items, p.value))
        [] p.operator = "matches" -> IF p.value \in Refused THEN "error" ELSE outcome(p.value = text)
        [] OTHER -> "error"

(***************************************************************************)
(* Mutant: an error of the left operand of an or is passed over.           *)
(***************************************************************************)
orPastErrors(left, right) == IF left = "true" THEN left ELSE right

(***************************************************************************)
(* The outcome of an Or, whose operands were evaluated: an error or a true *)
(* on the left is the outcome.                                             *)
(***************************************************************************)
orMatches(left, right) == IF left \in {"error", "true"} THEN left ELSE right

andMatches(left, right) == IF left \in {"error", "false"} THEN left ELSE right

RECURSIVE Matches(_, _)
Matches(e, json) ==
  CASE e.op = "pattern" -> patternMatches(e, json)
    [] e.op = "and" ->
         andMatches(IF e.left = Nil THEN "true" ELSE Matches(e.left, json),
                    IF e.right = Nil THEN "true" ELSE Matches(e.right, json))
    [] e.op = "or" ->
         orMatches(IF e.left = Nil THEN "false" ELSE Matches(e.left, json),
                   IF e.right = Nil THEN "false" ELSE Matches(e.right, json))

----------------------------------------------------------------------------
(***************************************************************************)
(* The patterns named by a reference, else the pattern itself when it has  *)
(* an operator; a reference to a name that is not there gives nothing.     *)
(***************************************************************************)
buildJSONExpressionPatterns(named, p) ==
  LET expressions == IF p.patternName \in DOMAIN named THEN named[p.patternName]
                     ELSE IF p.operator # "" THEN <<p>>
                     ELSE <<>>
  IN  [i \in DOMAIN expressions |->
         Pattern(expressions[i].selector, expressions[i].operator, expressions[i].value)]

RECURSIVE buildJSONExpression(_, _, _)
buildJSONExpression(named, patterns, op) ==
  LET nested(list, how) == IF list = <<>> THEN <<>> ELSE <<buildJSONExpression(named, list, how)>>
      expressions == FlattenSeq([i \in DOMAIN patterns |->
                       buildJSONExpressionPatterns(named, patterns[i])
                       \o nested(patterns[i].all, "all")
                       \o nested(patterns[i].any, "any")])
  IN  IF op = "all" THEN AllOf(expressions) ELSE AnyOf(expressions)
=============================================================================
