------------------------------- MODULE Reader -------------------------------
(***************************************************************************)
(* What the lexer and the parser make of a text, against the trees it is   *)
(* known to have and against a description of what an expression's tree    *)
(* may be.                                                                 *)
(***************************************************************************)
EXTENDS Grammar, TLC

\* For some of the texts, the module that is to be read: a sequence of
\* declarations, or an empty one if the text is to be refused.
CONSTANT Trees

(***************************************************************************)
(* A text whose tree is known is read back: scan and parse make that tree  *)
(* of it, or refuse it.                                                    *)
(***************************************************************************)
ReadsBack ==
  mode = "done" /\ text \in DOMAIN Trees =>
    With(Parse, LAMBDA r : r.node = Trees[text] /\ (r.at = 0 <=> Trees[text] = <<>>))

-----------------------------------------------------------------------------
\* The words of a type and of an expression.
RECURSIVE Listed(_)
Listed(spellings) ==
  IF Len(spellings) <= 1 THEN IF spellings = <<>> THEN <<>> ELSE spellings[1]
  ELSE spellings[1] \o <<",">> \o Listed(Tail(spellings))
RECURSIVE SpellingOfType(_)
SpellingOfType(t) ==
  CASE t.type = "list" -> <<"[">> \o SpellingOfType(t.inner[1]) \o <<"]">>
    [] t.type = "dict" -> <<"{">> \o SpellingOfType(t.inner[1]) \o <<"}">>
    [] t.type = "object" -> <<t.class_name>>
    [] t.type = "fun" ->
         <<"(">> \o Listed([i \in DOMAIN t.parameters |-> SpellingOfType(t.parameters[i])])
           \o (IF t.inner = <<>> THEN <<>> ELSE <<"->">> \o SpellingOfType(t.inner[1]))
           \o <<")">>
    [] OTHER -> <<t.type>>
RECURSIVE Spelling(_)
Spelling(e) ==
  LET AllOf(es) == Listed([i \in DOMAIN es |-> Spelling(es[i])])
      Maybe(option) == IF option = <<>> THEN <<>> ELSE Spelling(option[1])
      Between(l, op, r) == Spelling(l) \o <<op>> \o Spelling(r)
  IN  CASE e.rule = "variable" -> <<e.name>>
        [] e.rule = "integer" -> <<ToString(e.value)>>
        [] e.rule = "boolean" -> <<IF e.value THEN "true" ELSE "false">>
        [] e.rule = "list" -> <<"[">> \o AllOf(e.value) \o <<"]">>
        [] e.rule = "group" -> <<"(">> \o Spelling(e.expression) \o <<")">>
        [] e.rule = "cast" -> Spelling(e.expression) \o <<"as">> \o
             (IF e.type = <<>> THEN <<>> ELSE SpellingOfType(e.type[1]))
        [] e.rule = "unary" -> <<e.op>> \o Spelling(e.right)
        [] e.rule \in {"binary", "logical"} -> Between(e.left, e.op, e.right)
        [] e.rule = "range" -> Between(e.start, IF e.inclusive THEN "..." ELSE "..", e.end)
        [] e.rule = "assign" -> Between(e.target, "=", e.value)
        [] e.rule = "access" -> Spelling(e.target) \o <<"[">> \o Spelling(e.index) \o <<"]">>
        [] e.rule = "slice" ->
             Spelling(e.target) \o <<"[">> \o Maybe(e.start) \o <<":">> \o Maybe(e.end)
               \o (IF e.step = <<>> THEN <<>> ELSE <<":">> \o Maybe(e.step)) \o <<"]">>
        [] e.rule = "property" -> Spelling(e.object) \o <<".", e.name>>
        [] e.rule = "call" -> Spelling(e.target) \o <<"(">> \o AllOf(e.arguments) \o <<")">>

\* How tight a node binds.
Rank(e) ==
  CASE e.rule = "assign" -> 1
    [] e.rule = "range" -> 2
    [] e.rule \in {"binary", "logical"} -> 2 + CHOOSE n \in DOMAIN Levels : e.op \in Levels[n]
    [] e.rule = "cast" -> 9
    [] e.rule = "unary" -> 10
    [] OTHER -> 11

\* The tree may not be continued by an operator: a range takes all that comes.
RECURSIVE EndsInRange(_)
EndsInRange(e) == e.rule = "range" \/ (e.rule = "assign" /\ EndsInRange(e.value))

\* Operands bind tighter than what they are operands of, or as tight if they
\* are the left one.
RECURSIVE IsNested(_)
IsNested(e) ==
  CASE e.rule \in {"variable", "integer", "boolean"} -> TRUE
    [] e.rule = "list" -> \A i \in DOMAIN e.value : IsNested(e.value[i])
    [] e.rule = "group" -> IsNested(e.expression)
    [] e.rule = "cast" -> Rank(e.expression) >= 9 /\ IsNested(e.expression)
    [] e.rule = "unary" -> Rank(e.right) >= 10 /\ IsNested(e.right)
    [] e.rule \in {"binary", "logical"} ->
         /\ Rank(e.left) >= Rank(e) /\ IsNested(e.left)
         /\ Rank(e.right) > Rank(e) /\ IsNested(e.right)
    [] e.rule = "range" -> Rank(e.start) > 2 /\ IsNested(e.start) /\ IsNested(e.end)
    [] e.rule = "assign" ->
         /\ ~ EndsInRange(e.target) /\ IsNested(e.target)
         /\ Rank(e.value) >= 2 /\ IsNested(e.value)
    [] e.rule = "access" -> Rank(e.target) = 11 /\ IsNested(e.target) /\ IsNested(e.index)
    [] e.rule = "slice" ->
         /\ Rank(e.target) = 11 /\ IsNested(e.target)
         /\ \A option \in {e.start, e.end, e.step} : option = <<>> \/ IsNested(option[1])
    [] e.rule = "property" -> Rank(e.object) = 11 /\ IsNested(e.object)
    [] e.rule = "call" ->
         /\ Rank(e.target) = 11 /\ IsNested(e.target)
         /\ \A i \in DOMAIN e.arguments : IsNested(e.arguments[i])

\* The text is fun f() -> and an expression.
IsExpressionText ==
  /\ Len(tokens) > 6
  /\ [i \in 1 .. 5 |-> Name(i)] = <<"fun", "f", "(", ")", "->">>
  /\ \A i \in DOMAIN tokens : tokens[i].type # "\n"

(***************************************************************************)
(* The tree of an expression spells the expression, each token once and in *)
(* order, and its operands bind at least as tight as its operators ask     *)
(* for: there is one such tree (unary_postfix to assignment).              *)
(***************************************************************************)
ExpressionsAreNested ==
  mode = "done" /\ IsExpressionText =>
    With(Expression(6), LAMBDA r :
      r.at # 0 /\ At(r.at) = "EOF" =>
        /\ Spelling(r.node) = [i \in 1 .. Len(tokens) - 6 |-> Name(i + 5)]
        /\ IsNested(r.node))
=============================================================================
