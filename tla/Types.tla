-------------------------------- MODULE Types --------------------------------
(***************************************************************************)
(* The types of expressions: Type of Parser/src/type.cpp.  A type is a     *)
(* record of SyntaxTree (TypeRecord).                                      *)
(***************************************************************************)
EXTENDS Operators

NoType == SimpleType("no type")

\* Type::same_as, seen from t: "undefined" where it follows the inner type u
\* does not have.  The parameters of functions are not compared.
RECURSIVE Comparison(_, _)
Comparison(t, u) ==
  CASE t.type # u.type -> "different"
    [] t.type = u.type /\ t.type = "object" ->
         IF t.class_name = u.class_name THEN "same" ELSE "different"
    [] t.type = u.type /\ t.type # "object" /\ t.inner # <<>> ->
         IF u.inner = <<>> THEN "undefined" ELSE Comparison(t.inner[1], u.inner[1])
    [] OTHER -> "same"

\* Type::classes_used.
RECURSIVE ClassesUsed(_)
ClassesUsed(t) ==
  (IF t.type = "object" THEN {t.class_name} ELSE {})
    \cup UNION {ClassesUsed(t.inner[i]) : i \in DOMAIN t.inner}
    \cup UNION {ClassesUsed(t.parameters[i]) : i \in DOMAIN t.parameters}

-----------------------------------------------------------------------------
\* Type::binary.

LeftOperandDecides(op, t, u) ==   \* mutant
  LET mixed == Mixed(op, t, u)
  IN  IF Comparison(t, u) # "same" /\ mixed # Unknown THEN mixed ELSE OperatorFor(TRUE, op, t, u)
BinaryOperator(op, t, u) == OperatorFor(Comparison(t, u) = "same", op, t, u)
=============================================================================
