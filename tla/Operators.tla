------------------------------ MODULE Operators ------------------------------
(***************************************************************************)
(* The tables of Parser/src/type.cpp by which the analyzer chooses an      *)
(* instruction for an operator and the types of its operands.  An          *)
(* operator that the virtual machine knows is named by its opcode,         *)
(* <<"ADD", "int">>.                                                       *)
(***************************************************************************)
EXTENDS Naturals, Sequences, SyntaxTree

(***************************************************************************)
(* Type::unary, ::binary and ::cast: the opcode for operands of these      *)
(* types and the type of the result, or nothing.                           *)
(***************************************************************************)
Operation(opcode, type) == << [opcode |-> opcode, type |-> type] >>
Unknown == <<>>

UnaryOperator(op, t) ==
  CASE op = "!" /\ t.type = "bool" -> Operation(<<"NEG", "bool">>, BoolType)
    [] op \in {"+", "-"} /\ t.type \in {"int", "float", "bool"} ->
         Operation(<<IF op = "+" THEN "PLUS" ELSE "MINUS", t.type>>,
                   IF t.type = "float" THEN FloatType ELSE IntType)
    [] OTHER -> Unknown

\* Operands of one type.
Arithmetic1(op, t) ==
  LET result == IF t.type = "bool" THEN IntType ELSE t
  IN  CASE op = "+" /\ t.type \in {"int", "float", "string", "bool", "list", "dict"} ->
             Operation(<<"ADD", t.type>>, result)
        [] op = "-" /\ t.type \in {"int", "float", "bool"} ->
             Operation(<<"SUB", t.type>>, result)
        [] op = "*" /\ t.type \in {"int", "float", "bool"} ->
             Operation(<<"MUL", t.type>>, result)
        [] op = "/" /\ t.type \in {"int", "float"} ->
             Operation(<<"DIV", t.type>>, FloatType)
        [] OTHER -> Unknown

ComparisonOpcode ==
  [op \in {"==", "!=", ">", ">=", "<", "<="} |->
     CASE op = "==" -> "EQ" [] op = "!=" -> "NEQ" [] op = ">" -> "HT"
       [] op = ">=" -> "HTE" [] op = "<" -> "LT" [] op = "<=" -> "LTE"]
Compares(op, t) ==
  IF \/ t.type \in {"int", "float", "string", "bool"}
     \/ op \in {"==", "!="} /\ t.type \in {"list", "dict"}
    THEN Operation(<<ComparisonOpcode[op], t.type>>, BoolType)
    ELSE Unknown

\* Operands of different types: a copy of the other one for each unit of an
\* int, or that many pieces of it (of a list, typed as lists of that list).
Mixed(op, t, u) ==
  LET opcode == <<IF op = "*" THEN "MUL" ELSE "DIV", t.type, u.type>>
  IN  CASE op = "*" /\ t.type = "int" /\ u.type \in {"string", "list"} -> Operation(opcode, u)
        [] op = "*" /\ u.type = "int" /\ t.type \in {"string", "list"} -> Operation(opcode, t)
        [] op = "/" /\ u.type = "int" /\ t.type \in {"string", "list"} ->
             Operation(opcode, ListOfType(t))
        [] OTHER -> Unknown

\* Whether the types are the same is for the caller to say.
OperatorFor(alike, op, t, u) ==
  IF ~ alike THEN Mixed(op, t, u)
  ELSE IF op \in DOMAIN ComparisonOpcode THEN Compares(op, t)
  ELSE Arithmetic1(op, t)

CastTargets ==
  [int |-> {"float", "bool", "string"}, float |-> {"int", "bool", "string"},
   bool |-> {"int", "float", "string"}, list |-> {"bool", "string", "int"},
   dict |-> {"bool", "string", "int"}, string |-> {"bool", "int"}]
CastOperator(t, u) ==
  IF t.type \in DOMAIN CastTargets /\ u.type \in CastTargets[t.type]
    THEN Operation(<<"CAST", t.type, u.type>>, u) ELSE Unknown
=============================================================================
