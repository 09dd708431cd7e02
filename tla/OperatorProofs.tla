--------------------------- MODULE OperatorProofs ---------------------------
(***************************************************************************)
(* Proofs that the tables of operators (Operators, from type.cpp) and the  *)
(* instructions of the virtual machine (Values, from virtual_machine.cpp)  *)
(* agree on what operands are and on what the result is.                   *)
(***************************************************************************)
EXTENDS Operators, ValuesProofs, TLAPS

\* The instruction does not take its operands for something else, and what it
\* makes is what the analyzer says, unless it stops with a report.
Fits(outcome, kind) ==
  \/ outcome.how = "crashed"
  \/ outcome.how = "value" /\ outcome.value.is = kind
  \/ outcome.how = "new" /\ outcome.type = kind

\* Not among the instructions of Values, as its results are not integral.
LeftOut == { <<"DIV", "float">> }

LEMMA Fitting ==
  /\ \A kind : Fits(Crashes, kind)
  /\ \A n : /\ Fits(Gives(IntV(n)), "int") /\ Fits(Gives(FloatV(n)), "float")
            /\ Fits(Gives([type |-> "int", is |-> "float", v |-> n]), "float")
  /\ \A b : Fits(Gives(BoolV(b)), "bool")
  /\ \A s : Fits(Gives(StrV(s)), "string")
  /\ \A kind, objects : Fits(Creates(kind, objects), kind)
BY DEF Fits, Crashes, Gives, Creates, IntV, FloatV, BoolV, StrV, Make

LEMMA SimpleTypes ==
  /\ IntType.type = "int" /\ FloatType.type = "float" /\ BoolType.type = "bool"
  /\ \A t : ListOfType(t).type = "list"
BY DEF IntType, FloatType, BoolType, ListOfType, SimpleType, TypeRecord

LEMMA OneOperation ==
  ASSUME NEW opcode, NEW type
  PROVE  /\ Operation(opcode, type) # Unknown
         /\ Operation(opcode, type)[1].opcode = opcode
         /\ Operation(opcode, type)[1].type = type
BY DEF Operation, Unknown

-----------------------------------------------------------------------------
(***************************************************************************)
(* Type::unary chooses an instruction that exists and that makes of any    *)
(* value of the operand's type one of the type it says.                    *)
(***************************************************************************)
THEOREM UnaryOperatorsFit ==
  ASSUME NEW op, NEW t, UnaryOperator(op, t) # Unknown,
         NEW heap, NEW x, x.is = t.type
  PROVE  LET chosen == UnaryOperator(op, t)[1]
         IN  /\ chosen.opcode \in UnaryOps
             /\ Fits(Unary(chosen.opcode, heap, x), chosen.type.type)
<1> DEFINE n == IF op = "-" THEN - Number(heap, x) ELSE Number(heap, x)
<1>1. CASE op = "!" /\ t.type = "bool"
  <2>1. UnaryOperator(op, t) = Operation(<<"NEG", "bool">>, BoolType)
    BY <1>1 DEF UnaryOperator
  <2>2. Unary(<<"NEG", "bool">>, heap, x) = Gives(BoolV(~ x.v))
    BY <1>1 DEF Unary
  <2> QED BY <2>1, <2>2, OneOperation, Fitting, SimpleTypes DEF UnaryOps
<1>2. CASE op \in {"+", "-"} /\ t.type \in {"int", "float", "bool"}
  <2> DEFINE opcode == <<IF op = "+" THEN "PLUS" ELSE "MINUS", t.type>>
             result == IF t.type = "float" THEN FloatType ELSE IntType
  <2>1. UnaryOperator(op, t) = Operation(opcode, result)
    BY <1>2 DEF UnaryOperator
  <2>2. opcode \in UnaryOps
    BY <1>2 DEF UnaryOps
  <2>3. t.type = "float" => Unary(opcode, heap, x) = Gives(FloatV(n))
    BY <1>2 DEF Unary
  <2>4. t.type # "float" => Unary(opcode, heap, x) = Gives(IntV(n))
    BY <1>2 DEF Unary
  <2>5. Fits(Unary(opcode, heap, x), result.type)
    <3>1. /\ t.type = "float" => result.type = "float"
          /\ t.type # "float" => result.type = "int"
      BY SimpleTypes
    <3> HIDE DEF opcode, result, n
    <3> QED BY <2>3, <2>4, <3>1, Fitting
  <2> HIDE DEF opcode, result
  <2> QED BY <2>1, <2>2, <2>5, OneOperation
<1> QED BY <1>1, <1>2 DEF UnaryOperator

(***************************************************************************)
(* So does Type::cast.  A cast to string reads all that the value refers   *)
(* to, which must be what its tags say (ReadableWhenTold).                 *)
(***************************************************************************)
THEOREM CastsFit ==
  ASSUME NEW t, NEW u, CastOperator(t, u) # Unknown,
         NEW heap, NEW x, x.is = t.type, u.type = "string" => IsReadable(heap, x)
  PROVE  LET chosen == CastOperator(t, u)[1]
         IN  /\ chosen.opcode \in CastOps
             /\ Fits(Cast(chosen.opcode, heap, x), chosen.type.type)
<1> DEFINE opcode == <<"CAST", t.type, u.type>>
<1>1. CastOperator(t, u) = Operation(opcode, u)
  BY DEF CastOperator
<1>2. t.type \in DOMAIN CastTargets /\ u.type \in CastTargets[t.type]
  BY DEF CastOperator
<1>3. opcode \in CastOps /\ u.type \in {"int", "float", "bool", "string"}
  BY <1>2 DEF CastTargets, CastOps
<1>4. u.type = "string" => Fits(Cast(opcode, heap, x), u.type)
  <2> SUFFICES ASSUME u.type = "string" PROVE Fits(Cast(opcode, heap, x), u.type)
    OBVIOUS
  <2>1. Cast(opcode, heap, x) = Gives(StrV(Text(heap, x)))
    BY DEF Cast, GivesText
  <2> QED BY <2>1, Fitting
<1>5. u.type = "int" => Fits(Cast(opcode, heap, x), u.type)
  <2> SUFFICES ASSUME u.type = "int" PROVE Fits(Cast(opcode, heap, x), u.type)
    OBVIOUS
  <2>1. Cast(opcode, heap, x) = Gives(IntV(Number(heap, x)))
    BY DEF Cast
  <2> QED BY <2>1, Fitting
<1>6. u.type = "float" => Fits(Cast(opcode, heap, x), u.type)
  <2> SUFFICES ASSUME u.type = "float" PROVE Fits(Cast(opcode, heap, x), u.type)
    OBVIOUS
  <2>1. Cast(opcode, heap, x) = Gives(FloatV(Number(heap, x)))
    BY DEF Cast
  <2> QED BY <2>1, Fitting
<1>7. u.type = "bool" => Fits(Cast(opcode, heap, x), u.type)
  <2> SUFFICES ASSUME u.type = "bool" PROVE Fits(Cast(opcode, heap, x), u.type)
    OBVIOUS
  <2>1. Cast(opcode, heap, x) = Gives(BoolV(Number(heap, x) # 0))
    BY DEF Cast
  <2> QED BY <2>1, Fitting
<1>8. Fits(Cast(opcode, heap, x), u.type)
  BY <1>3, <1>4, <1>5, <1>6, <1>7
<1> HIDE DEF opcode
<1> QED BY <1>1, <1>3, <1>8, OneOperation
-----------------------------------------------------------------------------
\* The variants that an instruction asks its operands for.
LEMMA Asked ==
  /\ \A a, b : <<a, b>> \notin LogicalOps /\ LeftType(<<a, b>>) = b /\ RightType(<<a, b>>) = b
  /\ \A a, b, c : /\ <<a, b, c>> \notin LogicalOps
                  /\ LeftType(<<a, b, c>>) = b /\ RightType(<<a, b, c>>) = c
BY DEF LogicalOps, LeftType, RightType

LEMMA Computes ==
  ASSUME NEW op, op \in ArithmeticOps, NEW heap, NEW x, NEW y,
         x.is = LeftType(op), y.is = RightType(op)
  PROVE  Binary(op, heap, x, y) = Arithmetic(op, heap, x, y) /\ op \in BinaryOps
<1>1. op \notin EqualityOps
  BY DEF ArithmeticOps, EqualityOps
<1> QED BY <1>1 DEF Binary, BinaryOps

\* What an arithmetic instruction makes.
LEMMA ArithmeticMakes ==
  ASSUME NEW heap, NEW x, NEW y
  PROVE  /\ \A a \in {"ADD", "SUB", "MUL"}, b \in {"int", "bool"} :
              Fits(Arithmetic(<<a, b>>, heap, x, y), "int")
         /\ \A a \in {"ADD", "SUB", "MUL"} :
              Fits(Arithmetic(<<a, "float">>, heap, x, y), "float")
         /\ \A b \in {"string", "list", "dict"} : Fits(Arithmetic(<<"ADD", b>>, heap, x, y), b)
         /\ \A b \in {"string", "list"} :
              /\ Fits(Arithmetic(<<"MUL", "int", b>>, heap, x, y), b)
              /\ Fits(Arithmetic(<<"MUL", b, "int">>, heap, x, y), b)
              /\ Fits(Arithmetic(<<"DIV", b, "int">>, heap, x, y), "list")
         /\ Fits(Arithmetic(<<"DIV", "int">>, heap, x, y), "float")
<1> DEFINE m == Number(heap, x)
           n == Number(heap, y)
<1>1. ASSUME NEW a \in {"ADD", "SUB", "MUL"}, NEW b \in {"int", "bool"}
      PROVE  Fits(Arithmetic(<<a, b>>, heap, x, y), "int")
  <2>1. Arithmetic(<<a, b>>, heap, x, y) =
          Gives(IntV(IF a = "ADD" THEN m + n
                     ELSE IF a = "SUB" /\ b # "bool" THEN m - n
                     ELSE m * n))
    BY DEF Arithmetic
  <2> QED BY <2>1, Fitting
<1>2. ASSUME NEW a \in {"ADD", "MUL"} PROVE Fits(Arithmetic(<<a, "float">>, heap, x, y), "float")
  <2>1. Arithmetic(<<a, "float">>, heap, x, y) =
          Gives(FloatV(IF a = "ADD" THEN m + n ELSE m * n))
    BY DEF Arithmetic
  <2> QED BY <2>1, Fitting
<1>3. Fits(Arithmetic(<<"SUB", "float">>, heap, x, y), "float")
  <2>1. Arithmetic(<<"SUB", "float">>, heap, x, y) =
          Gives([type |-> "int", is |-> "float", v |-> m - n])
    BY DEF Arithmetic
  <2> QED BY <2>1, Fitting
<1>4. ASSUME NEW b \in {"string", "list", "dict"}
      PROVE  Fits(Arithmetic(<<"ADD", b>>, heap, x, y), b)
  <2>1. b = "string" => Arithmetic(<<"ADD", b>>, heap, x, y) = Gives(StrV(x.v \o y.v))
    BY DEF Arithmetic
  <2>2. b = "list" => Arithmetic(<<"ADD", b>>, heap, x, y) =
                        Creates(b, << ListOf(heap[x.v].items \o heap[y.v].items) >>)
    BY DEF Arithmetic
  <2>3. b = "dict" => \E objects : Arithmetic(<<"ADD", b>>, heap, x, y) = Creates(b, objects)
    BY DEF Arithmetic
  <2> QED BY <2>1, <2>2, <2>3, Fitting
<1>5. ASSUME NEW b \in {"string", "list"}
      PROVE  /\ Fits(Arithmetic(<<"MUL", "int", b>>, heap, x, y), b)
             /\ Fits(Arithmetic(<<"MUL", b, "int">>, heap, x, y), b)
  <2>1. b = "string" => /\ Arithmetic(<<"MUL", "int", b>>, heap, x, y) = Gives(StrV(Repeat(y.v, m)))
                        /\ Arithmetic(<<"MUL", b, "int">>, heap, x, y) = Gives(StrV(Repeat(x.v, n)))
    BY DEF Arithmetic
  <2>2. b = "list" => /\ Arithmetic(<<"MUL", "int", b>>, heap, x, y) =
                           Creates("list", << ListOf(Repeat(heap[y.v].items, m)) >>)
                      /\ Arithmetic(<<"MUL", b, "int">>, heap, x, y) =
                           Creates("list", << ListOf(Repeat(heap[x.v].items, n)) >>)
    BY DEF Arithmetic
  <2> QED BY <2>1, <2>2, Fitting
<1>6. ASSUME NEW b \in {"string", "list"}
      PROVE  Fits(Arithmetic(<<"DIV", b, "int">>, heap, x, y), "list")
  <2>1. \/ Arithmetic(<<"DIV", b, "int">>, heap, x, y) = Crashes
        \/ \E objects : Arithmetic(<<"DIV", b, "int">>, heap, x, y) = Creates("list", objects)
    BY DEF Arithmetic
  <2> QED BY <2>1, Fitting
<1>7. Fits(Arithmetic(<<"DIV", "int">>, heap, x, y), "float")
  <2>1. Arithmetic(<<"DIV", "int">>, heap, x, y) =
          IF n = 0 THEN Crashes ELSE Gives(FloatV(Quotient(m, n)))
    BY DEF Arithmetic
  <2> QED BY <2>1, Fitting
<1> QED BY <1>1, <1>2, <1>3, <1>4, <1>5, <1>6, <1>7

\* The operators on two values of one type, and on values of different types.
LEMMA ArithmeticChosen ==
  ASSUME NEW op, NEW t, Arithmetic1(op, t) # Unknown
  PROVE  \E opcode, type :
           /\ Arithmetic1(op, t) = Operation(opcode, type)
           /\ opcode \in ArithmeticOps \cup LeftOut
           /\ opcode[2] = t.type /\ Len(opcode) = 2
           /\ \/ /\ opcode \in {"ADD", "SUB", "MUL"} \X {"int", "bool"}
                 /\ type.type = "int"
              \/ opcode \in {"ADD", "SUB", "MUL"} \X {"float"} /\ type.type = "float"
              \/ opcode \in {"ADD"} \X {"string", "list", "dict"} /\ type.type = opcode[2]
              \/ opcode \in {"DIV"} \X {"int", "float"} /\ type.type = "float"
<1> DEFINE result == IF t.type = "bool" THEN IntType ELSE t
<1>1. \/ op = "+" /\ t.type \in {"int", "float", "string", "bool", "list", "dict"}
      \/ op \in {"-", "*"} /\ t.type \in {"int", "float", "bool"}
      \/ op = "/" /\ t.type \in {"int", "float"}
  BY DEF Arithmetic1
<1>2. result.type = (IF t.type = "bool" THEN "int" ELSE t.type)
  BY SimpleTypes
<1>3. CASE op = "+" /\ t.type \in {"int", "float", "string", "bool", "list", "dict"}
  <2>1. Arithmetic1(op, t) = Operation(<<"ADD", t.type>>, result)
    BY <1>3 DEF Arithmetic1
  <2> HIDE DEF result
  <2> QED BY <1>2, <1>3, <2>1 DEF ArithmeticOps
<1>4. CASE op = "-" /\ t.type \in {"int", "float", "bool"}
  <2>1. Arithmetic1(op, t) = Operation(<<"SUB", t.type>>, result)
    BY <1>4 DEF Arithmetic1
  <2> HIDE DEF result
  <2> QED BY <1>2, <1>4, <2>1 DEF ArithmeticOps
<1>5. CASE op = "*" /\ t.type \in {"int", "float", "bool"}
  <2>1. Arithmetic1(op, t) = Operation(<<"MUL", t.type>>, result)
    BY <1>5 DEF Arithmetic1
  <2> HIDE DEF result
  <2> QED BY <1>2, <1>5, <2>1 DEF ArithmeticOps
<1>6. CASE op = "/" /\ t.type \in {"int", "float"}
  <2>1. Arithmetic1(op, t) = Operation(<<"DIV", t.type>>, FloatType)
    BY <1>6 DEF Arithmetic1
  <2> QED BY <1>6, <2>1, SimpleTypes DEF ArithmeticOps, LeftOut
<1> QED BY <1>1, <1>3, <1>4, <1>5, <1>6

LEMMA ArithmeticFits ==
  ASSUME NEW op, NEW t, Arithmetic1(op, t) # Unknown,
         Arithmetic1(op, t)[1].opcode \notin LeftOut,
         NEW heap, NEW x, NEW y, x.is = t.type, y.is = t.type
  PROVE  LET chosen == Arithmetic1(op, t)[1]
         IN  /\ chosen.opcode \in BinaryOps
             /\ Fits(Binary(chosen.opcode, heap, x, y), chosen.type.type)
<1>1. PICK opcode, type :
        /\ Arithmetic1(op, t) = Operation(opcode, type)
        /\ opcode \in ArithmeticOps \cup LeftOut
        /\ opcode[2] = t.type /\ Len(opcode) = 2
        /\ \/ /\ opcode \in {"ADD", "SUB", "MUL"} \X {"int", "bool"}
              /\ type.type = "int"
           \/ opcode \in {"ADD", "SUB", "MUL"} \X {"float"} /\ type.type = "float"
           \/ opcode \in {"ADD"} \X {"string", "list", "dict"} /\ type.type = opcode[2]
           \/ opcode \in {"DIV"} \X {"int", "float"} /\ type.type = "float"
  BY ArithmeticChosen
<1>2. Arithmetic1(op, t)[1].opcode = opcode /\ Arithmetic1(op, t)[1].type = type
  BY <1>1, OneOperation
<1>3. opcode \in ArithmeticOps /\ opcode \notin LeftOut
  BY <1>1, <1>2
<1>4. opcode = <<opcode[1], opcode[2]>>
  BY <1>1
<1>5. Fits(Arithmetic(opcode, heap, x, y), type.type)
  BY <1>1, <1>3, <1>4, ArithmeticMakes DEF LeftOut
<1>6. x.is = LeftType(opcode) /\ y.is = RightType(opcode)
  BY <1>1, <1>4, Asked
<1>7. Binary(opcode, heap, x, y) = Arithmetic(opcode, heap, x, y) /\ opcode \in BinaryOps
  BY <1>3, <1>6, Computes
<1> QED BY <1>2, <1>5, <1>7

LEMMA MixedFits ==
  ASSUME NEW op, NEW t, NEW u, Mixed(op, t, u) # Unknown,
         NEW heap, NEW x, NEW y, x.is = t.type, y.is = u.type
  PROVE  LET chosen == Mixed(op, t, u)[1]
         IN  /\ chosen.opcode \in BinaryOps
             /\ Fits(Binary(chosen.opcode, heap, x, y), chosen.type.type)
<1> DEFINE opcode == <<IF op = "*" THEN "MUL" ELSE "DIV", t.type, u.type>>
<1>1. \/ op = "*" /\ t.type = "int" /\ u.type \in {"string", "list"}
      \/ op = "*" /\ u.type = "int" /\ t.type \in {"string", "list"}
      \/ op = "/" /\ u.type = "int" /\ t.type \in {"string", "list"}
  BY DEF Mixed
<1>2. opcode \in ArithmeticOps
  BY <1>1 DEF ArithmeticOps
<1>3. x.is = LeftType(opcode) /\ y.is = RightType(opcode)
  BY Asked
<1>4. Binary(opcode, heap, x, y) = Arithmetic(opcode, heap, x, y) /\ opcode \in BinaryOps
  <2> HIDE DEF opcode
  <2> QED BY <1>2, <1>3, Computes
<1>5. CASE op = "*" /\ t.type = "int" /\ u.type \in {"string", "list"}
  <2>1. Mixed(op, t, u) = Operation(opcode, u)
    BY <1>5 DEF Mixed
  <2>2. Fits(Arithmetic(opcode, heap, x, y), u.type)
    BY <1>5, ArithmeticMakes
  <2> QED BY <1>4, <2>1, <2>2, OneOperation
<1>6. CASE op = "*" /\ u.type = "int" /\ t.type \in {"string", "list"}
  <2>1. Mixed(op, t, u) = Operation(opcode, t)
    BY <1>6 DEF Mixed
  <2>2. Fits(Arithmetic(opcode, heap, x, y), t.type)
    BY <1>6, ArithmeticMakes
  <2> QED BY <1>4, <2>1, <2>2, OneOperation
<1>7. CASE op = "/" /\ u.type = "int" /\ t.type \in {"string", "list"}
  <2>1. Mixed(op, t, u) = Operation(opcode, ListOfType(t))
    BY <1>7 DEF Mixed
  <2>2. Fits(Arithmetic(opcode, heap, x, y), "list")
    BY <1>7, ArithmeticMakes
  <2> QED BY <1>4, <2>1, <2>2, OneOperation, SimpleTypes
<1> QED BY <1>1, <1>5, <1>6, <1>7

LEMMA ComparisonFits ==
  ASSUME NEW op, op \in DOMAIN ComparisonOpcode, NEW t, Compares(op, t) # Unknown,
         NEW F, NEW heap, NEW x, NEW y, x.is = t.type, y.is = t.type,
         op \in {"==", "!="} /\ t.type \in {"list", "dict"} => Comparable(F, heap, x, y)
  PROVE  LET chosen == Compares(op, t)[1]
         IN  /\ chosen.opcode \in BinaryOps
             /\ Fits(Binary(chosen.opcode, heap, x, y), chosen.type.type)
<1> DEFINE name == ComparisonOpcode[op]
           opcode == <<name, t.type>>
<1>1. /\ \/ t.type \in {"int", "float", "string", "bool"}
         \/ op \in {"==", "!="} /\ t.type \in {"list", "dict"}
      /\ Compares(op, t) = Operation(opcode, BoolType)
  BY DEF Compares
<1>2. /\ op \in {"==", "!="} => name \in {"EQ", "NEQ"}
      /\ name \in {"EQ", "NEQ", "HT", "HTE", "LT", "LTE"}
  BY DEF ComparisonOpcode
<1>3. opcode \in EqualityOps \cup OrderOps
  <2> HIDE DEF name
  <2> QED BY <1>1, <1>2 DEF EqualityOps, OrderOps
<1>4. opcode \in BinaryOps /\ opcode \notin ArithmeticOps
  <2>1. opcode \notin ArithmeticOps
    <3> HIDE DEF name
    <3> QED BY <1>2 DEF ArithmeticOps
  <2> QED BY <1>3, <2>1 DEF BinaryOps
<1>5. x.is = LeftType(opcode) /\ y.is = RightType(opcode)
  BY Asked
<1>6. \E b : Binary(opcode, heap, x, y) = Gives(BoolV(b))
  <2>1. opcode[2] = t.type
    OBVIOUS
  <2> HIDE DEF opcode
  <2>2. CASE opcode \in EqualityOps /\ opcode[2] \in {"list", "dict"}
    <3>1. SameAs(heap, x, y) \in {"same", "different"}
      BY <1>1, <2>1, <2>2, ComparisonsAnswer
    <3>2. Binary(opcode, heap, x, y) = Equality(opcode, SameAs(heap, x, y))
      BY <2>2 DEF Binary
    <3> QED BY <3>1, <3>2 DEF Equality
  <2>3. CASE ~ (opcode \in EqualityOps /\ opcode[2] \in {"list", "dict"})
    BY <1>4, <1>5, <2>3 DEF Binary
  <2> QED BY <2>2, <2>3
<1>7. Fits(Binary(opcode, heap, x, y), "bool")
  BY <1>6, Fitting
<1> HIDE DEF opcode
<1> QED BY <1>1, <1>4, <1>7, OneOperation, SimpleTypes

(***************************************************************************)
(* Type::binary chooses an instruction that exists and takes operands of   *)
(* the given types for what they are, and that makes a value of the type   *)
(* that it says or stops with a report: whatever the operator, the types   *)
(* and the values, the machine does not throw.  Only the lists and         *)
(* dictionaries that are compared must be of good values, without a null   *)
(* object, a function, or an object that is part of itself (Value::same_as *)
(* follows every pointer).  Two types that are found to be the same are at *)
(* least of one kind (Type::same_as).                                      *)
(***************************************************************************)
THEOREM BinaryOperatorsFit ==
  ASSUME NEW alike, NEW op, NEW t, NEW u, alike => t.type = u.type,
         OperatorFor(alike, op, t, u) # Unknown,
         OperatorFor(alike, op, t, u)[1].opcode \notin LeftOut,
         NEW F, NEW heap, NEW x, NEW y, x.is = t.type, y.is = u.type,
         op \in {"==", "!="} /\ t.type \in {"list", "dict"} => Comparable(F, heap, x, y)
  PROVE  LET chosen == OperatorFor(alike, op, t, u)[1]
         IN  /\ chosen.opcode \in BinaryOps
             /\ Fits(Binary(chosen.opcode, heap, x, y), chosen.type.type)
<1>1. CASE ~ alike
  BY <1>1, MixedFits DEF OperatorFor
<1>2. CASE alike /\ op \in DOMAIN ComparisonOpcode
  BY <1>2, ComparisonFits DEF OperatorFor
<1>3. CASE alike /\ op \notin DOMAIN ComparisonOpcode
  BY <1>3, ArithmeticFits DEF OperatorFor
<1> QED BY <1>1, <1>2, <1>3
=============================================================================
