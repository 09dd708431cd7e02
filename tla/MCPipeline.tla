----------------------------- MODULE MCPipeline ------------------------------
(***************************************************************************)
(* Programs for TLC to analyze, compile and run: programs of the           *)
(* repository (Samples) and others that put each operator, each kind of    *)
(* expression in each place, and each failure to the test.                 *)
(***************************************************************************)
EXTENDS Pipeline, Samples

Add(x, y) == Infix(x, "+", y)
Sub(x, y) == Infix(x, "-", y)
Mul(x, y) == Infix(x, "*", y)
Less2(x) == Infix(x, "<", Num(2))
Minus(x) == Prefix("-", x)
Param(name, type) == DeclareTyped(name, type)

-----------------------------------------------------------------------------
\* Of simple_app/more.nu what is implemented, with variables.
Variables ==
  << Main(<< Declare("l", Numbers(3)), Declare("s", Str(<<97, 98, 99>>)),
             Declare("d", Dict(<<A>>, << Str(A) >>)),
             Show(Add(Var("l"), List(<< Num(4) >>))),
             Show(Add(Var("d"), Dict(<<B, A>>, << Str(B), Str(C) >>))),
             Show(Mul(Num(2), Var("s"))),
             Show(Mul(Var("l"), Minus(Num(1)))),
             Show(Infix(Var("l"), "/", Num(2))),
             Show(Infix(Var("s"), "/", Num(5))),
             Show(Logical(Prefix("!", Infix(Var("l"), "==", Numbers(3))), "and",
                          Infix(Var("s"), ">", Str(<<98>>)))),
             Show(Infix(Var("d"), "!=", Var("d"))),
             Show(Add(CastTo(Var("l"), TextType), CastTo(Var("d"), TextType))),
             Show(Sub(Bool(TRUE), CastTo(Var("s"), BoolType))),
             Show(ElementAt(Var("s"), CastTo(Var("l"), IntType))) >>) >>

\* Control flow: blocks inside blocks, loops that return, functions as values.
SumType == FunctionType(<<IntList>>, <<IntType>>)
Loops ==
  << Function("find", << Param("l", IntList), Param("n", IntType) >>, <<IntType>>,
       << For("x", <<"i">>, Var("l"),
            << If(Infix(Var("x"), "==", Var("n")),
                  << ReturnValue(Var("i")) >>,
                  << Declare("y", Add(Var("x"), Num(1))), Show(Var("y")) >>) >>),
          ReturnValue(Minus(Num(1))) >>),
     Function("sum", << Param("l", IntList) >>, <<IntType>>,
       << Declare("s", Num(0)),
          For("x", <<>>, Var("l"), << Do(Assign(Var("s"), Add(Var("s"), Var("x")))) >>),
          ReturnValue(Var("s")) >>),
     Function("twice", << Param("f", SumType), Param("l", IntList) >>, <<IntType>>,
       << Do(CallOf("f", << Var("l") >>)),
          ReturnValue(Add(CallOf("f", << Var("l") >>), CallOf("f", << Var("l") >>))) >>),
     Main(<< Declare("x", Num(3)),
             Declare("l", RangeTo(Num(1), Var("x"), TRUE)),
             Show(CallOf("twice", << Var("sum"), Var("l") >>)),
             Show(CallOf("find", << Var("l"), Num(2) >>)),
             Show(CallOf("find", << RangeTo(Num(0), Num(2), FALSE), Var("x") >>)),
             If(Bool(TRUE),
                << Declare("z", Num(9)), Show(Add(Var("x"), Var("z"))) >>, <<>>),
             If(Bool(FALSE), << Show(Num(0)) >>,
                << Declare("x", Num(4)), Show(Var("x")) >>),
             For("ch", <<"i">>, Str(<<97, 98>>), << Show(Mul(Var("ch"), Var("i"))) >>),
             Show(Var("x")) >>) >>

\* The arguments of the program, and a list built while it is iterated.
Arguments ==
  << Function("show", << Param("l", ListOfType(TextType)) >>, <<>>,
       << For("s", <<>>, Var("l"), << Show(Var("s")) >>) >>),
     Main(<< Do(CallOf("show", << Var("argv") >>)),
             Declare("x", Num(1)),
             Declare("l", List(<< Var("x"), Num(7), Add(Var("x"), Var("x")) >>)),
             Do(Assign(ElementAt(Var("l"), Var("x")),
                       Sub(ElementAt(Var("l"), Num(2)), Num(5)))),
             Show(Var("l")),
             DeclareTyped("d", DictOfType(IntType)),
             DeclareTyped("t", TextType),
             While(Less2(CastTo(Var("d"), IntType)),
               << Do(Assign(ElementAt(Var("d"), Var("t")), CastTo(Var("t"), IntType))),
                  Do(Assign(Var("t"), Add(Var("t"), Str(A)))) >>),
             Show(Var("d")),
             Show(Mul(Float(2), CastTo(Var("x"), FloatType))) >>) >>

\* Every operator on operands of every two types, and a value of each type
\* where one of each other type is due: those the analyzer lets pass (without
\* the difference and the quotient of floats).
Typed(i) ==
  CASE i = 1 -> Num(3) [] i = 2 -> Float(2) [] i = 3 -> Bool(TRUE)
    [] i = 4 -> Str(<<97, 98>>) [] i = 5 -> List(<< Str(A), Str(B) >>)
    [] i = 6 -> Dict(<<B>>, << List(<< Bool(FALSE) >>) >>)
    [] i = 7 -> Var("idle") [] i = 8 -> Object("E", <<>>)
TypeOfKind ==
  << IntType, FloatType, BoolType, TextType, ListOfType(TextType),
     DictOfType(ListOfType(BoolType)), FunctionType(<<BoolType>>, <<>>), ObjectType("E") >>
Idle == Function("idle", << Param("b", BoolType) >>, <<>>, << Show(Var("b")) >>)
Operator(e) ==
  << Class("E", << DeclareTyped("l", IntList) >>), Idle, Main(<< Show(e) >>) >>
\* A case is an operator with the kinds of its operands.
Binaries == {"+", "-", "*", "/", "==", "!=", "<", "<=", ">", ">="}
Targets == [int |-> IntType, float |-> FloatType, bool |-> BoolType, string |-> TextType]
Cases ==
  ((Binaries \cup {"and", "or"}) \X (1 .. 8) \X (1 .. 8))
    \cup (({"!", "prefix +", "prefix -", "value"} \cup DOMAIN Targets) \X (1 .. 8) \X {0})
OfFloats == {<<"-", 2, 2>>, <<"/", 2, 2>>}
OperatorProgram(c) ==
  LET x == Typed(c[2])
      y == Typed(c[3])
  IN  Operator(CASE c[1] \in Binaries -> Infix(x, c[1], y)
                 [] c[1] \in {"and", "or"} -> Logical(x, c[1], y)
                 [] c[1] = "!" -> Prefix("!", x)
                 [] c[1] = "prefix +" -> Prefix("+", x)
                 [] c[1] = "prefix -" -> Minus(x)
                 [] c[1] = "value" -> x
                 [] c[1] \in DOMAIN Targets -> CastTo(x, Targets[c[1]]))
Accepted == {c \in Cases \ OfFloats : IsAccepted(OperatorProgram(c))}

\* Two modules use a third one.
Shared ==
  << Use(<<"show_sum">>, "sums",
         << Use(<<"list_int_sum">>, "list", ListModule),
            Export(Function("show_sum", << Param("l", IntList) >>, <<>>,
              << Show(CallOf("list_int_sum", << Var("l") >>)) >>)) >>),
     Use(<<"list_int_sum">>, "list", ListModule),
     Main(<< Do(CallOf("show_sum", << Numbers(3) >>)),
             Show(CallOf("list_int_sum", << Numbers(4) >>)) >>) >>

\* Something that only a value of the i-th type can do.
UseAs(i, e) ==
  << Show(Sub(e, Num(1))), Show(Mul(e, Float(2))), Show(Prefix("!", e)), Show(Add(e, Str(A))),
     Show(Add(e, List(<< Str(A) >>))), Show(Add(e, Typed(6))), Do(CallTo(e, << Bool(TRUE) >>)),
     Show(Prop(e, "l")) >>[i]

\* The i-th value where one of the j-th type is due, in one of the places that
\* the analyzer checks: a declaration, an assignment, a parameter, a result, a
\* list, an element, a property, a loop, a condition, an index, a bound.
SlotProgram(place, i, j) ==
  LET x == Typed(i)
      T == TypeOfKind[j]
      Class1 == Class("E", << DeclareTyped("l", IntList), DeclareTyped("p", T) >>)
      Takes == Function("takes", << Param("q", T) >>, <<>>, << UseAs(j, Var("q")) >>)
      Program(result, body) ==
        << Class1, Idle, Takes,
           Function("gives", << Param("q", T) >>, <<T>>, << ReturnValue(result) >>),
           Main(body) >>
      InMain(body) == Program(Var("q"), body)
  IN  CASE place = 1 -> InMain(<< Declaration("v", <<T>>, <<x>>), UseAs(j, Var("v")) >>)
        [] place = 2 -> InMain(<< Declare("v", Typed(j)), Do(Assign(Var("v"), x)),
                                  UseAs(j, Var("v")) >>)
        [] place = 3 -> InMain(<< Do(CallOf("takes", <<x>>)) >>)
        [] place = 4 -> Program(x, << UseAs(j, CallOf("gives", << Typed(j) >>)) >>)
        [] place = 5 -> InMain(<< Declare("v", List(<< Typed(j), x >>)),
                                  UseAs(j, ElementAt(Var("v"), Num(1))) >>)
        [] place = 6 -> InMain(<< Declare("v", List(<< Typed(j) >>)),
                                  Do(Assign(ElementAt(Var("v"), Num(0)), x)),
                                  UseAs(j, ElementAt(Var("v"), Num(0))) >>)
        [] place = 7 -> InMain(<< Declare("o", Object("E", <<>>)),
                                  Do(Assign(Prop(Var("o"), "p"), x)),
                                  UseAs(j, Prop(Var("o"), "p")) >>)
        [] place = 8 -> InMain(<< For("v", <<"k">>, x, << UseAs(j, Var("v")) >>) >>)
        [] place = 9 -> InMain(<< If(x, << UseAs(j, Typed(j)) >>, <<>>) >>)
        [] place = 10 -> InMain(<< Declare("v", Typed(j)), Show(ElementAt(Var("v"), x)) >>)
        [] place = 11 -> InMain(<< Show(RangeTo(x, Typed(j), TRUE)) >>)
        [] place = 12 -> InMain(<< UseAs(j, CallOf("gives", << x, x >>)) >>)
        [] place = 13 -> InMain(<< UseAs(j, CallOf("takes", << x >>)) >>)
Slots ==
  {c \in (1 .. 13) \X (1 .. 8) \X (1 .. 8) : IsAccepted(SlotProgram(c[1], c[2], c[3]))}

Sample(i) ==
  << Shared, Fib, CollectionOf(2), Deletions, Variables, Loops, ThirdUsing(ListModule),
     AnotherUsing(RectModule) >>[i]

SamplePrograms ==
  LET p == {Compiled(Sample(i), <<>>) : i \in 1 .. 8}
             \cup {Compiled(OperatorProgram(c), <<>>) : c \in Accepted}
             \cup {Compiled(SlotProgram(c[1], c[2], c[3]), <<>>) : c \in Slots}
             \cup {Compiled(Arguments, argv) : argv \in {<<>>, <<A, B>>}}
  IN  p

-----------------------------------------------------------------------------
(***************************************************************************)
(* Every expression of up to three operands, in every place an expression  *)
(* may have: the operands are kept in registers of each kind the compiler  *)
(* knows (of a constant, a variable, a result, an element, a property),    *)
(* and one changes the object the others read.                             *)
(***************************************************************************)
Inc ==
  Function("inc", <<>>, <<IntType>>,
    << Do(Assign(Prop(Var("self"), "n"), Add(Prop(Var("self"), "n"), Num(1)))),
       ReturnValue(Prop(Var("self"), "n")) >>)

Atoms ==
  { Num(4), Var("a"), CallOf("f", << Var("a") >>), ElementAt(Var("l"), Var("a")),
    Prop(Var("o"), "n"), CallOn(Var("o"), "inc", <<>>) }
Pairs == {Sub(x, y) : x \in Atoms, y \in Atoms}
Triples ==
  {Sub(x, y) : x \in Pairs, y \in Atoms}
    \cup {Sub(x, Group(y)) : x \in Atoms, y \in Pairs}

\* The places: statements that use e.
Place(i, e) ==
  << << Declare("b", e), Show(Var("b")) >>,
    << Do(Assign(Var("a"), e)) >>,
    << Do(e) >>,
    << Show(CallOf("f", << e >>)) >>,
    << Do(Assign(ElementAt(Var("l"), Num(0)), e)) >>,
    << Do(Assign(Prop(Var("o"), "n"), e)) >>,
    << Show(List(<< e, Var("a"), Num(1) >>)) >>,
    << Declare("b", RangeTo(Var("a"), e, TRUE)), Show(Var("b")) >>,
    << Show(Prop(Object("C", << Argument("n", e) >>), "n")) >>,
    << If(Less2(e), << Show(e) >>, << Show(Var("a")) >>) >>,
    << While(Less2(Var("a")),
         << Declare("b", e), Do(Assign(Var("a"), Add(Var("a"), Num(1)))) >>) >>,
    << For("x", <<"i">>, List(<< e, Num(2) >>),
         << Show(Sub(Var("x"), Var("i"))) >>) >> >>[i]

Using(statements) ==
  << Class("C", << DeclareTyped("n", IntType), Inc >>),
     Function("f", << Param("x", IntType) >>, <<IntType>>,
       << ReturnValue(Mul(Var("x"), Num(3))) >>),
     Main(<< Declare("a", Num(1)), Declare("l", List(<< Num(5), Num(7) >>)),
             Declare("o", Object("C", <<>>)) >>
          \o statements
          \o << Show(Var("a")), Show(Var("l")), Show(Prop(Var("o"), "n")) >>) >>

ExpressionPrograms ==
  LET p == {Compiled(Using(Place(i, e)), <<>>) : i \in 1 .. 12, e \in Atoms \cup Pairs}
             \cup {Compiled(Using(<< Show(e) >>), <<>>) : e \in Triples}
  IN  p

-----------------------------------------------------------------------------
\* Programs that fail, after they have printed something.

Failing(statements) ==
  << Class("C", << DeclareTyped("n", IntType), DeclareTyped("next", ObjectType("C")),
                   DeclareTyped("f", IntToInt) >>),
     Function("five", [i \in 1 .. 5 |-> Param(<<"p", "q", "r", "s", "t">>[i], IntType)],
       <<IntType>>, << ReturnValue(Var("t")) >>),
     Function("count", << Param("n", IntType) >>, <<IntType>>,
       << If(Less2(Var("n")), << ReturnValue(Var("n")) >>, <<>>),
          ReturnValue(Add(CallOf("count", << Sub(Var("n"), Num(1)) >>), Num(1))) >>),
     Main(<< Declare("l", List(<< Num(5), Num(7) >>)), Declare("s", Str(<<97, 98>>)),
             Declare("d", Dict(<<A>>, << Num(1) >>)), Declare("o", Object("C", <<>>)),
             Declare("i", Num(2)), Show(Var("i")) >>
          \o statements \o << Show(Var("l")) >>) >>

\* An index past the end, at the end and before the beginning of each kind,
\* and a key that is not there.
Objects(es) == List([i \in DOMAIN es |-> Object("C", << Argument("n", es[i]) >>)])
Indices == { Num(3), Var("i"), Sub(Num(1), Var("i")) }
Change(i, e, x) ==
  << << Show(e) >>, << Do(Assign(e, x)), Show(e) >>, << Erase(e), Show(Var("s")) >> >>[i]
BadStatements ==
  << << Show(Infix(Var("i"), "/", Sub(Var("i"), Num(2)))) >>,
     << Show(Infix(Var("l"), "/", Sub(Var("i"), Num(3)))) >>,
     << Show(Infix(Var("s"), "/", Num(0))) >>,
     << Show(Prop(Prop(Var("o"), "next"), "n")) >>,
     << Do(Assign(Prop(Prop(Var("o"), "next"), "n"), Num(1))) >>,
     << Declare("f", Prop(Var("o"), "f")), Show(CallOf("f", << Num(1) >>)) >>,
     << Show(SliceOf(Var("s"), << Num(1) >>, << Var("i") >>, <<>>)) >>,
     << Show(SliceOf(Var("l"), <<>>, <<>>, << Num(1) >>)) >>,
     \* Objects are compared up to the first difference, those that are not there
     \* or that refer to themselves included.
     << Show(Infix(Objects(<< Num(1) >>), "==", Objects(<< Num(2) >>))) >>,
     << Show(Infix(List(<< Prop(Var("o"), "next"), Var("o") >>), "!=",
                   List(<< Prop(Var("o"), "next") >>))) >>,
     << Show(Infix(Objects(<< Num(1) >>), "==", Objects(<< Num(1) >>))) >>,
     << Show(Infix(List(<< Var("o") >>), "!=", List(<< Prop(Var("o"), "next") >>))) >>,
     << Do(Assign(Prop(Var("o"), "next"), Var("o"))),
        Show(Infix(List(<< Var("o") >>), "==", List(<< Var("o") >>))) >>,
     \* More calls, and more arguments, than there is room for.
     << Show(CallOf("count", << Num(4) >>)) >>,
     << Show(CallOf("count", << Num(9) >>)) >>,
     << Show(CallOf("five", << Num(1), Num(2), Num(3), Num(4), Var("i") >>)) >> >>

\* A function is assigned to another one that is not called again.
UnusedAssignment ==
  << Twice("x"),
     Function("g", << Param("x", IntType) >>, <<IntType>>, << ReturnValue(Num(0)) >>),
     Main(<< Show(CallOf("multiply", << Num(1) >>)), Do(Assign(Var("multiply"), Var("g"))) >>) >>

FailingPrograms ==
  LET Run(statements) == Compiled(Failing(statements), <<>>)
      p == {Run(Change(i, ElementAt(Var("l"), e), Num(8))) : i \in 1 .. 3, e \in Indices}
             \cup {Run(Change(i, ElementAt(Var("s"), e), Str(B))) : i \in 1 .. 3, e \in Indices}
             \cup {Run(Change(i, ElementAt(Var("d"), Str(B)), Num(8))) : i \in 1 .. 3}
             \cup {Run(BadStatements[i]) : i \in DOMAIN BadStatements}
             \cup {Compiled(UnusedAssignment, <<>>)}
  IN  p

AllPrograms ==
  LET p == SamplePrograms \cup ExpressionPrograms \cup FailingPrograms IN p

-----------------------------------------------------------------------------
\* Programs on which what the code says of itself fails.

Only(body) == << Main(body) >>

\* A literal evaluated twice, and changed.
LiteralInLoop ==
  Only(<< For("i", <<>>, RangeTo(Num(0), Num(2), FALSE),
            << Declare("l", List(<< Num(1) >>)),
               Do(Assign(ElementAt(Var("l"), Num(0)), Num(2))) >>) >>)
LiteralPrograms == LET p == Compiled(LiteralInLoop, <<>>) IN {p}

FloatDifference ==
  Only(<< Declare("x", Float(3)), Declare("y", Sub(Var("x"), Float(1))) >>)
FloatPrograms == LET p == Compiled(FloatDifference, <<>>) IN {p}

\* A dictionary that is not a constant: its keys are taken for registers.
DictionaryPrograms ==
  LET p == Compiled(Failing(<< Show(Dict(<<B>>, << Var("i") >>)) >>), <<>>) IN {p}

\* One function is assigned to another, which is then called: SET_G gets the
\* register of the value that was loaded from the global, in place of the
\* global.
Constantly(name, n) ==
  Function(name, << Param("x", IntType) >>, <<IntType>>, << ReturnValue(Num(n)) >>)
FunctionReplaced ==
  << Constantly("f", 1), Constantly("g", 2),
     Main(<< Do(Assign(Var("f"), Var("g"))), Show(CallOf("f", << Num(0) >>)) >>) >>
AssignmentPrograms == LET p == Compiled(FunctionReplaced, <<>>) IN {p}

\* The last mention of x is inside a loop: its register goes to y.
CarriedVariable ==
  Only(<< Declare("x", Num(5)), Declare("i", Num(0)),
          While(Less2(Var("i")),
            << Show(Var("x")), Declare("y", Num(9)),
               Do(Assign(Var("i"), Add(Var("i"), Num(1)))),
               Show(Var("y")) >>) >>)
CarriedPrograms == LET p == Compiled(CarriedVariable, <<>>) IN {p}

\* A string is given for a property that is an integer.
MistypedArgument ==
  << Class("C", << DeclareTyped("n", IntType) >>),
     Main(<< Declare("o", Object("C", << Argument("n", Str(A)) >>)),
             Show(Add(Prop(Var("o"), "n"), Num(1))) >>) >>
ArgumentPrograms == LET p == Compiled(MistypedArgument, <<>>) IN {p}

\* A function of a module of which everything is imported is called.
WholeImport ==
  << Use(<<>>, "list", ListModule),
     Function("first", << Param("l", IntList) >>, <<IntType>>,
       << ReturnValue(ElementAt(Var("l"), Num(0))) >>),
     Main(<< Show(CallOf("list_int_sum", << Numbers(2) >>)) >>) >>
ImportPrograms == LET p == Compiled(WholeImport, <<>>) IN {p}
=============================================================================
