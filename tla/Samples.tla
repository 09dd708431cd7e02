------------------------------ MODULE Samples --------------------------------
(***************************************************************************)
(* Programs of the repository (simple_app/, syntax/, Lib/, the README),    *)
(* some cut down, each as its lines and as its tree, to be read by the     *)
(* lexer and the parser and to be analyzed, compiled and run.              *)
(***************************************************************************)
EXTENDS Integers, Sequences, SyntaxTree

Ten == Num(10)
IntList == ListOfType(IntType)
IntToInt == FunctionType(<<IntType>>, <<IntType>>)
Numbers(n) == List([i \in 1 .. n |-> Num(i)])
A == <<97>>
B == <<98>>
C == <<99>>

-----------------------------------------------------------------------------
\* simple_app/fib.nu
FibLines ==
  << "fun rec_fib(n: int): int {",
     "    if n < 2 => return n",
     "    return rec_fib(n - 2) + rec_fib(n - 1)",
     "}",
     "",
     "fun iter_fib(n: int): int {",
     "    if n < 2 => return n",
     "",
     "    second_fib := 0",
     "    first_fib := 1",
     "    current_fib := 0",
     "",
     "    i: int = 2",
     "    while i <= n {",
     "        current_fib = second_fib+first_fib",
     "        second_fib = first_fib",
     "        first_fib = current_fib",
     "        i = i + 1",
     "    }",
     "    return current_fib",
     "}",
     "",
     "fun main(argv: [string]) {",
     "    print rec_fib(4) - iter_fib(5)",
     "}" >>
N == DeclareTyped("n", IntType)
IfSmall == If(Infix(Var("n"), "<", Num(2)), << ReturnValue(Var("n")) >>, <<>>)
RecFib ==
  Function("rec_fib", <<N>>, <<IntType>>,
    << IfSmall,
       ReturnValue(Infix(CallOf("rec_fib", << Infix(Var("n"), "-", Num(2)) >>), "+",
                         CallOf("rec_fib", << Infix(Var("n"), "-", Num(1)) >>))) >>)
IterFib ==
  Function("iter_fib", <<N>>, <<IntType>>,
    << IfSmall,
       Declare("second_fib", Num(0)), Declare("first_fib", Num(1)),
       Declare("current_fib", Num(0)), Declaration("i", <<IntType>>, <<Num(2)>>),
       While(Infix(Var("i"), "<=", Var("n")),
         << Do(Assign(Var("current_fib"), Infix(Var("second_fib"), "+", Var("first_fib")))),
            Do(Assign(Var("second_fib"), Var("first_fib"))),
            Do(Assign(Var("first_fib"), Var("current_fib"))),
            Do(Assign(Var("i"), Infix(Var("i"), "+", Num(1)))) >>),
       ReturnValue(Var("current_fib")) >>)
Fib ==
  << RecFib, IterFib,
     Main(<< Show(Infix(CallOf("rec_fib", <<Num(4)>>), "-", CallOf("iter_fib", <<Num(5)>>))) >>) >>

\* The README's first program
TriangleLines ==
  << "class Triangle {",
     "    b: float",
     "    h: float",
     "    fun area(): float -> (self.b * self.h) / 2.0",
     "}",
     "",
     "fun main(argv: [string]) {",
     "    t := Triangle!{b: 10.0, h: 5.0}",
     "    print \"The area is: \" + t.area() as string",
     "}" >>
AreaIs == << 84, 104, 101, 32, 97, 114, 101, 97, 32, 105, 115, 58, 32 >>
Triangle ==
  << Class("Triangle",
       << DeclareTyped("b", FloatType), DeclareTyped("h", FloatType),
          Function("area", <<>>, <<FloatType>>,
            << ReturnValue(Infix(Group(Infix(Prop(Var("self"), "b"), "*", Prop(Var("self"), "h"))),
                                 "/", Float(2))) >>) >>),
     Main(<< Declare("t", Object("Triangle", << Argument("b", Float(10)), Argument("h", Float(5)) >>)),
             Show(Infix(Str(AreaIs), "+", CastTo(CallOn(Var("t"), "area", <<>>), TextType))) >>) >>

\* simple_app/classes.nu
ClassesLines ==
  << "class Collection {",
     "    numbers: [int]",
     "    fun map(f: (int -> int)): Collection {",
     "        for element, index in self.numbers {",
     "            self.numbers[index] = f(element)",
     "        }",
     "        return self",
     "    }",
     "}",
     "",
     "fun multiply(x: int): int -> x * 2",
     "",
     "fun main(argv: [string]) {",
     "    c := Collection!{numbers: [1, 2, 3, 4, 5]}",
     "    c.map(multiply).map(multiply)",
     "    print c.numbers",
     "}" >>
SelfNumbers == Prop(Var("self"), "numbers")
Twice(x) == Function("multiply", << DeclareTyped(x, IntType) >>, <<IntType>>,
                     << ReturnValue(Infix(Var(x), "*", Num(2))) >>)
MapTwice(n) ==
  Main(<< Declare("c", Object("Collection", << Argument("numbers", Numbers(n)) >>)),
          Do(CallOn(CallOn(Var("c"), "map", <<Var("multiply")>>), "map", <<Var("multiply")>>)),
          Show(Prop(Var("c"), "numbers")) >>)
CollectionOf(n) ==
  << Class("Collection",
       << DeclareTyped("numbers", IntList),
          Function("map", << DeclareTyped("f", IntToInt) >>, <<ObjectType("Collection")>>,
            << For("element", <<"index">>, SelfNumbers,
                 << Do(Assign(ElementAt(SelfNumbers, Var("index")),
                              CallOf("f", <<Var("element")>>))) >>),
               ReturnValue(Var("self")) >>) >>),
     Twice("x"), MapTwice(n) >>
Classes == CollectionOf(5)

\* The README's third program, and Lib/list.nu
ThirdLines ==
  << "use list_int_map from \"list\"",
     "",
     "class Collection {",
     "    numbers: [int]",
     "    fun map(f: (int -> int)): Collection {",
     "        list_int_map(self.numbers, f)",
     "        return self",
     "    }",
     "}",
     "",
     "fun multiply(n: int): int -> n * 2",
     "",
     "fun main(argv: [string]) {",
     "    c := Collection!{numbers: [1, 2]}",
     "    c.map(multiply).map(multiply)",
     "    print c.numbers",
     "}" >>
ThirdUsing(code) ==
  << Use(<<"list_int_map">>, "list", code),
     Class("Collection",
       << DeclareTyped("numbers", IntList),
          Function("map", << DeclareTyped("f", IntToInt) >>, <<ObjectType("Collection")>>,
            << Do(CallOf("list_int_map", << SelfNumbers, Var("f") >>)),
               ReturnValue(Var("self")) >>) >>),
     Twice("n"), MapTwice(2) >>
ListLines ==
  << "export fun list_int_sum(l: [int]): int {",
     "    sum := 0",
     "    for num in l => sum = sum + num",
     "    return sum",
     "}",
     "",
     "export fun list_int_map(l: [int], f: (int -> int)) {",
     "    for num, index in l => l[index] = f(num)",
     "}" >>
ListSum == Function("list_int_sum", << DeclareTyped("l", IntList) >>, <<IntType>>,
  << Declare("sum", Num(0)),
     For("num", <<>>, Var("l"), << Do(Assign(Var("sum"), Infix(Var("sum"), "+", Var("num")))) >>),
     ReturnValue(Var("sum")) >>)
ListMap ==
  Function("list_int_map", << DeclareTyped("l", IntList), DeclareTyped("f", IntToInt) >>, <<>>,
    << For("num", <<"index">>, Var("l"),
         << Do(Assign(ElementAt(Var("l"), Var("index")), CallOf("f", <<Var("num")>>))) >>) >>)
ListModule == << Export(ListSum), Export(ListMap) >>

\* simple_app/rect.nu and another.nu
RectLines ==
  << "export class Length {",
     "    value: int",
     "}",
     "",
     "export class Rect {",
     "    x: Length",
     "    y: Length",
     "}",
     "",
     "export fun create_rec(): Rect {",
     "    return Rect!{x: Length!{value: 10}, y: Length!{value: 10}}",
     "}" >>
LengthOfTen == Object("Length", << Argument("value", Ten) >>)
RectModule ==
  << Export(Class("Length", << DeclareTyped("value", IntType) >>)),
     Export(Class("Rect", << DeclareTyped("x", ObjectType("Length")),
                             DeclareTyped("y", ObjectType("Length")) >>)),
     Export(Function("create_rec", <<>>, <<ObjectType("Rect")>>,
       << ReturnValue(Object("Rect", << Argument("x", LengthOfTen), Argument("y", LengthOfTen) >>)) >>)) >>
AnotherLines ==
  << "use Length, Rect, create_rec from 'rect'",
     "",
     "class Person {",
     "    name: string",
     "    age: int",
     "    fun show(): string {",
     "        return self.name",
     "    }",
     "}",
     "",
     "fun main(argv: [string]) {",
     "    p: Person = Person!{name: \"Erik\", age: 22}",
     "    print p.show()",
     "    r := create_rec()",
     "    r2 := Rect!{x: Length!{value: 10}}",
     "    print r2.x",
     "    print r2.y",
     "    print r2.x.value",
     "}" >>
AnotherUsing(code) ==
  << Use(<<"Length", "Rect", "create_rec">>, "rect", code),
     Class("Person",
       << DeclareTyped("name", TextType), DeclareTyped("age", IntType),
          Function("show", <<>>, <<TextType>>, << ReturnValue(Prop(Var("self"), "name")) >>) >>),
     Main(<< Declaration("p", <<ObjectType("Person")>>,
               << Object("Person", << Argument("name", Str(<<69, 114, 105, 107>>)),
                                      Argument("age", Num(22)) >>) >>),
             Show(CallOn(Var("p"), "show", <<>>)),
             Declare("r", CallOf("create_rec", <<>>)),
             Declare("r2", Object("Rect", << Argument("x", LengthOfTen) >>)),
             Show(Prop(Var("r2"), "x")),
             Show(Prop(Var("r2"), "y")),
             Show(Prop(Prop(Var("r2"), "x"), "value")) >>) >>

\* simple_app/del.nu
DeletionsLines ==
  << "class A {",
     "    list: [int]",
     "    dict: {int}",
     "    str: string",
     "}",
     "",
     "fun main(argv: [string]) {",
     "    dict := {a: 1, b: 2, c: 3}",
     "    dict['b'] = 5",
     "    delete dict['a']",
     "    dict['a'] = 7",
     "    for v, k in dict {",
     "        print k + v as string",
     "    }",
     "    a := A!{list: [1, 2, 3], str: \"abc\"}",
     "    delete a.list[1]",
     "    delete a.str[0]",
     "    a.str[1] = \"x\"",
     "    print a.list",
     "    print a.str",
     "    print a.dict",
     "}" >>
PropOfA(name) == Prop(Var("a"), name)
Deletions ==
  << Class("A", << DeclareTyped("list", IntList), DeclareTyped("dict", DictOfType(IntType)),
                   DeclareTyped("str", TextType) >>),
     Main(<< Declare("dict", Dict(<<A, B, C>>, << Num(1), Num(2), Num(3) >>)),
             Do(Assign(ElementAt(Var("dict"), Str(B)), Num(5))),
             Erase(ElementAt(Var("dict"), Str(A))),
             Do(Assign(ElementAt(Var("dict"), Str(A)), Num(7))),
             For("v", <<"k">>, Var("dict"),
               << Show(Infix(Var("k"), "+", CastTo(Var("v"), TextType))) >>),
             Declare("a", Object("A", << Argument("list", Numbers(3)),
                                         Argument("str", Str(<<97, 98, 99>>)) >>)),
             Erase(ElementAt(PropOfA("list"), Num(1))),
             Erase(ElementAt(PropOfA("str"), Num(0))),
             Do(Assign(ElementAt(PropOfA("str"), Num(1)), Str(<<120>>))),
             Show(PropOfA("list")), Show(PropOfA("str")), Show(PropOfA("dict")) >>) >>

\* simple_app/more.nu, test2.nu
OperatorsLines ==
  << "fun main(argv: [string]) {",
     "    print [1, 2] + [3, 4]",
     "    print {a: \"a\"} + {b: \"b\", a: \"c\"}",
     "    print 2 * \"abc\"",
     "    print [1, 2] * -2",
     "    print [1, 2, 3] / 2",
     "    print \"asd\"[1:3:1]",
     "    print \"asd\"[2:50000]",
     "    print \"asd\"[2:]",
     "    print \"asd\"[:5]",
     "}" >>
Asd == Str(<<97, 115, 100>>)
Operators ==
  << Main(<< Show(Infix(List(<<Num(1), Num(2)>>), "+", List(<<Num(3), Num(4)>>))),
             Show(Infix(Dict(<<A>>, <<Str(A)>>), "+", Dict(<<B, A>>, <<Str(B), Str(C)>>))),
             Show(Infix(Num(2), "*", Str(<<97, 98, 99>>))),
             Show(Infix(Numbers(2), "*", Prefix("-", Num(2)))),
             Show(Infix(Numbers(3), "/", Num(2))),
             Show(SliceOf(Asd, <<Num(1)>>, <<Num(3)>>, <<Num(1)>>)),
             Show(SliceOf(Asd, <<Num(2)>>, <<Num(50000)>>, <<>>)),
             Show(SliceOf(Asd, <<Num(2)>>, <<>>, <<>>)),
             Show(SliceOf(Asd, <<>>, <<Num(5)>>, <<>>)) >>) >>

\* Each program of one module with its lines.
ReadAndRun ==
  { [lines |-> FibLines, tree |-> Fib], [lines |-> TriangleLines, tree |-> Triangle],
    [lines |-> ClassesLines, tree |-> Classes], [lines |-> DeletionsLines, tree |-> Deletions],
    [lines |-> OperatorsLines, tree |-> Operators] }
\* Modules that use others: what they use is loaded apart.
ReadOnly ==
  { [lines |-> ThirdLines, tree |-> ThirdUsing(<<>>)], [lines |-> ListLines, tree |-> ListModule],
    [lines |-> RectLines, tree |-> RectModule], [lines |-> AnotherLines, tree |-> AnotherUsing(<<>>)] }
=============================================================================
