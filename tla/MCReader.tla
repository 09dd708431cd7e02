------------------------------ MODULE MCReader ------------------------------
(***************************************************************************)
(* Texts for TLC to read: programs of the repository, statements in every  *)
(* layout and texts that are refused, expressions of up to four operands,  *)
(* and every short text over the characters the lexer's loops care about.  *)
(***************************************************************************)
EXTENDS Reader, Samples

Characters(s) == [i \in 1 .. Len(s) |-> SubSeq(s, i, i)]
Joined(lines, break) ==
  LET upto[i \in 0 .. Len(lines)] ==
        IF i = 0 THEN <<>>
        ELSE upto[i - 1] \o Characters(lines[i]) \o (IF i = Len(lines) THEN <<>> ELSE break)
  IN  upto[Len(lines)]

Sample(lines, tree) == [lines |-> lines, tree |-> tree]
Refusal(lines) == Sample(lines, <<>>)

\* A function f without parameters.
InF(lines) == <<"fun f() {">> \o lines \o <<"}">>
F(body) == << Function("f", <<>>, <<>>, body) >>
a == Var("a")
b == Var("b")
c == Var("c")
DoA == << Do(a) >>
DoB == << Do(b) >>
DoC == << Do(c) >>

\* if, elif and else, on one line and on several.
Choices ==
  { Sample(InF(layout), F(<< If(a, DoA, << If(b, DoB, DoC) >>) >>)) :
      layout \in { << "if a => a elif b => b else => c" >>,
                   << "if a => a", "elif b => b", "else => c" >>,
                   << "if a {", "a", "} elif b {", "b", "} else {", "c", "}" >>,
                   << "if a {", "", "a", "", "}", "elif b => b else {", "c", "}" >> } }
  \cup { Sample(InF(<< "if a => if b => b", "else => c" >>),
                F(<< If(a, << If(b, DoB, DoC) >>, <<>>) >>)),
         Sample(InF(<< "if a {", "if b => b", "}", "else => c" >>),
                F(<< If(a, << If(b, DoB, <<>>) >>, DoC) >>)),
         Refusal(InF(<< "if a => a", "", "else => c", "if b b" >>)),
         Refusal(InF(<< "else => c" >>)) }

Statements ==
  { Sample(InF(<< "while a => a", "for a, b in c {", "return", "}", "for a in b => c" >>),
           F(<< While(a, DoA), For("a", <<"b">>, c, << ReturnNothing >>), For("a", <<>>, b, DoC) >>)),
    Sample(InF(<< "a: int", "b: [{Foo}] = c", "c := a = b", "delete a[1]", "print a", "return b" >>),
           F(<< DeclareTyped("a", IntType),
                Declaration("b", << ListOfType(DictOfType(ObjectType("Foo"))) >>, <<c>>),
                Declare("c", Assign(a, b)), Erase(ElementAt(a, Num(1))), Show(a), ReturnValue(b) >>)),
    Sample(<< "fun f(a: (int, (-> bool) -> Foo),", "b: ()): {string} => return" >>,
           << Function("f", << DeclareTyped("a", FunctionType(<< IntType, FunctionType(<<>>, <<BoolType>>) >>,
                                                                << ObjectType("Foo") >>)),
                              DeclareTyped("b", FunctionType(<<>>, <<>>)) >>,
                       << DictOfType(TextType) >>, << ReturnNothing >>) >>),
    Sample(InF(<< "a as", "b as = c as int", "a: int = b as", "if a as = b => c" >>),
           F(<< Do(CastAs(a, <<>>)), Do(Assign(CastAs(b, <<>>), CastTo(c, IntType))),
                Declaration("a", << IntType >>, << CastAs(b, <<>>) >>),
                If(Assign(CastAs(a, <<>>), b), DoC, <<>>) >>)),
    Refusal(InF(<< "print (a as)" >>)), Refusal(<< "fun f() -> a as" >>), Refusal(InF(<< "a as + b" >>)),
    Refusal(InF(<< "a: [", "]" >>)), Refusal(InF(<< "a: (->", ")" >>)), Refusal(<< "fun f():", "=> a" >>),
    Refusal(InF(<< "for a, b, c in a => b" >>)), Refusal(InF(<< "a:" >>)), Refusal(InF(<< "a b" >>)),
    Refusal(<< "fun f(a: int = 1) => a" >>), Refusal(<< "fun f(a) => a" >>), Refusal(<< "fun f() {", "a" >>) }

Literals ==
  { Sample(InF(<< "a = {a: 1, b: 2, a: 3}" >>),
           F(<< Do(Assign(a, Dict(<<A, B>>, << Num(3), Num(2) >>))) >>)),
    Sample(InF(<< "Foo!{a: true, b: 1.0, a: []}" >>),
           F(<< Do(Object("Foo", << Argument("a", List(<<>>)), Argument("b", Float(1)) >>)) >>)),
    Sample(InF(<< "\"a\\n\\\"\\q'\" + '\\\\'" >>),
           F(<< Do(Infix(Str(<<97, 10, 34, 92, 113, 39>>), "+", Str(<<92>>))) >>)),
    Refusal(InF(<< "{(a): 1}" >>)), Refusal(InF(<< "[1,]" >>)), Refusal(InF(<< "Foo! {a}" >>)) }

Modules ==
  { Sample(<< "use 'm'", "", "use a, b from 'm'", "export class Foo {a: int", "", "fun f() => a", "}" >>,
           << Use(<<>>, "m", <<>>), Use(<<"a", "b">>, "m", <<>>),
              Export(Class("Foo", << DeclareTyped("a", IntType), F(DoA)[1] >>)) >>),
    Sample(<< "class Foo {}" >>, << Class("Foo", <<>>) >>),
    Sample(<< "class Foo {a: int", "", "// end", "}" >>, << Class("Foo", << DeclareTyped("a", IntType) >>) >>),
    Refusal(<< "class Foo {a: int", "// end", "", "}" >>), Refusal(<< "class Foo {", "}" >>),
    Refusal(<< "class Foo", "{", "a: int", "}" >>), Refusal(<< "export export fun f() => a" >>),
    Refusal(<< "a: int = 1" >>), Refusal(<< "use a from b" >>), Refusal(<<>>), Refusal(<< "", "" >>) }

\* A comment takes its line break with it, and a tab stays in what follows.
Blanks ==
  { Sample(InF(<< "// a", "a = b // c", "-c" >>), F(<< Do(Assign(a, Infix(b, "-", c))) >>)),
    Refusal(InF(<< "a // c", "b" >>)), Refusal(InF(<< "\tprint a" >>)),
    Sample(InF(<< "print\ta // c", "" >>), F(<< Show(Var("\ta")) >>)) }

MCTrees ==
  LET Given == ReadAndRun \cup ReadOnly \cup Choices \cup Statements \cup Literals
                 \cup Modules \cup Blanks
      Pairs == { [text |-> Joined(s.lines, <<"\n">>), tree |-> s.tree] : s \in Given }
                 \cup { [text |-> Joined(s.lines, <<"\r", "\n">>), tree |-> s.tree] : s \in Choices }
  IN  [t \in {p.text : p \in Pairs} |-> (CHOOSE p \in Pairs : p.text = t).tree]

-----------------------------------------------------------------------------
Operations == {"or", "and", "==", "<", "-", "*", "..", "...", "="}
Prefixed == {"", "!", "- "}
Postfixed == {"", "[1]", "(c, d)", ".p", " as (int -> [int])", " as", "[1:]", "[:c:d]"}
ExpressionTexts ==
  LET Text(e) == Characters("fun f() -> " \o e)
      Loose == {"*", "..", "="}
  IN  { Text("a " \o x \o " b " \o y \o " c " \o z \o " d") : x, y, z \in Operations }
        \cup { Text("a" \o x \o u \o "b" \o v \o w \o y \o "c") :
                 x, y \in Loose, u \in Prefixed, v, w \in Postfixed }
        \cup { Text("a " \o x \o " (b " \o y \o " [c " \o z \o " d, true]) " \o x \o " a") :
                 x, y, z \in Loose }

\* Every text of at most n characters.
Over(alphabet, n) == UNION { [1 .. k -> alphabet] : k \in 0 .. n }
ShortTexts ==
  Over({"'", "\"", "\\", "\n", "a", " "}, 4) \cup Over({"/", "1", ".", "\n", "=", "\t"}, 4)
    \cup Over({"a", "s", "1", "_", ">", "-", " ", "?"}, 4)

MCTexts == LET Given == DOMAIN MCTrees IN Given \cup ExpressionTexts \cup ShortTexts
=============================================================================
