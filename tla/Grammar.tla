------------------------------ MODULE Grammar -------------------------------
(***************************************************************************)
(* The recursive descent parser of Parser/src/parser.cpp, applied to the   *)
(* tokens of the lexer.  A rule is given the position of its first token   *)
(* (Parser::current) and yields the node it makes and the position after   *)
(* it, which is 0 when the parser ends the program with a message.         *)
(*                                                                         *)
(* Loading the module that a `use' names is the subject of ModuleLoader:   *)
(* here its code is empty.                                                 *)
(***************************************************************************)
EXTENDS Lexer, SyntaxTree, Evaluation

Parsed(node, p) == [at |-> p, node |-> node]
Refused == Parsed(<<>>, 0)

\* What follows a rule that was not refused.
Then(r, F(_, _)) ==
  CHOOSE y \in {IF s.at = 0 THEN s ELSE F(s.node, s.at) : s \in {r}} : TRUE

\* CHECK, match and consume.
At(p) == tokens[p].type
Closed(r, type) ==
  Then(r, LAMBDA node, p : IF At(p) = type THEN Parsed(node, p + 1) ELSE Refused)

\* EXPECT_NEW_LINE; the end of the file stays.
EndOfLine(r) ==
  Then(r, LAMBDA node, p :
    CASE At(p) = "\n" -> Parsed(node, p + 1)
      [] At(p) = "EOF" -> Parsed(node, p)
      [] OTHER -> Refused)

RECURSIVE SkipBlankLines(_)
SkipBlankLines(p) == IF At(p) = "\n" THEN SkipBlankLines(p + 1) ELSE p

-----------------------------------------------------------------------------
\* Token::to_string: the characters of a token, escapes replaced.

\* The characters with the codes from 32 on; a question mark stands for the
\* backquote, which TLA+ strings cannot hold.
Printable ==
  " !\"#$%&'()" \o "*+,-./0123456789:;<=>?@ABCDEFGHIJKLMNOPQRSTUVWXYZ" \o
  "[\\]^_?abcdefghijklmnopqrstuvwxyz{|}~"
CodeOf(c) ==
  CASE c = "\t" -> 9 [] c = "\n" -> 10 [] c = "\r" -> 13
    [] OTHER -> 31 + CHOOSE k \in 1 .. Len(Printable) : SubSeq(Printable, k, k) = c
EscapedCode(c) ==
  CASE c = "n" -> 10 [] c = "t" -> 9 [] c = "r" -> 13 [] c = "b" -> 8 [] c = "f" -> 12
    [] c = "v" -> 11 [] c = "0" -> 0 [] OTHER -> CodeOf(c)
Escapable == {"\\", "'", "\"", "n", "t", "r", "b", "f", "v", "0"}

Codes(p) ==
  LET last == After(tokens[p]) - 1
      from[i \in tokens[p].start .. last + 2] ==
        CASE i > last -> <<>>
          [] i <= last /\ text[i] = "\\" /\ Char(i + 1) \in Escapable ->
               <<EscapedCode(Char(i + 1))>> \o from[i + 2]
          [] OTHER -> <<CodeOf(text[i])>> \o from[i + 1]
  IN  from[tokens[p].start]

\* The spelling of a name.
Name(p) ==
  LET upto[i \in 0 .. tokens[p].length] ==
        IF i = 0 THEN "" ELSE upto[i - 1] \o text[tokens[p].start + i - 1]
  IN  upto[tokens[p].length]

\* stoll, and stof of a whole number: blanks before the digits are skipped.
WholePart(p) ==
  LET digit(i) == Codes(p)[i] - 48
      upto[i \in 0 .. tokens[p].length] ==
        IF i = 0 THEN [value |-> 0, open |-> TRUE]
        ELSE LET before == upto[i - 1]
             IN  CASE ~ before.open -> before
                   [] digit(i) \in 0 .. 9 -> [before EXCEPT !.value = 10 * @ + digit(i)]
                   [] digit(i) = -2 -> [before EXCEPT !.open = FALSE]
                   [] OTHER -> before
  IN  upto[tokens[p].length].value

-----------------------------------------------------------------------------
RECURSIVE Expression(_)
RECURSIVE TypeAt(_)

\* Items separated by commas.
Entry(p) ==
  IF At(p) = "identifier" /\ At(p + 1) = ":"
    THEN Then(Expression(p + 2), LAMBDA e, q :
           Parsed([key |-> Codes(p), name |-> Name(p), value |-> e], q))
    ELSE Refused
\* A parameter is a declaration without initializer.
ParameterAt(p) ==
  IF At(p) = "identifier" /\ At(p + 1) = ":"
    THEN Then(TypeAt(p + 2), LAMBDA type, q : Parsed(DeclareTyped(Name(p), type), q))
    ELSE Refused
Parameter(p) == ParameterAt(SkipBlankLines(p))
NameAt(p) == IF At(p) = "identifier" THEN Parsed(Name(p), p + 1) ELSE Refused
Items(Item(_), first) ==
  LET from[p \in first .. Len(tokens)] ==
        Then(Item(p), LAMBDA x, q :
          IF At(q) = "," THEN Then(from[q + 1], LAMBDA xs, r : Parsed(<<x>> \o xs, r))
          ELSE Parsed(<<x>>, q))
  IN  from[first]
ItemsUntil(Item(_), close, p) ==
  IF At(p) = close THEN Parsed(<<>>, p + 1) ELSE Closed(Items(Item, p), close)

\* The entries of an unordered_map: a key given twice has the value given
\* last (that a Dictionary's key_order has it twice makes no difference).
LastFor(entries, name) ==
  entries[CHOOSE i \in DOMAIN entries :
    entries[i].name = name /\ \A j \in DOMAIN entries : entries[j].name = name => j <= i].value
RECURSIVE MapOf(_)
MapOf(entries) ==
  IF entries = <<>> THEN <<>>
  ELSE LET first == Head(entries)
           Other(x) == x.name # first.name
       IN  << [first EXCEPT !.value = LastFor(entries, first.name)] >>
             \o MapOf(SelectSeq(entries, Other))
DictionaryOf(map) ==
  Dict([i \in DOMAIN map |-> map[i].key], [i \in DOMAIN map |-> map[i].value])
ArgumentsOf(map) == [i \in DOMAIN map |-> Argument(map[i].name, map[i].value)]

Primary(p) ==
  CASE At(p) \in {"false", "true"} -> Parsed(Bool(At(p) = "true"), p + 1)
    [] At(p) = "integer" -> Parsed(Num(WholePart(p)), p + 1)
    [] At(p) = "float" -> Parsed(Float(WholePart(p)), p + 1)
    [] At(p) = "string" -> Parsed(Str(Codes(p)), p + 1)
    [] At(p) = "identifier" ->
         CASE At(p + 1) # "!" -> Parsed(Var(Name(p)), p + 1)
           [] At(p + 1) = "!" /\ At(p + 2) = "{" ->
                Then(ItemsUntil(Entry, "}", p + 3), LAMBDA entries, q :
                  Parsed(Object(Name(p), ArgumentsOf(MapOf(entries))), q))
           [] OTHER -> Refused
    [] At(p) = "[" ->
         Then(ItemsUntil(Expression, "]", p + 1), LAMBDA es, q : Parsed(List(es), q))
    [] At(p) = "{" ->
         Then(ItemsUntil(Entry, "}", p + 1), LAMBDA entries, q :
           Parsed(DictionaryOf(MapOf(entries)), q))
    [] At(p) = "(" ->
         Closed(Then(Expression(p + 1), LAMBDA e, q : Parsed(Group(e), q)), ")")
    [] OTHER -> Refused

\* unary_postfix, from the token after the bracket, the parenthesis or the dot.
SliceStep(target, first, end, p) ==
  IF At(p) = "]" THEN Parsed(SliceOf(target, first, end, <<>>), p + 1)
  ELSE Closed(Then(Expression(p), LAMBDA step, q :
                Parsed(SliceOf(target, first, end, <<step>>), q)), "]")
SliceEnd(target, first, p) ==
  CASE At(p) = "]" -> Parsed(SliceOf(target, first, <<>>, <<>>), p + 1)
    [] At(p) = ":" -> SliceStep(target, first, <<>>, p + 1)
    [] OTHER -> Then(Expression(p), LAMBDA end, q :
         CASE At(q) = "]" -> Parsed(SliceOf(target, first, <<end>>, <<>>), q + 1)
           [] At(q) = ":" -> SliceStep(target, first, <<end>>, q + 1)
           [] OTHER -> Refused)
Subscript(target, p) ==
  IF At(p) = ":" THEN SliceEnd(target, <<>>, p + 1)
  ELSE Then(Expression(p), LAMBDA first, q :
         CASE At(q) = ":" -> SliceEnd(target, <<first>>, q + 1)
           [] At(q) = "]" -> Parsed(ElementAt(target, first), q + 1)
           [] OTHER -> Refused)
RECURSIVE Postfixes(_)
Postfixes(r) ==
  Then(r, LAMBDA e, p :
    CASE At(p) = "[" -> Postfixes(Subscript(e, p + 1))
      [] At(p) = "(" ->
           Postfixes(Then(ItemsUntil(Expression, ")", p + 1), LAMBDA es, q :
             Parsed(CallTo(e, es), q)))
      [] At(p) = "." ->
           IF At(p + 1) = "identifier" THEN Postfixes(Parsed(Prop(e, Name(p + 1)), p + 2))
           ELSE Refused
      [] OTHER -> Parsed(e, p))

RECURSIVE UnaryPrefix(_)
UnaryPrefix(p) ==
  IF At(p) \in {"!", "+", "-"}
    THEN Then(UnaryPrefix(p + 1), LAMBDA e, q : Parsed(Prefix(At(p), e), q))
    ELSE Postfixes(Primary(p))

\* Parser::type where the caller takes a missing type, before a line break or
\* `='.  (Inside another type nothing is missing: what has to follow is neither
\* of the two.)
OptionalTypeAt(p) ==
  IF At(p) \in {"\n", "="} THEN Parsed(<<>>, p)
  ELSE Then(TypeAt(p), LAMBDA t, q : Parsed(<<t>>, q))

RECURSIVE Casts(_)
Casts(r) ==
  Then(r, LAMBDA e, p :
    IF At(p) = "as"
      THEN Casts(Then(OptionalTypeAt(p + 1), LAMBDA type, q : Parsed(CastAs(e, type), q)))
      ELSE Parsed(e, p))

\* logical_or, logical_and, equality, comparison, addition, multiplication:
\* the operators of each level, loosest first.  All associate to the left.
Levels ==
  << {"or"}, {"and"}, {"!=", "=="}, {">", ">=", "<", "<="}, {"-", "+"}, {"/", "*"} >>
OperatorNode(l, op, r) ==
  IF op \in {"or", "and"} THEN Logical(l, op, r) ELSE Infix(l, op, r)
RECURSIVE Level(_, _)
RECURSIVE LevelRest(_, _)
LevelRestToTheRight(n, r) ==   \* mutant
  Then(r, LAMBDA left, p :
    IF At(p) \in Levels[n]
      THEN Then(Level(n, p + 1), LAMBDA right, q :
             Parsed(OperatorNode(left, At(p), right), q))
      ELSE Parsed(left, p))
LevelRest(n, r) ==
  Then(r, LAMBDA left, p :
    IF At(p) \in Levels[n]
      THEN LevelRest(n, Then(Level(n + 1, p + 1), LAMBDA right, q :
             Parsed(OperatorNode(left, At(p), right), q)))
      ELSE Parsed(left, p))
Level(n, p) ==
  IF n > Len(Levels) THEN Casts(UnaryPrefix(p)) ELSE LevelRest(n, Level(n + 1, p))

\* The end of a range is a whole expression, with ranges and assignments.
RECURSIVE RangeRest(_)
RangeRest(r) ==
  Then(r, LAMBDA first, p :
    IF At(p) \in {"..", "..."}
      THEN RangeRest(Then(Expression(p + 1), LAMBDA end, q :
             Parsed(RangeTo(first, end, At(p) = "..."), q)))
      ELSE Parsed(first, p))
RangeOrLess(p) == RangeRest(Level(1, p))

RECURSIVE AssignmentRest(_)
AssignmentRest(r) ==
  Then(r, LAMBDA target, p :
    IF At(p) = "="
      THEN AssignmentRest(Then(RangeOrLess(p + 1), LAMBDA e, q :
             Parsed(Assign(target, e), q)))
      ELSE Parsed(target, p))
Expression(p) == AssignmentRest(RangeOrLess(p))

TypeAt(p) ==
  CASE At(p) = "[" ->
         Closed(Then(TypeAt(p + 1), LAMBDA t, q : Parsed(ListOfType(t), q)), "]")
    [] At(p) = "{" ->
         Closed(Then(TypeAt(p + 1), LAMBDA t, q : Parsed(DictOfType(t), q)), "}")
    [] At(p) = "(" ->
         LET parameters == IF At(p + 1) \in {")", "->"} THEN Parsed(<<>>, p + 1)
                           ELSE Items(TypeAt, p + 1)
         IN  Closed(Then(parameters, LAMBDA ts, q :
               IF At(q) = "->"
                 THEN Then(TypeAt(q + 1), LAMBDA t, r : Parsed(FunctionType(ts, <<t>>), r))
                 ELSE Parsed(FunctionType(ts, <<>>), q)), ")")
    [] At(p) = "identifier" -> Parsed(NamedType(Name(p)), p + 1)
    [] OTHER -> Refused

-----------------------------------------------------------------------------
RECURSIVE Statement(_)
RECURSIVE Body(_, _)

\* body, and its closing brace.
BodyAt(p, found) ==
  CASE At(p) = "EOF" -> Refused
    [] At(p) = "}" -> Parsed(found, p + 1)
    [] OTHER -> Then(EndOfLine(Statement(p)), LAMBDA s, q : Body(q, Append(found, s)))
Body(p, found) == BodyAt(SkipBlankLines(p), found)

\* The body of an if, an else, a loop or a function.
Block(p) ==
  CASE At(p) = "{" -> Then(EndOfLine(Parsed(<<>>, p + 1)), LAMBDA none, q : Body(q, <<>>))
    [] At(p) = "=>" -> Then(Statement(p + 1), LAMBDA s, q : Parsed(<<s>>, q))
    [] OTHER -> Refused

\* Without a type there is an initializer.
VariableDeclaration(p) ==
  Then(OptionalTypeAt(p + 2), LAMBDA type, q :
    CASE At(q) = "=" -> Then(Expression(q + 1), LAMBDA e, r :
                          Parsed(Declaration(Name(p), type, <<e>>), r))
      [] At(q) # "=" /\ type # <<>> -> Parsed(Declaration(Name(p), type, <<>>), q)
      [] OTHER -> Refused)

\* Mutant: an else has to be on the line where the branch ends.
ElseAtOnce(p) == p

\* An elif or an else may be on the next line.
ElseAt(p) == IF At(p) = "\n" /\ At(p + 1) \in {"elif", "else"} THEN p + 1 ELSE p

RECURSIVE IfStatement(_)
ElseBranch(p) ==
  CASE At(p) = "elif" -> Then(IfStatement(p + 1), LAMBDA s, q : Parsed(<<s>>, q))
    [] At(p) = "else" -> Block(p + 1)
IfStatement(p) ==
  Then(Expression(p), LAMBDA c, q :
    Then(Block(q), LAMBDA then, r :
      IF At(ElseAt(r)) \in {"elif", "else"}
        THEN Then(ElseBranch(ElseAt(r)), LAMBDA else, u : Parsed(If(c, then, else), u))
        ELSE Parsed(If(c, then, <<>>), r)))

WhileStatement(p) ==
  Then(Expression(p), LAMBDA c, q :
    Then(Block(q), LAMBDA body, r : Parsed(While(c, body), r)))

ForStatement(p) ==
  Then(Items(NameAt, p), LAMBDA names, q :
    IF Len(names) > 2 \/ At(q) # "in" THEN Refused
    ELSE Then(Expression(q + 1), LAMBDA iterator, r :
           Then(Block(r), LAMBDA body, u :
             Parsed(For(names[1], Tail(names), iterator, body), u))))

\* A node made of the expression that comes next.
Of(Node(_), p) == Then(Expression(p), LAMBDA e, q : Parsed(Node(e), q))

ReturnStatement(p) ==
  IF At(p) \in {"\n", "EOF"} THEN Parsed(ReturnNothing, p) ELSE Of(ReturnValue, p)

StatementAt(p) ==
  CASE At(p) = "identifier" /\ At(p + 1) = ":" -> VariableDeclaration(p)
    [] At(p) = "if" -> IfStatement(p + 1)
    [] At(p) = "while" -> WhileStatement(p + 1)
    [] At(p) = "for" -> ForStatement(p + 1)
    [] At(p) = "return" -> ReturnStatement(p + 1)
    [] At(p) = "delete" -> Of(Erase, p + 1)
    [] At(p) = "print" -> Of(Show, p + 1)
    [] OTHER -> Of(Do, p)
Statement(p) == StatementAt(SkipBlankLines(p))

-----------------------------------------------------------------------------
FunctionBody(p) ==
  IF At(p) = "->"
    THEN Then(Expression(p + 1), LAMBDA e, q : Parsed(<<ReturnValue(e)>>, q))
    ELSE Block(p)
FunDeclaration(p) ==
  IF At(p) # "identifier" \/ At(p + 1) # "(" THEN Refused
  ELSE Then(ItemsUntil(Parameter, ")", p + 2), LAMBDA parameters, q :
         LET result == IF At(q) # ":" THEN Parsed(<<>>, q)
                       ELSE Then(TypeAt(q + 1), LAMBDA t, r : Parsed(<<t>>, r))
         IN  Then(result, LAMBDA type, r :
               Then(FunctionBody(r), LAMBDA body, u :
                 Parsed(Function(Name(p), parameters, type, body), u))))

MemberAt(p) ==
  CASE At(p) = "identifier" /\ At(p + 1) = ":" -> VariableDeclaration(p)
    [] At(p) = "fun" -> FunDeclaration(p + 1)
    [] OTHER -> Refused

\* A member is looked for as long as the brace is not the next token: blank
\* lines before the brace are taken for one.
RECURSIVE ClassBody(_, _)
ClassBody(p, found) ==
  IF At(p) \in {"}", "EOF"} THEN Parsed(found, p)
  ELSE Then(EndOfLine(MemberAt(SkipBlankLines(p))), LAMBDA m, q :
         ClassBody(q, Append(found, m)))
ClassStatement(p) ==
  IF At(p) # "identifier" \/ At(p + 1) # "{" THEN Refused
  ELSE Then(Closed(ClassBody(p + 2, <<>>), "}"), LAMBDA body, q :
         Parsed(Class(Name(p), body), q))

UseDeclaration(p) ==
  LET targets == IF At(p) # "identifier" THEN Parsed(<<>>, p)
                 ELSE Closed(Items(NameAt, p), "from")
  IN  Then(targets, LAMBDA names, q :
        IF At(q) # "string" THEN Refused
        ELSE Parsed(Use(names, Name(q), <<>>), q + 1))

RECURSIVE TopLevelDeclaration(_)
TopLevelDeclaration(p) ==
  CASE At(p) = "use" -> UseDeclaration(p + 1)
    [] At(p) = "export" -> Then(TopLevelDeclaration(p + 1), LAMBDA s, q :
         IF s.rule = "export" THEN Refused ELSE Parsed(Export(s), q))
    [] At(p) = "class" -> ClassStatement(p + 1)
    [] At(p) = "fun" -> FunDeclaration(p + 1)
    [] OTHER -> Refused

\* parse: a module has at least one declaration.
RECURSIVE Declarations(_, _)
DeclarationsAt(p, found) ==
  IF At(p) = "EOF" THEN IF found = <<>> THEN Refused ELSE Parsed(found, p)
  ELSE Then(EndOfLine(TopLevelDeclaration(p)), LAMBDA s, q :
         Declarations(q, Append(found, s)))
Declarations(p, found) == DeclarationsAt(SkipBlankLines(p), found)
Parse == Declarations(1, <<>>)
=============================================================================
