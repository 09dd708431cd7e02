------------------------------ MODULE Analyzer -------------------------------
(***************************************************************************)
(* The analyzer: Module of Analyzer/src/module.cpp, on the blocks of       *)
(* Parser/src/block.cpp.  It resolves names, checks types and turns the    *)
(* tree the parser left (SyntaxTree) into the one the compiler reads: the  *)
(* same nodes, with opcodes for operators and with the blocks' variables.  *)
(* The state of a module's analysis is a record                            *)
(*   file         the module                                               *)
(*   fate         "ok"; "refused" once an error is reported; "undefined"   *)
(*                once a missing type is followed or a field that nobody   *)
(*                has written is to be read                                *)
(*   blocks       the open blocks, main_block first: for each variable its *)
(*                type, its last_use and whether it is exported            *)
(*   classes      of main_block, by <<file, name>>: the class, its block   *)
(*                (its members' types), whether it is exported             *)
(*   mentions     mentions of variables so far; each is named by its rank  *)
(*   return_type  that of the function being analyzed, if it has one       *)
(* Error messages and the places they name are left out.                   *)
(***************************************************************************)
EXTENDS Types, Evaluation, Integers

Require(a, condition) ==
  IF a.fate = "ok" THEN IF condition THEN a ELSE [a EXCEPT !.fate = "refused"] ELSE a
NeedsSame(a, t, u) ==
  IF a.fate # "ok" \/ Comparison(t, u) = "same" THEN a
  ELSE [a EXCEPT !.fate = IF Comparison(t, u) = "different" THEN "refused" ELSE "undefined"]
NeedsType(a, t, type) == Require(a, t.type = type)

\* What the analysis of an expression leaves: the state, and if all is well
\* the node for the compiler and the expression's type.
Analyzed(a, e, t) ==
  IF a.fate = "ok" THEN [a |-> a, e |-> e, type |-> t] ELSE [a |-> a, e |-> <<>>, type |-> NoType]

-----------------------------------------------------------------------------
\* Blocks.

Innermost(a) == Len(a.blocks)
DeclaringBlocks(a, name) == {b \in DOMAIN a.blocks : name \in DOMAIN a.blocks[b]}
BlockOf(a, name) ==
  CHOOSE b \in DeclaringBlocks(a, name) : \A c \in DeclaringBlocks(a, name) : c <= b
Put(f, x, y) == [z \in DOMAIN f \cup {x} |-> IF z = x THEN y ELSE f[z]]
SetVariable(a, b, name, type, exported) ==
  [a EXCEPT !.blocks[b] = Put(@, name, [type |-> type, last |-> 0, exported |-> exported])]

\* declare: once in a block.
Declared(a, name, type) ==
  LET new == Require(a, name \notin DOMAIN a.blocks[Innermost(a)])
  IN  IF new.fate = "ok" THEN SetVariable(new, Innermost(new), name, type, FALSE) ELSE new

\* The mentions that the compiler takes for the last ones, by variable.
LastUses(block) == [name \in DOMAIN block |-> block[name].last]

\* get_class: the first one that has the name (of several, any may be).
ClassKeys(classes, name) == {k \in DOMAIN classes : k[2] = name}
HasClass(a, name) == ClassKeys(a.classes, name) # {}
ClassOf(classes, name) == classes[CHOOSE k \in ClassKeys(classes, name) : TRUE]
CheckClasses(a, type) == Require(a, \A c \in ClassesUsed(type) : HasClass(a, c))

-----------------------------------------------------------------------------
\* analyze_code(Expression).

Scalars == {"integer", "float", "string", "boolean"}
ScalarType ==
  [integer |-> IntType, float |-> FloatType, string |-> TextType, boolean |-> BoolType]

\* e is analyzed where a call without a result is allowed (noreturn), or a
\* method (method).
RECURSIVE AnalyzeExpression(_, _, _, _)
AnalyzeValue(a, e) == AnalyzeExpression(a, e, FALSE, FALSE)

\* The expressions es in turn.
AnalyzeAll(a, es) ==
  LET One(s, e) == With(AnalyzeValue(s.a, e), LAMBDA x :
                     [a |-> x.a, es |-> Append(s.es, x.e), types |-> Append(s.types, x.type)])
  IN  InTurn([a |-> a, es |-> <<>>, types |-> <<>>], es, One)
AnalyzePair(a, e, f) == AnalyzeAll(a, << e, f >>)

\* Each of the types is compared with its counterpart.
RECURSIVE NeedAllSame(_, _, _)
NeedAllSame(a, types, others) ==
  IF types = <<>> THEN a
  ELSE NeedAllSame(NeedsSame(a, types[1], others[1]), Tail(types), Tail(others))

AnalyzeList(a, e) ==
  LET xs == AnalyzeAll(Require(a, e.value # <<>>), e.value)
      same == NeedAllSame(xs.a, Tail(xs.types), [i \in DOMAIN xs.types |-> xs.types[1]])
  IN  Analyzed(same, [e EXCEPT !.value = xs.es], ListOfType(xs.types[1]))

\* Of the values after the first one only the type is taken: a variable is not
\* mentioned, and what the compiler reads of a larger expression has not been
\* written.
TypeOnly(a, e) ==
  LET known == Require(a, DeclaringBlocks(a, e.name) # {})
  IN  CASE e.rule = "variable" ->
             Analyzed(known, [rule |-> "variable", name |-> e.name, id |-> -1],
                      a.blocks[BlockOf(a, e.name)][e.name].type)
        [] e.rule \in Scalars -> Analyzed(a, e, ScalarType[e.rule])
        [] OTHER -> Analyzed(IF a.fate = "ok" THEN [a EXCEPT !.fate = "undefined"] ELSE a,
                             e, NoType)

AnalyzeDictionary(a, e) ==
  LET first == AnalyzeValue(Require(a, e.value # <<>>), e.value[1])
      One(s, value) == With(TypeOnly(s.a, value), LAMBDA x :
                         [a |-> NeedsSame(x.a, x.type, first.type), es |-> Append(s.es, x.e)])
      all == InTurn([a |-> first.a, es |-> <<first.e>>], Tail(e.value), One)
  IN  Analyzed(all.a, [e EXCEPT !.value = all.es], DictOfType(first.type))

\* An argument is looked up and analyzed; "Check if the types match" compares
\* the member's type with itself.
ArgumentType(member, x) == member.type
AnalyzeObject(a, e) ==
  LET known == Require(a, HasClass(a, e.name))
      c == ClassOf(a.classes, e.name)
      One(s, argument) ==
        LET x == AnalyzeValue(Require(s.a, argument.name \in DOMAIN c.block), argument.value)
            member == c.block[argument.name]
        IN  [a |-> NeedsSame(Require(x.a, ~ member.is_method), member.type,
                             ArgumentType(member, x)),
             arguments |-> Append(s.arguments, Argument(argument.name, x.e))]
      all == InTurn([a |-> known, arguments |-> <<>>], e.arguments, One)
  IN  IF known.fate # "ok" THEN Analyzed(known, e, NoType)
      ELSE Analyzed(all.a, [rule |-> "object", class |-> c.class, arguments |-> all.arguments],
                    ObjectType(e.name))

\* A type that was left out is followed, to choose the operator or to tell
\* that there is none.
AnalyzeCast(a, e) ==
  LET x == AnalyzeValue(a, e.expression)
      typed == IF x.a.fate = "ok" /\ e.type = <<>> THEN [x.a EXCEPT !.fate = "undefined"] ELSE x.a
      op == CastOperator(x.type, e.type[1])
  IN  Analyzed(Require(typed, op # Unknown),
               [rule |-> "cast", type |-> op[1].opcode, right |-> x.e], e.type[1])

AnalyzeUnary(a, e) ==
  LET x == AnalyzeValue(a, e.right)
      op == UnaryOperator(e.op, x.type)
  IN  Analyzed(Require(x.a, op # Unknown),
               [rule |-> "unary", type |-> op[1].opcode, right |-> x.e], op[1].type)

AnalyzeBinary(a, e) ==
  LET xs == AnalyzePair(a, e.left, e.right)
      op == BinaryOperator(e.op, xs.types[1], xs.types[2])
      same == IF xs.a.fate = "ok" /\ Comparison(xs.types[1], xs.types[2]) = "undefined"
                THEN [xs.a EXCEPT !.fate = "undefined"] ELSE xs.a
  IN  Analyzed(Require(same, op # Unknown),
               [rule |-> "binary", type |-> op[1].opcode, left |-> xs.es[1], right |-> xs.es[2]],
               op[1].type)

AnalyzeLogical(a, e) ==
  LET xs == AnalyzePair(a, e.left, e.right)
  IN  Analyzed(Require(xs.a, \A i \in {1, 2} : xs.types[i].type = "bool"),
               [rule |-> "logical", type |-> <<IF e.op = "or" THEN "OR" ELSE "AND">>,
                left |-> xs.es[1], right |-> xs.es[2]], BoolType)

\* The variable of the innermost block that has the name by now.
AnalyzeVariable(a, e) ==
  LET known == Require(a, DeclaringBlocks(a, e.name) # {})
      b == BlockOf(a, e.name)
      n == a.mentions + 1
  IN  IF known.fate # "ok" THEN Analyzed(known, e, NoType)
      ELSE Analyzed([a EXCEPT !.mentions = n, !.blocks[b][e.name].last = n],
                    [rule |-> "variable", name |-> e.name, id |-> n],
                    a.blocks[b][e.name].type)

AnalyzeAssign(a, e) ==
  LET xs == AnalyzePair(a, e.value, e.target)
  IN  Analyzed(NeedsSame(xs.a, xs.types[2], xs.types[1]),
               [rule |-> "assign", target |-> xs.es[2], value |-> xs.es[1]], xs.types[1])

IsMethodCall(target) == target.rule = "property" /\ target.is_method

Callable(a, f, e, noreturn) ==
  Require(Require(NeedsType(a, f, "fun"), noreturn \/ f.inner # <<>>),
          Len(e.arguments) = Len(f.parameters))

AnalyzeCall(a, e, noreturn) ==
  LET t == AnalyzeExpression(a, e.target, FALSE, TRUE)
      called == Callable(t.a, t.type, e, noreturn)
      One(s, i) == With(AnalyzeValue(s.a, e.arguments[i]), LAMBDA x :
                     [a |-> NeedsSame(x.a, x.type, t.type.parameters[i]),
                      es |-> Append(s.es, x.e)])
      all == InTurn([a |-> called, es |-> <<>>], [i \in DOMAIN e.arguments |-> i], One)
  IN  Analyzed(all.a,
        [rule |-> "call", target |-> t.e, arguments |-> all.es,
         is_method |-> IsMethodCall(t.e), has_return |-> t.type.inner # <<>>],
        IF t.type.inner = <<>> THEN NoType ELSE t.type.inner[1])

-----------------------------------------------------------------------------
\* Element access: kind is "S", "L" or "D" for strings, lists, dictionaries.

ElementKind == [string |-> "S", list |-> "L", dict |-> "D"]
IndexType(kind) == IF kind = "D" THEN TextType ELSE IntType
InnerType(t) == IF t.type = "string" THEN t ELSE t.inner[1]

AnalyzeAccess(a, e) ==
  LET xs == AnalyzePair(a, e.index, e.target)
      t == xs.types[2]
      container == Require(xs.a, t.type \in DOMAIN ElementKind)
      kind == ElementKind[t.type]
  IN  Analyzed(Require(container, xs.types[1].type = IndexType(kind).type),
               [rule |-> "access", kind |-> kind, target |-> xs.es[2], index |-> xs.es[1]],
               InnerType(t))

\* A bound of a slice that may not be given.
AnalyzeBound(a, bound) ==
  LET xs == AnalyzeAll(a, bound)
  IN  [a |-> Require(xs.a, \A i \in DOMAIN xs.types : xs.types[i].type = "int"), e |-> xs.es]

AnalyzeSlice(a, e) ==
  LET start == AnalyzeBound(a, e.start)
      end == AnalyzeBound(start.a, e.end)
      step == AnalyzeBound(end.a, e.step)
      t == AnalyzeValue(step.a, e.target)
  IN  Analyzed(Require(t.a, t.type.type \in {"list", "string"}),
               [rule |-> "slice", kind |-> ElementKind[t.type.type], target |-> t.e,
                start |-> start.e, end |-> end.e, step |-> step.e], t.type)

AnalyzeRange(a, e) ==
  LET xs == AnalyzePair(a, e.start, e.end)
  IN  Analyzed(Require(xs.a, \A i \in {1, 2} : xs.types[i].type = "int"),
               [e EXCEPT !.start = xs.es[1], !.end = xs.es[2]], ListOfType(IntType))

\* A method is no value: it can only be called.  The class of a result may be
\* one that nobody has declared or imported.
FindsClass(a, name) ==
  IF a.fate = "ok" /\ ~ HasClass(a, name) THEN [a EXCEPT !.fate = "undefined"] ELSE a
AnalyzeProperty(a, e, method) ==
  LET o == AnalyzeValue(a, e.object)
      c == ClassOf(o.a.classes, o.type.class_name)
      found == FindsClass(NeedsType(o.a, o.type, "object"), o.type.class_name)
      known == Require(found, e.name \in DOMAIN c.block)
      member == c.block[e.name]
  IN  Analyzed(Require(known, method \/ ~ member.is_method),
               [rule |-> "property", object |-> o.e, name |-> e.name, class |-> c.class,
                is_method |-> member.is_method], member.type)

AnalyzeExpression(a, e, noreturn, method) ==
  IF a.fate # "ok" THEN Analyzed(a, e, NoType)
  ELSE CASE e.rule \in Scalars -> Analyzed(a, e, ScalarType[e.rule])
         [] e.rule = "list" -> AnalyzeList(a, e)
         [] e.rule = "dictionary" -> AnalyzeDictionary(a, e)
         [] e.rule = "object" -> AnalyzeObject(a, e)
         [] e.rule = "group" ->
              With(AnalyzeValue(a, e.expression), LAMBDA x : Analyzed(x.a, Group(x.e), x.type))
         [] e.rule = "cast" -> AnalyzeCast(a, e)
         [] e.rule = "unary" -> AnalyzeUnary(a, e)
         [] e.rule = "binary" -> AnalyzeBinary(a, e)
         [] e.rule = "logical" -> AnalyzeLogical(a, e)
         [] e.rule = "variable" -> AnalyzeVariable(a, e)
         [] e.rule = "assign" -> AnalyzeAssign(a, e)
         [] e.rule = "call" -> AnalyzeCall(a, e, noreturn)
         [] e.rule = "access" -> AnalyzeAccess(a, e)
         [] e.rule = "slice" -> AnalyzeSlice(a, e)
         [] e.rule = "range" -> AnalyzeRange(a, e)
         [] e.rule = "property" -> AnalyzeProperty(a, e, method)

-----------------------------------------------------------------------------
(***************************************************************************)
(* analyze_code(Statement): the state after it and the statement for the   *)
(* compiler.  A block's statements are analyzed in a new block, in which   *)
(* the declarations given are made first.                                  *)
(***************************************************************************)
Checked(a, s) == [a |-> a, s |-> IF a.fate = "ok" THEN s ELSE <<>>]

RECURSIVE AnalyzeStatement(_, _)
AnalyzeStatements(a, body) ==
  LET One(x, s) == With(AnalyzeStatement(x.a, s), LAMBDA y :
                     [a |-> y.a, body |-> Append(x.body, y.s)])
  IN  InTurn([a |-> a, body |-> <<>>], body, One)
AnalyzeBlock(a, body, declarations) ==
  LET open == [a EXCEPT !.blocks = Append(@, [name \in {} |-> 0])]
      Declare1(x, d) == Declared(x, d.name, d.type[1])
      done == AnalyzeStatements(InTurn(open, declarations, Declare1), body)
  IN  [a |-> [done.a EXCEPT !.blocks = SubSeq(@, 1, Len(a.blocks))],
       body |-> done.body,
       block |-> LastUses(done.a.blocks[Len(done.a.blocks)])]

\* Without a type, that of the initializer, which is analyzed first.
AnalyzeDeclaration(a, s) ==
  LET xs == AnalyzeAll(a, s.initializer)
      type == IF s.type # <<>> THEN s.type[1] ELSE xs.types[1]
      untyped == Declared(CheckClasses(xs.a, type), s.name, type)
      typed == Declared(CheckClasses(a, type), s.name, type)
      ys == AnalyzeAll(typed, s.initializer)
      types == [i \in DOMAIN ys.types |-> type]
  IN  IF s.type = <<>>
        THEN Checked(IF xs.a.fate = "ok" THEN untyped ELSE xs.a,
                     Declaration(s.name, <<type>>, xs.es))
        ELSE Checked(NeedAllSame(ys.a, types, ys.types), Declaration(s.name, <<type>>, ys.es))

AnalyzeReturn(a, s) ==
  LET expected == Require(a, Len(s.value) = Len(a.return_type))
      xs == AnalyzeAll(expected, s.value)
  IN  Checked(NeedAllSame(xs.a, xs.types, a.return_type), [s EXCEPT !.value = xs.es])

AnalyzeCondition(a, e) ==
  With(AnalyzeValue(a, e), LAMBDA x : [x EXCEPT !.a = NeedsType(x.a, x.type, "bool")])

AnalyzeIf(a, s) ==
  LET c == AnalyzeCondition(a, s.condition)
      then == AnalyzeBlock(c.a, s.then_branch, <<>>)
      else == AnalyzeBlock(then.a, s.else_branch, <<>>)
  IN  Checked(else.a,
        [rule |-> "if", condition |-> c.e, then_branch |-> then.body, then_block |-> then.block,
         else_branch |-> else.body, else_block |-> else.block])

AnalyzeWhile(a, s) ==
  LET c == AnalyzeCondition(a, s.condition)
      body == AnalyzeBlock(c.a, s.body, <<>>)
  IN  Checked(body.a, [rule |-> "while", condition |-> c.e, body |-> body.body,
                       block |-> body.block])

\* The variable and the index belong to the block of the body.
AnalyzeFor(a, s) ==
  LET x == AnalyzeValue(a, s.iterator)
      iterable == Require(x.a, x.type.type \in DOMAIN ElementKind)
      variables == << DeclareTyped(s.variable, InnerType(x.type)) >>
                     \o [i \in DOMAIN s.index |->
                          DeclareTyped(s.index[i],
                            IF x.type.type = "dict" THEN TextType ELSE IntType)]
      body == AnalyzeBlock(iterable, s.body, variables)
  IN  IF iterable.fate # "ok" THEN Checked(iterable, s)
      ELSE Checked(body.a,
             [rule |-> "for", kind |-> ElementKind[x.type.type], variable |-> s.variable,
              index |-> s.index, iterator |-> x.e, body |-> body.body, block |-> body.block])

AnalyzeStatement(a, s) ==
  IF a.fate # "ok" THEN Checked(a, s)
  ELSE CASE s.rule \in {"print"} ->
              With(AnalyzeValue(a, s.expression), LAMBDA x : Checked(x.a, Show(x.e)))
         [] s.rule = "expression" ->
              With(AnalyzeExpression(a, s.expression, TRUE, FALSE),
                   LAMBDA x : Checked(x.a, Do(x.e)))
         [] s.rule = "declaration" -> AnalyzeDeclaration(a, s)
         [] s.rule = "return" -> AnalyzeReturn(a, s)
         [] s.rule = "delete" ->
              With(AnalyzeValue(a, s.target), LAMBDA x :
                Checked(Require(x.a, s.target.rule = "access"), Erase(x.e)))
         [] s.rule = "if" -> AnalyzeIf(a, s)
         [] s.rule = "while" -> AnalyzeWhile(a, s)
         [] s.rule = "for" -> AnalyzeFor(a, s)

-----------------------------------------------------------------------------
(***************************************************************************)
(* analyze_function, with the declaration of self if it is a method.  One  *)
(* that has a result needs a return that is not inside another statement;  *)
(* one that has none gets one at its end.                                  *)
(***************************************************************************)
ReturnsAtTop(body) == \E i \in DOMAIN body : body[i].rule = "return"
WithReturn(f) ==
  IF f.result = <<>> /\ ~ ReturnsAtTop(f.body) THEN Append(f.body, ReturnNothing) ELSE f.body

AnalyzeFunction(a, f, self) ==
  LET CheckOne(x, p) == CheckClasses(x, p.type[1])
      checked == Require(InTurn(a, f.parameters, CheckOne), f.result = <<>> \/ ReturnsAtTop(f.body))
      parameters == self \o f.parameters
      body == AnalyzeBlock([checked EXCEPT !.return_type = f.result], WithReturn(f), parameters)
  IN  IF checked.fate # "ok" THEN Checked(checked, f)
      ELSE Checked([body.a EXCEPT !.return_type = <<>>],
             [rule |-> "function", name |-> f.name,
              parameters |-> [i \in DOMAIN parameters |-> parameters[i].name],
              returns |-> f.result # <<>>, block |-> body.block, body |-> body.body])

-----------------------------------------------------------------------------
(***************************************************************************)
(* analyze_tld: what a module declares and imports, before any code is     *)
(* analyzed.  A function may not have the name of one declared or imported *)
(* before it, nor a class that of a class.                                 *)
(***************************************************************************)
TypeOfFunction(f) ==
  FunctionType([i \in DOMAIN f.parameters |-> f.parameters[i].type[1]], f.result)

DeclareFunction(a, f, exported) ==
  LET new == Require(a, f.name \notin DOMAIN a.blocks[1])
  IN  IF new.fate = "ok" THEN SetVariable(new, 1, f.name, TypeOfFunction(f), exported) ELSE new

\* analyze_class_tld: a variable has a type and no initializer.
DeclareMember(a, key, s) ==
  LET method == s.rule = "function"
      type == IF method THEN TypeOfFunction(s) ELSE s.type[1]
      allowed == Require(a, ~ method => s.initializer = <<>> /\ s.type # <<>>)
      new == Require(allowed, s.name \notin DOMAIN a.classes[key].block)
      known == IF method THEN new ELSE CheckClasses(new, type)
  IN  IF known.fate # "ok" THEN known
      ELSE [known EXCEPT !.classes[key].block =
              Put(@, s.name, [type |-> type, is_method |-> method])]

DeclareClass(a, c, exported) ==
  LET key == <<a.file, c.name>>
      new == Require(a, ~ HasClass(a, c.name))
      Member(x, s) == IF x.fate = "ok" THEN DeclareMember(x, key, s) ELSE x
      empty == [class |-> key, block |-> [n \in {} |-> 0], exported |-> exported]
  IN  IF new.fate # "ok" THEN new
      ELSE InTurn([new EXCEPT !.classes = Put(@, key, empty)], c.body, Member)

-----------------------------------------------------------------------------
\* use: the targets, or all that is exported.  What an imported function or
\* class says of classes has to be imported with it.

ClassesOfMembers(c) == UNION {ClassesUsed(c.block[n].type) : n \in DOMAIN c.block}

\* Imports replace what has their name; imported from here, they are not
\* exported.
ImportVariable(a, used, name) == SetVariable(a, 1, name, used.block[name].type, FALSE)
ImportClass(a, key, class) ==
  [a EXCEPT !.classes = Put(@, key, [class EXCEPT !.exported = FALSE])]

\* A target is a variable rather than a class.
IsVariable(used, name) == name \in DOMAIN used.block
ImportTarget(a, used, name) ==
  LET class == ClassOf(used.classes, name)
      known == Require(a, IsVariable(used, name) \/ ClassKeys(used.classes, name) # {})
      public == Require(known, IF IsVariable(used, name) THEN used.block[name].exported
                                                         ELSE class.exported)
  IN  IF public.fate # "ok" THEN public
      ELSE IF IsVariable(used, name) THEN ImportVariable(public, used, name)
      ELSE ImportClass(public, <<a.file, name>>, class)

Exported(f) == {n \in DOMAIN f : f[n].exported}
ImportAll(a, used) ==
  [a EXCEPT
     !.blocks[1] = [n \in DOMAIN @ \cup Exported(used.block) |->
                      IF n \in Exported(used.block)
                        THEN [type |-> used.block[n].type, last |-> 0, exported |-> FALSE]
                        ELSE @[n]],
     !.classes = [k \in DOMAIN @ \cup Exported(used.classes) |->
                    IF k \in Exported(used.classes)
                      THEN [used.classes[k] EXCEPT !.exported = FALSE] ELSE @[k]]]

NamedIn(targets, names) == {n \in names : \E i \in DOMAIN targets : targets[i] = n}
ImportedVariables(s, used) ==
  IF s.targets = <<>> THEN Exported(used.block) ELSE NamedIn(s.targets, DOMAIN used.block)
ImportedClasses(s, used) ==
  IF s.targets = <<>> THEN Exported(used.classes)
  ELSE {k \in DOMAIN used.classes :
          k[2] \notin DOMAIN used.block /\ \E i \in DOMAIN s.targets : s.targets[i] = k[2]}
RequiredClasses(s, used) ==
  UNION {ClassesUsed(used.block[n].type) : n \in ImportedVariables(s, used)}
    \cup UNION {ClassesOfMembers(used.classes[k]) : k \in ImportedClasses(s, used)}

\* used is the analyzed module.
Import(a, s, used) ==
  LET One(x, name) == ImportTarget(x, used, name)
      imported == IF s.targets = <<>> THEN ImportAll(a, used) ELSE InTurn(a, s.targets, One)
  IN  Require(imported, RequiredClasses(s, used) \subseteq {k[2] : k \in ImportedClasses(s, used)})

-----------------------------------------------------------------------------
\* A module: declarations, then code.

RECURSIVE AnalyzeModule(_, _, _)
RECURSIVE AnalyzeTLD(_, _, _)
AnalyzeTLD(a, s, exported) ==
  IF a.fate # "ok" THEN Checked(a, s)
  ELSE CASE s.rule = "function" -> Checked(DeclareFunction(a, s, exported), s)
         [] s.rule = "class" -> Checked(DeclareClass(a, s, exported), s)
         [] s.rule = "export" ->
              With(AnalyzeTLD(a, s.statement, TRUE), LAMBDA x : Checked(x.a, Export(x.s)))
         [] s.rule = "use" ->
              With(AnalyzeModule(s.module, s.code, FALSE), LAMBDA used :
                IF used.fate # "ok" THEN Checked([a EXCEPT !.fate = used.fate], s)
                ELSE Checked(Import(a, s, used),
                             [rule |-> "use", targets |-> s.targets, code |-> used]))

\* A class for the compiler: its members in order, and its methods.
MemberKind(s) == IF s.rule = "function" THEN "fun" ELSE s.type[1].type
AnalyzeMethods(a, c) ==
  LET self == << DeclareTyped("self", ObjectType(c.name)) >>
      One(x, s) == IF s.rule # "function" \/ x.a.fate # "ok" THEN x
                   ELSE With(AnalyzeFunction(x.a, s, self), LAMBDA f :
                          [a |-> f.a, methods |-> Append(x.methods, f.s)])
      all == InTurn([a |-> a, methods |-> <<>>], c.body, One)
  IN  Checked(all.a,
        [rule |-> "class", class |-> <<a.file, c.name>>, methods |-> all.methods,
         properties |-> [i \in DOMAIN c.body |->
                           [name |-> c.body[i].name, type |-> MemberKind(c.body[i])]]])

RECURSIVE AnalyzeTLDCode(_, _)
AnalyzeTLDCode(a, s) ==
  IF a.fate # "ok" THEN Checked(a, s)
  ELSE CASE s.rule = "use" -> Checked(a, s)
         [] s.rule = "export" -> AnalyzeTLDCode(a, s.statement)
         [] s.rule = "class" -> AnalyzeMethods(a, s)
         [] s.rule = "function" -> AnalyzeFunction(a, s, <<>>)

\* The main function takes the arguments of the program.
IsMain(t) ==
  /\ t.type = "fun" /\ Len(t.parameters) = 1
  /\ t.parameters[1].type = "list" /\ t.parameters[1].inner[1].type = "string"
NeedsMain(a) ==
  Require(Require(a, "main" \in DOMAIN a.blocks[1]), IsMain(a.blocks[1]["main"].type))

InTurnTLD(a, code, Analyze(_, _)) ==
  LET One(x, s) == With(Analyze(x.a, s), LAMBDA y : [a |-> y.a, code |-> Append(x.code, y.s)])
  IN  InTurn([a |-> a, code |-> <<>>], code, One)

AnalyzeModule(file, code, require_main) ==
  LET start == [file |-> file, fate |-> "ok", blocks |-> << [n \in {} |-> 0] >>,
                classes |-> [k \in {} |-> 0], mentions |-> 0, return_type |-> <<>>]
      declared == InTurnTLD(start, code, LAMBDA a, s : AnalyzeTLD(a, s, FALSE))
      ready == IF require_main THEN NeedsMain(declared.a) ELSE declared.a
      done == InTurnTLD(ready, declared.code, AnalyzeTLDCode)
  IN  [fate |-> done.a.fate, file |-> file, code |-> done.code, block |-> done.a.blocks[1],
       classes |-> done.a.classes]

Analyze(code) == AnalyzeModule("main", code, TRUE)
=============================================================================
