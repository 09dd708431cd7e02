----------------------------- MODULE Semantics ------------------------------
(***************************************************************************)
(* What a Nuua program means: an evaluator of the syntax tree that knows   *)
(* nothing of registers, constants, offsets or frames.  It is the          *)
(* reference the compiled program is compared with (Pipeline).             *)
(*                                                                         *)
(* A name means the variable of the innermost block that has declared it   *)
(* so far, which is how the analyzer resolves it; evaluating a literal or  *)
(* an object expression makes new objects; operands are evaluated from     *)
(* left to right, an index before the value it selects from; `and' and     *)
(* `or' evaluate both operands.                                            *)
(*                                                                         *)
(* An evaluation is a function of the state before it, a record            *)
(*   heap, output   as in the virtual machine                              *)
(*   globals        the variables of the modules, by <<file, name>>        *)
(*   file           the module of the function that is evaluated           *)
(*   scopes         the variables of each of its open blocks               *)
(*   stop           "no", "return", or how the program ended               *)
(*   value          the value of the expression, or the one returned       *)
(***************************************************************************)
EXTENDS Values

\* The modules of a program, and the declaration a name of a module stands
\* for: its own, or that of the module the last use that provides it uses.
TLDs(module, rule) == {i \in DOMAIN module.code : module.code[i].rule = rule}
RECURSIVE ModulesOf(_)
ModulesOf(module) ==
  LET upto[i \in 0 .. Len(module.code)] ==
        IF i = 0 THEN <<module>>
        ELSE upto[i - 1] \o (IF i \in TLDs(module, "use") THEN ModulesOf(module.code[i].code)
                                                         ELSE <<>>)
  IN  upto[Len(module.code)]
Provides(tld, name) ==
  CASE tld.rule = "function" -> tld.name = name
    [] tld.rule = "class" -> FALSE
    [] tld.rule = "use" ->
         /\ name \in DOMAIN tld.code.block
         /\ IF tld.targets = <<>> THEN tld.code.block[name].exported
                                 ELSE name \in RangeOf(tld.targets)
Origin(module, name) ==
  LET providers == {i \in DOMAIN module.code : Provides(module.code[i], name)}
      tld == module.code[CHOOSE i \in providers : \A j \in providers : j <= i]
  IN  <<IF tld.rule = "use" THEN tld.code.file ELSE module.file, name>>

\* What is declared in a program, with what its names stand for.  A function
\* value is the <<file, function>> or <<file, class, method>> it names.
FunctionNamed(module, name) ==
  module.code[CHOOSE i \in TLDs(module, "function") : module.code[i].name = name]
ClassNamed(module, class) ==
  module.code[CHOOSE i \in TLDs(module, "class") : module.code[i].class = class]
World(main) ==
  LET modules == ModulesOf(main)
      ModuleAt(file) == modules[CHOOSE j \in DOMAIN modules : modules[j].file = file]
      functions == UNION {{<<modules[j].file, modules[j].code[i].name>> :
                             i \in TLDs(modules[j], "function")} : j \in DOMAIN modules}
      classes == UNION {{modules[j].code[i].class : i \in TLDs(modules[j], "class")} :
                          j \in DOMAIN modules}
      names == UNION {{modules[j].file} \X DOMAIN modules[j].block : j \in DOMAIN modules}
  IN  [functions |-> [k \in functions |-> FunctionNamed(ModuleAt(k[1]), k[2])],
       classes |-> [k \in classes |-> ClassNamed(ModuleAt(k[1]), k)],
       origin |-> [k \in names |-> Origin(ModuleAt(k[1]), k[2])]]

MethodNamed(w, class, name) ==
  LET methods == w.classes[class].methods
  IN  methods[CHOOSE i \in DOMAIN methods : methods[i].name = name]
PropertyNumber(w, class, name) ==
  LET props == w.classes[class].properties
  IN  (CHOOSE i \in DOMAIN props : props[i].name = name) - 1
Callee(w, f) ==
  IF Len(f.v) = 2 THEN w.functions[f.v] ELSE MethodNamed(w, <<f.v[1], f.v[2]>>, f.v[3])

Yields(st, x) == [st EXCEPT !.value = x]

\* The state after an operation of Values.
Done(st, outcome) ==
  CASE outcome.how = "value" -> Yields(st, outcome.value)
    [] outcome.how = "new" ->
         [st EXCEPT !.heap = @ \o outcome.objects,
            !.value = Make(outcome.type, Len(st.heap) + Len(outcome.objects))]
    [] outcome.how = "store" ->
         [st EXCEPT !.heap[outcome.address] = outcome.object]
    [] OTHER -> [st EXCEPT !.stop = outcome.how]

\* The innermost scope that has the name, or the module's.
LocalScopes(st, name) == {k \in DOMAIN st.scopes : name \in DOMAIN st.scopes[k]}
ScopeOf(st, name) == CHOOSE k \in LocalScopes(st, name) : \A l \in LocalScopes(st, name) : l <= k
Lookup(w, st, name) ==
  IF LocalScopes(st, name) = {} THEN st.globals[w.origin[<<st.file, name>>]]
  ELSE st.scopes[ScopeOf(st, name)][name]
Assigned(w, st, name, x) ==
  IF LocalScopes(st, name) = {} THEN [st EXCEPT !.globals[w.origin[<<st.file, name>>]] = x]
  ELSE [st EXCEPT !.scopes[ScopeOf(st, name)][name] = x]
Declared(st, name, x) ==
  [st EXCEPT !.scopes[Len(st.scopes)] =
     [n \in DOMAIN @ \cup {name} |-> IF n = name THEN x ELSE @[n]]]
Opened(st) == [st EXCEPT !.scopes = Append(@, [n \in {} |-> 0])]
Closed(st) == [st EXCEPT !.scopes = SubSeq(@, 1, Len(@) - 1)]

NewDefault(st, type) ==
  CASE type = "int" -> Yields(st, IntV(0))
    [] type = "float" -> Yields(st, FloatV(0))
    [] type = "bool" -> Yields(st, BoolV(FALSE))
    [] type = "string" -> Yields(st, StrV(<<>>))
    [] type = "fun" -> Yields(st, NullFun)
    [] type = "object" -> Yields(st, NullObject)
    [] type = "list" -> Done(st, Creates("list", << ListOf(<<>>) >>))
    [] type = "dict" ->
         Done(st, Creates("dict", << DictOf(<<>>, [k \in {} |-> 0]) >>))

-----------------------------------------------------------------------------
RECURSIVE Eval(_, _, _)
RECURSIVE Execute(_, _, _)

\* The values of the expressions es, and the state after them.
RECURSIVE EvalAll(_, _, _)
EvalAll(w, st, es) ==
  IF es = <<>> THEN [st |-> st, values |-> <<>>]
  ELSE LET x == Eval(w, st, es[1])
           rest == EvalAll(w, x, Tail(es))
       IN  [st |-> rest.st, values |-> <<x.value>> \o rest.values]

EvalObject(w, st, e) ==
  LET class == w.classes[e.class]
      n == Len(class.properties)
      new == Done(st, Creates("object", << ObjectOf(e.class, n) >>))
      self == new.value
      IsMethod(name) == \E i \in DOMAIN class.methods : class.methods[i].name = name
      Initial(s, p) ==
        LET name == class.properties[p].name
            given == {i \in DOMAIN e.arguments : e.arguments[i].name = name}
        IN  IF given # {}
              THEN Eval(w, s, e.arguments[CHOOSE i \in given :
                                            \A j \in given : i <= j].value)
            ELSE IF IsMethod(name)
              THEN Yields(s, Make("fun", e.class \o <<name>>))
            ELSE NewDefault(s, class.properties[p].type)
      upto[p \in 0 .. n] ==
        IF p = 0 THEN new
        ELSE LET x == Initial(upto[p - 1], p)
             IN  Done(x, PropSet(x.heap, p - 1, self, x.value))
  IN  Yields(upto[n], self)

Apply(w, st, f, arguments) ==
  IF f = NullFun THEN [st EXCEPT !.stop = "crashed"]
  ELSE LET fun == Callee(w, f)
           scope == [n \in RangeOf(fun.parameters) |->
                       arguments[CHOOSE i \in DOMAIN arguments :
                                   fun.parameters[i] = n]]
           end == Execute(w, [st EXCEPT !.file = f.v[1], !.scopes = <<scope>>], fun.body)
       IN  [end EXCEPT !.file = st.file, !.scopes = st.scopes,
                       !.stop = IF @ = "return" THEN "no" ELSE @]

EvalCall(w, st, e) ==
  LET t == IF e.is_method THEN Eval(w, st, e.target.object)
                          ELSE Eval(w, st, e.target)
      f == IF e.is_method
             THEN Done(t, PropGet(t.heap, t.value,
                            PropertyNumber(w, e.target.class, e.target.name)))
             ELSE t
      args == EvalAll(w, f, e.arguments)
  IN  IF args.st.stop # "no" THEN args.st
      ELSE Apply(w, args.st, f.value,
                 IF e.is_method THEN <<t.value>> \o args.values ELSE args.values)

\* Writes x to an expression that can be assigned, after its parts have been
\* evaluated to i (the index) and o (the object of a property).
StoreAccess(w, st, e, i, x) ==
  LET t == Eval(w, st, e.target)
      put == CASE e.kind = "S" -> StringSet(t.value, i, x)
               [] e.kind = "L" -> ListSet(t.heap, t.value, i, x)
               [] e.kind = "D" -> DictSet(t.heap, t.value, i, x)
  IN  Done(t, put)

RemoveAccess(w, st, e, i) ==
  LET t == Eval(w, st, e.target)
  IN  Done(t, CASE e.kind = "S" -> StringDelete(t.value, i)
                [] e.kind = "L" -> ListDelete(t.heap, t.value, i)
                [] e.kind = "D" -> DictDelete(t.heap, t.value, i))

\* A changed string goes back to the variable or the property it came from.
PutBack(w, st, e) ==
  IF e.kind # "S" \/ st.stop # "no" THEN st
  ELSE IF e.target.rule = "variable" THEN Assigned(w, st, e.target.name, st.value)
  ELSE IF e.target.rule = "property"
    THEN LET o == Eval(w, st, e.target.object)
         IN  Done(o, PropSet(o.heap, PropertyNumber(w, e.target.class,
                               e.target.name), o.value, st.value))
  ELSE st

EvalAssign(w, st, e) ==
  CASE e.target.rule = "variable" ->
         LET x == Eval(w, st, e.value)
         IN  Assigned(w, x, e.target.name, x.value)
    [] e.target.rule = "property" ->
         LET o == Eval(w, st, e.target.object)
             x == Eval(w, o, e.value)
         IN  Done(x, PropSet(x.heap, PropertyNumber(w, e.target.class,
                               e.target.name), o.value, x.value))
    [] e.target.rule = "access" ->
         LET i == Eval(w, st, e.target.index)
             x == Eval(w, i, e.value)
         IN  Yields(PutBack(w, StoreAccess(w, x, e.target, i.value, x.value),
                            e.target), x.value)

Eval(w, st, e) ==
  IF st.stop # "no" THEN st
  ELSE CASE e.rule = "integer" -> Yields(st, IntV(e.value))
         [] e.rule = "float" -> Yields(st, FloatV(e.value))
         [] e.rule = "string" -> Yields(st, StrV(e.value))
         [] e.rule = "boolean" -> Yields(st, BoolV(e.value))
         [] e.rule = "group" -> Eval(w, st, e.expression)
         [] e.rule = "list" ->
              LET xs == EvalAll(w, st, e.value)
              IN  Done(xs.st, Creates("list", << ListOf(xs.values) >>))
         [] e.rule = "dictionary" ->
              LET xs == EvalAll(w, st, e.value)
              IN  Done(xs.st, Creates("dict",
                    << DictOf(e.keys, [k \in RangeOf(e.keys) |->
                         xs.values[CHOOSE i \in DOMAIN e.keys :
                                     e.keys[i] = k]]) >>))
         [] e.rule = "object" -> EvalObject(w, st, e)
         [] e.rule = "variable" -> Yields(st, Lookup(w, st, e.name))
         [] e.rule = "assign" -> EvalAssign(w, st, e)
         [] e.rule = "call" -> EvalCall(w, st, e)
         [] e.rule \in {"cast", "unary"} ->
              LET x == Eval(w, st, e.right)
              IN  IF x.stop # "no" THEN x
                  ELSE Done(x, IF e.rule = "cast"
                                 THEN Cast(e.type, x.heap, x.value)
                                 ELSE Unary(e.type, x.heap, x.value))
         [] e.rule \in {"binary", "logical"} ->
              LET xs == EvalAll(w, st, << e.left, e.right >>)
              IN  IF xs.st.stop # "no" THEN xs.st
                  ELSE Done(xs.st, Binary(e.type, xs.st.heap,
                                          xs.values[1], xs.values[2]))
         [] e.rule = "range" ->
              LET xs == EvalAll(w, st, << e.start, e.end >>)
              IN  Done(xs.st, RangeOfInts(IF e.inclusive THEN <<"RANGEI">>
                                            ELSE <<"RANGEE">>,
                                          xs.values[1], xs.values[2]))
         [] e.rule = "access" ->
              LET xs == EvalAll(w, st, << e.index, e.target >>)
              IN  IF xs.st.stop # "no" THEN xs.st
                  ELSE Done(xs.st,
                    CASE e.kind = "S" -> StringGet(xs.values[2], xs.values[1])
                      [] e.kind = "L" ->
                           ListGet(xs.st.heap, xs.values[2], xs.values[1])
                      [] e.kind = "D" ->
                           DictGet(xs.st.heap, xs.values[2], xs.values[1]))
         [] e.rule = "property" ->
              LET o == Eval(w, st, e.object)
              IN  IF o.stop # "no" THEN o
                  ELSE Done(o, PropGet(o.heap, o.value,
                                       PropertyNumber(w, e.class, e.name)))
         \* Slices are not implemented.
         [] e.rule = "slice" -> [st EXCEPT !.stop = "crashed"]

-----------------------------------------------------------------------------
RECURSIVE Repeatedly(_, _, _)
Block(w, st, body) == Closed(Execute(w, Opened(st), body))

\* while
Repeatedly(w, st, s) ==
  LET c == Eval(w, st, s.condition)
  IN  IF c.stop # "no" \/ ~ c.value.v THEN c
      ELSE Repeatedly(w, Block(w, c, s.body), s)

\* for: element i of the iterator x, the key of element i, and the loop.
Element(st, s, x, i) ==
  CASE s.kind = "S" -> StrV(<< x.v[i + 1] >>)
    [] s.kind = "L" -> st.heap[x.v].items[i + 1]
    [] s.kind = "D" -> st.heap[x.v].values[st.heap[x.v].key_order[i + 1]]
Index(st, s, x, i) ==
  IF s.kind = "D" THEN StrV(st.heap[x.v].key_order[i + 1]) ELSE IntV(i)

RECURSIVE Over(_, _, _, _, _)
Over(w, st, s, x, i) ==
  IF st.stop # "no" \/ i >= Number(st.heap, x) THEN st
  ELSE LET el == Declared(Opened(st), s.variable, Element(st, s, x, i))
           ix == IF s.index = <<>> THEN el
                 ELSE Declared(el, s.index[1], Index(st, s, x, i))
       IN  Over(w, Closed(Execute(w, ix, s.body)), s, x, i + 1)

ExecuteOne(w, st, s) ==
  CASE s.rule = "print" ->
         LET x == Eval(w, st, s.expression)
         IN  IF x.stop # "no" THEN x
             ELSE IF ~ IsReadable(x.heap, x.value) THEN Done(x, Mistaken)
             ELSE [x EXCEPT !.output = Append(@, Text(x.heap, x.value))]
    [] s.rule = "expression" -> Eval(w, st, s.expression)
    [] s.rule = "declaration" ->
         LET x == IF s.initializer = <<>> THEN NewDefault(st, s.type[1].type)
                  ELSE Eval(w, st, s.initializer[1])
         IN  IF x.stop # "no" THEN x ELSE Declared(x, s.name, x.value)
    [] s.rule = "return" ->
         LET x == IF s.value = <<>> THEN st ELSE Eval(w, st, s.value[1])
         IN  IF x.stop # "no" THEN x ELSE [x EXCEPT !.stop = "return"]
    [] s.rule = "delete" ->
         LET i == Eval(w, st, s.target.index)
         IN  IF i.stop # "no" THEN i
             ELSE PutBack(w, RemoveAccess(w, i, s.target, i.value), s.target)
    [] s.rule = "if" ->
         LET c == Eval(w, st, s.condition)
         IN  IF c.stop # "no" THEN c
             ELSE Block(w, c, IF c.value.v THEN s.then_branch ELSE s.else_branch)
    [] s.rule = "while" -> Repeatedly(w, st, s)
    [] s.rule = "for" ->
         LET x == Eval(w, st, s.iterator)
         IN  IF x.stop # "no" THEN x ELSE Over(w, x, s, x.value, 0)

Execute(w, st, body) ==
  IF body = <<>> \/ st.stop # "no" THEN st
  ELSE Execute(w, ExecuteOne(w, st, body[1]), Tail(body))

\* The run of the main function of a program with the arguments argv.
Meaning(module, argv) ==
  LET w == World(module)
      start == [heap |-> << ListOf([i \in DOMAIN argv |-> StrV(argv[i])]) >>,
                output |-> <<>>, stop |-> "no", value |-> IntV(0), scopes |-> <<>>,
                globals |-> [k \in DOMAIN w.functions |-> Make("fun", k)],
                file |-> module.file]
      end == Apply(w, start, start.globals[w.origin[<<module.file, "main">>]],
                   << Make("list", 1) >>)
  IN  [output |-> end.output,
       end |-> IF end.stop = "no" THEN "exited" ELSE end.stop]
=============================================================================
