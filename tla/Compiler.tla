------------------------------ MODULE Compiler ------------------------------
(***************************************************************************)
(* The compiler: Compiler/src/compiler.cpp.  A call of one of its methods  *)
(* is a function from the compiler's state before the call to the state    *)
(* after it, a record                                                      *)
(*   code, starts      the words so far, and the offsets of the opcodes    *)
(*   depth, pushed     for each word, and at the end of the code, how many *)
(*                     values the function has put on the operand stack    *)
(*                     and has not taken off                               *)
(*   constants, heap   the constant pool, and the objects in it            *)
(*   local             Compiler::local                                     *)
(*   dead_variables    with --linear-scan, registers to give back          *)
(*   blocks            Compiler::blocks: for each variable a block         *)
(*                     declares its register and its last_use, innermost   *)
(*                     block last                                          *)
(*   modules           the main block of each module, by its file          *)
(*   cleared           the modules whose code has been compiled            *)
(*   classes           for each class its properties, in register order,   *)
(*                     with their classes' constants (class_constant_pool) *)
(*   global, globals   the registers of main_frame and what they hold      *)
(* The syntax tree is the one Analyzer leaves: operators carry their       *)
(* opcode, blocks the names they declare with the mention that is the      *)
(* last_use of each (0 if there is none).                                  *)
(*                                                                         *)
(* starts, depth, pushed and what a function returns (gives) are kept here *)
(* to say what the machine depends on; the compiler has no such record.    *)
(* The source locations the compiler records are left out.                 *)
(***************************************************************************)
EXTENDS Values, FrameInfo, Evaluation, SequencesExt

CONSTANT LINEAR_SCAN   \* the option --linear-scan

\* Where an expression is to be compiled to (the arguments of compile).
Plain == [load_constant |-> TRUE, suggested |-> -1, assign |-> <<>>,
          object |-> FALSE, delete |-> FALSE]
AsConstant == [Plain EXCEPT !.load_constant = FALSE]
Into(r) == [Plain EXCEPT !.suggested = r]
WithObject == [Plain EXCEPT !.object = TRUE]
Assigning(e) == [Plain EXCEPT !.assign = <<e>>]
Deleting == [Plain EXCEPT !.delete = TRUE]

-----------------------------------------------------------------------------
\* Emission: add_opcodes for an instruction, or for an operand added later.

\* Statements begin with nothing pushed, what follows a return too.
PushedAfter(op, n) ==
  CASE op \in { <<"PUSH">>, <<"PUSH_C">> } -> n + 1
    [] op = <<"POP">> -> n - 1
    [] op = <<"RETURN">> -> 0
    [] OTHER -> n
Emit(cs, words) ==
  [cs EXCEPT !.code = @ \o words, !.starts = @ \cup {Len(cs.code)},
             !.depth = @ \o [k \in DOMAIN words |-> cs.pushed],
             !.pushed = PushedAfter(words[1], @)]
EmitOperand(cs, word) ==
  [cs EXCEPT !.code = Append(@, word), !.depth = Append(@, cs.pushed)]

AddConstant(cs, x) == [cs EXCEPT !.constants = Append(@, x)]
LastConstant(cs) == Len(cs.constants) - 1

Unpatched(cs, jump) == cs   \* mutant

\* The operand of the forward jump at offset jump: the distance to here.
Patched(cs, jump) == [cs EXCEPT !.code[jump + 2] = Len(cs.code) - jump]

\* Registers of the local frame.
Take(cs, protect) == [cs EXCEPT !.local = GetRegister(@, protect)]
Free(cs, r) == [cs EXCEPT !.local = FreeRegister(@, r, FALSE)]
ForceFree(cs, r) == [cs EXCEPT !.local = FreeRegister(@, r, TRUE)]

\* The result register: the suggested one, or a new one.
Result(cs, o) == IF o.suggested >= 0 THEN o.suggested ELSE NextRegister(cs.local)
Unreserved(cs, o) == cs   \* mutant
Reserve(cs, o) == IF o.suggested >= 0 THEN cs ELSE Take(cs, FALSE)

Dies(cs, r) == [cs EXCEPT !.dead_variables = IF LINEAR_SCAN THEN Append(@, r) ELSE @]

\* get_variable: the innermost block that declares the name.
BlockOf(cs, name) ==
  CHOOSE b \in DOMAIN cs.blocks :
    /\ name \in DOMAIN cs.blocks[b]
    /\ \A c \in DOMAIN cs.blocks : c > b => name \notin DOMAIN cs.blocks[c]
Variable(cs, name) == cs.blocks[BlockOf(cs, name)][name]
RegisterOf(cs, name) == Variable(cs, name).reg
IsGlobal(cs, name) == BlockOf(cs, name) = 1
SetRegisterOf(cs, name, r) == [cs EXCEPT !.blocks[BlockOf(cs, name)][name].reg = r]
IsUnused(cs, name) == Variable(cs, name).last = 0

\* A block the analyzer has left, before its variables get their registers.
Unregistered(block) == [n \in DOMAIN block |-> [reg |-> 0, last |-> block[n]]]
PushBlock(cs, block) == [cs EXCEPT !.blocks = Append(@, Unregistered(block))]
PopBlock(cs) == [cs EXCEPT !.blocks = SubSeq(@, 1, Len(@) - 1)]

\* Properties of a class: their registers and their constants.
PropertyIndex(cs, class, name) ==
  (CHOOSE i \in DOMAIN cs.classes[class] : cs.classes[class][i].name = name) - 1
PropertyConstant(cs, class, name) ==
  cs.classes[class][PropertyIndex(cs, class, name) + 1].constant

-----------------------------------------------------------------------------
\* Literals: is_constant, constant_list and constant_dict.

Scalars == {"integer", "float", "string", "boolean"}

RECURSIVE IsConstant(_)
IsConstant(e) ==
  \/ e.rule \in Scalars
  \/ e.rule \in {"list", "dictionary"} /\ \A i \in DOMAIN e.value : IsConstant(e.value[i])

\* A constant's value: the heap with the objects it needs, and the value.
\* (The keys of a dictionary come in the order the tree's unordered_map
\* yields them.)
RECURSIVE Literal(_, _)
RECURSIVE Literals(_, _)
Literal(heap, e) ==
  CASE e.rule = "integer" -> [heap |-> heap, value |-> IntV(e.value)]
    [] e.rule = "float" -> [heap |-> heap, value |-> FloatV(e.value)]
    [] e.rule = "string" -> [heap |-> heap, value |-> StrV(e.value)]
    [] e.rule = "boolean" -> [heap |-> heap, value |-> BoolV(e.value)]
    [] e.rule = "list" ->
         LET r == Literals(heap, e.value)
         IN  [heap |-> Append(r.heap, ListOf(r.values)),
              value |-> Make("list", Len(r.heap) + 1)]
    [] e.rule = "dictionary" ->
         LET r == Literals(heap, e.value)
         IN  [heap |-> Append(r.heap,
                         DictOf(e.keys, [k \in RangeOf(e.keys) |->
                           r.values[CHOOSE i \in DOMAIN e.keys : e.keys[i] = k]])),
              value |-> Make("dict", Len(r.heap) + 1)]
Literals(heap, es) ==
  IF es = <<>> THEN [heap |-> heap, values |-> <<>>]
  ELSE LET n == Len(es)
           r == Literals(heap, SubSeq(es, 1, n - 1))
           x == Literal(r.heap, es[n])
       IN  [heap |-> x.heap, values |-> Append(r.values, x.value)]

\* Value::build_from_type.
Default(heap, type) ==
  CASE type = "int" -> [heap |-> heap, value |-> IntV(0)]
    [] type = "float" -> [heap |-> heap, value |-> FloatV(0)]
    [] type = "bool" -> [heap |-> heap, value |-> BoolV(FALSE)]
    [] type = "string" -> [heap |-> heap, value |-> StrV(<<>>)]
    [] type = "fun" -> [heap |-> heap, value |-> NullFun]
    [] type = "object" -> [heap |-> heap, value |-> NullObject]
    [] type = "list" -> [heap |-> Append(heap, ListOf(<<>>)),
                         value |-> Make("list", Len(heap) + 1)]
    [] type = "dict" -> [heap |-> Append(heap, DictOf(<<>>, [k \in {} |-> 0])),
                         value |-> Make("dict", Len(heap) + 1)]

\* Mutant: the objects are not kept.
AddUnmade(cs, made) == AddConstant(cs, made.value)

\* A constant made of a heap and a value.
AddMade(cs, made) ==
  AddConstant([cs EXCEPT !.heap = made.heap], made.value)
EmitLiteral(cs, e) ==
  LET made == AddMade(cs, Literal(cs.heap, e))
  IN  EmitOperand(made, LastConstant(made))

-----------------------------------------------------------------------------
(***************************************************************************)
(* compile(Expression): the state after it and the result's register, and  *)
(* for a property the register of its object.                              *)
(***************************************************************************)
RECURSIVE Expression(_, _, _)
Returns(cs, r) == [cs |-> cs, reg |-> r, object |-> 0]
Value(cs, e) == Expression(cs, e, Plain)

CompileLiteral(cs, e, o) ==
  IF o.load_constant
    THEN LET r == Result(cs, o)
         IN  Returns(EmitLiteral(Emit(Reserve(cs, o), << <<"LOAD_C">>, r >>), e), r)
    ELSE Returns(EmitLiteral(cs, e), 0)

\* The elements of a list that is not constant are pushed one by one.
PushElement(cs, r, e) ==
  LET y == Value(cs, e)
  IN  IF IsConstant(e)
        THEN EmitLiteral(Emit(cs, << <<"LPUSH_C">>, r >>), e)
        ELSE Free(Emit(y.cs, << <<"LPUSH">>, r, y.reg >>), y.reg)

CompileList(cs, e, o) ==
  LET r == Result(cs, o)
      new == AddMade(Reserve(cs, o), Default(cs.heap, "list"))
      Add(s, element) == PushElement(s, r, element)
  IN  Returns(InTurn(Emit(new, << <<"LOAD_C">>, r, LastConstant(new) >>),
                     e.value, Add), r)

\* The key's constant index is given to DSET as a register, and so is that
\* of a constant value.
SetElement(cs, r, key, e) ==
  LET keyed == AddConstant(cs, StrV(key))
      k == LastConstant(keyed)
      y == Value(keyed, e)
  IN  IF IsConstant(e)
        THEN EmitLiteral(Emit(keyed, << <<"DSET">>, r, k >>), e)
        ELSE Free(Emit(y.cs, << <<"DSET">>, r, k, y.reg >>), y.reg)

CompileDictionary(cs, e, o) ==
  LET r == Result(cs, o)
      new == AddMade(Reserve(cs, o), Default(cs.heap, "dict"))
      Add(s, i) == SetElement(s, r, e.keys[i], e.value[i])
  IN  Returns(InTurn(Emit(new, << <<"LOAD_C">>, r, LastConstant(new) >>),
                     [i \in DOMAIN e.keys |-> i], Add), r)

\* An object starts as a copy of a constant; then each property is set, from
\* an argument or from the property's constant.
SetOneProperty(cs, r, e, p) ==
  LET name == cs.classes[e.class][p].name
      given == {i \in DOMAIN e.arguments : e.arguments[i].name = name}
      v == IF given # {}
             THEN Value(cs, e.arguments[CHOOSE i \in given :
                              \A j \in given : i <= j].value)
             ELSE Returns(Emit(Take(cs, FALSE),
                            << <<"LOAD_C">>, NextRegister(cs.local),
                               PropertyConstant(cs, e.class, name) >>),
                          NextRegister(cs.local))
  IN  Free(Emit(v.cs, << <<"SPROP">>, p - 1, r, v.reg >>), v.reg)

CompileObject(cs, e, o) ==
  LET r == Result(cs, o)
      new == AddConstant([cs EXCEPT !.heap =
                            Append(@, ObjectOf(e.class, Len(cs.classes[e.class])))],
                         Make("object", Len(cs.heap) + 1))
      loaded == Emit(Reserve(new, o), << <<"LOAD_C">>, r, LastConstant(new) >>)
      SetOne(s, p) == SetOneProperty(s, r, e, p)
  IN  Returns(InTurn(loaded, [p \in DOMAIN cs.classes[e.class] |-> p], SetOne), r)

\* Casts and unary operators: the operand is freed after the result is taken.
CompileUnary(cs, e, o) ==
  LET x == Value(cs, e.right)
      r == Result(x.cs, o)
  IN  Returns(Free(Emit(Reserve(x.cs, o), << e.type, r, x.reg >>), x.reg), r)

\* Mutant: the left operand is freed before the right one is compiled.
CompileBinaryFreed(cs, e, o) ==
  LET y == Value(cs, e.left)
      z == Value(Free(y.cs, y.reg), e.right)
      freed == Free(z.cs, z.reg)
      r == Result(freed, o)
  IN  Returns(Emit(Reserve(freed, o), << e.type, r, y.reg, z.reg >>), r)

\* The operands are freed before the result is taken; with --linear-scan the
\* register of a dead variable is given back first.
CompileBinary(cs, e, o) ==
  LET y == Value(cs, e.left)
      z == Value(y.cs, e.right)
      freed == Free(Free(z.cs, y.reg), z.reg)
      n == Len(freed.dead_variables)
      ready == IF o.suggested < 0 /\ n > 0
                 THEN [ForceFree(freed, freed.dead_variables[n])
                         EXCEPT !.dead_variables = SubSeq(@, 1, n - 1)]
                 ELSE freed
      r == Result(ready, o)
  IN  Returns(Emit(Reserve(ready, o), << e.type, r, y.reg, z.reg >>), r)

CompileVariable(cs, e, o) ==
  LET v == RegisterOf(cs, e.name)
      r == IF IsGlobal(cs, e.name) \/ o.suggested >= 0 THEN Result(cs, o) ELSE v
      done == CASE IsGlobal(cs, e.name) ->
                     Emit(Reserve(cs, o), << <<"LOAD_G">>, r, v >>)
                [] ~ IsGlobal(cs, e.name) /\ o.suggested >= 0 ->
                     Emit(cs, << <<"MOVE">>, r, v >>)
                [] OTHER -> cs
      \* Given a suggested register, compile moves there and returns 0.
  IN  Returns(IF Variable(cs, e.name).last = e.id THEN Dies(done, v) ELSE done,
              IF ~ IsGlobal(cs, e.name) /\ o.suggested >= 0 THEN 0 ELSE r)

\* The value first, then the target, whose register is written.
CompileAssign(cs, e) ==
  LET v == Value(cs, e.value)
      t == Value(v.cs, e.target)
      global == e.target.rule = "variable" /\ IsGlobal(cs, e.target.name)
  IN  IF e.target.rule \in {"access", "property"}
        THEN Returns(Expression(cs, e.target, Assigning(e.value)).cs,
                     Expression(cs, e.target, Assigning(e.value)).reg)
        ELSE Returns(Free(Emit(t.cs, << IF global THEN <<"SET_G">> ELSE <<"MOVE">>,
                                        t.reg, v.reg >>), t.reg), v.reg)

\* The result is taken before the operands; both are always evaluated.
CompileLogical(cs, e, o) ==
  LET r == Result(cs, o)
      y == Value(Reserve(cs, o), e.left)
      z == Value(y.cs, e.right)
  IN  Returns(Free(Free(Emit(z.cs, << e.type, r, y.reg, z.reg >>), y.reg),
                   z.reg), r)

\* An argument, or the value of a return: constants are not loaded first.
PushValue(cs, e) ==
  LET x == Value(cs, e)
  IN  IF IsConstant(e)
        THEN EmitLiteral(Emit(cs, << <<"PUSH_C">> >>), e)
        ELSE Free(Emit(x.cs, << <<"PUSH">>, x.reg >>), x.reg)

\* Mutant: a method is called without its object.
CallWithoutSelf(cs, e, o) ==
  LET t == Expression(cs, e.target, IF e.is_method THEN WithObject ELSE Plain)
      self == IF e.is_method THEN Free(t.cs, t.object) ELSE t.cs
      called == Free([Emit(InTurn(self, e.arguments, PushValue), << <<"CALL">>, t.reg >>)
                        EXCEPT !.pushed = t.cs.pushed + (IF e.has_return THEN 1 ELSE 0)],
                     t.reg)
      r == Result(called, o)
  IN  IF e.has_return
        THEN Returns(Emit(Reserve(called, o), << <<"POP">>, r >>), r)
        ELSE Returns(called, 0)

\* What follows the call counts on its result, or on nothing, being left.
CompileCall(cs, e, o) ==
  LET t == Expression(cs, e.target, IF e.is_method THEN WithObject ELSE Plain)
      self == IF e.is_method
                THEN Free(Emit(t.cs, << <<"PUSH">>, t.object >>), t.object)
                ELSE t.cs
      called == Free([Emit(InTurn(self, e.arguments, PushValue), << <<"CALL">>, t.reg >>)
                        EXCEPT !.pushed = t.cs.pushed + (IF e.has_return THEN 1 ELSE 0)],
                     t.reg)
      r == Result(called, o)
  IN  IF e.has_return
        THEN Returns(Emit(Reserve(called, o), << <<"POP">>, r >>), r)
        ELSE Returns(called, 0)

-----------------------------------------------------------------------------
\* Element access: e.kind is "S", "L" or "D" for strings, lists, dictionaries.

AccessOp(kind, what) ==
  CASE kind = "S" /\ what = "GET" -> <<"SGET">>
    [] kind = "S" /\ what = "SET" -> <<"SSET">>
    [] kind = "S" /\ what = "DELETE" -> <<"SDELETE">>
    [] kind = "L" /\ what = "GET" -> <<"LGET">>
    [] kind = "L" /\ what = "SET" -> <<"LSET">>
    [] kind = "L" /\ what = "DELETE" -> <<"LDELETE">>
    [] kind = "D" /\ what = "GET" -> <<"DGET">>
    [] kind = "D" /\ what = "SET" -> <<"DSET">>
    [] kind = "D" /\ what = "DELETE" -> <<"DDELETE">>

\* A string that is a property is a copy: it is written back.
WriteBack(cs, target, t) ==
  IF target.rule # "property" THEN cs
  ELSE Free(Emit(cs, << <<"SPROP">>, PropertyIndex(cs, target.class, target.name),
                        t.object, t.reg >>), t.object)

\* The index is compiled first, then the target, then an assigned value.
CompileAccess(cs, e, o) ==
  LET i == Value(cs, e.index)
      changes == o.delete \/ o.assign # <<>>
      t == Expression(i.cs, e.target,
             IF changes /\ e.target.rule = "property" THEN WithObject ELSE Plain)
      v == Value(t.cs, o.assign[1])
      Done(s) == Free(Free(s, t.reg), i.reg)
      r == Result(t.cs, o)
  IN  IF o.delete
        THEN Returns(Done(WriteBack(
               Emit(t.cs, << AccessOp(e.kind, "DELETE"), t.reg, i.reg >>),
               e.target, t)), 0)
      ELSE IF o.assign # <<>>
        THEN Returns(Done(WriteBack(
               Emit(v.cs, << AccessOp(e.kind, "SET"), t.reg, i.reg, v.reg >>),
               e.target, t)), v.reg)
      ELSE Returns(Done(Emit(Reserve(t.cs, o),
               << AccessOp(e.kind, "GET"), r, t.reg, i.reg >>)), r)

\* A bound that is not written is a loaded constant; a missing end has no
\* register, and 0 is freed in its stead.
SliceBound(cs, e, n) ==
  IF e # <<>> THEN Value(cs, e[1])
  ELSE LET r == NextRegister(cs.local)
           c == AddConstant(Take(cs, FALSE), IntV(n))
       IN  Returns(Emit(c, << <<"LOAD_C">>, r, LastConstant(c) >>), r)

CompileSlice(cs, e, o) ==
  LET start == SliceBound(cs, e.start, 0)
      end == IF e.end = <<>> THEN Returns(start.cs, 0)
             ELSE Value(start.cs, e.end[1])
      step == SliceBound(end.cs, e.step, 1)
      x == Value(step.cs, e.target)
      r == Result(x.cs, o)
      words == IF e.end = <<>>
                 THEN << IF e.kind = "L" THEN <<"LSLICEE">> ELSE <<"SSLICEE">>,
                         r, x.reg, start.reg, step.reg >>
                 ELSE << IF e.kind = "L" THEN <<"LSLICE">> ELSE <<"SSLICE">>,
                         r, x.reg, start.reg, end.reg, step.reg >>
  IN  Returns(Free(Free(Free(Free(Emit(Reserve(x.cs, o), words),
                start.reg), end.reg), step.reg), x.reg), r)

CompileRange(cs, e, o) ==
  LET x == Value(cs, e.start)
      y == Value(x.cs, e.end)
      r == Result(y.cs, o)
  IN  Returns(Free(Free(Emit(Reserve(y.cs, o),
                << IF e.inclusive THEN <<"RANGEI">> ELSE <<"RANGEE">>,
                   r, x.reg, y.reg >>), x.reg), y.reg), r)

\* The object's register is left to a caller that asks for it.
CompileProperty(cs, e, o) ==
  LET y == Value(cs, e.object)
      v == Value(y.cs, o.assign[1])
      p == PropertyIndex(cs, e.class, e.name)
      r == Result(y.cs, o)
      done == IF o.assign # <<>>
                THEN Returns(Emit(v.cs, << <<"SPROP">>, p, y.reg, v.reg >>), v.reg)
                ELSE Returns(Emit(Reserve(y.cs, o), << <<"LPROP">>, r, y.reg, p >>), r)
  IN  [cs |-> IF o.object THEN done.cs ELSE Free(done.cs, y.reg),
       reg |-> done.reg, object |-> y.reg]

Expression(cs, e, o) ==
  CASE IsConstant(e) -> CompileLiteral(cs, e, o)
    [] ~ IsConstant(e) /\ e.rule = "list" -> CompileList(cs, e, o)
    [] ~ IsConstant(e) /\ e.rule = "dictionary" -> CompileDictionary(cs, e, o)
    [] e.rule = "object" -> CompileObject(cs, e, o)
    [] e.rule = "group" ->
         LET x == Expression(cs, e.expression,
                    [Plain EXCEPT !.load_constant = o.load_constant,
                                  !.suggested = o.suggested])
         IN  Returns(x.cs, x.reg)
    [] e.rule \in {"cast", "unary"} -> CompileUnary(cs, e, o)
    [] e.rule = "binary" -> CompileBinary(cs, e, o)
    [] e.rule = "variable" -> CompileVariable(cs, e, o)
    [] e.rule = "assign" -> CompileAssign(cs, e)
    [] e.rule = "logical" -> CompileLogical(cs, e, o)
    [] e.rule = "call" -> CompileCall(cs, e, o)
    [] e.rule = "access" -> CompileAccess(cs, e, o)
    [] e.rule = "slice" -> CompileSlice(cs, e, o)
    [] e.rule = "range" -> CompileRange(cs, e, o)
    [] e.rule = "property" -> CompileProperty(cs, e, o)

-----------------------------------------------------------------------------
\* compile(Statement).

RECURSIVE Statement(_, _)
Statements(cs, body) == InTurn(cs, body, Statement)

CompilePrint(cs, s) ==
  LET x == Value(cs, s.expression)
  IN  IF IsConstant(s.expression)
        THEN EmitLiteral(Emit(cs, << <<"PRINT_C">> >>), s.expression)
        ELSE Free(Emit(x.cs, << <<"PRINT">>, x.reg >>), x.reg)

\* The variable has its register before its initializer is compiled.
CompileDeclaration(cs, s) ==
  LET r == NextRegister(cs.local)
      declared == SetRegisterOf(Take(cs, TRUE), s.name, r)
      default == AddMade(declared, Default(declared.heap, s.type[1].type))
      done == IF s.initializer # <<>>
                THEN Expression(declared, s.initializer[1], Into(r)).cs
                ELSE Emit(default, << <<"LOAD_C">>, r, LastConstant(default) >>)
  IN  IF IsUnused(declared, s.name) THEN Dies(done, r) ELSE done

\* Mutant: the value is pushed after the return.
ReturnFirst(cs, s) ==
  LET returned == Emit(cs, << <<"RETURN">> >>)
  IN  IF s.value = <<>> THEN returned ELSE PushValue(returned, s.value[1])

CompileReturn(cs, s) ==
  Emit(IF s.value = <<>> THEN cs ELSE PushValue(cs, s.value[1]),
       << <<"RETURN">> >>)

\* The condition's register is not given back.
CompileIf(cs, s) ==
  LET x == Value(cs, s.condition)
      jump == Len(x.cs.code)
      then == PopBlock(Statements(PushBlock(
                Emit(x.cs, << <<"CFNJUMP">>, 0, x.reg >>), s.then_block),
                s.then_branch))
      skip == Len(then.code)
      else == PopBlock(Statements(PushBlock(
                Patched(Emit(then, << <<"FJUMP">>, 0 >>), jump), s.else_block),
                s.else_branch))
  IN  IF s.else_branch = <<>> THEN Patched(then, jump) ELSE Patched(else, skip)

\* The end of a loop: back to start, and the exit jump comes here.
Looped(cs, start, jump) ==
  Patched(Emit(cs, << <<"BJUMP">>, Len(cs.code) - start >>), jump)

CompileWhile(cs, s) ==
  LET x == Value(cs, s.condition)
      tested == Free(Emit(x.cs, << <<"CFNJUMP">>, 0, x.reg >>), x.reg)
      body == Statements(PushBlock(tested, s.block), s.body)
  IN  PopBlock(Looped(body, Len(cs.code), Len(x.cs.code)))

(***************************************************************************)
(* A `for' keeps the index, the key (of a dictionary) and the element in   *)
(* protected registers, which it gives back at its end.  The iterator is   *)
(* evaluated once, its length at each iteration.                           *)
(***************************************************************************)
LengthOp(kind) ==
  CASE kind = "S" -> <<"CAST", "string", "int">>
    [] kind = "L" -> <<"CAST", "list", "int">>
    [] kind = "D" -> <<"CAST", "dict", "int">>

CompileFor(cs, s) ==
  LET keyed == s.kind = "D"
      i == NextRegister(cs.local)
      c1 == Take(cs, TRUE)
      key == IF keyed THEN NextRegister(c1.local) ELSE 0
      c2 == IF keyed THEN Take(c1, TRUE) ELSE c1
      el == NextRegister(c2.local)
      zero == AddConstant(Take(c2, TRUE), IntV(0))
      iter == Value(Emit(zero, << <<"LOAD_C">>, i, LastConstant(zero) >>),
                    s.iterator)
      start == Len(iter.cs.code)
      named == SetRegisterOf(PushBlock(iter.cs, s.block), s.variable, el)
      ready == IF s.index = <<>> THEN named
               ELSE SetRegisterOf(named, s.index[1], IF keyed THEN key ELSE i)
      len == NextRegister(ready.local)
      c3 == Emit(Take(ready, FALSE), << LengthOp(s.kind), len, iter.reg >>)
      more == NextRegister(c3.local)
      c4 == Free(Emit(Take(c3, FALSE), << <<"LT", "int">>, more, i, len >>), len)
      jump == Len(c4.code)
      c5 == Free(Emit(c4, << <<"CFNJUMP">>, 0, more >>), more)
      c6 == IF keyed THEN Emit(c5, << <<"DKEY">>, key, iter.reg, i >>) ELSE c5
      c7 == Emit(c6, << AccessOp(s.kind, "GET"), el, iter.reg,
                        IF keyed THEN key ELSE i >>)
      body == Emit(Statements(c7, s.body), << <<"IINC">>, i >>)
      c8 == ForceFree(Looped(body, start, jump), i)
      c9 == IF keyed THEN ForceFree(c8, key) ELSE c8
  IN  PopBlock(Free(ForceFree(c9, el), iter.reg))

\* With --linear-scan, the registers of dead variables are given back after
\* each statement, and forgotten at the beginning of a function.
RECURSIVE Bury(_)
Bury(cs) ==
  LET n == Len(cs.dead_variables)
  IN  IF n = 0 THEN cs
      ELSE Bury([ForceFree(cs, cs.dead_variables[n])
                   EXCEPT !.dead_variables = SubSeq(@, 1, n - 1)])

Statement(before, s) ==
  LET cs == IF before.local.current_register = 0
              THEN [before EXCEPT !.dead_variables = <<>>] ELSE before
  IN  Bury(CASE s.rule = "print" -> CompilePrint(cs, s)
             [] s.rule = "expression" -> Value(cs, s.expression).cs
             [] s.rule = "declaration" -> CompileDeclaration(cs, s)
             [] s.rule = "return" -> CompileReturn(cs, s)
             [] s.rule = "delete" -> Expression(cs, s.target, Deleting).cs
             [] s.rule = "if" -> CompileIf(cs, s)
             [] s.rule = "while" -> CompileWhile(cs, s)
             [] s.rule = "for" -> CompileFor(cs, s))

-----------------------------------------------------------------------------
\* Functions and modules.

\* compile_function pops the parameters, the last one first.

PopParameter(cs, name) ==
  LET r == NextRegister(cs.local)
      popped == Emit(SetRegisterOf(Take(cs, TRUE), name, r), << <<"POP">>, r >>)
  IN  IF IsUnused(popped, name) THEN Dies(popped, r) ELSE popped

\* Mutant: the loop ends before the first parameter.
PopAllButFirst(cs, f) ==
  InTurn(cs, Reverse(SubSeq(f.parameters, 2, Len(f.parameters))), PopParameter)

PopParameters(cs, f) ==
  InTurn(cs, Reverse(f.parameters), PopParameter)

\* The state after the function, and the function's value.
CompileFunction(cs, f) ==
  LET called == [cs EXCEPT !.pushed = Len(f.parameters)]
      body == PopBlock(Statements(PopParameters(PushBlock(called, f.block), f), f.body))
      regs == body.local.current_register
      Known(old, new) == [i \in body.starts |-> IF i \in DOMAIN old THEN old[i] ELSE new]
  IN  [cs |-> [body EXCEPT !.local = NewFrameInfo, !.size = Known(@, regs),
                           !.gives = Known(@, IF f.returns THEN 1 ELSE 0)],
       value |-> FunV(Len(cs.code), regs)]

(***************************************************************************)
(* register_tld: constants for the properties of a module's classes and    *)
(* registers of main_frame for its functions, then for those of the        *)
(* modules it uses that have none yet; the targets of a use have the       *)
(* registers they have in the module used.                                 *)
(***************************************************************************)
RegisterClass(cs, c) ==
  LET AddProperty(s, property) ==
        LET made == AddMade(s, Default(s.heap, property.type))
        IN  [made EXCEPT !.classes[c.class] =
               Append(@, [name |-> property.name, constant |-> LastConstant(made)])]
  IN  InTurn([cs EXCEPT !.classes = [k \in DOMAIN @ \cup {c.class} |->
                                       IF k = c.class THEN <<>> ELSE @[k]]],
             c.properties, AddProperty)

RegisterFunction(cs, file, f) ==
  [cs EXCEPT !.global = GetRegister(@, TRUE),
             !.modules[file][f.name].reg = NextRegister(cs.global)]

UsesOf(module) == SelectSeq(module.code, LAMBDA tld : tld.rule = "use")

RegisterTargets(cs, file, use) ==
  LET used == cs.modules[use.code.file]
      Target(name) == \E i \in DOMAIN use.targets : use.targets[i] = name
  IN  [cs EXCEPT !.modules[file] =
         [n \in DOMAIN @ |-> IF Target(n) /\ n \in DOMAIN used
                               THEN [@[n] EXCEPT !.reg = used[n].reg] ELSE @[n]]]

RECURSIVE RegisterModule(_, _)
RegisterModule(cs, module) ==
  LET file == module.file
      block == Unregistered([n \in DOMAIN module.block |-> module.block[n].last])
      added == [cs EXCEPT !.modules = [k \in DOMAIN @ \cup {file} |->
                                         IF k = file THEN block ELSE @[k]]]
      Own(s, tld) == CASE tld.rule = "class" -> RegisterClass(s, tld)
                       [] tld.rule = "function" -> RegisterFunction(s, file, tld)
                       [] tld.rule = "use" -> s
      New(s, used) == IF used.file \in DOMAIN s.modules THEN s ELSE RegisterModule(s, used)
      Used(s, use) == RegisterTargets(New(s, use.code), file, use)
  IN  InTurn(InTurn(added, module.code, Own), UsesOf(module), Used)

(***************************************************************************)
(* compile_module: a method replaces its property's constant, a function   *)
(* goes to its register of main_frame; the modules used come after.  The   *)
(* code of a module is cleared when it has been compiled.                  *)
(***************************************************************************)
CompileMethod(cs, class, method) ==
  LET f == CompileFunction(cs, method)
  IN  [f.cs EXCEPT !.constants[PropertyConstant(f.cs, class, method.name) + 1] =
                     f.value]

CompileTLD(cs, tld) ==
  CASE tld.rule = "function" ->
         LET f == CompileFunction(cs, tld)
         IN  [f.cs EXCEPT !.globals[RegisterOf(cs, tld.name)] = f.value]
    [] tld.rule = "class" ->
         LET OneMore(s, method) == CompileMethod(s, tld.class, method)
         IN  InTurn(cs, tld.methods, OneMore)
    [] tld.rule = "use" -> cs

RECURSIVE CompileModule(_, _)
CompileModule(cs, module) ==
  LET own == InTurn([cs EXCEPT !.blocks = <<cs.modules[module.file]>>], module.code, CompileTLD)
      Used(s, use) == CompileModule(s, use.code)
      cleared == [PopBlock(own) EXCEPT !.cleared = @ \cup {module.file}]
  IN  IF module.file \in cs.cleared THEN cs ELSE InTurn(cleared, UsesOf(module), Used)

EmptyState ==
  [code |-> <<>>, starts |-> {}, depth |-> <<>>, pushed |-> 0,
   size |-> [i \in {} |-> 0], gives |-> [i \in {} |-> 0],
   constants |-> <<>>, heap |-> <<>>, local |-> NewFrameInfo,
   global |-> NewFrameInfo, dead_variables |-> <<>>, blocks |-> <<>>,
   modules |-> [k \in {} |-> 0], cleared |-> {}, classes |-> [c \in {} |-> <<>>],
   globals |-> [r \in {} |-> 0]]

FromZero(s) == [i \in 0 .. Len(s) - 1 |-> s[i + 1]]

\* compile(file), after the analysis: the program the virtual machine runs.
Compile(module) ==
  LET known == RegisterModule(EmptyState, module)
      sized == [known EXCEPT !.globals =
                  [r \in 0 .. known.global.current_register - 1 |-> IntV(0)]]
      done == Emit([CompileModule(sized, module) EXCEPT !.pushed = 0], << <<"EXIT">> >>)
      OrNone(known_at) ==
        [i \in done.starts |-> IF i \in DOMAIN known_at THEN known_at[i] ELSE 0]
  IN  [code |-> FromZero(done.code), starts |-> done.starts,
       depth |-> FromZero(done.depth), size |-> OrNone(done.size),
       gives |-> OrNone(done.gives),
       constants |-> FromZero(done.constants), globals |-> done.globals,
       heap |-> done.heap, main |-> done.modules[module.file]["main"].reg]
=============================================================================
