----------------------------- MODULE SyntaxTree ------------------------------
(***************************************************************************)
(* Constructors for types and for the syntax trees of modules: Type of     *)
(* Parser/include/type.hpp and the nodes of Parser/include/rules.hpp, as   *)
(* the parser makes them.  A statement or an expression is a record whose  *)
(* field rule names the kind of the node.  The text of a string and the    *)
(* key of a dictionary are sequences of character codes, names are         *)
(* strings, and a float is a whole number.                                 *)
(***************************************************************************)
EXTENDS Naturals, Sequences

\* Types.  What is optional is a sequence of at most one element.
TypeRecord(type, inner, class_name, parameters) ==
  [type |-> type, inner |-> inner, class_name |-> class_name, parameters |-> parameters]
SimpleType(type) == TypeRecord(type, <<>>, "", <<>>)
ObjectType(class_name) == TypeRecord("object", <<>>, class_name, <<>>)
NamedType(name) ==
  IF name \in {"int", "float", "bool", "string"} THEN SimpleType(name) ELSE ObjectType(name)
ListOfType(inner) == TypeRecord("list", <<inner>>, "", <<>>)
DictOfType(inner) == TypeRecord("dict", <<inner>>, "", <<>>)
FunctionType(parameters, inner) == TypeRecord("fun", inner, "", parameters)

IntType == SimpleType("int")
FloatType == SimpleType("float")
BoolType == SimpleType("bool")
TextType == SimpleType("string")

\* Expressions.
Num(n) == [rule |-> "integer", value |-> n]
Float(n) == [rule |-> "float", value |-> n]
Str(s) == [rule |-> "string", value |-> s]
Bool(b) == [rule |-> "boolean", value |-> b]
List(es) == [rule |-> "list", value |-> es]
\* The keys are different from each other.
Dict(keys, es) == [rule |-> "dictionary", keys |-> keys, value |-> es]
Argument(name, e) == [name |-> name, value |-> e]
Object(name, arguments) == [rule |-> "object", name |-> name, arguments |-> arguments]
Group(e) == [rule |-> "group", expression |-> e]
\* The type is optional: the parser lets one be left out.
CastAs(e, type) == [rule |-> "cast", expression |-> e, type |-> type]
CastTo(e, type) == CastAs(e, <<type>>)
Prefix(op, e) == [rule |-> "unary", op |-> op, right |-> e]
Infix(l, op, r) == [rule |-> "binary", op |-> op, left |-> l, right |-> r]
Logical(l, op, r) == [rule |-> "logical", op |-> op, left |-> l, right |-> r]
Var(name) == [rule |-> "variable", name |-> name]
Assign(target, e) == [rule |-> "assign", target |-> target, value |-> e]
ElementAt(target, index) == [rule |-> "access", target |-> target, index |-> index]
\* start, end and step are optional.
SliceOf(target, start, end, step) ==
  [rule |-> "slice", target |-> target, start |-> start, end |-> end, step |-> step]
RangeTo(start, end, inclusive) ==
  [rule |-> "range", start |-> start, end |-> end, inclusive |-> inclusive]
Prop(object, name) == [rule |-> "property", object |-> object, name |-> name]
CallTo(target, arguments) == [rule |-> "call", target |-> target, arguments |-> arguments]
CallOf(f, arguments) == CallTo(Var(f), arguments)
CallOn(object, f, arguments) == CallTo(Prop(object, f), arguments)

\* Statements.
Show(e) == [rule |-> "print", expression |-> e]
Do(e) == [rule |-> "expression", expression |-> e]
Declaration(name, type, initializer) ==
  [rule |-> "declaration", name |-> name, type |-> type, initializer |-> initializer]
Declare(name, e) == Declaration(name, <<>>, <<e>>)
DeclareTyped(name, type) == Declaration(name, <<type>>, <<>>)
ReturnOf(value) == [rule |-> "return", value |-> value]
ReturnValue(e) == ReturnOf(<<e>>)
ReturnNothing == ReturnOf(<<>>)
Erase(target) == [rule |-> "delete", target |-> target]
If(condition, then, else) ==
  [rule |-> "if", condition |-> condition, then_branch |-> then, else_branch |-> else]
While(condition, body) == [rule |-> "while", condition |-> condition, body |-> body]
\* index is optional.
For(variable, index, iterator, body) ==
  [rule |-> "for", variable |-> variable, index |-> index, iterator |-> iterator,
   body |-> body]

\* Declarations of a module.  The parameters are declarations, the result's
\* type is optional.
Function(name, parameters, result, body) ==
  [rule |-> "function", name |-> name, parameters |-> parameters, result |-> result,
   body |-> body]
Main(body) ==
  Function("main", << DeclareTyped("argv", ListOfType(TextType)) >>, <<>>, body)
Class(name, body) == [rule |-> "class", name |-> name, body |-> body]
Export(statement) == [rule |-> "export", statement |-> statement]
\* code is the parsed module.
Use(targets, module, code) ==
  [rule |-> "use", targets |-> targets, module |-> module, code |-> code]
=============================================================================
