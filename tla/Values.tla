------------------------------- MODULE Values -------------------------------
(***************************************************************************)
(* Run time values of a Nuua program and the operations of the virtual     *)
(* machine on them: Compiler/src/value.cpp and the data instructions of    *)
(* VirtualMachine::run (Virtual-Machine/src/virtual_machine.cpp).          *)
(*                                                                         *)
(* A value has a type tag (Value::type, of which only the ValueType is     *)
(* kept) and a variant (Value::value), and the code reads sometimes the    *)
(* one and sometimes the other: GETV throws when the variant is not the    *)
(* one asked for, while to_string and same_as look at the tag.             *)
(*                                                                         *)
(* Lists, dictionaries and objects are held by shared_ptr: the value is an *)
(* address in the heap, a sequence of objects, and a copy shares it.       *)
(* A string is the sequence of its character codes.  Floats are kept only  *)
(* where they are integral, and integers do not overflow.                  *)
(***************************************************************************)
EXTENDS Integers, Sequences, FiniteSets

\* Value::Value for each kind of value; the null address is 0.
Make(t, x) == [type |-> t, is |-> t, v |-> x]
IntV(n) == Make("int", n)
FloatV(n) == Make("float", n)
BoolV(b) == Make("bool", b)
StrV(s) == Make("string", s)
FunV(index, registers) == Make("fun", <<index, registers>>)
NullFun == Make("fun", <<>>)
NullObject == Make("object", 0)

ListOf(items) == [items |-> items]
DictOf(order, vals) == [key_order |-> order, values |-> vals]
\* A ValueObject starts with default registers.
ObjectOf(class, n) ==
  [class |-> class, registers |-> [p \in 0 .. n - 1 |-> IntV(0)]]

RangeOf(f) == {f[i] : i \in DOMAIN f}

\* What an object may be, and the values in it.
IsList(o) == DOMAIN o = {"items"} /\ o.items \in Seq(RangeOf(o.items))
IsDict(o) == DOMAIN o = {"key_order", "values"} /\ o.key_order \in Seq(Seq(Nat))
IsObject(o) ==
  /\ DOMAIN o = {"class", "registers"}
  /\ IsFiniteSet(DOMAIN o.registers)
  /\ DOMAIN o.registers = 0 .. Cardinality(DOMAIN o.registers) - 1
ValuesIn(o) ==
  IF IsList(o) THEN RangeOf(o.items)
  ELSE IF IsDict(o) THEN RangeOf(o.values) ELSE RangeOf(o.registers)

-----------------------------------------------------------------------------
(***************************************************************************)
(* Value::to_string.  It descends into the objects a value refers to; the  *)
(* descent is cut after as many levels as the heap has objects (on a cycle *)
(* of objects the code does not return).                                   *)
(***************************************************************************)
Decimal(n) ==
  LET digits[k \in Nat] ==
        IF k < 10 THEN <<48 + k>> ELSE digits[k \div 10] \o <<48 + (k % 10)>>
  IN  IF n < 0 THEN <<45>> \o digits[-n] ELSE digits[n]

Enclosed(open, texts, close) ==
  LET upto[i \in 0 .. Len(texts)] ==
        IF i = 0 THEN <<>>
        ELSE upto[i - 1] \o (IF i = 1 THEN <<>> ELSE <<44, 32>>) \o texts[i]
  IN  <<open>> \o upto[Len(texts)] \o <<close>>

TextWith(texts, x) ==
  CASE x.type \in {"int", "float"} ->
         Decimal(x.v) \o (IF x.type = "int" THEN <<>> ELSE <<46, 48>>)
    [] x.type = "bool" -> IF x.v THEN <<116>> ELSE <<102>>
    [] x.type = "string" -> x.v
    [] x.type = "fun" -> <<40, 41>>
    [] x.type = "object" /\ x.v = 0 -> <<60, 62>>
    [] OTHER -> texts[x.v]

\* An unordered_map yields its keys in an order of its own, taken to be that
\* in which they were inserted.
ObjectText(texts, o) ==
  CASE "items" \in DOMAIN o ->
         Enclosed(91, [i \in DOMAIN o.items |-> TextWith(texts, o.items[i])], 93)
    [] "key_order" \in DOMAIN o ->
         Enclosed(123,
                  [i \in DOMAIN o.key_order |->
                     o.key_order[i] \o <<58>>
                       \o TextWith(texts, o.values[o.key_order[i]])], 125)
    [] OTHER ->
         Enclosed(123,
                  [i \in 1 .. Cardinality(DOMAIN o.registers) |->
                     TextWith(texts, o.registers[i - 1])], 125)

Text(heap, x) ==
  LET texts[n \in 0 .. Len(heap)] ==
        [a \in DOMAIN heap |->
           IF n = 0 THEN <<>> ELSE ObjectText(texts[n - 1], heap[a])]
  IN  TextWith(texts[Len(heap)], x)

\* GETV reads what the tag names, of the value and of all that it refers to;
\* the text of a function is that of its type.
ReadableWith(readable, x) ==
  /\ x.type \in {x.is, "fun"}
  /\ x.type \in {"list", "dict", "object"} /\ x.v # 0 => readable[x.v]

IsReadable(heap, x) ==
  LET readable[n \in 0 .. Len(heap)] ==
        [a \in DOMAIN heap |->
           n = 0 \/ \A y \in ValuesIn(heap[a]) : ReadableWith(readable[n - 1], y)]
  IN  ReadableWith(readable[Len(heap)], x)

(***************************************************************************)
(* Value::same_as: "same" or "different", "mistaken" where GETV is asked   *)
(* for another variant than there is, and "undefined" where the address of *)
(* an object is followed that is not there, or where the descent does not  *)
(* end: it then comes to a pair of objects again.  Of the types only the   *)
(* tags are compared, which lead to objects of one kind; of an object that *)
(* is not there the class is not kept, nor the type of a function.         *)
(***************************************************************************)
Verdict(alike) == IF alike THEN "same" ELSE "different"

SameWith(same, x, y) ==
  IF x.type # y.type THEN "different"
  ELSE IF x.type \in {"int", "float", "bool", "string"} THEN Verdict(x.is = y.is /\ x.v = y.v)
  ELSE IF x.is # x.type \/ y.is # y.type THEN "mistaken"
  ELSE IF x.type = "fun" THEN Verdict(x.v = y.v)
  ELSE IF x.v = 0 \/ y.v = 0 THEN "undefined"
  ELSE same[x.v][y.v]

\* Elements are compared in order, up to the first that are not the same.
FirstUnlike(verdicts) ==
  LET unlike == {u \in {<<i, verdicts[i]>> : i \in DOMAIN verdicts} : u[2] # "same"}
  IN  IF unlike = {} THEN "same"
      ELSE (CHOOSE u \in unlike : \A w \in unlike : u[1] <= w[1])[2]

SameObjects(same, o, p) ==
  IF DOMAIN o # DOMAIN p THEN "different"
  ELSE CASE "items" \in DOMAIN o ->
              IF Len(o.items) # Len(p.items) THEN "different"
              ELSE FirstUnlike([i \in DOMAIN o.items |->
                                  SameWith(same, o.items[i], p.items[i])])
         [] "key_order" \in DOMAIN o ->
              IF Cardinality(DOMAIN o.values) # Cardinality(DOMAIN p.values) THEN "different"
              ELSE FirstUnlike([i \in DOMAIN o.key_order |->
                     IF o.key_order[i] \notin DOMAIN p.values THEN "different"
                     ELSE SameWith(same, o.values[o.key_order[i]], p.values[o.key_order[i]])])
         [] OTHER ->
              IF o.class # p.class \/ DOMAIN o.registers # DOMAIN p.registers THEN "different"
              ELSE FirstUnlike([i \in 1 .. Cardinality(DOMAIN o.registers) |->
                                  SameWith(same, o.registers[i - 1], p.registers[i - 1])])

SameAs(heap, x, y) ==
  LET pairs == (DOMAIN heap) \X (DOMAIN heap)
      same[met \in SUBSET pairs] ==
        [a \in DOMAIN heap |-> [b \in DOMAIN heap |->
           IF <<a, b>> \in met THEN "undefined"
           ELSE SameObjects(same[met \cup {<<a, b>>}], heap[a], heap[b])]]
  IN  SameWith(same[{}], x, y)

-----------------------------------------------------------------------------
(***************************************************************************)
(* How an instruction ends: with a value for its destination register;     *)
(* with new objects, the last of them for that register; with a new        *)
(* content of an object; with a report and exit(); with an exception that  *)
(* nobody catches, of a container or of a variant that holds a value of    *)
(* another type; or in undefined behaviour.                                *)
(***************************************************************************)
Gives(x) == [how |-> "value", value |-> x]
Creates(t, objects) == [how |-> "new", type |-> t, objects |-> objects]
Stores(address, o) == [how |-> "store", address |-> address, object |-> o]
Crashes == [how |-> "crashed"]
Throws == [how |-> "aborted"]
Mistaken == [how |-> "mistaken"]
Undefined == [how |-> "undefined"]

GivesText(heap, x) ==
  IF IsReadable(heap, x) THEN Gives(StrV(Text(heap, x))) ELSE Mistaken

\* static_cast to a number: lists, dictionaries and strings count elements.
Number(heap, x) ==
  CASE x.is \in {"int", "float"} -> x.v
    [] x.is = "bool" -> IF x.v THEN 1 ELSE 0
    [] x.is = "string" -> Len(x.v)
    [] x.is = "list" -> Len(heap[x.v].items)
    [] x.is = "dict" -> Cardinality(DOMAIN heap[x.v].values)

\* <<"CAST", from, to>>
CastOps ==
  { <<"CAST", "int", "float">>, <<"CAST", "int", "bool">>,
    <<"CAST", "int", "string">>, <<"CAST", "float", "int">>,
    <<"CAST", "float", "bool">>, <<"CAST", "float", "string">>,
    <<"CAST", "bool", "int">>, <<"CAST", "bool", "float">>,
    <<"CAST", "bool", "string">>, <<"CAST", "list", "string">>,
    <<"CAST", "list", "bool">>, <<"CAST", "list", "int">>,
    <<"CAST", "dict", "string">>, <<"CAST", "dict", "bool">>,
    <<"CAST", "dict", "int">>, <<"CAST", "string", "bool">>,
    <<"CAST", "string", "int">> }

\* Mutant: a truth value keeps its tag when it is made an integer.
CastUnretyped(op, heap, x) ==
  IF op[3] = "string" THEN GivesText(heap, x)
  ELSE IF x.is # op[2] THEN Mistaken
  ELSE CASE op = <<"CAST", "bool", "int">> -> Gives([IntV(Number(heap, x)) EXCEPT !.type = x.type])
         [] op # <<"CAST", "bool", "int">> /\ op[3] = "int" -> Gives(IntV(Number(heap, x)))
         [] op[3] = "float" -> Gives(FloatV(Number(heap, x)))
         [] op[3] = "bool" -> Gives(BoolV(Number(heap, x) # 0))

Cast(op, heap, x) ==
  IF op[3] = "string" THEN GivesText(heap, x)
  ELSE IF x.is # op[2] THEN Mistaken
  ELSE CASE op[3] = "int" -> Gives(IntV(Number(heap, x)))
         [] op[3] = "float" -> Gives(FloatV(Number(heap, x)))
         [] op[3] = "bool" -> Gives(BoolV(Number(heap, x) # 0))

UnaryOps ==
  { <<"NEG", "bool">> } \cup ({"MINUS", "PLUS"} \X {"int", "float", "bool"})

Unary(op, heap, x) ==
  IF x.is # op[2] THEN Mistaken
  ELSE LET n == IF op[1] = "MINUS" THEN - Number(heap, x) ELSE Number(heap, x)
       IN  CASE op[1] = "NEG" -> Gives(BoolV(~ x.v))
             [] op[1] # "NEG" /\ op[2] = "float" -> Gives(FloatV(n))
             [] OTHER -> Gives(IntV(n))

-----------------------------------------------------------------------------
\* Binary operators, <<operator, type>> or <<operator, left, right>>.

\* DIV_FLOAT is left out: its results are not integral.
ArithmeticOps ==
  ({"ADD", "SUB", "MUL"} \X {"int", "float", "bool"})
    \cup { <<"ADD", "string">>, <<"ADD", "list">>, <<"ADD", "dict">>,
           <<"MUL", "int", "string">>, <<"MUL", "string", "int">>,
           <<"MUL", "int", "list">>, <<"MUL", "list", "int">>,
           <<"DIV", "int">>, <<"DIV", "string", "int">>,
           <<"DIV", "list", "int">> }
EqualityOps ==
  {"EQ", "NEQ"} \X {"int", "float", "string", "bool", "list", "dict"}
OrderOps == {"HT", "HTE", "LT", "LTE"} \X {"int", "float", "string", "bool"}
LogicalOps == { <<"OR">>, <<"AND">> }
BinaryOps == ArithmeticOps \cup EqualityOps \cup OrderOps \cup LogicalOps

\* The variants an operator asks its operands for.
LeftType(op) == IF op \in LogicalOps THEN "bool" ELSE op[2]
RightType(op) == IF Len(op) = 3 THEN op[3] ELSE LeftType(op)

Repeat(s, n) ==
  [i \in 1 .. (IF n > 0 THEN n * Len(s) ELSE 0) |-> s[((i - 1) % Len(s)) + 1]]

\* C++ division: towards zero.
Quotient(m, n) ==
  LET q == (IF m < 0 THEN -m ELSE m) \div (IF n < 0 THEN -n ELSE n)
  IN  IF (m < 0) = (n < 0) THEN q ELSE -q

\* s in n pieces of ceil(Len(s) / n) elements, the last ones shorter.
Pieces(s, n) ==
  LET per == (Len(s) + n - 1) \div n
      end(i) == IF i * per < Len(s) THEN i * per ELSE Len(s)
  IN  [i \in 1 .. n |-> SubSeq(s, (i - 1) * per + 1, end(i))]

\* The keys that the second of two dictionaries adds come in the order of an
\* unordered_map.
SomeOrder(keys) == CHOOSE s \in [1 .. Cardinality(keys) -> keys] : RangeOf(s) = keys

Arithmetic(op, heap, x, y) ==
  LET m == Number(heap, x)
      n == Number(heap, y)
      product == IF op[1] = "ADD" THEN m + n
                 ELSE IF op[1] = "SUB" /\ op[2] # "bool" THEN m - n
                 ELSE m * n                    \* SUB_BOOL multiplies
  IN  CASE op \in {"ADD", "SUB", "MUL"} \X {"int", "bool"} ->
             Gives(IntV(product))
        [] op \in {<<"ADD", "float">>, <<"MUL", "float">>} ->
             Gives(FloatV(product))
        [] op = <<"SUB", "float">> ->          \* retype(VALUE_INT)
             Gives([type |-> "int", is |-> "float", v |-> product])
        [] op = <<"ADD", "string">> -> Gives(StrV(x.v \o y.v))
        [] op = <<"ADD", "list">> ->
             Creates("list", << ListOf(heap[x.v].items \o heap[y.v].items) >>)
        [] op = <<"ADD", "dict">> ->
             LET a == heap[x.v]
                 b == heap[y.v]
             IN  Creates("dict",
                   << DictOf(a.key_order \o
                               SomeOrder(RangeOf(b.key_order) \ RangeOf(a.key_order)),
                             [k \in DOMAIN a.values \cup DOMAIN b.values |->
                                IF k \in DOMAIN b.values
                                  THEN b.values[k] ELSE a.values[k]]) >>)
        [] op = <<"MUL", "int", "string">> -> Gives(StrV(Repeat(y.v, m)))
        [] op = <<"MUL", "string", "int">> -> Gives(StrV(Repeat(x.v, n)))
        [] op = <<"MUL", "int", "list">> ->
             Creates("list", << ListOf(Repeat(heap[y.v].items, m)) >>)
        [] op = <<"MUL", "list", "int">> ->
             Creates("list", << ListOf(Repeat(heap[x.v].items, n)) >>)
        [] op = <<"DIV", "int">> ->
             IF n = 0 THEN Crashes ELSE Gives(FloatV(Quotient(m, n)))
        [] op = <<"DIV", "string", "int">> ->
             IF n <= 0 THEN Crashes
             ELSE Creates("list", << ListOf([i \in 1 .. n |->
                                               StrV(Pieces(x.v, n)[i])]) >>)
        [] op = <<"DIV", "list", "int">> ->
             IF n <= 0 THEN Crashes
             ELSE Creates("list",
                    [i \in 1 .. n |-> ListOf(Pieces(heap[x.v].items, n)[i])]
                      \o << ListOf([i \in 1 .. n |->
                                      Make("list", Len(heap) + i)]) >>)

Precedes(s, t) ==
  \E k \in 0 .. Len(s) :
    /\ k <= Len(t) /\ \A i \in 1 .. k : s[i] = t[i]
    /\ k < Len(t)
    /\ k = Len(s) \/ s[k + 1] < t[k + 1]

Less(heap, x, y) ==
  IF x.is = "string" THEN Precedes(x.v, y.v)
  ELSE Number(heap, x) < Number(heap, y)

\* What == or != makes of what same_as found.
Equality(op, found) ==
  CASE found = "undefined" -> Undefined
    [] found = "mistaken" -> Mistaken
    [] OTHER -> Gives(BoolV((found = "same") = (op[1] = "EQ")))

Binary(op, heap, x, y) ==
  IF op \in EqualityOps /\ op[2] \in {"list", "dict"} THEN Equality(op, SameAs(heap, x, y))
  ELSE IF x.is # LeftType(op) \/ y.is # RightType(op) THEN Mistaken
  ELSE IF op \in ArithmeticOps THEN Arithmetic(op, heap, x, y)
  ELSE Gives(BoolV(CASE op[1] = "EQ" -> x.v = y.v
                    [] op[1] = "NEQ" -> x.v # y.v
                    [] op[1] = "LT" -> Less(heap, x, y)
                    [] op[1] = "HT" -> Less(heap, y, x)
                    [] op[1] = "LTE" -> ~ Less(heap, y, x)
                    [] op[1] = "HTE" -> ~ Less(heap, x, y)
                    [] op[1] = "OR" -> x.v \/ y.v
                    [] op[1] = "AND" -> x.v /\ y.v))

Interval(m, n) == [i \in 1 .. (IF m <= n THEN n - m + 1 ELSE 0) |-> IntV(m + i - 1)]

\* RANGEE and RANGEI.
RangeOfInts(op, x, y) ==
  IF x.is # "int" \/ y.is # "int" THEN Mistaken
  ELSE Creates("list", << ListOf(Interval(x.v, IF op = <<"RANGEI">>
                                                 THEN y.v ELSE y.v - 1)) >>)

-----------------------------------------------------------------------------
(***************************************************************************)
(* Access to the elements of strings, lists, dictionaries and objects.     *)
(* The checks let an index equal to the length through: what the code does *)
(* then depends on the container.                                          *)
(***************************************************************************)
Without(s, i) == SubSeq(s, 1, i) \o SubSeq(s, i + 2, Len(s))
InBounds(i, n) == 0 <= i /\ i <= n

\* str[length] is the terminating zero.
StringGet(x, i) ==
  IF x.is # "string" \/ i.is # "int" THEN Mistaken
  ELSE IF ~ InBounds(i.v, Len(x.v)) THEN Crashes
  ELSE Gives(StrV(<< IF i.v = Len(x.v) THEN 0 ELSE x.v[i.v + 1] >>))

\* The first character of y replaces one of x; only a zero may be written
\* over the terminating zero.
StringSet(x, i, y) ==
  LET char == IF y.v = <<>> THEN 0 ELSE y.v[1]
  IN  IF x.is # "string" \/ i.is # "int" \/ y.is # "string" THEN Mistaken
      ELSE IF ~ InBounds(i.v, Len(x.v)) THEN Crashes
      ELSE IF i.v = Len(x.v)
        THEN IF char = 0 THEN Gives(x) ELSE Undefined
      ELSE Gives([x EXCEPT !.v = [@ EXCEPT ![i.v + 1] = char]])

\* std::string::erase throws beyond the end, and erases nothing at the end.
StringDelete(x, i) ==
  IF x.is # "string" \/ i.is # "int" THEN Mistaken
  ELSE IF ~ InBounds(i.v, Len(x.v)) THEN Throws
  ELSE Gives([x EXCEPT !.v = Without(@, i.v)])

ListPush(heap, x, y) ==
  IF x.is # "list" THEN Mistaken
  ELSE Stores(x.v, ListOf(Append(heap[x.v].items, y)))

ListGet(heap, x, i) ==
  IF x.is # "list" \/ i.is # "int" THEN Mistaken
  ELSE LET items == heap[x.v].items
       IN  IF ~ InBounds(i.v, Len(items)) THEN Crashes
           ELSE IF i.v = Len(items) THEN Undefined
           ELSE Gives(items[i.v + 1])

\* vector::at throws at the end.
ListSet(heap, x, i, y) ==
  IF x.is # "list" \/ i.is # "int" THEN Mistaken
  ELSE LET items == heap[x.v].items
       IN  IF ~ InBounds(i.v, Len(items)) THEN Crashes
           ELSE IF i.v = Len(items) THEN Throws
           ELSE Stores(x.v, ListOf([items EXCEPT ![i.v + 1] = y]))

ListDelete(heap, x, i) ==
  IF x.is # "list" \/ i.is # "int" THEN Mistaken
  ELSE LET items == heap[x.v].items
       IN  IF ~ InBounds(i.v, Len(items)) THEN Crashes
           ELSE IF i.v = Len(items) THEN Undefined
           ELSE Stores(x.v, ListOf(Without(items, i.v)))

DictKey(heap, x, i) ==
  IF x.is # "dict" \/ i.is # "int" THEN Mistaken
  ELSE LET order == heap[x.v].key_order
       IN  IF ~ InBounds(i.v, Len(order)) THEN Crashes
           ELSE IF i.v = Len(order) THEN Undefined
           ELSE Gives(StrV(order[i.v + 1]))

DictGet(heap, x, k) ==
  IF x.is # "dict" \/ k.is # "string" THEN Mistaken
  ELSE IF k.v \notin RangeOf(heap[x.v].key_order) THEN Crashes
  ELSE IF k.v \notin DOMAIN heap[x.v].values THEN Throws
  ELSE Gives(heap[x.v].values[k.v])

DictSet(heap, x, k, y) ==
  IF x.is # "dict" \/ k.is # "string" THEN Mistaken
  ELSE LET d == heap[x.v]
       IN  Stores(x.v,
             DictOf(IF k.v \in RangeOf(d.key_order)
                      THEN d.key_order ELSE Append(d.key_order, k.v),
                    [l \in DOMAIN d.values \cup {k.v} |->
                       IF l = k.v THEN y ELSE d.values[l]]))

\* std::find in a sequence without duplicates.
IndexOf(order, key) == (CHOOSE i \in DOMAIN order : order[i] = key) - 1

\* Mutant: the value is erased, the key is not.
DictDeleteValue(heap, x, k) ==
  IF x.is # "dict" \/ k.is # "string" THEN Mistaken
  ELSE LET d == heap[x.v]
       IN  IF k.v \notin RangeOf(d.key_order) THEN Crashes
           ELSE Stores(x.v, DictOf(d.key_order, [l \in DOMAIN d.values \ {k.v} |->
                                                   d.values[l]]))

DictDelete(heap, x, k) ==
  IF x.is # "dict" \/ k.is # "string" THEN Mistaken
  ELSE LET d == heap[x.v]
       IN  IF k.v \notin RangeOf(d.key_order) THEN Crashes
           ELSE Stores(x.v, DictOf(Without(d.key_order, IndexOf(d.key_order, k.v)),
                                   [l \in DOMAIN d.values \ {k.v} |->
                                      d.values[l]]))

\* CHECK_OBJECT reports a null object; PROP does not check the index.
PropGet(heap, x, p) ==
  IF x.is # "object" THEN Mistaken
  ELSE IF x.v = 0 THEN Crashes
  ELSE IF p \notin DOMAIN heap[x.v].registers THEN Undefined
  ELSE Gives(heap[x.v].registers[p])

\* Mutant: the properties behind the one that is set are lost.
PropSetUpTo(heap, p, x, y) ==
  IF x.is # "object" THEN Mistaken
  ELSE IF x.v = 0 THEN Crashes
  ELSE IF p \notin DOMAIN heap[x.v].registers THEN Undefined
  ELSE Stores(x.v, [class |-> heap[x.v].class,
                    registers |-> [q \in 0 .. p |->
                      IF q = p THEN y ELSE heap[x.v].registers[q]]])

PropSet(heap, p, x, y) ==
  IF x.is # "object" THEN Mistaken
  ELSE IF x.v = 0 THEN Crashes
  ELSE IF p \notin DOMAIN heap[x.v].registers THEN Undefined
  ELSE Stores(x.v, [class |-> heap[x.v].class,
                    registers |-> [heap[x.v].registers EXCEPT ![p] = y]])

-----------------------------------------------------------------------------
(***************************************************************************)
(* What a value and a heap are: an address is that of an object of its     *)
(* kind, and the keys of a dictionary in their order are those that have   *)
(* values, once each (ValueDictionary keeps them twice).                   *)
(***************************************************************************)
Kinds == {"int", "float", "bool", "string", "list", "dict", "fun", "object"}

IsValue(heap, x) ==
  /\ x = [type |-> x.type, is |-> x.is, v |-> x.v]
  /\ x.type \in Kinds /\ x.is \in Kinds
  /\ x.is \in {"int", "float"} => x.v \in Int
  /\ x.is = "bool" => x.v \in BOOLEAN
  /\ x.is = "string" => x.v \in Seq(Nat)
  /\ x.is = "list" => x.v \in DOMAIN heap /\ IsList(heap[x.v])
  /\ x.is = "dict" => x.v \in DOMAIN heap /\ IsDict(heap[x.v])
  /\ x.is = "object" => x.v = 0 \/ (x.v \in DOMAIN heap /\ IsObject(heap[x.v]))
  /\ x.is = "fun" => x.v = <<>> \/ x.v \in Nat \X Nat

\* A value tagged as the difference of two floats is.
IsDifference(x) == x.type = "int" /\ x.is = "float"

IsHeap(heap) ==
  /\ heap \in Seq(RangeOf(heap))
  /\ \A a \in DOMAIN heap :
       /\ IsList(heap[a]) \/ IsDict(heap[a]) \/ IsObject(heap[a])
       /\ \A x \in ValuesIn(heap[a]) : IsValue(heap, x)

IsCoherent(dict) ==
  /\ DOMAIN dict.values = RangeOf(dict.key_order)
  /\ \A i, j \in DOMAIN dict.key_order : i # j => dict.key_order[i] # dict.key_order[j]

\* Objects of one kind, and of one class.
SameShape(o, p) ==
  \/ IsList(o) /\ IsList(p)
  \/ IsDict(o) /\ IsDict(p)
  \/ IsObject(o) /\ IsObject(p) /\ p.class = o.class
       /\ DOMAIN p.registers = DOMAIN o.registers
=============================================================================
