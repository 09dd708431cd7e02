# A verification of Nuua

TLA+ models of the Nuua tool chain - the interpreter of a small statically
typed language, written in C++ - with TLC runs that check them and TLAPS proofs
of what holds for every instance. Paths below are relative to the repository
(`src/` in `PROJECT.json`).

## 1. The system

`nuua file.nu args...` runs a program in one process and one thread:

```
Application -> VirtualMachine::interpret -> Compiler -> Analyzer -> Parser -> Lexer
```

Each stage calls the next one for its input, works through it completely, and
the machine runs the result. There is no concurrency and nothing is persisted;
what is hard here is the *bookkeeping that crosses stages*: registers that are
remembered while other code takes and releases them, jumps patched after the
fact, tables of modules kept in statics across recursive calls, values that are
shared where they look copied, and a machine that checks next to nothing of what
the compiler gives it.

| Component | State | Operations | What makes it correct | Model |
|---|---|---|---|---|
| Application (`Application/`) | options, argv | `start`, `string` | - | `Pipeline` (the run) |
| Logger (`Logger/`) | stack of log entities | `add_entity`, `pop_entity`, `crash` | a report shows the imports and declarations under way | `ModuleLoader` (the stack) |
| Lexer (`Lexer/`) | start and current character, line, column | `scan` | tokens are the text they stand for, nothing but blanks and comments is skipped, the scan ends | `Lexer` |
| Module loading (`Parser/src/parser.cpp`) | `file_stack`, `parsed_files`, one activation of `parse` per module | `parse`, `use_declaration`, `export_declaration`, `format_path` | each module is parsed once, after what it uses; cycles are refused; loading ends | `ModuleLoader` |
| Parser grammar | token cursor | recursive descent | a text has the tree its author means: operands bind as tight as their operators ask for | `Grammar`, `SyntaxTree`, `Reader` |
| Blocks (`Parser/src/block.cpp`) | variables and classes by name | `get_variable`, `set_variable`, `get_class` | a name means the same to analyzer and compiler | in `Analyzer` and `Compiler` |
| Types (`Parser/src/type.cpp`) | a kind, an inner type, parameters, a class name | `same_as`, `cast`, `unary`, `binary`, `classes_used` | an operator's opcode reads what its operands hold | `Types` |
| Analyzer (`Analyzer/`) | open blocks, classes, the module's main block, last uses | `analyze` | an accepted program never meets a value of another type | `Analyzer` |
| Register allocator (`Compiler/src/program.cpp`) | `current_register`, free list, protected list | `get_register`, `free_register`, `reset` | a register has one holder; none is lost; the frame is as large as needed | `FrameInfo`, `RegisterAllocator`, `RegisterPool` |
| Compiler (`Compiler/src/compiler.cpp`) | code, constants, blocks, the two `FrameInfo`s, dead variables | `register_tld`, `compile_module`, `compile_function`, `compile` | the code does what the tree means | `Compiler`, `Semantics` |
| Values (`Compiler/src/value.cpp`) | tag and variant | `to_string`, `same_as`, `copy_to` | the tag tells the variant | `Values` |
| Virtual machine (`Virtual-Machine/`) | program counter, frames, operand stack, main frame | `interpret`, one `case` per opcode | it never leaves the code, the frame or the constants | `VirtualMachine` |
| Utilities, Lib | | | vendored, or written in Nuua | - |

**Interaction.** The parser calls itself for each `use`, sharing two static
tables and the logger's entity stack with its caller. The analyzer leaves types,
blocks and `last_use` marks in the tree, which the compiler reads. The compiler
writes registers into the blocks it shares with the analyzer and asks `FrameInfo`
for them. The machine and the compiler share nothing but the program: the code
vector, the constant pool, the main frame, and the size of each frame in a
function value.

**Hard behaviours**: `PROJECT.json` lists them under `hazards`, each at its
line, with the properties that cover it or the reason that none does.

## 2. Modules

| Module | Stands for | Uses |
|---|---|---|
| `ModuleLoader` | `Parser::parse` and the declarations, as a state machine | |
| `Lexer` | `Lexer::scan` and its helpers, as a state machine that reads a character per step | |
| `SyntaxTree` | constructors for types and for trees as the parser makes them (`type.hpp`, `rules.hpp`) | |
| `Grammar` | the recursive descent, as operators from a position among the tokens to a node | `Lexer`, `SyntaxTree` |
| `Reader` | lexer and parser together, and their properties | `Grammar` |
| `FrameInfo` | the three methods of class `FrameInfo`, as operators on a record | |
| `RegisterPool` | abstract specification: what the compiler expects of an allocator | |
| `RegisterAllocator` | `FrameInfo` driven by a client that behaves as the compiler does | `FrameInfo`, instance of `RegisterPool` |
| `Operators` | the tables of casts and operators: an opcode and a type for the types of the operands | `SyntaxTree` |
| `Types` | `same_as`, `classes_used` and the choice among the tables | `Operators` |
| `Analyzer` | the analyzer as a function from the parser's tree to the compiler's | `Types`, `Evaluation` |
| `Values` | values, `to_string`, `same_as`, the operations on data | |
| `VirtualMachine` | `interpret` and `run`: one action per group of opcodes | `Values` |
| `Compiler` | the compiler as a function from an analyzed module to a program | `Values`, `FrameInfo`, `Evaluation` |
| `Semantics` | reference: an evaluator of analyzed trees | `Values` |
| `Pipeline` | a module analyzed, compiled and run by the machine, and the properties | `Analyzer`, `Compiler`, `VirtualMachine`, `Semantics` |
| `Evaluation` | two helpers by which TLC evaluates an argument once | |
| `Samples` | sample programs, each as text and as tree | `SyntaxTree` |
| `MCModuleLoader`, `MCReader`, `MCPipeline` | the file systems, texts and programs checked | |
| `ModuleLoaderProofs`, `RegisterAllocatorProofs`, `LexerProofs`, `TokenProofs`, `ValuesProofs`, `OperatorProofs`, `VirtualMachineProofs` | theorems | the module proved about, TLAPS |
| `SetInduction` | induction and recursion over the natural numbers, for the proofs | `WellFoundedInduction`, TLAPS |

### ModuleLoader

`frames` is the C++ call stack: one record per activation of `Parser::parse`,
with its module, the pointer to its path string, the declaration it has come to
and the number of declarations in `code`. A file is the sequence of its top level
declarations. A pointer made by `make_shared` is the number of its allocation,
because `PREVENT_CYCLIC` compares pointers and what it finds depends on which
strings are distinct objects. Actions: `ScanError` (the lexer reads the whole file
first), `ParseOther`, `SyntaxError`, `ExportOfExport`, `UseMissing` (`format_path`
finds no file), `UseNew` and `UseParsed` (the two branches of `use_declaration`),
`EmptyFile`, `FinishModule` (the store in `parsed_files` and the return to the
caller). `StackOverflow` is the recursive call when `MaxDepth` activations are
already open: the only bound, and a real one.

### Lexer, Grammar, Reader

`start` and `current` are positions in the text, `mode` says in which loop of `scan`
the lexer is, and each action is one turn of one loop: a blank, a tab, a line break
and those that follow it, a symbol of up to three characters, a character of a comment,
a string, a number or a word. `AddToken` is `make_token`, which also moves `start` over
one blank and counts columns; that a tab, a carriage return or an escaped line break is
treated otherwise is kept as it is. `Overrun` is the read behind the terminating zero
(a comment or a backslash that ends the file). `Grammar` is the parser's rules by name:
a rule takes the position of the next token and returns a node and the position after
it, or `Refused` (`logger->crash`). What `statement` and `class_body_declaration` look
ahead, which tokens a line break may precede, and which rule calls which are those of the
code. `Reader` compares the trees with those the texts are known to have, and with what
an expression's tree may look like.

### FrameInfo, RegisterAllocator, RegisterPool

A holder is anything in the compiler that remembers a register: a local of a
`compile` activation (a temporary) or a block's variable (protected). `Get`,
`Release`, `Drop` and `Reset` are the calls the compiler makes: a temporary is
released once, a variable's register may be released any number of times without
effect, and is dropped by force. `ReleaseZero` is the stray `free_register(0)` of
a slice with no end; the case in which it would give a temporary away is left out,
since each slice ends the program before the temporary is read. `RegisterPool` says
what the compiler relies on: a register that is given is nobody's, and the frame
grows only if nothing in it is free - so that `current_register` at the end of a
function is the most it ever used.

### Values, VirtualMachine

The heap is a sequence of lists, dictionaries and objects; a value is a tag, the
variant it really holds and a datum (an address for the three shared kinds), so
that a read of the wrong variant throws as `std::get` does. The code is a function
from offsets to words, opcodes followed by operands, and jumps are relative, as in
`memory->code`: a wrong distance lands on an operand. There, and where an operand names
a register, constant or global that does not exist, the model has no step: the code
would execute or write whatever it finds. `WellFormed` says what the machine takes for
granted of a program, and `WellFormedNeverStrays` that it is enough. `Balanced` says what it takes
for granted of the use of the operand stack, which has no frames of its own: `depth` is the number of
values that a function has there before an instruction, `gives` how many it leaves to its caller.
Both are ghosts: the compiler's model counts what it emits (`PushedAfter`, and the parameters
and results of the functions), the machine never looks. What no program text can guarantee is that a
function value is called with the arguments it pops, which is `CallsFit`. `status` distinguishes the outcomes: `exited`, `crashed` (a report),
`aborted` (an exception of a container that nobody catches), `mistaken` (`std::get` of another alternative than the variant holds), `undefined` (no room for a frame or a
pushed value, an index at the end of a container, or a comparison that follows a null pointer or
does not end).

### Types, Analyzer

A type is a record as in `type.hpp`; `BinaryOperator` and the like give the opcode and the
type of the result. `Analyzer` follows `Module` case by case on a record of its state
(`blocks`, `classes`, the count of mentions by which `last_use` is known). A module is
analyzed in the code's two passes: declarations and imports (a `use` analyzes the used
module first), then the code. The result is a tree with opcodes, types and blocks. `fate`
is `refused` after a report and `undefined` where the code follows a null pointer - a class that nobody
declared, or the type of a cast, which the parser lets be missing before a line break or `=` - or leaves
a node's fields unwritten.

### Compiler, Semantics, Pipeline

`Compiler` translates `Compiler::compile` case by case: each operator takes the
compiler's state and a node, and returns the state and the register. It keeps the
order in which registers are taken and released and opcodes emitted, because that
order is what can be wrong. Modules are registered and compiled as in `register_tld` and
`compile_module`: own functions first, then the modules used, once each, then the registers
of the listed targets. `Semantics` knows nothing of all that: it evaluates the
tree with scopes and values, and finds a function by the module it is exported from.
`Pipeline!Compiled` analyzes a parsed module and puts the program and its meaning into the
record that `VirtualMachine!Init` chooses from; the invariants compare them at each step.

## 3. Runs

Every passing run has a mutant per property: the definition of a plausible bug,
under which TLC finds the property violated.

| Run | Checks | Shows |
|---|---|---|
| `loader` | `TypeOK`, `LoadsOnlyTrees`, `CyclicReportsAreSpurious`, `TracesAreImportChains`, `OverflowMeansCycle`; action property `UsesAreParsedFirst`; liveness `LoadingEnds` | what loads completely is a tree of modules, each parsed after what it uses; the trace a crash prints is the chain of imports; the parser always comes to an end, with the stack exhausted only if imports form a cycle |
| `allocator` | `TypeOK`, `OneHolder`, `FreeOrInUse`, `ProtectedAreVariables`; refinement `ImplementsPool` | no order of gets, releases, repeated and forced releases shares, loses or leaks a register; the frame size is the peak |
| `reader` | `TypeOK`, `TokensInOrder`, `TokensAreExact`, `NothingIsSkipped`, `LinesAreTrue`, `ColumnsAreTrue`, `OverrunsAreKnown`, `ReadsBack`, `ExpressionsAreNested`; liveness `ScanningEnds` | tokens lie one after the other and are what their text spells; only blanks, comments and line breaks that follow one lie between them; lines and columns are right but for the cases the invariants name; the text is left only behind a comment or a backslash; the trees are those the texts are known to have |
| `programs` | `TypeOK`, `OutputIsMeaning`, `CompiledIsWellFormed`, `CompiledIsBalanced`, `FramesMatchCode`, `CallsFit`, `PopsFindValues`, `NothingLeftOnStack`, `DictionariesAreCoherent`, `TagsTellVariants`, `TextsDoNotThrow`, `WellFormedNeverStrays`, `AcceptedDoesNotGoWrong`; action properties `CallersAreLeftAlone`, `ObjectsKeepTheirShape`, `DroppedStaysDropped`; liveness `RunsEnd` | programs that the analyzer accepts print and end as their trees mean, without a value taken for one of another type, in whatever place an operand stands; programs that fail do so at the same place and in the same way as their trees; the code of a function leaves on the stack what its callers count on, and every call finds its arguments there; the tag of a value names what it holds, and every value can be printed, unless the program subtracts floats; no instruction touches a caller's registers, makes another kind of object of a shared one, or reaches what nothing refers to |
| `loader_reentry`* | `NoModuleIsReentered` | an import cycle is followed without end |
| `shared_literals`* | `ConstantsAreConstant` | changing a list changes the literal it came from |
| `float_types`* | `TypesAreTrue` | the difference of two floats is tagged as an integer |
| `dictionary_literals`* | `CompiledIsWellFormed` | the key of a dictionary literal is compiled to a constant's number where a register is read |
| `function_assignment`* | `OutputIsMeaning` | assigning to a function writes a register of the main frame chosen by a local register number |
| `linear_scan`* | `OutputIsMeaning` | `--linear-scan` frees a variable that a loop reads again |
| `object_arguments`* | `AcceptedDoesNotGoWrong` | an object is made with a value of another type than its property has |
| `whole_import`* | `OutputIsMeaning` | a function imported with its whole module is another function when it is called |

\* TLC is expected to find a violation: the code does not do what its comment or
message says. `findings` in `PROJECT.json` quotes the line.

**Bounds.** `loader`: three modules (a cycle of three, a module with two users, and
the order of two uses all occur), up to two declarations each, every such file
system, a path without a file, and four activations - one more than there are
modules, so that the stack overflows on cycles only. `allocator`: four holders;
the state space is finite because a fifth register is never needed. `reader`: all texts
of up to four characters over three alphabets that hold what the lexer's loops look at
(quotes and backslashes; comments, numbers and tabs; words and symbols) - each loop is
entered, repeated and left, also at the end of the text; expressions with three operators
of all pairs and triples of levels, with and without groups and postfixes; every kind of
statement and declaration in each layout the parser looks ahead for. `programs`: 8
frames and 4 stack places, which only the failing programs exceed, on purpose; every
operator on operands of every pair of types, which the analyzer accepts or refuses; operands
of eight types in thirteen places an expression can have; operands of six kinds (constant,
variable, call, element, property, method that changes the object) under one and two
operators; the sample programs, two of which use other modules, and three modules of which two
share the third.

**Deadlock.** The loader, the lexer and the machine stop (`CHECK_DEADLOCK FALSE`); the
allocator never may.

**Fairness.** `WF_vars(Next)` for the loader, the lexer and the machine: all are sequential
code that runs until it returns. Nothing else is assumed. The loader's stack bound
is what makes `LoadingEnds` true on cyclic imports - it says that loading ends, not
that it ends well, which is what `OverflowMeansCycle` and `loader_reentry` are about.

## 4. Proofs

`ModuleLoaderProofs` - for any set of paths, any file systems and any stack depth:

- `LoaderTypeOK`, `OnlyTreesLoad`, `CyclicReportsSpurious`, from `LoaderInvariant`.
  "A completed load is a tree" is not inductive: it says nothing before the end.
  The invariant says what is true in between: the activations form a chain, each
  waiting at the use that names the next one's module, none of these modules is in
  `parsed_files` yet; `file_stack` has the pointer of every module in either, so that
  a second use of a parsed module always crashes, and none that is still to be
  allocated, so that a first use never does; the uses already passed - in parsed modules and, before the
  current declaration, in those under way - name parsed modules, no two the same.
  `LoadsOnlyTrees` is what the last part says when the chain is empty.
- `UsesParsedFirst`: the same invariant at the step that stores a module.
- `OverflowsAreCycles`: when the stack is full, two of its activations are of the same
  module, and the modules between them use each other in a cycle.
- `TracesImportChains`: the property says what `entities` is when a report is made; the
  invariant `Traced` says that it is the chain of imports below the active module at every
  step in between, so that every declaration pops what it pushed. `Chain` is a recursive function of the depth; that the chain of a caller is
  not disturbed by what its callee does (`SameChain`) is an induction over the depth.

`RegisterAllocatorProofs` - for any set of holders:

- `AllocatorTypeOK`, `RegistersHaveOneHolder`, `NoRegisterIsLost` from
  `AllocatorInvariant`. The conjunction of `TypeOK`, `OneHolder`, `FreeOrInUse` and
  `ProtectedAreVariables` is inductive, and none of the last three is alone: that
  two holders never share a register needs the free list to be disjoint from the
  registers in use, which needs repeated releases of variables to have no effect,
  which needs their registers to be protected.
- `AllocatorImplementsPool`: under that invariant each step is a step of
  `RegisterPool` or leaves its variables unchanged.

- `OnlyVariablesAreProtected`, a part of the same invariant.

`LexerProofs` - for texts of any length over any characters:

- `LexerTypeOK`, `TokensLieInOrder`, `NothingSkipped`, `OverrunsKnown`, from `LexInvariant`.
  Every step is one of two kinds (lemma `Steps`): it makes a token of the text between
  `start` and its end, or leaves the tokens alone. None of the properties is inductive:
  `start` may be behind `current` by one (`make_token` moves it over a blank), which is
  `Place`; a string's token ends before its closing quote, so that the order of the tokens
  needs `Behind`; the text between `start` and `current` that no token has yet is tabs and
  carriage returns, or a comment under way from two slashes, or a repeated line break,
  which is `Gap`; and the text is left only in the two ways `Left` names.

`TokenProofs` - the same texts, from `LexInvariant`:

- `TokensKnowTheirLine`: `line` counts the line breaks before the place that is being
  read (`LineCounted`), in every mode; a comment or a string consumes a line break only where
  it is counted. The count is a cardinality, so that each step needs the set of line breaks to grow
  by none or by one (`OneMoreBreak`).
- `TokensSpellTheirType`: the invariant `Read` says for each loop what it has read so far
  - letters and digits, digits, a quote and what is behind it - and that
  the backslashes right before the place being read are always even in number (`InPairs`), so that the
  quote that ends a string is the first that is not escaped.
- `TokensKnowTheirColumn`: `column` is the distance from the last line break, until
  something that the lexer does not count comes between (`Clouded`: a comment, a tab, a string over
  several lines) - and it is again after the next line break that is a token, which is what
  `BreaksBehind` is needed for.

`ValuesProofs`, `VirtualMachineProofs` - for any set of programs, and any number of
frames and stack places:

- `NeverStrays`, `MachineTypeOK`, `FramesMatch`, `DictionariesCoherent`. The invariant
  `Inv` says: the heap holds coherent lists, dictionaries and objects; whatever is in a
  register, a global, on the operand stack or in a heap object is a value whose address
  points to an object of its kind, and if it is a function, the entry of one with the frame
  size it says; the frames are a chain, each as large as the function its
  successor returns to. That operands exist follows from the frame's size being that of
  the function the program counter is in; that it stays so needs the return addresses;
  and that a call enters a function with a frame of the right size needs every function
  value anywhere in the heap to be an entry - so that all of `Inv` is needed for
  any part of it. `ValuesProofs` proves of each operation on data that it writes and
  returns such values (`GoodOutcome`).
- `TagsAreTrue`: the tag of a value and the variant it holds are written by separate
  statements of each instruction. That they agree everywhere in a program without `SUB_FLOAT`, and
  that in the others only differences of floats are tagged as integers (run `float_types`), is a part of
  `Inv` (`Good`, which is told whether there are any); the constants and globals of a well formed program
  are tagged as what they are (`IsLoaded`).
- `TextsAreThere`: `to_string` trusts the tag of the value printed, and of every value that it
  refers to through lists, dictionaries and objects. With `TagsAreTrue` no `std::get` on the way throws
  (`ReadableWhenTold`, by induction over the levels of the descent), so that in a program without
  `SUB_FLOAT` the machine never stops at a print or a cast to string. The other half, that the text is a
  sequence of characters whatever the heap looks like (`TextIsText`), is what a cast to string needs
  for its result to be a value; objects with as many registers as they have properties are a part of it.
- `CallersLeftAlone`, `ShapesKept`: action properties, from `Inv` at each step. That
  the active frame is the only one written to is plain for most instructions; that a call or a return
  leaves the others in their places, and that a store through a shared address
  puts back an object of the same class and size, is not (`ShapesKept` needs the value that is stored
  through to be good: its tag to be that of the object it points to).
- `DroppedForGood`: take any set of objects that nothing outside of it refers to. No
  instruction can refer to one of them again, or write to one, because all its operands are held
  and keep clear of the set (`Fence`), and what an operation makes of such operands keeps clear of
  it too or is new. The second half of `ValuesProofs` proves that of each operation on
  data (`Leaves`, and one lemma per operation). The set may refer to itself, so that this covers the cycles that a
  `shared_ptr` never frees: the model's heap may keep dropped objects without a difference
  to what a program can observe.
- `PopsAlwaysFind`, `StackIsEmptied`: that the stack is empty at the end says nothing in
  between, and the counts of one function are not enough: a caller's values lie below. The invariant
  `Fits` (`StackFits`, `Heights`) gives each frame the height `b[i]` of the stack that is its callers';
  the last one has `depth` values above it at the program counter, and between two frames lies what
  the caller has at the return address, without the result that is still to come.
  A push, a pop and a jump move the top only (`Moved`); a call starts a new frame below its
  arguments (`Called`); a return leaves exactly the result, since a function ends with `gives` values
  (`Returned`), so that the caller's count is right again. When main returns, no frame is left and the height is
  that of EXIT, which is 0. That only main returns to EXIT was not in the invariant before
  (`FramesFit`), and had to be asked of well formed programs. Both theorems have `[]CallsFit` as a
  hypothesis: `Type::same_as` compares neither the parameters of function types nor a result
  that only one of them has, so that the analyzer does not rule out a call that pops more than it is given.
  Run `programs` checks `CallsFit` and `CompiledIsBalanced`.
- All but `NeverStrays` assume that all programs are `WellFormed`; `NeverStrays` does not,
  since the property itself speaks of well formed programs only. Run `programs` checks that
  the compiler makes such programs (`CompiledIsWellFormed`), and run
  `dictionary_literals` shows one that is not.

`OperatorProofs` - for all operators, types, values and heaps:

- `UnaryOperatorsFit`, `BinaryOperatorsFit`, `CastsFit`: the tables of the analyzer
  and the instructions of the machine, which are in different parts of the code and share only the names of
  the opcodes, agree. An instruction that is chosen for two types exists, takes values of these types
  for what they are - `std::get` does not throw - and makes a value of the kind that the table says. It is
  the case of one operator of what `AcceptedDoesNotGoWrong` checks of programs, without a bound on the operands. `Type::same_as`
  is a parameter (`alike`): all that is asked of it is that types it finds the same are of
  one kind. A cast to string needs its operand to be readable (`IsReadable`, see `TextsAreThere`), and `DIV_FLOAT` is left out.
  `==` and `!=` of lists and dictionaries need more (`Comparable`): `Value::same_as` follows the address of an object
  without a look whether there is one, and does not come back from objects that hold each other. They are asked to
  be of a heap of good values (as `Inv` of `VirtualMachineProofs` says every heap of a run of well formed programs is), and to hold no null object, no object that
  is part of itself (some `rank` decreases from an object to those in it) and no function.
- `ComparisonsAnswer` (in `ValuesProofs`): under that condition `same_as` finds values to be the same
  or different. That the recursion of `SameAs` defines a function at all comes from `Recursion`, by the number of pairs
  of objects that have not been met (`ComparingEnds`); that it answers is an induction over the rank of the left object,
  as the pairs met on the way have higher ones.

**Assumptions.** `LoaderAssumption` (the main file is a path, the depth is positive, a
file system maps paths to sequences of declarations), `MachineAssumption` (the limits are
positive), `TextsAssumption` (a text is a sequence of characters without a zero) and
`SpellingAssumption` (symbols and words have characters, none of which is a blank, a line break,
a tab or a zero) - the prover does not know how strings are spelled. TLC evaluates them in
`loader`, `programs` and `reader`. `OverflowsAreCycles` also assumes that there are
finitely many files, fewer than the stack is deep: only then does the pigeonhole principle
give a module that is under way twice.

**Induction.** The library states induction with an operator as a parameter, which the prover
cannot be given. `SetInduction` states it of a set instead: the least number outside of
the set leads to a contradiction (`WFMin` with `NatLessThanWellFounded`). From it `Recursion` proves that
a recursive function over the natural numbers exists, which is what makes the equations of `Chain`
usable, and those of the functions that `to_string` descends with: the digits of a number
(`DigitsExist`, from tables that grow), the elements of a container and the levels of the heap.

**Only model-checked**: liveness (`LoadingEnds`, `ScanningEnds`, `RunsEnd`), which the
prover does not support; and what is stated in terms of operators that are recursive over trees
(`ReadsBack`, `ExpressionsAreNested`, `OutputIsMeaning`, `CompiledIsWellFormed`,
`CompiledIsBalanced`, `CallsFit`, `AcceptedDoesNotGoWrong`, with `Grammar`, `Types`, `Analyzer`, `Compiler`, `Semantics`
and `Pipeline`): what they compute for every tree needs an induction over data, and the
prover loses its arithmetic and set reasoning in a module that reaches such an operator.

## 5. Abstractions, and what is left out

- A text is a sequence of characters of a TLA+ string; the backquote is left out, which
  TLA+ strings cannot hold (it is no token, so that it is refused wherever it is not in a
  string or a comment). Reading the file is left out.
- Floats are integral and `DIV_FLOAT` is left out; integers do not overflow, and the
  parser's `stoll` never throws.
- An `unordered_map` (the keys printed from a dictionary, the properties of a class, the
  classes of a block) is iterated in the order of insertion, and the keys which the sum of two
  dictionaries adds in some order (`SomeOrder`); of two classes of one name any may be found.
- Text is exact where programs can observe it (concatenation, comparison, length);
  the spelling of booleans, floats, functions and objects is shortened.
- `Text` is cut on cyclic data, where the code recurses without end. A comparison that comes to a pair of objects again
  does not end either, and its outcome is `undefined`, as is that of one that comes to an object that is not there. Programs of
  the run that compare such objects stop as their trees do, and the rest of `AcceptedDoesNotGoWrong`
  makes an exception of them.
- Of the type of a value only the kind is kept, not the inner type, the class or the result. So `SameWith` compares
  kinds: a comparison of null objects of two classes is undefined, where the code finds the classes different; two functions
  are different where `Type::same_as` would follow a missing result; and classes of one name from two modules are told
  apart, where the code compares the names of the class and of the properties. No program of the runs compares
  such values. The values of a dictionary are compared in the order of insertion, so that of an early difference and
  a null object the one inserted first counts.
- Programs that read a variable which a later operand of the same expression changes, or a
  name that an inner block declares later, are left out of the runs: no document says
  what they mean, and both are listed as hazards. Where the analyzer leaves the later values
  of a dictionary literal without types, or looks up a class that nobody declared, its `fate`
  is `undefined` and the program is not run.
- The sample with a module that two others use is given as a tree: the loader
  refuses it when it is read from files (`CyclicReportsAreSpurious`).
- Lines, columns and files of errors after the lexer, and the table by which the machine
  finds the line of a failing instruction; the printing of tokens, trees and types; the
  options of the command line other than `--linear-scan`.

**Not modelled**: `Utilities/` (a vendored hash map no file includes), `Lib/` and the other
Nuua programs (not part of the implementation; some of them are samples here), the printing
functions of `rules.cpp`, `tokens.cpp` and `logger.cpp` (output only).
