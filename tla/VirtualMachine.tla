--------------------------- MODULE VirtualMachine ---------------------------
(***************************************************************************)
(* The virtual machine: VirtualMachine::interpret and ::run of             *)
(* Virtual-Machine/src/virtual_machine.cpp, with Frame::setup of           *)
(* Compiler/src/program.cpp.                                               *)
(*                                                                         *)
(* The program is a flat vector of words, opcodes followed by their        *)
(* operands, and the program counter is an offset into it.  A compiled     *)
(* program is a record                                                     *)
(*   code       the words: an opcode is a tuple of strings that spells its *)
(*              name, <<"ADD", "int">>, an operand is a number             *)
(*   starts     offsets at which the compiler emitted an opcode            *)
(*   size       registers of the function each of these belongs to         *)
(*   depth      values which that function has on the stack before it      *)
(*   gives      values which that function leaves there when it returns    *)
(*   constants  the constant pool                                          *)
(*   globals    the registers of main_frame                                *)
(*   heap       the objects the constants refer to                         *)
(*   main       the register of main_frame that holds main                 *)
(*   argv       the arguments given on the command line                    *)
(* of which starts, size, depth and gives exist only here, to say what an  *)
(* offset means.                                                           *)
(***************************************************************************)
EXTENDS Values

CONSTANTS
  Programs,     \* the compiled programs considered
  MAX_FRAMES,   \* frames the machine has room for
  STACK_SIZE    \* values the operand stack has room for

ASSUME MachineAssumption == MAX_FRAMES \in Nat \ {0} /\ STACK_SIZE \in Nat \ {0}

VARIABLES
  program,           \* the program that runs
  program_counter,
  frames,            \* frames[0 .. active_frame], active one last
  stack,             \* stack up to top_stack
  main_frame,        \* registers of the main frame: the globals
  heap,              \* lists, dictionaries and objects
  output,            \* what print has written
  status             \* "running", or how the machine stopped

vars == <<program, program_counter, frames, stack, main_frame, heap, output,
          status>>

pc == program_counter
Code == program.code
EndPC(p) == Cardinality(DOMAIN p.code) - 1

-----------------------------------------------------------------------------
\* Opcodes and the kinds of their operands (opcode_names in program.cpp).

SliceOps == { <<"SSLICE">>, <<"SSLICEE">>, <<"LSLICE">>, <<"LSLICEE">> }
RangeOps == { <<"RANGEE">>, <<"RANGEI">> }
CondJumps == { <<"CFJUMP">>, <<"CBJUMP">>, <<"CFNJUMP">>, <<"CBNJUMP">> }
Jumps == { <<"FJUMP">>, <<"BJUMP">> }
GetOps == { <<"SGET">>, <<"LGET">>, <<"DKEY">>, <<"DGET">> }
SetOps == { <<"SSET">>, <<"LSET">>, <<"DSET">> }
DeleteOps == { <<"SDELETE">>, <<"LDELETE">>, <<"DDELETE">> }

\* OpCode of opcodes.hpp, without DIV_FLOAT (Values).
Opcodes ==
  { <<"EXIT">>, <<"RETURN">>, <<"CALL">>, <<"MOVE">>, <<"LOAD_C">>, <<"LOAD_G">>,
    <<"SET_G">>, <<"PUSH">>, <<"PUSH_C">>, <<"POP">>, <<"LPUSH">>, <<"LPUSH_C">>,
    <<"LPROP">>, <<"SPROP">>, <<"IINC">>, <<"IDEC">>, <<"PRINT">>, <<"PRINT_C">> }
    \cup Jumps \cup CondJumps \cup SliceOps \cup RangeOps \cup GetOps \cup SetOps
    \cup DeleteOps \cup CastOps \cup UnaryOps \cup BinaryOps

Operands(op) ==
  LET name == op[1]
  IN  CASE name \in {"EXIT", "RETURN"} -> <<>>
        [] name \in {"PUSH", "POP", "CALL", "IINC", "IDEC", "PRINT"} -> << "reg" >>
        [] name \in {"PUSH_C", "PRINT_C"} -> << "const" >>
        [] name \in {"LOAD_C", "LPUSH_C"} -> << "reg", "const" >>
        [] name = "LOAD_G" -> << "reg", "global" >>
        [] name = "SET_G" -> << "global", "reg" >>
        [] name = "LPROP" -> << "reg", "reg", "prop" >>
        [] name = "SPROP" -> << "prop", "reg", "reg" >>
        [] name \in {"FJUMP", "BJUMP"} -> << "literal" >>
        [] name \in {"CFJUMP", "CBJUMP", "CFNJUMP", "CBNJUMP"} -> << "literal", "reg" >>
        [] name \in {"MOVE", "LPUSH", "SDELETE", "LDELETE", "DDELETE", "CAST", "NEG",
                     "MINUS", "PLUS"} -> << "reg", "reg" >>
        [] name \in {"SSLICEE", "LSLICEE"} -> << "reg", "reg", "reg", "reg" >>
        [] name \in {"SSLICE", "LSLICE"} -> << "reg", "reg", "reg", "reg", "reg" >>
        \* get and set, binary operators, ranges
        [] OTHER -> << "reg", "reg", "reg" >>

\* Words an instruction takes.
Width(op) == 1 + Len(Operands(op))

\* All jumps are relative to the offset of the jump itself.
Target(p, i) ==
  IF p.code[i] \in { <<"FJUMP">>, <<"CFJUMP">>, <<"CFNJUMP">> }
    THEN i + p.code[i + 1] ELSE i - p.code[i + 1]

(***************************************************************************)
(* What the machine takes for granted of a program.  The instruction at i  *)
(* has operands that exist, and control stays in its function: it goes on  *)
(* at instructions that have as many registers, and not at EXIT, to which  *)
(* only main returns.                                                      *)
(***************************************************************************)
Successors(p, i) ==
  CASE p.code[i] \in { <<"EXIT">>, <<"RETURN">> } -> {}
    [] p.code[i] \in Jumps -> {Target(p, i)}
    [] p.code[i] \in CondJumps -> {Target(p, i), i + Width(p.code[i])}
    [] OTHER -> {i + Width(p.code[i])}

WellFormedAt(p, i) ==
  LET op == p.code[i]
  IN  /\ op \in Opcodes
      /\ \A k \in 1 .. Len(Operands(op)) :
           /\ i + k \in DOMAIN p.code
           /\ Operands(op)[k] = "reg" => p.code[i + k] \in 0 .. p.size[i] - 1
           /\ Operands(op)[k] = "const" => p.code[i + k] \in DOMAIN p.constants
           /\ Operands(op)[k] = "global" => p.code[i + k] \in DOMAIN p.globals
      /\ \A j \in Successors(p, i) :
           j \in p.starts /\ j # EndPC(p) /\ p.size[j] = p.size[i]
      \* What follows a call is where it returns to.
      /\ op = <<"CALL">> => i + 2 \in p.starts

\* A function value is null or the entry of a function of its size.
FunctionOf(p, x) ==
  x.is = "fun" /\ x.v # <<>> =>
    x.v[1] \in p.starts /\ x.v[1] # EndPC(p) /\ p.size[x.v[1]] = x.v[2]

\* The constants and globals are values, of objects that are there, and tagged
\* as what they are.
IsLoaded(p) ==
  /\ IsHeap(p.heap)
  /\ \A a \in DOMAIN p.heap :
       /\ IsDict(p.heap[a]) => IsCoherent(p.heap[a])
       /\ \A x \in ValuesIn(p.heap[a]) : FunctionOf(p, x) /\ x.type = x.is
  /\ \A c \in DOMAIN p.constants :
       /\ IsValue(p.heap, p.constants[c]) /\ FunctionOf(p, p.constants[c])
       /\ p.constants[c].type = p.constants[c].is
  /\ \A g \in DOMAIN p.globals :
       /\ IsValue(p.heap, p.globals[g]) /\ FunctionOf(p, p.globals[g])
       /\ p.globals[g].type = p.globals[g].is
  /\ p.main \in DOMAIN p.globals
  /\ p.globals[p.main].is = "fun" /\ p.globals[p.main].v # <<>>
  /\ p.argv \in Seq(Seq(Nat))

WellFormed(p) ==
  /\ p.starts \subseteq DOMAIN p.code \cap Nat
  /\ p.size \in [p.starts -> Nat]
  /\ \A i \in p.starts : WellFormedAt(p, i)
  /\ EndPC(p) \in p.starts /\ p.code[EndPC(p)] = <<"EXIT">>
  /\ \A i \in p.starts : p.code[i] = <<"EXIT">> => i = EndPC(p)
  /\ p.size[EndPC(p)] = 0
  /\ IsLoaded(p)

(***************************************************************************)
(* What it takes for granted of the use of the stack.  A function finds    *)
(* its arguments on it, and from any of its instructions to the next the   *)
(* number of values it has there changes by what the instruction pushes    *)
(* and pops; how a call changes it is left to what comes after the call.   *)
(* When it returns there is its result.                                    *)
(***************************************************************************)
DepthAfter(p, i) ==
  CASE p.code[i] \in { <<"PUSH">>, <<"PUSH_C">> } -> p.depth[i] + 1
    [] p.code[i] = <<"POP">> -> p.depth[i] - 1
    [] p.code[i] = <<"CALL">> -> p.depth[i + 2]
    [] OTHER -> p.depth[i]

Balanced(p) ==
  /\ \A i \in p.starts :
       /\ p.depth[i] \in Nat /\ p.gives[i] \in Nat
       /\ \A j \in Successors(p, i) : p.depth[j] = DepthAfter(p, i) /\ p.gives[j] = p.gives[i]
       /\ p.code[i] = <<"RETURN">> => p.depth[i] = p.gives[i]
  /\ p.depth[EndPC(p)] = 0
  \* main takes the arguments given to the program, and has no result.
  /\ p.depth[p.globals[p.main].v[1]] = 1 /\ p.gives[p.globals[p.main].v[1]] = 0

(***************************************************************************)
(* The macros REGISTER, CONSTANT, GLOBAL and LITERAL; the registers of the *)
(* active frame are a function from 0.                                     *)
(***************************************************************************)
Top == frames[Len(frames)]
Registers == IF frames = <<>> THEN [r \in {} |-> 0] ELSE Top.registers
Operand(k) == Code[pc + k]
REGISTER(k) == Registers[Operand(k)]
CONSTANT_AT(k) == program.constants[Operand(k)]

\* The instruction and its operands are there to be read and written.  Only
\* offsets of instructions hold opcodes: any other word would be executed as
\* whatever opcode has its number, and there the model has no step.
OperandExists(k) ==
  LET kind == Operands(Code[pc])[k]
  IN  CASE kind = "reg" -> Operand(k) \in DOMAIN Registers
        [] kind = "const" -> Operand(k) \in DOMAIN program.constants
        [] kind = "global" -> Operand(k) \in DOMAIN main_frame
        [] OTHER -> TRUE

Executable ==
  /\ pc \in program.starts
  /\ \A k \in 1 .. Width(Code[pc]) - 1 : OperandExists(k)
  /\ Code[pc] = <<"RETURN">> => frames # <<>>

At(ops) == status = "running" /\ Executable /\ Code[pc] \in ops

-----------------------------------------------------------------------------

\* Mutant: a register too few.
NewFrameShort(size, return_address) ==
  [registers |-> [r \in 0 .. size - 2 |-> IntV(0)],
   return_address |-> return_address]

\* Frame::allocate_registers gives default values.
NewFrame(size, return_address) ==
  [registers |-> [r \in 0 .. size - 1 |-> IntV(0)],
   return_address |-> return_address]

\* Mutant: the register is looked up one frame below.
WithRegisterBelow(r, x) ==
  LET i == IF Len(frames) = 1 THEN 1 ELSE Len(frames) - 1
  IN  [frames EXCEPT ![i] = [registers |-> [@.registers EXCEPT ![r] = x],
                             return_address |-> @.return_address]]

WithRegister(r, x) ==
  [frames EXCEPT ![Len(frames)] =
     [registers |-> [Top.registers EXCEPT ![r] = x],
      return_address |-> Top.return_address]]

Step == program_counter' = pc + Width(Code[pc])

Stop(how) ==
  /\ status' = how
  /\ UNCHANGED <<program, program_counter, frames, stack, main_frame, heap,
                 output>>

\* Mutant: the address is that of the last object before the new ones.
FinishBehind(r, outcome) ==
  CASE outcome.how = "value" ->
         /\ frames' = WithRegister(r, outcome.value)
         /\ Step
         /\ UNCHANGED <<program, stack, main_frame, heap, output, status>>
    [] outcome.how = "new" ->
         /\ heap' = heap \o outcome.objects
         /\ frames' = WithRegister(r, Make(outcome.type, Len(heap)))
         /\ Step
         /\ UNCHANGED <<program, stack, main_frame, output, status>>
    [] outcome.how = "store" ->
         /\ heap' = [heap EXCEPT ![outcome.address] = outcome.object]
         /\ Step
         /\ UNCHANGED <<program, frames, stack, main_frame, output, status>>
    [] OTHER -> Stop(outcome.how)

(***************************************************************************)
(* The end of an instruction on data whose result belongs to register r.   *)
(***************************************************************************)
Finish(r, outcome) ==
  CASE outcome.how = "value" ->
         /\ frames' = WithRegister(r, outcome.value)
         /\ Step
         /\ UNCHANGED <<program, stack, main_frame, heap, output, status>>
    [] outcome.how = "new" ->
         /\ heap' = heap \o outcome.objects
         /\ frames' = WithRegister(r,
                        Make(outcome.type, Len(heap) + Len(outcome.objects)))
         /\ Step
         /\ UNCHANGED <<program, stack, main_frame, output, status>>
    [] outcome.how = "store" ->
         /\ heap' = [heap EXCEPT ![outcome.address] = outcome.object]
         /\ Step
         /\ UNCHANGED <<program, frames, stack, main_frame, output, status>>
    [] OTHER -> Stop(outcome.how)

-----------------------------------------------------------------------------

\* interpret: push the arguments and enter main; its return address is EXIT.
Init ==
  /\ program \in Programs
  /\ heap = Append(program.heap,
               ListOf([i \in DOMAIN program.argv |-> StrV(program.argv[i])]))
  /\ main_frame = program.globals
  /\ stack = << Make("list", Len(heap)) >>
  /\ frames = << NewFrame(main_frame[program.main].v[2], EndPC(program)) >>
  /\ program_counter = main_frame[program.main].v[1]
  /\ output = <<>>
  /\ status = "running"

Exit == At({ <<"EXIT">> }) /\ Stop("exited")

\* copy_to shares lists, dictionaries and objects.
Move ==
  /\ At({ <<"MOVE">> })
  /\ Finish(Operand(1), Gives(REGISTER(2)))

LoadConstant ==
  /\ At({ <<"LOAD_C">> })
  /\ Finish(Operand(1), Gives(CONSTANT_AT(2)))

LoadGlobal ==
  /\ At({ <<"LOAD_G">> })
  /\ Finish(Operand(1), Gives(main_frame[Operand(2)]))

SetGlobal ==
  /\ At({ <<"SET_G">> })
  /\ main_frame' = [main_frame EXCEPT ![Operand(1)] = REGISTER(2)]
  /\ Step
  /\ UNCHANGED <<program, frames, stack, heap, output, status>>

\* The room on the stack is not checked.
Push ==
  /\ At({ <<"PUSH">>, <<"PUSH_C">> })
  /\ IF Len(stack) = STACK_SIZE
       THEN Stop("undefined")
       ELSE /\ stack' = Append(stack, IF Code[pc] = <<"PUSH">>
                                        THEN REGISTER(1) ELSE CONSTANT_AT(1))
            /\ Step
            /\ UNCHANGED <<program, frames, main_frame, heap, output, status>>

\* Nor is it checked that there is a value to pop.
Pop ==
  /\ At({ <<"POP">> })
  /\ IF stack = <<>>
       THEN Stop("undefined")
       ELSE /\ stack' = SubSeq(stack, 1, Len(stack) - 1)
            /\ frames' = WithRegister(Operand(1), stack[Len(stack)])
            /\ Step
            /\ UNCHANGED <<program, main_frame, heap, output, status>>

Get ==
  /\ At(GetOps)
  /\ LET x == REGISTER(2)
         i == REGISTER(3)
     IN  Finish(Operand(1),
           CASE Code[pc] = <<"SGET">> -> StringGet(x, i)
             [] Code[pc] = <<"LGET">> -> ListGet(heap, x, i)
             [] Code[pc] = <<"DKEY">> -> DictKey(heap, x, i)
             [] Code[pc] = <<"DGET">> -> DictGet(heap, x, i))

Set ==
  /\ At(SetOps)
  /\ LET x == REGISTER(1)
         i == REGISTER(2)
         y == REGISTER(3)
     IN  Finish(Operand(1),
           CASE Code[pc] = <<"SSET">> -> StringSet(x, i, y)
             [] Code[pc] = <<"LSET">> -> ListSet(heap, x, i, y)
             [] Code[pc] = <<"DSET">> -> DictSet(heap, x, i, y))

Delete ==
  /\ At(DeleteOps)
  /\ LET x == REGISTER(1)
         i == REGISTER(2)
     IN  Finish(Operand(1),
           CASE Code[pc] = <<"SDELETE">> -> StringDelete(x, i)
             [] Code[pc] = <<"LDELETE">> -> ListDelete(heap, x, i)
             [] Code[pc] = <<"DDELETE">> -> DictDelete(heap, x, i))

PushToList ==
  /\ At({ <<"LPUSH">>, <<"LPUSH_C">> })
  /\ Finish(Operand(1),
            ListPush(heap, REGISTER(1), IF Code[pc] = <<"LPUSH">>
                                          THEN REGISTER(2) ELSE CONSTANT_AT(2)))

\* Mutant: a call returns to its own operand.
ReturnToOperand == pc + 1

\* CHECK_FUN: how the machine goes on.
CheckFunction(f) ==
  IF f.is # "fun" THEN "mistaken" ELSE IF f.v = <<>> THEN "crashed" ELSE "running"
ReturnAddress == pc + 2

\* The room for a new frame is not checked.
Call ==
  /\ At({ <<"CALL">> })
  /\ LET f == REGISTER(1)
     IN  IF CheckFunction(f) # "running" THEN Stop(CheckFunction(f))
         ELSE IF Len(frames) = MAX_FRAMES THEN Stop("undefined")
         ELSE /\ frames' = Append(frames, NewFrame(f.v[2], ReturnAddress))
              /\ program_counter' = f.v[1]
              /\ UNCHANGED <<program, stack, main_frame, heap, output, status>>

Return ==
  /\ At({ <<"RETURN">> })
  /\ program_counter' = Top.return_address
  /\ frames' = SubSeq(frames, 1, Len(frames) - 1)
  /\ UNCHANGED <<program, stack, main_frame, heap, output, status>>

LoadProperty ==
  /\ At({ <<"LPROP">> })
  /\ Finish(Operand(1), PropGet(heap, REGISTER(2), Operand(3)))

SetProperty ==
  /\ At({ <<"SPROP">> })
  /\ Finish(Operand(2), PropSet(heap, Operand(1), REGISTER(2), REGISTER(3)))

CastValue ==
  /\ At(CastOps)
  /\ Finish(Operand(1), Cast(Code[pc], heap, REGISTER(2)))

UnaryOperation ==
  /\ At(UnaryOps)
  /\ Finish(Operand(1), Unary(Code[pc], heap, REGISTER(2)))

\* IDEC increments too.
Increment ==
  /\ At({ <<"IINC">>, <<"IDEC">> })
  /\ LET x == REGISTER(1)
     IN  Finish(Operand(1),
                IF x.is # "int" THEN Mistaken ELSE Gives([x EXCEPT !.v = @ + 1]))

BinaryOperation ==
  /\ At(BinaryOps)
  /\ Finish(Operand(1), Binary(Code[pc], heap, REGISTER(2), REGISTER(3)))

\* The list is put into its register before the bounds are read.
MakeRange ==
  /\ At(RangeOps)
  /\ Finish(Operand(1),
            IF Operand(1) \in {Operand(2), Operand(3)}
              THEN Mistaken
              ELSE RangeOfInts(Code[pc], REGISTER(2), REGISTER(3)))

\* "Slices are currently pending of implementation."
Slice == At(SliceOps) /\ Stop("crashed")

Jump ==
  /\ At(Jumps)
  /\ program_counter' = Target(program, pc)
  /\ UNCHANGED <<program, frames, stack, main_frame, heap, output, status>>

CondJump ==
  /\ At(CondJumps)
  /\ LET x == REGISTER(2)
     IN  IF x.is # "bool" THEN Stop("mistaken")
         ELSE /\ IF x.v = (Code[pc] \in { <<"CFJUMP">>, <<"CBJUMP">> })
                   THEN program_counter' = Target(program, pc)
                   ELSE Step
              /\ UNCHANGED <<program, frames, stack, main_frame, heap, output,
                             status>>

Write ==
  /\ At({ <<"PRINT">>, <<"PRINT_C">> })
  /\ LET x == IF Code[pc] = <<"PRINT">> THEN REGISTER(1) ELSE CONSTANT_AT(1)
     IN  IF ~ IsReadable(heap, x) THEN Stop("mistaken")
         ELSE /\ output' = Append(output, Text(heap, x))
              /\ Step
              /\ UNCHANGED <<program, frames, stack, main_frame, heap, status>>

Next ==
  \/ Exit \/ Move \/ LoadConstant \/ LoadGlobal \/ SetGlobal
  \/ Push \/ Pop \/ Get \/ Set \/ Delete \/ PushToList \/ Call \/ Return
  \/ LoadProperty \/ SetProperty \/ CastValue \/ UnaryOperation \/ Increment
  \/ BinaryOperation \/ MakeRange \/ Slice \/ Jump \/ CondJump \/ Write

Spec == Init /\ [][Next]_vars /\ WF_vars(Next)

-----------------------------------------------------------------------------
\* What the variables hold.
TypeOK ==
  /\ status \in {"running", "exited", "crashed", "aborted", "mistaken", "undefined"}
  /\ IsHeap(heap)
  /\ \A c \in DOMAIN program.constants : IsValue(heap, program.constants[c])
  /\ DOMAIN main_frame = DOMAIN program.globals
  /\ \A g \in DOMAIN main_frame : IsValue(heap, main_frame[g])
  /\ stack \in Seq(RangeOf(stack)) /\ Len(stack) <= STACK_SIZE
  /\ \A x \in RangeOf(stack) : IsValue(heap, x)
  /\ frames \in Seq(RangeOf(frames)) /\ Len(frames) <= MAX_FRAMES
  /\ \A i \in DOMAIN frames :
       /\ frames[i].return_address \in Nat
       /\ \A x \in RangeOf(frames[i].registers) : IsValue(heap, x)

(***************************************************************************)
(* The frame on top is that of the function the program counter is in, and *)
(* each return address continues the function of the frame below; the last *)
(* one is that of EXIT.                                                    *)
(***************************************************************************)
FunctionAt(i) == IF i \in program.starts THEN program.size[i] ELSE -1
FramesMatchCode ==
  status = "running" =>
    /\ program_counter \in program.starts
    /\ FunctionAt(program_counter) = Cardinality(DOMAIN Registers)
    /\ \A i \in DOMAIN frames :
         FunctionAt(frames[i].return_address) =
           IF i = 1 THEN 0 ELSE Cardinality(DOMAIN frames[i - 1].registers)

\* A program that is well formed never executes an operand as an opcode, and
\* never reads or writes a register, constant or global that is not there.
WellFormedNeverStrays == status = "running" /\ ~ Executable => ~ WellFormed(program)

\* The keys of a dictionary in their order are those that have values, once
\* each (ValueDictionary keeps them twice).
DictionariesAreCoherent ==
  \A a \in DOMAIN heap : IsDict(heap[a]) => IsCoherent(heap[a])

(***************************************************************************)
(* The two halves of a value agree wherever it is kept (Value::type says   *)
(* what Value::value holds, each instruction writes them one after the     *)
(* other, and to_string trusts the one and std::get the other): only       *)
(* SUB_FLOAT tags what it makes as something else, so that in a program    *)
(* without it all tags are true.                                           *)
(***************************************************************************)
SubtractsFloats(p) == \E i \in p.starts : p.code[i] = <<"SUB", "float">>
IsTagged(x) == x.type # x.is => IsDifference(x) /\ SubtractsFloats(program)
Held ==
  RangeOf(stack) \cup RangeOf(main_frame) \cup RangeOf(program.constants)
    \cup UNION {RangeOf(frames[i].registers) : i \in DOMAIN frames}
TagsTellVariants ==
  /\ \A x \in Held : IsTagged(x)
  /\ \A a \in DOMAIN heap : \A x \in ValuesIn(heap[a]) : IsTagged(x)

(***************************************************************************)
(* No print and no cast to string throws, whatever the value refers to,    *)
(* unless somewhere in the program two floats are subtracted: to_string    *)
(* asks each variant for what the tag next to it names, all the way down.  *)
(***************************************************************************)
Textual == { <<"PRINT">>, <<"PRINT_C">> } \cup {op \in CastOps : op[3] = "string"}
TextsDoNotThrow ==
  status = "mistaken" /\ Code[pc] \in Textual => SubtractsFloats(program)

(***************************************************************************)
(* A call finds the arguments that the function called pops, and goes on   *)
(* with as many values as what follows it counts on.  CALL looks at        *)
(* neither: it trusts the analyzer, for which function types are the same  *)
(* if their results are (Type::same_as).                                   *)
(***************************************************************************)
CallsFit ==
  At({ <<"CALL">> }) /\ CheckFunction(REGISTER(1)) = "running" =>
    LET entry == REGISTER(1).v[1]
    IN  /\ program.depth[entry] <= program.depth[pc]
        /\ program.depth[pc] - program.depth[entry] + program.gives[entry] =
             program.depth[ReturnAddress]

\* Wherever there is a value to pop, it is one that was pushed for it: the
\* stack is not empty, which POP does not check.
PopsFindValues == At({ <<"POP">> }) => stack # <<>>

\* Every argument and every result pushed has been popped when main returns.
NothingLeftOnStack == status = "exited" => stack = <<>>
-----------------------------------------------------------------------------
\* What no step does.

(***************************************************************************)
(* Whatever instruction runs, the frames below the active one are left as  *)
(* they are, the calling one by a call as well: a caller finds its         *)
(* registers as it left them (active_frame moves, nothing else does).      *)
(***************************************************************************)
CallersAreLeftAlone ==
  [][ /\ \A i \in 1 .. Len(frames) - 1 : i \in DOMAIN frames' /\ frames'[i] = frames[i]
      /\ Len(frames') > Len(frames) => frames'[Len(frames)] = Top ]_vars

(***************************************************************************)
(* An object stays what it was made as, for all who share it: a list, a    *)
(* dictionary, or an object of its class with as many properties (the type *)
(* that a value carries along is never compared with what it points to).   *)
(***************************************************************************)
ObjectsKeepTheirShape ==
  [][ \A a \in DOMAIN heap : a \in DOMAIN heap' /\ SameShape(heap[a], heap'[a]) ]_vars

(***************************************************************************)
(* The objects that cannot be reached from a register, a global, a         *)
(* constant or the stack: nothing outside them refers to them.  Their      *)
(* shared_ptr are gone, or they keep each other.  They are never heard of  *)
(* again, which is why the heap may keep them here.                        *)
(***************************************************************************)
Addresses(xs) == {x.v : x \in {y \in xs : y.is \in {"list", "dict", "object"}}}
IsDropped(A) ==
  /\ Addresses(Held) \cap A = {}
  /\ \A a \in DOMAIN heap \ A : Addresses(ValuesIn(heap[a])) \cap A = {}
Dropped == UNION {A \in SUBSET (DOMAIN heap \ Addresses(Held)) : IsDropped(A)}
DroppedStaysDropped ==
  [][ \A a \in Dropped : a \in Dropped' /\ heap'[a] = heap[a] ]_vars
=============================================================================
