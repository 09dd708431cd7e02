------------------------ MODULE VirtualMachineProofs ------------------------
(***************************************************************************)
(* Proofs about VirtualMachine.  Of a program that is well formed, every   *)
(* instruction finds its operands and leaves the machine with values of    *)
(* objects that are there, coherent dictionaries and frames that match the *)
(* code: an inductive invariant whatever the size of the program.  From it *)
(* follow that texts can be read, and three properties of its steps: the   *)
(* frames below the active one are left alone, objects keep their shape,   *)
(* and what nothing refers to is never referred to again.  The last part   *)
(* is about what is left on the stack.                                     *)
(***************************************************************************)
EXTENDS VirtualMachine, ValuesProofs

\* The function values of a program: null, and its entries.
Functions(p) ==
  {<<>>} \cup {f \in Nat \X Nat : /\ f[1] \in p.starts /\ f[1] # EndPC(p)
                                  /\ p.size[f[1]] = f[2]}
\* What its values may be.
ValuesOf(p) == [functions |-> Functions(p), differences |-> SubtractsFloats(p)]
F == ValuesOf(program)

GoodFrame(G, h, f) ==
  /\ f = [registers |-> f.registers, return_address |-> f.return_address]
  /\ \A x \in RangeOf(f.registers) : Good(G, h, x)

\* The registers of a frame are those of the function its address returns to
\* from the frame above; only main returns to EXIT.
FramesFit(p, fs) ==
  /\ \A i \in DOMAIN fs : fs[i].return_address \in p.starts
  /\ fs # <<>> => fs[1].return_address = EndPC(p)
  /\ \A i \in 2 .. Len(fs) :
       /\ DOMAIN fs[i - 1].registers = 0 .. p.size[fs[i].return_address] - 1
       /\ fs[i].return_address # EndPC(p)

CounterFits(p, fs, at) ==
  /\ at \in p.starts
  /\ fs = <<>> <=> at = EndPC(p)
  /\ fs # <<>> => DOMAIN fs[Len(fs)].registers = 0 .. p.size[at] - 1

Statuses == {"running", "exited", "crashed", "aborted", "mistaken", "undefined"}

GoodGlobals(G, h, p, m) ==
  /\ DOMAIN m = DOMAIN p.globals
  /\ \A g \in DOMAIN m : Good(G, h, m[g])
GoodStack(G, h, s) ==
  /\ s \in Seq(RangeOf(s)) /\ Len(s) <= STACK_SIZE
  /\ \A x \in RangeOf(s) : Good(G, h, x)
GoodFrames(G, h, fs) ==
  /\ fs \in Seq(RangeOf(fs)) /\ Len(fs) <= MAX_FRAMES
  /\ \A i \in DOMAIN fs : GoodFrame(G, h, fs[i])

\* The inductive invariant.
Inv ==
  /\ program \in Programs
  /\ status \in Statuses
  /\ GoodHeap(F, heap) /\ Grows(program.heap, heap)
  /\ GoodGlobals(F, heap, program, main_frame)
  /\ GoodStack(F, heap, stack)
  /\ GoodFrames(F, heap, frames)
  /\ FramesFit(program, frames)
  /\ CounterFits(program, frames, program_counter)

-----------------------------------------------------------------------------
\* The heap may grow under what holds addresses of it.

LEMMA GrowingKeeps ==
  ASSUME NEW G, NEW h, NEW later, Grows(h, later)
  PROVE  /\ \A p, m : GoodGlobals(G, h, p, m) => GoodGlobals(G, later, p, m)
         /\ \A s : GoodStack(G, h, s) => GoodStack(G, later, s)
         /\ \A fs : GoodFrames(G, h, fs) => GoodFrames(G, later, fs)
BY GoodStays DEF GoodGlobals, GoodStack, GoodFrames, GoodFrame

LEMMA SameHeapGrows ==
  ASSUME NEW h
  PROVE  Grows(h, h)
BY DEF Grows

LEMMA GrowsOn ==
  ASSUME NEW h, NEW next, NEW later, Grows(h, next), Grows(next, later)
  PROVE  Grows(h, later)
BY DEF Grows

-----------------------------------------------------------------------------
\* What a well formed program loads.

LEMMA LoadedValue ==
  ASSUME NEW p, NEW h, NEW x, IsValue(h, x), FunctionOf(p, x), x.type = x.is
  PROVE  Good(ValuesOf(p), h, x)
BY DEF Good, IsValue, FunctionOf, Functions, ValuesOf

LEMMA Loaded ==
  ASSUME NEW p, WellFormed(p)
  PROVE  /\ GoodHeap(ValuesOf(p), p.heap)
         /\ \A c \in DOMAIN p.constants : Good(ValuesOf(p), p.heap, p.constants[c])
         /\ \A g \in DOMAIN p.globals : Good(ValuesOf(p), p.heap, p.globals[g])
<1>1. IsLoaded(p)
  BY DEF WellFormed
<1>2. ASSUME NEW a \in DOMAIN p.heap PROVE GoodObject(ValuesOf(p), p.heap, p.heap[a])
  <2>1. /\ IsList(p.heap[a]) \/ IsDict(p.heap[a]) \/ IsObject(p.heap[a])
        /\ IsDict(p.heap[a]) => IsCoherent(p.heap[a])
        /\ \A x \in ValuesIn(p.heap[a]) :
             IsValue(p.heap, x) /\ FunctionOf(p, x) /\ x.type = x.is
    BY <1>1 DEF IsLoaded, IsHeap
  <2> QED BY <2>1, LoadedValue DEF GoodObject
<1>3. p.heap \in Seq(RangeOf(p.heap))
  BY <1>1 DEF IsLoaded, IsHeap
<1>4. GoodHeap(ValuesOf(p), p.heap)
  BY <1>2, <1>3 DEF GoodHeap
<1>5. /\ \A c \in DOMAIN p.constants :
           /\ IsValue(p.heap, p.constants[c]) /\ FunctionOf(p, p.constants[c])
           /\ p.constants[c].type = p.constants[c].is
      /\ \A g \in DOMAIN p.globals :
           /\ IsValue(p.heap, p.globals[g]) /\ FunctionOf(p, p.globals[g])
           /\ p.globals[g].type = p.globals[g].is
  BY <1>1 DEF IsLoaded
<1> QED BY <1>4, <1>5, LoadedValue

LEMMA FramesAreGood ==
  ASSUME NEW G, NEW h, NEW size, NEW address
  PROVE  /\ GoodFrame(G, h, NewFrame(size, address))
         /\ DOMAIN NewFrame(size, address).registers = 0 .. size - 1
         /\ NewFrame(size, address).return_address = address
<1>1. Good(G, h, IntV(0))
  <2>1. 0 \in Int
    OBVIOUS
  <2> QED BY <2>1, Scalars
<1> QED BY <1>1 DEF GoodFrame, NewFrame, RangeOf

-----------------------------------------------------------------------------
\* Initially.

LEMMA InitInv ==
  ASSUME Init, WellFormed(program)
  PROVE  Inv
<1> DEFINE h == program.heap
           strings == [i \in DOMAIN program.argv |-> StrV(program.argv[i])]
           new == ListOf(strings)
           main == program.globals[program.main]
           frame == NewFrame(main.v[2], EndPC(program))
<1>1. /\ GoodHeap(F, h)
      /\ \A g \in DOMAIN program.globals : Good(F, h, program.globals[g])
  BY Loaded DEF F
<1>2. /\ program.main \in DOMAIN program.globals
      /\ main.is = "fun" /\ main.v # <<>>
      /\ program.argv \in Seq(Seq(Nat))
  BY DEF WellFormed, IsLoaded
<1>3. GoodObject(F, h, new) /\ IsList(new)
  <2>1. /\ Len(program.argv) \in Nat /\ DOMAIN program.argv = 1 .. Len(program.argv)
        /\ \A i \in 1 .. Len(program.argv) : program.argv[i] \in Seq(Nat)
    BY <1>2, LenProperties, ElementOfSeq
  <2>2. strings \in [1 .. Len(program.argv) -> RangeOf(strings)]
    BY <2>1 DEF RangeOf
  <2>3. \A x \in RangeOf(strings) : Good(F, h, x)
    BY <2>1, Scalars DEF RangeOf
  <2> HIDE DEF strings
  <2>4. strings \in Seq(RangeOf(strings))
    BY <2>1, <2>2, MadeSequence
  <2> QED BY <2>3, <2>4, GoodLists
<1>4. heap = Append(h, new)
  BY DEF Init
<1> HIDE DEF new
<1>5. /\ h \in Seq(RangeOf(h)) /\ Len(h) \in Nat /\ DOMAIN h = 1 .. Len(h)
  BY <1>1, RangeFacts DEF GoodHeap
<1>6. /\ heap \in Seq(RangeOf(heap)) /\ DOMAIN heap = 1 .. Len(h) + 1 /\ Len(heap) = Len(h) + 1
      /\ \A i \in 1 .. Len(h) : heap[i] = h[i]
      /\ heap[Len(h) + 1] = new
  <2>1. h \in Seq(RangeOf(h) \cup {new})
    BY <1>5, SeqMonotonic
  <2>2. /\ heap \in Seq(RangeOf(h) \cup {new}) /\ Len(heap) = Len(h) + 1
        /\ \A i \in 1 .. Len(h) : heap[i] = h[i]
        /\ heap[Len(h) + 1] = new
    BY <1>4, <2>1, AppendProperties
  <2> QED BY <2>2, RangeFacts
<1>7. Grows(h, heap)
  BY <1>5, <1>6 DEF Grows
<1>8. GoodHeap(F, heap)
  <2>1. ASSUME NEW a \in DOMAIN heap PROVE GoodObject(F, heap, heap[a])
    <3>1. a \in DOMAIN h \/ a = Len(h) + 1
      BY <1>5, <1>6
    <3>2. CASE a \in DOMAIN h
      BY <1>1, <1>5, <1>6, <1>7, <3>2, GoodStays DEF GoodHeap
    <3>3. CASE a = Len(h) + 1
      BY <1>3, <1>6, <1>7, <3>3, GoodStays
    <3> QED BY <3>1, <3>2, <3>3
  <2> QED BY <1>6, <2>1 DEF GoodHeap
<1>9. GoodGlobals(F, heap, program, main_frame)
  BY <1>1, <1>7, GoodStays DEF GoodGlobals, Init
<1>10. GoodStack(F, heap, stack)
  <2>1. Len(heap) \in DOMAIN heap /\ heap[Len(heap)] = new
    BY <1>5, <1>6
  <2>2. Good(F, heap, Make("list", Len(heap)))
    BY <1>3, <2>1, References
  <2>3. stack = << Make("list", Len(heap)) >>
    BY DEF Init
  <2>4. \A x \in RangeOf(stack) : Good(F, heap, x)
    BY <2>2, <2>3, Single DEF RangeOf
  <2>5. stack \in Seq(RangeOf(stack)) /\ Len(stack) = 1
    BY <2>3, Single
  <2> QED BY <2>4, <2>5, MachineAssumption DEF GoodStack
<1>11. frames = << frame >> /\ program_counter = main.v[1]
  BY DEF Init
<1>12. GoodFrames(F, heap, frames)
  BY <1>11, Single, FramesAreGood, MachineAssumption DEF GoodFrames
<1>13. EndPC(program) \in program.starts
  BY DEF WellFormed
<1>14. FramesFit(program, frames)
  BY SMTT(20), <1>11, <1>13, Single, FramesAreGood DEF FramesFit
<1>15. CounterFits(program, frames, program_counter)
  <2>1. main.v[1] \in program.starts /\ program.size[main.v[1]] = main.v[2]
    BY <1>1, <1>2 DEF Good, F, ValuesOf, Functions
  <2>2. main.v[1] # EndPC(program)
    BY <1>1, <1>2 DEF Good, F, ValuesOf, Functions
  <2> QED BY <1>11, <2>1, <2>2, Single, FramesAreGood DEF CounterFits
<1>16. program \in Programs /\ status \in Statuses
  BY DEF Init, Statuses
<1> QED BY <1>7, <1>8, <1>9, <1>10, <1>12, <1>14, <1>15, <1>16 DEF Inv

-----------------------------------------------------------------------------
\* The operands of the opcodes.

OneRegister == { <<"PUSH">>, <<"POP">>, <<"CALL">>, <<"IINC">>, <<"IDEC">>, <<"PRINT">> }
OneConstant == { <<"PUSH_C">>, <<"PRINT_C">> }
RegisterAndConstant == { <<"LOAD_C">>, <<"LPUSH_C">> }
TwoRegisters == { <<"MOVE">>, <<"LPUSH">> } \cup DeleteOps \cup CastOps \cup UnaryOps
ThreeRegisters == GetOps \cup SetOps \cup BinaryOps \cup RangeOps

LEMMA OperandsOf ==
  ASSUME NEW op
  PROVE  /\ op \in { <<"EXIT">>, <<"RETURN">> } => Operands(op) = <<>>
         /\ op \in OneRegister => Operands(op) = << "reg" >>
         /\ op \in OneConstant => Operands(op) = << "const" >>
         /\ op \in RegisterAndConstant => Operands(op) = << "reg", "const" >>
         /\ op = <<"LOAD_G">> => Operands(op) = << "reg", "global" >>
         /\ op = <<"SET_G">> => Operands(op) = << "global", "reg" >>
         /\ op = <<"LPROP">> => Operands(op) = << "reg", "reg", "prop" >>
         /\ op = <<"SPROP">> => Operands(op) = << "prop", "reg", "reg" >>
         /\ op \in Jumps => Operands(op) = << "literal" >>
         /\ op \in CondJumps => Operands(op) = << "literal", "reg" >>
         /\ op \in TwoRegisters => Operands(op) = << "reg", "reg" >>
         /\ op \in ThreeRegisters => Operands(op) = << "reg", "reg", "reg" >>
         /\ op \in SliceOps => Operands(op) \in { << "reg", "reg", "reg", "reg" >>,
                                                << "reg", "reg", "reg", "reg", "reg" >> }
<1>1. op \in { <<"EXIT">>, <<"RETURN">> } => op[1] \in {"EXIT", "RETURN"}
  OBVIOUS
<1>2. op \in OneRegister => op[1] \in {"PUSH", "POP", "CALL", "IINC", "IDEC", "PRINT"}
  BY DEF OneRegister
<1>3. op \in OneConstant => op[1] \in {"PUSH_C", "PRINT_C"}
  BY DEF OneConstant
<1>4. op \in RegisterAndConstant => op[1] \in {"LOAD_C", "LPUSH_C"}
  BY DEF RegisterAndConstant
<1>5. /\ op = <<"LOAD_G">> => op[1] = "LOAD_G"
      /\ op = <<"SET_G">> => op[1] = "SET_G"
      /\ op = <<"LPROP">> => op[1] = "LPROP"
      /\ op = <<"SPROP">> => op[1] = "SPROP"
  OBVIOUS
<1>6. op \in Jumps => op[1] \in {"FJUMP", "BJUMP"}
  BY DEF Jumps
<1>7. op \in CondJumps => op[1] \in {"CFJUMP", "CBJUMP", "CFNJUMP", "CBNJUMP"}
  BY DEF CondJumps
<1>8. op \in TwoRegisters
        => op[1] \in {"MOVE", "LPUSH", "SDELETE", "LDELETE", "DDELETE", "CAST", "NEG", "MINUS",
                      "PLUS"}
  BY DEF TwoRegisters, DeleteOps, CastOps, UnaryOps
<1>9. op \in ThreeRegisters
        => op[1] \in {"SGET", "LGET", "DKEY", "DGET", "SSET", "LSET", "DSET", "RANGEE", "RANGEI",
                      "ADD", "SUB", "MUL", "DIV", "EQ", "NEQ", "HT", "HTE", "LT", "LTE", "OR", "AND"}
  BY DEF ThreeRegisters, GetOps, SetOps, RangeOps, BinaryOps, ArithmeticOps, EqualityOps,
         OrderOps, LogicalOps
<1>10. op \in SliceOps => op[1] \in {"SSLICEE", "LSLICEE", "SSLICE", "LSLICE"}
  BY DEF SliceOps
<1>11. op \in { <<"EXIT">>, <<"RETURN">> } => Operands(op) = <<>>
  BY <1>1 DEF Operands
<1>12. op \in OneRegister => Operands(op) = << "reg" >>
  BY <1>2 DEF Operands
<1>13. op \in OneConstant => Operands(op) = << "const" >>
  BY <1>3 DEF Operands
<1>14. op \in RegisterAndConstant => Operands(op) = << "reg", "const" >>
  BY <1>4 DEF Operands
<1>15. op = <<"LOAD_G">> => Operands(op) = << "reg", "global" >>
  BY <1>5 DEF Operands
<1>16. op = <<"SET_G">> => Operands(op) = << "global", "reg" >>
  BY <1>5 DEF Operands
<1>17. op = <<"LPROP">> => Operands(op) = << "reg", "reg", "prop" >>
  BY <1>5 DEF Operands
<1>18. op = <<"SPROP">> => Operands(op) = << "prop", "reg", "reg" >>
  BY <1>5 DEF Operands
<1>19. op \in Jumps => Operands(op) = << "literal" >>
  BY <1>6 DEF Operands
<1>20. op \in CondJumps => Operands(op) = << "literal", "reg" >>
  BY <1>7 DEF Operands
<1>21. op \in TwoRegisters => Operands(op) = << "reg", "reg" >>
  BY <1>8 DEF Operands
<1>22. op \in ThreeRegisters => Operands(op) = << "reg", "reg", "reg" >>
  BY <1>9 DEF Operands
<1>23. op \in SliceOps => Operands(op) \in { << "reg", "reg", "reg", "reg" >>,
                                             << "reg", "reg", "reg", "reg", "reg" >> }
  BY <1>10 DEF Operands
<1> QED
  BY <1>11, <1>12, <1>13, <1>14, <1>15, <1>16, <1>17, <1>18, <1>19, <1>20, <1>21, <1>22, <1>23

\* Instructions that control goes on after.
Straight ==
  OneRegister \cup OneConstant \cup RegisterAndConstant
    \cup { <<"LOAD_G">>, <<"SET_G">>, <<"LPROP">>, <<"SPROP">> }
    \cup TwoRegisters \cup ThreeRegisters

LEMMA StraightOps ==
  ASSUME NEW op \in Straight
  PROVE  op \notin { <<"EXIT">>, <<"RETURN">> } /\ op \notin Jumps /\ op \notin CondJumps
<1>1. op[1] \notin {"EXIT", "RETURN", "FJUMP", "BJUMP", "CFJUMP", "CBJUMP", "CFNJUMP", "CBNJUMP"}
  <2>1. CASE op \in OneRegister \cup OneConstant \cup RegisterAndConstant
               \cup { <<"LOAD_G">>, <<"SET_G">>, <<"LPROP">>, <<"SPROP">> }
    BY <2>1 DEF OneRegister, OneConstant, RegisterAndConstant
  <2>2. CASE op \in TwoRegisters
    BY <2>2 DEF TwoRegisters, DeleteOps, CastOps, UnaryOps
  <2>3. CASE op \in ThreeRegisters
    BY <2>3 DEF ThreeRegisters, GetOps, SetOps, RangeOps, BinaryOps, ArithmeticOps, EqualityOps,
                OrderOps, LogicalOps
  <2> QED BY <2>1, <2>2, <2>3 DEF Straight
<1>2. op \in Jumps => op[1] \in {"FJUMP", "BJUMP"}
  BY DEF Jumps
<1>3. op \in CondJumps => op[1] \in {"CFJUMP", "CBJUMP", "CFNJUMP", "CBNJUMP"}
  BY DEF CondJumps
<1>4. op \in { <<"EXIT">>, <<"RETURN">> } => op[1] \in {"EXIT", "RETURN"}
  OBVIOUS
<1> QED BY <1>1, <1>2, <1>3, <1>4

LEMMA AllOpcodes ==
  Opcodes = { <<"EXIT">>, <<"RETURN">> } \cup Jumps \cup CondJumps \cup SliceOps \cup Straight
BY DEF Opcodes, Straight, OneRegister, OneConstant, RegisterAndConstant, TwoRegisters, ThreeRegisters

LEMMA WidthIsNat ==
  ASSUME NEW op \in Opcodes
  PROVE  Len(Operands(op)) \in Nat /\ Width(op) = 1 + Len(Operands(op))
<1>1. Operands(op) \in
        { <<>>, << "reg" >>, << "const" >>, << "reg", "const" >>, << "reg", "global" >>,
          << "global", "reg" >>, << "reg", "reg", "prop" >>, << "prop", "reg", "reg" >>,
          << "literal" >>, << "literal", "reg" >>, << "reg", "reg" >>,
          << "reg", "reg", "reg" >>, << "reg", "reg", "reg", "reg" >>,
          << "reg", "reg", "reg", "reg", "reg" >> }
  <2>1. CASE op \in { <<"EXIT">>, <<"RETURN">> } \cup Jumps \cup CondJumps
    BY <2>1, OperandsOf
  <2>2. CASE op \in SliceOps
    BY <2>2, OperandsOf
  <2>3. CASE op \in Straight
    BY <2>3, OperandsOf DEF Straight
  <2> QED BY <2>1, <2>2, <2>3, AllOpcodes
<1>2. Len(Operands(op)) \in 0 .. 5
  BY <1>1
<1> QED BY <1>2 DEF Width

LEMMA GoesOn ==
  ASSUME NEW p, WellFormed(p), NEW i \in p.starts, p.code[i] \in Straight
  PROVE  /\ i + Width(p.code[i]) \in p.starts /\ i + Width(p.code[i]) # EndPC(p)
         /\ p.size[i + Width(p.code[i])] = p.size[i]
<1>1. Successors(p, i) = {i + Width(p.code[i])}
  BY StraightOps DEF Successors
<1>2. \A j \in Successors(p, i) : j \in p.starts /\ j # EndPC(p) /\ p.size[j] = p.size[i]
  BY DEF WellFormed, WellFormedAt
<1> QED BY <1>1, <1>2

\* The registers are those of the function that the counter is in.
LEMMA TheRegisters ==
  ASSUME Inv, WellFormed(program)
  PROVE  /\ program_counter \in program.starts
         /\ DOMAIN Registers = 0 .. program.size[program_counter] - 1
         /\ frames = <<>> => Code[pc] = <<"EXIT">>
         /\ frames # <<>> => Registers = Top.registers
<1>1. CounterFits(program, frames, program_counter)
  BY DEF Inv
<1>2. CASE frames = <<>>
  <2>1. program_counter = EndPC(program)
    BY <1>1, <1>2 DEF CounterFits
  <2>2. program.size[EndPC(program)] = 0 /\ program.code[EndPC(program)] = <<"EXIT">>
    BY DEF WellFormed
  <2>3. DOMAIN Registers = {}
    BY <1>2 DEF Registers
  <2>4. 0 .. 0 - 1 = {}
    OBVIOUS
  <2> QED BY <1>1, <1>2, <2>1, <2>2, <2>3, <2>4 DEF CounterFits, Code, pc
<1>3. CASE frames # <<>>
  BY <1>1, <1>3 DEF CounterFits, Registers, Top
<1> QED BY <1>2, <1>3

LEMMA InvExecutable ==
  ASSUME Inv, WellFormed(program)
  PROVE  Executable
<1> DEFINE op == program.code[program_counter]
<1>1. program_counter \in program.starts /\ DOMAIN Registers = 0 .. program.size[program_counter] - 1
  BY TheRegisters
<1>2. WellFormedAt(program, program_counter)
  BY <1>1 DEF WellFormed
<1>3. op \in Opcodes
  BY <1>2 DEF WellFormedAt
<1>4. Width(op) - 1 = Len(Operands(op))
  BY <1>3, WidthIsNat
<1>5. DOMAIN main_frame = DOMAIN program.globals
  BY DEF Inv, GoodGlobals
<1>6. ASSUME NEW k \in 1 .. Width(op) - 1 PROVE OperandExists(k)
  <2> DEFINE kind == Operands(op)[k]
  <2>1. /\ kind = "reg" => program.code[program_counter + k] \in DOMAIN Registers
        /\ kind = "const" => program.code[program_counter + k] \in DOMAIN program.constants
        /\ kind = "global" => program.code[program_counter + k] \in DOMAIN main_frame
    BY <1>1, <1>2, <1>4, <1>5 DEF WellFormedAt
  <2> HIDE DEF kind
  <2>2. OperandExists(k) =
          CASE kind = "reg" -> program.code[program_counter + k] \in DOMAIN Registers
            [] kind = "const" -> program.code[program_counter + k] \in DOMAIN program.constants
            [] kind = "global" -> program.code[program_counter + k] \in DOMAIN main_frame
            [] OTHER -> TRUE
    BY DEF OperandExists, Operand, kind, Code, pc
  <2> QED BY <2>1, <2>2
<1>7. op = <<"RETURN">> => frames # <<>>
  BY TheRegisters DEF Code, pc
<1> QED BY <1>1, <1>6, <1>7 DEF Executable, Code, pc

-----------------------------------------------------------------------------
\* What the operands hold.

LEMMA RegisterOperand ==
  ASSUME Inv, WellFormed(program), NEW k \in 1 .. Len(Operands(Code[pc])),
         Operands(Code[pc])[k] = "reg"
  PROVE  Operand(k) \in DOMAIN Registers /\ Good(F, heap, REGISTER(k)) /\ frames # <<>>
<1>1. /\ program_counter \in program.starts
      /\ DOMAIN Registers = 0 .. program.size[program_counter] - 1
  BY TheRegisters
<1>2. Operand(k) \in DOMAIN Registers
  BY <1>1 DEF WellFormed, WellFormedAt, Operand, Code, pc
<1>3. frames # <<>>
  <2> SUFFICES ASSUME frames = <<>> PROVE FALSE
    OBVIOUS
  <2> QED BY <1>2 DEF Registers
<1>4. Len(frames) \in DOMAIN frames /\ GoodFrame(F, heap, frames[Len(frames)])
  <2>1. frames \in Seq(RangeOf(frames)) /\ \A i \in DOMAIN frames : GoodFrame(F, heap, frames[i])
    BY DEF Inv, GoodFrames
  <2>2. Len(frames) \in Nat \ {0} /\ DOMAIN frames = 1 .. Len(frames)
    BY <1>3, <2>1, EmptySeq, LenProperties
  <2> QED BY <2>1, <2>2
<1>5. Registers = frames[Len(frames)].registers
  BY <1>3 DEF Registers, Top
<1> QED BY <1>2, <1>3, <1>4, <1>5 DEF GoodFrame, RangeOf, REGISTER

LEMMA ConstantOperand ==
  ASSUME Inv, WellFormed(program), NEW k \in 1 .. Len(Operands(Code[pc])),
         Operands(Code[pc])[k] = "const"
  PROVE  Good(F, heap, CONSTANT_AT(k))
<1>1. program_counter \in program.starts
  BY TheRegisters
<1>2. Operand(k) \in DOMAIN program.constants
  BY <1>1 DEF WellFormed, WellFormedAt, Operand, Code, pc
<1>3. Good(F, program.heap, CONSTANT_AT(k))
  BY <1>2, Loaded DEF F, CONSTANT_AT
<1> QED BY <1>3, GoodStays DEF Inv

LEMMA GlobalOperand ==
  ASSUME Inv, WellFormed(program), NEW k \in 1 .. Len(Operands(Code[pc])),
         Operands(Code[pc])[k] = "global"
  PROVE  Operand(k) \in DOMAIN main_frame /\ Good(F, heap, main_frame[Operand(k)])
<1>1. program_counter \in program.starts
  BY TheRegisters
<1>2. Operand(k) \in DOMAIN program.globals
  BY <1>1 DEF WellFormed, WellFormedAt, Operand, Code, pc
<1> QED BY <1>2 DEF Inv, GoodGlobals

-----------------------------------------------------------------------------
\* The end of an instruction.

LEMMA TopFrame ==
  ASSUME NEW G, NEW h, GoodFrames(G, h, frames), frames # <<>>
  PROVE  /\ Len(frames) \in Nat \ {0} /\ DOMAIN frames = 1 .. Len(frames)
         /\ GoodFrame(G, h, Top)
<1>1. frames \in Seq(RangeOf(frames)) /\ \A i \in DOMAIN frames : GoodFrame(G, h, frames[i])
  BY DEF GoodFrames
<1>2. Len(frames) \in Nat \ {0} /\ DOMAIN frames = 1 .. Len(frames)
  BY <1>1, EmptySeq, LenProperties
<1> QED BY <1>1, <1>2 DEF Top

LEMMA RegisterWritten ==
  ASSUME NEW G, NEW h, GoodFrames(G, h, frames), frames # <<>>,
         NEW r \in DOMAIN Top.registers, NEW x, Good(G, h, x), NEW p
  PROVE  /\ GoodFrames(G, h, WithRegister(r, x))
         /\ FramesFit(p, frames) => FramesFit(p, WithRegister(r, x))
         /\ \A at : CounterFits(p, frames, at) => CounterFits(p, WithRegister(r, x), at)
<1> DEFINE n == Len(frames)
           f == [registers |-> [Top.registers EXCEPT ![r] = x],
                 return_address |-> Top.return_address]
           fs == [frames EXCEPT ![n] = f]
           S == RangeOf(frames) \cup {f}
<1>1. /\ n \in Nat \ {0} /\ DOMAIN frames = 1 .. n /\ GoodFrame(G, h, Top)
      /\ frames \in Seq(RangeOf(frames)) /\ n <= MAX_FRAMES
      /\ \A i \in DOMAIN frames : GoodFrame(G, h, frames[i])
  BY TopFrame DEF GoodFrames
<1>2. WithRegister(r, x) = fs
  BY DEF WithRegister
<1>3. /\ GoodFrame(G, h, f) /\ DOMAIN f.registers = DOMAIN Top.registers
      /\ f.return_address = Top.return_address
  BY <1>1 DEF GoodFrame, RangeOf
<1> HIDE DEF f
<1>4. frames \in Seq(S)
  BY <1>1, SeqMonotonic
<1>5. n \in 1 .. n
  BY <1>1
<1>6. fs \in Seq(S) /\ Len(fs) = n
  BY <1>4, <1>5, ExceptSeq
<1>7. /\ DOMAIN fs = 1 .. n /\ fs[n] = f
      /\ \A i \in 1 .. n : i # n => fs[i] = frames[i]
  BY <1>1, <1>5
<1>8. \A i \in 1 .. n : /\ GoodFrame(G, h, fs[i])
                       /\ DOMAIN fs[i].registers = DOMAIN frames[i].registers
                       /\ fs[i].return_address = frames[i].return_address
  BY <1>1, <1>3, <1>7 DEF Top
<1> HIDE DEF fs
<1>9. GoodFrames(G, h, fs)
  <2>1. fs \in Seq(RangeOf(fs))
    BY <1>6, RangeFacts
  <2> QED BY <1>1, <1>6, <1>7, <1>8, <2>1 DEF GoodFrames
<1>10. fs # <<>>
  BY <1>1, <1>6
<1>11. FramesFit(p, frames) => FramesFit(p, fs)
  <2>1. 1 \in 1 .. n /\ \A i \in 2 .. n : i \in 1 .. n /\ i - 1 \in 1 .. n
    BY <1>1
  <2> QED BY <1>1, <1>6, <1>7, <1>8, <2>1 DEF FramesFit
<1>12. \A at : CounterFits(p, frames, at) => CounterFits(p, fs, at)
  BY <1>1, <1>5, <1>6, <1>8, <1>10 DEF CounterFits
<1> QED BY <1>2, <1>9, <1>11, <1>12

LEMMA StopKeeps ==
  ASSUME Inv, NEW how \in Statuses, Stop(how)
  PROVE  Inv'
BY DEF Inv, Stop, F

LEMMA StepFits ==
  ASSUME Inv, WellFormed(program), Code[pc] \in Straight
  PROVE  \A fs : CounterFits(program, fs, program_counter) /\ fs # <<>>
                   => CounterFits(program, fs, program_counter + Width(Code[pc]))
<1>1. program_counter \in program.starts
  BY TheRegisters
<1>2. /\ program_counter + Width(Code[pc]) \in program.starts
      /\ program_counter + Width(Code[pc]) # EndPC(program)
      /\ program.size[program_counter + Width(Code[pc])] = program.size[program_counter]
  BY <1>1, GoesOn DEF Code, pc
<1> QED BY <1>2 DEF CounterFits

\* An instruction with a good outcome, for a register of its frame.
LEMMA FinishKeeps ==
  ASSUME Inv, WellFormed(program), Code[pc] \in Straight,
         NEW r \in DOMAIN Registers, NEW outcome, GoodOutcome(F, heap, outcome),
         Finish(r, outcome)
  PROVE  Inv'
<1>1. frames # <<>> /\ Registers = Top.registers
  <2>1. Code[pc] # <<"EXIT">>
    BY StraightOps
  <2> QED BY <2>1, TheRegisters
<1>2. CASE outcome.how \in Ends
  <2>1. Stop(outcome.how)
    BY <1>2 DEF Finish, Ends
  <2>2. outcome.how \in Statuses
    BY <1>2 DEF Ends, Statuses
  <2> QED BY <2>1, <2>2, StopKeeps
<1>3. CASE outcome.how = "value"
  <2>1. Good(F, heap, outcome.value)
    BY <1>3 DEF GoodOutcome, Ends
  <2>2. /\ frames' = WithRegister(r, outcome.value)
        /\ program_counter' = program_counter + Width(Code[pc])
        /\ UNCHANGED <<program, stack, main_frame, heap, output, status>>
    BY <1>3 DEF Finish, Step, pc
  <2>3. /\ GoodFrames(F, heap, WithRegister(r, outcome.value))
        /\ FramesFit(program, WithRegister(r, outcome.value))
        /\ CounterFits(program, WithRegister(r, outcome.value), program_counter)
    BY <1>1, <2>1, RegisterWritten DEF Inv
  <2>4. WithRegister(r, outcome.value) # <<>>
    <3>1. frames # <<>> /\ GoodFrames(F, heap, frames)
      BY <1>1 DEF Inv
    <3>2. DOMAIN WithRegister(r, outcome.value) = 1 .. Len(frames) /\ Len(frames) \in Nat \ {0}
      BY <3>1, TopFrame DEF WithRegister
    <3>3. 1 \in DOMAIN WithRegister(r, outcome.value)
      BY <3>2
    <3> QED BY <3>3
  <2>5. CounterFits(program, WithRegister(r, outcome.value), program_counter + Width(Code[pc]))
    BY <2>3, <2>4, StepFits
  <2> QED BY <2>2, <2>3, <2>5 DEF Inv, F
<1>4. CASE outcome.how = "new"
  <2> DEFINE later == heap \o outcome.objects
             x == Make(outcome.type, Len(heap) + Len(outcome.objects))
  <2>1. GoodHeap(F, later) /\ Grows(heap, later) /\ Good(F, later, x)
    BY <1>4, HeapAfterNew DEF Inv
  <2>2. /\ heap' = later /\ frames' = WithRegister(r, x)
        /\ program_counter' = program_counter + Width(Code[pc])
        /\ UNCHANGED <<program, stack, main_frame, output, status>>
    BY <1>4 DEF Finish, Step, pc
  <2> HIDE DEF later, x
  <2>3. /\ GoodGlobals(F, later, program, main_frame) /\ GoodStack(F, later, stack)
        /\ GoodFrames(F, later, frames) /\ Grows(program.heap, later)
    BY <2>1, GrowingKeeps, GrowsOn DEF Inv
  <2>4. /\ GoodFrames(F, later, WithRegister(r, x))
        /\ FramesFit(program, WithRegister(r, x))
        /\ CounterFits(program, WithRegister(r, x), program_counter)
    BY <1>1, <2>1, <2>3, RegisterWritten DEF Inv
  <2>5. WithRegister(r, x) # <<>>
    <3>1. DOMAIN WithRegister(r, x) = 1 .. Len(frames) /\ Len(frames) \in Nat \ {0}
      BY <1>1, <2>3, TopFrame DEF WithRegister
    <3>2. 1 \in DOMAIN WithRegister(r, x)
      BY <3>1
    <3> QED BY <3>2
  <2>6. CounterFits(program, WithRegister(r, x), program_counter + Width(Code[pc]))
    BY <2>4, <2>5, StepFits
  <2> QED BY <2>1, <2>2, <2>3, <2>4, <2>6 DEF Inv, F
<1>5. CASE outcome.how = "store"
  <2> DEFINE later == [heap EXCEPT ![outcome.address] = outcome.object]
  <2>1. GoodHeap(F, later) /\ Grows(heap, later)
    BY <1>5, HeapAfterStore DEF Inv
  <2>2. /\ heap' = later /\ program_counter' = program_counter + Width(Code[pc])
        /\ UNCHANGED <<program, frames, stack, main_frame, output, status>>
    BY <1>5 DEF Finish, Step, pc
  <2> HIDE DEF later
  <2>3. /\ GoodGlobals(F, later, program, main_frame) /\ GoodStack(F, later, stack)
        /\ GoodFrames(F, later, frames) /\ Grows(program.heap, later)
    BY <2>1, GrowingKeeps, GrowsOn DEF Inv
  <2>4. CounterFits(program, frames, program_counter + Width(Code[pc]))
    BY <1>1, StepFits DEF Inv
  <2> QED BY <2>1, <2>2, <2>3, <2>4 DEF Inv, F
<1> QED BY <1>2, <1>3, <1>4, <1>5 DEF GoodOutcome

-----------------------------------------------------------------------------
\* The actions.

\* The operands of an instruction that has two or three registers.
LEMMA ThreeOperands ==
  ASSUME Inv, WellFormed(program), Code[pc] \in ThreeRegisters
  PROVE  /\ Operand(1) \in DOMAIN Registers
         /\ Good(F, heap, REGISTER(1)) /\ Good(F, heap, REGISTER(2)) /\ Good(F, heap, REGISTER(3))
         /\ Code[pc] \in Straight
<1>1. Operands(Code[pc]) = << "reg", "reg", "reg" >>
  BY OperandsOf
<1>2. \A k \in 1 .. 3 : k \in 1 .. Len(Operands(Code[pc])) /\ Operands(Code[pc])[k] = "reg"
  BY <1>1
<1>3. \A k \in 1 .. 3 : Operand(k) \in DOMAIN Registers /\ Good(F, heap, REGISTER(k))
  BY <1>2, RegisterOperand
<1> QED BY <1>3 DEF Straight

LEMMA TwoOperands ==
  ASSUME Inv, WellFormed(program), Code[pc] \in TwoRegisters
  PROVE  /\ Operand(1) \in DOMAIN Registers
         /\ Good(F, heap, REGISTER(1)) /\ Good(F, heap, REGISTER(2))
         /\ Code[pc] \in Straight
<1>1. Operands(Code[pc]) = << "reg", "reg" >>
  BY OperandsOf
<1>2. \A k \in 1 .. 2 : k \in 1 .. Len(Operands(Code[pc])) /\ Operands(Code[pc])[k] = "reg"
  BY <1>1
<1>3. \A k \in 1 .. 2 : Operand(k) \in DOMAIN Registers /\ Good(F, heap, REGISTER(k))
  BY <1>2, RegisterOperand
<1> QED BY <1>3 DEF Straight

LEMMA OneOperand ==
  ASSUME Inv, WellFormed(program), Code[pc] \in OneRegister
  PROVE  /\ Operand(1) \in DOMAIN Registers /\ Good(F, heap, REGISTER(1))
         /\ Code[pc] \in Straight
<1>1. Operands(Code[pc]) = << "reg" >>
  BY OperandsOf
<1>2. 1 \in 1 .. Len(Operands(Code[pc])) /\ Operands(Code[pc])[1] = "reg"
  BY <1>1
<1> QED BY <1>2, RegisterOperand DEF Straight

LEMMA OperandAndConstant ==
  ASSUME Inv, WellFormed(program), Code[pc] \in RegisterAndConstant
  PROVE  /\ Operand(1) \in DOMAIN Registers /\ Good(F, heap, REGISTER(1))
         /\ Good(F, heap, CONSTANT_AT(2))
         /\ Code[pc] \in Straight
<1>1. Operands(Code[pc]) = << "reg", "const" >>
  BY OperandsOf
<1>2. /\ 1 \in 1 .. Len(Operands(Code[pc])) /\ Operands(Code[pc])[1] = "reg"
      /\ 2 \in 1 .. Len(Operands(Code[pc])) /\ Operands(Code[pc])[2] = "const"
  BY <1>1
<1> QED BY <1>2, RegisterOperand, ConstantOperand DEF Straight

LEMMA ConstantOnly ==
  ASSUME Inv, WellFormed(program), Code[pc] \in OneConstant
  PROVE  Good(F, heap, CONSTANT_AT(1)) /\ Code[pc] \in Straight
<1>1. Operands(Code[pc]) = << "const" >>
  BY OperandsOf
<1>2. 1 \in 1 .. Len(Operands(Code[pc])) /\ Operands(Code[pc])[1] = "const"
  BY <1>1
<1> QED BY <1>2, ConstantOperand DEF Straight

\* Loads, moves and the instructions on data.
LEMMA MoveKeeps ==
  ASSUME Inv, WellFormed(program), Move
  PROVE  Inv'
<1>1. Code[pc] \in TwoRegisters
  BY DEF Move, At, TwoRegisters
<1> QED BY <1>1, TwoOperands, SimpleOutcomes, FinishKeeps DEF Move

LEMMA LoadConstantKeeps ==
  ASSUME Inv, WellFormed(program), LoadConstant
  PROVE  Inv'
<1>1. Code[pc] \in RegisterAndConstant
  BY DEF LoadConstant, At, RegisterAndConstant
<1> QED BY <1>1, OperandAndConstant, SimpleOutcomes, FinishKeeps DEF LoadConstant

LEMMA LoadGlobalKeeps ==
  ASSUME Inv, WellFormed(program), LoadGlobal
  PROVE  Inv'
<1>1. Operands(Code[pc]) = << "reg", "global" >> /\ Code[pc] \in Straight
  BY OperandsOf DEF LoadGlobal, At, Straight
<1>2. /\ 1 \in 1 .. Len(Operands(Code[pc])) /\ Operands(Code[pc])[1] = "reg"
      /\ 2 \in 1 .. Len(Operands(Code[pc])) /\ Operands(Code[pc])[2] = "global"
  BY <1>1
<1>3. Operand(1) \in DOMAIN Registers /\ Good(F, heap, main_frame[Operand(2)])
  BY <1>2, RegisterOperand, GlobalOperand
<1> QED BY <1>1, <1>3, SimpleOutcomes, FinishKeeps DEF LoadGlobal

LEMMA GetKeeps ==
  ASSUME Inv, WellFormed(program), Get
  PROVE  Inv'
<1> DEFINE x == REGISTER(2)
           i == REGISTER(3)
           outcome == CASE Code[pc] = <<"SGET">> -> StringGet(x, i)
                        [] Code[pc] = <<"LGET">> -> ListGet(heap, x, i)
                        [] Code[pc] = <<"DKEY">> -> DictKey(heap, x, i)
                        [] Code[pc] = <<"DGET">> -> DictGet(heap, x, i)
<1>1. Code[pc] \in GetOps /\ Code[pc] \in ThreeRegisters
  BY DEF Get, At, ThreeRegisters
<1>2. Operand(1) \in DOMAIN Registers /\ Good(F, heap, x) /\ Good(F, heap, i) /\ Code[pc] \in Straight
  BY <1>1, ThreeOperands
<1>3. GoodHeap(F, heap)
  BY DEF Inv
<1>4. /\ GoodOutcome(F, heap, StringGet(x, i)) /\ GoodOutcome(F, heap, ListGet(heap, x, i))
      /\ GoodOutcome(F, heap, DictKey(heap, x, i)) /\ GoodOutcome(F, heap, DictGet(heap, x, i))
  BY <1>2, <1>3, StringGetIsGood, ListGetIsGood, DictKeyIsGood, DictGetIsGood
<1>5. Finish(Operand(1), outcome)
  BY DEF Get
<1>6. GoodOutcome(F, heap, outcome)
  BY <1>1, <1>4 DEF GetOps
<1> QED BY <1>2, <1>5, <1>6, FinishKeeps

LEMMA SetKeeps ==
  ASSUME Inv, WellFormed(program), Set
  PROVE  Inv'
<1> DEFINE x == REGISTER(1)
           i == REGISTER(2)
           y == REGISTER(3)
           outcome == CASE Code[pc] = <<"SSET">> -> StringSet(x, i, y)
                        [] Code[pc] = <<"LSET">> -> ListSet(heap, x, i, y)
                        [] Code[pc] = <<"DSET">> -> DictSet(heap, x, i, y)
<1>1. Code[pc] \in SetOps /\ Code[pc] \in ThreeRegisters
  BY DEF Set, At, ThreeRegisters
<1>2. /\ Operand(1) \in DOMAIN Registers /\ Code[pc] \in Straight
      /\ Good(F, heap, x) /\ Good(F, heap, i) /\ Good(F, heap, y)
  BY <1>1, ThreeOperands
<1>3. GoodHeap(F, heap)
  BY DEF Inv
<1>4. /\ GoodOutcome(F, heap, StringSet(x, i, y)) /\ GoodOutcome(F, heap, ListSet(heap, x, i, y))
      /\ GoodOutcome(F, heap, DictSet(heap, x, i, y))
  BY <1>2, <1>3, StringSetIsGood, ListSetIsGood, DictSetIsGood
<1>5. Finish(Operand(1), outcome)
  BY DEF Set
<1>6. GoodOutcome(F, heap, outcome)
  BY <1>1, <1>4 DEF SetOps
<1> QED BY <1>2, <1>5, <1>6, FinishKeeps

LEMMA DeleteKeeps ==
  ASSUME Inv, WellFormed(program), Delete
  PROVE  Inv'
<1> DEFINE x == REGISTER(1)
           i == REGISTER(2)
           outcome == CASE Code[pc] = <<"SDELETE">> -> StringDelete(x, i)
                        [] Code[pc] = <<"LDELETE">> -> ListDelete(heap, x, i)
                        [] Code[pc] = <<"DDELETE">> -> DictDelete(heap, x, i)
<1>1. Code[pc] \in DeleteOps /\ Code[pc] \in TwoRegisters
  BY DEF Delete, At, TwoRegisters
<1>2. /\ Operand(1) \in DOMAIN Registers /\ Code[pc] \in Straight
      /\ Good(F, heap, x) /\ Good(F, heap, i)
  BY <1>1, TwoOperands
<1>3. GoodHeap(F, heap)
  BY DEF Inv
<1>4. /\ GoodOutcome(F, heap, StringDelete(x, i)) /\ GoodOutcome(F, heap, ListDelete(heap, x, i))
      /\ GoodOutcome(F, heap, DictDelete(heap, x, i))
  BY <1>2, <1>3, StringDeleteIsGood, ListDeleteIsGood, DictDeleteIsGood
<1>5. Finish(Operand(1), outcome)
  BY DEF Delete
<1>6. GoodOutcome(F, heap, outcome)
  BY <1>1, <1>4 DEF DeleteOps
<1> QED BY <1>2, <1>5, <1>6, FinishKeeps

LEMMA PushToListKeeps ==
  ASSUME Inv, WellFormed(program), PushToList
  PROVE  Inv'
<1>1. GoodHeap(F, heap)
  BY DEF Inv
<1>2. CASE Code[pc] = <<"LPUSH">>
  <2>1. Code[pc] \in TwoRegisters
    BY <1>2 DEF TwoRegisters
  <2>2. Finish(Operand(1), ListPush(heap, REGISTER(1), REGISTER(2)))
    BY <1>2 DEF PushToList
  <2> QED BY <1>1, <2>1, <2>2, TwoOperands, ListPushIsGood, FinishKeeps
<1>3. CASE Code[pc] = <<"LPUSH_C">>
  <2>1. Code[pc] \in RegisterAndConstant
    BY <1>3 DEF RegisterAndConstant
  <2>2. Finish(Operand(1), ListPush(heap, REGISTER(1), CONSTANT_AT(2)))
    BY <1>3 DEF PushToList
  <2> QED BY <1>1, <2>1, <2>2, OperandAndConstant, ListPushIsGood, FinishKeeps
<1> QED BY <1>2, <1>3 DEF PushToList, At

LEMMA LoadPropertyKeeps ==
  ASSUME Inv, WellFormed(program), LoadProperty
  PROVE  Inv'
<1>1. Operands(Code[pc]) = << "reg", "reg", "prop" >> /\ Code[pc] \in Straight
  BY OperandsOf DEF LoadProperty, At, Straight
<1>2. /\ 1 \in 1 .. Len(Operands(Code[pc])) /\ Operands(Code[pc])[1] = "reg"
      /\ 2 \in 1 .. Len(Operands(Code[pc])) /\ Operands(Code[pc])[2] = "reg"
  BY <1>1
<1>3. Operand(1) \in DOMAIN Registers /\ Good(F, heap, REGISTER(2)) /\ GoodHeap(F, heap)
  BY <1>2, RegisterOperand DEF Inv
<1> QED BY <1>1, <1>3, PropGetIsGood, FinishKeeps DEF LoadProperty

LEMMA SetPropertyKeeps ==
  ASSUME Inv, WellFormed(program), SetProperty
  PROVE  Inv'
<1>1. Operands(Code[pc]) = << "prop", "reg", "reg" >> /\ Code[pc] \in Straight
  BY OperandsOf DEF SetProperty, At, Straight
<1>2. /\ 2 \in 1 .. Len(Operands(Code[pc])) /\ Operands(Code[pc])[2] = "reg"
      /\ 3 \in 1 .. Len(Operands(Code[pc])) /\ Operands(Code[pc])[3] = "reg"
  BY <1>1
<1>3. /\ Operand(2) \in DOMAIN Registers /\ GoodHeap(F, heap)
      /\ Good(F, heap, REGISTER(2)) /\ Good(F, heap, REGISTER(3))
  BY <1>2, RegisterOperand DEF Inv
<1> QED BY <1>1, <1>3, PropSetIsGood, FinishKeeps DEF SetProperty

LEMMA CastValueKeeps ==
  ASSUME Inv, WellFormed(program), CastValue
  PROVE  Inv'
<1>1. Code[pc] \in CastOps /\ Code[pc] \in TwoRegisters /\ GoodHeap(F, heap)
  BY DEF CastValue, At, TwoRegisters, Inv
<1> QED BY <1>1, TwoOperands, CastIsGood, FinishKeeps DEF CastValue

LEMMA UnaryOperationKeeps ==
  ASSUME Inv, WellFormed(program), UnaryOperation
  PROVE  Inv'
<1>1. Code[pc] \in UnaryOps /\ Code[pc] \in TwoRegisters /\ GoodHeap(F, heap)
  BY DEF UnaryOperation, At, TwoRegisters, Inv
<1> QED BY <1>1, TwoOperands, UnaryIsGood, FinishKeeps DEF UnaryOperation

LEMMA IncrementKeeps ==
  ASSUME Inv, WellFormed(program), Increment
  PROVE  Inv'
<1> DEFINE x == REGISTER(1)
           outcome == IF x.is # "int" THEN Mistaken ELSE Gives([x EXCEPT !.v = @ + 1])
<1>1. Code[pc] \in OneRegister
  BY DEF Increment, At, OneRegister
<1>2. Operand(1) \in DOMAIN Registers /\ Good(F, heap, x) /\ Code[pc] \in Straight
  BY <1>1, OneOperand
<1>3. Finish(Operand(1), outcome)
  BY DEF Increment
<1> HIDE DEF x
<1>4. x.is = "int" => Good(F, heap, [x EXCEPT !.v = x.v + 1])
  <2> SUFFICES ASSUME x.is = "int" PROVE Good(F, heap, [x EXCEPT !.v = x.v + 1])
    OBVIOUS
  <2>1. x = [type |-> x.type, is |-> "int", v |-> x.v] /\ x.v + 1 \in Int /\ x.type \in Kinds
    BY <1>2 DEF Good, IsValue
  <2>2. [x EXCEPT !.v = x.v + 1] = [type |-> x.type, is |-> "int", v |-> x.v + 1]
    BY <2>1
  <2> QED BY <1>2, <2>1, <2>2 DEF Good, IsValue, IsDifference, Kinds
<1>5. GoodOutcome(F, heap, outcome)
  BY <1>4, SimpleOutcomes
<1> HIDE DEF outcome
<1> QED BY <1>2, <1>3, <1>5, FinishKeeps

LEMMA DifferencesTold ==
  ASSUME Inv, WellFormed(program)
  PROVE  Code[pc] = <<"SUB", "float">> => F.differences
BY TheRegisters DEF F, ValuesOf, SubtractsFloats, Code, pc

LEMMA BinaryOperationKeeps ==
  ASSUME Inv, WellFormed(program), BinaryOperation
  PROVE  Inv'
<1>1. Code[pc] \in BinaryOps /\ Code[pc] \in ThreeRegisters /\ GoodHeap(F, heap)
  BY DEF BinaryOperation, At, ThreeRegisters, Inv
<1> QED BY <1>1, ThreeOperands, DifferencesTold, BinaryIsGood, FinishKeeps DEF BinaryOperation

LEMMA MakeRangeKeeps ==
  ASSUME Inv, WellFormed(program), MakeRange
  PROVE  Inv'
<1>1. Code[pc] \in ThreeRegisters /\ GoodHeap(F, heap)
  BY DEF MakeRange, At, ThreeRegisters, Inv
<1> QED BY <1>1, ThreeOperands, RangeOfIntsIsGood, SimpleOutcomes, FinishKeeps DEF MakeRange

\* The stack and the globals.
LEMMA StepKeeps ==
  ASSUME Inv, WellFormed(program), Code[pc] \in Straight
  PROVE  CounterFits(program, frames, program_counter + Width(Code[pc])) /\ frames # <<>>
<1>1. frames # <<>>
  BY TheRegisters, StraightOps
<1> QED BY <1>1, StepFits DEF Inv

LEMMA SetGlobalKeeps ==
  ASSUME Inv, WellFormed(program), SetGlobal
  PROVE  Inv'
<1>1. Operands(Code[pc]) = << "global", "reg" >> /\ Code[pc] \in Straight
  BY OperandsOf DEF SetGlobal, At, Straight
<1>2. 2 \in 1 .. Len(Operands(Code[pc])) /\ Operands(Code[pc])[2] = "reg"
  BY <1>1
<1>3. Good(F, heap, REGISTER(2))
  BY <1>2, RegisterOperand
<1>4. /\ main_frame' = [main_frame EXCEPT ![Operand(1)] = REGISTER(2)]
      /\ program_counter' = program_counter + Width(Code[pc])
      /\ UNCHANGED <<program, frames, stack, heap, output, status>>
  BY DEF SetGlobal, Step, pc
<1>5. GoodGlobals(F, heap, program, main_frame')
  BY <1>3, <1>4 DEF Inv, GoodGlobals
<1> QED BY <1>1, <1>4, <1>5, StepKeeps DEF Inv, F

LEMMA PushKeeps ==
  ASSUME Inv, WellFormed(program), Push
  PROVE  Inv'
<1> DEFINE x == IF Code[pc] = <<"PUSH">> THEN REGISTER(1) ELSE CONSTANT_AT(1)
<1>1. Good(F, heap, x) /\ Code[pc] \in Straight
  <2>1. CASE Code[pc] = <<"PUSH">>
    BY <2>1, OneOperand DEF OneRegister
  <2>2. CASE Code[pc] = <<"PUSH_C">>
    BY <2>2, ConstantOnly DEF OneConstant
  <2> QED BY <2>1, <2>2 DEF Push, At
<1>2. CASE Len(stack) = STACK_SIZE
  BY <1>2, StopKeeps DEF Push, Statuses
<1>3. CASE Len(stack) # STACK_SIZE
  <2>1. /\ stack' = Append(stack, x)
        /\ program_counter' = program_counter + Width(Code[pc])
        /\ UNCHANGED <<program, frames, main_frame, heap, output, status>>
    BY <1>3 DEF Push, Step, pc
  <2> HIDE DEF x
  <2>2. /\ stack \in Seq(RangeOf(stack)) /\ Len(stack) <= STACK_SIZE /\ Len(stack) \in Nat
        /\ \A y \in RangeOf(stack) : Good(F, heap, y)
    BY RangeFacts DEF Inv, GoodStack
  <2>3. /\ stack' \in Seq(RangeOf(stack')) /\ RangeOf(stack') = RangeOf(stack) \cup {x}
    BY <2>1, <2>2, AppendRange
  <2>4. Len(stack') = Len(stack) + 1
    BY <2>1, <2>2, AppendProperties
  <2>5. Len(stack') <= STACK_SIZE
    BY <1>3, <2>2, <2>4, MachineAssumption
  <2>6. GoodStack(F, heap, stack')
    BY <1>1, <2>2, <2>3, <2>5 DEF GoodStack
  <2> QED BY <1>1, <2>1, <2>6, StepKeeps DEF Inv, F
<1> QED BY <1>2, <1>3

LEMMA PopKeeps ==
  ASSUME Inv, WellFormed(program), Pop
  PROVE  Inv'
<1>1. Operand(1) \in DOMAIN Registers /\ Code[pc] \in Straight
  BY OneOperand DEF Pop, At, OneRegister
<1>2. CASE stack = <<>>
  BY <1>2, StopKeeps DEF Pop, Statuses
<1>3. CASE stack # <<>>
  <2> DEFINE n == Len(stack)
             x == stack[n]
  <2>1. /\ stack' = SubSeq(stack, 1, n - 1)
        /\ frames' = WithRegister(Operand(1), x)
        /\ program_counter' = program_counter + Width(Code[pc])
        /\ UNCHANGED <<program, main_frame, heap, output, status>>
    BY <1>3 DEF Pop, Step, pc
  <2>2. /\ stack \in Seq(RangeOf(stack)) /\ n <= STACK_SIZE
        /\ \A y \in RangeOf(stack) : Good(F, heap, y)
    BY DEF Inv, GoodStack
  <2>3. n \in Nat \ {0}
    BY <1>3, <2>2, EmptySeq
  <2>4. Good(F, heap, x)
    BY <2>2, <2>3, RangeFacts
  <2>5. GoodStack(F, heap, stack')
    <3>1. /\ stack' \in Seq(RangeOf(stack)) /\ Len(stack') = IF 1 <= n - 1 THEN n - 1 - 1 + 1 ELSE 0
      BY <2>1, <2>2, <2>3, SubSeqRange
    <3>2. Len(stack') <= n /\ Len(stack') \in Nat
      BY <2>3, <3>1
    <3>3. /\ stack' \in Seq(RangeOf(stack')) /\ RangeOf(stack') \subseteq RangeOf(stack)
      BY <3>1, RangeFacts
    <3> QED BY <2>2, <2>3, <3>2, <3>3, MachineAssumption DEF GoodStack
  <2> HIDE DEF x
  <2>6. frames # <<>> /\ Registers = Top.registers
    BY <1>1, StepKeeps, TheRegisters
  <2>7. /\ GoodFrames(F, heap, frames')
        /\ FramesFit(program, frames')
        /\ CounterFits(program, frames', program_counter)
    BY <1>1, <2>1, <2>4, <2>6, RegisterWritten DEF Inv
  <2>8. frames' # <<>>
    <3>1. DOMAIN frames' = 1 .. Len(frames) /\ Len(frames) \in Nat \ {0}
      BY <2>1, <2>6, TopFrame DEF WithRegister, Inv
    <3>2. 1 \in DOMAIN frames'
      BY <3>1
    <3> QED BY <3>2
  <2>9. CounterFits(program, frames', program_counter + Width(Code[pc]))
    BY <1>1, <2>7, <2>8, StepFits
  <2> QED BY <2>1, <2>5, <2>7, <2>9 DEF Inv, F
<1> QED BY <1>2, <1>3

\* Calls, returns and jumps.
LEMMA RoomForOne ==
  ASSUME NEW n \in Nat, NEW m \in Nat, n <= m, n # m
  PROVE  n + 1 <= m
OBVIOUS

LEMMA OneLess ==
  ASSUME NEW n \in Nat \ {0}
  PROVE  /\ (IF 1 <= n - 1 THEN n - 1 - 1 + 1 ELSE 0) = n - 1
         /\ \A m \in Nat : n <= m => n - 1 <= m
OBVIOUS

LEMMA CallKeeps ==
  ASSUME Inv, WellFormed(program), Call
  PROVE  Inv'
<1> DEFINE f == REGISTER(1)
           new == NewFrame(f.v[2], ReturnAddress)
           n == Len(frames)
<1>1. /\ Code[pc] = <<"CALL">> /\ Code[pc] \in Straight /\ Good(F, heap, f)
  BY OneOperand DEF Call, At, OneRegister
<1>2. CASE CheckFunction(f) # "running"
  <2>1. CheckFunction(f) \in Statuses /\ Stop(CheckFunction(f))
    BY <1>2 DEF CheckFunction, Statuses, Call
  <2> QED BY <2>1, StopKeeps
<1>3. CASE CheckFunction(f) = "running" /\ n = MAX_FRAMES
  BY <1>3, StopKeeps DEF Call, Statuses
<1>4. CASE CheckFunction(f) = "running" /\ n # MAX_FRAMES
  <2>1. /\ frames' = Append(frames, new) /\ program_counter' = f.v[1]
        /\ UNCHANGED <<program, stack, main_frame, heap, output, status>>
    BY <1>4 DEF Call
  <2>2. f.v[1] \in program.starts /\ f.v[1] # EndPC(program) /\ program.size[f.v[1]] = f.v[2]
    BY <1>1, <1>4 DEF CheckFunction, Good, F, ValuesOf, Functions
  <2>3. program_counter \in program.starts
    BY TheRegisters
  <2>4. /\ program_counter + 2 \in program.starts /\ program_counter + 2 # EndPC(program)
        /\ program.size[program_counter + 2] = program.size[program_counter]
    <3>1. Operands(Code[pc]) = << "reg" >>
      BY <1>1, OperandsOf DEF OneRegister
    <3>2. Width(Code[pc]) = 2
      BY <3>1 DEF Width
    <3> QED BY <1>1, <2>3, <3>2, GoesOn DEF Code, pc
  <2>5. /\ GoodFrame(F, heap, new) /\ DOMAIN new.registers = 0 .. f.v[2] - 1
        /\ new.return_address = program_counter + 2
    BY FramesAreGood DEF ReturnAddress, pc
  <2> HIDE DEF f, new
  <2>6. /\ frames # <<>> /\ frames \in Seq(RangeOf(frames))
        /\ n \in Nat \ {0} /\ DOMAIN frames = 1 .. n /\ n <= MAX_FRAMES
        /\ \A i \in DOMAIN frames : GoodFrame(F, heap, frames[i])
    BY <1>1, StepKeeps, TopFrame DEF Inv, GoodFrames
  <2> DEFINE S == RangeOf(frames) \cup {new}
  <2>7. frames \in Seq(S)
    BY <2>6, SeqMonotonic
  <2>8. /\ frames' \in Seq(S) /\ Len(frames') = n + 1
        /\ \A i \in 1 .. n : frames'[i] = frames[i]
        /\ frames'[n + 1] = new
    BY <2>1, <2>7, AppendProperties
  <2>9. DOMAIN frames' = 1 .. n + 1 /\ frames' \in Seq(RangeOf(frames')) /\ frames' # <<>>
    BY <2>6, <2>8, LenProperties, RangeFacts
  <2>10. \A i \in 1 .. n + 1 : i \in 1 .. n \/ i = n + 1
    BY <2>6
  <2>11. GoodFrames(F, heap, frames')
    <3>1. n + 1 <= MAX_FRAMES
      <4>1. /\ n \in Nat /\ n <= MAX_FRAMES
            /\ MAX_FRAMES \in Nat
        BY <2>6, MachineAssumption
      <4>2. n # MAX_FRAMES
        BY <1>4
      <4> HIDE DEF n
      <4> QED BY <4>1, <4>2, RoomForOne
    <3>2. \A i \in DOMAIN frames' : GoodFrame(F, heap, frames'[i])
      BY <2>5, <2>6, <2>8, <2>9, <2>10
    <3> QED BY <2>8, <2>9, <3>1, <3>2 DEF GoodFrames
  <2>12. FramesFit(program, frames) /\ CounterFits(program, frames, program_counter)
    BY DEF Inv
  <2>13. FramesFit(program, frames')
    <3>1. \A i \in DOMAIN frames' : frames'[i].return_address \in program.starts
      BY <2>4, <2>5, <2>6, <2>8, <2>9, <2>10, <2>12 DEF FramesFit
    <3>2. frames'[1].return_address = EndPC(program)
      BY <2>6, <2>8, <2>12 DEF FramesFit
    <3>3. ASSUME NEW i \in 2 .. n + 1
          PROVE  /\ DOMAIN frames'[i - 1].registers = 0 .. program.size[frames'[i].return_address] - 1
                 /\ frames'[i].return_address # EndPC(program)
      <4>1. CASE i \in 2 .. n
        <5>1. i \in 1 .. n /\ i - 1 \in 1 .. n
          BY <2>6, <4>1
        <5> QED BY <2>8, <2>12, <4>1, <5>1 DEF FramesFit
      <4>2. CASE i = n + 1
        <5>1. frames'[i - 1] = frames[n] /\ frames'[i].return_address = program_counter + 2
          BY <2>5, <2>6, <2>8, <4>2
        <5> QED BY <2>4, <2>6, <2>12, <5>1 DEF CounterFits
      <4>3. i \in 2 .. n \/ i = n + 1
        BY <2>6
      <4> QED BY <4>1, <4>2, <4>3
    <3> QED BY <2>8, <3>1, <3>2, <3>3 DEF FramesFit
  <2>14. CounterFits(program, frames', f.v[1])
    BY <2>2, <2>5, <2>8, <2>9 DEF CounterFits
  <2> QED BY <2>1, <2>11, <2>13, <2>14 DEF Inv, F
<1> QED BY <1>2, <1>3, <1>4

LEMMA ReturnKeeps ==
  ASSUME Inv, WellFormed(program), Return
  PROVE  Inv'
<1> DEFINE n == Len(frames)
           fs == SubSeq(frames, 1, n - 1)
<1>1. /\ frames # <<>> /\ program_counter' = Top.return_address /\ frames' = fs
      /\ UNCHANGED <<program, stack, main_frame, heap, output, status>>
  BY DEF Return, At, Executable
<1>2. /\ frames \in Seq(RangeOf(frames)) /\ n \in Nat \ {0} /\ DOMAIN frames = 1 .. n
      /\ n <= MAX_FRAMES /\ \A i \in DOMAIN frames : GoodFrame(F, heap, frames[i])
  BY <1>1, TopFrame DEF Inv, GoodFrames
<1>3. /\ fs \in Seq(RangeOf(frames)) /\ Len(fs) = IF 1 <= n - 1 THEN n - 1 - 1 + 1 ELSE 0
      /\ \A i \in 1 .. n - 1 - 1 + 1 : fs[i] = frames[1 + i - 1]
  BY <1>2, SubSeqRange
<1> HIDE DEF fs
<1>4. /\ Len(fs) = n - 1 /\ DOMAIN fs = 1 .. n - 1 /\ fs \in Seq(RangeOf(fs))
      /\ \A i \in 1 .. n - 1 : fs[i] = frames[i] /\ i \in 1 .. n
  <2>1. Len(fs) = n - 1
    <3>1. n \in Nat \ {0} /\ Len(fs) = IF 1 <= n - 1 THEN n - 1 - 1 + 1 ELSE 0
      BY <1>2, <1>3
    <3> HIDE DEF n
    <3> QED BY <3>1, OneLess
  <2>2. DOMAIN fs = 1 .. Len(fs) /\ fs \in Seq(RangeOf(fs))
    BY <1>3, LenProperties, RangeFacts
  <2>3. \A i \in 1 .. n - 1 : i \in 1 .. n - 1 - 1 + 1 /\ 1 + i - 1 = i /\ i \in 1 .. n
    BY <1>2
  <2> QED BY <1>3, <2>1, <2>2, <2>3
<1>5. FramesFit(program, frames)
  BY DEF Inv
<1>6. GoodFrames(F, heap, fs)
  <2>1. n \in Nat \ {0} /\ n <= MAX_FRAMES /\ MAX_FRAMES \in Nat
    BY <1>2, MachineAssumption
  <2>2. \A i \in DOMAIN fs : GoodFrame(F, heap, fs[i])
    BY <1>2, <1>4
  <2> HIDE DEF n
  <2>3. n - 1 <= MAX_FRAMES
    BY <2>1, OneLess
  <2> QED BY <1>4, <2>2, <2>3 DEF GoodFrames
<1>7. fs # <<>> => n >= 2
  BY <1>2, <1>4, EmptySeq
<1>8. FramesFit(program, fs)
  <2>1. \A i \in 2 .. n - 1 : i \in 1 .. n - 1 /\ i - 1 \in 1 .. n - 1 /\ i \in 2 .. n
    BY <1>2
  <2>2. fs # <<>> => 1 \in 1 .. n - 1
    BY <1>2, <1>7
  <2> QED BY <1>1, <1>2, <1>4, <1>5, <2>1, <2>2 DEF FramesFit
<1>9. CounterFits(program, fs, Top.return_address)
  <2>1. Top = frames[n] /\ n \in DOMAIN frames
    BY <1>2 DEF Top
  <2>2. fs = <<>> => Top.return_address = EndPC(program)
    <3> SUFFICES ASSUME fs = <<>> PROVE Top.return_address = EndPC(program)
      OBVIOUS
    <3>1. n = 1
      BY <1>2, <1>4, EmptySeq
    <3> QED BY <1>1, <1>5, <2>1, <3>1 DEF FramesFit
  <2>3. fs # <<>> => /\ DOMAIN fs[Len(fs)].registers = 0 .. program.size[Top.return_address] - 1
                     /\ Top.return_address # EndPC(program)
    <3> SUFFICES ASSUME fs # <<>>
                 PROVE  /\ DOMAIN fs[Len(fs)].registers = 0 .. program.size[Top.return_address] - 1
                        /\ Top.return_address # EndPC(program)
      OBVIOUS
    <3>1. n \in 2 .. n /\ n - 1 \in 1 .. n - 1
      BY <1>2, <1>7
    <3> QED BY <1>4, <1>5, <2>1, <3>1 DEF FramesFit
  <2>4. Top.return_address \in program.starts
    BY <1>5, <2>1 DEF FramesFit
  <2> QED BY <2>2, <2>3, <2>4 DEF CounterFits
<1> QED BY <1>1, <1>6, <1>8, <1>9 DEF Inv, F

LEMMA JumpFits ==
  ASSUME Inv, WellFormed(program), Code[pc] \in Jumps \cup CondJumps
  PROVE  CounterFits(program, frames, Target(program, program_counter))
<1> DEFINE to == Target(program, program_counter)
<1>1. program_counter \in program.starts
  BY TheRegisters
<1>2. to \in Successors(program, program_counter)
  <2>1. Code[pc] \notin { <<"EXIT">>, <<"RETURN">> }
    BY DEF Jumps, CondJumps
  <2> QED BY <2>1 DEF Successors, Code, pc
<1>3. to \in program.starts /\ to # EndPC(program) /\ program.size[to] = program.size[program_counter]
  BY <1>1, <1>2 DEF WellFormed, WellFormedAt
<1>4. frames # <<>>
  BY TheRegisters DEF Jumps, CondJumps
<1> QED BY <1>3, <1>4 DEF Inv, CounterFits

LEMMA JumpKeeps ==
  ASSUME Inv, WellFormed(program), Jump
  PROVE  Inv'
<1>1. Code[pc] \in Jumps \cup CondJumps
  BY DEF Jump, At
<1> QED BY <1>1, JumpFits DEF Jump, Inv, F, pc

LEMMA CondJumpKeeps ==
  ASSUME Inv, WellFormed(program), CondJump
  PROVE  Inv'
<1>1. Code[pc] \in CondJumps
  BY DEF CondJump, At
<1>2. CASE REGISTER(2).is # "bool"
  BY <1>2, StopKeeps DEF CondJump, Statuses
<1>3. CASE REGISTER(2).is = "bool"
  <2>1. /\ \/ program_counter' = Target(program, program_counter)
           \/ program_counter' = program_counter + Width(Code[pc])
        /\ UNCHANGED <<program, frames, stack, main_frame, heap, output, status>>
    BY <1>3 DEF CondJump, Step, pc
  <2>2. program_counter + Width(Code[pc]) \in Successors(program, program_counter)
    <3>1. Code[pc] \notin { <<"EXIT">>, <<"RETURN">> } /\ Code[pc] \notin Jumps
      BY <1>1 DEF Jumps, CondJumps
    <3> QED BY <1>1, <3>1 DEF Successors, Code, pc
  <2>3. program_counter \in program.starts /\ frames # <<>>
    BY <1>1, TheRegisters DEF CondJumps
  <2>4. CounterFits(program, frames, program_counter + Width(Code[pc]))
    BY <2>2, <2>3 DEF Inv, CounterFits, WellFormed, WellFormedAt
  <2>5. CounterFits(program, frames, Target(program, program_counter))
    BY <1>1, JumpFits
  <2> QED BY <2>1, <2>4, <2>5 DEF Inv, F
<1> QED BY <1>2, <1>3

LEMMA WriteKeeps ==
  ASSUME Inv, WellFormed(program), Write
  PROVE  Inv'
<1> DEFINE x == IF Code[pc] = <<"PRINT">> THEN REGISTER(1) ELSE CONSTANT_AT(1)
<1>1. Code[pc] \in Straight
  BY DEF Write, At, Straight, OneRegister, OneConstant
<1>2. CASE ~ IsReadable(heap, x)
  BY <1>2, StopKeeps DEF Write, Statuses
<1>3. CASE IsReadable(heap, x)
  <2>1. /\ program_counter' = program_counter + Width(Code[pc])
        /\ UNCHANGED <<program, frames, stack, main_frame, heap, status>>
    BY <1>3 DEF Write, Step, pc
  <2> QED BY <1>1, <2>1, StepKeeps DEF Inv, F
<1> QED BY <1>2, <1>3

\* Every step of a well formed program keeps the invariant.
LEMMA NextInv ==
  ASSUME Inv, WellFormed(program), Next
  PROVE  Inv'
<1>1. CASE Exit
  BY <1>1, StopKeeps DEF Exit, Statuses
<1>2. CASE Slice
  BY <1>2, StopKeeps DEF Slice, Statuses
<1>3. CASE Move
  BY <1>3, MoveKeeps
<1>4. CASE LoadConstant
  BY <1>4, LoadConstantKeeps
<1>5. CASE LoadGlobal
  BY <1>5, LoadGlobalKeeps
<1>6. CASE SetGlobal
  BY <1>6, SetGlobalKeeps
<1>7. CASE Push
  BY <1>7, PushKeeps
<1>8. CASE Pop
  BY <1>8, PopKeeps
<1>9. CASE Get
  BY <1>9, GetKeeps
<1>10. CASE Set
  BY <1>10, SetKeeps
<1>11. CASE Delete
  BY <1>11, DeleteKeeps
<1>12. CASE PushToList
  BY <1>12, PushToListKeeps
<1>13. CASE Call
  BY <1>13, CallKeeps
<1>14. CASE Return
  BY <1>14, ReturnKeeps
<1>15. CASE LoadProperty
  BY <1>15, LoadPropertyKeeps
<1>16. CASE SetProperty
  BY <1>16, SetPropertyKeeps
<1>17. CASE CastValue
  BY <1>17, CastValueKeeps
<1>18. CASE UnaryOperation
  BY <1>18, UnaryOperationKeeps
<1>19. CASE Increment
  BY <1>19, IncrementKeeps
<1>20. CASE BinaryOperation
  BY <1>20, BinaryOperationKeeps
<1>21. CASE MakeRange
  BY <1>21, MakeRangeKeeps
<1>22. CASE Jump
  BY <1>22, JumpKeeps
<1>23. CASE CondJump
  BY <1>23, CondJumpKeeps
<1>24. CASE Write
  BY <1>24, WriteKeeps
<1> QED
  BY <1>1, <1>2, <1>3, <1>4, <1>5, <1>6, <1>7, <1>8, <1>9, <1>10, <1>11, <1>12, <1>13, <1>14,
     <1>15, <1>16, <1>17, <1>18, <1>19, <1>20, <1>21, <1>22, <1>23, <1>24 DEF Next

-----------------------------------------------------------------------------
\* The machine does not write to the program.

LEMMA FinishKeepsProgram ==
  ASSUME NEW r, NEW outcome, Finish(r, outcome)
  PROVE  program' = program
BY DEF Finish, Stop

LEMMA ProgramStays ==
  ASSUME [Next]_vars
  PROVE  program' = program
<1>1. CASE Exit \/ Slice
  BY <1>1 DEF Exit, Slice, Stop
<1>2. CASE Move \/ LoadConstant \/ LoadGlobal \/ Get \/ Set \/ Delete \/ PushToList
  BY <1>2, FinishKeepsProgram DEF Move, LoadConstant, LoadGlobal, Get, Set, Delete, PushToList
<1>3. CASE LoadProperty \/ SetProperty \/ CastValue \/ UnaryOperation \/ Increment
           \/ BinaryOperation \/ MakeRange
  BY <1>3, FinishKeepsProgram
     DEF LoadProperty, SetProperty, CastValue, UnaryOperation, Increment, BinaryOperation, MakeRange
<1>4. CASE SetGlobal \/ Push \/ Pop
  BY <1>4 DEF SetGlobal, Push, Pop, Stop
<1>5. CASE Call \/ Return \/ Jump \/ CondJump \/ Write
  BY <1>5 DEF Call, Return, Jump, CondJump, Write, Stop
<1>6. CASE UNCHANGED vars
  BY <1>6 DEF vars
<1> QED BY <1>1, <1>2, <1>3, <1>4, <1>5, <1>6 DEF Next

-----------------------------------------------------------------------------
\* The theorems.

\* Of a program that is well formed the invariant holds.
WInv == program \in Programs /\ (WellFormed(program) => Inv)

LEMMA WellFormedInvariant == Spec => []WInv
<1>1. Init => WInv
  BY InitInv DEF WInv, Init
<1>2. WInv /\ [Next]_vars => WInv'
  <2> SUFFICES ASSUME WInv, [Next]_vars PROVE WInv'
    OBVIOUS
  <2>1. program' = program
    BY ProgramStays
  <2>2. ASSUME WellFormed(program), Inv PROVE Inv'
    <3>1. CASE Next
      BY <2>2, <3>1, NextInv
    <3>2. CASE UNCHANGED vars
      BY <2>2, <3>2 DEF vars, Inv, F
    <3> QED BY <3>1, <3>2
  <2> QED BY <2>1, <2>2 DEF WInv
<1> QED BY <1>1, <1>2, PTL DEF Spec

(***************************************************************************)
(* A program that is well formed, however long, never makes the machine    *)
(* execute an operand as an opcode, or read or write a register, constant  *)
(* or global that is not there: run() checks none of this.                 *)
(***************************************************************************)
THEOREM NeverStrays == Spec => []WellFormedNeverStrays
<1>1. WInv => WellFormedNeverStrays
  BY InvExecutable DEF WInv, WellFormedNeverStrays
<1> QED BY <1>1, WellFormedInvariant, PTL

(***************************************************************************)
(* If all programs are well formed, every constant, register, global and   *)
(* value on the stack or in a container is at all times a value, the       *)
(* address of an object of its kind, whatever the instructions before.     *)
(***************************************************************************)
THEOREM MachineTypeOK ==
  ASSUME \A p \in Programs : WellFormed(p)
  PROVE  Spec => []TypeOK
<1>1. WInv => TypeOK
  <2> SUFFICES ASSUME Inv, WellFormed(program) PROVE TypeOK
    BY DEF WInv
  <2>1. IsHeap(heap)
    BY DEF Inv, GoodHeap, GoodObject, Good, IsHeap
  <2>2. /\ DOMAIN main_frame = DOMAIN program.globals
        /\ \A g \in DOMAIN main_frame : IsValue(heap, main_frame[g])
    BY DEF Inv, GoodGlobals, Good
  <2>3. /\ stack \in Seq(RangeOf(stack)) /\ Len(stack) <= STACK_SIZE
        /\ \A x \in RangeOf(stack) : IsValue(heap, x)
    BY DEF Inv, GoodStack, Good
  <2>4. /\ frames \in Seq(RangeOf(frames)) /\ Len(frames) <= MAX_FRAMES
        /\ \A i \in DOMAIN frames :
             \A x \in RangeOf(frames[i].registers) : IsValue(heap, x)
    BY DEF Inv, GoodFrames, GoodFrame, Good
  <2>5. \A i \in DOMAIN frames : frames[i].return_address \in Nat
    BY DEF Inv, FramesFit, WellFormed
  <2>6. \A c \in DOMAIN program.constants : IsValue(heap, program.constants[c])
    <3>1. \A c \in DOMAIN program.constants : Good(F, program.heap, program.constants[c])
      BY Loaded DEF F
    <3> QED BY <3>1, GoodStays DEF Inv, Good
  <2> QED BY <2>1, <2>2, <2>3, <2>4, <2>5, <2>6 DEF TypeOK, Inv, Statuses
<1> QED BY <1>1, WellFormedInvariant, PTL

(***************************************************************************)
(* If all programs are well formed, the frame on top is always that of the *)
(* function the program counter is in, and each return address continues   *)
(* the function of the frame below, through every call, jump and return.   *)
(***************************************************************************)
THEOREM FramesMatch ==
  ASSUME \A p \in Programs : WellFormed(p)
  PROVE  Spec => []FramesMatchCode
<1>1. \A n \in Nat : Cardinality(0 .. n - 1) = n
  BY FS_Interval
<1>2. WInv => FramesMatchCode
  <2> SUFFICES ASSUME Inv, WellFormed(program) PROVE FramesMatchCode
    BY DEF WInv
  <2>1. program.size \in [program.starts -> Nat] /\ EndPC(program) \in program.starts
        /\ program.size[EndPC(program)] = 0
    BY DEF WellFormed
  <2>2. /\ program_counter \in program.starts
        /\ DOMAIN Registers = 0 .. program.size[program_counter] - 1
    BY TheRegisters
  <2>3. FunctionAt(program_counter) = Cardinality(DOMAIN Registers)
    <3>1. program.size[program_counter] \in Nat
      BY <2>1, <2>2
    <3> QED BY <1>1, <2>2, <3>1 DEF FunctionAt
  <2>4. /\ FramesFit(program, frames)
        /\ Len(frames) \in Nat /\ DOMAIN frames = 1 .. Len(frames)
    BY RangeFacts DEF Inv, GoodFrames
  <2>5. ASSUME NEW i \in DOMAIN frames
        PROVE  FunctionAt(frames[i].return_address) =
                 IF i = 1 THEN 0 ELSE Cardinality(DOMAIN frames[i - 1].registers)
    <3>1. frames[i].return_address \in program.starts
      BY <2>4 DEF FramesFit
    <3>2. CASE i = 1
      <4>1. frames # <<>>
        BY <2>5, <2>4
      <4>2. frames[1].return_address = EndPC(program)
        BY <2>4, <4>1 DEF FramesFit
      <4> QED BY <2>1, <3>2, <4>2 DEF FunctionAt
    <3>3. CASE i # 1
      <4>1. i \in 2 .. Len(frames)
        BY <2>4, <3>3
      <4>2. DOMAIN frames[i - 1].registers = 0 .. program.size[frames[i].return_address] - 1
        BY <2>4, <4>1 DEF FramesFit
      <4>3. program.size[frames[i].return_address] \in Nat
        BY <2>1, <3>1
      <4> QED BY <1>1, <3>1, <3>3, <4>2, <4>3 DEF FunctionAt
    <3> QED BY <3>2, <3>3
  <2> QED BY <2>2, <2>3, <2>5 DEF FramesMatchCode
<1> QED BY <1>2, WellFormedInvariant, PTL

(***************************************************************************)
(* If all programs are well formed, the two places in which a dictionary   *)
(* keeps its keys agree at all times: no set, delete, sum or concatenation *)
(* changes one without the other.                                          *)
(***************************************************************************)
THEOREM DictionariesCoherent ==
  ASSUME \A p \in Programs : WellFormed(p)
  PROVE  Spec => []DictionariesAreCoherent
<1>1. WInv => DictionariesAreCoherent
  <2> SUFFICES ASSUME Inv PROVE DictionariesAreCoherent
    BY DEF WInv
  <2>1. \A a \in DOMAIN heap : GoodObject(F, heap, heap[a])
    BY DEF Inv, GoodHeap
  <2> QED BY <2>1, OneKind DEF GoodObject, DictionariesAreCoherent
<1> QED BY <1>1, WellFormedInvariant, PTL

(***************************************************************************)
(* Whatever a well formed program does, each value in a register, a        *)
(* global, a constant, on the stack or in an object is tagged as the       *)
(* variant that it holds, but for the differences of floats: no other      *)
(* instruction leaves the tag of what was in its register before.          *)
(***************************************************************************)
THEOREM TagsAreTrue ==
  ASSUME \A p \in Programs : WellFormed(p)
  PROVE  Spec => []TagsTellVariants
<1>1. WInv => TagsTellVariants
  <2> SUFFICES ASSUME Inv, WellFormed(program) PROVE TagsTellVariants
    BY DEF WInv
  <2>1. \A h, x : Good(F, h, x) => IsTagged(x)
    BY DEF Good, F, ValuesOf, IsTagged
  <2>2. \A x \in RangeOf(stack) : IsTagged(x)
    BY <2>1 DEF Inv, GoodStack
  <2>3. \A x \in RangeOf(main_frame) : IsTagged(x)
    BY <2>1 DEF Inv, GoodGlobals, RangeOf
  <2>4. \A x \in RangeOf(program.constants) : IsTagged(x)
    BY <2>1, Loaded DEF RangeOf, F
  <2>5. \A i \in DOMAIN frames : \A x \in RangeOf(frames[i].registers) : IsTagged(x)
    BY <2>1 DEF Inv, GoodFrames, GoodFrame
  <2>6. \A x \in Held : IsTagged(x)
    BY <2>2, <2>3, <2>4, <2>5 DEF Held
  <2>7. \A a \in DOMAIN heap : \A x \in ValuesIn(heap[a]) : IsTagged(x)
    BY <2>1 DEF Inv, GoodHeap, GoodObject
  <2> QED BY <2>6, <2>7 DEF TagsTellVariants
<1> QED BY <1>1, WellFormedInvariant, PTL

-----------------------------------------------------------------------------
\* The instructions that read texts.

LEMMA TextualActs ==
  ASSUME Next, Code[pc] \in Textual
  PROVE  CastValue \/ Write
<1>1. Code[pc][1] \in {"PRINT", "PRINT_C", "CAST"}
  BY DEF Textual, CastOps
<1>2. ~ (Exit \/ Move \/ LoadConstant \/ LoadGlobal \/ SetGlobal \/ Push \/ Pop \/ PushToList)
  BY <1>1 DEF Exit, Move, LoadConstant, LoadGlobal, SetGlobal, Push, Pop, PushToList, At
<1>3. ~ (Call \/ Return \/ LoadProperty \/ SetProperty \/ Increment)
  BY <1>1 DEF Call, Return, LoadProperty, SetProperty, Increment, At
<1>4. ~ (Get \/ Set \/ Delete \/ MakeRange \/ Slice)
  BY <1>1 DEF Get, Set, Delete, MakeRange, Slice, At, GetOps, SetOps, DeleteOps, RangeOps, SliceOps
<1>5. ~ (Jump \/ CondJump)
  BY <1>1 DEF Jump, CondJump, At, Jumps, CondJumps
<1>6. ~ UnaryOperation
  BY <1>1 DEF UnaryOperation, At, UnaryOps
<1>7. ~ BinaryOperation
  <2>1. \A op \in BinaryOps : op[1] \notin {"PRINT", "PRINT_C", "CAST"}
    BY DEF BinaryOps, ArithmeticOps, EqualityOps, OrderOps, LogicalOps
  <2> QED BY <1>1, <2>1 DEF BinaryOperation, At
<1> QED BY <1>2, <1>3, <1>4, <1>5, <1>6, <1>7 DEF Next

LEMMA NextRuns ==
  ASSUME Next
  PROVE  status = "running"
<1>1. CASE Exit \/ Move \/ LoadConstant \/ LoadGlobal \/ SetGlobal \/ Push \/ Pop \/ Get
  BY <1>1 DEF Exit, Move, LoadConstant, LoadGlobal, SetGlobal, Push, Pop, Get, At
<1>2. CASE Set \/ Delete \/ PushToList \/ Call \/ Return \/ LoadProperty \/ SetProperty
  BY <1>2 DEF Set, Delete, PushToList, Call, Return, LoadProperty, SetProperty, At
<1>3. CASE CastValue \/ UnaryOperation \/ Increment \/ BinaryOperation \/ MakeRange
  BY <1>3 DEF CastValue, UnaryOperation, Increment, BinaryOperation, MakeRange, At
<1>4. CASE Slice \/ Jump \/ CondJump \/ Write
  BY <1>4 DEF Slice, Jump, CondJump, Write, At
<1> QED BY <1>1, <1>2, <1>3, <1>4 DEF Next

LEMMA FinishStops ==
  ASSUME NEW r, NEW outcome, Finish(r, outcome), status' # status
  PROVE  program_counter' = program_counter
BY DEF Finish, Stop

\* The machine stops where it is.
LEMMA StopsThere ==
  ASSUME Next, status' # status
  PROVE  program_counter' = program_counter
<1>1. CASE Exit \/ Slice
  BY <1>1 DEF Exit, Slice, Stop
<1>2. CASE Move \/ LoadConstant \/ LoadGlobal \/ Get \/ Set \/ Delete \/ PushToList
  BY <1>2, FinishStops DEF Move, LoadConstant, LoadGlobal, Get, Set, Delete, PushToList
<1>3. CASE LoadProperty \/ SetProperty \/ CastValue \/ UnaryOperation \/ Increment
           \/ BinaryOperation \/ MakeRange
  BY <1>3, FinishStops
     DEF LoadProperty, SetProperty, CastValue, UnaryOperation, Increment, BinaryOperation, MakeRange
<1>4. CASE SetGlobal \/ Push \/ Pop
  BY <1>4 DEF SetGlobal, Push, Pop, Stop
<1>5. CASE Call \/ Return \/ Jump \/ CondJump \/ Write
  BY <1>5 DEF Call, Return, Jump, CondJump, Write, Stop
<1> QED BY <1>1, <1>2, <1>3, <1>4, <1>5 DEF Next

LEMMA TextsAreRead ==
  ASSUME Inv, WellFormed(program), ~ SubtractsFloats(program), CastValue \/ Write,
         Code[pc] \in Textual, status # "mistaken"
  PROVE  status' # "mistaken"
<1>1. ~ F.differences /\ GoodHeap(F, heap)
  BY DEF F, ValuesOf, Inv
<1>2. CASE CastValue
  <2>1. Code[pc] \in CastOps /\ Code[pc] \in TwoRegisters
    BY <1>2 DEF CastValue, At, TwoRegisters
  <2>2. Code[pc][3] = "string"
    <3>1. <<"PRINT">> \notin CastOps /\ <<"PRINT_C">> \notin CastOps
      BY DEF CastOps
    <3> QED BY <2>1, <3>1 DEF Textual
  <2>3. Good(F, heap, REGISTER(2))
    BY <2>1, TwoOperands
  <2>4. Cast(Code[pc], heap, REGISTER(2)) = Gives(StrV(Text(heap, REGISTER(2))))
    BY <1>1, <2>2, <2>3, ReadableWhenTold DEF Cast, GivesText
  <2> QED BY <1>2, <2>4 DEF CastValue, Finish, Gives
<1>3. CASE Write
  <2> DEFINE x == IF Code[pc] = <<"PRINT">> THEN REGISTER(1) ELSE CONSTANT_AT(1)
  <2>1. Code[pc] = <<"PRINT">> \/ Code[pc] = <<"PRINT_C">>
    BY <1>3 DEF Write, At
  <2>2. Good(F, heap, x)
    BY <2>1, OneOperand, ConstantOnly DEF OneRegister, OneConstant
  <2>3. IsReadable(heap, x)
    BY <1>1, <2>2, ReadableWhenTold
  <2> QED BY <1>3, <2>3 DEF Write
<1> QED BY <1>2, <1>3

(***************************************************************************)
(* A well formed program in which no floats are subtracted prints and      *)
(* casts to string every value it can have, lists of objects of            *)
(* dictionaries too, without reading a variant that is not there.          *)
(***************************************************************************)
THEOREM TextsAreThere ==
  ASSUME \A p \in Programs : WellFormed(p)
  PROVE  Spec => []TextsDoNotThrow
<1>1. Init => TextsDoNotThrow
  BY DEF Init, TextsDoNotThrow
<1>2. WInv /\ TextsDoNotThrow /\ [Next]_vars => TextsDoNotThrow'
  <2> SUFFICES ASSUME Inv, WellFormed(program), TextsDoNotThrow, [Next]_vars
               PROVE  TextsDoNotThrow'
    BY DEF WInv
  <2>1. program' = program
    BY ProgramStays
  <2>2. CASE UNCHANGED vars
    BY <2>2 DEF vars, TextsDoNotThrow, Code, pc, Textual, SubtractsFloats
  <2>3. CASE Next
    <3>1. status = "running"
      BY <2>3, NextRuns
    <3> SUFFICES ASSUME status' = "mistaken", Code'[pc'] \in Textual, ~ SubtractsFloats(program)
                 PROVE  FALSE
      BY <2>1 DEF TextsDoNotThrow, SubtractsFloats, Textual
    <3>2. program_counter' = program_counter
      BY <2>3, <3>1, StopsThere
    <3>3. Code[pc] \in Textual
      BY <2>1, <3>2 DEF Code, pc
    <3> QED BY <2>3, <3>1, <3>3, TextualActs, TextsAreRead
  <2> QED BY <2>2, <2>3
<1> QED BY <1>1, <1>2, WellFormedInvariant, PTL DEF Spec

-----------------------------------------------------------------------------
\* The frames below the active one.

\* What an instruction does with the frames.
LEMMA FramesStep ==
  ASSUME Inv, WellFormed(program), [Next]_vars
  PROVE  \/ frames' = frames
         \/ \E r, x : frames' = WithRegister(r, x)
         \/ frames # <<>> /\ \E f : frames' = Append(frames, f)
         \/ frames' = SubSeq(frames, 1, Len(frames) - 1)
<1>1. ASSUME NEW r, NEW outcome, Finish(r, outcome)
      PROVE  frames' = frames \/ \E q, x : frames' = WithRegister(q, x)
  BY <1>1 DEF Finish, Stop
<1>2. CASE Exit \/ Slice
  BY <1>2 DEF Exit, Slice, Stop
<1>3. CASE Move \/ LoadConstant \/ LoadGlobal \/ Get \/ Set \/ Delete \/ PushToList
  BY <1>1, <1>3 DEF Move, LoadConstant, LoadGlobal, Get, Set, Delete, PushToList
<1>4. CASE LoadProperty \/ SetProperty \/ CastValue \/ UnaryOperation \/ Increment
           \/ BinaryOperation \/ MakeRange
  BY <1>1, <1>4
     DEF LoadProperty, SetProperty, CastValue, UnaryOperation, Increment, BinaryOperation, MakeRange
<1>5. CASE SetGlobal \/ Push
  BY <1>5 DEF SetGlobal, Push, Stop
<1>6. CASE Pop
  BY <1>6 DEF Pop, Stop
<1>7. CASE Call
  <2>1. frames # <<>>
    BY <1>7, TheRegisters DEF Call, At
  <2> QED BY <1>7, <2>1 DEF Call, Stop
<1>8. CASE Return
  BY <1>8 DEF Return
<1>9. CASE Jump \/ CondJump \/ Write
  BY <1>9 DEF Jump, CondJump, Write, Stop
<1>10. CASE UNCHANGED vars
  BY <1>10 DEF vars
<1> QED BY <1>2, <1>3, <1>4, <1>5, <1>6, <1>7, <1>8, <1>9, <1>10 DEF Next

\* None of these touches an element but the last.
LEMMA LastReplaced ==
  ASSUME NEW S, NEW s \in Seq(S), NEW x, NEW t, t = [s EXCEPT ![Len(s)] = x]
  PROVE  /\ Len(t) = Len(s)
         /\ \A i \in 1 .. Len(s) - 1 : i \in DOMAIN t /\ t[i] = s[i]
<1>1. PICK n \in Nat : n = Len(s) /\ DOMAIN s = 1 .. n
  BY LenProperties
<1>2. DOMAIN t = 1 .. n /\ \A i \in 1 .. n : i # n => t[i] = s[i]
  BY <1>1
<1>4. \A i \in 1 .. n - 1 : i \in 1 .. n /\ i # n
  OBVIOUS
<1>3. Len(t) = Len(s)
  <2>1. s \in Seq(S \cup {x})
    BY SeqMonotonic
  <2>2. CASE n = 0
    <3>1. t = s
      BY <1>1, <2>2
    <3> QED BY <3>1
  <2>3. CASE n # 0
    BY <1>1, <2>1, <2>3, ExceptSeq
  <2> QED BY <2>2, <2>3
<1> QED BY <1>1, <1>2, <1>3, <1>4

LEMMA LastAdded ==
  ASSUME NEW S, NEW s \in Seq(S), s # <<>>, NEW x, NEW t, t = Append(s, x)
  PROVE  /\ Len(t) = Len(s) + 1 /\ t[Len(s)] = s[Len(s)]
         /\ \A i \in 1 .. Len(s) - 1 : i \in DOMAIN t /\ t[i] = s[i]
<1>1. Len(s) \in Nat \ {0}
  BY EmptySeq, LenProperties
<1>2. s \in Seq(S \cup {x})
  BY SeqMonotonic
<1>3. /\ t \in Seq(S \cup {x}) /\ Len(t) = Len(s) + 1
      /\ \A i \in 1 .. Len(s) : t[i] = s[i]
  BY <1>2, AppendProperties
<1>4. DOMAIN t = 1 .. Len(s) + 1
  BY <1>3, LenProperties
<1> QED BY <1>1, <1>3, <1>4

LEMMA LastRemoved ==
  ASSUME NEW S, NEW s \in Seq(S), NEW t, t = SubSeq(s, 1, Len(s) - 1)
  PROVE  /\ Len(t) <= Len(s)
         /\ \A i \in 1 .. Len(s) - 1 : i \in DOMAIN t /\ t[i] = s[i]
<1>1. Len(s) \in Nat /\ s \in Seq(RangeOf(s))
  BY RangeFacts
<1>2. PICK n \in Int : n = Len(s) - 1
  BY <1>1
<1>3. /\ t \in Seq(RangeOf(s)) /\ Len(t) = (IF 1 <= n THEN n - 1 + 1 ELSE 0)
      /\ \A i \in 1 .. n - 1 + 1 : t[i] = s[1 + i - 1]
  BY <1>1, <1>2, SubSeqRange
<1>4. DOMAIN t = 1 .. Len(t)
  BY <1>3, LenProperties
<1>5. Len(t) <= Len(s) /\ \A i \in 1 .. n : i \in 1 .. Len(t) /\ i \in 1 .. n - 1 + 1 /\ 1 + i - 1 = i
  BY <1>1, <1>2, <1>3
<1> QED BY <1>2, <1>3, <1>4, <1>5

(***************************************************************************)
(* If all programs are well formed, no instruction changes a register of a *)
(* frame that is not the active one, nor does a call one of the calling    *)
(* frame: every caller finds its registers as it left them.                *)
(***************************************************************************)
THEOREM CallersLeftAlone ==
  ASSUME \A p \in Programs : WellFormed(p)
  PROVE  Spec => CallersAreLeftAlone
<1>1. WInv /\ [Next]_vars
        => [ /\ \A i \in 1 .. Len(frames) - 1 : i \in DOMAIN frames' /\ frames'[i] = frames[i]
             /\ Len(frames') > Len(frames) => frames'[Len(frames)] = Top ]_vars
  <2> SUFFICES ASSUME Inv, WellFormed(program), [Next]_vars
               PROVE  /\ \A i \in 1 .. Len(frames) - 1 :
                           i \in DOMAIN frames' /\ frames'[i] = frames[i]
                      /\ Len(frames') > Len(frames) => frames'[Len(frames)] = Top
    BY DEF WInv
  <2>1. frames \in Seq(RangeOf(frames))
    BY DEF Inv, GoodFrames
  <2>2. PICK S : frames \in Seq(S)
    BY <2>1
  <2>3. Len(frames) \in Nat /\ DOMAIN frames = 1 .. Len(frames)
    BY <2>2, LenProperties
  <2>4. CASE frames' = frames
    BY <2>3, <2>4
  <2>5. CASE \E r, x : frames' = WithRegister(r, x)
    <3>1. PICK f, t : t = frames' /\ t = [frames EXCEPT ![Len(frames)] = f]
      BY <2>5 DEF WithRegister
    <3>2. /\ Len(t) = Len(frames)
          /\ \A i \in 1 .. Len(frames) - 1 : i \in DOMAIN t /\ t[i] = frames[i]
      BY <2>2, <3>1, LastReplaced
    <3>3. ~ (Len(t) > Len(frames))
      BY <2>3, <3>2
    <3> QED BY <3>1, <3>2, <3>3
  <2>6. CASE frames # <<>> /\ \E f : frames' = Append(frames, f)
    <3>1. PICK f, t : t = frames' /\ t = Append(frames, f)
      BY <2>6
    <3>2. /\ Len(t) = Len(frames) + 1 /\ t[Len(frames)] = frames[Len(frames)]
          /\ \A i \in 1 .. Len(frames) - 1 : i \in DOMAIN t /\ t[i] = frames[i]
      BY <2>2, <2>6, <3>1, LastAdded
    <3> QED BY <2>3, <3>1, <3>2 DEF Top
  <2>7. CASE frames' = SubSeq(frames, 1, Len(frames) - 1)
    <3>1. PICK t : t = frames'
      OBVIOUS
    <3>2. /\ Len(t) <= Len(frames)
          /\ \A i \in 1 .. Len(frames) - 1 : i \in DOMAIN t /\ t[i] = frames[i]
      BY <2>2, <2>7, <3>1, LastRemoved
    <3>3. Len(t) \in Nat
      BY <2>2, <2>3, <2>7, <3>1, LenProperties, SubSeqProperties
    <3> QED BY <2>3, <3>1, <3>2, <3>3
  <2> QED BY <2>4, <2>5, <2>6, <2>7, FramesStep
<1> QED BY <1>1, WellFormedInvariant, PTL DEF Spec, CallersAreLeftAlone

-----------------------------------------------------------------------------
\* What nothing refers to.

\* What the machine holds and the other objects keep clear of B.
Fence(B) == Fenced(F, B, heap) /\ AllAvoid(B, Held)

\* An instruction on data, with an outcome for a register of its frame.
DataStep(B) ==
  \E r \in DOMAIN Registers : \E outcome :
    /\ Finish(r, outcome)
    /\ GoodOutcome(F, heap, outcome) /\ Leaves(B, heap, outcome)

LEMMA DataStepIntro ==
  ASSUME NEW B, NEW r \in DOMAIN Registers, NEW outcome, Finish(r, outcome),
         GoodOutcome(F, heap, outcome), Leaves(B, heap, outcome)
  PROVE  DataStep(B)
BY DEF DataStep

\* The operands are held.
LEMMA HeldRegister ==
  ASSUME Inv, WellFormed(program), NEW r \in DOMAIN Registers
  PROVE  Registers[r] \in Held
<1>1. frames # <<>>
  <2> SUFFICES ASSUME frames = <<>> PROVE FALSE
    OBVIOUS
  <2> QED BY DEF Registers
<1>2. Registers = frames[Len(frames)].registers /\ Len(frames) \in DOMAIN frames
  BY <1>1, TopFrame DEF Registers, Top, Inv
<1> QED BY <1>2 DEF Held, RangeOf

LEMMA ClearRegister ==
  ASSUME Inv, WellFormed(program), NEW B, Fence(B), NEW k \in 1 .. Len(Operands(Code[pc])),
         Operands(Code[pc])[k] = "reg"
  PROVE  Operand(k) \in DOMAIN Registers /\ Clear(F, B, heap, REGISTER(k))
<1>1. Operand(k) \in DOMAIN Registers /\ Good(F, heap, REGISTER(k))
  BY RegisterOperand
<1>2. REGISTER(k) \in Held
  BY <1>1, HeldRegister DEF REGISTER
<1> QED BY <1>1, <1>2 DEF Fence, AllAvoid, Clear

LEMMA ClearConstant ==
  ASSUME Inv, WellFormed(program), NEW B, Fence(B), NEW k \in 1 .. Len(Operands(Code[pc])),
         Operands(Code[pc])[k] = "const"
  PROVE  Clear(F, B, heap, CONSTANT_AT(k)) /\ CONSTANT_AT(k) \in Held
<1>1. program_counter \in program.starts
  BY TheRegisters
<1>2. Operand(k) \in DOMAIN program.constants
  BY <1>1 DEF WellFormed, WellFormedAt, Operand, Code, pc
<1>3. CONSTANT_AT(k) \in Held
  BY <1>2 DEF Held, RangeOf, CONSTANT_AT
<1> QED BY <1>3, ConstantOperand DEF Fence, AllAvoid, Clear

LEMMA ClearGlobal ==
  ASSUME Inv, WellFormed(program), NEW B, Fence(B), NEW k \in 1 .. Len(Operands(Code[pc])),
         Operands(Code[pc])[k] = "global"
  PROVE  Clear(F, B, heap, main_frame[Operand(k)])
<1>1. Operand(k) \in DOMAIN main_frame /\ Good(F, heap, main_frame[Operand(k)])
  BY GlobalOperand
<1>2. main_frame[Operand(k)] \in Held
  BY <1>1 DEF Held, RangeOf
<1> QED BY <1>1, <1>2 DEF Fence, AllAvoid, Clear

LEMMA ThreeClear ==
  ASSUME Inv, WellFormed(program), NEW B, Fence(B), Code[pc] \in ThreeRegisters
  PROVE  /\ Operand(1) \in DOMAIN Registers
         /\ Clear(F, B, heap, REGISTER(1)) /\ Clear(F, B, heap, REGISTER(2))
         /\ Clear(F, B, heap, REGISTER(3))
<1>1. Operands(Code[pc]) = << "reg", "reg", "reg" >>
  BY OperandsOf
<1>2. \A k \in 1 .. 3 : k \in 1 .. Len(Operands(Code[pc])) /\ Operands(Code[pc])[k] = "reg"
  BY <1>1
<1>3. \A k \in 1 .. 3 : Operand(k) \in DOMAIN Registers /\ Clear(F, B, heap, REGISTER(k))
  BY <1>2, ClearRegister
<1> QED BY <1>3

LEMMA TwoClear ==
  ASSUME Inv, WellFormed(program), NEW B, Fence(B), Code[pc] \in TwoRegisters
  PROVE  /\ Operand(1) \in DOMAIN Registers
         /\ Clear(F, B, heap, REGISTER(1)) /\ Clear(F, B, heap, REGISTER(2))
<1>1. Operands(Code[pc]) = << "reg", "reg" >>
  BY OperandsOf
<1>2. \A k \in 1 .. 2 : k \in 1 .. Len(Operands(Code[pc])) /\ Operands(Code[pc])[k] = "reg"
  BY <1>1
<1>3. \A k \in 1 .. 2 : Operand(k) \in DOMAIN Registers /\ Clear(F, B, heap, REGISTER(k))
  BY <1>2, ClearRegister
<1> QED BY <1>3

LEMMA OneClear ==
  ASSUME Inv, WellFormed(program), NEW B, Fence(B), Code[pc] \in OneRegister
  PROVE  Operand(1) \in DOMAIN Registers /\ Clear(F, B, heap, REGISTER(1))
<1>1. Operands(Code[pc]) = << "reg" >>
  BY OperandsOf
<1>2. 1 \in 1 .. Len(Operands(Code[pc])) /\ Operands(Code[pc])[1] = "reg"
  BY <1>1
<1> QED BY <1>2, ClearRegister

LEMMA RegisterAndConstantClear ==
  ASSUME Inv, WellFormed(program), NEW B, Fence(B), Code[pc] \in RegisterAndConstant
  PROVE  /\ Operand(1) \in DOMAIN Registers
         /\ Clear(F, B, heap, REGISTER(1)) /\ Clear(F, B, heap, CONSTANT_AT(2))
<1>1. Operands(Code[pc]) = << "reg", "const" >>
  BY OperandsOf
<1>2. /\ 1 \in 1 .. Len(Operands(Code[pc])) /\ Operands(Code[pc])[1] = "reg"
      /\ 2 \in 1 .. Len(Operands(Code[pc])) /\ Operands(Code[pc])[2] = "const"
  BY <1>1
<1> QED BY <1>2, ClearRegister, ClearConstant

LEMMA ClearGives ==
  ASSUME NEW B, NEW x, Clear(F, B, heap, x)
  PROVE  GoodOutcome(F, heap, Gives(x)) /\ Leaves(B, heap, Gives(x))
BY SimpleOutcomes, SimpleLeaves DEF Clear

\* The instructions on data.
LEMMA LoadsLeave ==
  ASSUME Inv, WellFormed(program), NEW B, Fence(B), Move \/ LoadConstant \/ LoadGlobal
  PROVE  DataStep(B)
<1>1. CASE Move
  <2>1. Code[pc] \in TwoRegisters
    BY <1>1 DEF Move, At, TwoRegisters
  <2> QED BY <1>1, <2>1, TwoClear, ClearGives, DataStepIntro DEF Move
<1>2. CASE LoadConstant
  <2>1. Code[pc] \in RegisterAndConstant
    BY <1>2 DEF LoadConstant, At, RegisterAndConstant
  <2> QED BY <1>2, <2>1, RegisterAndConstantClear, ClearGives, DataStepIntro DEF LoadConstant
<1>3. CASE LoadGlobal
  <2>1. Operands(Code[pc]) = << "reg", "global" >>
    BY <1>3, OperandsOf DEF LoadGlobal, At
  <2>2. /\ 1 \in 1 .. Len(Operands(Code[pc])) /\ Operands(Code[pc])[1] = "reg"
        /\ 2 \in 1 .. Len(Operands(Code[pc])) /\ Operands(Code[pc])[2] = "global"
    BY <2>1
  <2> QED BY <1>3, <2>2, ClearRegister, ClearGlobal, ClearGives, DataStepIntro DEF LoadGlobal
<1> QED BY <1>1, <1>2, <1>3

LEMMA GetLeaves ==
  ASSUME Inv, WellFormed(program), NEW B, Fence(B), Get
  PROVE  DataStep(B)
<1>1. PICK x, i : x = REGISTER(2) /\ i = REGISTER(3)
  OBVIOUS
<1>2. Code[pc] \in GetOps /\ Code[pc] \in ThreeRegisters
  BY DEF Get, At, ThreeRegisters
<1>3. Operand(1) \in DOMAIN Registers /\ Clear(F, B, heap, x) /\ Clear(F, B, heap, i)
  BY <1>1, <1>2, ThreeClear
<1>4. Fenced(F, B, heap) /\ GoodHeap(F, heap) /\ Good(F, heap, x) /\ Good(F, heap, i)
  BY <1>3 DEF Fence, Fenced, Clear
<1>5. \E outcome \in { StringGet(x, i), ListGet(heap, x, i), DictKey(heap, x, i),
                       DictGet(heap, x, i) } : Finish(Operand(1), outcome)
  BY <1>1, <1>2 DEF Get, GetOps
<1>6. /\ GoodOutcome(F, heap, StringGet(x, i)) /\ GoodOutcome(F, heap, ListGet(heap, x, i))
      /\ GoodOutcome(F, heap, DictKey(heap, x, i)) /\ GoodOutcome(F, heap, DictGet(heap, x, i))
  BY <1>4, StringGetIsGood, ListGetIsGood, DictKeyIsGood, DictGetIsGood
<1>7. /\ Leaves(B, heap, StringGet(x, i)) /\ Leaves(B, heap, ListGet(heap, x, i))
      /\ Leaves(B, heap, DictKey(heap, x, i)) /\ Leaves(B, heap, DictGet(heap, x, i))
  BY <1>3, <1>4, StringGetLeaves, ListGetLeaves, DictKeyLeaves, DictGetLeaves
<1> QED BY <1>3, <1>5, <1>6, <1>7, DataStepIntro

LEMMA SetLeaves ==
  ASSUME Inv, WellFormed(program), NEW B, Fence(B), Set
  PROVE  DataStep(B)
<1>1. PICK x, i, y : x = REGISTER(1) /\ i = REGISTER(2) /\ y = REGISTER(3)
  OBVIOUS
<1>2. Code[pc] \in SetOps /\ Code[pc] \in ThreeRegisters
  BY DEF Set, At, ThreeRegisters
<1>3. /\ Operand(1) \in DOMAIN Registers
      /\ Clear(F, B, heap, x) /\ Clear(F, B, heap, i) /\ Clear(F, B, heap, y)
  BY <1>1, <1>2, ThreeClear
<1>4. /\ Fenced(F, B, heap) /\ GoodHeap(F, heap)
      /\ Good(F, heap, x) /\ Good(F, heap, i) /\ Good(F, heap, y)
  BY <1>3 DEF Fence, Fenced, Clear
<1>5. \E outcome \in { StringSet(x, i, y), ListSet(heap, x, i, y), DictSet(heap, x, i, y) } :
        Finish(Operand(1), outcome)
  BY <1>1, <1>2 DEF Set, SetOps
<1>6. /\ GoodOutcome(F, heap, StringSet(x, i, y)) /\ GoodOutcome(F, heap, ListSet(heap, x, i, y))
      /\ GoodOutcome(F, heap, DictSet(heap, x, i, y))
  BY <1>4, StringSetIsGood, ListSetIsGood, DictSetIsGood
<1>7. /\ Leaves(B, heap, StringSet(x, i, y)) /\ Leaves(B, heap, ListSet(heap, x, i, y))
      /\ Leaves(B, heap, DictSet(heap, x, i, y))
  BY <1>3, <1>4, StringSetLeaves, ListSetLeaves, DictSetLeaves
<1> QED BY <1>3, <1>5, <1>6, <1>7, DataStepIntro

LEMMA DeleteLeaves ==
  ASSUME Inv, WellFormed(program), NEW B, Fence(B), Delete
  PROVE  DataStep(B)
<1>1. PICK x, i : x = REGISTER(1) /\ i = REGISTER(2)
  OBVIOUS
<1>2. Code[pc] \in DeleteOps /\ Code[pc] \in TwoRegisters
  BY DEF Delete, At, TwoRegisters
<1>3. Operand(1) \in DOMAIN Registers /\ Clear(F, B, heap, x) /\ Clear(F, B, heap, i)
  BY <1>1, <1>2, TwoClear
<1>4. Fenced(F, B, heap) /\ GoodHeap(F, heap) /\ Good(F, heap, x) /\ Good(F, heap, i)
  BY <1>3 DEF Fence, Fenced, Clear
<1>5. \E outcome \in { StringDelete(x, i), ListDelete(heap, x, i), DictDelete(heap, x, i) } :
        Finish(Operand(1), outcome)
  BY <1>1, <1>2 DEF Delete, DeleteOps
<1>6. /\ GoodOutcome(F, heap, StringDelete(x, i)) /\ GoodOutcome(F, heap, ListDelete(heap, x, i))
      /\ GoodOutcome(F, heap, DictDelete(heap, x, i))
  BY <1>4, StringDeleteIsGood, ListDeleteIsGood, DictDeleteIsGood
<1>7. /\ Leaves(B, heap, StringDelete(x, i)) /\ Leaves(B, heap, ListDelete(heap, x, i))
      /\ Leaves(B, heap, DictDelete(heap, x, i))
  BY <1>3, <1>4, StringDeleteLeaves, ListDeleteLeaves, DictDeleteLeaves
<1> QED BY <1>3, <1>5, <1>6, <1>7, DataStepIntro

LEMMA PushToListLeaves ==
  ASSUME Inv, WellFormed(program), NEW B, Fence(B), PushToList
  PROVE  DataStep(B)
<1>1. PICK x : x = REGISTER(1)
  OBVIOUS
<1>2. \E y : /\ Finish(Operand(1), ListPush(heap, x, y)) /\ Operand(1) \in DOMAIN Registers
             /\ Clear(F, B, heap, x) /\ Clear(F, B, heap, y)
  <2>1. CASE Code[pc] = <<"LPUSH">>
    BY <1>1, <2>1, TwoClear DEF PushToList, TwoRegisters
  <2>2. CASE Code[pc] = <<"LPUSH_C">>
    BY <1>1, <2>2, RegisterAndConstantClear DEF PushToList, RegisterAndConstant
  <2> QED BY <2>1, <2>2 DEF PushToList, At
<1>3. PICK y : /\ Finish(Operand(1), ListPush(heap, x, y)) /\ Operand(1) \in DOMAIN Registers
               /\ Clear(F, B, heap, x) /\ Clear(F, B, heap, y)
  BY <1>2
<1>4. Fenced(F, B, heap) /\ GoodHeap(F, heap) /\ Good(F, heap, x) /\ Good(F, heap, y)
  BY <1>3 DEF Fence, Fenced, Clear
<1>5. GoodOutcome(F, heap, ListPush(heap, x, y)) /\ Leaves(B, heap, ListPush(heap, x, y))
  BY <1>3, <1>4, ListPushIsGood, ListPushLeaves
<1> QED BY <1>3, <1>5, DataStepIntro

LEMMA PropertiesLeave ==
  ASSUME Inv, WellFormed(program), NEW B, Fence(B), LoadProperty \/ SetProperty
  PROVE  DataStep(B)
<1>0. Fenced(F, B, heap) /\ GoodHeap(F, heap)
  BY DEF Fence, Fenced
<1>1. CASE LoadProperty
  <2>1. Operands(Code[pc]) = << "reg", "reg", "prop" >>
    BY <1>1, OperandsOf DEF LoadProperty, At
  <2>2. /\ 1 \in 1 .. Len(Operands(Code[pc])) /\ Operands(Code[pc])[1] = "reg"
        /\ 2 \in 1 .. Len(Operands(Code[pc])) /\ Operands(Code[pc])[2] = "reg"
    BY <2>1
  <2>3. PICK x, p : x = REGISTER(2) /\ p = Operand(3)
    OBVIOUS
  <2>4. Operand(1) \in DOMAIN Registers /\ Clear(F, B, heap, x)
    BY <2>2, <2>3, ClearRegister
  <2>5. GoodOutcome(F, heap, PropGet(heap, x, p)) /\ Leaves(B, heap, PropGet(heap, x, p))
    BY <1>0, <2>4, PropGetIsGood, PropGetLeaves DEF Clear
  <2> QED BY <1>1, <2>3, <2>4, <2>5, DataStepIntro DEF LoadProperty
<1>2. CASE SetProperty
  <2>1. Operands(Code[pc]) = << "prop", "reg", "reg" >>
    BY <1>2, OperandsOf DEF SetProperty, At
  <2>2. /\ 2 \in 1 .. Len(Operands(Code[pc])) /\ Operands(Code[pc])[2] = "reg"
        /\ 3 \in 1 .. Len(Operands(Code[pc])) /\ Operands(Code[pc])[3] = "reg"
    BY <2>1
  <2>3. PICK p, x, y : p = Operand(1) /\ x = REGISTER(2) /\ y = REGISTER(3)
    OBVIOUS
  <2>4. Operand(2) \in DOMAIN Registers /\ Clear(F, B, heap, x) /\ Clear(F, B, heap, y)
    BY <2>2, <2>3, ClearRegister
  <2>5. GoodOutcome(F, heap, PropSet(heap, p, x, y)) /\ Leaves(B, heap, PropSet(heap, p, x, y))
    BY <1>0, <2>4, PropSetIsGood, PropSetLeaves DEF Clear
  <2> QED BY <1>2, <2>3, <2>4, <2>5, DataStepIntro DEF SetProperty
<1> QED BY <1>1, <1>2

LEMMA OperatorsLeave ==
  ASSUME Inv, WellFormed(program), NEW B, Fence(B),
         CastValue \/ UnaryOperation \/ BinaryOperation \/ MakeRange
  PROVE  DataStep(B)
<1>0. Fenced(F, B, heap) /\ GoodHeap(F, heap)
  BY DEF Fence, Fenced
<1>1. CASE CastValue
  <2>1. PICK op, x : op \in CastOps /\ op = Code[pc] /\ x = REGISTER(2) /\ Code[pc] \in TwoRegisters
    BY <1>1 DEF CastValue, At, TwoRegisters
  <2>2. Operand(1) \in DOMAIN Registers /\ Clear(F, B, heap, x)
    BY <2>1, TwoClear
  <2>3. GoodOutcome(F, heap, Cast(op, heap, x)) /\ Leaves(B, heap, Cast(op, heap, x))
    BY <1>0, <2>1, <2>2, CastIsGood, CastLeaves DEF Clear
  <2> QED BY <1>1, <2>1, <2>2, <2>3, DataStepIntro DEF CastValue
<1>2. CASE UnaryOperation
  <2>1. PICK op, x : op \in UnaryOps /\ op = Code[pc] /\ x = REGISTER(2) /\ Code[pc] \in TwoRegisters
    BY <1>2 DEF UnaryOperation, At, TwoRegisters
  <2>2. Operand(1) \in DOMAIN Registers /\ Clear(F, B, heap, x)
    BY <2>1, TwoClear
  <2>3. GoodOutcome(F, heap, Unary(op, heap, x)) /\ Leaves(B, heap, Unary(op, heap, x))
    BY <1>0, <2>1, <2>2, UnaryIsGood, UnaryLeaves DEF Clear
  <2> QED BY <1>2, <2>1, <2>2, <2>3, DataStepIntro DEF UnaryOperation
<1>3. CASE BinaryOperation
  <2>1. PICK op, x, y : /\ op \in BinaryOps /\ op = Code[pc] /\ x = REGISTER(2) /\ y = REGISTER(3)
                        /\ Code[pc] \in ThreeRegisters
    BY <1>3 DEF BinaryOperation, At, ThreeRegisters
  <2>2. Operand(1) \in DOMAIN Registers /\ Clear(F, B, heap, x) /\ Clear(F, B, heap, y)
    BY <2>1, ThreeClear
  <2>3. GoodOutcome(F, heap, Binary(op, heap, x, y)) /\ Leaves(B, heap, Binary(op, heap, x, y))
    BY <1>0, <2>1, <2>2, DifferencesTold, BinaryIsGood, BinaryLeaves DEF Clear
  <2> QED BY <1>3, <2>1, <2>2, <2>3, DataStepIntro DEF BinaryOperation
<1>4. CASE MakeRange
  <2>1. PICK op, x, y : /\ op = Code[pc] /\ x = REGISTER(2) /\ y = REGISTER(3)
                        /\ Code[pc] \in ThreeRegisters
    BY <1>4 DEF MakeRange, At, ThreeRegisters
  <2>2. Operand(1) \in DOMAIN Registers /\ Clear(F, B, heap, x) /\ Clear(F, B, heap, y)
    BY <2>1, ThreeClear
  <2>3. GoodOutcome(F, heap, RangeOfInts(op, x, y)) /\ Leaves(B, heap, RangeOfInts(op, x, y))
    BY <1>0, <2>2, RangeOfIntsIsGood, RangeOfIntsLeaves DEF Clear
  <2>4. GoodOutcome(F, heap, Mistaken) /\ Leaves(B, heap, Mistaken)
    BY SimpleOutcomes, SimpleLeaves
  <2>5. Finish(Operand(1), RangeOfInts(op, x, y)) \/ Finish(Operand(1), Mistaken)
    BY <1>4, <2>1 DEF MakeRange
  <2> QED BY <2>2, <2>3, <2>4, <2>5, DataStepIntro
<1> QED BY <1>1, <1>2, <1>3, <1>4

LEMMA IncrementLeaves ==
  ASSUME Inv, WellFormed(program), NEW B, Fence(B), Increment
  PROVE  DataStep(B)
<1>1. PICK x : x = REGISTER(1) /\ Code[pc] \in OneRegister
  BY DEF Increment, At, OneRegister
<1>2. Operand(1) \in DOMAIN Registers /\ Good(F, heap, x)
  BY <1>1, OneClear DEF Clear
<1>3. CASE x.is # "int"
  <2>1. Finish(Operand(1), Mistaken)
    BY <1>1, <1>3 DEF Increment
  <2> QED BY <1>2, <2>1, SimpleOutcomes, SimpleLeaves, DataStepIntro
<1>4. CASE x.is = "int"
  <2>1. PICK n : n = x.v + 1 /\ n \in Int
    BY <1>2, <1>4 DEF Good, IsValue
  <2>2. [x EXCEPT !.v = n] = [type |-> x.type, is |-> "int", v |-> n]
    BY <1>2, <1>4 DEF Good, IsValue
  <2>3. Good(F, heap, [x EXCEPT !.v = n])
    BY <1>2, <1>4, <2>1, <2>2 DEF Good, IsValue, IsDifference, Kinds
  <2>4. [x EXCEPT !.v = n].is \notin Shared
    BY <2>2 DEF Shared
  <2>5. Finish(Operand(1), Gives([x EXCEPT !.v = n]))
    BY <1>1, <1>4, <2>1 DEF Increment
  <2> QED BY <1>2, <2>3, <2>4, <2>5, SimpleOutcomes, SimpleLeaves, DataStepIntro
<1> QED BY <1>3, <1>4

\* What the machine holds, part by part.
FramesClear(B, fs) == \A i \in DOMAIN fs : AllAvoid(B, RangeOf(fs[i].registers))
HeldClear(B, s, m, p, fs) ==
  /\ AllAvoid(B, RangeOf(s)) /\ AllAvoid(B, RangeOf(m)) /\ AllAvoid(B, RangeOf(p.constants))
  /\ FramesClear(B, fs)

LEMMA HeldParts ==
  ASSUME NEW B
  PROVE  /\ AllAvoid(B, Held) <=> HeldClear(B, stack, main_frame, program, frames)
         /\ AllAvoid(B, Held') <=> HeldClear(B, stack', main_frame', program', frames')
BY DEF AllAvoid, Held, HeldClear, FramesClear

LEMMA RegisterClear ==
  ASSUME NEW B, FramesClear(B, frames), NEW r, NEW x, Avoids(B, x)
  PROVE  FramesClear(B, WithRegister(r, x))
<1>0. PICK n, f : /\ n = Len(frames)
                  /\ f = [registers |-> [Top.registers EXCEPT ![r] = x],
                          return_address |-> Top.return_address]
  OBVIOUS
<1>1. /\ WithRegister(r, x) = [frames EXCEPT ![n] = f]
      /\ f.registers = [frames[n].registers EXCEPT ![r] = x]
  BY <1>0 DEF WithRegister, Top
<1>2. n \in DOMAIN frames => AllAvoid(B, RangeOf(f.registers))
  BY <1>1 DEF FramesClear, AllAvoid, RangeOf
<1> QED BY <1>1, <1>2 DEF FramesClear

LEMMA FrameAddedClear ==
  ASSUME NEW B, NEW fs, FramesClear(B, fs), fs \in Seq(RangeOf(fs)), NEW size, NEW address
  PROVE  FramesClear(B, Append(fs, NewFrame(size, address)))
<1>1. PICK f : f = NewFrame(size, address)
  OBVIOUS
<1>2. AllAvoid(B, RangeOf(f.registers))
  BY <1>1, ScalarsAvoid DEF AllAvoid, RangeOf, NewFrame
<1>3. PICK S : S = RangeOf(fs) \cup {f}
  OBVIOUS
<1>4. fs \in Seq(S) /\ DOMAIN fs = 1 .. Len(fs) /\ Len(fs) \in Nat
  BY <1>3, SeqMonotonic, LenProperties
<1>5. /\ Append(fs, f) \in Seq(S) /\ Len(Append(fs, f)) = Len(fs) + 1
      /\ \A i \in 1 .. Len(fs) : Append(fs, f)[i] = fs[i]
      /\ Append(fs, f)[Len(fs) + 1] = f
  BY <1>3, <1>4, AppendProperties
<1>6. DOMAIN Append(fs, f) = 1 .. Len(fs) + 1
  BY <1>5, LenProperties
<1>7. \A i \in 1 .. Len(fs) + 1 : i \in 1 .. Len(fs) \/ i = Len(fs) + 1
  BY <1>4
<1> QED BY <1>1, <1>2, <1>4, <1>5, <1>6, <1>7 DEF FramesClear

LEMMA FewerElements ==
  ASSUME NEW s, s \in Seq(RangeOf(s)), s # <<>>
  PROVE  /\ SubSeq(s, 1, Len(s) - 1) \in Seq(RangeOf(s))
         /\ RangeOf(SubSeq(s, 1, Len(s) - 1)) \subseteq RangeOf(s)
         /\ s[Len(s)] \in RangeOf(s)
<1>1. Len(s) \in Nat \ {0} /\ DOMAIN s = 1 .. Len(s)
  BY EmptySeq, LenProperties
<1>2. Len(s) - 1 \in Int /\ Len(s) - 1 <= Len(s)
  BY <1>1
<1>3. SubSeq(s, 1, Len(s) - 1) \in Seq(RangeOf(s))
  BY <1>2, SubSeqRange
<1> QED BY <1>1, <1>2, <1>3, RangeFacts DEF RangeOf

\* The instructions that leave the heap alone.
LEMMA GlobalsAndStackLeave ==
  ASSUME Inv, WellFormed(program), NEW B, Fence(B), SetGlobal \/ Push \/ Pop
  PROVE  heap' = heap /\ AllAvoid(B, Held')
<1>0. /\ HeldClear(B, stack, main_frame, program, frames)
      /\ stack \in Seq(RangeOf(stack))
  BY HeldParts DEF Fence, Inv, GoodStack
<1>1. CASE SetGlobal
  <2>1. Operands(Code[pc]) = << "global", "reg" >>
    BY <1>1, OperandsOf DEF SetGlobal, At
  <2>2. 2 \in 1 .. Len(Operands(Code[pc])) /\ Operands(Code[pc])[2] = "reg"
    BY <2>1
  <2>3. Avoids(B, REGISTER(2))
    BY <2>2, ClearRegister DEF Clear
  <2>4. /\ main_frame' = [main_frame EXCEPT ![Operand(1)] = REGISTER(2)]
        /\ UNCHANGED <<program, frames, stack, heap>>
    BY <1>1 DEF SetGlobal
  <2>5. AllAvoid(B, RangeOf(main_frame'))
    BY <1>0, <2>3, <2>4 DEF HeldClear, AllAvoid, RangeOf
  <2> QED BY <1>0, <2>4, <2>5, HeldParts DEF HeldClear
<1>2. CASE Push
  <2>1. PICK x : x = IF Code[pc] = <<"PUSH">> THEN REGISTER(1) ELSE CONSTANT_AT(1)
    OBVIOUS
  <2>2. Avoids(B, x)
    <3>1. CASE Code[pc] = <<"PUSH">>
      BY <2>1, <3>1, OneClear DEF OneRegister, Clear
    <3>2. CASE Code[pc] = <<"PUSH_C">>
      <4>1. Operands(Code[pc]) = << "const" >>
        BY <3>2, OperandsOf DEF OneConstant
      <4>2. 1 \in 1 .. Len(Operands(Code[pc])) /\ Operands(Code[pc])[1] = "const"
        BY <4>1
      <4> QED BY <2>1, <3>2, <4>2, ClearConstant DEF Clear
    <3> QED BY <1>2, <3>1, <3>2 DEF Push, At
  <2>3. /\ stack' = stack \/ stack' = Append(stack, x)
        /\ UNCHANGED <<program, frames, main_frame, heap>>
    BY <1>2, <2>1 DEF Push, Stop
  <2>4. AllAvoid(B, RangeOf(Append(stack, x)))
    <3>1. RangeOf(Append(stack, x)) = RangeOf(stack) \cup {x}
      BY <1>0, AppendRange
    <3> QED BY <1>0, <2>2, <3>1 DEF HeldClear, AllAvoid
  <2>5. AllAvoid(B, RangeOf(stack'))
    BY <1>0, <2>3, <2>4 DEF HeldClear
  <2> QED BY <1>0, <2>3, <2>5, HeldParts DEF HeldClear
<1>3. CASE Pop /\ stack = <<>>
  <2>1. UNCHANGED <<program, frames, stack, main_frame, heap>>
    BY <1>3 DEF Pop, Stop
  <2> QED BY <1>0, <2>1, HeldParts
<1>4. CASE Pop /\ stack # <<>>
  <2>1. PICK x : x = stack[Len(stack)]
    OBVIOUS
  <2>2. /\ stack' = SubSeq(stack, 1, Len(stack) - 1)
        /\ frames' = WithRegister(Operand(1), x)
        /\ UNCHANGED <<program, main_frame, heap>>
    BY <1>4, <2>1 DEF Pop
  <2>3. x \in RangeOf(stack) /\ RangeOf(stack') \subseteq RangeOf(stack)
    BY <1>0, <1>4, <2>1, <2>2, FewerElements
  <2>4. AllAvoid(B, RangeOf(stack')) /\ Avoids(B, x)
    BY <1>0, <2>3 DEF HeldClear, AllAvoid
  <2>5. FramesClear(B, frames')
    BY <1>0, <2>2, <2>4, RegisterClear DEF HeldClear
  <2> QED BY <1>0, <2>2, <2>4, <2>5, HeldParts DEF HeldClear
<1> QED BY <1>1, <1>2, <1>3, <1>4

LEMMA ControlLeaves ==
  ASSUME Inv, WellFormed(program), NEW B, Fence(B),
         \/ Exit \/ Slice \/ Call \/ Return \/ Jump \/ CondJump \/ Write
         \/ UNCHANGED vars
  PROVE  heap' = heap /\ AllAvoid(B, Held')
<1>0. /\ HeldClear(B, stack, main_frame, program, frames)
      /\ frames \in Seq(RangeOf(frames))
  BY HeldParts DEF Fence, Inv, GoodFrames
<1>1. CASE UNCHANGED <<program, frames, stack, main_frame, heap>>
  BY <1>0, <1>1, HeldParts
<1>2. CASE Exit \/ Slice \/ Jump \/ CondJump \/ Write \/ UNCHANGED vars
  <2>1. UNCHANGED <<program, frames, stack, main_frame, heap>>
    BY <1>2 DEF Exit, Slice, Jump, CondJump, Write, Stop, vars
  <2> QED BY <1>1, <2>1
<1>3. CASE Call
  <2>1. CASE UNCHANGED <<program, frames, stack, main_frame, heap>>
    BY <1>1, <2>1
  <2>2. CASE \E size : /\ frames' = Append(frames, NewFrame(size, ReturnAddress))
                       /\ UNCHANGED <<program, stack, main_frame, heap>>
    <3>1. FramesClear(B, frames')
      BY <1>0, <2>2, FrameAddedClear DEF HeldClear
    <3> QED BY <1>0, <2>2, <3>1, HeldParts DEF HeldClear
  <2> QED BY <1>3, <2>1, <2>2 DEF Call, Stop
<1>4. CASE Return
  <2>1. /\ frames # <<>> /\ frames' = SubSeq(frames, 1, Len(frames) - 1)
        /\ UNCHANGED <<program, stack, main_frame, heap>>
    BY <1>4 DEF Return, At, Executable
  <2>2. /\ frames' \in Seq(RangeOf(frames)) /\ RangeOf(frames') \subseteq RangeOf(frames)
    BY <1>0, <2>1, FewerElements
  <2>3. FramesClear(B, frames')
    BY <1>0, <2>2 DEF HeldClear, FramesClear, RangeOf
  <2> QED BY <1>0, <2>1, <2>3, HeldParts DEF HeldClear
<1> QED BY <1>2, <1>3, <1>4

LEMMA DataStepKeeps ==
  ASSUME Inv, NEW B, Fence(B), DataStep(B)
  PROVE  Keeps(B, heap, heap') /\ AllAvoid(B, Held')
<1>0. HeldClear(B, stack, main_frame, program, frames) /\ Fenced(F, B, heap)
  BY HeldParts DEF Fence
<1>1. PICK r, outcome :
        /\ r \in DOMAIN Registers
        /\ Finish(r, outcome) /\ GoodOutcome(F, heap, outcome) /\ Leaves(B, heap, outcome)
  BY DEF DataStep
<1>2. CASE outcome.how \in Ends
  <2>1. UNCHANGED <<program, frames, stack, main_frame, heap>>
    BY <1>1, <1>2 DEF Finish, Stop, Ends
  <2> QED BY <1>0, <2>1, HeldParts, SameHeapKeeps
<1>3. CASE outcome.how = "value"
  <2>1. /\ frames' = WithRegister(r, outcome.value)
        /\ UNCHANGED <<program, stack, main_frame, heap>>
    BY <1>1, <1>3 DEF Finish
  <2>2. Avoids(B, outcome.value)
    BY <1>1, <1>3 DEF Leaves, Ends
  <2>3. FramesClear(B, frames')
    BY <1>0, <2>1, <2>2, RegisterClear DEF HeldClear
  <2> QED BY <1>0, <2>1, <2>3, HeldParts, SameHeapKeeps DEF HeldClear
<1>4. CASE outcome.how = "new"
  <2>1. PICK x, later : /\ x = Make(outcome.type, Len(heap) + Len(outcome.objects))
                        /\ later = heap \o outcome.objects
    OBVIOUS
  <2>2. /\ heap' = later /\ frames' = WithRegister(r, x)
        /\ UNCHANGED <<program, stack, main_frame>>
    BY <1>1, <1>4, <2>1 DEF Finish
  <2>3. Keeps(B, heap, later) /\ Avoids(B, x)
    BY <1>0, <1>1, <1>4, <2>1, NewKeeps
  <2>4. FramesClear(B, frames')
    BY <1>0, <2>2, <2>3, RegisterClear DEF HeldClear
  <2> QED BY <1>0, <2>2, <2>3, <2>4, HeldParts DEF HeldClear
<1>5. CASE outcome.how = "store"
  <2>1. PICK later : later = [heap EXCEPT ![outcome.address] = outcome.object]
    OBVIOUS
  <2>2. heap' = later /\ UNCHANGED <<program, frames, stack, main_frame>>
    BY <1>1, <1>5, <2>1 DEF Finish
  <2>3. Keeps(B, heap, later)
    BY <1>0, <1>1, <1>5, <2>1, StoreKeeps
  <2> QED BY <1>0, <2>2, <2>3, HeldParts
<1> QED BY <1>1, <1>2, <1>3, <1>4, <1>5 DEF GoodOutcome

\* Whatever the instruction.
LEMMA StepKeepsAway ==
  ASSUME Inv, WellFormed(program), NEW B, Fence(B), [Next]_vars
  PROVE  Keeps(B, heap, heap') /\ AllAvoid(B, Held')
<1>1. CASE DataStep(B)
  BY <1>1, DataStepKeeps
<1>2. CASE heap' = heap /\ AllAvoid(B, Held')
  BY <1>2, SameHeapKeeps DEF Fence
<1>3. CASE \/ Move \/ LoadConstant \/ LoadGlobal \/ Get \/ Set \/ Delete \/ PushToList
           \/ LoadProperty \/ SetProperty
  <2>1. DataStep(B)
    BY <1>3, LoadsLeave, GetLeaves, SetLeaves, DeleteLeaves, PushToListLeaves, PropertiesLeave
  <2> QED BY <1>1, <2>1
<1>4. CASE CastValue \/ UnaryOperation \/ Increment \/ BinaryOperation \/ MakeRange
  <2>1. DataStep(B)
    BY <1>4, OperatorsLeave, IncrementLeaves
  <2> QED BY <1>1, <2>1
<1>5. CASE SetGlobal \/ Push \/ Pop
  BY <1>2, <1>5, GlobalsAndStackLeave
<1>6. CASE \/ Exit \/ Slice \/ Call \/ Return \/ Jump \/ CondJump \/ Write
           \/ UNCHANGED vars
  BY <1>2, <1>6, ControlLeaves
<1> QED BY <1>3, <1>4, <1>5, <1>6 DEF Next

(***************************************************************************)
(* If all programs are well formed, an object stays what it was made as: a *)
(* list, a dictionary, or an object of its class and with its properties,  *)
(* however many values share it and whatever is stored into it.            *)
(***************************************************************************)
THEOREM ShapesKept ==
  ASSUME \A p \in Programs : WellFormed(p)
  PROVE  Spec => ObjectsKeepTheirShape
<1>1. WInv /\ [Next]_vars
        => [\A a \in DOMAIN heap : a \in DOMAIN heap' /\ SameShape(heap[a], heap'[a])]_vars
  <2> SUFFICES ASSUME Inv, WellFormed(program), [Next]_vars
               PROVE  \A a \in DOMAIN heap : a \in DOMAIN heap' /\ SameShape(heap[a], heap'[a])
    BY DEF WInv
  <2>1. Fence({})
    BY DEF Fence, Fenced, AllAvoid, Avoids, Inv
  <2>2. Keeps({}, heap, heap')
    BY <2>1, StepKeepsAway
  <2> QED BY <2>2 DEF Keeps
<1> QED BY <1>1, WellFormedInvariant, PTL DEF Spec, ObjectsKeepTheirShape

(***************************************************************************)
(* If all programs are well formed, the objects that no register, global,  *)
(* constant or value on the stack leads to are never reached again, nor do *)
(* they change: what shared_ptr would have freed cannot be missed.         *)
(***************************************************************************)
THEOREM DroppedForGood ==
  ASSUME \A p \in Programs : WellFormed(p)
  PROVE  Spec => DroppedStaysDropped
<1>1. WInv /\ [Next]_vars
        => [\A a \in Dropped : a \in Dropped' /\ heap'[a] = heap[a]]_vars
  <2> SUFFICES ASSUME Inv, WellFormed(program), [Next]_vars, NEW a \in Dropped
               PROVE  a \in Dropped' /\ heap'[a] = heap[a]
    BY DEF WInv
  <2>1. PICK B : B \subseteq DOMAIN heap /\ IsDropped(B) /\ a \in B
    BY DEF Dropped
  <2>2. \A S : AllAvoid(B, S) <=> Addresses(S) \cap B = {}
    BY DEF AllAvoid, Avoids, Shared, Addresses
  <2>3. Fence(B)
    BY <2>1, <2>2 DEF Fence, Fenced, IsDropped, Inv
  <2>4. Keeps(B, heap, heap') /\ AllAvoid(B, Held')
    BY <2>3, StepKeepsAway
  <2>5. B \subseteq DOMAIN heap' /\ heap'[a] = heap[a]
    BY <2>1, <2>4 DEF Keeps
  <2>6. /\ Addresses(Held') \cap B = {}
        /\ \A b \in DOMAIN heap' \ B : Addresses(ValuesIn(heap'[b])) \cap B = {}
    BY <2>2, <2>4 DEF Keeps
  <2>7. IsDropped(B)' /\ B \in SUBSET (DOMAIN heap \ Addresses(Held))'
    BY <2>5, <2>6 DEF IsDropped
  <2>8. a \in Dropped'
    BY <2>1, <2>7 DEF Dropped
  <2> QED BY <2>5, <2>8
<1> QED BY <1>1, WellFormedInvariant, PTL DEF Spec, DroppedStaysDropped

-----------------------------------------------------------------------------
(***************************************************************************)
(* The operand stack.  Each function that has been called has some values  *)
(* on it, above those of its callers: as many as depth says at the         *)
(* instruction it goes on with, where those a call has taken off and its   *)
(* result are accounted for.                                               *)
(***************************************************************************)

\* Where the i-th function called goes on: the last one at the program counter,
\* the others where the one above returns to; the 0th is EXIT.
PointOf(fs, at, i) == IF i = Len(fs) THEN at ELSE fs[i + 1].return_address

\* The i-th function's values are those above b[i].
Heights(p, fs, at, b) ==
  /\ b \in [0 .. Len(fs) -> Nat] /\ b[0] = 0
  /\ \A i \in 1 .. Len(fs) :
       b[i] + p.gives[PointOf(fs, at, i)] = b[i - 1] + p.depth[PointOf(fs, at, i - 1)]
StackFits(p, fs, at, s) ==
  \E b : Heights(p, fs, at, b) /\ Len(s) = b[Len(fs)] + p.depth[at]

SameReturns(fs, gs) ==
  Len(gs) = Len(fs) /\ \A i \in 1 .. Len(fs) : gs[i].return_address = fs[i].return_address

LEMMA ShiftedSum ==
  ASSUME NEW l \in Nat, NEW m \in Nat, NEW d \in Nat, NEW e \in Nat, NEW h \in Nat,
         m + d = l + e, l = h + d
  PROVE  m = h + e
OBVIOUS

LEMMA CallSum ==
  ASSUME NEW h \in Nat, NEW d \in Nat, NEW e \in Nat, NEW g \in Nat, NEW k \in Nat, NEW m \in Nat,
         m = h + d - e, d - e + g = k
  PROVE  m + g = h + k
OBVIOUS

LEMMA Moved ==
  ASSUME NEW p, NEW fs, NEW gs, Len(fs) \in Nat, SameReturns(fs, gs), NEW at, NEW to,
         p.gives[to] = p.gives[at], p.depth[at] \in Nat, p.depth[to] \in Nat,
         NEW s, NEW t, Len(s) \in Nat, Len(t) \in Nat,
         Len(t) + p.depth[at] = Len(s) + p.depth[to], StackFits(p, fs, at, s)
  PROVE  StackFits(p, gs, to, t)
<1>1. PICK n \in Nat : n = Len(fs) /\ n = Len(gs)
  BY DEF SameReturns
<1>2. PICK b : Heights(p, fs, at, b) /\ Len(s) = b[n] + p.depth[at]
  BY <1>1 DEF StackFits
<1>3. b \in [0 .. n -> Nat] /\ b[0] = 0 /\ b[n] \in Nat
  BY <1>1, <1>2 DEF Heights
<1>4. ASSUME NEW i \in 1 .. n
      PROVE  b[i] + p.gives[PointOf(gs, to, i)] = b[i - 1] + p.depth[PointOf(gs, to, i - 1)]
  <2>1. b[i] + p.gives[PointOf(fs, at, i)] = b[i - 1] + p.depth[PointOf(fs, at, i - 1)]
    BY <1>1, <1>2 DEF Heights
  <2>2. PointOf(gs, to, i - 1) = PointOf(fs, at, i - 1)
    <3>1. i - 1 # n /\ i - 1 + 1 = i
      OBVIOUS
    <3> QED BY <1>1, <3>1 DEF PointOf, SameReturns
  <2>3. p.gives[PointOf(gs, to, i)] = p.gives[PointOf(fs, at, i)]
    <3>1. CASE i = n
      BY <1>1, <3>1 DEF PointOf
    <3>2. CASE i # n
      <4>1. i + 1 \in 1 .. n
        BY <3>2
      <4> QED BY <1>1, <3>2, <4>1 DEF PointOf, SameReturns
    <3> QED BY <3>1, <3>2
  <2> QED BY <2>1, <2>2, <2>3
<1>5. Heights(p, gs, to, b)
  BY <1>1, <1>3, <1>4 DEF Heights
<1>6. Len(t) = b[n] + p.depth[to]
  <2>1. PICK d \in Nat, e \in Nat, h \in Nat, l \in Nat, m \in Nat :
          d = p.depth[at] /\ e = p.depth[to] /\ h = b[n] /\ l = Len(s) /\ m = Len(t)
    BY <1>3
  <2>2. m + d = l + e /\ l = h + d
    BY <1>2, <2>1
  <2>3. m = h + e
    BY <2>2, ShiftedSum
  <2> QED BY <2>1, <2>3
<1> QED BY <1>1, <1>5, <1>6 DEF StackFits

LEMMA Called ==
  ASSUME NEW p, NEW fs, NEW gs, Len(fs) \in Nat, Len(gs) = Len(fs) + 1,
         \A i \in 1 .. Len(fs) : gs[i].return_address = fs[i].return_address,
         NEW at, NEW entry, NEW back, gs[Len(fs) + 1].return_address = back,
         p.gives[back] = p.gives[at], p.depth[entry] <= p.depth[at],
         p.depth[at] - p.depth[entry] + p.gives[entry] = p.depth[back],
         p.depth[at] \in Nat, p.depth[entry] \in Nat, p.depth[back] \in Nat,
         p.gives[entry] \in Nat, NEW s, StackFits(p, fs, at, s)
  PROVE  StackFits(p, gs, entry, s)
<1>1. PICK n \in Nat : n = Len(fs) /\ n + 1 = Len(gs)
  OBVIOUS
<1>2. PICK b : Heights(p, fs, at, b) /\ Len(s) = b[n] + p.depth[at]
  BY <1>1 DEF StackFits
<1>3. b \in [0 .. n -> Nat] /\ b[0] = 0 /\ b[n] \in Nat
  BY <1>1, <1>2 DEF Heights
<1>4. PICK m \in Nat : m = b[n] + p.depth[at] - p.depth[entry]
  BY <1>3
<1> DEFINE c == [i \in 0 .. n + 1 |-> IF i = n + 1 THEN m ELSE b[i]]
<1>5. /\ c \in [0 .. n + 1 -> Nat] /\ c[0] = 0 /\ c[n + 1] = m
      /\ \A i \in 0 .. n : c[i] = b[i]
  <2>1. \A i \in 0 .. n + 1 : i # n + 1 => i \in 0 .. n
    OBVIOUS
  <2>2. \A i \in 0 .. n : i \in 0 .. n + 1 /\ i # n + 1
    OBVIOUS
  <2>3. n + 1 \in 0 .. n + 1 /\ 0 \in 0 .. n
    OBVIOUS
  <2> QED BY <1>3, <2>1, <2>2, <2>3
<1> HIDE DEF c
<1>6. PointOf(gs, entry, n) = back /\ PointOf(gs, entry, n + 1) = entry
  BY <1>1 DEF PointOf
<1>7. ASSUME NEW i \in 1 .. n + 1
      PROVE  c[i] + p.gives[PointOf(gs, entry, i)] = c[i - 1] + p.depth[PointOf(gs, entry, i - 1)]
  <2>1. CASE i = n + 1
    <3>1. c[i] = m /\ c[i - 1] = b[n] /\ i - 1 = n
      <4>1. (n + 1) - 1 = n /\ n \in 0 .. n
        OBVIOUS
      <4> QED BY <1>5, <2>1, <4>1
    <3>2. m + p.gives[entry] = b[n] + p.depth[back]
      <4>1. PICK d \in Nat, e \in Nat, g \in Nat, h \in Nat, k \in Nat :
              /\ d = p.depth[at] /\ e = p.depth[entry] /\ g = p.gives[entry]
              /\ h = b[n] /\ k = p.depth[back]
        BY <1>3
      <4>2. m = h + d - e /\ d - e + g = k
        BY <1>4, <4>1
      <4>3. m + g = h + k
        BY <4>2, CallSum
      <4> QED BY <4>1, <4>3
    <3> QED BY <1>6, <2>1, <3>1, <3>2
  <2>2. CASE i \in 1 .. n
    <3>1. b[i] + p.gives[PointOf(fs, at, i)] = b[i - 1] + p.depth[PointOf(fs, at, i - 1)]
      BY <1>1, <1>2, <2>2 DEF Heights
    <3>2. c[i] = b[i] /\ c[i - 1] = b[i - 1]
      <4>1. i \in 0 .. n /\ i - 1 \in 0 .. n
        BY <2>2
      <4> QED BY <1>5, <4>1
    <3>3. PointOf(gs, entry, i - 1) = PointOf(fs, at, i - 1)
      <4>1. i - 1 # n /\ i - 1 # n + 1 /\ i - 1 + 1 = i
        BY <2>2
      <4> QED BY <1>1, <2>2, <4>1 DEF PointOf
    <3>4. p.gives[PointOf(gs, entry, i)] = p.gives[PointOf(fs, at, i)]
      <4>1. CASE i = n
        BY <1>1, <1>6, <4>1 DEF PointOf
      <4>2. CASE i # n
        <5>1. i + 1 \in 1 .. n /\ i # n + 1
          BY <2>2, <4>2
        <5> QED BY <1>1, <4>2, <5>1 DEF PointOf
      <4> QED BY <4>1, <4>2
    <3> QED BY <3>1, <3>2, <3>3, <3>4
  <2>3. i = n + 1 \/ i \in 1 .. n
    OBVIOUS
  <2> QED BY <2>1, <2>2, <2>3
<1>8. Heights(p, gs, entry, c)
  BY <1>1, <1>5, <1>7 DEF Heights
<1>9. Len(s) = c[n + 1] + p.depth[entry]
  <2>1. PICK d \in Nat, e \in Nat, h \in Nat : d = p.depth[at] /\ e = p.depth[entry] /\ h = b[n]
    BY <1>3
  <2>2. Len(s) = h + d /\ m = h + d - e
    BY <1>2, <1>4, <2>1
  <2>3. Len(s) = m + e
    BY <2>2
  <2> QED BY <1>5, <2>1, <2>3
<1> QED BY <1>1, <1>8, <1>9 DEF StackFits

LEMMA Returned ==
  ASSUME NEW p, NEW fs, NEW gs, NEW n \in Nat \ {0}, Len(fs) = n, Len(gs) = n - 1,
         \A i \in 1 .. n - 1 : gs[i].return_address = fs[i].return_address,
         NEW at, p.depth[at] = p.gives[at], p.depth[at] \in Nat, NEW s, StackFits(p, fs, at, s)
  PROVE  StackFits(p, gs, fs[n].return_address, s)
<1> DEFINE to == fs[n].return_address
<1>1. PICK b : Heights(p, fs, at, b) /\ Len(s) = b[n] + p.depth[at]
  BY DEF StackFits
<1> DEFINE c == [i \in 0 .. n - 1 |-> b[i]]
<1>2. b \in [0 .. n -> Nat] /\ b[0] = 0
  BY <1>1 DEF Heights
<1>3. \A i \in 0 .. n - 1 : i \in 0 .. n
  OBVIOUS
<1>4. c \in [0 .. n - 1 -> Nat] /\ c[0] = 0 /\ c[n - 1] = b[n - 1]
  <2>1. 0 \in 0 .. n - 1 /\ n - 1 \in 0 .. n - 1
    OBVIOUS
  <2> QED BY <1>2, <1>3, <2>1
<1>5. \A i \in 0 .. n - 1 : PointOf(gs, to, i) = PointOf(fs, at, i)
  <2> SUFFICES ASSUME NEW i \in 0 .. n - 1 PROVE PointOf(gs, to, i) = PointOf(fs, at, i)
    OBVIOUS
  <2>1. i # n
    OBVIOUS
  <2>2. CASE i = n - 1
    BY <2>1, <2>2 DEF PointOf
  <2>3. CASE i # n - 1
    <3>1. i + 1 \in 1 .. n - 1
      BY <2>3
    <3> QED BY <2>1, <2>3, <3>1 DEF PointOf
  <2> QED BY <2>2, <2>3
<1>6. Heights(p, gs, to, c)
  <2>1. ASSUME NEW i \in 1 .. n - 1
        PROVE  c[i] + p.gives[PointOf(gs, to, i)] = c[i - 1] + p.depth[PointOf(gs, to, i - 1)]
    <3>1. i \in 1 .. n /\ i \in 0 .. n - 1 /\ i - 1 \in 0 .. n - 1
      OBVIOUS
    <3>2. b[i] + p.gives[PointOf(fs, at, i)] = b[i - 1] + p.depth[PointOf(fs, at, i - 1)]
      BY <1>1, <3>1 DEF Heights
    <3>3. c[i] = b[i] /\ c[i - 1] = b[i - 1]
      BY <3>1
    <3> HIDE DEF c, to
    <3> QED BY <1>5, <3>1, <3>2, <3>3
  <2> HIDE DEF c, to
  <2> QED BY <1>4, <2>1 DEF Heights
<1>7. Len(s) = c[n - 1] + p.depth[to]
  <2>1. b[n] + p.gives[PointOf(fs, at, n)] = b[n - 1] + p.depth[PointOf(fs, at, n - 1)]
    BY <1>1 DEF Heights
  <2>2. PointOf(fs, at, n) = at /\ PointOf(fs, at, n - 1) = to
    BY DEF PointOf
  <2> HIDE DEF c, to
  <2> QED BY <1>1, <1>4, <2>1, <2>2
<1> HIDE DEF c
<1> QED BY <1>6, <1>7 DEF StackFits

\* Instructions after which control goes on and the stack is as before.
Silent == Straight \ { <<"PUSH">>, <<"PUSH_C">>, <<"POP">>, <<"CALL">> }

LEMMA SilentOps ==
  /\ GetOps \cup SetOps \cup BinaryOps \cup RangeOps \subseteq Silent
  /\ { <<"MOVE">>, <<"LPUSH">> } \cup DeleteOps \cup CastOps \cup UnaryOps \subseteq Silent
  /\ { <<"LOAD_C">>, <<"LPUSH_C">>, <<"LOAD_G">>, <<"SET_G">>, <<"LPROP">>, <<"SPROP">>,
       <<"IINC">>, <<"IDEC">>, <<"PRINT">>, <<"PRINT_C">> } \subseteq Silent
<1>1. ASSUME NEW op \in Straight, op[1] \notin {"PUSH", "PUSH_C", "POP", "CALL"}
      PROVE  op \in Silent
  BY <1>1 DEF Silent
<1>2. ASSUME NEW op \in GetOps \cup SetOps \cup BinaryOps \cup RangeOps
      PROVE  op \in Silent
  <2>1. op \in Straight
    BY DEF Straight, ThreeRegisters
  <2>2. op[1] \notin {"PUSH", "PUSH_C", "POP", "CALL"}
    BY DEF GetOps, SetOps, RangeOps, BinaryOps, ArithmeticOps, EqualityOps, OrderOps, LogicalOps
  <2> QED BY <1>1, <2>1, <2>2
<1>3. ASSUME NEW op \in { <<"MOVE">>, <<"LPUSH">> } \cup DeleteOps \cup CastOps \cup UnaryOps
      PROVE  op \in Silent
  <2>1. op \in Straight
    BY DEF Straight, TwoRegisters
  <2>2. op[1] \notin {"PUSH", "PUSH_C", "POP", "CALL"}
    BY DEF DeleteOps, CastOps, UnaryOps
  <2> QED BY <1>1, <2>1, <2>2
<1>4. ASSUME NEW op \in { <<"LOAD_C">>, <<"LPUSH_C">>, <<"LOAD_G">>, <<"SET_G">>, <<"LPROP">>,
                          <<"SPROP">>, <<"IINC">>, <<"IDEC">>, <<"PRINT">>, <<"PRINT_C">> }
      PROVE  op \in Silent
  <2>1. op \in Straight
    BY DEF Straight, OneRegister, OneConstant, RegisterAndConstant
  <2>2. op[1] \notin {"PUSH", "PUSH_C", "POP", "CALL"}
    OBVIOUS
  <2> QED BY <1>1, <2>1, <2>2
<1> QED BY <1>2, <1>3, <1>4

LEMMA DataIsSilent ==
  ASSUME \/ Move \/ LoadConstant \/ LoadGlobal \/ Get \/ Set \/ Delete \/ PushToList
         \/ LoadProperty \/ SetProperty \/ CastValue \/ UnaryOperation \/ Increment
         \/ BinaryOperation \/ MakeRange \/ SetGlobal \/ Write
  PROVE  Code[pc] \in Silent
<1>1. CASE Move \/ LoadConstant \/ LoadGlobal \/ PushToList
  BY <1>1, SilentOps DEF Move, LoadConstant, LoadGlobal, PushToList, At
<1>2. CASE Get \/ Set \/ Delete \/ LoadProperty \/ SetProperty
  BY <1>2, SilentOps DEF Get, Set, Delete, LoadProperty, SetProperty, At
<1>3. CASE CastValue \/ UnaryOperation \/ BinaryOperation \/ MakeRange
  BY <1>3, SilentOps DEF CastValue, UnaryOperation, BinaryOperation, MakeRange, At
<1>4. CASE Increment \/ SetGlobal \/ Write
  BY <1>4, SilentOps DEF Increment, SetGlobal, Write, At
<1> QED BY <1>1, <1>2, <1>3, <1>4

\* The instruction after one that control goes on after.
LEMMA BalancedOn ==
  ASSUME NEW p, WellFormed(p), Balanced(p), NEW i \in p.starts, p.code[i] \in Straight
  PROVE  /\ p.depth[i] \in Nat /\ p.gives[i] \in Nat
         /\ LET j == i + Width(p.code[i])
            IN  /\ j \in p.starts /\ p.depth[j] \in Nat
                /\ p.depth[j] = DepthAfter(p, i) /\ p.gives[j] = p.gives[i]
<1>1. Successors(p, i) = {i + Width(p.code[i])}
  BY StraightOps DEF Successors
<1>2. i + Width(p.code[i]) \in p.starts
  BY GoesOn
<1> QED BY <1>1, <1>2 DEF Balanced

LEMMA WrittenReturns ==
  ASSUME NEW fs, NEW S, fs \in Seq(S), NEW gs, NEW x,
         gs = [fs EXCEPT ![Len(fs)] = [registers |-> x, return_address |-> fs[Len(fs)].return_address]]
  PROVE  SameReturns(fs, gs)
<1>1. PICK n \in Nat : n = Len(fs) /\ DOMAIN fs = 1 .. n
  BY LenProperties
<1>2. Len(gs) = n
  BY <1>1, LastReplaced
<1>3. ASSUME NEW i \in 1 .. n PROVE gs[i].return_address = fs[i].return_address
  BY <1>1
<1> QED BY <1>1, <1>2, <1>3 DEF SameReturns

\* How the stack is used, kept while the machine runs; EXIT ends it.
Fits == StackFits(program, frames, program_counter, stack)
AtExit == status = "exited" => program_counter = EndPC(program)

LEMMA FramesAndStack ==
  ASSUME Inv
  PROVE  /\ frames \in Seq(RangeOf(frames)) /\ Len(frames) \in Nat
         /\ DOMAIN frames = 1 .. Len(frames)
         /\ stack \in Seq(RangeOf(stack)) /\ Len(stack) \in Nat
BY RangeFacts DEF Inv, GoodFrames, GoodStack

LEMMA RegisterReturns ==
  ASSUME Inv, NEW r, NEW x
  PROVE  SameReturns(frames, WithRegister(r, x)) /\ SameReturns(frames, frames)
<1>1. SameReturns(frames, frames)
  BY DEF SameReturns
<1>2. PICK S : frames \in Seq(S)
  BY FramesAndStack
<1>3. PICK gs, y : /\ gs = WithRegister(r, x)
                   /\ gs = [frames EXCEPT ![Len(frames)] =
                              [registers |-> y, return_address |-> frames[Len(frames)].return_address]]
  BY DEF WithRegister, Top
<1>4. SameReturns(frames, gs)
  BY <1>2, <1>3, WrittenReturns
<1> QED BY <1>1, <1>3, <1>4

\* An instruction after which control goes on changes the stack as it is
\* accounted for.
LEMMA StepFitsStack ==
  ASSUME Inv, WellFormed(program), Balanced(program), Fits, Code[pc] \in Straight,
         SameReturns(frames, frames'), program' = program,
         program_counter' = program_counter + Width(Code[pc]),
         Len(stack') \in Nat,
         Len(stack') + program.depth[pc] = Len(stack) + DepthAfter(program, pc)
  PROVE  Fits'
<1>1. PICK p, fs, gs, at, to, s, t :
        /\ p = program /\ fs = frames /\ gs = frames' /\ at = program_counter
        /\ to = program_counter' /\ s = stack /\ t = stack'
  OBVIOUS
<1>2. at \in p.starts
  BY <1>1, TheRegisters
<1>3. p.code[at] \in Straight /\ to = at + Width(p.code[at])
  BY <1>1 DEF Code, pc
<1>4. /\ p.depth[at] \in Nat /\ p.depth[to] \in Nat /\ p.gives[to] = p.gives[at]
      /\ p.depth[to] = DepthAfter(p, at)
  BY <1>1, <1>2, <1>3, BalancedOn
<1>5. Len(fs) \in Nat /\ Len(s) \in Nat /\ Len(t) \in Nat
  BY <1>1, FramesAndStack
<1>6. SameReturns(fs, gs) /\ StackFits(p, fs, at, s) /\ Len(t) + p.depth[at] = Len(s) + p.depth[to]
  BY <1>1, <1>4 DEF Fits, pc
<1>7. StackFits(p, gs, to, t)
  BY <1>4, <1>5, <1>6, Moved
<1> QED BY <1>1, <1>7 DEF Fits

LEMMA StopFits ==
  ASSUME Fits, NEW how, Stop(how), how # "exited"
  PROVE  Fits' /\ AtExit'
BY DEF Fits, AtExit, Stop

LEMMA SilentDepth ==
  ASSUME Code[pc] \in Silent
  PROVE  DepthAfter(program, pc) = program.depth[pc]
BY DEF Silent, DepthAfter, Code

LEMMA RunningOn ==
  ASSUME NEW ops, At(ops), status' = status
  PROVE  AtExit'
BY DEF AtExit, At

LEMMA DataFits ==
  ASSUME Inv, WellFormed(program), Balanced(program), Fits, Code[pc] \in Silent,
         NEW ops, At(ops), DataStep({})
  PROVE  Fits' /\ AtExit'
<1>1. PICK r, outcome : Finish(r, outcome) /\ GoodOutcome(F, heap, outcome)
  BY DEF DataStep
<1>2. CASE outcome.how \in Ends
  <2>1. Stop(outcome.how) /\ outcome.how # "exited"
    BY <1>1, <1>2 DEF Finish, Ends
  <2> QED BY <2>1, StopFits
<1>3. CASE outcome.how \in {"value", "new", "store"}
  <2>1. /\ program_counter' = program_counter + Width(Code[pc])
        /\ program' = program /\ stack' = stack /\ status' = status
    BY <1>1, <1>3 DEF Finish, Step, pc
  <2>2. SameReturns(frames, frames')
    <3>1. frames' = frames \/ \E x : frames' = WithRegister(r, x)
      BY <1>1, <1>3 DEF Finish
    <3> QED BY <3>1, RegisterReturns
  <2>3. Code[pc] \in Straight
    BY DEF Silent
  <2>4. Len(stack') \in Nat /\ Len(stack') + program.depth[pc] = Len(stack) + DepthAfter(program, pc)
    BY <2>1, SilentDepth, FramesAndStack
  <2> QED BY <2>1, <2>2, <2>3, <2>4, StepFitsStack, RunningOn
<1> QED BY <1>1, <1>2, <1>3 DEF GoodOutcome

LEMMA QuietFits ==
  ASSUME Inv, WellFormed(program), Balanced(program), Fits, SetGlobal \/ Write
  PROVE  Fits' /\ AtExit'
<1>1. CASE Write /\ status' # status
  <2>1. Stop("mistaken")
    BY <1>1 DEF Write
  <2> QED BY <2>1, StopFits
<1>2. CASE SetGlobal \/ (Write /\ status' = status)
  <2>1. /\ program_counter' = program_counter + Width(Code[pc])
        /\ program' = program /\ stack' = stack /\ status' = status /\ frames' = frames
        /\ status = "running"
    BY <1>2 DEF SetGlobal, Write, Step, Stop, At, pc
  <2>2. Code[pc] \in Silent
    BY <1>2, DataIsSilent
  <2>3. Len(stack') \in Nat /\ Len(stack') + program.depth[pc] = Len(stack) + DepthAfter(program, pc)
    BY <2>1, <2>2, SilentDepth, FramesAndStack
  <2>4. SameReturns(frames, frames')
    BY <2>1, RegisterReturns
  <2> QED BY <2>1, <2>2, <2>3, <2>4, StepFitsStack DEF Silent, AtExit
<1> QED BY <1>1, <1>2

LEMMA PushFits ==
  ASSUME Inv, WellFormed(program), Balanced(program), Fits, Push
  PROVE  Fits' /\ AtExit'
<1>1. Code[pc] \in { <<"PUSH">>, <<"PUSH_C">> } /\ status = "running"
  BY DEF Push, At
<1>2. CASE Len(stack) = STACK_SIZE
  BY <1>2, StopFits DEF Push
<1>3. CASE Len(stack) # STACK_SIZE
  <2>1. /\ \E x : stack' = Append(stack, x)
        /\ program_counter' = program_counter + Width(Code[pc])
        /\ program' = program /\ status' = status /\ frames' = frames
    BY <1>3 DEF Push, Step, pc
  <2>2. Len(stack') = Len(stack) + 1 /\ Len(stack) \in Nat
    <3>1. PICK x : stack' = Append(stack, x)
      BY <2>1
    <3>2. stack \in Seq(RangeOf(stack) \cup {x})
      BY FramesAndStack, SeqMonotonic
    <3> QED BY <3>1, <3>2, AppendProperties, FramesAndStack
  <2>3. DepthAfter(program, pc) = program.depth[pc] + 1 /\ Code[pc] \in Straight
    BY <1>1 DEF DepthAfter, Code, Straight, OneRegister, OneConstant
  <2>4. program.depth[pc] \in Nat
    BY TheRegisters DEF Balanced, pc
  <2>5. Len(stack') \in Nat /\ Len(stack') + program.depth[pc] = Len(stack) + DepthAfter(program, pc)
    <3>1. PICK l \in Nat, m \in Nat, d \in Nat, e \in Nat :
            /\ l = Len(stack) /\ m = Len(stack') /\ d = program.depth[pc]
            /\ e = DepthAfter(program, pc) /\ e = d + 1 /\ m = l + 1
      BY <2>2, <2>3, <2>4
    <3>2. m + d = l + e
      BY <3>1
    <3> QED BY <3>1, <3>2
  <2>6. SameReturns(frames, frames')
    BY <2>1, RegisterReturns
  <2> QED BY <1>1, <2>1, <2>3, <2>5, <2>6, StepFitsStack DEF AtExit
<1> QED BY <1>2, <1>3

\* Where the code expects a value, the stack has one.
LEMMA DeepEnough ==
  ASSUME Inv, WellFormed(program), Balanced(program), Fits, Code[pc] = <<"POP">>
  PROVE  stack # <<>> /\ program.depth[pc] \in Nat \ {0}
<1>1. program_counter \in program.starts /\ Code[pc] \in Straight
  BY TheRegisters DEF Straight, OneRegister
<1>2. /\ program.depth[pc] \in Nat
      /\ DepthAfter(program, pc) \in Nat
  BY <1>1, BalancedOn DEF Code, pc
<1>3. DepthAfter(program, pc) = program.depth[pc] - 1
  BY DEF DepthAfter, Code
<1>4. program.depth[pc] \in Nat \ {0}
  BY <1>2, <1>3
<1>5. PICK b : /\ b \in [0 .. Len(frames) -> Nat]
               /\ Len(stack) = b[Len(frames)] + program.depth[program_counter]
  BY DEF Fits, StackFits, Heights
<1>6. b[Len(frames)] \in Nat
  BY <1>5, FramesAndStack
<1>7. Len(stack) # 0
  BY <1>4, <1>5, <1>6 DEF pc
<1>8. stack # <<>>
  BY <1>7
<1> QED BY <1>4, <1>8

LEMMA PopFits ==
  ASSUME Inv, WellFormed(program), Balanced(program), Fits, Pop
  PROVE  Fits' /\ AtExit'
<1>1. Code[pc] = <<"POP">> /\ status = "running"
  BY DEF Pop, At
<1>2. stack # <<>> /\ program.depth[pc] \in Nat \ {0}
  BY <1>1, DeepEnough
<1>3. /\ stack' = SubSeq(stack, 1, Len(stack) - 1)
      /\ \E x : frames' = WithRegister(Operand(1), x)
      /\ program_counter' = program_counter + Width(Code[pc])
      /\ program' = program /\ status' = status
  BY <1>2 DEF Pop, Step, pc
<1>4. Len(stack) \in Nat \ {0} /\ Len(stack') = Len(stack) - 1
  <2>1. PICK n \in Nat \ {0} : n = Len(stack) /\ stack \in Seq(RangeOf(stack))
    BY <1>2, FramesAndStack, EmptySeq
  <2>2. Len(stack') = IF 1 <= n - 1 THEN n - 1 - 1 + 1 ELSE 0
    BY <1>3, <2>1, SubSeqRange
  <2>3. Len(stack') = n - 1
    BY <2>2, OneLess
  <2> QED BY <2>1, <2>3
<1>5. DepthAfter(program, pc) = program.depth[pc] - 1 /\ Code[pc] \in Straight
  BY <1>1 DEF DepthAfter, Code, Straight, OneRegister
<1>6. Len(stack') \in Nat /\ Len(stack') + program.depth[pc] = Len(stack) + DepthAfter(program, pc)
  <2>1. PICK l \in Nat, m \in Nat, d \in Nat, e \in Nat :
          /\ l = Len(stack) /\ m = Len(stack') /\ d = program.depth[pc]
          /\ e = DepthAfter(program, pc) /\ e = d - 1 /\ m = l - 1
    BY <1>2, <1>4, <1>5
  <2>2. m + d = l + e
    BY <2>1
  <2> QED BY <2>1, <2>2
<1>7. SameReturns(frames, frames')
  BY <1>3, RegisterReturns
<1> QED BY <1>1, <1>3, <1>5, <1>6, <1>7, StepFitsStack DEF AtExit


\* A jump leaves the stack alone.
LEMMA JumpKeepsFit ==
  ASSUME Inv, WellFormed(program), Balanced(program), Fits, Jump \/ CondJump
  PROVE  Fits' /\ AtExit'
<1>1. Code[pc] \in Jumps \cup CondJumps /\ status = "running"
  BY DEF Jump, CondJump, At
<1>2. CASE CondJump /\ REGISTER(2).is # "bool"
  BY <1>2, StopFits DEF CondJump
<1>3. CASE Jump \/ (CondJump /\ REGISTER(2).is = "bool")
  <2>1. /\ \/ program_counter' = Target(program, program_counter)
           \/ /\ program_counter' = program_counter + Width(Code[pc])
              /\ Code[pc] \notin Jumps
        /\ UNCHANGED <<program, frames, stack, status>>
    BY <1>3 DEF Jump, CondJump, Step, At, pc, Jumps, CondJumps
  <2>2. program_counter' \in Successors(program, program_counter)
    <3>1. Code[pc] \notin { <<"EXIT">>, <<"RETURN">> }
      BY <1>1 DEF Jumps, CondJumps
    <3> QED BY <1>1, <2>1, <3>1 DEF Successors, Code, pc
  <2>3. PICK p, fs, at, to, s :
          /\ p = program /\ fs = frames /\ at = program_counter /\ to = program_counter'
          /\ s = stack
    OBVIOUS
  <2>4. at \in p.starts /\ to \in Successors(p, at)
    BY <2>2, <2>3, TheRegisters
  <2>5. to \in p.starts
    BY <2>3, <2>4 DEF WellFormed, WellFormedAt
  <2>6. DepthAfter(p, at) = p.depth[at]
    <3>1. p.code[at] \notin { <<"PUSH">>, <<"PUSH_C">>, <<"POP">>, <<"CALL">> }
      BY <1>1, <2>3 DEF Code, pc, Jumps, CondJumps
    <3> QED BY <3>1 DEF DepthAfter
  <2>7. /\ p.gives[to] = p.gives[at] /\ p.depth[to] = p.depth[at] /\ p.depth[at] \in Nat
    BY <2>3, <2>4, <2>6 DEF Balanced
  <2>8. SameReturns(fs, fs) /\ Len(fs) \in Nat /\ Len(s) \in Nat
    BY <2>3, FramesAndStack DEF SameReturns
  <2>9. StackFits(p, fs, to, s)
    BY <2>3, <2>7, <2>8, Moved DEF Fits
  <2> QED BY <1>1, <2>1, <2>3, <2>9 DEF Fits, AtExit
<1> QED BY <1>2, <1>3

\* A call that fits.
LEMMA CallKeepsFit ==
  ASSUME Inv, WellFormed(program), Balanced(program), CallsFit, Fits, Call
  PROVE  Fits' /\ AtExit'
<1>1. /\ Code[pc] = <<"CALL">> /\ Code[pc] \in Straight /\ Good(F, heap, REGISTER(1))
      /\ At({ <<"CALL">> })
  BY OneOperand DEF Call, At, OneRegister
<1>2. CASE CheckFunction(REGISTER(1)) # "running"
  <2>1. Stop(CheckFunction(REGISTER(1))) /\ CheckFunction(REGISTER(1)) # "exited"
    BY <1>2 DEF Call, CheckFunction
  <2> QED BY <2>1, StopFits
<1>3. CASE CheckFunction(REGISTER(1)) = "running" /\ Len(frames) = MAX_FRAMES
  BY <1>3, StopFits DEF Call
<1>4. CASE CheckFunction(REGISTER(1)) = "running" /\ Len(frames) # MAX_FRAMES
  <2>1. PICK p, fs, gs, at, to, back, s, new :
          /\ p = program /\ fs = frames /\ gs = frames' /\ at = program_counter
          /\ to = REGISTER(1).v[1] /\ back = at + 2 /\ s = stack
          /\ new = NewFrame(REGISTER(1).v[2], ReturnAddress)
    OBVIOUS
  <2>2. /\ gs = Append(fs, new) /\ program_counter' = to
        /\ program' = p /\ stack' = s /\ status' = status
    BY <1>4, <2>1 DEF Call
  <2>3. to \in p.starts
    BY <1>1, <1>4, <2>1 DEF CheckFunction, Good, F, ValuesOf, Functions
  <2>4. Len(fs) \in Nat /\ fs \in Seq(RangeOf(fs) \cup {new})
    BY <2>1, FramesAndStack, SeqMonotonic
  <2>5. /\ Len(gs) = Len(fs) + 1 /\ gs[Len(fs) + 1] = new
        /\ \A i \in 1 .. Len(fs) : gs[i] = fs[i]
    BY <2>2, <2>4, AppendProperties
  <2>6. new.return_address = back
    BY <2>1, FramesAreGood DEF ReturnAddress, pc
  <2>7. at \in p.starts /\ p.code[at] \in Straight
    BY <1>1, <2>1, TheRegisters DEF Code, pc
  <2>8. at + Width(p.code[at]) = back
    <3>1. Operands(Code[pc]) = << "reg" >>
      BY <1>1, OperandsOf DEF OneRegister
    <3>2. Width(Code[pc]) = 2
      BY <3>1 DEF Width
    <3> QED BY <2>1, <3>2 DEF Code, pc
  <2>9. /\ p.depth[at] \in Nat /\ p.depth[back] \in Nat /\ p.gives[back] = p.gives[at]
    BY <2>1, <2>7, <2>8, BalancedOn
  <2>10. p.depth[to] \in Nat /\ p.gives[to] \in Nat
    BY <2>1, <2>3 DEF Balanced
  <2>11. /\ p.depth[to] <= p.depth[at]
         /\ p.depth[at] - p.depth[to] + p.gives[to] = p.depth[back]
    BY <1>1, <1>4, <2>1 DEF CallsFit, ReturnAddress, pc
  <2>12. StackFits(p, fs, at, s)
    BY <2>1 DEF Fits
  <2>13. \A i \in 1 .. Len(fs) : gs[i].return_address = fs[i].return_address
    BY <2>5
  <2>14. StackFits(p, gs, to, s)
    BY <2>4, <2>5, <2>6, <2>9, <2>10, <2>11, <2>12, <2>13, Called
  <2> QED BY <1>1, <2>1, <2>2, <2>14 DEF Fits, AtExit, At
<1> QED BY <1>2, <1>3, <1>4

\* A function returns with its result and nothing else.
LEMMA ReturnKeepsFit ==
  ASSUME Inv, WellFormed(program), Balanced(program), Fits, Return
  PROVE  Fits' /\ AtExit'
<1>1. /\ Code[pc] = <<"RETURN">> /\ status = "running" /\ frames # <<>>
      /\ program_counter' = frames[Len(frames)].return_address
      /\ frames' = SubSeq(frames, 1, Len(frames) - 1)
      /\ program' = program /\ stack' = stack /\ status' = status
  BY DEF Return, At, Executable, Top
<1>2. PICK p, fs, gs, at, s, n :
        /\ p = program /\ fs = frames /\ gs = frames' /\ at = program_counter
        /\ s = stack /\ n = Len(fs) /\ n \in Nat \ {0}
  <2>1. Len(frames) \in Nat \ {0}
    BY <1>1, FramesAndStack, EmptySeq
  <2> QED BY <2>1
<1>3. fs \in Seq(RangeOf(fs)) /\ gs = SubSeq(fs, 1, n - 1)
  BY <1>1, <1>2, FramesAndStack
<1>4. Len(gs) = n - 1 /\ \A i \in 1 .. n - 1 : gs[i] = fs[i]
  <2>1. /\ Len(gs) = IF 1 <= n - 1 THEN n - 1 - 1 + 1 ELSE 0
        /\ \A i \in 1 .. n - 1 - 1 + 1 : gs[i] = fs[1 + i - 1]
    BY <1>2, <1>3, SubSeqRange
  <2>2. n \in Nat \ {0}
    BY <1>2
  <2>3. \A i \in 1 .. n - 1 : i \in 1 .. n - 1 - 1 + 1 /\ 1 + i - 1 = i
    BY <2>2
  <2> QED BY <2>1, <2>2, <2>3, OneLess
<1>5. at \in p.starts /\ p.code[at] = <<"RETURN">>
  BY <1>1, <1>2, TheRegisters DEF Code, pc
<1>6. p.depth[at] = p.gives[at] /\ p.depth[at] \in Nat
  BY <1>2, <1>5 DEF Balanced
<1>7. StackFits(p, gs, fs[n].return_address, s)
  BY <1>2, <1>4, <1>6, Returned DEF Fits
<1> QED BY <1>1, <1>2, <1>7 DEF Fits, AtExit

LEMMA ExitFits ==
  ASSUME Inv, WellFormed(program), Fits, Exit
  PROVE  Fits' /\ AtExit'
<1>1. Code[pc] = <<"EXIT">> /\ Stop("exited")
  BY DEF Exit, At
<1>2. program_counter = EndPC(program)
  BY <1>1, TheRegisters DEF WellFormed, Code, pc
<1> QED BY <1>1, <1>2 DEF Stop, Fits, AtExit

\* Initially main has been called, with the arguments of the program.
LEMMA InitFits ==
  ASSUME Init, WellFormed(program), Balanced(program)
  PROVE  Fits /\ AtExit
<1>1. PICK p, at, fs, s, x, end :
        /\ p = program /\ at = program_counter /\ fs = frames /\ s = stack
        /\ x = frames[1] /\ end = EndPC(program)
  OBVIOUS
<1>2. at = p.globals[p.main].v[1] /\ fs = << x >> /\ Len(s) = 1 /\ x.return_address = end
  <2>1. at = p.globals[p.main].v[1] /\ Len(s) = 1
    <3>1. main_frame = program.globals /\ program_counter = main_frame[program.main].v[1]
      BY DEF Init
    <3>2. \E y : stack = << y >>
      BY DEF Init
    <3> QED BY <1>1, <3>1, <3>2, Single
  <2>2. \E size : frames = << NewFrame(size, EndPC(program)) >>
    BY DEF Init
  <2>3. fs = << x >> /\ x.return_address = end
    BY <1>1, <2>2, Single, FramesAreGood
  <2> QED BY <2>1, <2>3
<1>3. p.depth[at] = 1 /\ p.gives[at] = 0 /\ p.depth[end] = 0
  BY <1>1, <1>2 DEF Balanced
<1>4. Len(fs) = 1 /\ fs[1] = x
  BY <1>2, Single
<1> DEFINE b == [i \in 0 .. 1 |-> 0]
<1>5. b \in [0 .. 1 -> Nat] /\ b[0] = 0 /\ b[1] = 0
  OBVIOUS
<1> HIDE DEF b
<1>6. PointOf(fs, at, 1) = at /\ PointOf(fs, at, 1 - 1) = end
  BY <1>2, <1>4 DEF PointOf
<1>7. \A i \in 1 .. 1 : i = 1
  OBVIOUS
<1>8. b[1] + p.gives[PointOf(fs, at, 1)] = b[1 - 1] + p.depth[PointOf(fs, at, 1 - 1)]
  BY <1>3, <1>5, <1>6
<1>9. Heights(p, fs, at, b)
  BY <1>4, <1>5, <1>7, <1>8 DEF Heights
<1>10. Len(s) = b[Len(fs)] + p.depth[at]
  BY <1>2, <1>3, <1>4, <1>5
<1>11. Fits
  BY <1>1, <1>9, <1>10 DEF Fits, StackFits
<1> QED BY <1>11 DEF Init, AtExit

\* Whatever the instruction.
LEMMA NextFits ==
  ASSUME Inv, WellFormed(program), Balanced(program), CallsFit, Fits, AtExit, [Next]_vars
  PROVE  Fits' /\ AtExit'
<1>1. Fence({})
  BY DEF Fence, Fenced, AllAvoid, Avoids, Inv
<1>2. ASSUME DataStep({}), Code[pc] \in Silent, NEW ops, At(ops)
      PROVE  Fits' /\ AtExit'
  BY <1>2, DataFits
<1>3. CASE Move \/ LoadConstant \/ LoadGlobal \/ Get \/ Set
  <2>1. DataStep({}) /\ Code[pc] \in Silent
    BY <1>1, <1>3, LoadsLeave, GetLeaves, SetLeaves, DataIsSilent
  <2>2. \E ops : At(ops)
    BY <1>3 DEF Move, LoadConstant, LoadGlobal, Get, Set
  <2> QED BY <1>2, <2>1, <2>2
<1>4. CASE Delete \/ PushToList \/ LoadProperty \/ SetProperty \/ Increment
  <2>1. DataStep({}) /\ Code[pc] \in Silent
    BY <1>1, <1>4, DeleteLeaves, PushToListLeaves, PropertiesLeave, IncrementLeaves, DataIsSilent
  <2>2. \E ops : At(ops)
    BY <1>4 DEF Delete, PushToList, LoadProperty, SetProperty, Increment
  <2> QED BY <1>2, <2>1, <2>2
<1>5. CASE CastValue \/ UnaryOperation \/ BinaryOperation \/ MakeRange
  <2>1. DataStep({}) /\ Code[pc] \in Silent
    BY <1>1, <1>5, OperatorsLeave, DataIsSilent
  <2>2. \E ops : At(ops)
    BY <1>5 DEF CastValue, UnaryOperation, BinaryOperation, MakeRange
  <2> QED BY <1>2, <2>1, <2>2
<1>6. CASE SetGlobal \/ Write
  BY <1>6, QuietFits
<1>7. CASE Push \/ Pop
  BY <1>7, PushFits, PopFits
<1>8. CASE Jump \/ CondJump
  BY <1>8, JumpKeepsFit
<1>9. CASE Call
  BY <1>9, CallKeepsFit
<1>10. CASE Return
  BY <1>10, ReturnKeepsFit
<1>11. CASE Exit
  BY <1>11, ExitFits
<1>12. CASE Slice
  <2>1. Stop("crashed")
    BY <1>12 DEF Slice
  <2> QED BY <2>1, StopFits
<1>13. CASE UNCHANGED vars
  BY <1>13 DEF vars, Fits, AtExit
<1> QED
  BY <1>3, <1>4, <1>5, <1>6, <1>7, <1>8, <1>9, <1>10, <1>11, <1>12, <1>13 DEF Next

\* The stack is used as it is accounted for, as long as the calls fit.
BInv == WellFormed(program) /\ Balanced(program) => Fits /\ AtExit

LEMMA BalancedInvariant == Spec /\ []CallsFit => []BInv
<1>1. Init => BInv
  BY InitFits DEF BInv
<1>2. WInv /\ BInv /\ CallsFit /\ [Next]_vars => BInv'
  <2> SUFFICES ASSUME WInv, BInv, CallsFit, [Next]_vars PROVE BInv'
    OBVIOUS
  <2>1. program' = program
    BY ProgramStays
  <2>2. ASSUME WellFormed(program), Balanced(program) PROVE Fits' /\ AtExit'
    BY <2>2, NextFits DEF WInv, BInv
  <2> QED BY <2>1, <2>2 DEF BInv
<1> QED BY <1>1, <1>2, WellFormedInvariant, PTL DEF Spec

(***************************************************************************)
(* If all programs are well formed and balanced and their calls fit, POP   *)
(* always finds a value that was pushed for it, however deep the calls:    *)
(* the machine pops without a look at top_stack.                           *)
(***************************************************************************)
THEOREM PopsAlwaysFind ==
  ASSUME \A p \in Programs : WellFormed(p) /\ Balanced(p)
  PROVE  Spec /\ []CallsFit => []PopsFindValues
<1>1. WInv /\ BInv => PopsFindValues
  <2> SUFFICES ASSUME WInv, BInv, At({ <<"POP">> }) PROVE stack # <<>>
    BY DEF PopsFindValues
  <2>1. Inv /\ WellFormed(program) /\ Balanced(program) /\ Fits /\ Code[pc] = <<"POP">>
    BY DEF WInv, BInv, At
  <2> QED BY <2>1, DeepEnough
<1> QED BY <1>1, WellFormedInvariant, BalancedInvariant, PTL

(***************************************************************************)
(* If all programs are well formed and balanced and their calls fit, the   *)
(* operand stack is empty when main returns, whatever was called before.   *)
(***************************************************************************)
THEOREM StackIsEmptied ==
  ASSUME \A p \in Programs : WellFormed(p) /\ Balanced(p)
  PROVE  Spec /\ []CallsFit => []NothingLeftOnStack
<1>1. WInv /\ BInv => NothingLeftOnStack
  <2> SUFFICES ASSUME WInv, BInv, status = "exited" PROVE stack = <<>>
    BY DEF NothingLeftOnStack
  <2>1. Inv /\ Balanced(program) /\ Fits /\ program_counter = EndPC(program)
    BY DEF WInv, BInv, AtExit
  <2>2. frames = <<>>
    BY <2>1 DEF Inv, CounterFits
  <2>3. PICK b : b[0] = 0 /\ Len(stack) = b[Len(frames)] + program.depth[program_counter]
    BY <2>1 DEF Fits, StackFits, Heights
  <2>4. Len(stack) = 0
    BY <2>1, <2>2, <2>3 DEF Balanced
  <2> QED BY <2>1, <2>4, FramesAndStack, EmptySeq
<1> QED BY <1>1, WellFormedInvariant, BalancedInvariant, PTL
=============================================================================
