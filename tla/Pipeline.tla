------------------------------ MODULE Pipeline -------------------------------
(***************************************************************************)
(* Application/src/application.cpp's run of a program: the parsed module   *)
(* is analyzed and compiled, and the virtual machine interprets what the   *)
(* compiler emitted.  The properties compare the run with the meaning of   *)
(* the syntax tree, and relate what the analyzer and the compiler keep     *)
(* account of (types, registers, offsets, constants) with the machine that *)
(* depends on it.                                                          *)
(***************************************************************************)
EXTENDS VirtualMachine, Compiler, Semantics, SequencesExt

Analysis == INSTANCE Analyzer

IsAccepted(code) == Analysis!Analyze(code).fate = "ok"

\* A parsed program, compiled for a run with the arguments argv, with what the
\* run is expected to do.
Compiled(code, argv) ==
  LET module == Analysis!Analyze(code)
      p == Compile(module)
  IN  [code |-> p.code, starts |-> p.starts, size |-> p.size, depth |-> p.depth,
       gives |-> p.gives,
       constants |-> p.constants, globals |-> p.globals, heap |-> p.heap,
       main |-> p.main, argv |-> argv, expected |-> Meaning(module, argv)]

-----------------------------------------------------------------------------
\* The machine has run out of room it does not know to be limited.
OutOfRoom ==
  /\ status = "undefined"
  /\ Len(frames) = MAX_FRAMES \/ Len(stack) = STACK_SIZE

(***************************************************************************)
(* What the machine prints is, at every moment, what the tree means, and   *)
(* when it stops it has printed all of it and stops as the tree does: with *)
(* success, with a report, or with an exception.  (Registers that are      *)
(* given back too early, an operand that is patched wrong, a value shared  *)
(* instead of copied all end up in the output.)                            *)
(***************************************************************************)
OutputIsMeaning ==
  /\ IsPrefix(output, program.expected.output)
  /\ status # "running" /\ ~ OutOfRoom =>
       output = program.expected.output /\ status = program.expected.end

\* Operands lie in the registers, constants and globals there are, and every
\* jump, fall through and return stays in the function it is in.
CompiledIsWellFormed == WellFormed(program)

\* However control gets to an instruction, its function has then pushed the
\* same number of values that it has not popped, and those that are left when
\* it returns are its result (compile_function pops the parameters and each
\* call pushes its arguments apart from each other).
CompiledIsBalanced == Balanced(program)

(***************************************************************************)
(* What the analyzer lets pass does not go wrong: the machine never takes  *)
(* a value for one of another type, and its behaviour is undefined only    *)
(* where it has run out of room or where the tree indexes a list at its    *)
(* end or compares objects that are not there or refer to themselves.      *)
(***************************************************************************)
AcceptedDoesNotGoWrong ==
  /\ status # "mistaken"
  /\ status = "undefined" => OutOfRoom \/ program.expected.end = "undefined"

\* Loops and recursion whose meaning ends come to an end.
RunsEnd == <>(status # "running")

-----------------------------------------------------------------------------
(***************************************************************************)
(* What comments and messages of the code say of it, and TLC refutes.      *)
(***************************************************************************)

\* Constants do not change while the program runs (memory.hpp: "Stores the
\* value constants"): LOAD_C shares a list instead of copying it.
ConstantsAreConstant ==
  SubSeq(heap, 1, Len(program.heap)) = program.heap

\* A value's type is that of what it holds (value.hpp: "The type of the
\* value"): SUB_FLOAT tags a float as an integer.
TypesAreTrue ==
  \A r \in DOMAIN Registers : Registers[r].type = Registers[r].is
=============================================================================
