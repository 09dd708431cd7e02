----------------------------- MODULE FrameInfo ------------------------------
(***************************************************************************)
(* The compiler's record of one frame's registers: class FrameInfo of      *)
(* Compiler/include/program.hpp and its methods in Compiler/src/program.cpp *)
(* as functions from the record before a call to the record after it.      *)
(*                                                                         *)
(* free_registers is a sequence because the register released last is the  *)
(* first to be given again.  protected_registers is only ever searched, so *)
(* it is a set; RegisterAllocator shows that no register is put in it      *)
(* twice.                                                                  *)
(***************************************************************************)
EXTENDS Integers, Sequences

NewFrameInfo ==
  [current_register |-> 0, free_registers |-> <<>>, protected_registers |-> {}]

IsFree(fi, reg) ==
  \E i \in DOMAIN fi.free_registers : fi.free_registers[i] = reg

\* The register get_register is about to give.
NextRegister(fi) ==
  IF fi.free_registers = <<>>
    THEN fi.current_register
    ELSE fi.free_registers[Len(fi.free_registers)]

Protect(fi, reg, protect) ==
  IF protect THEN fi.protected_registers \cup {reg} ELSE fi.protected_registers

\* Mutant: the register given is the newest free one, but the oldest one is
\* taken off the free list.
GetOldest(fi, protect) ==
  [current_register    |-> IF fi.free_registers = <<>>
                             THEN fi.current_register + 1
                             ELSE fi.current_register,
   free_registers      |-> IF fi.free_registers = <<>> THEN <<>>
                             ELSE Tail(fi.free_registers),
   protected_registers |-> Protect(fi, NextRegister(fi), protect)]

\* FrameInfo::get_register, the record after the call.
GetRegister(fi, protect) ==
  [current_register    |-> IF fi.free_registers = <<>>
                             THEN fi.current_register + 1
                             ELSE fi.current_register,
   free_registers      |-> IF fi.free_registers = <<>>
                             THEN <<>>
                             ELSE SubSeq(fi.free_registers, 1,
                                         Len(fi.free_registers) - 1),
   protected_registers |-> Protect(fi, NextRegister(fi), protect)]

\* A protected register is only given back by a call that forces it.
Frees(fi, reg, force) == reg \notin fi.protected_registers \/ force

\* Mutant: the search of the free list is left out.
FreeTwice(fi, reg, force) ==
  IF ~ Frees(fi, reg, force)
    THEN fi
    ELSE [current_register    |-> fi.current_register,
          free_registers      |-> Append(fi.free_registers, reg),
          protected_registers |-> fi.protected_registers \ {reg}]

\* Mutant: the protection of the register is not looked at.
FreeAnyway(fi, reg, force) ==
  [current_register    |-> fi.current_register,
   free_registers      |-> IF IsFree(fi, reg)
                             THEN fi.free_registers
                             ELSE Append(fi.free_registers, reg),
   protected_registers |-> fi.protected_registers \ {reg}]

\* Mutant: a forced release leaves the register protected.
FreeStillProtected(fi, reg, force) ==
  IF ~ Frees(fi, reg, force)
    THEN fi
    ELSE [current_register    |-> fi.current_register,
          free_registers      |-> IF IsFree(fi, reg)
                                    THEN fi.free_registers
                                    ELSE Append(fi.free_registers, reg),
          protected_registers |-> fi.protected_registers]

\* Mutant: the register below is listed.
FreeBelow(fi, reg, force) ==
  IF ~ Frees(fi, reg, force)
    THEN fi
    ELSE [current_register    |-> fi.current_register,
          free_registers      |-> IF IsFree(fi, reg)
                                    THEN fi.free_registers
                                    ELSE Append(fi.free_registers, reg - 1),
          protected_registers |-> fi.protected_registers \ {reg}]

\* FrameInfo::free_register, the record after the call.
FreeRegister(fi, reg, force) ==
  IF ~ Frees(fi, reg, force)
    THEN fi
    ELSE [current_register    |-> fi.current_register,
          free_registers      |-> IF IsFree(fi, reg)
                                    THEN fi.free_registers
                                    ELSE Append(fi.free_registers, reg),
          protected_registers |-> fi.protected_registers \ {reg}]
=============================================================================
