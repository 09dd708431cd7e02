------------------------- MODULE RegisterAllocator --------------------------
(***************************************************************************)
(* The register allocator of Compiler/src/program.cpp driven by its        *)
(* client, Compiler/src/compiler.cpp.                                      *)
(*                                                                         *)
(* A holder is a place that remembers a register: a local variable of a    *)
(* Compiler::compile activation (rx, ry, target, index ...), which asks    *)
(* for a temporary, or the `reg' of a BlockVariableType, which asks for a  *)
(* protected register.  The client releases a temporary once, and releases *)
(* the register of a variable as often as an expression mentions the       *)
(* variable, without force: those calls must not give the register away.   *)
(* It forces the release when the variable is dead.                        *)
(*                                                                         *)
(* The client modelled is the one without --linear-scan; with it, Compiler *)
(* also releases variables the program still uses.                         *)
(***************************************************************************)
EXTENDS FrameInfo

CONSTANT Holder

VARIABLES
  info,       \* the FrameInfo (Compiler::local or Compiler::global)
  held,       \* the register of each holder that has one
  variables   \* the holders whose register is protected

vars == <<info, held, variables>>

InUse == {held[h] : h \in DOMAIN held}
Without(h) == [k \in DOMAIN held \ {h} |-> held[k]]

Init == /\ info = NewFrameInfo
        /\ held = [h \in {} |-> 0]
        /\ variables = {}

Get(h, protect) ==
  /\ h \notin DOMAIN held
  /\ info' = GetRegister(info, protect)
  /\ held' = [k \in DOMAIN held \cup {h} |->
                IF k = h THEN NextRegister(info) ELSE held[k]]
  /\ variables' = IF protect THEN variables \cup {h} ELSE variables

\* free_register(rx): rx is a temporary, or the register of a variable.
Release(h) ==
  /\ h \in DOMAIN held
  /\ info' = FreeRegister(info, held[h], FALSE)
  /\ held' = IF h \in variables THEN held ELSE Without(h)
  /\ UNCHANGED variables

\* free_register(ri, true): the end of a `for' drops its own variables.
Drop(h) ==
  /\ h \in variables
  /\ info' = FreeRegister(info, held[h], TRUE)
  /\ held' = Without(h)
  /\ variables' = variables \ {h}

(***************************************************************************)
(* A slice with no end calls free_register(0) although it holds no         *)
(* register 0 (compiler.cpp 783 and 808).  The call changes nothing when 0 *)
(* belongs to a variable, a parameter or nobody.  In a function that has   *)
(* none of these yet it would give a temporary away; that client is left   *)
(* out, because every slice ends the program before the temporary is read  *)
(* (virtual_machine.cpp 740-773), and it has to be looked at again the day *)
(* slices are implemented.                                                 *)
(***************************************************************************)
ReleaseZero ==
  /\ 0 < info.current_register
  /\ \A h \in DOMAIN held : held[h] = 0 => h \in variables
  /\ info' = FreeRegister(info, 0, FALSE)
  /\ UNCHANGED <<held, variables>>

\* The end of a function: the next one starts with an empty frame.
Reset ==
  /\ info' = NewFrameInfo
  /\ held' = [h \in {} |-> 0]
  /\ variables' = {}

Next ==
  \/ \E h \in Holder : \/ \E protect \in BOOLEAN : Get(h, protect)
                       \/ Release(h)
                       \/ Drop(h)
  \/ ReleaseZero
  \/ Reset

Spec == Init /\ [][Next]_vars

-----------------------------------------------------------------------------

\* Types: the tables hold registers, and variables hold what they protect.
TypeOK ==
  /\ info \in [current_register : Nat, free_registers : Seq(Nat),
               protected_registers : SUBSET Nat]
  /\ DOMAIN held \subseteq Holder
  /\ held \in [DOMAIN held -> Nat]
  /\ variables \subseteq DOMAIN held

(***************************************************************************)
(* A register has one holder at a time, however gets, releases, repeated   *)
(* releases and forced releases follow one another (program.cpp 240-276):  *)
(* if two holders shared one, code compiled for the first would be         *)
(* overwritten by code compiled for the second.                            *)
(***************************************************************************)
OneHolder ==
  \A h, k \in DOMAIN held : held[h] = held[k] => h = k

(***************************************************************************)
(* No register is both free and in use, none is listed free twice, and     *)
(* none below current_register is lost: the free list and the registers in *)
(* use divide the frame between them.                                      *)
(***************************************************************************)
FreeOrInUse ==
  LET free == {info.free_registers[i] : i \in DOMAIN info.free_registers}
  IN  /\ free \cap InUse = {}
      /\ free \cup InUse = 0 .. info.current_register - 1
      /\ \A i, j \in DOMAIN info.free_registers :
            info.free_registers[i] = info.free_registers[j] => i = j

(***************************************************************************)
(* The protection of a register begins and ends with the variable it was   *)
(* given to.  A register that stayed protected could never be released     *)
(* again by the temporaries that get it later (program.cpp 261-276).       *)
(***************************************************************************)
ProtectedAreVariables ==
  info.protected_registers = {held[h] : h \in variables}

\* The frame size compile_function records, and what the client is promised.
Pool == INSTANCE RegisterPool WITH size <- info.current_register

(***************************************************************************)
(* The allocator implements the pool: it never gives a register in use,    *)
(* and opens a new one only if no other is left, so current_register, the  *)
(* frame size compile_function stores in the function value, is the peak.  *)
(***************************************************************************)
ImplementsPool == Pool!PoolSpec
=============================================================================
