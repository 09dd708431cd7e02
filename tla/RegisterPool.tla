---------------------------- MODULE RegisterPool ----------------------------
(***************************************************************************)
(* What the compiler relies on when it asks for registers: a register that *)
(* is given belongs to nobody else, and the frame grows only when all of   *)
(* it is in use, so that a function's frame is as large as the most        *)
(* registers the function ever uses together.  Which of the unused         *)
(* registers is given is left open.                                        *)
(***************************************************************************)
EXTENDS Naturals

CONSTANT Holder   \* the compiler's variables that can hold a register

VARIABLES
  held,   \* the register of each holder that has one
  size    \* registers the frame needs so far

InUse == {held[h] : h \in DOMAIN held}

PoolInit == /\ held = [h \in {} |-> 0]
            /\ size = 0

Take(h) ==
  /\ h \notin DOMAIN held
  /\ size' = IF 0 .. size - 1 \subseteq InUse THEN size + 1 ELSE size
  /\ \E r \in (0 .. size' - 1) \ InUse :
        held' = [k \in DOMAIN held \cup {h} |-> IF k = h THEN r ELSE held[k]]

Give(h) ==
  /\ h \in DOMAIN held
  /\ held' = [k \in DOMAIN held \ {h} |-> held[k]]
  /\ UNCHANGED size

NewFrame == /\ held' = [h \in {} |-> 0]
            /\ size' = 0

PoolNext == NewFrame \/ \E h \in Holder : Take(h) \/ Give(h)

PoolSpec == PoolInit /\ [][PoolNext]_<<held, size>>
=============================================================================
