----------------------------- MODULE Evaluation -----------------------------
(***************************************************************************)
(* Operators that say when TLC evaluates an argument: it would otherwise   *)
(* keep a whole walk of a tree unevaluated until its end.                  *)
(***************************************************************************)
EXTENDS Naturals, Sequences

\* F(x), with x evaluated before F is.
With(x, F(_)) == CHOOSE y \in {F(z) : z \in {x}} : TRUE

\* The state after F has been applied to each of xs in turn.
InTurn(state, xs, F(_, _)) ==
  LET upto[i \in 0 .. Len(xs)] ==
        IF i = 0 THEN state ELSE With(upto[i - 1], LAMBDA s : F(s, xs[i]))
  IN  upto[Len(xs)]
=============================================================================
