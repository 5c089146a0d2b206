-------------------------------- MODULE Loops --------------------------------
(***************************************************************************)
(* Loops of C.  While(step, s, n) makes n turns from the state s;            *)
(* a step whose loop condition is false leaves the state alone, so that the  *)
(* result is that of the loop if the loop ends within n turns.               *)
(***************************************************************************)
EXTENDS Integers, Sequences, SequencesExt

(* The values of i in "for (i = from; i < to; ++i)".                         *)
Upto(from, to) == [k \in 1 .. to - from |-> from + k - 1]

While(step(_), s, n) ==
    LET after[k \in 0 .. n] == IF k = 0 THEN s ELSE step(after[k - 1]) IN after[n]
=============================================================================
