-------------------------- MODULE SequenceFilter --------------------------
(***************************************************************************)
(* What is left of a sequence when only the members of a set are kept.     *)
(* SelectSeq with a set for the test and as a recursive FUNCTION, so that  *)
(* the lemmas about it can be proved: the provers know nothing of          *)
(* SelectSeq.                                                              *)
(***************************************************************************)
EXTENDS Integers, Sequences

KeptUpTo(s, S) ==
  LET kept[n \in 0..Len(s)] ==
        IF n = 0 THEN <<>>
        ELSE IF s[n] \in S THEN Append(kept[n - 1], s[n]) ELSE kept[n - 1]
  IN  kept

OnlyIn(s, S) == KeptUpTo(s, S)[Len(s)]
===========================================================================
