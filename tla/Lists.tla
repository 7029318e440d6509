-------------------------------- MODULE Lists --------------------------------
(***************************************************************************)
(* Python's sum and its filtering comprehensions over lists.               *)
(***************************************************************************)
EXTENDS Integers, Sequences, FiniteSets, SequencesExt

\* sum(s), from left to right.
Total(s) == FoldLeft(LAMBDA acc, x : acc + x, 0, s)

\* The elements of s at these places, in their order.
Picked(s, places) ==
  FoldLeftDomain(LAMBDA acc, i : IF i \in places THEN Append(acc, s[i]) ELSE acc, << >>, s)

=============================================================================
