-------------------------------- MODULE Lists --------------------------------
(***************************************************************************)
(* Filters and sums of lists, which several components need, as functions  *)
(* of the length, so that they can be reasoned about: SelectSeq and        *)
(* FoldLeft take operators.                                                *)
(***************************************************************************)
EXTENDS Integers, Sequences

\* Passed(s, S)[i]: those of the first i elements of s that are in S, in their order.
Passed(s, S) ==
    LET passed[i \in 0..Len(s)] ==
          IF i = 0 THEN <<>>
          ELSE IF s[i] \in S THEN Append(passed[i - 1], s[i]) ELSE passed[i - 1]
    IN  passed

Only(s, S) == Passed(s, S)[Len(s)]

\* Summed(s)[i]: the sum of the first i elements of s.
Summed(s) ==
    LET summed[i \in 0..Len(s)] == IF i = 0 THEN 0 ELSE summed[i - 1] + s[i]
    IN  summed

SumOf(s) == Summed(s)[Len(s)]
=============================================================================
