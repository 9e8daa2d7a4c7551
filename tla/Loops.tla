------------------------------- MODULE Loops --------------------------------
(* A loop over a vector that keeps what is in a set: what it has kept after  *)
(* each element, and in the end.                                             *)
EXTENDS Naturals, Sequences

Kept(s, S) ==
    LET kept[k \in 0..Len(s)] ==
            IF k = 0 THEN <<>>
            ELSE LET before == kept[k - 1]
                 IN  IF s[k] \in S THEN Append(before, s[k]) ELSE before
    IN  kept

Only(s, S) == Kept(s, S)[Len(s)]
=============================================================================
