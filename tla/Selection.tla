------------------------------ MODULE Selection ------------------------------
(* Array.filter: what of a sequence belongs to a set, in its order.            *)
EXTENDS Naturals, Sequences

Select(s, S) ==
  LET upto[n \in 0..Len(s)] ==
        IF n = 0 THEN <<>>
        ELSE IF s[n] \in S THEN Append(upto[n - 1], s[n]) ELSE upto[n - 1]
  IN  upto[Len(s)]
===============================================================================
