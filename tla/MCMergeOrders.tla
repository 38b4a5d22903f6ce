--------------------------- MODULE MCMergeOrders ---------------------------
(* Instances of MergeOrders for TLC.                                         *)
EXTENDS MergeOrders, TLC

Of(k, t, n, v) == [key |-> k, ts |-> t, num |-> n, val |-> v]
Dated == Of("a", 1, 1, "x")
Undated == Of("a", Null, 2, "y")
Other == Of("b", 1, 3, "x")
Corrected == Of("a", 1, 4, "z")
Lines == {Dated, Undated, Other, Corrected}

\* A key with a date, without one and twice under one date, a line that is in
\* both files, a key that only one of them delivers.
Files == [r \in 1..2 |-> IF r = 1 THEN {{Dated, Other}, {Undated}, {Dated, Undated}}
                                  ELSE {{Dated}, {Corrected}, {Dated, Corrected}}]
=============================================================================
