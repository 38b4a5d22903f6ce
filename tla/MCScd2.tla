------------------------------ MODULE MCScd2 ------------------------------
(* Instances of Scd2 for TLC.                                                *)
EXTENDS Scd2, TLC

RowOf(key, ts, num, tracked, birth) ==
    [key |-> key, ts |-> ts, num |-> num, tracked |-> tracked,
     birth |-> birth, signup |-> tracked]

\* Three snapshots.  a and b change in the second, and a back in the third, at the
\* same time; c is missing from the second, and b too from the third; d is new in
\* the second.
Snapshots == <<
    {RowOf("a", 1, 1, "x", "d1"), RowOf("b", 1, 2, "x", "d1"), RowOf("c", 1, 3, "x", "d1")},
    {RowOf("b", 2, 1, "y", "d1"), RowOf("a", 2, 2, "y", "d1"), RowOf("d", 2, 3, "x", "d1")},
    {RowOf("a", 2, 1, "x", "d2"), RowOf("d", 3, 2, "x", "d1")} >>

\* The first snapshot is delivered again, under a run of its own.
Replayed == <<1, 2, 3, 1>>

\* a changes in the second snapshot and is missing from the third.
Omitting == <<
    {RowOf("a", 1, 1, "x", "d1"), RowOf("b", 1, 2, "x", "d1")},
    {RowOf("a", 2, 1, "y", "d1"), RowOf("b", 2, 2, "x", "d1")},
    {RowOf("b", 3, 1, "x", "d1")} >>

OneEach == <<1, 2, 3>>

PassSymmetry == Permutations(Pass)
=============================================================================
