---------------------------- MODULE MCDiscovery ----------------------------
(* Instances of Discovery for TLC.                                            *)
EXTENDS Discovery, TLC

Single(key, content, shape) ==
    [key |-> key, content |-> content, group |-> 0, index |-> 0, shape |-> shape]
PartOf(key, content, index, shape) ==
    [key |-> key, content |-> content, group |-> 1, index |-> index, shape |-> shape]

\* A file of its own, and one before it that breaks the schema; a delivery in
\* two parts with an extra column, the second of which has the content of that
\* file (and breaks the schema where it is listed without its header); and a key
\* that the pattern only finds a match in.
Stray == Single(5, "s", "contract")
Strays == {Stray}
Delivery == {Single(1, "x", "breaking"), Single(2, "c", "contract"),
             PartOf(3, "h", 0, "wide"), PartOf(4, "c", 1, "breaking"), Stray}
=============================================================================
