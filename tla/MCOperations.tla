--------------------------- MODULE MCOperations ----------------------------
(* Instances of Operations for TLC: two objects of one content, and a second *)
(* dataset with nothing under raw/.                                          *)
EXTENDS Operations

MCContentOf == [o \in 1..2 |-> "a"]
MCDatasetOf == [c \in {"a"} |-> "customers"]
MCDatasets == <<"customers", "orders">>

\* A dry run that may not list, one that may; deletions of objects allowed, and
\* of everything.
MCDeployments == {{}, {"list"}, {"list", "enforce", "delete_objects"}, Grants}
=============================================================================
