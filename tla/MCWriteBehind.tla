--------------------------- MODULE MCWriteBehind ---------------------------
(* Instances of WriteBehind for TLC. *)
EXTENDS WriteBehind, TLC

CONSTANTS g1, g2

Symmetry == Permutations(Guid)

(* Every write may succeed or fail. *)
AnyResult == [t \in RecordType |-> BOOLEAN]

AllSucceed == [t \in RecordType |-> {TRUE}]

=============================================================================
