---------------------------- MODULE MCEntityPool ----------------------------
(* Instances of EntityPool for TLC: a player, a part that it gets, a coin. *)
EXTENDS EntityPool

CONSTANTS p1, e1, n1, c1

MCOwner == [e \in Entity |-> p1]
MCKind == [e \in Entity |-> CASE e = e1 -> "player"
                              [] e = n1 -> "part"
                              [] e = c1 -> "coin"]

(* Only the part changes; the others are updated all the same. *)
MCMaxVersion == [e \in Entity |-> IF e = n1 THEN 1 ELSE 0]

=============================================================================
