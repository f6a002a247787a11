--------------------------- MODULE MCRoleEntrance ---------------------------
(* Instances of RoleEntrance for TLC: two sessions of one role, of which   *)
(* one may be closed by an error.                                          *)
EXTENDS RoleEntrance

=============================================================================
