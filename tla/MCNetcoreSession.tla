-------------------------- MODULE MCNetcoreSession --------------------------
(* Small instances of NetcoreSession. *)
EXTENDS NetcoreSession

CONSTANTS s1, s2

=============================================================================
