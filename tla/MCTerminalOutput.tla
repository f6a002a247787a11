-------------------------- MODULE MCTerminalOutput --------------------------
(* Instances of TerminalOutput for TLC. *)
EXTENDS TerminalOutput

=============================================================================
