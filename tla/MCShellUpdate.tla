--------------------------- MODULE MCShellUpdate ---------------------------
(* ShellUpdate for TLC. *)
EXTENDS ShellUpdate
=============================================================================
