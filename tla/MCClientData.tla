--------------------------- MODULE MCClientData ---------------------------
(* ClientData for TLC. *)
EXTENDS ClientData
=============================================================================
