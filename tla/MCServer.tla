------------------------------ MODULE MCServer ------------------------------
(* Small instances of ServerController for TLC. *)
EXTENDS ServerController
=============================================================================
