-------------------------- MODULE MCDeferredCaller --------------------------
(* Small instances of DeferredCaller for TLC. *)
EXTENDS DeferredCaller

CONSTANTS l1, l2

NoCrossPost == {}
=============================================================================
