----------------------------- MODULE MCContainer -----------------------------
(* A container of two services; callbacks of the first may post to both. *)
EXTENDS Container

CONSTANTS l1, l2

OneWayCrossPost == {<<l1, l2>>}
TwoServices == <<l1, l2>>
=============================================================================
