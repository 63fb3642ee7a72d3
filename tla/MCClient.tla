------------------------------ MODULE MCClient ------------------------------
(* Instances of ClientController for TLC: the configurations give the kinds *)
(* of the socket, what its environment does, and the bounds.                *)
EXTENDS ClientController

(* On plain events the application neither writes nor closes gracefully     *)
(* while the socket is connecting.                                          *)
CarefulWrites ==
  [k \in Kinds |-> IF k = "tcp" THEN States ELSE {"Disconnected", "Connected"}]
CarefulExpiry ==
  [k \in Kinds |-> IF k = "tcp" THEN {"Connecting", "Connected"} ELSE {"Connected"}]

Never == [k \in Kinds |-> {}]

WhileDisconnected == [k \in Kinds |-> {"Disconnected"}]
=============================================================================
