--------------------------- MODULE ClientController ---------------------------
(***************************************************************************)
(* ClientController.cpp over TcpSocket: what the controller does in the     *)
(* socket's handler calls, automatic reconnection, and what the             *)
(* application gets to see.                                                 *)
(*                                                                         *)
(* onSocket_Connected calls the application at once; onSocket_Error and     *)
(* onSocket_Close defer the application's onError and onClosed to the       *)
(* IOService (module DeferredCaller: in order, each once).                  *)
(***************************************************************************)
EXTENDS TcpSocket

CONSTANTS MayReconnect, \* the values the application passes to setReconnectable
          MaxDeferred   \* bound: notifications that wait at the same time

ASSUME ReconnectAssumption == MayReconnect \subseteq BOOLEAN /\ MayReconnect # {}
ASSUME DeferredAssumption == MaxDeferred \in Nat \ {0}

VARIABLES
  reconnectable,  \* reconnectable_
  reconnectTimer, \* the repeating timer TIMERID_RECONNECT is running
  deferred,       \* "Error" and "Close" notifications on their way
  appUp,          \* history: the last thing the application heard is onConnected
  initFlag        \* initFlag_

cvars == <<reconnectable, reconnectTimer, deferred, appUp, initFlag>>
vars == <<svars, cvars>>

Init == /\ SocketInit
        /\ reconnectable \in IF kind = "accepted" THEN {FALSE} ELSE MayReconnect
        /\ reconnectTimer = FALSE
        /\ deferred = <<>>
        /\ appUp = (kind = "accepted")
        /\ initFlag = (kind = "accepted")

-----------------------------------------------------------------------------
(* The handler calls, by the upcall of the socket's step.  fireObservers of *)
(* eventClosedConnection tells other controllers and changes nothing here.  *)
onSocket_Initialized ==
  /\ initFlag' = TRUE
  /\ UNCHANGED <<reconnectTimer, deferred, appUp>>

onSocket_Connected ==
  /\ appUp' = TRUE
  /\ UNCHANGED <<reconnectTimer, deferred, initFlag>>

(* Faulty variant: the application is not told. *)
onSocket_ErrorOrClose_NoDefer ==
  /\ reconnectTimer' = (reconnectTimer \/ reconnectable)
  /\ UNCHANGED <<deferred, appUp, initFlag>>

(* deferredCall, then processReconnect *)
onSocket_ErrorOrClose ==
  /\ deferred' = Append(deferred, upcall')
  /\ reconnectTimer' = (reconnectTimer \/ reconnectable)
  /\ UNCHANGED <<appUp, initFlag>>

Handler ==
  /\ CASE upcall' = "Initialized"        -> onSocket_Initialized
       [] upcall' = "Connected"          -> onSocket_Connected
       [] upcall' \in {"Error", "Close"} -> onSocket_ErrorOrClose
       [] upcall' \in {"none", "Read"}   -> UNCHANGED <<reconnectTimer, deferred, appUp, initFlag>>
  /\ UNCHANGED <<kind, reconnectable>>

-----------------------------------------------------------------------------
(* onSocket_ReadEvent with an invalid packet: socket()->close(). *)
ReadInvalidPacket ==
  /\ Readable
  /\ fire_onSocket_Close("invalid")
  /\ UNCHANGED <<kbuf, writes, hist>>

(* A notification that waits was deferred when the previous handle was      *)
(* freed: its event is in libevent's queue before any I/O event of the      *)
(* present handle, and the timers armed since then have a second or more    *)
(* to go.  Neither the loop nor the application goes on after a crash.      *)
Polled == deferred = <<>> /\ ~ crashed
Room == Len(deferred) < MaxDeferred /\ ~ crashed

(* Faulty variant: the timer is killed before connect(), which may throw. *)
ReconnectTick_KillsFirst ==
  /\ reconnectTimer /\ Polled
  /\ \E outcome \in Outcomes :
       /\ Connect(outcome)
       /\ reconnectTimer' = FALSE
       /\ initFlag' = (initFlag \/ upcall' = "Initialized")
       /\ UNCHANGED <<kind, reconnectable, deferred, appUp>>

(* onTimer_Timer(TIMERID_RECONNECT): connect() again; the timer, which has  *)
(* been added again before the handler ran, is killed unless connect()      *)
(* throws, as it also does when the socket is not in its initial state.     *)
ReconnectTick ==
  /\ reconnectTimer /\ Polled
  /\ \/ \E outcome \in Outcomes :
          /\ Connect(outcome)
          /\ reconnectTimer' = (outcome # "ok")
          /\ initFlag' = (initFlag \/ upcall' = "Initialized")
          /\ UNCHANGED <<kind, reconnectable, deferred, appUp>>
     \/ ~ CanConnect /\ UNCHANGED vars

SetReconnectable(enable) ==
  /\ kind # "accepted" /\ ~ crashed
  /\ reconnectable' = enable
  /\ reconnectTimer' = (reconnectTimer /\ enable)
  /\ upcall' = "none"
  /\ UNCHANGED <<kind, state, handle, armed, flags, kbuf, out, writes, hist, asked,
                 closedBy, deferred, appUp, initFlag>>

(* The loop runs a deferred fire_onError or fire_onClosed. *)
FireDeferred ==
  /\ deferred # <<>>
  /\ deferred' = Tail(deferred)
  /\ appUp' = FALSE
  /\ upcall' = "none"
  /\ UNCHANGED <<kind, state, handle, armed, flags, kbuf, out, writes, hist, asked,
                 closedBy, reconnectable, reconnectTimer, initFlag>>

SocketStep ==
  /\ \/ \E outcome \in Outcomes : Connect(outcome)
     \/ Room /\ Application
     \/ Polled /\ (\/ Failure \/ ReadInvalidPacket \/ Timer_Timeout
                   \/ Delivery \/ Established \/ Read_Data)
  /\ Handler

(* The program has ended. *)
Terminated == crashed /\ UNCHANGED vars

Next == \/ SocketStep
        \/ ReconnectTick
        \/ FireDeferred
        \/ \E enable \in MayReconnect : SetReconnectable(enable)
        \/ Terminated

Spec == Init /\ [][Next]_vars

(* The loop goes on delivering what is ready: deferred calls, the timers,   *)
(* the data of the write buffers.  A connection attempt that is made again  *)
(* and again succeeds at some time: the peer is not unreachable for ever.   *)
FairSpec ==
  /\ Spec
  /\ WF_vars(FireDeferred)
  /\ WF_vars(Polled /\ Delivery /\ Handler)
  /\ WF_vars(ReconnectTick)
  /\ SF_vars(ReconnectTick /\ handle' # "none")
  /\ SF_vars(Polled /\ Established /\ Handler)

-----------------------------------------------------------------------------
(* The type invariant. *)
Byte == (1..MaxWrites) \X (1..WriteSize)
TypeOK ==
  /\ kind \in Kinds /\ state \in States /\ handle \in {"none", "bev", "ev"}
  /\ armed \subseteq {"read", "write"}
  /\ {errorDetected, expired, connTimer, made, crashed, asked} \subseteq BOOLEAN
  /\ kbuf \in Seq(Byte) /\ out \in Seq(Byte)
  /\ upcall \in {"none", "Initialized", "Connected", "Read", "Error", "Close"}
  /\ writes \in 0..MaxWrites
  /\ wire \in Seq(Byte) /\ issued \in Seq(Byte) /\ owed \subseteq Byte
  /\ closedBy \in {"none", "user", "peer", "error", "expired", "invalid"}
  /\ {reconnectable, reconnectTimer, appUp, initFlag} \subseteq BOOLEAN
  /\ deferred \in Seq({"Error", "Close"}) /\ Len(deferred) <= MaxDeferred

(* state_, the libevent handles and the connection timer agree after every  *)
(* callback and call: no handle outlives its connection, an established     *)
(* connection has one, and no timeout is left to hit it.  The error path    *)
(* asks a bufferevent that does not exist for its DNS error, which ends the *)
(* program, in one case only: a read fails on a unix socket that is still   *)
(* connecting.                                                              *)
HandlesMatchState ==
  /\ TypeOK
  /\ crashed => kind = "unix" /\ handle = "ev" /\ state = "Connecting"
  /\ state = "Disconnected" => handle = "none"
  /\ state = "Connected" => handle # "none" /\ ~ connTimer /\ ~ errorDetected
  /\ handle = "none" => armed = {} /\ out = <<>>
  /\ handle = "ev" => out = <<>>

(* No sleeping data: on plain events, whenever a connecting socket waits to *)
(* become writable or an established one has unsent chunks, ev_write_ is    *)
(* added; nothing else would wake the socket up.                            *)
NoSleepingData ==
  handle = "ev" /\ (state = "Connecting" \/ kbuf # <<>>) => "write" \in armed

(* What a connection carries is a prefix of what it was given, in order,    *)
(* without gaps or repetitions, whatever the sequence of partial sends,     *)
(* failures and reconnections: for a plain-event socket the bytes left over *)
(* from the last connection and then the writes, for a bufferevent the      *)
(* writes since connect().                                                  *)
WireIsPrefix == IsPrefix(wire, issued)

(* Data written while there was no connection is sent on the next one:      *)
(* once the buffers that feed the connection are empty, nothing is owed     *)
(* ("pending data collected for reconnect").                                *)
Drained == out = <<>> /\ (handle = "ev" => kbuf = <<>>)
PendingIsSent == state = "Connected" /\ Drained => owed = {}

(* closeAfterAllSent closes only after everything that the connection was   *)
(* given, before and after the call, has been sent.                         *)
GracefulCloseSentAll == closedBy = "expired" => wire = issued

(* When no notification is on its way, the application's view is the        *)
(* socket's state: it heard onConnected last exactly if it is connected.    *)
AppInformed == deferred = <<>> => (appUp <=> state = "Connected")

(* A connection of a reconnectable client that was lost or could not be     *)
(* made is re-established, unless reconnection is switched off ("retry!"),  *)
(* the application closes the socket again and again, or the program ends.  *)
UserClose == upcall' = "Close" /\ closedBy' \in {"user", "expired"}
Reconnects ==
  <>[][~ UserClose]_vars =>
    (reconnectTimer ~> (state = "Connected" \/ ~ reconnectable \/ crashed))

(* closeAfterAllSent ends with the connection closed.                       *)
GracefulCloseHappens == asked ~> ~ asked
=============================================================================
