------------------------------ MODULE TcpSocket ------------------------------
(***************************************************************************)
(* A stream socket: LibeventTcpSocketImpl.h over BaseSocket.cpp, with its   *)
(* pending-write buffer (dep/kbuffer.c) and its connection timer.           *)
(*                                                                         *)
(* A "tcp" client runs on a bufferevent (bev_), a "unix" client and an      *)
(* "accepted" connection on two plain events (ev_read_, ev_write_).  One    *)
(* action is one libevent callback or one call of the API, which the code   *)
(* serialises with the IOService's mutex.  `upcall' is the handler call     *)
(* that the step made; ClientController says what the handler does.         *)
(***************************************************************************)
EXTENDS Naturals, Sequences, SequencesExt

CONSTANTS Kinds,         \* kinds of socket: "tcp", "unix", "accepted"
          HasTimeout,    \* timeout_ > 0: connect arms conn_timer_
          StartFailures, \* the ways in which connect() may throw, see Outcomes
          WriteStates,   \* per kind, the states in which the application writes
          ExpireStates,  \* per kind, those in which it calls closeAfterAllSent
          MaxWrites      \* bound: writes in a behaviour

States == {"Disconnected", "Connecting", "Connected"}

ASSUME KindAssumption == Kinds \subseteq {"tcp", "unix", "accepted"}
ASSUME StartAssumption == StartFailures \subseteq {"start_failed", "no_socket", "refused"}
ASSUME StatesAssumption ==
  /\ WriteStates \in [Kinds -> SUBSET States]
  /\ ExpireStates \in [Kinds -> SUBSET States]
ASSUME BoundAssumption == HasTimeout \in BOOLEAN /\ MaxWrites \in Nat

VARIABLES
  kind,          \* what the socket was made for; never changes
  state,         \* BaseSocket::state_
  handle,        \* "bev" (bev_), "ev" (ev_read_ and ev_write_) or "none"
  armed,         \* which of the plain events are added: "read", "write"
  errorDetected, \* errorDetected_
  expired,       \* expired_
  connTimer,     \* conn_timer_ is running
  made,          \* write_kbuffer_ has been allocated
  kbuf,          \* write_kbuffer_: the bytes of its chunks
  out,           \* the bufferevent's output buffer: bytes
  upcall,        \* the handler call of the last step
  crashed,       \* libevent was handed a null bufferevent: the program ended
  writes,        \* history: number of writes
  wire,          \* history: bytes sent on the current or last connection
  issued,        \* history: bytes that connection has to carry
  owed,          \* history: bytes accepted while not connected, not yet sent
  asked,         \* history: closeAfterAllSent was called on this connection
  closedBy       \* history: why the last connection ended

flags == <<errorDetected, expired, connTimer, made, crashed>>
hist == <<wire, issued, owed>>
svars == <<kind, state, handle, armed, errorDetected, expired, connTimer, made, kbuf,
           out, upcall, crashed, writes, wire, issued, owed, asked, closedBy>>

WriteSize == 2   \* bytes in a write: enough for one to be torn
Bytes(w) == [k \in 1..WriteSize |-> <<w, k>>]

(* How a connect() that passes the state check ends: "ok"; "no_socket":     *)
(* ::socket fails; "refused": ::connect on the unix socket fails;           *)
(* "start_failed": bufferevent_socket_connect_hostname fails.               *)
PossibleFailures == CASE kind = "tcp"      -> {"start_failed"}
                      [] kind = "unix"     -> {"no_socket", "refused"}
                      [] kind = "accepted" -> {}
Outcomes == {"ok"} \cup (StartFailures \cap PossibleFailures)

SocketInit ==
  /\ kind \in Kinds
  /\ state = IF kind = "accepted" THEN "Connected" ELSE "Disconnected"
  /\ handle = IF kind = "accepted" THEN "ev" ELSE "none"
  /\ armed = IF kind = "accepted" THEN {"read", "write"} ELSE {}
  /\ made = (kind = "accepted")
  /\ errorDetected = FALSE /\ expired = FALSE /\ connTimer = FALSE
  /\ kbuf = <<>> /\ out = <<>> /\ upcall = "none" /\ crashed = FALSE
  /\ writes = 0 /\ wire = <<>> /\ issued = <<>> /\ owed = {}
  /\ asked = FALSE /\ closedBy = "none"

-----------------------------------------------------------------------------
(* dep/kbuffer.c *)

(* The bytes of the chunks one after the other.  A chunk holds one write or *)
(* what is left of it, so it ends with a byte of number WriteSize.          *)
kbuffer_add(buf, bytes) == buf \o bytes

(* The first chunk. *)
kbuffer_get_contiguous_data(buf) == SubSeq(buf, 1, WriteSize + 1 - Head(buf)[2])

(* Faulty variant: a partial drain frees the chunk. *)
kbuffer_drain_Whole(buf, n) ==
  SubSeq(buf, Len(kbuffer_get_contiguous_data(buf)) + 1, Len(buf))

(* Drains n bytes of the first chunk; a chunk drained whole is freed. *)
kbuffer_drain(buf, n) == SubSeq(buf, n + 1, Len(buf))

-----------------------------------------------------------------------------
(* Parts that several operations share *)

(* _close: frees whatever handle there is, and the output buffer with it.   *)
(* The kbuffer stays.                                                       *)
FreeHandle == handle' = "none" /\ armed' = {} /\ out' = <<>>

fire_onSocket_Close(why) ==
  /\ FreeHandle
  /\ connTimer' = FALSE
  /\ state' = "Disconnected"
  /\ upcall' = "Close"
  /\ asked' = FALSE /\ closedBy' = why
  /\ UNCHANGED <<errorDetected, expired, made, crashed>>

(* In state Connecting the DNS error is read from bev_, whatever it is;     *)
(* without a bufferevent the program ends there.                            *)
fire_onSocket_Error(timer) ==
  /\ errorDetected' = TRUE
  /\ IF state = "Connecting" /\ handle # "bev"
     THEN /\ crashed' = TRUE /\ upcall' = "none"
          /\ UNCHANGED <<state, handle, armed, out, connTimer, asked, closedBy>>
     ELSE /\ FreeHandle
          /\ connTimer' = timer
          /\ state' = "Disconnected"
          /\ upcall' = "Error"
          /\ asked' = FALSE /\ closedBy' = "error"
          /\ UNCHANGED crashed
  /\ UNCHANGED <<expired, made>>

(* Faulty variants: the connection timer goes on; pending data is not taken *)
(* up.                                                                      *)
fire_onSocket_Connected_KeepsTimer(armed0) ==
  /\ state' = IF errorDetected THEN state ELSE "Connected"
  /\ armed' = IF handle = "ev" /\ kbuf # <<>> THEN armed0 \cup {"write"} ELSE armed0
  /\ upcall' = IF errorDetected THEN "none" ELSE "Connected"
  /\ UNCHANGED connTimer
fire_onSocket_Connected_NoRearm(armed0) ==
  /\ state' = IF errorDetected THEN state ELSE "Connected"
  /\ armed' = armed0
  /\ upcall' = IF errorDetected THEN "none" ELSE "Connected"
  /\ connTimer' = (connTimer /\ errorDetected)

(* Pending data is taken up by adding ev_write_, if there is one. *)
fire_onSocket_Connected(armed0) ==
  IF errorDetected
  THEN /\ armed' = armed0 /\ upcall' = "none"
       /\ UNCHANGED <<state, connTimer>>
  ELSE /\ state' = "Connected"
       /\ armed' = IF handle = "ev" /\ kbuf # <<>> THEN armed0 \cup {"write"}
                                                   ELSE armed0
       /\ connTimer' = FALSE
       /\ upcall' = "Connected"

(* Bytes that leave for the peer. *)
Sent(bytes) == /\ wire' = wire \o bytes
               /\ owed' = owed \ ToSet(bytes)
               /\ UNCHANGED issued

-----------------------------------------------------------------------------
(* The application's calls *)

(* connect() past _throwExceptionIfNotInitState. *)
CanConnect == kind # "accepted" /\ state = "Disconnected" /\ handle = "none"

Connect(outcome) ==
  /\ CanConnect
  /\ connTimer' = (connTimer \/ HasTimeout)
  /\ errorDetected' = FALSE
  /\ state' = IF outcome = "refused" THEN "Disconnected" ELSE "Connecting"
  /\ made' = (made \/ outcome # "no_socket")
  /\ upcall' = IF outcome = "no_socket" THEN "none" ELSE "Initialized"
  /\ IF outcome = "ok"
     THEN /\ handle' = IF kind = "tcp" THEN "bev" ELSE "ev"
          /\ armed' = IF kind = "tcp" THEN {} ELSE {"read", "write"}
          /\ wire' = <<>>
          /\ issued' = IF kind = "tcp" THEN <<>> ELSE kbuf
          /\ closedBy' = "none"
     ELSE UNCHANGED <<handle, armed, wire, issued, closedBy>>
  /\ UNCHANGED <<expired, kbuf, out, crashed, writes, owed, asked>>

(* write: a socket that is not connected stores the data, and then, as      *)
(* there is no return, hands it to the handle as well.  The application     *)
(* does not write before it has connected once.                             *)
Write ==
  /\ state \in WriteStates[kind] /\ made /\ writes < MaxWrites
  /\ LET bytes == Bytes(writes + 1)
         pending == state # "Connected"
         stored == IF pending THEN kbuffer_add(kbuf, bytes) ELSE kbuf
     IN /\ kbuf' = IF handle = "ev" THEN kbuffer_add(stored, bytes) ELSE stored
        /\ out' = IF handle = "bev" THEN out \o bytes ELSE out
        /\ armed' = IF handle = "ev" THEN armed \cup {"write"} ELSE armed
        /\ issued' = IF handle = "none" THEN issued ELSE issued \o bytes
        /\ owed' = IF pending THEN owed \cup ToSet(bytes) ELSE owed
  /\ writes' = writes + 1
  /\ upcall' = "none"
  /\ UNCHANGED <<state, handle, flags, wire, asked, closedBy>>

(* close() is unconditional. *)
Close == fire_onSocket_Close("user") /\ UNCHANGED <<kbuf, writes, hist>>

(* Faulty variant: the socket is closed at once. *)
CloseAfterAllSent_AtOnce ==
  /\ handle # "none" /\ state \in ExpireStates[kind]
  /\ FreeHandle
  /\ connTimer' = FALSE /\ state' = "Disconnected" /\ upcall' = "Close"
  /\ asked' = FALSE /\ closedBy' = "expired" /\ expired' = TRUE
  /\ UNCHANGED <<errorDetected, made, crashed, kbuf, writes, hist>>

(* closeAfterAllSent, on a socket that has a handle. *)
CloseAfterAllSent ==
  /\ handle # "none" /\ state \in ExpireStates[kind]
  /\ IF handle = "bev" /\ out = <<>>
     THEN /\ FreeHandle
          /\ connTimer' = FALSE /\ state' = "Disconnected" /\ upcall' = "Close"
          /\ asked' = FALSE /\ closedBy' = "expired"
     ELSE /\ armed' = IF handle = "ev" THEN {"write"} ELSE {}
          /\ asked' = TRUE /\ upcall' = "none"
          /\ UNCHANGED <<state, handle, out, connTimer, closedBy>>
  /\ expired' = TRUE
  /\ UNCHANGED <<errorDetected, made, crashed, kbuf, writes, hist>>

-----------------------------------------------------------------------------
(* Callbacks of the bufferevent *)

(* bufevent_cb, BEV_EVENT_CONNECTED *)
Bev_Connected ==
  /\ handle = "bev" /\ state = "Connecting"
  /\ fire_onSocket_Connected(armed)
  /\ UNCHANGED <<handle, errorDetected, expired, made, crashed, kbuf, out,
                 writes, hist, asked, closedBy>>

(* bufevent_cb, BEV_EVENT_ERROR *)
Bev_Error ==
  /\ handle = "bev"
  /\ fire_onSocket_Error(connTimer)
  /\ UNCHANGED <<kbuf, writes, hist>>

(* Faulty variant: write_cb does not look at expired_. *)
Bev_Flush_NeverCloses(n) ==
  /\ handle = "bev" /\ state = "Connected" /\ n \in 1..Len(out)
  /\ Sent(SubSeq(out, 1, n))
  /\ out' = SubSeq(out, n + 1, Len(out))
  /\ upcall' = "none"
  /\ UNCHANGED <<state, handle, armed, flags, asked, closedBy, kbuf, writes>>

(* libevent sends n bytes of the output buffer and, once it is empty, calls *)
(* write_cb, which closes an expired socket.                                *)
Bev_Flush(n) ==
  /\ handle = "bev" /\ state = "Connected" /\ n \in 1..Len(out)
  /\ Sent(SubSeq(out, 1, n))
  /\ IF n = Len(out) /\ expired
     THEN fire_onSocket_Close("expired")
     ELSE /\ out' = SubSeq(out, n + 1, Len(out))
          /\ upcall' = "none"
          /\ UNCHANGED <<state, handle, armed, flags, asked, closedBy>>
  /\ UNCHANGED <<kbuf, writes>>

-----------------------------------------------------------------------------
(* Reading, on either kind of handle: read_cb, bufevent_cb, _onReadEvent and *)
(* the read() that the handler calls *)
Readable == \/ handle = "bev" /\ state = "Connected"
            \/ handle = "ev" /\ "read" \in armed

Read_Data ==
  /\ Readable
  /\ upcall' = "Read"
  /\ UNCHANGED <<state, handle, armed, flags, kbuf, out, writes, hist, asked, closedBy>>

(* BEV_EVENT_EOF, or read() returns 0 *)
Read_Eof ==
  /\ Readable
  /\ fire_onSocket_Close("peer")
  /\ UNCHANGED <<kbuf, writes, hist>>

(* read() fails on the plain socket: checkResponseSocket.  A unix socket    *)
(* that the listener closes before it accepts fails while connecting.       *)
Read_Error ==
  /\ Readable /\ handle = "ev"
  /\ fire_onSocket_Error(connTimer)
  /\ UNCHANGED <<kbuf, writes, hist>>

-----------------------------------------------------------------------------
(* _onWriteEvent *)
WriteEvent == handle = "ev" /\ "write" \in armed

(* state Connecting: the connection is established *)
Write_Connected ==
  /\ WriteEvent /\ state = "Connecting"
  /\ fire_onSocket_Connected(armed \ {"write"})
  /\ UNCHANGED <<handle, errorDetected, expired, made, crashed, kbuf, out,
                 writes, hist, asked, closedBy>>

(* Nothing to send: the event is deleted, an expired socket closed. *)
Write_Empty ==
  /\ WriteEvent /\ state # "Connecting" /\ kbuf = <<>>
  /\ IF expired
     THEN fire_onSocket_Close("expired")
     ELSE /\ armed' = armed \ {"write"}
          /\ upcall' = "none"
          /\ UNCHANGED <<state, handle, flags, out, asked, closedBy>>
  /\ UNCHANGED <<kbuf, writes, hist>>

(* The kernel takes n bytes of the first chunk. *)
Write_Sent(n) ==
  /\ WriteEvent /\ state # "Connecting" /\ kbuf # <<>>
  /\ n \in 1..Len(kbuffer_get_contiguous_data(kbuf))
  /\ Sent(SubSeq(kbuffer_get_contiguous_data(kbuf), 1, n))
  /\ kbuf' = kbuffer_drain(kbuf, n)
  /\ upcall' = "none"
  /\ UNCHANGED <<state, handle, armed, flags, out, writes, asked, closedBy>>

(* ::write returns 0 or fails; after EAGAIN nothing has changed. *)
Write_Error ==
  /\ WriteEvent /\ state # "Connecting" /\ kbuf # <<>>
  /\ fire_onSocket_Close("error")
  /\ UNCHANGED <<kbuf, writes, hist>>

-----------------------------------------------------------------------------
(* onTimer_Timer: the connection timer, which does not repeat.  libevent    *)
(* activates I/O events before timers, and a connected unix socket is       *)
(* writable at once, so there the write event comes first.                  *)
Timer_Timeout ==
  /\ connTimer
  /\ ~ (handle = "ev" /\ state = "Connecting")
  /\ fire_onSocket_Error(FALSE)
  /\ UNCHANGED <<kbuf, writes, hist>>

-----------------------------------------------------------------------------
Application == Write \/ Close \/ CloseAfterAllSent

Failure == Bev_Error \/ Read_Eof \/ Read_Error \/ Write_Error

Delivery == \/ \E n \in 1..Len(out) : Bev_Flush(n)
            \/ \E n \in 1..WriteSize : Write_Sent(n)
            \/ Write_Empty

Established == Bev_Connected \/ Write_Connected
=============================================================================
