------------------------ MODULE ClientControllerProofs ------------------------
(***************************************************************************)
(* Proofs about ClientController and the socket under it, for any bounds   *)
(* and all kinds of socket, with and without a connection timeout.         *)
(***************************************************************************)
EXTENDS ClientController, SequenceTheorems, TLAPS

(* connect() fails in the ways after which state_ and the handles agree (it *)
(* leaves state_ Connecting without a handle when ::socket or               *)
(* bufferevent_socket_connect_hostname fails), and on plain events the      *)
(* application does not write while the socket is connecting (write would   *)
(* queue the data twice).                                                   *)
Careful ==
  /\ StartFailures \subseteq {"refused"}
  /\ \A k \in Kinds \ {"tcp"} : "Connecting" \notin WriteStates[k]

-----------------------------------------------------------------------------
(* TypeOK, the socket's and the controller's part. *)
SocketTypes ==
  /\ kind \in Kinds /\ state \in States /\ handle \in {"none", "bev", "ev"}
  /\ armed \subseteq {"read", "write"}
  /\ errorDetected \in BOOLEAN /\ expired \in BOOLEAN /\ connTimer \in BOOLEAN
  /\ made \in BOOLEAN /\ crashed \in BOOLEAN /\ asked \in BOOLEAN
  /\ kbuf \in Seq(Byte) /\ out \in Seq(Byte)
  /\ upcall \in {"none", "Initialized", "Connected", "Read", "Error", "Close"}
  /\ writes \in 0..MaxWrites
  /\ wire \in Seq(Byte) /\ issued \in Seq(Byte) /\ owed \subseteq Byte
  /\ closedBy \in {"none", "user", "peer", "error", "expired", "invalid"}
ControllerTypes ==
  /\ reconnectable \in BOOLEAN /\ reconnectTimer \in BOOLEAN
  /\ appUp \in BOOLEAN /\ initFlag \in BOOLEAN
  /\ deferred \in Seq({"Error", "Close"}) /\ Len(deferred) <= MaxDeferred

(* A handle exists exactly while the socket is connecting or connected, it  *)
(* is of the socket's kind, an accepted socket never connects, and no error *)
(* has been detected on the handle, unless the program has ended in the     *)
(* error path of a connecting unix socket.                                  *)
Handles ==
  /\ (handle = "none") = (state = "Disconnected")
  /\ handle = "bev" => kind = "tcp"
  /\ handle = "ev" => kind # "tcp" /\ out = <<>>
  /\ handle = "none" => armed = {} /\ out = <<>>
  /\ handle # "none" => ~ errorDetected \/ crashed
  /\ state = "Connected" => ~ connTimer
  /\ kind = "accepted" => state # "Connecting"
  /\ crashed => kind = "unix" /\ handle = "ev" /\ state = "Connecting"

(* What the connection was given is what it has sent and what its buffer    *)
(* still holds.  The buffer ends where a chunk ends.                        *)
Stream ==
  /\ handle = "ev" => issued = wire \o kbuf
  /\ handle = "bev" => issued = wire \o out
  /\ WireIsPrefix
  /\ kbuf # <<>> => kbuf[Len(kbuf)][2] = WriteSize

(* A connection that exists has not been closed. *)
Ended == GracefulCloseSentAll /\ (handle # "none" => closedBy = "none")

(* While a notification waits the socket is not connected. *)
Informed == AppInformed /\ (deferred # <<>> => state # "Connected")

(* The inductive invariant: of the socket, and with the controller. *)
SocketInv == SocketTypes /\ Handles /\ NoSleepingData /\ Stream /\ Ended
ClientInv == SocketInv /\ ControllerTypes /\ Informed

(* What the handler sees of a step of the socket. *)
Seen == \/ upcall' \in {"none", "Read", "Initialized"} /\ (state' = "Connected" <=> state = "Connected")
        \/ upcall' = "Connected" /\ state' = "Connected"
        \/ upcall' \in {"Error", "Close"} /\ state' = "Disconnected"

-----------------------------------------------------------------------------
(* Lemmas about sequences. *)

(* A sequence is a prefix of every longer one that begins with it. *)
LEMMA PrefixOfConcat ==
  ASSUME NEW T, NEW s \in Seq(T), NEW t \in Seq(T)
  PROVE  IsPrefix(s, s \o t)
<1> DEFINE r == s \o t
<1>1. r \in Seq(T) /\ Len(r) = Len(s) + Len(t) /\ Len(s) \in Nat /\ Len(t) \in Nat
  BY ConcatProperties
<1>2. \A i \in 1 .. Len(s) : r[i] = s[i]
  BY <1>1, ConcatProperties
<1> HIDE DEF r
<1>3. Len(s) <= Len(r)
  BY <1>1
<1>4. SubSeq(s, 1, Len(s)) = s
  BY SubSeqFull
<1>5. SubSeq(r, 1, Len(s)) = s
  <2> DEFINE u == SubSeq(r, 1, Len(s))
  <2>1. u \in Seq(T) /\ Len(u) = Len(s) /\ \A i \in 1 .. Len(s) : u[i] = r[i]
    BY <1>1, <1>3
  <2> HIDE DEF u
  <2>2. \A i \in 1 .. Len(u) : u[i] = s[i]
    BY <1>2, <2>1
  <2>3. u = s
    BY <2>1, <2>2, SeqEqual
  <2> QED BY <2>3 DEF u
<1>6. IsPrefix(s, r)
  BY <1>3, <1>4, <1>5 DEF IsPrefix
<1> QED BY <1>6 DEF r

(* A sequence is cut in two. *)
LEMMA CutInTwo ==
  ASSUME NEW T, NEW s \in Seq(T), NEW n \in 1 .. Len(s)
  PROVE  /\ SubSeq(s, 1, n) \in Seq(T) /\ SubSeq(s, n + 1, Len(s)) \in Seq(T)
         /\ SubSeq(s, 1, n) \o SubSeq(s, n + 1, Len(s)) = s
         /\ SubSeq(s, n + 1, Len(s)) # <<>> => SubSeq(s, n + 1, Len(s))[Len(SubSeq(s, n + 1, Len(s)))] = s[Len(s)]
         /\ SubSeq(s, n + 1, Len(s)) = <<>> => n = Len(s)
         /\ n = Len(s) => SubSeq(s, n + 1, Len(s)) = <<>>
<1>1. Len(s) \in Nat /\ n \in Nat /\ \A i \in 1 .. Len(s) : s[i] \in T
  OBVIOUS
<1> DEFINE u == SubSeq(s, n + 1, Len(s))
<1>2. SubSeq(s, 1, n) \in Seq(T) /\ u \in Seq(T)
  BY <1>1
<1>3. SubSeq(s, 1, n) \o u = SubSeq(s, 1, Len(s))
  BY <1>1, ConcatAdjacentSubSeq
<1>4. SubSeq(s, 1, Len(s)) = s
  BY SubSeqFull
<1>5. n < Len(s) => Len(u) = Len(s) - n /\ u[Len(s) - n] = s[Len(s)]
  <2>1. SUFFICES ASSUME n < Len(s) PROVE Len(u) = Len(s) - n /\ u[Len(s) - n] = s[Len(s)]
    OBVIOUS
  <2>2. n + 1 <= Len(s) /\ Len(s) - n \in 1 .. (Len(s) - (n + 1) + 1) /\ n + 1 + (Len(s) - n) - 1 = Len(s)
    BY <1>1, <2>1
  <2>3. Len(u) = Len(s) - (n + 1) + 1 /\ Len(s) - (n + 1) + 1 = Len(s) - n
    BY <1>1, <2>2
  <2>4. u[Len(s) - n] = s[n + 1 + (Len(s) - n) - 1]
    BY <1>1, <2>2
  <2> QED BY <2>2, <2>3, <2>4
<1>6. n = Len(s) => u = <<>>
  BY <1>1, SubSeqEmpty
<1> HIDE DEF u
<1>7. n < Len(s) => u # <<>>
  BY <1>1, <1>5
<1>8. n < Len(s) \/ n = Len(s)
  BY <1>1
<1>9. /\ u # <<>> => u[Len(u)] = s[Len(s)]
      /\ u = <<>> => n = Len(s)
      /\ n = Len(s) => u = <<>>
  BY <1>5, <1>6, <1>7, <1>8
<1> QED BY <1>2, <1>3, <1>4, <1>9 DEF u

(* A write is a chunk of its own. *)
LEMMA WriteIsChunk ==
  ASSUME NEW w \in 1 .. MaxWrites, NEW s \in Seq(Byte)
  PROVE  /\ Bytes(w) \in Seq(Byte) /\ s \o Bytes(w) \in Seq(Byte) /\ ToSet(Bytes(w)) \subseteq Byte
         /\ s \o Bytes(w) # <<>> /\ (s \o Bytes(w))[Len(s \o Bytes(w))][2] = WriteSize
<1> DEFINE b == Bytes(w)
<1>1. b \in [1 .. 2 -> Byte] /\ b[2] = <<w, 2>>
  BY DEF Bytes, Byte, WriteSize
<1> HIDE DEF b
<1>2. b \in Seq(Byte) /\ Len(b) = 2 /\ DOMAIN b = 1 .. 2
  <2>1. b \in Seq(Byte)
    BY <1>1, SeqDef
  <2>2. DOMAIN b = 1 .. 2 /\ DOMAIN b = 1 .. Len(b) /\ Len(b) \in Nat
    BY <1>1, <2>1, LenProperties
  <2>3. Len(b) = 2
    BY <2>2
  <2> QED BY <2>1, <2>2, <2>3
<1>3. /\ s \o b \in Seq(Byte) /\ Len(s \o b) = Len(s) + Len(b) /\ Len(s) \in Nat
      /\ \A i \in 1 .. Len(s) + Len(b) : (s \o b)[i] = IF i <= Len(s) THEN s[i] ELSE b[i - Len(s)]
  <2>1. Len(s) \in Nat
    OBVIOUS
  <2> QED BY <1>2, <2>1, ConcatProperties
<1>4. (s \o b)[Len(s) + 2] = b[2] /\ Len(s \o b) = Len(s) + 2
  <2>1. Len(s) + 2 \in 1 .. Len(s) + Len(b) /\ ~ (Len(s) + 2 <= Len(s)) /\ Len(s) + 2 - Len(s) = 2
    BY <1>2, <1>3
  <2> QED BY <1>2, <1>3, <2>1
<1>5. s \o b # <<>>
  BY <1>3, <1>4
<1>6. ToSet(b) \subseteq Byte
  BY <1>1, <1>2 DEF ToSet
<1>7. <<w, 2>>[2] = WriteSize
  BY DEF WriteSize
<1>8. (s \o b)[Len(s \o b)][2] = WriteSize
  BY <1>1, <1>4, <1>7
<1> QED BY <1>2, <1>3, <1>5, <1>6, <1>8 DEF b

-----------------------------------------------------------------------------
(* The handle is freed and the handler told. *)
LEMMA Closing ==
  ASSUME SocketInv, UNCHANGED <<kind, kbuf, writes, issued>>,
         handle' = "none", armed' = {}, out' = <<>>, state' = "Disconnected",
         upcall' \in {"Error", "Close"}, asked' = FALSE,
         closedBy' \in {"user", "peer", "error", "expired", "invalid"},
         errorDetected' \in BOOLEAN, expired' \in BOOLEAN, connTimer' \in BOOLEAN,
         made' = made, crashed' = FALSE,
         wire' \in Seq(Byte), owed' \subseteq Byte, IsPrefix(wire', issued),
         closedBy' = "expired" => wire' = issued
  PROVE  SocketInv' /\ Seen
<1> USE KindAssumption, StatesAssumption, BoundAssumption DEF SocketInv
<1>1. SocketTypes'
  <2>1. asked' \in BOOLEAN /\ made' \in BOOLEAN /\ crashed' \in BOOLEAN
    BY Zenon DEF SocketTypes
  <2>2. kind' \in Kinds /\ state' \in States /\ kbuf' \in Seq(Byte) /\ issued' \in Seq(Byte) /\ writes' \in 0 .. MaxWrites
    BY DEF SocketTypes, States
  <2>3. out' \in Seq(Byte)
    OBVIOUS
  <2> QED BY <2>1, <2>2, <2>3 DEF SocketTypes
<1>2. Handles'
  BY DEF Handles, SocketTypes, States
<1>3. NoSleepingData'
  BY DEF NoSleepingData, Handles, SocketTypes
<1>4. Stream'
  BY DEF Stream, WireIsPrefix
<1>5. Ended'
  BY DEF Ended, GracefulCloseSentAll
<1>6. Seen
  BY DEF Seen, Handles, SocketTypes, States
<1> QED BY <1>1, <1>2, <1>3, <1>4, <1>5, <1>6

(* close(). *)
LEMMA Step_Close ==
  ASSUME SocketInv, ~ crashed, Close, UNCHANGED kind
  PROVE  SocketInv' /\ Seen
<1> USE DEF SocketInv
<1>1. /\ UNCHANGED <<kind, kbuf, writes, issued, wire, owed, made>>
      /\ handle' = "none" /\ armed' = {} /\ out' = <<>> /\ state' = "Disconnected"
      /\ upcall' \in {"Error", "Close"} /\ asked' = FALSE /\ closedBy' \in {"user", "peer", "error", "invalid"}
  BY DEF Close, fire_onSocket_Close, FreeHandle, hist
<1>2. errorDetected' \in BOOLEAN /\ expired' \in BOOLEAN /\ connTimer' \in BOOLEAN
  BY DEF Close, fire_onSocket_Close, FreeHandle, SocketTypes
<1>3. crashed' = FALSE
  BY DEF Close, fire_onSocket_Close, FreeHandle, SocketTypes, Handles
<1>4. wire' \in Seq(Byte) /\ owed' \subseteq Byte /\ IsPrefix(wire', issued)
  BY <1>1 DEF SocketTypes, Stream, WireIsPrefix
<1> QED BY <1>1, <1>2, <1>3, <1>4, Closing

(* A bufferevent reports an error. *)
LEMMA Step_Bev_Error ==
  ASSUME SocketInv, ~ crashed, Bev_Error, UNCHANGED kind
  PROVE  SocketInv' /\ Seen
<1> USE DEF SocketInv
<1>1. /\ UNCHANGED <<kind, kbuf, writes, issued, wire, owed, made>>
      /\ handle' = "none" /\ armed' = {} /\ out' = <<>> /\ state' = "Disconnected"
      /\ upcall' \in {"Error", "Close"} /\ asked' = FALSE /\ closedBy' \in {"user", "peer", "error", "invalid"}
  BY DEF Bev_Error, fire_onSocket_Error, FreeHandle, hist
<1>2. errorDetected' \in BOOLEAN /\ expired' \in BOOLEAN /\ connTimer' \in BOOLEAN
  BY DEF Bev_Error, fire_onSocket_Error, FreeHandle, SocketTypes
<1>3. crashed' = FALSE
  BY DEF Bev_Error, fire_onSocket_Error, FreeHandle, SocketTypes, Handles
<1>4. wire' \in Seq(Byte) /\ owed' \subseteq Byte /\ IsPrefix(wire', issued)
  BY <1>1 DEF SocketTypes, Stream, WireIsPrefix
<1> QED BY <1>1, <1>2, <1>3, <1>4, Closing

(* The peer closes. *)
LEMMA Step_Read_Eof ==
  ASSUME SocketInv, ~ crashed, Read_Eof, UNCHANGED kind
  PROVE  SocketInv' /\ Seen
<1> USE DEF SocketInv
<1>1. /\ UNCHANGED <<kind, kbuf, writes, issued, wire, owed, made>>
      /\ handle' = "none" /\ armed' = {} /\ out' = <<>> /\ state' = "Disconnected"
      /\ upcall' \in {"Error", "Close"} /\ asked' = FALSE /\ closedBy' \in {"user", "peer", "error", "invalid"}
  BY DEF Read_Eof, fire_onSocket_Close, FreeHandle, hist
<1>2. errorDetected' \in BOOLEAN /\ expired' \in BOOLEAN /\ connTimer' \in BOOLEAN
  BY DEF Read_Eof, fire_onSocket_Close, FreeHandle, SocketTypes
<1>3. crashed' = FALSE
  BY DEF Read_Eof, fire_onSocket_Close, FreeHandle, SocketTypes, Handles
<1>4. wire' \in Seq(Byte) /\ owed' \subseteq Byte /\ IsPrefix(wire', issued)
  BY <1>1 DEF SocketTypes, Stream, WireIsPrefix
<1> QED BY <1>1, <1>2, <1>3, <1>4, Closing

(* read() fails.  On a unix socket that is connecting, nothing is done but  *)
(* that the program ends: an accepted one never connects.                   *)
LEMMA Step_Read_Error ==
  ASSUME SocketInv, ~ crashed, Read_Error, UNCHANGED kind
  PROVE  SocketInv' /\ Seen
<1> USE DEF SocketInv
<1>1. handle = "ev" /\ UNCHANGED <<kind, kbuf, writes, issued, wire, owed, made, expired>> /\ errorDetected' = TRUE
  BY DEF Read_Error, fire_onSocket_Error, hist
<1>2. CASE state # "Connecting"
  <2>1. /\ handle' = "none" /\ armed' = {} /\ out' = <<>> /\ state' = "Disconnected"
        /\ upcall' \in {"Error", "Close"} /\ asked' = FALSE /\ closedBy' \in {"user", "peer", "error", "invalid"}
        /\ connTimer' = connTimer /\ crashed' = crashed
    BY <1>2 DEF Read_Error, fire_onSocket_Error, FreeHandle
  <2>2. errorDetected' \in BOOLEAN /\ expired' \in BOOLEAN /\ connTimer' \in BOOLEAN /\ crashed' = FALSE
    BY <1>1, <2>1 DEF SocketTypes
  <2>3. wire' \in Seq(Byte) /\ owed' \subseteq Byte /\ IsPrefix(wire', issued)
    BY <1>1 DEF SocketTypes, Stream, WireIsPrefix
  <2> QED BY <1>1, <2>1, <2>2, <2>3, Closing
<1>3. CASE state = "Connecting"
  <2>1. /\ crashed' = TRUE /\ upcall' = "none"
        /\ UNCHANGED <<state, handle, armed, out, connTimer, asked, closedBy>>
    BY <1>1, <1>3 DEF Read_Error, fire_onSocket_Error
  <2>2. kind = "unix"
    BY <1>1, <1>3, KindAssumption DEF SocketTypes, Handles
  <2>3. SocketTypes'
    BY <1>1, <2>1 DEF SocketTypes
  <2>4. Handles' /\ NoSleepingData'
    BY <1>1, <1>3, <2>1, <2>2 DEF Handles, NoSleepingData
  <2>5. Stream' /\ Ended' /\ Seen
    BY <1>1, <2>1 DEF Stream, WireIsPrefix, Ended, GracefulCloseSentAll, Seen
  <2> QED BY <2>3, <2>4, <2>5
<1> QED BY <1>2, <1>3

(* The protocol refuses a packet. *)
LEMMA Step_ReadInvalidPacket ==
  ASSUME SocketInv, ~ crashed, ReadInvalidPacket, UNCHANGED kind
  PROVE  SocketInv' /\ Seen
<1> USE DEF SocketInv
<1>1. /\ UNCHANGED <<kind, kbuf, writes, issued, wire, owed, made>>
      /\ handle' = "none" /\ armed' = {} /\ out' = <<>> /\ state' = "Disconnected"
      /\ upcall' \in {"Error", "Close"} /\ asked' = FALSE /\ closedBy' \in {"user", "peer", "error", "invalid"}
  BY DEF ReadInvalidPacket, fire_onSocket_Close, FreeHandle, hist
<1>2. errorDetected' \in BOOLEAN /\ expired' \in BOOLEAN /\ connTimer' \in BOOLEAN
  BY DEF ReadInvalidPacket, fire_onSocket_Close, FreeHandle, SocketTypes
<1>3. crashed' = FALSE
  BY DEF ReadInvalidPacket, fire_onSocket_Close, FreeHandle, SocketTypes, Handles
<1>4. wire' \in Seq(Byte) /\ owed' \subseteq Byte /\ IsPrefix(wire', issued)
  BY <1>1 DEF SocketTypes, Stream, WireIsPrefix
<1> QED BY <1>1, <1>2, <1>3, <1>4, Closing

(* write() fails. *)
LEMMA Step_Write_Error ==
  ASSUME SocketInv, ~ crashed, Write_Error, UNCHANGED kind
  PROVE  SocketInv' /\ Seen
<1> USE DEF SocketInv
<1>1. /\ UNCHANGED <<kind, kbuf, writes, issued, wire, owed, made>>
      /\ handle' = "none" /\ armed' = {} /\ out' = <<>> /\ state' = "Disconnected"
      /\ upcall' \in {"Error", "Close"} /\ asked' = FALSE /\ closedBy' \in {"user", "peer", "error", "invalid"}
  BY DEF Write_Error, fire_onSocket_Close, FreeHandle, hist
<1>2. errorDetected' \in BOOLEAN /\ expired' \in BOOLEAN /\ connTimer' \in BOOLEAN
  BY DEF Write_Error, fire_onSocket_Close, FreeHandle, SocketTypes
<1>3. crashed' = FALSE
  BY DEF Write_Error, fire_onSocket_Close, FreeHandle, SocketTypes, Handles
<1>4. wire' \in Seq(Byte) /\ owed' \subseteq Byte /\ IsPrefix(wire', issued)
  BY <1>1 DEF SocketTypes, Stream, WireIsPrefix
<1> QED BY <1>1, <1>2, <1>3, <1>4, Closing

(* The connection timer: there is a bufferevent, or the socket is not connecting. *)
LEMMA Step_Timer_Timeout ==
  ASSUME SocketInv, ~ crashed, Timer_Timeout, UNCHANGED kind
  PROVE  SocketInv' /\ Seen
<1> USE DEF SocketInv
<1>a. ~ (state = "Connecting" /\ handle # "bev")
  BY DEF Timer_Timeout, SocketTypes, Handles
<1>1. /\ UNCHANGED <<kind, kbuf, writes, issued, wire, owed, made>>
      /\ handle' = "none" /\ armed' = {} /\ out' = <<>> /\ state' = "Disconnected"
      /\ upcall' \in {"Error", "Close"} /\ asked' = FALSE /\ closedBy' \in {"user", "peer", "error", "invalid"}
  BY <1>a DEF Timer_Timeout, fire_onSocket_Error, FreeHandle, hist
<1>2. errorDetected' \in BOOLEAN /\ expired' \in BOOLEAN /\ connTimer' \in BOOLEAN
  BY <1>a DEF Timer_Timeout, fire_onSocket_Error, FreeHandle, SocketTypes
<1>3. crashed' = FALSE
  BY <1>a DEF Timer_Timeout, fire_onSocket_Error, FreeHandle, SocketTypes, Handles
<1>4. wire' \in Seq(Byte) /\ owed' \subseteq Byte /\ IsPrefix(wire', issued)
  BY <1>1 DEF SocketTypes, Stream, WireIsPrefix
<1> QED BY <1>1, <1>2, <1>3, <1>4, Closing

(* connect(): what a plain-event socket has left over is what it has to send first. *)
LEMMA Step_Connect ==
  ASSUME SocketInv, Careful, NEW outcome \in Outcomes, Connect(outcome), UNCHANGED kind
  PROVE  SocketInv' /\ Seen
<1> USE KindAssumption, StatesAssumption, BoundAssumption DEF SocketInv
<1>a. /\ outcome = "ok" \/ (outcome = "refused" /\ kind # "tcp")
      /\ kind # "accepted" /\ state = "Disconnected" /\ handle = "none"
  BY DEF Outcomes, PossibleFailures, Careful, Connect, CanConnect, SocketTypes
<1>b. /\ UNCHANGED <<expired, kbuf, out, crashed, writes, owed, asked>> /\ errorDetected' = FALSE
      /\ connTimer' = (connTimer \/ HasTimeout) /\ made' = TRUE /\ upcall' = "Initialized"
      /\ state' = IF outcome = "refused" THEN "Disconnected" ELSE "Connecting"
  BY <1>a DEF Connect
<1>c. outcome = "refused" => UNCHANGED <<handle, armed, wire, issued, closedBy>>
  BY DEF Connect
<1>d. outcome = "ok" =>
        /\ handle' = IF kind = "tcp" THEN "bev" ELSE "ev"
        /\ armed' = IF kind = "tcp" THEN {} ELSE {"read", "write"}
        /\ wire' = <<>> /\ issued' = IF kind = "tcp" THEN <<>> ELSE kbuf
        /\ closedBy' = "none"
  BY DEF Connect
<1>e. connTimer' \in BOOLEAN
  BY <1>b DEF SocketTypes
<1>f. <<>> \o kbuf = kbuf /\ <<>> \o <<>> = <<>> /\ <<>> \in Seq(Byte) /\ out = <<>>
  BY <1>a, ConcatEmptySeq DEF SocketTypes, Handles
<1>g. IsPrefix(<<>>, kbuf) /\ IsPrefix(<<>>, <<>>)
  <2>1. kbuf \in Seq(Byte)
    BY DEF SocketTypes
  <2>2. IsPrefix(<<>>, <<>> \o kbuf) /\ IsPrefix(<<>>, <<>> \o <<>>)
    BY <1>f, <2>1, PrefixOfConcat
  <2> QED BY <1>f, <2>2
<1>1. SocketTypes'
  BY <1>a, <1>b, <1>c, <1>d, <1>e, <1>f, <1>g DEF SocketTypes, States
<1>2. Handles'
  BY <1>a, <1>b, <1>c, <1>d, <1>e, <1>f, <1>g DEF Handles, SocketTypes, States
<1>3. NoSleepingData'
  BY <1>a, <1>b, <1>c, <1>d, <1>e, <1>f, <1>g DEF NoSleepingData, Handles, SocketTypes
<1>4. Stream'
  BY <1>a, <1>b, <1>c, <1>d, <1>e, <1>f, <1>g DEF Stream, WireIsPrefix
<1>5. Ended'
  BY <1>a, <1>b, <1>c, <1>d, <1>e, <1>f, <1>g DEF Ended, GracefulCloseSentAll
<1>6. Seen
  BY <1>a, <1>b, <1>c, <1>d, <1>e, <1>f, <1>g DEF Seen, Handles, SocketTypes, States
<1> QED BY <1>1, <1>2, <1>3, <1>4, <1>5, <1>6

(* A write goes to the end of the buffer that feeds the connection. *)
LEMMA Step_Write ==
  ASSUME SocketInv, ~ crashed, Careful, Write, UNCHANGED kind
  PROVE  SocketInv' /\ Seen
<1> USE KindAssumption, StatesAssumption, BoundAssumption DEF SocketInv
<1> DEFINE bytes == Bytes(writes + 1)
           added == kbuf \o bytes
<1>a. /\ state \in WriteStates[kind] /\ writes < MaxWrites /\ writes' = writes + 1 /\ upcall' = "none"
      /\ UNCHANGED <<kind, state, handle, errorDetected, expired, connTimer, made, crashed, wire, asked, closedBy>>
  BY DEF Write, flags
<1>b. writes + 1 \in 1 .. MaxWrites
  BY <1>a DEF SocketTypes
<1>c. /\ out' = IF handle = "bev" THEN out \o bytes ELSE out
      /\ armed' = IF handle = "ev" THEN armed \cup {"write"} ELSE armed
      /\ issued' = IF handle = "none" THEN issued ELSE issued \o bytes
      /\ owed' \subseteq owed \cup ToSet(bytes)
  BY DEF Write
<1>d. handle = "ev" => state = "Connected"
  BY <1>a DEF Careful, Handles, SocketTypes, States
<1>e. kbuf' \in {kbuf, added} /\ (handle = "ev" => kbuf' = added)
  BY <1>d DEF Write, kbuffer_add, Handles, SocketTypes, States
<1>f. /\ bytes \in Seq(Byte) /\ added \in Seq(Byte) /\ out \o bytes \in Seq(Byte) /\ ToSet(bytes) \subseteq Byte
      /\ issued \o bytes \in Seq(Byte) /\ added # <<>> /\ added[Len(added)][2] = WriteSize
  BY <1>b, WriteIsChunk DEF SocketTypes
<1>g. /\ (wire \o kbuf) \o bytes = wire \o added
      /\ (wire \o out) \o bytes = wire \o (out \o bytes)
  <2>1. wire \in Seq(Byte) /\ kbuf \in Seq(Byte) /\ out \in Seq(Byte) /\ bytes \in Seq(Byte)
    BY <1>f DEF SocketTypes
  <2> HIDE DEF bytes
  <2>2. (wire \o kbuf) \o bytes = wire \o (kbuf \o bytes)
    BY <2>1, ConcatAssociative
  <2>3. (wire \o out) \o bytes = wire \o (out \o bytes)
    BY <2>1, ConcatAssociative
  <2> QED BY <2>2, <2>3
<1>h. /\ handle = "ev" => issued' = wire \o kbuf'
      /\ handle = "bev" => issued' = wire \o out'
  BY <1>c, <1>e, <1>g DEF Stream
<1> HIDE DEF bytes, added
<1>i. writes + 1 \in 0 .. MaxWrites
  BY <1>b
<1>j. kbuf' \in Seq(Byte) /\ out' \in Seq(Byte) /\ issued' \in Seq(Byte) /\ owed' \subseteq Byte
  BY <1>c, <1>e, <1>f DEF SocketTypes
<1>1. SocketTypes'
  BY <1>a, <1>c, <1>i, <1>j DEF SocketTypes
<1>2. Handles'
  BY <1>a, <1>c DEF Handles
<1>3. NoSleepingData'
  BY <1>a, <1>c, <1>d DEF NoSleepingData
<1>4. Stream'
  <2>1. IsPrefix(wire, issued')
    <3>1. CASE handle = "none"
      BY <1>c, <3>1 DEF Stream, WireIsPrefix
    <3>2. CASE handle # "none"
      <4>1. wire \in Seq(Byte) /\ kbuf' \in Seq(Byte) /\ out' \in Seq(Byte)
        BY <1>j DEF SocketTypes
      <4>2. IsPrefix(wire, wire \o kbuf') /\ IsPrefix(wire, wire \o out')
        BY <4>1, PrefixOfConcat
      <4> QED BY <1>h, <3>2, <4>2 DEF SocketTypes
    <3> QED BY <3>1, <3>2
  <2>2. kbuf' # <<>> => kbuf'[Len(kbuf')][2] = WriteSize
    BY <1>e, <1>f DEF Stream
  <2> QED BY <1>a, <1>h, <2>1, <2>2 DEF Stream, WireIsPrefix
<1>5. Ended'
  BY <1>a, <1>c DEF Ended, GracefulCloseSentAll, Handles
<1>6. Seen
  BY <1>a DEF Seen
<1> QED BY <1>1, <1>2, <1>3, <1>4, <1>5, <1>6

(* closeAfterAllSent: at once if the output buffer is empty, else later. *)
LEMMA Step_CloseAfterAllSent ==
  ASSUME SocketInv, ~ crashed, CloseAfterAllSent, UNCHANGED kind
  PROVE  SocketInv' /\ Seen
<1> USE DEF SocketInv
<1>1. CASE handle = "bev" /\ out = <<>>
  <2>1. wire = issued
    BY <1>1, ConcatEmptySeq DEF Stream, SocketTypes
  <2>2. /\ UNCHANGED <<kbuf, writes, issued, wire, owed, made, crashed, errorDetected>>
        /\ handle' = "none" /\ armed' = {} /\ out' = <<>> /\ state' = "Disconnected"
        /\ upcall' = "Close" /\ asked' = FALSE /\ closedBy' = "expired"
        /\ expired' = TRUE /\ connTimer' = FALSE
    BY <1>1 DEF CloseAfterAllSent, FreeHandle, hist
  <2>3. /\ wire' \in Seq(Byte) /\ owed' \subseteq Byte /\ IsPrefix(wire', issued) /\ crashed' = FALSE
        /\ errorDetected' \in BOOLEAN /\ expired' \in BOOLEAN /\ connTimer' \in BOOLEAN
    BY <2>2 DEF SocketTypes, Stream, WireIsPrefix, Handles
  <2> QED BY <2>1, <2>2, <2>3, Closing
<1>2. CASE ~ (handle = "bev" /\ out = <<>>)
  <2>1. /\ UNCHANGED <<kind, kbuf, writes, wire, issued, owed, made, crashed, errorDetected>>
        /\ UNCHANGED <<state, handle, out, connTimer, closedBy>>
        /\ armed' = IF handle = "ev" THEN {"write"} ELSE {}
        /\ asked' = TRUE /\ upcall' = "none" /\ expired' = TRUE /\ handle # "none"
    BY <1>2 DEF CloseAfterAllSent, hist
  <2>2. SocketTypes'
    BY <2>1 DEF SocketTypes
  <2>3. Handles' /\ NoSleepingData'
    BY <2>1 DEF Handles, NoSleepingData, SocketTypes
  <2>4. Stream' /\ Ended' /\ Seen
    BY <2>1 DEF Stream, WireIsPrefix, Ended, GracefulCloseSentAll, Seen
  <2> QED BY <2>2, <2>3, <2>4
<1> QED BY <1>1, <1>2

(* The bufferevent is connected: no error has been detected on it. *)
LEMMA Step_Bev_Connected ==
  ASSUME SocketInv, ~ crashed, Bev_Connected, UNCHANGED kind
  PROVE  SocketInv' /\ Seen
<1> USE KindAssumption, StatesAssumption, BoundAssumption DEF SocketInv
<1>a. /\ UNCHANGED <<handle, errorDetected, expired, made, crashed, kbuf, out, writes, wire, issued, owed, asked, closedBy>>
      /\ ~ errorDetected /\ handle # "none" /\ state = "Connecting"
  BY DEF Bev_Connected, hist, Handles, WriteEvent
<1>b. /\ state' = "Connected" /\ connTimer' = FALSE /\ upcall' = "Connected"
      /\ armed' = IF handle = "ev" /\ kbuf # <<>> THEN (armed) \cup {"write"} ELSE armed
  BY <1>a DEF Bev_Connected, fire_onSocket_Connected
<1>1. SocketTypes'
  BY <1>a, <1>b DEF SocketTypes, States
<1>2. Handles'
  BY <1>a, <1>b DEF Handles, SocketTypes, States
<1>3. NoSleepingData'
  BY <1>a, <1>b DEF NoSleepingData, Handles, SocketTypes
<1>4. Stream'
  BY <1>a, <1>b DEF Stream, WireIsPrefix
<1>5. Ended'
  BY <1>a, <1>b DEF Ended, GracefulCloseSentAll
<1>6. Seen
  BY <1>a, <1>b DEF Seen, Handles, SocketTypes, States
<1> QED BY <1>1, <1>2, <1>3, <1>4, <1>5, <1>6

(* A connecting plain socket has become writable: ev_write_ stays added if there is data. *)
LEMMA Step_Write_Connected ==
  ASSUME SocketInv, ~ crashed, Write_Connected, UNCHANGED kind
  PROVE  SocketInv' /\ Seen
<1> USE KindAssumption, StatesAssumption, BoundAssumption DEF SocketInv
<1>a. /\ UNCHANGED <<handle, errorDetected, expired, made, crashed, kbuf, out, writes, wire, issued, owed, asked, closedBy>>
      /\ ~ errorDetected /\ handle # "none" /\ state = "Connecting"
  BY DEF Write_Connected, hist, Handles, WriteEvent
<1>b. /\ state' = "Connected" /\ connTimer' = FALSE /\ upcall' = "Connected"
      /\ armed' = IF handle = "ev" /\ kbuf # <<>> THEN (armed \ {"write"}) \cup {"write"} ELSE armed \ {"write"}
  BY <1>a DEF Write_Connected, fire_onSocket_Connected
<1>1. SocketTypes'
  BY <1>a, <1>b DEF SocketTypes, States
<1>2. Handles'
  BY <1>a, <1>b DEF Handles, SocketTypes, States
<1>3. NoSleepingData'
  BY <1>a, <1>b DEF NoSleepingData, Handles, SocketTypes
<1>4. Stream'
  BY <1>a, <1>b DEF Stream, WireIsPrefix
<1>5. Ended'
  BY <1>a, <1>b DEF Ended, GracefulCloseSentAll
<1>6. Seen
  BY <1>a, <1>b DEF Seen, Handles, SocketTypes, States
<1> QED BY <1>1, <1>2, <1>3, <1>4, <1>5, <1>6

(* Bytes leave from the front of a buffer: what is sent and what is left    *)
(* make up what the connection was given.                                   *)
LEMMA SentPart ==
  ASSUME NEW T, NEW w \in Seq(T), NEW a \in Seq(T), NEW b \in Seq(T)
  PROVE  w \o a \in Seq(T) /\ (w \o a) \o b = w \o (a \o b) /\ IsPrefix(w \o a, w \o (a \o b))
<1>1. w \o a \in Seq(T)
  BY ConcatProperties
<1>2. (w \o a) \o b = w \o (a \o b)
  BY ConcatAssociative
<1>3. IsPrefix(w \o a, (w \o a) \o b)
  BY <1>1, PrefixOfConcat
<1> QED BY <1>1, <1>2, <1>3

LEMMA SentFromFront ==
  ASSUME NEW T, NEW w \in Seq(T), NEW buf \in Seq(T), NEW n \in 1 .. Len(buf)
  PROVE  /\ w \o SubSeq(buf, 1, n) \in Seq(T) /\ SubSeq(buf, n + 1, Len(buf)) \in Seq(T)
         /\ (w \o SubSeq(buf, 1, n)) \o SubSeq(buf, n + 1, Len(buf)) = w \o buf
         /\ IsPrefix(w \o SubSeq(buf, 1, n), w \o buf)
<1>1. /\ SubSeq(buf, 1, n) \in Seq(T) /\ SubSeq(buf, n + 1, Len(buf)) \in Seq(T)
      /\ SubSeq(buf, 1, n) \o SubSeq(buf, n + 1, Len(buf)) = buf
  BY CutInTwo
<1>2. PICK a, b : a = SubSeq(buf, 1, n) /\ b = SubSeq(buf, n + 1, Len(buf))
  OBVIOUS
<1>3. a \in Seq(T) /\ b \in Seq(T) /\ a \o b = buf
  BY <1>1, <1>2
<1>4. w \o a \in Seq(T) /\ (w \o a) \o b = w \o (a \o b) /\ IsPrefix(w \o a, w \o (a \o b))
  BY <1>3, SentPart
<1>5. w \o (a \o b) = w \o buf
  BY <1>3
<1>6. w \o a \in Seq(T) /\ b \in Seq(T) /\ (w \o a) \o b = w \o buf /\ IsPrefix(w \o a, w \o buf)
  BY <1>3, <1>4, <1>5
<1> QED BY <1>2, <1>6

(* libevent sends from the output buffer, and closes an expired socket once *)
(* all is sent.                                                             *)
LEMMA Step_Bev_Flush ==
  ASSUME SocketInv, ~ crashed, NEW n, Bev_Flush(n), UNCHANGED kind
  PROVE  SocketInv' /\ Seen
<1> USE DEF SocketInv
<1>1. /\ handle = "bev" /\ state = "Connected" /\ n \in 1 .. Len(out)
      /\ wire' = wire \o SubSeq(out, 1, n) /\ owed' \subseteq owed
      /\ UNCHANGED <<kbuf, writes, issued>>
  BY DEF Bev_Flush, Sent
<1>2. out \in Seq(Byte) /\ wire \in Seq(Byte) /\ owed' \subseteq Byte /\ issued = wire \o out
  BY <1>1 DEF SocketTypes, Stream
<1>3. /\ wire' \in Seq(Byte) /\ SubSeq(out, n + 1, Len(out)) \in Seq(Byte)
      /\ issued = wire' \o SubSeq(out, n + 1, Len(out)) /\ IsPrefix(wire', issued)
  BY <1>1, <1>2, SentFromFront, ZenonT(40)
<1>4. CASE n = Len(out) /\ expired
  <2>1. SubSeq(out, n + 1, Len(out)) = <<>>
    BY <1>1, <1>2, <1>4, CutInTwo
  <2>2. wire' = issued
    BY <1>3, <2>1, ConcatEmptySeq
  <2>3. /\ UNCHANGED <<made, crashed, errorDetected, expired>>
        /\ handle' = "none" /\ armed' = {} /\ out' = <<>> /\ state' = "Disconnected"
        /\ upcall' = "Close" /\ asked' = FALSE /\ closedBy' = "expired" /\ connTimer' = FALSE
    BY <1>4 DEF Bev_Flush, fire_onSocket_Close, FreeHandle
  <2>4. /\ errorDetected' \in BOOLEAN /\ expired' \in BOOLEAN /\ connTimer' \in BOOLEAN /\ crashed' = FALSE
    BY <2>3 DEF SocketTypes, Handles
  <2> QED BY <1>1, <1>2, <1>3, <2>2, <2>3, <2>4, Closing
<1>5. CASE ~ (n = Len(out) /\ expired)
  <2>1. /\ UNCHANGED <<kind, state, handle, armed, errorDetected, expired, connTimer, made, crashed, asked, closedBy>>
        /\ out' = SubSeq(out, n + 1, Len(out)) /\ upcall' = "none"
    BY <1>5 DEF Bev_Flush, flags
  <2>2. SocketTypes'
    BY <1>1, <1>2, <1>3, <2>1 DEF SocketTypes
  <2>3. Handles' /\ NoSleepingData'
    BY <1>1, <2>1 DEF Handles, NoSleepingData
  <2>4. Stream' /\ Ended' /\ Seen
    BY <1>1, <1>3, <2>1 DEF Stream, WireIsPrefix, Ended, GracefulCloseSentAll, Seen
  <2> QED BY <2>2, <2>3, <2>4
<1> QED BY <1>4, <1>5

(* The kernel takes bytes of the first chunk. *)
LEMMA Step_Write_Sent ==
  ASSUME SocketInv, ~ crashed, NEW n, Write_Sent(n), UNCHANGED kind
  PROVE  SocketInv' /\ Seen
<1> USE DEF SocketInv
<1>1. kbuf # <<>> /\ kbuf \in Seq(Byte) /\ wire \in Seq(Byte)
  BY DEF Write_Sent, SocketTypes
<1>2. Head(kbuf)[2] \in 1 .. 2 /\ Head(kbuf) = kbuf[1] /\ Len(kbuf) \in Nat \ {0}
  <2>1. Head(kbuf) = kbuf[1] /\ kbuf[1] \in Byte /\ Len(kbuf) \in Nat \ {0}
    BY <1>1
  <2> QED BY <2>1 DEF Byte, WriteSize
<1> DEFINE m == 3 - Head(kbuf)[2]
<1>3. m \in 1 .. Len(kbuf)
  <2>1. Len(kbuf) = 1 => Head(kbuf)[2] = 2
    BY <1>1, <1>2 DEF Stream, WriteSize
  <2>2. CASE Len(kbuf) = 1
    BY <2>1, <2>2
  <2>3. CASE Len(kbuf) # 1
    <3>1. \A k \in Nat \ {0} : \A h \in 1 .. 2 : k # 1 => 3 - h \in 1 .. k
      OBVIOUS
    <3> QED BY <1>2, <2>3, <3>1, Zenon
  <2> QED BY <2>2, <2>3
<1>4. kbuffer_get_contiguous_data(kbuf) = SubSeq(kbuf, 1, m)
  BY <1>2 DEF kbuffer_get_contiguous_data, WriteSize
<1> HIDE DEF m
<1>5. /\ Len(SubSeq(kbuf, 1, m)) = m
      /\ \A i \in 1 .. m : SubSeq(SubSeq(kbuf, 1, m), 1, i) = SubSeq(kbuf, 1, i)
  <2>1. Len(SubSeq(kbuf, 1, m)) = m
    BY <1>1, <1>2, <1>3
  <2>2. ASSUME NEW i \in 1 .. m PROVE SubSeq(SubSeq(kbuf, 1, m), 1, i) = SubSeq(kbuf, 1, i)
    <3>1. /\ 1 \in 1 .. Len(kbuf) /\ 1 \in 1 .. (m - 1 + 1) /\ i \in 1 .. (m - 1 + 1)
          /\ 1 + 1 - 1 = 1 /\ 1 + i - 1 = i
      BY <1>2, <1>3
    <3>2. SubSeq(SubSeq(kbuf, 1, m), 1, i) = SubSeq(kbuf, 1 + 1 - 1, 1 + i - 1)
      BY <1>1, <1>3, <3>1, SubSeqOfSubSeq
    <3> QED BY <3>1, <3>2
  <2> QED BY <2>1, <2>2
<1>6. /\ n \in 1 .. m /\ handle = "ev" /\ state # "Connecting" /\ "write" \in armed
      /\ wire' = wire \o SubSeq(kbuf, 1, n) /\ owed' \subseteq owed
      /\ kbuf' = SubSeq(kbuf, n + 1, Len(kbuf)) /\ upcall' = "none"
      /\ UNCHANGED <<kind, state, handle, armed, errorDetected, expired, connTimer, made, crashed,
                     out, writes, asked, closedBy, issued>>
  BY <1>4, <1>5 DEF Write_Sent, WriteEvent, Sent, kbuffer_drain, flags
<1>7. n \in 1 .. Len(kbuf) /\ issued = wire \o kbuf /\ owed' \subseteq Byte
  BY <1>2, <1>3, <1>6, SMTT(30) DEF Stream, SocketTypes
<1>8. wire' \in Seq(Byte) /\ kbuf' \in Seq(Byte) /\ issued = wire' \o kbuf' /\ IsPrefix(wire', issued)
  BY <1>1, <1>6, <1>7, SentFromFront, ZenonT(40)
<1>9. kbuf' # <<>> => kbuf'[Len(kbuf')] = kbuf[Len(kbuf)]
  BY <1>1, <1>6, <1>7, CutInTwo
<1>10. SocketTypes'
  BY <1>6, <1>7, <1>8 DEF SocketTypes
<1>11. Handles' /\ NoSleepingData'
  BY <1>6 DEF Handles, NoSleepingData
<1>12. Stream' /\ Ended' /\ Seen
  BY <1>1, <1>6, <1>8, <1>9 DEF Stream, WireIsPrefix, Ended, GracefulCloseSentAll, Seen
<1> QED BY <1>10, <1>11, <1>12

(* Nothing is left: the connection has carried all that it was given. *)
LEMMA Step_Write_Empty ==
  ASSUME SocketInv, ~ crashed, Write_Empty, UNCHANGED kind
  PROVE  SocketInv' /\ Seen
<1> USE DEF SocketInv
<1>1. handle = "ev" /\ kbuf = <<>> /\ state # "Connecting" /\ UNCHANGED <<kbuf, writes, wire, issued, owed>>
  BY DEF Write_Empty, WriteEvent, hist
<1>2. CASE expired
  <2>1. wire = issued
    BY <1>1, ConcatEmptySeq DEF Stream, SocketTypes
  <2>2. /\ UNCHANGED <<made, crashed, errorDetected, expired>>
        /\ handle' = "none" /\ armed' = {} /\ out' = <<>> /\ state' = "Disconnected"
        /\ upcall' = "Close" /\ asked' = FALSE /\ closedBy' = "expired" /\ connTimer' = FALSE
    BY <1>2 DEF Write_Empty, fire_onSocket_Close, FreeHandle
  <2>3. /\ wire' \in Seq(Byte) /\ owed' \subseteq Byte /\ IsPrefix(wire', issued) /\ crashed' = FALSE
        /\ errorDetected' \in BOOLEAN /\ expired' \in BOOLEAN /\ connTimer' \in BOOLEAN
    BY <1>1, <2>2 DEF SocketTypes, Stream, WireIsPrefix, Handles
  <2> QED BY <1>1, <2>1, <2>2, <2>3, Closing
<1>3. CASE ~ expired
  <2>1. /\ armed' = armed \ {"write"} /\ upcall' = "none"
        /\ UNCHANGED <<kind, state, handle, errorDetected, expired, connTimer, made, crashed, out, asked, closedBy>>
    BY <1>3 DEF Write_Empty, flags
  <2>2. SocketTypes'
    BY <1>1, <2>1 DEF SocketTypes
  <2>3. Handles' /\ NoSleepingData'
    BY <1>1, <2>1 DEF Handles, NoSleepingData
  <2>4. Stream' /\ Ended' /\ Seen
    BY <1>1, <2>1 DEF Stream, WireIsPrefix, Ended, GracefulCloseSentAll, Seen
  <2> QED BY <2>2, <2>3, <2>4
<1> QED BY <1>2, <1>3

(* Reading changes nothing here. *)
LEMMA Step_Read_Data ==
  ASSUME SocketInv, ~ crashed, Read_Data, UNCHANGED kind
  PROVE  SocketInv' /\ Seen
<1> USE DEF SocketInv, Read_Data, flags, hist
<1>1. SocketTypes'
  BY DEF SocketTypes
<1>2. Handles' /\ NoSleepingData'
  BY DEF Handles, NoSleepingData
<1>3. Stream' /\ Ended' /\ Seen
  BY DEF Stream, WireIsPrefix, Ended, GracefulCloseSentAll, Seen
<1> QED BY <1>1, <1>2, <1>3

-----------------------------------------------------------------------------
(* Every step of the socket keeps its invariant, and there is room for the  *)
(* notification that it may cause.                                          *)
LEMMA SocketKeeps ==
  ASSUME ClientInv, Careful, SocketStep
  PROVE  SocketInv' /\ Seen /\ (upcall' \in {"Error", "Close"} => Room)
         /\ (upcall' = "Connected" => Polled)
<1> USE DEF ClientInv
<1>1. UNCHANGED kind
  BY DEF SocketStep, Handler
<1>2. (Polled => Room /\ ~ crashed) /\ (Room => ~ crashed)
  BY DeferredAssumption DEF Polled, Room
<1>3. ASSUME NEW outcome \in Outcomes, Connect(outcome)
      PROVE  SocketInv' /\ Seen /\ upcall' \notin {"Error", "Close", "Connected"}
  BY <1>1, <1>3, Step_Connect DEF Connect
<1>4. ASSUME Room, Application PROVE SocketInv' /\ Seen /\ upcall' # "Connected"
  <2>1. SocketInv' /\ Seen
    BY <1>1, <1>2, <1>4, Step_Write, Step_Close, Step_CloseAfterAllSent DEF Application
  <2>2. upcall' # "Connected"
    BY <1>4 DEF Application, Write, Close, fire_onSocket_Close, CloseAfterAllSent
  <2> QED BY <2>1, <2>2
<1>5. ASSUME ~ crashed, Failure \/ ReadInvalidPacket \/ Timer_Timeout \/ Established \/ Read_Data
      PROVE  SocketInv' /\ Seen
  BY <1>1, <1>5, Step_Bev_Error, Step_Read_Eof, Step_Read_Error, Step_Write_Error, Step_ReadInvalidPacket,
     Step_Timer_Timeout, Step_Bev_Connected, Step_Write_Connected, Step_Read_Data DEF Failure, Established
<1>6. ASSUME ~ crashed, Delivery PROVE SocketInv' /\ Seen
  BY <1>1, <1>6, Step_Bev_Flush, Step_Write_Sent, Step_Write_Empty DEF Delivery
<1> QED BY <1>2, <1>3, <1>4, <1>5, <1>6 DEF SocketStep

(* The handler tells the application, at once or later. *)
LEMMA Step_Socket ==
  ASSUME ClientInv, Careful, SocketStep
  PROVE  ClientInv'
<1> USE DEF ClientInv
<1>1. /\ SocketInv' /\ Seen /\ (upcall' \in {"Error", "Close"} => Room)
      /\ (upcall' = "Connected" => Polled) /\ Handler
  BY SocketKeeps DEF SocketStep
<1>2. CASE upcall' \in {"none", "Read", "Initialized"}
  <2>1. UNCHANGED <<reconnectable, reconnectTimer, deferred, appUp>> /\ initFlag' \in BOOLEAN
    BY <1>1, <1>2 DEF Handler, onSocket_Initialized, ControllerTypes
  <2>2. state' = "Connected" <=> state = "Connected"
    BY <1>1, <1>2 DEF Seen
  <2> QED BY <1>1, <2>1, <2>2 DEF ControllerTypes, Informed, AppInformed
<1>3. CASE upcall' = "Connected"
  <2>1. UNCHANGED <<reconnectable, reconnectTimer, deferred, initFlag>> /\ appUp' = TRUE
    BY <1>1, <1>3 DEF Handler, onSocket_Connected
  <2>2. state' = "Connected" /\ deferred = <<>>
    BY <1>1, <1>3 DEF Seen, Polled
  <2> QED BY <1>1, <2>1, <2>2 DEF ControllerTypes, Informed, AppInformed
<1>4. CASE upcall' \in {"Error", "Close"}
  <2>1. /\ UNCHANGED <<reconnectable, appUp, initFlag>> /\ deferred' = Append(deferred, upcall')
        /\ reconnectTimer' = (reconnectTimer \/ reconnectable)
    BY <1>1, <1>4 DEF Handler, onSocket_ErrorOrClose
  <2>2. deferred' \in Seq({"Error", "Close"}) /\ Len(deferred') = Len(deferred) + 1 /\ deferred' # <<>>
    BY <1>4, <2>1 DEF ControllerTypes
  <2>3. Len(deferred') <= MaxDeferred
    BY <1>1, <1>4, <2>2, DeferredAssumption DEF Room, ControllerTypes
  <2>4. state' # "Connected"
    BY <1>1, <1>4 DEF Seen
  <2>5. reconnectTimer' \in BOOLEAN
    BY <2>1 DEF ControllerTypes
  <2> QED BY <1>1, <2>1, <2>2, <2>3, <2>4, <2>5 DEF ControllerTypes, Informed, AppInformed
<1> QED BY <1>1, <1>2, <1>3, <1>4 DEF Seen

(* Reconnection is a connect(). *)
LEMMA Step_ReconnectTick ==
  ASSUME ClientInv, Careful, ReconnectTick
  PROVE  ClientInv'
<1> USE DEF ClientInv
<1>1. ASSUME NEW outcome \in Outcomes, Connect(outcome), reconnectTimer' = (outcome # "ok"),
             initFlag' = (initFlag \/ upcall' = "Initialized"),
             UNCHANGED <<kind, reconnectable, deferred, appUp>>
      PROVE  ClientInv'
  <2>1. SocketInv' /\ Seen /\ upcall' \in {"none", "Initialized"}
    BY <1>1, Step_Connect DEF Connect
  <2>2. state' = "Connected" <=> state = "Connected"
    BY <2>1 DEF Seen
  <2>3. ControllerTypes'
    BY <1>1 DEF ControllerTypes
  <2> QED BY <1>1, <2>1, <2>2, <2>3 DEF Informed, AppInformed
<1>2. CASE UNCHANGED vars
  <2>1. SocketInv'
    BY <1>2 DEF vars, svars, SocketInv, SocketTypes, Handles, NoSleepingData, Stream, WireIsPrefix, Ended,
                GracefulCloseSentAll
  <2> QED BY <1>2, <2>1 DEF vars, svars, cvars, ControllerTypes, Informed, AppInformed
<1> QED BY <1>1, <1>2 DEF ReconnectTick

(* The application switches reconnection, or hears a notification. *)
LEMMA Step_Application ==
  ASSUME ClientInv, FireDeferred \/ \E enable \in MayReconnect : SetReconnectable(enable)
  PROVE  ClientInv'
<1> USE DEF ClientInv
<1>1. upcall' = "none" /\ UNCHANGED <<kind, state, handle, armed, errorDetected, expired, connTimer, made, crashed,
                                     kbuf, out, writes, wire, issued, owed, asked, closedBy>>
  BY DEF FireDeferred, SetReconnectable, flags, hist
<1>2. SocketInv'
  BY <1>1 DEF SocketInv, SocketTypes, Handles, NoSleepingData, Stream, WireIsPrefix, Ended, GracefulCloseSentAll
<1>3. CASE FireDeferred
  <2>1. deferred # <<>> /\ deferred' = Tail(deferred) /\ appUp' = FALSE
        /\ UNCHANGED <<reconnectable, reconnectTimer, initFlag>>
    BY <1>3 DEF FireDeferred
  <2>2. deferred' \in Seq({"Error", "Close"}) /\ Len(deferred') <= MaxDeferred
    BY <2>1, DeferredAssumption DEF ControllerTypes
  <2> QED BY <1>1, <1>2, <2>1, <2>2 DEF ControllerTypes, Informed, AppInformed
<1>4. ASSUME NEW enable \in MayReconnect, SetReconnectable(enable) PROVE ClientInv'
  <2>1. UNCHANGED <<deferred, appUp, initFlag>> /\ reconnectable' \in BOOLEAN /\ reconnectTimer' \in BOOLEAN
    BY <1>4, ReconnectAssumption DEF SetReconnectable, ControllerTypes
  <2> QED BY <1>1, <1>2, <2>1 DEF ControllerTypes, Informed, AppInformed
<1> QED BY <1>3, <1>4

-----------------------------------------------------------------------------
(* The initial state of every kind of socket. *)
LEMMA InitClientInv == Init => ClientInv
<1> SUFFICES ASSUME Init PROVE ClientInv
  OBVIOUS
<1> USE KindAssumption, BoundAssumption DEF Init, SocketInit
<1>1. <<>> \in Seq(Byte) /\ <<>> \o <<>> = <<>> /\ IsPrefix(<<>>, <<>>)
  <2>1. <<>> \in Seq(Byte)
    OBVIOUS
  <2>2. <<>> \o <<>> = <<>>
    BY <2>1, ConcatEmptySeq
  <2> QED BY <2>1, <2>2, PrefixOfConcat
<1>2. SocketTypes
  <2>1. kind \in Kinds /\ state \in States /\ handle \in {"none", "bev", "ev"} /\ armed \subseteq {"read", "write"}
    BY DEF States
  <2>2. /\ errorDetected \in BOOLEAN /\ expired \in BOOLEAN /\ connTimer \in BOOLEAN
        /\ made \in BOOLEAN /\ crashed \in BOOLEAN /\ asked \in BOOLEAN
    OBVIOUS
  <2>3. writes \in 0 .. MaxWrites
    OBVIOUS
  <2> QED BY <1>1, <2>1, <2>2, <2>3 DEF SocketTypes
<1>3. Handles /\ NoSleepingData
  BY DEF Handles, NoSleepingData
<1>4. Stream /\ Ended
  BY <1>1 DEF Stream, WireIsPrefix, Ended, GracefulCloseSentAll
<1>5. ControllerTypes
  <2>1. reconnectable \in BOOLEAN /\ reconnectTimer \in BOOLEAN /\ appUp \in BOOLEAN /\ initFlag \in BOOLEAN
    BY ReconnectAssumption
  <2>2. deferred \in Seq({"Error", "Close"}) /\ Len(deferred) = 0
    OBVIOUS
  <2> QED BY <2>1, <2>2, DeferredAssumption DEF ControllerTypes
<1>6. Informed
  BY DEF Informed, AppInformed
<1> QED BY <1>2, <1>3, <1>4, <1>5, <1>6 DEF ClientInv, SocketInv

(* Every step keeps the invariant. *)
LEMMA NextClientInv ==
  ASSUME Careful
  PROVE  ClientInv /\ [Next]_vars => ClientInv'
<1> SUFFICES ASSUME ClientInv, [Next]_vars PROVE ClientInv'
  OBVIOUS
<1>1. CASE UNCHANGED vars
  <2> USE <1>1 DEF vars, svars, cvars, ClientInv, SocketInv
  <2>1. SocketTypes' /\ ControllerTypes'
    BY DEF SocketTypes, ControllerTypes
  <2>2. Handles' /\ NoSleepingData' /\ Stream'
    BY DEF Handles, NoSleepingData, Stream, WireIsPrefix
  <2>3. Ended' /\ Informed'
    BY DEF Ended, GracefulCloseSentAll, Informed, AppInformed
  <2> QED BY <2>1, <2>2, <2>3
<1> QED BY <1>1, Step_Socket, Step_ReconnectTick, Step_Application DEF Next, Terminated

(* The inductive invariant holds in every state. *)
LEMMA AlwaysClientInv ==
  ASSUME Careful
  PROVE  Spec => []ClientInv
<1> QED BY InitClientInv, NextClientInv, PTL DEF Spec

-----------------------------------------------------------------------------
(* state_, the handles and the connection timer agree, for every kind of    *)
(* socket and any number of writes, failures and reconnections, and the     *)
(* error path meets a missing bufferevent only on a connecting unix socket. *)
THEOREM HandlesAlwaysMatchState ==
  ASSUME Careful
  PROVE  Spec => []HandlesMatchState
<1>1. ClientInv => TypeOK
  BY DEF ClientInv, SocketInv, SocketTypes, ControllerTypes, TypeOK
<1>2. ClientInv => HandlesMatchState
  BY <1>1 DEF ClientInv, SocketInv, SocketTypes, Handles, HandlesMatchState
<1> QED BY <1>2, AlwaysClientInv, PTL

(* ev_write_ is added whenever a plain-event socket waits or has data.      *)
THEOREM DataNeverSleeps ==
  ASSUME Careful
  PROVE  Spec => []NoSleepingData
<1>1. ClientInv => NoSleepingData
  BY DEF ClientInv, SocketInv
<1> QED BY <1>1, AlwaysClientInv, PTL

(* What a connection carries is a prefix of what it was given, whatever the *)
(* partial sends, errors and reconnections were.                            *)
THEOREM WireAlwaysPrefix ==
  ASSUME Careful
  PROVE  Spec => []WireIsPrefix
<1>1. ClientInv => WireIsPrefix
  BY DEF ClientInv, SocketInv, Stream
<1> QED BY <1>1, AlwaysClientInv, PTL

(* closeAfterAllSent closes only when all has been sent. *)
THEOREM GracefulClosesAreComplete ==
  ASSUME Careful
  PROVE  Spec => []GracefulCloseSentAll
<1>1. ClientInv => GracefulCloseSentAll
  BY DEF ClientInv, SocketInv, Ended
<1> QED BY <1>1, AlwaysClientInv, PTL

(* An application that waits for no notification knows the socket's state.  *)
THEOREM AppAlwaysInformed ==
  ASSUME Careful
  PROVE  Spec => []AppInformed
<1>1. ClientInv => AppInformed
  BY DEF ClientInv, Informed
<1> QED BY <1>1, AlwaysClientInv, PTL
=============================================================================
