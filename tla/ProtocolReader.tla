--------------------------- MODULE ProtocolReader ---------------------------
(***************************************************************************)
(* From the writing controller (FrameController, LineController,           *)
(* JSONController) over a stream or datagrams to the read handlers of      *)
(* ClientController.cpp, which find the packets again with the protocol    *)
(* objects of Protocols.                                                   *)
(***************************************************************************)
EXTENDS Protocols, FiniteSets

CONSTANTS IoBuf,      \* IOBUF_LEN: the most that one read takes
          MaxPackets, \* bound: packets written
          Channels,   \* the pairs <<kind, transport>> to choose from
          Frames,     \* the packets of each kind: frames <<command, payload>>,
          Lists,      \*   lists of strings,
          Lines,      \*   lines,
          Documents,  \*   JSON documents
          AnyCut      \* a read may end anywhere, see SafeCut

ASSUME ReaderAssumption ==
  /\ IoBuf \in Nat \ {0} /\ MaxPackets \in Nat /\ AnyCut \in BOOLEAN
  /\ Channels \subseteq {"frame", "list", "line", "json"} \X {"stream", "datagram"}

(* A word holds every command, length and number of strings; a line has no  *)
(* delimiter inside, and a document ends with its first closing brace.      *)
ASSUME PacketsAssumption ==
  /\ \A f \in Frames :
       /\ f \in (0 .. MaxWord) \X Seq(Byte)
       /\ HeaderWords * WordSize + Len(f[2]) <= MaxWord
  /\ \A l \in Lists :
       /\ l \in Seq(Seq(Byte)) /\ Len(l) <= MaxWord
       /\ HeaderWords * WordSize + Len(String32List(l)) <= MaxWord
       /\ \A i \in DOMAIN l : Len(l[i]) <= MaxWord
  /\ \A l \in Lines : l \in Seq(Byte \ {CR, LF})
  /\ \A d \in Documents :
       /\ d \in Seq(Byte) /\ Len(d) > 1 /\ d[1] = Open /\ d[Len(d)] = Close
       /\ \A i \in 2 .. Len(d) - 1 : d[i] # Close

VARIABLES
  kind,      \* what the two controllers speak; "list": lists inside of frames
  transport, \* what carries it
  due,       \* history: the packets written, without the datagrams lost
  wire,      \* the bytes under way, or the datagrams
  protocol,  \* protocol_, or the object made in its place
  received,  \* history: what the handler has been given
  broken     \* an exception has left the handler, or its loop never ends

vars == <<kind, transport, due, wire, protocol, received, broken>>

Packets == CASE kind = "frame" -> Frames
             [] kind = "list"  -> Lists
             [] kind = "line"  -> Lines
             [] kind = "json"  -> Documents

(* writeFrame, writeLine and writeJSON: processSerialize and processWrite.  *)
Encode(pkt) == CASE kind = "frame" -> Frame(pkt[1], pkt[2])
                 [] kind = "list"  -> Frame(5, String32List(pkt))
                 [] kind = "line"  -> Line(pkt)
                 [] kind = "json"  -> pkt

Init ==
  /\ \E c \in Channels : kind = c[1] /\ transport = c[2]
  /\ due = <<>> /\ wire = <<>> /\ received = <<>>
  /\ protocol = NewProtocol
  /\ broken = FALSE

-----------------------------------------------------------------------------
(* processReadFromReadingBuffer *)
ProcessRead(p, before) == CASE kind \in {"frame", "list"} -> FrameProcessRead(p)
                            [] kind = "line" -> LineProcessRead(p, before)
                            [] kind = "json" -> JsonProcessRead(p)

(* onReceivedProtocol: what the handler sees.  For a list it decodes the    *)
(* payload with a StringListProtocol on top of the frame, which moves the   *)
(* read position of the frame's buffer.                                     *)
Handled(p) == IF kind = "list" THEN ListProcessRead(p) ELSE p
Delivered(p) == CASE kind = "frame" -> <<p.words[1], FramePayload(p)>>
                  [] kind = "list"  -> p.items
                  [] OTHER -> p.text

(* remainingBufferPtr and remainingBufferSize. *)
Remaining(p) == CASE kind \in {"frame", "list"} -> FrameRemaining(p)
                  [] kind = "line" -> LineRemaining(p)
                  [] kind = "json" -> JsonRemaining(p)

(* The while loop of onSocket_ReadEvent: the protocol object, what has been *)
(* delivered, whether the loop goes on with the same bytes for ever or an   *)
(* exception has left it, and whether it has ended.  A turn that goes on    *)
(* leaves fewer bytes.  The mutation drops what follows the first packet.   *)
Begin(p, got) == [protocol |-> p, got |-> got, broken |-> FALSE, ended |-> FALSE]

ReadTurn(r, before) ==
  LET q    == ProcessRead(r.protocol, before)
      h    == Handled(q)
      out  == [r EXCEPT !.protocol = h, !.got = Append(@, Delivered(h))]
      rest == Remaining(h)
  IN IF r.ended THEN r
     ELSE IF q.threw \/ ~ q.done THEN [r EXCEPT !.protocol = q, !.broken = q.threw, !.ended = TRUE]
     ELSE IF rest = <<>> THEN [out EXCEPT !.ended = TRUE]
     ELSE IF rest = r.protocol.buf THEN [out EXCEPT !.broken = TRUE, !.ended = TRUE]
     ELSE [out EXCEPT !.protocol = AddToReadingBuffer(NewProtocol, rest)]

ReadLoop_Once(p, got, before) == ReadTurn(Begin(p, got), before)
ReadLoop(p, got, before) ==
  LET Turn(r) == ReadTurn(r, before) IN Repeat(Turn, Begin(p, got), Len(p.buf))

Current == IF protocol.done THEN NewProtocol ELSE protocol

-----------------------------------------------------------------------------
(* The writing side: one packet. *)
Write(pkt) ==
  /\ Len(due) < MaxPackets
  /\ due' = Append(due, pkt)
  /\ wire' = IF transport = "stream" THEN wire \o Encode(pkt) ELSE Append(wire, Encode(pkt))
  /\ UNCHANGED <<kind, transport, protocol, received, broken>>

(* Where the passing run lets a read of n bytes end: not inside a word of a *)
(* frame's header, not between '\r' and '\n' nor beyond LineBuffer, and not *)
(* behind the end of a JSON document.                                       *)
Written == FlattenSeq([i \in DOMAIN due |-> Encode(due[i])])
Starts == {Len(FlattenSeq([i \in 1 .. k |-> Encode(due[i])])) : k \in 0 .. Len(due) - 1}
SafeCut(n) ==
  LET at == Len(Written) - Len(wire) IN
  CASE kind \in {"frame", "list"} ->
         \A s \in Starts : at + n \in s .. s + HeaderWords * WordSize => (at + n - s) % WordSize = 0
    [] kind = "line" -> wire[n] # CR /\ n <= LineBuffer
    [] kind = "json" -> \A i \in 1 .. n - 1 : wire[i] # Close

(* onSocket_ReadEvent: a read of n bytes and the loop. *)
ReadEvent(n, before) ==
  /\ transport = "stream" /\ ~ broken
  /\ n <= Len(wire) /\ (AnyCut \/ SafeCut(n))
  /\ LET r == ReadLoop(AddToReadingBuffer(Current, SubSeq(wire, 1, n)), received, before)
     IN /\ protocol' = r.protocol
        /\ received' = r.got
        /\ broken' = r.broken
  /\ wire' = SubSeq(wire, n + 1, Len(wire))
  /\ UNCHANGED <<kind, transport, due>>

(* onSocket_ReadFrom: one datagram, processed once. *)
ReadFrom(before) ==
  /\ transport = "datagram" /\ ~ broken /\ wire # <<>>
  /\ LET q == ProcessRead(AddToReadingBuffer(ResetBuffer(Current), Head(wire)), before)
         h == Handled(q)
     IN /\ protocol' = IF q.done THEN h ELSE q
        /\ received' = IF q.done THEN Append(received, Delivered(h)) ELSE received
        /\ broken' = q.threw
  /\ wire' = Tail(wire)
  /\ UNCHANGED <<kind, transport, due>>

(* External: a datagram is lost. *)
Lose(i) ==
  /\ transport = "datagram" /\ i \in DOMAIN wire
  /\ wire' = RemoveAt(wire, i)
  /\ due' = RemoveAt(due, Len(due) - Len(wire) + i)
  /\ UNCHANGED <<kind, transport, protocol, received, broken>>

Next ==
  \/ \E pkt \in Packets : Write(pkt)
  \/ \E n \in 1 .. IoBuf, before \in {0, CR} : ReadEvent(n, before)
  \/ \E before \in {0, CR} : ReadFrom(before)
  \/ \E i \in 1 .. MaxPackets : Lose(i)

Spec == Init /\ [][Next]_vars

-----------------------------------------------------------------------------
(* The type invariant; readPos_ stays inside of the buffer. *)
TypeOK ==
  /\ <<kind, transport>> \in Channels
  /\ due \in Seq(Packets) /\ Len(due) <= MaxPackets
  /\ wire \in (IF transport = "stream" THEN Seq(Byte) ELSE Seq(Seq(Byte)))
  /\ protocol.buf \in Seq(Byte) /\ protocol.pos \in 0 .. Len(protocol.buf)
  /\ protocol.done \in BOOLEAN /\ broken \in BOOLEAN

(* onReceivedProtocol is called with the packets that were written, whole,  *)
(* in order and each once, however the reads cut the stream; nothing else   *)
(* comes out of the read loop, and it ends.                                 *)
PacketsIntact == TypeOK /\ IsPrefix(received, due) /\ ~ broken

(* When every byte has been read every packet has been delivered: nothing   *)
(* waits in a protocol object for a read event that will not come, and no   *)
(* bytes behind a packet are dropped with the object that found it.         *)
NothingHeldBack == wire = <<>> => received = due

=============================================================================
