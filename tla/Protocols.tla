----------------------------- MODULE Protocols -----------------------------
(***************************************************************************)
(* The protocol objects: FrameProtocol, LineProtocol, StringListProtocol   *)
(* and JSONProtocol on top of BaseProtocol, BufferedTransport and          *)
(* VirtualTransportHelper.  A protocol object is a record; processRead     *)
(* maps the object to the object that it leaves behind.                    *)
(*                                                                         *)
(* Bytes are the digits 0 .. 7 and an Int32 has two of them instead of     *)
(* four, so that a word can be torn.                                       *)
(***************************************************************************)
EXTENDS Integers, Sequences, SequencesExt

CONSTANTS LineBuffer,  \* BUFFER_SIZE of LineProtocol.cpp
          StreamSize   \* JSON_STREAM_SIZE of JSONProtocol.cpp

ASSUME WindowsAssumption == LineBuffer \in Nat \ {0} /\ StreamSize \in Nat \ {0}

Byte == 0 .. 7
WordSize == 2
MaxWord == 63       \* the largest Int32
HeaderWords == 4    \* command, transaction id, checksum, length
LF == 7             \* '\n', and the closing brace of a JSON document
CR == 6             \* '\r', and its opening brace
Open == CR
Close == LF

(* writeInt32: network byte order. *)
Int32(v) == <<v \div 8, v % 8>>
(* writeString32: the length and the bytes. *)
String32(s) == Int32(Len(s)) \o s
(* What n turns of a loop make of x; a turn leaves alone what is finished.  *)
Repeat(Turn(_), x, n) ==
  LET after[k \in 0 .. n] == IF k = 0 THEN x ELSE Turn(after[k - 1]) IN after[n]

(* writeString32List: the number of strings and the strings. *)
String32List(list) == Int32(Len(list)) \o FlattenSeq([i \in DOMAIN list |-> String32(list[i])])

-----------------------------------------------------------------------------
(* A protocol object as its factory makes it.  "buf" and "pos" are the      *)
(* buffer_ and readPos_ of readBuffer_; "words" the header words read so    *)
(* far, or the list size; "items" the strings of a list; "text" the line_   *)
(* of a LineProtocol or the buffer of a JSON stream; "rest" is              *)
(* remainReadBufferSize_, remainStreamPos_ or listSize_; "threw" says that  *)
(* an exception has left processRead.                                       *)
NewProtocol == [buf |-> <<>>, pos |-> 0, words |-> <<>>, items |-> <<>>,
                text |-> <<>>, rest |-> 0, payloadPos |-> 0,
                done |-> FALSE, threw |-> FALSE]

AddToReadingBuffer(p, data) == [p EXCEPT !.buf = @ \o data]
ResetBuffer(p) == [p EXCEPT !.buf = <<>>, !.pos = 0]

RemainingSize(p) == Len(p.buf) - p.pos
(* The size that read and peek clip a request to. *)
Clip(p, size) == IF RemainingSize(p) < size THEN RemainingSize(p) ELSE size
Peek(p, size) == SubSeq(p.buf, p.pos + 1, p.pos + Clip(p, size))
Fastforward(p, size) == [p EXCEPT !.pos = @ + size]

(* readInt32 on what read returned: the value, or nothing for a short read, *)
(* whose bytes are consumed all the same.                                   *)
AfterRead(p, size) == Fastforward(p, Clip(p, size))
HasInt32(p) == Len(Peek(p, WordSize)) = WordSize
ReadInt32(p) == LET b == Peek(p, WordSize) IN 8 * b[1] + b[2]

-----------------------------------------------------------------------------
(* FrameProtocol *)

(* The cases Init to Length fall through; a ProtocolException leaves the    *)
(* words read so far and the position behind the torn word, where the other *)
(* cases would find nothing.                                                *)
ReadWord(p) ==
  IF Len(p.words) = HeaderWords THEN p
  ELSE IF ~ HasInt32(p) THEN AfterRead(p, WordSize)
  ELSE [AfterRead(p, WordSize) EXCEPT !.words = Append(@, ReadInt32(p))]
ReadHeader(p) == ReadWord(ReadWord(ReadWord(ReadWord(p))))

FrameLength(p) == p.words[HeaderWords]

FrameProcessRead(p) ==
  LET q == ReadHeader(p) IN
  IF Len(q.words) < HeaderWords \/ FrameLength(q) > Len(q.buf) THEN q
  ELSE [q EXCEPT !.done = TRUE, !.payloadPos = q.pos]

(* payloadPtr and payloadSize. *)
FramePayload(p) == SubSeq(p.buf, p.payloadPos + 1, FrameLength(p))

(* What the rest of the frame still hides from currentPtr: the handler may  *)
(* have read from the payload.  The mutation forgets that.                  *)
FrameUnread_FromStart(p) == FrameLength(p) - p.payloadPos
FrameUnread(p) == FrameLength(p) - p.payloadPos - (p.pos - p.payloadPos)
FrameRemaining(p) == SubSeq(p.buf, p.pos + FrameUnread(p) + 1, Len(p.buf))

(* FrameHeader::serialize and processSerialize. *)
Frame(cmd, payload) ==
  Int32(cmd) \o Int32(0) \o Int32(1)
    \o Int32(HeaderWords * WordSize + Len(payload)) \o payload

-----------------------------------------------------------------------------
(* StringListProtocol, read from the payload buffer of a complete frame:    *)
(* its transport is the frame's readBuffer_, its own state is the list.     *)
(* A turn of the loop, also after an exception: it finds nothing then.      *)
ReadString(p) ==
  LET q == AfterRead(p, WordSize)
      n == ReadInt32(p)
  IN IF Len(p.items) >= p.rest THEN p
     ELSE IF ~ HasInt32(p) THEN q
     ELSE IF Clip(q, n) < n THEN AfterRead(q, n)
     ELSE [AfterRead(q, n) EXCEPT !.items = Append(@, Peek(q, n))]
ReadStrings(p) == Repeat(ReadString, p, p.rest)

ListProcessRead(p) ==
  IF ~ HasInt32(p) THEN AfterRead(p, WordSize)
  ELSE ReadStrings([AfterRead(p, WordSize) EXCEPT !.rest = ReadInt32(p)])

-----------------------------------------------------------------------------
(* LineProtocol *)

FirstLF(data) == SelectInSeq(data, LAMBDA b : b = LF)    \* 0: there is none

(* The delimiter is "\r\n", "\n\r" or "\n".  The byte in front of a buffer  *)
(* that starts with '\n' is undefined; "before" is what is found there.  If *)
(* that is '\r' the length to append is -1 and std::string throws.          *)
DelimBefore(data, i, before) == (IF i = 1 THEN before ELSE data[i - 1]) = CR
DelimAfter(data, i, before) ==
  ~ DelimBefore(data, i, before) /\ i < Len(data) /\ data[i + 1] = CR

LineProcessRead(p, before) ==
  LET data == Peek(p, LineBuffer)
      q    == AfterRead(p, LineBuffer)
      i    == FirstLF(data)
      tail == IF DelimAfter(data, i, before) THEN 1 ELSE 0
      two  == DelimBefore(data, i, before) \/ DelimAfter(data, i, before)
  IN IF i = 0 THEN [q EXCEPT !.text = @ \o data]
     ELSE IF i = 1 /\ two /\ tail = 0 THEN [q EXCEPT !.threw = TRUE]
     ELSE [q EXCEPT !.text = @ \o SubSeq(data, 1, i - 1 - (IF two THEN 1 ELSE 0)),
                    !.rest = Len(data) - i - tail,
                    !.done = TRUE]

(* remainingBufferPtr and remainingBufferSize: "rest" bytes that end at     *)
(* currentPtr.                                                              *)
LineRemaining(p) == SubSeq(p.buf, p.pos - p.rest + 1, p.pos)

(* processSerialize. *)
Line(text) == text \o <<CR, LF>>

-----------------------------------------------------------------------------
(* JSONProtocol *)

(* JSONStream::parse: the first document that is complete in what has been  *)
(* pushed. The brackets that FindNextRelevant counts and the quotes that it *)
(* skips are abstracted: PacketsAssumption admits the documents that end    *)
(* with their first closing brace.                                          *)
JsonStart(data) == SelectInSeq(data, LAMBDA b : b = Open)
JsonEnd(data) == LET start == JsonStart(data)
                     ends  == {i \in DOMAIN data : i > start /\ data[i] = Close}
                 IN IF start = 0 \/ ends = {} THEN 0 ELSE Min(ends)

(* A turn of the loop: one window. *)
JsonWindow(p) ==
  LET data  == Peek(p, StreamSize)
      all   == p.text \o data
      end   == JsonEnd(all)
      after == Len(all) - end
  IN IF p.done \/ data = <<>> THEN p
     ELSE IF end = 0 THEN [AfterRead(p, StreamSize) EXCEPT !.text = all]
     ELSE [Fastforward(p, Len(data) - after) EXCEPT
             !.text = SubSeq(all, JsonStart(all), end), !.rest = after, !.done = TRUE]
JsonProcessRead(p) == Repeat(JsonWindow, p, Len(p.buf))

(* remainingBufferPtr and remainingBufferSize. *)
JsonRemaining(p) == SubSeq(p.buf, p.pos - p.rest + 1, p.pos)

=============================================================================
