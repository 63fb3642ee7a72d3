----------------------------- MODULE MCProtocols -----------------------------
(* Instances of ProtocolReader for TLC. *)
EXTENDS ProtocolReader

AllChannels == {"frame", "list", "line", "json"} \X {"stream", "datagram"}
FrameStream == {<<"frame", "stream">>}
LineStream == {<<"line", "stream">>}
JsonStream == {<<"json", "stream">>}

(* An empty packet and longer ones of each kind. *)
SomeFrames == {<<3, <<>>>>, <<2, <<1, 7>>>>}
SomeLists == {<<>>, <<<<1>>, <<>>, <<2, 7>>>>}
SomeLines == {<<>>, <<1>>, <<2, 3, 4>>}
SomeDocuments == {<<Open, Close>>, <<Open, 1, Close>>, <<Open, 2, 3, 4, Close>>}
=============================================================================
