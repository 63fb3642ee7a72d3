----------------------------- MODULE MCUdpSocket -----------------------------
(* Instances of UdpSocket for TLC. *)
EXTENDS UdpSocket
=============================================================================
