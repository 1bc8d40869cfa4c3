------------------------------ MODULE IcmpTypes ------------------------------
(***************************************************************************)
(* Constants of ICMPv4 and of PingEcho::Ping (src/include/UProtocols.hh,   *)
(* src/kernel/UProtocols.cc) shared by the byte-level codec (FrameCodec,   *)
(* EchoCodec) and the state machine (Icmp).                                *)
(***************************************************************************)

\* ICMPv4::Types used by the handlers.
TEchoReply == 0
TEchoRequest == 8

\* The burst of PingEcho::Ping: "for (int i = 0; i < 5; ++i)".
PingBurst == 5

=============================================================================
