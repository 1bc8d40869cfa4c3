------------------------------ MODULE MC_NicTx ------------------------------
(***************************************************************************)
(* NicTx on a small instance: a three-slot ring and up to two contexts,   *)
(* each sending a few frames.  Three slots are enough for the ring to     *)
(* wrap and for a stale tail to fall behind the device's head.            *)
(***************************************************************************)
EXTENDS NicTx

CONSTANTS cpu, isr

\* One system-call CPU and no transmitting interrupt.
MC_OneCaller == {cpu}
\* A system-call CPU and the receive interrupt (ARP and ICMP replies).
MC_TwoCallers == {cpu, isr}

=============================================================================
