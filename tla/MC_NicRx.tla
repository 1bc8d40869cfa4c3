------------------------------ MODULE MC_NicRx ------------------------------
(***************************************************************************)
(* NicRx on a small instance: a three-slot ring (two descriptors owned by *)
(* the device at a time), a few arriving frames, and a frame buffer of a  *)
(* few entries.                                                            *)
(***************************************************************************)
EXTENDS NicRx

\* Only frames Receive accepts.
MC_GoodOnly == {"good"}
\* Accepted frames and frames Receive rejects (short, no EOP, error bit).
MC_AnyKind == {"good", "bad"}

=============================================================================
