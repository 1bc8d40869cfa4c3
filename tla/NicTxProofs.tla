---------------------------- MODULE NicTxProofs ----------------------------
(***************************************************************************)
(* Proofs about the transmit ring of NicTx: typing, for any number of     *)
(* contexts calling Transmit, any ring size and any number of frames.     *)
(***************************************************************************)
EXTENDS NicTx, TLAPS

\* A context inside Transmit has counted the frame it is sending.
CountedCurrent ==
    \A c \in Callers : txpc[c] # "idle" => sends[c] >= 1

\* The typing invariant that is inductive.
TypeIInv == TypeOK /\ CountedCurrent

-----------------------------------------------------------------------------
USE NicTxAssumption

LEMMA InitTypeIInv == Init => TypeIInv
<1>. SUFFICES ASSUME Init PROVE TypeIInv
  OBVIOUS
<1>1. tdesc \in [Slot -> Descriptor]
  BY DEF Init, Descriptor
<1>2. tdt \in Slot /\ tdh \in Slot /\ txTail \in [Callers -> Slot]
  BY DEF Init, Slot
<1>3. txpc \in [Callers -> {"idle", "fill", "bump", "wait"}]
      /\ sends \in [Callers -> 0 .. MaxSends]
  BY DEF Init
<1>4. wire \in Seq(Frame \cup {NoFrame})
  BY DEF Init
<1>. QED
  BY <1>1, <1>2, <1>3, <1>4 DEF TypeIInv, TypeOK, CountedCurrent, Init

LEMMA NextTypeIInv == TypeIInv /\ [Next]_vars => TypeIInv'
<1>. SUFFICES ASSUME TypeIInv, [Next]_vars PROVE TypeIInv'
  OBVIOUS
<1>. USE DEF TypeIInv, TypeOK, CountedCurrent
<1>1. ASSUME NEW c \in Callers, TxRead(c) PROVE TypeIInv'
  BY <1>1 DEF TxRead
<1>2. ASSUME NEW c \in Callers, TxFill(c) PROVE TypeIInv'
  <2>1. Current(c) \in Frame
    BY <1>2 DEF TxFill, Current, Frame
  <2>2. tdesc' \in [Slot -> Descriptor]
    BY <1>2, <2>1 DEF TxFill, Descriptor
  <2>. QED
    BY <1>2, <2>2 DEF TxFill
<1>3. ASSUME NEW c \in Callers, TxBump(c) PROVE TypeIInv'
  <2>1. (txTail[c] + 1) % TxSlots \in Slot
    BY DEF Slot
  <2>. QED
    BY <1>3, <2>1 DEF TxBump
<1>4. ASSUME NEW c \in Callers, TxWait(c) PROVE TypeIInv'
  <2>1. Current(c) \in Frame
    BY <1>4 DEF TxWait, Current, Frame
  <2>. QED
    BY <1>4, <2>1 DEF TxWait
<1>5. ASSUME DeviceSend PROVE TypeIInv'
  <2>1. tdesc[tdh].frame \in Frame \cup {NoFrame}
    BY DEF Descriptor
  <2>2. wire' \in Seq(Frame \cup {NoFrame})
    BY <1>5, <2>1 DEF DeviceSend
  <2>3. tdesc' \in [Slot -> Descriptor]
    BY <1>5 DEF DeviceSend, Descriptor
  <2>4. tdh' \in Slot
    BY <1>5 DEF DeviceSend, Slot
  <2>. QED
    BY <1>5, <2>2, <2>3, <2>4 DEF DeviceSend
<1>6. CASE UNCHANGED vars
  BY <1>6 DEF vars
<1>. QED
  BY <1>1, <1>2, <1>3, <1>4, <1>5, <1>6 DEF Next, TxStep, TxSpin, Quiescent

\* Every reachable state of the transmit ring is well typed, for any
\* number of contexts calling Transmit: TDT and TDH stay in the ring and
\* every descriptor Transmit fills names a frame its caller counted.
THEOREM TxTypeCorrect == Spec => []TypeOK
<1>1. Spec => []TypeIInv
  BY InitTypeIInv, NextTypeIInv, PTL DEF Spec
<1>. QED
  BY <1>1, PTL DEF TypeIInv

=============================================================================
