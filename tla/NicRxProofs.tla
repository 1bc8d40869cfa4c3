----------------------------- MODULE NicRxProofs -----------------------------
(***************************************************************************)
(* Proofs about NicRx for every ring size, frame bound and buffer size:   *)
(* the type invariant and the ownership invariant of the receive ring.    *)
(*                                                                         *)
(* RxRingOwnership says that DD is set on exactly the slots that follow   *)
(* RDT, up to RDH.  The device sets DD on the slot at RDH and moves RDH   *)
(* one step on; Receive clears DD on the slot after RDT and moves RDT     *)
(* onto it.  Both steps shift one end of the run of pending slots by one, *)
(* which the lemmas DeviceShift and ReleaseShift state in modular          *)
(* arithmetic.  The type invariant needs three more facts: a slot with DD *)
(* holds a real frame, the batch never outgrows the frame buffer, and a   *)
(* finished Receive returned either its batch size or the error value.    *)
(***************************************************************************)
EXTENDS NicRx, SequenceTheorems, TLAPS

\* A descriptor the device has filled holds a frame that has arrived.
FilledHasFrame == \A s \in Slot : rdesc[s].dd => rdesc[s].frame \in 1 .. MaxFrames

\* Receive stores at most FrameBufferMax frames before it traps.
BufferBounded == Len(buf) <= FrameBufferMax

\* What Receive returned: the batch size, or an error.
RetIsBatch == isr = "handling" => (ret = Len(buf) \/ ret = -1)

IInv == TypeOK /\ RxRingOwnership /\ FilledHasFrame /\ BufferBounded /\ RetIsBatch

USE NicRxAssumption

-----------------------------------------------------------------------------
(* Arithmetic modulo the ring size.                                        *)

LEMMA ModLow ==
    ASSUME NEW N \in Nat \ {0}, NEW x \in 0 .. N - 1
    PROVE  x % N = x
BY SMT

LEMMA ModNeg ==
    ASSUME NEW N \in Nat \ {0}, NEW x \in -N .. -1
    PROVE  x % N = x + N
BY SMT

LEMMA ModSucc ==
    ASSUME NEW N \in Nat \ {0}, NEW x \in 0 .. N - 1
    PROVE  (x + 1) % N = IF x = N - 1 THEN 0 ELSE x + 1
BY SMT

\* How far slot a lies after slot b + 1, going round the ring.
LEMMA SlotDist ==
    ASSUME NEW a \in Slot, NEW b \in Slot
    PROVE  (a - b - 1) % RxSlots = IF a > b THEN a - b - 1 ELSE a - b - 1 + RxSlots
<1>1. CASE a > b
  <2>1. a - b - 1 \in 0 .. RxSlots - 1
    BY <1>1 DEF Slot
  <2>. QED
    BY <1>1, <2>1, ModLow
<1>2. CASE ~(a > b)
  <2>1. a - b - 1 \in -RxSlots .. -1
    BY <1>2 DEF Slot
  <2>. QED
    BY <1>2, <2>1, ModNeg
<1>. QED
  BY <1>1, <1>2

LEMMA NextSlot ==
    ASSUME NEW x \in Slot
    PROVE  /\ (x + 1) % RxSlots \in Slot
           /\ (x + 1) % RxSlots = IF x = RxSlots - 1 THEN 0 ELSE x + 1
BY ModSucc DEF Slot

\* The device fills slot h and moves RDH to h + 1: the pending run gains h.
LEMMA DeviceShift ==
    ASSUME NEW h \in Slot, NEW t \in Slot, h # t, NEW s \in Slot
    PROVE  (s - t - 1) % RxSlots < (((h + 1) % RxSlots) - t - 1) % RxSlots
               <=> (s = h \/ (s - t - 1) % RxSlots < (h - t - 1) % RxSlots)
<1>. DEFINE h1 == (h + 1) % RxSlots
<1>1. h1 \in Slot /\ h1 = IF h = RxSlots - 1 THEN 0 ELSE h + 1
  BY NextSlot
<1>2. (s - t - 1) % RxSlots = IF s > t THEN s - t - 1 ELSE s - t - 1 + RxSlots
  BY SlotDist
<1>3. (h1 - t - 1) % RxSlots = IF h1 > t THEN h1 - t - 1 ELSE h1 - t - 1 + RxSlots
  BY <1>1, SlotDist
<1>4. (h - t - 1) % RxSlots = IF h > t THEN h - t - 1 ELSE h - t - 1 + RxSlots
  BY SlotDist
<1>. HIDE DEF h1
<1>. QED
  BY <1>1, <1>2, <1>3, <1>4 DEF Slot

\* Receive releases slot u = t + 1, which was pending, and moves RDT onto
\* it: the pending run loses u.
LEMMA ReleaseShift ==
    ASSUME NEW h \in Slot, NEW t \in Slot, NEW s \in Slot,
           (((t + 1) % RxSlots) - t - 1) % RxSlots < (h - t - 1) % RxSlots
    PROVE  (s - ((t + 1) % RxSlots) - 1) % RxSlots < (h - ((t + 1) % RxSlots) - 1) % RxSlots
               <=> (s # (t + 1) % RxSlots /\ (s - t - 1) % RxSlots < (h - t - 1) % RxSlots)
<1>. DEFINE u == (t + 1) % RxSlots
<1>1. u \in Slot /\ u = IF t = RxSlots - 1 THEN 0 ELSE t + 1
  BY NextSlot
<1>2. (s - t - 1) % RxSlots = IF s > t THEN s - t - 1 ELSE s - t - 1 + RxSlots
  BY SlotDist
<1>3. (h - t - 1) % RxSlots = IF h > t THEN h - t - 1 ELSE h - t - 1 + RxSlots
  BY SlotDist
<1>4. (u - t - 1) % RxSlots = IF u > t THEN u - t - 1 ELSE u - t - 1 + RxSlots
  BY <1>1, SlotDist
<1>5. (s - u - 1) % RxSlots = IF s > u THEN s - u - 1 ELSE s - u - 1 + RxSlots
  BY <1>1, SlotDist
<1>6. (h - u - 1) % RxSlots = IF h > u THEN h - u - 1 ELSE h - u - 1 + RxSlots
  BY <1>1, SlotDist
<1>. HIDE DEF u
<1>. QED
  BY <1>1, <1>2, <1>3, <1>4, <1>5, <1>6 DEF Slot

-----------------------------------------------------------------------------
(* The invariant holds initially and is kept by every action.             *)

LEMMA InitIInv == Init => IInv
<1>. SUFFICES ASSUME Init PROVE IInv
  OBVIOUS
<1>1. TypeOK
  <2>1. rdesc \in [Slot -> Descriptor]
    BY DEF Init, Descriptor
  <2>2. rdh \in Slot /\ rdt \in Slot
    BY DEF Init, Slot
  <2>3. buf \in Seq(1 .. MaxFrames) /\ delivered \in Seq(1 .. MaxFrames)
    BY DEF Init
  <2>4. ret \in -1 .. FrameBufferMax /\ arrived \in 0 .. MaxFrames
    BY DEF Init
  <2>5. isr \in {"idle", "receiving", "handling"}
    BY DEF Init
  <2>6. icr \in BOOLEAN /\ trap \in BOOLEAN
    BY DEF Init
  <2>7. dropped \subseteq 1 .. MaxFrames /\ discarded \subseteq 1 .. MaxFrames
    BY DEF Init
  <2>. QED
    BY <2>1, <2>2, <2>3, <2>4, <2>5, <2>6, <2>7 DEF TypeOK
<1>2. RxRingOwnership
  <2>. SUFFICES ASSUME NEW s \in Slot PROVE ~(s \in Pending)
    BY DEF Init, RxRingOwnership
  <2>1. (s - rdt - 1) % RxSlots = s
    BY SlotDist DEF Init, Slot
  <2>2. (rdh - rdt - 1) % RxSlots = 0
    BY SlotDist DEF Init, Slot
  <2>. QED
    BY <2>1, <2>2 DEF Pending, Slot
<1>3. FilledHasFrame /\ BufferBounded /\ RetIsBatch
  BY DEF Init, FilledHasFrame, BufferBounded, RetIsBatch
<1>. QED
  BY <1>1, <1>2, <1>3 DEF IInv

LEMMA DeviceReceiveIInv == IInv /\ DeviceReceive => IInv'
<1>. SUFFICES ASSUME IInv, DeviceReceive PROVE IInv'
  OBVIOUS
<1>. PICK k \in FrameKinds :
        rdesc' = [rdesc EXCEPT ![rdh] = [frame |-> arrived + 1, kind |-> k, dd |-> TRUE]]
  BY DEF DeviceReceive
<1>1. TypeOK'
  BY NextSlot DEF IInv, TypeOK, DeviceReceive, Descriptor, Slot
<1>2. RxRingOwnership'
  <2>. SUFFICES ASSUME NEW s \in Slot PROVE rdesc'[s].dd <=> s \in Pending'
    BY DEF RxRingOwnership
  <2>1. s \in Pending' <=> (s = rdh \/ s \in Pending)
    BY DeviceShift DEF IInv, TypeOK, DeviceReceive, Pending
  <2>2. rdesc'[s].dd <=> (s = rdh \/ rdesc[s].dd)
    BY DEF IInv, TypeOK, Slot
  <2>. QED
    BY <2>1, <2>2 DEF IInv, RxRingOwnership
<1>3. FilledHasFrame'
  BY DEF IInv, TypeOK, FilledHasFrame, DeviceReceive, Slot
<1>4. BufferBounded' /\ RetIsBatch'
  BY DEF IInv, BufferBounded, RetIsBatch, DeviceReceive
<1>. QED
  BY <1>1, <1>2, <1>3, <1>4 DEF IInv

LEMMA DeviceDropIInv == IInv /\ DeviceDrop => IInv'
<1>. SUFFICES ASSUME IInv, DeviceDrop PROVE IInv'
  OBVIOUS
<1>1. TypeOK'
  BY DEF IInv, TypeOK, DeviceDrop
<1>2. RxRingOwnership' /\ FilledHasFrame' /\ BufferBounded' /\ RetIsBatch'
  BY DEF IInv, RxRingOwnership, Pending, FilledHasFrame, BufferBounded, RetIsBatch, DeviceDrop
<1>. QED
  BY <1>1, <1>2 DEF IInv

LEMMA IsrStartIInv == IInv /\ IsrStart => IInv'
<1>. SUFFICES ASSUME IInv, IsrStart PROVE IInv'
  OBVIOUS
<1>1. TypeOK'
  <2>1. buf' \in Seq(1 .. MaxFrames)
    BY DEF IsrStart
  <2>. QED
    BY <2>1 DEF IInv, TypeOK, IsrStart
<1>2. RxRingOwnership' /\ FilledHasFrame' /\ BufferBounded' /\ RetIsBatch'
  BY DEF IInv, RxRingOwnership, Pending, FilledHasFrame, BufferBounded, RetIsBatch, IsrStart
<1>. QED
  BY <1>1, <1>2 DEF IInv

LEMMA RxNextIInv == IInv /\ RxNext => IInv'
<1>. SUFFICES ASSUME IInv, RxNext PROVE IInv'
  OBVIOUS
<1>. DEFINE tail == (rdt + 1) % RxSlots
            d    == rdesc[tail]
<1>0. /\ tail \in Slot
      /\ d \in Descriptor
      /\ isr = "receiving"
      /\ UNCHANGED <<rdh, icr, arrived, dropped, delivered, discarded>>
  BY NextSlot DEF IInv, TypeOK, RxNext
<1>. HIDE DEF tail, d
<1>1. CASE /\ ~d.dd
           /\ isr' = "handling"
           /\ ret' = Len(buf)
           /\ UNCHANGED <<rdesc, rdt, buf, trap>>
  BY <1>0, <1>1 DEF IInv, TypeOK, RxRingOwnership, Pending, FilledHasFrame,
                    BufferBounded, RetIsBatch
<1>2. CASE /\ d.dd
           /\ d.kind = "bad"
           /\ isr' = "handling"
           /\ ret' = -1
           /\ UNCHANGED <<rdesc, rdt, buf, trap>>
  BY <1>0, <1>2 DEF IInv, TypeOK, RxRingOwnership, Pending, FilledHasFrame,
                    BufferBounded, RetIsBatch
<1>3. CASE /\ d.dd
           /\ d.kind = "good"
           /\ Len(buf) >= FrameBufferMax
           /\ trap' = TRUE
           /\ UNCHANGED <<rdesc, rdt, buf, isr, ret>>
  BY <1>0, <1>3 DEF IInv, TypeOK, RxRingOwnership, Pending, FilledHasFrame,
                    BufferBounded, RetIsBatch
<1>4. CASE /\ d.dd
           /\ d.kind = "good"
           /\ Len(buf) < FrameBufferMax
           /\ buf' = Append(buf, d.frame)
           /\ rdesc' = [rdesc EXCEPT ![tail] = [frame |-> d.frame, kind |-> d.kind, dd |-> FALSE]]
           /\ rdt' = tail
           /\ UNCHANGED <<isr, ret, trap>>
  <2>1. d.frame \in 1 .. MaxFrames
    BY <1>0, <1>4 DEF IInv, FilledHasFrame, d
  <2>2. TypeOK'
    BY <1>0, <1>4, <2>1 DEF IInv, TypeOK, Descriptor
  <2>3. tail \in Pending
    BY <1>0, <1>4 DEF IInv, RxRingOwnership, d
  <2>4. RxRingOwnership'
    <3>. SUFFICES ASSUME NEW s \in Slot PROVE rdesc'[s].dd <=> s \in Pending'
      BY DEF RxRingOwnership
    <3>1. s \in Pending' <=> (s # tail /\ s \in Pending)
      <4>1. (tail - rdt - 1) % RxSlots < (rdh - rdt - 1) % RxSlots
        BY <2>3 DEF Pending
      <4>. QED
        BY <1>0, <1>4, <4>1, ReleaseShift DEF IInv, TypeOK, Pending, tail
    <3>2. rdesc'[s].dd <=> (s # tail /\ rdesc[s].dd)
      BY <1>0, <1>4 DEF IInv, TypeOK
    <3>. QED
      BY <3>1, <3>2 DEF IInv, RxRingOwnership
  <2>5. FilledHasFrame'
    BY <1>0, <1>4 DEF IInv, TypeOK, FilledHasFrame
  <2>6. BufferBounded' /\ RetIsBatch'
    BY <1>0, <1>4 DEF IInv, TypeOK, BufferBounded, RetIsBatch
  <2>. QED
    BY <2>2, <2>4, <2>5, <2>6 DEF IInv
<1>. QED
  BY <1>1, <1>2, <1>3, <1>4 DEF RxNext, tail, d

LEMMA IsrFinishIInv == IInv /\ IsrFinish => IInv'
<1>. SUFFICES ASSUME IInv, IsrFinish PROVE IInv'
  OBVIOUS
<1>1. buf \in Seq(1 .. MaxFrames) /\ Len(buf) <= FrameBufferMax
  BY DEF IInv, TypeOK, BufferBounded
<1>2. ret > 0 => SubSeq(buf, 1, ret) \in Seq(1 .. MaxFrames)
  <2>. SUFFICES ASSUME ret > 0 PROVE SubSeq(buf, 1, ret) \in Seq(1 .. MaxFrames)
    OBVIOUS
  <2>1. ret = Len(buf)
    BY DEF IInv, RetIsBatch, IsrFinish
  <2>2. \A i \in 1 .. ret : buf[i] \in 1 .. MaxFrames
    BY <1>1, <2>1
  <2>. QED
    BY <2>1, <2>2, SubSeqProperties DEF IInv, TypeOK
<1>3. delivered' \in Seq(1 .. MaxFrames)
  <2>1. CASE ret > 0
    <3>1. delivered' = delivered \o SubSeq(buf, 1, ret)
      BY <2>1 DEF IsrFinish
    <3>. QED
      BY <1>2, <2>1, <3>1 DEF IInv, TypeOK
  <2>3. CASE ~(ret > 0)
    BY <2>3 DEF IInv, TypeOK, IsrFinish
  <2>. QED
    BY <2>1, <2>3
<1>4. discarded' \subseteq 1 .. MaxFrames
  <2>1. {buf[i] : i \in 1 .. Len(buf)} \subseteq 1 .. MaxFrames
    BY <1>1
  <2>. QED
    BY <2>1 DEF IInv, TypeOK, IsrFinish
<1>5. TypeOK'
  BY <1>3, <1>4 DEF IInv, TypeOK, IsrFinish
<1>6. RxRingOwnership' /\ FilledHasFrame' /\ BufferBounded' /\ RetIsBatch'
  BY DEF IInv, RxRingOwnership, Pending, FilledHasFrame, BufferBounded, RetIsBatch, IsrFinish
<1>. QED
  BY <1>5, <1>6 DEF IInv

LEMMA StutterIInv == IInv /\ (Halted \/ Quiescent \/ UNCHANGED vars) => IInv'
BY DEF IInv, TypeOK, RxRingOwnership, Pending, FilledHasFrame, BufferBounded, RetIsBatch,
       Halted, Quiescent, vars

LEMMA NextIInv == IInv /\ [Next]_vars => IInv'
BY DeviceReceiveIInv, DeviceDropIInv, IsrStartIInv, RxNextIInv, IsrFinishIInv, StutterIInv
   DEF Next

-----------------------------------------------------------------------------

\* Every reachable state of the receive path is well typed, for every ring
\* size, frame bound and frame-buffer size.
THEOREM RxTypeCorrect == Spec => []TypeOK
<1>1. Init => IInv
  BY InitIInv
<1>2. IInv /\ [Next]_vars => IInv'
  BY NextIInv
<1>3. IInv => TypeOK
  BY DEF IInv
<1>. QED
  BY <1>1, <1>2, <1>3, PTL DEF Spec

\* The driver and the device never disagree about who owns a receive
\* descriptor: DD is set exactly on the slots the device has filled and
\* Receive has not released, so Receive's DD poll never takes a slot the
\* device still owns or a frame it has already taken.
THEOREM RxRingOwned == Spec => []RxRingOwnership
<1>1. Init => IInv
  BY InitIInv
<1>2. IInv /\ [Next]_vars => IInv'
  BY NextIInv
<1>3. IInv => RxRingOwnership
  BY DEF IInv
<1>. QED
  BY <1>1, <1>2, <1>3, PTL DEF Spec

=============================================================================
