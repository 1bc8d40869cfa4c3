------------------------- MODULE NicRxChannelProofs -------------------------
(***************************************************************************)
(* Proof that NicRx implements the FIFO channel RxChannel under the       *)
(* mapping RxQueue: the batch of the running Receive followed by the      *)
(* frames of the pending run of the ring, read from RDT + 1.               *)
(*                                                                         *)
(* Each step of the driver or the device is a step of the channel or      *)
(* leaves it as it is: the device appends the frame it writes at RDH (or  *)
(* drops it), Receive moves the frame at RDT + 1 from the front of the    *)
(* ring to the back of its batch, which leaves RxQueue unchanged, and     *)
(* IsrFinish hands on or discards the batch, a prefix of RxQueue.          *)
(***************************************************************************)
EXTENDS NicRxOrderProofs

\* The length of the pending run: the ring's part of RxQueue.
RunLen == (rdh - rdt - 1) % RxSlots

\* The batch's part of RxQueue.
Batch == IF isr = "idle" THEN <<>> ELSE buf

USE NicRxAssumption

-----------------------------------------------------------------------------
(* Positions in the ring.                                                  *)

\* Counting i slots on from slot t wraps at most once.
LEMMA PosWrap ==
    ASSUME NEW t \in Slot, NEW i \in 1 .. RxSlots
    PROVE  (t + i) % RxSlots = IF t + i < RxSlots THEN t + i ELSE t + i - RxSlots
<1>1. CASE t + i < RxSlots
  BY <1>1, ModLow DEF Slot
<1>2. CASE ~(t + i < RxSlots)
  <2>1. t + i - RxSlots \in 0 .. RxSlots - 1
    BY <1>2 DEF Slot
  <2>2. (t + i) % RxSlots = (t + i - RxSlots) % RxSlots
    BY DEF Slot
  <2>. QED
    BY <1>2, <2>1, <2>2, ModLow
<1>. QED
  BY <1>1, <1>2

\* The slot i places after t lies i - 1 places after t + 1.
LEMMA PosSlot ==
    ASSUME NEW t \in Slot, NEW i \in 1 .. RxSlots
    PROVE  /\ (t + i) % RxSlots \in Slot
           /\ (((t + i) % RxSlots) - t - 1) % RxSlots = i - 1
<1>1. (t + i) % RxSlots = IF t + i < RxSlots THEN t + i ELSE t + i - RxSlots
  BY PosWrap
<1>2. (t + i) % RxSlots \in Slot
  BY <1>1 DEF Slot
<1>3. (((t + i) % RxSlots) - t - 1) % RxSlots
        = IF (t + i) % RxSlots > t THEN ((t + i) % RxSlots) - t - 1
          ELSE ((t + i) % RxSlots) - t - 1 + RxSlots
  BY <1>2, SlotDist
<1>. QED
  BY <1>1, <1>2, <1>3 DEF Slot

\* Counting from the slot after t is counting one further from t.
LEMMA PosNext ==
    ASSUME NEW t \in Slot, NEW i \in 1 .. RxSlots - 1
    PROVE  (((t + 1) % RxSlots) + i) % RxSlots = (t + (i + 1)) % RxSlots
<1>1. (t + 1) % RxSlots \in Slot /\ (t + 1) % RxSlots = IF t = RxSlots - 1 THEN 0 ELSE t + 1
  BY NextSlot
<1>2. (((t + 1) % RxSlots) + i) % RxSlots
        = IF ((t + 1) % RxSlots) + i < RxSlots THEN ((t + 1) % RxSlots) + i
          ELSE ((t + 1) % RxSlots) + i - RxSlots
  BY <1>1, PosWrap DEF Slot
<1>3. (t + (i + 1)) % RxSlots
        = IF t + (i + 1) < RxSlots THEN t + (i + 1) ELSE t + (i + 1) - RxSlots
  <2>1. i + 1 \in 1 .. RxSlots
    OBVIOUS
  <2>. QED
    BY <2>1, PosWrap
<1>. QED
  BY <1>1, <1>2, <1>3 DEF Slot

\* When the device moves RDH from h to h + 1 (h # t), the run grows by
\* one and its new last slot is h.
LEMMA RunGrow ==
    ASSUME NEW h \in Slot, NEW t \in Slot, h # t
    PROVE  /\ (((h + 1) % RxSlots) - t - 1) % RxSlots = ((h - t - 1) % RxSlots) + 1
           /\ (h - t - 1) % RxSlots \in 0 .. RxSlots - 2
           /\ (t + (((h - t - 1) % RxSlots) + 1)) % RxSlots = h
<1>1. (h + 1) % RxSlots \in Slot /\ (h + 1) % RxSlots = IF h = RxSlots - 1 THEN 0 ELSE h + 1
  BY NextSlot
<1>2. (h - t - 1) % RxSlots = IF h > t THEN h - t - 1 ELSE h - t - 1 + RxSlots
  BY SlotDist
<1>3. (((h + 1) % RxSlots) - t - 1) % RxSlots
        = IF (h + 1) % RxSlots > t THEN ((h + 1) % RxSlots) - t - 1
          ELSE ((h + 1) % RxSlots) - t - 1 + RxSlots
  BY <1>1, SlotDist
<1>4. (h - t - 1) % RxSlots \in 0 .. RxSlots - 2
  BY <1>2 DEF Slot
<1>5. (t + (((h - t - 1) % RxSlots) + 1)) % RxSlots
        = IF t + (((h - t - 1) % RxSlots) + 1) < RxSlots
          THEN t + (((h - t - 1) % RxSlots) + 1)
          ELSE t + (((h - t - 1) % RxSlots) + 1) - RxSlots
  BY <1>4, PosWrap
<1>. QED
  BY <1>1, <1>2, <1>3, <1>4, <1>5 DEF Slot

-----------------------------------------------------------------------------
(* The mapping.                                                            *)

\* RxQueue is the batch followed by the RunLen frames of the pending run.
LEMMA RingFacts ==
    ASSUME TypeOK
    PROVE  /\ RunLen \in 0 .. RxSlots - 1
           /\ RingFrames \in Seq(Nat)
           /\ Len(RingFrames) = RunLen
           /\ \A i \in 1 .. RunLen : RingFrames[i] = rdesc[(rdt + i) % RxSlots].frame
           /\ Batch \in Seq(Nat)
           /\ RxQueue = Batch \o RingFrames
<1>1. RunLen \in 0 .. RxSlots - 1
  BY DistRange DEF TypeOK, RunLen
<1>2. \A i \in 1 .. RunLen : rdesc[(rdt + i) % RxSlots].frame \in Nat
  <2>. SUFFICES ASSUME NEW i \in 1 .. RunLen
                PROVE  rdesc[(rdt + i) % RxSlots].frame \in Nat
    OBVIOUS
  <2>1. (rdt + i) % RxSlots \in Slot
    BY <1>1, PosSlot DEF TypeOK
  <2>. QED
    BY <2>1 DEF TypeOK, Descriptor
<1>3. RingFrames \in Seq(Nat) /\ Len(RingFrames) = RunLen
  BY <1>1, <1>2 DEF RingFrames, RunLen
<1>4. Batch \in Seq(Nat)
  BY DEF TypeOK, Batch
<1>. QED
  BY <1>1, <1>3, <1>4 DEF RingFrames, RunLen, RxQueue, Batch

\* Appending to the back of the ring's part appends to RxQueue.
LEMMA QueueAppend ==
    ASSUME NEW B \in Seq(Nat), NEW R \in Seq(Nat), NEW x \in Nat
    PROVE  B \o Append(R, x) = Append(B \o R, x)
<1>1. Append(R, x) = R \o <<x>> /\ Append(B \o R, x) = (B \o R) \o <<x>>
  BY AppendIsConcat, ConcatProperties
<1>2. <<x>> \in Seq(Nat)
  OBVIOUS
<1>. QED
  BY <1>1, <1>2, ConcatAssociative

-----------------------------------------------------------------------------
(* One lemma per action.                                                   *)

\* The device writes the next frame at RDH and moves RDH on: the frame
\* joins the back of the channel.
LEMMA DeviceReceiveChannel ==
    ASSUME IInv, DeviceReceive
    PROVE  Channel!Accept
<1>. PICK k \in FrameKinds :
        rdesc' = [rdesc EXCEPT ![rdh] = [frame |-> arrived + 1, kind |-> k, dd |-> TRUE]]
  BY DEF DeviceReceive
<1>1. TypeOK /\ TypeOK'
  BY DeviceReceiveIInv DEF IInv
<1>2. /\ rdh # rdt /\ rdt' = rdt /\ rdh' = (rdh + 1) % RxSlots
      /\ arrived < MaxFrames /\ arrived' = arrived + 1 /\ arrived \in Nat
      /\ UNCHANGED <<dropped, isr, buf, delivered, discarded>>
  BY <1>1 DEF DeviceReceive, TypeOK
<1>3. /\ RunLen' = RunLen + 1
      /\ RunLen \in 0 .. RxSlots - 2
      /\ (rdt + (RunLen + 1)) % RxSlots = rdh
  BY <1>1, <1>2, RunGrow DEF TypeOK, RunLen
<1>4. \A i \in 1 .. RunLen : (rdt + i) % RxSlots \in Slot /\ (rdt + i) % RxSlots # rdh
  <2>. SUFFICES ASSUME NEW i \in 1 .. RunLen
                PROVE  (rdt + i) % RxSlots \in Slot /\ (rdt + i) % RxSlots # rdh
    OBVIOUS
  <2>1. /\ (rdt + i) % RxSlots \in Slot
        /\ (((rdt + i) % RxSlots) - rdt - 1) % RxSlots = i - 1
    BY <1>1, <1>3, PosSlot DEF TypeOK
  <2>. QED
    BY <1>3, <2>1 DEF RunLen
<1>5. RingFrames' = Append(RingFrames, arrived + 1)
  <2>1. /\ RingFrames \in Seq(Nat) /\ Len(RingFrames) = RunLen
        /\ \A i \in 1 .. RunLen : RingFrames[i] = rdesc[(rdt + i) % RxSlots].frame
    BY <1>1, RingFacts
  <2>2. RingFrames' = [i \in 1 .. RunLen + 1 |-> rdesc'[(rdt + i) % RxSlots].frame]
    BY <1>2, <1>3 DEF RingFrames, RunLen
  <2>3. \A i \in 1 .. RunLen + 1 :
           rdesc'[(rdt + i) % RxSlots].frame = IF i <= RunLen THEN RingFrames[i] ELSE arrived + 1
    <3>. SUFFICES ASSUME NEW i \in 1 .. RunLen + 1
                  PROVE  rdesc'[(rdt + i) % RxSlots].frame
                            = IF i <= RunLen THEN RingFrames[i] ELSE arrived + 1
      OBVIOUS
    <3>1. CASE i <= RunLen
      BY <1>1, <1>4, <2>1, <3>1 DEF TypeOK
    <3>2. CASE ~(i <= RunLen)
      <4>1. i = RunLen + 1
        BY <1>3, <3>2
      <4>. QED
        BY <1>1, <1>3, <3>2, <4>1 DEF TypeOK
    <3>. QED
      BY <3>1, <3>2
  <2>4. /\ Append(RingFrames, arrived + 1) \in Seq(Nat)
        /\ Len(Append(RingFrames, arrived + 1)) = RunLen + 1
        /\ \A i \in 1 .. RunLen : Append(RingFrames, arrived + 1)[i] = RingFrames[i]
        /\ Append(RingFrames, arrived + 1)[RunLen + 1] = arrived + 1
    BY <1>2, <2>1, AppendProperties
  <2>5. RingFrames' \in Seq(Nat) /\ Len(RingFrames') = RunLen + 1
    <3>1. \A i \in 1 .. RunLen + 1 : rdesc'[(rdt + i) % RxSlots].frame \in Nat
      BY <1>2, <2>1, <2>3, <1>3
    <3>. QED
      BY <1>3, <2>2, <3>1
  <2>6. \A i \in 1 .. RunLen + 1 : RingFrames'[i] = Append(RingFrames, arrived + 1)[i]
    BY <1>3, <2>2, <2>3, <2>4
  <2>. QED
    BY <2>4, <2>5, <2>6, SeqEqual
<1>6. RxQueue' = Append(RxQueue, arrived + 1)
  <2>1. Batch' = Batch /\ Batch \in Seq(Nat) /\ RingFrames \in Seq(Nat)
        /\ RxQueue = Batch \o RingFrames
    BY <1>1, <1>2, RingFacts DEF Batch
  <2>2. RxQueue' = Batch \o Append(RingFrames, arrived + 1)
    BY <1>5, <2>1 DEF RxQueue, Batch
  <2>. QED
    BY <1>2, <2>1, <2>2, QueueAppend
<1>. QED
  BY <1>2, <1>6 DEF Channel!Accept

\* A frame arriving on a full ring is dropped.
LEMMA DeviceDropChannel ==
    ASSUME IInv, DeviceDrop
    PROVE  Channel!Drop
<1>1. RxQueue' = RxQueue
  BY DEF DeviceDrop, RxQueue, RingFrames
<1>. QED
  BY <1>1 DEF DeviceDrop, Channel!Drop

\* IsrStart empties a buffer that RxQueue no longer counts.
LEMMA IsrStartChannel ==
    ASSUME IInv, IsrStart
    PROVE  UNCHANGED <<arrived, dropped, RxQueue, delivered, discarded>>
<1>1. Batch = <<>> /\ Batch' = <<>>
  BY DEF IsrStart, Batch
<1>2. RingFrames' = RingFrames
  BY DEF IsrStart, RingFrames
<1>3. RxQueue' = RxQueue
  BY <1>1, <1>2 DEF RxQueue, Batch
<1>. QED
  BY <1>3 DEF IsrStart

\* Receive moves the frame at the front of the ring to the back of its
\* batch, which is the same place in RxQueue; its other outcomes change
\* neither the ring nor the batch.
LEMMA RxNextChannel ==
    ASSUME IInv, RxNext
    PROVE  UNCHANGED <<arrived, dropped, RxQueue, delivered, discarded>>
<1>. DEFINE tail == (rdt + 1) % RxSlots
            d    == rdesc[tail]
<1>0. /\ TypeOK /\ tail \in Slot /\ d \in Descriptor
      /\ isr = "receiving"
      /\ UNCHANGED <<rdh, arrived, dropped, delivered, discarded>>
  BY NextSlot DEF IInv, TypeOK, RxNext
<1>. HIDE DEF tail, d
<1>1. CASE UNCHANGED <<rdesc, rdt, buf>> /\ isr' \in {"receiving", "handling"}
  <2>1. Batch' = Batch /\ RingFrames' = RingFrames
    BY <1>0, <1>1 DEF Batch, RingFrames
  <2>. QED
    BY <1>0, <2>1 DEF RxQueue, Batch
<1>2. CASE /\ d.dd
           /\ d.kind = "good"
           /\ Len(buf) < FrameBufferMax
           /\ buf' = Append(buf, d.frame)
           /\ rdesc' = [rdesc EXCEPT ![tail] = [frame |-> d.frame, kind |-> d.kind, dd |-> FALSE]]
           /\ rdt' = tail
           /\ UNCHANGED <<isr, ret, trap>>
  <2>1. rdt \in Slot /\ rdh \in Slot /\ rdesc \in [Slot -> Descriptor]
    BY <1>0 DEF TypeOK
  <2>2. (tail - rdt - 1) % RxSlots = 0
    <3>1. tail = IF rdt = RxSlots - 1 THEN 0 ELSE rdt + 1
      BY <2>1, NextSlot DEF tail
    <3>. QED
      BY <2>1, <3>1 DEF Slot
  <2>3. RunLen \in 1 .. RxSlots - 1 /\ rdh # tail
    <3>1. tail \in Pending
      BY <1>0, <1>2 DEF IInv, RxRingOwnership, d
    <3>2. RunLen \in 0 .. RxSlots - 1
      BY <1>0, RingFacts
    <3>. QED
      BY <2>2, <3>1, <3>2 DEF Pending, RunLen
  <2>4. RunLen' = RunLen - 1
    <3>1. (rdh - tail - 1) % RxSlots = ((rdh - rdt - 1) % RxSlots) - 1
      BY <2>1, <2>3, DistShift DEF tail
    <3>. QED
      BY <1>0, <1>2, <3>1 DEF RunLen
  <2>5. /\ RingFrames \in Seq(Nat) /\ Len(RingFrames) = RunLen
        /\ \A i \in 1 .. RunLen : RingFrames[i] = rdesc[(rdt + i) % RxSlots].frame
        /\ buf \in Seq(Nat)
    BY <1>0, RingFacts DEF TypeOK
  <2>6. \A x \in Slot : rdesc'[x].frame = rdesc[x].frame
    BY <1>0, <1>2, <2>1 DEF d
  <2>7. RingFrames' = [i \in 1 .. RunLen - 1 |-> rdesc'[(tail + i) % RxSlots].frame]
    BY <1>2, <2>4 DEF RingFrames, RunLen
  <2>8. \A i \in 1 .. RunLen - 1 : RingFrames'[i] = RingFrames[i + 1]
    <3>. SUFFICES ASSUME NEW i \in 1 .. RunLen - 1
                  PROVE  RingFrames'[i] = RingFrames[i + 1]
      OBVIOUS
    <3>1. (tail + i) % RxSlots = (rdt + (i + 1)) % RxSlots
      BY <2>1, <2>3, PosNext DEF tail
    <3>2. (rdt + (i + 1)) % RxSlots \in Slot
      BY <2>1, <2>3, PosSlot
    <3>. QED
      BY <2>3, <2>5, <2>6, <2>7, <3>1, <3>2
  <2>9. RingFrames' \in Seq(Nat) /\ Len(RingFrames') = RunLen - 1
    <3>1. \A i \in 1 .. RunLen - 1 : RingFrames[i + 1] \in Nat
      BY <2>3, <2>5
    <3>2. \A i \in 1 .. RunLen - 1 : rdesc'[(tail + i) % RxSlots].frame \in Nat
      BY <2>7, <2>8, <3>1
    <3>. QED
      BY <2>3, <2>7, <3>2
  <2>10. RingFrames[1] = d.frame /\ d.frame \in Nat
    <3>1. (rdt + 1) % RxSlots = tail
      BY DEF tail
    <3>. QED
      BY <1>0, <2>3, <2>5, <3>1 DEF d, Descriptor
  <2>. DEFINE A == Append(buf, d.frame)
  <2>11. /\ A \in Seq(Nat) /\ Len(A) = Len(buf) + 1
         /\ \A j \in 1 .. Len(buf) : A[j] = buf[j]
         /\ A[Len(buf) + 1] = d.frame
    BY <2>5, <2>10, AppendProperties
  <2>. HIDE DEF A
  <2>12. /\ Len(A \o RingFrames') = Len(buf) + RunLen
         /\ \A j \in 1 .. Len(buf) + RunLen :
               (A \o RingFrames')[j] = IF j <= Len(buf) + 1 THEN A[j]
                                       ELSE RingFrames'[j - Len(buf) - 1]
         /\ A \o RingFrames' \in Seq(Nat)
    <3>1. /\ Len(A \o RingFrames') = Len(A) + Len(RingFrames')
          /\ \A j \in 1 .. Len(A) + Len(RingFrames') :
                (A \o RingFrames')[j] = IF j <= Len(A) THEN A[j]
                                        ELSE RingFrames'[j - Len(A)]
          /\ A \o RingFrames' \in Seq(Nat)
      <4>1. A \in Seq(Nat) /\ RingFrames' \in Seq(Nat)
        BY <2>9, <2>11
      <4>. QED
        BY <4>1, ConcatProperties
    <3>2. Len(A) + Len(RingFrames') = Len(buf) + RunLen /\ Len(buf) \in Nat
      BY <2>3, <2>5, <2>9, <2>11
    <3>. QED
      BY <2>11, <3>1, <3>2
  <2>13. /\ Len(buf \o RingFrames) = Len(buf) + RunLen
         /\ \A j \in 1 .. Len(buf) + RunLen :
               (buf \o RingFrames)[j] = IF j <= Len(buf) THEN buf[j]
                                        ELSE RingFrames[j - Len(buf)]
         /\ buf \o RingFrames \in Seq(Nat)
    BY <2>5, ConcatProperties
  <2>14. \A j \in 1 .. Len(buf) + RunLen : (A \o RingFrames')[j] = (buf \o RingFrames)[j]
    <3>. SUFFICES ASSUME NEW j \in 1 .. Len(buf) + RunLen
                  PROVE  (A \o RingFrames')[j] = (buf \o RingFrames)[j]
      OBVIOUS
    <3>1. CASE j <= Len(buf)
      BY <2>11, <2>12, <2>13, <3>1
    <3>2. CASE j = Len(buf) + 1
      BY <2>3, <2>10, <2>11, <2>12, <2>13, <3>2, <2>5
    <3>3. CASE j > Len(buf) + 1
      <4>1. j - Len(buf) - 1 \in 1 .. RunLen - 1 /\ (j - Len(buf) - 1) + 1 = j - Len(buf)
        BY <2>5, <3>3
      <4>. QED
        BY <2>8, <2>12, <2>13, <3>3, <4>1, <2>5
    <3>4. Len(buf) \in Nat
      BY <2>5
    <3>5. j <= Len(buf) \/ j = Len(buf) + 1 \/ j > Len(buf) + 1
      BY <2>3, <3>4
    <3>. QED
      BY <3>1, <3>2, <3>3, <3>5
  <2>15. A \o RingFrames' = buf \o RingFrames
    BY <2>12, <2>13, <2>14, SeqEqual
  <2>16. RxQueue' = RxQueue
    <3>1. Batch = buf /\ Batch' = A
      BY <1>0, <1>2 DEF Batch, A
    <3>. QED
      BY <2>15, <3>1 DEF RxQueue, Batch
  <2>. QED
    BY <1>0, <2>16
<1>. QED
  BY <1>1, <1>2 DEF RxNext, tail, d

\* What follows a prefix B of B \o R is R.
LEMMA QueueSuffix ==
    ASSUME NEW B \in Seq(Nat), NEW R \in Seq(Nat)
    PROVE  SubSeq(B \o R, Len(B) + 1, Len(B \o R)) = R
<1>1. Len(B \o R) = Len(B) + Len(R)
  BY ConcatProperties
<1>2. CASE R = <<>>
  <2>1. Len(B \o R) < Len(B) + 1
    BY <1>1, <1>2
  <2>. QED
    BY <1>2, <2>1, SubSeqEmpty
<1>3. CASE R # <<>>
  <2>1. Len(R) \in Nat \ {0}
    BY <1>3, EmptySeq
  <2>2. SubSeq(B \o R, Len(B) + 1, Len(B) + Len(R)) = SubSeq(R, 1, Len(R))
    BY <2>1, SubSeqOfConcat2
  <2>. QED
    BY <1>1, <2>2, SubSeqFull
<1>. QED
  BY <1>2, <1>3

\* IsrFinish hands the batch, a prefix of RxQueue, to FrameBufferHandler
\* when Receive returned its size, discards it on an error return, and
\* leaves the channel as it is when the batch is empty.
LEMMA IsrFinishChannel ==
    ASSUME IInv, IsrFinish
    PROVE  \/ Channel!Deliver
           \/ Channel!Discard
           \/ UNCHANGED <<arrived, dropped, RxQueue, delivered, discarded>>
<1>0. /\ TypeOK
      /\ isr = "handling" /\ isr' = "idle"
      /\ UNCHANGED <<rdesc, rdh, rdt, arrived, dropped, buf>>
      /\ (ret = Len(buf) \/ ret = -1)
      /\ ret \in Int
  BY DEF IInv, TypeOK, IsrFinish, RetIsBatch
<1>1. /\ RingFrames \in Seq(Nat) /\ buf \in Seq(Nat)
      /\ RxQueue = buf \o RingFrames
      /\ RxQueue' = RingFrames
  <2>1. RingFrames \in Seq(Nat) /\ RxQueue = Batch \o RingFrames /\ Batch = buf
    BY <1>0, RingFacts DEF Batch
  <2>2. RingFrames' = RingFrames
    BY <1>0 DEF RingFrames
  <2>3. RxQueue' = <<>> \o RingFrames
    BY <1>0, <2>2 DEF RxQueue
  <2>. QED
    BY <1>0, <2>1, <2>3, ConcatEmptySeq DEF TypeOK
<1>2. /\ Len(RxQueue) = Len(buf) + Len(RingFrames)
      /\ \A i \in 1 .. Len(buf) : RxQueue[i] = buf[i]
      /\ SubSeq(RxQueue, Len(buf) + 1, Len(RxQueue)) = RingFrames
  BY <1>1, ConcatProperties, QueueSuffix
<1>3. CASE Len(buf) = 0
  <2>1. RxQueue' = RxQueue
    BY <1>1, <1>3, EmptySeq, ConcatEmptySeq
  <2>2. delivered' = delivered /\ discarded' = discarded
    <3>1. ~(ret > 0) /\ {buf[i] : i \in 1 .. Len(buf)} = {}
      BY <1>0, <1>3
    <3>. QED
      BY <3>1 DEF IsrFinish
  <2>. QED
    BY <1>0, <2>1, <2>2
<1>4. CASE Len(buf) > 0 /\ ret = Len(buf)
  <2>1. Len(buf) \in 1 .. Len(RxQueue)
    BY <1>1, <1>2, <1>4
  <2>2. SubSeq(RxQueue, 1, Len(buf)) = SubSeq(buf, 1, ret)
    BY <1>1, <1>4, SubSeqOfConcat1
  <2>3. delivered' = delivered \o SubSeq(buf, 1, ret) /\ discarded' = discarded
    BY <1>0, <1>4 DEF IsrFinish
  <2>4. Channel!Deliver
    <3>1. /\ delivered' = delivered \o SubSeq(RxQueue, 1, Len(buf))
          /\ RxQueue' = SubSeq(RxQueue, Len(buf) + 1, Len(RxQueue))
      BY <1>1, <1>2, <2>2, <2>3
    <3>. QED
      BY <1>0, <2>1, <2>3, <3>1 DEF Channel!Deliver
  <2>. QED
    BY <2>4
<1>5. CASE Len(buf) > 0 /\ ret = -1
  <2>1. Len(buf) \in 1 .. Len(RxQueue)
    BY <1>1, <1>2, <1>5
  <2>2. {RxQueue[i] : i \in 1 .. Len(buf)} = {buf[i] : i \in 1 .. Len(buf)}
    BY <1>2
  <2>3. discarded' = discarded \cup {buf[i] : i \in 1 .. Len(buf)} /\ delivered' = delivered
    BY <1>5 DEF IsrFinish
  <2>4. Channel!Discard
    <3>1. /\ discarded' = discarded \cup {RxQueue[i] : i \in 1 .. Len(buf)}
          /\ RxQueue' = SubSeq(RxQueue, Len(buf) + 1, Len(RxQueue))
      BY <1>1, <1>2, <2>2, <2>3
    <3>. QED
      BY <1>0, <2>1, <2>3, <3>1 DEF Channel!Discard
  <2>. QED
    BY <2>4
<1>. QED
  BY <1>0, <1>1, <1>3, <1>4, <1>5

\* Halting, quiescence and stuttering leave the channel as it is.
LEMMA StutterChannel ==
    ASSUME Halted \/ Quiescent \/ UNCHANGED vars
    PROVE  UNCHANGED <<arrived, dropped, RxQueue, delivered, discarded>>
<1>1. UNCHANGED vars
  BY DEF Halted, Quiescent
<1>. QED
  BY <1>1 DEF vars, RxQueue, RingFrames

\* After SetupPacketReception the run is empty (RDT = RDH - 1) and so is
\* the channel.
LEMMA InitChannel == Init => Channel!Init
<1>. SUFFICES ASSUME Init PROVE Channel!Init
  OBVIOUS
<1>1. RunLen = 0
  BY DEF Init, RunLen
<1>2. RingFrames = <<>>
  BY <1>1 DEF RingFrames, RunLen
<1>3. RxQueue = <<>>
  BY <1>2 DEF Init, RxQueue
<1>. QED
  BY <1>3 DEF Init, Channel!Init

\* Every step of NicRx is a step of the channel or leaves it unchanged.
LEMMA NextChannel == IInv /\ [Next]_vars => [Channel!Next]_Channel!cvars
<1>. SUFFICES ASSUME IInv, [Next]_vars PROVE [Channel!Next]_Channel!cvars
  OBVIOUS
<1>1. CASE DeviceReceive
  BY <1>1, DeviceReceiveChannel DEF Channel!Next
<1>2. CASE DeviceDrop
  BY <1>2, DeviceDropChannel DEF Channel!Next
<1>3. CASE IsrStart
  BY <1>3, IsrStartChannel DEF Channel!cvars
<1>4. CASE RxNext
  BY <1>4, RxNextChannel DEF Channel!cvars
<1>5. CASE IsrFinish
  BY <1>5, IsrFinishChannel DEF Channel!Next, Channel!cvars
<1>6. CASE Halted \/ Quiescent \/ UNCHANGED vars
  BY <1>6, StutterChannel DEF Channel!cvars
<1>. QED
  BY <1>1, <1>2, <1>3, <1>4, <1>5, <1>6 DEF Next

(***************************************************************************)
(* The receive ring, Receive and IsrFinish implement the FIFO channel of  *)
(* RxChannel, for every ring size above one, frame bound and buffer size: *)
(* frames join at the back as the device accepts them and leave from the  *)
(* front, a whole batch at a time, to FrameBufferHandler or discarded.    *)
(***************************************************************************)
THEOREM RxRefinesChannel == Spec => RxImplementsChannel
<1>1. Init => IInv
  BY InitIInv
<1>2. IInv /\ [Next]_vars => IInv'
  BY NextIInv
<1>. QED
  BY <1>1, <1>2, InitChannel, NextChannel, PTL
     DEF Spec, RxImplementsChannel, Channel!Spec

=============================================================================
