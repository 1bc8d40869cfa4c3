-------------------------- MODULE NicRxOrderProofs --------------------------
(***************************************************************************)
(* Proofs that the receive path of NicRx delivers frames in arrival order *)
(* and loses none, for every ring size, frame bound and buffer size.      *)
(*                                                                         *)
(* A frame moves from the pending run of the ring (the slots after RDT,  *)
(* up to RDH) into the batch buffer of the running Receive, and from the *)
(* buffer to the delivered sequence or, on an error return, to the       *)
(* discarded set.  Both proofs follow the frames along that path: the    *)
(* pending slots hold increasing frames in ring order from RDT, the      *)
(* buffer is increasing and lies after what was delivered and before     *)
(* what is pending, and no frame is newer than the last arrival.          *)
(***************************************************************************)
EXTENDS NicRxProofs

\* How far slot s lies after the slot RDT + 1, going round the ring.
Dist(s) == (s - rdt - 1) % RxSlots

\* The frames in the pending run increase in ring order.
RingOrdered ==
    \A s1, s2 \in Pending : Dist(s1) < Dist(s2) => rdesc[s1].frame < rdesc[s2].frame

\* The batch of the running Receive is increasing.
BufOrdered ==
    \A i, j \in 1 .. Len(buf) : i < j => buf[i] < buf[j]

\* Delivered frames precede the running batch, which precedes the ring.
Layered ==
    /\ \A s \in Pending, j \in 1 .. Len(delivered) : delivered[j] < rdesc[s].frame
    /\ isr # "idle" =>
          /\ \A i \in 1 .. Len(buf), j \in 1 .. Len(delivered) : delivered[j] < buf[i]
          /\ \A i \in 1 .. Len(buf), s \in Pending : buf[i] < rdesc[s].frame

\* No frame on the path is newer than the last arrival.
Arrived ==
    /\ \A s \in Pending : rdesc[s].frame <= arrived
    /\ \A j \in 1 .. Len(delivered) : delivered[j] <= arrived
    /\ isr # "idle" => \A i \in 1 .. Len(buf) : buf[i] <= arrived

\* What the order proof adds to IInv.
Ordered == RxDeliveredInOrder /\ RingOrdered /\ BufOrdered /\ Layered /\ Arrived

\* The inductive invariant behind RxInOrder.
OrderIInv == IInv /\ Ordered

\* The inductive invariant behind RxNoLoss.
LostIInv == IInv /\ RxNoFrameLost

USE NicRxAssumption

-----------------------------------------------------------------------------
(* The ring seen from RDT.                                                 *)

\* The distance between two slots lies in the ring.
LEMMA DistRange ==
    ASSUME NEW a \in Slot, NEW b \in Slot
    PROVE  (a - b - 1) % RxSlots \in 0 .. RxSlots - 1
BY SlotDist DEF Slot

\* Distances from RDT + 1 are slots, and pending means closer than RDH.
LEMMA DistFacts ==
    ASSUME TypeOK
    PROVE  /\ \A s \in Slot : Dist(s) \in 0 .. RxSlots - 1
           /\ \A s \in Slot : s \in Pending <=> Dist(s) < Dist(rdh)
           /\ Pending \subseteq Slot
<1>1. \A s \in Slot : Dist(s) \in 0 .. RxSlots - 1
  BY SlotDist DEF TypeOK, Dist, Slot
<1>. QED
  BY <1>1 DEF Pending, Dist

\* Moving RDT onto u = RDT + 1 brings every other slot one step closer.
LEMMA DistShift ==
    ASSUME NEW t \in Slot, NEW s \in Slot, s # (t + 1) % RxSlots
    PROVE  /\ (s - ((t + 1) % RxSlots) - 1) % RxSlots = ((s - t - 1) % RxSlots) - 1
           /\ (((t + 1) % RxSlots) - t - 1) % RxSlots = 0
<1>. DEFINE u == (t + 1) % RxSlots
<1>1. u \in Slot /\ u = IF t = RxSlots - 1 THEN 0 ELSE t + 1
  BY NextSlot
<1>2. (s - t - 1) % RxSlots = IF s > t THEN s - t - 1 ELSE s - t - 1 + RxSlots
  BY SlotDist
<1>3. (s - u - 1) % RxSlots = IF s > u THEN s - u - 1 ELSE s - u - 1 + RxSlots
  BY <1>1, SlotDist
<1>4. (u - t - 1) % RxSlots = IF u > t THEN u - t - 1 ELSE u - t - 1 + RxSlots
  BY <1>1, SlotDist
<1>. HIDE DEF u
<1>. QED
  BY <1>1, <1>2, <1>3, <1>4 DEF Slot

-----------------------------------------------------------------------------
(* Each action keeps the order.                                           *)

\* A step that leaves the ring, the batch and the delivered frames alone,
\* does not end a Receive's batch early and loses no arrivals keeps Ordered.
LEMMA OrderedFrameUnchanged ==
    ASSUME Ordered, TypeOK,
           UNCHANGED <<rdesc, rdh, rdt, buf, delivered>>,
           arrived' \in Nat, arrived <= arrived',
           isr' # "idle" => isr # "idle"
    PROVE  Ordered'
<1>1. Pending' = Pending
  BY DEF Pending
<1>2. \A s \in Slot : Dist(s)' = Dist(s)
  BY DEF Dist
<1>3. Pending \subseteq Slot
  BY DEF Pending
<1>. HIDE DEF Pending, Dist
<1>4. RingOrdered'
  BY <1>1, <1>2, <1>3 DEF Ordered, RingOrdered
<1>5. RxDeliveredInOrder' /\ BufOrdered'
  BY DEF Ordered, RxDeliveredInOrder, BufOrdered
<1>6. Layered'
  BY <1>1 DEF Ordered, Layered
<1>7. Arrived'
  <2>1. arrived \in Nat /\ rdesc \in [Slot -> Descriptor]
        /\ buf \in Seq(Nat) /\ delivered \in Seq(Nat)
    BY DEF TypeOK
  <2>2. \A s \in Pending' : rdesc'[s].frame <= arrived'
    BY <1>1, <1>3, <2>1 DEF Ordered, Arrived, Descriptor
  <2>3. \A j \in 1 .. Len(delivered') : delivered'[j] <= arrived'
    BY <2>1 DEF Ordered, Arrived
  <2>4. isr' # "idle" => \A i \in 1 .. Len(buf') : buf'[i] <= arrived'
    BY <2>1 DEF Ordered, Arrived
  <2>. QED
    BY <2>2, <2>3, <2>4 DEF Arrived
<1>. QED
  BY <1>4, <1>5, <1>6, <1>7 DEF Ordered
\* A frame written at RDH is the newest one and lands after the pending run.
LEMMA DeviceReceiveOrdered ==
    ASSUME OrderIInv, DeviceReceive
    PROVE  Ordered'
<1>. PICK k \in FrameKinds :
        rdesc' = [rdesc EXCEPT ![rdh] = [frame |-> arrived + 1, kind |-> k, dd |-> TRUE]]
  BY DEF DeviceReceive
<1>1. TypeOK /\ TypeOK'
  BY DeviceReceiveIInv DEF OrderIInv, IInv
<1>2. /\ rdt' = rdt /\ arrived' = arrived + 1
      /\ UNCHANGED <<isr, buf, delivered>>
      /\ rdh \notin Pending /\ rdh # rdt
  BY DistFacts, <1>1 DEF DeviceReceive, TypeOK
<1>3. \A s \in Slot : s \in Pending' <=> (s = rdh \/ s \in Pending)
  BY <1>1, DeviceShift DEF TypeOK, DeviceReceive, Pending
<1>4. \A s \in Slot : rdesc'[s].frame = IF s = rdh THEN arrived + 1 ELSE rdesc[s].frame
  BY <1>1 DEF TypeOK
<1>5. \A s \in Slot : Dist(s)' = Dist(s)
  BY <1>2 DEF Dist
<1>6. \A s \in Pending : Dist(s) < Dist(rdh) /\ rdesc[s].frame <= arrived
  BY <1>1, DistFacts DEF OrderIInv, Ordered, Arrived
<1>7. /\ rdesc[rdh].frame \in Nat /\ arrived \in Nat
      /\ \A s \in Slot : rdesc[s].frame \in Nat
  BY <1>1 DEF TypeOK, Descriptor
<1>8. Pending' \subseteq Slot /\ Pending \subseteq Slot
  BY DEF Pending
<1>9. RingOrdered'
  <2>. SUFFICES ASSUME NEW s1 \in Pending', NEW s2 \in Pending', Dist(s1)' < Dist(s2)'
                PROVE  rdesc'[s1].frame < rdesc'[s2].frame
    BY DEF RingOrdered
  <2>0. /\ s1 \in Slot /\ s2 \in Slot /\ Dist(s1) < Dist(s2)
        /\ Dist(s1) \in Nat /\ Dist(s2) \in Nat /\ s1 # s2
    BY <1>1, <1>5, <1>8, DistFacts
  <2>1. CASE s2 = rdh
    <3>1. s1 \in Pending
      BY <1>3, <2>0, <2>1
    <3>2. rdesc'[s1].frame = rdesc[s1].frame /\ rdesc[s1].frame <= arrived
      BY <1>4, <1>6, <2>0, <2>1, <3>1
    <3>. QED
      BY <1>4, <1>7, <2>0, <2>1, <3>2
  <2>2. CASE s1 = rdh /\ s2 # rdh
    <3>1. s2 \in Pending
      BY <1>3, <2>0, <2>2
    <3>. QED
      BY <1>6, <2>0, <2>2, <3>1, DistFacts, <1>1
  <2>3. CASE s1 # rdh /\ s2 # rdh
    <3>1. s1 \in Pending /\ s2 \in Pending
      BY <1>3, <2>0, <2>3
    <3>2. rdesc[s1].frame < rdesc[s2].frame
      BY <2>0, <3>1 DEF OrderIInv, Ordered, RingOrdered
    <3>. QED
      BY <1>4, <2>0, <2>3, <3>2
  <2>. QED
    BY <2>1, <2>2, <2>3
<1>10. Layered'
  <2>1. \A j \in 1 .. Len(delivered) : delivered[j] <= arrived /\ delivered[j] \in Nat
    BY <1>1 DEF OrderIInv, Ordered, Arrived, TypeOK
  <2>2. isr # "idle" => \A i \in 1 .. Len(buf) : buf[i] <= arrived /\ buf[i] \in Nat
    BY <1>1 DEF OrderIInv, Ordered, Arrived, TypeOK
  <2>3. \A s \in Pending' : /\ rdesc'[s].frame = (IF s = rdh THEN arrived + 1
                                                     ELSE rdesc[s].frame)
                            /\ (s # rdh => s \in Pending)
    BY <1>3, <1>4, <1>8
  <2>4. \A s \in Pending', j \in 1 .. Len(delivered) : delivered[j] < rdesc'[s].frame
    <3>. SUFFICES ASSUME NEW s \in Pending', NEW j \in 1 .. Len(delivered)
                  PROVE  delivered[j] < rdesc'[s].frame
      OBVIOUS
    <3>1. CASE s = rdh
      BY <1>7, <2>1, <2>3, <3>1
    <3>2. CASE s # rdh
      BY <2>3, <3>2 DEF OrderIInv, Ordered, Layered
    <3>. QED
      BY <3>1, <3>2
  <2>5. isr # "idle" => \A i \in 1 .. Len(buf), s \in Pending' : buf[i] < rdesc'[s].frame
    <3>. SUFFICES ASSUME isr # "idle", NEW i \in 1 .. Len(buf), NEW s \in Pending'
                  PROVE  buf[i] < rdesc'[s].frame
      OBVIOUS
    <3>1. CASE s = rdh
      BY <1>7, <2>2, <2>3, <3>1
    <3>2. CASE s # rdh
      BY <2>3, <3>2 DEF OrderIInv, Ordered, Layered
    <3>. QED
      BY <3>1, <3>2
  <2>. QED
    BY <1>2, <2>4, <2>5 DEF OrderIInv, Ordered, Layered
<1>11. Arrived'
  <2>1. \A s \in Pending' : rdesc'[s].frame <= arrived + 1
    BY <1>3, <1>4, <1>7, <1>8 DEF OrderIInv, Ordered, Arrived
  <2>. QED
    BY <1>1, <1>2, <2>1 DEF OrderIInv, Ordered, Arrived, TypeOK
<1>12. RxDeliveredInOrder' /\ BufOrdered'
  BY <1>2 DEF OrderIInv, Ordered, RxDeliveredInOrder, BufOrdered
<1>. QED
  BY <1>9, <1>10, <1>11, <1>12 DEF Ordered

\* A frame dropped on a full ring changes only the arrival count.
LEMMA DeviceDropOrdered ==
    ASSUME OrderIInv, DeviceDrop
    PROVE  Ordered'
BY OrderedFrameUnchanged DEF DeviceDrop, OrderIInv, IInv, TypeOK
\* IsrStart empties the batch and leaves the ring and the delivered frames.
LEMMA IsrStartOrdered ==
    ASSUME OrderIInv, IsrStart
    PROVE  Ordered'
<1>1. buf' = <<>> /\ UNCHANGED <<rdesc, rdh, rdt, arrived, delivered>>
  BY DEF IsrStart
<1>2. Pending' = Pending /\ \A s \in Slot : Dist(s)' = Dist(s)
  BY <1>1 DEF Pending, Dist
<1>3. Pending \subseteq Slot
  BY DEF Pending
<1>. HIDE DEF Pending, Dist
<1>4. RingOrdered'
  BY <1>1, <1>2, <1>3 DEF OrderIInv, Ordered, RingOrdered
<1>5. RxDeliveredInOrder' /\ BufOrdered' /\ Layered' /\ Arrived'
  BY <1>1, <1>2 DEF OrderIInv, Ordered, RxDeliveredInOrder, BufOrdered, Layered, Arrived
<1>. QED
  BY <1>4, <1>5 DEF Ordered
\* Receive takes the oldest pending frame, which exceeds its batch and
\* precedes the rest of the ring.
LEMMA RxNextOrdered ==
    ASSUME OrderIInv, RxNext
    PROVE  Ordered'
<1>. DEFINE tail == (rdt + 1) % RxSlots
            d    == rdesc[tail]
<1>0. /\ TypeOK /\ tail \in Slot /\ d \in Descriptor
      /\ isr = "receiving"
      /\ UNCHANGED <<rdh, arrived, delivered>>
  BY NextSlot DEF OrderIInv, IInv, TypeOK, RxNext
<1>. HIDE DEF tail, d
<1>1. CASE UNCHANGED <<rdesc, rdt, buf>> /\ isr' \in {"receiving", "handling"}
  BY <1>0, <1>1, OrderedFrameUnchanged DEF OrderIInv, TypeOK
<1>2. CASE /\ d.dd
           /\ d.kind = "good"
           /\ Len(buf) < FrameBufferMax
           /\ buf' = Append(buf, d.frame)
           /\ rdesc' = [rdesc EXCEPT ![tail] = [frame |-> d.frame, kind |-> d.kind, dd |-> FALSE]]
           /\ rdt' = tail
           /\ UNCHANGED <<isr, ret, trap>>
  <2>. DEFINE f0 == d.frame
  <2>1. tail \in Pending
    BY <1>0, <1>2 DEF OrderIInv, IInv, RxRingOwnership, d
  <2>2. \A s \in Slot : rdesc'[s].frame = rdesc[s].frame
    BY <1>0, <1>2 DEF TypeOK, d
  <2>3. \A s \in Slot : s \in Pending' <=> (s # tail /\ s \in Pending)
    <3>1. (tail - rdt - 1) % RxSlots < (rdh - rdt - 1) % RxSlots
      BY <2>1 DEF Pending
    <3>. QED
      BY <1>0, <1>2, <3>1, ReleaseShift DEF TypeOK, Pending, tail
  <2>4. \A s \in Slot : s # tail => /\ Dist(s)' = Dist(s) - 1
                                   /\ Dist(s) \in 1 .. RxSlots - 1
    <3>. SUFFICES ASSUME NEW s \in Slot, s # tail
                  PROVE  Dist(s)' = Dist(s) - 1 /\ Dist(s) \in 1 .. RxSlots - 1
      OBVIOUS
    <3>1. Dist(s)' = Dist(s) - 1
      BY <1>0, <1>2, DistShift DEF TypeOK, Dist, tail
    <3>2. Dist(s)' \in 0 .. RxSlots - 1 /\ Dist(s) \in 0 .. RxSlots - 1
      <4>1. rdt' \in Slot /\ rdt \in Slot
        BY <1>0, <1>2 DEF TypeOK
      <4>2. (s - rdt' - 1) % RxSlots \in 0 .. RxSlots - 1
        BY <4>1, DistRange
      <4>3. (s - rdt - 1) % RxSlots \in 0 .. RxSlots - 1
        BY <4>1, DistRange
      <4>. QED
        BY <4>2, <4>3 DEF Dist
    <3>. QED
      BY <3>1, <3>2
  <2>5. Dist(tail) = 0
    <3>1. rdt \in Slot
      BY <1>0 DEF TypeOK
    <3>2. tail = IF rdt = RxSlots - 1 THEN 0 ELSE rdt + 1
      BY <3>1, NextSlot DEF tail
    <3>. QED
      BY <3>1, <3>2 DEF Dist, Slot
  <2>6. buf \in Seq(1 .. MaxFrames) /\ f0 \in 1 .. MaxFrames
    BY <1>0, <1>2, <2>1 DEF OrderIInv, IInv, TypeOK, FilledHasFrame, d
  <2>7. /\ Len(buf') = Len(buf) + 1
        /\ \A i \in 1 .. Len(buf) : buf'[i] = buf[i]
        /\ buf'[Len(buf) + 1] = f0
    BY <1>2, <2>6, AppendProperties
  <2>8. Pending' \subseteq Pending /\ Pending \subseteq Slot /\ Pending' \subseteq Slot
    BY <2>3 DEF Pending
  <2>9. \A s \in Pending' : f0 < rdesc[s].frame
    <3>. SUFFICES ASSUME NEW s \in Pending' PROVE f0 < rdesc[s].frame
      OBVIOUS
    <3>1. s \in Pending /\ s # tail /\ Dist(tail) < Dist(s)
      BY <2>3, <2>4, <2>5, <2>8
    <3>. QED
      BY <2>1, <3>1 DEF OrderIInv, Ordered, RingOrdered, d
  <2>10. RingOrdered'
    <3>. SUFFICES ASSUME NEW s1 \in Pending', NEW s2 \in Pending', Dist(s1)' < Dist(s2)'
                  PROVE  rdesc'[s1].frame < rdesc'[s2].frame
      BY DEF RingOrdered
    <3>1. s1 \in Pending /\ s2 \in Pending /\ s1 # tail /\ s2 # tail
      BY <2>3, <2>8
    <3>2. Dist(s1) < Dist(s2)
      BY <2>4, <2>8, <3>1
    <3>. QED
      BY <2>2, <2>8, <3>1, <3>2 DEF OrderIInv, Ordered, RingOrdered
  <2>11. BufOrdered'
    <3>. SUFFICES ASSUME NEW i \in 1 .. Len(buf'), NEW j \in 1 .. Len(buf'), i < j
                  PROVE  buf'[i] < buf'[j]
      BY DEF BufOrdered
    <3>1. CASE j <= Len(buf)
      BY <2>6, <2>7, <3>1 DEF OrderIInv, Ordered, BufOrdered
    <3>2. CASE j = Len(buf) + 1
      BY <1>0, <2>1, <2>6, <2>7, <3>2 DEF OrderIInv, Ordered, Layered, d
    <3>. QED
      BY <2>6, <2>7, <3>1, <3>2
  <2>12. Layered'
    <3>1. \A s \in Pending', j \in 1 .. Len(delivered) : delivered[j] < rdesc'[s].frame
      BY <1>0, <2>2, <2>8 DEF OrderIInv, Ordered, Layered
    <3>2. \A i \in 1 .. Len(buf'), j \in 1 .. Len(delivered) : delivered[j] < buf'[i]
      <4>. SUFFICES ASSUME NEW i \in 1 .. Len(buf'), NEW j \in 1 .. Len(delivered)
                    PROVE  delivered[j] < buf'[i]
        OBVIOUS
      <4>1. CASE i <= Len(buf)
        BY <1>0, <2>6, <2>7, <4>1 DEF OrderIInv, Ordered, Layered
      <4>2. CASE i = Len(buf) + 1
        BY <1>0, <2>1, <2>7, <4>2 DEF OrderIInv, Ordered, Layered, d
      <4>. QED
        BY <2>6, <2>7, <4>1, <4>2
    <3>3. \A i \in 1 .. Len(buf'), s \in Pending' : buf'[i] < rdesc'[s].frame
      <4>. SUFFICES ASSUME NEW i \in 1 .. Len(buf'), NEW s \in Pending'
                    PROVE  buf'[i] < rdesc'[s].frame
        OBVIOUS
      <4>1. CASE i <= Len(buf)
        BY <1>0, <2>2, <2>6, <2>7, <2>8, <4>1 DEF OrderIInv, Ordered, Layered
      <4>2. CASE i = Len(buf) + 1
        BY <2>2, <2>7, <2>8, <2>9, <4>2
      <4>. QED
        BY <2>6, <2>7, <4>1, <4>2
    <3>. QED
      BY <1>0, <1>2, <3>1, <3>2, <3>3 DEF Layered
  <2>13. Arrived'
    <3>1. \A s \in Pending' : rdesc'[s].frame <= arrived
      BY <1>0, <2>2, <2>8 DEF OrderIInv, Ordered, Arrived
    <3>2. \A i \in 1 .. Len(buf') : buf'[i] <= arrived
      <4>. SUFFICES ASSUME NEW i \in 1 .. Len(buf') PROVE buf'[i] <= arrived
        OBVIOUS
      <4>1. CASE i <= Len(buf)
        BY <1>0, <2>6, <2>7, <4>1 DEF OrderIInv, Ordered, Arrived
      <4>2. CASE i = Len(buf) + 1
        BY <1>0, <2>1, <2>7, <4>2 DEF OrderIInv, Ordered, Arrived, d
      <4>. QED
        BY <2>6, <2>7, <4>1, <4>2
    <3>. QED
      BY <1>0, <1>2, <3>1, <3>2 DEF OrderIInv, Ordered, Arrived
  <2>14. RxDeliveredInOrder'
    BY <1>0 DEF OrderIInv, Ordered, RxDeliveredInOrder
  <2>. QED
    BY <2>10, <2>11, <2>12, <2>13, <2>14 DEF Ordered
<1>. QED
  BY <1>1, <1>2 DEF RxNext, tail, d

\* Appending an increasing batch whose frames all exceed the delivered ones
\* keeps the delivered frames increasing (FrameBufferHandler's loop).
LEMMA ConcatOrdered ==
    ASSUME NEW D \in Seq(Int), NEW B \in Seq(Int),
           \A i, j \in 1 .. Len(D) : i < j => D[i] < D[j],
           \A i, j \in 1 .. Len(B) : i < j => B[i] < B[j],
           \A i \in 1 .. Len(D), j \in 1 .. Len(B) : D[i] < B[j]
    PROVE  \A i, j \in 1 .. Len(D \o B) : i < j => (D \o B)[i] < (D \o B)[j]
<1>1. /\ Len(D \o B) = Len(D) + Len(B)
      /\ \A i \in 1 .. Len(D) + Len(B) :
            (D \o B)[i] = IF i <= Len(D) THEN D[i] ELSE B[i - Len(D)]
  BY ConcatProperties
<1>. SUFFICES ASSUME NEW i \in 1 .. Len(D \o B), NEW j \in 1 .. Len(D \o B), i < j
              PROVE  (D \o B)[i] < (D \o B)[j]
  OBVIOUS
<1>2. CASE j <= Len(D)
  BY <1>1, <1>2
<1>3. CASE i <= Len(D) /\ j > Len(D)
  BY <1>1, <1>3
<1>4. CASE i > Len(D)
  <2>1. i - Len(D) \in 1 .. Len(B) /\ j - Len(D) \in 1 .. Len(B)
        /\ i - Len(D) < j - Len(D)
    BY <1>1, <1>4
  <2>2. (D \o B)[i] = B[i - Len(D)] /\ (D \o B)[j] = B[j - Len(D)]
    BY <1>1, <1>4
  <2>3. B[i - Len(D)] < B[j - Len(D)]
    BY <2>1
  <2>. QED
    BY <2>2, <2>3
<1>5. Len(D) \in Nat /\ i \in Nat /\ j \in Nat
  OBVIOUS
<1>. QED
  BY <1>2, <1>3, <1>4, <1>5

\* Delivering the finished batch (all of it, or nothing on an error return)
\* appends frames above every delivered one and below every pending one.
LEMMA IsrFinishOrdered ==
    ASSUME OrderIInv, IsrFinish
    PROVE  Ordered'
<1>1. CASE ~(ret > 0)
  <2>1. UNCHANGED <<rdesc, rdh, rdt, buf, delivered, arrived>> /\ isr' = "idle"
    BY <1>1 DEF IsrFinish
  <2>2. Ordered /\ TypeOK /\ arrived \in Nat
    BY DEF OrderIInv, IInv, TypeOK
  <2>. QED
    BY <2>1, <2>2, OrderedFrameUnchanged
<1>2. CASE ret > 0
  <2>1. buf \in Seq(1 .. MaxFrames) /\ delivered \in Seq(1 .. MaxFrames)
        /\ isr = "handling" /\ isr' = "idle"
        /\ UNCHANGED <<rdesc, rdh, rdt, arrived, buf>>
    BY DEF OrderIInv, IInv, TypeOK, IsrFinish
  <2>2. ret = Len(buf)
    BY <1>2 DEF OrderIInv, IInv, RetIsBatch, IsrFinish
  <2>3. delivered' = delivered \o buf
    BY <1>2, <2>1, <2>2, SubSeqFull DEF IsrFinish
  <2>4. /\ Len(delivered') = Len(delivered) + Len(buf)
        /\ \A j \in 1 .. Len(delivered') :
              delivered'[j] = IF j <= Len(delivered) THEN delivered[j]
                              ELSE buf[j - Len(delivered)]
    BY <2>1, <2>3, ConcatProperties
  <2>5. Pending' = Pending /\ \A s \in Slot : Dist(s)' = Dist(s)
    BY <2>1 DEF Pending, Dist
  <2>6. Pending \subseteq Slot
    BY DEF Pending
  <2>. HIDE DEF Pending, Dist
  <2>7. RxDeliveredInOrder'
    <3>1. buf \in Seq(Int) /\ delivered \in Seq(Int)
      BY <2>1
    <3>2. \A i \in 1 .. Len(delivered), j \in 1 .. Len(buf) : delivered[i] < buf[j]
      BY <2>1 DEF OrderIInv, Ordered, Layered
    <3>. QED
      BY <2>3, <3>1, <3>2, ConcatOrdered
         DEF OrderIInv, Ordered, RxDeliveredInOrder, BufOrdered
  <2>8. RingOrdered' /\ BufOrdered'
    BY <2>1, <2>5, <2>6 DEF OrderIInv, Ordered, RingOrdered, BufOrdered
  <2>9. Layered'
    <3>1. \A s \in Pending, j \in 1 .. Len(delivered) : delivered[j] < rdesc[s].frame
      BY DEF OrderIInv, Ordered, Layered
    <3>2. \A s \in Pending, i \in 1 .. Len(buf) : buf[i] < rdesc[s].frame
      BY <2>1 DEF OrderIInv, Ordered, Layered
    <3>3. \A s \in Pending', j \in 1 .. Len(delivered') : delivered'[j] < rdesc'[s].frame
      <4>. SUFFICES ASSUME NEW s \in Pending, NEW j \in 1 .. Len(delivered')
                    PROVE  delivered'[j] < rdesc[s].frame
        BY <2>1, <2>5
      <4>1. CASE j <= Len(delivered)
        BY <2>4, <3>1, <4>1
      <4>2. CASE j > Len(delivered)
        <5>1. j - Len(delivered) \in 1 .. Len(buf)
          BY <2>1, <2>4, <4>2
        <5>. QED
          BY <2>4, <3>2, <4>2, <5>1
      <4>. QED
        BY <4>1, <4>2
    <3>. QED
      BY <2>1, <3>3 DEF Layered
  <2>10. Arrived'
    <3>1. \A j \in 1 .. Len(delivered) : delivered[j] <= arrived
      BY DEF OrderIInv, Ordered, Arrived
    <3>2. \A i \in 1 .. Len(buf) : buf[i] <= arrived
      BY <2>1 DEF OrderIInv, Ordered, Arrived
    <3>3. \A j \in 1 .. Len(delivered') : delivered'[j] <= arrived'
      <4>. SUFFICES ASSUME NEW j \in 1 .. Len(delivered')
                    PROVE  delivered'[j] <= arrived
        BY <2>1
      <4>1. CASE j <= Len(delivered)
        BY <2>4, <3>1, <4>1
      <4>2. CASE j > Len(delivered)
        <5>1. j - Len(delivered) \in 1 .. Len(buf)
          BY <2>1, <2>4, <4>2
        <5>. QED
          BY <2>4, <3>2, <4>2, <5>1
      <4>. QED
        BY <4>1, <4>2
    <3>4. \A s \in Pending' : rdesc'[s].frame <= arrived'
      BY <2>1, <2>5 DEF OrderIInv, Ordered, Arrived
    <3>. QED
      BY <2>1, <3>3, <3>4 DEF Arrived
  <2>. QED
    BY <2>7, <2>8, <2>9, <2>10 DEF Ordered
<1>. QED
  BY <1>1, <1>2

\* Halting, quiescence and stuttering change nothing the order is about.
LEMMA StutterOrdered ==
    ASSUME OrderIInv, Halted \/ Quiescent \/ UNCHANGED vars
    PROVE  Ordered'
BY OrderedFrameUnchanged DEF Halted, Quiescent, vars, OrderIInv, IInv, TypeOK

\* At SetupPacketReception no slot is pending and nothing is buffered or delivered.
LEMMA InitOrdered == Init => Ordered
<1>. SUFFICES ASSUME Init PROVE Ordered
  OBVIOUS
<1>1. Pending = {}
  <2>1. (rdh - rdt - 1) % RxSlots = 0
    BY DEF Init
  <2>2. \A s \in Slot : (s - rdt - 1) % RxSlots \in Nat
    BY DEF Init, Slot
  <2>. QED
    BY <2>1, <2>2 DEF Pending
<1>2. buf = <<>> /\ delivered = <<>>
  BY DEF Init
<1>. QED
  BY <1>1, <1>2 DEF Ordered, RxDeliveredInOrder, RingOrdered, BufOrdered, Layered, Arrived

\* Every step of the driver and the device keeps the strengthened invariant.
LEMMA NextOrderIInv == OrderIInv /\ [Next]_vars => OrderIInv'
<1>. SUFFICES ASSUME OrderIInv, [Next]_vars PROVE OrderIInv'
  OBVIOUS
<1>1. IInv'
  BY NextIInv DEF OrderIInv
<1>2. Ordered'
  BY DeviceReceiveOrdered, DeviceDropOrdered, IsrStartOrdered, RxNextOrdered,
     IsrFinishOrdered, StutterOrdered DEF Next
<1>. QED
  BY <1>1, <1>2 DEF OrderIInv

(***************************************************************************)
(* Receive and FrameBufferHandler hand the frames to the stack in the     *)
(* order the device accepted them, for every ring size, frame count and   *)
(* buffer size: the batch is copied from RDT + 1 onwards, and each batch  *)
(* is delivered whole before the next interrupt starts another.           *)
(***************************************************************************)
THEOREM RxInOrder == Spec => []RxDeliveredInOrder
<1>1. Init => OrderIInv
  BY InitIInv, InitOrdered DEF OrderIInv
<1>2. OrderIInv /\ [Next]_vars => OrderIInv'
  BY NextOrderIInv
<1>3. OrderIInv => RxDeliveredInOrder
  BY DEF OrderIInv, Ordered
<1>. QED
  BY <1>1, <1>2, <1>3, PTL DEF Spec

-----------------------------------------------------------------------------
(* No accepted frame is lost.                                              *)

\* Where the accepted frame f is: in a pending slot, in the batch of the
\* Receive in progress, delivered, or discarded with an aborted batch.
Kept(f) ==
    \/ \E s \in Pending : rdesc[s].frame = f
    \/ isr # "idle" /\ \E i \in 1 .. Len(buf) : buf[i] = f
    \/ \E i \in 1 .. Len(delivered) : delivered[i] = f
    \/ f \in discarded

\* A frame the device writes at RDH becomes pending there, and the frames
\* already pending keep their slots, since RDH is not one of them.
LEMMA DeviceReceiveLost ==
    ASSUME LostIInv, DeviceReceive
    PROVE  RxNoFrameLost'
<1>. PICK k \in FrameKinds :
        rdesc' = [rdesc EXCEPT ![rdh] = [frame |-> arrived + 1, kind |-> k, dd |-> TRUE]]
  BY DEF DeviceReceive
<1>1. TypeOK
  BY DEF LostIInv, IInv
<1>2. /\ rdt' = rdt /\ arrived' = arrived + 1 /\ arrived \in Nat
      /\ UNCHANGED <<dropped, isr, buf, delivered, discarded>>
      /\ rdh \notin Pending /\ rdh \in Slot
  BY DistFacts, <1>1 DEF DeviceReceive, TypeOK
<1>3. \A s \in Slot : s \in Pending' <=> (s = rdh \/ s \in Pending)
  BY <1>1, DeviceShift DEF TypeOK, DeviceReceive, Pending
<1>4. \A s \in Slot : rdesc'[s].frame = IF s = rdh THEN arrived + 1 ELSE rdesc[s].frame
  BY <1>1 DEF TypeOK
<1>5. Pending \subseteq Slot /\ Pending' \subseteq Slot
  BY DEF Pending
<1>. SUFFICES ASSUME NEW f \in (1 .. arrived') \ dropped' PROVE Kept(f)'
  BY DEF RxNoFrameLost, Kept
<1>6. CASE f = arrived + 1
  <2>1. rdh \in Pending' /\ rdesc'[rdh].frame = f
    BY <1>2, <1>3, <1>4, <1>6
  <2>. QED
    BY <2>1 DEF Kept
<1>7. CASE f # arrived + 1
  <2>1. Kept(f)
    BY <1>2, <1>7 DEF LostIInv, RxNoFrameLost, Kept
  <2>2. CASE \E s \in Pending : rdesc[s].frame = f
    <3>1. PICK s \in Pending : rdesc[s].frame = f
      BY <2>2
    <3>2. s \in Pending' /\ rdesc'[s].frame = f
      BY <1>2, <1>3, <1>4, <1>5, <3>1
    <3>. QED
      BY <3>2 DEF Kept
  <2>3. CASE ~\E s \in Pending : rdesc[s].frame = f
    BY <1>2, <2>1, <2>3 DEF Kept
  <2>. QED
    BY <2>2, <2>3
<1>. QED
  BY <1>6, <1>7

\* A dropped frame is accounted for; nothing else moves.
LEMMA DeviceDropLost ==
    ASSUME LostIInv, DeviceDrop
    PROVE  RxNoFrameLost'
<1>1. arrived \in Nat
  BY DEF LostIInv, IInv, TypeOK
<1>2. \A f \in (1 .. arrived') \ dropped' : f \in (1 .. arrived) \ dropped
  BY <1>1 DEF DeviceDrop
<1>3. \A f \in Nat : Kept(f)' = Kept(f)
  BY DEF DeviceDrop, Kept, Pending
<1>. QED
  BY <1>2, <1>3 DEF LostIInv, RxNoFrameLost, Kept

\* The batch IsrStart empties belongs to no Receive: it was already
\* delivered or discarded by the IsrFinish before it.
LEMMA IsrStartLost ==
    ASSUME LostIInv, IsrStart
    PROVE  RxNoFrameLost'
<1>. SUFFICES ASSUME NEW f \in (1 .. arrived') \ dropped' PROVE Kept(f)'
  BY DEF RxNoFrameLost, Kept
<1>1. Kept(f)
  BY DEF IsrStart, LostIInv, RxNoFrameLost, Kept
<1>. QED
  BY <1>1 DEF IsrStart, Kept, Pending

\* Receive moves the frame at RDT + 1 from the ring to its batch; the
\* other outcomes of its loop leave ring and batch alone.
LEMMA RxNextLost ==
    ASSUME LostIInv, RxNext
    PROVE  RxNoFrameLost'
<1>. DEFINE tail == (rdt + 1) % RxSlots
            d    == rdesc[tail]
<1>0. /\ TypeOK /\ tail \in Slot /\ d \in Descriptor
      /\ isr = "receiving"
      /\ UNCHANGED <<rdh, arrived, dropped, delivered, discarded>>
  BY NextSlot DEF LostIInv, IInv, TypeOK, RxNext
<1>. HIDE DEF tail, d
<1>. SUFFICES ASSUME NEW f \in (1 .. arrived') \ dropped' PROVE Kept(f)'
  BY DEF RxNoFrameLost, Kept
<1>9. Kept(f)
  BY <1>0 DEF LostIInv, RxNoFrameLost, Kept
<1>1. CASE UNCHANGED <<rdesc, rdt, buf>> /\ isr' \in {"receiving", "handling"}
  BY <1>0, <1>1, <1>9 DEF Kept, Pending
<1>2. CASE /\ d.dd
           /\ d.kind = "good"
           /\ Len(buf) < FrameBufferMax
           /\ buf' = Append(buf, d.frame)
           /\ rdesc' = [rdesc EXCEPT ![tail] = [frame |-> d.frame, kind |-> d.kind, dd |-> FALSE]]
           /\ rdt' = tail
           /\ UNCHANGED <<isr, ret, trap>>
  <2>1. tail \in Pending
    BY <1>0, <1>2 DEF LostIInv, IInv, RxRingOwnership, d
  <2>2. \A s \in Slot : rdesc'[s].frame = rdesc[s].frame
    BY <1>0, <1>2 DEF TypeOK, d
  <2>3. \A s \in Slot : s \in Pending' <=> (s # tail /\ s \in Pending)
    <3>1. (tail - rdt - 1) % RxSlots < (rdh - rdt - 1) % RxSlots
      BY <2>1 DEF Pending
    <3>. QED
      BY <1>0, <1>2, <3>1, ReleaseShift DEF TypeOK, Pending, tail
  <2>4. /\ buf \in Seq(1 .. MaxFrames)
        /\ Len(buf') = Len(buf) + 1
        /\ buf'[Len(buf) + 1] = d.frame
        /\ \A i \in 1 .. Len(buf) : buf'[i] = buf[i]
    <3>1. buf \in Seq(1 .. MaxFrames) /\ d.frame \in 1 .. MaxFrames
      BY <1>0, <1>2, <2>1 DEF LostIInv, IInv, TypeOK, FilledHasFrame, d
    <3>. QED
      BY <1>2, <3>1, AppendProperties
  <2>5. Pending \subseteq Slot
    BY DEF Pending
  <2>6. isr' # "idle"
    BY <1>0, <1>2
  <2>7. CASE \E s \in Pending : rdesc[s].frame = f
    <3>1. PICK s \in Pending : rdesc[s].frame = f
      BY <2>7
    <3>2. CASE s = tail
      <4>1. buf'[Len(buf) + 1] = f /\ Len(buf) + 1 \in 1 .. Len(buf')
        BY <2>4, <3>1, <3>2 DEF d
      <4>. QED
        BY <2>6, <4>1 DEF Kept
    <3>3. CASE s # tail
      <4>1. s \in Pending' /\ rdesc'[s].frame = f
        BY <2>2, <2>3, <2>5, <3>1, <3>3
      <4>. QED
        BY <4>1 DEF Kept
    <3>. QED
      BY <3>2, <3>3
  <2>8. CASE isr # "idle" /\ \E i \in 1 .. Len(buf) : buf[i] = f
    <3>1. PICK i \in 1 .. Len(buf) : buf[i] = f
      BY <2>8
    <3>2. i \in 1 .. Len(buf') /\ buf'[i] = f
      BY <2>4, <3>1
    <3>. QED
      BY <2>6, <3>2 DEF Kept
  <2>9. CASE \/ \E i \in 1 .. Len(delivered) : delivered[i] = f
             \/ f \in discarded
    BY <1>0, <2>9 DEF Kept
  <2>. QED
    BY <1>9, <2>7, <2>8, <2>9 DEF Kept
<1>. QED
  BY <1>1, <1>2 DEF RxNext, tail, d

\* IsrFinish hands the whole batch on when Receive returned its size, and
\* records it as discarded on an error return; an empty batch has nothing
\* to hand on.
LEMMA IsrFinishLost ==
    ASSUME LostIInv, IsrFinish
    PROVE  RxNoFrameLost'
<1>0. /\ buf \in Seq(1 .. MaxFrames) /\ delivered \in Seq(1 .. MaxFrames)
      /\ isr = "handling"
      /\ UNCHANGED <<rdesc, rdh, rdt, arrived, dropped, buf>>
      /\ (ret = Len(buf) \/ ret = -1)
  BY DEF LostIInv, IInv, TypeOK, IsrFinish, RetIsBatch
<1>. SUFFICES ASSUME NEW f \in (1 .. arrived') \ dropped' PROVE Kept(f)'
  BY DEF RxNoFrameLost, Kept
<1>1. Kept(f)
  BY <1>0 DEF LostIInv, RxNoFrameLost, Kept
<1>2. Pending' = Pending
  BY <1>0 DEF Pending
<1>3. /\ \A i \in 1 .. Len(delivered) : i \in 1 .. Len(delivered') /\ delivered'[i] = delivered[i]
      /\ discarded \subseteq discarded'
  <2>1. CASE ret > 0
    <3>1. delivered' = delivered \o buf
      BY <1>0, <2>1, SubSeqFull DEF IsrFinish
    <3>2. discarded' = discarded
      BY <2>1 DEF IsrFinish, LostIInv, IInv, TypeOK
    <3>3. /\ Len(delivered') = Len(delivered) + Len(buf)
          /\ \A j \in 1 .. Len(delivered) + Len(buf) :
                delivered'[j] = IF j <= Len(delivered) THEN delivered[j]
                                ELSE buf[j - Len(delivered)]
      BY <1>0, <3>1, ConcatProperties
    <3>4. \A j \in 1 .. Len(delivered) : j \in 1 .. Len(delivered) + Len(buf)
      BY <1>0
    <3>. QED
      BY <3>2, <3>3, <3>4
  <2>2. CASE ~(ret > 0)
    BY <2>2 DEF IsrFinish
  <2>. QED
    BY <2>1, <2>2
<1>4. CASE \E i \in 1 .. Len(buf) : buf[i] = f
  <2>1. PICK i \in 1 .. Len(buf) : buf[i] = f
    BY <1>4
  <2>2. CASE ret = Len(buf) /\ ret > 0
    <3>1. delivered' = delivered \o buf
      BY <1>0, <2>2, SubSeqFull DEF IsrFinish
    <3>2. /\ Len(delivered') = Len(delivered) + Len(buf)
          /\ \A j \in 1 .. Len(delivered) + Len(buf) :
                delivered'[j] = IF j <= Len(delivered) THEN delivered[j]
                                ELSE buf[j - Len(delivered)]
      BY <1>0, <3>1, ConcatProperties
    <3>3. Len(delivered) + i \in 1 .. Len(delivered) + Len(buf)
          /\ ~(Len(delivered) + i <= Len(delivered))
          /\ (Len(delivered) + i) - Len(delivered) = i
      BY <1>0, <2>1
    <3>4. Len(delivered) + i \in 1 .. Len(delivered') /\ delivered'[Len(delivered) + i] = f
      BY <2>1, <3>2, <3>3
    <3>. QED
      BY <3>4 DEF Kept
  <2>3. CASE ret = Len(buf) /\ ~(ret > 0)
    BY <2>1, <2>3
  <2>4. CASE ret = -1
    <3>1. f \in discarded'
      BY <2>1, <2>4 DEF IsrFinish
    <3>. QED
      BY <3>1 DEF Kept
  <2>. QED
    BY <1>0, <2>2, <2>3, <2>4
<1>5. CASE ~\E i \in 1 .. Len(buf) : buf[i] = f
  <2>1. CASE \E s \in Pending : rdesc[s].frame = f
    BY <1>0, <1>2, <2>1 DEF Kept
  <2>2. CASE \E i \in 1 .. Len(delivered) : delivered[i] = f
    BY <1>3, <2>2 DEF Kept
  <2>3. CASE f \in discarded
    BY <1>3, <2>3 DEF Kept
  <2>. QED
    BY <1>1, <1>5, <2>1, <2>2, <2>3 DEF Kept
<1>. QED
  BY <1>4, <1>5

\* Halting, quiescence and stuttering move no frame.
LEMMA StutterLost ==
    ASSUME LostIInv, Halted \/ Quiescent \/ UNCHANGED vars
    PROVE  RxNoFrameLost'
<1>1. UNCHANGED vars
  BY DEF Halted, Quiescent
<1>. QED
  BY <1>1 DEF vars, LostIInv, RxNoFrameLost, Pending

\* Every step keeps the invariant that no frame is lost, with IInv.
LEMMA NextLostIInv == LostIInv /\ [Next]_vars => LostIInv'
<1>. SUFFICES ASSUME LostIInv, [Next]_vars PROVE LostIInv'
  OBVIOUS
<1>1. IInv'
  BY NextIInv DEF LostIInv
<1>2. RxNoFrameLost'
  BY DeviceReceiveLost, DeviceDropLost, IsrStartLost, RxNextLost,
     IsrFinishLost, StutterLost DEF Next
<1>. QED
  BY <1>1, <1>2 DEF LostIInv

(***************************************************************************)
(* Every frame the device accepted is, at every moment, in a pending slot, *)
(* in the batch of the Receive in progress, delivered to the stack, or     *)
(* discarded with a batch an error return aborted, for every ring size,    *)
(* frame count and buffer size: Receive releases a slot only after copying *)
(* its frame, and IsrFinish hands on or discards the whole batch.          *)
(***************************************************************************)
THEOREM RxNoLoss == Spec => []RxNoFrameLost
<1>1. Init => LostIInv
  <2>1. Init => RxNoFrameLost
    BY DEF Init, RxNoFrameLost
  <2>. QED
    BY InitIInv, <2>1 DEF LostIInv
<1>2. LostIInv /\ [Next]_vars => LostIInv'
  BY NextLostIInv
<1>3. LostIInv => RxNoFrameLost
  BY DEF LostIInv
<1>. QED
  BY <1>1, <1>2, <1>3, PTL DEF Spec

=============================================================================
