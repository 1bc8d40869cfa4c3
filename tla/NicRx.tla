------------------------------- MODULE NicRx -------------------------------
(***************************************************************************)
(* The receive side of the Intel 8254x driver (src/kernel/               *)
(* UNetworkAdapter.cc): the receive descriptor ring, the device that     *)
(* fills it from its head RDH up to the tail RDT, and the receive         *)
(* interrupt Intel8254xInterrupt, which checks the interrupt cause        *)
(* (HasInterrupt), drains the ring into GlobalEtherFrameBuffer (Receive), *)
(* clears the cause (ClearInterrupt) and hands the frames to              *)
(* FrameBufferHandler.                                                     *)
(*                                                                         *)
(* A frame is its arrival number.  Its kind is "good", or "bad" for the   *)
(* three descriptors Receive rejects: shorter than 60 bytes, without EOP, *)
(* or with an error bit.  The interrupt runs on one CPU (the IRQ is       *)
(* routed to CPU ncpu-1) and is not reentered, while the device runs      *)
(* concurrently with it; so Receive is split into one step per iteration *)
(* of its loop.                                                            *)
(***************************************************************************)
EXTENDS Integers, Sequences, FiniteSets

CONSTANTS
    RxSlots,        \* RDescLayoutMaxSize (16 in the code)
    MaxFrames,      \* bound on the frames arriving at the device
    FrameKinds,     \* the kinds of arriving frames: a subset of {"good", "bad"}
    FrameBufferMax  \* EtherFrameBufferMaxSize (180 in the code)

ASSUME NicRxAssumption ==
    /\ RxSlots \in Nat \ {0, 1}
    /\ MaxFrames \in Nat
    /\ FrameKinds \subseteq {"good", "bad"}
    /\ FrameBufferMax \in Nat

Slot == 0 .. RxSlots - 1

\* ReceiveDescriptorLayout, reduced to the frame in its buffer, whether
\* Receive accepts it, and the DD status bit.
Descriptor == [frame : 0 .. MaxFrames, kind : {"good", "bad"}, dd : BOOLEAN]

VARIABLES
    rdesc,      \* RDescLayout[0..RxSlots-1]
    rdh,        \* the RDH register (advanced by the device)
    rdt,        \* the RDT register
    icr,        \* the RXT0 cause bit of ICR
    arrived,    \* frames that have arrived at the device so far
    dropped,    \* frames the device dropped because it owned no descriptor
    isr,        \* where the interrupt handler is
    buf,        \* GlobalEtherFrameBuffer[0 .. BufferSize-1] of the current Receive
    ret,        \* the value Receive returned
    delivered,  \* history: the frames handed to FrameBufferHandler, in order
    discarded,  \* history: the frames of batches aborted by an error return
    trap        \* Receive wrote past the end of GlobalEtherFrameBuffer

vars == <<rdesc, rdh, rdt, icr, arrived, dropped, isr, buf, ret, delivered, discarded, trap>>

\* The slots holding frames the device has written and Receive has not yet
\* taken: the (RDH - RDT - 1) mod size slots that follow RDT.
Pending == {s \in Slot : (s - rdt - 1) % RxSlots < (rdh - rdt - 1) % RxSlots}

\* SetupPacketReception: default descriptors, RDH = 0, RDT = RDescLayoutMaxSize - 1.
Init ==
    /\ rdesc = [s \in Slot |-> [frame |-> 0, kind |-> "good", dd |-> FALSE]]
    /\ rdh = 0
    /\ rdt = RxSlots - 1
    /\ icr = FALSE
    /\ arrived = 0
    /\ dropped = {}
    /\ isr = "idle"
    /\ buf = <<>>
    /\ ret = 0
    /\ delivered = <<>>
    /\ discarded = {}
    /\ trap = FALSE

(***************************************************************************)
(* The device.  It owns the descriptors from RDH up to RDT - 1; a frame   *)
(* arriving while RDH = RDT finds none and is dropped.                     *)
(***************************************************************************)
DeviceReceive ==
    /\ ~trap
    /\ arrived < MaxFrames
    /\ rdh # rdt
    /\ \E k \in FrameKinds :
          rdesc' = [rdesc EXCEPT ![rdh] = [frame |-> arrived + 1, kind |-> k, dd |-> TRUE]]
    /\ rdh' = (rdh + 1) % RxSlots
    /\ icr' = TRUE
    /\ arrived' = arrived + 1
    /\ UNCHANGED <<rdt, dropped, isr, buf, ret, delivered, discarded, trap>>

DeviceDrop ==
    /\ ~trap
    /\ arrived < MaxFrames
    /\ rdh = rdt
    /\ arrived' = arrived + 1
    /\ dropped' = dropped \cup {arrived + 1}
    /\ UNCHANGED <<rdesc, rdh, rdt, icr, isr, buf, ret, delivered, discarded, trap>>

(***************************************************************************)
(* The interrupt handler.                                                  *)
(***************************************************************************)

\* Mutant: BufferSize is not reset, the buffer keeps the last call's frames.
IsrStartNoReset ==
    /\ ~trap
    /\ isr = "idle"
    /\ icr
    /\ icr' = FALSE
    /\ isr' = "receiving"
    /\ UNCHANGED <<rdesc, rdh, rdt, arrived, dropped, buf, ret, delivered, discarded, trap>>

\* if (Device->HasInterrupt()): reading ICR returns RXT0 and clears it;
\* Receive starts with BufferSize = 0.
IsrStart ==
    /\ ~trap
    /\ isr = "idle"
    /\ icr
    /\ icr' = FALSE
    /\ isr' = "receiving"
    /\ buf' = <<>>
    /\ UNCHANGED <<rdesc, rdh, rdt, arrived, dropped, ret, delivered, discarded, trap>>

\* Mutant: the DD test is dropped, any descriptor is taken.
RxNextNoDDCheck ==
    /\ ~trap
    /\ isr = "receiving"
    /\ LET tail == (rdt + 1) % RxSlots
           d    == rdesc[tail]
       IN  \/ /\ d.kind = "bad"
              /\ isr' = "handling"
              /\ ret' = -1
              /\ UNCHANGED <<rdesc, rdt, buf, trap>>
           \/ /\ d.kind = "good"
              /\ Len(buf) >= FrameBufferMax
              /\ trap' = TRUE
              /\ UNCHANGED <<rdesc, rdt, buf, isr, ret>>
           \/ /\ d.kind = "good"
              /\ Len(buf) < FrameBufferMax
              /\ buf' = Append(buf, d.frame)
              /\ rdesc' = [rdesc EXCEPT ![tail] = [frame |-> d.frame, kind |-> d.kind, dd |-> FALSE]]
              /\ rdt' = tail
              /\ UNCHANGED <<isr, ret, trap>>
    /\ UNCHANGED <<rdh, icr, arrived, dropped, delivered, discarded>>

\* Mutant: the slot is released without clearing its DD bit.
RxNextKeepDD ==
    /\ ~trap
    /\ isr = "receiving"
    /\ LET tail == (rdt + 1) % RxSlots
           d    == rdesc[tail]
       IN  \/ /\ ~d.dd
              /\ isr' = "handling"
              /\ ret' = Len(buf)
              /\ UNCHANGED <<rdesc, rdt, buf, trap>>
           \/ /\ d.dd
              /\ d.kind = "bad"
              /\ isr' = "handling"
              /\ ret' = -1
              /\ UNCHANGED <<rdesc, rdt, buf, trap>>
           \/ /\ d.dd
              /\ d.kind = "good"
              /\ Len(buf) >= FrameBufferMax
              /\ trap' = TRUE
              /\ UNCHANGED <<rdesc, rdt, buf, isr, ret>>
           \/ /\ d.dd
              /\ d.kind = "good"
              /\ Len(buf) < FrameBufferMax
              /\ buf' = Append(buf, d.frame)
              /\ rdt' = tail
              /\ UNCHANGED <<rdesc, isr, ret, trap>>
    /\ UNCHANGED <<rdh, icr, arrived, dropped, delivered, discarded>>

\* One iteration of Receive's loop on ReceiveTail = (RDT + 1) % size.
\*   DD clear: break, return BufferSize.
\*   a rejected descriptor: return the error code, the slot is kept.
\*   BufferSize = EtherFrameBufferMaxSize: FrameBuffer[BufferSize] is out
\*     of bounds.
\*   otherwise: copy the frame, clear DD, RDT = ReceiveTail.
RxNext ==
    /\ ~trap
    /\ isr = "receiving"
    /\ LET tail == (rdt + 1) % RxSlots
           d    == rdesc[tail]
       IN  \/ /\ ~d.dd
              /\ isr' = "handling"
              /\ ret' = Len(buf)
              /\ UNCHANGED <<rdesc, rdt, buf, trap>>
           \/ /\ d.dd
              /\ d.kind = "bad"
              /\ isr' = "handling"
              /\ ret' = -1
              /\ UNCHANGED <<rdesc, rdt, buf, trap>>
           \/ /\ d.dd
              /\ d.kind = "good"
              /\ Len(buf) >= FrameBufferMax
              /\ trap' = TRUE
              /\ UNCHANGED <<rdesc, rdt, buf, isr, ret>>
           \/ /\ d.dd
              /\ d.kind = "good"
              /\ Len(buf) < FrameBufferMax
              /\ buf' = Append(buf, d.frame)
              /\ rdesc' = [rdesc EXCEPT ![tail] = [frame |-> d.frame, kind |-> d.kind, dd |-> FALSE]]
              /\ rdt' = tail
              /\ UNCHANGED <<isr, ret, trap>>
    /\ UNCHANGED <<rdh, icr, arrived, dropped, delivered, discarded>>

\* Mutant: a single received frame is not handed on.
IsrFinishOffByOne ==
    /\ isr = "handling"
    /\ icr' = FALSE
    /\ delivered' = IF ret > 1 THEN delivered \o SubSeq(buf, 1, ret) ELSE delivered
    /\ discarded' = IF ret < 0 THEN discarded \cup {buf[i] : i \in 1 .. Len(buf)} ELSE discarded
    /\ isr' = "idle"
    /\ UNCHANGED <<rdesc, rdh, rdt, arrived, dropped, buf, ret, trap>>

\* ClearInterrupt reads ICR again, clearing RXT0.  The error guard compares
\* the QWORD EtherFrameBufferCurrentSize with the error codes and with 0,
\* which never matches a sign-extended negative int; FrameBufferHandler then
\* takes Size back as an int, and its loop runs max(ret, 0) times.
IsrFinish ==
    /\ isr = "handling"
    /\ icr' = FALSE
    /\ delivered' = IF ret > 0 THEN delivered \o SubSeq(buf, 1, ret) ELSE delivered
    /\ discarded' = IF ret < 0 THEN discarded \cup {buf[i] : i \in 1 .. Len(buf)} ELSE discarded
    /\ isr' = "idle"
    /\ UNCHANGED <<rdesc, rdh, rdt, arrived, dropped, buf, ret, trap>>

\* After an out-of-bounds write the kernel's state is undefined: stop.
Halted ==
    /\ trap
    /\ UNCHANGED vars

\* Every frame has arrived and the handler is idle with no cause pending.
Quiescent ==
    /\ arrived = MaxFrames
    /\ isr = "idle"
    /\ ~icr
    /\ UNCHANGED vars

Next ==
    \/ DeviceReceive
    \/ DeviceDrop
    \/ IsrStart
    \/ RxNext
    \/ IsrFinish
    \/ Halted
    \/ Quiescent

(***************************************************************************)
(* The interrupt is delivered while RXT0 is set, and the handler runs to  *)
(* completion once started (it runs with interrupts off).                  *)
(***************************************************************************)
Fairness ==
    /\ WF_vars(IsrStart)
    /\ WF_vars(RxNext)
    /\ WF_vars(IsrFinish)

Spec == Init /\ [][Next]_vars /\ Fairness

-----------------------------------------------------------------------------

TypeOK ==
    /\ rdesc \in [Slot -> Descriptor]
    /\ rdh \in Slot
    /\ rdt \in Slot
    /\ icr \in BOOLEAN
    /\ arrived \in 0 .. MaxFrames
    /\ dropped \subseteq 1 .. MaxFrames
    /\ isr \in {"idle", "receiving", "handling"}
    /\ buf \in Seq(1 .. MaxFrames)
    /\ ret \in -1 .. FrameBufferMax
    /\ delivered \in Seq(1 .. MaxFrames)
    /\ discarded \subseteq 1 .. MaxFrames
    /\ trap \in BOOLEAN

(***************************************************************************)
(* Ring ownership: a descriptor has DD set exactly when it lies between   *)
(* RDT and RDH, i.e. the device has filled it and Receive has not yet     *)
(* released it.  Receive polls the slot after RDT and trusts its DD bit;  *)
(* a DD left set on a released slot makes it take a stale frame again.    *)
(***************************************************************************)
RxRingOwnership ==
    \A s \in Slot : rdesc[s].dd <=> s \in Pending

(***************************************************************************)
(* Frames reach FrameBufferHandler in arrival order, each at most once.   *)
(***************************************************************************)
RxDeliveredInOrder ==
    \A i, j \in 1 .. Len(delivered) : i < j => delivered[i] < delivered[j]

(***************************************************************************)
(* No frame the device accepted is lost by the driver: it is still in    *)
(* the ring, in the buffer of the Receive in progress, delivered, or part *)
(* of a batch an error return aborted.  Receive releases each slot as it  *)
(* copies the frame, so a frame it drops otherwise is gone for good.      *)
(***************************************************************************)
RxNoFrameLost ==
    \A f \in (1 .. arrived) \ dropped :
        \/ \E s \in Pending : rdesc[s].frame = f
        \/ isr # "idle" /\ \E i \in 1 .. Len(buf) : buf[i] = f
        \/ \E i \in 1 .. Len(delivered) : delivered[i] = f
        \/ f \in discarded

(***************************************************************************)
(* Receive never writes past GlobalEtherFrameBuffer: its loop is bounded  *)
(* only by the DD bits, which the device keeps setting while it runs.     *)
(***************************************************************************)
RxBufferInBounds == ~trap

(***************************************************************************)
(* Every good frame the device accepts reaches FrameBufferHandler.  The    *)
(* second read of ICR in ClearInterrupt also clears a cause raised by a   *)
(* frame that arrived after Receive's last poll.                           *)
(***************************************************************************)
RxEventuallyDelivered ==
    \A f \in 1 .. MaxFrames :
        (\E s \in Slot : rdesc[s].dd /\ rdesc[s].frame = f /\ rdesc[s].kind = "good")
            ~> \E i \in 1 .. Len(delivered) : delivered[i] = f

(***************************************************************************)
(* A receive error aborts one batch and is not fatal to the adapter: a    *)
(* descriptor Receive rejects is eventually handed back to the device.    *)
(* Receive returns on it without clearing DD or advancing RDT, so every   *)
(* later interrupt stops at the same slot.                                 *)
(***************************************************************************)
RxErrorRecovers ==
    \A s \in Slot : (rdesc[s].dd /\ rdesc[s].kind = "bad") ~> ~rdesc[s].dd


-----------------------------------------------------------------------------
(***************************************************************************)
(* The receive path as the FIFO channel of RxChannel.  The channel holds  *)
(* the batch of the Receive in progress (the frame buffer means nothing   *)
(* once IsrFinish has handed it on) followed by the pending run of the    *)
(* ring, read from RDT + 1 up to RDH - 1.                                 *)
(***************************************************************************)
RingFrames == [i \in 1 .. (rdh - rdt - 1) % RxSlots |-> rdesc[(rdt + i) % RxSlots].frame]

RxQueue == (IF isr = "idle" THEN <<>> ELSE buf) \o RingFrames

Channel == INSTANCE RxChannel WITH queue <- RxQueue

(***************************************************************************)
(* The device, Receive and IsrFinish together behave as a FIFO channel:   *)
(* every step appends the newly arrived frame, drops it, hands a prefix   *)
(* of the channel to FrameBufferHandler, discards a prefix on an error    *)
(* return, or leaves the channel as it is (a frame moving from the ring   *)
(* into GlobalEtherFrameBuffer is such a step).                           *)
(***************************************************************************)
RxImplementsChannel == Channel!Spec

=============================================================================
