----------------------------- MODULE RxChannel -----------------------------
(***************************************************************************)
(* What the receive path of the 8254x driver promises the network stack, *)
(* with the ring, the DD bits and the interrupt left out: a FIFO channel. *)
(* Each arriving frame is either accepted into the channel or dropped     *)
(* (the device found no free descriptor).  The driver takes frames from  *)
(* the front only, a batch at a time, and either hands the batch to the  *)
(* stack or discards it whole.                                            *)
(***************************************************************************)
EXTENDS Naturals, Sequences

CONSTANT MaxFrames   \* frames are numbered 1 .. MaxFrames in arrival order

VARIABLES
    arrived,    \* number of frames that reached the device
    dropped,    \* frames the device dropped
    queue,      \* accepted frames not yet handed on or discarded, oldest first
    delivered,  \* frames handed to the stack, in order
    discarded   \* frames of batches thrown away

cvars == <<arrived, dropped, queue, delivered, discarded>>

Init ==
    /\ arrived = 0
    /\ dropped = {}
    /\ queue = <<>>
    /\ delivered = <<>>
    /\ discarded = {}

\* A frame arrives and joins the back of the channel.
Accept ==
    /\ arrived < MaxFrames
    /\ arrived' = arrived + 1
    /\ queue' = Append(queue, arrived + 1)
    /\ UNCHANGED <<dropped, delivered, discarded>>

\* A frame arrives and is lost at the door.
Drop ==
    /\ arrived < MaxFrames
    /\ arrived' = arrived + 1
    /\ dropped' = dropped \cup {arrived + 1}
    /\ UNCHANGED <<queue, delivered, discarded>>

\* The first k frames go to the stack.
Deliver ==
    /\ \E k \in 1 .. Len(queue) :
          /\ delivered' = delivered \o SubSeq(queue, 1, k)
          /\ queue' = SubSeq(queue, k + 1, Len(queue))
    /\ UNCHANGED <<arrived, dropped, discarded>>

\* The first k frames are thrown away.
Discard ==
    /\ \E k \in 1 .. Len(queue) :
          /\ discarded' = discarded \cup {queue[i] : i \in 1 .. k}
          /\ queue' = SubSeq(queue, k + 1, Len(queue))
    /\ UNCHANGED <<arrived, dropped, delivered>>

Next == Accept \/ Drop \/ Deliver \/ Discard

Spec == Init /\ [][Next]_cvars

=============================================================================
