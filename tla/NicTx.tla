------------------------------- MODULE NicTx -------------------------------
(***************************************************************************)
(* The transmit side of the Intel 8254x driver (src/kernel/               *)
(* UNetworkAdapter.cc): the 16-slot transmit descriptor ring, its tail    *)
(* register TDT written by Intel8254xNetworkAdapter::Transmit, and the     *)
(* device, which sends the descriptors from its head TDH up to TDT and     *)
(* writes the DD status bit back.                                          *)
(*                                                                         *)
(* Transmit is called without a lock from every system call that sends a *)
(* frame (ARPing, RequestFrom, Ping) and from the receive interrupt       *)
(* (ARP and ICMP replies).  Each caller is a context of Callers; a frame  *)
(* is <<caller, n>>, the n-th frame that caller sends.  Transmit is split *)
(* at its accesses to shared state: the read of TDT, the descriptor        *)
(* writes, the write of TDT and the DD poll.                               *)
(***************************************************************************)
EXTENDS Naturals, Sequences, FiniteSets

CONSTANTS
    TxSlots,    \* TDescLayoutMaxSize (16 in the code)
    Callers,    \* contexts that call Transmit
    MaxSends,   \* bound on the frames each context sends
    NoFrame     \* the frame of a descriptor nobody has filled

ASSUME NicTxAssumption ==
    /\ TxSlots \in Nat \ {0}
    /\ MaxSends \in Nat
    /\ IsFiniteSet(Callers)
    \* The empty descriptor's frame is no caller's frame.
    /\ NoFrame \notin Callers \X (1 .. MaxSends)

Slot == 0 .. TxSlots - 1

Frame == Callers \X (1 .. MaxSends)

\* TransmitDescriptorLayout, reduced to the frame it points to and DD.
Descriptor == [frame : Frame \cup {NoFrame}, done : BOOLEAN]

VARIABLES
    tdesc,      \* TDescLayout[0..TxSlots-1]
    tdt,        \* the TDT register
    tdh,        \* the TDH register (advanced by the device)
    txpc,       \* where each caller is inside Transmit
    txTail,     \* each caller's local TransmitTail
    sends,      \* how many frames each caller has handed to Transmit
    wire        \* history: the frames the device put on the wire, in order

vars == <<tdesc, tdt, tdh, txpc, txTail, sends, wire>>

\* The frame a caller is sending in its current Transmit call.
Current(c) == <<c, sends[c]>>

\* SetupPacketTransmission: every descriptor default-constructed, TDH = TDT = 0.
Init ==
    /\ tdesc = [s \in Slot |-> [frame |-> NoFrame, done |-> FALSE]]
    /\ tdt = 0
    /\ tdh = 0
    /\ txpc = [c \in Callers |-> "idle"]
    /\ txTail = [c \in Callers |-> 0]
    /\ sends = [c \in Callers |-> 0]
    /\ wire = <<>>

\* DWORD TransmitTail = GetRegister(TDT);
TxRead(c) ==
    /\ txpc[c] = "idle"
    /\ sends[c] < MaxSends
    /\ sends' = [sends EXCEPT ![c] = @ + 1]
    /\ txTail' = [txTail EXCEPT ![c] = tdt]
    /\ txpc' = [txpc EXCEPT ![c] = "fill"]
    /\ UNCHANGED <<tdesc, tdt, tdh, wire>>

\* The descriptor writes: buffer address and length of the frame, Status = 0.
TxFill(c) ==
    /\ txpc[c] = "fill"
    /\ tdesc' = [tdesc EXCEPT ![txTail[c]] = [frame |-> Current(c), done |-> FALSE]]
    /\ txpc' = [txpc EXCEPT ![c] = "bump"]
    /\ UNCHANGED <<tdt, tdh, txTail, sends, wire>>

\* Mutant: the new tail is not reduced modulo the ring size.
TxBumpNoWrap(c) ==
    /\ txpc[c] = "bump"
    /\ tdt' = txTail[c] + 1
    /\ txpc' = [txpc EXCEPT ![c] = "wait"]
    /\ UNCHANGED <<tdesc, tdh, txTail, sends, wire>>

\* Mutant: the tail is advanced by two slots.
TxBumpSkip(c) ==
    /\ txpc[c] = "bump"
    /\ tdt' = (txTail[c] + 2) % TxSlots
    /\ txpc' = [txpc EXCEPT ![c] = "wait"]
    /\ UNCHANGED <<tdesc, tdh, txTail, sends, wire>>

\* SetRegister(TDT, (TransmitTail + 1) % TDescLayoutMaxSize);
TxBump(c) ==
    /\ txpc[c] = "bump"
    /\ tdt' = (txTail[c] + 1) % TxSlots
    /\ txpc' = [txpc EXCEPT ![c] = "wait"]
    /\ UNCHANGED <<tdesc, tdh, txTail, sends, wire>>

\* while (!(TDescLayout[TransmitTail].Status & 0xF)) ...; return Length;
TxWait(c) ==
    /\ txpc[c] = "wait"
    /\ tdesc[txTail[c]].done
    /\ txpc' = [txpc EXCEPT ![c] = "idle"]
    /\ UNCHANGED <<tdesc, tdt, tdh, txTail, sends, wire>>

\* One turn of the same loop while DD is clear: microdelay(10) and poll again.
TxSpin(c) ==
    /\ txpc[c] = "wait"
    /\ ~tdesc[txTail[c]].done
    /\ UNCHANGED vars

\* The device sends the descriptor at its head while the head is not the
\* tail, writes DD back (RS is set) and advances TDH.
DeviceSend ==
    /\ tdh # tdt
    /\ wire' = Append(wire, tdesc[tdh].frame)
    /\ tdesc' = [tdesc EXCEPT ![tdh].done = TRUE]
    /\ tdh' = (tdh + 1) % TxSlots
    /\ UNCHANGED <<tdt, txpc, txTail, sends>>

\* Every caller has sent its frames and the ring is empty.
Quiescent ==
    /\ \A c \in Callers : txpc[c] = "idle" /\ sends[c] = MaxSends
    /\ tdh = tdt
    /\ UNCHANGED vars

TxStep(c) == TxFill(c) \/ TxBump(c) \/ TxWait(c)

Next ==
    \/ \E c \in Callers : TxRead(c) \/ TxStep(c) \/ TxSpin(c)
    \/ DeviceSend
    \/ Quiescent

Spec == Init /\ [][Next]_vars

-----------------------------------------------------------------------------

TypeOK ==
    /\ tdesc \in [Slot -> Descriptor]
    /\ tdt \in Slot
    /\ tdh \in Slot
    /\ txpc \in [Callers -> {"idle", "fill", "bump", "wait"}]
    /\ txTail \in [Callers -> Slot]
    /\ sends \in [Callers -> 0 .. MaxSends]
    /\ wire \in Seq(Frame \cup {NoFrame})

(***************************************************************************)
(* The device sends each frame at most once and never a descriptor no     *)
(* Transmit filled.  A TDT write computed from a stale TDT moves the tail *)
(* backwards, and the device then walks the whole ring again, resending   *)
(* the old descriptors.                                                    *)
(***************************************************************************)
TxWireSound ==
    \A i \in 1 .. Len(wire) :
        /\ wire[i] # NoFrame
        /\ \A j \in 1 .. Len(wire) : j # i => wire[j] # wire[i]

=============================================================================
