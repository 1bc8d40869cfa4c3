------------------------------ MODULE EchoCodec ------------------------------
(***************************************************************************)
(* The echo frames of ICMP at the byte level: the request object that     *)
(* PingEcho::Ping builds and sends five times, the reply that ICMPv4::Main *)
(* builds from a received request, and how a peer running the same code  *)
(* decodes both.  These are the frames the Icmp module abstracts to        *)
(* records; the sets of passes below are what makes that abstraction     *)
(* sound: what one side encodes, the filter, validity checks and getters *)
(* of the other side read back.                                           *)
(***************************************************************************)
EXTENDS FrameCodec

\* DefaultDataUNIXSize; Ping copies this many bytes of DefaultDataUNIX.
DefaultDataUNIXSize == 40

\* Sample inputs.  Two adapters with their MAC and DWORD address (memory
\* order, 10.0.0.1 and 10.0.0.2), header garbage, echo payloads (all ones,
\* which makes every word sum carry, and a varied one), identifiers and
\* the values mt19937l may return for a fresh IP identification.
LocalMac == <<82, 84, 0, 18, 52, 86>>
PeerMac == <<82, 84, 0, 18, 52, 87>>
LocalAddr == 16777226
PeerAddr == 33554442
HeapJunk == {0, 255}
EchoPayloads == {[i \in 1 .. DefaultDataUNIXSize |-> 255],
                 [i \in 1 .. DefaultDataUNIXSize |-> (i * 37) % 256]}
EchoIDs == {4660, 65535}
RandomIDs == {1, 65535}

\* PingEcho::Ping before its loop: PingEcho(), SetType(TEchoRequest),
\* SetIdentifier(CurrentID), SetData(DefaultDataUNIX, 0, 40) and
\* SetDestinationAddress(TargetIPAddress).
PingTemplate(junk, id, data, dstAddr) ==
    SetDestinationAddress(
        EchoSetData(SetIdentifier(SetType(PingEchoNew(junk), TEchoRequest), id), data),
        dstAddr)

\* The object after the k-th pass of the loop: SetSequenceNumber(i + 1)
\* then Frame->ToDevice(*Device), every pass on what the last one left.
PingFrame(junk, id, data, rnd, k) ==
    LET F[j \in 0 .. k] ==
            IF j = 0 THEN PingTemplate(junk, id, data, PeerAddr)
            ELSE LET prev == F[j - 1] IN
                 IF prev = prev
                 THEN ICMPToDevice(SetSequenceNumber(prev, j), LocalAddr, PeerMac, LocalMac, rnd)
                 ELSE prev
    IN  F[k]

\* What the receiver's GlobalEtherFrameBuffer slot holds after
\* EthernetFrame(addr, Length) over the wire bytes of f.
Received(f, junk) ==
    EtherFrameFrom([i \in 1 .. ModelBufferSize |-> junk], WireBytes(f))

\* Mutant: the destination address is not turned back to the requester.
ResponseFrameNoSwap(req, ip, dmac, smac, rnd) ==
    ICMPToDevice(SetType(req, TEchoReply), ip, dmac, smac, rnd)

\* ICMPv4::Main, case TEchoRequest: a copy of the request with the type set
\* to TEchoReply and the destination address set to the request's source,
\* sent by ICMPv4::ToDevice on the adapter that received it.
ResponseFrame(req, ip, dmac, smac, rnd) ==
    ICMPToDevice(SetDestinationAddress(SetType(req, TEchoReply), GetSourceAddress(req)),
                 ip, dmac, smac, rnd)

\* What FrameBufferHandler, IPv4::Main and ICMPv4::Main check before the
\* echo handling: filter, EtherType, IPv4 validity, destination address,
\* protocol number and ICMP validity.
Accepted(f, mac, ip) ==
    /\ FrameFilter(mac, f)
    /\ GetEtherType(f) = IPEtherType
    /\ IPIsValid(f)
    /\ GetDestinationAddress(f) = ip
    /\ GetProtocol(f) = P_ICMP
    /\ ICMPIsValid(f)

\* Flip bit b of byte at of the frame.
FlipBit(f, at, b) ==
    LET v == ByteAt(f, at)
        bit == (v \div 2^b) % 2
    IN  [f EXCEPT !.data = Poke(f.data, at, <<v + (1 - 2 * bit) * 2^b>>)]

-----------------------------------------------------------------------------
(* The passes of Ping's loop whose frames have each byte-level property.   *)
(* These are constants; the Icmp module requires every echo it puts on    *)
(* the wire to be the frame of a pass in them.                             *)

\* The k-th echo request Ping sends, once a peer running this code has
\* copied it off the wire, passes the Ethernet filter and the IPv4 and
\* ICMP checks of the receive path and reads back the identifier,
\* sequence number, addresses and data Ping wrote.  Each pass recomputes
\* both checksums over the object the previous pass sent, so the checksum
\* word of the last pass and the incremented identification are in the
\* header while the new sums are computed.
DecodingPasses ==
    {k \in 1 .. PingBurst :
        \A junk \in HeapJunk, id \in EchoIDs, data \in EchoPayloads, rnd \in RandomIDs :
            LET r == Received(PingFrame(junk, id, data, rnd, k), junk) IN
            /\ Accepted(r, PeerMac, PeerAddr)
            /\ GetSourceAddress(r) = LocalAddr
            /\ GetType(r) = TEchoRequest
            /\ GetIdentifier(r) = id
            /\ GetSequenceNumber(r) = k
            /\ EchoGetData(r, DefaultDataUNIXSize) = data}

\* The reply ICMPv4::Main builds for the k-th echo request is accepted by
\* the requester and carries the request's identifier, sequence number
\* and data with source and destination swapped.
MirroredPasses ==
    {k \in 1 .. PingBurst :
        \A junk \in HeapJunk, id \in EchoIDs, data \in EchoPayloads, rnd \in RandomIDs :
            LET req == Received(PingFrame(junk, id, data, rnd, k), junk)
                rep == Received(ResponseFrame(req, PeerAddr, LocalMac, PeerMac, rnd), junk)
            IN
            /\ Accepted(rep, LocalMac, LocalAddr)
            /\ GetSourceAddress(rep) = PeerAddr
            /\ GetType(rep) = TEchoReply
            /\ GetIdentifier(rep) = id
            /\ GetSequenceNumber(rep) = k
            /\ EchoGetData(rep, DefaultDataUNIXSize) = data}

\* Flipping any one bit of the IPv4 header of the k-th echo makes
\* IPv4::IsValid fail, and flipping any one bit of its ICMP message makes
\* ICMPv4::IsValid fail.
BitErrorDetectingPasses ==
    {k \in 1 .. PingBurst :
        \A id \in EchoIDs, data \in EchoPayloads :
            LET r == Received(PingFrame(0, id, data, 1, k), 0)
                ipEnd == Payload + HeaderSizeMin
            IN  /\ \A at \in Payload .. ipEnd - 1, b \in 0 .. 7 :
                      ~IPIsValid(FlipBit(r, at, b))
                /\ \A at \in ipEnd .. ipEnd + IPDataSize(r) - 1, b \in 0 .. 7 :
                      ~ICMPIsValid(FlipBit(r, at, b))}

=============================================================================
