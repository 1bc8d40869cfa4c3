----------------------------- MODULE FrameCodec -----------------------------
(***************************************************************************)
(* The byte layer of the stack: EthernetFrame (src/kernel/UEtherFrame.cc, *)
(* src/include/UEtherFrame.hh) and the IPv4 and ICMPv4 views over it      *)
(* (src/kernel/UProtocols.cc, src/include/UProtocols.hh), as pure          *)
(* operators on a frame record [data, size]: data is the Data array as a *)
(* sequence (Data[i] is data[i + 1]), size is FrameSize.  Every view's field accessors go through the base        *)
(* class's GetData/SetData with the view's offset, as in the code, so a   *)
(* field written through one view and read through another sees the same *)
(* bytes.  Multi-byte fields are moved through the union "Splitter" of    *)
(* GetDataAs/SetDataFrom: Reverse = 1 gives network (big-endian) order,  *)
(* Reverse = 0 memory (little-endian) order, as the IPv4 addresses use.  *)
(*                                                                         *)
(* Bound.  Data has MaxFrameSize (1518) bytes in the code; the model keeps *)
(* its first ModelBufferSize bytes, which holds every frame the checks    *)
(* build (at most 82 bytes) with room to spare.                            *)
(***************************************************************************)
EXTENDS Integers, SequencesExt, IcmpTypes

Byte == 0 .. 255

\* EthernetFrame layout constants (UEtherFrame.hh).
HeaderSize == 6 + 6 + 2
MinDataSize == 46
MaxDataSize == 1500
TailSize == 4
MinFrameSize == HeaderSize + MinDataSize + TailSize
MaxFrameSize == HeaderSize + MaxDataSize + TailSize
Destination == 0
Source == 6
Type == 12
Payload == 14
BroadcastAddr == <<255, 255, 255, 255, 255, 255>>

ModelBufferSize == 100

\* The n little-endian bytes of v, as the union Splitter lays out a WORD
\* or DWORD in memory.
LEBytes(v, n) == [i \in 1 .. n |-> (v \div 2^(8 * (i - 1))) % 256]

\* The sum of a sequence of numbers, halving it at each level.
RECURSIVE SumOf(_)
SumOf(s) ==
    IF Len(s) = 0 THEN 0
    ELSE IF Len(s) = 1 THEN s[1]
    ELSE SumOf(SubSeq(s, 1, Len(s) \div 2)) + SumOf(SubSeq(s, Len(s) \div 2 + 1, Len(s)))

\* The value of the union Splitter whose bytes are bs.
LEValue(bs) == SumOf([i \in 1 .. Len(bs) |-> bs[i] * 2^(8 * (i - 1))])

Max2(a, b) == IF a >= b THEN a ELSE b

-----------------------------------------------------------------------------
(* EthernetFrame.                                                           *)

\* EthernetFrame() -> ctor(): ClearData zeroes Data from Payload on and
\* FrameSize is set to MinDataSize.  The header bytes are not written: they
\* hold whatever the allocation held (junk).
EtherFrameNew(junk) ==
    [data |-> [i \in 1 .. Payload |-> junk] \o
              [i \in 1 .. ModelBufferSize - Payload |-> 0],
     size |-> MinDataSize]

\* EthernetFrame(Data, Size): FrameSize is raised to MinFrameSize and Size
\* bytes are copied over the object's previous contents old.
EtherFrameFrom(old, bytes) ==
    [data |-> bytes \o SubSeq(old, Len(bytes) + 1, Len(old)),
     size |-> Max2(Len(bytes), MinFrameSize)]

\* The bytes Device.Transmit hands to the wire: Data[0 .. FrameSize).
WireBytes(f) == SubSeq(f.data, 1, f.size)

\* Data[i].
ByteAt(f, i) == f.data[i + 1]

\* Overwrite Data[at ..] with the sequence src (the copy loops of the code).
Poke(d, at, src) ==
    SubSeq(d, 1, at) \o src \o SubSeq(d, at + Len(src) + 1, Len(d))

\* SetDestination / SetSource: six bytes at their offsets.
SetDestination(f, mac) == [f EXCEPT !.data = Poke(f.data, Destination, mac)]
SetSource(f, mac) == [f EXCEPT !.data = Poke(f.data, Source, mac)]

\* SetEtherType: high byte first.
SetEtherType(f, t) == [f EXCEPT !.data = Poke(f.data, Type, Reverse(LEBytes(t, 2)))]

GetDestination(f) == SubSeq(f.data, Destination + 1, Destination + 6)

GetEtherType(f) == ByteAt(f, Type) * 256 + ByteAt(f, Type + 1)

\* EthernetFrame::SetData(Data, Start, Size): FrameSize grows to cover the
\* write and never stays below MinFrameSize; the bytes go to Payload+Start.
EthSetData(f, src, start) ==
    LET grown == Max2(HeaderSize + start + Len(src), f.size) IN
    [data |-> Poke(f.data, Payload + start, src),
     size |-> Max2(grown, MinFrameSize)]

\* EthernetFrame::GetData(Dst, Start, Size, Reverse).
EthGetData(f, start, n, rev) ==
    LET bs == SubSeq(f.data, Payload + start + 1, Payload + start + n) IN
    IF rev THEN Reverse(bs) ELSE bs

\* GetDataAs<Tp>(Start, Reverse) and SetDataFrom<Tp>(Src, Start, Reverse)
\* for an n-byte Tp.
EthGetDataAs(f, start, n, rev) == LEValue(EthGetData(f, start, n, rev))
EthSetDataFrom(f, v, start, n, rev) ==
    EthSetData(f, IF rev THEN Reverse(LEBytes(v, n)) ELSE LEBytes(v, n), start)

\* EthernetFrame::DataSize.
EthDataSize(f) == f.size - HeaderSize

IsBroadcast(f) == GetDestination(f) = BroadcastAddr

\* FrameFilter(Device, Frame): broadcast, or addressed to the adapter.
FrameFilter(mac, f) == IsBroadcast(f) \/ GetDestination(f) = mac

-----------------------------------------------------------------------------
(* IPv4 (offsets in the Ethernet payload).                                 *)

IPEtherType == 2048
HeaderSizeMin == 20
VersionOff == 0
TotalLengthOff == 2
IdentificationOff == 4
FlagsOff == 6
TimeToLiveOff == 8
ProtocolOff == 9
HeaderChecksumOff == 10
SourceAddressOff == 12
DestinationAddressOff == 16
DF == 2

GetVersion(f) == EthGetDataAs(f, VersionOff, 1, TRUE) \div 16
GetInternetHeaderLength(f) == EthGetDataAs(f, VersionOff, 1, TRUE) % 16
GetTotalLength(f) == EthGetDataAs(f, TotalLengthOff, 2, TRUE)
GetIdentification(f) == EthGetDataAs(f, IdentificationOff, 2, TRUE)
GetFlags(f) == EthGetDataAs(f, FlagsOff, 2, TRUE) \div 8192
GetTimeToLive(f) == EthGetDataAs(f, TimeToLiveOff, 1, TRUE)
GetProtocol(f) == EthGetDataAs(f, ProtocolOff, 1, TRUE)
GetHeaderChecksum(f) == EthGetDataAs(f, HeaderChecksumOff, 2, TRUE)
GetSourceAddress(f) == EthGetDataAs(f, SourceAddressOff, 4, FALSE)
GetDestinationAddress(f) == EthGetDataAs(f, DestinationAddressOff, 4, FALSE)

\* The read-modify-write setters: the new value is shifted and masked into
\* its bits of the field, the other bits are kept.
SetVersion(f, v) ==
    LET field == EthGetDataAs(f, VersionOff, 1, TRUE) IN
    EthSetDataFrom(f, (v % 16) * 16 + (field % 16), VersionOff, 1, TRUE)
SetInternetHeaderLength(f, n) ==
    LET field == EthGetDataAs(f, VersionOff, 1, TRUE) IN
    EthSetDataFrom(f, (field \div 16) * 16 + (n % 16), VersionOff, 1, TRUE)
SetFlags(f, fl) ==
    LET field == EthGetDataAs(f, FlagsOff, 2, TRUE) IN
    EthSetDataFrom(f, (fl % 8) * 8192 + (field % 8192), FlagsOff, 2, TRUE)

\* The plain setters: a WORD argument keeps its low 16 bits.
SetTotalLength(f, n) == EthSetDataFrom(f, n % 65536, TotalLengthOff, 2, TRUE)
SetIdentification(f, v) == EthSetDataFrom(f, v % 65536, IdentificationOff, 2, TRUE)
SetTimeToLive(f, v) == EthSetDataFrom(f, v, TimeToLiveOff, 1, TRUE)
SetProtocol(f, v) == EthSetDataFrom(f, v, ProtocolOff, 1, TRUE)
SetHeaderChecksum(f, v) == EthSetDataFrom(f, v, HeaderChecksumOff, 2, TRUE)
SetSourceAddress(f, a) == EthSetDataFrom(f, a, SourceAddressOff, 4, FALSE)
SetDestinationAddress(f, a) == EthSetDataFrom(f, a, DestinationAddressOff, 4, FALSE)

\* IPv4::DataSize: the total length less the header.
IPDataSize(f) == GetTotalLength(f) - GetInternetHeaderLength(f) * 4

\* IPv4::GetData / IPv4::SetData address the bytes after the header;
\* SetData then sets the total length to the Ethernet data size.
IPGetData(f, start, n, rev) ==
    EthGetData(f, GetInternetHeaderLength(f) * 4 + start, n, rev)
IPSetData(f, src, start) ==
    LET g == EthSetData(f, src, GetInternetHeaderLength(f) * 4 + start) IN
    SetTotalLength(g, EthDataSize(g))
IPGetDataAs(f, start, n) == LEValue(IPGetData(f, start, n, TRUE))
IPSetDataFrom(f, v, start, n) == IPSetData(f, Reverse(LEBytes(v, n)), start)

\* The carry fold "while (x >> 16) x = (x & 0xFFFF) + (x >> 16)".  The
\* sums below add fewer than 2^16 words, so x < 2^32: one pass leaves at
\* most 0x1FFFE and a second at most 0xFFFF, after which the loop stops
\* (a pass over x < 2^16 leaves it as it is).
CarryPass(x) == (x % 65536) + (x \div 65536)
FoldCarry(x) == CarryPass(CarryPass(x))

\* Mutant: the checksum word is summed when computing, not skipped.
VerifyChecksumNoSkip(f, computeOnly) ==
    65535 - FoldCarry(SumOf([k \in 1 .. HeaderSizeMin \div 2 |->
                               EthGetDataAs(f, 2 * (k - 1), 2, TRUE)]))

\* IPv4::VerifyChecksum(ComputeOnly): the ones'-complement sum of the first
\* HeaderSizeMin / 2 header words, the checksum word skipped when
\* computing; the WORD result is the complement of the folded sum.
VerifyChecksum(f, computeOnly) ==
    LET word(i) ==
            IF computeOnly /\ i = HeaderChecksumOff \div 2 THEN 0
            ELSE EthGetDataAs(f, 2 * i, 2, TRUE)
    IN  65535 - FoldCarry(SumOf([k \in 1 .. HeaderSizeMin \div 2 |-> word(k - 1)]))

\* IPv4::IsValid.
IPIsValid(f) ==
    /\ EthDataSize(f) >= 20
    /\ VerifyChecksum(f, FALSE) = 0
    /\ GetVersion(f) = 4
    /\ EthDataSize(f) >= GetInternetHeaderLength(f) * 4
    /\ EthDataSize(f) >= GetTotalLength(f)
    /\ GetTimeToLive(f) # 0

\* IPv4(): EtherType, version 4, IHL 5, DF, and SetTotalLength(DataSize())
\* where DataSize is IPv4::DataSize of a header whose length is still 0.
IPv4New(junk) ==
    LET f1 == SetEtherType(EtherFrameNew(junk), IPEtherType)
        f2 == SetFlags(SetInternetHeaderLength(SetVersion(f1, 4), 5), DF)
    IN  SetTotalLength(f2, IPDataSize(f2))

-----------------------------------------------------------------------------
(* ICMPv4 (offsets in the IPv4 data).                                       *)

P_ICMP == 1
TypeOff == 0
CodeOff == 1
ChecksumOff == 2
RestOfHeader == 4

GetType(f) == IPGetDataAs(f, TypeOff, 1)
GetChecksum(f) == IPGetDataAs(f, ChecksumOff, 2)
SetType(f, t) == IPSetDataFrom(f, t, TypeOff, 1)
SetCode(f, c) == IPSetDataFrom(f, c, CodeOff, 1)
SetChecksum(f, c) == IPSetDataFrom(f, c, ChecksumOff, 2)

\* ICMPv4::GetData / SetData / GetDataAs / SetDataFrom: after RestOfHeader.
ICMPGetData(f, start, n) == IPGetData(f, RestOfHeader + start, n, FALSE)
ICMPSetData(f, src, start) == IPSetData(f, src, RestOfHeader + start)
ICMPGetDataAs(f, start, n) == LEValue(IPGetData(f, RestOfHeader + start, n, TRUE))
ICMPSetDataFrom(f, v, start, n) == ICMPSetData(f, Reverse(LEBytes(v, n)), start)

\* Mutant: the sum stops one word short of the message end.
ICMPVerifyChecksumShort(f, computeOnly) ==
    LET nwords == IPDataSize(f) \div 2 - 1
        word(i) ==
            IF computeOnly /\ i = ChecksumOff \div 2 THEN 0
            ELSE IPGetDataAs(f, 2 * i, 2)
    IN  65535 - FoldCarry(SumOf([k \in 1 .. nwords |-> word(k - 1)]))

\* ICMPv4::VerifyChecksum(ComputeOnly): the sum runs over the IPv4 data
\* size rounded up to whole words (the last word of an odd size takes the
\* byte after the data), the checksum word skipped when computing.
ICMPVerifyChecksum(f, computeOnly) ==
    LET total == IPDataSize(f)
        nwords == IF total % 2 = 1 THEN total \div 2 + 1 ELSE total \div 2
        word(i) ==
            IF computeOnly /\ i = ChecksumOff \div 2 THEN 0
            ELSE IPGetDataAs(f, 2 * i, 2)
    IN  65535 - FoldCarry(SumOf([k \in 1 .. nwords |-> word(k - 1)]))

ICMPIsValid(f) == ICMPVerifyChecksum(f, FALSE) = 0

\* ICMPv4(): SetProtocol(ProtocolNumber).
ICMPNew(junk) == SetProtocol(IPv4New(junk), P_ICMP)

\* PingEcho: identifier and sequence number in the rest of the header,
\* the echo data after them (Datagram = 4).
IdentifierOff == 0
SequenceNumberOff == 2
Datagram == 4
GetIdentifier(f) == ICMPGetDataAs(f, IdentifierOff, 2)
GetSequenceNumber(f) == ICMPGetDataAs(f, SequenceNumberOff, 2)
SetIdentifier(f, v) == ICMPSetDataFrom(f, v, IdentifierOff, 2)
SetSequenceNumber(f, v) == ICMPSetDataFrom(f, v, SequenceNumberOff, 2)
EchoGetData(f, n) == ICMPGetData(f, Datagram, n)
EchoSetData(f, src) == ICMPSetData(f, src, Datagram)

\* PingEcho(): SetCode(0).
PingEchoNew(junk) == SetCode(ICMPNew(junk), 0)

-----------------------------------------------------------------------------
(* Transmission.                                                            *)

\* IPv4::ToDevice(Device, 0) once the sender address ip, the destination MAC
\* dmac and the adapter's MAC smac are known: source address, destination
\* MAC, identification (a random WORD rnd when it is 0, else one more),
\* TTL 128, header checksum, then EthernetFrame::ToDevice (SetSource).
IPToDevice(f, ip, dmac, smac, rnd) ==
    LET f1 == SetDestination(SetSourceAddress(f, ip), dmac)
        f2 == IF GetIdentification(f1) = 0 THEN SetIdentification(f1, rnd)
              ELSE SetIdentification(f1, GetIdentification(f1) + 1)
        f3 == SetTimeToLive(f2, 128)
        f4 == SetHeaderChecksum(f3, VerifyChecksum(f3, TRUE))
    IN  SetSource(f4, smac)

\* ICMPv4::ToDevice: the ICMP checksum, then IPv4::ToDevice.
ICMPToDevice(f, ip, dmac, smac, rnd) ==
    IPToDevice(SetChecksum(f, ICMPVerifyChecksum(f, TRUE)), ip, dmac, smac, rnd)

=============================================================================
