---------------------------- MODULE RouteLookup ----------------------------
(***************************************************************************)
(* The pure route-table helpers of IPv4 (src/kernel/UProtocols.cc):       *)
(* IPv4::MaskToNum, IPv4::RouteTableMatch, and the table update of the    *)
(* INet_RTAddStatic system call.                                          *)
(*                                                                         *)
(* An address or mask is the DWORD the code stores, narrowed to AddrBits  *)
(* bits: the code keeps addresses in memory order, so an IPv4 prefix mask  *)
(* /24 is the DWORD 0x00FFFFFF and MaskToNum (the bit length of the DWORD) *)
(* only orders octet-aligned masks as prefix lengths.  A route is the part *)
(* of IPv4::RouteTableItem that is read: Flags is left out because it is a *)
(* function of Gateway (RTF_UP, plus RTF_GATEWAY if Gateway is set and     *)
(* RTF_HOST if not), and Ref and Use stay 0.                               *)
(***************************************************************************)
EXTENDS Integers, Sequences

CONSTANTS
    AddrBits,   \* width of an address DWORD in the model (32 in the code)
    Adapters    \* the network adapters (NetworkAdapterList), model values

ASSUME AddrBitsAssumption == AddrBits \in Nat \ {0}

\* Every DWORD value an address or a mask can take.
Addr == 0 .. (2^AddrBits - 1)

\* Bit i of the DWORD x.
BitOf(x, i) == (x \div 2^i) % 2

\* (d & m) == (t & m): d and t agree on every bit that is set in m.
MaskedEqual(d, m, t) ==
    \A i \in 0 .. (AddrBits - 1) : BitOf(m, i) = 1 => BitOf(d, i) = BitOf(t, i)

Route == [destination : Addr, gateway : Addr, genmask : Addr, metric : Nat,
          iface : Adapters]

\* ~(DWORD(0)): the mask of a host route.
AllOnes == 2^AddrBits - 1

\* x & m.
AndOf(x, m) ==
    CHOOSE z \in Addr :
        \A i \in 0 .. (AddrBits - 1) : BitOf(z, i) = BitOf(x, i) * BitOf(m, i)

(***************************************************************************)
(* IPv4::MaskToNum: 0 maps to the full width (32 in the code); any other  *)
(* mask to the position of its highest set bit, counted from 1.            *)
(***************************************************************************)
MaskToNum(mask) ==
    IF mask = 0 THEN AddrBits
    ELSE CHOOSE n \in 1 .. AddrBits : 2^(n - 1) <= mask /\ mask < 2^n

\* The ordering lambda handed to qsort in RouteTableMatch.
RouteBefore(r1, r2) ==
    MaskToNum(r1.genmask) >= MaskToNum(r2.genmask) /\ r1.metric < r2.metric

\* The indices MatchTable collects: every route whose masked destination
\* equals the masked target, in table order.
RouteMatches(rt, target) ==
    {i \in 1 .. Len(rt) : MaskedEqual(rt[i].destination, rt[i].genmask, target)}

\* The outcome of a matching loop that has stepped past RouteTable.end().
RouteFault == -1

(***************************************************************************)
(* IPv4::RouteTableMatch, as the set of outcomes it may have (0 is        *)
(* RouteTable.end()).  The loop "for (; First != Last; ++First) First =   *)
(* find_if(First, Last, ...)" increments First once more after a find_if  *)
(* that returned Last, so when the last route does not match, First steps *)
(* past Last and the loop never meets Last again: the scan reads beyond   *)
(* the table, which is undefined behaviour and ends in a fault.  With two  *)
(* or more matches the result is the head of MatchTable after qsort with  *)
(* RouteBefore; qsort is not part of the sources, so the model lets it     *)
(* return any match that no other match is ordered before, and any match  *)
(* at all when RouteBefore has a cycle.                                    *)
(***************************************************************************)
RouteTableMatch(rt, target) ==
    LET M    == RouteMatches(rt, target)
        First == {i \in M : \A j \in M : ~RouteBefore(rt[j], rt[i])}
    IN  IF rt # <<>> /\ Len(rt) \notin M THEN {RouteFault}
        ELSE IF M = {} THEN {0}
        ELSE IF First = {} THEN M ELSE First

-----------------------------------------------------------------------------
(* INet_RTAddStatic(Dst, Via, Mask, Device), after its four argint reads.  *)
(* The device argument is an index into NetworkAdapterList; here it is an *)
(* adapter when the index passes "0 <= Device < NetworkAdapterListSize"    *)
(* and any other value when it does not.  The result is the return value  *)
(* and the table after the call.                                          *)

ErrNoGatewayRoute == -559038737   \* 0xDEADBEEF as the int INet_RTAddStatic returns
ErrBadDevice == -1163005939       \* 0xBAADF00D as an int

\* IP::RouteTableFind with the lambda of INet_RTAddStatic: the index of the
\* first route with no destination through gateway via, 0 for end().
RouteTableFindDefault(rt, via) ==
    LET I == {i \in 1 .. Len(rt) : rt[i].destination = 0 /\ rt[i].gateway = via}
    IN  IF I = {} THEN 0 ELSE CHOOSE i \in I : \A j \in I : i <= j

\* A gateway route to a network (Via and Dst set) goes out on the adapter of
\* the default route through that gateway, and fails with 0xDEADBEEF when
\* there is none; a default gateway route (Via set, Dst 0) and a host route
\* (Via 0) take the device argument, and fail with 0xBAADF00D when it is
\* out of range.  A gateway route's destination is masked with Genmask; a
\* host route's Genmask is all ones.  IP::RouteTableAdd appends.
RTAddStatic(rt, dst, via, mask, dev) ==
    LET Add(d, m, a) == [ret |-> 0, rt |-> Append(rt, [destination |-> d,
                            gateway |-> via, genmask |-> m, metric |-> 0, iface |-> a])]
        gw == RouteTableFindDefault(rt, via)
    IN  IF dst = 0 /\ via = 0 /\ mask = 0 THEN [ret |-> 1, rt |-> rt]
        ELSE IF via # 0 /\ dst # 0
             THEN IF gw = 0 THEN [ret |-> ErrNoGatewayRoute, rt |-> rt]
                  ELSE Add(AndOf(dst, mask), mask, rt[gw].iface)
        ELSE IF dev \notin Adapters THEN [ret |-> ErrBadDevice, rt |-> rt]
        ELSE IF via # 0 THEN Add(0, mask, dev)
        ELSE Add(dst, AllOnes, dev)

=============================================================================
