------------------------------ MODULE ArpProofs ------------------------------
(***************************************************************************)
(* Proofs about Arp for every value of the constants: the type invariant  *)
(* and the ARP cache's one-entry-per-address invariant.                   *)
(*                                                                         *)
(* Neither holds inductively on its own: the lookups ARPTableFind and     *)
(* IPFind return the first matching index, which the provers can only     *)
(* pin down when at most one entry matches.  The inductive invariant      *)
(* IInv therefore also states that each adapter has at most one address,  *)
(* which INet_SetIPAddress keeps by refusing a second one.                 *)
(***************************************************************************)
EXTENDS Arp, SequenceTheorems, TLAPS

\* One address per adapter (spec 3: enforced by the callers of IPAllocate).
UniqueIPEntry ==
    \A i, j \in 1 .. Len(ipTable) : i # j => ipTable[i].adapter # ipTable[j].adapter

\* A CPU inside RequestFrom or ARPing has the address it works on.
BusyHasTarget == \A p \in Procs : pc[p] # "idle" => target[p] \in Addr

IInv == TypeOK /\ UniqueArpEntry /\ UniqueIPEntry /\ BusyHasTarget

USE ArpConstantsAssumption, AddrBitsAssumption

-----------------------------------------------------------------------------
(* Lookups in tables whose keys are unique.                                *)

LEMMA MinOfSingleton ==
    ASSUME NEW k \in Nat
    PROVE  Min({k}) = k
BY DEF Min

LEMMA ArpFindUnique ==
    ASSUME NEW tbl \in Seq(ArpEntry), NEW ip,
           \A i, j \in 1 .. Len(tbl) : i # j => tbl[i].ip # tbl[j].ip
    PROVE  /\ ARPTableFind(tbl, ip) \in 0 .. Len(tbl)
           /\ ARPTableFind(tbl, ip) = 0 <=> \A i \in 1 .. Len(tbl) : tbl[i].ip # ip
           /\ ARPTableFind(tbl, ip) # 0 => tbl[ARPTableFind(tbl, ip)].ip = ip
<1>. DEFINE I == {i \in 1 .. Len(tbl) : tbl[i].ip = ip}
<1>1. ARPTableFind(tbl, ip) = IF I # {} THEN Min(I) ELSE 0
  BY DEF ARPTableFind, SelectInSeq
<1>2. CASE I = {}
  BY <1>1, <1>2
<1>3. CASE I # {}
  <2>1. PICK k \in 1 .. Len(tbl) : tbl[k].ip = ip
    BY <1>3
  <2>2. I = {k}
    BY <2>1
  <2>3. ARPTableFind(tbl, ip) = k
    BY <1>1, <2>2, MinOfSingleton
  <2>. QED
    BY <2>1, <2>3
<1>. QED
  BY <1>2, <1>3

LEMMA IPFindUnique ==
    ASSUME NEW tbl \in Seq(IPEntry), NEW a,
           \A i, j \in 1 .. Len(tbl) : i # j => tbl[i].adapter # tbl[j].adapter
    PROVE  /\ IPFind(tbl, a) \in 0 .. Len(tbl)
           /\ IPFind(tbl, a) = 0 <=> \A i \in 1 .. Len(tbl) : tbl[i].adapter # a
           /\ IPFind(tbl, a) # 0 => tbl[IPFind(tbl, a)].adapter = a
<1>. DEFINE I == {i \in 1 .. Len(tbl) : tbl[i].adapter = a}
<1>1. IPFind(tbl, a) = IF I # {} THEN Min(I) ELSE 0
  BY DEF IPFind, SelectInSeq
<1>2. CASE I = {}
  BY <1>1, <1>2
<1>3. CASE I # {}
  <2>1. PICK k \in 1 .. Len(tbl) : tbl[k].adapter = a
    BY <1>3
  <2>2. I = {k}
    BY <2>1
  <2>3. IPFind(tbl, a) = k
    BY <1>1, <2>2, MinOfSingleton
  <2>. QED
    BY <2>1, <2>3
<1>. QED
  BY <1>2, <1>3

\* Refreshing a MAC keeps the entry's type and every entry's address.
LEMMA RefreshedFacts ==
    ASSUME NEW tbl \in Seq(ArpEntry), NEW f \in Frame,
           \A i, j \in 1 .. Len(tbl) : i # j => tbl[i].ip # tbl[j].ip
    PROVE  /\ Refreshed(tbl, f) \in Seq(ArpEntry)
           /\ Len(Refreshed(tbl, f)) = Len(tbl)
           /\ \A i \in 1 .. Len(tbl) : Refreshed(tbl, f)[i].ip = tbl[i].ip
<1>. DEFINE k == ARPTableFind(tbl, f.spa)
<1>1. k \in 0 .. Len(tbl)
  BY ArpFindUnique
<1>2. CASE k = 0
  BY <1>2 DEF Refreshed
<1>3. CASE k # 0
  <2>1. Refreshed(tbl, f) = [tbl EXCEPT ![k] = [ip |-> tbl[k].ip, mac |-> f.sha,
                                                 adapter |-> tbl[k].adapter]]
    BY <1>3 DEF Refreshed
  <2>0. k \in 1 .. Len(tbl) /\ tbl[k] \in ArpEntry /\ f.sha \in Macs
    BY <1>1, <1>3 DEF Frame
  <2>2. [ip |-> tbl[k].ip, mac |-> f.sha, adapter |-> tbl[k].adapter] \in ArpEntry
    BY <2>0 DEF ArpEntry
  <2>. QED
    BY <2>0, <2>1, <2>2
<1>. QED
  BY <1>2, <1>3

\* Erasing the i-th element of a sequence (vector::erase).
LEMMA RemoveAtFacts ==
    ASSUME NEW S, NEW sq \in Seq(S), NEW i \in 1 .. Len(sq)
    PROVE  /\ RemoveAt(sq, i) \in Seq(S)
           /\ Len(RemoveAt(sq, i)) = Len(sq) - 1
           /\ \A j \in 1 .. Len(sq) - 1 :
                 RemoveAt(sq, i)[j] = IF j < i THEN sq[j] ELSE sq[j + 1]
<1>. DEFINE L == SubSeq(sq, 1, i - 1)
            R == SubSeq(sq, i + 1, Len(sq))
<1>0. /\ \A j \in 1 .. i - 1 : sq[j] \in S
      /\ \A j \in i + 1 .. Len(sq) : sq[j] \in S
      /\ i - 1 \in Int /\ i + 1 \in Int /\ Len(sq) \in Int
  OBVIOUS
<1>1. /\ L \in Seq(S) /\ Len(L) = i - 1
      /\ \A j \in 1 .. i - 1 : L[j] = sq[j]
  BY <1>0, SubSeqProperties
<1>2. /\ R \in Seq(S) /\ Len(R) = Len(sq) - i
      /\ \A j \in 1 .. Len(sq) - i : R[j] = sq[i + j]
  BY <1>0, SubSeqProperties
<1>3. /\ L \o R \in Seq(S) /\ Len(L \o R) = Len(L) + Len(R)
      /\ \A j \in 1 .. Len(L) + Len(R) :
            (L \o R)[j] = IF j <= Len(L) THEN L[j] ELSE R[j - Len(L)]
  <2>. HIDE DEF L, R
  <2>1. L \in Seq(S) /\ R \in Seq(S)
    BY <1>1, <1>2
  <2>. QED
    BY <2>1
<1>4. RemoveAt(sq, i) = L \o R
  BY DEF RemoveAt
<1>. HIDE DEF L, R
<1>5. Len(L \o R) = Len(sq) - 1
  BY <1>1, <1>2, <1>3
<1>6. ASSUME NEW j \in 1 .. Len(sq) - 1
      PROVE  (L \o R)[j] = IF j < i THEN sq[j] ELSE sq[j + 1]
  <2>1. CASE j < i
    BY <1>1, <1>3, <2>1
  <2>2. CASE ~(j < i)
    <3>1. (L \o R)[j] = R[j - (i - 1)]
      BY <1>1, <1>2, <1>3, <2>2
    <3>2. R[j - (i - 1)] = sq[j + 1]
      BY <1>2, <2>2
    <3>. QED
      BY <2>2, <3>1, <3>2
  <2>. QED
    BY <2>1, <2>2
<1>. QED
  BY <1>3, <1>4, <1>5, <1>6

\* Every index RouteTableMatch may return is end() or a route of the table.
LEMMA RouteMatchRange ==
    ASSUME NEW rt \in Seq(Route), NEW t
    PROVE  RouteTableMatch(rt, t) \subseteq {RouteFault} \cup 0 .. Len(rt)
BY DEF RouteTableMatch, RouteMatches

-----------------------------------------------------------------------------
(* IInv is inductive.                                                      *)

LEMMA InitIInv == Init => IInv
<1>. SUFFICES ASSUME Init PROVE IInv
  OBVIOUS
<1>1. TypeOK
  <2>1. arpTable \in Seq(ArpEntry) /\ ipTable \in Seq(IPEntry)
    BY DEF Init
  <2>2. routeTable \in Seq(Route)
    BY DEF Init
  <2>3. /\ pc \in [Procs -> {"idle", "rf_poll", "ap_wait"}]
        /\ target \in [Procs -> Addr \cup {None}]
        /\ rfResult \in [Procs -> Macs \cup {None}]
        /\ heard \in [Procs -> SUBSET Addr]
        /\ outcome \in [Procs -> Outcome \cup {None}]
    BY DEF Init
  <2>. QED
    BY <2>1, <2>2, <2>3 DEF Init, TypeOK
<1>2. UniqueArpEntry /\ UniqueIPEntry /\ BusyHasTarget
  BY DEF Init, UniqueArpEntry, UniqueIPEntry, BusyHasTarget
<1>. QED
  BY <1>1, <1>2 DEF IInv

LEMMA SetIPAddressIInv ==
    ASSUME IInv, NEW p \in Procs, NEW a \in Adapters, NEW ip \in AssignableIPs,
           SetIPAddress(p, a, ip)
    PROVE  IInv'
<1>1. \A i \in 1 .. Len(ipTable) : ipTable[i].adapter # a
  BY IPFindUnique DEF SetIPAddress, IInv, TypeOK, UniqueIPEntry
<1>2. ipTable' \in Seq(IPEntry)
  BY DEF SetIPAddress, IInv, TypeOK, IPEntry
<1>3. UniqueIPEntry'
  BY <1>1 DEF SetIPAddress, IInv, TypeOK, UniqueIPEntry
<1>. QED
  BY <1>2, <1>3 DEF SetIPAddress, IInv, TypeOK, UniqueArpEntry, BusyHasTarget

LEMMA DelIPAddressIInv ==
    ASSUME IInv, NEW p \in Procs, NEW a \in Adapters, DelIPAddress(p, a)
    PROVE  IInv'
<1>. DEFINE k == IPFind(ipTable, a)
<1>1. k \in 1 .. Len(ipTable)
  BY IPFindUnique DEF DelIPAddress, IInv, TypeOK, UniqueIPEntry
<1>2. ipTable' = RemoveAt(ipTable, k)
  BY DEF DelIPAddress
<1>3. /\ ipTable' \in Seq(IPEntry)
      /\ Len(ipTable') = Len(ipTable) - 1
      /\ \A i \in 1 .. Len(ipTable') :
            ipTable'[i] = IF i < k THEN ipTable[i] ELSE ipTable[i + 1]
  BY <1>1, <1>2, RemoveAtFacts DEF IInv, TypeOK
<1>4. UniqueIPEntry'
  BY <1>1, <1>3 DEF IInv, UniqueIPEntry
<1>. QED
  BY <1>3, <1>4 DEF DelIPAddress, IInv, TypeOK, UniqueArpEntry, BusyHasTarget

LEMMA RequestFromStartIInv ==
    ASSUME IInv, NEW p \in Procs, NEW a \in Adapters, NEW ip \in Addr,
           RequestFromStart(p, a, ip)
    PROVE  IInv'
<1>. DEFINE s == IPFind(ipTable, a)
            k == ARPTableFind(arpTable, ip)
<1>1. s \in 0 .. Len(ipTable) /\ k \in 0 .. Len(arpTable)
  BY IPFindUnique, ArpFindUnique DEF IInv, TypeOK, UniqueArpEntry, UniqueIPEntry
<1>2. CASE s # 0
  <2>1. ipTable[s] \in IPEntry
    BY <1>1, <1>2 DEF IInv, TypeOK
  <2>2. RequestFrame(a, ipTable[s].ip, ip) \in Frame
    BY <2>1 DEF RequestFrame, Frame, Macs, IPEntry
  <2>3. k # 0 => arpTable[k] \in ArpEntry
    BY <1>1 DEF IInv, TypeOK
  <2>4. k # 0 => arpTable[k].mac \in Macs
    BY <2>3 DEF ArpEntry
  <2>. QED
    BY <1>2, <2>2, <2>4 DEF RequestFromStart, IInv, TypeOK, UniqueArpEntry,
                            UniqueIPEntry, BusyHasTarget
<1>3. CASE s = 0
  BY <1>3 DEF RequestFromStart, IInv, TypeOK, UniqueArpEntry, UniqueIPEntry,
              BusyHasTarget
<1>. QED
  BY <1>2, <1>3

LEMMA RequestFromPollIInv ==
    ASSUME IInv, NEW p \in Procs, RequestFromFound(p) \/ RequestFromTimeout(p)
    PROVE  IInv'
<1>. DEFINE k == ARPTableFind(arpTable, target[p])
<1>1. k \in 0 .. Len(arpTable)
  BY ArpFindUnique DEF IInv, TypeOK, UniqueArpEntry
<1>2. k # 0 => arpTable[k].mac \in Macs
  <2>1. k # 0 => arpTable[k] \in ArpEntry
    BY <1>1 DEF IInv, TypeOK
  <2>. QED
    BY <2>1 DEF ArpEntry
<1>3. CASE RequestFromFound(p)
  BY <1>2, <1>3 DEF RequestFromFound, IInv, TypeOK, UniqueArpEntry,
                    UniqueIPEntry, BusyHasTarget
<1>4. CASE RequestFromTimeout(p)
  BY <1>4 DEF RequestFromTimeout, IInv, TypeOK, UniqueArpEntry,
              UniqueIPEntry, BusyHasTarget
<1>. QED
  BY <1>3, <1>4

LEMMA ARPingStartIInv ==
    ASSUME IInv, NEW p \in Procs, NEW t \in Addr, ARPingStart(p, t)
    PROVE  IInv'
<1>1. PICK r \in RouteTableMatch(routeTable, t) :
         LET s == IF r \in 1 .. Len(routeTable)
                  THEN IPFind(ipTable, routeTable[r].iface) ELSE 0
         IN
          \/ /\ r = RouteFault
             /\ trap' = "route_scan"
             /\ UNCHANGED <<outbox, pc, heard>>
          \/ /\ r # RouteFault /\ s = 0
             /\ trap' = "divide_error"
             /\ UNCHANGED <<outbox, pc, heard>>
          \/ /\ s # 0
             /\ outbox' = outbox \cup
                  {RequestFrame(routeTable[r].iface, ipTable[s].ip, t)}
             /\ pc' = [pc EXCEPT ![p] = "ap_wait"]
             /\ heard' = [heard EXCEPT ![p] = {}]
             /\ UNCHANGED trap
  BY DEF ARPingStart
<1>. DEFINE s == IF r \in 1 .. Len(routeTable)
                 THEN IPFind(ipTable, routeTable[r].iface) ELSE 0
<1>2. s \in 0 .. Len(ipTable)
  <2>1. CASE r \in 1 .. Len(routeTable)
    <3>2. s = IPFind(ipTable, routeTable[r].iface)
      BY <2>1
    <3>3. IPFind(ipTable, routeTable[r].iface) \in 0 .. Len(ipTable)
      BY IPFindUnique DEF IInv, TypeOK, UniqueIPEntry
    <3>. QED
      BY <3>2, <3>3
  <2>2. CASE r \notin 1 .. Len(routeTable)
    BY <2>2
  <2>. QED
    BY <2>1, <2>2
<1>3. s # 0 => RequestFrame(routeTable[r].iface, ipTable[s].ip, t) \in Frame
  <2>. SUFFICES ASSUME s # 0
               PROVE  RequestFrame(routeTable[r].iface, ipTable[s].ip, t) \in Frame
    OBVIOUS
  <2>1. r \in 1 .. Len(routeTable) /\ s \in 1 .. Len(ipTable)
    BY <1>2
  <2>2. routeTable[r] \in Route /\ ipTable[s] \in IPEntry
    BY <2>1 DEF IInv, TypeOK
  <2>3. routeTable[r].iface \in Adapters /\ ipTable[s].ip \in Addr
    BY <2>2 DEF Route, IPEntry
  <2>. QED
    BY <2>3 DEF RequestFrame, Frame, Macs
<1>. QED
  BY <1>1, <1>3 DEF ARPingStart, IInv, TypeOK, UniqueArpEntry, UniqueIPEntry,
                    BusyHasTarget

LEMMA ARPingFinishIInv ==
    ASSUME IInv, NEW p \in Procs, ARPingFinish(p)
    PROVE  IInv'
<1>1. target[p] \in Addr /\ heard[p] \in SUBSET Addr /\ arpingReceived \in BOOLEAN
  BY DEF ARPingFinish, IInv, TypeOK, BusyHasTarget
<1>2. [target |-> target[p], passed |-> arpingReceived, heard |-> heard[p]] \in Outcome
  BY <1>1 DEF Outcome
<1>. QED
  BY <1>2 DEF ARPingFinish, IInv, TypeOK, UniqueArpEntry, UniqueIPEntry,
              BusyHasTarget

LEMMA ArpMainIInv ==
    ASSUME IInv, NEW a \in Adapters, NEW f \in inbox, ArpMain(a, f)
    PROVE  IInv'
<1>. DEFINE s  == IPFind(ipTable, a)
            k  == ARPTableFind(arpTable, f.spa)
            R  == Refreshed(arpTable, f)
            e  == [ip |-> f.spa, mac |-> f.sha, adapter |-> a]
<1>1. f \in Frame
  BY DEF IInv, TypeOK
<1>2. /\ R \in Seq(ArpEntry)
      /\ Len(R) = Len(arpTable)
      /\ \A i \in 1 .. Len(arpTable) : R[i].ip = arpTable[i].ip
  BY <1>1, RefreshedFacts DEF IInv, TypeOK, UniqueArpEntry
<1>3. s \in 0 .. Len(ipTable)
  BY IPFindUnique DEF IInv, TypeOK, UniqueIPEntry
<1>4. e \in ArpEntry
  BY <1>1 DEF Frame, ArpEntry
<1>5. arpTable' \in Seq(ArpEntry) /\ UniqueArpEntry'
  <2>1. CASE ForMe(a, f) /\ k = 0
    <3>1. \A i \in 1 .. Len(arpTable) : arpTable[i].ip # f.spa
      BY <2>1, ArpFindUnique DEF IInv, TypeOK, UniqueArpEntry
    <3>2. arpTable' = Append(R, e)
      BY <2>1 DEF ArpMain, CacheUpdate
    <3>. QED
      BY <1>2, <1>4, <3>1, <3>2 DEF IInv, UniqueArpEntry
  <2>2. CASE ~(ForMe(a, f) /\ k = 0)
    <3>1. arpTable' = R
      BY <2>2 DEF ArpMain, CacheUpdate
    <3>. QED
      BY <1>2, <3>1 DEF IInv, UniqueArpEntry
  <2>. QED
    BY <2>1, <2>2
<1>6. outbox' \subseteq Frame
  <2>1. ForMe(a, f) => s \in 1 .. Len(ipTable)
    BY <1>3 DEF ForMe
  <2>2. ForMe(a, f) => ipTable[s].ip \in Addr
    <3>1. ForMe(a, f) => ipTable[s] \in IPEntry
      BY <2>1 DEF IInv, TypeOK
    <3>. QED
      BY <3>1 DEF IPEntry
  <2>3. f.spa \in Addr /\ f.sha \in Macs
    BY <1>1 DEF Frame
  <2>4. ForMe(a, f) => [op |-> Reply, sha |-> a, spa |-> ipTable[s].ip,
                          tpa |-> f.spa, dst |-> f.sha, link |-> a] \in Frame
    BY <2>2, <2>3 DEF Frame, Macs
  <2>. QED
    BY <2>4 DEF ArpMain, IInv, TypeOK
<1>7. heard' \in [Procs -> SUBSET Addr]
  BY <1>1 DEF ArpMain, IInv, TypeOK, Frame
<1>. QED
  BY <1>5, <1>6, <1>7 DEF ArpMain, IInv, TypeOK, UniqueIPEntry, BusyHasTarget

LEMMA EnvironmentIInv ==
    ASSUME IInv,
           \/ \E h \in Hosts, f \in outbox : HostAnswer(h, f)
           \/ \E h \in Hosts, t \in Addr : HostRequest(h, t)
           \/ \E f \in inbox \cup outbox : FrameLost(f)
    PROVE  IInv'
BY DEF HostAnswer, HostRequest, FrameLost, IInv, TypeOK, Frame, Macs,
       UniqueArpEntry, UniqueIPEntry, BusyHasTarget

LEMMA NextIInv == IInv /\ [Next]_vars => IInv'
<1>. SUFFICES ASSUME IInv, [Next]_vars PROVE IInv'
  OBVIOUS
<1>1. CASE \E p \in Procs, a \in Adapters, ip \in AssignableIPs : SetIPAddress(p, a, ip)
  BY <1>1, SetIPAddressIInv
<1>2. CASE \E p \in Procs, a \in Adapters : DelIPAddress(p, a)
  BY <1>2, DelIPAddressIInv
<1>3. CASE \E p \in Procs, a \in Adapters, ip \in Addr : RequestFromStart(p, a, ip)
  BY <1>3, RequestFromStartIInv
<1>4. CASE \E p \in Procs : RequestFromFound(p) \/ RequestFromTimeout(p)
  BY <1>4, RequestFromPollIInv
<1>5. CASE \E p \in Procs, t \in Addr : ARPingStart(p, t)
  BY <1>5, ARPingStartIInv
<1>6. CASE \E p \in Procs : ARPingFinish(p)
  BY <1>6, ARPingFinishIInv
<1>7. CASE \E a \in Adapters, f \in inbox : ArpMain(a, f)
  BY <1>7, ArpMainIInv
<1>8. CASE \/ \E h \in Hosts, f \in outbox : HostAnswer(h, f)
           \/ \E h \in Hosts, t \in Addr : HostRequest(h, t)
           \/ \E f \in inbox \cup outbox : FrameLost(f)
  BY <1>8, EnvironmentIInv
<1>9. CASE Halted \/ UNCHANGED vars
  BY <1>9 DEF Halted, vars, IInv, TypeOK, UniqueArpEntry, UniqueIPEntry, BusyHasTarget
<1>. QED
  BY <1>1, <1>2, <1>3, <1>4, <1>5, <1>6, <1>7, <1>8, <1>9 DEF Next

-----------------------------------------------------------------------------
(* The theorems.                                                            *)

\* Every reachable state is well typed.
THEOREM TypeCorrect == Spec => []TypeOK
<1>1. Init => IInv
  BY InitIInv
<1>2. IInv /\ [Next]_vars => IInv'
  BY NextIInv
<1>3. IInv => TypeOK
  BY DEF IInv
<1>. QED
  BY <1>1, <1>2, <1>3, PTL DEF Spec

\* ARP::Main never adds a second cache entry for an address, whatever the
\* interleaving of interrupts, resolutions, arpings and table updates.
THEOREM ArpEntriesUnique == Spec => []UniqueArpEntry
<1>1. Init => IInv
  BY InitIInv
<1>2. IInv /\ [Next]_vars => IInv'
  BY NextIInv
<1>3. IInv => UniqueArpEntry
  BY DEF IInv
<1>. QED
  BY <1>1, <1>2, <1>3, PTL DEF Spec

=============================================================================
