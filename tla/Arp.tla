-------------------------------- MODULE Arp --------------------------------
(***************************************************************************)
(* The ARP component of src/kernel/UProtocols.cc: the ARP cache            *)
(* (ARP::ARPTable), the per-adapter address table it consults             *)
(* (IPv4::AdapterIPAddressTable), the resolve-or-wait call                *)
(* ARP::RequestFrom, the ARPing tester ARP::Tester::ARPing, and the       *)
(* receive handler ARP::Main that the interrupt handler runs for every    *)
(* ARP frame.                                                              *)
(*                                                                         *)
(* Execution contexts.  Each process in Procs is a CPU running a system   *)
(* call (a RequestFrom issued by IPv4::ToDevice, an arping, or one of the *)
(* address-table system calls).  ArpMain is the receive interrupt: all    *)
(* network interrupts go to one CPU and are not nested, so one ArpMain    *)
(* runs at a time and is one atomic step, interleaved with the system     *)
(* calls, which take no lock on these tables.  Remote hosts and the wire  *)
(* are the environment: a host answers requests for its address, sends   *)
(* requests of its own, and any frame may be lost.                         *)
(*                                                                         *)
(* Abstraction.  A frame keeps the fields the handlers read; the MAC      *)
(* address of an adapter or host is the adapter or host itself.  The      *)
(* busy-wait budgets (Tester::MaxDelay) are not counted: a RequestFrom    *)
(* poll that misses may be the last one, and an arping may stop waiting   *)
(* at any moment after its request is sent.  Transmit is one step here;   *)
(* the descriptor ring behind it is modelled in NicRing.                  *)
(***************************************************************************)
EXTENDS Naturals, Sequences, SequencesExt, RouteLookup

CONSTANTS
    Hosts,        \* remote hosts on the links, model values
    HostIP,       \* the address of each host
    HostLink,     \* the adapter whose link each host is on
    AssignableIPs,\* addresses a user may give an adapter (INet_SetIPAddress)
    Procs,        \* CPUs running system calls
    InitRoutes,   \* the route table (static in this module)
    None,         \* a model value: no result / null pointer
    Broadcast     \* a model value: the broadcast MAC address

ASSUME ArpConstantsAssumption ==
    /\ HostIP \in [Hosts -> Addr]
    /\ HostLink \in [Hosts -> Adapters]
    /\ AssignableIPs \subseteq Addr
    /\ InitRoutes \in Seq(Route)
    /\ None \notin Adapters \cup Hosts \cup Addr
    /\ Broadcast \notin Adapters \cup Hosts

\* ARP::Operations
Request == 1
Reply == 2

Macs == Adapters \cup Hosts

\* An ARP frame on a link: operation, sender hardware/protocol address,
\* target protocol address, Ethernet destination, and the link it is on.
Frame == [op : {Request, Reply}, sha : Macs, spa : Addr, tpa : Addr,
          dst : Macs \cup {Broadcast}, link : Adapters]

\* ARP::ARPTableItem (HWType is always 1 and Flags always COM).
ArpEntry == [ip : Addr, mac : Macs, adapter : Adapters]

\* IPv4::AdapterIPAddressItem (the subnet mask is only printed).
IPEntry == [adapter : Adapters, ip : Addr]

\* What an arping reports: its target, whether it passed, and (history)
\* the senders of the ARP replies the interrupt handler saw meanwhile.
Outcome == [target : Addr, passed : BOOLEAN, heard : SUBSET Addr]

VARIABLES
    arpTable,       \* ARP::ARPTable
    ipTable,        \* IPv4::AdapterIPAddressTable
    routeTable,     \* IPv4::RouteTable
    inbox,          \* frames on the links, addressed to this machine
    outbox,         \* frames this machine has transmitted
    arpingTesting,  \* ARP::Tester::ARPingIsTesting
    arpingReceived, \* ARP::Tester::ARPingIsReceived
    pc,             \* where each system-call CPU is
    target,         \* the address a CPU is resolving or probing
    rfResult,       \* the MAC address RequestFrom last returned, or None
    heard,          \* history: reply senders seen during a CPU's arping
    outcome,        \* what a CPU's last arping reported, or None
    trap            \* "none", or the fault the kernel stopped on

vars == <<arpTable, ipTable, routeTable, inbox, outbox, arpingTesting,
          arpingReceived, pc, target, rfResult, heard, outcome, trap>>

-----------------------------------------------------------------------------
(* Table lookups: the find_if scans, 0 standing for end().                 *)

\* ARP::ARPTableFind
ARPTableFind(tbl, ip) == SelectInSeq(tbl, LAMBDA e : e.ip = ip)

\* IPv4::IPFind(const NetworkAdapter*)
IPFind(tbl, a) == SelectInSeq(tbl, LAMBDA e : e.adapter = a)

\* The broadcast request that RequestFrom and ARPing build (Prepare,
\* SetSender*, SetTargetProtocolAddress, Broadcast) and send on a.
\* Mutant: the sender hardware address is left as the broadcast address.
RequestFrameBadSha(a, spa, tpa) ==
    [op |-> Request, sha |-> Broadcast, spa |-> spa, tpa |-> tpa,
     dst |-> Broadcast, link |-> a]

RequestFrame(a, spa, tpa) ==
    [op |-> Request, sha |-> a, spa |-> spa, tpa |-> tpa, dst |-> Broadcast,
     link |-> a]

-----------------------------------------------------------------------------
Init ==
    /\ arpTable = <<>>
    /\ ipTable = <<>>
    /\ routeTable = InitRoutes
    /\ inbox = {}
    /\ outbox = {}
    /\ arpingTesting = FALSE
    /\ arpingReceived = FALSE
    /\ pc = [p \in Procs |-> "idle"]
    /\ target = [p \in Procs |-> None]
    /\ rfResult = [p \in Procs |-> None]
    /\ heard = [p \in Procs |-> {}]
    /\ outcome = [p \in Procs |-> None]
    /\ trap = "none"

-----------------------------------------------------------------------------
(* Address-table system calls (INet_SetIPAddress, INet_DelIPAddress).     *)

\* INet_SetIPAddress -> IPv4::IPAllocate: refused when the adapter already
\* has an address, otherwise appended.
SetIPAddress(p, a, ip) ==
    /\ trap = "none"
    /\ pc[p] = "idle"
    /\ IPFind(ipTable, a) = 0
    /\ ipTable' = Append(ipTable, [adapter |-> a, ip |-> ip])
    /\ UNCHANGED <<arpTable, routeTable, inbox, outbox, arpingTesting,
                   arpingReceived, pc, target, rfResult, heard, outcome,
                   trap>>

\* INet_DelIPAddress -> IPv4::IPDelete: erase the adapter's entry.
DelIPAddress(p, a) ==
    /\ trap = "none"
    /\ pc[p] = "idle"
    /\ IPFind(ipTable, a) # 0
    /\ ipTable' = RemoveAt(ipTable, IPFind(ipTable, a))
    /\ UNCHANGED <<arpTable, routeTable, inbox, outbox, arpingTesting,
                   arpingReceived, pc, target, rfResult, heard, outcome,
                   trap>>

-----------------------------------------------------------------------------
(* ARP::RequestFrom(Device, IP), called by IPv4::ToDevice.                 *)

\* Entry: no address on the adapter returns nullptr; a cached entry returns
\* its MAC; a miss broadcasts a request and starts polling.
RequestFromStart(p, a, ip) ==
    LET s == IPFind(ipTable, a)
        k == ARPTableFind(arpTable, ip)
    IN
    /\ trap = "none"
    /\ pc[p] = "idle"
    /\ target' = [target EXCEPT ![p] = ip]
    /\ \/ /\ s = 0
          /\ rfResult' = [rfResult EXCEPT ![p] = None]
          /\ UNCHANGED <<outbox, pc>>
       \/ /\ s # 0 /\ k # 0
          /\ rfResult' = [rfResult EXCEPT ![p] = arpTable[k].mac]
          /\ UNCHANGED <<outbox, pc>>
       \/ /\ s # 0 /\ k = 0
          /\ outbox' = outbox \cup {RequestFrame(a, ipTable[s].ip, ip)}
          /\ pc' = [pc EXCEPT ![p] = "rf_poll"]
          /\ UNCHANGED rfResult
    /\ UNCHANGED <<arpTable, ipTable, routeTable, inbox, arpingTesting,
                   arpingReceived, heard, outcome, trap>>

\* One pass of the polling loop that finds the entry: return its MAC.
RequestFromFound(p) ==
    LET k == ARPTableFind(arpTable, target[p]) IN
    /\ trap = "none"
    /\ pc[p] = "rf_poll"
    /\ k # 0
    /\ rfResult' = [rfResult EXCEPT ![p] = arpTable[k].mac]
    /\ pc' = [pc EXCEPT ![p] = "idle"]
    /\ UNCHANGED <<arpTable, ipTable, routeTable, inbox, outbox,
                   arpingTesting, arpingReceived, target, heard, outcome,
                   trap>>

\* The pass that misses with the budget spent: return nullptr.
RequestFromTimeout(p) ==
    /\ trap = "none"
    /\ pc[p] = "rf_poll"
    /\ ARPTableFind(arpTable, target[p]) = 0
    /\ rfResult' = [rfResult EXCEPT ![p] = None]
    /\ pc' = [pc EXCEPT ![p] = "idle"]
    /\ UNCHANGED <<arpTable, ipTable, routeTable, inbox, outbox,
                   arpingTesting, arpingReceived, target, heard, outcome,
                   trap>>

-----------------------------------------------------------------------------
(* ARP::Tester::ARPing(TargetIPAddress).                                   *)

\* Set the tester flags, look up the route and the sender address.  A
\* route scan that runs past the table end faults.  When no route or no
\* sender address is found the code jumps to EndTesting with Count = 0
\* and divides by it: the kernel traps.  Otherwise it broadcasts one
\* request.
ARPingStart(p, t) ==
    /\ trap = "none"
    /\ pc[p] = "idle"
    /\ target' = [target EXCEPT ![p] = t]
    /\ arpingTesting' = TRUE
    /\ arpingReceived' = FALSE
    /\ \E r \in RouteTableMatch(routeTable, t) :
          LET s == IF r \in 1 .. Len(routeTable)
                   THEN IPFind(ipTable, routeTable[r].iface) ELSE 0
          IN
          \/ /\ r = RouteFault
             /\ trap' = "route_scan"
             /\ UNCHANGED <<outbox, pc, heard>>
          \/ /\ r # RouteFault /\ s = 0
             /\ trap' = "divide_error"
             /\ UNCHANGED <<outbox, pc, heard>>
          \/ /\ s # 0
             /\ outbox' = outbox \cup
                  {RequestFrame(routeTable[r].iface, ipTable[s].ip, t)}
             /\ pc' = [pc EXCEPT ![p] = "ap_wait"]
             /\ heard' = [heard EXCEPT ![p] = {}]
             /\ UNCHANGED trap
    /\ UNCHANGED <<arpTable, ipTable, routeTable, inbox, rfResult, outcome>>

\* The wait loop has run out: report Passed when the flag is set, Timeout
\* otherwise, and clear both tester flags.
ARPingFinish(p) ==
    /\ trap = "none"
    /\ pc[p] = "ap_wait"
    /\ outcome' = [outcome EXCEPT ![p] =
                     [target |-> target[p], passed |-> arpingReceived,
                      heard |-> heard[p]]]
    /\ arpingTesting' = FALSE
    /\ arpingReceived' = FALSE
    /\ pc' = [pc EXCEPT ![p] = "idle"]
    /\ UNCHANGED <<arpTable, ipTable, routeTable, inbox, outbox, target,
                   rfResult, heard, trap>>

-----------------------------------------------------------------------------
(* ARP::Main(Device, Frame): the receive interrupt, after FrameFilter     *)
(* (broadcast or this adapter's MAC) and the EtherType dispatch.           *)

\* Tester branch: any reply sets the flag while an arping is running.
TesterSees(f) == arpingTesting /\ f.op = Reply

\* Under ARPLock: refresh the MAC of an existing entry for the sender.
Refreshed(tbl, f) ==
    LET k == ARPTableFind(tbl, f.spa) IN
    IF k # 0
    THEN [tbl EXCEPT ![k] = [ip |-> tbl[k].ip, mac |-> f.sha,
                             adapter |-> tbl[k].adapter]]
    ELSE tbl

\* The frame targets the address this adapter holds.
ForMe(a, f) ==
    LET s == IPFind(ipTable, a) IN s # 0 /\ ipTable[s].ip = f.tpa

\* Mutant: the sender is inserted without the existing-entry check.
CacheUpdateNoKnownCheck(a, f) ==
    IF ForMe(a, f)
    THEN Append(Refreshed(arpTable, f), [ip |-> f.spa, mac |-> f.sha, adapter |-> a])
    ELSE Refreshed(arpTable, f)

\* The cache after the frame: refresh an existing entry, and when the frame
\* is for this adapter and no entry was found (the lookup is made before
\* ARPLock is taken), insert the sender.
CacheUpdate(a, f) ==
    IF ForMe(a, f) /\ ARPTableFind(arpTable, f.spa) = 0
    THEN Append(Refreshed(arpTable, f), [ip |-> f.spa, mac |-> f.sha, adapter |-> a])
    ELSE Refreshed(arpTable, f)

ArpMain(a, f) ==
    LET s == IPFind(ipTable, a) IN
    /\ trap = "none"
    /\ f \in inbox
    /\ f.link = a
    /\ f.dst \in {Broadcast, a}
    /\ inbox' = inbox \ {f}
    /\ arpingReceived' = (arpingReceived \/ TesterSees(f))
    /\ heard' = [p \in Procs |->
                   IF pc[p] = "ap_wait" /\ f.op = Reply
                   THEN heard[p] \cup {f.spa} ELSE heard[p]]
    /\ arpTable' = CacheUpdate(a, f)
    /\ outbox' =
         IF ForMe(a, f) /\ f.op = Request
         THEN outbox \cup {[op |-> Reply, sha |-> a, spa |-> ipTable[s].ip,
                            tpa |-> f.spa, dst |-> f.sha, link |-> a]}
         ELSE outbox
    /\ UNCHANGED <<ipTable, routeTable, arpingTesting, pc, target, rfResult,
                   outcome, trap>>

-----------------------------------------------------------------------------
(* The environment: remote hosts (RFC 826 behaviour) and the wire.        *)

\* A host answers a broadcast request for its address with a unicast reply.
HostAnswer(h, f) ==
    /\ trap = "none"
    /\ f \in outbox
    /\ f.op = Request /\ f.link = HostLink[h] /\ f.tpa = HostIP[h]
    /\ outbox' = outbox \ {f}
    /\ inbox' = inbox \cup {[op |-> Reply, sha |-> h, spa |-> HostIP[h],
                             tpa |-> f.spa, dst |-> f.sha, link |-> f.link]}
    /\ UNCHANGED <<arpTable, ipTable, routeTable, arpingTesting,
                   arpingReceived, pc, target, rfResult, heard, outcome,
                   trap>>

\* A host broadcasts a request of its own for any address.
HostRequest(h, t) ==
    /\ trap = "none"
    /\ inbox' = inbox \cup {[op |-> Request, sha |-> h, spa |-> HostIP[h],
                             tpa |-> t, dst |-> Broadcast,
                             link |-> HostLink[h]]}
    /\ UNCHANGED <<arpTable, ipTable, routeTable, outbox, arpingTesting,
                   arpingReceived, pc, target, rfResult, heard, outcome,
                   trap>>

\* A frame is lost, or reaches a host that ignores it.
FrameLost(f) ==
    /\ trap = "none"
    /\ f \in inbox \cup outbox
    /\ inbox' = inbox \ {f}
    /\ outbox' = outbox \ {f}
    /\ UNCHANGED <<arpTable, ipTable, routeTable, arpingTesting,
                   arpingReceived, pc, target, rfResult, heard, outcome,
                   trap>>

\* After the trap nothing runs any more.
Halted == trap # "none" /\ UNCHANGED vars

-----------------------------------------------------------------------------
Next ==
    \/ \E p \in Procs, a \in Adapters, ip \in AssignableIPs : SetIPAddress(p, a, ip)
    \/ \E p \in Procs, a \in Adapters : DelIPAddress(p, a)
    \/ \E p \in Procs, a \in Adapters, ip \in Addr : RequestFromStart(p, a, ip)
    \/ \E p \in Procs : RequestFromFound(p) \/ RequestFromTimeout(p)
    \/ \E p \in Procs, t \in Addr : ARPingStart(p, t)
    \/ \E p \in Procs : ARPingFinish(p)
    \/ \E a \in Adapters, f \in inbox : ArpMain(a, f)
    \/ \E h \in Hosts, f \in outbox : HostAnswer(h, f)
    \/ \E h \in Hosts, t \in Addr : HostRequest(h, t)
    \/ \E f \in inbox \cup outbox : FrameLost(f)
    \/ Halted

Spec == Init /\ [][Next]_vars

-----------------------------------------------------------------------------
(* Properties.                                                              *)

TypeOK ==
    /\ arpTable \in Seq(ArpEntry)
    /\ ipTable \in Seq(IPEntry)
    /\ routeTable \in Seq(Route)
    /\ inbox \subseteq Frame
    /\ outbox \subseteq Frame
    /\ arpingTesting \in BOOLEAN
    /\ arpingReceived \in BOOLEAN
    /\ pc \in [Procs -> {"idle", "rf_poll", "ap_wait"}]
    /\ target \in [Procs -> Addr \cup {None}]
    /\ rfResult \in [Procs -> Macs \cup {None}]
    /\ heard \in [Procs -> SUBSET Addr]
    /\ outcome \in [Procs -> Outcome \cup {None}]
    /\ trap \in {"none", "divide_error", "route_scan"}

\* ARP cache idempotence (spec 8): however often and in whatever order
\* ARP::Main sees requests and replies, the cache holds at most one entry
\* per IP address (the insert is guarded by a lookup made under ARPLock).
UniqueArpEntry ==
    \A i, j \in 1 .. Len(arpTable) : i # j => arpTable[i].ip # arpTable[j].ip

\* An arping that reports Passed was answered by its target (spec 4.3: the
\* handler marks the probe satisfied when the frame matches it).
ARPingPassedSound ==
    \A p \in Procs :
        outcome[p] # None /\ outcome[p].passed => outcome[p].target \in outcome[p].heard

\* ARPing never traps: spec 7 says every failure of an arping (no route,
\* no sender address) is a result code.  Two code paths of ARPing and
\* RouteTableMatch fault instead: the divide by Count = 0 at EndTesting when
\* no request was sent, and the route scan that advances its iterator past
\* end() when the last route does not match the target.
ArpNoFault == trap = "none"

=====
