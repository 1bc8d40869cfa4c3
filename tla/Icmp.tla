-------------------------------- MODULE Icmp --------------------------------
(***************************************************************************)
(* ICMP echo in src/kernel/UProtocols.cc: the ping state machine          *)
(* ICMPControllers::PingEcho::Ping, run by a CPU in the INet_Ping system  *)
(* call, and the receive path FrameBufferHandler -> IPv4::Main ->          *)
(* ICMPv4::Main that the network interrupt runs for every IPv4 frame,     *)
(* which answers echo requests and flags the echo reply Ping waits for.   *)
(* Both sides send through ICMPv4::ToDevice -> IPv4::ToDevice, which      *)
(* resolves the destination with ARP::RequestFrom.                         *)
(*                                                                         *)
(* Contexts.  Ping is one CPU in a system call; the interrupt handler     *)
(* runs one frame at a time, interleaved with Ping at any point, and      *)
(* shares with it the statics IsTesting, IsReceived, CurrentID and        *)
(* CurrentSN.  The busy-wait loops (Ping's wait for IsReceived, the ARP   *)
(* poll in RequestFrom) are not counted: a loop may end by running out of *)
(* budget at any pass.  Inside the interrupt, RequestFrom's poll cannot   *)
(* succeed (the ARP reply is handled by a later interrupt), so a miss      *)
(* drops the frame after broadcasting the ARP request.                     *)
(*                                                                         *)
(* Abstraction.  A frame is a record of the fields the handlers read; the *)
(* byte encoding and the checksums are modelled in FrameCodec and         *)
(* EchoCodec, whose properties show that these fields survive the trip.   *)
(* The ARP cache is the set of addresses it resolves (its entries and     *)
(* races are modelled in Arp).  The address table is fixed for a run      *)
(* (its system calls are in Arp).  The route table starts empty, as at   *)
(* boot, and grows by INet_RTAddStatic calls made on another CPU at any   *)
(* point of Ping or of the interrupt.                                      *)
(* The environment is the remote hosts on the link: they answer echo      *)
(* requests for their address, possibly more than once, answer ARP        *)
(* requests, send echo requests of their own, and any frame may be lost.  *)
(***************************************************************************)
EXTENDS Naturals, FiniteSets, RouteLookup, IcmpTypes, EchoCodec

CONSTANTS
    Hosts,       \* remote hosts on the link, model values
    HostIP,      \* the address of each host
    LocalIP,     \* the adapter's IPv4::AdapterIPAddressTable entry, or None
    RouteRequests, \* INet_RTAddStatic calls: [dst, via, mask, dev]
    MaxRoutes,   \* bound on the length of the route table
    PingTargets, \* addresses INet_Ping may be called with
    PingIDs,     \* values mt19937l may produce for CurrentID
    HostRequests, \* the echo requests the hosts may send us
    MaxPings,    \* bound on the number of Ping calls in a behaviour
    MaxFrames,   \* bound on the frames the hosts keep in flight to us
    None         \* a model value: no address

ASSUME IcmpConstantsAssumption ==
    /\ HostIP \in [Hosts -> Addr]
    /\ LocalIP \in [Adapters -> Addr \cup {None}]
    /\ RouteRequests \subseteq [dst : Addr, via : Addr, mask : Addr, dev : Adapters \cup {None}]
    /\ MaxRoutes \in Nat
    /\ PingTargets \subseteq Addr
    /\ PingIDs # {} /\ PingIDs \subseteq Nat
    /\ HostRequests \subseteq [type : {TEchoRequest}, src : Addr, dst : Addr,
                                id : Nat, seq : Nat, link : Adapters]
    /\ MaxPings \in Nat
    /\ MaxFrames \in Nat
    /\ None \notin Addr

\* An ICMP echo in an IPv4 frame: type, IPv4 source and destination,
\* identifier, sequence number, and the adapter's link it travels on.
Echo == [type : {TEchoReply, TEchoRequest}, src : Addr, dst : Addr,
         id : Nat, seq : Nat, link : Adapters]

VARIABLES
    isTesting,    \* PingEcho::IsTesting
    isReceived,   \* PingEcho::IsReceived
    currentID,    \* PingEcho::CurrentID
    currentSN,    \* PingEcho::CurrentSN
    pc,           \* where Ping is: "idle", "prepare", "send", "arp_poll",
                  \* "wait", "end"
    target,       \* Ping's TargetIPAddress
    device,       \* Ping's Device (the route's adapter)
    pingSent,     \* Ping's PingSent
    pingReceived, \* Ping's PingReceived
    unanswered,   \* Ping's UnansweredCount
    pings,        \* Ping calls made so far
    arpCache,     \* the addresses ARP::ARPTable resolves
    inbox,        \* frames on the link addressed to this machine
    outbox,       \* frames this machine has transmitted
    trap,         \* "none", or the fault the kernel stopped on
    replied,      \* history: sequence numbers of the replies ICMPv4::Main
                  \* flagged during this test
    counted,      \* history: sequence numbers Ping counted as answered
    served,       \* history: echo requests IPv4::Main passed to ICMPv4::Main
    routes        \* IPv4::RouteTable

vars == <<isTesting, isReceived, currentID, currentSN, pc, target, device,
          pingSent, pingReceived, unanswered, pings, arpCache,
          inbox, outbox, trap, replied, counted, served, routes>>

pingVars == <<isTesting, currentID, currentSN, pc, target, device, pingSent,
              pingReceived, unanswered, pings, counted>>

-----------------------------------------------------------------------------
Init ==
    /\ isTesting = FALSE
    /\ isReceived = FALSE
    /\ currentID = 0
    /\ currentSN = 0
    /\ pc = "idle"
    /\ target = None
    /\ device = None
    /\ pingSent = 0
    /\ pingReceived = 0
    /\ unanswered = 0
    /\ pings = 0
    /\ arpCache = {}
    /\ inbox = {}
    /\ outbox = {}
    /\ trap = "none"
    /\ replied = {}
    /\ counted = {}
    /\ served = {}
    /\ routes = <<>>

-----------------------------------------------------------------------------
(* PingEcho::Ping(TargetIPAddress), system-call context.                   *)

\* The echo request of the current pass: the frame carries CurrentID, the
\* sequence number and the target; IPv4::ToDevice sets the source to the
\* adapter's address.
EchoRequest(a, sn) ==
    [type |-> TEchoRequest, src |-> LocalIP[a], dst |-> target, id |-> currentID,
     seq |-> sn, link |-> a]

\* Init and Find IP: IsTesting = 1, IsReceived = 0, zero the counters, look
\* up the route and the sender address.  A route scan past the table end
\* faults; with no route or no address Ping jumps to EndTesting, which
\* divides by PingSent = 0.
PingStart(t) ==
    /\ trap = "none"
    /\ pc = "idle"
    /\ pings < MaxPings
    /\ pings' = pings + 1
    /\ isTesting' = TRUE
    /\ isReceived' = FALSE
    /\ pingSent' = 0
    /\ pingReceived' = 0
    /\ unanswered' = 0
    /\ target' = t
    /\ replied' = {}
    /\ counted' = {}
    /\ \E r \in RouteTableMatch(routes, t) :
          \/ /\ r = RouteFault
             /\ trap' = "route_scan"
             /\ UNCHANGED <<pc, device>>
          \/ /\ r # RouteFault
             /\ IF r = 0 THEN TRUE ELSE LocalIP[routes[r].iface] = None
             /\ trap' = "divide_error"
             /\ UNCHANGED <<pc, device>>
          \/ /\ r \notin {0, RouteFault}
             /\ LocalIP[routes[r].iface] # None
             /\ device' = routes[r].iface
             /\ pc' = "prepare"
             /\ UNCHANGED trap
    /\ UNCHANGED <<routes, currentID, currentSN, arpCache, inbox, outbox, served>>

\* Prepare send request: CurrentID = Engine->Gen() & 0xFFFF.  Until this
\* step the interrupt still matches replies against the last test's
\* CurrentID and CurrentSN.
PingPrepare ==
    /\ trap = "none"
    /\ pc = "prepare"
    /\ \E id \in PingIDs : currentID' = id
    /\ pc' = "send"
    /\ UNCHANGED <<routes, isTesting, isReceived, currentSN, target, device, pingSent,
                   pingReceived, unanswered, pings, arpCache, inbox, outbox,
                   trap, replied, counted, served>>

\* Top of a pass: CurrentSN = i + 1, then Frame->ToDevice(*Device).  With
\* the target in the ARP cache the echo goes out and ++PingSent; otherwise
\* ARP::RequestFrom broadcasts an ARP request and polls the table.
PingSend ==
    /\ trap = "none"
    /\ pc = "send"
    /\ currentSN' = pingSent + 1
    /\ \/ /\ target \in arpCache
          /\ outbox' = outbox \cup {EchoRequest(device, pingSent + 1)}
          /\ pingSent' = pingSent + 1
          /\ pc' = "wait"
       \/ /\ target \notin arpCache
          /\ pc' = "arp_poll"
          /\ UNCHANGED <<routes, outbox, pingSent>>
    /\ UNCHANGED <<routes, isTesting, isReceived, currentID, target, device,
                   pingReceived, unanswered, pings, arpCache, inbox, trap,
                   replied, counted, served>>

\* The poll of ARP::RequestFrom ends: the entry has appeared and the echo
\* goes out, or the budget is spent and IPv4::ToDevice returns -2, which
\* Ping ignores.  Either way ++PingSent.
PingArpPoll ==
    /\ trap = "none"
    /\ pc = "arp_poll"
    /\ \/ /\ target \in arpCache
          /\ outbox' = outbox \cup {EchoRequest(device, currentSN)}
       \/ UNCHANGED outbox
    /\ pingSent' = pingSent + 1
    /\ pc' = "wait"
    /\ UNCHANGED <<routes, isTesting, isReceived, currentID, currentSN, target,
                   device, pingReceived, unanswered, pings, arpCache, inbox,
                   trap, replied, counted, served>>

\* Mutant: the wait loop has no budget, it only ends on IsReceived.
PingCollectOnReply ==
    /\ trap = "none"
    /\ pc = "wait"
    /\ isReceived
    /\ pingReceived' = pingReceived + 1
    /\ counted' = counted \cup {currentSN}
    /\ isReceived' = FALSE
    /\ pc' = IF pingSent < PingBurst THEN "send" ELSE "end"
    /\ UNCHANGED <<routes, isTesting, currentID, currentSN, target, device, pingSent,
                   unanswered, pings, arpCache, inbox, outbox, trap, replied,
                   served>>

\* Mutant: the loop runs while i <= 5, one pass too many.
PingCollectPastBurst ==
    /\ trap = "none"
    /\ pc = "wait"
    /\ \/ /\ isReceived
          /\ pingReceived' = pingReceived + 1
          /\ counted' = counted \cup {currentSN}
          /\ isReceived' = FALSE
          /\ UNCHANGED unanswered
       \/ /\ ~isReceived
          /\ unanswered' = unanswered + 1
          /\ UNCHANGED <<routes, pingReceived, counted, isReceived>>
    /\ pc' = IF pingSent <= PingBurst THEN "send" ELSE "end"
    /\ UNCHANGED <<routes, isTesting, currentID, currentSN, target, device, pingSent,
                   pings, arpCache, inbox, outbox, trap, replied, served>>

\* The wait loop ends, because IsReceived is set or the delay budget is
\* spent, and "if (IsReceived)" reads the flag: count an answer and clear
\* the flag, or count an unanswered echo.  After the fifth pass go on to
\* EndTesting.
PingCollect ==
    /\ trap = "none"
    /\ pc = "wait"
    /\ \/ /\ isReceived
          /\ pingReceived' = pingReceived + 1
          /\ counted' = counted \cup {currentSN}
          /\ isReceived' = FALSE
          /\ UNCHANGED unanswered
       \/ /\ ~isReceived
          /\ unanswered' = unanswered + 1
          /\ UNCHANGED <<routes, pingReceived, counted, isReceived>>
    /\ pc' = IF pingSent < PingBurst THEN "send" ELSE "end"
    /\ UNCHANGED <<routes, isTesting, currentID, currentSN, target, device, pingSent,
                   pings, arpCache, inbox, outbox, trap, replied,
                   served>>

\* EndTesting: print (PingReceived * 100) / PingSent, then IsTesting = 0
\* and IsReceived = 0.
PingEnd ==
    /\ trap = "none"
    /\ pc = "end"
    /\ isTesting' = FALSE
    /\ isReceived' = FALSE
    /\ pc' = "idle"
    /\ UNCHANGED <<routes, currentID, currentSN, target, device, pingSent,
                   pingReceived, unanswered, pings, arpCache, inbox, outbox,
                   trap, replied, counted, served>>

-----------------------------------------------------------------------------
(* The receive interrupt for one IPv4 echo frame on adapter f.link:       *)
(* FrameBufferHandler hands it to IPv4::Main, which hands it to           *)
(* ICMPv4::Main.                                                           *)

\* Mutant: IPv4::Main's destination filter only checks for an address.
ForThisAdapterNoDst(f) == LocalIP[f.link] # None

\* IPv4::Main's filter: the adapter has an address and it is the frame's
\* destination.
ForThisAdapter(f) == LocalIP[f.link] # None /\ LocalIP[f.link] = f.dst

\* ICMPv4::Main, TEchoReply: while a test runs, a reply carrying the
\* current identifier and sequence number sets IsReceived.
Matches(f) ==
    isTesting /\ f.type = TEchoReply /\ f.id = currentID /\ f.seq = currentSN

\* ICMPv4::Main, TEchoRequest: a copy with type TEchoReply and destination
\* the request's source, sent by ICMPv4::ToDevice; IPv4::ToDevice sets the
\* source to the adapter's address.
EchoResponse(f) ==
    [type |-> TEchoReply, src |-> LocalIP[f.link], dst |-> f.src, id |-> f.id,
     seq |-> f.seq, link |-> f.link]

\* The interrupt takes the frame off the link.  A matching reply sets
\* IsReceived.  A request is answered when ARP::RequestFrom finds the
\* requester in the table; otherwise RequestFrom broadcasts an ARP request
\* and its poll cannot succeed inside the interrupt, so the answer is
\* dropped.
IcmpMain(f) ==
    LET ours == ForThisAdapter(f)
        hit == ours /\ Matches(f)
        req == ours /\ f.type = TEchoRequest
    IN
    /\ trap = "none"
    /\ inbox' = inbox \ {f}
    /\ isReceived' = (isReceived \/ hit)
    /\ replied' = IF hit THEN replied \cup {f.seq} ELSE replied
    /\ served' = IF req THEN served \cup {f} ELSE served
    /\ outbox' = IF req /\ f.src \in arpCache
                 THEN outbox \cup {EchoResponse(f)} ELSE outbox
    /\ UNCHANGED <<routes, pingVars, arpCache, trap>>

-----------------------------------------------------------------------------
(* The remote hosts and the link.                                           *)

\* A host answers an echo request for its address (as ICMPv4::Main does on
\* that host); the request stays on the wire, so the host may answer it
\* again, and the answer may arrive late.
HostEchoReply(h, f) ==
    /\ trap = "none"
    /\ Cardinality(inbox) < MaxFrames
    /\ f.type = TEchoRequest /\ f.dst = HostIP[h]
    /\ inbox' = inbox \cup {[type |-> TEchoReply, src |-> HostIP[h], dst |-> f.src,
                             id |-> f.id, seq |-> f.seq, link |-> f.link]}
    /\ UNCHANGED <<routes, pingVars, isReceived, arpCache, outbox, trap, replied, served>>

\* A host sends an echo request of its own, to an address of ours or not.
HostEchoRequest(f) ==
    /\ trap = "none"
    /\ Cardinality(inbox) < MaxFrames
    /\ inbox' = inbox \cup {f}
    /\ UNCHANGED <<routes, pingVars, isReceived, arpCache, outbox, trap, replied, served>>

\* ARP::Main on an ARP frame from host h whose target is an adapter's
\* address (h's reply to a request of ours, or h's own request) adds h to
\* ARP::ARPTable.
HostArp(h) ==
    /\ trap = "none"
    /\ \E a \in Adapters : LocalIP[a] # None
    /\ HostIP[h] \notin arpCache
    /\ arpCache' = arpCache \cup {HostIP[h]}
    /\ UNCHANGED <<routes, pingVars, isReceived, inbox, outbox, trap, replied, served>>

\* A frame on its way to this machine is lost.  (A frame we send that is
\* lost is a request the host never answers, which HostEchoReply already
\* leaves open.)
FrameLost(f) ==
    /\ trap = "none"
    /\ inbox' = inbox \ {f}
    /\ UNCHANGED <<routes, pingVars, isReceived, arpCache, outbox, trap, replied, served>>

-----------------------------------------------------------------------------
(* System calls on another CPU.                                             *)

\* INet_RTAddStatic with the arguments of q: the route table after the
\* call; a call that returns an error leaves it as it was.
INet_RTAddStatic(q) ==
    /\ trap = "none"
    /\ Len(routes) < MaxRoutes
    /\ routes' = RTAddStatic(routes, q.dst, q.via, q.mask, q.dev).rt
    /\ UNCHANGED <<pingVars, isReceived, arpCache, inbox, outbox, trap,
                   replied, served>>

\* After a fault nothing runs any more.
Halted == trap # "none" /\ UNCHANGED vars

-----------------------------------------------------------------------------
PingStep == PingPrepare \/ PingSend \/ PingArpPoll \/ PingCollect \/ PingEnd

Next ==
    \/ \E t \in PingTargets : PingStart(t)
    \/ PingStep
    \/ \E f \in inbox : IcmpMain(f)
    \/ \E h \in Hosts, f \in outbox : HostEchoReply(h, f)
    \/ \E f \in HostRequests : HostEchoRequest(f)
    \/ \E h \in Hosts : HostArp(h)
    \/ \E f \in inbox : FrameLost(f)
    \/ \E q \in RouteRequests : INet_RTAddStatic(q)
    \/ Halted

\* Once started, the system call runs to its end: the CPU that runs Ping
\* keeps being scheduled, and both of its loops have a budget.
Fairness == WF_vars(PingStep)

Spec == Init /\ [][Next]_vars /\ Fairness

-----------------------------------------------------------------------------
(* Properties.                                                              *)

TypeOK ==
    /\ isTesting \in BOOLEAN /\ isReceived \in BOOLEAN
    /\ currentID \in PingIDs \cup {0}
    /\ currentSN \in 0 .. PingBurst
    /\ pc \in {"idle", "prepare", "send", "arp_poll", "wait", "end"}
    /\ pingSent \in 0 .. PingBurst
    /\ pingReceived \in 0 .. PingBurst
    /\ unanswered \in 0 .. PingBurst
    /\ arpCache \subseteq Addr
    /\ inbox \subseteq Echo /\ outbox \subseteq Echo
    /\ trap \in {"none", "route_scan", "divide_error"}
    /\ routes \in Seq(Route)

\* Every echo reply this machine transmits answers an echo request that
\* was addressed to the adapter it arrived on: it goes back to the
\* requester, from the address the request was sent to, with the
\* request's identifier and sequence number (ICMPv4::Main's TEchoRequest
\* case behind IPv4::Main's destination filter).
EchoRepliesAnswerRequests ==
    \A r \in outbox : r.type = TEchoReply =>
        \E q \in served : /\ r.dst = q.src /\ r.src = q.dst
                          /\ r.id = q.id /\ r.seq = q.seq /\ r.link = q.link

\* A Ping system call returns: whatever the hosts do (no answer, lost
\* frames, no ARP entry), Ping reaches EndTesting and clears IsTesting.
PingTerminates == pc # "idle" ~> pc = "idle"

\* Ping counts echo number n as answered only if a reply with sequence
\* number n reached ICMPv4::Main during this test.  The statics are read by
\* the interrupt without a lock and CurrentSN moves to n only at the top
\* of pass n, so a late or duplicate reply to echo n - 1 (or to the last
\* echo of the previous test, before CurrentID is redrawn) sets IsReceived
\* for echo n.
PingCountsOwnReplies == counted \subseteq replied

\* Every echo request Ping puts on the wire is, as bytes, a frame the peer's
\* receive path accepts and reads back as the identifier, sequence number,
\* addresses and data Ping wrote: the frame of its pass of Ping's loop,
\* whose checksums are recomputed over the frame the previous pass sent.
PingEchoesDecode ==
    \A e \in outbox : e.type = TEchoRequest => e.seq \in DecodingPasses

\* Every echo reply ICMPv4::Main puts on the wire is, as bytes, the request
\* it answers with source and destination swapped, which the requester
\* accepts and reads back with the request's identifier and sequence
\* number (scenario C of the specification).
EchoReplyMirrors ==
    \A e \in outbox : e.type = TEchoReply => e.seq \in MirroredPasses

\* Every echo on the wire is one whose IPv4 and ICMP checksums detect any
\* single-bit error: the receive path's IsValid checks reject it.
SingleBitErrorsDetected ==
    \A e \in outbox : e.seq \in BitErrorDetectingPasses

=============================================================================
