------------------------------- MODULE MC_Icmp -------------------------------
(***************************************************************************)
(* Icmp on a small instance, with the byte-level echo properties of       *)
(* EchoCodec applied to what it sends.  Two-bit addresses 0..3.  Adapter  *)
(* eth0 has address 2; eth1 has none.  Host h1 is at 1, h2 at 3.  One    *)
(* Ping call, with the route table built by up to two INet_RTAddStatic   *)
(* calls before, during or after it.                                       *)
(***************************************************************************)
EXTENDS Icmp

CONSTANTS eth0, eth1, h1, h2

MC_Adapters == {eth0, eth1}
MC_Hosts == {h1, h2}
MC_HostIP == [h \in MC_Hosts |-> IF h = h1 THEN 1 ELSE 3]
MC_LocalIP == [a \in MC_Adapters |-> IF a = eth0 THEN 2 ELSE None]
\* INet_RTAddStatic calls: the default route through gateway h1 on eth0,
\* a host route to h2 on eth1, a route to h1's /2 network through gateway
\* h1 (whose device argument the call ignores), and a host route with a
\* device index out of range.  Depending on their order a ping of h1
\* scans past the table end, and a ping of h2 may take either route.
MC_RouteRequests ==
    { [dst |-> 0, via |-> 1, mask |-> 0, dev |-> eth0],
      [dst |-> 3, via |-> 0, mask |-> 0, dev |-> eth1],
      [dst |-> 1, via |-> 1, mask |-> 3, dev |-> eth1],
      [dst |-> 3, via |-> 0, mask |-> 0, dev |-> None] }
\* h1 pings eth0's address, pings an address that is not ours, and
\* pings eth1's (unassigned) address from eth1's link.
MC_HostRequests ==
    { [type |-> TEchoRequest, src |-> 1, dst |-> 2, id |-> 7, seq |-> 1, link |-> eth0],
      [type |-> TEchoRequest, src |-> 1, dst |-> 3, id |-> 7, seq |-> 1, link |-> eth0],
      [type |-> TEchoRequest, src |-> 1, dst |-> 0, id |-> 7, seq |-> 1, link |-> eth1] }
\* The default route through gateway h1 on eth0 only.
MC_DefaultRouteRequest == { [dst |-> 0, via |-> 1, mask |-> 0, dev |-> eth0] }

=============================================================================
