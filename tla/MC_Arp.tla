------------------------------- MODULE MC_Arp -------------------------------
(***************************************************************************)
(* Arp on a small instance: one adapter, one remote host at address 1,    *)
(* addresses 0..3 (two-bit DWORDs), the adapter may be given address 2,   *)
(* and a default route through gateway h1 on the adapter.  The route      *)
(* tables are ones INet_RTAddStatic builds.  Address 3 belongs to no     *)
(* host, so requests for it are never answered.                            *)
(***************************************************************************)
EXTENDS Arp

CONSTANTS eth0, h1, p1

MC_Adapters == {eth0}
MC_Hosts == {h1}
MC_HostIP == [h \in MC_Hosts |-> 1]
MC_HostLink == [h \in MC_Hosts |-> eth0]
MC_AssignableIPs == {2}
MC_InitRoutes == << [destination |-> 0, gateway |-> 1, genmask |-> 0, metric |-> 0, iface |-> eth0] >>
\* The default route followed by a host route to h1 (whose Genmask
\* INet_RTAddStatic sets to all ones), in the order the calls append them.
MC_HostRoutes ==
    << [destination |-> 0, gateway |-> 1, genmask |-> 0, metric |-> 0, iface |-> eth0],
       [destination |-> 1, gateway |-> 0, genmask |-> 3, metric |-> 0, iface |-> eth0] >>
MC_OneProc == {p1}

=============================================================================
