CONSTANTS
    eth0 = eth0
    h1 = h1
    p1 = p1
    None = None
    Broadcast = Broadcast
    AddrBits = 2
    Adapters <- MC_Adapters
    Hosts <- MC_Hosts
    HostIP <- MC_HostIP
    HostLink <- MC_HostLink
    AssignableIPs <- MC_AssignableIPs
    InitRoutes <- MC_HostRoutes
    Procs <- MC_OneProc

SPECIFICATION Spec

INVARIANTS
    TypeOK
    UniqueArpEntry
