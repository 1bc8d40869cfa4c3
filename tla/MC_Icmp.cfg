\* Ping and the ICMP receive path with lossy, duplicating hosts.
CONSTANTS
    eth0 = eth0
    eth1 = eth1
    h1 = h1
    h2 = h2
    None = None
    AddrBits = 2
    Adapters <- MC_Adapters
    Hosts <- MC_Hosts
    HostIP <- MC_HostIP
    LocalIP <- MC_LocalIP
    RouteRequests <- MC_RouteRequests
    MaxRoutes = 2
    PingTargets = {1, 3}
    PingIDs = {1}
    HostRequests <- MC_HostRequests
    MaxPings = 1
    MaxFrames = 1
SPECIFICATION Spec
INVARIANT TypeOK
INVARIANT EchoRepliesAnswerRequests
INVARIANT PingEchoesDecode
INVARIANT EchoReplyMirrors
INVARIANT SingleBitErrorsDetected
PROPERTY PingTerminates
