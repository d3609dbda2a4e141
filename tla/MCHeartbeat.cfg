\* Every small configuration, a lag and a round trip.
CONSTANTS
    Configs <- MCConfigs
    Lag = 1
    RoundTrip = 2
SPECIFICATION FairSpec
INVARIANTS LivePeerKept SilenceBounded KeepAliveTraffic
PROPERTY DeadPeerGivenUp
CHECK_DEADLOCK FALSE
