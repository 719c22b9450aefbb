SPECIFICATION Spec
CONSTANTS
    c1 = c1  px = px  p1 = p1  p2 = p2
    NoProc = NoProc
    Procs = {p1}
    Addr = {c1, px}
    V6 = {}
    Gateways = {}
    TrustSets <- MCEither
    LogLines <- MCProxy
    MaxFaults = 0
    MaxKills = 1
INVARIANTS SharedPeerNeverDropped
