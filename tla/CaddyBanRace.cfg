SPECIFICATION FairSpec
CONSTANTS
    c1 = c1  px = px  p1 = p1  p2 = p2
    NoProc = NoProc
    Procs = {p1, p2}
    Addr = {c1, px}
    V6 = {}
    Gateways = {}
    TrustSets <- MCTrust
    LogLines <- MCBoth
    MaxFaults = 1
    MaxKills = 1
PROPERTIES LinearizableBans CommandsEnd BootRepairs
