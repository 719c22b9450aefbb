SPECIFICATION FairSpec
CONSTANTS
    old = old  arc = arc  v1 = v1  v2 = v2
    Wallets = {old, arc}
    Initial = old
    Archives = {arc}
    Volumes = {v1, v2}
    None = None
    MaxFaults = 2
    MaxMisreads = 1
    MaxKills = 0
    MaxSignals = 1
INVARIANTS ServiceOffDuringCopy
PROPERTIES SignalKeepsPriorState RetriesRecover
