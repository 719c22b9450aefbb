SPECIFICATION Spec
CONSTANTS
    old = old  arc = arc  v1 = v1  v2 = v2
    Wallets = {old, arc}
    Initial = old
    Archives = {arc}
    Volumes = {v1, v2}
    None = None
    MaxFaults = 2
    MaxMisreads = 0
    MaxKills = 2
    MaxSignals = 0
INVARIANTS DamageIsRecoverable ServiceOnWholeWallet
PROPERTIES PriorStateKept AtomicRestore
