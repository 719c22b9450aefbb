SPECIFICATION FairSpec
CONSTANTS
    Floor = 0
    Cancel = 1
    Peak <- MCPeak
    DefaultPeak = 1
    Size = 3
    Burst = 1
    BuildOrder <- MCBuildOrder
    TestOrder <- MCTestOrder
    Reclaimers <- MCReclaimers
    Classified = {"suite"}
    Versions = {"a", "b"}
    First = "a"
    MaxEdits = 2
    MaxForeign = 1
    MaxAttests = 2
    MaxFaults = 1
    MaxRuns = 2
    Tries = 2
INVARIANTS
    VerdictIsEarned
    LeftoversAreTold
    BuilderIsClaimed
    DiskSafe
PROPERTIES
    SuccessIsEarned
    DiskSpec
    GateEnds
CHECK_DEADLOCK FALSE
