SPECIFICATION FairSpec
CONSTANTS
    tab = tab
    Tabs = {tab}
    Prompt = TRUE
    MaxGens = 3
    MaxFailures = 2
    MaxLogins = 1
CHECK_DEADLOCK FALSE
PROPERTIES TabReturns
