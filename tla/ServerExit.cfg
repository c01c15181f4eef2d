SPECIFICATION FairSpec
CONSTANTS
    NClients = 2
    MaxClients = 2
    MaxHups = 0
    MaxOutputs = 1
    MaxKills = 1
    MaxCrashes = 1
INVARIANTS StopsAfterAll TallyExact LogLosesOne OverrunOnlyWhenFull
PROPERTIES ServerStops
