SPECIFICATION FairSpec
CONSTANTS
    NClients = 2
    MaxClients = 3
    MaxHups = 1
    MaxOutputs = 0
    MaxKills = 1
    MaxCrashes = 0
INVARIANTS TypeOK TallyExact InStep
PROPERTIES ReloadReaches
