SPECIFICATION Spec
CONSTANTS
    NClients = 1
    MaxClients = 3
    MaxHups = 1
    MaxOutputs = 0
    MaxKills = 1
    MaxCrashes = 0
INVARIANTS NewestConfig
