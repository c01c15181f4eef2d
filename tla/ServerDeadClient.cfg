SPECIFICATION FairSpec
CONSTANTS
    NClients = 1
    MaxClients = 3
    MaxHups = 0
    MaxOutputs = 0
    MaxKills = 1
    MaxCrashes = 1
PROPERTIES StopsWithoutDead
