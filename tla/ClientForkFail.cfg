SPECIFICATION FairSpec
CONSTANTS
    Names = {"a"}
    Pids = {1}
    Commands <- OnlyA
    Configs <- OneName
    MaxChildren = 2
    MaxSpawns = 0
    MaxConfigs = 1
    MaxZombies = 0
    MaxForkFails = 1
    ReusePids = FALSE
    MayClose = FALSE
PROPERTIES ExitAnswered
