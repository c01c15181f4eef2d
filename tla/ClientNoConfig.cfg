SPECIFICATION Spec
CONSTANTS
    Names = {"a"}
    Pids = {1}
    Commands <- OnlyA
    Configs <- OneName
    MaxChildren = 1
    MaxSpawns = 0
    MaxConfigs = 1
    MaxZombies = 0
    MaxForkFails = 0
    ReusePids = FALSE
    MayClose = TRUE
PROPERTIES ConfigBeforeChildren
