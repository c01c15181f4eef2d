SPECIFICATION FairSpec
CONSTANTS
    Names = {"a"}
    Pids = {1}
    Commands <- OnlyA
    Configs <- NoneOrOne
    MaxChildren = 2
    MaxSpawns = 2
    MaxConfigs = 2
    MaxZombies = 1
    MaxForkFails = 0
    ReusePids = TRUE
    MayClose = TRUE
INVARIANTS IndInv
PROPERTIES ImplementsNanny NannyPromise ExitAnswered
