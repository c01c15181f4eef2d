SPECIFICATION Spec
CONSTANTS
    Names = {"a", "b"}
    Pids = {1, 2}
    Commands <- Disjoint
    Configs <- OneOrTwo
    MaxChildren = 3
    MaxSpawns = 0
    MaxConfigs = 2
    MaxZombies = 0
    MaxForkFails = 1
    ReusePids = FALSE
    MayClose = FALSE
INVARIANTS TypeOK IdleCountExact JobAccounting KillsAccounted ReportExact PoolInBounds NoDoubleMonitor PoolBounded
PROPERTIES KillsWhatWasListed
