SPECIFICATION FairSpec
CONSTANTS
    Names = {"a", "b"}
    Self = "procnanny"
    Pids = {1, 2}
    Words <- OneEach
    Files <- Contents
    MaxChildren = 2
    MaxSpawns = 1
    MaxHups = 1
    MaxForkFails = 0
    ToGroup = TRUE
INVARIANTS TypeOK PoolConsistent PoolInBounds DoneMeansGone TallyClose
PROPERTIES ExitCompletes Promise
CHECK_DEADLOCK FALSE
