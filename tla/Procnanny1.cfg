SPECIFICATION FairSpec
CONSTANTS
    Nannies = {1, 2}
    Names = {"a"}
    Pids = {1}
    Words <- NamedA
    Files <- TwiceA
    MaxChildren = 2
    MaxSpawns = 1
    MaxForkFails = 1
INVARIANTS OneNanny TallyExact
PROPERTIES Takeover
CHECK_DEADLOCK FALSE
