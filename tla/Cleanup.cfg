SPECIFICATION Spec
CONSTANTS
    Nannies = {1, 2}
    Names = {"a"}
    Pids = {1}
    Words <- NamedA
    Files <- TwiceA
    MaxChildren = 1
    MaxSpawns = 0
    MaxForkFails = 0
PROPERTIES CleanedUp
CHECK_DEADLOCK FALSE
