SPECIFICATION Spec
CONSTANTS
    N = 2
    R = 5
    T = 2
    ArraySize = 1
    MaxExp = 3
INVARIANTS TypeOK Conservation OldestFirst RetriesHaveFrames BackoffBounded TurnsComeRound
CHECK_DEADLOCK FALSE
