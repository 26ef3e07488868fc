SPECIFICATION FairSpec
CONSTANTS
    Days = {1, 2, 3}
    MaxLines = 2
    None = None
INVARIANTS TypeOK EveryDayWhole InOrder
PROPERTY PullAnswered
CHECK_DEADLOCK FALSE
