SPECIFICATION BoundedSpec
CONSTANTS
    Kinds = {"src", "github", "pulumi", "docs"}
    ProdReady = TRUE
    MaxPushes = 3
    None = None
INVARIANT
    EveryChangeTagged
CHECK_DEADLOCK FALSE
