SPECIFICATION BoundedSpec
CONSTANTS
    Kinds = {"src", "github", "pulumi", "docs"}
    ProdReady = TRUE
    MaxPushes = 3
    None = None
INVARIANTS
    TypeOK
    VersionsFollowHistory
    PackagesMatchTags
    BotAnswersUsers
    ChangesTagged
    ProdDeployed
    DevCatchesUp
PROPERTIES
    NothingLost
    DeploysForward
    Settles
CHECK_DEADLOCK FALSE
