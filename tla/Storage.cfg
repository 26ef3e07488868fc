SPECIFICATION FairStorageSpec
CONSTANTS
    Threads = {t1, t2}
    Paths = {bucket, disk}
    S3Paths = {bucket}
    Contents = {empty, doc}
    Empty = empty
    Json = {doc}
    LargePlain = {doc}
    LargeZipped = {doc}
    Torn = Torn
    None = None
INVARIANTS
    OneClient
    StorageTypeOK
    LoneSaveSticks
PROPERTIES
    ImplementsRegister
    CallsReturn
