SPECIFICATION Spec
CONSTANTS
    Keys = {1, 2, 3, 4, 5, 6}
    FormOf <- MCFormOf
    SpeltAs <- MCSpeltAs
    FiledAt <- MCFiledAt
    YearOf <- MCYearOf
    Days = {2, 3}
    DayLength = 2
    MaxRows = 3
    MaxList = 2
    None = None
INVARIANTS
    TypeOK
    EveryFilingLoaded
    EachOnceInOrder
    NothingElseLoaded
CHECK_DEADLOCK FALSE
