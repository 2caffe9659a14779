SPECIFICATION FairMemlockSpec
CONSTANTS
    Clients = {c1, c2, c3}
    Absent = Absent
    Empty = Empty
INVARIANTS
    HoldersOwnTheItem
PROPERTIES
    OnlyOwnerReplaces
    KeepsPromise
    LossIsNoticed
    CallReturns
CHECK_DEADLOCK FALSE
