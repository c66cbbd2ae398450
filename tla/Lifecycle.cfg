CONSTANTS
    Capacity   <- MCCapacity
    LockLayout <- MCLockLayout
    Chips      <- MCChips
    Formats    <- MCFormats
SPECIFICATION Spec
INVARIANTS TypeOK PromiseKept CcBeforeLockBits ReportsAreTrue HistoryTells
PROPERTIES ConfigSafeBehindHonestCc NoWriteIntoPartialLock
