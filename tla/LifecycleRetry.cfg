CONSTANTS
    Capacity   <- MCCapacity
    LockLayout <- MCLockLayout
    Chips      <- MCChips
    Formats    <- MCFormats
SPECIFICATION Spec
INVARIANT LockMeansLocked
