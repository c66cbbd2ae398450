CONSTANTS
    Capacity   <- MCCapacity
    LockLayout <- MCLockLayout
    LastPage   = 12
    Old        = old
    New        = new
    Zero       = zero
    Data       = {old, new, zero}
    WriteOnly  <- MCWriteOnly
    Readers    <- MCReaders
    ChipKinds  <- MCChips
    LastUser   = 7
    LastStatic = 5
    ChipSize   = 2
    BlankSize  = 1
    CcKinds    <- MCCcKinds
    Offsets    <- MCOffsets
    Lengths    <- MCLengths
SPECIFICATION Spec
INVARIANTS NdefTypeOK VerifiedMeansStored UnforcedIsCareful WritesStayInside SoftLockHolds
PROPERTY StoreSpec
CHECK_DEADLOCK FALSE
