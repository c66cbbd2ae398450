\* write_page on every kind of reader.
CONSTANTS
    Capacity   <- MCCapacity
    LockLayout <- MCLockLayout
    LastPage   = 5
    Zero       = zero
    Data       = {zero, a}
    WriteOnly  <- MCWriteOnly
    Readers    <- MCReaders
    ChipKinds  <- MCChips
SPECIFICATION PageSpec
INVARIANTS PageTypeOK ModeIsHonest
PROPERTIES NeighbourDamage
