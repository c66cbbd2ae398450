CONSTANTS
    a  = a
    b  = b
    u1 = u1
    u2 = u2
    Tags        = {a, b}
    Uids        = {u1, u2}
    NoUid       = unread
    NoTag       = none
    UidOf       <- MCUidOf
    Entries     <- MCEntries
    Wide        = TRUE
    Counts      = {0, 2}
    MaxMoves    = 2
    MaxGlitches = 1
    MaxOthers   = 1
    MaxTears    = 2
SPECIFICATION Spec
INVARIANTS WrittenOnce CountIsTrue RecordsTell DamageIsLocal
PROPERTY BatchEnds
CHECK_DEADLOCK FALSE
