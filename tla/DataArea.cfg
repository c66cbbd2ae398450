CONSTANTS
    Size     = 8
    LongFrom = 3
    Areas    <- MCAreas
    Messages <- MCMessages
SPECIFICATION Spec
INVARIANTS OffsetIsThePlace StoredIsRead
PROPERTIES AheadIsKept PlaceIsSettled BehindOnlyFromTheBrink
