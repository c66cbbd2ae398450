CONSTANTS
    LastUser     = 39
    ConfigPage   = 41
    Commands    <- SomeCommands
    FirstConfigs <- SomeConfigs
SPECIFICATION Spec

INVARIANT TypeOK

PROPERTIES
    MirrorInside
    LockedOutKnowingly
    PasswordInPlace
    OnlyWhatWasAsked
    RefusedChangesNothing
    ReportedIsStored
