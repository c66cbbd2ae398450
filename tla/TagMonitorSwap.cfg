CONSTANTS
    Tags      = {t1, t2}
    Posts     = {}
    Streams   = {}
    Watcher   = w
    NoTag     = none
    MaxEvents = 3
SPECIFICATION Spec

PROPERTY ShownTagIsThere
CHECK_DEADLOCK FALSE
