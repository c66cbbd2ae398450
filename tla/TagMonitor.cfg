CONSTANTS
    Tags      = {t1, t2}
    Posts     = {p1}
    Streams   = {c1}
    Watcher   = w
    NoTag     = none
    MaxEvents = 3
SPECIFICATION Spec
INVARIANTS TypeOK ExclusiveConnection SentIsCurrent
PROPERTIES NeverGoesBack EveryRequestEnds BrowsersCatchUp PollSettles
CHECK_DEADLOCK FALSE
