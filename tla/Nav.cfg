SPECIFICATION FairSpec
CONSTANTS
    Sessions = {a, b, n}
    Made = {n}
    Transient = {b}
    Empty = {b}
    Clicks = 3
    None = None
INVARIANTS TypeOK ScreenIsCurrent IntendedView UrlIsCurrent
PROPERTY SendSettles
CHECK_DEADLOCK FALSE
