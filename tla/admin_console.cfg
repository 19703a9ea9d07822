SPECIFICATION FairSpec
CONSTANTS
    Devices = {d1}
    Policies = {p1, p2}
    Sessions = {t1, t2}
    Keys = {k1, k2}
    Slots = {s1, s2}
    Junk = Junk
    None = None
    MaxFaults = 1
    MaxClicks = 3
INVARIANTS
    TypeOK
    KeyOfSession
PROPERTIES
    Converges
    StaysCurrent
    ExpiryIsShown
    QuietAfterLogout
\* A page whose tokens and clicks are used up may rest signed out.
CHECK_DEADLOCK FALSE
