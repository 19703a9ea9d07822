SPECIFICATION FairSpec
CONSTANTS
    Machines = {m1, m2}
    Tokens = {t1, t2}
    Ids = {i1, i2, i3}
    Keys = {k1, k2, k3}
    Runs = {r1, r2}
    None = None
    Faults = {"drop", "interrupt", "power", "twice"}
    MaxFaults = 1
INVARIANTS
    TypeOK
    IdentitiesAreKnown
    DistinctDevices
    UsedByItsDevice
    IdentityIsPaid
    LateIsRefused
    NoRowIsLost
PROPERTIES
    EveryDeviceServes
    IssuesIdentities
\* Every token may be used and every machine enrolled.
CHECK_DEADLOCK FALSE
