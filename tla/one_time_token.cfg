SPECIFICATION Spec
CONSTANTS
    Machines = {m1, m2}
    Tokens = {t1}
    Ids = {i1, i2}
    Keys = {k1, k2}
    Runs = {r1, r2}
    None = None
    Faults = {}
    MaxFaults = 0
INVARIANT
    OneTimeUse
\* Every token may be used and every machine enrolled.
CHECK_DEADLOCK FALSE
