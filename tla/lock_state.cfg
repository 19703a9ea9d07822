SPECIFICATION FairSpec
CONSTANTS
    Devices = {d1}
    Cmds = {c1, c2}
    Reqs = {r1, r2}
    Fleet = Fleet
    None = None
    Kinds = {"lock", "unlock", "logout", "reboot", "wipe"}
    Targets = {d1}
    Faults = {"drop", "timeout", "crash"}
    MaxFaults = 2
    MaxNow = 0
INVARIANTS
    SleepsLocked
    NothingForgotten
PROPERTY
    LockIsEnforced
\* A wiped device stays off until somebody starts it.
CHECK_DEADLOCK FALSE
