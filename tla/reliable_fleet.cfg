SPECIFICATION FairSpec
CONSTANTS
    Devices = {d1, d2}
    Cmds = {c1, c2}
    Reqs = {r1, r2}
    Fleet = Fleet
    None = None
    Kinds = {"task"}
    Targets = {d1, d2, Fleet}
    Faults = {}
    MaxFaults = 0
    MaxNow = 0
PROPERTY
    DirectedCompletes
