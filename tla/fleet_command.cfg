SPECIFICATION FairSpec
CONSTANTS
    Devices = {d1, d2}
    Cmds = {c1}
    Reqs = {r1, r2}
    Fleet = Fleet
    None = None
    Kinds = {"task"}
    Targets = {Fleet}
    Faults = {}
    MaxFaults = 0
    MaxNow = 0
PROPERTY
    FleetReachesAll
