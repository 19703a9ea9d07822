SPECIFICATION FairSpec
CONSTANTS
    Devices = {d1}
    Cmds = {c1, c2}
    Reqs = {r1}
    Fleet = Fleet
    None = None
    Kinds = {"task", "reboot"}
    Targets = {d1}
    Faults = {}
    MaxFaults = 0
    MaxNow = 0
PROPERTY
    AcknowledgedIsExecuted
