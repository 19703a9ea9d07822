SPECIFICATION Spec
CONSTANTS
    Devices = {d1}
    Cmds = {c1, c2, c3}
    Reqs = {r1, r2}
    Fleet = Fleet
    None = None
    Kinds = {"task"}
    Targets = {d1}
    Faults = {"drop", "timeout", "crash"}
    MaxFaults = 3
    MaxNow = 1
SYMMETRY Symmetry
INVARIANTS
    TypeOK
    AtMostOnce
    ResultIsTrue
PROPERTIES
    ResultsStand
    DeliversInOrder
