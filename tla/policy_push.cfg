SPECIFICATION FairSpec
CONSTANTS
    Devices = {d1, d2}
    SwitchedOn = {d1}
    Fleet = Fleet
    None = None
    Missing = Missing
    Puts = {p1, p2}
    a = a
    b = b
    none = none
    both = both
    one = one
    Null = Null
    Bad = Bad
    Zero = Zero
    Broken = Broken
    Packages = {"p", "q"}
    Sections <- MCSections
    Fields <- MCFields
    Leaves <- MCLeaves
    ListOf <- MCListOf
    DefaultPolicy <- MCDefault
    Bodies <- MCBodies
    Overrides <- MCOverrides
    Faults = {"server", "drop", "disk", "download", "waydroid", "hang", "restart"}
    MaxFaults = 2
INVARIANTS
    TypeOK
    AppliesWhatWasStored
    TickRepairs
PROPERTIES
    Converges
    StaysSettled
CHECK_DEADLOCK FALSE
