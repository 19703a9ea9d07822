SPECIFICATION FairSpec
CONSTANTS
    manual = manual
    Displays = {Automatic, manual}
    Start <- MCStart
    Automatic = Automatic
    Slots = {1, 2}
    Torn = Torn
    None = None
    MaxFaults = 1
    MaxClicks = 3
    Apps = {a1}
    Pinned = {}
    Lines = {1, 2}
INVARIANTS
    TypeOK
    SettingsKept
    ScreenFollows
PROPERTIES
    FormConverges
    ButtonsComeBack
    ShelfConverges
