SPECIFICATION Spec
CONSTANTS
    Releases <- MCReleases
    First <- MCFirst
    Jobs = {j1, j2}
    Torn = Torn
    None = None
    MaxFaults = 0
    MaxClicks = 0
PROPERTIES
    SwitchHolds
\* See ota_update.cfg.
CHECK_DEADLOCK FALSE
