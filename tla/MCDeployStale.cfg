SPECIFICATION UnkilledSpec
CONSTANTS
    Plans <- MCWhole
    Origins = {"snapshot"}
    NginxRunning = {TRUE}
    Bundle = TRUE
    MaxVersion = 1
    Refused = {}
    MaxRotations = 0
    MaxFaults = 1
    None = None
INVARIANT StaleEngineAnnounced
