SPECIFICATION PersistentSpec
CONSTANTS
    Plans <- MCWhole
    Origins = {"bare"}
    NginxRunning = {TRUE}
    Bundle = TRUE
    MaxVersion = 0
    Refused = {}
    MaxRotations = 0
    MaxFaults = 0
    None = None
PROPERTY BareBoxComesUp
