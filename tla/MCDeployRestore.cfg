SPECIFICATION Spec
CONSTANTS
    Plans <- MCWhole
    Origins = {"bare"}
    NginxRunning = {TRUE}
    Bundle = TRUE
    MaxVersion = 0
    Refused = {}
    MaxRotations = 0
    MaxFaults = 1
    None = None
INVARIANT RerunConverges
