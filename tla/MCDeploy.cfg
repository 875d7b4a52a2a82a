SPECIFICATION Spec
CONSTANTS
    Plans <- MCPlans
    Origins = {"bare", "snapshot"}
    NginxRunning = {TRUE, FALSE}
    Bundle = TRUE
    MaxVersion = 2
    Refused = {1}
    MaxRotations = 1
    MaxFaults = 2
    None = None
INVARIANTS TypeOK GreenMeansDeployed IdentityKept AlwaysStartable
 
PROPERTY SnapshotServes
