SPECIFICATION FairSpec
CONSTANTS
    Malformed = Malformed  Omitted = Omitted
    Objects <- AllObjects  Self <- Run
    Applied <- JobAndDeployment
    HealthChecks <- References
    GroupOf <- Groups  Preferred <- PreferredVersions
    MaxFaults = 2
INVARIANT TypeOK
PROPERTY HealthyMeansCompleted PassesOnceCurrent
