SPECIFICATION Spec
CONSTANTS
    NoDecision = NoDecision
    Missing = Missing
    Malformed = Malformed
    SensitiveNames = {"token"}
    Manifests <- SmallManifests
    PolicyOptions <- SmallPolicies
    RuleOptions <- SmallRules
    ProfileOptions <- SmallProfiles
    Inputs <- SmallCalls
    MaxSaves = 2
INVARIANTS
    CleanCheckMeansUnchanged
    OwnBaselineIsClean
    AllowedDriftIsReported
CHECK_DEADLOCK FALSE
