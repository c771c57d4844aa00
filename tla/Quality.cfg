SPECIFICATION Spec
CONSTANTS
    Policies = {p1, p2}
    DefaultPolicy = p1
    MaxRuns = 2
    MaxPolicies = 2
    MaxRevisions = 2
    MaxEdits = 2
    MaxBoots = 1
    Targets = 2
INVARIANTS CancelledHasNoResult
PROPERTIES PromotionMeasured RunEnds
