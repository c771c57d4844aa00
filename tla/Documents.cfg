SPECIFICATION Spec
CONSTANTS
    Admins = {a1, a2}
    Setups <- AllSetups
    MaxBoots = 1
    MaxJobs = 2
    MaxRevs = 2
    MaxGens = 3
INVARIANTS PublishedIsReviewed SearchableIsIndexed RunningIsWorked
PROPERTIES PendingEnds
CHECK_DEADLOCK FALSE
