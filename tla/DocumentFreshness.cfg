SPECIFICATION Spec
CONSTANTS
    Admins = {a1}
    Setups <- TextOnly
    MaxBoots = 0
    MaxJobs = 0
    MaxRevs = 1
    MaxGens = 1
INVARIANT PublishedIsCurrent
CHECK_DEADLOCK FALSE
