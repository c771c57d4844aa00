SPECIFICATION Spec
CONSTANTS
    Admins = {a1, a2}
    Setups <- QueueOnly
    MaxBoots = 0
    MaxJobs = 1
    MaxRevs = 1
    MaxGens = 2
PROPERTY PublicationKept
CHECK_DEADLOCK FALSE
