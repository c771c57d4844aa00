SPECIFICATION Spec
CONSTANTS
    NumFaqs = 1
    NumDocs = 0
    MaxRev = 3
    MaxJobs = 2
    PageSize = 1
    AliasOps <- OneSlot
    BootOp = "boot"
    Toggleable <- NoToggles
    NeverEmpty = FALSE
    MayLose = FALSE
    MaxCrashes = 0
PROPERTIES BuildsResolve
CHECK_DEADLOCK FALSE
