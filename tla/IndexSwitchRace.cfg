SPECIFICATION Spec
CONSTANTS
    NumFaqs = 1
    NumDocs = 0
    MaxRev = 2
    MaxJobs = 2
    PageSize = 1
    AliasOps <- TwoSlots
    BootOp = "boot"
    Toggleable <- NoToggles
    NeverEmpty = TRUE
    MayLose = FALSE
    MaxCrashes = 0
INVARIANTS RecordIsLive
