SPECIFICATION Spec
CONSTANTS
    NumFaqs = 1
    NumDocs = 1
    MaxRev = 2
    MaxJobs = 2
    PageSize = 1
    AliasOps <- OneSlot
    BootOp = "boot"
    Toggleable <- AllDocs
    NeverEmpty = TRUE
    MayLose = TRUE
    MaxCrashes = 1
INVARIANTS ServedIsVerified IntentReconcilable ReadyIsSnapshot
PROPERTIES LiveSpec BuildsResolve
