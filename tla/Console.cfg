CONSTANTS
    Reviewers = {r1, r2}
    Documents = {d1}
    MaxDrafts = 2
    MaxRevision = 3
    MaxFailures = 1
    MaxCalls = 2
    Pages = {p1, p2}
    MaxAnswers = 2
    MaxUploads = 2
    MaxCrashes = 1
    Tabs = {t1, t2}
    MaxLogins = 3
    MaxOpen = 1
    Filters = {"all", "some"}
    Files = {f1, f2}
    MaxFetches = 4
    MaxFlights = 2
    Keys = {k1, k2}
    Payloads = {q1, q2}
    Requests = {w1, w2}
    Retention = 1
    MaxDuration = 1
    MaxTime = 4
    MaxExecs = 3
SPECIFICATION ConsoleSpec
INVARIANTS
    CompletedIsProven
    InstallIsWorked
    ListIsCurrent
    RowsAreOfSelected
    OncePerRetention
PROPERTIES
    SavedEditsKept
    PublishedAsShown
    LoginKept
SYMMETRY Symmetry
CHECK_DEADLOCK FALSE
