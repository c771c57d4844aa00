SPECIFICATION Spec
CONSTANTS
    Faqs = {f1, f2}
    Reviews = {r1}
    Jobs = {j1, j2}
    Kinds = {"edit", "import", "refresh", "convert"}
    MaxClock = 3
    MaxModel = 2
    MaxBoots = 1
    NoReview = NoReview
INVARIANTS ServedTextIsCurrent DismissLeavesNothing OneFaqPerReview
SYMMETRY Symmetry
