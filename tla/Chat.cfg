CONSTANTS
    Sessions = {s1, s2}
    Turns = {1, 2}
    MaxLookups = 1
    MaxRare = 2
SPECIFICATION Spec
INVARIANTS TraceTellsOutcome RatingReachesReview ShownAnswersAreStored
PROPERTIES LifeImplemented StreamingEnds
CHECK_DEADLOCK FALSE
