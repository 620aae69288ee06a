SPECIFICATION Spec
CONSTANTS
    None = None
    MaxEntries = 2
    Channels = {c1, c2}
    Sources = {s1}
    Workers = {w1, w2}
    Urls <- MCUrls
    KindOf <- MCKindOf
    Ids <- MCIds
    DateOf <- MCDateOf
    Broken <- MCBroken
    Texts <- MCTexts
    FirstText <- MCFirstText
    StartAt <- MCStartAt
    MaxAttempts = 2
    MaxWindow = 1
    MaxJobs = 2
    MaxEvents = 3
SYMMETRY Interchangeable
INVARIANTS
    TypeOK
    WatermarkPassesNothing
    NotModifiedHidesNothing
    NotModifiedMeansCurrent
    AcceptedHandOffCovers
CHECK_DEADLOCK FALSE
