SPECIFICATION FairSpec
CONSTANTS
    None = None
    MaxEntries = 2
    Channels = {c1}
    Sources = {s1}
    Workers = {w1}
    Urls <- MCUrls
    KindOf <- MCKindOf
    Ids <- MCIds
    DateOf <- MCDateOf
    Broken <- MCBroken
    Texts <- MCTexts
    FirstText <- MCFirstText
    StartAt <- MCStartAt
    MaxAttempts = 2
    MaxWindow = 1
    MaxJobs = 2
    MaxEvents = 2
PROPERTY
    NewItemsAreDiscovered
CHECK_DEADLOCK FALSE
