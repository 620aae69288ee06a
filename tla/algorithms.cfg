SPECIFICATION Spec
CONSTANTS
    MaxNodes = 3
    MaxLexemes = 6
    MaxLinks = 2
    MaxNames = 2
    MaxValues = 2
    MaxParams = 2
    MaxTokens = 3
    MaxPieces = 4
INVARIANTS
    CleanTextIsVisible
    StripTagsLeavesNone
    ElementsAreFound
    ArticleTextIsVisible
    ItemIffReadable
    CanonicalIffSameAddress
    RankingIgnoresOrder
CHECK_DEADLOCK FALSE
