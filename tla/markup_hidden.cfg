SPECIFICATION Spec
CONSTANTS
    MaxNodes = 1
    MaxLexemes = 0
    MaxLinks = 0
    MaxNames = 0
    MaxValues = 1
    MaxParams = 0
    MaxTokens = 1
    MaxPieces = 0
INVARIANTS
    HiddenNeverContributes
CHECK_DEADLOCK FALSE
