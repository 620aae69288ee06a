SPECIFICATION Spec
CONSTANTS
    Urls = {site, mirror, literal, metadata, ftp}
    Acceptable = {site, mirror, literal, metadata}
    Literals = {literal, metadata}
    Internal = {metadata}
    MaxRedirects = 2
    None = None
INVARIANTS
    TypeOK
    EveryHopIsCleared
    AnswerIsUsable
PROPERTY
    ImplementsBoundedFetch
CHECK_DEADLOCK FALSE
