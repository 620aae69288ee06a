SPECIFICATION Spec
CONSTANTS
  Duplicate = 94
  Update = 82
  Related = 70
  EntityOverlap = 34
  StoryOverlap = 34
  None = None
  Sources = {"feed", "site"}
  Requests = {}
  Items = {"i1", "i2"}
  Contents = {"a", "b", "d"}
  SourceOf <- TwoSourceOf
  HashOf <- MCHashOf
  UrlOf <- MCUrlOf
  TermsOf <- MCTermsOf
  Similarity <- MCSimilarity
  InitialCorpora <- TwinCorpora
  StoryWindow = 2
  MaxStories = 3
  MaxStarts = 2
  MaxEdits = 0
  MaxFailures = 0
INVARIANTS
  NoAcceptedTwins
CHECK_DEADLOCK FALSE
