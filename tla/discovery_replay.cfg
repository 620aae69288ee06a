SPECIFICATION Spec
CONSTANTS
  Duplicate = 94
  Update = 82
  Related = 70
  EntityOverlap = 34
  StoryOverlap = 34
  None = None
  Sources = {"feed"}
  Requests = {}
  Items = {"i1", "i2", "i3"}
  Contents = {"a", "b", "c"}
  SourceOf <- OneSourceOf
  HashOf <- DistinctHashOf
  UrlOf <- DistinctHashOf
  TermsOf <- DriftTermsOf
  Similarity <- DistinctSimilarity
  InitialCorpora <- DriftCorpora
  StoryWindow = 2
  MaxStories = 3
  MaxStarts = 2
  MaxEdits = 0
  MaxFailures = 0
INVARIANTS
  OneStoryPerItem
CHECK_DEADLOCK FALSE
