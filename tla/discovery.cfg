SPECIFICATION Spec
CONSTANTS
  Duplicate = 94
  Update = 82
  Related = 70
  EntityOverlap = 34
  StoryOverlap = 34
  None = None
  Sources = {"feed", "site"}
  Requests = {"r"}
  Items = {"i1", "i2", "i3"}
  Contents = {"a", "b", "c", "d"}
  SourceOf <- FeedAndSite
  HashOf <- MCHashOf
  UrlOf <- MCUrlOf
  TermsOf <- MCTermsOf
  Similarity <- MCSimilarity
  InitialCorpora <- FeedCorpora
  StoryWindow = 2
  MaxStories = 4
  MaxStarts = 2
  MaxEdits = 2
  MaxFailures = 1
INVARIANTS
  TypeOK
  ReasonIffRejected
  BlockedByAnother
  IndexedWasAccepted
  RejectionIsLogged
  StoryMembersIndexed
  StoryPointerLinked
  ItemCountCoversMembers
  MemoryIdentityUnique
  EmbeddingMatchesRow
PROPERTIES
  StoriesOnlyGrow
CHECK_DEADLOCK FALSE
