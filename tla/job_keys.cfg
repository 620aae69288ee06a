SPECIFICATION Spec
CONSTANTS
  Characters = {"a", "_", ":"}
  MaxLength = 2
INVARIANTS
  DistinctKeysDistinctJobs
