\* Two writers: an append that is overtaken
CONSTANTS
  Aggregates = {a1, a2}
  Workers = {w1}
  Supervised = {w1}
  Writers = 2
  BatchSize = 2
  MaxRetries = 2
  MaxSequence = 2
  MaxFailures = 0
SPECIFICATION FairSpec
PROPERTIES
  EventuallyProjected
CHECK_DEADLOCK FALSE
