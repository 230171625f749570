SPECIFICATION Spec
CONSTANTS
  Rank <- Characters
  Resources <- SomeResources
  Paths <- SomePaths
  Patterns <- SomePatterns
  Least <- Smallest
  Greatest = 1
  Memory = 5
INVARIANTS KeysServed AnswersOrdered ListsWhatIsBelow SeqIsRange
CHECK_DEADLOCK FALSE
