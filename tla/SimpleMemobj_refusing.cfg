SPECIFICATION FairSpec
CONSTANTS
  Refusing = {"data_port"}
  MaxUnanswered = 2
INVARIANTS TypeOK RequestsAccounted RetryOwed OnlyRefusingPortsPanic
PROPERTY RetriesSentIfTaken
CHECK_DEADLOCK FALSE
