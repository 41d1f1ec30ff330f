SPECIFICATION FairSpec
CONSTANTS
  Refusing = {"inst_port", "data_port"}
  MaxUnanswered = 2
PROPERTY RetriesSent
CHECK_DEADLOCK FALSE
