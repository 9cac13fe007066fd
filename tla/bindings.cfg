SPECIFICATION BindingsSpec
CONSTANTS
  Absent = Absent
  NoQuery = NoQuery
  Queries = {"both", "other"}
  Addresses = {"a", "b", "c"}
  AnswerOf <- Answers
  ChainOf <- Itself
  TtlOf <- Ttls
  Upstreams = 2
  Capacity = 2
  Floor = 2
  Cap = 3
  MaxTime = 4
CHECK_DEADLOCK FALSE
INVARIANTS AnswersAreBound UnusedBindingsEnd
 
