SPECIFICATION MediatorSpec
CONSTANTS
  Nobody = Nobody
  Targets = {t1, t2}
  Senders = {s1, s2}
  QueueLimit = 2
  MaxSent = 5
CHECK_DEADLOCK FALSE
INVARIANTS AsksOnce LossOnlyByOverflow RepliesAnswered
PROPERTIES  RetiredFlowsEnd 
