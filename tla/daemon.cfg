SPECIFICATION Spec
CONSTANTS
  c1 = c1
  c2 = c2
  b1 = b1
  b2 = b2
  Clients = {c1, c2}
  Brokers = {b1, b2}
  Faults = {"crash", "signal", "settings"}
  NoOne = NoOne
  Stale = Stale
  NoFile = NoFile
  Torn = Torn
SYMMETRY Symmetry
INVARIANTS ServingIsReachable StartFailsForCause PasswordsAgree
 
CHECK_DEADLOCK FALSE
