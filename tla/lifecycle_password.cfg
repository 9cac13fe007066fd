SPECIFICATION Spec
CONSTANTS
  NoJob = NoJob
  NoRecord = NoRecord
  NoBox = NoBox
  NoReg = NoReg
  Jobs = {"p"}
  Commands = {"up", "purge"}
  Kitchens <- OneKitchen
  Contents = {0}
  Ports = {1, 2}
  Passwords = {1, 2}
  MaxFaults = 1
  Offline = {"none"}
  Faults = {"fail"}
INVARIANT PasswordAgrees
