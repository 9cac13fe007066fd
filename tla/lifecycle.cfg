SPECIFICATION Spec
CONSTANTS
  NoJob = NoJob
  NoRecord = NoRecord
  NoBox = NoBox
  NoReg = NoReg
  Jobs = {"p"}
  Commands = {"up", "recreate", "shell", "start", "stop", "restart", "down", "purge", "bootstrap", "remodel", "remodel --recreate"}
  Kitchens <- ThreeKitchens
  Contents = {0}
  Ports = {1, 2}
  Passwords = {1, 2}
  MaxFaults = 1
  Offline = {"none"}
  Faults = {"fail", "kill", "outage"}
INVARIANTS BootstrappedIsEnforced RecordIsTrue StartedIsMediated
