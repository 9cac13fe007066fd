SPECIFICATION Spec
CONSTANTS
  Absent = Absent
  Junk = Junk
  NoHome = NoHome
  NoBox = NoBox
  NoRecord = NoRecord
  Home <- HomeDir
  MaxU32 = 2147483647
  MibPerGib = 1024
  MaxCpus = 64
  MaxMemory = 65536
  DefaultId = 1001
  EnvNames = {"K", "LANG"}
  Globs = {"*"}
  Digests <- DigestOf
  Tracked <- TrackedPaths
  Repos <- RepoDirs
  GuestEnv <- GuestVars
  ImageEnv <- ImageVars
  Trees <- HostTrees
  Families <- AllFamilies
CHECK_DEADLOCK FALSE
INVARIANTS OnlyAdmittedLeaves StageIsExact RemodelConverges IdentityAgrees CreatedIsSound
