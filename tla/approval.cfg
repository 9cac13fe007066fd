SPECIFICATION FairSpec
CONSTANTS
  f1 = f1
  f2 = f2
  f3 = f3
  e1 = e1
  e2 = e2
  e3 = e3
  NoFlow = NoFlow
  Flows = {f1, f2, f3}
  Entries = {e1}
  Names = {"web"}
  Subjects = {"crates"}
  EntryOf <- OneEntryOf
  NameOf <- OneNameOf
  SubjectOf <- OneSubjectOf
  Tcp = {f3}
  Deployments <- OnlyQueued
  Answers = {"allow"}
  MaxPrompts = 1
  Window = 2
  Timeout = 1
INVARIANTS TypeOK OneLeaderPerKey FollowersShareTheAnswer BurstBounded ListedIsAlive
PROPERTIES NoSpuriousLimit AnsweredUnlessOrphaned
