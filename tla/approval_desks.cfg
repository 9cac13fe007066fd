SPECIFICATION Spec
CONSTANTS
  f1 = f1
  f2 = f2
  f3 = f3
  e1 = e1
  e2 = e2
  e3 = e3
  NoFlow = NoFlow
  Flows = {f1, f2}
  Entries = {e1, e2, e3}
  Names = {"web", "ci"}
  Subjects = {"crates"}
  EntryOf <- TwoEntryOf
  NameOf <- TwoNameOf
  SubjectOf <- OneSubjectOf
  Tcp = {f2}
  Deployments <- DesktopOrNone
  Answers = {"allow"}
  MaxPrompts = 1
  Window = 1
  Timeout = 1
INVARIANTS OneDialog CancelledForCause
PROPERTIES KeepsThePromise
