SPECIFICATION Spec
CONSTANTS
  Broken = Broken
  Missing = Missing
  NoText = NoText
  Nobody = Nobody
  Rules = {r, s}
  Editors = {e1, e2}
  Readers = {f1, f2}
  MaxChanges = 3
SYMMETRY Alike
CHECK_DEADLOCK FALSE
INVARIANTS EditsAddUp
PROPERTY ReadsAreFresh
