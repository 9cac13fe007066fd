SPECIFICATION Spec
CONSTANTS
  NoName = NoName
  NoFlow = NoFlow
  Flows = {"f1", "f2"}
  Names = {"site", "api", "cdn.1"}
  Numeric = {"cdn.1"}
  Addresses = {"192.0.2.1"}
  HardDenied = {}
  Zone <- ZoneValue
  AddressOf <- AllHere
  PortOf <- OnePort
  ClaimedOf <- OneClaim
  Chains <- Aliased
  Rules <- SiteRules
  MaxPrompts = 1
  MaxEdits = 1
CHECK_DEADLOCK FALSE
INVARIANT AnswerRemembered
PROPERTIES RulesAreMonotone LookupsDoNotOpen
