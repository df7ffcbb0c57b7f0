CONSTANTS
  Options <- All
  MaxLines = 5
  Letters = {"a", "b"}
  MaxPattern = 5
  MaxText = 4
SPECIFICATION MCSpec
CHECK_DEADLOCK FALSE
INVARIANTS
  Kept
  Retention
  AgreesWithMeaning
PROPERTIES
  NeverStuck
  AllProcessed
