\* Two aliases, two clicks, two threads that switch, and the operator's edits.
SPECIFICATION AliasesSpec
CONSTANTS
  MaxAliases = 2
  Clickers = {"c1", "c2"}
  Togglers = {"t", "u"}
  MaxSecrets = 2
  MaxVersions = 2
  MaxAliasFaults = 1
INVARIANTS AliasesAgree
PROPERTIES NextChildIsNotReplaced
CHECK_DEADLOCK FALSE
