CONSTANTS
  ReadOnly = {sys}
  Writable = {tmp}
  Tmp = {tmp}
  MaxWrites = 3
  MaxManifests = 1
  Workers = {w1}
  Rollers = {w1}
  Script = Script
  None = None
  Names = {n1}
  MaxEdits = 2
  MaxCrashes = 1
SPECIFICATION BuildSpec
INVARIANTS ReadsBack OnlyWritableDrifts SafetyNet VerifiedIsPackaged
PROPERTIES BuildsEnd
CHECK_DEADLOCK FALSE
