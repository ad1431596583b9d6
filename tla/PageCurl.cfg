SPECIFICATION Spec
CONSTANTS
  LastPage = 3
  NoPage = NoPage
  MaxNumber = 8
INVARIANTS
  FrontIsRecorded
PROPERTIES
  ParityChangesAtTheEnds
  TurnsAsExpected
