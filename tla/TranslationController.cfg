SPECIFICATION Spec
CONSTANTS
  LastPage = 2
  NoPage = NoPage
  MaxChildren = 3
  MaxAnims = 2
INVARIANTS
  RestShowsRecord
  RecordIsOfFirstChild
PROPERTIES
  BlankOnlyAfterEmptyPan
  CrashOnlyAtTheEnds
  TurnsAsExpected
  TurnsEnd
