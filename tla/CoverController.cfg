SPECIFICATION Spec
CONSTANTS
  LastPage = 2
  NoPage = NoPage
  MaxAnims = 2
  MaxViews = 4
INVARIANTS
  RestIsClean
  OneTurn
  RecordIsOnTheScreen
PROPERTIES
  TurnsByOnePage
  TurnsEnd
