SPECIFICATION Spec
CONSTANTS
  LastChapter = 3
  Unreadable = {2}
  Styles <- MCStyles
  NoStyle = NoStyle
  TextLength <- MCTextLength
  PageStarts <- MCPageStarts
  MaxBlocks = 1
INVARIANTS
  TypeOK
  StalePagesAreMarked
  NeighboursUpToDate
  ScreenShowsBook
  RecordsAreOfTheView
PROPERTIES
  TurnMovesOnePage
  ButtonsMoveOnePage
  TurnSavesShownPage
  TurnCrashesOnlyAtEmptyChapter
  MenuCrashesForAReason
  RelayoutKeepsPlace
