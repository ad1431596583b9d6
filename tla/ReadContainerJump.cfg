SPECIFICATION Spec
CONSTANTS
  LastChapter = 3
  Unreadable = {}
  Styles <- MCStyles
  NoStyle = NoStyle
  TextLength <- MCTextLength
  PageStarts <- MCPageStarts
  MaxBlocks = 1
PROPERTY JumpShowsTarget
