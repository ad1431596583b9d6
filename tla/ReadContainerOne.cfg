\* A book of one chapter, two records of the scroll view at once.
SPECIFICATION Spec
CONSTANTS
  LastChapter = 0
  Unreadable = {}
  Styles <- MCStyles
  NoStyle = NoStyle
  TextLength <- OneTextLength
  PageStarts <- OnePageStarts
  MaxBlocks = 2
PROPERTY
  EndsForAReason
