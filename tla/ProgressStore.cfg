SPECIFICATION Spec
CONSTANTS
  Books = {"emma", "ulysses"}
  NoBook = "none"
  LastPlace = 2
  MaxRows = 4
PROPERTY
  OnlyLastIsKept
