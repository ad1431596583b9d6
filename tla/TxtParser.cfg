\* Every text of up to four characters, and every other one put in its place.
SPECIFICATION Spec
CONSTANTS
    MaxLength = 4
    MaxEditions = 2
INVARIANTS
    PlainTextIsParsed
    ChaptersAreDisplayed
PROPERTIES
    ChaptersAreTheText
