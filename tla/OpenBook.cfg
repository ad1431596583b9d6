\* Two books, an epub and a text, opened twice; the process ends once.
SPECIFICATION OpenSpec
CONSTANTS
    Urls = {a, b}
    Epubs = {a}
    Limit = 2
    MaxRequests = 2
    MaxRestarts = 1
    Requests = {}
CHECK_DEADLOCK FALSE
INVARIANTS
    WaitsForAReason
PROPERTIES
    ParsesWhatIsThere
