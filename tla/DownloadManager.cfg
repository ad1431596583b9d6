\* Two books, one slot, four requests of any kind.
SPECIFICATION Spec
CONSTANTS
    Urls = {a, b}
    Limit = 1
    MaxRequests = 4
    Requests = {"download", "start", "suspend", "cancel", "remove",
                "totalStart", "totalSuspend", "totalCancel", "totalRemove", "multiDownload"}
CHECK_DEADLOCK FALSE
INVARIANTS
    SlotsAreTransfers
    RestIsDone
PROPERTIES
    CompletionHasFiles
    TasksEnd
