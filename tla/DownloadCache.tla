--------------------------- MODULE DownloadCache ---------------------------
(***************************************************************************)
(* The tasks of the download manager on disk (Cache) and the manager that   *)
(* is made from them when the process starts again.  The transfers belong   *)
(* to a background session, so they outlive the process.                     *)
(***************************************************************************)
EXTENDS DownloadManager

VARIABLES stored,   \* the list of tasks in the file, each with its URL and status
          made      \* the manager: not yet made, asking the session for its transfers, or made

NoTasks == <<>>

-----------------------------------------------------------------------------
\* The block of storeTasks, which the debouncer lets run once for several calls.
WriteTasks ==
    /\ m.due
    /\ m' = [m EXCEPT !.due = FALSE]
    /\ stored' = [i \in DOMAIN m.tasks |-> [url    |-> m.obj[m.tasks[i]].url,
                                            status |-> m.obj[m.tasks[i]].status]]

\* A task that waited is suspended; there is nothing that it waits for.
RetrieveAllTasks(file) ==
    [i \in DOMAIN file |->
        [url |-> file[i].url, transfer |-> None,
         status |-> IF file[i].status = "waiting" THEN "suspended" ELSE file[i].status]]

\* SessionManager.init.  The session still has the transfers that have not ended.
NewManager(file, net) ==
    LET retrieved == RetrieveAllTasks(file)
        order == [i \in DOMAIN file |-> i]
    IN  [status |-> "waiting", tasks |-> order, obj |-> retrieved,
         mapper |-> [u \in Urls |-> IF \E i \in DOMAIN file : file[i].url = u
                                    THEN CHOOSE i \in DOMAIN file : file[i].url = u ELSE None],
         running |-> {}, succeeded |-> SelectSeq(order, LAMBDA i : retrieved[i].status = "succeeded"),
         net |-> SelectSeq(net, LAMBDA t : t.state # "done"),
         queue |-> <<>>, due |-> FALSE, handler |-> <<>>, main |-> <<>>, apart |-> FALSE]

-----------------------------------------------------------------------------
(* restoreStatus: the answer of the session *)

Adopt(s, t) ==
    LET o == FetchTask(s, s.net[t].url)
    IN  IF s.net[t].state # "active" \/ o = None THEN s
        ELSE [DidStart(s) EXCEPT !.running = @ \cup {o}, !.obj[o].status = "running",
                                 !.obj[o].transfer = t]

ShouldComplete(s) == AllIn(s, {"succeeded", "failed"})

Complete(s) ==
    IF s.status \in {"succeeded", "failed"} THEN s
    ELSE ExecuteCompletion([s EXCEPT !.status = IF AllIn(s, {"succeeded"}) THEN "succeeded" ELSE "failed"])

ShouldSuspend(s) ==
    IF AllIn(s, {"suspended", "succeeded", "failed"}) /\ s.status # "suspended"
    THEN ExecuteCompletion([s EXCEPT !.status = "suspended"]) ELSE s

RestoreStatus(s) ==
    LET r == StoreTasks(FoldLeft(Adopt, s, [t \in DOMAIN s.net |-> t]))
    IN  IF ShouldComplete(r) THEN Complete(r) ELSE ShouldSuspend(r)

GotTasks ==
    /\ made = "asking"
    /\ made' = "yes"
    /\ m' = RestoreStatus(m)
    /\ UNCHANGED stored

\* The process ended and starts again.  The manager is made by the first use of it, from what
\* is on disk, so it is the same to retrieve the tasks now.
Retrieve ==
    /\ m' = NewManager(stored, m.net)
    /\ made' = "no"
    /\ UNCHANGED stored

\* WLFileManager.shared: the first use makes the manager, which asks for transfers if it has tasks.
Use == made' = IF made # "no" THEN made ELSE IF m.tasks = <<>> THEN "yes" ELSE "asking"
=============================================================================
