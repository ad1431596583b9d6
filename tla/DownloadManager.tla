-------------------------- MODULE DownloadManager --------------------------
(***************************************************************************)
(* The download manager of the reader (SessionManager, DownloadTask and    *)
(* SessionDelegate).  All of it runs on one serial queue: requests of the   *)
(* callers, blocks it posts to itself, and the callbacks of URLSession.     *)
(* A callback finds its task by URL, not by the transfer it is for.         *)
(*                                                                         *)
(* The functions of the source are operators that take the whole state of   *)
(* the manager and return it, so that one function can call another.  The   *)
(* mutants, named after the operator they stand for, precede it.            *)
(***************************************************************************)
EXTENDS Naturals, FiniteSets, SequencesExt

CONSTANTS Urls,         \* the addresses of books
          Limit,        \* configuration.maxConcurrentTasksLimit
          Requests,     \* the requests that callers make
          MaxRequests   \* bound: how many of them

ASSUME LimitAssumption == Limit \in Nat \ {0}
ASSUME UrlsAssumption == IsFiniteSet(Urls)    \* a batch (multiDownload) is an array

SingleRequests == {"download", "start", "suspend", "cancel", "remove"}
TotalRequests == {"totalStart", "totalSuspend", "totalCancel", "totalRemove"}
ASSUME RequestsAssumption == /\ Requests \subseteq SingleRequests \cup TotalRequests \cup {"multiDownload"}
                             /\ MaxRequests \in Nat

None == 0

Status == {"waiting", "running", "suspended", "canceled", "failed", "removed",
           "succeeded", "willSuspend", "willCancel", "willRemove"}
Gone == {"willCancel", "willRemove", "canceled", "removed"}

VARIABLES m,         \* the manager: its State, the task objects, the session, the queue
          files,     \* addresses whose file is in the cache
          unstored,  \* history: addresses whose file was delivered last and could not be stored
          requests   \* requests made so far

vars == <<m, files, unstored, requests>>

(***************************************************************************)
(* The fields of m.  Task objects and transfers are numbered as they are    *)
(* made and never reused; an object lives on when the manager drops it.     *)
(*   status     status of the manager                                       *)
(*   tasks      the tasks in order, succeeded those recorded as succeeded   *)
(*   mapper     taskMapper: the task of a URL                               *)
(*   running    runningTasks; a task is never in it twice                   *)
(*   obj        the task objects; transfer is sessionTask                   *)
(*   net        the transfers of the URLSession: active, cancelled by the   *)
(*              task (cut), with their file delivered (finished), or done   *)
(*   queue      the blocks that operationQueue has still to run             *)
(*   due        a store of the tasks is due (the debounced storeTasks)      *)
(*   handler    the completion handler, a sequence of none or one           *)
(*   main       the blocks that the main queue has still to run             *)
(*   apart      history: since a task was dropped, tasks and mapper disagree *)
(***************************************************************************)

-----------------------------------------------------------------------------
FetchTask(s, u) == s.mapper[u]
Mapped(s) == {u \in Urls : s.mapper[u] # None}
Live(s) == {t \in DOMAIN s.net : s.net[t].state # "done"}
AllIn(s, S) == \A i \in DOMAIN s.tasks : s.obj[s.tasks[i]].status \in S

SetStatus(s, o, st) == [s EXCEPT !.obj[o].status = st]
Async(s, job) == [s EXCEPT !.queue = Append(@, job)]
Local(o) == [op |-> "local", task |-> o]

StoreTasks(s) == [s EXCEPT !.due = TRUE]

\* The handler is called on the main queue.
ExecuteCompletion(s) == [s EXCEPT !.main = @ \o s.handler]

\* status = st, then ending(_:)
End(s, st) == StoreTasks(ExecuteCompletion([s EXCEPT !.status = st]))

-----------------------------------------------------------------------------
(* SessionManager: the state of the tasks together. *)

ShouldRun(s) == Cardinality(s.running) < Limit

Without(s, q, u) ==
    LET kept[i \in 0 .. Len(q)] ==
            IF i = 0 THEN <<>>
            ELSE IF s.obj[q[i]].url = u THEN kept[i - 1] ELSE Append(kept[i - 1], q[i])
    IN  kept[Len(q)]

\* Each task that can be looked up is in the list, and each one in the list can be looked up,
\* unless it is cancelled or removed, or to be.
TablesAgree(s) ==
    /\ \A u \in Mapped(s) : \E i \in DOMAIN s.tasks : s.tasks[i] = s.mapper[u]
    /\ \A i \in DOMAIN s.tasks : \/ s.mapper[s.obj[s.tasks[i]].url] = s.tasks[i]
                                 \/ s.obj[s.tasks[i]].status \in Gone

\* maintainTasks(with: .remove)
DropTask(s, o) ==
    LET u == s.obj[o].url
        unmapped == [s EXCEPT !.mapper[u] = None]
        left == Cardinality(Mapped(unmapped))
    IN  CASE s.status = "willRemove" ->
               IF left = 0 THEN [unmapped EXCEPT !.tasks = <<>>, !.succeeded = <<>>] ELSE unmapped
          [] s.status = "willCancel" ->
               IF left = Len(s.succeeded) THEN [unmapped EXCEPT !.tasks = s.succeeded] ELSE unmapped
          [] OTHER ->
               [unmapped EXCEPT !.tasks = Without(s, @, u),
                                !.succeeded = IF s.obj[o].status = "removed"
                                              THEN Without(s, @, u) ELSE @]

\* The list may be left with a task that cannot be looked up, or without one that can: a task
\* that has succeeded twice is recorded twice, and counts for one that is still to be dropped.
\* (The quantifier gives TLC a value where ENABLED would compute r again at each use.)
ForgetTask(s, o) ==
    LET r == DropTask(s, o)
    IN  [r EXCEPT !.apart = @ \/ \E dropped \in {r} : ~TablesAgree(dropped)]

DidCancelOrRemove(s, o) ==
    LET r == ForgetTask(s, o)
    IN  IF r.tasks # <<>> THEN r
        ELSE [r EXCEPT !.status = IF s.obj[o].status = "canceled" THEN "willCancel"
                                                                  ELSE "willRemove"]

\* The cases are tried in this order.
DetermineStatus(s, fromRunning) ==
    IF s.status = "willRemove" THEN
        IF s.tasks = <<>> THEN End(s, "removed") ELSE s
    ELSE IF s.status = "willCancel" THEN
        IF Len(s.tasks) = Cardinality(Mapped(s)) THEN End(s, "canceled") ELSE s
    ELSE IF AllIn(s, {"succeeded", "failed"}) THEN
        IF s.status \in {"succeeded", "failed"} THEN StoreTasks(s)
        ELSE End(s, IF AllIn(s, {"succeeded"}) THEN "succeeded" ELSE "failed")
    ELSE IF AllIn(s, {"suspended", "succeeded", "failed"}) THEN
        IF s.status = "suspended" THEN StoreTasks(s) ELSE End(s, "suspended")
    ELSE IF s.status = "willSuspend" THEN s
    ELSE IF fromRunning THEN Async(StoreTasks(s), [op |-> "next"])
    ELSE StoreTasks(s)

\* Mutant: only a manager that was never used is marked as running.
DidStartOnce(s) == IF s.status = "waiting" THEN [s EXCEPT !.status = "running"] ELSE s

DidStart(s) == [s EXCEPT !.status = "running"]

-----------------------------------------------------------------------------
(* DownloadTask: one task. *)

Succeeded(s, o, fromRunning) ==
    DetermineStatus([SetStatus(s, o, "succeeded") EXCEPT !.succeeded = Append(@, o)], fromRunning)

\* A new transfer of the session, which takes a slot.
StartTransfer(s, o) ==
    StoreTasks([s EXCEPT !.net = Append(@, [url |-> s.obj[o].url, state |-> "active"]),
                         !.obj[o].status = "running", !.obj[o].transfer = Len(s.net) + 1,
                         !.running = @ \cup {o}])

Download(s, o) ==
    CASE s.obj[o].status \in {"waiting", "suspended", "failed"} ->
           IF s.obj[o].url \in files
           THEN Async(SetStatus(s, o, "running"), Local(o))
           ELSE IF ShouldRun(s) THEN StartTransfer(s, o) ELSE SetStatus(s, o, "waiting")
      [] s.obj[o].status = "succeeded" -> Succeeded(s, o, FALSE)
      [] OTHER -> s

Start(s, o) == Download(DidStart(s), o)

CutTransfer(s, o) ==
    LET t == s.obj[o].transfer
    IN  IF t # None /\ s.net[t].state = "active" THEN [s EXCEPT !.net[t].state = "cut"] ELSE s

\* Mutant: nothing is posted for a task without a transfer.
StopRunning(s, o, will) ==
    IF s.obj[o].status = "running" THEN CutTransfer(SetStatus(s, o, will), o)
    ELSE SetStatus(s, o, will)

\* A running task waits for the callback of its transfer, any other for a block of its own.
Stop(s, o, will) ==
    IF s.obj[o].status = "running" THEN CutTransfer(SetStatus(s, o, will), o)
    ELSE Async(SetStatus(s, o, will), Local(o))

Suspend(s, o) == IF s.obj[o].status \in {"running", "waiting"} THEN Stop(s, o, "willSuspend") ELSE s
Cancel(s, o) == IF s.obj[o].status # "succeeded" THEN Stop(s, o, "willCancel") ELSE s
RemoveTask(s, o) == Stop(s, o, "willRemove")

\* DownloadTask.determineStatus(with:), after the status that the error asks for.
Interrupted(s, o, fromRunning) ==
    LET st == s.obj[o].status
        done == CASE st = "willSuspend" -> SetStatus(s, o, "suspended")
                  [] st = "willCancel"  -> DidCancelOrRemove(SetStatus(s, o, "canceled"), o)
                  [] st = "willRemove"  -> DidCancelOrRemove(SetStatus(s, o, "removed"), o)
                  [] st = "suspended"   -> s
                  [] OTHER              -> SetStatus(s, o, "failed")
    IN  DetermineStatus(done, fromRunning)

CompleteLocally(s, o) ==
    CASE s.obj[o].status \in {"willSuspend", "willCancel", "willRemove"} -> Interrupted(s, o, FALSE)
      [] s.obj[o].status = "running" -> Succeeded(s, o, FALSE)
      [] OTHER -> s

\* Mutant: the slot is freed only by a task that was still running.
FreeSlotOfRunning(s, o) ==
    [s EXCEPT !.running = IF s.obj[o].status = "running"
                          THEN {p \in @ : s.obj[p].url # s.obj[o].url} ELSE @,
              !.obj[o].transfer = None]

\* The slots of all objects of the URL are freed.
FreeSlot(s, o) ==
    [s EXCEPT !.running = {p \in @ : s.obj[p].url # s.obj[o].url}, !.obj[o].transfer = None]

AfterOutcome(s, o, outcome) ==
    CASE outcome = "ok"        -> Succeeded(s, o, TRUE)
      [] outcome = "failed"    -> Interrupted(SetStatus(s, o, "failed"), o, TRUE)
      [] outcome = "system"    -> Interrupted(SetStatus(s, o, "suspended"), o, TRUE)
      [] outcome = "cancelled" -> Interrupted(s, o, TRUE)

CompleteFromNetwork(s, o, outcome) ==
    CASE s.obj[o].status \in {"willCancel", "willRemove"} -> Interrupted(FreeSlot(s, o), o, TRUE)
      [] s.obj[o].status \in {"willSuspend", "running"} -> AfterOutcome(FreeSlot(s, o), o, outcome)
      [] OTHER -> FreeSlot(s, o)

-----------------------------------------------------------------------------
(* The blocks of the queue. *)

NewTask(s, u) ==
    LET o == Len(s.obj) + 1
    IN  [s EXCEPT !.obj = Append(@, [url |-> u, status |-> "waiting", transfer |-> None]),
                  !.tasks = Append(@, o), !.mapper[u] = o]

FindOrMakeTask(s, u) == IF FetchTask(s, u) = None THEN NewTask(s, u) ELSE s

DownloadBlock(s, u) ==
    LET r == FindOrMakeTask(s, u)
    IN  Async(StoreTasks(r), [op |-> "startTask", task |-> FetchTask(r, u)])

StartUnlessSucceeded(s, o) == IF s.obj[o].status # "succeeded" THEN Start(s, o) ELSE s

\* What the requests for several tasks do to one of them.
Each(s, do, x) ==
    CASE do = "append"  -> FindOrMakeTask(s, x)
      [] do = "start"   -> StartUnlessSucceeded(s, x)
      [] do = "suspend" -> Suspend(s, x)
      [] do = "cancel"  -> Cancel(s, x)
      [] do = "remove"  -> RemoveTask(s, x)

ForEach(s, do, q) ==
    LET after[i \in 0 .. Len(q)] == IF i = 0 THEN s ELSE Each(after[i - 1], do, q[i])
    IN  after[Len(q)]

\* multiDownload, of all addresses; one block starts the tasks that have not succeeded then.
MultiDownload(s) ==
    LET batch == SetToSeq(Urls)
        r == ForEach(s, "append", batch)
    IN  Async(StoreTasks(r), [op |-> "startTasks", tasks |-> [i \in DOMAIN batch |-> FetchTask(r, batch[i])]])

\* Mutant: only the task in front is looked at.
StartFrontTask(s) ==
    IF s.tasks # <<>> /\ s.obj[Head(s.tasks)].status = "waiting" THEN Download(s, Head(s.tasks)) ELSE s

StartNextTask(s) ==
    LET waits(i) == s.obj[s.tasks[i]].status = "waiting"
    IN  IF \E i \in DOMAIN s.tasks : waits(i)
        THEN Download(s, s.tasks[CHOOSE i \in DOMAIN s.tasks :
                                    waits(i) /\ \A j \in 1 .. (i - 1) : ~waits(j)])
        ELSE s

OnTask(s, u, Op(_, _)) == IF FetchTask(s, u) = None THEN s ELSE Op(s, FetchTask(s, u))

Run(s, job) ==
    CASE job.op = "download"  -> DownloadBlock(s, job.url)
      [] job.op = "start"     -> OnTask(s, job.url, Start)
      [] job.op = "startTask" -> OnTask(s, s.obj[job.task].url, LAMBDA r, o : Start(r, job.task))
      [] job.op = "suspend"   -> OnTask(s, job.url, Suspend)
      [] job.op = "cancel"    -> OnTask(s, job.url, Cancel)
      [] job.op = "remove"    -> OnTask(s, job.url, RemoveTask)
      [] job.op = "totalStart"   -> ForEach(s, "start", s.tasks)
      [] job.op = "totalSuspend" ->
           IF s.status \in {"running", "waiting"}
           THEN ForEach([s EXCEPT !.status = "willSuspend"], "suspend", s.tasks) ELSE s
      [] job.op = "totalCancel" ->
           IF s.status \notin {"succeeded", "canceled"}
           THEN ForEach([s EXCEPT !.status = "willCancel"], "cancel", s.tasks) ELSE s
      [] job.op = "totalRemove" ->
           IF s.status # "removed"
           THEN ForEach([s EXCEPT !.status = "willRemove"], "remove", s.tasks) ELSE s
      [] job.op = "multiDownload" -> MultiDownload(s)
      [] job.op = "startTasks" -> ForEach(s, "start", job.tasks)
      [] job.op = "execute" -> ExecuteCompletion(s)
      [] job.op = "local" -> CompleteLocally(s, job.task)
      [] job.op = "next"  -> StartNextTask(s)

-----------------------------------------------------------------------------
(* Steps. *)

Init ==
    /\ m = [status |-> "waiting", tasks |-> <<>>, mapper |-> [u \in Urls |-> None],
            running |-> {}, succeeded |-> <<>>, obj |-> <<>>, net |-> <<>>, queue |-> <<>>,
            due |-> FALSE, handler |-> <<>>, main |-> <<>>, apart |-> FALSE]
    /\ files = {} /\ unstored = {}
    /\ requests = 0

\* A caller, on any thread, posts a request; a batch counts for the tasks it asks for.
Request ==
    /\ requests < MaxRequests
    /\ \/ /\ \E op \in Requests \cap SingleRequests, u \in Urls : m' = Async(m, [op |-> op, url |-> u])
          /\ requests' = requests + 1
       \/ /\ \E op \in Requests \cap TotalRequests : m' = Async(m, [op |-> op])
          /\ requests' = requests + 1
       \/ /\ "multiDownload" \in Requests /\ requests + Cardinality(Urls) <= MaxRequests
          /\ m' = Async(m, [op |-> "multiDownload"])
          /\ requests' = requests + Cardinality(Urls)
    /\ UNCHANGED <<files, unstored>>

RunBlock ==
    /\ m.queue # <<>>
    /\ m' = Run([m EXCEPT !.queue = Tail(@)], Head(m.queue))
    /\ UNCHANGED <<files, unstored, requests>>

\* storeFile(at:to:).  A move that fails is caught and logged, and nobody is told; it fails
\* when there is a file already, which stays.
StoreFile(u) ==
    \/ u \notin files /\ files' = files \cup {u} /\ unstored' = unstored \ {u}
    \/ u \notin files /\ unstored' = unstored \cup {u} /\ UNCHANGED files
    \/ u \in files /\ UNCHANGED <<files, unstored>>

\* urlSession(_:downloadTask:didFinishDownloadingTo:), with a status code that is accepted.
DidFinishDownloading(t) ==
    /\ m.net[t].state \in {"active", "cut"}
    /\ m' = [m EXCEPT !.net[t].state = "finished"]
    /\ IF FetchTask(m, m.net[t].url) # None THEN StoreFile(m.net[t].url) ELSE UNCHANGED <<files, unstored>>
    /\ UNCHANGED requests

\* Mutant: the status code of an answer is not checked.
OutcomesUnchecked(state) ==
    CASE state = "active"   -> {"failed", "system", "ok"}
      [] state = "cut"      -> {"failed", "system", "cancelled"}
      [] state = "finished" -> {"ok"}
      [] state = "done"     -> {}

\* A transfer that the task has cancelled may still have ended before.
Outcomes(state) ==
    CASE state = "active"   -> {"failed", "system"}
      [] state = "cut"      -> {"failed", "system", "cancelled"}
      [] state = "finished" -> {"ok"}
      [] state = "done"     -> {}

\* urlSession(_:task:didCompleteWithError:), which looks up the task by URL.
DidComplete(t) ==
    /\ \E outcome \in Outcomes(m.net[t].state) :
          m' = LET u == m.net[t].url
                   s == [m EXCEPT !.net[t].state = "done"]
               IN  IF FetchTask(s, u) = None THEN s
                   ELSE CompleteFromNetwork(s, FetchTask(s, u), outcome)
    /\ UNCHANGED <<files, unstored, requests>>

Network == \E t \in DOMAIN m.net : DidFinishDownloading(t) \/ DidComplete(t)

Next == Request \/ RunBlock \/ Network

\* What is posted or under way goes on.
Spec == Init /\ [][Next]_vars /\ WF_vars(RunBlock \/ Network)

-----------------------------------------------------------------------------
Jobs == [op : SingleRequests, url : Urls] \cup [op : TotalRequests \cup {"multiDownload", "next", "execute"}]
        \cup [op : {"startTask", "local"}, task : DOMAIN m.obj]
        \cup [op : {"startTasks"}, tasks : Seq(DOMAIN m.obj)]

\* Every field has its type; a reference is to an object or transfer that was made.
TypeOK ==
    /\ m.status \in Status
    /\ m.obj \in Seq([url : Urls, status : Status, transfer : DOMAIN m.net \cup {None}])
    /\ m.net \in Seq([url : Urls, state : {"active", "cut", "finished", "done"}])
    /\ m.tasks \in Seq(DOMAIN m.obj) /\ m.succeeded \in Seq(DOMAIN m.obj)
    /\ m.running \subseteq DOMAIN m.obj
    /\ m.mapper \in [Urls -> DOMAIN m.obj \cup {None}]
    /\ m.queue \in Seq(Jobs)
    /\ m.due \in BOOLEAN
    /\ files \subseteq Urls /\ unstored \subseteq Urls
    /\ requests \in 0 .. MaxRequests

InTable == {m.mapper[u] : u \in Mapped(m)}
AtRest == m.queue = <<>> /\ Live(m) = {}
Stopping == {"willSuspend", "willCancel", "willRemove"}

(***************************************************************************)
(* A second stop of a running task (cancel twice, or suspend and then       *)
(* remove) posts a block, which drops the task before the callback of its    *)
(* transfer.  The callback then finds no task, or the next task of the same  *)
(* URL.  Such a task is forgotten: its slot and its transfer have no owner.  *)
(* Some properties say what holds as long as there is none.                  *)
(***************************************************************************)
Forgotten == {o \in DOMAIN m.obj : o \notin InTable /\ m.obj[o].transfer # None}

\* Never are there more running tasks than the configuration allows, through suspension,
\* retry, removal and the block that starts the next task.  The slots, the tasks with a
\* transfer and the transfers under way correspond: no slot is lost, none is held twice,
\* no transfer runs without a slot.
SlotsAreTransfers ==
    /\ Cardinality(m.running) <= Limit
    /\ Forgotten = {} =>
        /\ m.running = {o \in InTable : m.obj[o].transfer # None}
        /\ Live(m) = {m.obj[o].transfer : o \in m.running}
        /\ \A o \in m.running : m.net[m.obj[o].transfer].url = m.obj[o].url

\* When nothing is under way no task waits: each end of a task has started the next, as long
\* as every task that can be looked up has stayed in the list that the next is taken from.
\* And a manager that told its caller it has succeeded has no task that failed or was
\* suspended since (the reader parses the book then).
RestIsDone ==
    AtRest => /\ Forgotten = {} /\ ~m.apart => \A o \in InTable : m.obj[o].status # "waiting"
              /\ m.status = "succeeded" => AllIn(m, {"succeeded"})

\* At the moment the manager becomes succeeded, the file of every task was delivered: it is in
\* the cache, or the cache could not store it, which it keeps to itself (storeFile).
CompletionHasFiles ==
    [][Forgotten = {} /\ m.status # "succeeded" /\ m'.status = "succeeded" =>
          \A i \in DOMAIN m'.tasks : m'.obj[m'.tasks[i]].url \in files' \cup unstored']_vars

\* A download comes to its end, and so does a suspension, cancellation or removal, whatever
\* the transfer did first and whosever callback reaches the task.
TasksEnd ==
    LET busy(u) == m.mapper[u] # None /\ m.obj[m.mapper[u]].status \in Stopping \cup {"running"}
    IN  \A u \in Urls : busy(u) ~> ~busy(u)
=============================================================================
