------------------------------ MODULE OpenBook ------------------------------
(***************************************************************************)
(* A book at a network address is opened: the container asks the download   *)
(* manager for the file, waits for its completion handler, has the parser    *)
(* unzip and read the file, and shows the book.  Three threads take part:    *)
(* the main queue (containers, handlers, answers of the parser), the queue   *)
(* of the manager, and the global queue of the parsers.  The container may   *)
(* be closed, and the process may end, between any two of these steps.       *)
(***************************************************************************)
EXTENDS DownloadCache

CONSTANTS Epubs,         \* the addresses of epub files; the others are text files
          MaxRestarts    \* bound: how often the process ends

VARIABLES reader,   \* the container on the screen, or NoReader
          books,    \* directory of unzipped books: address -> none, partial, complete
          works,    \* the parsers at work on the global queue
          restarts, \* how often the process has ended
          strays,   \* history: addresses whose task was given the callback of another transfer
          behind    \* history: addresses whose task was not on disk as it was when the process ended

openVars == <<m, files, unstored, requests, stored, made, reader, books, works, restarts, strays, behind>>

NoReader == [id |-> None]

-----------------------------------------------------------------------------
\* While the main thread waits for the block of download(), nothing else runs on it.
MainFree == \A i \in DOMAIN m.queue : m.queue[i].op # "download"

\* The reader a handler or a parser belongs to is on the screen; it is held weakly.
IsOpen(id) == reader.id = id

\* The handler is one for the manager; a manager at its end calls it at once.
Completion(s, handler) ==
    LET r == [s EXCEPT !.handler = <<handler>>]
    IN  IF s.status \in {"suspended", "canceled", "removed", "succeeded", "failed"}
        THEN Async(r, [op |-> "execute"]) ELSE r

\* Mutant: the handler is called for any end.
DownloadedOrSuspended == m.status \in {"succeeded", "suspended"}

\* What the handler asks before it parses.
Downloaded == m.status = "succeeded"

\* Parsing is the start of a parser; "source" says that it was given a file of the cache.
ParseBook(r, source) == works \cup {[reader |-> r.id, url |-> r.url, source |-> source, step |-> "start"]}

FileExist(u) == u \in Epubs /\ books[u] # "none"

\* handleFile of a new container.
Open(u) ==
    /\ reader = NoReader /\ MainFree /\ requests < MaxRequests
    /\ requests' = requests + 1
    /\ reader' = [id |-> requests + 1, url |-> u, view |-> "waiting"]
    /\ IF FileExist(u)
       THEN works' = ParseBook(reader', FALSE) /\ UNCHANGED <<m, made>>
       ELSE /\ m' = Async(Completion(m, [op |-> "completion", reader |-> requests + 1, url |-> u]),
                          [op |-> "download", url |-> u])
            /\ Use
            /\ UNCHANGED works
    /\ UNCHANGED <<files, unstored, stored, books, restarts, strays, behind>>

\* deinit of the container.
Close ==
    /\ reader # NoReader /\ MainFree
    /\ reader' = NoReader
    /\ m' = Async(m, [op |-> "suspend", url |-> reader.url])
    /\ Use
    /\ UNCHANGED <<files, unstored, requests, stored, books, works, restarts, strays, behind>>

Answer(block) ==
    IF IsOpen(block.reader)
    THEN reader' = [reader EXCEPT !.view = IF block.ok THEN "book" ELSE "fault"]
    ELSE UNCHANGED reader

\* The next block of the main queue.
RunMain ==
    /\ m.main # <<>> /\ MainFree
    /\ LET block == Head(m.main)
           s == [m EXCEPT !.main = Tail(@)]
       IN  \/ /\ block.op = "completion" /\ Downloaded
              /\ works' = IF IsOpen(block.reader) THEN ParseBook(reader, TRUE) ELSE works
              /\ m' = Async(s, [op |-> "remove", url |-> block.url])
              /\ UNCHANGED reader
           \/ /\ block.op = "completion" /\ ~Downloaded
              /\ m' = s
              /\ UNCHANGED <<works, reader>>
           \/ /\ block.op = "parsed"
              /\ Answer(block)
              /\ m' = s
              /\ UNCHANGED works
    /\ UNCHANGED <<files, unstored, requests, stored, made, books, restarts, strays, behind>>

-----------------------------------------------------------------------------
(* The parsers. *)

\* The parser is done, and calls back on the main queue.
Done(w, ok) ==
    /\ works' = works \ {w}
    /\ m' = [m EXCEPT !.main = Append(@, [op |-> "parsed", reader |-> w.reader, url |-> w.url, ok |-> ok])]

HasSource(w) == w.source /\ w.url \in files

\* The directory is there: it is read, whatever is in it.
ReadDirectory(w) ==
    /\ w.step = "start" /\ FileExist(w.url)
    /\ \/ Done(w, TRUE)
       \/ books[w.url] = "partial" /\ Done(w, FALSE)
    /\ UNCHANGED <<files, books>>

\* The file is missing, or is no archive: nothing is changed.
CannotRead(w) ==
    /\ w.step = "start" /\ ~FileExist(w.url)
    /\ Done(w, FALSE)
    /\ UNCHANGED <<files, books>>

\* The archive was opened; its file is removed before it is unzipped.
StartUnzip(w) ==
    /\ w.step = "start" /\ w.url \in Epubs /\ books[w.url] = "none" /\ HasSource(w)
    /\ files' = files \ {w.url}
    /\ books' = [books EXCEPT ![w.url] = "partial"]
    /\ works' = (works \ {w}) \cup {[w EXCEPT !.step = "unzip"]}
    /\ UNCHANGED m

FinishUnzip(w) ==
    /\ w.step = "unzip"
    /\ \/ books' = [books EXCEPT ![w.url] = "complete"] /\ Done(w, TRUE)
       \/ UNCHANGED books /\ Done(w, FALSE)
    /\ UNCHANGED files

ReadText(w) ==
    /\ w.step = "start" /\ w.url \notin Epubs /\ HasSource(w)
    /\ Done(w, TRUE)
    /\ UNCHANGED <<files, books>>

Parser == \E w \in works :
    /\ ReadDirectory(w) \/ CannotRead(w) \/ StartUnzip(w) \/ FinishUnzip(w) \/ ReadText(w)
    /\ UNCHANGED <<unstored, requests, stored, made, reader, restarts, strays, behind>>

-----------------------------------------------------------------------------
\* The status of the task of an address, in memory and on disk.
TaskStatus(u) == IF m.mapper[u] = None THEN "none" ELSE m.obj[m.mapper[u]].status
StoredStatus(u) == LET s == {stored[i].status : i \in {j \in DOMAIN stored : stored[j].url = u}}
                   IN  IF s = {} THEN "none" ELSE CHOOSE x \in s : TRUE

\* The process ends and starts again; what is on disk and the transfers are kept.
Restart ==
    /\ restarts < MaxRestarts
    /\ restarts' = restarts + 1
    /\ Retrieve
    /\ reader' = NoReader /\ works' = {}
    /\ behind' = behind \cup {u \in Urls : TaskStatus(u) # StoredStatus(u)}
    /\ UNCHANGED <<files, unstored, requests, books, strays>>

Manager == RunBlock /\ UNCHANGED <<stored, made, reader, books, works, restarts, strays, behind>>
\* What is written after the last restart is not read.
Store == restarts < MaxRestarts /\ WriteTasks
         /\ UNCHANGED <<files, unstored, requests, made, reader, books, works, restarts, strays, behind>>
Restored == GotTasks /\ UNCHANGED <<files, unstored, requests, reader, books, works, restarts, strays, behind>>

\* The callback t reaches a task whose transfer is another one.
IsStray(t) ==
    /\ FetchTask(m, m.net[t].url) # None
    /\ m.obj[FetchTask(m, m.net[t].url)].transfer \notin {None, t}

Transfers ==
    /\ made # "no"
    /\ \E t \in DOMAIN m.net :
          /\ DidFinishDownloading(t) \/ DidComplete(t)
          /\ strays' = IF IsStray(t) THEN strays \cup {m.net[t].url} ELSE strays
    /\ UNCHANGED <<stored, made, reader, books, works, restarts, behind>>

OpenInit == Init /\ stored = NoTasks /\ made = "no"
            /\ reader = NoReader /\ books = [u \in Urls |-> "none"] /\ works = {}
            /\ restarts = 0 /\ strays = {} /\ behind = {}

OpenNext == (\E u \in Urls : Open(u)) \/ Close \/ RunMain \/ Parser \/ Restart
            \/ Manager \/ Store \/ Restored \/ Transfers

OpenSpec == OpenInit /\ [][OpenNext]_openVars

-----------------------------------------------------------------------------
\* Type correctness of the manager, the file of tasks, the container, the books and the parsers:
\* a task refers to an existing transfer, and the list of tasks to existing tasks.
OpenTypeOK ==
    /\ \A i \in DOMAIN m.main :
          \/ m.main[i] \in [op : {"completion"}, reader : 1 .. MaxRequests, url : Urls]
          \/ m.main[i] \in [op : {"parsed"}, reader : 1 .. MaxRequests, url : Urls, ok : BOOLEAN]
    /\ m.obj \in Seq([url : Urls, status : Status, transfer : DOMAIN m.net \cup {None}])
    /\ m.tasks \in Seq(DOMAIN m.obj)
    /\ stored \in Seq([url : Urls, status : Status])
    /\ made \in {"no", "asking", "yes"}
    /\ reader = NoReader \/ reader \in [id : 1 .. MaxRequests, url : Urls, view : {"waiting", "book", "fault"}]
    /\ books \in [Urls -> {"none", "partial", "complete"}]
    /\ works \subseteq [reader : 1 .. MaxRequests, url : Urls, source : BOOLEAN, step : {"start", "unzip"}]

\* Nothing is queued, under way or asked for.
OpenAtRest == AtRest /\ m.main = <<>> /\ works = {} /\ made # "asking"

\* The handler looks at the status of all tasks together, not at its own book.  When it starts
\* a parser although the book is not there, then because a part of it is (a directory that was
\* not filled), because its file was delivered and could not be stored, because its own task
\* still waits to be started, because another task is in the table, or because the task was
\* completed by the callback of a transfer of an earlier task for the address
\* (WLReadContainer.downloadBook, WLEpubParser.readEpub, Cache.storeFile).
ParsesWhatIsThere ==
    [][\A w \in works' \ works : w.step = "start" /\ w.source =>
           \/ w.url \in files \/ books[w.url] = "complete"
           \/ books[w.url] = "partial"
           \/ w.url \in unstored
           \/ TaskStatus(w.url) = "waiting"
           \/ \E u \in Urls \ {w.url} : TaskStatus(u) # "none"
           \/ w.url \in strays]_openVars

\* When everything is at rest, a container still waits for its book only if the download failed
\* or was suspended; if its task was removed by the handler of an earlier container; if its
\* download is complete but that of another book is not, since the handler of the manager looks
\* at all of them; if the process ended while its task was being stopped, or before the file of
\* tasks said that its download had ended (downloadBook, Cache.retrieveAllTasks).
WaitsForAReason ==
    OpenAtRest /\ reader # NoReader /\ reader.view = "waiting" =>
        \/ TaskStatus(reader.url) \in {"failed", "suspended"}
        \/ TaskStatus(reader.url) = "none" /\ reader.id > 1
        \/ /\ TaskStatus(reader.url) = "succeeded"
           /\ \E u \in Urls \ {reader.url} : TaskStatus(u) \notin {"none", "succeeded"}
        \/ restarts > 0 /\ TaskStatus(reader.url) \in Stopping
        \/ reader.url \in behind /\ TaskStatus(reader.url) = "running"
=============================================================================
