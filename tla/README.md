# Verification of WLReader

WLReader is an e-book reader for iOS (Swift, `src/WLReader/`): it opens a txt or
epub file, lays out its chapters with DTCoreText, shows them with one of five
page effects, and records where the reader is. This directory holds TLA+ models
of its control logic, TLC runs that check them on small instances, and TLAPS
proofs about eight of them: for every book and layout, every text, every sequence of touches
and every set of downloads.

Paths in this text are relative to `src/WLReader/`. `src/WLReaderDemo` is a demo
application around a second copy of the same sources and third-party pods.

## 1. The system

| Component | Source | State it keeps | Operations |
|---|---|---|---|
| Container | `Reader/Controllers/Container/` | the book model in use, the current page controller | open, close, clear and create page controllers, jumps, next and previous page, change of settings |
| Book model | `Reader/Models/WLBookModel.swift` | chapter index, page index, start location of the page; array of shared chapter objects | read and save the row, paging around a chapter, copy |
| Chapter paging | `Reader/Models/WLBookChapter+Paging.swift` | `pages`, `forcePaging` | lay out, repair the page index from the start location |
| Page effects | `Controllers/Cover`, `Translation`, `Simulation`, `Scroll` | gesture and animation flags, pending and current controller | pan and tap to turn a page, finish or cancel; scroll |
| Settings | `Reader/Config/WLBookConfig.swift` | font, size, spacing, effect, progress type; the *shared* book model | read and save the configuration row, change a setting |
| Menu | `Reader/Views/Menu`, `Setting`, `ChapterList` | is shown, is animating, takes taps, panels | show and hide, slider, buttons, catalogue |
| Database | `DataBase/WLDataBase.swift` | SQLite tables of books and of the configuration | insert, update, query |
| Parsers | `Parser/` | the parsed book: chapters, catalogue, spine, resources | split a txt file; read container, OPF, TOC and spine of an epub |
| Selection and notes | `Views/Read`, `Views/Note`, `Config/WLNoteConfig.swift` | selected range, notes of a page, gestures switched off | press, drag a cursor, underline, delete |
| Opening | `WLReadContainer.swift`, `WLFileManager.swift`, `Parser/CoreParser` | completion handler, parser at work | look for the file, download, parse, show; suspend when closed |
| Downloads | `Tools/` | tasks and their status, cache on disk | download, suspend, cancel, remove, restore |

How they interact. The container owns everything on the main thread. A page
effect asks it for the next or previous controller (data source), and tells it
when a turn has ended (delegate). It works on the *container's* model; the
controller of each page carries a copy of the model, but a chapter is a shared
object, so pages made through a copy are seen by all. `WLBookConfig.shared`
points at the model too and is what the menu's bars and the setting handlers
read. The scroll view is the one concurrent actor: it sends its record of the
position to a global queue with a weak reference to itself
(`WLReadScrollController.swift:105`), so the record may run after another event
of the main thread, beside another record, or after the view is gone, and the main thread
may do anything between two of its statements. Everything else survives only in
the database: the process may end at any time, and the row is then read again,
perhaps under another layout. A book at a network address is first fetched by the
download manager, whose completion handler starts a parser on the global queue, which
answers on the main queue.

### What is hard

- **A page index means nothing without the layout that it counts.** A change of a
  setting makes every page index stale. The code keeps a start location beside
  the index, marks all chapters, and recomputes the index when the chapter is
  laid out again.
- **Indices of the chapter beside.** Turning into a chapter reads `pages.count - 1`
  of an object that may not be laid out, may be stale, or cannot be read.
- **Two-phase turns.** A turn asks for a page, then is finished, cancelled, or
  replaced by one in the other direction; only the finish moves the model and
  saves.
- **The late record of the scroll view**, a block without a lock on a concurrent queue,
  against jumps, effect changes, exits, saves, and another record.
- **Restarts** between a turn and its record, with another layout.
- **Opening a book from the network** crosses three threads (main queue, queue of the
  download manager, global queue of the parser) and two kinds of memory that outlive the
  process (the list of tasks, the transfers), while the container may be closed.
- **One touch, three recognizers**: the text, the page and the menu react to the same tap,
  and calls that come during an animation are dropped.
- **Several handlers that do nearly the same** (menu, slider, list, container), of
  which some forget one step. These are the disagreements of section 4.

`PROJECT.json` lists each hazard with its line and the properties that cover it.

## 2. The modules

| Module | What it is |
|---|---|
| `ReadContainer` | one reading session with its database row: all the rows of the first six components above that touch the position |
| `MCReadContainer` | books and layouts for TLC |
| `ReadContainerProofs`, `CoverControllerProofs`, `TranslationControllerProofs`, `PageCurlProofs`, `ProgressStoreProofs`, `DownloadManagerProofs`, `ReaderMenuProofs`, `TxtParserProofs` | the theorems of section 5 about the module of that name |
| `PageTurn` | what the container expects of a page effect: ask for a page beside, then arrive there or return |
| `CoverController` | the effects "cover" and "no effect": gestures, animations, attached views; implements `PageTurn` |
| `TranslationController` | the effect "translation": gestures, child controllers, animations; implements `PageTurn` |
| `PageCurl` | the data source and delegate of the curl, with the parity of front and back; implements `PageTurn` |
| `BookShelf` | what a table of books promises, a place for each book, and what is left of it: a place for the last one |
| `ProgressStore` | the rows of the table under query, insert and update, compared with `BookShelf` |
| `DownloadManager` | the download manager: requests, blocks of its queue, callbacks of the network |
| `DownloadCache` | the list of tasks on disk and the manager made from it at the next start; extends `DownloadManager` |
| `OpenBook` | composes container, manager, cache and parsers: a book at a network address from the request to the page |
| `ReaderMenu` | menu, panels, list of chapters and selection, and the touches they share |
| `TxtParser` | a text cut into chapter files, and a chapter displayed from its file |

How they fit together. `ReadContainer` is the session, with every chapter and its
layout, and sees a page effect only as `TurnBegin`, `TurnFinish` and `TurnCancel`.
The three effect modules are the other side of that interface, over pages numbered
through the book; the abstract machine between the two is `PageTurn`: its `Ask` is
`TurnBegin`, its `Arrive` and `Return` are `TurnFinish` and `TurnCancel`.
`ReadContainer` has one row, and `ProgressStore` is that row's table. `OpenBook` ends
where `ReadContainer`'s `Open` begins: with a book that was parsed. It runs the actions of
`DownloadManager` and `DownloadCache` unchanged beside its own. `ReaderMenu` decides when
the handlers that are actions of `ReadContainer` can be called; `TxtParser` is what one of
the parsers of `OpenBook` does with its file.

### ReadContainer

| Variable | Code |
|---|---|
| `phase` | the container exists (`reading`), does not (`closed`), or the process has ended by an index out of range or a nil unwrapped (`crashed`) |
| `lay` | chapter -> the layout its `pages` were made with, and `forcePaging` |
| `style`, `mode` | `WLBookConfig.shared`: all that decides the layout; the effect, paged or scrolling |
| `config` | the configuration row of the database |
| `book` | `bookModel.chapterIndex`, `pageIndex`, `currentPageStartLocation` |
| `shown` | the page of the controller in front |
| `turn` | the page asked for by a turn in progress |
| `blocks` | records of the scroll view on the global queue: the statement each comes to next (`at`), what it has read (`start`, `row`), and `alive`: the weak reference still finds the view |
| `shared` | is `WLBookConfig.shared.bookModel` the container's model, or has a dead record set it to nil |
| `saved` | the row of the book |

Actions, one per handler: `Open`, `Back`, `Kill` (the process ends),
`MarkFinished`; `TurnBegin`, `TurnFinish`, `TurnCancel` for the four paged
effects; `NextPage`, `PreviousPage`, `NextChapter`, `PreviousChapter`,
`DragToChapter`, `DragToPage`, `GoToChapter`; `ChangeSetting`; `RowDisplayed`,
`ScrollEnd`, `RunBlock` for scrolling. Each action of the main thread is the whole
handler: the paging of the neighbours, the repair of the page index, the rebuilt
controllers, the orphaned records and the save are part of it. `MarkFinished` may come at any
time, since the method is the host application's to call.

A record of the scroll view is not one action. The block of `updateReadRecord` runs on a
concurrent queue without a lock, and each of its statements asks anew whether the controller
is still there. So each statement is a step of its own: `Assignment` writes one of the
three fields of the model, `TakeChapter` and `TakePage` read the chapter and its page,
`ReadRow` and `WriteRow` are the two halves of the save, and `Share` sets the shared model. A
statement whose controller has gone is skipped, or fails at an index (`Last`, `Orphaned`, `Kept`).

What is abstracted. The text layout is DTCoreText's: the constant `PageStarts`
gives, for each style, where the pages of each chapter start, and
`LayoutAssumption` says what any layout does: pages are in order, not empty, and
cover the text. Font, size and spacing are one value `style`. The four paged
effects have one protocol with the container, in which a request may be replaced
by another; how their gestures lead to it is in the modules of the effects. A copy of the book model never has a start location
(`copyReadModel`, `WLBookModel.swift:156`), so a copy is never repaged and needs no
state. The mark reads and writes the row in one step.

Assumptions about UIKit: while a page is being turned the menu is not on screen
(a turn starts with `showMenu(show: false)`), so a turn and a menu handler do not
interleave; a view in a running animation receives no touch. That a second finger
may press a control in that moment is left out and is named in the hazards.

### The page effects

`CoverController`: `views` is the stack of attached views, with the role each has
(`currentController` is "front", `pendingController` "pending", "left" is a view that
nothing refers to any more) and whether its frame is beside the screen; `isLeft`,
`isPan`, `isPanBegin`, `isAnimateChange`, `openAnimate` are the fields of that name;
`anims` are the animations that run, each with the success its completion was given.
Actions: `Tap`, `TapMiddle`, `PanBegan`, `PanChanged`, `PanEnded` (`touchTap`,
`touchPan` by state), `AnimationEnds` (the completion, `animateSuccess` and the
container's `coverFinished`), `Restart` after a nil was unwrapped. Where a finger has
moved to is a choice: a pan ends with success or without.

`TranslationController`: `children`, `currentController`, `pendingController`,
`scrollDirection`, `allowRequestNewController`, `isPanning` are the code's; `onScreen`
are the controllers whose view has the identity transform. A pan with a pending page moves both
views with the finger, so that the current one is in its place only where the finger is back over
its first point (`still` of `PanChanged`); a pan that has no pending page moves nothing, neither
on a move nor when it ends. A controller has an
identity, since the same page may be made twice and removal is by object.

`PageCurl`: `pageCurlNumber`, `readViewController` and `bookModel` are the container's,
`visible` is `viewControllers.first`. `UIPageViewController` is external and used as
its documentation for double-sided pages says: a gesture asks for two controllers, and
a turn needs both.

UIKit's part is a variable where it is not certain: `overlap`, chosen at the start, says
whether touches arrive while an animation moves the views, and for translation whether an
animation can be cut short (its completion is told `false`). The fairness of the three: UIKit runs the completion of every animation,
and every touch ends or is cancelled. Nothing is assumed of the user: no gesture must
happen, and a pan need not ever move.

### The table of books

`ProgressStore`: `rows` in the order of the table, `open` and `place` the book in the
container. A place stands for the four columns of the position. WCDB is external: a query
by title returns the first row, `update` without a condition writes every row. `Save(p)` is a
handler that moves the model and saves, `Move(p)` one that moves it and does not (a jump from
the list, the paging after a change of the settings). `Mark` comes at any time and may be
of a book that is open, of another, or of none. `BookShelf` has two specifications: `Spec` is a table with a place for each
book, `LastSpec` one that forgets every book but the one written last.

### Downloads

`DownloadManager` has the manager as one record `m`, and each function of
`SessionManager` and `DownloadTask` as an operator from one state to the next, because
they call each other: `CompleteFromNetwork` frees the slot, may drop the task
(`ForgetTask` is `maintainTasks(.remove)`), and asks `DetermineStatus` what the manager
is now and whether to post the block that starts the next task. The operation queue is
serial and the callbacks of `URLSession` run on it too, so each block and each callback
is one action: `Request` (a caller posts a block), `RunBlock`,
`DidFinishDownloading` (the file), `DidComplete` (the end). Task objects and transfers
have numbers, since a callback finds its task by URL, which may be another object than
the one whose transfer ended. A transfer that was cancelled may still succeed or fail.
`StoreFile` moves a delivered file into the cache, or fails to: the error is caught and logged
(`Tools/Cache.swift:275`), and the task goes on as if nothing had happened. `unstored` is a history
variable, the addresses whose file was lost in this way.
A request for several tasks is `ForEach`, which does `Each` to one after the other, in the state
that the one before has left.

The handlers of callers are reduced to the completion handler of the manager, which
posts to the main queue (`handler`, `main`; none is set in the run of this module).

Left out: redirects (`urlMapper` is the identity), resume data, headers and file names,
the timer, reordering, complete removal, and a change of the configuration with the
restart of the session it causes. A file that was stored is not deleted by the manager, so
that a later delivery for its address cannot be moved there, and the first one stays.

Fairness: what is posted or under way goes on, `WF_vars(RunBlock \/ Network)`. Blocks and
callbacks share one serial queue, so that none waits for ever for another to come, and a
transfer of `URLSession` ends. Callers need not do anything. The run stops when the requests are used up, so it does not check
for deadlock; that nothing is left undone is what the properties at rest say.

`DownloadCache` adds the file of tasks. `storeTasks` is debounced: several calls set
`due`, and one later step `WriteTasks` writes what the tasks are then. `Retrieve` is the
process that ends and starts: memory is gone, the file and the transfers of the background
session stay. The manager is made by the first use of `WLFileManager.shared`; it then asks
the session for its transfers and adopts those that still run (`GotTasks`, `RestoreStatus`).

### Opening a book

`OpenBook`: `Open` is `handleFile` of a new container, `Close` its `deinit`; `RunMain` takes
one block of the main queue, the completion handler of `downloadBook` or the answer of a
parser; `Parser` is one step of a parser on the global queue: the archive is removed when
unzipping starts, the directory appears before it is complete. `reader` is the container,
referred to weakly: a block for an older one finds nothing. `download` waits for the
manager's queue, and nothing runs on the main queue meanwhile (`MainFree`). `strays` and
`behind` are history variables of the properties. No fairness is stated: the properties say
what holds in every state or step, and at rest.

### Menu and selection

`ReaderMenu` has one record `s`: `isMenuShow`, `tapDisabled` are the fields of `WLReaderMenu`,
`pending` the animations with a completion (`isAnimateComplete` is that of the menu not being
among them), `panels` the views that are up, `hearing` whether the page's controller takes
gestures, `selection`, `live` (the recognizer added by a press is attached), `stray` (an
earlier one is), `listOpen` and `listHidden` the list of chapters. `Tap` chooses which of the
recognizers that receive a touch recognize it: UIKit states no order among them, and two do so
together only where a delegate of the page allows it, in the middle third; `HandleInOrder` runs
their handlers one after the other. Assumed of UIKit:
one touch at a time, a view in an animation takes no touch, animations of the same duration
end in the order they began.

### Texts

`TxtParser` has a text as a sequence of four kinds of characters: the words of a title, any
other, a line feed, and a carriage return with line feed, which is one `Character` of Swift and
two UTF-16 units. `DoTitleMatch` gives ranges in units, from left to right, as
`NSRegularExpression` does: a match starts at the words of a title outside an earlier match
(`StartsTitle`) and ends before the next line end (`EndOfTitle`).
`Slice` cuts in characters, as the code does. The directory is named after the book, and a file
that exists is kept.

## 3. The runs

| Run | Question | Instance |
|---|---|---|
| `read_container` | all safety and action properties of the session, where turns and the menu end the process | 4 chapters of 1/3/2/2 pages in one style and 2/2/1/1 in the other, the third chapter unreadable, 2 styles, 2 modes, one record in flight |
| `read_container_one` | why the process may end where no chapter is missing or empty, and the slider moves by pages | 1 chapter of 3 or 1 pages, two records in flight |
| `cover_controller` | views, record and flags of a turn, its refinement of `PageTurn`, that gestures are accepted again | 3 pages, both effects, with and without `overlap`; 2 animations, 4 views before another is asked for |
| `translation_controller` | children and record, refinement of `PageTurn`, where a blank page and the end of the process come from | 3 pages, with and without `overlap`; a view in its place or displaced; 3 children, 2 animations |
| `page_curl` | parity, record against the page seen, refinement of `PageTurn` | 4 pages, counter in -8..8 |
| `progress_store` | the row written last, what the table keeps of the others | two books, three places, moves without a save, marks at any time |
| `download_manager` | slots against transfers, downloads and stops that end, files of what has succeeded, what a manager at rest has left undone | two books, one slot, four requests of ten kinds, files that are stored or lost |
| `open_book` | what is parsed is there, a container that waits for ever has a reason | an epub and a text, two openings, two slots, one end of the process |
| `reader_menu` | panels, list and menu on the screen, gestures switched off and on, taps in the middle | each effect; nothing needs a bound |
| `txt_parser` | chapters against the text, texts that are not parsed, chapters that cannot be displayed | every text of up to 4 characters of 4 kinds, a second one in the same directory |
| `read_container_jump`, `progress_store_two` | one statement of a comment each, violated | as `read_container`, with every chapter readable; two books |

Why the bounds are enough. A handler touches the current chapter, its two
neighbours and chapter 0 (the default of `paging(with:)`), so four chapters give
every overlap and distinctness of these, with one chapter that has none of them
beside it. Two styles give stale pages with more and with fewer pages, and with
limits that fall on, before and after those of the other. Four chapters have one record in
flight, which comes between any two handlers of the main thread and they between any two of its
statements. Two records against each other are in the run of one chapter: what they share
is the model, and which chapter each writes is only one of its three fields. That more
records than that keep the invariants of the session is proved (section 5).
The unreadable chapter makes the crash paths reachable. `MaxBlocks` is the only
bound on a counter of this module.

In the effects a page has a neighbour on each side, on one, or on none: three pages have
all cases, more are there where the state space is small. `MaxAnims` and `MaxViews`
(`MaxChildren`) bound overlapping animations and what they leave behind; two at a time
already separate a completion from the gesture that follows it. `MaxNumber` bounds
`pageCurlNumber`, of which only the parity is read. `MaxRows` bounds the table.

`open_book`: two openings are what the handler of one container against the request of the
next needs, for one book and for two; one end of the process falls between any two steps of
them. What is written to disk after the last restart is never read, so it is not written. An
epub and a text differ in what is left of the file. `txt_parser`: four characters have two
titles with something between, before or after them, and each kind of line end.

What they show. The session:
stale pages are always marked (`StalePagesAreMarked`); the current chapter and its
neighbours, and those of a page that turns in, follow the settings
(`NeighboursUpToDate`), on which the test for `pages.count` in a turn relies; a
paged view shows the model's page (`ScreenShowsBook`); a late record that still
finds its controller finds the scroll view on the screen, and one that does not has no
assignment to the model left (`RecordsAreOfTheView`). These hold although a record is
interrupted between any two statements. Steps:
a turn moves by one page or none, across chapters too (`TurnMovesOnePage`), the buttons for
the next and the previous page do so too, except that the one for the next passes over the last
page of a chapter (`ButtonsMoveOnePage`); a turn records
the page it shows with the right location (`TurnSavesShownPage`), and ends the
process only beside a chapter without text (`TurnCrashesOnlyAtEmptyChapter`). In a paged view
the buttons, the slider, the list and the settings end it in four cases (`MenuCrashesForAReason`):
the chapter asked for has no text; the page asked for has an index that the chapter left has not,
from which the handler reads the location; the slider is drawn to the end and counts the pages of the last chapter
before they follow the settings; the settings change while the location is not one of the page. Opening
the book and changing a setting show the page that holds the recorded location
(`RelayoutKeepsPlace`), if the location is one of the text and the first page goes with
location 0. In a book of one chapter, where no chapter can be missing or empty, the process
ends for four reasons only (`EndsForAReason`): a late record has cleared the shared model, or takes
a page of a chapter that was paged again meanwhile; or the location is not one of the page, in the
model or in the row. Each of the four is a behaviour of section 4.

The effects. With gestures that wait, cover, translation and curl all implement `PageTurn`
with its liveness (`TurnsByOnePage`, `TurnsAsExpected`, `TurnsEnd`), and between two gestures
one view or child is left, that of the record (`RestIsClean`, `RestShowsRecord`,
`FrontIsRecorded`), apart from cases that section 4 names. One is in `RestShowsRecord` itself: at an end of the
book the view may stay where a pan has moved it. `BlankOnlyAfterEmptyPan`,
`CrashOnlyAtTheEnds` and `ParityChangesAtTheEnds` say exactly how far those reach. When
gestures do not wait, cover still moves by one page at most, shows the recorded page unless
a view was left behind, and always accepts gestures again (`TurnsByOnePage`,
`RecordIsOnTheScreen`, `TurnsEnd`); translation still records the child that the
next gesture starts from (`RecordIsOfFirstChild`), but not always a page beside.

The table. The row written last is never lost or changed by opening another book,
and that is all the table keeps (`OnlyLastIsKept`): a book opens where its row
says, saving or marking one book forgets all others, a mark of one book while another is read
takes the row of that one, and a save takes the mark away. With one book this is a place that is
kept; with two it is not (section 4).

No liveness property is stated for `ReadContainer`: nothing in it must happen, every
action is a choice of the user, of the system that ends the process, or of a queue
on whose end nothing waits. Its `Spec` therefore has no fairness, and neither has that of
`ProgressStore`, `ReaderMenu` and `TxtParser`. Deadlock is checked in every run but those of the
downloads, which stop when the requests are used up.

Downloads. A second stop of a running task makes it *forgotten* (section 4). As long as no
task is, slots, tasks with a transfer and transfers correspond exactly
(`SlotsAreTransfers`), and when the manager says that it has succeeded, which is when the reader
parses the book, every file is there except those that were delivered and could not be stored
(`CompletionHasFiles`). No task waits in a manager at
rest either (`RestIsDone`), as long as its list of tasks and its mapper agree, which the drop of
a task may end: the history variable `apart` says that it has (section 4).
With forgotten tasks too, the limit holds (`SlotsAreTransfers`), a
manager at rest that has succeeded has no other task (`RestIsDone`), and every
download and every stop of one ends (`TasksEnd`).
Four requests are enough for two stops of one task, a new task of its URL and another
task waiting. The limit is 1, where every slot matters; the code has 6.

Opening a book. The completion handler belongs to the manager, not to the download, and asks
only for the status of all tasks together. `ParsesWhatIsThere` says when it nevertheless parses
a file that is there: always, except for a part of a book, a file that could not be stored, beside
other tasks, before its own task has started, or after a stray callback. `WaitsForAReason` lists every way in which a container waits for ever:
both were found by TLC one case at a time, and section 4 has the cases.

The menu. Panels and the list are never left on the screen under or over the wrong view
(`PanelsNeedMenu`, `OpenListIsSeen`), although calls during an animation are dropped; the page
takes gestures again after every end of a selection (`DeafOnlyWhileSelected`); and a tap in the
middle toggles the menu although two recognizers call for it (`MiddleTapToggles`), because the
second call comes during the animation of the first.

Texts. In a new directory the files of the chapters are the text from its first cut on
(`ChaptersAreTheText`), for every text. As long as every character is one UTF-16 unit, each chapter can be displayed
(`ChaptersAreDisplayed`), and the parser gives up only on a text without a title or one that ends with
one (`PlainTextIsParsed`).

Types. `TypeOK` is checked as an invariant of `read_container`, where it bounds every index; in
the other modules it says what the variables are, and section 5 proves it for seven of them.

Every property has a mutant, an operator that precedes the one it replaces and is marked
"Mutant" in its comment: a plausible bug of that line.

## 4. Where code and comments disagree

Each of these has a run that must find a violation, and an entry under `findings` with
the quoted line.

| Property | What happens |
|---|---|
| `JumpShowsTarget` | a jump from the list keeps the start location of the page left; a target that still has to be laid out is then opened at the page that holds this location |
| `EachBookKeepsItsPlace` | the update without a condition writes the open book over the rows of all books |

Other behaviour of the code that the modules have and no run of its own states:

- the row may have the location of another chapter than its page: the buttons and the slider read
  the location from the chapter they took before they moved (`MoveTo`,
  `WLReaderContainer+Menu.swift:98`, `WLReadContainer+Page.swift:132`), although the comment of
  `WLReadContainer.swift:206` says that the page is found by it; where that chapter has fewer pages
  than the index, the process ends at once. The slider drawn to the end takes the count of the
  last chapter as it was before a change of the settings (`WLReaderContainer+Menu.swift:154`);
- two records of the scroll view at once write their fields between each other's: the row has the
  page of one and the location of the other (`RunBlock`, `WLReadScrollController.swift:108`);
- a wrong location has consequences: a jump
  to a page with location 0, followed by a change of the settings, keeps a page index the
  new layout may not have, and ends the process
  (`ChangeSetting`, `WLReadContainer+Page.swift:95`);
- a record of a scroll view that has gone: its last statement sets the shared model to nil, and the
  next handler of the menu unwraps it (`Share`, `WLReadScrollController.swift:114`); one that has
  already taken its chapter takes a page of it by an index of the old layout
  (`TakePage`, `WLReadScrollController.swift:111`);
- scroll view: "get the pages of the current chapter" (`WLReadScrollController.swift:46`) pages
  chapter 0, because `paging()` has the default index 0 (`Presented`); after a change of the
  settings the scrolled chapter keeps the old pages, one without pages stays empty;
- curl: a request that finds no page at an end of the book changes the parity of
  `pageCurlNumber` (`Answer` of `PageCurl`), and the next turn ends on a back;
- opening, another book (`RunMain`, `WLReadContainer.swift:181`): a download that was suspended
  when its container was closed keeps the manager from succeeding, so the next book is downloaded
  and never parsed; conversely the handler may run on the success of another book's task, parse a
  missing file and remove its own task, which ends the new download;
- opening, the same book: a request while the handler of the earlier container removes the task
  is dropped, and two parsers of one book may be at work at once;
- opening, the end of the process: a task stored as running whose transfer has ended, and one
  stored while it was being stopped, stay so, and the container waits; a transfer whose task was
  not stored may complete a later task of its address without its file (`strays`);
- epub: the archive is removed before it is unzipped, and the directory is taken for the whole
  book as soon as it exists (`FileExist`, `WLFileManager.swift:33`); if the process ends between,
  a part of the book is all there will be. A type of file that is not known never calls back
  (`WLBookParser.swift:39`);
- menu: a view of notes that is hidden together with the menu leaves `tapDisabled` set, and in
  the scroll view a tap in the middle then does not hide the menu (`MiddleTapToggles`); a second
  long press while text is selected leaves its first recognizer attached (`stray`); translation
  and scroll view go on turning pages under a selection (`LongPressView`);
- texts: a title at the very end of the text ends the process (`TitleIsCut`,
  `WLTxtParser.swift:45`), as does a text without titles, whose one chapter is never assigned
  (`WLTxtParser.swift:35`); what stands before the first title is lost; with line ends of two units
  every later cut is displaced (`DoTitleMatch`); chapter files of another text with the same name
  up to its first point are kept (`Written`);

- a book marked as finished opens the last chapter at the last page number of the chapter
  of its row (`OpenedModel`, `WLReadContainer.swift:213`);
- the button for the next page does nothing on the page before the last (`NextPage`,
  `WLReaderContainer+Menu.swift:85`);
- the slider drawn to a chapter without pages computes index -1 or indexes an empty array
  (`DragToChapter`, `WLReaderContainer+Menu.swift:154`);
- cover: a pan refused during a tap's animation still attaches a page, if an earlier pan
  only moved up or down, and nothing removes it (`PanChanged` with `isPan` false,
  `WLReaderCoverController.swift:257`);
- translation: a drag at an end of the book that turns round unwraps a pending controller
  that is nil (`PanChanged`, `WLTranslationController.swift:87`), and two quick taps leave a
  child behind, which a later turn records (`Tap` with `overlap`,
  `WLTranslationController.swift:168`); a drag on the first or last page that turns round at its end
  finds no page, and `handlePanGes` returns (`WLTranslationController.swift:103`, `:117`) with the
  view where the finger had moved it (`PanEnded` without a pending page);
- the table: a mark of a book is written over the row of the one that is read
  (`Mark`, `WLBookModel.swift:205`); a jump from the list and a change of the settings move the model
  without a save (`Move`), so that a process that ends then opens at the place before;
- downloads: a file that cannot be moved into the cache is lost, and its task succeeds
  (`StoreFile`, `Cache.swift:275`); the reader then parses a file that is not there;
- downloads: a second stop of a running task (cancel twice, or suspend and remove at once)
  posts a local block that drops the task before the callback of its transfer; the callback
  finds no task, its slot is never freed, and tasks wait for it; if the URL was
  requested again, the callback reaches the new task, which fails, or succeeds without its
  file (`Stop`, `DownloadTask.swift:270`; what the properties call `Forgotten`);
- downloads: `totalCancel` between a `download` and the block that starts the task leaves a
  cancelled task among the tasks, and the manager running: the comment
  `SessionManager.swift:496` says a cancelled task is removed (`ForgetTask`, `Start`);
- downloads: a task that has succeeded and is started again is counted twice among the
  succeeded, and `totalCancel` compares that count with the number of mapped tasks
  (`SessionManager.swift:644`). When they are equal by chance the list of tasks becomes that of
  the succeeded ones, and every other task drops out of the list from which `startNextTask`
  takes the next. With four books a, b, d, e and one slot: download a and let it end, start a
  twice, download b, `totalCancel`, and before its blocks have run download d and e. The
  succeeded are a, a, a, and so are the tasks; d has the slot, and when it ends e is not found:
  it waits for ever beside a free slot, in a manager that says it has succeeded. The other way
  to it is a cancelled task left in the list, as above: the block of a later total stop removes the
  new task of its URL from the mapper. Both are `apart`; the proof of `RestIsDone` found them,
  at more tasks and requests than a run can check;
- downloads: `totalCancel` of a manager whose tasks
  have all ended, one by failure and since removed, stays at `willCancel`;
- downloads: a request to download a task that is being suspended or removed is dropped
  (`Download`, `DownloadTask.swift:194`): a book closed and reopened at once is not loaded.

## 5. Proofs

Eight of the modules have theorems, which hold for every value of their constants that the
named assumptions admit. TLC checks the same properties on the instances of section 3.

| Module | Assumptions | What they ask for |
|---|---|---|
| `ReadContainer` | `BookAssumption`, `LayoutAssumption` | the constants have their types; pages are ordered, not empty, and cover the text |
| `CoverController`, `TranslationController`, `PageCurl` | `CoverAssumption`, `TranslationAssumption`, `CurlAssumption` | a number of pages, bounds that are numbers |
| `ProgressStore` | `StoreAssumption` | places and a bound; any set of books |
| `DownloadManager` | `LimitAssumption`, `UrlsAssumption`, `RequestsAssumption` | a limit of one or more, finitely many addresses (a batch is an array), requests among those of the source |
| `TxtParser` | `LengthAssumption` | a bound that is a number: texts of any length up to it |
| `ReaderMenu` | none | |

Every proof has the same plan: an inductive invariant, one lemma for each action (or, where
handlers call each other, for each operator), and the properties from the invariant.

### The session (`ReadContainerProofs`)

| Theorem | Property |
|---|---|
| `Typing` | `TypeOK` |
| `SessionInvariance` | `SessionInv` |
| `StalePages`, `Neighbours`, `Screen`, `LateRecords` | the conjuncts of `SessionInv` |
| `TurnMoves`, `TurnSaves`, `TurnCrashes` | the properties of turns |
| `MenuCrashes` | `MenuCrashesForAReason` |
| `ButtonsMove` | `ButtonsMoveOnePage` |
| `PlaceIsKept` | `RelayoutKeepsPlace` |
| `OneChapterEnds` | `EndsForAReason`, in a book of one chapter with text |

No single invariant above is inductive. That a page shown exists
(`ScreenShowsBook`) after a turn needs that the target was in a chapter laid out
for the *current* style, or the count used to compute it would be another:
this is `NeighboursUpToDate`, for the chapter and for the neighbours of the page
turning in. That in turn needs that whatever is not of the current style is
marked (`StalePagesAreMarked`), or paging would skip it. A turn that ends must find
its page beside the model's: `TurnIsBeside`, which also says that a turn exists
only in a paged view. `UnreadableHasNoPages` is what lets a chapter be out of date
without being indexed, and `RecordsAreOfTheView` keeps a late record from moving
the model under a paged view. `SessionInv` is their conjunction. The lemmas under it say what
paging does to a chapter
(`LayOut`), that a repaired index is that of the page holding the location
(`LastOf(PagesAround(..))` is `PageOf`), and what `Presented` returns. The action
properties follow from `SessionInv` in the state before the step. A record of the scroll view takes
part with each of its statements, for any number of records at once: each keeps `SessionInv` by
itself (`RunBlockInv`), because `RecordsAreOfTheView` says at which statements one without a
controller can be.

`MenuCrashes` is proved handler by handler. A chapter beside the one read follows the settings
(`NeighboursUpToDate`), so what the buttons count is what is shown; a jump lays out its target, or
the pages it had are those of the settings, before a view is made of it (`PresentedInRange`); and a
move to a page that exists in both the chapter left and the one entered is made
(`MoveIsMade`). The slider can reach a chapter that is not beside: there the index
is 0, or that of the last page of the last chapter, whose count may be of an old layout. The cases of the property are
those in which one of these steps fails.

`OneChapterEnds` needs that the open book's chapter has the pages of the settings, that the model
is on one of them, and that so is every record that finds its controller (`OneInv`). This is more
than `SessionInv` says of a scroll view, where with several chapters it is false; with one, each
handler lays out the only chapter. A step then either keeps `OneInv` or ends the process for one of the
four reasons (`OneStep`): none of the buttons, the slider, the turns and the settings asks for a page
that is missing while the location is one of the page.

### The page effects

| Theorem | Property | Module |
|---|---|---|
| `CoverInvariance`, `CoverTypes` | `CoverInv`, `TypeOK` | `CoverControllerProofs` |
| `CoverTurnsByOnePage` | `TurnsByOnePage` | |
| `RestStaysClean`, `OneTurnAtATime`, `RecordStaysOnTheScreen` | `RestIsClean`, `OneTurn`, `RecordIsOnTheScreen` | |
| `ChildrenInvariance`, `TranslationTypes` | `ChildrenInv`, `TypeOK` | `TranslationControllerProofs` |
| `RecordFollowsFirstChild` | `RecordIsOfFirstChild` | |
| `TranslationInvariance`, `OneIsLeft` | `TranslationInv`, `RestShowsRecord` | |
| `BlankAfterEmptyPan`, `CrashAtTheEnds` | `BlankOnlyAfterEmptyPan`, `CrashOnlyAtTheEnds` | |
| `TranslationTurnsByOnePage` | `TurnsAsExpected` | |
| `CurlInvariance`, `CurlTypes` | `CurlInv`, `TypeOK` | `PageCurlProofs` |
| `FrontStaysRecorded`, `ParityIsKept` | `FrontIsRecorded`, `ParityChangesAtTheEnds` | |
| `CurlTurnsByOnePage` | the safety part of `PageTurn` | |

Each of the three effects implements `PageTurn`: initial states map to initial states, and
each step to a step of `PageTurn` or to a stutter. Cover does so even where gestures overlap
animations.

*Cover.* What is at rest says nothing about a completion that arrives later, so the invariant
lists the phases of a turn: a page alone, a page asked for beside it, and the two that slide,
with the frame each view has (`Alone`, `Asked`, `Sliding`). They hold as long as no view was
left behind (`PhaseOrLeft`). Once a view is left, none of them does, but what the mapping to
`PageTurn` reads still holds (`RolesInv`): one view has the role of the front, one is pending, and the front
is recorded. `CalmInv` says that where gestures wait no view is ever left.

*Translation.* In all behaviours the record is the page of the first child, or an animation
or the pan in progress is about to make it so (`RecordIsKnown`); this needs that what a pan has
asked for is the last child (`PendingIsLast`). Where gestures wait, the states are those of four
phases (`Resting`, `PanBegun`, `PanAsked`, `Animated`), the last with a case for a pan that
asked for nothing and finds the pending controller of an earlier turn: the case from which
the blank page of `BlankOnlyAfterEmptyPan` comes. Where the view of the current controller is, is part
of each phase: in its place, or displaced with no pending controller and the record at an end of the
book (`AtAnEnd`), which only a pan that was turned round there can bring about, and which
the next turn ends.

*Curl.* The front that is on the screen is recorded only because the controller made last is
of the recorded page between two turns (`MadeLast`).

### The table of books (`ProgressStoreProofs`)

| Theorem | Property |
|---|---|
| `StoreInvariance`, `StoreTypes` | `StoreInv`, `TypeOK` |
| `TableKeepsOnlyLast` | `ProgressStore` implements the `LastSpec` of `BookShelf` (`OnlyLastIsKept`) |

A query returns the first row of a title, an update writes all rows, so what keeps the
row written last is that rows with one title are equal (`RowsAgree`). The refinement holds for any set of books and a table of any
length. An insert adds a row that reads as a book never opened, so opening changes nothing of the
shelf; an update leaves rows of one title only, so every other title is not found, provided
there is a row to be written, which a book that is open has brought about (`OpenHasRows`). That the
table does not keep every book is what `progress_store_two` shows.

### Downloads (`DownloadManagerProofs`)

| Theorem | Property |
|---|---|
| `ManagerInvariance`, `DownloadTypes` | `ManagerInv`, `TypeOK` |
| `SlotsStayTransfers` | `SlotsAreTransfers` |
| `CompletionKeepsFiles` | `CompletionHasFiles` |
| `RestInvariance` | `RestInv` |
| `RestKeepsNoneWaiting` | `RestIsDone` |

`ManagerInv` says of the manager (`Good`) that its references are to tasks and transfers that
exist (`Known`), that no more slots are taken than the limit, and that, if no task is forgotten
(`Whole`), tasks, slots, blocks, transfers and files correspond (`Owned`). The
last has the parts that the properties lack. A task that waits has no block that would end it
(`EndsOnce`): without this, the block of an earlier stop could drop a task that has been started
since. A transfer that has ended well has delivered its file, and a block that completes
a task has one to complete it with (`FinishedHasFile`, `BlockHasFile`), where a delivered file is in
the cache or was lost on the way into it (`Delivered`): nothing else can come between the
success of a task and its file. And a transfer under way is that
of the task which its callback will find (`LiveIsListed`), which is what a forgotten task breaks.
The functions call each other on a state in the middle of a block, so `Good` has the state as an
argument, and each function of `SessionManager` and `DownloadTask` has a lemma `...Good`: it
returns a good state from a good one, and a state with a forgotten task from one with a
forgotten task. A request for several tasks needs that of each one in turn (`ForEachGood`); this
is about a recursive function, and is proved from the least position at which it would fail.

`RestIsDone` is about a manager with nothing under way, and nothing of it can be kept by a step
that starts with something under way. `RestInv` adds to `ManagerInv` what has to hold on the
way to rest (`Rest`). A task that waits and can be looked up is asked for by a posted block
that will start it, or it is served (`ServedTask`): it needs a slot, the manager is not being stopped,
and the slots taken together with the posted blocks that start a next task are at least
the limit (`Enough`). A free slot could still be missed if such a block spent itself on another
task, one that was put in the cache in the meantime and needs no slot; so each such
task that comes earlier has a block of its own that runs before those blocks (`Before`), and
"earlier" is the order of the list, in which tasks that may still wait are in the order they were
made (`InOrder`). That the one who waits is in the list at all is `TablesAgree`, which a drop may
break, and the theorem says nothing of a manager after that (`apart`); nor
of one with a forgotten task, whose slot is lost. The second part of `RestIsDone`,
without these conditions, needs that each task of a manager that says it has succeeded has
succeeded, or has a posted block that will change what the manager says (`Settled`). In the
middle of a block both are looser: the tasks that are yet to be started or stopped, and a slot
that is free and not yet offered, are arguments of `Rest`.

### Menu and selection (`ReaderMenuProofs`)

| Theorem | Property |
|---|---|
| `MenuInvariance`, `MenuTypes` | `MenuInv`, `TypeOK` |
| `PanelsHaveMenu`, `DeafForASelection`, `ListIsSeen` | `PanelsNeedMenu`, `DeafOnlyWhileSelected`, `OpenListIsSeen` |
| `MiddleTapIsOneToggle` | `MiddleTapToggles` |

`OpenListIsSeen` is not inductive: the list could be hidden by the completion of an animation
that began when it was closed. `ListEndsFirst` says that such a completion is never pending
with an open list, and that before a menu that is shown it comes first. `Sound` has this and is kept
by every operation, also in the middle of a handler that calls several; that the page hears
(`Hears`) holds only at the end of one.

### Texts (`TxtParserProofs`)

| Theorem | Property |
|---|---|
| `TxtInvariance`, `TxtTypes` | `TxtInv`, `TypeOK` |
| `PlainIsParsed` | `PlainTextIsParsed` |
| `ChaptersStayDisplayed` | `ChaptersAreDisplayed` |
| `ChaptersMakeTheText` | `ChaptersAreTheText` |

TLC has all texts of up to four characters; these hold for texts of every length. They
stand on three facts about the operators. The matches of a text are the starts of its titles, all of
them and in their order (`MatchesAreStarts`, from `FoundUpTo` at each position). The units of a
text without a line end of two units are its characters (`PlainUnits`), so that there the ranges of
the matches are what the cuts take them for. And two parts of a text that meet are one
part of it (`PartsMeet`). The matches and the units are functions defined on a position by their
value on the one before; as the induction theorems of the library cannot be used, each fact about them
is proved from the least position at which it would fail, and that there is a least one comes from
the order of the numbers being well founded (`LeastNumber`).

That a chapter can be displayed is not inductive as it stands: its file may be one that an earlier
text has left, and the titles of that text are gone. What every file keeps of its text is that it is a
`Heading`: a plain text with a title in front and a line end somewhere after it, which is what the display
asks for (`HeadingIsDisplayed`). It has the line end because a title is only cut if a character
follows it (`ChapterIsHeading`). `TxtInv` says this of all files
(`FilesAreHeadings`), that each chapter of the book has one (`BookIsWritten`), and that a text is
refused for one of two reasons (`TrapHasReason`). Of the titles that can be cut, `Parse` takes those
before the first that cannot: these are a prefix (`CutIsPrefix`), so that a parsed book has all.
`ChaptersMakeTheText` is about one step, in which every file is new (`FilesAreText`). Its proof does not
need that line ends are of one unit: where they displace the cuts, each chapter still ends where
the next one begins. The property had that condition before the proof, and has lost it.

### Only model-checked

- Liveness: `TurnsEnd` of cover and translation, the fairness of `PageTurn` in `TurnsAsExpected`
  of the curl, and `TasksEnd`. It stands on fairness and `ENABLED`, which the provers do not
  handle.
- `OpenBook` and `DownloadCache`: `ParsesWhatIsThere` and `WaitsForAReason` relate three queues with
  history variables, on the manager as it is restored, to which `ManagerInv` does not apply: a
  task stored while it was stopped, and a transfer without a task, are outside it.
- The violated statements: `JumpShowsTarget` and `EachBookKeepsItsPlace`.

## 6. Plan

In this order; each module gets its own runs, and theorems where the property
holds for every value of the constants.

Done: every module of section 2, and the proofs of section 5.

Left: the invariants of `OpenBook` and of `DownloadCache` on the stored list. Their proof would
begin with an invariant of the manager as it is restored, weaker than `ManagerInv`: a task stored
while it was stopped, and a transfer without its task.

### Not modelled

- **Vendored code** under `src/WLReaderDemo/Pods`: SQLCipher and SQLite, the zip and XML
  libraries, DTCoreText. It holds nearly all the C code of the repository, but it is third-party
  code that the reader only calls: the modules have what it does as assumptions
  (`LayoutAssumption`, `Found`, the steps of unzipping). The reader itself is Swift.
- **The XML of an epub**: container, manifest, spine and table of contents. Reading it shows that
  the recursion of `findNavTag` drops its result (`WLEpubParser.swift:302`) against its comment,
  that `flatTOC` flattens one level, and that a reference without a resource is unwrapped
  (`WLBookModel.swift:91`); as a model these are functions of a tree whose shape no property
  relates to anything else.
- **Notes and bookmarks**: the requests are commented out (`WLNoteViewModel.swift:42`), so no note
  ever arrives.
- **The selected range**, drawing, layout of views, colours, the photo browser: geometry.
- **Checksums, resume data, a change of the download configuration, reordering of tasks**: the
  reader never calls them.
- **The demo application**: it opens a container.
