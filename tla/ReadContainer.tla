----------------------------- MODULE ReadContainer -----------------------------
(***************************************************************************)
(* One reading session of WLReadContainer: the book model, the chapters    *)
(* and their pages, page turns, the navigation of the menu and of the      *)
(* chapter list, changes of the settings, the scroll view's background     *)
(* record, and the record of the reading position kept in the database.    *)
(*                                                                         *)
(* A chapter object is shared by every copy of the book model, so the      *)
(* pages of a chapter are one piece of state (lay). The text layout is     *)
(* DTCoreText's: the constant PageStarts says where the pages of a chapter *)
(* start under each style of the settings (font, size, spacing). An index  *)
(* out of the range of a Swift array ends the process: phase "crashed".    *)
(***************************************************************************)
EXTENDS Integers, Sequences, FiniteSets

CONSTANTS
  LastChapter,   (* the chapters of the book are 0..LastChapter             *)
  Unreadable,    (* chapters whose file cannot be read as a string          *)
  Styles,        (* the layouts the settings can ask for                    *)
  NoStyle,       (* an unpaged chapter has this instead of a style          *)
  TextLength,    (* length of the text of each chapter                      *)
  PageStarts,    (* style, chapter -> where its pages start, in order       *)
  MaxBlocks      (* bound: records of the scroll view in flight             *)

Chapters == 0..LastChapter
Modes    == {"page", "scroll"}
Places   == [ch : Chapters, pg : Nat]
Books    == [ch : Chapters, pg : Nat, start : Nat]
Rows     == [has : BOOLEAN, ch : Chapters, pg : Nat, start : Nat, fin : BOOLEAN]

(* A record of the scroll view: at is the statement it comes to next (fault *)
(* is that of a page which the chapter it has taken has not), alive whether *)
(* its weak reference finds the controller; then what it has read.          *)
Statements == {"chapter", "page", "lookup", "pages", "fault", "start", "save", "write", "share"}
Records  == [id : 1..MaxBlocks, ch : Chapters, pg : Nat, at : Statements, alive : BOOLEAN,
             start : Nat, row : Rows]

PageCount(s, c) == Len(PageStarts[s][c])

ASSUME BookAssumption ==
  /\ LastChapter \in Nat
  /\ Unreadable \subseteq Chapters
  /\ NoStyle \notin Styles
  /\ MaxBlocks \in Nat
  /\ TextLength \in [Chapters -> Nat]

(* Pages cover the text without a gap: the first starts at 0, each starts  *)
(* where the one before ends, no page is empty, and every location of the  *)
(* text is in a page.                                                      *)
ASSUME LayoutAssumption ==
  /\ PageStarts \in [Styles -> [Chapters -> Seq(Nat)]]
  /\ \A s \in Styles, c \in Chapters :
       /\ (PageCount(s, c) = 0) <=> (TextLength[c] = 0)
       /\ PageCount(s, c) > 0 => PageStarts[s][c][1] = 0
       /\ \A i, j \in 1..PageCount(s, c) :
            i < j => PageStarts[s][c][i] < PageStarts[s][c][j]
       /\ \A i \in 1..PageCount(s, c) : PageStarts[s][c][i] < TextLength[c]
       /\ \A loc \in 0..TextLength[c] - 1 : \E i \in 1..PageCount(s, c) :
            /\ PageStarts[s][c][i] <= loc
            /\ i < PageCount(s, c) => loc < PageStarts[s][c][i + 1]

VARIABLES
  phase,    (* "closed", "reading" or "crashed"                             *)
  lay,      (* chapter -> the style its pages were made with, forcePaging   *)
  style,    (* layout the shared WLBookConfig asks for                      *)
  mode,     (* its page effect: scrolling, or one of the four paged ones    *)
  config,   (* the configuration row of the database                        *)
  book,     (* the container's book model: chapter, page, start location    *)
  shown,    (* the page on the screen                                       *)
  turn,     (* the page that is being turned in, if there is one            *)
  blocks,   (* records of the scroll view on the global queue               *)
  shared,   (* is WLBookConfig.shared.bookModel the container's model?      *)
  saved     (* the row of this book in the database                         *)

vars == <<phase, lay, style, mode, config, book, shown, turn, blocks, shared,
          saved>>

Unpaged   == [c \in Chapters |-> [by |-> NoStyle, force |-> FALSE]]
FrontPage == [ch |-> 0, pg |-> 0, start |-> 0]
NoTurn    == [on |-> FALSE, ch |-> 0, pg |-> 0]
NoRow     == [has |-> FALSE, ch |-> 0, pg |-> 0, start |-> 0, fin |-> FALSE]

RowOf(b)   == [has |-> TRUE, ch |-> b.ch, pg |-> b.pg, start |-> b.start,
               fin |-> FALSE]
PlaceOf(b) == [ch |-> b.ch, pg |-> b.pg]

--------------------------------------------------------------------------------
(***************************************************************************)
(* Paging                                                                  *)
(***************************************************************************)

\* chapter.pages.count
Count(l, c) == IF l[c].by = NoStyle THEN 0 ELSE PageCount(l[c].by, c)

\* pages[pg] of chapter c exists
HasPage(l, c, pg) == 0 <= pg /\ pg < Count(l, c)
OnPage(l, b)      == HasPage(l, b.ch, b.pg)

\* pages[pg].pageStartLocation of a page that exists
StartOf(l, c, pg) == PageStarts[l[c].by][c][pg + 1]

\* Neither an early return for unreadable text nor one for pages that stand.
NeedsLayout(l, c) == c \notin Unreadable /\ (l[c].force \/ Count(l, c) = 0)

\* WLBookChapter.paging, called for each chapter of C. The calls for distinct
\* chapters change distinct chapters, so their order does not matter.
LayOut(l, s, C) ==
  [c \in Chapters |-> IF c \in C /\ NeedsLayout(l, c)
                      THEN [by |-> s, force |-> FALSE]
                      ELSE l[c]]

\* The pages (from 0) whose range holds loc. The test of the code includes both
\* ends, so a location where a page starts is also in the page before it.
PagesAround(s, c, loc) ==
  {p \in 0..PageCount(s, c) - 1 :
     /\ PageStarts[s][c][p + 1] <= loc
     /\ loc <= IF p + 1 = PageCount(s, c) THEN TextLength[c]
               ELSE PageStarts[s][c][p + 2]}

\* Mutant of LastOf: the loop stops at the first page that holds the location.
FirstOf(P) == CHOOSE p \in P : \A q \in P : p <= q

LastOf(P) == CHOOSE p \in P : \A q \in P : q <= p

\* What laying out the chapters C does to the book model b that is passed: a
\* later page of the loop overwrites the index an earlier one has set.
Repaged(l, s, b, C) ==
  LET hits == PagesAround(s, b.ch, b.start)
  IN  IF b.ch \in C /\ NeedsLayout(l, b.ch) /\ b.start > 0 /\ hits # {}
      THEN [b EXCEPT !.pg = LastOf(hits)]
      ELSE b

\* bookModel.paging() is paging(with: 0); chapters[safe:] ignores other indices.
DefaultPaging == {0}

Around(c)     == DefaultPaging \cup ({c - 1, c, c + 1} \cap Chapters)

\* createPageViewController(createCurrentReadController(b)): the pages laid out
\* and the model afterwards.
Presented(l, b, s, m) ==
  LET C  == IF m = "page" THEN Around(b.ch) ELSE DefaultPaging
      l1 == LayOut(l, s, C)
      b1 == Repaged(l, s, b, C)
      ahead == IF m = "scroll" /\ Count(l1, b.ch) <= 1
               THEN {c \in {b.ch + 1} \cap Chapters : Count(l1, c) = 0}
               ELSE {}
  IN  [lay |-> LayOut(l1, s, ahead), book |-> b1]

--------------------------------------------------------------------------------
(***************************************************************************)
(* Opening, closing, crashing                                              *)
(***************************************************************************)

Init ==
  /\ phase  = "closed"
  /\ lay    = Unpaged
  /\ style \in Styles
  /\ mode  \in Modes
  /\ config = [style |-> style, mode |-> mode]
  /\ book   = FrontPage
  /\ shown  = PlaceOf(FrontPage)
  /\ turn   = NoTurn
  /\ blocks = {}
  /\ shared = FALSE
  /\ saved  = NoRow

\* The process ends: all that is not in the database is lost.
ProcessEnds(ph) ==
  /\ phase'  = ph
  /\ lay'    = Unpaged
  /\ style'  = config.style
  /\ mode'   = config.mode
  /\ book'   = FrontPage
  /\ shown'  = PlaceOf(FrontPage)
  /\ turn'   = NoTurn
  /\ blocks' = {}
  /\ shared' = FALSE
  /\ UNCHANGED config

Crash == ProcessEnds("crashed")

Kill ==
  /\ phase = "reading"
  /\ ProcessEnds("closed")
  /\ UNCHANGED saved

\* Mutant of Orphaned: a record on its way keeps its controller.
OrphanedNone(B) == B

\* What is left to do for a record that has only to set the shared model
Last(x) == [x EXCEPT !.ch = 0, !.pg = 0, !.at = "share", !.start = 0, !.row = NoRow]

\* clearPageControllers and the container's end release the scroll controller. A record
\* on its way then skips every statement that asks for it: it still reads the page of
\* the chapter it has taken, or writes the row it has read, and sets the shared model.
Orphaned(B) == {[(IF x.at \in {"pages", "fault", "write"} THEN x ELSE Last(x))
                 EXCEPT !.alive = FALSE] : x \in B}

\* The menu is open. A turn starts with showMenu(show: false), and a view that
\* an animation moves takes no touch, so no page is being turned.
InMenu == phase = "reading" /\ ~turn.on

\* The chapter that a record has taken outlives the book, with its pages.
Kept(x) == IF x.at # "pages" THEN x
           ELSE IF HasPage(lay, x.ch, x.pg) THEN Last(x) ELSE [x EXCEPT !.at = "fault"]

\* readerMenuBackEvent pops the container; its blocks stay on the queue.
Back ==
  /\ InMenu
  /\ phase'  = "closed"
  /\ lay'    = Unpaged
  /\ book'   = FrontPage
  /\ shown'  = PlaceOf(FrontPage)
  /\ blocks' = {Kept(x) : x \in Orphaned(blocks)}
  /\ UNCHANGED <<style, mode, config, turn, shared, saved>>

\* WLBookModel.save(_:title:): the host application marks the book as read to its
\* end or not, at any time.
MarkFinished(fin) ==
  /\ saved.has
  /\ saved' = [saved EXCEPT !.fin = fin]
  /\ UNCHANGED <<phase, lay, style, mode, config, book, shown, turn, blocks,
                 shared>>

\* WLBookModel.read: the row if there is one, the parser's first page if not.
ReadModel == IF saved.has
             THEN [ch |-> saved.ch, pg |-> saved.pg, start |-> saved.start]
             ELSE FrontPage

\* The model parseBook shows: the read chapter is paged, and for a book marked
\* as finished the last chapter is taken with the pages of the read one.
OpenedModel ==
  LET s == config.style
      C == {ReadModel.ch}
      b == Repaged(Unpaged, s, ReadModel, C)
  IN  IF saved.has /\ saved.fin
      THEN [ch |-> LastChapter,
            pg |-> Count(LayOut(Unpaged, s, C), ReadModel.ch) - 1,
            start |-> b.start]
      ELSE b

Open ==
  LET s == config.style
      p == Presented(LayOut(Unpaged, s, {ReadModel.ch}), OpenedModel, s,
                     config.mode)
  IN  /\ phase # "reading"
      /\ saved' = IF saved.has THEN saved ELSE RowOf(FrontPage)
      /\ IF OnPage(p.lay, p.book)
         THEN /\ phase'  = "reading"
              /\ lay'    = p.lay
              /\ style'  = config.style
              /\ mode'   = config.mode
              /\ book'   = p.book
              /\ shown'  = PlaceOf(p.book)
              /\ turn'   = NoTurn
              /\ shared' = TRUE
              /\ UNCHANGED <<config, blocks>>
         ELSE Crash

--------------------------------------------------------------------------------
(***************************************************************************)
(* Page turns: cover, no effect, translation and page curl                 *)
(***************************************************************************)

\* Mutant of NextTarget: the last page of a chapter is taken for past its end.
NextTargetSkips ==
  IF book.pg + 1 >= Count(lay, book.ch) - 1
  THEN IF book.ch >= LastChapter THEN {}
       ELSE {[ch |-> book.ch + 1, pg |-> 0, lays |-> Count(lay, book.ch + 1) = 0]}
  ELSE {[ch |-> book.ch, pg |-> book.pg + 1, lays |-> FALSE]}

\* getNextModel: the target and the chapters it pages (none: no next page).
NextTarget ==
  IF book.pg >= Count(lay, book.ch) - 1
  THEN IF book.ch >= LastChapter THEN {}
       ELSE {[ch |-> book.ch + 1, pg |-> 0, lays |-> Count(lay, book.ch + 1) = 0]}
  ELSE {[ch |-> book.ch, pg |-> book.pg + 1, lays |-> FALSE]}

\* Mutant of PreviousTarget: page 0 is not taken for the first one.
PreviousTargetBelowZero ==
  IF book.pg < 0 THEN {} ELSE {[ch |-> book.ch, pg |-> book.pg - 1, lays |-> FALSE]}

\* getPreviousModel: a chapter without pages is paged, then its last page taken.
PreviousTarget ==
  IF book.pg <= 0
  THEN IF book.ch <= 0 THEN {}
       ELSE LET c == book.ch - 1
                l == IF Count(lay, c) = 0 THEN LayOut(lay, style, {c}) ELSE lay
            IN  {[ch |-> c, pg |-> Count(l, c) - 1, lays |-> Count(lay, c) = 0]}
  ELSE {[ch |-> book.ch, pg |-> book.pg - 1, lays |-> FALSE]}

\* Mutant of TurnBegin: no index is checked when the view is loaded.
TurnBeginUnchecked(t) ==
  /\ phase = "reading"
  /\ mode = "page"
  /\ lay' = LayOut(lay, style, Around(t.ch))
  /\ turn' = [on |-> TRUE, ch |-> t.ch, pg |-> t.pg]
  /\ UNCHANGED <<phase, style, mode, config, book, shown, blocks, shared, saved>>

\* Mutant of TurnBegin: the chapters around the target are not paged.
TurnBeginAlone(t) ==
  /\ phase = "reading"
  /\ mode = "page"
  /\ lay' = LayOut(lay, style, IF t.lays THEN {t.ch} ELSE {})
  /\ turn' = [on |-> TRUE, ch |-> t.ch, pg |-> t.pg]
  /\ UNCHANGED <<phase, style, mode, config, book, shown, blocks, shared, saved>>

\* A gesture asks for a neighbour of the current page. A second request
\* replaces the first (a pan that changes its direction). Loading the view of
\* page -1 is an index out of range; a page behind the last one is left blank.
TurnBegin(t) ==
  LET l == LayOut(lay, style, (IF t.lays THEN {t.ch} ELSE {}) \cup Around(t.ch))
  IN  /\ phase = "reading"
      /\ mode = "page"
      /\ IF t.pg < 0
         THEN Crash /\ UNCHANGED saved
         ELSE /\ lay' = l
              /\ turn' = [on |-> TRUE, ch |-> t.ch, pg |-> t.pg]
              /\ UNCHANGED <<phase, style, mode, config, book, shown, blocks,
                             shared, saved>>

\* Mutants of Settle: the record takes the page that was turned in although the
\* turn was cancelled; the record keeps the start location of the page before.
SettlePending(pl) ==
  /\ book'   = [ch |-> turn.ch, pg |-> turn.pg, start |-> 0]
  /\ shown'  = pl
  /\ turn'   = NoTurn
  /\ shared' = TRUE
  /\ saved'  = RowOf(book')
  /\ UNCHANGED <<phase, lay, style, mode, config, blocks>>

SettleOldStart(pl) ==
  /\ book'   = [ch |-> pl.ch, pg |-> pl.pg, start |-> book.start]
  /\ shown'  = pl
  /\ turn'   = NoTurn
  /\ shared' = TRUE
  /\ saved'  = RowOf(book')
  /\ UNCHANGED <<phase, lay, style, mode, config, blocks>>

\* coverFinished, didFinishAnimating: the controller in front is the current one,
\* its page is read, recorded and saved.
Settle(pl) ==
  IF OnPage(lay, pl)
  THEN LET b == [ch |-> pl.ch, pg |-> pl.pg, start |-> StartOf(lay, pl.ch, pl.pg)]
       IN  /\ book'   = b
           /\ shown'  = pl
           /\ turn'   = NoTurn
           /\ shared' = TRUE
           /\ saved'  = RowOf(b)
           /\ UNCHANGED <<phase, lay, style, mode, config, blocks>>
  ELSE Crash /\ UNCHANGED saved

TurnFinish == phase = "reading" /\ turn.on /\ Settle(PlaceOf(turn))

TurnCancel == phase = "reading" /\ turn.on /\ Settle(PlaceOf(book))

--------------------------------------------------------------------------------
(***************************************************************************)
(* Navigation by the menu, the slider and the chapter list                 *)
(***************************************************************************)

ProgressIsChapter == LastChapter > 0

\* clearPageControllers; createPageViewController(...) with the model b
Rebuild(p, b, s, m) ==
  /\ lay'    = p.lay
  /\ style'  = s
  /\ mode'   = m
  /\ book'   = b
  /\ shown'  = PlaceOf(b)
  /\ blocks' = Orphaned(blocks)
  /\ UNCHANGED <<phase, turn, shared>>

\* The common end of the six handlers that move by a button or the slider: the
\* view is rebuilt for b, then the location is read from the pages of the
\* chapter that was current when the handler started.
MoveTo(l, b) ==
  LET p == Presented(l, b, style, mode)
      old == book.ch
  IN  IF shared /\ OnPage(p.lay, p.book) /\ HasPage(p.lay, old, p.book.pg)
      THEN LET b1 == [p.book EXCEPT !.start = StartOf(p.lay, old, p.book.pg)]
           IN  /\ Rebuild(p, b1, style, mode)
               /\ saved' = RowOf(b1)
               /\ UNCHANGED config
      ELSE Crash /\ UNCHANGED saved

At(c, pg) == [book EXCEPT !.ch = c, !.pg = pg]

\* The page after, in gotoNextPage and in the menu of a book of one chapter
NextPage ==
  /\ InMenu
  /\ IF book.pg + 1 >= Count(lay, book.ch) - 1
     THEN book.ch < LastChapter /\ MoveTo(lay, At(book.ch + 1, 0))
     ELSE MoveTo(lay, At(book.ch, book.pg + 1))

\* Mutant of PreviousPage: the chapter before is entered at its first page.
PreviousPageFirst ==
  /\ InMenu
  /\ IF book.pg - 1 < 0
     THEN book.ch > 0 /\ MoveTo(lay, At(book.ch - 1, 0))
     ELSE MoveTo(lay, At(book.ch, book.pg - 1))

\* Mutant of PreviousPage: the count of the pages is taken for the index of the last one.
PreviousPagePast ==
  /\ InMenu
  /\ IF book.pg - 1 < 0
     THEN book.ch > 0 /\ MoveTo(lay, At(book.ch - 1, Count(lay, book.ch - 1)))
     ELSE MoveTo(lay, At(book.ch, book.pg - 1))

\* The page before. The call that should page the chapter before passes page
\* index -1, which chapters[safe:] ignores.
PreviousPage ==
  /\ InMenu
  /\ IF book.pg - 1 < 0
     THEN book.ch > 0 /\ MoveTo(lay, At(book.ch - 1, Count(lay, book.ch - 1) - 1))
     ELSE MoveTo(lay, At(book.ch, book.pg - 1))

\* readerMenuNextEvent and readerMenuPreviousEvent of a book with chapters
NextChapter ==
  InMenu /\ ProgressIsChapter /\ book.ch < LastChapter /\ MoveTo(lay, At(book.ch + 1, 0))

PreviousChapter ==
  InMenu /\ ProgressIsChapter /\ book.ch > 0 /\ MoveTo(lay, At(book.ch - 1, 0))

\* bookModel.paging() of a handler whose target chapter c has no pages
PagedFor(c, b) == IF Count(lay, c) = 0
                  THEN [lay  |-> LayOut(lay, style, DefaultPaging),
                        book |-> Repaged(lay, style, b, DefaultPaging)]
                  ELSE [lay |-> lay, book |-> b]

\* readerMenuDraggingProgress: the slider's value is in 0..1
DragToChapter(c) ==
  /\ InMenu
  /\ ProgressIsChapter
  /\ LET l == PagedFor(c, At(c, book.pg)).lay
     IN  MoveTo(l, At(c, IF c = LastChapter THEN Count(l, c) - 1 ELSE 0))

DragToPage(pg) ==
  /\ InMenu
  /\ ~ProgressIsChapter
  /\ MoveTo(lay, At(book.ch, pg))

\* goToChapter: nothing is saved and the start location stays that of the page
\* left. The chapter list asks for page 0 of another chapter, or for the page of
\* a second-level entry of this one.
GoToChapter(c, pg) ==
  /\ InMenu
  /\ LET q == PagedFor(c, At(c, pg))
         p == Presented(q.lay, q.book, style, mode)
     IN  IF shared /\ OnPage(p.lay, p.book)
         THEN Rebuild(p, p.book, style, mode) /\ UNCHANGED <<config, saved>>
         ELSE Crash /\ UNCHANGED saved

ListTargets ==
  {pl \in [ch : Chapters, pg : 0..Count(lay, book.ch)] :
     IF pl.ch = book.ch THEN pl.pg < Count(lay, book.ch) /\ pl.pg # book.pg
     ELSE pl.pg = 0}

\* Mutant of Forced: only the chapter that is read is marked.
ForcedCurrent(l) == [l EXCEPT ![book.ch].force = TRUE]

\* forceUpdateReader marks the chapters to be paged again.
Forced(l) == [c \in Chapters |-> [by |-> l[c].by, force |-> TRUE]]

\* forceUpdateReader, then WLBookConfig.save
ChangeSetting(s, m) ==
  /\ InMenu
  /\ s = style \/ m = mode
  /\ LET p == Presented(Forced(lay), book, s, m)
     IN  IF shared /\ OnPage(p.lay, p.book)
         THEN /\ Rebuild(p, p.book, s, m)
              /\ config' = [style |-> s, mode |-> m]
              /\ UNCHANGED saved
         ELSE Crash /\ UNCHANGED saved

--------------------------------------------------------------------------------
(***************************************************************************)
(* Scrolling                                                               *)
(***************************************************************************)

\* willDisplay of a row pages the chapters beside the recorded one that have no
\* pages (getNextChapterPages, getPreviousChapterPages).
RowDisplayed ==
  LET beside == {c \in {book.ch - 1, book.ch + 1} \cap Chapters : Count(lay, c) = 0}
  IN  /\ phase = "reading"
      /\ mode = "scroll"
      /\ lay' = LayOut(lay, style, beside)
      /\ UNCHANGED <<phase, style, mode, config, book, shown, turn, blocks, shared,
                     saved>>

\* A drag or a deceleration ends with row pg of section c at the edge: its
\* record is sent to the global queue, and the top bar reads the current page.
ScrollEnd(c, pg) ==
  /\ phase = "reading"
  /\ mode = "scroll"
  /\ HasPage(lay, c, pg)
  /\ IF shared /\ OnPage(lay, book)
     THEN /\ shown'  = [ch |-> c, pg |-> pg]
          /\ \E id \in 1..MaxBlocks :
               /\ {x.id : x \in blocks} \cap 1..id = 1..id - 1
               /\ blocks' = blocks \cup {[id |-> id, ch |-> c, pg |-> pg, at |-> "chapter",
                                         alive |-> TRUE, start |-> 0, row |-> NoRow]}
          /\ UNCHANGED <<phase, lay, style, mode, config, book, turn, shared, saved>>
     ELSE Crash /\ UNCHANGED saved

(* The block of updateReadRecord runs on the global queue without a lock: any  *)
(* step of the main thread, and of another record, may come between two of its *)
(* statements, and each statement asks anew whether the controller lives.      *)

Becomes(x, y) == blocks' = (blocks \ {x}) \cup {y}

\* self?.bookModel.f = ...: b is the model with the new value
Assign(x, b, next) ==
  /\ book' = b
  /\ Becomes(x, [x EXCEPT !.at = next])
  /\ UNCHANGED <<phase, lay, style, mode, config, shown, turn, shared, saved>>

Assignment(x) ==
  \/ x.at = "chapter" /\ Assign(x, [book EXCEPT !.ch = x.ch], "page")
  \/ x.at = "page"    /\ Assign(x, [book EXCEPT !.pg = x.pg], "lookup")
  \/ x.at = "start"   /\ Assign(x, [book EXCEPT !.start = x.start], "save")

\* The chapter of the row; it is kept from here on.
TakeChapter(x) ==
  /\ x.at = "lookup"
  /\ Becomes(x, [x EXCEPT !.at = "pages"])
  /\ UNCHANGED <<phase, lay, style, mode, config, book, shown, turn, shared, saved>>

\* The page of the row, in the pages that the chapter has now
TakePage(x) ==
  /\ x.at \in {"pages", "fault"}
  /\ IF x.at = "pages" /\ HasPage(lay, x.ch, x.pg)
     THEN /\ Becomes(x, IF x.alive
                        THEN [x EXCEPT !.start = StartOf(lay, x.ch, x.pg), !.at = "start"]
                        ELSE Last(x))
          /\ UNCHANGED <<phase, lay, style, mode, config, book, shown, turn, shared>>
     ELSE Crash
  /\ UNCHANGED saved

\* self?.bookModel.save(): the row is read from the model, and then written.
ReadRow(x) ==
  /\ x.at = "save"
  /\ Becomes(x, [x EXCEPT !.row = RowOf(book), !.at = "write"])
  /\ UNCHANGED <<phase, lay, style, mode, config, book, shown, turn, shared, saved>>

WriteRow(x) ==
  /\ x.at = "write"
  /\ saved' = x.row
  /\ Becomes(x, Last(x))
  /\ UNCHANGED <<phase, lay, style, mode, config, book, shown, turn, shared>>

\* Without its controller the block stores nil as the shared book model.
Share(x) ==
  /\ x.at = "share"
  /\ shared' = x.alive
  /\ blocks' = blocks \ {x}
  /\ UNCHANGED <<phase, lay, style, mode, config, book, shown, turn, saved>>

RunBlock(x) == Assignment(x) \/ TakeChapter(x) \/ TakePage(x) \/ ReadRow(x)
               \/ WriteRow(x) \/ Share(x)

--------------------------------------------------------------------------------
Turning == (\E t \in NextTarget \cup PreviousTarget : TurnBegin(t))
           \/ TurnFinish \/ TurnCancel

Restyling == \E s \in Styles, m \in Modes : ChangeSetting(s, m)

Navigating ==
  \/ NextPage \/ PreviousPage \/ NextChapter \/ PreviousChapter
  \/ \E c \in Chapters : DragToChapter(c)
  \/ \E pg \in 0..Count(lay, book.ch) - 1 : DragToPage(pg)
  \/ \E pl \in ListTargets : GoToChapter(pl.ch, pl.pg)

Scrolling ==
  \/ RowDisplayed
  \/ \E c \in Chapters : \E pg \in 0..Count(lay, c) - 1 : ScrollEnd(c, pg)
  \/ \E x \in blocks : RunBlock(x)

Next == Open \/ Back \/ Kill \/ (\E fin \in BOOLEAN : MarkFinished(fin)) \/ Turning \/ Restyling
        \/ Navigating \/ Scrolling

Spec == Init /\ [][Next]_vars
--------------------------------------------------------------------------------
(***************************************************************************)
(* Properties                                                              *)
(***************************************************************************)

\* Type invariant. A page index in the state is never negative: every path that
\* computes pages.count - 1 for a chapter without pages ends the process first.
TypeOK ==
  /\ phase \in {"closed", "reading", "crashed"}
  /\ lay \in [Chapters -> [by : Styles \cup {NoStyle}, force : BOOLEAN]]
  /\ style \in Styles
  /\ mode \in Modes
  /\ config \in [style : Styles, mode : Modes]
  /\ book \in Books
  /\ shown \in Places
  /\ turn \in [on : BOOLEAN, ch : Chapters, pg : Nat]
  /\ blocks \subseteq Records
  /\ shared \in BOOLEAN
  /\ saved \in Rows

\* A chapter that can be read and has text
HasText(c) == c \notin Unreadable /\ TextLength[c] > 0

\* Chapter c has the pages the settings ask for, and none is due.
UpToDate(c) == c \in Unreadable \/ lay[c] = [by |-> style, force |-> FALSE]

\* A chapter that keeps the pages of other settings is marked to be paged again:
\* forceUpdateReader marks every chapter, not only the one that is read.
StalePagesAreMarked ==
  \A c \in Chapters : lay[c].by \in {NoStyle, style} \/ lay[c].force

\* The pages of the current chapter and of its neighbours follow the settings
\* whenever a paged view shows them, also the neighbours of the page that turns
\* in: getNextModel and getPreviousModel only look at pages.count, so a stale
\* neighbour would send the reader to a page of the old layout.
NeighboursUpToDate ==
  phase = "reading" /\ mode = "page" =>
    /\ \A c \in Around(book.ch) : UpToDate(c)
    /\ turn.on => \A c \in Around(turn.ch) : UpToDate(c)

\* The page on the screen is the page of the container's model, except for the
\* scroll view, whose record comes later.
ScreenShowsBook ==
  phase = "reading" /\ mode = "page" => shown = PlaceOf(book) /\ OnPage(lay, book)

\* The place after pl when the settings are those of style s
PlaceAfter(s, pl) ==
  IF pl.pg + 1 < PageCount(s, pl.ch) THEN [ch |-> pl.ch, pg |-> pl.pg + 1]
  ELSE [ch |-> pl.ch + 1, pg |-> 0]

\* A record of the scroll view that still finds its controller finds the view on
\* the screen, and one that does not has no assignment to the model left: a record
\* can never move the model under a paged view.
RecordsAreOfTheView ==
  \A x \in blocks : IF x.alive THEN phase = "reading" /\ mode = "scroll"
                    ELSE x.at \in {"pages", "fault", "write", "share"}

\* A chapter whose file cannot be read never has pages.
UnreadableHasNoPages == \A c \in Unreadable : lay[c].by = NoStyle

\* The page that is being turned in is the one before or after the page of the
\* model, and it exists unless its chapter has no text.
TurnIsBeside ==
  turn.on =>
    /\ phase = "reading" /\ mode = "page"
    /\ \/ PlaceOf(turn) = PlaceAfter(style, PlaceOf(book))
       \/ PlaceOf(book) = PlaceAfter(style, PlaceOf(turn))
    /\ OnPage(lay, turn) \/ ~HasText(turn.ch)

\* The inductive invariant of the session
SessionInv ==
  /\ TypeOK
  /\ StalePagesAreMarked
  /\ NeighboursUpToDate
  /\ ScreenShowsBook
  /\ RecordsAreOfTheView
  /\ UnreadableHasNoPages
  /\ TurnIsBeside

\* A page turn moves the screen by exactly one page of the book, in either
\* direction and across chapters, or (cancelled) by none.
TurnMovesOnePage ==
  [][turn.on /\ ~turn'.on /\ phase' = "reading" =>
       \/ shown' = shown
       \/ shown' = PlaceAfter(style, shown)
       \/ shown = PlaceAfter(style, shown')]_vars

\* The buttons for the page after and the page before show a page beside the one on the
\* screen, across chapters too. Only the button for the page after passes over a page,
\* the last one of a chapter, from the page before it (readerMenuNextEvent).
ButtonsMoveOnePage ==
  [][mode = "page" /\ phase' = "reading" /\ (NextPage \/ PreviousPage) =>
       \/ shown' = PlaceAfter(style, shown)
       \/ shown = PlaceAfter(style, shown')
       \/ /\ shown.pg + 2 = PageCount(style, shown.ch)
          /\ shown' = [ch |-> shown.ch + 1, pg |-> 0]]_vars

\* The end of a turn records the page on the screen: the row of the database has
\* its chapter, its index and the location where it starts.
TurnSavesShownPage ==
  [][turn.on /\ ~turn'.on /\ phase' = "reading" =>
       /\ PlaceOf(saved') = shown'
       /\ saved'.start = PageStarts[style][shown'.ch][shown'.pg + 1]]_vars

\* Asking for the page before or after, and turning to it, ends the process only
\* at a chapter without pages: one that cannot be read or has no text.
TurnCrashesOnlyAtEmptyChapter ==
  [][phase' = "crashed" /\ Turning =>
       \E c \in {book.ch - 1, book.ch, book.ch + 1} \cap Chapters : ~HasText(c)]_vars

\* A record or model whose location tells its page: the location is in the text
\* of the chapter, and location 0 goes with the first page.
Locates(b) ==
  /\ HasText(b.ch)
  /\ b.start < TextLength[b.ch]
  /\ b.start = 0 => b.pg = 0

\* The page of chapter c that has location loc, under style s
PageOf(s, c, loc) ==
  CHOOSE p \in 0..PageCount(s, c) - 1 :
    /\ PageStarts[s][c][p + 1] <= loc
    /\ p + 1 < PageCount(s, c) => loc < PageStarts[s][c][p + 2]

\* The place is kept by location, not by page index: opening the book, and a
\* change of the settings in a paged view, show the page that now holds the
\* location that was read, whatever the layout was when it was recorded.
RelayoutKeepsPlace ==
  /\ [][Open /\ ~saved'.fin /\ Locates(saved')
        => /\ phase' = "reading"
           /\ book'.ch = saved'.ch
           /\ book'.pg = PageOf(style', saved'.ch, saved'.start)]_vars
  /\ [][shared /\ Locates(book) /\ (\E s \in Styles : ChangeSetting(s, "page"))
        => /\ phase' = "reading"
           /\ book'.ch = book.ch
           /\ book'.pg = PageOf(style', book.ch, book.start)]_vars

\* In a paged view the menu, the slider, the chapter list and the settings end the process
\* only where the chapter asked for has no text, where the index of the page asked for is
\* not one of the chapter left (from which the location is read), where the slider is drawn
\* to the end and counts the pages of the last chapter before they follow the settings, and
\* where the model does not locate its page. No other operation takes a count or an index
\* of an old layout for one of the new.
MenuCrashesForAReason ==
  [][phase = "reading" /\ mode = "page" /\ shared /\ phase' = "crashed" =>
       /\ NextPage \/ NextChapter => ~HasText(book.ch + 1)
       /\ PreviousChapter => ~HasText(book.ch - 1)
       /\ PreviousPage => \/ ~HasText(book.ch - 1)
                          \/ PageCount(style, book.ch - 1) > PageCount(style, book.ch)
       /\ \A c \in Chapters : DragToChapter(c) =>
            \/ ~HasText(c)
            \/ PageCount(style, c) > PageCount(style, book.ch)
            \/ c = LastChapter /\ ~UpToDate(c)
       /\ ~ \E pg \in 0..Count(lay, book.ch) - 1 : DragToPage(pg)
       /\ \A pl \in ListTargets : GoToChapter(pl.ch, pl.pg) => ~HasText(pl.ch)
       /\ Restyling => ~Locates(book)]_vars

\* In a book of one chapter with text, where no chapter can be missing or empty, the process ends
\* for four reasons only: a record of a scroll view that has gone has cleared the shared model, or
\* takes a page of the chapter that was paged again meanwhile; or the location is not one of the
\* page, in the model (after a jump, or between two statements of a record) or in the row.
EndsForAReason ==
  [][phase' = "crashed" /\ phase # "crashed" =>
       \/ phase = "reading" /\ ~shared
       \/ \E x \in blocks : x.at \in {"pages", "fault"} /\ ~x.alive
       \/ phase = "reading" /\ ~Locates(book)
       \/ phase = "closed" /\ ~Locates(saved)]_vars

(***************************************************************************)
(* What a comment of the code says and the code does not do.               *)
(***************************************************************************)

\* "Jump to the given chapter": an entry of the chapter list shows the page it
\* names. The jump leaves the start location of the page before it in the model,
\* and paging the target then takes it for a location of the target.
JumpShowsTarget ==
  [][\A pl \in ListTargets :
       GoToChapter(pl.ch, pl.pg) /\ phase' = "reading" => shown' = pl]_vars
================================================================================
