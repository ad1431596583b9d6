------------------------- MODULE ReadContainerProofs -------------------------
(***************************************************************************)
(* Theorems of ReadContainer, for every book, every layout and any number  *)
(* of records of the scroll view. The lemmas on the helpers come first,    *)
(* then the types, then the invariants in the order they rest on another.  *)
(***************************************************************************)
EXTENDS ReadContainer, TLAPS

\* The pages of every chapter
Layouts == [Chapters -> [by : Styles \cup {NoStyle}, force : BOOLEAN]]

\* A book model before its page index has been tested against the pages
Positions == [ch : Chapters, pg : Int, start : Nat]

\* The statements of a record that do not assign to the model
Finishing == {"pages", "fault", "write", "share"}

--------------------------------------------------------------------------------
(***************************************************************************)
(* Helpers                                                                 *)
(***************************************************************************)

\* The page count of a chapter is a natural number (pages.count).
LEMMA CountType ==
  ASSUME NEW l \in Layouts, NEW c \in Chapters
  PROVE  Count(l, c) \in Nat
<1>1. CASE l[c].by = NoStyle
  BY <1>1 DEF Count
<1>2. CASE l[c].by # NoStyle
  <2>1. l[c].by \in Styles
    BY <1>2 DEF Layouts
  <2>2. PageStarts[l[c].by][c] \in Seq(Nat)
    BY <2>1, LayoutAssumption
  <2> QED
    BY <1>2, <2>2 DEF Count, PageCount
<1> QED
  BY <1>1, <1>2

\* A page that exists starts at a location of the text.
LEMMA StartType ==
  ASSUME NEW l \in Layouts, NEW c \in Chapters, NEW pg \in Int, HasPage(l, c, pg)
  PROVE  pg \in Nat /\ StartOf(l, c, pg) \in Nat
<1>1. pg \in Nat /\ pg < Count(l, c)
  BY DEF HasPage
<1>2. l[c].by \in Styles /\ Count(l, c) = PageCount(l[c].by, c)
  BY <1>1 DEF Layouts, Count
<1>3. PageStarts[l[c].by][c] \in Seq(Nat)
  BY <1>2, LayoutAssumption
<1> QED
  BY <1>1, <1>2, <1>3 DEF PageCount, StartOf

\* Paging chapters leaves pages for every chapter (WLBookChapter.paging).
LEMMA LayOutType ==
  ASSUME NEW l \in Layouts, NEW s \in Styles, NEW C
  PROVE  LayOut(l, s, C) \in Layouts
BY DEF Layouts, LayOut

\* The chapters that are paged around a chapter are chapters of the book.
LEMMA AroundType ==
  ASSUME NEW c \in Chapters
  PROVE  c - 1 \in Int /\ c + 1 \in Int /\ Around(c) \subseteq Chapters /\ c \in Around(c)
BY BookAssumption DEF Chapters, Around, DefaultPaging

\* At most two pages hold a location, and they are neighbours: the last of
\* them is well defined.
LEMMA LastPageAround ==
  ASSUME NEW s \in Styles, NEW c \in Chapters, NEW loc \in Nat,
         PagesAround(s, c, loc) # {}
  PROVE  /\ LastOf(PagesAround(s, c, loc)) \in PagesAround(s, c, loc)
         /\ \A q \in PagesAround(s, c, loc) : q <= LastOf(PagesAround(s, c, loc))
<1> DEFINE P == PagesAround(s, c, loc)
           starts == PageStarts[s][c]
           n == PageCount(s, c)
<1>1. /\ starts \in Seq(Nat) /\ n = Len(starts) /\ n \in Nat
      /\ \A i, j \in 1..n : i < j => starts[i] < starts[j]
  BY LayoutAssumption DEF PageCount
<1>2. \A i \in 1..n : starts[i] \in Nat
  BY <1>1
<1>3. TextLength[c] \in Nat
  BY BookAssumption
<1>4. PICK p \in P : TRUE
  OBVIOUS
<1>5. \A q \in P : q \in Int /\ q <= p + 1
  <2> TAKE q \in P
  <2>1. /\ p \in 0..n - 1 /\ q \in 0..n - 1
        /\ starts[q + 1] <= loc
        /\ p + 1 # n => loc <= starts[p + 2]
    BY <1>4 DEF PagesAround
  <2>2. q \in Int /\ p \in Int
    BY <2>1
  <2>3. CASE q > p + 1
    <3>1. p + 1 # n /\ p + 2 \in 1..n /\ q + 1 \in 1..n /\ p + 2 < q + 1
      BY <2>1, <2>3, <1>1
    <3>2. starts[p + 2] < starts[q + 1]
      BY <3>1, <1>1
    <3>3. starts[p + 2] \in Nat /\ starts[q + 1] \in Nat
      BY <3>1, <1>2
    <3> HIDE DEF starts, n
    <3> QED
      BY <2>1, <3>1, <3>2, <3>3
  <2> QED
    BY <2>2, <2>3
<1>6. \E m \in P : \A q \in P : q <= m
  <2>1. CASE p + 1 \in P
    BY <2>1, <1>5
  <2>2. CASE p + 1 \notin P
    <3>1. \A q \in P : q <= p
      BY <2>2, <1>4, <1>5
    <3> QED
      BY <3>1, <1>4
  <2> QED
    BY <2>1, <2>2
<1> QED
  BY <1>6 DEF LastOf

\* Laying out chapters moves at most the page index of a model.
LEMMA RepagedType ==
  ASSUME NEW l \in Layouts, NEW s \in Styles, NEW b \in Positions, NEW C
  PROVE  /\ Repaged(l, s, b, C) \in Positions
         /\ Repaged(l, s, b, C).ch = b.ch
         /\ Repaged(l, s, b, C).start = b.start
<1> DEFINE hits == PagesAround(s, b.ch, b.start)
<1>1. CASE hits # {}
  <2>1. LastOf(hits) \in hits
    BY <1>1, LastPageAround DEF Positions
  <2>2. LastOf(hits) \in Int
    <3> DEFINE k == LastOf(hits)
    <3>1. k \in PagesAround(s, b.ch, b.start)
      BY <2>1
    <3> HIDE DEF k, hits
    <3>2. k \in Int
      BY <3>1 DEF PagesAround
    <3> QED
      BY <3>2 DEF k
  <2> HIDE DEF hits
  <2> QED
    BY <1>1, <2>2 DEF Repaged, Positions, hits
<1>2. CASE hits = {}
  BY <1>2 DEF Repaged
<1> QED
  BY <1>1, <1>2

\* What a new view shows is a model of the same chapter and location.
LEMMA PresentedType ==
  ASSUME NEW l \in Layouts, NEW b \in Positions, NEW s \in Styles, NEW m \in Modes
  PROVE  /\ Presented(l, b, s, m).lay \in Layouts
         /\ Presented(l, b, s, m).book \in Positions
         /\ Presented(l, b, s, m).book.ch = b.ch
         /\ Presented(l, b, s, m).book.start = b.start
BY LayOutType, RepagedType DEF Presented

\* A model whose page exists is a book model.
LEMMA PositionOnPage ==
  ASSUME NEW l \in Layouts, NEW b \in Positions, OnPage(l, b)
  PROVE  b \in Books /\ PlaceOf(b) \in Places /\ StartOf(l, b.ch, b.pg) \in Nat
<1>1. b.ch \in Chapters /\ b.pg \in Int /\ HasPage(l, b.ch, b.pg)
  BY DEF Positions, OnPage
<1>2. b.pg \in Nat /\ StartOf(l, b.ch, b.pg) \in Nat
  BY <1>1, StartType
<1> QED
  BY <1>2 DEF Positions, Books, Places, PlaceOf

--------------------------------------------------------------------------------
(***************************************************************************)
(* Types                                                                   *)
(***************************************************************************)

\* A step that leaves the row of the database leaves it a row.
LEMMA SavedType ==
  ASSUME TypeOK, UNCHANGED saved
  PROVE  saved' \in Rows
BY DEF TypeOK

\* The end of the process leaves a well-typed state, whatever it lost.
LEMMA CrashType ==
  ASSUME TypeOK, NEW ph \in {"closed", "reading", "crashed"}, ProcessEnds(ph),
         saved' \in Rows
  PROVE  TypeOK'
<1>1. 0 \in Chapters
  BY BookAssumption DEF Chapters
<1>2. lay' \in [Chapters -> [by : Styles \cup {NoStyle}, force : BOOLEAN]]
  BY DEF ProcessEnds, Unpaged
<1>3. book' \in Books /\ shown' \in Places
  BY <1>1 DEF ProcessEnds, FrontPage, PlaceOf, Books, Places
<1>4. turn' \in [on : BOOLEAN, ch : Chapters, pg : Nat]
  BY <1>1 DEF ProcessEnds, NoTurn
<1>5. style' \in Styles /\ mode' \in Modes /\ config' \in [style : Styles, mode : Modes]
  BY DEF ProcessEnds, TypeOK
<1> QED
  BY <1>2, <1>3, <1>4, <1>5 DEF ProcessEnds, TypeOK

\* What is left of a record at the statement that sets the shared model
LEMMA LastType ==
  ASSUME NEW x \in Records
  PROVE  Last(x) \in Records /\ Last(x).at = "share" /\ Last(x).alive = x.alive
<1>1. 0 \in Chapters
  BY BookAssumption DEF Chapters
<1>2. NoRow \in Rows
  BY <1>1 DEF NoRow, Rows
<1> QED
  BY <1>1, <1>2 DEF Last, Records, Statements

\* A record whose controller is gone stays a record, it is not alive, and it has no
\* assignment to the model left.
LEMMA OrphanedType ==
  ASSUME NEW B, B \subseteq Records
  PROVE  /\ Orphaned(B) \subseteq Records
         /\ \A x \in Orphaned(B) : ~x.alive /\ x.at \in Finishing
<1> SUFFICES ASSUME NEW x \in Orphaned(B)
             PROVE  x \in Records /\ ~x.alive /\ x.at \in Finishing
  OBVIOUS
<1>1. PICK y \in B : x = [(IF y.at \in {"pages", "fault", "write"} THEN y ELSE Last(y))
                         EXCEPT !.alive = FALSE]
  BY DEF Orphaned
<1> DEFINE z == IF y.at \in {"pages", "fault", "write"} THEN y ELSE Last(y)
<1>2. z \in Records /\ z.at \in Finishing
  BY LastType DEF Finishing
<1>3. x = [z EXCEPT !.alive = FALSE]
  BY <1>1
<1> HIDE DEF z
<1> QED
  BY <1>2, <1>3 DEF Records

\* What Back leaves of the records
LEMMA KeptType ==
  ASSUME NEW x \in Records, ~x.alive, x.at \in Finishing
  PROVE  Kept(x) \in Records /\ ~Kept(x).alive /\ Kept(x).at \in Finishing
<1>1. CASE x.at # "pages"
  BY <1>1 DEF Kept
<1>2. CASE x.at = "pages" /\ HasPage(lay, x.ch, x.pg)
  BY <1>2, LastType DEF Kept, Finishing
<1>3. CASE x.at = "pages" /\ ~HasPage(lay, x.ch, x.pg)
  BY <1>3 DEF Kept, Records, Statements, Finishing
<1> QED
  BY <1>1, <1>2, <1>3

\* What the menu and the list move to is a page of the book.
LEMMA RebuildType ==
  ASSUME TypeOK, NEW s \in Styles, NEW m \in Modes,
         NEW l \in Layouts, NEW b \in Positions, NEW b1 \in Books,
         Rebuild(Presented(l, b, s, m), b1, s, m),
         config' \in [style : Styles, mode : Modes],
         saved' \in Rows
  PROVE  TypeOK'
<1>1. Presented(l, b, s, m).lay \in Layouts
  BY PresentedType
<1>2. PlaceOf(b1) \in Places
  BY DEF PlaceOf, Places, Books
<1>3. blocks' \subseteq Records
  BY OrphanedType DEF TypeOK, Rebuild
<1>4. lay' \in [Chapters -> [by : Styles \cup {NoStyle}, force : BOOLEAN]]
  BY <1>1 DEF Rebuild, Layouts
<1>5. /\ style' = s /\ mode' = m /\ book' = b1 /\ shown' = PlaceOf(b1)
      /\ UNCHANGED <<phase, turn, shared>>
  BY DEF Rebuild
<1> QED
  BY <1>2, <1>3, <1>4, <1>5 DEF TypeOK

\* The common end of the handlers of the menu keeps the types.
LEMMA MoveToType ==
  ASSUME TypeOK, NEW l \in Layouts, NEW b \in Positions, MoveTo(l, b)
  PROVE  TypeOK'
<1> DEFINE p == Presented(l, b, style, mode)
<1>1. style \in Styles /\ mode \in Modes /\ book.ch \in Chapters
  BY DEF TypeOK, Books
<1>2. p.lay \in Layouts /\ p.book \in Positions
  BY <1>1, PresentedType
<1>3. CASE shared /\ OnPage(p.lay, p.book) /\ HasPage(p.lay, book.ch, p.book.pg)
  <2> DEFINE b1 == [p.book EXCEPT !.start = StartOf(p.lay, book.ch, p.book.pg)]
  <2>1. /\ Rebuild(p, b1, style, mode)
        /\ saved' = RowOf(b1)
        /\ UNCHANGED config
    BY <1>3 DEF MoveTo
  <2>2. p.book \in Books
    BY <1>2, <1>3, PositionOnPage
  <2>3. StartOf(p.lay, book.ch, p.book.pg) \in Nat
    BY <1>1, <1>2, <1>3, StartType DEF Positions
  <2>4. b1 \in Books
    BY <2>2, <2>3 DEF Books
  <2>5. saved' \in Rows
    BY <2>1, <2>4 DEF RowOf, Books, Rows
  <2>6. config' \in [style : Styles, mode : Modes]
    BY <2>1 DEF TypeOK
  <2> QED
    BY <1>1, <2>1, <2>4, <2>5, <2>6, RebuildType
<1>4. CASE ~(shared /\ OnPage(p.lay, p.book) /\ HasPage(p.lay, book.ch, p.book.pg))
  BY <1>4, CrashType, SavedType DEF MoveTo, Crash
<1> QED
  BY <1>3, <1>4

\* The end of a page turn keeps the types.
LEMMA SettleType ==
  ASSUME TypeOK, NEW pl \in Places, Settle(pl)
  PROVE  TypeOK'
<1>1. CASE OnPage(lay, pl)
  <2>1. StartOf(lay, pl.ch, pl.pg) \in Nat
    BY <1>1, StartType DEF OnPage, Places, TypeOK, Layouts
  <2> DEFINE b == [ch |-> pl.ch, pg |-> pl.pg, start |-> StartOf(lay, pl.ch, pl.pg)]
  <2>2. b \in Books
    BY <2>1 DEF Places, Books
  <2>3. /\ book' = b /\ shown' = pl /\ turn' = NoTurn /\ shared' = TRUE
        /\ saved' = RowOf(b)
        /\ UNCHANGED <<phase, lay, style, mode, config, blocks>>
    BY <1>1 DEF Settle
  <2>4. saved' \in Rows
    BY <2>2, <2>3 DEF RowOf, Books, Rows
  <2>5. turn' \in [on : BOOLEAN, ch : Chapters, pg : Nat]
    BY <2>3, BookAssumption DEF NoTurn, Chapters
  <2> HIDE DEF b
  <2> QED
    BY <2>2, <2>3, <2>4, <2>5 DEF TypeOK
<1>2. CASE ~OnPage(lay, pl)
  BY <1>2, CrashType, SavedType DEF Settle, Crash
<1> QED
  BY <1>1, <1>2

\* The model a book is opened with is a place of the book.
LEMMA OpenedType ==
  ASSUME TypeOK
  PROVE  /\ LayOut(Unpaged, config.style, {ReadModel.ch}) \in Layouts
         /\ OpenedModel \in Positions
<1>1. ReadModel \in Positions /\ ReadModel.ch \in Chapters
  BY BookAssumption DEF TypeOK, Rows, ReadModel, Positions, FrontPage, Chapters
<1>2. Unpaged \in Layouts /\ config.style \in Styles
  BY DEF Unpaged, Layouts, TypeOK
<1>3. LayOut(Unpaged, config.style, {ReadModel.ch}) \in Layouts
  BY <1>2, LayOutType
<1>4. Repaged(Unpaged, config.style, ReadModel, {ReadModel.ch}) \in Positions
  BY <1>1, <1>2, RepagedType
<1>5. Count(LayOut(Unpaged, config.style, {ReadModel.ch}), ReadModel.ch) \in Nat
  BY <1>1, <1>3, CountType
<1>6. LastChapter \in Chapters
  BY BookAssumption DEF Chapters
<1> QED
  BY <1>3, <1>4, <1>5, <1>6 DEF OpenedModel, Positions

\* A page turn in either direction asks for a chapter of the book.
LEMMA TargetType ==
  ASSUME TypeOK, NEW t \in NextTarget \cup PreviousTarget
  PROVE  t.ch \in Chapters /\ t.pg \in Int
<1>1. /\ book.ch \in Int /\ 0 <= book.ch /\ book.ch <= LastChapter /\ LastChapter \in Nat
      /\ book.pg \in Nat
  BY BookAssumption DEF TypeOK, Books, Chapters
<1>2. CASE t \in NextTarget
  BY <1>1, <1>2 DEF NextTarget, TypeOK, Books, Chapters
<1>3. CASE t \in PreviousTarget
  <2>1. CASE book.pg <= 0
    <3> DEFINE c == book.ch - 1
               l == IF Count(lay, c) = 0 THEN LayOut(lay, style, {c}) ELSE lay
    <3>1. book.ch > 0 /\ c \in Chapters /\ t.ch = c /\ t.pg = Count(l, c) - 1
      BY <1>1, <1>3, <2>1 DEF PreviousTarget, Chapters
    <3>2. l \in Layouts
      BY LayOutType DEF TypeOK, Layouts
    <3> QED
      BY <3>1, <3>2, CountType
  <2>2. CASE ~(book.pg <= 0)
    BY <1>1, <1>3, <2>2 DEF PreviousTarget, TypeOK, Books, Chapters
  <2> QED
    BY <2>1, <2>2
<1> QED
  BY <1>2, <1>3

\* What the handlers of the menu and the list ask for is a place of the book.
LEMMA AtType ==
  ASSUME TypeOK, NEW c \in Chapters, NEW pg \in Int
  PROVE  /\ At(c, pg) \in Positions
         /\ PagedFor(c, At(c, pg)).lay \in Layouts
         /\ PagedFor(c, At(c, pg)).book \in Positions
<1>1. At(c, pg) \in Positions
  BY DEF At, TypeOK, Books, Positions
<1>2. lay \in Layouts /\ style \in Styles
  BY DEF TypeOK, Layouts
<1> QED
  BY <1>1, <1>2, LayOutType, RepagedType DEF PagedFor

\* The fields of a page asked for
LEMMA AtFields ==
  ASSUME TypeOK, NEW c \in Chapters, NEW pg \in Int
  PROVE  At(c, pg) \in Positions /\ At(c, pg).ch = c /\ At(c, pg).pg = pg
<1>1. book \in Books
  BY DEF TypeOK
<1> QED
  BY <1>1 DEF At, Books, Positions

\* The buttons and the slider end in the common end of their handlers, the list does not.
LEMMA NavigatingMoves ==
  ASSUME TypeOK, Navigating
  PROVE  \/ \E l \in Layouts, b \in Positions : MoveTo(l, b)
         \/ \E pl \in ListTargets : GoToChapter(pl.ch, pl.pg)
<1>0. /\ lay \in Layouts /\ book.ch \in Chapters /\ book.pg \in Nat /\ LastChapter \in Nat
  BY BookAssumption DEF TypeOK, Layouts, Books
<1>1. ASSUME NextPage PROVE \E l \in Layouts, b \in Positions : MoveTo(l, b)
  <2>1. book.ch < LastChapter => book.ch + 1 \in Chapters
    BY <1>0 DEF Chapters
  <2> QED
    BY <1>0, <1>1, <2>1, AtType DEF NextPage
<1>2. ASSUME PreviousPage PROVE \E l \in Layouts, b \in Positions : MoveTo(l, b)
  <2>1. book.ch > 0 => book.ch - 1 \in Chapters /\ Count(lay, book.ch - 1) - 1 \in Int
    BY <1>0, CountType DEF Chapters
  <2> QED
    BY <1>0, <1>2, <2>1, AtType DEF PreviousPage
<1>3. ASSUME NextChapter PROVE \E l \in Layouts, b \in Positions : MoveTo(l, b)
  <2>1. book.ch < LastChapter => book.ch + 1 \in Chapters
    BY <1>0 DEF Chapters
  <2> QED
    BY <1>0, <1>3, <2>1, AtType DEF NextChapter
<1>4. ASSUME PreviousChapter PROVE \E l \in Layouts, b \in Positions : MoveTo(l, b)
  <2>1. book.ch > 0 => book.ch - 1 \in Chapters
    BY <1>0 DEF Chapters
  <2> QED
    BY <1>0, <1>4, <2>1, AtType DEF PreviousChapter
<1>5. ASSUME NEW c \in Chapters, DragToChapter(c)
      PROVE  \E l \in Layouts, b \in Positions : MoveTo(l, b)
  <2> DEFINE l == PagedFor(c, At(c, book.pg)).lay
  <2>1. l \in Layouts
    BY <1>0, AtType
  <2>2. (IF c = LastChapter THEN Count(l, c) - 1 ELSE 0) \in Int
    BY <2>1, CountType
  <2> QED
    BY <1>5, <2>1, <2>2, AtType DEF DragToChapter
<1>6. ASSUME NEW pg \in 0..Count(lay, book.ch) - 1, DragToPage(pg)
      PROVE  \E l \in Layouts, b \in Positions : MoveTo(l, b)
  BY <1>0, <1>6, AtType DEF DragToPage
<1> QED
  BY <1>1, <1>2, <1>3, <1>4, <1>5, <1>6 DEF Navigating

\* The record that ScrollEnd sends
NewRecord(id, c, pg) ==
  [id |-> id, ch |-> c, pg |-> pg, at |-> "chapter", alive |-> TRUE, start |-> 0, row |-> NoRow]

\* It is a record.
LEMMA NewRecordType ==
  ASSUME NEW id \in 1..MaxBlocks, NEW c \in Chapters, NEW pg \in Nat
  PROVE  NewRecord(id, c, pg) \in Records
<1>1. NoRow \in Rows
  BY BookAssumption DEF NoRow, Rows, Chapters
<1> QED
  BY <1>1 DEF NewRecord, Records, Statements

\* Every statement of a record keeps the types (updateReadRecord).
LEMMA RunBlockType ==
  ASSUME TypeOK, NEW x \in blocks, RunBlock(x)
  PROVE  TypeOK'
<1>1. /\ x \in Records /\ blocks \subseteq Records /\ book \in Books
      /\ x.ch \in Chapters /\ x.pg \in Nat /\ x.start \in Nat /\ x.row \in Rows
      /\ lay \in Layouts
  BY DEF TypeOK, Records, Layouts
<1>2. ASSUME NEW y \in Records, Becomes(x, y) PROVE blocks' \subseteq Records
  BY <1>1, <1>2 DEF Becomes
<1>3. ASSUME NEW b \in Books, NEW next \in Statements, Assign(x, b, next) PROVE TypeOK'
  <2>1. [x EXCEPT !.at = next] \in Records
    BY <1>1 DEF Records
  <2>2. blocks' \subseteq Records
    BY <1>2, <1>3, <2>1 DEF Assign
  <2> QED
    BY <1>3, <2>2 DEF Assign, TypeOK
<1>4. CASE Assignment(x)
  <2>1. /\ [book EXCEPT !.ch = x.ch] \in Books
        /\ [book EXCEPT !.pg = x.pg] \in Books
        /\ [book EXCEPT !.start = x.start] \in Books
    BY <1>1 DEF Books
  <2>2. "page" \in Statements /\ "lookup" \in Statements /\ "save" \in Statements
    BY DEF Statements
  <2> QED
    BY <1>3, <1>4, <2>1, <2>2 DEF Assignment
<1>5. CASE TakeChapter(x)
  <2>1. [x EXCEPT !.at = "pages"] \in Records
    BY <1>1 DEF Records, Statements
  <2>2. blocks' \subseteq Records
    BY <1>2, <1>5, <2>1 DEF TakeChapter
  <2> QED
    BY <1>5, <2>2 DEF TakeChapter, TypeOK
<1>6. CASE TakePage(x)
  <2>1. CASE x.at = "pages" /\ HasPage(lay, x.ch, x.pg)
    <3>1. StartOf(lay, x.ch, x.pg) \in Nat
      BY <1>1, <2>1, StartType
    <3> DEFINE y == [x EXCEPT !.start = StartOf(lay, x.ch, x.pg), !.at = "start"]
               z == IF x.alive THEN y ELSE Last(x)
    <3>2. y \in Records
      BY <1>1, <3>1 DEF Records, Statements
    <3>3. z \in Records
      BY <1>1, <3>2, LastType
    <3>4. Becomes(x, z)
      BY <1>6, <2>1 DEF TakePage
    <3>5. UNCHANGED <<phase, lay, style, mode, config, book, shown, turn, shared, saved>>
      BY <1>6, <2>1 DEF TakePage
    <3> HIDE DEF y, z
    <3> QED
      BY <1>2, <3>3, <3>4, <3>5 DEF TypeOK
  <2>2. CASE ~(x.at = "pages" /\ HasPage(lay, x.ch, x.pg))
    BY <1>6, <2>2, CrashType, SavedType DEF TakePage, Crash
  <2> QED
    BY <2>1, <2>2
<1>7. CASE ReadRow(x)
  <2>1. RowOf(book) \in Rows
    BY <1>1 DEF RowOf, Books, Rows
  <2>2. [x EXCEPT !.row = RowOf(book), !.at = "write"] \in Records
    BY <1>1, <2>1 DEF Records, Statements
  <2>3. blocks' \subseteq Records
    BY <1>2, <1>7, <2>2 DEF ReadRow
  <2> QED
    BY <1>7, <2>3 DEF ReadRow, TypeOK
<1>8. CASE WriteRow(x)
  <2>1. blocks' \subseteq Records
    BY <1>1, <1>2, <1>8, LastType DEF WriteRow
  <2> QED
    BY <1>1, <1>8, <2>1 DEF WriteRow, TypeOK
<1>9. CASE Share(x)
  <2>1. x.alive \in BOOLEAN
    BY <1>1 DEF Records
  <2> QED
    BY <1>9, <2>1 DEF Share, TypeOK
<1> QED
  BY <1>4, <1>5, <1>6, <1>7, <1>8, <1>9 DEF RunBlock

\* Every operation keeps the types.
LEMMA TypeStep ==
  ASSUME TypeOK, [Next]_vars
  PROVE  TypeOK'
<1>0. /\ lay \in Layouts /\ style \in Styles /\ mode \in Modes /\ book \in Books
      /\ book.ch \in Chapters /\ book.pg \in Nat
      /\ LastChapter \in Nat
  BY BookAssumption DEF TypeOK, Layouts, Books
<1>1. CASE Open
  <2> DEFINE l == LayOut(Unpaged, config.style, {ReadModel.ch})
             p == Presented(l, OpenedModel, config.style, config.mode)
  <2>1. config.style \in Styles /\ config.mode \in Modes
    BY DEF TypeOK
  <2>2. p.lay \in Layouts /\ p.book \in Positions
    BY <2>1, OpenedType, PresentedType
  <2>3. saved' \in Rows
    BY <1>1, BookAssumption DEF Open, TypeOK, RowOf, FrontPage, Chapters, Rows
  <2>4. CASE OnPage(p.lay, p.book)
    <3>1. p.book \in Books /\ PlaceOf(p.book) \in Places
      BY <2>2, <2>4, PositionOnPage
    <3>2. /\ phase' = "reading" /\ lay' = p.lay /\ style' = config.style
          /\ mode' = config.mode /\ book' = p.book /\ shown' = PlaceOf(p.book)
          /\ turn' = NoTurn /\ shared' = TRUE /\ UNCHANGED <<config, blocks>>
      BY <1>1, <2>4 DEF Open
    <3>3. turn' \in [on : BOOLEAN, ch : Chapters, pg : Nat]
      BY <3>2, BookAssumption DEF NoTurn, Chapters
    <3> HIDE DEF p
    <3> QED
      BY <2>1, <2>2, <2>3, <3>1, <3>2, <3>3 DEF TypeOK, Layouts
  <2>5. CASE ~OnPage(p.lay, p.book)
    BY <1>1, <2>5, <2>3, CrashType DEF Open, Crash
  <2> QED
    BY <2>4, <2>5
<1>2. CASE Back
  <2>1. 0 \in Chapters
    BY <1>0 DEF Chapters
  <2>2. lay' \in [Chapters -> [by : Styles \cup {NoStyle}, force : BOOLEAN]]
    BY <1>2 DEF Back, Unpaged
  <2>3. book' \in Books /\ shown' \in Places
    BY <1>2, <2>1 DEF Back, FrontPage, PlaceOf, Books, Places
  <2>4. blocks' \subseteq Records
    BY <1>2, OrphanedType, KeptType DEF Back, TypeOK
  <2> QED
    BY <1>2, <2>2, <2>3, <2>4 DEF Back, TypeOK
<1>3. CASE Kill
  BY <1>3, CrashType, SavedType DEF Kill
<1>4. CASE \E fin \in BOOLEAN : MarkFinished(fin)
  <2>1. PICK fin \in BOOLEAN : MarkFinished(fin)
    BY <1>4
  <2>2. saved' \in Rows
    BY <2>1 DEF MarkFinished, TypeOK, Rows
  <2> QED
    BY <2>1, <2>2 DEF MarkFinished, TypeOK
<1>5. CASE \E t \in NextTarget \cup PreviousTarget : TurnBegin(t)
  <2>1. PICK t \in NextTarget \cup PreviousTarget : TurnBegin(t)
    BY <1>5
  <2>2. t.ch \in Chapters /\ t.pg \in Int
    BY TargetType
  <2>3. CASE t.pg < 0
    BY <2>1, <2>3, CrashType, SavedType DEF TurnBegin, Crash
  <2>4. CASE ~(t.pg < 0)
    <3>1. /\ lay' \in Layouts
          /\ turn' = [on |-> TRUE, ch |-> t.ch, pg |-> t.pg]
          /\ UNCHANGED <<phase, style, mode, config, book, shown, blocks, shared, saved>>
      BY <2>1, <2>4, <1>0, LayOutType DEF TurnBegin
    <3>2. turn' \in [on : BOOLEAN, ch : Chapters, pg : Nat]
      BY <2>2, <2>4, <3>1
    <3> QED
      BY <3>1, <3>2 DEF TypeOK, Layouts
  <2> QED
    BY <2>3, <2>4
<1>6. CASE TurnFinish
  <2>1. PlaceOf(turn) \in Places /\ Settle(PlaceOf(turn))
    BY <1>6 DEF TurnFinish, TypeOK, PlaceOf, Places
  <2> QED
    BY <2>1, SettleType
<1>7. CASE TurnCancel
  <2>1. PlaceOf(book) \in Places /\ Settle(PlaceOf(book))
    BY <1>7 DEF TurnCancel, TypeOK, PlaceOf, Places, Books
  <2> QED
    BY <2>1, SettleType
<1>8. CASE Restyling
  <2>1. PICK s \in Styles, m \in Modes : ChangeSetting(s, m)
    BY <1>8 DEF Restyling
  <2> DEFINE p == Presented(Forced(lay), book, s, m)
  <2>2. Forced(lay) \in Layouts /\ book \in Positions
    BY <1>0 DEF Forced, Layouts, Books, Positions
  <2>3. p.lay \in Layouts /\ p.book \in Positions
    BY <2>2, PresentedType
  <2>4. CASE shared /\ OnPage(p.lay, p.book)
    <3>1. /\ Rebuild(p, p.book, s, m)
          /\ config' = [style |-> s, mode |-> m]
          /\ saved' = saved
      BY <2>1, <2>4 DEF ChangeSetting
    <3>2. p.book \in Books
      BY <2>3, <2>4, PositionOnPage
    <3>3. config' \in [style : Styles, mode : Modes]
      BY <3>1
    <3>4. saved' \in Rows
      BY <3>1 DEF TypeOK
    <3> QED
      BY <2>2, <3>1, <3>2, <3>3, <3>4, RebuildType
  <2>5. CASE ~(shared /\ OnPage(p.lay, p.book))
    BY <2>1, <2>5, CrashType, SavedType DEF ChangeSetting, Crash
  <2> QED
    BY <2>4, <2>5
<1>9. CASE \E l \in Layouts, b \in Positions : MoveTo(l, b)
  BY <1>9, MoveToType
<1>10. CASE \E pl \in ListTargets : GoToChapter(pl.ch, pl.pg)
  <2>1. PICK pl \in ListTargets : GoToChapter(pl.ch, pl.pg)
    BY <1>10
  <2>2. pl.ch \in Chapters /\ pl.pg \in Int
    BY DEF ListTargets
  <2> DEFINE q == PagedFor(pl.ch, At(pl.ch, pl.pg))
             p == Presented(q.lay, q.book, style, mode)
  <2>3. q.lay \in Layouts /\ q.book \in Positions
    BY <2>2, AtType
  <2>4. p.lay \in Layouts /\ p.book \in Positions
    BY <2>3, <1>0, PresentedType
  <2>5. CASE shared /\ OnPage(p.lay, p.book)
    <3>1. Rebuild(p, p.book, style, mode) /\ UNCHANGED <<config, saved>>
      BY <2>1, <2>5 DEF GoToChapter
    <3>2. p.book \in Books
      BY <2>4, <2>5, PositionOnPage
    <3>3. /\ config' \in [style : Styles, mode : Modes]
          /\ saved' \in Rows
      BY <3>1 DEF TypeOK
    <3> QED
      BY <1>0, <2>3, <3>1, <3>2, <3>3, RebuildType
  <2>6. CASE ~(shared /\ OnPage(p.lay, p.book))
    BY <2>1, <2>6, CrashType, SavedType DEF GoToChapter, Crash
  <2> QED
    BY <2>5, <2>6
<1>11. CASE RowDisplayed
  <2>1. lay' \in Layouts
    BY <1>0, <1>11, LayOutType DEF RowDisplayed
  <2> QED
    BY <1>11, <2>1 DEF RowDisplayed, TypeOK, Layouts
<1>12. CASE \E c \in Chapters : \E pg \in 0..Count(lay, c) - 1 : ScrollEnd(c, pg)
  <2>0. PICK c \in Chapters : \E pg \in 0..Count(lay, c) - 1 : ScrollEnd(c, pg)
    BY <1>12
  <2>1. PICK pg \in 0..Count(lay, c) - 1 : ScrollEnd(c, pg)
    BY <2>0
  <2>2. pg \in Nat
    BY <1>0, CountType
  <2>3. CASE shared /\ OnPage(lay, book)
    <3>1. /\ shown' = [ch |-> c, pg |-> pg]
          /\ UNCHANGED <<phase, lay, style, mode, config, book, turn, shared, saved>>
      BY <2>1, <2>3 DEF ScrollEnd
    <3>2. PICK id \in 1..MaxBlocks : blocks' = blocks \cup {NewRecord(id, c, pg)}
      BY <2>1, <2>3 DEF ScrollEnd, NewRecord
    <3>3. shown' \in Places /\ NewRecord(id, c, pg) \in Records
      BY <2>2, <3>1, NewRecordType DEF Places
    <3> QED
      BY <3>1, <3>2, <3>3 DEF TypeOK
  <2>4. CASE ~(shared /\ OnPage(lay, book))
    BY <2>1, <2>4, CrashType, SavedType DEF ScrollEnd, Crash
  <2> QED
    BY <2>3, <2>4
<1>13. CASE \E x \in blocks : RunBlock(x)
  <2>1. PICK x \in blocks : RunBlock(x)
    BY <1>13
  <2> QED
    BY <2>1, RunBlockType
<1>14. CASE Navigating
  BY <1>9, <1>10, <1>14, NavigatingMoves
<1>15. CASE UNCHANGED vars
  BY <1>15 DEF vars, TypeOK
<1> QED
  BY <1>1, <1>2, <1>3, <1>4, <1>5, <1>6, <1>7, <1>8, <1>11, <1>12, <1>13, <1>14, <1>15
  DEF Next, Turning, Scrolling

\* The session starts well-typed.
LEMMA TypeInit ==
  ASSUME Init
  PROVE  TypeOK
<1>1. 0 \in Chapters
  BY BookAssumption DEF Chapters
<1> QED
  BY <1>1 DEF Init, TypeOK, Unpaged, FrontPage, NoTurn, NoRow, Rows, PlaceOf, Books, Places

\* Every state of every session is well-typed: no index in the state is negative
\* and no chapter is outside the book, whatever the layouts and the settings.
THEOREM Typing == Spec => []TypeOK
BY TypeInit, TypeStep, PTL DEF Spec

--------------------------------------------------------------------------------
(***************************************************************************)
(* Pages and settings                                                      *)
(***************************************************************************)

\* Pages of another layout than s are marked, and unreadable chapters have none.
Marked(l, s) ==
  \A c \in Chapters : /\ l[c].by \in {NoStyle, s} \/ l[c].force
                      /\ c \in Unreadable => l[c].by = NoStyle

\* Chapter c has the pages of layout s.
Current(l, s, c) == c \in Unreadable \/ l[c] = [by |-> s, force |-> FALSE]

\* Paging chapters keeps stale pages marked, leaves no stale page in the chapters
\* it pages, and none that was up to date becomes stale.
LEMMA LayOutMarked ==
  ASSUME NEW l \in Layouts, NEW s \in Styles, NEW C, Marked(l, s)
  PROVE  /\ Marked(LayOut(l, s, C), s)
         /\ \A c \in Chapters : c \in C => Current(LayOut(l, s, C), s, c)
         /\ \A c \in Chapters : Current(l, s, c) => Current(LayOut(l, s, C), s, c)
<1>1. ASSUME NEW c \in Chapters, c \in C, NeedsLayout(l, c)
      PROVE  LayOut(l, s, C)[c] = [by |-> s, force |-> FALSE] /\ c \notin Unreadable
  BY <1>1 DEF LayOut, NeedsLayout
<1>2. ASSUME NEW c \in Chapters, ~(c \in C /\ NeedsLayout(l, c))
      PROVE  LayOut(l, s, C)[c] = l[c]
  BY <1>2 DEF LayOut
<1>3. ASSUME NEW c \in Chapters, c \notin Unreadable, ~NeedsLayout(l, c)
      PROVE  l[c] = [by |-> s, force |-> FALSE]
  <2>1. ~l[c].force /\ Count(l, c) # 0
    BY <1>3 DEF NeedsLayout
  <2>2. l[c].by # NoStyle /\ l[c].by \in {NoStyle, s}
    BY <2>1 DEF Count, Marked
  <2>3. l[c] \in [by : Styles \cup {NoStyle}, force : BOOLEAN]
    BY DEF Layouts
  <2> QED
    BY <2>1, <2>2, <2>3
<1>4. Marked(LayOut(l, s, C), s)
  <2> SUFFICES ASSUME NEW c \in Chapters
               PROVE  LET k == LayOut(l, s, C)[c]
                      IN  /\ k.by \in {NoStyle, s} \/ k.force
                          /\ c \in Unreadable => k.by = NoStyle
    BY DEF Marked
  <2> QED
    BY <1>1, <1>2 DEF Marked
<1>5. ASSUME NEW c \in Chapters, c \in C PROVE Current(LayOut(l, s, C), s, c)
  BY <1>1, <1>2, <1>3, <1>5 DEF Current
<1>6. ASSUME NEW c \in Chapters, Current(l, s, c) PROVE Current(LayOut(l, s, C), s, c)
  BY <1>1, <1>2, <1>6 DEF Current
<1> QED
  BY <1>4, <1>5, <1>6

\* A new view has the pages it shows laid out for its settings; a paged one also
\* those of the neighbours (createPageViewController after forceUpdateReader).
LEMMA PresentedMarked ==
  ASSUME NEW l \in Layouts, NEW b \in Positions, NEW s \in Styles, NEW m \in Modes,
         Marked(l, s)
  PROVE  /\ Marked(Presented(l, b, s, m).lay, s)
         /\ m = "page" => \A c \in Around(b.ch) : Current(Presented(l, b, s, m).lay, s, c)
<1> DEFINE C  == IF m = "page" THEN Around(b.ch) ELSE DefaultPaging
           l1 == LayOut(l, s, C)
           ahead == IF m = "scroll" /\ Count(l1, b.ch) <= 1
                    THEN {c \in {b.ch + 1} \cap Chapters : Count(l1, c) = 0}
                    ELSE {}
<1>1. Presented(l, b, s, m).lay = LayOut(l1, s, ahead)
  BY DEF Presented
<1>2. l1 \in Layouts /\ Marked(l1, s)
  BY LayOutType, LayOutMarked
<1>3. ASSUME m = "page", NEW c \in Around(b.ch)
      PROVE  c \in Chapters /\ Current(l1, s, c)
  <2>1. c \in Chapters /\ c \in C
    BY <1>3, AroundType DEF Positions
  <2> QED
    BY <2>1, LayOutMarked
<1> HIDE DEF l1, ahead
<1> QED
  BY <1>1, <1>2, <1>3, LayOutMarked

\* The marks of the invariant are those of the settings in force.
LEMMA InvMarked ==
  ASSUME SessionInv
  PROVE  Marked(lay, style) /\ lay \in Layouts /\ style \in Styles /\ mode \in Modes
BY DEF SessionInv, StalePagesAreMarked, UnreadableHasNoPages, Marked, TypeOK, Layouts,
   BookAssumption

\* What a step without a turn in its result has to establish.
LEMMA SettledInv ==
  ASSUME TypeOK', Marked(lay', style'),
         phase' = "reading" /\ mode' = "page" =>
           /\ \A c \in Around(book'.ch) : Current(lay', style', c)
           /\ shown' = PlaceOf(book') /\ OnPage(lay', book'),
         \A x \in blocks' : IF x.alive THEN phase' = "reading" /\ mode' = "scroll"
                            ELSE x.at \in Finishing,
         ~turn'.on
  PROVE  SessionInv'
<1>1. StalePagesAreMarked' /\ UnreadableHasNoPages'
  BY BookAssumption DEF Marked, StalePagesAreMarked, UnreadableHasNoPages
<1>2. NeighboursUpToDate'
  BY DEF NeighboursUpToDate, UpToDate, Current
<1>3. ScreenShowsBook' /\ RecordsAreOfTheView' /\ TurnIsBeside'
  BY DEF ScreenShowsBook, RecordsAreOfTheView, TurnIsBeside, Finishing
<1> QED
  BY <1>1, <1>2, <1>3 DEF SessionInv

\* No page is laid out when the process starts.
LEMMA UnpagedMarked ==
  ASSUME NEW s \in Styles
  PROVE  Unpaged \in Layouts /\ Marked(Unpaged, s)
BY DEF Unpaged, Layouts, Marked

\* The end of the process establishes the invariant.
LEMMA ProcessEndsInv ==
  ASSUME TypeOK', NEW ph, ph # "reading", ProcessEnds(ph)
  PROVE  SessionInv'
<1>1. Marked(lay', style')
  BY UnpagedMarked DEF ProcessEnds, TypeOK
<1> QED
  BY <1>1, SettledInv DEF ProcessEnds, NoTurn

\* A view that is built again, for any model whose chapter is the one laid out,
\* establishes the invariant (the handlers of the menu, the list, the settings).
LEMMA RebuildInv ==
  ASSUME SessionInv, TypeOK', ~turn.on,
         NEW s \in Styles, NEW m \in Modes, NEW l \in Layouts, NEW b \in Positions,
         Marked(l, s), NEW b1, b1.ch = b.ch,
         Rebuild(Presented(l, b, s, m), b1, s, m),
         OnPage(Presented(l, b, s, m).lay, b1)
  PROVE  SessionInv'
<1> DEFINE p == Presented(l, b, s, m)
<1>1. /\ Marked(p.lay, s)
      /\ m = "page" => \A c \in Around(b.ch) : Current(p.lay, s, c)
  BY PresentedMarked
<1>2. /\ lay' = p.lay /\ style' = s /\ mode' = m /\ book' = b1
      /\ shown' = PlaceOf(b1) /\ turn' = turn /\ blocks' = Orphaned(blocks)
  BY DEF Rebuild
<1>3. \A x \in blocks' : ~x.alive /\ x.at \in Finishing
  BY <1>2, OrphanedType DEF SessionInv, TypeOK
<1> HIDE DEF p
<1> QED
  BY <1>1, <1>2, <1>3, SettledInv DEF p

\* The common end of the handlers of the menu keeps the invariant.
LEMMA MoveToInv ==
  ASSUME SessionInv, TypeOK', ~turn.on, NEW l \in Layouts, NEW b \in Positions,
         Marked(l, style), MoveTo(l, b)
  PROVE  SessionInv'
<1> DEFINE p == Presented(l, b, style, mode)
           ok == shared /\ OnPage(p.lay, p.book) /\ HasPage(p.lay, book.ch, p.book.pg)
           b1 == [p.book EXCEPT !.start = StartOf(p.lay, book.ch, p.book.pg)]
<1>1. style \in Styles /\ mode \in Modes
  BY InvMarked
<1>2. p.book \in Positions /\ p.book.ch = b.ch
  BY <1>1, PresentedType
<1>3. CASE ok
  <2>1. Rebuild(p, b1, style, mode)
    BY <1>3 DEF MoveTo
  <2>2. b1.ch = b.ch /\ b1.pg = p.book.pg
    BY <1>2 DEF Positions
  <2>3. OnPage(p.lay, b1)
    BY <1>2, <1>3, <2>2 DEF OnPage
  <2> HIDE DEF b1
  <2> QED
    BY <1>1, <2>1, <2>2, <2>3, RebuildInv
<1>4. CASE ~ok
  BY <1>4, ProcessEndsInv DEF MoveTo, Crash
<1> QED
  BY <1>3, <1>4

\* The end of a page turn keeps the invariant, whichever page it settles on: the
\* page of the model, or a page whose chapters are as well laid out.
LEMMA SettleInv ==
  ASSUME SessionInv, TypeOK', phase = "reading", NEW pl \in Places, Settle(pl),
         mode = "page" => \A c \in Around(pl.ch) : UpToDate(c)
  PROVE  SessionInv'
<1>1. CASE OnPage(lay, pl)
  <2> DEFINE b == [ch |-> pl.ch, pg |-> pl.pg, start |-> StartOf(lay, pl.ch, pl.pg)]
  <2>1. /\ book' = b /\ shown' = pl /\ turn' = NoTurn
        /\ UNCHANGED <<phase, lay, style, mode, config, blocks>>
    BY <1>1 DEF Settle
  <2>2. shown' = PlaceOf(book') /\ OnPage(lay', book') /\ book'.ch = pl.ch
    BY <1>1, <2>1 DEF PlaceOf, Places, OnPage
  <2>3. Marked(lay', style')
    BY <2>1, InvMarked
  <2>4. mode' = "page" => \A c \in Around(book'.ch) : Current(lay', style', c)
    BY <2>1, <2>2 DEF Current, UpToDate
  <2>5. \A x \in blocks' : IF x.alive THEN phase' = "reading" /\ mode' = "scroll"
                           ELSE x.at \in Finishing
    BY <2>1 DEF SessionInv, RecordsAreOfTheView, Finishing
  <2> QED
    BY <2>1, <2>2, <2>3, <2>4, <2>5, SettledInv DEF NoTurn
<1>2. CASE ~OnPage(lay, pl)
  BY <1>2, ProcessEndsInv DEF Settle, Crash
<1> QED
  BY <1>1, <1>2

--------------------------------------------------------------------------------
(***************************************************************************)
(* Page turns                                                              *)
(***************************************************************************)

\* A chapter with up-to-date pages has as many as the settings make.
LEMMA CountCurrent ==
  ASSUME NEW l \in Layouts, NEW s \in Styles, NEW c \in Chapters,
         Current(l, s, c), c \notin Unreadable
  PROVE  Count(l, c) = PageCount(s, c) /\ PageCount(s, c) \in Nat
<1>1. Count(l, c) = PageCount(s, c)
  BY BookAssumption DEF Current, Count
<1> QED
  BY <1>1, CountType

\* In a paged view the chapter of the model can be read and its pages are those of
\* the settings.
LEMMA BookCurrent ==
  ASSUME SessionInv, phase = "reading", mode = "page"
  PROVE  /\ book.ch \in Chapters /\ book.pg \in Nat /\ book.ch \notin Unreadable
         /\ \A c \in Around(book.ch) : c \in Chapters /\ Current(lay, style, c)
         /\ lay[book.ch] = [by |-> style, force |-> FALSE]
         /\ Count(lay, book.ch) = PageCount(style, book.ch)
         /\ PageCount(style, book.ch) \in Nat
         /\ book.pg < PageCount(style, book.ch)
<1>1. book.ch \in Chapters /\ book.pg \in Nat
  BY DEF SessionInv, TypeOK, Books
<1>2. \A c \in Around(book.ch) : c \in Chapters /\ Current(lay, style, c)
  BY <1>1, AroundType DEF SessionInv, NeighboursUpToDate, UpToDate, Current
<1>3. HasPage(lay, book.ch, book.pg)
  BY DEF SessionInv, ScreenShowsBook, OnPage
<1>4. Count(lay, book.ch) # 0
  BY <1>1, <1>3 DEF HasPage
<1>5. book.ch \notin Unreadable
  BY <1>4 DEF SessionInv, UnreadableHasNoPages, Count
<1>6. Current(lay, style, book.ch)
  BY <1>1, <1>2, AroundType
<1> QED
  BY <1>1, <1>2, <1>3, <1>5, <1>6, InvMarked, CountCurrent DEF Current, HasPage

\* The page a turn asks for is the one before or after, and it exists once its
\* chapter is laid out, unless that has no text (getNextModel, getPreviousModel).
LEMMA TargetBeside ==
  ASSUME SessionInv, phase = "reading", mode = "page",
         NEW t \in NextTarget \cup PreviousTarget, NEW l \in Layouts,
         t.ch \in Chapters => Current(l, style, t.ch)
  PROVE  /\ t.ch \in {book.ch - 1, book.ch, book.ch + 1} \cap Chapters
         /\ t.pg < 0 => ~HasText(t.ch)
         /\ t.pg >= 0 =>
              /\ \/ PlaceOf(t) = PlaceAfter(style, PlaceOf(book))
                 \/ PlaceOf(book) = PlaceAfter(style, PlaceOf(t))
              /\ OnPage(l, t) \/ ~HasText(t.ch)
<1> DEFINE n == PageCount(style, book.ch)
<1>1. /\ book.ch \in Chapters /\ book.ch \in Int /\ 0 <= book.ch /\ book.ch <= LastChapter
      /\ book.pg \in Nat /\ book.pg < n /\ n \in Nat /\ Count(lay, book.ch) = n
      /\ book.ch \notin Unreadable /\ LastChapter \in Nat
  BY BookCurrent, BookAssumption DEF Chapters
<1>2. style \in Styles /\ lay \in Layouts
  BY InvMarked
<1>3. TypeOK
  BY DEF SessionInv
<1>4. t.ch \in Chapters /\ t.pg \in Int
  BY <1>3, TargetType
<1>5. PlaceOf(book) = [ch |-> book.ch, pg |-> book.pg] /\ PlaceOf(t) = [ch |-> t.ch, pg |-> t.pg]
  BY DEF PlaceOf
<1>6. t.ch \notin Unreadable =>
        Count(l, t.ch) = PageCount(style, t.ch) /\ PageCount(style, t.ch) \in Nat
  BY <1>2, <1>4, CountCurrent
<1>7. PageCount(style, t.ch) = 0 => ~HasText(t.ch)
  BY <1>2, <1>4, LayoutAssumption, BookAssumption DEF HasText
<1> HIDE DEF n
<1>8. CASE t \in NextTarget /\ book.pg >= n - 1
  <2>1. t.ch = book.ch + 1 /\ t.pg = 0
    BY <1>1, <1>8 DEF NextTarget
  <2>2. PlaceOf(t) = PlaceAfter(style, PlaceOf(book))
    BY <1>1, <1>5, <1>8, <2>1 DEF PlaceAfter, n
  <2>3. OnPage(l, t) \/ ~HasText(t.ch)
    BY <1>6, <1>7, <2>1 DEF OnPage, HasPage, HasText
  <2> QED
    BY <1>1, <1>4, <2>1, <2>2, <2>3
<1>9. CASE t \in NextTarget /\ ~(book.pg >= n - 1)
  <2>1. t.ch = book.ch /\ t.pg = book.pg + 1
    BY <1>1, <1>9 DEF NextTarget
  <2>2. PlaceOf(t) = PlaceAfter(style, PlaceOf(book))
    BY <1>1, <1>5, <1>9, <2>1 DEF PlaceAfter, n
  <2>3. OnPage(l, t)
    BY <1>1, <1>6, <1>9, <2>1 DEF OnPage, HasPage, n
  <2> QED
    BY <1>1, <1>4, <2>1, <2>2, <2>3
<1>10. CASE t \in PreviousTarget /\ book.pg <= 0
  <2> DEFINE c == book.ch - 1
             k == IF Count(lay, c) = 0 THEN LayOut(lay, style, {c}) ELSE lay
  <2>1. c \in Chapters /\ t.ch = c /\ t.pg = Count(k, c) - 1
    BY <1>1, <1>10 DEF PreviousTarget, Chapters
  <2>2. c \in Around(book.ch) /\ Current(lay, style, c)
    BY <1>1, <2>1, BookCurrent DEF Around
  <2>3. k \in Layouts /\ Current(k, style, c)
    BY <1>2, <2>1, <2>2, LayOutType, LayOutMarked, InvMarked
  <2>4. CASE c \in Unreadable
    <3>1. Count(k, c) = 0
      BY <1>2, <2>4, LayOutMarked, InvMarked, <2>1 DEF Count, Marked
    <3> QED
      BY <1>1, <1>4, <2>1, <2>4, <3>1 DEF HasText
  <2>5. CASE c \notin Unreadable
    <3>1. Count(k, c) = PageCount(style, c) /\ PageCount(style, c) \in Nat
      BY <1>2, <2>1, <2>3, <2>5, CountCurrent
    <3>2. t.pg = PageCount(style, c) - 1
      BY <2>1, <3>1
    <3>3. t.pg >= 0 => PlaceOf(book) = PlaceAfter(style, PlaceOf(t))
      BY <1>1, <1>5, <1>10, <2>1, <3>1, <3>2 DEF PlaceAfter
    <3>4. t.pg >= 0 => OnPage(l, t)
      BY <1>6, <2>1, <2>5, <3>1, <3>2 DEF OnPage, HasPage
    <3>5. t.pg < 0 => ~HasText(t.ch)
      BY <1>7, <2>1, <3>1, <3>2
    <3> HIDE DEF k
    <3> QED
      BY <1>1, <1>4, <2>1, <3>3, <3>4, <3>5
  <2> QED
    BY <2>4, <2>5
<1>11. CASE t \in PreviousTarget /\ ~(book.pg <= 0)
  <2>1. t.ch = book.ch /\ t.pg = book.pg - 1
    BY <1>1, <1>11 DEF PreviousTarget
  <2>2. PlaceOf(book) = PlaceAfter(style, PlaceOf(t))
    BY <1>1, <1>5, <1>11, <2>1 DEF PlaceAfter, n
  <2>3. OnPage(l, t)
    BY <1>1, <1>6, <1>11, <2>1 DEF OnPage, HasPage, n
  <2> QED
    BY <1>1, <1>4, <1>11, <2>1, <2>2, <2>3
<1> QED
  BY <1>1, <1>8, <1>9, <1>10, <1>11

\* A turn that begins keeps the invariant: the chapters around its page are laid
\* out before the page is shown, and the page on the screen keeps its pages.
LEMMA TurnBeginInv ==
  ASSUME SessionInv, TypeOK', NEW t \in NextTarget \cup PreviousTarget, TurnBegin(t)
  PROVE  SessionInv'
<1>1. phase = "reading" /\ mode = "page"
  BY DEF TurnBegin
<1>2. CASE t.pg < 0
  BY <1>2, ProcessEndsInv DEF TurnBegin, Crash
<1>3. CASE ~(t.pg < 0)
  <2> DEFINE C == (IF t.lays THEN {t.ch} ELSE {}) \cup Around(t.ch)
  <2>1. /\ lay' = LayOut(lay, style, C)
        /\ turn' = [on |-> TRUE, ch |-> t.ch, pg |-> t.pg]
        /\ UNCHANGED <<phase, style, mode, config, book, shown, blocks, shared, saved>>
    BY <1>3 DEF TurnBegin
  <2>2. t.ch \in Chapters /\ t.pg \in Int
    BY TargetType DEF SessionInv
  <2>3. lay' \in Layouts /\ Marked(lay', style')
    BY <2>1, InvMarked, LayOutMarked, LayOutType
  <2>4. \A c \in Around(t.ch) : c \in Chapters /\ Current(lay', style', c)
    BY <2>1, <2>2, AroundType, InvMarked, LayOutMarked
  <2>5. \A c \in Around(book.ch) : c \in Chapters /\ Current(lay', style', c)
    BY <1>1, <2>1, BookCurrent, InvMarked, LayOutMarked
  <2>6. lay'[book.ch] = lay[book.ch]
    BY <1>1, <2>1, <2>5, BookCurrent, AroundType DEF Current
  <2>7. OnPage(lay', book') /\ shown' = PlaceOf(book')
    <3>1. OnPage(lay, book) /\ shown = PlaceOf(book)
      BY <1>1 DEF SessionInv, ScreenShowsBook
    <3> QED
      BY <2>1, <2>6, <3>1 DEF OnPage, HasPage, Count, PlaceOf
  <2>8. TurnIsBeside'
    <3>1. Current(lay', style, t.ch)
      BY <2>1, <2>2, <2>4, AroundType
    <3>2. /\ \/ PlaceOf(t) = PlaceAfter(style, PlaceOf(book))
             \/ PlaceOf(book) = PlaceAfter(style, PlaceOf(t))
          /\ OnPage(lay', t) \/ ~HasText(t.ch)
      BY <1>1, <1>3, <2>2, <2>3, <3>1, TargetBeside
    <3>3. PlaceOf(turn') = PlaceOf(t) /\ OnPage(lay', turn') = OnPage(lay', t)
          /\ turn'.ch = t.ch
      BY <2>1 DEF PlaceOf, OnPage
    <3> QED
      BY <1>1, <2>1, <3>2, <3>3 DEF TurnIsBeside, PlaceOf
  <2>9. StalePagesAreMarked' /\ UnreadableHasNoPages'
    BY <2>3, BookAssumption DEF Marked, StalePagesAreMarked, UnreadableHasNoPages
  <2>10. NeighboursUpToDate'
    BY <2>1, <2>4, <2>5 DEF NeighboursUpToDate, UpToDate, Current
  <2>11. ScreenShowsBook' /\ RecordsAreOfTheView'
    BY <2>1, <2>7 DEF ScreenShowsBook, RecordsAreOfTheView, SessionInv
  <2> QED
    BY <2>8, <2>9, <2>10, <2>11 DEF SessionInv
<1> QED
  BY <1>2, <1>3

--------------------------------------------------------------------------------
(***************************************************************************)
(* The invariant of the session                                            *)
(***************************************************************************)

\* Every statement of a record keeps the invariant: one that assigns to the model
\* finds its controller, and with it the scroll view.
LEMMA RunBlockInv ==
  ASSUME SessionInv, TypeOK', NEW x \in blocks, RunBlock(x)
  PROVE  SessionInv'
<1>1. \A y \in blocks : IF y.alive THEN phase = "reading" /\ mode = "scroll"
                        ELSE y.at \in Finishing
  BY DEF SessionInv, RecordsAreOfTheView, Finishing
<1>2. x \in Records
  BY DEF SessionInv, TypeOK
<1>3. ASSUME NEW y, Becomes(x, y), UNCHANGED <<phase, mode>>,
             IF y.alive THEN x.alive ELSE y.at \in Finishing
      PROVE  \A z \in blocks' : IF z.alive THEN phase' = "reading" /\ mode' = "scroll"
                                ELSE z.at \in Finishing
  BY <1>1, <1>3 DEF Becomes
<1>4. ASSUME UNCHANGED <<phase, lay, style, mode, book, shown, turn>>,
             \A z \in blocks' : IF z.alive THEN phase' = "reading" /\ mode' = "scroll"
                                ELSE z.at \in Finishing
      PROVE  SessionInv'
  <2>1. RecordsAreOfTheView'
    BY <1>4 DEF RecordsAreOfTheView, Finishing
  <2> QED
    BY <1>4, <2>1 DEF SessionInv, StalePagesAreMarked, NeighboursUpToDate, UpToDate,
       ScreenShowsBook, UnreadableHasNoPages, TurnIsBeside
<1>5. CASE Assignment(x)
  <2>1. PICK b, next : Assign(x, b, next)
    BY <1>5 DEF Assignment
  <2>2. x.alive /\ phase = "reading" /\ mode = "scroll"
    BY <1>1, <1>5 DEF Assignment, Finishing
  <2>3. UNCHANGED <<phase, lay, style, mode, config, shown, turn>>
    BY <2>1 DEF Assign
  <2>4. ~turn'.on
    BY <2>2, <2>3 DEF SessionInv, TurnIsBeside
  <2>5. [x EXCEPT !.at = next].alive = x.alive
    BY <1>2 DEF Records
  <2>6. \A z \in blocks' : IF z.alive THEN phase' = "reading" /\ mode' = "scroll"
                           ELSE z.at \in Finishing
    BY <1>3, <2>1, <2>2, <2>3, <2>5 DEF Assign
  <2>7. Marked(lay', style')
    BY <2>3, InvMarked
  <2> QED
    BY <2>2, <2>3, <2>4, <2>6, <2>7, SettledInv
<1>6. CASE TakeChapter(x)
  <2>1. [x EXCEPT !.at = "pages"].alive = x.alive /\ [x EXCEPT !.at = "pages"].at = "pages"
    BY <1>2 DEF Records
  <2> QED
    BY <1>3, <1>4, <1>6, <2>1 DEF TakeChapter, Finishing
<1>7. CASE TakePage(x)
  <2>1. CASE x.at = "pages" /\ HasPage(lay, x.ch, x.pg)
    <3> DEFINE y == [x EXCEPT !.start = StartOf(lay, x.ch, x.pg), !.at = "start"]
               z == IF x.alive THEN y ELSE Last(x)
    <3>1. IF z.alive THEN x.alive ELSE z.at \in Finishing
      BY <1>2, LastType DEF Records, Finishing
    <3>2. Becomes(x, z) /\ UNCHANGED <<phase, lay, style, mode, book, shown, turn>>
      BY <1>7, <2>1 DEF TakePage
    <3> HIDE DEF y, z
    <3> QED
      BY <1>3, <1>4, <3>1, <3>2
  <2>2. CASE ~(x.at = "pages" /\ HasPage(lay, x.ch, x.pg))
    BY <1>7, <2>2, ProcessEndsInv DEF TakePage, Crash
  <2> QED
    BY <2>1, <2>2
<1>8. CASE ReadRow(x)
  <2>1. /\ [x EXCEPT !.row = RowOf(book), !.at = "write"].alive = x.alive
        /\ [x EXCEPT !.row = RowOf(book), !.at = "write"].at = "write"
    BY <1>2 DEF Records
  <2> QED
    BY <1>3, <1>4, <1>8, <2>1 DEF ReadRow, Finishing
<1>9. CASE WriteRow(x)
  BY <1>2, <1>3, <1>4, <1>9, LastType DEF WriteRow, Finishing
<1>10. CASE Share(x)
  BY <1>1, <1>4, <1>10 DEF Share
<1> QED
  BY <1>5, <1>6, <1>7, <1>8, <1>9, <1>10 DEF RunBlock

\* Every operation keeps the invariant.
LEMMA InvStep ==
  ASSUME SessionInv, [Next]_vars
  PROVE  SessionInv'
<1>0. TypeOK /\ TypeOK'
  BY TypeStep DEF SessionInv
<1>1. /\ lay \in Layouts /\ style \in Styles /\ mode \in Modes /\ Marked(lay, style)
      /\ book.ch \in Chapters /\ book.pg \in Nat /\ book \in Positions
  BY <1>0, InvMarked DEF TypeOK, Books, Positions
<1>2. CASE Open
  <2> DEFINE l == LayOut(Unpaged, config.style, {ReadModel.ch})
             p == Presented(l, OpenedModel, config.style, config.mode)
  <2>1. config.style \in Styles /\ config.mode \in Modes
    BY <1>0 DEF TypeOK
  <2>2. l \in Layouts /\ Marked(l, config.style) /\ OpenedModel \in Positions
    BY <1>0, <2>1, UnpagedMarked, LayOutMarked, OpenedType
  <2>3. /\ Marked(p.lay, config.style)
        /\ p.book.ch = OpenedModel.ch
        /\ config.mode = "page" =>
             \A c \in Around(OpenedModel.ch) : Current(p.lay, config.style, c)
    BY <2>1, <2>2, PresentedMarked, PresentedType
  <2>4. \A x \in blocks : ~x.alive /\ x.at \in Finishing
    BY <1>2 DEF Open, SessionInv, RecordsAreOfTheView, Finishing
  <2>5. CASE OnPage(p.lay, p.book)
    <3>1. /\ phase' = "reading" /\ lay' = p.lay /\ style' = config.style
          /\ mode' = config.mode /\ book' = p.book /\ shown' = PlaceOf(p.book)
          /\ turn' = NoTurn /\ blocks' = blocks
      BY <1>2, <2>5 DEF Open
    <3> HIDE DEF p
    <3> QED
      BY <1>0, <2>3, <2>4, <2>5, <3>1, SettledInv DEF NoTurn
  <2>6. CASE ~OnPage(p.lay, p.book)
    BY <1>0, <1>2, <2>6, ProcessEndsInv DEF Open, Crash
  <2> QED
    BY <2>5, <2>6
<1>3. CASE Back
  <2>1. /\ ~turn'.on /\ phase' = "closed" /\ lay' = Unpaged
        /\ style' \in Styles /\ blocks' = {Kept(x) : x \in Orphaned(blocks)}
    BY <1>1, <1>3 DEF Back, InMenu
  <2>2. \A x \in blocks' : ~x.alive /\ x.at \in Finishing
    BY <1>0, <2>1, OrphanedType, KeptType DEF TypeOK
  <2> QED
    BY <1>0, <2>1, <2>2, UnpagedMarked, SettledInv
<1>4. CASE Kill
  BY <1>0, <1>4, ProcessEndsInv DEF Kill
<1>5. CASE \E fin \in BOOLEAN : MarkFinished(fin)
  BY <1>0, <1>5 DEF MarkFinished, SessionInv, StalePagesAreMarked, NeighboursUpToDate,
     UpToDate, ScreenShowsBook, RecordsAreOfTheView, UnreadableHasNoPages, TurnIsBeside
<1>6. CASE \E t \in NextTarget \cup PreviousTarget : TurnBegin(t)
  BY <1>0, <1>6, TurnBeginInv
<1>7. CASE TurnFinish
  <2>1. /\ PlaceOf(turn) \in Places /\ Settle(PlaceOf(turn)) /\ phase = "reading"
        /\ PlaceOf(turn).ch = turn.ch
    BY <1>0, <1>7 DEF TurnFinish, TypeOK, PlaceOf, Places
  <2>2. mode = "page" => \A c \in Around(turn.ch) : UpToDate(c)
    BY <1>7 DEF TurnFinish, SessionInv, NeighboursUpToDate
  <2> QED
    BY <1>0, <2>1, <2>2, SettleInv
<1>8. CASE TurnCancel
  <2>1. /\ PlaceOf(book) \in Places /\ Settle(PlaceOf(book)) /\ phase = "reading"
        /\ PlaceOf(book).ch = book.ch
    BY <1>0, <1>8 DEF TurnCancel, TypeOK, PlaceOf, Places, Books
  <2>2. mode = "page" => \A c \in Around(book.ch) : UpToDate(c)
    BY <1>8 DEF TurnCancel, SessionInv, NeighboursUpToDate
  <2> QED
    BY <1>0, <2>1, <2>2, SettleInv
<1>9. CASE Restyling
  <2>1. PICK s \in Styles, m \in Modes : ChangeSetting(s, m)
    BY <1>9 DEF Restyling
  <2> DEFINE p == Presented(Forced(lay), book, s, m)
  <2>2. Forced(lay) \in Layouts /\ Marked(Forced(lay), s)
    BY <1>1 DEF Forced, Layouts, Marked
  <2>3. p.book.ch = book.ch
    BY <1>1, <2>2, PresentedType
  <2>4. CASE shared /\ OnPage(p.lay, p.book)
    <3>1. Rebuild(p, p.book, s, m) /\ ~turn.on
      BY <2>1, <2>4 DEF ChangeSetting, InMenu
    <3> QED
      BY <1>0, <1>1, <2>2, <2>3, <2>4, <3>1, RebuildInv
  <2>5. CASE ~(shared /\ OnPage(p.lay, p.book))
    BY <1>0, <2>1, <2>5, ProcessEndsInv DEF ChangeSetting, Crash
  <2> QED
    BY <2>4, <2>5
<1>10. ASSUME ~turn.on, NEW b \in Positions, MoveTo(lay, b) PROVE SessionInv'
  BY <1>0, <1>1, <1>10, MoveToInv
<1>11. CASE NextPage
  <2>1. book.ch < LastChapter => book.ch + 1 \in Chapters
    BY <1>1, BookAssumption DEF Chapters
  <2> QED
    BY <1>0, <1>1, <1>10, <1>11, <2>1, AtType DEF NextPage, InMenu
<1>12. CASE PreviousPage
  <2>0. book.ch > 0 => book.ch - 1 \in Chapters
    BY <1>1, BookAssumption DEF Chapters
  <2>1. book.ch > 0 => book.ch - 1 \in Chapters /\ Count(lay, book.ch - 1) - 1 \in Int
    BY <1>1, <2>0, CountType
  <2> QED
    BY <1>0, <1>1, <1>10, <1>12, <2>1, AtType DEF PreviousPage, InMenu
<1>13. CASE NextChapter
  <2>1. book.ch < LastChapter => book.ch + 1 \in Chapters
    BY <1>1, BookAssumption DEF Chapters
  <2> QED
    BY <1>0, <1>10, <1>13, <2>1, AtType DEF NextChapter, InMenu
<1>14. CASE PreviousChapter
  <2>1. book.ch > 0 => book.ch - 1 \in Chapters
    BY <1>1, BookAssumption DEF Chapters
  <2> QED
    BY <1>0, <1>10, <1>14, <2>1, AtType DEF PreviousChapter, InMenu
<1>15. ASSUME NEW c \in Chapters, NEW pg \in Int
       PROVE  LET q == PagedFor(c, At(c, pg))
              IN  /\ q.lay \in Layouts /\ Marked(q.lay, style)
                  /\ q.book \in Positions /\ q.book.ch = c
  <2>1. At(c, pg) \in Positions /\ At(c, pg).ch = c
    BY <1>0 DEF At, TypeOK, Books, Positions
  <2> QED
    BY <1>1, <2>1, LayOutType, LayOutMarked, RepagedType DEF PagedFor
<1>16. ASSUME NEW c \in Chapters, DragToChapter(c) PROVE SessionInv'
  <2> DEFINE l == PagedFor(c, At(c, book.pg)).lay
             pg == IF c = LastChapter THEN Count(l, c) - 1 ELSE 0
  <2>1. l \in Layouts /\ Marked(l, style)
    BY <1>1, <1>15
  <2>2. pg \in Int
    BY <2>1, CountType
  <2>3. MoveTo(l, At(c, pg)) /\ ~turn.on
    BY <1>16 DEF DragToChapter, InMenu
  <2> HIDE DEF l, pg
  <2> QED
    BY <1>0, <2>1, <2>2, <2>3, AtType, MoveToInv
<1>17. ASSUME NEW pg \in 0..Count(lay, book.ch) - 1, DragToPage(pg) PROVE SessionInv'
  BY <1>0, <1>1, <1>10, <1>17, AtType DEF DragToPage, InMenu
<1>18. ASSUME NEW pl \in ListTargets, GoToChapter(pl.ch, pl.pg) PROVE SessionInv'
  <2> DEFINE q == PagedFor(pl.ch, At(pl.ch, pl.pg))
             p == Presented(q.lay, q.book, style, mode)
  <2>1. pl.ch \in Chapters /\ pl.pg \in Int
    BY DEF ListTargets
  <2>2. /\ q.lay \in Layouts /\ Marked(q.lay, style)
        /\ q.book \in Positions
    BY <1>15, <2>1
  <2>3. p.book.ch = q.book.ch
    BY <1>1, <2>2, PresentedType
  <2>4. CASE shared /\ OnPage(p.lay, p.book)
    <3>1. Rebuild(p, p.book, style, mode) /\ ~turn.on
      BY <1>18, <2>4 DEF GoToChapter, InMenu
    <3> HIDE DEF q
    <3> QED
      BY <1>0, <1>1, <2>2, <2>3, <2>4, <3>1, RebuildInv
  <2>5. CASE ~(shared /\ OnPage(p.lay, p.book))
    BY <1>0, <1>18, <2>5, ProcessEndsInv DEF GoToChapter, Crash
  <2> QED
    BY <2>4, <2>5
<1>19. CASE RowDisplayed
  <2>1. /\ phase = "reading" /\ mode = "scroll" /\ Marked(lay', style')
        /\ UNCHANGED <<phase, style, mode, config, book, shown, turn, blocks, shared, saved>>
    BY <1>1, <1>19, LayOutMarked DEF RowDisplayed
  <2>2. ~turn'.on
    BY <2>1 DEF SessionInv, TurnIsBeside
  <2>3. \A x \in blocks' : IF x.alive THEN phase' = "reading" /\ mode' = "scroll"
                           ELSE x.at \in Finishing
    BY <2>1 DEF SessionInv, RecordsAreOfTheView, Finishing
  <2> QED
    BY <1>0, <2>1, <2>2, <2>3, SettledInv
<1>20. ASSUME NEW c \in Chapters, NEW pg \in 0..Count(lay, c) - 1, ScrollEnd(c, pg)
       PROVE  SessionInv'
  <2>1. CASE shared /\ OnPage(lay, book)
    <3>1. /\ phase = "reading" /\ mode = "scroll"
          /\ UNCHANGED <<phase, lay, style, mode, config, book, turn, shared, saved>>
      BY <1>20, <2>1 DEF ScrollEnd
    <3>2. ~turn'.on
      BY <3>1 DEF SessionInv, TurnIsBeside
    <3>3. PICK id \in 1..MaxBlocks : blocks' = blocks \cup {NewRecord(id, c, pg)}
      BY <1>20, <2>1 DEF ScrollEnd, NewRecord
    <3>4. \A x \in blocks' : IF x.alive THEN phase' = "reading" /\ mode' = "scroll"
                             ELSE x.at \in Finishing
      BY <3>1, <3>3 DEF SessionInv, RecordsAreOfTheView, Finishing, NewRecord
    <3> QED
      BY <1>0, <1>1, <3>1, <3>2, <3>4, SettledInv
  <2>2. CASE ~(shared /\ OnPage(lay, book))
    BY <1>0, <1>20, <2>2, ProcessEndsInv DEF ScrollEnd, Crash
  <2> QED
    BY <2>1, <2>2
<1>21. ASSUME NEW x \in blocks, RunBlock(x) PROVE SessionInv'
  BY <1>0, <1>21, RunBlockInv
<1>22. CASE UNCHANGED vars
  BY <1>0, <1>22 DEF vars, SessionInv, StalePagesAreMarked, NeighboursUpToDate, UpToDate,
     ScreenShowsBook, RecordsAreOfTheView, UnreadableHasNoPages, TurnIsBeside
<1>23. CASE Navigating
  BY <1>11, <1>12, <1>13, <1>14, <1>16, <1>17, <1>18, <1>23 DEF Navigating
<1>24. CASE Scrolling
  BY <1>19, <1>20, <1>21, <1>24 DEF Scrolling
<1> QED
  BY <1>2, <1>3, <1>4, <1>5, <1>6, <1>7, <1>8, <1>9, <1>22, <1>23, <1>24 DEF Next, Turning

\* A session starts in the invariant.
LEMMA InvInit ==
  ASSUME Init
  PROVE  SessionInv
<1>1. phase = "closed" /\ blocks = {} /\ ~turn.on
  BY DEF Init, NoTurn
<1>2. \A c \in Chapters : lay[c] = [by |-> NoStyle, force |-> FALSE]
  BY DEF Init, Unpaged
<1>3. StalePagesAreMarked /\ UnreadableHasNoPages
  BY <1>2, BookAssumption DEF StalePagesAreMarked, UnreadableHasNoPages
<1> QED
  BY <1>1, <1>3, TypeInit DEF SessionInv, NeighboursUpToDate, ScreenShowsBook,
     RecordsAreOfTheView, TurnIsBeside

\* The invariant of the session holds for every book, layout and setting. It says
\* that paging, navigation, settings and the scroll view's late records together
\* keep the pages of the chapters consistent with the page on the screen.
THEOREM SessionInvariance == Spec => []SessionInv
BY InvInit, InvStep, PTL DEF Spec

\* forceUpdateReader leaves no stale pages unmarked, in any interleaving.
THEOREM StalePages == Spec => []StalePagesAreMarked
<1>1. SessionInv => StalePagesAreMarked
  BY DEF SessionInv
<1> QED
  BY <1>1, SessionInvariance, PTL

\* A paged view always has the pages of the chapters a turn can reach.
THEOREM Neighbours == Spec => []NeighboursUpToDate
<1>1. SessionInv => NeighboursUpToDate
  BY DEF SessionInv
<1> QED
  BY <1>1, SessionInvariance, PTL

\* A paged view shows the page of the model, and that page exists.
THEOREM Screen == Spec => []ScreenShowsBook
<1>1. SessionInv => ScreenShowsBook
  BY DEF SessionInv
<1> QED
  BY <1>1, SessionInvariance, PTL

\* A late record of the scroll view finds its own view or nothing.
THEOREM LateRecords == Spec => []RecordsAreOfTheView
<1>1. SessionInv => RecordsAreOfTheView
  BY DEF SessionInv
<1> QED
  BY <1>1, SessionInvariance, PTL

--------------------------------------------------------------------------------
(***************************************************************************)
(* Properties of steps                                                     *)
(***************************************************************************)

\* No statement of a record ends a turn in a process that goes on.
LEMMA RunBlockTurns ==
  ASSUME turn.on, ~turn'.on, phase' = "reading"
  PROVE  ~(\E x \in blocks : RunBlock(x))
<1> SUFFICES ASSUME NEW x, RunBlock(x) PROVE FALSE
  OBVIOUS
<1>1. ~Assignment(x) /\ ~TakeChapter(x) /\ ~ReadRow(x) /\ ~WriteRow(x) /\ ~Share(x)
  BY DEF Assignment, Assign, TakeChapter, ReadRow, WriteRow, Share
<1>2. ~TakePage(x)
  BY DEF TakePage, Crash, ProcessEnds
<1> QED
  BY <1>1, <1>2 DEF RunBlock

\* A turn that ends without a crash settles on an existing page: the one it asked
\* for, or the one it came from.
LEMMA TurnEnds ==
  ASSUME SessionInv, [Next]_vars, turn.on, ~turn'.on, phase' = "reading"
  PROVE  /\ phase = "reading" /\ mode = "page"
         /\ \E pl \in {PlaceOf(turn), PlaceOf(book)} : Settle(pl) /\ OnPage(lay, pl)
<1>1. phase = "reading" /\ mode = "page"
  BY DEF SessionInv, TurnIsBeside
<1>2. ASSUME NEW pl, Settle(pl) PROVE OnPage(lay, pl)
  BY <1>2 DEF Settle, Crash, ProcessEnds
<1>3. CASE TurnFinish
  BY <1>1, <1>2, <1>3 DEF TurnFinish
<1>4. CASE TurnCancel
  BY <1>1, <1>2, <1>4 DEF TurnCancel
<1>5. ~Open /\ ~(\E fin \in BOOLEAN : MarkFinished(fin)) /\ ~Back /\ ~Kill /\ ~Restyling
  <2>1. ~Restyling
    BY DEF Restyling, ChangeSetting, InMenu
  <2> QED
    BY <1>1, <2>1 DEF Open, MarkFinished, Back, Kill, ProcessEnds, InMenu
<1>6. ~Navigating
  <2>1. ~NextPage /\ ~PreviousPage /\ ~NextChapter /\ ~PreviousChapter
    BY DEF NextPage, PreviousPage, NextChapter, PreviousChapter, InMenu
  <2>2. \A c \in Chapters : ~DragToChapter(c)
    BY DEF DragToChapter, InMenu
  <2>3. \A pg : ~DragToPage(pg)
    BY DEF DragToPage, InMenu
  <2>4. \A c, pg : ~GoToChapter(c, pg)
    BY DEF GoToChapter, InMenu
  <2> QED
    BY <2>1, <2>2, <2>3, <2>4 DEF Navigating
<1>7. ~(\E t \in NextTarget \cup PreviousTarget : TurnBegin(t))
  <2> SUFFICES ASSUME NEW t, TurnBegin(t) PROVE FALSE
    OBVIOUS
  <2>1. CASE t.pg < 0
    BY <2>1 DEF TurnBegin, Crash, ProcessEnds
  <2>2. CASE ~(t.pg < 0)
    <3>1. turn' = [on |-> TRUE, ch |-> t.ch, pg |-> t.pg]
      BY <2>2 DEF TurnBegin
    <3> QED
      BY <3>1
  <2> QED
    BY <2>1, <2>2
<1>8. ~RowDisplayed
  BY <1>1 DEF RowDisplayed
<1>9. ~(\E c \in Chapters : \E pg \in 0..Count(lay, c) - 1 : ScrollEnd(c, pg))
  BY <1>1 DEF ScrollEnd
<1>10. ~(\E x \in blocks : RunBlock(x))
  BY RunBlockTurns
<1>11. ~UNCHANGED vars
  BY DEF vars
<1> QED
  BY <1>3, <1>4, <1>5, <1>6, <1>7, <1>8, <1>9, <1>10, <1>11 DEF Next, Turning, Scrolling

\* A page turn moves the reader by one page of the book or by none, across chapters
\* too: no page is skipped or repeated by getNextModel and getPreviousModel.
THEOREM TurnMoves == Spec => TurnMovesOnePage
<1>1. SessionInv /\ [Next]_vars =>
        (turn.on /\ ~turn'.on /\ phase' = "reading" =>
           \/ shown' = shown
           \/ shown' = PlaceAfter(style, shown)
           \/ shown = PlaceAfter(style, shown'))
  <2> SUFFICES ASSUME SessionInv, [Next]_vars, turn.on, ~turn'.on, phase' = "reading"
               PROVE  \/ shown' = shown
                      \/ shown' = PlaceAfter(style, shown)
                      \/ shown = PlaceAfter(style, shown')
    OBVIOUS
  <2>1. phase = "reading" /\ mode = "page"
    BY TurnEnds
  <2>2. PICK pl \in {PlaceOf(turn), PlaceOf(book)} : Settle(pl) /\ OnPage(lay, pl)
    BY TurnEnds
  <2>3. shown' = pl
    BY <2>2 DEF Settle
  <2>4. shown = PlaceOf(book)
    BY <2>1 DEF SessionInv, ScreenShowsBook
  <2> QED
    BY <2>2, <2>3, <2>4 DEF SessionInv, TurnIsBeside
<1> QED
  BY <1>1, SessionInvariance, PTL DEF Spec, TurnMovesOnePage

\* The row of the database has the chapter, page and location of the page on the
\* screen when a turn ends (coverFinished, didFinishAnimating).
THEOREM TurnSaves == Spec => TurnSavesShownPage
<1>1. SessionInv /\ [Next]_vars =>
        (turn.on /\ ~turn'.on /\ phase' = "reading" =>
           /\ PlaceOf(saved') = shown'
           /\ saved'.start = PageStarts[style][shown'.ch][shown'.pg + 1])
  <2> SUFFICES ASSUME SessionInv, [Next]_vars, turn.on, ~turn'.on, phase' = "reading"
               PROVE  /\ PlaceOf(saved') = shown'
                      /\ saved'.start = PageStarts[style][shown'.ch][shown'.pg + 1]
    OBVIOUS
  <2>1. phase = "reading" /\ mode = "page"
    BY TurnEnds
  <2>2. PICK pl \in {PlaceOf(turn), PlaceOf(book)} : Settle(pl) /\ OnPage(lay, pl)
    BY TurnEnds
  <2>3. pl \in Places
    BY <2>2 DEF SessionInv, TypeOK, PlaceOf, Places, Books
  <2>4. /\ shown' = pl
        /\ saved' = RowOf([ch |-> pl.ch, pg |-> pl.pg, start |-> StartOf(lay, pl.ch, pl.pg)])
    BY <2>2 DEF Settle
  <2>5. PlaceOf(saved') = pl
    BY <2>3, <2>4 DEF PlaceOf, RowOf, Places
  <2>6. lay[pl.ch].by = style
    <3>1. pl.ch \notin Unreadable
      BY <2>2, <2>3 DEF SessionInv, UnreadableHasNoPages, OnPage, HasPage, Count, Places
    <3>2. pl.ch \in Around(turn.ch) \/ pl.ch \in Around(book.ch)
      BY <2>2, AroundType DEF PlaceOf, SessionInv, TypeOK, Books
    <3> QED
      BY <2>1, <3>1, <3>2 DEF SessionInv, NeighboursUpToDate, UpToDate
  <2> QED
    BY <2>4, <2>5, <2>6 DEF RowOf, StartOf
<1> QED
  BY <1>1, SessionInvariance, PTL DEF Spec, TurnSavesShownPage

\* The chapters a turn touches are the one of the model and its neighbours.
LEMMA TurnChapter ==
  ASSUME SessionInv, turn.on
  PROVE  turn.ch \in {book.ch - 1, book.ch, book.ch + 1} \cap Chapters
<1>1. /\ turn.ch \in Chapters /\ turn.ch \in Int /\ book.ch \in Int
      /\ turn.pg \in Nat /\ book.pg \in Nat
  BY BookAssumption DEF SessionInv, TypeOK, Books, Chapters
<1>2. \/ turn.ch \in {book.ch, book.ch + 1}
      \/ book.ch \in {turn.ch, turn.ch + 1}
  BY DEF SessionInv, TurnIsBeside, PlaceAfter, PlaceOf
<1> QED
  BY <1>1, <1>2

\* A turn that ends the process is beside a chapter without text.
LEMMA TurningCrashes ==
  ASSUME SessionInv, Turning, phase' = "crashed"
  PROVE  \E c \in {book.ch - 1, book.ch, book.ch + 1} \cap Chapters : ~HasText(c)
<1>1. CASE \E t \in NextTarget \cup PreviousTarget : TurnBegin(t)
  <2>1. PICK t \in NextTarget \cup PreviousTarget : TurnBegin(t)
    BY <1>1
  <2>2. t.pg < 0 /\ phase = "reading" /\ mode = "page"
    BY <2>1 DEF TurnBegin
  <2> DEFINE l == LayOut(lay, style, {t.ch})
  <2>3. l \in Layouts /\ (t.ch \in Chapters => Current(l, style, t.ch))
    BY InvMarked, LayOutType, LayOutMarked
  <2> QED
    BY <2>2, <2>3, TargetBeside
<1>2. CASE TurnFinish
  <2>1. turn.on /\ ~OnPage(lay, PlaceOf(turn))
    BY <1>2 DEF TurnFinish, Settle
  <2>2. ~HasText(turn.ch)
    BY <2>1 DEF SessionInv, TurnIsBeside, OnPage, PlaceOf
  <2> QED
    BY <2>1, <2>2, TurnChapter
<1>3. CASE TurnCancel
  <2>1. turn.on /\ phase = "reading" /\ ~OnPage(lay, PlaceOf(book))
    BY <1>3 DEF TurnCancel, Settle
  <2> QED
    BY <2>1 DEF SessionInv, TurnIsBeside, ScreenShowsBook, OnPage, PlaceOf
<1> QED
  BY <1>1, <1>2, <1>3 DEF Turning

\* Turning a page ends the process only beside a chapter without text or one that
\* cannot be read: the index -1 of getPreviousModel has no other cause.
THEOREM TurnCrashes == Spec => TurnCrashesOnlyAtEmptyChapter
<1>1. SessionInv /\ [Next]_vars =>
        (phase' = "crashed" /\ Turning =>
           \E c \in {book.ch - 1, book.ch, book.ch + 1} \cap Chapters : ~HasText(c))
  BY TurningCrashes
<1> QED
  BY <1>1, SessionInvariance, PTL DEF Spec, TurnCrashesOnlyAtEmptyChapter

--------------------------------------------------------------------------------
(***************************************************************************)
(* Places are kept by location                                             *)
(***************************************************************************)

\* Of the pages that hold a location by the test of the code, the last is the one
\* that has it: the loop of paging may overwrite the index, and must.
LEMMA LastIsPageOf ==
  ASSUME NEW s \in Styles, NEW c \in Chapters, NEW loc \in Nat, loc < TextLength[c]
  PROVE  /\ PagesAround(s, c, loc) # {}
         /\ LastOf(PagesAround(s, c, loc)) = PageOf(s, c, loc)
         /\ PageOf(s, c, loc) \in 0..PageCount(s, c) - 1
<1> DEFINE P == PagesAround(s, c, loc)
           starts == PageStarts[s][c]
           n == PageCount(s, c)
           Has(p) == starts[p + 1] <= loc /\ (p + 1 < n => loc < starts[p + 2])
<1>1. /\ n \in Nat
      /\ \A i \in 1..n : starts[i] \in Nat
      /\ \A i, j \in 1..n : i < j => starts[i] < starts[j]
  <2>1. starts \in Seq(Nat) /\ n = Len(starts)
    BY LayoutAssumption DEF PageCount
  <2> QED
    BY <2>1, LayoutAssumption
<1>2. TextLength[c] \in Nat
  BY BookAssumption
<1>3. PICK p \in 0..n - 1 : Has(p)
  <2>1. loc \in 0..TextLength[c] - 1
    BY <1>2
  <2>2. PICK i \in 1..n : starts[i] <= loc /\ (i < n => loc < starts[i + 1])
    BY <2>1, LayoutAssumption
  <2>3. i - 1 \in 0..n - 1 /\ Has(i - 1)
    BY <1>1, <2>2
  <2> QED
    BY <2>3
<1>4. ASSUME NEW q \in 0..n - 1, starts[q + 1] <= loc
      PROVE  q <= p
  <2> SUFFICES ASSUME q > p PROVE FALSE
    BY <1>1
  <2>1. p + 2 \in 1..n /\ q + 1 \in 1..n /\ p + 1 < n /\ p + 2 <= q + 1
    BY <1>1
  <2>2. loc < starts[p + 2]
    BY <1>3, <2>1
  <2>3. starts[p + 2] <= starts[q + 1]
    BY <1>1, <2>1
  <2>4. starts[p + 2] \in Nat /\ starts[q + 1] \in Nat
    BY <1>1, <2>1
  <2> HIDE DEF starts
  <2> QED
    BY <1>4, <2>2, <2>3, <2>4
<1>5. p \in P
  <2>1. p + 1 # n => loc <= starts[p + 2]
    <3>1. p + 1 # n => p + 1 < n /\ p + 2 \in 1..n
      BY <1>1
    <3> QED
      BY <1>1, <1>3, <3>1
  <2>2. p + 1 = n => loc <= TextLength[c]
    BY <1>2
  <2> QED
    BY <1>3, <2>1, <2>2 DEF PagesAround
<1>6. LastOf(P) = p
  <2>1. LastOf(P) \in P /\ p <= LastOf(P)
    BY <1>5, LastPageAround
  <2>2. LastOf(P) \in 0..n - 1 /\ starts[LastOf(P) + 1] <= loc
    BY <2>1 DEF PagesAround
  <2>3. LastOf(P) <= p
    BY <1>4, <2>2
  <2> QED
    BY <1>1, <2>1, <2>2, <2>3
<1>7. PageOf(s, c, loc) = p
  <2>1. ASSUME NEW q \in 0..n - 1, Has(q) PROVE q = p
    <3>1. q <= p
      BY <1>4, <2>1
    <3> SUFFICES ASSUME q < p PROVE FALSE
      BY <1>1, <3>1
    <3>2. q + 2 \in 1..n /\ p + 1 \in 1..n /\ q + 1 < n /\ q + 2 <= p + 1
      BY <1>1
    <3>3. loc < starts[q + 2] /\ starts[p + 1] <= loc
      BY <1>3, <2>1, <3>2
    <3>4. starts[q + 2] <= starts[p + 1]
      BY <1>1, <3>2
    <3>5. starts[q + 2] \in Nat /\ starts[p + 1] \in Nat
      BY <1>1, <3>2
    <3> HIDE DEF starts
    <3> QED
      BY <3>3, <3>4, <3>5
  <2>2. PageOf(s, c, loc) = CHOOSE q \in 0..n - 1 : Has(q)
    BY DEF PageOf
  <2> HIDE DEF Has, n
  <2> QED
    BY <1>3, <2>1, <2>2
<1> QED
  BY <1>5, <1>6, <1>7

\* A model whose location tells its page is on that page once its chapter is laid
\* out anew, whichever settings it was recorded with.
LEMMA RepagedKeepsPlace ==
  ASSUME NEW l \in Layouts, NEW s \in Styles, NEW b \in Books, NEW C,
         b.ch \in C, NeedsLayout(l, b.ch), Locates(b)
  PROVE  /\ Repaged(l, s, b, C).pg = PageOf(s, b.ch, b.start)
         /\ PageOf(s, b.ch, b.start) \in 0..PageCount(s, b.ch) - 1
<1> DEFINE hits == PagesAround(s, b.ch, b.start)
<1>1. /\ b.ch \in Chapters /\ b.start \in Nat /\ b.start < TextLength[b.ch]
      /\ b.start = 0 => b.pg = 0
      /\ b.pg \in Nat
  BY DEF Books, Locates
<1>2. /\ hits # {} /\ LastOf(hits) = PageOf(s, b.ch, b.start)
      /\ PageOf(s, b.ch, b.start) \in 0..PageCount(s, b.ch) - 1
  BY <1>1, LastIsPageOf
<1>3. CASE b.start > 0
  <2> HIDE DEF hits
  <2>1. Repaged(l, s, b, C) = [b EXCEPT !.pg = LastOf(hits)]
    BY <1>2, <1>3 DEF Repaged, hits
  <2> QED
    BY <1>2, <2>1 DEF Books
<1>4. CASE b.start = 0
  <2>1. Repaged(l, s, b, C) = b
    BY <1>4 DEF Repaged
  <2>2. PageOf(s, b.ch, 0) = 0
    <3> DEFINE m == PageOf(s, b.ch, 0)
    <3>1. m \in hits /\ m \in 0..PageCount(s, b.ch) - 1
      BY <1>1, <1>2, <1>4, LastPageAround
    <3>2. PageStarts[s][b.ch][m + 1] <= 0
      BY <1>4, <3>1 DEF PagesAround
    <3>3. PageCount(s, b.ch) \in Nat /\ PageStarts[s][b.ch] \in Seq(Nat)
          /\ PageCount(s, b.ch) = Len(PageStarts[s][b.ch])
      BY <1>1, LayoutAssumption DEF PageCount
    <3>4. m > 0 => PageStarts[s][b.ch][1] < PageStarts[s][b.ch][m + 1]
      <4>1. m > 0 => 1 \in 1..PageCount(s, b.ch) /\ m + 1 \in 1..PageCount(s, b.ch) /\ 1 < m + 1
        BY <3>1, <3>3
      <4> QED
        BY <1>1, <4>1, LayoutAssumption
    <3>5. PageStarts[s][b.ch][1] \in Nat /\ PageStarts[s][b.ch][m + 1] \in Nat
      <4>1. 1 \in 1..Len(PageStarts[s][b.ch]) /\ m + 1 \in 1..Len(PageStarts[s][b.ch])
        BY <3>1, <3>3
      <4> DEFINE q == PageStarts[s][b.ch]
      <4>2. q \in Seq(Nat) /\ 1 \in 1..Len(q) /\ m + 1 \in 1..Len(q)
        BY <3>3, <4>1
      <4> HIDE DEF m, q
      <4>3. q[1] \in Nat /\ q[m + 1] \in Nat
        BY <4>2
      <4> QED
        BY <4>3 DEF q
    <3> HIDE DEF m
    <3> QED
      BY <3>1, <3>2, <3>4, <3>5 DEF m
  <2> QED
    BY <1>1, <1>2, <1>4, <2>1, <2>2
<1> QED
  BY <1>1, <1>3, <1>4

\* After a model is laid out in a chapter with text, the page it is on exists.
LEMMA PlacedOnPage ==
  ASSUME NEW l \in Layouts, NEW s \in Styles, NEW c \in Chapters, NEW pg,
         Current(l, s, c), c \notin Unreadable, pg \in 0..PageCount(s, c) - 1
  PROVE  HasPage(l, c, pg) /\ ~NeedsLayout(l, c)
<1>1. Count(l, c) = PageCount(s, c) /\ PageCount(s, c) \in Nat
  BY CountCurrent
<1> QED
  BY <1>1 DEF HasPage, NeedsLayout, Current

\* Opening a book whose row locates its page shows that page in the layout of the
\* settings in force.
LEMMA OpenKeepsPlace ==
  ASSUME SessionInv, Open, ~saved'.fin, Locates(saved')
  PROVE  /\ phase' = "reading"
         /\ book'.ch = saved'.ch
         /\ book'.pg = PageOf(style', saved'.ch, saved'.start)
<1> DEFINE s  == config.style
           r  == ReadModel
           l  == LayOut(Unpaged, s, {r.ch})
           b  == Repaged(Unpaged, s, r, {r.ch})
           p  == Presented(l, OpenedModel, s, config.mode)
<1>1. s \in Styles /\ config.mode \in Modes /\ saved \in Rows /\ TypeOK
  BY DEF SessionInv, TypeOK
<1>2. r.ch = saved'.ch /\ r.pg = saved'.pg /\ r.start = saved'.start /\ r \in Books
  BY <1>1, BookAssumption DEF Open, ReadModel, RowOf, FrontPage, Rows, Books, Chapters
<1>3. OpenedModel = b
  BY <1>1 DEF Open, OpenedModel, RowOf, Rows
<1>4. r.ch \in Chapters /\ r.ch \notin Unreadable /\ Locates(r)
  BY <1>2 DEF Books, Locates, HasText
<1>5. NeedsLayout(Unpaged, r.ch)
  BY <1>4 DEF NeedsLayout, Unpaged, Count
<1>6. r \in Positions /\ Unpaged \in Layouts /\ Marked(Unpaged, s)
  BY <1>1, <1>2, UnpagedMarked DEF Books, Positions
<1>7. /\ b \in Positions /\ b.ch = r.ch
      /\ b.pg = PageOf(s, r.ch, r.start) /\ b.pg \in 0..PageCount(s, r.ch) - 1
  BY <1>1, <1>2, <1>4, <1>5, <1>6, RepagedType, RepagedKeepsPlace
<1>8. l \in Layouts /\ Marked(l, s) /\ Current(l, s, r.ch)
  BY <1>1, <1>4, <1>6, LayOutType, LayOutMarked
<1>9. ~NeedsLayout(l, b.ch)
  BY <1>1, <1>4, <1>7, <1>8, PlacedOnPage
<1> HIDE DEF s, r, l, b
<1>10. p.book = b
  BY <1>3, <1>9 DEF Presented, Repaged
<1>11. OnPage(p.lay, p.book)
  <2>1. p.lay \in Layouts /\ Current(p.lay, s, r.ch)
    BY <1>1, <1>3, <1>4, <1>7, <1>8, PresentedType, LayOutMarked, LayOutType DEF Presented
  <2> QED
    BY <1>1, <1>4, <1>7, <1>10, <2>1, PlacedOnPage DEF OnPage
<1>12. phase' = "reading" /\ book' = p.book /\ style' = s
  BY <1>11 DEF Open, s, r, l
<1> QED
  BY <1>2, <1>7, <1>10, <1>12

\* A change of the settings in a paged view shows the page that has the location
\* read, in the new layout.
LEMMA RestylingKeepsPlace ==
  ASSUME SessionInv, NEW s \in Styles, ChangeSetting(s, "page"), shared, Locates(book)
  PROVE  /\ phase' = "reading"
         /\ book'.ch = book.ch
         /\ book'.pg = PageOf(style', book.ch, book.start)
<1> DEFINE l == Forced(lay)
           p == Presented(l, book, s, "page")
<1>1. "page" \in Modes
  BY DEF Modes
<1>2. book \in Books /\ book \in Positions /\ book.ch \in Chapters /\ lay \in Layouts
  BY DEF SessionInv, TypeOK, Books, Positions, Layouts
<1>3. l \in Layouts /\ Marked(l, s)
  BY <1>2, InvMarked DEF Forced, Layouts, Marked
<1>4. book.ch \notin Unreadable /\ NeedsLayout(l, book.ch)
  BY <1>2 DEF Locates, HasText, NeedsLayout, Forced
<1> HIDE DEF l
<1>5. p.book = Repaged(l, s, book, Around(book.ch))
  BY DEF Presented
<1>6. /\ p.book.ch = book.ch /\ p.book.pg = PageOf(s, book.ch, book.start)
      /\ p.book.pg \in 0..PageCount(s, book.ch) - 1
  BY <1>2, <1>3, <1>4, <1>5, AroundType, RepagedType, RepagedKeepsPlace
<1>7. p.lay \in Layouts /\ Current(p.lay, s, book.ch)
  BY <1>1, <1>2, <1>3, AroundType, PresentedType, PresentedMarked
<1>8. OnPage(p.lay, p.book)
  BY <1>2, <1>4, <1>6, <1>7, PlacedOnPage DEF OnPage
<1>9. Rebuild(p, p.book, s, "page") /\ phase = "reading"
  BY <1>8 DEF ChangeSetting, InMenu, l
<1> QED
  BY <1>6, <1>9 DEF Rebuild

\* The reading place survives restarts, crashes and changes of the layout: it is
\* kept by location, and paging finds the page that has the location (parseBook,
\* forceUpdateReader, WLBookChapter.paging).
THEOREM PlaceIsKept == Spec => RelayoutKeepsPlace
<1>1. SessionInv /\ [Next]_vars =>
        (Open /\ ~saved'.fin /\ Locates(saved')
         => /\ phase' = "reading"
            /\ book'.ch = saved'.ch
            /\ book'.pg = PageOf(style', saved'.ch, saved'.start))
  BY OpenKeepsPlace
<1>2. SessionInv /\ [Next]_vars =>
        (shared /\ Locates(book) /\ (\E s \in Styles : ChangeSetting(s, "page"))
         => /\ phase' = "reading"
            /\ book'.ch = book.ch
            /\ book'.pg = PageOf(style', book.ch, book.start))
  BY RestylingKeepsPlace
<1> QED
  BY <1>1, <1>2, SessionInvariance, PTL DEF Spec, RelayoutKeepsPlace
--------------------------------------------------------------------------------
(***************************************************************************)
(* The buttons of the menu                                                 *)
(***************************************************************************)

\* A model whose chapter has the pages of the settings stays what it is when its view
\* is built: no page is looked for.
LEMMA CurrentIsKept ==
  ASSUME NEW l \in Layouts, NEW s \in Styles, NEW m \in Modes, NEW b \in Positions,
         Current(l, s, b.ch)
  PROVE  Presented(l, b, s, m).book = b
<1>1. b.ch \in Chapters
  BY DEF Positions
<1>2. ASSUME NeedsLayout(l, b.ch) PROVE PagesAround(s, b.ch, b.start) = {}
  <2>1. b.ch \notin Unreadable /\ ~l[b.ch].force
    BY <1>2 DEF NeedsLayout, Current
  <2>2. PageCount(s, b.ch) = 0
    BY <1>1, <1>2, <2>1, CountCurrent DEF NeedsLayout
  <2> QED
    BY <2>2 DEF PagesAround
<1> QED
  BY <1>2 DEF Presented, Repaged

\* In a paged view a button shows the page it computed, of a chapter beside.
LEMMA ButtonShows ==
  ASSUME SessionInv, phase = "reading", mode = "page", phase' = "reading",
         NEW c \in Around(book.ch), NEW pg \in Int, MoveTo(lay, At(c, pg))
  PROVE  shown' = [ch |-> c, pg |-> pg] /\ 0 <= pg
<1> DEFINE b == At(c, pg)
           p == Presented(lay, b, style, mode)
<1>1. TypeOK /\ lay \in Layouts /\ style \in Styles /\ mode \in Modes
  BY InvMarked DEF SessionInv
<1>2. c \in Chapters /\ Current(lay, style, c)
  BY BookCurrent
<1>3. b \in Positions /\ b.ch = c /\ b.pg = pg
  BY <1>1, <1>2, AtType DEF At, TypeOK, Books
<1> HIDE DEF b
<1>4. p.book = b
  BY <1>1, <1>2, <1>3, CurrentIsKept
<1> DEFINE b1 == [p.book EXCEPT !.start = StartOf(p.lay, book.ch, p.book.pg)]
<1>5. Rebuild(p, b1, style, mode) /\ OnPage(p.lay, p.book)
  BY DEF MoveTo, Crash, ProcessEnds, b
<1>6. b1.ch = c /\ b1.pg = pg
  BY <1>3, <1>4 DEF Positions
<1> HIDE DEF b1, p
<1>7. shown' = [ch |-> c, pg |-> pg]
  BY <1>5, <1>6 DEF Rebuild, PlaceOf
<1>8. 0 <= pg
  BY <1>3, <1>4, <1>5 DEF OnPage, HasPage
<1> QED
  BY <1>7, <1>8

\* The pages a button computes, from the pages of the settings
LEMMA ButtonTargets ==
  ASSUME SessionInv, mode = "page", phase' = "reading", NextPage \/ PreviousPage
  PROVE  \/ shown' = PlaceAfter(style, shown)
         \/ shown = PlaceAfter(style, shown')
         \/ /\ shown.pg + 2 = PageCount(style, shown.ch)
            /\ shown' = [ch |-> shown.ch + 1, pg |-> 0]
<1> DEFINE n == PageCount(style, book.ch)
<1>1. phase = "reading"
  BY DEF NextPage, PreviousPage, InMenu
<1>2. /\ book.ch \in Chapters /\ book.pg \in Nat /\ n \in Nat
      /\ Count(lay, book.ch) = n /\ book.pg < n
      /\ \A c \in Around(book.ch) : c \in Chapters /\ Current(lay, style, c)
  BY <1>1, BookCurrent
<1>3. shown = PlaceOf(book) /\ shown.ch = book.ch /\ shown.pg = book.pg
  BY <1>1 DEF SessionInv, ScreenShowsBook, PlaceOf
<1>4. book.ch \in Around(book.ch) /\ book.ch \in Int /\ LastChapter \in Nat
  BY <1>2, AroundType, BookAssumption DEF Chapters
<1> HIDE DEF n
<1>5. CASE NextPage /\ book.pg + 1 >= n - 1
  <2>1. book.ch < LastChapter /\ MoveTo(lay, At(book.ch + 1, 0))
    BY <1>2, <1>5 DEF NextPage
  <2>2. book.ch + 1 \in Around(book.ch)
    BY <1>2, <1>4, <2>1 DEF Around, Chapters
  <2>3. shown' = [ch |-> book.ch + 1, pg |-> 0]
    BY <1>1, <2>1, <2>2, ButtonShows
  <2>4. book.pg + 1 = n \/ book.pg + 2 = n
    BY <1>2, <1>5
  <2> QED
    BY <1>2, <1>3, <2>3, <2>4 DEF PlaceAfter, n
<1>6. CASE NextPage /\ ~(book.pg + 1 >= n - 1)
  <2>1. MoveTo(lay, At(book.ch, book.pg + 1)) /\ book.pg + 1 < n /\ book.pg + 1 \in Int
    BY <1>2, <1>6 DEF NextPage
  <2>2. shown' = [ch |-> book.ch, pg |-> book.pg + 1]
    BY <1>1, <1>4, <2>1, ButtonShows
  <2> QED
    BY <1>3, <2>1, <2>2 DEF PlaceAfter, n
<1>7. CASE PreviousPage /\ book.pg - 1 < 0
  <2> DEFINE c == book.ch - 1
             k == Count(lay, c)
  <2>1. book.ch > 0 /\ MoveTo(lay, At(c, k - 1)) /\ book.pg = 0
    BY <1>2, <1>7 DEF PreviousPage
  <2>2. c \in Around(book.ch) /\ c + 1 = book.ch
    BY <1>2, <1>4, <2>1 DEF Around, Chapters
  <2>3. c \in Chapters /\ Current(lay, style, c) /\ lay \in Layouts /\ style \in Styles
    BY <1>2, <2>2, InvMarked
  <2>4. k \in Nat /\ k - 1 \in Int
    BY <2>3, CountType
  <2> HIDE DEF c, k
  <2>5. shown' = [ch |-> c, pg |-> k - 1] /\ 0 <= k - 1
    BY <1>1, <2>1, <2>2, <2>4, ButtonShows
  <2>6. k = PageCount(style, c)
    <3>1. Count(lay, c) # 0
      BY <2>4, <2>5 DEF k
    <3>2. c \notin Unreadable
      BY <3>1 DEF SessionInv, UnreadableHasNoPages, Count
    <3> QED
      BY <2>3, <3>2, CountCurrent DEF k
  <2>7. ~((k - 1) + 1 < k)
    BY <2>4
  <2>8. PlaceAfter(style, shown') = [ch |-> c + 1, pg |-> 0]
    BY <2>5, <2>6, <2>7 DEF PlaceAfter
  <2>9. shown = [ch |-> c + 1, pg |-> 0]
    BY <1>3, <2>1, <2>2 DEF PlaceOf
  <2> QED
    BY <2>8, <2>9
<1>8. CASE PreviousPage /\ ~(book.pg - 1 < 0)
  <2>1. MoveTo(lay, At(book.ch, book.pg - 1)) /\ book.pg - 1 \in Int
        /\ (book.pg - 1) + 1 = book.pg
    BY <1>2, <1>8 DEF PreviousPage
  <2>2. shown' = [ch |-> book.ch, pg |-> book.pg - 1]
    BY <1>1, <1>4, <2>1, ButtonShows
  <2>3. PlaceAfter(style, shown') = [ch |-> book.ch, pg |-> book.pg]
    BY <1>2, <2>1, <2>2 DEF PlaceAfter, n
  <2> QED
    BY <1>3, <2>3 DEF PlaceOf
<1> QED
  BY <1>5, <1>6, <1>7, <1>8

\* The buttons for the page before and the page after move the screen by one page of
\* the book, for every layout and across chapters; only the last page of a chapter can
\* be passed over (gotoNextPage, gotoPreviousPage and the handlers of the menu).
THEOREM ButtonsMove == Spec => ButtonsMoveOnePage
<1>1. SessionInv /\ [Next]_vars =>
        (mode = "page" /\ phase' = "reading" /\ (NextPage \/ PreviousPage) =>
           \/ shown' = PlaceAfter(style, shown)
           \/ shown = PlaceAfter(style, shown')
           \/ /\ shown.pg + 2 = PageCount(style, shown.ch)
              /\ shown' = [ch |-> shown.ch + 1, pg |-> 0])
  BY ButtonTargets
<1> QED
  BY <1>1, SessionInvariance, PTL DEF Spec, ButtonsMoveOnePage

--------------------------------------------------------------------------------
(***************************************************************************)
(* Where the menu ends the process                                         *)
(***************************************************************************)

\* A chapter with text has pages in every layout.
LEMMA TextHasPages ==
  ASSUME NEW s \in Styles, NEW c \in Chapters, HasText(c)
  PROVE  c \notin Unreadable /\ PageCount(s, c) \in Nat /\ PageCount(s, c) > 0
<1>1. c \notin Unreadable /\ TextLength[c] > 0 /\ TextLength[c] \in Nat
  BY BookAssumption DEF HasText
<1>2. PageStarts[s][c] \in Seq(Nat)
  BY LayoutAssumption
<1>3. PageCount(s, c) \in Nat
  BY <1>2 DEF PageCount
<1>4. PageCount(s, c) # 0
  BY <1>1, LayoutAssumption
<1> QED
  BY <1>1, <1>3, <1>4

\* The chapter of a paged view has text.
LEMMA BookHasText ==
  ASSUME SessionInv, phase = "reading", mode = "page"
  PROVE  HasText(book.ch)
<1>1. /\ book.ch \in Chapters /\ book.ch \notin Unreadable /\ style \in Styles
      /\ book.pg \in Nat /\ book.pg < PageCount(style, book.ch)
      /\ PageCount(style, book.ch) \in Nat
  BY BookCurrent, InvMarked
<1>2. PageCount(style, book.ch) # 0
  BY <1>1
<1>3. TextLength[book.ch] # 0 /\ TextLength[book.ch] \in Nat
  BY <1>1, <1>2, LayoutAssumption, BookAssumption
<1> QED
  BY <1>1, <1>3 DEF HasText

\* Laying out a chapter leaves the model on one of its pages, if it was on one of as many.
LEMMA RepagedInRange ==
  ASSUME NEW l \in Layouts, NEW s \in Styles, NEW b \in Positions, NEW C,
         PageCount(s, b.ch) \in Nat, b.pg \in 0..PageCount(s, b.ch) - 1
  PROVE  Repaged(l, s, b, C).pg \in 0..PageCount(s, b.ch) - 1
<1> DEFINE hits == PagesAround(s, b.ch, b.start)
<1>1. CASE hits # {}
  <2>1. LastOf(hits) \in hits
    BY <1>1, LastPageAround DEF Positions
  <2>2. \A q \in hits : q \in 0..PageCount(s, b.ch) - 1
    BY DEF PagesAround
  <2> HIDE DEF hits
  <2>4. LastOf(hits) \in 0..PageCount(s, b.ch) - 1
    BY <2>1, <2>2
  <2>3. Repaged(l, s, b, C).pg \in {b.pg, LastOf(hits)}
    BY DEF Repaged, hits, Positions
  <2> QED
    BY <2>3, <2>4
<1>2. CASE hits = {}
  BY <1>2 DEF Repaged
<1> QED
  BY <1>1, <1>2

\* The view made for a page of the new layout has that page or another one, which exists.
LEMMA PresentedInRange ==
  ASSUME NEW l \in Layouts, NEW s \in Styles, NEW b \in Positions, Marked(l, s),
         HasText(b.ch), b.pg \in 0..PageCount(s, b.ch) - 1
  PROVE  LET p == Presented(l, b, s, "page")
         IN  /\ OnPage(p.lay, p.book)
             /\ p.book.ch = b.ch /\ p.book.pg \in 0..PageCount(s, b.ch) - 1
             /\ p.lay \in Layouts
             /\ \A c \in Chapters : Current(l, s, c) => Current(p.lay, s, c)
<1> DEFINE p == Presented(l, b, s, "page")
           l1 == LayOut(l, s, Around(b.ch))
<1>1. "page" \in Modes /\ b.ch \in Chapters
  BY DEF Modes, Positions
<1>2. /\ b.ch \notin Unreadable /\ PageCount(s, b.ch) \in Nat
      /\ p.lay \in Layouts /\ p.book.ch = b.ch
  BY <1>1, TextHasPages, PresentedType
<1>3. p.book.pg \in 0..PageCount(s, b.ch) - 1
  <2>1. p.book = Repaged(l, s, b, Around(b.ch))
    BY DEF Presented
  <2> QED
    BY <1>2, <2>1, RepagedInRange
<1>4. Current(p.lay, s, b.ch)
  BY <1>1, AroundType, PresentedMarked
<1>5. OnPage(p.lay, p.book)
  BY <1>1, <1>2, <1>3, <1>4, PlacedOnPage DEF OnPage
<1>6. p.lay = LayOut(l1, s, {})
  BY DEF Presented
<1>7. l1 \in Layouts /\ Marked(l1, s) /\ \A c \in Chapters : Current(l, s, c) => Current(l1, s, c)
  BY LayOutType, LayOutMarked
<1> HIDE DEF l1
<1>8. \A c \in Chapters : Current(l, s, c) => Current(p.lay, s, c)
  BY <1>6, <1>7, LayOutMarked
<1> HIDE DEF p
<1> QED
  BY <1>2, <1>3, <1>5, <1>8 DEF p

\* The common end of the handlers of the menu does not fail, if the page is one of the
\* new layout, and the chapter left has as many pages or the page is not looked for.
LEMMA MoveIsMade ==
  ASSUME SessionInv, phase = "reading", mode = "page", shared,
         NEW l \in Layouts, Marked(l, style), Current(l, style, book.ch),
         NEW b \in Positions, HasText(b.ch), b.pg \in 0..PageCount(style, b.ch) - 1,
         \/ PageCount(style, b.ch) <= PageCount(style, book.ch)
         \/ Current(l, style, b.ch) /\ b.pg < PageCount(style, book.ch),
         MoveTo(l, b)
  PROVE  phase' = "reading"
<1> DEFINE p == Presented(l, b, style, mode)
<1>1. /\ style \in Styles /\ b.ch \in Chapters /\ book.ch \in Chapters
      /\ book.ch \notin Unreadable /\ PageCount(style, book.ch) \in Nat
  BY BookCurrent, InvMarked DEF Positions
<1>2. /\ OnPage(p.lay, p.book) /\ p.book.pg \in 0..PageCount(style, b.ch) - 1
      /\ p.lay \in Layouts /\ Current(p.lay, style, book.ch)
      /\ PageCount(style, b.ch) \in Nat
  BY <1>1, PresentedInRange, TextHasPages
<1>3. p.book.pg \in 0..PageCount(style, book.ch) - 1
  <2>1. CASE PageCount(style, b.ch) <= PageCount(style, book.ch)
    BY <1>1, <1>2, <2>1
  <2>2. CASE Current(l, style, b.ch) /\ b.pg < PageCount(style, book.ch)
    <3>1. p.book = b
      BY <1>1, <2>2, CurrentIsKept, InvMarked
    <3> QED
      BY <1>1, <1>2, <2>2, <3>1
  <2> QED
    BY <2>1, <2>2
<1>4. HasPage(p.lay, book.ch, p.book.pg)
  BY <1>1, <1>2, <1>3, PlacedOnPage
<1>5. phase' = phase
  BY <1>2, <1>4 DEF MoveTo, Rebuild
<1> QED
  BY <1>5

\* The same for a page of the chapter read or of one beside it, whose pages are those of
\* the settings
LEMMA BesideIsMade ==
  ASSUME SessionInv, phase = "reading", mode = "page", shared,
         NEW c \in Around(book.ch), HasText(c), NEW pg \in 0..PageCount(style, c) - 1,
         pg < PageCount(style, book.ch), MoveTo(lay, At(c, pg))
  PROVE  phase' = "reading"
<1>1. /\ TypeOK /\ lay \in Layouts /\ style \in Styles /\ Marked(lay, style)
      /\ book.ch \in Chapters /\ c \in Chapters
      /\ Current(lay, style, c) /\ Current(lay, style, book.ch)
  BY BookCurrent, InvMarked, AroundType DEF SessionInv
<1>2. pg \in Int
  BY <1>1, TextHasPages
<1> DEFINE b == At(c, pg)
<1>3. b \in Positions /\ b.ch = c /\ b.pg = pg
  BY <1>1, <1>2, AtFields
<1> HIDE DEF b
<1> QED
  BY <1>1, <1>3, MoveIsMade DEF b

\* The buttons
LEMMA ButtonsAreMade ==
  ASSUME SessionInv, phase = "reading", mode = "page", shared
  PROVE  /\ NextPage \/ NextChapter => ~HasText(book.ch + 1) \/ phase' = "reading"
         /\ PreviousChapter => ~HasText(book.ch - 1) \/ phase' = "reading"
         /\ PreviousPage => \/ ~HasText(book.ch - 1) \/ phase' = "reading"
                            \/ PageCount(style, book.ch - 1) > PageCount(style, book.ch)
         /\ \A pg \in 0..Count(lay, book.ch) - 1 : DragToPage(pg) => phase' = "reading"
<1> DEFINE n == PageCount(style, book.ch)
<1>1. /\ book.ch \in Chapters /\ book.pg \in Nat /\ n \in Nat
      /\ Count(lay, book.ch) = n /\ book.pg < n
      /\ book.ch \in Around(book.ch) /\ book.ch \in Int /\ LastChapter \in Nat
      /\ HasText(book.ch) /\ style \in Styles
  BY BookCurrent, BookHasText, AroundType, InvMarked, BookAssumption DEF Chapters
<1> HIDE DEF n
<1>2. ASSUME book.ch < LastChapter, HasText(book.ch + 1), MoveTo(lay, At(book.ch + 1, 0))
      PROVE  phase' = "reading"
  <2>1. book.ch + 1 \in Around(book.ch) /\ book.ch + 1 \in Chapters
    BY <1>1, <1>2 DEF Around, Chapters
  <2>2. 0 \in 0..PageCount(style, book.ch + 1) - 1
    BY <1>1, <1>2, <2>1, TextHasPages
  <2> QED
    BY <1>1, <1>2, <2>1, <2>2, BesideIsMade DEF n
<1>3. ASSUME NEW pg \in 0..n - 1, MoveTo(lay, At(book.ch, pg))
      PROVE  phase' = "reading"
  BY <1>1, <1>3, BesideIsMade DEF n
<1>4. ASSUME book.ch > 0, HasText(book.ch - 1),
             NEW pg \in 0..PageCount(style, book.ch - 1) - 1, pg < n,
             MoveTo(lay, At(book.ch - 1, pg))
      PROVE  phase' = "reading"
  <2>1. book.ch - 1 \in Around(book.ch)
    BY <1>1, <1>4 DEF Around, Chapters
  <2> QED
    BY <1>1, <1>4, <2>1, BesideIsMade DEF n
<1>5. book.ch > 0 => book.ch - 1 \in Chapters /\ book.ch - 1 \in Around(book.ch)
  BY <1>1 DEF Around, Chapters
<1>6. NextPage => ~HasText(book.ch + 1) \/ phase' = "reading"
  <2> SUFFICES ASSUME NextPage, HasText(book.ch + 1) PROVE phase' = "reading"
    OBVIOUS
  <2>1. CASE book.pg + 1 >= n - 1
    BY <1>1, <1>2, <2>1 DEF NextPage
  <2>2. CASE ~(book.pg + 1 >= n - 1)
    <3>1. book.pg + 1 \in 0..n - 1
      BY <1>1, <2>2
    <3> QED
      BY <1>1, <1>3, <2>2, <3>1 DEF NextPage
  <2> QED
    BY <2>1, <2>2
<1>7. NextChapter => ~HasText(book.ch + 1) \/ phase' = "reading"
  BY <1>2 DEF NextChapter
<1>8. PreviousChapter => ~HasText(book.ch - 1) \/ phase' = "reading"
  <2> SUFFICES ASSUME PreviousChapter, HasText(book.ch - 1) PROVE phase' = "reading"
    OBVIOUS
  <2>1. book.ch > 0 /\ MoveTo(lay, At(book.ch - 1, 0))
    BY DEF PreviousChapter
  <2>2. 0 \in 0..PageCount(style, book.ch - 1) - 1 /\ 0 < n
    BY <1>1, <1>5, <2>1, TextHasPages
  <2> QED
    BY <1>4, <2>1, <2>2
<1>9. PreviousPage => \/ ~HasText(book.ch - 1) \/ phase' = "reading"
                      \/ PageCount(style, book.ch - 1) > n
  <2> SUFFICES ASSUME PreviousPage, HasText(book.ch - 1),
                      ~(PageCount(style, book.ch - 1) > n)
               PROVE  phase' = "reading"
    OBVIOUS
  <2>1. CASE book.pg - 1 < 0
    <3> DEFINE k == PageCount(style, book.ch - 1)
    <3>1. book.ch > 0 /\ MoveTo(lay, At(book.ch - 1, Count(lay, book.ch - 1) - 1))
      BY <2>1 DEF PreviousPage
    <3>2. k \in Nat /\ k > 0 /\ Count(lay, book.ch - 1) = k
      BY <1>1, <1>5, <3>1, TextHasPages, CountCurrent, BookCurrent, InvMarked
    <3>3. k - 1 \in 0..k - 1 /\ k - 1 < n
      BY <1>1, <3>2
    <3> QED
      BY <1>4, <3>1, <3>2, <3>3
  <2>2. CASE ~(book.pg - 1 < 0)
    <3>1. book.pg - 1 \in 0..n - 1
      BY <1>1, <2>2
    <3> QED
      BY <1>3, <2>2, <3>1 DEF PreviousPage
  <2> QED
    BY <2>1, <2>2
<1>10. \A pg \in 0..Count(lay, book.ch) - 1 : DragToPage(pg) => phase' = "reading"
  BY <1>1, <1>3 DEF DragToPage
<1> QED
  BY <1>6, <1>7, <1>8, <1>9, <1>10 DEF n

\* What a handler that pages chapter 0 for a chapter without pages leaves of the pages
LEMMA PagedForMarked ==
  ASSUME SessionInv, phase = "reading", mode = "page", NEW c \in Chapters, NEW pg \in Int
  PROVE  LET q == PagedFor(c, At(c, pg))
         IN  /\ q.lay \in Layouts /\ Marked(q.lay, style) /\ Current(q.lay, style, book.ch)
             /\ q.book \in Positions /\ q.book.ch = c
             /\ Count(lay, c) # 0 => q.lay = lay /\ q.book = At(c, pg)
<1> DEFINE q == PagedFor(c, At(c, pg))
<1>1. /\ TypeOK /\ lay \in Layouts /\ style \in Styles /\ Marked(lay, style)
      /\ book.ch \in Chapters /\ Current(lay, style, book.ch)
  BY BookCurrent, InvMarked, AroundType DEF SessionInv
<1>2. At(c, pg) \in Positions /\ At(c, pg).ch = c /\ q.lay \in Layouts /\ q.book \in Positions
  BY <1>1, AtFields, AtType
<1>3. Count(lay, c) # 0 => q.lay = lay /\ q.book = At(c, pg)
  BY DEF PagedFor
<1>4. Marked(q.lay, style) /\ Current(q.lay, style, book.ch)
  <2>1. q.lay \in {lay, LayOut(lay, style, DefaultPaging)}
    BY DEF PagedFor
  <2> QED
    BY <1>1, <2>1, LayOutMarked
<1>5. q.book.ch = c
  <2>1. q.book \in {At(c, pg), Repaged(lay, style, At(c, pg), DefaultPaging)}
    BY DEF PagedFor
  <2> QED
    BY <1>1, <1>2, <2>1, RepagedType
<1> QED
  BY <1>2, <1>3, <1>4, <1>5

\* The slider, between chapters
LEMMA DragIsMade ==
  ASSUME SessionInv, phase = "reading", mode = "page", shared, NEW c \in Chapters,
         DragToChapter(c), HasText(c), PageCount(style, c) <= PageCount(style, book.ch),
         c = LastChapter => UpToDate(c)
  PROVE  phase' = "reading"
<1> DEFINE l  == PagedFor(c, At(c, book.pg)).lay
           pg == IF c = LastChapter THEN Count(l, c) - 1 ELSE 0
           b  == At(c, pg)
<1>1. /\ TypeOK /\ style \in Styles /\ lay \in Layouts /\ book.pg \in Int
      /\ c \notin Unreadable /\ PageCount(style, c) \in Nat /\ PageCount(style, c) > 0
  BY InvMarked, TextHasPages, BookCurrent DEF SessionInv
<1>2. /\ l \in Layouts /\ Marked(l, style) /\ Current(l, style, book.ch)
      /\ Count(lay, c) # 0 => l = lay
  BY <1>1, PagedForMarked
<1>3. MoveTo(l, b)
  BY DEF DragToChapter
<1> HIDE DEF l
<1>4. pg \in 0..PageCount(style, c) - 1
  <2>1. CASE c = LastChapter
    <3>1. Count(lay, c) = PageCount(style, c)
      BY <1>1, <2>1, CountCurrent DEF UpToDate, Current
    <3>2. l = lay
      BY <1>1, <1>2, <3>1
    <3> QED
      BY <1>1, <2>1, <3>1, <3>2
  <2>2. CASE c # LastChapter
    BY <1>1, <2>2
  <2> QED
    BY <2>1, <2>2
<1>5. pg \in Int
  BY <1>1, <1>4
<1> HIDE DEF pg
<1>6. b \in Positions /\ b.ch = c /\ b.pg = pg
  BY <1>1, <1>5, AtFields
<1> HIDE DEF b
<1> QED
  BY <1>2, <1>3, <1>4, <1>6, MoveIsMade

\* The chapter list
LEMMA JumpIsMade ==
  ASSUME SessionInv, phase = "reading", mode = "page", shared, NEW pl \in ListTargets,
         GoToChapter(pl.ch, pl.pg), HasText(pl.ch)
  PROVE  phase' = "reading"
<1> DEFINE q == PagedFor(pl.ch, At(pl.ch, pl.pg))
           p == Presented(q.lay, q.book, style, mode)
<1>1. /\ TypeOK /\ style \in Styles /\ lay \in Layouts
      /\ book.ch \in Chapters /\ Count(lay, book.ch) = PageCount(style, book.ch)
      /\ PageCount(style, book.ch) \in Nat
  BY InvMarked, BookCurrent DEF SessionInv
<1>2. /\ pl.ch \in Chapters /\ pl.pg \in 0..Count(lay, book.ch)
      /\ IF pl.ch = book.ch THEN pl.pg < Count(lay, book.ch) ELSE pl.pg = 0
  BY DEF ListTargets
<1>3. /\ PageCount(style, pl.ch) \in Nat /\ PageCount(style, pl.ch) > 0
      /\ pl.pg \in Int
  BY <1>1, <1>2, TextHasPages
<1>4. pl.pg \in 0..PageCount(style, pl.ch) - 1
  BY <1>1, <1>2, <1>3
<1>5. /\ At(pl.ch, pl.pg) \in Positions /\ At(pl.ch, pl.pg).ch = pl.ch
      /\ At(pl.ch, pl.pg).pg = pl.pg
  BY <1>1, <1>2, <1>3, AtFields
<1>6. q.lay \in Layouts /\ Marked(q.lay, style) /\ q.book \in Positions /\ q.book.ch = pl.ch
  BY <1>2, <1>3, PagedForMarked
<1>7. q.book.pg \in 0..PageCount(style, pl.ch) - 1
  <2>1. q.book \in {At(pl.ch, pl.pg), Repaged(lay, style, At(pl.ch, pl.pg), DefaultPaging)}
    BY DEF PagedFor
  <2> QED
    BY <1>1, <1>3, <1>4, <1>5, <2>1, RepagedInRange
<1> HIDE DEF q
<1>8. OnPage(p.lay, p.book)
  BY <1>1, <1>6, <1>7, PresentedInRange
<1>9. phase' = phase
  BY <1>8 DEF GoToChapter, Rebuild, q
<1> QED
  BY <1>9

\* A change to the scroll view: the pages stay, and with them that of the model.
LEMMA ScrollIsMade ==
  ASSUME SessionInv, phase = "reading", mode = "page", shared, ChangeSetting(style, "scroll")
  PROVE  phase' = "reading"
<1> DEFINE l  == Forced(lay)
           l1 == LayOut(l, style, DefaultPaging)
           p  == Presented(l, book, style, "scroll")
           n  == PageCount(style, book.ch)
           ahead == IF "scroll" = "scroll" /\ Count(l1, book.ch) <= 1
                    THEN {c \in {book.ch + 1} \cap Chapters : Count(l1, c) = 0}
                    ELSE {}
<1>1. /\ style \in Styles /\ lay \in Layouts /\ book.ch \in Chapters /\ book.pg \in Nat
      /\ book.ch \notin Unreadable /\ lay[book.ch] = [by |-> style, force |-> FALSE]
      /\ n \in Nat /\ book.pg < n /\ style # NoStyle /\ book.ch \in Int
  BY InvMarked, BookCurrent, BookAssumption DEF Chapters
<1>2. book \in Positions /\ l \in Layouts /\ l[book.ch].by = style
  BY <1>1 DEF SessionInv, TypeOK, Books, Positions, Forced, Layouts
<1> HIDE DEF l
<1>3. l1 \in Layouts /\ l1[book.ch].by = style
  BY <1>1, <1>2, LayOutType DEF LayOut
<1>4. p.lay = LayOut(l1, style, ahead)
  BY DEF Presented
<1> HIDE DEF l1, ahead
<1>5. p.lay[book.ch].by = style
  BY <1>1, <1>3, <1>4 DEF LayOut
<1>6. Count(p.lay, book.ch) = n
  BY <1>1, <1>5 DEF Count
<1>7. p.book = Repaged(l, style, book, DefaultPaging)
  BY DEF Presented
<1>8. p.book.pg \in 0..n - 1 /\ p.book.ch = book.ch
  <2>1. book.pg \in 0..n - 1
    BY <1>1
  <2> QED
    BY <1>1, <1>2, <1>7, <2>1, RepagedInRange, RepagedType
<1>9. OnPage(p.lay, p.book)
  BY <1>1, <1>6, <1>8 DEF OnPage, HasPage
<1>10. phase' = phase
  BY <1>9 DEF ChangeSetting, Rebuild, l
<1> QED
  BY <1>10

\* The settings
LEMMA RestylingIsMade ==
  ASSUME SessionInv, phase = "reading", mode = "page", shared, Restyling, Locates(book)
  PROVE  phase' = "reading"
<1>1. PICK s \in Styles, m \in Modes : ChangeSetting(s, m)
  BY DEF Restyling
<1>2. CASE m = "page"
  BY <1>1, <1>2, RestylingKeepsPlace
<1>3. CASE m = "scroll"
  <2>1. s = style
    BY <1>1, <1>3 DEF ChangeSetting
  <2> QED
    BY <1>1, <1>3, <2>1, ScrollIsMade
<1> QED
  BY <1>2, <1>3 DEF Modes

\* In a paged view the menu, the slider, the chapter list and the settings end the process
\* only in the cases named, for every book, every layout and every past of the session: the
\* pages of the chapter read and of its neighbours are those of the settings, and a jump
\* lays out its target before it is shown (WLReaderContainer+Menu.swift, goToChapter).
THEOREM MenuCrashes == Spec => MenuCrashesForAReason
<1>1. SessionInv /\ [Next]_vars =>
        (phase = "reading" /\ mode = "page" /\ shared /\ phase' = "crashed" =>
           /\ NextPage \/ NextChapter => ~HasText(book.ch + 1)
           /\ PreviousChapter => ~HasText(book.ch - 1)
           /\ PreviousPage => \/ ~HasText(book.ch - 1)
                              \/ PageCount(style, book.ch - 1) > PageCount(style, book.ch)
           /\ \A c \in Chapters : DragToChapter(c) =>
                \/ ~HasText(c)
                \/ PageCount(style, c) > PageCount(style, book.ch)
                \/ c = LastChapter /\ ~UpToDate(c)
           /\ ~ \E pg \in 0..Count(lay, book.ch) - 1 : DragToPage(pg)
           /\ \A pl \in ListTargets : GoToChapter(pl.ch, pl.pg) => ~HasText(pl.ch)
           /\ Restyling => ~Locates(book))
  <2> SUFFICES ASSUME SessionInv, phase = "reading", mode = "page", shared, phase' = "crashed"
               PROVE  /\ NextPage \/ NextChapter => ~HasText(book.ch + 1)
                      /\ PreviousChapter => ~HasText(book.ch - 1)
                      /\ PreviousPage =>
                           \/ ~HasText(book.ch - 1)
                           \/ PageCount(style, book.ch - 1) > PageCount(style, book.ch)
                      /\ \A c \in Chapters : DragToChapter(c) =>
                           \/ ~HasText(c)
                           \/ PageCount(style, c) > PageCount(style, book.ch)
                           \/ c = LastChapter /\ ~UpToDate(c)
                      /\ ~ \E pg \in 0..Count(lay, book.ch) - 1 : DragToPage(pg)
                      /\ \A pl \in ListTargets : GoToChapter(pl.ch, pl.pg) => ~HasText(pl.ch)
                      /\ Restyling => ~Locates(book)
    OBVIOUS
  <2>1. ASSUME NEW c \in Chapters, DragToChapter(c)
        PROVE  \/ ~HasText(c)
               \/ PageCount(style, c) > PageCount(style, book.ch)
               \/ c = LastChapter /\ ~UpToDate(c)
    <3> SUFFICES ASSUME HasText(c), ~(PageCount(style, c) > PageCount(style, book.ch)),
                        c = LastChapter => UpToDate(c)
                 PROVE  FALSE
      OBVIOUS
    <3>1. PageCount(style, c) <= PageCount(style, book.ch)
      BY TextHasPages, BookCurrent, InvMarked
    <3> QED
      BY <2>1, <3>1, DragIsMade
  <2>2. ASSUME NEW pl \in ListTargets, GoToChapter(pl.ch, pl.pg) PROVE ~HasText(pl.ch)
    BY <2>2, JumpIsMade
  <2>3. Restyling => ~Locates(book)
    BY RestylingIsMade
  <2>4. phase' # "reading"
    OBVIOUS
  <2> QED
    BY <2>1, <2>2, <2>3, <2>4, ButtonsAreMade
<1> QED
  BY <1>1, SessionInvariance, PTL DEF Spec, MenuCrashesForAReason

--------------------------------------------------------------------------------
(***************************************************************************)
(* A book of one chapter                                                   *)
(***************************************************************************)

\* The book has one chapter, which can be read and has text.
OneChapter == LastChapter = 0 /\ HasText(0)

\* The open book's chapter has the pages of the settings, the model is on one of them,
\* and so is every record that finds its controller.
OneInv ==
  phase = "reading" =>
    /\ lay[0] = [by |-> style, force |-> FALSE]
    /\ book.pg < PageCount(style, 0)
    /\ \A x \in blocks : x.alive => x.at # "fault" /\ x.pg < PageCount(style, 0)

\* The reasons of EndsForAReason
Reason ==
  \/ phase = "reading" /\ ~shared
  \/ \E x \in blocks : x.at \in {"pages", "fault"} /\ ~x.alive
  \/ phase = "reading" /\ ~Locates(book)
  \/ phase = "closed" /\ ~Locates(saved)

\* A step that keeps the invariant and ends the process only for a reason
Reasoned == OneInv' /\ (phase' = "crashed" /\ phase # "crashed" => Reason)

\* The chapter is 0, and it has pages in every layout.
LEMMA OneChapters ==
  ASSUME OneChapter
  PROVE  /\ Chapters = {0} /\ 0 \notin Unreadable
         /\ \A s \in Styles : PageCount(s, 0) \in Nat /\ PageCount(s, 0) > 0
<1>1. Chapters = {0} /\ 0 \notin Unreadable /\ TextLength[0] > 0
  BY DEF OneChapter, HasText, Chapters
<1>2. TextLength[0] \in Nat
  BY <1>1, BookAssumption
<1>3. ASSUME NEW s \in Styles PROVE PageCount(s, 0) \in Nat /\ PageCount(s, 0) > 0
  <2>1. PageStarts[s][0] \in Seq(Nat)
    BY <1>1, LayoutAssumption
  <2>2. PageCount(s, 0) \in Nat
    BY <2>1 DEF PageCount
  <2>3. PageCount(s, 0) # 0
    BY <1>1, <1>2, LayoutAssumption
  <2> QED
    BY <2>2, <2>3
<1> QED
  BY <1>1, <1>3

\* With the pages of the settings a page exists if it is one of their number.
LEMMA OnePage ==
  ASSUME OneChapter, NEW l \in Layouts, NEW s \in Styles, l[0] = [by |-> s, force |-> FALSE]
  PROVE  /\ Current(l, s, 0) /\ ~NeedsLayout(l, 0)
         /\ Count(l, 0) = PageCount(s, 0)
         /\ \A pg : HasPage(l, 0, pg) <=> (0 <= pg /\ pg < PageCount(s, 0))
<1>1. Current(l, s, 0) /\ 0 \in Chapters /\ 0 \notin Unreadable
  BY OneChapters DEF Current
<1>2. Count(l, 0) = PageCount(s, 0) /\ PageCount(s, 0) \in Nat /\ PageCount(s, 0) > 0
  BY <1>1, CountCurrent, OneChapters
<1>3. ~NeedsLayout(l, 0)
  BY <1>2 DEF NeedsLayout
<1> QED
  BY <1>1, <1>2, <1>3 DEF HasPage

\* A new view has the pages of its settings.
LEMMA OnePresented ==
  ASSUME OneChapter, NEW l \in Layouts, NEW b \in Positions, NEW s \in Styles,
         NEW m \in Modes, Marked(l, s)
  PROVE  /\ Presented(l, b, s, m).lay \in Layouts
         /\ Presented(l, b, s, m).lay[0] = [by |-> s, force |-> FALSE]
<1> DEFINE C  == IF m = "page" THEN Around(b.ch) ELSE DefaultPaging
           l1 == LayOut(l, s, C)
           ahead == IF m = "scroll" /\ Count(l1, b.ch) <= 1
                    THEN {c \in {b.ch + 1} \cap Chapters : Count(l1, c) = 0}
                    ELSE {}
<1>1. Presented(l, b, s, m).lay = LayOut(l1, s, ahead)
  BY DEF Presented
<1>2. 0 \in C /\ 0 \in Chapters /\ 0 \notin Unreadable
  BY OneChapters DEF Around, DefaultPaging
<1>3. l1 \in Layouts /\ Marked(l1, s) /\ Current(l1, s, 0)
  BY <1>2, LayOutType, LayOutMarked
<1> HIDE DEF l1, ahead
<1>4. Current(LayOut(l1, s, ahead), s, 0) /\ LayOut(l1, s, ahead) \in Layouts
  BY <1>2, <1>3, LayOutType, LayOutMarked
<1> QED
  BY <1>1, <1>2, <1>4 DEF Current

\* A view built again for an existing page keeps the invariant.
LEMMA OneRebuild ==
  ASSUME OneChapter, SessionInv, NEW l \in Layouts, NEW b \in Positions, NEW s \in Styles,
         NEW m \in Modes, Marked(l, s), NEW b1,
         Rebuild(Presented(l, b, s, m), b1, s, m), b1.pg < PageCount(s, 0)
  PROVE  OneInv'
<1> DEFINE p == Presented(l, b, s, m)
<1>1. p.lay[0] = [by |-> s, force |-> FALSE]
  BY OnePresented
<1>2. lay' = p.lay /\ style' = s /\ book' = b1 /\ blocks' = Orphaned(blocks)
  BY DEF Rebuild
<1>3. \A x \in blocks' : ~x.alive
  BY <1>2, OrphanedType DEF SessionInv, TypeOK
<1> HIDE DEF p
<1> QED
  BY <1>1, <1>2, <1>3 DEF OneInv

\* What the open book's invariant says of the places the menu moves to
LEMMA OneBook ==
  ASSUME OneChapter, SessionInv, OneInv, phase = "reading"
  PROVE  /\ book \in Books /\ book.ch = 0 /\ book.pg \in Nat /\ book.pg < PageCount(style, 0)
         /\ PageCount(style, 0) \in Nat
         /\ lay \in Layouts /\ style \in Styles /\ mode \in Modes /\ Marked(lay, style)
         /\ lay[0] = [by |-> style, force |-> FALSE]
         /\ Count(lay, 0) = PageCount(style, 0)
         /\ HasPage(lay, 0, book.pg) /\ OnPage(lay, book)
         /\ \A pg \in Nat : pg < PageCount(style, 0) =>
              At(0, pg) \in Positions /\ At(0, pg).ch = 0 /\ At(0, pg).pg = pg
<1>1. lay \in Layouts /\ style \in Styles /\ mode \in Modes /\ Marked(lay, style)
  BY InvMarked
<1>2. book \in Books /\ book.ch = 0 /\ book.pg \in Nat
  BY OneChapters DEF SessionInv, TypeOK, Books
<1>3. /\ lay[0] = [by |-> style, force |-> FALSE] /\ book.pg < PageCount(style, 0)
      /\ PageCount(style, 0) \in Nat
  BY <1>1, OneChapters DEF OneInv
<1>4. Count(lay, 0) = PageCount(style, 0) /\ HasPage(lay, 0, book.pg)
  BY <1>1, <1>2, <1>3, OnePage
<1>5. ASSUME NEW pg \in Nat
      PROVE  At(0, pg) \in Positions /\ At(0, pg).ch = 0 /\ At(0, pg).pg = pg
  <2>1. 0 \in Chapters /\ TypeOK /\ pg \in Int
    BY OneChapters DEF SessionInv
  <2>2. At(0, pg) \in Positions
    BY <2>1, AtType
  <2> QED
    BY <1>2, <2>2 DEF At, Books
<1> QED
  BY <1>1, <1>2, <1>3, <1>4, <1>5 DEF OnPage

\* A move of the menu to an existing page needs only the shared model.
LEMMA OneMove ==
  ASSUME OneChapter, SessionInv, OneInv, phase = "reading", NEW pg \in Nat,
         pg < PageCount(style, 0), MoveTo(lay, At(0, pg))
  PROVE  Reasoned
<1> DEFINE b  == At(0, pg)
           p  == Presented(lay, b, style, mode)
           b1 == [p.book EXCEPT !.start = StartOf(p.lay, book.ch, p.book.pg)]
<1>1. /\ book.ch = 0 /\ lay \in Layouts /\ style \in Styles /\ mode \in Modes
      /\ Marked(lay, style) /\ b \in Positions /\ b.ch = 0 /\ b.pg = pg
      /\ lay[0] = [by |-> style, force |-> FALSE]
  BY OneBook
<1> HIDE DEF b
<1>2. Current(lay, style, b.ch)
  BY <1>1, OnePage
<1>3. p.book = b
  BY <1>1, <1>2, CurrentIsKept
<1>4. p.lay \in Layouts /\ p.lay[0] = [by |-> style, force |-> FALSE]
  BY <1>1, OnePresented
<1>5. OnPage(p.lay, p.book) /\ HasPage(p.lay, book.ch, p.book.pg)
  BY <1>1, <1>3, <1>4, OnePage DEF OnPage
<1>6. CASE shared
  <2>1. Rebuild(p, b1, style, mode)
    BY <1>5, <1>6 DEF MoveTo, b
  <2>2. b1.pg = pg
    BY <1>1, <1>3 DEF Positions
  <2>3. phase' = phase
    BY <2>1 DEF Rebuild
  <2> HIDE DEF b1
  <2> QED
    BY <1>1, <2>1, <2>2, <2>3, OneRebuild DEF Reasoned
<1>7. CASE ~shared
  <2>1. Crash
    BY <1>7 DEF MoveTo
  <2> QED
    BY <1>7, <2>1 DEF Crash, ProcessEnds, Reasoned, OneInv, Reason
<1> QED
  BY <1>6, <1>7

\* A book whose row locates its page opens.
LEMMA OneOpen ==
  ASSUME OneChapter, SessionInv, Open
  PROVE  Reasoned
<1> DEFINE s == config.style
           r == ReadModel
           l == LayOut(Unpaged, s, {r.ch})
           b == Repaged(Unpaged, s, r, {r.ch})
           p == Presented(l, OpenedModel, s, config.mode)
<1>1. /\ s \in Styles /\ config.mode \in Modes /\ TypeOK /\ saved \in Rows
      /\ Unpaged \in Layouts /\ Marked(Unpaged, s)
  BY UnpagedMarked DEF SessionInv, TypeOK
<1>2. /\ Chapters = {0} /\ 0 \notin Unreadable
      /\ PageCount(s, 0) \in Nat /\ PageCount(s, 0) > 0
  BY <1>1, OneChapters
<1>3. r \in Books /\ r \in Positions /\ r.ch = 0
  BY <1>1, <1>2 DEF ReadModel, FrontPage, Rows, Books, Positions
<1>4. NeedsLayout(Unpaged, r.ch)
  BY <1>2, <1>3 DEF NeedsLayout, Unpaged, Count
<1>5. l \in Layouts /\ Marked(l, s) /\ l[0] = [by |-> s, force |-> FALSE]
  <2>1. l \in Layouts /\ Marked(l, s) /\ Current(l, s, 0)
    BY <1>1, <1>2, <1>3, LayOutType, LayOutMarked
  <2> HIDE DEF l
  <2> QED
    BY <1>2, <2>1 DEF Current
<1>6. Current(l, s, 0) /\ Count(l, 0) = PageCount(s, 0)
  BY <1>1, <1>5, OnePage
<1>7. OpenedModel \in Positions /\ OpenedModel.ch = 0
  BY <1>1, <1>2, OpenedType DEF Positions
<1>8. p.lay \in Layouts /\ p.lay[0] = [by |-> s, force |-> FALSE] /\ p.book = OpenedModel
  BY <1>1, <1>5, <1>6, <1>7, OnePresented, CurrentIsKept
<1>9. OnPage(p.lay, p.book) <=> (0 <= OpenedModel.pg /\ OpenedModel.pg < PageCount(s, 0))
  BY <1>1, <1>7, <1>8, OnePage DEF OnPage
<1>10. ASSUME Locates(saved) PROVE 0 <= OpenedModel.pg /\ OpenedModel.pg < PageCount(s, 0)
  <2>1. Locates(r)
    <3>1. CASE saved.has
      BY <1>10, <3>1 DEF ReadModel, Locates
    <3>2. CASE ~saved.has
      BY <3>2 DEF ReadModel, FrontPage, Locates, OneChapter, HasText
    <3> QED
      BY <3>1, <3>2
  <2>2. b.pg = PageOf(s, r.ch, r.start) /\ b.pg \in 0..PageCount(s, 0) - 1
    BY <1>1, <1>3, <1>4, <2>1, RepagedKeepsPlace
  <2>3. OpenedModel.pg \in {b.pg, Count(l, 0) - 1}
    BY <1>3 DEF OpenedModel
  <2> HIDE DEF b, l
  <2> QED
    BY <1>2, <1>6, <2>2, <2>3
<1>11. \A x \in blocks : ~x.alive
  BY DEF Open, SessionInv, RecordsAreOfTheView
<1>12. CASE OnPage(p.lay, p.book)
  <2>1. /\ phase' = "reading" /\ lay' = p.lay /\ style' = s /\ book' = p.book
        /\ blocks' = blocks
    BY <1>12 DEF Open
  <2> HIDE DEF p, s
  <2> QED
    BY <1>8, <1>9, <1>11, <1>12, <2>1 DEF OneInv, Reasoned
<1>13. CASE ~OnPage(p.lay, p.book)
  <2>1. Crash /\ phase # "reading"
    BY <1>13 DEF Open
  <2>2. ~Locates(saved)
    BY <1>9, <1>10, <1>13
  <2>3. phase \in {"closed", "reading", "crashed"}
    BY <1>1 DEF TypeOK
  <2> QED
    BY <2>1, <2>2, <2>3 DEF Crash, ProcessEnds, Reasoned, OneInv, Reason
<1> QED
  BY <1>12, <1>13

\* A change of the settings needs the shared model, and a model that locates its page.
LEMMA OneRestyling ==
  ASSUME OneChapter, SessionInv, OneInv, NEW s \in Styles, NEW m \in Modes, ChangeSetting(s, m)
  PROVE  Reasoned
<1> DEFINE l == Forced(lay)
           p == Presented(l, book, s, m)
<1>1. /\ phase = "reading" /\ book \in Books /\ book \in Positions /\ book.ch = 0
      /\ lay \in Layouts
  BY OneBook DEF ChangeSetting, InMenu, Books, Positions
<1>2. l \in Layouts /\ Marked(l, s) /\ NeedsLayout(l, 0)
  BY <1>1, InvMarked, OneChapters DEF Forced, Layouts, Marked, NeedsLayout
<1> HIDE DEF l
<1>3. p.lay \in Layouts /\ p.lay[0] = [by |-> s, force |-> FALSE] /\ p.book.ch = 0
  BY <1>1, <1>2, OnePresented, PresentedType
<1>4. ASSUME Locates(book) PROVE OnPage(p.lay, p.book)
  <2> DEFINE C == IF m = "page" THEN Around(book.ch) ELSE DefaultPaging
  <2>1. p.book = Repaged(l, s, book, C) /\ 0 \in C
    BY DEF Presented, Around, DefaultPaging
  <2> HIDE DEF C
  <2>2. p.book.pg \in 0..PageCount(s, 0) - 1
    BY <1>1, <1>2, <1>4, <2>1, RepagedKeepsPlace
  <2>3. PageCount(s, 0) \in Nat
    BY OneChapters
  <2> HIDE DEF p
  <2>4. 0 <= p.book.pg /\ p.book.pg < PageCount(s, 0)
    BY <2>2, <2>3
  <2> QED
    BY <1>3, <2>4, OnePage DEF OnPage
<1>5. CASE shared /\ OnPage(p.lay, p.book)
  <2>1. Rebuild(p, p.book, s, m)
    BY <1>5 DEF ChangeSetting, l
  <2>2. p.book.pg < PageCount(s, 0)
    BY <1>3, <1>5, OnePage DEF OnPage
  <2>3. phase' = "reading"
    BY <1>1, <2>1 DEF Rebuild
  <2> QED
    BY <1>1, <1>2, <2>1, <2>2, <2>3, OneRebuild DEF Reasoned
<1>6. CASE ~(shared /\ OnPage(p.lay, p.book))
  <2>1. Crash
    BY <1>6 DEF ChangeSetting, l
  <2> QED
    BY <1>1, <1>4, <1>6, <2>1 DEF Crash, ProcessEnds, Reasoned, OneInv, Reason
<1> QED
  BY <1>5, <1>6

\* The menu, the slider and the chapter list end the process only without a shared model.
LEMMA OneNavigating ==
  ASSUME OneChapter, SessionInv, OneInv, Navigating
  PROVE  Reasoned
<1> DEFINE n == PageCount(style, 0)
<1>1. LastChapter = 0 /\ Chapters = {0}
  BY OneChapters DEF OneChapter
<1>2. ASSUME NextPage PROVE Reasoned
  <2>1. phase = "reading"
    BY <1>2 DEF NextPage, InMenu
  <2>2. book.ch = 0 /\ book.pg \in Nat /\ n \in Nat /\ Count(lay, 0) = n
    BY <2>1, OneBook
  <2>3. ~(book.pg + 1 >= n - 1) /\ MoveTo(lay, At(0, book.pg + 1))
    BY <1>1, <1>2, <2>2 DEF NextPage
  <2>4. book.pg + 1 \in Nat /\ book.pg + 1 < n
    BY <2>2, <2>3
  <2> QED
    BY <2>1, <2>3, <2>4, OneMove
<1>3. ASSUME PreviousPage PROVE Reasoned
  <2>1. phase = "reading"
    BY <1>3 DEF PreviousPage, InMenu
  <2>2. book.ch = 0 /\ book.pg \in Nat /\ n \in Nat /\ book.pg < n
    BY <2>1, OneBook
  <2>3. ~(book.pg - 1 < 0) /\ MoveTo(lay, At(0, book.pg - 1))
    BY <1>1, <1>3, <2>2 DEF PreviousPage
  <2>4. book.pg - 1 \in Nat /\ book.pg - 1 < n
    BY <2>2, <2>3
  <2> QED
    BY <2>1, <2>3, <2>4, OneMove
<1>4. ~NextChapter /\ ~PreviousChapter /\ \A c : ~DragToChapter(c)
  BY <1>1 DEF NextChapter, PreviousChapter, DragToChapter, ProgressIsChapter
<1>5. ASSUME NEW pg \in 0..Count(lay, book.ch) - 1, DragToPage(pg) PROVE Reasoned
  <2>1. phase = "reading"
    BY <1>5 DEF DragToPage, InMenu
  <2>2. book.ch = 0 /\ n \in Nat /\ Count(lay, 0) = n
    BY <2>1, OneBook
  <2>3. pg \in Nat /\ pg < n /\ MoveTo(lay, At(0, pg))
    BY <1>5, <2>2 DEF DragToPage
  <2> QED
    BY <2>1, <2>3, OneMove
<1>6. ASSUME NEW pl \in ListTargets, GoToChapter(pl.ch, pl.pg) PROVE Reasoned
  <2>1. phase = "reading"
    BY <1>6 DEF GoToChapter, InMenu
  <2>2. /\ book.ch = 0 /\ n \in Nat /\ Count(lay, 0) = n
        /\ lay \in Layouts /\ style \in Styles /\ mode \in Modes /\ Marked(lay, style)
        /\ lay[0] = [by |-> style, force |-> FALSE]
    BY <2>1, OneBook
  <2>3. pl.ch = 0 /\ pl.pg \in Nat /\ pl.pg < n
    BY <1>1, <2>2 DEF ListTargets
  <2> DEFINE b == At(0, pl.pg)
             p == Presented(lay, b, style, mode)
  <2>4. b \in Positions /\ b.ch = 0 /\ b.pg = pl.pg
    BY <2>1, <2>3, OneBook
  <2>5. PagedFor(0, b) = [lay |-> lay, book |-> b]
    BY <2>2, OneChapters DEF PagedFor
  <2>6. Current(lay, style, 0)
    BY <2>2, OnePage
  <2> HIDE DEF b
  <2>7. p.book = b /\ p.lay \in Layouts /\ p.lay[0] = [by |-> style, force |-> FALSE]
    BY <2>2, <2>4, <2>6, CurrentIsKept, OnePresented
  <2>8. OnPage(p.lay, p.book)
    BY <2>2, <2>3, <2>4, <2>7, OnePage DEF OnPage
  <2>9. CASE shared
    <3>1. Rebuild(p, p.book, style, mode)
      BY <1>6, <2>3, <2>5, <2>8, <2>9 DEF GoToChapter, b
    <3>2. phase' = "reading"
      BY <2>1, <3>1 DEF Rebuild
    <3>3. p.book.pg < PageCount(style, 0)
      BY <2>3, <2>4, <2>7
    <3> QED
      BY <2>2, <2>4, <3>1, <3>2, <3>3, OneRebuild DEF Reasoned
  <2>10. CASE ~shared
    <3>1. Crash
      BY <1>6, <2>10 DEF GoToChapter
    <3> QED
      BY <2>1, <2>10, <3>1 DEF Crash, ProcessEnds, Reasoned, OneInv, Reason
  <2> QED
    BY <2>9, <2>10
<1> QED
  BY <1>2, <1>3, <1>4, <1>5, <1>6 DEF Navigating

\* No page that a turn can reach is missing.
LEMMA OneTurning ==
  ASSUME OneChapter, SessionInv, OneInv, Turning
  PROVE  Reasoned
<1>1. phase' # "crashed"
  <2>1. \A c \in {book.ch - 1, book.ch, book.ch + 1} \cap Chapters : HasText(c)
    BY OneChapters DEF OneChapter
  <2> QED
    BY <2>1, TurningCrashes
<1>2. phase = "reading"
  BY DEF Turning, TurnBegin, TurnFinish, TurnCancel
<1>3. /\ lay \in Layouts /\ style \in Styles /\ lay[0] = [by |-> style, force |-> FALSE]
      /\ book.ch = 0 /\ Chapters = {0}
  BY <1>2, OneBook, OneChapters
<1>4. CASE \E t \in NextTarget \cup PreviousTarget : TurnBegin(t)
  <2>1. PICK t \in NextTarget \cup PreviousTarget : TurnBegin(t)
    BY <1>4
  <2> DEFINE C == (IF t.lays THEN {t.ch} ELSE {}) \cup Around(t.ch)
  <2>2. lay' = LayOut(lay, style, C) /\ UNCHANGED <<phase, style, book, blocks>>
    BY <1>1, <2>1 DEF TurnBegin, Crash, ProcessEnds
  <2> HIDE DEF C
  <2>3. lay'[0] = lay[0]
    BY <1>3, <2>2, OnePage DEF LayOut
  <2> QED
    BY <1>1, <2>2, <2>3 DEF Reasoned, OneInv
<1>5. ASSUME NEW pl \in Places, Settle(pl) PROVE Reasoned
  <2>1. OnPage(lay, pl)
    BY <1>1, <1>5 DEF Settle, Crash, ProcessEnds
  <2>2. pl.ch = 0 /\ pl.pg < PageCount(style, 0)
    BY <1>3, <2>1, OnePage DEF OnPage, Places
  <2>3. book'.pg = pl.pg /\ UNCHANGED <<phase, lay, style, blocks>>
    BY <2>1, <1>5 DEF Settle
  <2> QED
    BY <1>1, <2>2, <2>3 DEF Reasoned, OneInv
<1>6. CASE TurnFinish
  BY <1>5, <1>6 DEF TurnFinish, SessionInv, TypeOK, PlaceOf, Places
<1>7. CASE TurnCancel
  BY <1>5, <1>7 DEF TurnCancel, SessionInv, TypeOK, PlaceOf, Places, Books
<1> QED
  BY <1>4, <1>6, <1>7 DEF Turning

\* A record ends the process only if its view is gone.
LEMMA OneBlock ==
  ASSUME OneChapter, SessionInv, OneInv, NEW x \in blocks, RunBlock(x)
  PROVE  Reasoned
<1>1. /\ x \in Records /\ x.ch = 0 /\ x.pg \in Nat
      /\ \A y \in blocks : IF y.alive THEN phase = "reading" ELSE y.at \in Finishing
      /\ phase \in {"closed", "reading", "crashed"} /\ book \in Books
  BY OneChapters DEF SessionInv, TypeOK, Records, RecordsAreOfTheView, Finishing
<1>2. ASSUME NEW y, Becomes(x, y), y.alive => x.alive /\ y.pg \in {0, x.pg} /\ y.at # "fault",
             UNCHANGED <<phase, lay, style>>,
             phase = "reading" => book'.pg < PageCount(style, 0)
      PROVE  Reasoned
  <2>1. PageCount(style, 0) \in Nat /\ PageCount(style, 0) > 0
    BY InvMarked, OneChapters
  <2>2. phase = "reading" /\ y.alive => y.pg < PageCount(style, 0)
    BY <1>2, <2>1 DEF OneInv
  <2>3. phase = "reading" =>
          \A z \in blocks' : z.alive => z.at # "fault" /\ z.pg < PageCount(style, 0)
    BY <1>2, <2>2 DEF Becomes, OneInv
  <2>4. phase' = "crashed" => phase = "crashed"
    BY <1>2
  <2> QED
    BY <1>2, <2>3, <2>4 DEF Reasoned, OneInv
<1>3. CASE Assignment(x)
  <2>1. PICK b, next : Assign(x, b, next) /\ b.pg \in {book.pg, x.pg} /\ next # "fault"
    BY <1>1, <1>3 DEF Assignment, Books
  <2>2. phase = "reading" /\ x.alive
    BY <1>1, <1>3 DEF Assignment, Finishing
  <2>3. book'.pg < PageCount(style, 0)
    BY <2>1, <2>2 DEF Assign, OneInv
  <2>4. /\ [x EXCEPT !.at = next].alive = x.alive /\ [x EXCEPT !.at = next].pg = x.pg
        /\ [x EXCEPT !.at = next].at = next
    BY <1>1 DEF Records
  <2> QED
    BY <1>2, <2>1, <2>3, <2>4 DEF Assign
<1>4. CASE TakeChapter(x)
  <2>1. /\ [x EXCEPT !.at = "pages"].alive = x.alive /\ [x EXCEPT !.at = "pages"].pg = x.pg
        /\ [x EXCEPT !.at = "pages"].at = "pages"
    BY <1>1 DEF Records
  <2> QED
    BY <1>2, <1>4, <2>1 DEF TakeChapter, OneInv
<1>5. CASE TakePage(x)
  <2>1. CASE x.at = "pages" /\ HasPage(lay, x.ch, x.pg)
    <3> DEFINE y == [x EXCEPT !.start = StartOf(lay, x.ch, x.pg), !.at = "start"]
               z == IF x.alive THEN y ELSE Last(x)
    <3>1. z.alive => x.alive /\ z.pg \in {0, x.pg} /\ z.at # "fault"
      BY <1>1, LastType DEF Records
    <3>2. Becomes(x, z) /\ UNCHANGED <<phase, lay, style, book>>
      BY <1>5, <2>1 DEF TakePage
    <3> HIDE DEF y, z
    <3> QED
      BY <1>2, <3>1, <3>2 DEF OneInv
  <2>2. CASE ~(x.at = "pages" /\ HasPage(lay, x.ch, x.pg))
    <3>1. Crash
      BY <1>5, <2>2 DEF TakePage
    <3>2. x.alive /\ x.at = "pages" => HasPage(lay, x.ch, x.pg)
      <4>1. lay \in Layouts /\ style \in Styles
        BY InvMarked
      <4> QED
        BY <1>1, <4>1, OnePage DEF OneInv
    <3>3. x.alive => x.at # "fault"
      BY <1>1 DEF OneInv
    <3> QED
      BY <1>5, <2>2, <3>1, <3>2, <3>3 DEF TakePage, Crash, ProcessEnds, Reasoned, OneInv, Reason
  <2> QED
    BY <2>1, <2>2
<1>6. CASE ReadRow(x)
  <2>1. /\ [x EXCEPT !.row = RowOf(book), !.at = "write"].alive = x.alive
        /\ [x EXCEPT !.row = RowOf(book), !.at = "write"].pg = x.pg
        /\ [x EXCEPT !.row = RowOf(book), !.at = "write"].at = "write"
    BY <1>1 DEF Records
  <2> QED
    BY <1>2, <1>6, <2>1 DEF ReadRow, OneInv
<1>7. CASE WriteRow(x)
  <2>1. Last(x).alive = x.alive /\ Last(x).at = "share" /\ Last(x).pg = 0
    BY <1>1, LastType DEF Last, Records
  <2> QED
    BY <1>2, <1>7, <2>1 DEF WriteRow, OneInv
<1>8. CASE Share(x)
  BY <1>8 DEF Share, Reasoned, OneInv
<1> QED
  BY <1>3, <1>4, <1>5, <1>6, <1>7, <1>8 DEF RunBlock

\* Every operation keeps the invariant, and ends the process only for a reason.
LEMMA OneStep ==
  ASSUME OneChapter, SessionInv, OneInv, [Next]_vars
  PROVE  Reasoned
<1>1. CASE Open
  BY <1>1, OneOpen
<1>2. CASE Back
  BY <1>2 DEF Back, Reasoned, OneInv
<1>3. CASE Kill
  BY <1>3 DEF Kill, ProcessEnds, Reasoned, OneInv
<1>4. CASE \E fin \in BOOLEAN : MarkFinished(fin)
  BY <1>4 DEF MarkFinished, Reasoned, OneInv
<1>5. CASE RowDisplayed
  <2>1. /\ lay \in Layouts /\ style \in Styles /\ lay[0] = [by |-> style, force |-> FALSE]
        /\ phase = "reading"
    BY <1>5, OneBook DEF RowDisplayed
  <2>2. lay'[0] = lay[0]
    BY <1>5, <2>1, OnePage, OneChapters DEF RowDisplayed, LayOut
  <2> QED
    BY <1>5, <2>1, <2>2 DEF RowDisplayed, Reasoned, OneInv
<1>6. ASSUME NEW c \in Chapters, NEW pg \in 0..Count(lay, c) - 1, ScrollEnd(c, pg)
      PROVE  Reasoned
  <2>1. /\ phase = "reading" /\ lay \in Layouts /\ style \in Styles /\ c = 0
        /\ lay[0] = [by |-> style, force |-> FALSE] /\ OnPage(lay, book)
    BY <1>6, OneBook, OneChapters DEF ScrollEnd
  <2>2. HasPage(lay, c, pg)
    BY <1>6 DEF ScrollEnd
  <2>3. pg < PageCount(style, 0)
    BY <2>1, <2>2, OnePage
  <2>4. CASE shared
    <3>1. UNCHANGED <<phase, lay, style, book>>
      BY <1>6, <2>1, <2>4 DEF ScrollEnd
    <3>2. PICK id \in 1..MaxBlocks : blocks' = blocks \cup {NewRecord(id, c, pg)}
      BY <1>6, <2>1, <2>4 DEF ScrollEnd, NewRecord
    <3>3. NewRecord(id, c, pg).at # "fault" /\ NewRecord(id, c, pg).pg = pg
      BY DEF NewRecord
    <3> QED
      BY <2>1, <2>3, <3>1, <3>2, <3>3 DEF Reasoned, OneInv
  <2>5. CASE ~shared
    <3>1. Crash
      BY <1>6, <2>5 DEF ScrollEnd
    <3> QED
      BY <2>1, <2>5, <3>1 DEF Crash, ProcessEnds, Reasoned, OneInv, Reason
  <2> QED
    BY <2>4, <2>5
<1>7. CASE Scrolling
  BY <1>5, <1>6, <1>7, OneBlock DEF Scrolling
<1>8. CASE Restyling
  BY <1>8, OneRestyling DEF Restyling
<1>9. CASE UNCHANGED vars
  BY <1>9 DEF vars, Reasoned, OneInv
<1> QED
  BY <1>1, <1>2, <1>3, <1>4, <1>7, <1>8, <1>9, OneTurning, OneNavigating DEF Next

\* In a book of one chapter that has text, with any layouts and any number of records of
\* the scroll view, the process ends for the four reasons only: the menu, the slider, the
\* turns and the settings never ask for a page that is missing as long as the model and
\* the row locate their page.
THEOREM OneChapterEnds ==
  ASSUME LastChapter = 0, HasText(0)
  PROVE  Spec => EndsForAReason
<1>1. OneChapter
  BY DEF OneChapter
<1>2. Init => OneInv
  BY DEF Init, OneInv
<1>3. SessionInv /\ OneInv /\ [Next]_vars => OneInv'
  BY <1>1, OneStep DEF Reasoned
<1>4. SessionInv /\ OneInv /\ [Next]_vars =>
        (phase' = "crashed" /\ phase # "crashed" =>
           \/ phase = "reading" /\ ~shared
           \/ \E x \in blocks : x.at \in {"pages", "fault"} /\ ~x.alive
           \/ phase = "reading" /\ ~Locates(book)
           \/ phase = "closed" /\ ~Locates(saved))
  BY <1>1, OneStep DEF Reasoned, Reason
<1>5. Spec => []OneInv
  BY <1>2, <1>3, SessionInvariance, PTL DEF Spec
<1> QED
  BY <1>4, <1>5, SessionInvariance, PTL DEF Spec, EndsForAReason

================================================================================
