----------------------------- MODULE PageCurlProofs -----------------------------
(***************************************************************************)
(* Theorems of PageCurl, for a book of any length and any bound on the     *)
(* counter. Nothing is known of the counter between two turns, and nothing *)
(* needs to be: a sheet's two sides are asked for with one parity each, so *)
(* the answers are the same two pages in one order or the other.           *)
(***************************************************************************)
EXTENDS PageCurl, TLAPS

\* Between two turns the controller made last is of the recorded page, or there is
\* none.
MadeLast == target = None => readViewController \in {bookModel, NoPage}

\* The inductive invariant
CurlInv == TypeOK /\ FrontIsRecorded /\ MadeLast

\* The safety of the container's protocol
TurnsByOnePage == Turn!Init /\ [][Turn!Next]_Turn!vars

--------------------------------------------------------------------------------
\* The page before or after is a page beside the recorded one; there is none at the
\* end of the book that lies in this direction.
LEMMA NeighbourType ==
  ASSUME bookModel \in Pages, NEW forward \in BOOLEAN
  PROVE  /\ Neighbour(forward) \in Turn!Beside(bookModel) \cup {NoPage}
         /\ Neighbour(forward) = NoPage => bookModel \in {0, LastPage}
         /\ Neighbour(forward) # NoPage =>
              Neighbour(forward) \in Pages \cap {bookModel - 1, bookModel + 1}
BY CurlAssumption DEF Neighbour, Pages, Turn!Beside, Turn!Pages

\* Nothing is not a controller; a controller is not of no page.
LEMMA NoneIsNoController ==
  /\ None \notin Controllers /\ None.side = "front" /\ None.pg = NoPage
  /\ NoPage \notin Pages
  /\ \A pg : Front(pg).side = "front" /\ Front(pg).pg = pg
  /\ \A pg : Back(pg).side = "back" /\ Back(pg).pg = pg
  /\ \A pg \in Pages : {Front(pg), Back(pg)} \subseteq Controllers
BY CurlAssumption DEF None, Controllers, Front, Back, Pages

\* What the data source answers: the back of a sheet or a front beside the recorded
\* page, and nothing only at an end of the book.
LEMMA AnswerType ==
  ASSUME bookModel \in Pages, NEW n \in Int, NEW forward \in BOOLEAN
  PROVE  /\ Answer(n, forward) \in Controllers \cup {None}
         /\ Answer(n, forward) = None => bookModel \in {0, LastPage}
         /\ Answer(n, forward).side = "front" =>
              Answer(n, forward).pg \in Turn!Beside(bookModel) \cup {NoPage}
         /\ Answer(n, forward).pg = NoPage <=> Answer(n, forward) = None
<1> DEFINE nb == Neighbour(forward)
           back == IF forward THEN bookModel ELSE Neighbour(FALSE)
<1>1. /\ nb \in Turn!Beside(bookModel) \cup {NoPage}
      /\ nb = NoPage => bookModel \in {0, LastPage}
      /\ nb \in Pages \cup {NoPage}
  BY NeighbourType
<1>2. /\ back \in Pages \cup {NoPage}
      /\ back = NoPage => bookModel \in {0, LastPage}
  <2>1. CASE forward
    BY <2>1, NoneIsNoController
  <2>2. CASE ~forward
    BY <2>2, NeighbourType
  <2> QED
    BY <2>1, <2>2
<1>3. Answer(n, forward) = IF n % 2 = 0
                           THEN IF back = NoPage THEN None ELSE Back(back)
                           ELSE IF nb = NoPage THEN None ELSE Front(nb)
  BY DEF Answer
<1> HIDE DEF nb, back
<1>4. CASE n % 2 = 0
  BY <1>2, <1>3, <1>4, NoneIsNoController
<1>5. CASE n % 2 # 0
  BY <1>1, <1>3, <1>5, NoneIsNoController
<1> QED
  BY <1>4, <1>5

\* A turn that finds one side only is one forward at the end of the book: the
\* side is the back of the recorded page.
LEMMA OneSideOnly ==
  ASSUME bookModel \in Pages, NEW n \in Int, NEW forward \in BOOLEAN,
         NEW d \in {-1, 1},
         Answer(n, forward) # None, Answer(n + d, forward) = None
  PROVE  Answer(n, forward).pg = bookModel
<1>1. (n % 2 = 0 /\ (n + d) % 2 # 0) \/ (n % 2 # 0 /\ (n + d) % 2 = 0)
  OBVIOUS
<1>2. CASE forward
  BY <1>1, <1>2, NoneIsNoController DEF Answer
<1>3. CASE ~forward
  BY <1>1, <1>3, NoneIsNoController DEF Answer
<1> QED
  BY <1>2, <1>3

--------------------------------------------------------------------------------
\* At the start, and after a change of the settings, a front is on the screen.
LEMMA CreatedInv ==
  ASSUME NEW pg \in Pages, Created(pg), bookModel' = pg
  PROVE  CurlInv'
<1>1. /\ pageCurlNumber' = 1 /\ readViewController' = pg /\ visible' = Front(pg)
      /\ target' = None /\ crashed' = FALSE
  BY DEF Created
<1>2. Front(pg) \in Controllers /\ Front(pg).pg = pg /\ pg # NoPage
  BY NoneIsNoController
<1>3. TypeOK'
  <2>1. crashed' \in BOOLEAN
    BY <1>1
  <2>2. target' \in Controllers \cup {None}
    BY <1>1
  <2>3. pageCurlNumber' \in Int
    BY <1>1
  <2> QED
    BY <1>1, <1>2, <2>1, <2>2, <2>3 DEF TypeOK
<1> QED
  BY <1>1, <1>2, <1>3 DEF CurlInv, FrontIsRecorded, MadeLast

\* The container starts with the recorded page on the screen.
LEMMA CurlInvInit == Init => CurlInv
<1> SUFFICES ASSUME Init PROVE CurlInv
  OBVIOUS
<1>1. /\ bookModel \in Pages /\ pageCurlNumber = 1 /\ readViewController = bookModel
      /\ visible = Front(bookModel) /\ target = None /\ crashed = FALSE
  BY DEF Init
<1>2. /\ Front(bookModel) \in Controllers /\ Front(bookModel).pg = bookModel
      /\ bookModel # NoPage
  BY <1>1, NoneIsNoController
<1>3. TypeOK
  <2>1. crashed \in BOOLEAN
    BY <1>1
  <2>2. target \in Controllers \cup {None}
    BY <1>1
  <2>3. pageCurlNumber \in Int
    BY <1>1
  <2> QED
    BY <1>1, <1>2, <2>1, <2>2, <2>3 DEF TypeOK
<1> QED
  BY <1>1, <1>2, <1>3 DEF CurlInv, FrontIsRecorded, MadeLast

\* A pan asks for the two sides of a sheet and changes no record.
LEMMA PanKeepsInv ==
  ASSUME CurlInv, NEW forward \in BOOLEAN, Pan(forward)
  PROVE  CurlInv'
<1> DEFINE d == IF forward THEN 1 ELSE -1
           n == pageCurlNumber + d
           a1 == Answer(n, forward)
           a2 == Answer(n + d, forward)
<1>1. d \in {-1, 1} /\ n \in Int /\ n + d \in Int /\ bookModel \in Pages
  BY DEF CurlInv, TypeOK
<1>2. /\ target = None /\ ~crashed
      /\ pageCurlNumber' = IF a1 = None THEN n ELSE n + d
      /\ target' = IF a1 = None THEN None ELSE a2
      /\ readViewController' = IF a1 = None THEN readViewController
                               ELSE IF a2 = None THEN a1.pg ELSE a2.pg
      /\ UNCHANGED <<bookModel, visible, crashed>>
  BY DEF Pan, Idle
<1>3. a1 \in Controllers \cup {None} /\ a2 \in Controllers \cup {None}
  BY <1>1, AnswerType
<1>4. a1 # None /\ a2 = None => a1.pg = bookModel
  BY <1>1, OneSideOnly
<1> HIDE DEF d, n, a1, a2
<1>5. a1 # None => a1.pg \in Pages
  BY <1>3 DEF Controllers
<1>6. a2 # None => a2.pg \in Pages
  BY <1>3 DEF Controllers
<1>7. TypeOK'
  BY <1>1, <1>2, <1>3, <1>5, <1>6 DEF CurlInv, TypeOK
<1>8. readViewController \in {bookModel, NoPage}
  BY <1>2 DEF CurlInv, MadeLast
<1>9. target' = None => readViewController' \in {readViewController, bookModel}
  BY <1>2, <1>4
<1>10. readViewController' = NoPage => readViewController = NoPage
  BY <1>2, <1>5, <1>6, NoneIsNoController
<1>11. FrontIsRecorded'
  BY <1>2, <1>9, <1>10 DEF CurlInv, FrontIsRecorded
<1>12. MadeLast'
  BY <1>2, <1>8, <1>9 DEF MadeLast
<1> QED
  BY <1>7, <1>11, <1>12 DEF CurlInv

\* A turn that ends records the front that is on the screen then, or nothing.
LEMMA TurnEndsKeepsInv ==
  ASSUME CurlInv, NEW completed \in BOOLEAN, TurnEnds(completed)
  PROVE  CurlInv'
<1>1. /\ target # None /\ target' = None
      /\ visible' \in {target, visible}
      /\ UNCHANGED <<pageCurlNumber, crashed>>
      /\ \/ /\ visible'.side = "front"
            /\ bookModel' = visible'.pg /\ readViewController' = visible'.pg
         \/ /\ visible'.side # "front"
            /\ readViewController' = NoPage /\ UNCHANGED bookModel
  BY DEF TurnEnds
<1>2. visible' \in Controllers
  BY <1>1 DEF CurlInv, TypeOK
<1>3. visible'.pg \in Pages /\ visible'.side \in {"front", "back"}
  BY <1>2 DEF Controllers
<1>4. TypeOK'
  BY <1>1, <1>2, <1>3 DEF CurlInv, TypeOK
<1> QED
  BY <1>1, <1>3, <1>4, NoneIsNoController DEF CurlInv, FrontIsRecorded, MadeLast

\* A tap shows and records the page beside, or records what is recorded.
LEMMA TapKeepsInv ==
  ASSUME CurlInv, NEW forward \in BOOLEAN, Tap(forward)
  PROVE  CurlInv'
<1> DEFINE pg == Neighbour(forward)
<1>1. target = None /\ ~crashed /\ UNCHANGED <<pageCurlNumber, target>>
  BY DEF Tap, Idle
<1>2. bookModel \in Pages /\ (pg # NoPage => pg \in Pages)
  BY NeighbourType DEF CurlInv, TypeOK
<1>3. CASE pg # NoPage
  <2>1. /\ visible' = Front(pg) /\ bookModel' = pg /\ readViewController' = pg
        /\ UNCHANGED crashed
    BY <1>3 DEF Tap
  <2> HIDE DEF pg
  <2> QED
    BY <1>1, <1>2, <1>3, <2>1, NoneIsNoController
       DEF CurlInv, TypeOK, FrontIsRecorded, MadeLast
<1>4. CASE pg = NoPage /\ readViewController # NoPage
  <2>1. bookModel' = readViewController /\ UNCHANGED <<visible, readViewController, crashed>>
    BY <1>4 DEF Tap
  <2>2. readViewController = bookModel
    BY <1>1, <1>4 DEF CurlInv, MadeLast
  <2> QED
    BY <1>1, <2>1, <2>2 DEF CurlInv, TypeOK, FrontIsRecorded, MadeLast
<1>5. CASE pg = NoPage /\ readViewController = NoPage
  <2>1. crashed' = TRUE /\ UNCHANGED <<bookModel, visible, readViewController>>
    BY <1>5 DEF Tap
  <2> QED
    BY <1>1, <2>1 DEF CurlInv, TypeOK, FrontIsRecorded, MadeLast
<1> QED
  BY <1>3, <1>4, <1>5

\* Every step keeps the invariant.
LEMMA CurlInvStep == CurlInv /\ [Next]_vars => CurlInv'
<1> SUFFICES ASSUME CurlInv, [Next]_vars PROVE CurlInv'
  OBVIOUS
<1>1. CASE \E forward \in BOOLEAN : Pan(forward)
  BY <1>1, PanKeepsInv
<1>2. CASE \E forward \in BOOLEAN : Tap(forward)
  BY <1>2, TapKeepsInv
<1>3. CASE \E completed \in BOOLEAN : TurnEnds(completed)
  BY <1>3, TurnEndsKeepsInv
<1>4. CASE Rebuild
  BY <1>4, CreatedInv DEF Rebuild, CurlInv, TypeOK
<1>5. CASE UNCHANGED vars
  BY <1>5 DEF vars, CurlInv, TypeOK, FrontIsRecorded, MadeLast
<1> QED
  BY <1>1, <1>2, <1>3, <1>4, <1>5 DEF Next

\* The invariant of the page curl
THEOREM CurlInvariance == Spec => []CurlInv
BY CurlInvInit, CurlInvStep, PTL DEF Spec

\* Type correctness of the container's record, the counter and the controllers.
THEOREM CurlTypes == Spec => []TypeOK
<1>1. CurlInv => TypeOK
  BY DEF CurlInv
<1> QED
  BY <1>1, CurlInvariance, PTL

\* A front on the screen is the recorded page and the controller a tap would read is
\* of that page, after any sequence of pans, cancelled ones, taps and new settings
\* (didFinishAnimating, getViewControllerAfter).
THEOREM FrontStaysRecorded == Spec => []FrontIsRecorded
<1>1. CurlInv => FrontIsRecorded
  BY DEF CurlInv
<1> QED
  BY <1>1, CurlInvariance, PTL

\* The counter keeps its parity over a turn: it is disturbed by a request that finds
\* no page, at an end of the book, and set right by new controllers only.
THEOREM ParityIsKept == Spec => ParityChangesAtTheEnds
<1>1. CurlInv /\ [Next]_vars =>
        [pageCurlNumber' % 2 # pageCurlNumber % 2 =>
           \/ bookModel \in {0, LastPage}
           \/ pageCurlNumber' = 1 /\ visible' = Front(bookModel)]_vars
  <2> SUFFICES ASSUME CurlInv, Next, pageCurlNumber' % 2 # pageCurlNumber % 2
               PROVE  \/ bookModel \in {0, LastPage}
                      \/ pageCurlNumber' = 1 /\ visible' = Front(bookModel)
    OBVIOUS
  <2>1. ASSUME NEW forward \in BOOLEAN, Pan(forward)
        PROVE  bookModel \in {0, LastPage}
    <3> DEFINE d == IF forward THEN 1 ELSE -1
    <3>1. d \in {-1, 1} /\ pageCurlNumber \in Int /\ bookModel \in Pages
      BY DEF CurlInv, TypeOK
    <3>2. pageCurlNumber' = IF Answer(pageCurlNumber + d, forward) = None
                            THEN pageCurlNumber + d ELSE pageCurlNumber + d + d
      BY <2>1 DEF Pan
    <3> HIDE DEF d
    <3>3. (pageCurlNumber + d + d) % 2 = pageCurlNumber % 2
      BY <3>1
    <3>4. Answer(pageCurlNumber + d, forward) = None
      BY <3>2, <3>3
    <3> QED
      BY <3>1, <3>4, AnswerType
  <2>2. ASSUME NEW forward \in BOOLEAN, Tap(forward) PROVE FALSE
    BY <2>2 DEF Tap
  <2>3. ASSUME NEW completed \in BOOLEAN, TurnEnds(completed) PROVE FALSE
    BY <2>3 DEF TurnEnds
  <2>4. ASSUME Rebuild PROVE pageCurlNumber' = 1 /\ visible' = Front(bookModel)
    BY <2>4 DEF Rebuild, Created
  <2> QED
    BY <2>1, <2>2, <2>3, <2>4 DEF Next
<1> QED
  BY <1>1, CurlInvariance, PTL DEF Spec, ParityChangesAtTheEnds

--------------------------------------------------------------------------------
\* A step of the page curl is a step of the container's protocol.
LEMMA CurlTurnStep ==
  ASSUME CurlInv, CurlInv', [Next]_vars
  PROVE  [Turn!Next]_Turn!vars
<1> DEFINE asked == IF target.side = "front" THEN target.pg ELSE NoPage
<1> USE DEF Turn!vars
<1>1. ASSUME NEW forward \in BOOLEAN, Pan(forward) PROVE [Turn!Next]_Turn!vars
  <2> DEFINE d == IF forward THEN 1 ELSE -1
             n == pageCurlNumber + d
  <2>1. n \in Int /\ n + d \in Int /\ bookModel \in Pages
    BY DEF CurlInv, TypeOK
  <2>2. target = None /\ UNCHANGED bookModel /\ target' \in {None, Answer(n + d, forward)}
    BY <1>1 DEF Pan, Idle
  <2> HIDE DEF d, n
  <2>3. asked = NoPage
    BY <2>2, NoneIsNoController
  <2>4. asked' \in Turn!Beside(bookModel) \cup {NoPage}
    BY <2>1, <2>2, AnswerType, NoneIsNoController
  <2> QED
    BY <2>2, <2>3, <2>4 DEF Turn!Next, Turn!Ask
<1>2. ASSUME NEW completed \in BOOLEAN, TurnEnds(completed) PROVE [Turn!Next]_Turn!vars
  <2>1. /\ target # None /\ target' = None
        /\ visible' \in {target, visible}
        /\ bookModel' = IF visible'.side = "front" THEN visible'.pg ELSE bookModel
    BY <1>2 DEF TurnEnds
  <2>2. asked' = NoPage
    BY <2>1, NoneIsNoController
  <2>3. target.side = "front" => asked = target.pg /\ asked # NoPage
    BY <2>1, NoneIsNoController DEF CurlInv, TypeOK, Controllers
  <2>4. target.side # "front" => asked = NoPage
    OBVIOUS
  <2>5. visible.side = "front" => visible.pg = bookModel
    BY DEF CurlInv, FrontIsRecorded
  <2>6. CASE visible' = target
    BY <2>1, <2>2, <2>3, <2>4, <2>6 DEF Turn!Next, Turn!Arrive
  <2>7. CASE visible' = visible
    <3>1. bookModel' = bookModel
      BY <2>1, <2>5, <2>7
    <3> QED
      BY <2>2, <2>3, <2>4, <3>1 DEF Turn!Next, Turn!Return
  <2> QED
    BY <2>1, <2>6, <2>7
<1>3. ASSUME NEW forward \in BOOLEAN, Tap(forward) PROVE [Turn!Next]_Turn!vars
  <2>1. target = None /\ UNCHANGED target /\ asked = NoPage /\ asked' = NoPage
    BY <1>3, NoneIsNoController DEF Tap, Idle
  <2>2. CASE Neighbour(forward) # NoPage
    <3>1. bookModel' = Neighbour(forward)
      BY <1>3, <2>2 DEF Tap
    <3>2. bookModel' \in Turn!Beside(bookModel)
      BY <2>2, <3>1, NeighbourType DEF CurlInv, TypeOK
    <3> QED
      BY <2>1, <3>2 DEF Turn!Next, Turn!Step
  <2>3. CASE Neighbour(forward) = NoPage
    <3>1. bookModel' = bookModel
      BY <1>3, <2>1, <2>3 DEF Tap, CurlInv, MadeLast
    <3> QED
      BY <2>1, <3>1
  <2> QED
    BY <2>2, <2>3
<1>4. ASSUME Rebuild PROVE [Turn!Next]_Turn!vars
  <2>1. bookModel' = bookModel /\ target' = None
    BY <1>4 DEF Rebuild, Created
  <2>2. asked' = NoPage
    BY <2>1, NoneIsNoController
  <2>3. asked # NoPage => bookModel' = bookModel
    BY <2>1
  <2> QED
    BY <2>1, <2>2 DEF Turn!Next, Turn!Return
<1>5. CASE UNCHANGED vars
  BY <1>5 DEF vars
<1> QED
  BY <1>1, <1>2, <1>3, <1>4, <1>5 DEF Next

\* The page curl keeps to the protocol of the container: a pan asks for a page beside
\* the recorded one, the turn arrives there or returns, and a tap is both at once.
\* That a turn ends is left to the run, which checks the whole of TurnsAsExpected.
THEOREM CurlTurnsByOnePage == Spec => TurnsByOnePage
<1>1. Init => Turn!Init
  BY NoneIsNoController DEF Init, Turn!Init, Turn!Pages, Pages
<1>2. CurlInv /\ CurlInv' /\ [Next]_vars => [Turn!Next]_Turn!vars
  BY CurlTurnStep
<1> QED
  BY <1>1, <1>2, CurlInvariance, PTL DEF Spec, TurnsByOnePage
================================================================================
