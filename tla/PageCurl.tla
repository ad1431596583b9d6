-------------------------------- MODULE PageCurl -------------------------------
(***************************************************************************)
(* The effect "page curl": the container is the data source of a double-   *)
(* sided UIPageViewController, which turns sheets. It asks for the back of *)
(* a sheet and for a front in two calls, and the container tells them      *)
(* apart by the parity of one counter, pageCurlNumber. A tap sets the two  *)
(* sides itself and leaves the counter alone.                              *)
(*                                                                         *)
(* UIPageViewController is external: for a turn it asks for a controller,  *)
(* if it gets one it asks for the next behind it, and without two it does  *)
(* not turn. A turn ends at the second one or where it began. It refuses   *)
(* gestures while it turns.                                                *)
(***************************************************************************)
EXTENDS Integers

CONSTANTS
  LastPage,    (* the pages of the book are 0..LastPage                     *)
  NoPage,      (* what getPreviousModel and getNextModel return at an end   *)
  MaxNumber    (* bound on the counter, in both directions                  *)

ASSUME CurlAssumption ==
  /\ LastPage \in Nat
  /\ NoPage \notin Int
  /\ MaxNumber \in Nat

Pages == 0..LastPage
Front(pg) == [side |-> "front", pg |-> pg]
Back(pg)  == [side |-> "back", pg |-> pg]
None      == Front(NoPage)
Controllers == [side : {"front", "back"}, pg : Pages]

VARIABLES
  bookModel,             (* page of the container's book model              *)
  pageCurlNumber,
  readViewController,    (* page of the controller made last, NoPage: nil   *)
  visible,               (* viewControllers.first                           *)
  target,                (* where the turn in progress goes, or None        *)
  crashed

vars == <<bookModel, pageCurlNumber, readViewController, visible, target, crashed>>

\* createPageViewController for page pg, after clearPageControllers
Created(pg) ==
  /\ pageCurlNumber' = 1
  /\ readViewController' = pg
  /\ visible' = Front(pg)
  /\ target' = None
  /\ crashed' = FALSE

Init ==
  /\ bookModel \in Pages
  /\ pageCurlNumber = 1
  /\ readViewController = bookModel
  /\ visible = Front(bookModel)
  /\ target = None
  /\ crashed = FALSE

--------------------------------------------------------------------------------
\* Mutant of Neighbour: there is a page after the last one.
NeighbourPastEnd(forward) == IF forward THEN bookModel + 1
                             ELSE IF bookModel = 0 THEN NoPage ELSE bookModel - 1

\* getNextModel and getPreviousModel of the container's model
Neighbour(forward) == LET pg == IF forward THEN bookModel + 1 ELSE bookModel - 1
                      IN  IF pg \in Pages THEN pg ELSE NoPage

\* The data source when the counter has become n: the back of the sheet, which
\* has the text of the page on its other side, or the front of the next one.
Answer(n, forward) ==
  LET back == IF forward THEN bookModel ELSE Neighbour(FALSE)
  IN  IF n % 2 = 0
      THEN IF back = NoPage THEN None ELSE Back(back)
      ELSE IF Neighbour(forward) = NoPage THEN None ELSE Front(Neighbour(forward))

Idle == ~crashed /\ target = None

\* Mutant of Pan: a sheet's two sides are one step of the counter.
PanCountsSheets(forward) ==
  LET d  == IF forward THEN 1 ELSE -1
      a  == Answer(pageCurlNumber + 2 * d, forward)
  IN  /\ Idle
      /\ pageCurlNumber + d \in -MaxNumber..MaxNumber
      /\ pageCurlNumber' = pageCurlNumber + d
      /\ target' = a
      /\ readViewController' = IF a = None THEN readViewController ELSE a.pg
      /\ UNCHANGED <<bookModel, visible, crashed>>

\* A pan asks the data source; making a controller of either side makes a
\* WLReadViewController, which the container keeps.
Pan(forward) ==
  LET d  == IF forward THEN 1 ELSE -1
      n  == pageCurlNumber + d
      a1 == Answer(n, forward)
      a2 == Answer(n + d, forward)
  IN  /\ Idle
      /\ n + d \in -MaxNumber..MaxNumber
      /\ pageCurlNumber' = IF a1 = None THEN n ELSE n + d
      /\ target' = IF a1 = None THEN None ELSE a2
      /\ readViewController' = IF a1 = None THEN readViewController
                               ELSE IF a2 = None THEN a1.pg ELSE a2.pg
      /\ UNCHANGED <<bookModel, visible, crashed>>

\* Mutant of TurnEnds: the record is the page asked for, also after a cancel.
TurnEndsAsAsked(completed) ==
  /\ ~crashed /\ target # None
  /\ visible' = IF completed THEN target ELSE visible
  /\ bookModel' = target.pg
  /\ readViewController' = target.pg
  /\ target' = None
  /\ UNCHANGED <<pageCurlNumber, crashed>>

\* didFinishAnimating: a back side is no WLReadViewController, nothing is recorded.
TurnEnds(completed) ==
  /\ ~crashed /\ target # None
  /\ visible' = IF completed THEN target ELSE visible
  /\ target' = None
  /\ IF visible'.side = "front"
     THEN bookModel' = visible'.pg /\ readViewController' = visible'.pg
     ELSE readViewController' = NoPage /\ UNCHANGED bookModel
  /\ UNCHANGED <<pageCurlNumber, crashed>>

\* getViewControllerAfter and getViewControllerBefore of the custom tap: where
\* there is no page, the record is taken from the controller that is there.
Tap(forward) ==
  LET pg == Neighbour(forward)
  IN  /\ Idle
      /\ IF pg # NoPage
         THEN /\ visible' = Front(pg)
              /\ bookModel' = pg
              /\ readViewController' = pg
              /\ UNCHANGED crashed
         ELSE IF readViewController # NoPage
         THEN /\ bookModel' = readViewController
              /\ UNCHANGED <<visible, readViewController, crashed>>
         ELSE /\ crashed' = TRUE
              /\ UNCHANGED <<bookModel, visible, readViewController>>
      /\ UNCHANGED <<pageCurlNumber, target>>

\* A change of the settings or a jump, or the start after a crash
Rebuild == (crashed \/ Idle) /\ Created(bookModel) /\ UNCHANGED bookModel

Next ==
  \/ \E forward \in BOOLEAN : Pan(forward) \/ Tap(forward)
  \/ \E completed \in BOOLEAN : TurnEnds(completed)
  \/ Rebuild

\* UIKit ends every turn.
Spec == Init /\ [][Next]_vars /\ WF_vars(\E completed \in BOOLEAN : TurnEnds(completed))
--------------------------------------------------------------------------------
TypeOK ==
  /\ bookModel \in Pages
  /\ pageCurlNumber \in Int
  /\ readViewController \in Pages \cup {NoPage}
  /\ visible \in Controllers
  /\ target \in Controllers \cup {None}
  /\ crashed \in BOOLEAN

\* A front on the screen is the page of the record, and the controller the next
\* tap would read is one of that page. Only a back on the screen has none.
FrontIsRecorded ==
  /\ visible.side = "front" => visible.pg = bookModel
  /\ target = None /\ visible.side = "front" => readViewController = bookModel
  /\ readViewController = NoPage => visible.side = "back"

\* A turn by pan keeps the parity of the counter, finished or cancelled. What
\* changes it is a request at an end of the book that finds no page.
ParityChangesAtTheEnds ==
  [][pageCurlNumber' % 2 # pageCurlNumber % 2 =>
       \/ bookModel \in {0, LastPage}
       \/ pageCurlNumber' = 1 /\ visible' = Front(bookModel)]_vars

\* The container's protocol: the record moves to the page a turn asked for, one
\* beside the recorded one, and every turn ends.
Turn == INSTANCE PageTurn
          WITH place <- bookModel,
               asked <- IF target.side = "front" THEN target.pg ELSE NoPage

TurnsAsExpected == Turn!Spec
================================================================================
