------------------------- MODULE TranslationController -------------------------
(***************************************************************************)
(* WLTranslationController: the effect "translation". A tap or a pan asks  *)
(* the container for the page before or after; its controller becomes a    *)
(* child, two views slide, and the end of the animation removes one of     *)
(* them. The container takes the first child for the page that is read.    *)
(*                                                                         *)
(* A controller is the page it shows and a number that tells it from       *)
(* others. UIKit is external: it delivers touches and ends animations of   *)
(* equal duration in the order they began. Whether a touch arrives while   *)
(* an animation moves the views, and may cut it short (its completion is   *)
(* then told FALSE), is not known: each behaviour has one answer, the      *)
(* variable overlap.                                                       *)
(***************************************************************************)
EXTENDS Integers, Sequences, FiniteSets

CONSTANTS
  LastPage,      (* the pages of the book are 0..LastPage                   *)
  NoPage,
  MaxChildren,   (* bound: child controllers                                *)
  MaxAnims       (* bound: animations that run at one time                  *)

ASSUME TranslationAssumption ==
  /\ LastPage \in Nat
  /\ NoPage \notin Int
  /\ MaxChildren \in Nat \ {0}
  /\ MaxAnims \in Nat \ {0}

Pages == 0..LastPage
Ids   == 0..MaxChildren + MaxAnims + 2
None  == [id |-> -1, pg |-> NoPage]
Controllers == [id : Ids, pg : Pages]

VARIABLES
  overlap,                (* do touches arrive while an animation runs?     *)
  record,                 (* page of the container's book model             *)
  children,               (* child controllers, oldest first                *)
  onScreen,               (* those whose view has the identity transform    *)
  currentController,
  pendingController,      (* never cleared: of the turn before, until asked *)
  scrollDirection,        (* -1, 0, 1                                       *)
  allowRequestNewController,
  isPanning,
  anims,                  (* running animations                             *)
  crashed

pan  == <<currentController, pendingController, scrollDirection,
          allowRequestNewController, isPanning>>
vars == <<overlap, record, children, onScreen, pan, anims, crashed>>

--------------------------------------------------------------------------------
InUse == {children[i].id : i \in DOMAIN children}
         \cup {currentController.id, pendingController.id}
         \cup {anims[i].remove.id : i \in DOMAIN anims}

New(pg) == [id |-> CHOOSE n \in Ids \ InUse : TRUE, pg |-> pg]

\* The controllers whose views are in the view of the container.
Views(ch) == {ch[i] : i \in DOMAIN ch}

\* children.first
First(ch) == IF ch = <<>> THEN None ELSE Head(ch)

\* Mutant of Remove: every child is removed, as where nothing is animated.
RemoveAll(ch, c) == <<>>

\* Mutant of Remove: the view is removed, the controller stays a child.
RemoveView(ch, c) == ch

\* removeController: a controller is a child once at most.
Remove(ch, c) ==
  IF \E i \in DOMAIN ch : ch[i] = c
  THEN LET k == CHOOSE i \in DOMAIN ch : ch[i] = c
       IN  SubSeq(ch, 1, k - 1) \o SubSeq(ch, k + 1, Len(ch))
  ELSE ch

\* Mutant of Answer: the model of the pending page is counted on.
AnswerTwo(dir) == IF record - 2 * dir \in Pages THEN New(record - 2 * dir) ELSE None

\* controllerBefore and controllerAfter of the container, of its own model
Answer(dir) == IF record - dir \in Pages THEN New(record - dir) ELSE None

\* Mutant of Record: the last child is recorded.
RecordLast(ch) == IF ch = <<>> THEN record ELSE ch[Len(ch)].pg

\* didFinishAnimating of the container: the first child is recorded.
Record(ch) == IF ch = <<>> THEN record ELSE Head(ch).pg

Init ==
  /\ overlap \in BOOLEAN
  /\ record \in Pages
  /\ children = <<[id |-> 0, pg |-> record]>>
  /\ onScreen = {Head(children)}
  /\ currentController = None
  /\ pendingController = None
  /\ scrollDirection = 0
  /\ allowRequestNewController = TRUE
  /\ isPanning = FALSE
  /\ anims = <<>>
  /\ crashed = FALSE

Restart ==
  /\ crashed
  /\ crashed' = FALSE
  /\ children' = <<[id |-> 0, pg |-> record]>>
  /\ onScreen' = {Head(children')}
  /\ currentController' = None
  /\ pendingController' = None
  /\ scrollDirection' = 0
  /\ allowRequestNewController' = TRUE
  /\ isPanning' = FALSE
  /\ anims' = <<>>
  /\ UNCHANGED <<overlap, record>>

Crash == /\ crashed' = TRUE
         /\ UNCHANGED <<overlap, record, children, onScreen, pan, anims>>

TouchArrives == /\ ~crashed /\ ~isPanning
                /\ (overlap \/ anims = <<>>)
                /\ Len(anims) < MaxAnims

--------------------------------------------------------------------------------
\* handleTapGes and the animated setViewController: dir 1 is the page before.
Tap(dir) ==
  /\ TouchArrives
  /\ children # <<>> /\ Len(children) < MaxChildren
  /\ Answer(dir) # None
  /\ children' = Append(children, Answer(dir))
  /\ onScreen' = (onScreen \ {First(children)}) \cup {Answer(dir)}
  /\ anims' = Append(anims, [remove |-> First(children), pan |-> FALSE])
  /\ UNCHANGED <<overlap, record, pan, crashed>>

\* Mutant of PanBegan: currentController is not taken from the children.
PanBeganWithout ==
  /\ TouchArrives
  /\ isPanning' = TRUE
  /\ allowRequestNewController' = TRUE
  /\ UNCHANGED <<overlap, record, children, onScreen, currentController,
                 pendingController, scrollDirection, anims, crashed>>

PanBegan ==
  /\ TouchArrives
  /\ currentController' = First(children)
  /\ isPanning' = TRUE
  /\ allowRequestNewController' = TRUE
  /\ UNCHANGED <<overlap, record, children, onScreen, pendingController,
                 scrollDirection, anims, crashed>>

\* handlePanGes, .changed: the finger is right of where it began, left of it, or
\* neither (dir 0).  A change of the direction removes what was pending and asks
\* again; "pendingController!" and "currentController!" may be nil.  Without a
\* pending page the views stay where an earlier move has put them; with one they
\* follow the finger, and the current view is in its place only where the finger is
\* back over its first point (still).  A finger does not cross the whole width.
PanChanged(dir, still) ==
  LET turned  == dir # 0 /\ scrollDirection = -dir
      request == dir # 0 /\ (turned \/ allowRequestNewController)
      left    == IF turned THEN Remove(children, pendingController) ELSE children
      c       == IF request THEN Answer(dir) ELSE pendingController
      back    == IF still THEN {currentController} \ {c} ELSE {}
  IN  /\ ~crashed /\ isPanning
      /\ request => Len(left) < MaxChildren
      /\ IF \/ turned /\ pendingController = None
            \/ request /\ currentController = None
         THEN Crash
         ELSE /\ scrollDirection' = IF dir = 0 THEN scrollDirection ELSE dir
              /\ allowRequestNewController' = (allowRequestNewController /\ dir = 0)
              /\ pendingController' = c
              /\ children' = IF request /\ c # None THEN Append(left, c) ELSE left
              /\ onScreen' = Views(children')
                             \cap IF c = None THEN onScreen
                                  ELSE (onScreen \ {currentController, c}) \cup back
              /\ UNCHANGED <<overlap, record, currentController, isPanning, anims,
                             crashed>>

\* Mutant of PanEnded: the controllers of a finished and a cancelled pan are
\* swapped.
PanEndedSwapped(far) ==
  LET c == currentController
      p == pendingController
  IN  /\ ~crashed /\ isPanning
      /\ Len(anims) < MaxAnims
      /\ isPanning' = FALSE
      /\ allowRequestNewController' = TRUE
      /\ scrollDirection' = 0
      /\ IF p = None
         THEN UNCHANGED <<onScreen, anims>>
         ELSE /\ onScreen' = IF far THEN (onScreen \cup {p}) \ {c} ELSE onScreen
              /\ anims' = Append(anims, [remove |-> IF far THEN p ELSE c, pan |-> TRUE])
      /\ UNCHANGED <<overlap, record, children, currentController, pendingController,
                     crashed>>

\* The pan has ended, failed or was cancelled: far enough, to either side, or
\* not. The rest positions are set, the current one's last; not so without a
\* pending page, where a view that has moved stays where it is.
PanEnded(far) ==
  LET c == currentController
      p == pendingController
  IN  /\ ~crashed /\ isPanning
      /\ Len(anims) < MaxAnims
      /\ isPanning' = FALSE
      /\ allowRequestNewController' = TRUE
      /\ scrollDirection' = 0
      /\ IF p = None
         THEN UNCHANGED <<onScreen, anims>>
         ELSE /\ onScreen' = IF far THEN (onScreen \cup {p}) \ {c}
                             ELSE (onScreen \ {p}) \cup ({c} \ {None})
              /\ anims' = Append(anims, [remove |-> IF far THEN c ELSE p, pan |-> TRUE])
      /\ UNCHANGED <<overlap, record, children, currentController, pendingController,
                     crashed>>

\* The completion of the oldest animation. That of a pan unwraps the controller
\* to remove and currentController.
AnimationEnds(complete) ==
  LET a  == Head(anims)
      ch == IF complete THEN Remove(children, a.remove) ELSE children
  IN  /\ ~crashed /\ anims # <<>>
      /\ complete \/ overlap
      /\ IF a.pan /\ (currentController = None \/ (complete /\ a.remove = None))
         THEN Crash
         ELSE /\ children' = ch
              /\ onScreen' = onScreen \cap Views(ch)
              /\ record' = Record(ch)
              /\ anims' = Tail(anims)
              /\ UNCHANGED <<overlap, pan, crashed>>

Next ==
  \/ \E dir \in {-1, 1} : Tap(dir)
  \/ \E dir \in {-1, 0, 1}, still \in BOOLEAN : PanChanged(dir, still)
  \/ PanBegan
  \/ \E far \in BOOLEAN : PanEnded(far)
  \/ \E complete \in BOOLEAN : AnimationEnds(complete)
  \/ Restart

\* UIKit ends every animation, and every touch ends or is cancelled.
Fairness ==
  /\ WF_vars(\E complete \in BOOLEAN : AnimationEnds(complete))
  /\ WF_vars(\E far \in BOOLEAN : PanEnded(far))

Spec == Init /\ [][Next]_vars /\ Fairness
--------------------------------------------------------------------------------
\* Type invariant: no controller is a child twice.
TypeOK ==
  /\ overlap \in BOOLEAN
  /\ record \in Pages
  /\ children \in Seq(Controllers)
  /\ \A i, j \in DOMAIN children : children[i].id = children[j].id => i = j
  /\ onScreen \subseteq Controllers
  /\ {currentController, pendingController} \subseteq Controllers \cup {None}
  /\ scrollDirection \in {-1, 0, 1}
  /\ allowRequestNewController \in BOOLEAN /\ isPanning \in BOOLEAN
  /\ anims \in Seq([remove : Controllers \cup {None}, pan : BOOLEAN])
  /\ crashed \in BOOLEAN

AtRest == ~isPanning /\ anims = <<>> /\ ~crashed

\* Between two gestures, where these wait for animations, one controller is left and
\* its page is recorded, whatever was asked for and given up; or none is left.  Its
\* view is in its place on the screen, unless a pan at an end of the book has moved
\* it and, turned round, has found no page to put beside it: handlePanGes then leaves
\* it where it was.  During a turn there are two, also if its direction was changed
\* many times.
RestShowsRecord ==
  ~overlap =>
    /\ Len(children) <= 2
    /\ AtRest =>
         \/ children = <<>> /\ onScreen = {}
         \/ /\ Len(children) = 1 /\ record = Head(children).pg
            /\ \/ onScreen = {Head(children)}
               \/ onScreen = {} /\ pendingController = None /\ record \in {0, LastPage}

\* Whatever overlaps and whatever is cut short, between two gestures the record is the
\* page of the first child, which the next pan or tap takes for the current controller.
RecordIsOfFirstChild == AtRest /\ children # <<>> => record = Head(children).pg

\* The last view leaves the screen only at the end of a pan that asked for no
\* page and took what an earlier one left behind for pending: the controller that
\* is in front now, or one that is gone.
BlankOnlyAfterEmptyPan ==
  [][~overlap /\ children # <<>> /\ children' = <<>> =>
       \/ pendingController = currentController
       \/ pendingController \notin {children[i] : i \in DOMAIN children}]_vars

\* A pan ends the process only where it was turned round at an end of the book,
\* or where no view is left.
CrashOnlyAtTheEnds ==
  [][~overlap /\ crashed' /\ ~crashed =>
       record \in {0, LastPage} \/ children = <<>>]_vars

\* Where gestures wait, the controller keeps to the protocol of the container: the
\* record moves to the page a turn asked for last, one beside the recorded one.
Turn == INSTANCE PageTurn
          WITH place <- record,
               asked <- IF Len(children) = 2 THEN children[2].pg ELSE NoPage

TurnsAsExpected == Turn!Init /\ [][overlap \/ Turn!Next]_Turn!vars

\* The liveness of that protocol: a page asked for arrives or is given up.
TurnsEnd == ~overlap /\ Len(children) = 2 ~> Len(children) # 2 \/ crashed
================================================================================
