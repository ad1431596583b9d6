---------------------------- MODULE CoverController ----------------------------
(***************************************************************************)
(* WLReaderCoverController: the effects "cover" and "no effect". A tap or  *)
(* a pan asks the container for the page before or after, puts its view    *)
(* over or under the one in front, and an animation brings the turn to its *)
(* end. The views attached to the controller are a sequence, the topmost   *)
(* last; "off" are those whose frame is beside the screen.                 *)
(*                                                                         *)
(* How a drag moves a frame is left out: a pan may end with success or     *)
(* without. UIKit is external: it delivers touches and ends animations of  *)
(* equal duration in the order they began. Whether a touch reaches the     *)
(* controller while an animation moves its views is not known: each        *)
(* behaviour has one answer, the variable overlap.                         *)
(***************************************************************************)
EXTENDS Integers, SequencesExt

CONSTANTS
  LastPage,   (* the pages of the book are 0..LastPage                      *)
  NoPage,     (* no page                                                    *)
  MaxAnims,   (* bound: animations that run at one time                     *)
  MaxViews    (* bound: views attached when a gesture asks for one more     *)

ASSUME CoverAssumption ==
  /\ LastPage \in Nat
  /\ NoPage \notin Int
  /\ MaxAnims \in Nat \ {0}
  /\ MaxViews \in Nat \ {0}

Pages == 0..LastPage
Roles == {"front", "pending", "left"}
Views == [pg : Pages, role : Roles, off : BOOLEAN]

VARIABLES
  openAnimate,       (* TRUE for "cover", FALSE for "no effect"             *)
  overlap,           (* do touches arrive while an animation runs?          *)
  record,            (* page of the container's book model                  *)
  views,             (* the attached views: currentController is "front",   *)
                     (* pendingController "pending"; "left" is referred to  *)
                     (* by nothing and stays attached                       *)
  isLeft,            (* the turn goes to the page before                    *)
  isPan,             (* a pan is being handled                              *)
  isPanBegin,        (* the next move of a pan asks for a page              *)
  isAnimateChange,   (* a turn is in progress: new gestures are refused     *)
  touching,          (* a finger pans                                       *)
  anims,             (* running animations: does each end with success?     *)
  crashed

flags == <<isLeft, isPan, isPanBegin, isAnimateChange>>
fixed == <<openAnimate, overlap>>
vars  == <<fixed, record, views, flags, touching, anims, crashed>>

InFront(pg) == [pg |-> pg, role |-> "front", off |-> FALSE]

\* A new controller, with the page setController puts in front
Init ==
  /\ openAnimate \in BOOLEAN
  /\ overlap \in BOOLEAN
  /\ record \in Pages
  /\ views = <<InFront(record)>>
  /\ isLeft = FALSE
  /\ isPan = FALSE
  /\ isPanBegin = FALSE
  /\ isAnimateChange = FALSE
  /\ touching = FALSE
  /\ anims = <<>>
  /\ crashed = FALSE

--------------------------------------------------------------------------------
Has(v, role)  == \E i \in DOMAIN v : v[i].role = role
Position(v, role) == CHOOSE i \in DOMAIN v : v[i].role = role
PageOf(v, role) == IF Has(v, role) THEN v[Position(v, role)].pg ELSE NoPage
Without(v, role) == IF Has(v, role) THEN RemoveAt(v, Position(v, role)) ELSE v
Renamed(v, from, to) ==
  [i \in DOMAIN v |-> IF v[i].role = from THEN [v[i] EXCEPT !.role = to] ELSE v[i]]

\* Mutant of Answer: there is a page after the last one.
AnswerPastEnd(left) == IF left /\ record = 0 THEN NoPage
                       ELSE IF left THEN record - 1 ELSE record + 1

\* The data source's answer, of the container's model: none at the book's ends
Answer(left) == LET p == IF left THEN record - 1 ELSE record + 1
                IN  IF p \in Pages THEN p ELSE NoPage

\* pendingController = ...; addController: the page before comes from the left
\* over all others, the page after is put under the one in front.
Attached(v, pg, left) ==
  LET old == Renamed(v, "pending", "left")
      new == [pg |-> pg, role |-> "pending", off |-> left]
  IN  IF pg = NoPage THEN old
      ELSE IF left \/ ~Has(old, "front") THEN Append(old, new)
      ELSE InsertAt(old, Position(old, "front"), new)

\* Mutant of Moved: a turn that is given up ends like one that succeeds.
MovedAlways(v, left, success) ==
  [i \in DOMAIN v |->
     IF left /\ v[i].role = "pending" THEN [v[i] EXCEPT !.off = FALSE]
     ELSE IF ~left /\ v[i].role = "front" THEN [v[i] EXCEPT !.off = TRUE]
     ELSE v[i]]

\* The frames gestureSuccess sets: the animation has this end from the start.
Moved(v, left, success) ==
  [i \in DOMAIN v |->
     IF left /\ v[i].role = "pending" THEN [v[i] EXCEPT !.off = ~success]
     ELSE IF ~left /\ v[i].role = "front" THEN [v[i] EXCEPT !.off = success]
     ELSE v[i]]

\* Mutant of Ended: the view in front stays attached.
EndedKeeping(v, success) ==
  IF success THEN Renamed(Renamed(v, "front", "left"), "pending", "front")
  ELSE Without(v, "pending")

\* Mutant of Ended: a turn that is given up removes nothing.
EndedGivenUp(v, success) ==
  IF success THEN Renamed(Without(v, "front"), "pending", "front") ELSE v

\* animateSuccess
Ended(v, success) ==
  IF success THEN Renamed(Without(v, "front"), "pending", "front")
  ELSE Without(v, "pending")

\* animateSuccess, then coverFinished of the container: the page of the
\* controller in front, if there is one, is recorded.
AnimateSuccess(v, success) ==
  /\ views' = Ended(v, success)
  /\ isAnimateChange' = FALSE
  /\ record' = IF Has(views', "front") THEN PageOf(views', "front") ELSE record

\* gestureSuccess with a pending controller; the flag is that before it.
GestureSuccess(v, left, success, flag) ==
  IF openAnimate
  THEN /\ views' = Moved(v, left, success)
       /\ anims' = Append(anims, success)
       /\ isAnimateChange' = flag
       /\ UNCHANGED record
  ELSE /\ AnimateSuccess(Moved(v, left, success), success)
       /\ UNCHANGED anims

TouchArrives == ~crashed /\ ~touching /\ (overlap \/ anims = <<>>)

\* getTapController in the left or the right third, and the rest of touchTap
TapTurns(left) ==
  LET pg == Answer(left)
      v  == Attached(views, pg, left)
  IN  /\ isLeft' = left
      /\ IF pg = NoPage
         THEN /\ views' = v
              /\ isAnimateChange' = FALSE
              /\ UNCHANGED <<record, anims>>
         ELSE GestureSuccess(v, left, TRUE, openAnimate)

Tap(left) ==
  /\ TouchArrives
  /\ ~isAnimateChange
  /\ Len(anims) < MaxAnims /\ Len(views) < MaxViews
  /\ TapTurns(left)
  /\ UNCHANGED <<fixed, isPan, isPanBegin, touching, crashed>>

\* A tap between the thirds asks for nothing, which drops what is pending.
TapMiddle ==
  /\ TouchArrives
  /\ ~isAnimateChange
  /\ views' = Attached(views, NoPage, isLeft)
  /\ UNCHANGED <<fixed, record, flags, touching, anims, crashed>>

PanBegan ==
  /\ TouchArrives
  /\ touching' = TRUE
  /\ IF isAnimateChange
     THEN UNCHANGED flags
     ELSE /\ isAnimateChange' = openAnimate
          /\ isPanBegin' = TRUE
          /\ isPan' = TRUE
          /\ UNCHANGED isLeft
  /\ UNCHANGED <<fixed, record, views, anims, crashed>>

\* Mutant of PanChanged: every move asks for a page.
PanChangedAgain(left) ==
  /\ ~crashed /\ touching
  /\ isPan
  /\ isLeft' = left
  /\ views' = Attached(views, Answer(left), left)
  /\ isAnimateChange' = (isAnimateChange /\ Answer(left) # NoPage)
  /\ UNCHANGED <<fixed, record, isPan, isPanBegin, touching, anims, crashed>>

\* The first move to one side asks for a page. That isPanBegin is of this pan is
\* not tested. Moves straight up or down, and later ones, change frames only.
PanChanged(left) ==
  /\ ~crashed /\ touching
  /\ isPanBegin
  /\ Len(views) < MaxViews
  /\ isPanBegin' = FALSE
  /\ isLeft' = left
  /\ views' = Attached(views, Answer(left), left)
  /\ isAnimateChange' = (isAnimateChange /\ Answer(left) # NoPage)
  /\ UNCHANGED <<fixed, record, isPan, touching, anims, crashed>>

\* Mutant of PanEnded: a pan that asked for nothing leaves the flag set.
PanEndedStuck(success) ==
  /\ ~crashed /\ touching
  /\ touching' = FALSE
  /\ isPan' = FALSE
  /\ IF isPan /\ Has(views, "pending")
     THEN GestureSuccess(views, isLeft, success \/ ~openAnimate, isAnimateChange)
     ELSE UNCHANGED <<record, views, isAnimateChange, anims>>
  /\ UNCHANGED <<fixed, isLeft, isPanBegin, crashed>>

\* The pan has ended, failed or was cancelled.
PanEnded(success) ==
  /\ ~crashed /\ touching
  /\ isPan /\ Has(views, "pending") => Len(anims) < MaxAnims
  /\ touching' = FALSE
  /\ isPan' = FALSE
  /\ IF ~isPan
     THEN UNCHANGED <<record, views, isAnimateChange, anims, crashed>>
     ELSE IF ~Has(views, "pending")
     THEN /\ isAnimateChange' = FALSE
          /\ UNCHANGED <<record, views, anims, crashed>>
     ELSE IF openAnimate /\ ~isLeft /\ ~Has(views, "front")   \* currentController!
     THEN /\ crashed' = TRUE
          /\ UNCHANGED <<record, views, isAnimateChange, anims>>
     ELSE /\ GestureSuccess(views, isLeft, success \/ ~openAnimate, isAnimateChange)
          /\ UNCHANGED crashed
  /\ UNCHANGED <<fixed, isLeft, isPanBegin>>

AnimationEnds ==
  /\ ~crashed /\ anims # <<>>
  /\ anims' = Tail(anims)
  /\ AnimateSuccess(views, Head(anims))
  /\ UNCHANGED <<fixed, isLeft, isPan, isPanBegin, touching, crashed>>

\* The reader starts the application again: a new controller shows the record.
Restart ==
  /\ crashed
  /\ crashed' = FALSE
  /\ views' = <<InFront(record)>>
  /\ isLeft' = FALSE
  /\ isPan' = FALSE
  /\ isPanBegin' = FALSE
  /\ isAnimateChange' = FALSE
  /\ anims' = <<>>
  /\ UNCHANGED <<fixed, record, touching>>

Next ==
  \/ \E left \in BOOLEAN : Tap(left) \/ PanChanged(left)
  \/ TapMiddle
  \/ PanBegan
  \/ \E success \in BOOLEAN : PanEnded(success)
  \/ AnimationEnds
  \/ Restart

\* UIKit ends every animation, and every touch ends or is cancelled.
Fairness ==
  /\ WF_vars(AnimationEnds)
  /\ WF_vars(\E success \in BOOLEAN : PanEnded(success))

Spec == Init /\ [][Next]_vars /\ Fairness
--------------------------------------------------------------------------------
\* Type invariant: one controller at most is in front, one at most is pending.
TypeOK ==
  /\ openAnimate \in BOOLEAN /\ overlap \in BOOLEAN
  /\ record \in Pages
  /\ views \in Seq(Views)
  /\ \A role \in {"front", "pending"} : \A i, j \in DOMAIN views :
       views[i].role = role /\ views[j].role = role => i = j
  /\ isLeft \in BOOLEAN /\ isPan \in BOOLEAN
  /\ isPanBegin \in BOOLEAN /\ isAnimateChange \in BOOLEAN
  /\ touching \in BOOLEAN
  /\ anims \in Seq(BOOLEAN)
  /\ crashed \in BOOLEAN

AtRest == ~touching /\ anims = <<>>

\* Between two gestures, where these wait for animations, the view of the recorded
\* page is the only one attached, it is on the screen, and the next gesture is not
\* refused.
RestIsClean ==
  ~overlap /\ AtRest => views = <<InFront(record)>> /\ ~isAnimateChange /\ ~isPan

\* While a page is pending the controller is busy with this turn alone: a pan
\* that asked for it, or one animation, whose views are the two of the turn.
OneTurn ==
  ~overlap /\ Has(views, "pending") =>
    /\ Len(views) = 2
    /\ openAnimate => isAnimateChange
    /\ Len(anims) + (IF isPan THEN 1 ELSE 0) = 1

\* The topmost view on the screen shows this page.
Shown == LET on == {i \in DOMAIN views : ~views[i].off}
         IN  IF on = {} THEN NoPage
             ELSE views[CHOOSE i \in on : \A j \in on : j <= i].pg

\* "Update the current reading record": what the reader sees between two gestures
\* is the page of the record, unless a pan that a tap's animation refused has left
\* a view behind, whose first move was taken for one of an earlier pan.
RecordIsOnTheScreen ==
  AtRest /\ ~crashed => \/ Shown = record
                        \/ \E i \in DOMAIN views : views[i].role # "front"

\* The controller keeps to the protocol of the container: what it records is the
\* page it asked for last, always one beside the recorded one. Also a turn that a
\* late pan has interfered with moves the record by one page at most.
Turn == INSTANCE PageTurn WITH place <- record, asked <- PageOf(views, "pending")

TurnsByOnePage == Turn!Init /\ [][Turn!Next]_Turn!vars

\* The liveness of that protocol: where gestures wait, a page asked for arrives or is
\* given up.  Gestures are never refused for good: the flag set by a tap or a pan that
\* finds no page, fails or succeeds is cleared in the end.
TurnsEnd ==
  /\ ~overlap /\ Has(views, "pending") ~> ~Has(views, "pending")
  /\ isAnimateChange ~> ~isAnimateChange \/ crashed
================================================================================
