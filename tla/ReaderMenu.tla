----------------------------- MODULE ReaderMenu -----------------------------
(***************************************************************************)
(* The menu of the reader, its panels, the list of chapters and the         *)
(* selection of text, which share the touches on the container.  A tap is   *)
(* offered to three recognizers: that of the text (added by a selection),   *)
(* that of the page and that of the menu.  UIKit gives no order between     *)
(* them, and lets two of them recognize one tap only if a delegate says so. *)
(* One touch is on the screen at a time.                                     *)
(***************************************************************************)
EXTENDS FiniteSets, Sequences, SequencesExt

VARIABLE s   \* the menu, the page and the list, see TypeOK

\* "cover" stands for the effect "no" too, which has the same controller.
Effects == {"pageCurl", "translation", "scroll", "cover"}
Panels  == {"setting", "fontType", "effect", "bgColor", "note"}

-----------------------------------------------------------------------------
(* WLReaderMenu *)

\* The animations that have a completion; all take the same time, so they end in this order.
IsAnimateComplete(r) == ~Contains(r.pending, "menu")

\* Mutant: a call during the animation is not dropped.
ShowMenuAlways(r, show) ==
    IF r.isMenuShow = show THEN r
    ELSE [r EXCEPT !.isMenuShow = show, !.pending = Append(@, "menu"),
                   !.panels = IF show THEN @ ELSE {}]

\* Mutant: the view of the notes stays where it is.
ShowMenuButNotes(r, show) ==
    IF r.isMenuShow = show \/ ~IsAnimateComplete(r) THEN r
    ELSE [r EXCEPT !.isMenuShow = show, !.pending = Append(@, "menu"),
                   !.panels = IF show THEN @ ELSE @ \cap {"note"}]

ShowMenu(r, show) ==
    IF r.isMenuShow = show \/ ~IsAnimateComplete(r) THEN r
    ELSE [r EXCEPT !.isMenuShow = show, !.pending = Append(@, "menu"),
                   !.panels = IF show THEN @ ELSE {}]

ShowPanel(r, p) == [r EXCEPT !.panels = @ \cup {p}, !.tapDisabled = @ \/ p = "note"]
HidePanel(r, p) == [r EXCEPT !.panels = @ \ {p}, !.tapDisabled = @ /\ p # "note"]

\* Mutant: the animation lets touches through.
MenuUsableAnimated == s.isMenuShow

\* The views that are being animated take no touches.
MenuUsable == s.isMenuShow /\ IsAnimateComplete(s)

-----------------------------------------------------------------------------
(* The container *)

\* Only a page curl and a cover controller are told; the others go on turning pages.
LongPressView(r, isOpen) ==
    [ShowMenu(r, FALSE) EXCEPT !.hearing = isOpen \/ r.effect \notin {"pageCurl", "cover"},
                               !.tapDisabled = ~isOpen]

\* Mutant: the recognizers of the new pages are set up as those of the old ones were.
RecreateDeaf(r, effect) ==
    [r EXCEPT !.effect = effect, !.selection = "none", !.live = FALSE, !.stray = FALSE]

\* clearPageControllers and createPageViewController
Recreate(r, effect) ==
    [r EXCEPT !.effect = effect, !.hearing = TRUE,
              !.selection = "none", !.live = FALSE, !.stray = FALSE]

\* Another page is on the screen, of the same controller.
TurnPage(r) == [r EXCEPT !.selection = "none", !.live = FALSE, !.stray = FALSE]

-----------------------------------------------------------------------------
(* WLAttributedView *)

\* The last recognizer that was added is removed.
Unselect(r) == LongPressView([r EXCEPT !.selection = "none", !.live = FALSE], TRUE)

NoPress == s.selection # "pressing" /\ ~s.listOpen

PressBegins ==
    /\ NoPress
    /\ s' = [LongPressView(s, TRUE) EXCEPT !.selection = "pressing"]

PressEnds ==
    /\ s.selection = "pressing"
    /\ s' = LongPressView([s EXCEPT !.selection = "selected", !.live = TRUE,
                                    !.stray = @ \/ s.live], FALSE)

\* The system takes the touch away; the lines stay marked.
PressIsCancelled ==
    /\ s.selection = "pressing"
    /\ s' = [s EXCEPT !.selection = "selected"]

\* Copy, line and note.  An image is not copied, and nothing changes.
ChooseItem ==
    /\ s.selection = "selected" /\ s.live /\ ~s.listOpen
    /\ s' = Unselect(s)

\* Next and previous page; there may be none.
ChooseTurn ==
    /\ s.selection = "selected" /\ s.live /\ ~s.listOpen /\ s.effect # "scroll"
    /\ \/ s' = LongPressView(Recreate(s, s.effect), TRUE)
       \/ s' = LongPressView(s, TRUE)

-----------------------------------------------------------------------------
(* Taps and pans *)

Receivers(onText) ==
    {r \in {"text", "page", "menu"} :
        CASE r = "text" -> onText /\ (s.live \/ s.stray)
          [] r = "page" -> s.effect # "scroll" /\ s.hearing
          [] r = "menu" -> ~(s.isMenuShow /\ s.tapDisabled)}

Together(p, q, zone) == p = q \/ (zone = "middle" /\ "page" \in {p, q})

\* As many receivers as may recognize the tap together.
Recognizers(zone, onText) ==
    LET may == {R \in SUBSET Receivers(onText) : \A p, q \in R : Together(p, q, zone)}
    IN  {R \in may : ~\E Q \in may : R \subseteq Q /\ R # Q}

Handle(r, recognizer, zone) ==
    CASE recognizer = "text" -> Unselect(r)
      [] recognizer = "menu" -> ShowMenu(r, ~r.isMenuShow)
      [] recognizer = "page" -> ShowMenu(r, zone = "middle" /\ r.effect = "pageCurl" /\ ~r.isMenuShow)

\* No three of them may: p recognizes it, and q after it, if there is a second one.
HandleInOrder(r, p, q, zone) ==
    IF p = q THEN Handle(r, p, zone) ELSE Handle(Handle(r, p, zone), q, zone)

\* A tap on a side turns the page, if there is another one.
Tap(zone, onText) ==
    /\ NoPress
    /\ \E p, q \in Receivers(onText) :
          LET r == HandleInOrder(s, p, q, zone)
          IN  /\ {p, q} \in Recognizers(zone, onText)
              /\ \/ s' = r
                 \/ zone = "side" /\ "page" \in {p, q} /\ s' = TurnPage(r)

\* The pan of the text recognizes together with the one of the page, and ends the selection.
\* The one of a page curl does not begin when the finger moves up or down.
Pan(onText) ==
    /\ NoPress
    /\ \E begins \in (IF s.effect = "pageCurl" THEN BOOLEAN ELSE {TRUE}) :
       LET r == IF s.hearing /\ begins THEN ShowMenu(s, FALSE) ELSE s
           q == IF onText THEN Unselect(r) ELSE r
       IN  s' = q \/ (s.hearing /\ begins /\ s.effect # "scroll" /\ s' = TurnPage(q))

-----------------------------------------------------------------------------
(* The controls of the menu, and the list of chapters *)

OpenPanel == MenuUsable /\ NoPress /\ \E p \in Panels :
    /\ p \in {"fontType", "effect"} => "setting" \in s.panels
    /\ s' = ShowPanel(s, p)

ClosePanel == MenuUsable /\ NoPress /\ \E p \in s.panels : s' = HidePanel(s, p)

\* Next, previous and dragged progress, and every change of the settings.
ChangeSettings == MenuUsable /\ NoPress /\ \E e \in Effects :
    /\ e # s.effect => "effect" \in s.panels
    /\ s' = Recreate(s, e)

ClickCatalogue ==
    /\ MenuUsable /\ NoPress
    /\ s' = [ShowMenu(s, FALSE) EXCEPT !.listOpen = TRUE, !.listHidden = FALSE]

\* A touch on the cover, or on a chapter, which may be another one.
CloseList ==
    /\ s.listOpen
    /\ LET r == [s EXCEPT !.listOpen = FALSE, !.pending = Append(@, "list")]
       IN  s' = r \/ s' = Recreate(r, s.effect)

AnimationEnds ==
    /\ s.pending # <<>>
    /\ s' = [s EXCEPT !.pending = Tail(@), !.listHidden = @ \/ Head(s.pending) = "list"]

Init == \E e \in Effects :
    s = [effect |-> e, isMenuShow |-> FALSE, pending |-> <<>>, tapDisabled |-> FALSE, panels |-> {},
         hearing |-> TRUE, selection |-> "none", live |-> FALSE, stray |-> FALSE,
         listOpen |-> FALSE, listHidden |-> TRUE]

Next == \/ PressBegins \/ PressEnds \/ PressIsCancelled \/ ChooseItem \/ ChooseTurn
        \/ (\E zone \in {"middle", "side"}, onText \in BOOLEAN : Tap(zone, onText))
        \/ (\E onText \in BOOLEAN : Pan(onText))
        \/ OpenPanel \/ ClosePanel \/ ChangeSettings \/ ClickCatalogue \/ CloseList \/ AnimationEnds

Spec == Init /\ [][Next]_s

-----------------------------------------------------------------------------
\* Type correctness; at most one animation of the menu and one of the list are under way.
TypeOK ==
    /\ s \in [effect : Effects, isMenuShow : BOOLEAN, pending : Seq({"menu", "list"}),
              tapDisabled : BOOLEAN, panels : SUBSET Panels, hearing : BOOLEAN,
              selection : {"none", "pressing", "selected"}, live : BOOLEAN, stray : BOOLEAN,
              listOpen : BOOLEAN, listHidden : BOOLEAN]
    /\ IsInjective(s.pending)

\* The panels are hidden with the menu, also where a turn of the page, a selection or the list of
\* chapters hides it (showMenu).
PanelsNeedMenu == s.panels # {} => s.isMenuShow

\* The page stops to react to touches for a selection, and reacts again when the selection ends,
\* in whichever way it ends (longPressViewNotification).
DeafOnlyWhileSelected == ~s.hearing => s.selection # "none"

\* The list of chapters that is open can be seen, and the menu is not above it: the completion of
\* an earlier closing comes before the list can be opened again (showChapterListView).
OpenListIsSeen == s.listOpen => ~s.listHidden /\ ~s.isMenuShow

\* A tap in the middle that reaches the page or the menu shows or hides the menu, although
\* both may ask for it, in whichever order: the second call is dropped.  It reaches none of
\* them where the taps of a menu are disabled and the page does not react either, as in a
\* scroll view after the notes were hidden with the menu (onTap).
MiddleTapToggles ==
    NoPress /\ IsAnimateComplete(s) =>
        \A p, q \in Receivers(FALSE) : {p, q} \in Recognizers("middle", FALSE) =>
            HandleInOrder(s, p, q, "middle").isMenuShow # s.isMenuShow
=============================================================================
