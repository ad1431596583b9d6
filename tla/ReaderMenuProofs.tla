---------------------------- MODULE ReaderMenuProofs ----------------------------
(***************************************************************************)
(* Theorems of ReaderMenu. The state is one record that the operations of  *)
(* the code pass on, so the invariant is a predicate of a record, and a    *)
(* lemma on each operation says that it keeps it.                          *)
(***************************************************************************)
EXTENDS ReaderMenu, Integers, TLAPS

Menus == [effect : Effects, isMenuShow : BOOLEAN, pending : Seq({"menu", "list"}),
          tapDisabled : BOOLEAN, panels : SUBSET Panels, hearing : BOOLEAN,
          selection : {"none", "pressing", "selected"}, live : BOOLEAN, stray : BOOLEAN,
          listOpen : BOOLEAN, listHidden : BOOLEAN]

\* The animation of a list that was closed under a menu that is shown ends before
\* that of the menu, which takes no touches until then.
ListEndsFirst(r) ==
  \A i \in DOMAIN r.pending : r.pending[i] = "list" =>
    /\ ~r.listOpen
    /\ r.isMenuShow => \E j \in DOMAIN r.pending : i < j /\ r.pending[j] = "menu"

\* What every operation keeps, also in the middle of a handler
Sound(r) ==
  /\ r \in Menus
  /\ \A i, j \in DOMAIN r.pending : r.pending[i] = r.pending[j] => i = j
  /\ r.panels # {} => r.isMenuShow
  /\ r.listOpen => ~r.listHidden /\ ~r.isMenuShow
  /\ ListEndsFirst(r)

\* The page is deaf for a selection only.
Hears(r) == r.hearing \/ r.selection # "none"

\* The inductive invariant
MenuInv == Sound(s) /\ Hears(s)

--------------------------------------------------------------------------------
\* A sequence without repetitions to which something new is appended has none.
LEMMA AppendNew ==
  ASSUME NEW q \in Seq({"menu", "list"}), NEW e \in {"menu", "list"},
         \A i, j \in DOMAIN q : q[i] = q[j] => i = j,
         \A i \in DOMAIN q : q[i] # e
  PROVE  /\ Append(q, e) \in Seq({"menu", "list"})
         /\ Len(q) \in Nat /\ DOMAIN q = 1..Len(q)
         /\ DOMAIN Append(q, e) = 1..Len(q) + 1
         /\ \A i \in DOMAIN q : Append(q, e)[i] = q[i]
         /\ Append(q, e)[Len(q) + 1] = e
         /\ \A i, j \in DOMAIN Append(q, e) : Append(q, e)[i] = Append(q, e)[j] => i = j
<1>1. /\ Append(q, e) \in Seq({"menu", "list"})
      /\ Len(q) \in Nat /\ DOMAIN q = 1..Len(q)
      /\ DOMAIN Append(q, e) = 1..Len(q) + 1
      /\ \A i \in DOMAIN q : Append(q, e)[i] = q[i]
      /\ Append(q, e)[Len(q) + 1] = e
  OBVIOUS
<1> QED
  BY <1>1

\* The menu is not animated where nothing that belongs to it is pending.
LEMMA AnimateCompleteMeaning ==
  ASSUME NEW r \in Menus
  PROVE  IsAnimateComplete(r) <=> \A i \in DOMAIN r.pending : r.pending[i] # "menu"
BY DEF IsAnimateComplete, Contains, Menus

\* What showMenu changes, if it is not dropped
LEMMA ShowMenuEffect ==
  ASSUME NEW r \in Menus, NEW show \in BOOLEAN
  PROVE  \/ /\ r.isMenuShow = show \/ ~IsAnimateComplete(r)
            /\ ShowMenu(r, show) = r
         \/ /\ r.isMenuShow # show /\ IsAnimateComplete(r)
            /\ ShowMenu(r, show) \in Menus
            /\ ShowMenu(r, show).isMenuShow = show
            /\ ShowMenu(r, show).pending = Append(r.pending, "menu")
            /\ ShowMenu(r, show).panels = IF show THEN r.panels ELSE {}
            /\ ShowMenu(r, show).hearing = r.hearing
            /\ ShowMenu(r, show).selection = r.selection
            /\ ShowMenu(r, show).effect = r.effect
            /\ ShowMenu(r, show).listOpen = r.listOpen
            /\ ShowMenu(r, show).listHidden = r.listHidden
<1>1. CASE r.isMenuShow = show \/ ~IsAnimateComplete(r)
  BY <1>1 DEF ShowMenu
<1>2. CASE ~(r.isMenuShow = show \/ ~IsAnimateComplete(r))
  <2>1. ShowMenu(r, show) =
          [r EXCEPT !.isMenuShow = show, !.pending = Append(@, "menu"),
                    !.panels = IF show THEN @ ELSE {}]
    BY <1>2 DEF ShowMenu
  <2>2. Append(r.pending, "menu") \in Seq({"menu", "list"})
    BY DEF Menus
  <2> DEFINE w == ShowMenu(r, show)
  <2>3. w \in Menus
    BY <2>1, <2>2 DEF Menus
  <2>4. /\ w.isMenuShow = show
        /\ w.pending = Append(r.pending, "menu")
        /\ w.panels = IF show THEN r.panels ELSE {}
    BY <2>1 DEF Menus
  <2>5. /\ w.hearing = r.hearing /\ w.selection = r.selection /\ w.effect = r.effect
        /\ w.listOpen = r.listOpen /\ w.listHidden = r.listHidden
    BY <2>1 DEF Menus
  <2> QED
    BY <1>2, <2>3, <2>4, <2>5
<1> QED
  BY <1>1, <1>2

\* Showing or hiding the menu keeps what every operation keeps; a menu is not shown
\* under an open list.
LEMMA ShowMenuSound ==
  ASSUME NEW r, Sound(r), NEW show \in BOOLEAN, show => ~r.listOpen
  PROVE  /\ Sound(ShowMenu(r, show))
         /\ ShowMenu(r, show).hearing = r.hearing
         /\ ShowMenu(r, show).selection = r.selection
         /\ ShowMenu(r, show).effect = r.effect
         /\ ShowMenu(r, show).listOpen = r.listOpen
<1> DEFINE w == ShowMenu(r, show)
           q == r.pending
<1>1. r \in Menus
  BY DEF Sound
<1>2. CASE w = r
  BY <1>2
<1>3. CASE w # r
  <2>1. /\ r.isMenuShow # show /\ IsAnimateComplete(r)
        /\ w \in Menus /\ w.isMenuShow = show /\ w.pending = Append(q, "menu")
        /\ w.panels = IF show THEN r.panels ELSE {}
        /\ w.hearing = r.hearing /\ w.selection = r.selection /\ w.effect = r.effect
        /\ w.listOpen = r.listOpen /\ w.listHidden = r.listHidden
    BY <1>1, <1>3, ShowMenuEffect
  <2>2. \A i \in DOMAIN q : q[i] # "menu"
    BY <1>1, <2>1, AnimateCompleteMeaning
  <2>3. /\ \A i, j \in DOMAIN q : q[i] = q[j] => i = j
        /\ q \in Seq({"menu", "list"})
    BY <1>1 DEF Sound, Menus
  <2> HIDE DEF w, q
  <2>4. /\ Len(q) \in Nat /\ DOMAIN q = 1..Len(q)
        /\ DOMAIN w.pending = 1..Len(q) + 1
        /\ \A i \in DOMAIN q : w.pending[i] = q[i]
        /\ w.pending[Len(q) + 1] = "menu"
        /\ \A i, j \in DOMAIN w.pending : w.pending[i] = w.pending[j] => i = j
    BY <2>1, <2>2, <2>3, AppendNew
  <2>5. ListEndsFirst(w)
    <3> SUFFICES ASSUME NEW i \in DOMAIN w.pending, w.pending[i] = "list"
                 PROVE  /\ ~w.listOpen
                        /\ w.isMenuShow => \E j \in DOMAIN w.pending :
                                              i < j /\ w.pending[j] = "menu"
      BY DEF ListEndsFirst
    <3>1. i \in DOMAIN q /\ q[i] = "list"
      BY <2>4
    <3>2. ~r.listOpen
      BY <3>1 DEF Sound, ListEndsFirst, q
    <3>3. i < Len(q) + 1 /\ Len(q) + 1 \in DOMAIN w.pending
      BY <2>4, <3>1
    <3> QED
      BY <2>1, <2>4, <3>2, <3>3
  <2>6. w.panels # {} => w.isMenuShow
    BY <2>1
  <2>7. w.listOpen => ~w.listHidden /\ ~w.isMenuShow
    BY <2>1 DEF Sound
  <2>8. Sound(w)
    BY <2>1, <2>4, <2>5, <2>6, <2>7 DEF Sound
  <2> QED
    BY <2>1, <2>8 DEF w
<1> QED
  BY <1>2, <1>3

\* The page is told of a selection that begins or ends.
LEMMA LongPressSound ==
  ASSUME NEW r, Sound(r), NEW isOpen \in BOOLEAN
  PROVE  /\ Sound(LongPressView(r, isOpen))
         /\ LongPressView(r, isOpen).selection = r.selection
         /\ LongPressView(r, isOpen).listOpen = r.listOpen
         /\ isOpen => LongPressView(r, isOpen).hearing
<1> DEFINE m == ShowMenu(r, FALSE)
           w == LongPressView(r, isOpen)
           h == isOpen \/ r.effect \notin {"pageCurl", "cover"}
<1>1. Sound(m) /\ m.selection = r.selection /\ m.listOpen = r.listOpen
  BY ShowMenuSound
<1>2. m \in Menus
  BY <1>1 DEF Sound
<1>3. w = [m EXCEPT !.hearing = h, !.tapDisabled = ~isOpen]
  BY DEF LongPressView
<1>4. h \in BOOLEAN /\ (~isOpen) \in BOOLEAN
  OBVIOUS
<1> HIDE DEF m, w, h
<1>5. w \in Menus
  BY <1>2, <1>3, <1>4 DEF Menus
<1>6. /\ w.pending = m.pending /\ w.panels = m.panels /\ w.isMenuShow = m.isMenuShow
      /\ w.listOpen = m.listOpen /\ w.listHidden = m.listHidden
      /\ w.selection = m.selection
  BY <1>2, <1>3 DEF Menus
<1>7. w.hearing = h
  BY <1>2, <1>3 DEF Menus
<1>8. Sound(w)
  BY <1>1, <1>5, <1>6 DEF Sound, ListEndsFirst
<1> QED
  BY <1>1, <1>6, <1>7, <1>8 DEF w, h

\* Sound depends on the menu, its animations, its panels and the list.
LEMMA SoundOfFields ==
  ASSUME NEW r, Sound(r), NEW w \in Menus,
         w.pending = r.pending, w.panels = r.panels, w.isMenuShow = r.isMenuShow,
         w.listOpen = r.listOpen, w.listHidden = r.listHidden
  PROVE  Sound(w)
BY DEF Sound, ListEndsFirst

\* New controllers react to touches and have no selection.
LEMMA RecreateSound ==
  ASSUME NEW r, Sound(r), NEW e \in Effects
  PROVE  /\ Sound(Recreate(r, e)) /\ Hears(Recreate(r, e))
         /\ Recreate(r, e).listOpen = r.listOpen
<1> DEFINE w == Recreate(r, e)
<1>1. r \in Menus
  BY DEF Sound
<1>2. w = [r EXCEPT !.effect = e, !.hearing = TRUE,
                    !.selection = "none", !.live = FALSE, !.stray = FALSE]
  BY DEF Recreate
<1> HIDE DEF w
<1>3. w \in Menus
  BY <1>1, <1>2 DEF Menus
<1>4. /\ w.pending = r.pending /\ w.panels = r.panels /\ w.isMenuShow = r.isMenuShow
      /\ w.listOpen = r.listOpen /\ w.listHidden = r.listHidden
  BY <1>1, <1>2 DEF Menus
<1>5. w.hearing
  BY <1>1, <1>2 DEF Menus
<1> QED
  BY <1>3, <1>4, <1>5, SoundOfFields DEF Hears, w

\* A turned page has no selection; the controller stays.
LEMMA TurnPageSound ==
  ASSUME NEW r, Sound(r)
  PROVE  Sound(TurnPage(r)) /\ TurnPage(r).hearing = r.hearing
<1> DEFINE w == TurnPage(r)
<1>1. r \in Menus
  BY DEF Sound
<1>2. w = [r EXCEPT !.selection = "none", !.live = FALSE, !.stray = FALSE]
  BY DEF TurnPage
<1> HIDE DEF w
<1>3. w \in Menus
  BY <1>1, <1>2 DEF Menus
<1>4. /\ w.pending = r.pending /\ w.panels = r.panels /\ w.isMenuShow = r.isMenuShow
      /\ w.listOpen = r.listOpen /\ w.listHidden = r.listHidden
      /\ w.hearing = r.hearing
  BY <1>1, <1>2 DEF Menus
<1> QED
  BY <1>3, <1>4, SoundOfFields DEF w

\* The end of a selection lets the page react again.
LEMMA UnselectSound ==
  ASSUME NEW r, Sound(r)
  PROVE  /\ Sound(Unselect(r)) /\ Unselect(r).hearing
         /\ Unselect(r).listOpen = r.listOpen
<1> DEFINE w == [r EXCEPT !.selection = "none", !.live = FALSE]
<1>1. r \in Menus
  BY DEF Sound
<1>2. w \in Menus
  BY <1>1 DEF Menus
<1>3. /\ w.pending = r.pending /\ w.panels = r.panels /\ w.isMenuShow = r.isMenuShow
      /\ w.listOpen = r.listOpen /\ w.listHidden = r.listHidden
  BY <1>1 DEF Menus
<1>4. Unselect(r) = LongPressView(w, TRUE)
  BY DEF Unselect
<1> HIDE DEF w
<1>5. Sound(w)
  BY <1>2, <1>3, SoundOfFields
<1> QED
  BY <1>3, <1>4, <1>5, LongPressSound

\* A recognizer of a tap keeps what every operation keeps, and makes no page deaf.
LEMMA HandleSound ==
  ASSUME NEW r, Sound(r), ~r.listOpen, NEW x \in {"text", "page", "menu"}, NEW zone
  PROVE  /\ Sound(Handle(r, x, zone)) /\ ~Handle(r, x, zone).listOpen
         /\ Hears(r) => Hears(Handle(r, x, zone))
         /\ r.hearing => Handle(r, x, zone).hearing
<1>1. r.isMenuShow \in BOOLEAN
  BY DEF Sound, Menus
<1>2. CASE x = "text"
  <2>1. Handle(r, x, zone) = Unselect(r)
    BY <1>2 DEF Handle
  <2> QED
    BY <2>1, UnselectSound DEF Hears
<1>3. CASE x # "text"
  <2>1. PICK show \in BOOLEAN : Handle(r, x, zone) = ShowMenu(r, show)
    <3>1. CASE x = "menu"
      <4>1. Handle(r, x, zone) = ShowMenu(r, ~r.isMenuShow)
        BY <3>1 DEF Handle
      <4> QED
        BY <1>1, <4>1
    <3>2. CASE x = "page"
      <4>1. Handle(r, x, zone) =
              ShowMenu(r, zone = "middle" /\ r.effect = "pageCurl" /\ ~r.isMenuShow)
        BY <3>2 DEF Handle
      <4> QED
        BY <4>1
    <3> QED
      BY <1>3, <3>1, <3>2
  <2> QED
    BY <2>1, ShowMenuSound DEF Hears
<1> QED
  BY <1>2, <1>3

\* Two recognizers of one tap, one after the other
LEMMA HandleInOrderSound ==
  ASSUME NEW r, Sound(r), ~r.listOpen, NEW zone,
         NEW p \in {"text", "page", "menu"}, NEW q \in {"text", "page", "menu"}
  PROVE  /\ Sound(HandleInOrder(r, p, q, zone))
         /\ Hears(r) => Hears(HandleInOrder(r, p, q, zone))
         /\ r.hearing => HandleInOrder(r, p, q, zone).hearing
<1> DEFINE h == Handle(r, p, zone)
<1>1. /\ Sound(h) /\ ~h.listOpen /\ (Hears(r) => Hears(h)) /\ (r.hearing => h.hearing)
  BY HandleSound
<1> HIDE DEF h
<1>2. /\ Sound(Handle(h, q, zone)) /\ (Hears(h) => Hears(Handle(h, q, zone)))
      /\ (h.hearing => Handle(h, q, zone).hearing)
  BY <1>1, HandleSound
<1>3. HandleInOrder(r, p, q, zone) \in {h, Handle(h, q, zone)}
  BY DEF HandleInOrder, h
<1> QED
  BY <1>1, <1>2, <1>3

--------------------------------------------------------------------------------
\* A press on the text begins, ends, or is taken away, and the menu of a selection
\* is used.
LEMMA SelectionKeepsInv ==
  ASSUME MenuInv, PressBegins \/ PressEnds \/ PressIsCancelled \/ ChooseItem \/ ChooseTurn
  PROVE  MenuInv'
<1>1. Sound(s) /\ Hears(s) /\ s \in Menus
  BY DEF MenuInv, Sound
<1>2. CASE PressBegins
  <2> DEFINE m == LongPressView(s, TRUE)
  <2>1. Sound(m) /\ m \in Menus
    BY <1>1, LongPressSound DEF Sound
  <2>2. s' = [m EXCEPT !.selection = "pressing"]
    BY <1>2 DEF PressBegins
  <2> HIDE DEF m
  <2>3. s' \in Menus
    BY <2>1, <2>2 DEF Menus
  <2>4. /\ s'.pending = m.pending /\ s'.panels = m.panels /\ s'.isMenuShow = m.isMenuShow
        /\ s'.listOpen = m.listOpen /\ s'.listHidden = m.listHidden
        /\ s'.selection = "pressing"
    BY <2>1, <2>2 DEF Menus
  <2> QED
    BY <2>1, <2>3, <2>4, SoundOfFields DEF MenuInv, Hears
<1>3. CASE PressEnds
  <2> DEFINE m == [s EXCEPT !.selection = "selected", !.live = TRUE, !.stray = @ \/ s.live]
  <2>1. s' = LongPressView(m, FALSE)
    BY <1>3 DEF PressEnds
  <2>2. (s.stray \/ s.live) \in BOOLEAN
    OBVIOUS
  <2>3. m \in Menus
    BY <1>1, <2>2 DEF Menus
  <2>4. /\ m.pending = s.pending /\ m.panels = s.panels /\ m.isMenuShow = s.isMenuShow
        /\ m.listOpen = s.listOpen /\ m.listHidden = s.listHidden
        /\ m.selection = "selected"
    BY <1>1 DEF Menus
  <2> HIDE DEF m
  <2>5. Sound(m)
    BY <1>1, <2>3, <2>4, SoundOfFields
  <2> QED
    BY <2>1, <2>4, <2>5, LongPressSound DEF MenuInv, Hears
<1>4. CASE PressIsCancelled
  <2>1. s' = [s EXCEPT !.selection = "selected"]
    BY <1>4 DEF PressIsCancelled
  <2>2. s' \in Menus
    BY <1>1, <2>1 DEF Menus
  <2>3. /\ s'.pending = s.pending /\ s'.panels = s.panels /\ s'.isMenuShow = s.isMenuShow
        /\ s'.listOpen = s.listOpen /\ s'.listHidden = s.listHidden
        /\ s'.selection = "selected"
    BY <1>1, <2>1 DEF Menus
  <2> QED
    BY <1>1, <2>2, <2>3, SoundOfFields DEF MenuInv, Hears
<1>5. CASE ChooseItem
  BY <1>1, <1>5, UnselectSound DEF ChooseItem, MenuInv, Hears
<1>6. CASE ChooseTurn
  <2>1. s.effect \in Effects
    BY <1>1 DEF Menus
  <2>2. Sound(Recreate(s, s.effect))
    BY <1>1, <2>1, RecreateSound
  <2>3. PICK r \in {s, Recreate(s, s.effect)} : s' = LongPressView(r, TRUE)
    BY <1>6 DEF ChooseTurn
  <2> QED
    BY <1>1, <2>2, <2>3, LongPressSound DEF MenuInv, Hears
<1> QED
  BY <1>2, <1>3, <1>4, <1>5, <1>6

\* A tap is recognized by one or two, and may turn the page.
LEMMA TapKeepsInv ==
  ASSUME MenuInv, NEW zone \in {"middle", "side"}, NEW onText \in BOOLEAN,
         Tap(zone, onText)
  PROVE  MenuInv'
<1>1. Sound(s) /\ Hears(s) /\ ~s.listOpen
  BY DEF MenuInv, Tap, NoPress
<1>2. PICK p, q \in Receivers(onText) :
        \/ s' = HandleInOrder(s, p, q, zone)
        \/ "page" \in {p, q} /\ s' = TurnPage(HandleInOrder(s, p, q, zone))
  BY DEF Tap
<1>3. p \in {"text", "page", "menu"} /\ q \in {"text", "page", "menu"}
  BY DEF Receivers
<1> DEFINE r == HandleInOrder(s, p, q, zone)
<1>4. Sound(r) /\ Hears(r) /\ (s.hearing => r.hearing)
  BY <1>1, <1>3, HandleInOrderSound
<1>5. "page" \in {p, q} => s.hearing
  <2>1. "page" \in Receivers(onText) => s.hearing
    BY DEF Receivers
  <2> QED
    BY <2>1
<1> HIDE DEF r
<1>6. CASE s' = r
  BY <1>4, <1>6 DEF MenuInv
<1>7. CASE "page" \in {p, q} /\ s' = TurnPage(r)
  BY <1>4, <1>5, <1>7, TurnPageSound DEF MenuInv, Hears
<1> QED
  BY <1>2, <1>6, <1>7 DEF r

\* A pan hides the menu, ends a selection, and may turn the page.
LEMMA PanKeepsInv ==
  ASSUME MenuInv, NEW onText \in BOOLEAN, Pan(onText)
  PROVE  MenuInv'
<1>1. Sound(s) /\ Hears(s)
  BY DEF MenuInv
<1>2. PICK begins \in BOOLEAN :
        LET r == IF s.hearing /\ begins THEN ShowMenu(s, FALSE) ELSE s
            q == IF onText THEN Unselect(r) ELSE r
        IN  s' = q \/ (s.hearing /\ begins /\ s' = TurnPage(q))
  BY DEF Pan
<1> DEFINE r == IF s.hearing /\ begins THEN ShowMenu(s, FALSE) ELSE s
           q == IF onText THEN Unselect(r) ELSE r
<1>3. Sound(r) /\ Hears(r) /\ (s.hearing => r.hearing)
  BY <1>1, ShowMenuSound DEF Hears
<1>4. s' = q \/ (s.hearing /\ s' = TurnPage(q))
  BY <1>2
<1> HIDE DEF r
<1>5. Sound(q) /\ Hears(q) /\ (r.hearing => q.hearing)
  BY <1>3, UnselectSound DEF Hears
<1> HIDE DEF q
<1> QED
  BY <1>3, <1>4, <1>5, TurnPageSound DEF MenuInv, Hears

\* A panel opens or closes while the menu is shown.
LEMMA PanelKeepsInv ==
  ASSUME MenuInv, OpenPanel \/ ClosePanel
  PROVE  MenuInv'
<1>1. Sound(s) /\ Hears(s) /\ s \in Menus /\ s.isMenuShow
  BY DEF MenuInv, Sound, OpenPanel, ClosePanel, MenuUsable
<1>2. PICK P \in SUBSET Panels, d \in BOOLEAN :
        s' = [s EXCEPT !.panels = P, !.tapDisabled = d]
  <2>1. s.panels \in SUBSET Panels
    BY <1>1 DEF Menus
  <2>2. CASE OpenPanel
    <3>1. PICK p \in Panels : s' = ShowPanel(s, p)
      BY <2>2 DEF OpenPanel
    <3>2. /\ s.panels \cup {p} \in SUBSET Panels
          /\ (s.tapDisabled \/ p = "note") \in BOOLEAN
          /\ s' = [s EXCEPT !.panels = s.panels \cup {p},
                            !.tapDisabled = s.tapDisabled \/ p = "note"]
      BY <2>1, <3>1 DEF ShowPanel
    <3> QED
      BY <3>2
  <2>3. CASE ClosePanel
    <3>1. PICK p \in s.panels : s' = HidePanel(s, p)
      BY <2>3 DEF ClosePanel
    <3>2. /\ s.panels \ {p} \in SUBSET Panels
          /\ (s.tapDisabled /\ p # "note") \in BOOLEAN
          /\ s' = [s EXCEPT !.panels = s.panels \ {p},
                            !.tapDisabled = s.tapDisabled /\ p # "note"]
      BY <2>1, <3>1 DEF HidePanel
    <3> QED
      BY <3>2
  <2> QED
    BY <2>2, <2>3
<1>3. s' \in Menus
  BY <1>1, <1>2 DEF Menus
<1>4. /\ s'.pending = s.pending /\ s'.isMenuShow = s.isMenuShow
      /\ s'.listOpen = s.listOpen /\ s'.listHidden = s.listHidden
      /\ s'.hearing = s.hearing /\ s'.selection = s.selection
  BY <1>1, <1>2 DEF Menus
<1>5. Sound(s')
  BY <1>1, <1>3, <1>4 DEF Sound, ListEndsFirst
<1> QED
  BY <1>1, <1>4, <1>5 DEF MenuInv, Hears

\* The list of chapters opens where no closing of it is pending: its animation would
\* have ended before that of the menu.
LEMMA ClickCatalogueKeepsInv ==
  ASSUME MenuInv, ClickCatalogue
  PROVE  MenuInv'
<1> DEFINE m == ShowMenu(s, FALSE)
<1>1. /\ Sound(s) /\ Hears(s) /\ s \in Menus /\ s.isMenuShow /\ IsAnimateComplete(s)
      /\ s' = [m EXCEPT !.listOpen = TRUE, !.listHidden = FALSE]
  BY DEF MenuInv, Sound, ClickCatalogue, MenuUsable
<1>2. /\ m \in Menus /\ m.isMenuShow = FALSE /\ m.pending = Append(s.pending, "menu")
      /\ m.panels = {} /\ m.hearing = s.hearing /\ m.selection = s.selection
  BY <1>1, ShowMenuEffect
<1>3. Sound(m)
  BY <1>1, ShowMenuSound
<1>4. \A i \in DOMAIN s.pending : s.pending[i] # "menu"
  BY <1>1, AnimateCompleteMeaning
<1>5. \A i \in DOMAIN s.pending : s.pending[i] # "list"
  BY <1>1, <1>4 DEF Sound, ListEndsFirst
<1>6. s.pending \in Seq({"menu", "list"})
  BY <1>1 DEF Menus
<1> HIDE DEF m
<1>7. s' \in Menus
  BY <1>1, <1>2 DEF Menus
<1>8. /\ s'.pending = m.pending /\ s'.isMenuShow = m.isMenuShow /\ s'.panels = m.panels
      /\ s'.listOpen = TRUE /\ s'.listHidden = FALSE
      /\ s'.hearing = m.hearing /\ s'.selection = m.selection
  BY <1>1, <1>2 DEF Menus
<1>9. \A i \in DOMAIN m.pending : m.pending[i] # "list"
  <2> TAKE i \in DOMAIN m.pending
  <2>1. (i \in DOMAIN s.pending /\ m.pending[i] = s.pending[i]) \/ m.pending[i] = "menu"
    BY <1>2, <1>6
  <2> QED
    BY <1>5, <2>1
<1>10. ListEndsFirst(s')
  BY <1>8, <1>9 DEF ListEndsFirst
<1>11. Sound(s')
  BY <1>2, <1>3, <1>7, <1>8, <1>10 DEF Sound
<1> QED
  BY <1>1, <1>2, <1>8, <1>11 DEF MenuInv, Hears

\* The list closes: its animation is the last one, under a menu that is not shown.
LEMMA CloseListKeepsInv ==
  ASSUME MenuInv, CloseList
  PROVE  MenuInv'
<1> DEFINE r == [s EXCEPT !.listOpen = FALSE, !.pending = Append(@, "list")]
           q == s.pending
<1>1. /\ Sound(s) /\ Hears(s) /\ s \in Menus /\ s.listOpen /\ ~s.isMenuShow
      /\ s' = r \/ s' = Recreate(r, s.effect)
  BY DEF MenuInv, Sound, CloseList
<1>2. q \in Seq({"menu", "list"}) /\ \A i \in DOMAIN q : q[i] # "list"
  BY <1>1 DEF Sound, Menus, ListEndsFirst
<1>3. /\ r \in Menus /\ r.pending = Append(q, "list") /\ r.isMenuShow = s.isMenuShow
      /\ r.panels = s.panels /\ r.listOpen = FALSE
      /\ r.hearing = s.hearing /\ r.selection = s.selection
  <2>1. Append(q, "list") \in Seq({"menu", "list"})
    BY <1>2
  <2>2. r \in Menus
    BY <1>1, <2>1 DEF Menus
  <2> QED
    BY <1>1, <2>2 DEF Menus
<1>4. \A i, j \in DOMAIN q : q[i] = q[j] => i = j
  BY <1>1 DEF Sound
<1>5. s.effect \in Effects
  BY <1>1 DEF Menus
<1> HIDE DEF r, q
<1>6. \A i, j \in DOMAIN r.pending : r.pending[i] = r.pending[j] => i = j
  BY <1>2, <1>3, <1>4, AppendNew
<1>7. Sound(r)
  BY <1>1, <1>3, <1>6 DEF Sound, ListEndsFirst
<1>8. Hears(r)
  BY <1>1, <1>3 DEF Hears
<1> QED
  BY <1>1, <1>5, <1>7, <1>8, RecreateSound DEF MenuInv

\* The oldest animation ends; that of the list leaves no open list behind.
LEMMA AnimationKeepsInv ==
  ASSUME MenuInv, AnimationEnds
  PROVE  MenuInv'
<1> DEFINE q == s.pending
           h == s.listHidden \/ Head(q) = "list"
<1>1. /\ Sound(s) /\ Hears(s) /\ s \in Menus /\ q # <<>>
      /\ s' = [s EXCEPT !.pending = Tail(q), !.listHidden = h]
  BY DEF MenuInv, Sound, AnimationEnds
<1>2. q \in Seq({"menu", "list"})
  BY <1>1 DEF Menus
<1>3. /\ Tail(q) \in Seq({"menu", "list"}) /\ h \in BOOLEAN /\ Len(q) \in Nat \ {0}
      /\ DOMAIN q = 1..Len(q) /\ DOMAIN Tail(q) = 1..Len(q) - 1 /\ Head(q) = q[1]
      /\ \A i \in DOMAIN Tail(q) : Tail(q)[i] = q[i + 1] /\ i + 1 \in DOMAIN q
  BY <1>1, <1>2
<1>4. /\ \A i, j \in DOMAIN q : q[i] = q[j] => i = j
      /\ \A i \in DOMAIN q : q[i] = "list" =>
           /\ ~s.listOpen
           /\ s.isMenuShow => \E j \in DOMAIN q : i < j /\ q[j] = "menu"
  BY <1>1 DEF Sound, ListEndsFirst
<1>5. s.listOpen => h = s.listHidden
  <2>1. s.listHidden \in BOOLEAN
    BY <1>1 DEF Menus
  <2>2. s.listOpen => Head(q) # "list"
    BY <1>3, <1>4
  <2> QED
    BY <2>1, <2>2
<1> HIDE DEF h, q
<1>6. s' \in Menus
  BY <1>1, <1>3 DEF Menus
<1>7. /\ s'.pending = Tail(q) /\ s'.panels = s.panels /\ s'.isMenuShow = s.isMenuShow
      /\ s'.listOpen = s.listOpen /\ s'.listHidden = h
      /\ s'.hearing = s.hearing /\ s'.selection = s.selection
  BY <1>1 DEF Menus
<1>8. ListEndsFirst(s')
  <2> SUFFICES ASSUME NEW i \in DOMAIN Tail(q), Tail(q)[i] = "list"
               PROVE  /\ ~s.listOpen
                      /\ s.isMenuShow => \E j \in DOMAIN Tail(q) : i < j /\ Tail(q)[j] = "menu"
    BY <1>7 DEF ListEndsFirst
  <2>1. i + 1 \in DOMAIN q /\ q[i + 1] = "list" /\ i \in Nat
    BY <1>3
  <2>2. ASSUME s.isMenuShow PROVE \E j \in DOMAIN Tail(q) : i < j /\ Tail(q)[j] = "menu"
    <3>1. PICK j \in DOMAIN q : i + 1 < j /\ q[j] = "menu"
      BY <1>4, <2>1, <2>2
    <3>2. j - 1 \in DOMAIN Tail(q) /\ i < j - 1 /\ Tail(q)[j - 1] = q[j]
      BY <1>3, <2>1, <3>1
    <3> QED
      BY <3>1, <3>2
  <2> QED
    BY <1>4, <2>1, <2>2
<1>9. \A i, j \in DOMAIN Tail(q) : Tail(q)[i] = Tail(q)[j] => i = j
  <2> TAKE i, j \in DOMAIN Tail(q)
  <2>1. i + 1 \in DOMAIN q /\ j + 1 \in DOMAIN q /\ i \in Nat /\ j \in Nat
        /\ Tail(q)[i] = q[i + 1] /\ Tail(q)[j] = q[j + 1]
    BY <1>3
  <2>2. q[i + 1] = q[j + 1] => i + 1 = j + 1
    BY <1>4, <2>1
  <2> QED
    BY <2>1, <2>2
<1>10. /\ s.panels # {} => s.isMenuShow
       /\ s.listOpen => ~s.listHidden /\ ~s.isMenuShow
  BY <1>1 DEF Sound
<1>11. Sound(s')
  BY <1>5, <1>6, <1>7, <1>8, <1>9, <1>10 DEF Sound
<1> QED
  BY <1>1, <1>7, <1>11 DEF MenuInv, Hears

--------------------------------------------------------------------------------
\* The reader starts without menu, panels, selection and list.
LEMMA MenuInvInit == Init => MenuInv
<1> SUFFICES ASSUME NEW e \in Effects,
                    s = [effect |-> e, isMenuShow |-> FALSE, pending |-> <<>>,
                         tapDisabled |-> FALSE, panels |-> {}, hearing |-> TRUE,
                         selection |-> "none", live |-> FALSE, stray |-> FALSE,
                         listOpen |-> FALSE, listHidden |-> TRUE]
             PROVE  MenuInv
  BY DEF Init
<1>1. s \in Menus
  BY DEF Menus
<1>2. s.pending = <<>> /\ s.panels = {} /\ s.listOpen = FALSE /\ s.hearing = TRUE
  OBVIOUS
<1> QED
  BY <1>1, <1>2 DEF MenuInv, Sound, ListEndsFirst, Hears

\* Every step keeps the invariant.
LEMMA MenuInvStep == MenuInv /\ [Next]_s => MenuInv'
<1> SUFFICES ASSUME MenuInv, [Next]_s PROVE MenuInv'
  OBVIOUS
<1>1. CASE PressBegins \/ PressEnds \/ PressIsCancelled \/ ChooseItem \/ ChooseTurn
  BY <1>1, SelectionKeepsInv
<1>2. CASE \E zone \in {"middle", "side"}, onText \in BOOLEAN : Tap(zone, onText)
  BY <1>2, TapKeepsInv
<1>3. CASE \E onText \in BOOLEAN : Pan(onText)
  BY <1>3, PanKeepsInv
<1>4. CASE OpenPanel \/ ClosePanel
  BY <1>4, PanelKeepsInv
<1>5. CASE ChangeSettings
  <2>1. PICK e \in Effects : s' = Recreate(s, e)
    BY <1>5 DEF ChangeSettings
  <2> QED
    BY <2>1, RecreateSound DEF MenuInv
<1>6. CASE ClickCatalogue
  BY <1>6, ClickCatalogueKeepsInv
<1>7. CASE CloseList
  BY <1>7, CloseListKeepsInv
<1>8. CASE AnimationEnds
  BY <1>8, AnimationKeepsInv
<1>9. CASE UNCHANGED s
  BY <1>9 DEF MenuInv
<1> QED
  BY <1>1, <1>2, <1>3, <1>4, <1>5, <1>6, <1>7, <1>8, <1>9 DEF Next

\* The invariant of the menu
THEOREM MenuInvariance == Spec => []MenuInv
BY MenuInvInit, MenuInvStep, PTL DEF Spec

\* Type correctness; each animation is under way once at most.
THEOREM MenuTypes == Spec => []TypeOK
<1>1. MenuInv => TypeOK
  BY DEF MenuInv, Sound, TypeOK, Menus, IsInjective
<1> QED
  BY <1>1, MenuInvariance, PTL

\* No panel stays on the screen without the menu it belongs to, whatever hid the menu
\* (showMenu).
THEOREM PanelsHaveMenu == Spec => []PanelsNeedMenu
<1>1. MenuInv => PanelsNeedMenu
  BY DEF MenuInv, Sound, PanelsNeedMenu
<1> QED
  BY <1>1, MenuInvariance, PTL

\* A page that does not react to touches has a selection, whose end lets it react
\* again (longPressViewNotification).
THEOREM DeafForASelection == Spec => []DeafOnlyWhileSelected
<1>1. MenuInv => DeafOnlyWhileSelected
  BY DEF MenuInv, Hears, DeafOnlyWhileSelected
<1> QED
  BY <1>1, MenuInvariance, PTL

\* The end of an earlier closing never hides an open list, and no menu is above it
\* (showChapterListView).
THEOREM ListIsSeen == Spec => []OpenListIsSeen
<1>1. MenuInv => OpenListIsSeen
  BY DEF MenuInv, Sound, OpenListIsSeen
<1> QED
  BY <1>1, MenuInvariance, PTL

\* In the middle the page and the menu recognize a tap together.
LEMMA MiddleReceivers ==
  ASSUME NEW p \in Receivers(FALSE), NEW q \in Receivers(FALSE),
         {p, q} \in Recognizers("middle", FALSE)
  PROVE  Receivers(FALSE) \subseteq {p, q} /\ {p, q} \subseteq {"page", "menu"}
<1>1. Receivers(FALSE) \subseteq {"page", "menu"}
  BY DEF Receivers
<1>2. \A x, y \in Receivers(FALSE) : Together(x, y, "middle")
  BY <1>1 DEF Together
<1> DEFINE may == {R \in SUBSET Receivers(FALSE) : \A x, y \in R : Together(x, y, "middle")}
<1>3. Receivers(FALSE) \in may
  BY <1>2
<1>4. ~\E Q \in may : {p, q} \subseteq Q /\ {p, q} # Q
  BY DEF Recognizers
<1>5. {p, q} = Receivers(FALSE)
  BY <1>3, <1>4
<1> QED
  BY <1>1, <1>5

\* A tap in the middle toggles the menu once, in whichever order the page and the
\* menu handle it: what the first of them began drops the call of the second.
THEOREM MiddleTapIsOneToggle == Spec => []MiddleTapToggles
<1>1. MenuInv => MiddleTapToggles
  <2> SUFFICES ASSUME MenuInv, IsAnimateComplete(s),
                      NEW p \in Receivers(FALSE), NEW q \in Receivers(FALSE),
                      {p, q} \in Recognizers("middle", FALSE)
               PROVE  HandleInOrder(s, p, q, "middle").isMenuShow # s.isMenuShow
    BY DEF MiddleTapToggles
  <2>1. Receivers(FALSE) \subseteq {p, q} /\ {p, q} \subseteq {"page", "menu"}
    BY MiddleReceivers
  <2>2. s \in Menus /\ s.isMenuShow \in BOOLEAN
    BY DEF MenuInv, Sound, Menus
  <2>3. ASSUME NEW show \in BOOLEAN, show # s.isMenuShow
        PROVE  /\ ShowMenu(s, show) \in Menus /\ ShowMenu(s, show).isMenuShow = show
               /\ ~IsAnimateComplete(ShowMenu(s, show))
    <3>1. /\ ShowMenu(s, show) \in Menus /\ ShowMenu(s, show).isMenuShow = show
          /\ ShowMenu(s, show).pending = Append(s.pending, "menu")
      BY <2>2, <2>3, ShowMenuEffect
    <3>2. s.pending \in Seq({"menu", "list"})
      BY <2>2 DEF Menus
    <3>3. /\ Len(s.pending) + 1 \in DOMAIN Append(s.pending, "menu")
          /\ Append(s.pending, "menu")[Len(s.pending) + 1] = "menu"
      BY <3>2
    <3> QED
      BY <3>1, <3>3, AnimateCompleteMeaning
  <2>4. ASSUME NEW r \in Menus, NEW x \in {"page", "menu"}, ~IsAnimateComplete(r)
        PROVE  Handle(r, x, "middle") = r
    <3>1. PICK show \in BOOLEAN : Handle(r, x, "middle") = ShowMenu(r, show)
      <4>1. (~r.isMenuShow) \in BOOLEAN /\ (r.effect = "pageCurl" /\ ~r.isMenuShow) \in BOOLEAN
        OBVIOUS
      <4> QED
        BY <4>1 DEF Handle
    <3> QED
      BY <2>4, <3>1 DEF ShowMenu
  <2> DEFINE show == s.effect = "pageCurl" /\ ~s.isMenuShow
             h1 == Handle(s, p, "middle")
  <2>5. Handle(s, "page", "middle") = ShowMenu(s, show) /\ show \in BOOLEAN
    BY DEF Handle
  <2>6. Handle(s, "menu", "middle") = ShowMenu(s, ~s.isMenuShow)
    BY DEF Handle
  <2>7. CASE p = "menu" \/ show # s.isMenuShow
    <3>1. h1 \in Menus /\ h1.isMenuShow # s.isMenuShow /\ ~IsAnimateComplete(h1)
      <4>1. CASE p = "menu"
        BY <2>2, <2>3, <2>6, <4>1
      <4>2. CASE p = "page"
        BY <2>3, <2>5, <2>7, <4>2
      <4> QED
        BY <2>1, <4>1, <4>2
    <3>2. Handle(h1, q, "middle") = h1
      BY <2>1, <2>4, <3>1
    <3> QED
      BY <3>1, <3>2 DEF HandleInOrder
  <2>8. CASE p = "page" /\ show = s.isMenuShow
    <3>1. ~s.isMenuShow
      BY <2>2, <2>8
    <3>2. "menu" \in Receivers(FALSE)
      BY <3>1 DEF Receivers
    <3>3. q = "menu"
      BY <2>1, <2>8, <3>2
    <3>4. h1 = s
      BY <2>5, <2>8 DEF ShowMenu
    <3>5. HandleInOrder(s, p, q, "middle") = Handle(s, "menu", "middle")
      BY <2>8, <3>3, <3>4 DEF HandleInOrder
    <3> QED
      BY <2>2, <2>3, <2>6, <3>5
  <2> QED
    BY <2>1, <2>7, <2>8
<1> QED
  BY <1>1, MenuInvariance, PTL
================================================================================
