------------------------- MODULE CoverControllerProofs -------------------------
(***************************************************************************)
(* Theorems of CoverController, for a book of any length and any bounds.   *)
(* A view that nothing refers to stays attached until the reader is        *)
(* started again. As long as there is none, whatever overlaps, the views   *)
(* are those of one of three phases: the page in front alone, a page asked *)
(* for beside it, and the animation of these two. Where gestures wait for  *)
(* animations there never is one.                                          *)
(***************************************************************************)
EXTENDS CoverController, TLAPS

\* One controller at most is in front, one at most is pending.
Unique(v) ==
  \A role \in {"front", "pending"} : \A i, j \in DOMAIN v :
    v[i].role = role /\ v[j].role = role => i = j

\* The page in front is the recorded one.
FrontIsRecorded == Has(views, "front") => PageOf(views, "front") = record

\* A pan is handled only while a finger pans.
PanIsTouch == isPan => touching

\* With the effect "no effect" nothing is left to wait for: a page is asked for and
\* arrives within one pan, and nothing is unwrapped.
NoEffectWaits ==
  ~openAnimate =>
    /\ ~crashed /\ anims = <<>> /\ ~isAnimateChange
    /\ touching => isPan
    /\ Has(views, "pending") => touching

\* The views of a turn: the one in front, of page f, and the pending one, of page p,
\* over or under it; fo and po tell which are beside the screen.
TwoViews(f, p, left, fo, po) ==
  LET front   == [pg |-> f, role |-> "front", off |-> fo]
      pending == [pg |-> p, role |-> "pending", off |-> po]
  IN  IF left THEN <<front, pending>> ELSE <<pending, front>>

Alone ==
  /\ views = <<InFront(record)>> /\ anims = <<>>
  /\ openAnimate /\ isPan /\ isPanBegin => isAnimateChange

Asked ==
  /\ \E p \in Pages : views = TwoViews(record, p, isLeft, FALSE, isLeft)
  /\ anims = <<>>
  /\ openAnimate /\ isPan => isAnimateChange

Sliding ==
  /\ \E p \in Pages, s \in BOOLEAN :
       /\ anims = <<s>>
       /\ views = TwoViews(record, p, isLeft, ~isLeft /\ s, isLeft /\ ~s)
  /\ openAnimate /\ isAnimateChange /\ ~isPan

\* As long as no view was left behind the views are those of a phase.
PhaseOrLeft == ~crashed /\ ~Has(views, "left") => Alone \/ Asked \/ Sliding

\* Where gestures wait for animations: no view is left behind, every touch is of a pan
\* that is handled, a pending page is of this pan or slides, and at rest the next
\* gesture is not refused.
CalmInv ==
  ~overlap =>
    /\ ~crashed /\ ~Has(views, "left")
    /\ touching => isPan /\ anims = <<>>
    /\ Has(views, "pending") => anims # <<>> \/ (isPan /\ ~isPanBegin)
    /\ ~touching /\ anims = <<>> => ~isAnimateChange

\* What holds whatever the views are
RolesInv == TypeOK /\ FrontIsRecorded /\ PanIsTouch /\ NoEffectWaits

\* The inductive invariant
CoverInv == RolesInv /\ PhaseOrLeft /\ CalmInv
--------------------------------------------------------------------------------
(***************************************************************************)
(* Sequences of views                                                      *)
(***************************************************************************)

\* Removing a position closes the gap.
LEMMA RemoveAtMeaning ==
  ASSUME NEW S, NEW v \in Seq(S), NEW k \in DOMAIN v
  PROVE  /\ RemoveAt(v, k) \in Seq(S) /\ Len(RemoveAt(v, k)) = Len(v) - 1
         /\ \A i \in 1..Len(v) - 1 :
              RemoveAt(v, k)[i] = IF i < k THEN v[i] ELSE v[i + 1]
<1> DEFINE left  == SubSeq(v, 1, k - 1)
           right == SubSeq(v, k + 1, Len(v))
<1>1. Len(v) \in Nat /\ k \in 1..Len(v)
  OBVIOUS
<1>2. RemoveAt(v, k) = left \o right
  BY DEF RemoveAt
<1>3. left \in Seq(S) /\ Len(left) = k - 1 /\ \A i \in 1..k - 1 : left[i] = v[i]
  BY <1>1
<1>4. /\ right \in Seq(S) /\ Len(right) = Len(v) - k
      /\ \A i \in 1..Len(v) - k : right[i] = v[k + i]
  BY <1>1
<1> HIDE DEF left, right
<1>5. left \o right \in Seq(S) /\ Len(left \o right) = Len(left) + Len(right)
  <2>1. left \in Seq(S) /\ right \in Seq(S)
    BY <1>3, <1>4
  <2> QED
    BY <2>1
<1>6. ASSUME NEW i \in 1..Len(v) - 1
      PROVE  (left \o right)[i] = IF i < k THEN v[i] ELSE v[i + 1]
  <2>1. (left \o right)[i] = IF i <= k - 1 THEN left[i] ELSE right[i - (k - 1)]
    BY <1>1, <1>3, <1>4, <1>6
  <2>2. CASE i < k
    BY <1>1, <1>3, <1>6, <2>1, <2>2
  <2>3. CASE ~(i < k)
    <3>1. i - (k - 1) \in 1..Len(v) - k /\ k + (i - (k - 1)) = i + 1
      BY <1>1, <1>6, <2>3
    <3>2. right[i - (k - 1)] = v[k + (i - (k - 1))]
      BY <1>4, <3>1
    <3>3. ~(i <= k - 1)
      BY <1>1, <1>6, <2>3
    <3> QED
      BY <2>1, <2>3, <3>1, <3>2, <3>3
  <2> QED
    BY <2>2, <2>3
<1>7. Len(left \o right) = Len(v) - 1
  BY <1>1, <1>3, <1>4, <1>5
<1> QED
  BY <1>2, <1>5, <1>6, <1>7

\* w is v with e inserted at position k.
Inserted(S, v, k, e, w) ==
  /\ w \in Seq(S) /\ Len(w) = Len(v) + 1
  /\ \A i \in 1..Len(v) + 1 : w[i] = IF i < k THEN v[i] ELSE IF i = k THEN e ELSE v[i - 1]

\* An insertion moves what stood at the position and after it by one.
LEMMA InsertAtMeaning ==
  ASSUME NEW S, NEW v \in Seq(S), NEW k \in DOMAIN v, NEW e \in S
  PROVE  Inserted(S, v, k, e, InsertAt(v, k, e))
<1> DEFINE left  == SubSeq(v, 1, k - 1)
           right == SubSeq(v, k, Len(v))
           begin == left \o <<e>>
<1>1. Len(v) \in Nat /\ k \in 1..Len(v)
  OBVIOUS
<1>2. InsertAt(v, k, e) = begin \o right
  BY DEF InsertAt
<1>3. left \in Seq(S) /\ Len(left) = k - 1 /\ \A i \in 1..k - 1 : left[i] = v[i]
  BY <1>1
<1>4. /\ right \in Seq(S) /\ Len(right) = Len(v) - k + 1
      /\ \A i \in 1..Len(v) - k + 1 : right[i] = v[k + i - 1]
  BY <1>1
<1> HIDE DEF left, right
<1>5. begin \in Seq(S) /\ Len(begin) = k
  BY <1>1, <1>3
<1>6. \A i \in 1..k : begin[i] = IF i = k THEN e ELSE v[i]
  <2> SUFFICES ASSUME NEW i \in 1..k PROVE begin[i] = IF i = k THEN e ELSE v[i]
    OBVIOUS
  <2>1. begin[i] = IF i <= k - 1 THEN left[i] ELSE <<e>>[i - (k - 1)]
    BY <1>1, <1>3
  <2>2. CASE i = k
    <3>1. ~(i <= k - 1) /\ i - (k - 1) = 1
      BY <1>1, <2>2
    <3>2. begin[i] = <<e>>[1]
      BY <2>1, <3>1
    <3> HIDE DEF begin
    <3> QED
      BY <2>2, <3>2
  <2>3. CASE i # k
    <3>1. i <= k - 1 /\ i \in 1..k - 1
      BY <1>1, <2>3
    <3> QED
      BY <1>3, <2>1, <2>3, <3>1
  <2> QED
    BY <2>2, <2>3
<1> HIDE DEF begin
<1>7. begin \o right \in Seq(S) /\ Len(begin \o right) = Len(begin) + Len(right)
  <2>1. begin \in Seq(S) /\ right \in Seq(S)
    BY <1>4, <1>5
  <2> QED
    BY <2>1
<1>8. ASSUME NEW i \in 1..Len(v) + 1
      PROVE  (begin \o right)[i] = IF i < k THEN v[i] ELSE IF i = k THEN e ELSE v[i - 1]
  <2>1. (begin \o right)[i] = IF i <= k THEN begin[i] ELSE right[i - k]
    BY <1>1, <1>4, <1>5, <1>8
  <2>2. CASE i <= k
    <3>1. i \in 1..k
      BY <1>1, <1>8, <2>2
    <3>2. begin[i] = IF i = k THEN e ELSE v[i]
      BY <1>6, <3>1
    <3>3. i = k \/ i < k
      BY <1>1, <1>8, <2>2
    <3>4. i < k => i # k
      BY <1>1, <1>8
    <3> QED
      BY <1>1, <2>1, <2>2, <3>2, <3>3, <3>4
  <2>3. CASE ~(i <= k)
    <3>1. i - k \in 1..Len(v) - k + 1 /\ k + (i - k) - 1 = i - 1
      BY <1>1, <1>8, <2>3
    <3>2. right[i - k] = v[k + (i - k) - 1]
      BY <1>4, <3>1
    <3>3. ~(i < k) /\ i # k
      BY <1>1, <1>8, <2>3
    <3> QED
      BY <2>1, <2>3, <3>1, <3>2, <3>3
  <2> QED
    BY <2>2, <2>3
<1>9. Len(begin \o right) = Len(v) + 1
  BY <1>1, <1>4, <1>5, <1>7
<1> QED
  BY <1>2, <1>7, <1>8, <1>9 DEF Inserted

\* The page of a role is that of the view that has it.
LEMMA PageOfMeaning ==
  ASSUME NEW v \in Seq(Views), Unique(v), NEW role \in {"front", "pending"}
  PROVE  /\ \A i \in DOMAIN v : v[i].role = role =>
              Position(v, role) = i /\ PageOf(v, role) = v[i].pg
         /\ Has(v, role) => /\ Position(v, role) \in DOMAIN v
                            /\ v[Position(v, role)].role = role
                            /\ PageOf(v, role) = v[Position(v, role)].pg
                            /\ PageOf(v, role) \in Pages
         /\ ~Has(v, role) => PageOf(v, role) = NoPage
         /\ Has(v, role) <=> PageOf(v, role) # NoPage
<1>1. ASSUME Has(v, role)
      PROVE  Position(v, role) \in DOMAIN v /\ v[Position(v, role)].role = role
  BY <1>1 DEF Has, Position
<1>2. ASSUME Has(v, role)
      PROVE  /\ PageOf(v, role) = v[Position(v, role)].pg
             /\ PageOf(v, role) \in Pages
  <2>1. v[Position(v, role)] \in Views
    BY <1>1, <1>2
  <2> QED
    BY <1>2, <2>1 DEF PageOf, Views
<1>3. ASSUME NEW i \in DOMAIN v, v[i].role = role
      PROVE  Has(v, role) /\ Position(v, role) = i
  <2>1. Has(v, role)
    BY <1>3 DEF Has
  <2> QED
    BY <1>1, <1>3, <2>1 DEF Unique
<1>4. ~Has(v, role) => PageOf(v, role) = NoPage
  BY DEF PageOf
<1>5. \A p \in Pages : p # NoPage
  BY CoverAssumption DEF Pages
<1> QED
  BY <1>1, <1>2, <1>3, <1>4, <1>5

\* Two sequences agree on a role if what one has the other has.
LEMMA RoleIsKept ==
  ASSUME NEW v \in Seq(Views), Unique(v), NEW w \in Seq(Views), Unique(w),
         NEW role \in {"front", "pending"}, NEW other \in {"front", "pending"},
         \A i \in DOMAIN v : v[i].role = role =>
           \E j \in DOMAIN w : w[j].role = other /\ w[j].pg = v[i].pg,
         \A j \in DOMAIN w : w[j].role = other => \E i \in DOMAIN v : v[i].role = role
  PROVE  /\ Has(w, other) <=> Has(v, role)
         /\ PageOf(w, other) = PageOf(v, role)
<1>1. Has(w, other) <=> Has(v, role)
  BY DEF Has
<1>2. CASE Has(v, role)
  <2>1. PICK i \in DOMAIN v : v[i].role = role
    BY <1>2 DEF Has
  <2>2. PICK j \in DOMAIN w : w[j].role = other /\ w[j].pg = v[i].pg
    BY <2>1
  <2> QED
    BY <1>1, <2>1, <2>2, PageOfMeaning
<1>3. CASE ~Has(v, role)
  BY <1>1, <1>3 DEF PageOf
<1> QED
  BY <1>1, <1>2, <1>3
--------------------------------------------------------------------------------
(***************************************************************************)
(* What the operations do to the views, whatever these are                 *)
(***************************************************************************)

\* A view by its parts
LEMMA ViewParts ==
  ASSUME NEW x \in Views
  PROVE  x.pg \in Pages /\ x.role \in Roles /\ x.off \in BOOLEAN
  BY DEF Views

\* One role gets the name of another.
LEMMA RenamedMeaning ==
  ASSUME NEW v \in Seq(Views), NEW from \in Roles, NEW to \in Roles
  PROVE  /\ Renamed(v, from, to) \in Seq(Views)
         /\ Len(Renamed(v, from, to)) = Len(v)
         /\ DOMAIN Renamed(v, from, to) = DOMAIN v
         /\ \A i \in DOMAIN v :
              /\ Renamed(v, from, to)[i].pg = v[i].pg
              /\ Renamed(v, from, to)[i].role =
                   IF v[i].role = from THEN to ELSE v[i].role
<1> DEFINE f(x) == IF x.role = from THEN [x EXCEPT !.role = to] ELSE x
           w == Renamed(v, from, to)
<1>1. ASSUME NEW x \in Views
      PROVE  /\ f(x) \in Views /\ f(x).pg = x.pg
             /\ f(x).role = IF x.role = from THEN to ELSE x.role
  <2>1. CASE x.role = from
    <3> DEFINE y == [x EXCEPT !.role = to]
    <3>1. y \in Views /\ y.pg = x.pg /\ y.role = to
      BY DEF Views
    <3>2. f(x) = y
      BY <2>1
    <3> QED
      BY <2>1, <3>1, <3>2
  <2>2. CASE x.role # from
    BY <2>2
  <2> QED
    BY <2>1, <2>2
<1>2. DOMAIN v = 1..Len(v) /\ Len(v) \in Nat /\ \A i \in DOMAIN v : v[i] \in Views
  OBVIOUS
<1>3. w = [i \in DOMAIN v |-> f(v[i])]
  BY DEF Renamed
<1> HIDE DEF f, w
<1>4. /\ DOMAIN w = 1..Len(v)
      /\ \A i \in DOMAIN v : w[i] = f(v[i]) /\ w[i] \in Views
  BY <1>1, <1>2, <1>3
<1>5. w \in Seq(Views) /\ Len(w) = Len(v)
  BY <1>2, <1>3, <1>4
<1> QED
  BY <1>1, <1>2, <1>4, <1>5 DEF w

\* Frames are set: the roles and the pages stay.
LEMMA MovedMeaning ==
  ASSUME NEW v \in Seq(Views), NEW left \in BOOLEAN, NEW success \in BOOLEAN
  PROVE  /\ Moved(v, left, success) \in Seq(Views)
         /\ Len(Moved(v, left, success)) = Len(v)
         /\ DOMAIN Moved(v, left, success) = DOMAIN v
         /\ \A i \in DOMAIN v :
              /\ Moved(v, left, success)[i].pg = v[i].pg
              /\ Moved(v, left, success)[i].role = v[i].role
<1> DEFINE f(x) == IF left /\ x.role = "pending" THEN [x EXCEPT !.off = ~success]
                   ELSE IF ~left /\ x.role = "front" THEN [x EXCEPT !.off = success]
                   ELSE x
           w == Moved(v, left, success)
<1>1. ASSUME NEW x \in Views, NEW b \in BOOLEAN
      PROVE  /\ [x EXCEPT !.off = b] \in Views
             /\ [x EXCEPT !.off = b].pg = x.pg
             /\ [x EXCEPT !.off = b].role = x.role
  BY DEF Views
<1>2. (~success) \in BOOLEAN
  <2>1. CASE success = TRUE
    <3>1. (~success) = FALSE
      BY <2>1
    <3> QED
      BY <3>1
  <2>2. CASE success = FALSE
    <3>1. (~success) = TRUE
      BY <2>2
    <3> QED
      BY <3>1
  <2> QED
    BY <2>1, <2>2
<1>3. ASSUME NEW x \in Views
      PROVE  f(x) \in Views /\ f(x).pg = x.pg /\ f(x).role = x.role
  BY <1>1, <1>2
<1>4. DOMAIN v = 1..Len(v) /\ Len(v) \in Nat /\ \A i \in DOMAIN v : v[i] \in Views
  OBVIOUS
<1>5. w = [i \in DOMAIN v |-> f(v[i])]
  BY DEF Moved
<1> HIDE DEF f, w
<1>6. /\ DOMAIN w = 1..Len(v)
      /\ \A i \in DOMAIN v : w[i] = f(v[i]) /\ w[i] \in Views
  BY <1>3, <1>4, <1>5
<1>7. w \in Seq(Views) /\ Len(w) = Len(v)
  BY <1>4, <1>5, <1>6
<1> QED
  BY <1>3, <1>4, <1>6, <1>7 DEF w

\* The view of a role goes; all others stay, in their order.
LEMMA WithoutMeaning ==
  ASSUME NEW v \in Seq(Views), Unique(v), NEW role \in {"front", "pending"}
  PROVE  /\ Without(v, role) \in Seq(Views) /\ Unique(Without(v, role))
         /\ ~Has(Without(v, role), role)
         /\ \A j \in DOMAIN Without(v, role) : \E i \in DOMAIN v :
              Without(v, role)[j] = v[i]
         /\ \A i \in DOMAIN v : v[i].role # role =>
              \E j \in DOMAIN Without(v, role) : Without(v, role)[j] = v[i]
<1> DEFINE w == Without(v, role)
           k == Position(v, role)
<1>1. CASE ~Has(v, role)
  BY <1>1 DEF Without, Has
<1>2. CASE Has(v, role)
  <2>1. k \in DOMAIN v /\ v[k].role = role /\ \A i \in DOMAIN v : v[i].role = role => i = k
    BY <1>2, PageOfMeaning
  <2>2. w = RemoveAt(v, k)
    BY <1>2 DEF Without
  <2> HIDE DEF k, w
  <2>3. /\ w \in Seq(Views) /\ Len(w) = Len(v) - 1
        /\ \A i \in 1..Len(v) - 1 : w[i] = IF i < k THEN v[i] ELSE v[i + 1]
    BY <2>1, <2>2, RemoveAtMeaning
  <2>4. /\ Len(v) \in Nat \ {0} /\ DOMAIN v = 1..Len(v) /\ k \in 1..Len(v)
        /\ DOMAIN w = 1..Len(v) - 1
    BY <2>1, <2>3
  <2> DEFINE at(i)   == IF i < k THEN i ELSE i + 1
             back(i) == IF i < k THEN i ELSE i - 1
  <2>5. \A j \in DOMAIN w : at(j) \in DOMAIN v /\ at(j) # k /\ w[j] = v[at(j)]
    BY <2>3, <2>4
  <2>6. \A i \in DOMAIN v : i # k =>
          back(i) \in DOMAIN w /\ at(back(i)) = i
    BY <2>4
  <2>7. \A i, j \in DOMAIN w : at(i) = at(j) => i = j
    BY <2>4
  <2> HIDE DEF at, back
  <2>8. Unique(w)
    BY <2>5, <2>7 DEF Unique
  <2>9. ~Has(w, role)
    BY <2>1, <2>5 DEF Has
  <2>10. \A i \in DOMAIN v : v[i].role # role => \E j \in DOMAIN w : w[j] = v[i]
    BY <2>1, <2>5, <2>6
  <2> QED
    BY <2>3, <2>5, <2>8, <2>9, <2>10 DEF w
<1> QED
  BY <1>1, <1>2
\* What is asked for is pending; what was pending is left behind; the front stays.
LEMMA AttachedMeaning ==
  ASSUME NEW v \in Seq(Views), Unique(v), NEW pg \in Pages \cup {NoPage},
         NEW left \in BOOLEAN
  PROVE  LET w == Attached(v, pg, left)
         IN  /\ w \in Seq(Views) /\ Unique(w)
             /\ Has(w, "front") <=> Has(v, "front")
             /\ PageOf(w, "front") = PageOf(v, "front")
             /\ PageOf(w, "pending") = pg
             /\ Has(v, "left") \/ Has(v, "pending") => Has(w, "left")
<1> DEFINE old == Renamed(v, "pending", "left")
           new == [pg |-> pg, role |-> "pending", off |-> left]
           w   == Attached(v, pg, left)
<1>1. "pending" \in Roles /\ "left" \in Roles
  BY DEF Roles
<1>2. /\ old \in Seq(Views) /\ Len(old) = Len(v) /\ DOMAIN old = DOMAIN v
      /\ \A i \in DOMAIN v :
           /\ old[i].pg = v[i].pg
           /\ old[i].role = IF v[i].role = "pending" THEN "left" ELSE v[i].role
  BY <1>1, RenamedMeaning
<1>3. w = IF pg = NoPage THEN old
          ELSE IF left \/ ~Has(old, "front") THEN Append(old, new)
          ELSE InsertAt(old, Position(old, "front"), new)
  BY DEF Attached
<1> HIDE DEF old
<1>4. Unique(old) /\ ~Has(old, "pending")
  BY <1>2 DEF Unique, Has
<1>5. /\ Has(old, "front") <=> Has(v, "front")
      /\ PageOf(old, "front") = PageOf(v, "front")
  <2>1. \A i \in DOMAIN v : v[i].role = "front" =>
          \E j \in DOMAIN old : old[j].role = "front" /\ old[j].pg = v[i].pg
    BY <1>2
  <2>2. \A j \in DOMAIN old : old[j].role = "front" => \E i \in DOMAIN v : v[i].role = "front"
    BY <1>2
  <2> QED
    BY <1>2, <1>4, <2>1, <2>2, RoleIsKept
<1>6. Has(v, "left") \/ Has(v, "pending") => Has(old, "left")
  BY <1>2 DEF Has
<1>7. CASE pg = NoPage
  <2>1. w = old
    BY <1>3, <1>7
  <2> HIDE DEF w
  <2>2. PageOf(w, "pending") = pg
    BY <1>4, <1>7, <2>1 DEF PageOf
  <2> QED
    BY <1>2, <1>4, <1>5, <1>6, <2>1, <2>2 DEF w
<1>8. CASE pg # NoPage
  <2>1. /\ new \in Views /\ new.pg = pg /\ new.role = "pending"
    BY <1>8 DEF Views, Roles
  <2> HIDE DEF new
  \* Where the new view is, and where the others are
  <2>2. \E k \in DOMAIN w :
          /\ w \in Seq(Views) /\ w[k] = new
          /\ \A j \in DOMAIN w : j # k => \E i \in DOMAIN old : w[j] = old[i]
          /\ \A i \in DOMAIN old : \E j \in DOMAIN w : j # k /\ w[j] = old[i]
          /\ Unique(w)
    <3>1. CASE left \/ ~Has(old, "front")
      <4>1. w = Append(old, new)
        BY <1>3, <1>8, <3>1
      <4> HIDE DEF w
      <4>2. /\ w \in Seq(Views) /\ Len(w) = Len(old) + 1 /\ Len(old) \in Nat
            /\ DOMAIN w = 1..Len(old) + 1 /\ DOMAIN old = 1..Len(old)
            /\ w[Len(old) + 1] = new
            /\ \A i \in 1..Len(old) : w[i] = old[i]
        BY <1>2, <2>1, <4>1
      <4>3. \A j \in DOMAIN w : j # Len(old) + 1 => j \in DOMAIN old /\ w[j] = old[j]
        BY <4>2
      <4>4. Len(old) + 1 \in DOMAIN w
        BY <4>2
      <4>5. \A i \in DOMAIN old : i \in DOMAIN w /\ i # Len(old) + 1 /\ w[i] = old[i]
        BY <4>2
      <4>6. Unique(w)
        BY <1>4, <2>1, <4>2, <4>3 DEF Unique, Has
      <4> QED
        BY <4>2, <4>3, <4>4, <4>5, <4>6
    <3>2. CASE ~(left \/ ~Has(old, "front"))
      <4> DEFINE k == Position(old, "front")
      <4>1. k \in DOMAIN old
        BY <1>2, <1>4, <3>2, PageOfMeaning
      <4>2. w = InsertAt(old, k, new)
        BY <1>3, <1>8, <3>2
      <4> HIDE DEF k, w
      <4>3. /\ w \in Seq(Views) /\ Len(w) = Len(old) + 1
            /\ \A i \in 1..Len(old) + 1 :
                 w[i] = IF i < k THEN old[i] ELSE IF i = k THEN new ELSE old[i - 1]
        <5> DEFINE u == InsertAt(old, k, new)
        <5>1. old \in Seq(Views) /\ new \in Views
          BY <1>2, <2>1
        <5>2. Inserted(Views, old, k, new, u)
          BY <4>1, <5>1, InsertAtMeaning
        <5>3. w = u
          BY <4>2
        <5> HIDE DEF u
        <5>4. Inserted(Views, old, k, new, w)
          BY <5>2, <5>3
        <5> QED
          BY <5>4 DEF Inserted
      <4>4. /\ Len(old) \in Nat /\ DOMAIN old = 1..Len(old) /\ k \in 1..Len(old)
            /\ DOMAIN w = 1..Len(old) + 1
        BY <1>2, <4>1, <4>3
      <4> DEFINE at(j)   == IF j < k THEN j ELSE j - 1
                 from(i) == IF i < k THEN i ELSE i + 1
      <4>5. k \in DOMAIN w /\ w[k] = new
        BY <4>3, <4>4
      <4>6. \A j \in DOMAIN w : j # k => at(j) \in DOMAIN old /\ w[j] = old[at(j)]
        BY <4>3, <4>4
      <4>7. \A i \in DOMAIN old : from(i) \in DOMAIN w /\ from(i) # k /\ at(from(i)) = i
        BY <4>4
      <4>8. \A i, j \in DOMAIN w : i # k /\ j # k /\ at(i) = at(j) => i = j
        BY <4>4
      <4> HIDE DEF at, from
      <4>9. Unique(w)
        BY <1>4, <2>1, <4>5, <4>6, <4>8 DEF Unique, Has
      <4>10. \A i \in DOMAIN old : w[from(i)] = old[i]
        BY <4>6, <4>7
      <4> QED
        BY <4>3, <4>5, <4>6, <4>7, <4>9, <4>10
    <3> QED
      BY <3>1, <3>2
  <2>3. PICK k \in DOMAIN w :
          /\ w \in Seq(Views) /\ w[k] = new
          /\ \A j \in DOMAIN w : j # k => \E i \in DOMAIN old : w[j] = old[i]
          /\ \A i \in DOMAIN old : \E j \in DOMAIN w : j # k /\ w[j] = old[i]
          /\ Unique(w)
    BY <2>2
  <2> HIDE DEF w
  <2>4. PageOf(w, "pending") = pg
    BY <2>1, <2>3, PageOfMeaning
  <2>5. /\ Has(w, "front") <=> Has(old, "front")
        /\ PageOf(w, "front") = PageOf(old, "front")
    <3>1. \A i \in DOMAIN old : old[i].role = "front" =>
            \E j \in DOMAIN w : w[j].role = "front" /\ w[j].pg = old[i].pg
      BY <2>3
    <3>2. \A j \in DOMAIN w : w[j].role = "front" =>
            \E i \in DOMAIN old : old[i].role = "front"
      <4> SUFFICES ASSUME NEW j \in DOMAIN w, w[j].role = "front"
                   PROVE  \E i \in DOMAIN old : old[i].role = "front"
        OBVIOUS
      <4>1. j # k
        BY <2>1, <2>3
      <4> QED
        BY <2>3, <4>1
    <3> QED
      BY <1>2, <1>4, <2>3, <3>1, <3>2, RoleIsKept
  <2>6. Has(old, "left") => Has(w, "left")
    BY <2>3 DEF Has
  <2> QED
    BY <1>5, <1>6, <2>3, <2>4, <2>5, <2>6 DEF w
<1> QED
  BY <1>7, <1>8
\* The frames of a turn leave every role with its page.
LEMMA MovedKeeps ==
  ASSUME NEW v \in Seq(Views), Unique(v), NEW left \in BOOLEAN, NEW success \in BOOLEAN
  PROVE  LET w == Moved(v, left, success)
         IN  /\ w \in Seq(Views) /\ Unique(w)
             /\ \A role \in {"front", "pending"} :
                  /\ Has(w, role) <=> Has(v, role)
                  /\ PageOf(w, role) = PageOf(v, role)
             /\ Has(w, "left") <=> Has(v, "left")
<1> DEFINE w == Moved(v, left, success)
<1>1. /\ w \in Seq(Views) /\ DOMAIN w = DOMAIN v
      /\ \A i \in DOMAIN v : w[i].pg = v[i].pg /\ w[i].role = v[i].role
  BY MovedMeaning
<1> HIDE DEF w
<1>2. Unique(w)
  BY <1>1 DEF Unique
<1>3. ASSUME NEW role \in {"front", "pending"}
      PROVE  /\ Has(w, role) <=> Has(v, role)
             /\ PageOf(w, role) = PageOf(v, role)
  <2>1. CASE Has(v, role)
    <3>1. PICK i \in DOMAIN v : v[i].role = role
      BY <2>1 DEF Has
    <3>2. i \in DOMAIN w /\ w[i].role = role /\ w[i].pg = v[i].pg
      BY <1>1, <3>1
    <3>3. PageOf(v, role) = v[i].pg
      BY <3>1, PageOfMeaning
    <3>4. PageOf(w, role) = w[i].pg
      BY <1>1, <1>2, <3>2, PageOfMeaning
    <3>5. Has(w, role)
      BY <3>2 DEF Has
    <3> QED
      BY <2>1, <3>2, <3>3, <3>4, <3>5
  <2>2. CASE ~Has(v, role)
    <3>1. ~Has(w, role)
      BY <1>1, <2>2 DEF Has
    <3> QED
      BY <2>2, <3>1 DEF PageOf
  <2> QED
    BY <2>1, <2>2
<1>4. Has(w, "left") <=> Has(v, "left")
  BY <1>1 DEF Has
<1> QED
  BY <1>1, <1>2, <1>3, <1>4 DEF w

\* After a turn the pending view is in front, or, when it is given up, the one in front
\* still is; nothing is pending.
LEMMA EndedMeaning ==
  ASSUME NEW v \in Seq(Views), Unique(v), NEW success \in BOOLEAN
  PROVE  LET w  == Ended(v, success)
             of == IF success THEN "pending" ELSE "front"
         IN  /\ w \in Seq(Views) /\ Unique(w)
             /\ Has(w, "front") <=> Has(v, of)
             /\ PageOf(w, "front") = PageOf(v, of)
             /\ ~Has(w, "pending") /\ PageOf(w, "pending") = NoPage
             /\ Has(v, "left") => Has(w, "left")
<1> DEFINE w == Ended(v, success)
<1>1. CASE success
  <2> DEFINE u == Without(v, "front")
  <2>1. /\ u \in Seq(Views) /\ Unique(u) /\ ~Has(u, "front")
        /\ \A j \in DOMAIN u : \E i \in DOMAIN v : u[j] = v[i]
        /\ \A i \in DOMAIN v : v[i].role # "front" => \E j \in DOMAIN u : u[j] = v[i]
    BY WithoutMeaning
  <2>2. w = Renamed(u, "pending", "front")
    BY <1>1 DEF Ended
  <2> HIDE DEF u, w
  <2>3. "pending" \in Roles /\ "front" \in Roles
    BY DEF Roles
  <2>4. /\ w \in Seq(Views) /\ Len(w) = Len(u) /\ DOMAIN w = DOMAIN u
        /\ \A i \in DOMAIN u :
             /\ w[i].pg = u[i].pg
             /\ w[i].role = IF u[i].role = "pending" THEN "front" ELSE u[i].role
    <3> DEFINE x == Renamed(u, "pending", "front")
    <3>1. u \in Seq(Views)
      BY <2>1
    <3>2. /\ x \in Seq(Views) /\ Len(x) = Len(u) /\ DOMAIN x = DOMAIN u
          /\ \A i \in DOMAIN u :
               /\ x[i].pg = u[i].pg
               /\ x[i].role = IF u[i].role = "pending" THEN "front" ELSE u[i].role
      BY <2>3, <3>1, RenamedMeaning
    <3>3. w = x
      BY <2>2
    <3> HIDE DEF x
    <3> QED
      BY <3>2, <3>3
  <2>5. Unique(w) /\ ~Has(w, "pending")
    BY <2>1, <2>4 DEF Unique, Has
  <2>6. \A i \in DOMAIN v : v[i].role = "pending" =>
          \E j \in DOMAIN w : w[j].role = "front" /\ w[j].pg = v[i].pg
    <3> SUFFICES ASSUME NEW i \in DOMAIN v, v[i].role = "pending"
                 PROVE  \E j \in DOMAIN w : w[j].role = "front" /\ w[j].pg = v[i].pg
      OBVIOUS
    <3>1. PICK j \in DOMAIN u : u[j] = v[i]
      BY <2>1
    <3> QED
      BY <2>4, <3>1
  <2>7. \A j \in DOMAIN w : w[j].role = "front" =>
          \E i \in DOMAIN v : v[i].role = "pending"
    <3> SUFFICES ASSUME NEW j \in DOMAIN w, w[j].role = "front"
                 PROVE  \E i \in DOMAIN v : v[i].role = "pending"
      OBVIOUS
    <3>1. u[j].role = "pending" /\ j \in DOMAIN u
      BY <2>1, <2>4 DEF Has
    <3>2. PICK i \in DOMAIN v : u[j] = v[i]
      BY <2>1, <3>1
    <3> QED
      BY <3>1, <3>2
  <2>8. /\ Has(w, "front") <=> Has(v, "pending")
        /\ PageOf(w, "front") = PageOf(v, "pending")
    BY <2>4, <2>5, <2>6, <2>7, RoleIsKept
  <2>9. Has(v, "left") => Has(w, "left")
    <3> SUFFICES ASSUME NEW i \in DOMAIN v, v[i].role = "left" PROVE Has(w, "left")
      BY DEF Has
    <3>1. PICK j \in DOMAIN u : u[j] = v[i]
      BY <2>1
    <3>2. w[j].role = "left" /\ j \in DOMAIN w
      BY <2>4, <3>1
    <3> QED
      BY <3>2 DEF Has
  <2>10. PageOf(w, "pending") = NoPage
    BY <2>5 DEF PageOf
  <2> QED
    BY <1>1, <2>4, <2>5, <2>8, <2>9, <2>10 DEF w
<1>2. CASE ~success
  <2>1. w = Without(v, "pending")
    BY <1>2 DEF Ended
  <2> HIDE DEF w
  <2>2. /\ w \in Seq(Views) /\ Unique(w) /\ ~Has(w, "pending")
        /\ \A j \in DOMAIN w : \E i \in DOMAIN v : w[j] = v[i]
        /\ \A i \in DOMAIN v : v[i].role # "pending" => \E j \in DOMAIN w : w[j] = v[i]
    BY <2>1, WithoutMeaning
  <2>3. \A i \in DOMAIN v : v[i].role = "front" =>
          \E j \in DOMAIN w : w[j].role = "front" /\ w[j].pg = v[i].pg
    <3> SUFFICES ASSUME NEW i \in DOMAIN v, v[i].role = "front"
                 PROVE  \E j \in DOMAIN w : w[j].role = "front" /\ w[j].pg = v[i].pg
      OBVIOUS
    <3>1. PICK j \in DOMAIN w : w[j] = v[i]
      BY <2>2
    <3> QED
      BY <3>1
  <2>4. \A j \in DOMAIN w : w[j].role = "front" => \E i \in DOMAIN v : v[i].role = "front"
    BY <2>2
  <2>5. /\ Has(w, "front") <=> Has(v, "front")
        /\ PageOf(w, "front") = PageOf(v, "front")
    BY <2>2, <2>3, <2>4, RoleIsKept
  <2>6. Has(v, "left") => Has(w, "left")
    BY <2>2 DEF Has
  <2>7. PageOf(w, "pending") = NoPage
    BY <2>2 DEF PageOf
  <2> QED
    BY <1>2, <2>2, <2>5, <2>6, <2>7 DEF w
<1> QED
  BY <1>1, <1>2
--------------------------------------------------------------------------------
(***************************************************************************)
(* The views of the phases, as tuples                                      *)
(***************************************************************************)

\* A view in front or pending, as TwoViews and InFront write it
LEMMA ViewsOfTurn ==
  ASSUME NEW f \in Pages, NEW p \in Pages, NEW fo \in BOOLEAN, NEW po \in BOOLEAN
  PROVE  /\ [pg |-> f, role |-> "front", off |-> fo] \in Views
         /\ [pg |-> p, role |-> "pending", off |-> po] \in Views
  BY DEF Views, Roles

\* The page in front alone
LEMMA AloneViews ==
  ASSUME NEW f \in Pages
  PROVE  LET v == <<InFront(f)>>
         IN  /\ v \in Seq(Views) /\ Unique(v) /\ Len(v) = 1
             /\ v[1] = InFront(f)
             /\ Has(v, "front") /\ ~Has(v, "pending") /\ ~Has(v, "left")
             /\ PageOf(v, "front") = f /\ PageOf(v, "pending") = NoPage
<1> DEFINE x == InFront(f)
           v == <<x>>
<1>1. x \in Views /\ x.pg = f /\ x.role = "front"
  BY DEF InFront, Views, Roles
<1> HIDE DEF x
<1>2. v \in Seq(Views) /\ Len(v) = 1 /\ DOMAIN v = 1..1 /\ v[1] = x
  BY <1>1
<1> HIDE DEF v
<1>3. Unique(v)
  BY <1>2 DEF Unique
<1>4. Has(v, "front") /\ ~Has(v, "pending") /\ ~Has(v, "left")
  BY <1>1, <1>2 DEF Has
<1>5. PageOf(v, "front") = f /\ PageOf(v, "pending") = NoPage
  <2>1. 1 \in DOMAIN v
    BY <1>2
  <2> QED
    BY <1>1, <1>2, <1>3, <1>4, <2>1, PageOfMeaning
<1> QED
  BY <1>2, <1>3, <1>4, <1>5 DEF v, x

\* The two views of a turn
LEMMA TurnViews ==
  ASSUME NEW f \in Pages, NEW p \in Pages, NEW left \in BOOLEAN,
         NEW fo \in BOOLEAN, NEW po \in BOOLEAN
  PROVE  LET v == TwoViews(f, p, left, fo, po)
         IN  /\ v \in Seq(Views) /\ Unique(v) /\ Len(v) = 2
             /\ Has(v, "front") /\ Has(v, "pending") /\ ~Has(v, "left")
             /\ PageOf(v, "front") = f /\ PageOf(v, "pending") = p
             /\ Position(v, "front") = IF left THEN 1 ELSE 2
             /\ Position(v, "pending") = IF left THEN 2 ELSE 1
<1> DEFINE x == [pg |-> f, role |-> "front", off |-> fo]
           y == [pg |-> p, role |-> "pending", off |-> po]
           v == IF left THEN <<x, y>> ELSE <<y, x>>
<1>1. /\ x \in Views /\ x.pg = f /\ x.role = "front"
      /\ y \in Views /\ y.pg = p /\ y.role = "pending"
  BY ViewsOfTurn
<1>2. TwoViews(f, p, left, fo, po) = v
  BY DEF TwoViews
<1> HIDE DEF x, y
<1>3. /\ v \in Seq(Views) /\ Len(v) = 2 /\ DOMAIN v = 1..2
      /\ v[IF left THEN 1 ELSE 2] = x /\ v[IF left THEN 2 ELSE 1] = y
  <2>1. CASE left
    <3>1. v = <<x, y>>
      BY <2>1
    <3> HIDE DEF v
    <3> QED
      BY <1>1, <2>1, <3>1
  <2>2. CASE ~left
    <3>1. v = <<y, x>>
      BY <2>2
    <3> HIDE DEF v
    <3> QED
      BY <1>1, <2>2, <3>1
  <2> QED
    BY <2>1, <2>2
<1> HIDE DEF v
<1> DEFINE a == IF left THEN 1 ELSE 2
           b == IF left THEN 2 ELSE 1
<1>4. /\ a \in DOMAIN v /\ b \in DOMAIN v /\ a # b
      /\ \A i \in DOMAIN v : i = a \/ i = b
      /\ v[a] = x /\ v[b] = y
  BY <1>3
<1> HIDE DEF a, b
<1>5. Unique(v)
  BY <1>1, <1>4 DEF Unique
<1>6. Has(v, "front") /\ Has(v, "pending") /\ ~Has(v, "left")
  BY <1>1, <1>4 DEF Has
<1>7. /\ PageOf(v, "front") = f /\ PageOf(v, "pending") = p
      /\ Position(v, "front") = a /\ Position(v, "pending") = b
  BY <1>1, <1>3, <1>4, <1>5, PageOfMeaning
<1> QED
  BY <1>2, <1>3, <1>5, <1>6, <1>7 DEF a, b

\* A sequence of two
LEMMA PairIs ==
  ASSUME NEW S, NEW w \in Seq(S), NEW x, NEW y,
         Len(w) = 2, w[1] = x, w[2] = y
  PROVE  w = <<x, y>>
  OBVIOUS

\* An insertion before the only element
LEMMA InsertBeforeOne ==
  ASSUME NEW S, NEW v \in Seq(S), NEW k \in DOMAIN v, NEW e \in S
  PROVE  k = 1 /\ Len(v) = 1 => InsertAt(v, k, e) = <<e, v[1]>>
<1> DEFINE w == InsertAt(v, k, e)
<1>1. Inserted(S, v, k, e, w)
  BY InsertAtMeaning
<1> HIDE DEF w
<1>2. /\ w \in Seq(S) /\ Len(w) = Len(v) + 1
      /\ \A i \in 1..Len(v) + 1 :
           w[i] = IF i < k THEN v[i] ELSE IF i = k THEN e ELSE v[i - 1]
  BY <1>1 DEF Inserted
<1>3. ASSUME k = 1, Len(v) = 1 PROVE w = <<e, v[1]>>
  <2>1. Len(w) = 2
    BY <1>2, <1>3
  <2>2. 1 \in 1..Len(v) + 1 /\ 2 \in 1..Len(v) + 1
    BY <1>3
  <2>3. w[1] = e /\ w[2] = v[1]
    BY <1>2, <1>3, <2>2
  <2>4. w \in Seq(S)
    BY <1>2
  <2> QED
    BY <2>1, <2>3, <2>4, PairIs
<1> QED
  BY <1>3 DEF w

\* A page is asked for while the page in front is alone.
LEMMA AttachedAlone ==
  ASSUME NEW f \in Pages, NEW p \in Pages \cup {NoPage}, NEW left \in BOOLEAN
  PROVE  Attached(<<InFront(f)>>, p, left) =
           IF p = NoPage THEN <<InFront(f)>> ELSE TwoViews(f, p, left, FALSE, left)
<1> DEFINE x   == InFront(f)
           v   == <<x>>
           new == [pg |-> p, role |-> "pending", off |-> left]
<1>1. /\ v \in Seq(Views) /\ Unique(v) /\ Len(v) = 1 /\ v[1] = x
      /\ Has(v, "front") /\ ~Has(v, "pending")
  BY AloneViews
<1>2. x = [pg |-> f, role |-> "front", off |-> FALSE] /\ x.role = "front"
  BY DEF InFront
<1>3. Renamed(v, "pending", "left") = v
  <2> DEFINE w == Renamed(v, "pending", "left")
  <2>1. DOMAIN v = {1}
    BY <1>1
  <2>2. w = [i \in DOMAIN v |->
               IF v[i].role = "pending" THEN [v[i] EXCEPT !.role = "left"] ELSE v[i]]
    BY DEF Renamed
  <2>3. \A i \in DOMAIN v : v[i].role # "pending"
    BY <1>1 DEF Has
  <2>4. w = [i \in DOMAIN v |-> v[i]]
    BY <2>2, <2>3
  <2>5. v = [i \in DOMAIN v |-> v[i]]
    BY <1>1
  <2> QED
    BY <2>4, <2>5
<1>4. Attached(v, p, left) =
        IF p = NoPage THEN v
        ELSE IF left THEN Append(v, new) ELSE InsertAt(v, Position(v, "front"), new)
  BY <1>1, <1>3 DEF Attached
<1>5. CASE p = NoPage
  BY <1>4, <1>5
<1>6. CASE p # NoPage
  <2>1. TwoViews(f, p, left, FALSE, left) = IF left THEN <<x, new>> ELSE <<new, x>>
    BY <1>2 DEF TwoViews
  <2>2. new \in Views
    BY <1>6 DEF Views, Roles
  <2> HIDE DEF new, x
  <2>3. CASE left
    <3>1. Append(v, new) = <<x, new>>
      <4> DEFINE w == Append(v, new)
      <4>1. w \in Seq(Views) /\ Len(w) = 2 /\ w[1] = x /\ w[2] = new
        BY <1>1, <2>2
      <4> HIDE DEF w
      <4>2. w = <<x, new>>
        BY <4>1, PairIs
      <4> QED
        BY <4>2 DEF w
    <3>2. Attached(v, p, left) = TwoViews(f, p, left, FALSE, left)
      <4>1. Attached(v, p, left) = Append(v, new)
        BY <1>4, <1>6, <2>3
      <4>2. TwoViews(f, p, left, FALSE, left) = <<x, new>>
        BY <2>1, <2>3
      <4> QED
        BY <3>1, <4>1, <4>2
    <3> QED
      BY <1>6, <3>2 DEF x
  <2>4. CASE ~left
    <3>1. 1 \in DOMAIN v
      BY <1>1
    <3>2. Position(v, "front") = 1
      BY <1>1, <1>2, <3>1, PageOfMeaning
    <3>3. InsertAt(v, 1, new) = <<new, x>>
      <4>1. v \in Seq(Views) /\ v[1] = x /\ Len(v) = 1
        BY <1>1
      <4> HIDE DEF v
      <4> QED
        BY <2>2, <4>1, InsertBeforeOne
    <3>4. Attached(v, p, left) = TwoViews(f, p, left, FALSE, left)
      <4>1. Attached(v, p, left) = InsertAt(v, 1, new)
        BY <1>4, <1>6, <2>4, <3>2
      <4>2. TwoViews(f, p, left, FALSE, left) = <<new, x>>
        BY <2>1, <2>4
      <4> QED
        BY <3>3, <4>1, <4>2
    <3> QED
      BY <1>6, <3>4 DEF x
  <2> QED
    BY <2>3, <2>4
<1> QED
  BY <1>5, <1>6
\* Of two views the other one is left.
LEMMA RemoveOfTwo ==
  ASSUME NEW S, NEW v \in Seq(S), NEW k \in DOMAIN v
  PROVE  Len(v) = 2 => RemoveAt(v, k) = <<v[IF k = 1 THEN 2 ELSE 1]>>
<1> DEFINE w == RemoveAt(v, k)
           e == v[IF k = 1 THEN 2 ELSE 1]
<1>1. /\ w \in Seq(S) /\ Len(w) = Len(v) - 1
      /\ \A i \in 1..Len(v) - 1 : w[i] = IF i < k THEN v[i] ELSE v[i + 1]
  BY RemoveAtMeaning
<1> HIDE DEF w
<1>2. ASSUME Len(v) = 2 PROVE w = <<e>>
  <2>1. k = 1 \/ k = 2
    BY <1>2
  <2>2. Len(w) = 1 /\ 1 \in 1..Len(v) - 1
    BY <1>1, <1>2
  <2>3. w[1] = e
    BY <1>1, <2>1, <2>2
  <2> HIDE DEF e
  <2>4. w \in Seq(S)
    BY <1>1
  <2> QED
    BY <2>2, <2>3, <2>4
<1> QED
  BY <1>2 DEF w

\* A sequence of one
LEMMA RenamedOne ==
  ASSUME NEW y
  PROVE  y.role = "pending" =>
           Renamed(<<y>>, "pending", "front") = <<[y EXCEPT !.role = "front"]>>
<1> DEFINE z == [y EXCEPT !.role = "front"]
           v == <<y>>
           w == Renamed(v, "pending", "front")
<1> SUFFICES ASSUME y.role = "pending" PROVE w = <<z>>
  OBVIOUS
<1>1. DOMAIN v = 1..1 /\ v[1] = y
  OBVIOUS
<1> HIDE DEF v
<1>2. w = [i \in 1..1 |-> IF v[i].role = "pending" THEN [v[i] EXCEPT !.role = "front"]
                          ELSE v[i]]
  BY <1>1 DEF Renamed
<1>3. \A i \in 1..1 : i = 1
  OBVIOUS
<1>4. w = [i \in 1..1 |-> z]
  BY <1>1, <1>2, <1>3
<1> HIDE DEF w, z
<1>5. <<z>> = [i \in 1..1 |-> z]
  OBVIOUS
<1> QED
  BY <1>4, <1>5

\* What Moved does to one view
MovedView(x, left, success) ==
  IF left /\ x.role = "pending" THEN [x EXCEPT !.off = ~success]
  ELSE IF ~left /\ x.role = "front" THEN [x EXCEPT !.off = success]
  ELSE x

\* It does so to both of two.
LEMMA MovedPair ==
  ASSUME NEW u \in Views, NEW t \in Views, NEW left \in BOOLEAN, NEW success \in BOOLEAN
  PROVE  Moved(<<u, t>>, left, success) =
           <<MovedView(u, left, success), MovedView(t, left, success)>>
<1> DEFINE v == <<u, t>>
           w == Moved(v, left, success)
<1>1. v \in Seq(Views) /\ Len(v) = 2 /\ DOMAIN v = 1..2 /\ v[1] = u /\ v[2] = t
  OBVIOUS
<1> HIDE DEF v
<1>2. w \in Seq(Views) /\ Len(w) = 2
  <2>1. v \in Seq(Views)
    BY <1>1
  <2>2. w \in Seq(Views) /\ Len(w) = Len(v)
    BY <2>1, MovedMeaning
  <2> HIDE DEF w
  <2> QED
    BY <1>1, <2>2
<1>3. w = [i \in DOMAIN v |-> MovedView(v[i], left, success)]
  BY DEF Moved, MovedView
<1> HIDE DEF w
<1>4. 1 \in DOMAIN v /\ 2 \in DOMAIN v
  BY <1>1
<1>5. w[1] = MovedView(u, left, success) /\ w[2] = MovedView(t, left, success)
  BY <1>1, <1>3, <1>4
<1>6. w = <<MovedView(u, left, success), MovedView(t, left, success)>>
  BY <1>2, <1>5, PairIs
<1> QED
  BY <1>6 DEF w, v

\* The animation of a turn sets the frame of the one that moves.
LEMMA MovedTurn ==
  ASSUME NEW f \in Pages, NEW p \in Pages, NEW left \in BOOLEAN, NEW success \in BOOLEAN
  PROVE  Moved(TwoViews(f, p, left, FALSE, left), left, success) =
           TwoViews(f, p, left, ~left /\ success, left /\ ~success)
<1> DEFINE front(b)   == [pg |-> f, role |-> "front", off |-> b]
           pending(b) == [pg |-> p, role |-> "pending", off |-> b]
           v  == TwoViews(f, p, left, FALSE, left)
           fo == ~left /\ success
           po == left /\ ~success
<1>1. front(FALSE) \in Views /\ pending(left) \in Views
  BY ViewsOfTurn
<1>2. \A b, c : /\ front(b).role = "front" /\ pending(b).role = "pending"
                /\ [front(b) EXCEPT !.off = c] = front(c)
                /\ [pending(b) EXCEPT !.off = c] = pending(c)
  OBVIOUS
<1>3. /\ v = IF left THEN <<front(FALSE), pending(left)>> ELSE <<pending(left), front(FALSE)>>
      /\ TwoViews(f, p, left, fo, po) =
           IF left THEN <<front(fo), pending(po)>> ELSE <<pending(po), front(fo)>>
  BY DEF TwoViews
<1> HIDE DEF front, pending, v
<1>4. MovedView(front(FALSE), left, success) = front(fo)
  <2>1. CASE left
    <3>1. fo = FALSE
      BY <2>1
    <3>2. MovedView(front(FALSE), left, success) = front(FALSE)
      BY <1>2, <2>1 DEF MovedView
    <3> QED
      BY <3>1, <3>2
  <2>2. CASE ~left
    <3>1. fo = success
      BY <2>2
    <3>2. MovedView(front(FALSE), left, success) = front(success)
      BY <1>2, <2>2 DEF MovedView
    <3> QED
      BY <3>1, <3>2
  <2> QED
    BY <2>1, <2>2
<1>5. MovedView(pending(left), left, success) = pending(po)
  <2>1. CASE left
    <3>1. po = (~success)
      BY <2>1
    <3>2. MovedView(pending(left), left, success) = pending(~success)
      BY <1>2, <2>1 DEF MovedView
    <3> QED
      BY <3>1, <3>2
  <2>2. CASE ~left
    <3>1. po = left
      BY <2>2
    <3>2. MovedView(pending(left), left, success) = pending(left)
      BY <1>2, <2>2 DEF MovedView
    <3> QED
      BY <3>1, <3>2
  <2> QED
    BY <2>1, <2>2
<1> HIDE DEF fo, po
<1>6. CASE left
  <2>1. Moved(v, left, success) = <<front(fo), pending(po)>>
    <3> DEFINE u == front(FALSE)
               t == pending(left)
    <3>1. v = <<u, t>> /\ u \in Views /\ t \in Views
      BY <1>1, <1>3, <1>6
    <3> HIDE DEF u, t
    <3>2. Moved(<<u, t>>, left, success) =
            <<MovedView(u, left, success), MovedView(t, left, success)>>
      BY <3>1, MovedPair
    <3> QED
      BY <1>4, <1>5, <3>1, <3>2 DEF u, t
  <2> QED
    BY <1>3, <1>6, <2>1 DEF v, fo, po
<1>7. CASE ~left
  <2>1. Moved(v, left, success) = <<pending(po), front(fo)>>
    <3> DEFINE u == pending(left)
               t == front(FALSE)
    <3>1. v = <<u, t>> /\ u \in Views /\ t \in Views
      BY <1>1, <1>3, <1>7
    <3> HIDE DEF u, t
    <3>2. Moved(<<u, t>>, left, success) =
            <<MovedView(u, left, success), MovedView(t, left, success)>>
      BY <3>1, MovedPair
    <3> QED
      BY <1>4, <1>5, <3>1, <3>2 DEF u, t
  <2> QED
    BY <1>3, <1>7, <2>1 DEF v, fo, po
<1> QED
  BY <1>6, <1>7

\* The end of a turn leaves one of the two views, on the screen.
LEMMA EndedTurn ==
  ASSUME NEW f \in Pages, NEW p \in Pages, NEW left \in BOOLEAN, NEW success \in BOOLEAN,
         NEW fo \in BOOLEAN, NEW po \in BOOLEAN,
         success => ~po, ~success => ~fo
  PROVE  /\ success => Ended(TwoViews(f, p, left, fo, po), success) = <<InFront(p)>>
         /\ ~success => Ended(TwoViews(f, p, left, fo, po), success) = <<InFront(f)>>
<1> DEFINE x == [pg |-> f, role |-> "front", off |-> fo]
           y == [pg |-> p, role |-> "pending", off |-> po]
           v == TwoViews(f, p, left, fo, po)
           a == Position(v, "front")
           b == Position(v, "pending")
<1>1. /\ v \in Seq(Views) /\ Len(v) = 2
      /\ Has(v, "front") /\ Has(v, "pending")
      /\ a = IF left THEN 1 ELSE 2
      /\ b = IF left THEN 2 ELSE 1
  BY TurnViews
<1>2. v = IF left THEN <<x, y>> ELSE <<y, x>>
  BY DEF TwoViews
<1>3. /\ Without(v, "front") = RemoveAt(v, a)
      /\ Without(v, "pending") = RemoveAt(v, b)
  BY <1>1 DEF Without
<1>4. v[IF a = 1 THEN 2 ELSE 1] = y /\ v[IF b = 1 THEN 2 ELSE 1] = x
  BY <1>1, <1>2
<1>5. a \in DOMAIN v /\ b \in DOMAIN v
  BY <1>1
<1> HIDE DEF v, a, b
<1>6. RemoveAt(v, a) = <<y>> /\ RemoveAt(v, b) = <<x>>
  <2>1. RemoveAt(v, a) = <<v[IF a = 1 THEN 2 ELSE 1]>>
    BY <1>1, <1>5, RemoveOfTwo
  <2>2. RemoveAt(v, b) = <<v[IF b = 1 THEN 2 ELSE 1]>>
    BY <1>1, <1>5, RemoveOfTwo
  <2> QED
    BY <1>4, <2>1, <2>2
<1>7. CASE success
  <2>1. Ended(v, success) = Renamed(<<y>>, "pending", "front")
    BY <1>3, <1>6, <1>7 DEF Ended
  <2>2. y.role = "pending" /\ [y EXCEPT !.role = "front"] = InFront(p)
    <3>1. y = [pg |-> p, role |-> "pending", off |-> FALSE]
      BY <1>7
    <3>2. \A q, o : /\ [pg |-> q, role |-> "pending", off |-> o].role = "pending"
                    /\ [[pg |-> q, role |-> "pending", off |-> o] EXCEPT !.role = "front"]
                         = [pg |-> q, role |-> "front", off |-> o]
      OBVIOUS
    <3> HIDE DEF y
    <3> QED
      BY <3>1, <3>2 DEF InFront
  <2> HIDE DEF y
  <2>3. Ended(v, success) = <<InFront(p)>>
    BY <2>1, <2>2, RenamedOne
  <2> QED
    BY <1>7, <2>3 DEF v
<1>8. CASE ~success
  <2>1. Ended(v, success) = <<x>>
    BY <1>3, <1>6, <1>8 DEF Ended
  <2>2. x = InFront(f)
    BY <1>8 DEF InFront
  <2> HIDE DEF x
  <2> QED
    BY <1>8, <2>1, <2>2 DEF v
<1> QED
  BY <1>7, <1>8
--------------------------------------------------------------------------------
(***************************************************************************)
(* The steps, whatever the views are                                       *)
(***************************************************************************)

\* The data source answers with a page beside the recorded one, or with none.
LEMMA AnswerMeaning ==
  ASSUME record \in Pages, NEW left \in BOOLEAN
  PROVE  /\ Answer(left) \in Pages \cup {NoPage}
         /\ Answer(left) # NoPage => Answer(left) \in Turn!Beside(record)
  BY DEF Answer, Turn!Beside, Turn!Pages, Pages

\* The steps of the turn as PageTurn sees them: a page is asked for or given up, nothing
\* happens, a page arrives, and both at once.
LEMMA TurnAsks ==
  ASSUME record' = record,
         NEW p, PageOf(views', "pending") = p, p # NoPage => p \in Turn!Beside(record)
  PROVE  [Turn!Next]_Turn!vars
<1>1. CASE p # NoPage
  BY <1>1 DEF Turn!Next, Turn!Ask
<1>2. CASE p = NoPage /\ PageOf(views, "pending") # NoPage
  BY <1>2 DEF Turn!Next, Turn!Return
<1>3. CASE p = NoPage /\ PageOf(views, "pending") = NoPage
  BY <1>3 DEF Turn!vars
<1> QED
  BY <1>1, <1>2, <1>3

LEMMA TurnWaits ==
  ASSUME record' = record, PageOf(views', "pending") = PageOf(views, "pending")
  PROVE  [Turn!Next]_Turn!vars
  BY DEF Turn!vars

LEMMA TurnArrives ==
  ASSUME PageOf(views, "pending") # NoPage, record' = PageOf(views, "pending"),
         PageOf(views', "pending") = NoPage
  PROVE  [Turn!Next]_Turn!vars
  BY DEF Turn!Next, Turn!Arrive

LEMMA TurnAtOnce ==
  ASSUME PageOf(views, "pending") = NoPage, record' \in Turn!Beside(record),
         PageOf(views', "pending") = NoPage
  PROVE  [Turn!Next]_Turn!vars
  BY DEF Turn!Next, Turn!Step

\* The type invariant in the terms of the lemmas about sequences
LEMMA TypesOfViews ==
  ASSUME TypeOK
  PROVE  views \in Seq(Views) /\ Unique(views) /\ record \in Pages
  BY DEF TypeOK, Unique

\* The end of a turn records the page in front, if there is one: the page that was
\* pending after a success; the recorded one after a turn that was given up.
LEMMA SuccessMeaning ==
  ASSUME record \in Pages, NEW v \in Seq(Views), Unique(v),
         Has(v, "front") => PageOf(v, "front") = record,
         NEW success \in BOOLEAN, AnimateSuccess(v, success)
  PROVE  /\ views' \in Seq(Views) /\ Unique(views') /\ record' \in Pages
         /\ FrontIsRecorded'
         /\ ~Has(views', "pending") /\ PageOf(views', "pending") = NoPage
         /\ Has(v, "left") => Has(views', "left")
         /\ isAnimateChange' = FALSE
         /\ record' = IF success /\ Has(v, "pending") THEN PageOf(v, "pending") ELSE record
<1> DEFINE w  == Ended(v, success)
           of == IF success THEN "pending" ELSE "front"
<1>1. /\ views' = w /\ isAnimateChange' = FALSE
      /\ record' = IF Has(views', "front") THEN PageOf(views', "front") ELSE record
  BY DEF AnimateSuccess
<1>2. /\ w \in Seq(Views) /\ Unique(w)
      /\ Has(w, "front") <=> Has(v, of)
      /\ PageOf(w, "front") = PageOf(v, of)
      /\ ~Has(w, "pending") /\ PageOf(w, "pending") = NoPage
      /\ Has(v, "left") => Has(w, "left")
  BY EndedMeaning
<1> HIDE DEF w
<1>3. Has(v, "pending") => PageOf(v, "pending") \in Pages
  BY PageOfMeaning
<1>4. /\ record' = IF success /\ Has(v, "pending") THEN PageOf(v, "pending") ELSE record
      /\ FrontIsRecorded'
  <2>1. CASE success
    BY <1>1, <1>2, <2>1 DEF FrontIsRecorded
  <2>2. CASE ~success
    BY <1>1, <1>2, <2>2 DEF FrontIsRecorded
  <2> QED
    BY <2>1, <2>2
<1>5. record' \in Pages
  BY <1>3, <1>4
<1> QED
  BY <1>1, <1>2, <1>4, <1>5

\* The first state shows one page, the recorded one.
LEMMA RolesInit == Init => RolesInv
<1> SUFFICES ASSUME Init PROVE RolesInv
  OBVIOUS
<1>1. /\ record \in Pages /\ views = <<InFront(record)>>
  BY DEF Init
<1>2. /\ views \in Seq(Views) /\ Unique(views)
      /\ PageOf(views, "front") = record /\ ~Has(views, "pending")
  BY <1>1, AloneViews
<1>3. /\ isLeft \in BOOLEAN /\ isPan \in BOOLEAN /\ isPanBegin \in BOOLEAN
      /\ isAnimateChange \in BOOLEAN /\ touching \in BOOLEAN /\ crashed \in BOOLEAN
      /\ openAnimate \in BOOLEAN /\ overlap \in BOOLEAN
  BY DEF Init
<1>4. anims \in Seq(BOOLEAN)
  BY DEF Init
<1>5. TypeOK
  BY <1>1, <1>2, <1>3, <1>4 DEF TypeOK, Unique
<1>6. FrontIsRecorded /\ PanIsTouch /\ NoEffectWaits
  BY <1>2 DEF Init, FrontIsRecorded, PanIsTouch, NoEffectWaits
<1> QED
  BY <1>5, <1>6 DEF RolesInv

\* A tap asks, and its animation begins; without one the page arrives at once.
LEMMA TapKeepsRoles ==
  ASSUME RolesInv, NEW left \in BOOLEAN, Tap(left)
  PROVE  /\ RolesInv' /\ [Turn!Next]_Turn!vars
         /\ Has(views, "left") \/ Has(views, "pending") => Has(views', "left")
<1> DEFINE pg == Answer(left)
           v  == Attached(views, pg, left)
           w  == Moved(v, left, TRUE)
<1>1. /\ TypeOK /\ FrontIsRecorded /\ NoEffectWaits /\ ~touching /\ ~crashed
      /\ PanIsTouch /\ ~isAnimateChange
  BY DEF RolesInv, Tap, TouchArrives
<1>2. views \in Seq(Views) /\ Unique(views) /\ record \in Pages
  BY <1>1, TypesOfViews
<1>3. pg \in Pages \cup {NoPage} /\ (pg # NoPage => pg \in Turn!Beside(record))
  BY <1>2, AnswerMeaning
<1>4. /\ isLeft' = left
      /\ UNCHANGED <<openAnimate, overlap, isPan, isPanBegin, touching, crashed>>
      /\ IF pg = NoPage
         THEN views' = v /\ isAnimateChange' = FALSE /\ record' = record /\ anims' = anims
         ELSE GestureSuccess(v, left, TRUE, openAnimate)
  BY DEF Tap, TapTurns, fixed
<1> HIDE DEF pg
<1>5. /\ v \in Seq(Views) /\ Unique(v)
      /\ Has(v, "front") <=> Has(views, "front")
      /\ PageOf(v, "front") = PageOf(views, "front")
      /\ PageOf(v, "pending") = pg
      /\ Has(views, "left") \/ Has(views, "pending") => Has(v, "left")
  BY <1>2, <1>3, AttachedMeaning
<1> HIDE DEF v
<1>6. TRUE \in BOOLEAN
  OBVIOUS
<1>7. /\ w \in Seq(Views) /\ Unique(w)
      /\ \A role \in {"front", "pending"} :
           (Has(w, role) <=> Has(v, role)) /\ PageOf(w, role) = PageOf(v, role)
      /\ Has(w, "left") <=> Has(v, "left")
  BY <1>5, <1>6, MovedKeeps
<1> HIDE DEF w
<1>8. Has(v, "front") => PageOf(v, "front") = record
  BY <1>1, <1>5 DEF FrontIsRecorded
<1>9. PanIsTouch'
  BY <1>1, <1>4 DEF PanIsTouch
<1>10. /\ anims \in Seq(BOOLEAN) /\ openAnimate \in BOOLEAN /\ isLeft' \in BOOLEAN
  BY <1>1, <1>4 DEF TypeOK
<1>11. CASE pg = NoPage
  <2>1. views' = v /\ isAnimateChange' = FALSE /\ record' = record /\ anims' = anims
    BY <1>4, <1>11
  <2>2. isAnimateChange' \in BOOLEAN
    BY <2>1
  <2>3. TypeOK'
    BY <1>1, <1>2, <1>4, <1>5, <1>10, <2>1, <2>2 DEF TypeOK, Unique
  <2>4. FrontIsRecorded'
    BY <1>8, <2>1 DEF FrontIsRecorded
  <2>5. ~Has(v, "pending")
    BY <1>5, <1>11, PageOfMeaning
  <2>6. NoEffectWaits'
    BY <1>1, <1>4, <2>1, <2>5 DEF NoEffectWaits
  <2>7. [Turn!Next]_Turn!vars
    BY <1>3, <1>5, <2>1, TurnAsks
  <2> QED
    BY <1>5, <1>9, <2>1, <2>3, <2>4, <2>6, <2>7 DEF RolesInv
<1>12. CASE pg # NoPage /\ openAnimate
  <2>1. views' = w /\ anims' = Append(anims, TRUE) /\ isAnimateChange' = openAnimate
        /\ record' = record
    BY <1>4, <1>12 DEF GestureSuccess, w
  <2>2. isAnimateChange' \in BOOLEAN /\ anims' \in Seq(BOOLEAN)
    BY <1>10, <2>1
  <2>3. TypeOK'
    BY <1>1, <1>2, <1>4, <1>7, <1>10, <2>1, <2>2 DEF TypeOK, Unique
  <2>4. FrontIsRecorded'
    BY <1>7, <1>8, <2>1 DEF FrontIsRecorded
  <2>5. NoEffectWaits'
    BY <1>4, <1>12 DEF NoEffectWaits
  <2>6. PageOf(views', "pending") = pg
    BY <1>5, <1>7, <2>1
  <2>7. [Turn!Next]_Turn!vars
    BY <1>3, <2>1, <2>6, TurnAsks
  <2> QED
    BY <1>5, <1>7, <1>9, <2>1, <2>3, <2>4, <2>5, <2>7 DEF RolesInv
<1>13. CASE pg # NoPage /\ ~openAnimate
  <2>1. AnimateSuccess(w, TRUE) /\ anims' = anims
    BY <1>4, <1>13 DEF GestureSuccess, w
  <2>2. Has(w, "front") => PageOf(w, "front") = record
    BY <1>7, <1>8
  <2>3. /\ views' \in Seq(Views) /\ Unique(views') /\ record' \in Pages
        /\ FrontIsRecorded'
        /\ ~Has(views', "pending") /\ PageOf(views', "pending") = NoPage
        /\ Has(w, "left") => Has(views', "left")
        /\ isAnimateChange' = FALSE
        /\ record' = IF Has(w, "pending") THEN PageOf(w, "pending") ELSE record
    BY <1>2, <1>6, <1>7, <2>1, <2>2, SuccessMeaning
  <2>4. isAnimateChange' \in BOOLEAN
    BY <2>3
  <2>5. TypeOK'
    BY <1>1, <1>4, <1>10, <2>1, <2>3, <2>4 DEF TypeOK, Unique
  <2>6. NoEffectWaits'
    BY <1>1, <1>4, <2>1, <2>3 DEF NoEffectWaits
  <2>7. record' = pg
    <3>1. Has(w, "pending")
      BY <1>5, <1>7, <1>13, PageOfMeaning
    <3> QED
      BY <1>5, <1>7, <2>3, <3>1
  <2>8. PageOf(views, "pending") = NoPage
    BY <1>1, <1>13 DEF NoEffectWaits, PageOf
  <2>9. [Turn!Next]_Turn!vars
    BY <1>3, <1>13, <2>3, <2>7, <2>8, TurnAtOnce
  <2> QED
    BY <1>5, <1>7, <1>9, <2>3, <2>5, <2>6, <2>9 DEF RolesInv
<1> QED
  BY <1>11, <1>12, <1>13
\* A tap in the middle leaves behind what was pending.
LEMMA TapMiddleKeepsRoles ==
  ASSUME RolesInv, TapMiddle
  PROVE  /\ RolesInv' /\ [Turn!Next]_Turn!vars
         /\ Has(views, "left") \/ Has(views, "pending") => Has(views', "left")
<1> DEFINE v == Attached(views, NoPage, isLeft)
<1>1. TypeOK /\ FrontIsRecorded /\ PanIsTouch /\ NoEffectWaits
  BY DEF RolesInv
<1>2. views \in Seq(Views) /\ Unique(views) /\ isLeft \in BOOLEAN
  BY <1>1, TypesOfViews DEF TypeOK
<1>3. /\ views' = v
      /\ UNCHANGED <<openAnimate, overlap, record, isLeft, isPan, isPanBegin,
                     isAnimateChange, touching, anims, crashed>>
  BY DEF TapMiddle, fixed, flags
<1>4. NoPage \in Pages \cup {NoPage}
  OBVIOUS
<1>5. /\ v \in Seq(Views) /\ Unique(v)
      /\ Has(v, "front") <=> Has(views, "front")
      /\ PageOf(v, "front") = PageOf(views, "front")
      /\ PageOf(v, "pending") = NoPage
      /\ Has(views, "left") \/ Has(views, "pending") => Has(v, "left")
  BY <1>2, <1>4, AttachedMeaning
<1> HIDE DEF v
<1>6. TypeOK'
  BY <1>1, <1>3, <1>5 DEF TypeOK, Unique
<1>7. ~Has(v, "pending")
  BY <1>5, PageOfMeaning
<1>8. FrontIsRecorded' /\ PanIsTouch' /\ NoEffectWaits'
  BY <1>1, <1>3, <1>5, <1>7 DEF FrontIsRecorded, PanIsTouch, NoEffectWaits
<1>9. [Turn!Next]_Turn!vars
  <2>1. record' = record /\ PageOf(views', "pending") = NoPage
    BY <1>3, <1>5
  <2> QED
    BY <2>1, TurnAsks
<1> QED
  BY <1>3, <1>5, <1>6, <1>8, <1>9 DEF RolesInv

\* A pan begins: flags only
LEMMA PanBeganKeepsRoles ==
  ASSUME RolesInv, PanBegan
  PROVE  RolesInv' /\ [Turn!Next]_Turn!vars
<1>1. /\ TypeOK /\ FrontIsRecorded /\ PanIsTouch /\ NoEffectWaits
      /\ ~touching /\ ~crashed
  BY DEF RolesInv, PanBegan, TouchArrives
<1>2. /\ touching' = TRUE
      /\ UNCHANGED <<openAnimate, overlap, record, views, isLeft, anims, crashed>>
      /\ IF isAnimateChange
         THEN UNCHANGED <<isPan, isPanBegin, isAnimateChange>>
         ELSE isAnimateChange' = openAnimate /\ isPanBegin' = TRUE /\ isPan' = TRUE
  BY DEF PanBegan, fixed, flags
<1>3. /\ isPan' \in BOOLEAN /\ isPanBegin' \in BOOLEAN /\ isAnimateChange' \in BOOLEAN
      /\ touching' \in BOOLEAN
  BY <1>1, <1>2 DEF TypeOK
<1>4. TypeOK'
  BY <1>1, <1>2, <1>3 DEF TypeOK
<1>5. FrontIsRecorded' /\ PanIsTouch' /\ NoEffectWaits'
  BY <1>1, <1>2 DEF FrontIsRecorded, PanIsTouch, NoEffectWaits
<1>6. [Turn!Next]_Turn!vars
  <2>1. record' = record /\ PageOf(views', "pending") = PageOf(views, "pending")
    BY <1>2
  <2> QED
    BY <2>1, TurnWaits
<1> QED
  BY <1>4, <1>5, <1>6 DEF RolesInv

\* The first move of a pan asks.
LEMMA PanChangedKeepsRoles ==
  ASSUME RolesInv, NEW left \in BOOLEAN, PanChanged(left)
  PROVE  /\ RolesInv' /\ [Turn!Next]_Turn!vars
         /\ Has(views, "left") \/ Has(views, "pending") => Has(views', "left")
<1> DEFINE pg == Answer(left)
           v  == Attached(views, pg, left)
<1>1. TypeOK /\ FrontIsRecorded /\ PanIsTouch /\ NoEffectWaits /\ touching
  BY DEF RolesInv, PanChanged
<1>2. views \in Seq(Views) /\ Unique(views) /\ record \in Pages
  BY <1>1, TypesOfViews
<1>3. pg \in Pages \cup {NoPage} /\ (pg # NoPage => pg \in Turn!Beside(record))
  BY <1>2, AnswerMeaning
<1>4. /\ views' = v /\ isLeft' = left /\ isPanBegin' = FALSE
      /\ isAnimateChange' = (isAnimateChange /\ pg # NoPage)
      /\ UNCHANGED <<openAnimate, overlap, record, isPan, touching, anims, crashed>>
  BY DEF PanChanged, fixed
<1> HIDE DEF pg
<1>5. /\ v \in Seq(Views) /\ Unique(v)
      /\ Has(v, "front") <=> Has(views, "front")
      /\ PageOf(v, "front") = PageOf(views, "front")
      /\ PageOf(v, "pending") = pg
      /\ Has(views, "left") \/ Has(views, "pending") => Has(v, "left")
  BY <1>2, <1>3, AttachedMeaning
<1> HIDE DEF v
<1>6. /\ isLeft' \in BOOLEAN /\ isPanBegin' \in BOOLEAN /\ isAnimateChange' \in BOOLEAN
  BY <1>4
<1>7. TypeOK'
  BY <1>1, <1>4, <1>5, <1>6 DEF TypeOK, Unique
<1>8. FrontIsRecorded' /\ PanIsTouch' /\ NoEffectWaits'
  BY <1>1, <1>4, <1>5 DEF FrontIsRecorded, PanIsTouch, NoEffectWaits
<1>9. [Turn!Next]_Turn!vars
  <2>1. record' = record /\ PageOf(views', "pending") = pg
    BY <1>4, <1>5
  <2> QED
    BY <1>3, <2>1, TurnAsks
<1> QED
  BY <1>4, <1>5, <1>7, <1>8, <1>9 DEF RolesInv

\* A pan ends: an animation begins if a page is pending; without one it arrives.
LEMMA PanEndedKeepsRoles ==
  ASSUME RolesInv, NEW success \in BOOLEAN, PanEnded(success)
  PROVE  /\ RolesInv' /\ [Turn!Next]_Turn!vars
         /\ Has(views, "left") => Has(views', "left")
<1> DEFINE s == success \/ ~openAnimate
           w == Moved(views, isLeft, s)
<1>1. TypeOK /\ FrontIsRecorded /\ PanIsTouch /\ NoEffectWaits /\ touching /\ ~crashed
  BY DEF RolesInv, PanEnded
<1>2. /\ views \in Seq(Views) /\ Unique(views) /\ record \in Pages
      /\ isLeft \in BOOLEAN /\ openAnimate \in BOOLEAN /\ anims \in Seq(BOOLEAN)
      /\ isAnimateChange \in BOOLEAN /\ crashed \in BOOLEAN
  BY <1>1, TypesOfViews DEF TypeOK
<1>3. /\ touching' = FALSE /\ isPan' = FALSE
      /\ UNCHANGED <<openAnimate, overlap, isLeft, isPanBegin>>
  BY DEF PanEnded, fixed
<1>4. s \in BOOLEAN
  <2>1. CASE openAnimate
    <3>1. s = success
      BY <2>1
    <3> QED
      BY <3>1
  <2>2. CASE ~openAnimate
    <3>1. s = TRUE
      BY <2>2
    <3> QED
      BY <3>1
  <2> QED
    BY <2>1, <2>2
<1>5. touching' \in BOOLEAN /\ isPan' \in BOOLEAN
  BY <1>3
<1>6. PanIsTouch'
  BY <1>3 DEF PanIsTouch
<1>7. /\ w \in Seq(Views) /\ Unique(w)
      /\ \A role \in {"front", "pending"} :
           (Has(w, role) <=> Has(views, role)) /\ PageOf(w, role) = PageOf(views, role)
      /\ Has(w, "left") <=> Has(views, "left")
  <2> HIDE DEF s
  <2>1. views \in Seq(Views) /\ Unique(views) /\ isLeft \in BOOLEAN /\ s \in BOOLEAN
    BY <1>2, <1>4
  <2> QED
    BY <2>1, MovedKeeps
\* No page is pending, or the pan is not handled, or the process ends
<1>8. CASE /\ views' = views /\ record' = record /\ anims' = anims
           /\ isAnimateChange' \in {isAnimateChange, FALSE} /\ crashed' \in {crashed, TRUE}
           /\ openAnimate \/ (crashed' = crashed /\ ~Has(views, "pending"))
  <2>1. isAnimateChange' \in BOOLEAN /\ crashed' \in BOOLEAN
    BY <1>2, <1>8
  <2>2. TypeOK'
    BY <1>1, <1>2, <1>3, <1>5, <1>8, <2>1 DEF TypeOK, Unique
  <2>3. FrontIsRecorded'
    BY <1>1, <1>8 DEF FrontIsRecorded
  <2>4. NoEffectWaits'
    BY <1>1, <1>3, <1>8 DEF NoEffectWaits
  <2>5. [Turn!Next]_Turn!vars
    <3>1. record' = record /\ PageOf(views', "pending") = PageOf(views, "pending")
      BY <1>8
    <3> QED
      BY <3>1, TurnWaits
  <2> QED
    BY <1>6, <1>8, <2>2, <2>3, <2>4, <2>5 DEF RolesInv
<1>9. CASE /\ isPan /\ Has(views, "pending") /\ crashed' = crashed /\ openAnimate
           /\ GestureSuccess(views, isLeft, s, isAnimateChange)
  <2>1. /\ views' = w /\ anims' = Append(anims, s) /\ isAnimateChange' = isAnimateChange
        /\ record' = record
    BY <1>9 DEF GestureSuccess
  <2> HIDE DEF s, w
  <2>2. anims' \in Seq(BOOLEAN)
    BY <1>2, <1>4, <2>1
  <2>3. TypeOK'
    BY <1>1, <1>2, <1>3, <1>5, <1>7, <1>9, <2>1, <2>2 DEF TypeOK, Unique
  <2>4. FrontIsRecorded'
    BY <1>1, <1>7, <2>1 DEF FrontIsRecorded
  <2>5. NoEffectWaits'
    BY <1>3, <1>9 DEF NoEffectWaits
  <2>6. [Turn!Next]_Turn!vars
    <3>1. record' = record /\ PageOf(views', "pending") = PageOf(views, "pending")
      BY <1>7, <2>1
    <3> QED
      BY <3>1, TurnWaits
  <2> QED
    BY <1>6, <1>7, <2>1, <2>3, <2>4, <2>5, <2>6 DEF RolesInv
<1>10. CASE /\ isPan /\ Has(views, "pending") /\ crashed' = crashed /\ ~openAnimate
            /\ GestureSuccess(views, isLeft, s, isAnimateChange)
  <2>1. AnimateSuccess(w, s) /\ anims' = anims
    BY <1>10 DEF GestureSuccess
  <2>2. s = TRUE
    BY <1>10
  <2> HIDE DEF s, w
  <2>3. Has(w, "front") => PageOf(w, "front") = record
    BY <1>1, <1>7 DEF FrontIsRecorded
  <2>4. /\ views' \in Seq(Views) /\ Unique(views') /\ record' \in Pages
        /\ FrontIsRecorded'
        /\ ~Has(views', "pending") /\ PageOf(views', "pending") = NoPage
        /\ Has(w, "left") => Has(views', "left")
        /\ isAnimateChange' = FALSE
        /\ record' = IF s /\ Has(w, "pending") THEN PageOf(w, "pending") ELSE record
    BY <1>2, <1>4, <1>7, <2>1, <2>3, SuccessMeaning
  <2>5. isAnimateChange' \in BOOLEAN
    BY <2>4
  <2>6. TypeOK'
    BY <1>1, <1>2, <1>3, <1>5, <1>10, <2>1, <2>4, <2>5 DEF TypeOK, Unique
  <2>7. NoEffectWaits'
    BY <1>1, <1>3, <1>10, <2>1, <2>4 DEF NoEffectWaits
  <2>8. /\ record' = PageOf(views, "pending") /\ PageOf(views, "pending") # NoPage
    <3>1. PageOf(views, "pending") # NoPage
      BY <1>2, <1>10, PageOfMeaning
    <3> QED
      BY <1>7, <1>10, <2>2, <2>4, <3>1
  <2>9. [Turn!Next]_Turn!vars
    BY <2>4, <2>8, TurnArrives
  <2> QED
    BY <1>6, <1>7, <2>4, <2>6, <2>7, <2>9 DEF RolesInv
<1>11. \/ /\ views' = views /\ record' = record /\ anims' = anims
          /\ isAnimateChange' \in {isAnimateChange, FALSE} /\ crashed' \in {crashed, TRUE}
          /\ openAnimate \/ (crashed' = crashed /\ ~Has(views, "pending"))
       \/ /\ isPan /\ Has(views, "pending") /\ crashed' = crashed
          /\ GestureSuccess(views, isLeft, s, isAnimateChange)
  <2>1. CASE ~isPan
    BY <1>1, <1>2, <2>1 DEF PanEnded, NoEffectWaits
  <2>2. CASE isPan /\ ~Has(views, "pending")
    BY <1>1, <1>2, <2>2 DEF PanEnded
  <2>3. CASE isPan /\ Has(views, "pending")
    BY <1>1, <1>2, <2>3 DEF PanEnded
  <2> QED
    BY <2>1, <2>2, <2>3
<1> QED
  BY <1>2, <1>8, <1>9, <1>10, <1>11

\* The end of an animation records the page in front.
LEMMA AnimationEndsKeepsRoles ==
  ASSUME RolesInv, AnimationEnds
  PROVE  /\ RolesInv' /\ [Turn!Next]_Turn!vars
         /\ Has(views, "left") => Has(views', "left")
<1> DEFINE s == Head(anims)
<1>1. TypeOK /\ FrontIsRecorded /\ PanIsTouch /\ NoEffectWaits /\ anims # <<>>
  BY DEF RolesInv, AnimationEnds
<1>2. /\ views \in Seq(Views) /\ Unique(views) /\ record \in Pages
      /\ anims \in Seq(BOOLEAN)
  BY <1>1, TypesOfViews DEF TypeOK
<1>3. s \in BOOLEAN /\ Tail(anims) \in Seq(BOOLEAN)
  BY <1>1, <1>2
<1>4. /\ anims' = Tail(anims)
      /\ AnimateSuccess(views, s)
      /\ UNCHANGED <<openAnimate, overlap, isLeft, isPan, isPanBegin, touching, crashed>>
  BY DEF AnimationEnds, fixed
<1> HIDE DEF s
<1>5. Has(views, "front") => PageOf(views, "front") = record
  BY <1>1 DEF FrontIsRecorded
<1>6. /\ views' \in Seq(Views) /\ Unique(views') /\ record' \in Pages
      /\ FrontIsRecorded'
      /\ ~Has(views', "pending") /\ PageOf(views', "pending") = NoPage
      /\ Has(views, "left") => Has(views', "left")
      /\ isAnimateChange' = FALSE
      /\ record' = IF s /\ Has(views, "pending") THEN PageOf(views, "pending") ELSE record
  BY <1>2, <1>3, <1>4, <1>5, SuccessMeaning
<1>7. isAnimateChange' \in BOOLEAN
  BY <1>6
<1>8. TypeOK'
  BY <1>1, <1>3, <1>4, <1>6, <1>7 DEF TypeOK, Unique
<1>9. PanIsTouch' /\ NoEffectWaits'
  BY <1>1, <1>4 DEF PanIsTouch, NoEffectWaits
<1>10. [Turn!Next]_Turn!vars
  <2>1. CASE s /\ Has(views, "pending")
    <3>1. PageOf(views, "pending") # NoPage
      BY <1>2, <2>1, PageOfMeaning
    <3> QED
      BY <1>6, <2>1, <3>1, TurnArrives
  <2>2. CASE ~(s /\ Has(views, "pending"))
    <3>1. record' = record
      BY <1>6, <2>2
    <3> QED
      BY <1>6, <3>1, TurnAsks
  <2> QED
    BY <2>1, <2>2
<1> QED
  BY <1>6, <1>8, <1>9, <1>10 DEF RolesInv

\* The reader is opened again at the recorded page.
LEMMA RestartKeepsRoles ==
  ASSUME RolesInv, Restart
  PROVE  RolesInv' /\ [Turn!Next]_Turn!vars
<1>1. TypeOK /\ NoEffectWaits /\ crashed /\ record \in Pages
  BY DEF RolesInv, Restart, TypeOK
<1>2. /\ views' = <<InFront(record)>> /\ anims' = <<>>
      /\ crashed' = FALSE /\ isLeft' = FALSE /\ isPan' = FALSE /\ isPanBegin' = FALSE
      /\ isAnimateChange' = FALSE
      /\ UNCHANGED <<openAnimate, overlap, record, touching>>
  BY DEF Restart, fixed
<1>3. /\ views' \in Seq(Views) /\ Unique(views')
      /\ PageOf(views', "front") = record /\ PageOf(views', "pending") = NoPage
  BY <1>1, <1>2, AloneViews
<1>4. /\ isLeft' \in BOOLEAN /\ isPan' \in BOOLEAN /\ isPanBegin' \in BOOLEAN
      /\ isAnimateChange' \in BOOLEAN /\ crashed' \in BOOLEAN /\ anims' \in Seq(BOOLEAN)
  <2>1. FALSE \in BOOLEAN /\ <<>> \in Seq(BOOLEAN)
    OBVIOUS
  <2> QED
    BY <1>2, <2>1
<1>5. TypeOK'
  BY <1>1, <1>2, <1>3, <1>4 DEF TypeOK, Unique
<1>6. FrontIsRecorded' /\ PanIsTouch' /\ NoEffectWaits'
  BY <1>1, <1>2, <1>3 DEF FrontIsRecorded, PanIsTouch, NoEffectWaits
<1>7. [Turn!Next]_Turn!vars
  <2>1. record' = record
    BY <1>2
  <2> QED
    BY <1>3, <2>1, TurnAsks
<1> QED
  BY <1>5, <1>6, <1>7 DEF RolesInv

\* Every step, whatever the views are
LEMMA RolesStep == RolesInv /\ [Next]_vars => RolesInv' /\ [Turn!Next]_Turn!vars
<1> SUFFICES ASSUME RolesInv, [Next]_vars PROVE RolesInv' /\ [Turn!Next]_Turn!vars
  OBVIOUS
<1>1. ASSUME NEW left \in BOOLEAN, Tap(left) PROVE RolesInv' /\ [Turn!Next]_Turn!vars
  BY <1>1, TapKeepsRoles
<1>2. ASSUME NEW left \in BOOLEAN, PanChanged(left)
      PROVE  RolesInv' /\ [Turn!Next]_Turn!vars
  BY <1>2, PanChangedKeepsRoles
<1>3. ASSUME NEW success \in BOOLEAN, PanEnded(success)
      PROVE  RolesInv' /\ [Turn!Next]_Turn!vars
  BY <1>3, PanEndedKeepsRoles
<1>4. CASE TapMiddle
  BY <1>4, TapMiddleKeepsRoles
<1>5. CASE PanBegan
  BY <1>5, PanBeganKeepsRoles
<1>6. CASE AnimationEnds
  BY <1>6, AnimationEndsKeepsRoles
<1>7. CASE Restart
  BY <1>7, RestartKeepsRoles
<1>8. CASE UNCHANGED vars
  <2>1. RolesInv'
    BY <1>8 DEF vars, fixed, flags, RolesInv, TypeOK, FrontIsRecorded, PanIsTouch,
                NoEffectWaits
  <2>2. record' = record /\ PageOf(views', "pending") = PageOf(views, "pending")
    BY <1>8 DEF vars
  <2> QED
    BY <2>1, <2>2, TurnWaits
<1> QED
  BY <1>1, <1>2, <1>3, <1>4, <1>5, <1>6, <1>7, <1>8 DEF Next
--------------------------------------------------------------------------------
(***************************************************************************)
(* The phases                                                              *)
(***************************************************************************)

\* What a phase says of the views
PhaseViews ==
  /\ Alone => ~Has(views, "pending") /\ ~Has(views, "left") /\ Has(views, "front")
  /\ Asked => Has(views, "pending") /\ ~Has(views, "left") /\ Has(views, "front")
  /\ Sliding => /\ Has(views, "pending") /\ ~Has(views, "left") /\ Has(views, "front")
                /\ anims # <<>>

LEMMA PhaseMeaning == RolesInv => PhaseViews
<1> SUFFICES ASSUME RolesInv PROVE PhaseViews
  OBVIOUS
<1>1. record \in Pages /\ isLeft \in BOOLEAN
  BY DEF RolesInv, TypeOK
<1>2. ASSUME Alone
      PROVE  ~Has(views, "pending") /\ ~Has(views, "left") /\ Has(views, "front")
  BY <1>1, <1>2, AloneViews DEF Alone
<1>3. ASSUME Asked
      PROVE  Has(views, "pending") /\ ~Has(views, "left") /\ Has(views, "front")
  <2>1. PICK p \in Pages : views = TwoViews(record, p, isLeft, FALSE, isLeft)
    BY <1>3 DEF Asked
  <2>2. FALSE \in BOOLEAN
    OBVIOUS
  <2> QED
    BY <1>1, <2>1, <2>2, TurnViews
<1>4. ASSUME Sliding
      PROVE  /\ Has(views, "pending") /\ ~Has(views, "left") /\ Has(views, "front")
             /\ anims # <<>>
  <2>1. PICK p \in Pages, s \in BOOLEAN :
          /\ anims = <<s>>
          /\ views = TwoViews(record, p, isLeft, ~isLeft /\ s, isLeft /\ ~s)
    BY <1>4 DEF Sliding
  <2>2. (~isLeft /\ s) \in BOOLEAN /\ (isLeft /\ ~s) \in BOOLEAN
    OBVIOUS
  <2>3. anims # <<>>
    BY <2>1
  <2>4. Has(views, "pending") /\ ~Has(views, "left") /\ Has(views, "front")
    BY <1>1, <2>1, <2>2, TurnViews
  <2> QED
    BY <2>3, <2>4
<1> QED
  BY <1>2, <1>3, <1>4 DEF PhaseViews

\* Without a view left behind and without a pending page, the page in front is alone.
LEMMA NothingPending ==
  ASSUME RolesInv, PhaseOrLeft, ~crashed, ~Has(views, "left"), ~Has(views, "pending")
  PROVE  Alone
  BY PhaseMeaning DEF PhaseOrLeft, PhaseViews

\* The end of the animation of a turn leaves the page that is then recorded, alone.
LEMMA TurnEnds ==
  ASSUME record \in Pages, NEW p \in Pages, NEW left \in BOOLEAN, NEW s \in BOOLEAN,
         AnimateSuccess(TwoViews(record, p, left, ~left /\ s, left /\ ~s), s)
  PROVE  views' = <<InFront(record')>> /\ isAnimateChange' = FALSE
<1> DEFINE fo == ~left /\ s
           po == left /\ ~s
           q  == IF s THEN p ELSE record
<1>1. fo \in BOOLEAN /\ po \in BOOLEAN
  OBVIOUS
<1>2. (s => ~po) /\ (~s => ~fo)
  OBVIOUS
<1>3. /\ views' = Ended(TwoViews(record, p, left, fo, po), s) /\ isAnimateChange' = FALSE
      /\ record' = IF Has(views', "front") THEN PageOf(views', "front") ELSE record
  BY DEF AnimateSuccess
<1> HIDE DEF fo, po
<1>4. views' = <<InFront(q)>>
  <2>1. /\ s => Ended(TwoViews(record, p, left, fo, po), s) = <<InFront(p)>>
        /\ ~s => Ended(TwoViews(record, p, left, fo, po), s) = <<InFront(record)>>
    BY <1>1, <1>2, EndedTurn
  <2>2. CASE s
    <3>1. Ended(TwoViews(record, p, left, fo, po), s) = <<InFront(p)>>
      BY <2>1, <2>2
    <3> QED
      BY <1>3, <2>2, <3>1
  <2>3. CASE ~s
    <3>1. Ended(TwoViews(record, p, left, fo, po), s) = <<InFront(record)>>
      BY <2>1, <2>3
    <3> QED
      BY <1>3, <2>3, <3>1
  <2> QED
    BY <2>2, <2>3
<1>5. q \in Pages
  OBVIOUS
<1> HIDE DEF q
<1>6. Has(<<InFront(q)>>, "front") /\ PageOf(<<InFront(q)>>, "front") = q
  BY <1>5, AloneViews
<1> QED
  BY <1>3, <1>4, <1>6

\* A tap turns the page in front when this is alone.
LEMMA TapKeepsPhase ==
  ASSUME CoverInv, NEW left \in BOOLEAN, Tap(left)
  PROVE  PhaseOrLeft' /\ CalmInv'
<1> DEFINE pg == Answer(left)
           v  == Attached(views, pg, left)
<1>1. /\ RolesInv /\ PhaseOrLeft /\ CalmInv /\ ~touching /\ ~crashed /\ ~isPan
      /\ ~isAnimateChange /\ (overlap \/ anims = <<>>) /\ record \in Pages
  BY DEF CoverInv, RolesInv, PanIsTouch, Tap, TouchArrives, TypeOK
<1>2. RolesInv' /\ (Has(views, "left") \/ Has(views, "pending") => Has(views', "left"))
  BY <1>1, TapKeepsRoles
<1>3. PhaseViews'
  BY <1>2, PhaseMeaning, PTL
<1>4. pg \in Pages \cup {NoPage}
  BY <1>1, AnswerMeaning
<1>5. /\ isLeft' = left
      /\ UNCHANGED <<openAnimate, overlap, isPan, isPanBegin, touching, crashed>>
      /\ IF pg = NoPage
         THEN views' = v /\ isAnimateChange' = FALSE /\ record' = record /\ anims' = anims
         ELSE GestureSuccess(v, left, TRUE, openAnimate)
  BY DEF Tap, TapTurns, fixed
<1> HIDE DEF pg
<1>6. CASE Has(views, "left") \/ Has(views, "pending")
  <2>1. PhaseOrLeft'
    BY <1>2, <1>6 DEF PhaseOrLeft
  <2>2. overlap
    BY <1>1, <1>6 DEF CalmInv
  <2> QED
    BY <1>5, <2>1, <2>2 DEF CalmInv
<1>7. CASE ~Has(views, "left") /\ ~Has(views, "pending")
  <2>1. Alone
    BY <1>1, <1>7, NothingPending
  <2>2. views = <<InFront(record)>> /\ anims = <<>>
    BY <2>1 DEF Alone
  <2>3. v = IF pg = NoPage THEN <<InFront(record)>>
            ELSE TwoViews(record, pg, left, FALSE, left)
    BY <1>1, <1>4, <2>2, AttachedAlone
  <2> HIDE DEF v
  <2>4. CASE pg = NoPage
    <3>1. /\ views' = <<InFront(record')>> /\ anims' = <<>> /\ ~isPan' /\ ~touching'
          /\ ~isAnimateChange' /\ ~crashed'
      BY <1>1, <1>5, <2>2, <2>3, <2>4
    <3>2. Alone'
      BY <3>1 DEF Alone
    <3> QED
      BY <1>3, <3>1, <3>2 DEF PhaseOrLeft, CalmInv, PhaseViews
  <2>5. ASSUME pg # NoPage
        PROVE  /\ pg \in Pages
               /\ Moved(v, left, TRUE) =
                    TwoViews(record, pg, left, ~left /\ TRUE, left /\ ~TRUE)
    <3>1. TRUE \in BOOLEAN /\ pg \in Pages
      BY <1>4, <2>5
    <3>2. v = TwoViews(record, pg, left, FALSE, left)
      BY <2>3, <2>5
    <3> DEFINE t == TRUE
    <3>3. t \in BOOLEAN
      BY <3>1
    <3> HIDE DEF t
    <3>4. Moved(TwoViews(record, pg, left, FALSE, left), left, t) =
            TwoViews(record, pg, left, ~left /\ t, left /\ ~t)
      BY <1>1, <3>1, <3>3, MovedTurn
    <3> USE DEF t
    <3>5. Moved(v, left, TRUE) = TwoViews(record, pg, left, ~left /\ TRUE, left /\ ~TRUE)
      BY <3>2, <3>4
    <3> QED
      BY <3>1, <3>5
  <2>6. CASE pg # NoPage /\ openAnimate
    <3>1. /\ views' = Moved(v, left, TRUE) /\ anims' = Append(anims, TRUE)
          /\ isAnimateChange' = openAnimate /\ record' = record
      BY <1>5, <2>6 DEF GestureSuccess
    <3>2. anims' = <<TRUE>>
      BY <2>2, <3>1
    <3>3. views' = TwoViews(record', pg, isLeft', ~isLeft' /\ TRUE, isLeft' /\ ~TRUE)
      BY <1>5, <2>5, <2>6, <3>1
    <3>4. openAnimate' /\ isAnimateChange' /\ ~isPan' /\ ~touching' /\ ~crashed'
      BY <1>1, <1>5, <2>6, <3>1
    <3>5. pg \in Pages /\ TRUE \in BOOLEAN
      BY <2>5, <2>6
    <3>6. Sliding'
      BY <3>2, <3>3, <3>4, <3>5 DEF Sliding
    <3> QED
      BY <1>3, <3>4, <3>6 DEF PhaseOrLeft, CalmInv, PhaseViews
  <2>7. CASE pg # NoPage /\ ~openAnimate
    <3>1. AnimateSuccess(Moved(v, left, TRUE), TRUE) /\ anims' = anims
      BY <1>5, <2>7 DEF GestureSuccess
    <3> DEFINE t == TRUE
    <3>2. t \in BOOLEAN
      OBVIOUS
    <3>3. AnimateSuccess(TwoViews(record, pg, left, ~left /\ t, left /\ ~t), t)
      BY <2>5, <2>7, <3>1
    <3> HIDE DEF t
    <3>4. views' = <<InFront(record')>> /\ isAnimateChange' = FALSE
      BY <1>1, <2>5, <2>7, <3>2, <3>3, TurnEnds
    <3>5. anims' = <<>> /\ ~isPan' /\ ~touching' /\ ~isAnimateChange' /\ ~crashed'
      BY <1>1, <1>5, <2>2, <3>1, <3>4
    <3>6. Alone'
      BY <3>4, <3>5 DEF Alone
    <3> QED
      BY <1>3, <3>5, <3>6 DEF PhaseOrLeft, CalmInv, PhaseViews
  <2> QED
    BY <2>4, <2>6, <2>7
<1> QED
  BY <1>6, <1>7

\* A tap in the middle leaves the page in front alone.
LEMMA TapMiddleKeepsPhase ==
  ASSUME CoverInv, TapMiddle
  PROVE  PhaseOrLeft' /\ CalmInv'
<1>1. /\ RolesInv /\ PhaseOrLeft /\ CalmInv /\ ~touching /\ ~crashed /\ ~isPan
      /\ (overlap \/ anims = <<>>) /\ record \in Pages /\ isLeft \in BOOLEAN
  BY DEF CoverInv, RolesInv, PanIsTouch, TapMiddle, TouchArrives, TypeOK
<1>2. Has(views, "left") \/ Has(views, "pending") => Has(views', "left")
  BY <1>1, TapMiddleKeepsRoles
<1>3. /\ views' = Attached(views, NoPage, isLeft)
      /\ UNCHANGED <<openAnimate, overlap, record, isLeft, isPan, isPanBegin,
                     isAnimateChange, touching, anims, crashed>>
  BY DEF TapMiddle, fixed, flags
<1>4. CASE Has(views, "left") \/ Has(views, "pending")
  <2>1. PhaseOrLeft'
    BY <1>2, <1>4 DEF PhaseOrLeft
  <2>2. overlap
    BY <1>1, <1>4 DEF CalmInv
  <2> QED
    BY <1>3, <2>1, <2>2 DEF CalmInv
<1>5. CASE ~Has(views, "left") /\ ~Has(views, "pending")
  <2>1. Alone
    BY <1>1, <1>5, NothingPending
  <2>2. NoPage \in Pages \cup {NoPage}
    OBVIOUS
  <2>3. views' = views
    BY <1>1, <1>3, <2>1, <2>2, AttachedAlone DEF Alone
  <2>4. Alone'
    BY <1>3, <2>1, <2>3 DEF Alone
  <2>5. CalmInv'
    BY <1>1, <1>3, <2>3 DEF CalmInv
  <2> QED
    BY <2>4, <2>5 DEF PhaseOrLeft
<1> QED
  BY <1>4, <1>5
\* A pan begins: the flag is set, with "cover", until its page has arrived or not.
LEMMA PanBeganKeepsPhase ==
  ASSUME CoverInv, PanBegan
  PROVE  PhaseOrLeft' /\ CalmInv'
<1>1. /\ RolesInv /\ PhaseOrLeft /\ CalmInv /\ ~touching /\ ~crashed /\ ~isPan
      /\ (overlap \/ anims = <<>>)
  BY DEF CoverInv, RolesInv, PanIsTouch, PanBegan, TouchArrives
<1>2. /\ touching' = TRUE
      /\ UNCHANGED <<openAnimate, overlap, record, views, isLeft, anims, crashed>>
      /\ IF isAnimateChange
         THEN UNCHANGED <<isPan, isPanBegin, isAnimateChange>>
         ELSE isAnimateChange' = openAnimate /\ isPanBegin' = TRUE /\ isPan' = TRUE
  BY DEF PanBegan, fixed, flags
<1>3. openAnimate' /\ isPan' => isAnimateChange'
  BY <1>1, <1>2
<1>4. Alone => Alone'
  BY <1>2, <1>3 DEF Alone
<1>5. Asked => Asked'
  BY <1>2, <1>3 DEF Asked
<1>6. Sliding => Sliding'
  <2>1. Sliding => openAnimate' /\ isAnimateChange' /\ ~isPan'
    BY <1>1, <1>2 DEF Sliding
  <2> QED
    BY <1>2, <2>1 DEF Sliding
<1>7. PhaseOrLeft'
  BY <1>1, <1>2, <1>4, <1>5, <1>6 DEF PhaseOrLeft
<1>8. CalmInv'
  BY <1>1, <1>2 DEF CalmInv
<1> QED
  BY <1>7, <1>8

\* The first move of a pan asks for a page beside the one that is alone in front.
LEMMA PanChangedKeepsPhase ==
  ASSUME CoverInv, NEW left \in BOOLEAN, PanChanged(left)
  PROVE  PhaseOrLeft' /\ CalmInv'
<1> DEFINE pg == Answer(left)
<1>1. /\ RolesInv /\ PhaseOrLeft /\ CalmInv /\ touching /\ ~crashed /\ isPanBegin
      /\ record \in Pages
  BY DEF CoverInv, RolesInv, PanChanged, TypeOK
<1>2. RolesInv' /\ (Has(views, "left") \/ Has(views, "pending") => Has(views', "left"))
  BY <1>1, PanChangedKeepsRoles
<1>3. PhaseViews'
  BY <1>2, PhaseMeaning, PTL
<1>4. pg \in Pages \cup {NoPage}
  BY <1>1, AnswerMeaning
<1>5. /\ views' = Attached(views, pg, left) /\ isLeft' = left /\ isPanBegin' = FALSE
      /\ isAnimateChange' = (isAnimateChange /\ pg # NoPage)
      /\ UNCHANGED <<openAnimate, overlap, record, isPan, touching, anims, crashed>>
  BY DEF PanChanged, fixed
<1> HIDE DEF pg
<1>6. CASE Has(views, "left") \/ Has(views, "pending")
  <2>1. PhaseOrLeft'
    BY <1>2, <1>6 DEF PhaseOrLeft
  <2>2. overlap
    BY <1>1, <1>6 DEF CalmInv
  <2> QED
    BY <1>5, <2>1, <2>2 DEF CalmInv
<1>7. CASE ~Has(views, "left") /\ ~Has(views, "pending")
  <2>1. Alone
    BY <1>1, <1>7, NothingPending
  <2>2. views' = IF pg = NoPage THEN <<InFront(record)>>
                 ELSE TwoViews(record, pg, left, FALSE, left)
    BY <1>1, <1>4, <1>5, <2>1, AttachedAlone DEF Alone
  <2>3. Alone' \/ Asked'
    <3>1. CASE pg = NoPage
      <4>1. views' = <<InFront(record')>> /\ anims' = <<>> /\ ~isPanBegin'
        BY <1>5, <2>1, <2>2, <3>1 DEF Alone
      <4> QED
        BY <4>1 DEF Alone
    <3>2. CASE pg # NoPage
      <4>1. pg \in Pages /\ views' = TwoViews(record', pg, isLeft', FALSE, isLeft')
        BY <1>4, <1>5, <2>2, <3>2
      <4>2. anims' = <<>> /\ (openAnimate' /\ isPan' => isAnimateChange')
        BY <1>1, <1>5, <2>1, <3>2 DEF Alone
      <4> QED
        BY <4>1, <4>2 DEF Asked
    <3> QED
      BY <3>1, <3>2
  <2>4. ~Has(views', "left")
    BY <1>3, <2>3 DEF PhaseViews
  <2>5. CalmInv'
    BY <1>1, <1>5, <2>4 DEF CalmInv
  <2> QED
    BY <2>3, <2>5 DEF PhaseOrLeft
<1> QED
  BY <1>6, <1>7

\* A pan ends: the two views of its turn move, or the page arrives at once.
LEMMA PanEndedKeepsPhase ==
  ASSUME CoverInv, NEW success \in BOOLEAN, PanEnded(success)
  PROVE  PhaseOrLeft' /\ CalmInv'
<1> DEFINE s == success \/ ~openAnimate
<1>1. /\ RolesInv /\ PhaseOrLeft /\ CalmInv /\ touching /\ ~crashed
      /\ record \in Pages /\ isLeft \in BOOLEAN /\ openAnimate \in BOOLEAN
  BY DEF CoverInv, RolesInv, PanEnded, TypeOK
<1>2. RolesInv' /\ (Has(views, "left") => Has(views', "left"))
  BY <1>1, PanEndedKeepsRoles
<1>3. PhaseViews /\ PhaseViews'
  BY <1>1, <1>2, PhaseMeaning, PTL
<1>4. /\ touching' = FALSE /\ isPan' = FALSE
      /\ UNCHANGED <<openAnimate, overlap, isLeft, isPanBegin>>
  BY DEF PanEnded, fixed
<1>5. s \in BOOLEAN
  <2>1. CASE openAnimate
    <3>1. s = success
      BY <2>1
    <3> QED
      BY <3>1
  <2>2. CASE ~openAnimate
    <3>1. s = TRUE
      BY <2>2
    <3> QED
      BY <3>1
  <2> QED
    BY <2>1, <2>2
\* The pan is not handled: the views stay what they are.
<1>6. CASE ~isPan
  <2>1. UNCHANGED <<record, views, isAnimateChange, anims, crashed>>
    BY <1>6 DEF PanEnded
  <2>2. (Alone => Alone') /\ (Asked => Asked') /\ (Sliding => Sliding')
    BY <1>4, <2>1 DEF Alone, Asked, Sliding
  <2>3. PhaseOrLeft'
    BY <1>1, <2>1, <2>2 DEF PhaseOrLeft
  <2>4. overlap
    BY <1>1, <1>6 DEF CalmInv
  <2> QED
    BY <1>4, <2>3, <2>4 DEF CalmInv
\* The pan found no page.
<1>7. CASE isPan /\ ~Has(views, "pending")
  <2>1. isAnimateChange' = FALSE /\ UNCHANGED <<record, views, anims, crashed>>
    BY <1>7 DEF PanEnded
  <2>2. Alone => Alone'
    BY <1>4, <2>1 DEF Alone
  <2>3. PhaseOrLeft'
    BY <1>1, <1>3, <1>7, <2>1, <2>2 DEF PhaseOrLeft, PhaseViews
  <2>4. CalmInv'
    BY <1>1, <1>4, <1>7, <2>1 DEF CalmInv
  <2> QED
    BY <2>3, <2>4
\* There is a page but something was left behind: it stays.
<1>8. CASE isPan /\ Has(views, "pending") /\ Has(views, "left")
  <2>1. PhaseOrLeft'
    BY <1>2, <1>8 DEF PhaseOrLeft
  <2>2. overlap
    BY <1>1, <1>8 DEF CalmInv
  <2> QED
    BY <1>4, <2>1, <2>2 DEF CalmInv
\* There is a page, and it is beside the page in front.
<1>9. CASE isPan /\ Has(views, "pending") /\ ~Has(views, "left")
  <2>1. Asked
    BY <1>1, <1>3, <1>9 DEF PhaseOrLeft, PhaseViews, Sliding
  <2>2. PICK p \in Pages : views = TwoViews(record, p, isLeft, FALSE, isLeft)
    BY <2>1 DEF Asked
  <2>3. anims = <<>> /\ (openAnimate => isAnimateChange) /\ Has(views, "front")
    BY <1>3, <1>9, <2>1 DEF Asked, PhaseViews
  <2>4. GestureSuccess(views, isLeft, s, isAnimateChange) /\ crashed' = crashed
    BY <1>9, <2>3 DEF PanEnded
  <2> HIDE DEF s
  <2>5. Moved(views, isLeft, s) =
          TwoViews(record, p, isLeft, ~isLeft /\ s, isLeft /\ ~s)
    <3>1. record \in Pages /\ isLeft \in BOOLEAN
      BY <1>1
    <3>2. Moved(TwoViews(record, p, isLeft, FALSE, isLeft), isLeft, s) =
            TwoViews(record, p, isLeft, ~isLeft /\ s, isLeft /\ ~s)
      BY <1>5, <3>1, MovedTurn, ZenonT(30)
    <3> QED
      BY <2>2, <3>2
  <2>6. CASE openAnimate
    <3>1. /\ views' = Moved(views, isLeft, s) /\ anims' = Append(anims, s)
          /\ isAnimateChange' = isAnimateChange /\ record' = record
      BY <2>4, <2>6 DEF GestureSuccess
    <3>2. anims' = <<s>>
      BY <2>3, <3>1
    <3>3. views' = TwoViews(record', p, isLeft', ~isLeft' /\ s, isLeft' /\ ~s)
      BY <1>4, <2>5, <3>1
    <3>4. openAnimate' /\ isAnimateChange' /\ ~isPan'
      BY <1>4, <2>3, <2>6, <3>1
    <3>5. Sliding'
      BY <1>5, <3>2, <3>3, <3>4 DEF Sliding
    <3> QED
      BY <1>1, <1>3, <1>4, <2>4, <3>5 DEF PhaseOrLeft, CalmInv, PhaseViews
  <2>7. CASE ~openAnimate
    <3>1. AnimateSuccess(Moved(views, isLeft, s), s) /\ anims' = anims
      BY <2>4, <2>7 DEF GestureSuccess
    <3>2. AnimateSuccess(TwoViews(record, p, isLeft, ~isLeft /\ s, isLeft /\ ~s), s)
      BY <2>5, <3>1
    <3>3. views' = <<InFront(record')>> /\ isAnimateChange' = FALSE
      BY <1>1, <1>5, <3>2, TurnEnds
    <3>4. Alone'
      BY <1>4, <2>3, <3>1, <3>3 DEF Alone
    <3> QED
      BY <1>1, <1>3, <1>4, <2>4, <3>3, <3>4 DEF PhaseOrLeft, CalmInv, PhaseViews
  <2> QED
    BY <2>6, <2>7
<1> QED
  BY <1>6, <1>7, <1>8, <1>9

\* The end of an animation leaves one of its two views.
LEMMA AnimationEndsKeepsPhase ==
  ASSUME CoverInv, AnimationEnds
  PROVE  PhaseOrLeft' /\ CalmInv'
<1>1. /\ RolesInv /\ PhaseOrLeft /\ CalmInv /\ ~crashed /\ anims # <<>>
      /\ record \in Pages /\ isLeft \in BOOLEAN
  BY DEF CoverInv, RolesInv, AnimationEnds, TypeOK
<1>2. RolesInv' /\ (Has(views, "left") => Has(views', "left"))
  BY <1>1, AnimationEndsKeepsRoles
<1>3. PhaseViews'
  BY <1>2, PhaseMeaning, PTL
<1>4. /\ anims' = Tail(anims)
      /\ AnimateSuccess(views, Head(anims))
      /\ UNCHANGED <<openAnimate, overlap, isLeft, isPan, isPanBegin, touching, crashed>>
  BY DEF AnimationEnds, fixed
<1>5. CASE Has(views, "left")
  <2>1. PhaseOrLeft'
    BY <1>2, <1>5 DEF PhaseOrLeft
  <2>2. overlap
    BY <1>1, <1>5 DEF CalmInv
  <2> QED
    BY <1>4, <2>1, <2>2 DEF CalmInv
<1>6. CASE ~Has(views, "left")
  <2>1. Sliding
    BY <1>1, <1>6 DEF PhaseOrLeft, Alone, Asked
  <2>2. PICK p \in Pages, s \in BOOLEAN :
          /\ anims = <<s>>
          /\ views = TwoViews(record, p, isLeft, ~isLeft /\ s, isLeft /\ ~s)
    BY <2>1 DEF Sliding
  <2>3. Head(anims) = s /\ Tail(anims) = <<>>
    BY <2>2
  <2>4. AnimateSuccess(TwoViews(record, p, isLeft, ~isLeft /\ s, isLeft /\ ~s), s)
    BY <1>4, <2>2, <2>3
  <2>5. views' = <<InFront(record')>> /\ isAnimateChange' = FALSE
    BY <1>1, <2>4, TurnEnds
  <2>6. anims' = <<>> /\ ~isPan'
    BY <1>4, <2>1, <2>3 DEF Sliding
  <2>7. Alone'
    BY <2>5, <2>6 DEF Alone
  <2> QED
    BY <1>1, <1>3, <1>4, <2>5, <2>6, <2>7 DEF PhaseOrLeft, CalmInv, PhaseViews
<1> QED
  BY <1>5, <1>6

\* After a restart the page in front is alone. Where gestures wait there is none.
LEMMA RestartKeepsPhase ==
  ASSUME CoverInv, Restart
  PROVE  PhaseOrLeft' /\ CalmInv'
<1>1. CalmInv /\ crashed
  BY DEF CoverInv, Restart
<1>2. /\ views' = <<InFront(record')>> /\ anims' = <<>> /\ isPan' = FALSE
      /\ overlap' = overlap
  BY DEF Restart, fixed
<1>3. Alone'
  BY <1>2 DEF Alone
<1> QED
  BY <1>1, <1>2, <1>3 DEF PhaseOrLeft, CalmInv
--------------------------------------------------------------------------------
(***************************************************************************)
(* The theorems                                                            *)
(***************************************************************************)

LEMMA CoverInit == Init => CoverInv
<1> SUFFICES ASSUME Init PROVE CoverInv
  OBVIOUS
<1>1. RolesInv
  BY RolesInit
<1>2. Alone
  BY DEF Init, Alone
<1>3. ~Has(views, "pending") /\ ~Has(views, "left")
  BY <1>1, <1>2, PhaseMeaning DEF PhaseViews
<1>4. PhaseOrLeft /\ CalmInv
  BY <1>2, <1>3 DEF Init, PhaseOrLeft, CalmInv
<1> QED
  BY <1>1, <1>4 DEF CoverInv

LEMMA CoverStep == CoverInv /\ [Next]_vars => CoverInv'
<1> SUFFICES ASSUME CoverInv, [Next]_vars PROVE PhaseOrLeft' /\ CalmInv'
  BY RolesStep DEF CoverInv
<1>1. ASSUME NEW left \in BOOLEAN, Tap(left) PROVE PhaseOrLeft' /\ CalmInv'
  BY <1>1, TapKeepsPhase
<1>2. ASSUME NEW left \in BOOLEAN, PanChanged(left) PROVE PhaseOrLeft' /\ CalmInv'
  BY <1>2, PanChangedKeepsPhase
<1>3. ASSUME NEW success \in BOOLEAN, PanEnded(success) PROVE PhaseOrLeft' /\ CalmInv'
  BY <1>3, PanEndedKeepsPhase
<1>4. CASE TapMiddle
  BY <1>4, TapMiddleKeepsPhase
<1>5. CASE PanBegan
  BY <1>5, PanBeganKeepsPhase
<1>6. CASE AnimationEnds
  BY <1>6, AnimationEndsKeepsPhase
<1>7. CASE Restart
  BY <1>7, RestartKeepsPhase
<1>8. CASE UNCHANGED vars
  BY <1>8 DEF vars, fixed, flags, CoverInv, PhaseOrLeft, CalmInv, Alone, Asked, Sliding
<1> QED
  BY <1>1, <1>2, <1>3, <1>4, <1>5, <1>6, <1>7, <1>8 DEF Next

\* CoverInv holds in every behaviour of the controller, whether touches arrive while
\* an animation runs or not.
THEOREM CoverInvariance == Spec => []CoverInv
  BY CoverInit, CoverStep, PTL DEF Spec

\* Every variable keeps its type, and one controller at most is in front, one at most
\* is pending, also after late gestures have left views behind.
THEOREM CoverTypes == Spec => []TypeOK
<1>1. CoverInv => TypeOK
  BY DEF CoverInv, RolesInv
<1> QED
  BY <1>1, CoverInvariance, PTL

\* coverFinished records the page asked for last, always one beside the recorded one:
\* the controller implements the protocol of the container, for a book of any length,
\* with any number of animations at a time and views left behind.
THEOREM CoverTurnsByOnePage == Spec => TurnsByOnePage
<1>1. Init => Turn!Init
  <2> SUFFICES ASSUME Init PROVE Turn!Init
    OBVIOUS
  <2>1. record \in Pages /\ views = <<InFront(record)>>
    BY DEF Init
  <2>2. PageOf(views, "pending") = NoPage
    BY <2>1, AloneViews
  <2> QED
    BY <2>1, <2>2 DEF Turn!Init, Turn!Pages, Pages
<1>2. RolesInv /\ [Next]_vars => RolesInv' /\ [Turn!Next]_Turn!vars
  BY RolesStep
<1> QED
  BY <1>1, <1>2, RolesInit, PTL DEF Spec, TurnsByOnePage

\* Where gestures wait for animations: at rest the view of the recorded page is the only
\* one attached, on the screen, and the next gesture is not refused.
THEOREM RestStaysClean == Spec => []RestIsClean
<1>1. CoverInv => RestIsClean
  <2> SUFFICES ASSUME CoverInv, ~overlap, AtRest
               PROVE  views = <<InFront(record)>> /\ ~isAnimateChange /\ ~isPan
    BY DEF RestIsClean
  <2>1. RolesInv /\ PhaseOrLeft /\ CalmInv /\ ~touching /\ anims = <<>> /\ ~isPan
    BY DEF CoverInv, RolesInv, PanIsTouch, AtRest
  <2>2. /\ ~isAnimateChange /\ ~crashed /\ ~Has(views, "left")
        /\ ~Has(views, "pending")
    BY <2>1 DEF CalmInv
  <2>3. Alone
    BY <2>1, <2>2, NothingPending
  <2> QED
    BY <2>1, <2>2, <2>3 DEF Alone
<1> QED
  BY <1>1, CoverInvariance, PTL

\* Where gestures wait: while a page is pending, its view and the one in front are the
\* only ones, and the pan that asked for it or one animation is all that is under way.
THEOREM OneTurnAtATime == Spec => []OneTurn
<1>1. CoverInv => OneTurn
  <2> SUFFICES ASSUME CoverInv, ~overlap, Has(views, "pending")
               PROVE  /\ Len(views) = 2
                      /\ openAnimate => isAnimateChange
                      /\ Len(anims) + (IF isPan THEN 1 ELSE 0) = 1
    BY DEF OneTurn
  <2>1. /\ RolesInv /\ PhaseOrLeft /\ CalmInv /\ record \in Pages /\ isLeft \in BOOLEAN
        /\ (isPan => touching)
    BY DEF CoverInv, RolesInv, TypeOK, PanIsTouch
  <2>2. /\ ~crashed /\ ~Has(views, "left") /\ (touching => anims = <<>>)
        /\ (anims # <<>> \/ isPan)
    BY <2>1 DEF CalmInv
  <2>3. Asked \/ Sliding
    BY <2>1, <2>2, PhaseMeaning DEF PhaseOrLeft, PhaseViews
  <2>4. CASE Asked
    <3>1. PICK p \in Pages : views = TwoViews(record, p, isLeft, FALSE, isLeft)
      BY <2>4 DEF Asked
    <3>2. Len(views) = 2
      BY <3>1 DEF TwoViews
    <3>3. anims = <<>> /\ isPan /\ (openAnimate => isAnimateChange)
      BY <2>2, <2>4 DEF Asked
    <3>4. Len(anims) = 0
      BY <3>3
    <3> QED
      BY <3>2, <3>3, <3>4
  <2>5. CASE Sliding
    <3>1. PICK p \in Pages, s \in BOOLEAN :
            /\ anims = <<s>>
            /\ views = TwoViews(record, p, isLeft, ~isLeft /\ s, isLeft /\ ~s)
      BY <2>5 DEF Sliding
    <3>2. Len(views) = 2
      BY <3>1 DEF TwoViews
    <3>3. isAnimateChange /\ ~isPan
      BY <2>5 DEF Sliding
    <3>4. Len(anims) = 1
      BY <3>1
    <3> QED
      BY <3>2, <3>3, <3>4
  <2> QED
    BY <2>3, <2>4, <2>5
<1> QED
  BY <1>1, CoverInvariance, PTL

\* The topmost view on the screen is that of the recorded page at rest, in every
\* behaviour, as long as no view but the one in front is attached.
THEOREM RecordStaysOnTheScreen == Spec => []RecordIsOnTheScreen
<1>1. CoverInv => RecordIsOnTheScreen
  <2> SUFFICES ASSUME CoverInv, AtRest, ~crashed,
                      \A i \in DOMAIN views : views[i].role = "front"
               PROVE  Shown = record
    BY DEF RecordIsOnTheScreen
  <2>1. RolesInv /\ PhaseOrLeft /\ record \in Pages
    BY DEF CoverInv, RolesInv, TypeOK
  <2>2. ~Has(views, "left") /\ ~Has(views, "pending")
    BY DEF Has
  <2>3. views = <<InFront(record)>>
    BY <2>1, <2>2, NothingPending DEF Alone
  <2>4. DOMAIN views = {1} /\ views[1].pg = record /\ ~views[1].off
    BY <2>3 DEF InFront
  <2>5. {i \in DOMAIN views : ~views[i].off} = {1}
    BY <2>4
  <2> QED
    BY <2>4, <2>5 DEF Shown
<1> QED
  BY <1>1, CoverInvariance, PTL
================================================================================
