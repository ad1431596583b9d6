---------------------- MODULE TranslationControllerProofs ----------------------
(***************************************************************************)
(* Theorems of TranslationController, for a book of any length and any     *)
(* bounds. What holds whatever touches overlap comes first; then the       *)
(* behaviours where gestures wait for animations, whose states are those   *)
(* of a machine with four phases: at rest, a pan without a request, a pan  *)
(* that has asked for a page, and an animation.                            *)
(***************************************************************************)
EXTENDS TranslationController, FiniteSetTheorems, TLAPS

Animations == [remove : Controllers \cup {None}, pan : BOOLEAN]

\* The bounds of the model, which leave an identity for every new controller
Bounded == Len(children) <= MaxChildren /\ Len(anims) <= MaxAnims

\* A direction is remembered from the first move of a pan to its end.
DirectionIsOfPan == ~isPanning \/ allowRequestNewController => scrollDirection = 0

\* What a pan has asked for is the last child, if it is one.
PendingIsLast ==
  isPanning /\ ~allowRequestNewController =>
    \A i \in DOMAIN children : children[i] = pendingController => i = Len(children)

\* The record is that of the first child, or an animation will record it, or the
\* pan has removed the first child and asked for the one that is first now.
RecordIsKnown ==
  ~crashed /\ anims = <<>> /\ children # <<>> /\ record # Head(children).pg =>
    /\ isPanning /\ ~allowRequestNewController
    /\ pendingController = Head(children)

\* The inductive invariant of all behaviours
ChildrenInv == TypeOK /\ Bounded /\ DirectionIsOfPan /\ PendingIsLast /\ RecordIsKnown

--------------------------------------------------------------------------------
\* One controller is left and recorded, or none; no view is on the screen but its own.
OneOrNone ==
  \/ children = <<>> /\ onScreen = {}
  \/ /\ Len(children) = 1 /\ onScreen \subseteq {children[1]}
     /\ record = children[1].pg

AtAnEnd == record \in {0, LastPage}

\* The page a pan or a tap has asked for is the second child, beside the record.
TwoOfTurn(c, p) ==
  /\ Len(children) = 2 /\ children[1] = c /\ children[2] = p
  /\ record = c.pg
  /\ p.pg \in {record - 1, record + 1}

\* A view out of its place was left there by a pan that found no page.
Resting ==
  /\ ~isPanning /\ anims = <<>>
  /\ OneOrNone
  /\ children # <<>> /\ onScreen = {} => pendingController = None /\ AtAnEnd

PanBegun ==
  /\ isPanning /\ allowRequestNewController /\ anims = <<>>
  /\ OneOrNone
  /\ children # <<>> /\ onScreen = {} /\ pendingController = None => AtAnEnd
  /\ currentController = First(children)

PanAsked ==
  /\ isPanning /\ ~allowRequestNewController /\ anims = <<>>
  /\ scrollDirection \in {-1, 1}
  /\ currentController # None /\ onScreen \subseteq {currentController}
  /\ record = currentController.pg
  /\ \/ /\ pendingController # None
        /\ TwoOfTurn(currentController, pendingController)
     \/ /\ pendingController = None
        /\ Len(children) = 1 /\ children[1] = currentController
        /\ record - scrollDirection \notin Pages

\* The animation of a tap; of a pan that asked for a page; of a pan that did not and
\* found the pending controller of an earlier turn; of a pan without any view
Animated ==
  /\ ~isPanning /\ Len(anims) = 1
  /\ LET a == anims[1]
     IN  \/ /\ ~a.pan /\ a.remove # None
            /\ Len(children) = 2 /\ TwoOfTurn(a.remove, children[2])
            /\ onScreen = {children[2]}
         \/ /\ a.pan /\ currentController # None /\ pendingController # None
            /\ TwoOfTurn(currentController, pendingController)
            /\ a.remove \in {currentController, pendingController}
            /\ onScreen = {currentController, pendingController} \ {a.remove}
         \/ /\ a.pan /\ currentController # None /\ pendingController # None
            /\ Len(children) = 1 /\ children[1] = currentController
            /\ record = currentController.pg
            /\ a.remove \in {currentController, pendingController}
            /\ a.remove # currentController => onScreen = {currentController}
         \/ a.pan /\ children = <<>> /\ currentController = None

\* The inductive invariant where gestures wait for animations
CalmInv ==
  ~overlap => IF crashed THEN Len(children) <= 1
              ELSE Resting \/ PanBegun \/ PanAsked \/ Animated

\* The inductive invariant
TranslationInv == ChildrenInv /\ CalmInv

--------------------------------------------------------------------------------
(***************************************************************************)
(* Sequences of controllers                                                *)
(***************************************************************************)

\* No controller is a child twice.
Distinct(ch) == \A i, j \in DOMAIN ch : ch[i].id = ch[j].id => i = j

\* Removing a controller that is a child closes the gap; another is not removed.
LEMMA RemoveMeaning ==
  ASSUME NEW ch \in Seq(Controllers), NEW c
  PROVE  /\ Remove(ch, c) \in Seq(Controllers)
         /\ \/ Remove(ch, c) = ch /\ \A i \in DOMAIN ch : ch[i] # c
            \/ \E k \in DOMAIN ch :
                 /\ ch[k] = c
                 /\ Len(Remove(ch, c)) = Len(ch) - 1
                 /\ \A i \in 1..Len(ch) - 1 :
                      Remove(ch, c)[i] = IF i < k THEN ch[i] ELSE ch[i + 1]
<1>1. CASE ~\E i \in DOMAIN ch : ch[i] = c
  BY <1>1 DEF Remove
<1>2. CASE \E i \in DOMAIN ch : ch[i] = c
  <2> DEFINE k == CHOOSE i \in DOMAIN ch : ch[i] = c
             left == SubSeq(ch, 1, k - 1)
             right == SubSeq(ch, k + 1, Len(ch))
  <2>1. k \in 1..Len(ch) /\ ch[k] = c /\ Len(ch) \in Nat /\ DOMAIN ch = 1..Len(ch)
    BY <1>2
  <2>2. Remove(ch, c) = left \o right
    BY <1>2 DEF Remove
  <2> HIDE DEF k
  <2>3. /\ left \in Seq(Controllers) /\ Len(left) = k - 1
        /\ \A i \in 1..k - 1 : left[i] = ch[i]
    BY <2>1
  <2>4. /\ right \in Seq(Controllers) /\ Len(right) = Len(ch) - k
        /\ \A i \in 1..Len(ch) - k : right[i] = ch[k + i]
    BY <2>1
  <2> HIDE DEF left, right
  <2>5. /\ left \o right \in Seq(Controllers)
        /\ Len(left \o right) = Len(ch) - 1
        /\ \A i \in 1..Len(ch) - 1 :
             (left \o right)[i] = IF i < k THEN ch[i] ELSE ch[i + 1]
    <3>1. /\ left \o right \in Seq(Controllers)
          /\ Len(left \o right) = Len(left) + Len(right)
      BY <2>3, <2>4
    <3>3. left \o right \in Seq(Controllers) /\ Len(left \o right) = Len(ch) - 1
      BY <2>1, <2>3, <2>4, <3>1
    <3>2. ASSUME NEW i \in 1..Len(ch) - 1
          PROVE  (left \o right)[i] = IF i < k THEN ch[i] ELSE ch[i + 1]
      <4>1. (left \o right)[i] = IF i <= k - 1 THEN left[i] ELSE right[i - (k - 1)]
        BY <2>1, <2>3, <2>4, <3>2
      <4>2. CASE i < k
        BY <2>1, <2>3, <3>2, <4>1, <4>2
      <4>3. CASE ~(i < k)
        <5>1. i - (k - 1) \in 1..Len(ch) - k /\ k + (i - (k - 1)) = i + 1
          BY <2>1, <3>2, <4>3
        <5>2. right[i - (k - 1)] = ch[k + (i - (k - 1))]
          BY <2>4, <5>1
        <5>3. ~(i <= k - 1)
          BY <2>1, <3>2, <4>3
        <5> QED
          BY <4>1, <4>3, <5>1, <5>2, <5>3
      <4> QED
        BY <4>2, <4>3
    <3> QED
      BY <3>2, <3>3
  <2> QED
    BY <2>1, <2>2, <2>5
<1> QED
  BY <1>1, <1>2

\* What is left after a removal is distinct, in the same order, and begins with the
\* first child unless this was removed.
LEMMA RemoveKeeps ==
  ASSUME NEW ch \in Seq(Controllers), Distinct(ch), NEW c
  PROVE  /\ Remove(ch, c) \in Seq(Controllers) /\ Distinct(Remove(ch, c))
         /\ Len(Remove(ch, c)) <= Len(ch)
         /\ \A i \in DOMAIN Remove(ch, c) :
              /\ Remove(ch, c)[i] # c
              /\ \E j \in DOMAIN ch : Remove(ch, c)[i] = ch[j]
         /\ ch # <<>> /\ ch[Len(ch)] # c =>
              /\ Remove(ch, c) # <<>>
              /\ Remove(ch, c)[Len(Remove(ch, c))] = ch[Len(ch)]
         /\ ch # <<>> /\ ch[1] # c =>
              Remove(ch, c) # <<>> /\ Remove(ch, c)[1] = ch[1]
         /\ ch # <<>> /\ ch[Len(ch)] = c =>
              /\ Len(Remove(ch, c)) = Len(ch) - 1
              /\ \A i \in 1..Len(ch) - 1 : Remove(ch, c)[i] = ch[i]
<1> DEFINE r == Remove(ch, c)
<1>1. CASE r = ch /\ \A i \in DOMAIN ch : ch[i] # c
  BY <1>1
<1>2. CASE \E k \in DOMAIN ch :
             /\ ch[k] = c
             /\ Len(r) = Len(ch) - 1
             /\ \A i \in 1..Len(ch) - 1 : r[i] = IF i < k THEN ch[i] ELSE ch[i + 1]
  <2>1. PICK k \in DOMAIN ch :
             /\ ch[k] = c
             /\ Len(r) = Len(ch) - 1
             /\ \A i \in 1..Len(ch) - 1 : r[i] = IF i < k THEN ch[i] ELSE ch[i + 1]
    BY <1>2
  <2>2. r \in Seq(Controllers)
    BY RemoveMeaning
  <2> HIDE DEF r
  <2>3. /\ Len(ch) \in Nat \ {0} /\ DOMAIN ch = 1..Len(ch) /\ k \in 1..Len(ch)
        /\ DOMAIN r = 1..Len(ch) - 1
    BY <2>1, <2>2
  <2> DEFINE at(i) == IF i < k THEN i ELSE i + 1
  <2>4. \A i \in DOMAIN r : at(i) \in DOMAIN ch /\ at(i) # k /\ r[i] = ch[at(i)]
    BY <2>1, <2>3
  <2>5. \A i, j \in DOMAIN ch : ch[i].id = ch[j].id => i = j
    BY DEF Distinct
  <2>6. Distinct(r)
    <3> SUFFICES ASSUME NEW i \in DOMAIN r, NEW j \in DOMAIN r, r[i].id = r[j].id
                 PROVE  i = j
      BY DEF Distinct
    <3>1. at(i) = at(j)
      BY <2>4, <2>5
    <3> QED
      BY <2>3, <3>1
  <2>7. \A i \in DOMAIN r : r[i] # c /\ \E j \in DOMAIN ch : r[i] = ch[j]
    BY <2>1, <2>4, <2>5
  <2>8. ch[Len(ch)] # c => r # <<>> /\ r[Len(r)] = ch[Len(ch)]
    BY <2>1, <2>2, <2>3
  <2>9. ch[1] # c => r # <<>> /\ r[1] = ch[1]
    BY <2>1, <2>2, <2>3
  <2>10. ch[Len(ch)] = c => \A i \in 1..Len(ch) - 1 : r[i] = ch[i]
    <3> SUFFICES ASSUME ch[Len(ch)] = c, NEW i \in 1..Len(ch) - 1
                 PROVE  r[i] = ch[i]
      OBVIOUS
    <3>1. k = Len(ch)
      BY <2>1, <2>3, <2>5
    <3> QED
      BY <2>1, <2>3, <3>1
  <2> QED
    BY <2>1, <2>2, <2>3, <2>6, <2>7, <2>8, <2>9, <2>10 DEF r
<1> QED
  BY <1>1, <1>2, RemoveMeaning

\* A new controller at the end keeps the children distinct.
LEMMA AppendKeeps ==
  ASSUME NEW ch \in Seq(Controllers), Distinct(ch), NEW c \in Controllers,
         \A i \in DOMAIN ch : ch[i].id # c.id
  PROVE  /\ Append(ch, c) \in Seq(Controllers) /\ Distinct(Append(ch, c))
         /\ Len(Append(ch, c)) = Len(ch) + 1
         /\ Append(ch, c)[Len(ch) + 1] = c
         /\ \A i \in DOMAIN ch : Append(ch, c)[i] = ch[i] /\ ch[i] # c
         /\ DOMAIN Append(ch, c) = 1..Len(ch) + 1
         /\ Head(Append(ch, c)) = IF ch = <<>> THEN c ELSE Head(ch)
<1>1. /\ Append(ch, c) \in Seq(Controllers)
      /\ Len(Append(ch, c)) = Len(ch) + 1
      /\ Append(ch, c)[Len(ch) + 1] = c
      /\ \A i \in DOMAIN ch : Append(ch, c)[i] = ch[i]
      /\ DOMAIN Append(ch, c) = 1..Len(ch) + 1
      /\ DOMAIN ch = 1..Len(ch) /\ Len(ch) \in Nat
  OBVIOUS
<1>2. Distinct(Append(ch, c))
  BY <1>1 DEF Distinct
<1>3. Head(Append(ch, c)) = IF ch = <<>> THEN c ELSE Head(ch)
  BY <1>1
<1> QED
  BY <1>1, <1>2, <1>3

--------------------------------------------------------------------------------
(***************************************************************************)
(* New controllers                                                         *)
(***************************************************************************)

\* The values of a function on 1..n are n at most.
LEMMA ImageBound ==
  ASSUME NEW n \in Nat, NEW f, DOMAIN f = 1..n
  PROVE  /\ IsFiniteSet({f[i] : i \in 1..n})
         /\ Cardinality({f[i] : i \in 1..n}) \in Nat
         /\ Cardinality({f[i] : i \in 1..n}) <= n
<1> DEFINE T == {f[i] : i \in 1..n}
           g == [i \in 1..n |-> f[i]]
<1>1. g \in Surjection(1..n, T)
  BY DEF Surjection
<1>2. IsFiniteSet(1..n) /\ Cardinality(1..n) = n
  <2>1. IsFiniteSet(1..n) /\ Cardinality(1..n) = IF 1 > n THEN 0 ELSE n - 1 + 1
    BY FS_Interval
  <2> QED
    BY <2>1
<1> HIDE DEF T, g
<1>3. IsFiniteSet(T) /\ Cardinality(T) <= Cardinality(1..n)
  BY <1>1, <1>2, FS_Surjection
<1>4. Cardinality(T) \in Nat
  BY <1>3, FS_CardinalityType
<1> QED
  BY <1>2, <1>3, <1>4 DEF T

\* Two finite sets have together at most the sum of their elements.
LEMMA UnionBound ==
  ASSUME NEW S, IsFiniteSet(S), NEW T, IsFiniteSet(T),
         NEW m \in Nat, Cardinality(S) <= m, NEW n \in Nat, Cardinality(T) <= n
  PROVE  IsFiniteSet(S \cup T) /\ Cardinality(S \cup T) <= m + n
<1>1. /\ IsFiniteSet(S \cup T)
      /\ Cardinality(S \cup T) = Cardinality(S) + Cardinality(T) - Cardinality(S \cap T)
  BY FS_Union
<1>2. IsFiniteSet(S \cap T)
  <2>1. S \cap T \in SUBSET S
    OBVIOUS
  <2> QED
    BY <2>1, FS_Subset
<1>3. /\ Cardinality(S) \in Nat /\ Cardinality(T) \in Nat
      /\ Cardinality(S \cap T) \in Nat
  BY <1>2, FS_CardinalityType
<1> QED
  BY <1>1, <1>3

\* Within the bounds there is an identity that nothing refers to.
LEMMA IdentityIsLeft ==
  ASSUME TypeOK, Bounded
  PROVE  Ids \ InUse # {}
<1> DEFINE A == {children[i].id : i \in DOMAIN children}
           B == {currentController.id, pendingController.id}
           C == {anims[i].remove.id : i \in DOMAIN anims}
<1>1. /\ MaxChildren \in Nat /\ MaxAnims \in Nat
      /\ Len(children) \in Nat /\ Len(children) <= MaxChildren
      /\ Len(anims) \in Nat /\ Len(anims) <= MaxAnims
      /\ DOMAIN children = 1..Len(children) /\ DOMAIN anims = 1..Len(anims)
  BY TranslationAssumption DEF TypeOK, Bounded
<1>2. IsFiniteSet(A) /\ Cardinality(A) <= MaxChildren
  <2> DEFINE f == [i \in 1..Len(children) |-> children[i].id]
  <2>1. A = {f[i] : i \in 1..Len(children)} /\ DOMAIN f = 1..Len(children)
    BY <1>1
  <2> HIDE DEF f, A
  <2>2. /\ IsFiniteSet(A) /\ Cardinality(A) \in Nat
        /\ Cardinality(A) <= Len(children)
    BY <1>1, <2>1, ImageBound
  <2> QED
    BY <1>1, <2>2
<1>3. IsFiniteSet(B) /\ Cardinality(B) <= 2
  <2>1. /\ IsFiniteSet({currentController.id}) /\ Cardinality({currentController.id}) = 1
        /\ IsFiniteSet({pendingController.id}) /\ Cardinality({pendingController.id}) = 1
    BY FS_Singleton
  <2>2. B = {currentController.id} \cup {pendingController.id}
    OBVIOUS
  <2> HIDE DEF B
  <2> DEFINE S == {currentController.id}
             T == {pendingController.id}
  <2>3. /\ IsFiniteSet(S) /\ IsFiniteSet(T) /\ 1 \in Nat
        /\ Cardinality(S) <= 1 /\ Cardinality(T) <= 1
    BY <2>1
  <2>4. B = S \cup T
    BY <2>2
  <2> HIDE DEF S, T
  <2>5. IsFiniteSet(S \cup T) /\ Cardinality(S \cup T) <= 1 + 1
    BY <2>3, UnionBound
  <2> QED
    BY <2>4, <2>5
<1>4. IsFiniteSet(C) /\ Cardinality(C) <= MaxAnims
  <2> DEFINE f == [i \in 1..Len(anims) |-> anims[i].remove.id]
  <2>1. C = {f[i] : i \in 1..Len(anims)} /\ DOMAIN f = 1..Len(anims)
    BY <1>1
  <2> HIDE DEF f, C
  <2>2. /\ IsFiniteSet(C) /\ Cardinality(C) \in Nat
        /\ Cardinality(C) <= Len(anims)
    BY <1>1, <2>1, ImageBound
  <2> QED
    BY <1>1, <2>2
<1>5. InUse = (A \cup B) \cup C
  BY DEF InUse
<1> HIDE DEF A, B, C
<1>6. IsFiniteSet(A \cup B) /\ Cardinality(A \cup B) <= MaxChildren + 2
  BY <1>1, <1>2, <1>3, UnionBound
<1>7. IsFiniteSet(InUse) /\ Cardinality(InUse) <= MaxChildren + 2 + MaxAnims
  <2> DEFINE AB == A \cup B
             m  == MaxChildren + 2
  <2>1. /\ IsFiniteSet(AB) /\ IsFiniteSet(C) /\ m \in Nat /\ MaxAnims \in Nat
        /\ Cardinality(AB) <= m /\ Cardinality(C) <= MaxAnims
    BY <1>1, <1>4, <1>6
  <2> HIDE DEF AB, m
  <2>2. IsFiniteSet(AB \cup C) /\ Cardinality(AB \cup C) <= m + MaxAnims
    BY <2>1, UnionBound
  <2> QED
    BY <1>5, <2>2 DEF AB, m
<1>8. IsFiniteSet(Ids) /\ Cardinality(Ids) = MaxChildren + MaxAnims + 2 + 1
  <2> DEFINE N == MaxChildren + MaxAnims + 2
  <2>1. N \in Nat /\ 0 \in Int /\ N \in Int
    BY <1>1
  <2> HIDE DEF N
  <2>2. IsFiniteSet(0..N) /\ Cardinality(0..N) = IF 0 > N THEN 0 ELSE N - 0 + 1
    BY <2>1, FS_Interval
  <2> QED
    BY <2>1, <2>2 DEF Ids, N
<1>9. ASSUME Ids \ InUse = {} PROVE FALSE
  <2>1. Ids \in SUBSET InUse
    BY <1>9
  <2>2. Cardinality(Ids) <= Cardinality(InUse)
    BY <1>7, <2>1, FS_Subset
  <2>3. Cardinality(InUse) \in Nat
    BY <1>7, FS_CardinalityType
  <2> QED
    BY <1>1, <1>7, <1>8, <2>2, <2>3
<1> QED
  BY <1>9

\* A new controller is of the page asked for and not one that is referred to.
LEMMA NewIsNew ==
  ASSUME TypeOK, Bounded, NEW pg \in Pages
  PROVE  /\ New(pg) \in Controllers /\ New(pg).pg = pg
         /\ New(pg) # None
         /\ \A i \in DOMAIN children : children[i].id # New(pg).id
         /\ currentController # New(pg) /\ pendingController # New(pg)
<1> DEFINE n == CHOOSE n \in Ids \ InUse : TRUE
<1>1. n \in Ids \ InUse
  BY IdentityIsLeft
<1>2. New(pg) = [id |-> n, pg |-> pg]
  BY DEF New
<1> HIDE DEF n
<1>3. New(pg) \in Controllers /\ New(pg).pg = pg /\ New(pg).id = n
  BY <1>1, <1>2 DEF Controllers
<1>4. n # -1
  BY <1>1, TranslationAssumption DEF Ids
<1> QED
  BY <1>1, <1>3, <1>4 DEF None, InUse

\* What the container answers: a new controller of the page beside the recorded one,
\* or none at the end of the book.
LEMMA AnswerMeaning ==
  ASSUME TypeOK, Bounded, NEW dir \in {-1, 1}
  PROVE  \/ Answer(dir) = None /\ record - dir \notin Pages
         \/ /\ Answer(dir) \in Controllers /\ Answer(dir) # None
            /\ record - dir \in Pages /\ Answer(dir).pg = record - dir
            /\ \A i \in DOMAIN children : children[i].id # Answer(dir).id
            /\ currentController # Answer(dir) /\ pendingController # Answer(dir)
<1>1. CASE record - dir \in Pages
  BY <1>1, NewIsNew DEF Answer
<1>2. CASE record - dir \notin Pages
  BY <1>2 DEF Answer
<1> QED
  BY <1>1, <1>2
--------------------------------------------------------------------------------
(***************************************************************************)
(* The steps, whatever overlaps                                            *)
(***************************************************************************)

\* None is not a controller.
LEMMA NoneIsNoController == None \notin Controllers
  BY TranslationAssumption DEF None, Controllers, Ids

\* The type invariant in the terms of the lemmas about sequences
LEMMA TypesOfChildren ==
  ASSUME TypeOK
  PROVE  /\ children \in Seq(Controllers) /\ Distinct(children)
         /\ Len(children) \in Nat /\ DOMAIN children = 1..Len(children)
         /\ children # <<>> =>
              /\ Len(children) \in Nat \ {0}
              /\ Head(children) \in Controllers /\ Head(children) = children[1]
              /\ First(children) = children[1]
         /\ children = <<>> => First(children) = None /\ Len(children) = 0
         /\ First(children) \in Controllers \cup {None}
  BY DEF TypeOK, Distinct, First

\* A first state has one child, of the recorded page.
LEMMA ChildrenInit == Init => ChildrenInv
<1> SUFFICES ASSUME Init PROVE ChildrenInv
  OBVIOUS
<1>1. record \in Pages /\ [id |-> 0, pg |-> record] \in Controllers
  BY TranslationAssumption DEF Init, Controllers, Ids
<1>2. /\ children \in Seq(Controllers) /\ Len(children) = 1
      /\ DOMAIN children = 1..1 /\ Head(children) = [id |-> 0, pg |-> record]
      /\ Head(children) \in Controllers
  BY <1>1 DEF Init
<1>3. anims \in Seq(Animations) /\ Len(anims) = 0
  BY DEF Init
<1>4. TypeOK
  <2>1. /\ allowRequestNewController \in BOOLEAN /\ isPanning \in BOOLEAN
        /\ crashed \in BOOLEAN
    BY DEF Init
  <2>2. \A i, j \in DOMAIN children : children[i].id = children[j].id => i = j
    BY <1>2
  <2>3. onScreen \subseteq Controllers
    BY <1>2 DEF Init
  <2>4. {currentController, pendingController} \subseteq Controllers \cup {None}
    BY DEF Init
  <2>5. scrollDirection \in {-1, 0, 1} /\ overlap \in BOOLEAN
    BY DEF Init
  <2> QED
    BY <1>1, <1>2, <1>3, <2>1, <2>2, <2>3, <2>4, <2>5 DEF TypeOK, Animations
<1>5. Bounded
  BY <1>2, <1>3, TranslationAssumption DEF Bounded
<1>6. DirectionIsOfPan /\ PendingIsLast
  BY DEF Init, DirectionIsOfPan, PendingIsLast
<1>7. RecordIsKnown
  BY <1>2 DEF RecordIsKnown
<1> QED
  BY <1>4, <1>5, <1>6, <1>7 DEF ChildrenInv

\* A tap: the new child is the last one, and the animation will record the first.
LEMMA TapKeepsChildren ==
  ASSUME ChildrenInv, NEW dir \in {-1, 1}, Tap(dir)
  PROVE  ChildrenInv'
<1> DEFINE c == Answer(dir)
           a == [remove |-> First(children), pan |-> FALSE]
<1>1. TypeOK /\ Bounded /\ DirectionIsOfPan /\ PendingIsLast /\ ~isPanning
  BY DEF ChildrenInv, Tap, TouchArrives
<1>2. /\ c \in Controllers /\ c # None
      /\ \A i \in DOMAIN children : children[i].id # c.id
  BY <1>1, AnswerMeaning DEF Tap
<1>3. children' = Append(children, c) /\ anims' = Append(anims, a)
      /\ onScreen' = (onScreen \ {First(children)}) \cup {c}
  BY DEF Tap
<1>4. children' \in Seq(Controllers) /\ Distinct(children')
      /\ Len(children') = Len(children) + 1
  BY <1>1, <1>2, <1>3, TypesOfChildren, AppendKeeps
<1>5. a \in Animations
  BY <1>1, TypesOfChildren DEF Animations
<1>6. /\ anims \in Seq(Animations) /\ anims' \in Seq(Animations)
      /\ Len(anims') = Len(anims) + 1 /\ anims' # <<>> /\ Len(anims) \in Nat
  BY <1>1, <1>3, <1>5 DEF TypeOK, Animations
<1>7. UNCHANGED <<overlap, record, currentController, pendingController,
                  scrollDirection, allowRequestNewController, isPanning, crashed>>
  BY DEF Tap, pan
<1> HIDE DEF c, a
<1>8. TypeOK'
  BY <1>1, <1>2, <1>3, <1>4, <1>6, <1>7 DEF TypeOK, Distinct, Animations
<1>9. Bounded'
  BY <1>1, <1>4, <1>6, TypesOfChildren, TranslationAssumption
     DEF Bounded, Tap, TouchArrives
<1>10. DirectionIsOfPan' /\ PendingIsLast' /\ RecordIsKnown'
  BY <1>1, <1>6, <1>7 DEF DirectionIsOfPan, PendingIsLast, RecordIsKnown
<1> QED
  BY <1>8, <1>9, <1>10 DEF ChildrenInv

\* A pan begins: the record is that of the first child, as before.
LEMMA PanBeganKeepsChildren ==
  ASSUME ChildrenInv, PanBegan
  PROVE  ChildrenInv'
<1>1. TypeOK /\ Bounded /\ DirectionIsOfPan /\ RecordIsKnown /\ ~isPanning
  BY DEF ChildrenInv, PanBegan, TouchArrives
<1>2. /\ UNCHANGED <<overlap, record, children, onScreen, pendingController,
                     scrollDirection, anims, crashed>>
      /\ currentController' = First(children)
      /\ isPanning' = TRUE /\ allowRequestNewController' = TRUE
  BY DEF PanBegan
<1>3. isPanning' \in BOOLEAN /\ allowRequestNewController' \in BOOLEAN
  BY <1>2
<1>4. First(children) \in Controllers \cup {None}
  BY <1>1, TypesOfChildren
<1>5. TypeOK'
  BY <1>1, <1>2, <1>3, <1>4 DEF TypeOK
<1>6. Bounded' /\ DirectionIsOfPan' /\ PendingIsLast' /\ RecordIsKnown'
  BY <1>1, <1>2 DEF Bounded, DirectionIsOfPan, PendingIsLast, RecordIsKnown
<1> QED
  BY <1>5, <1>6 DEF ChildrenInv

\* The process ends: nothing else changes.
LEMMA CrashKeepsChildren ==
  ASSUME ChildrenInv, Crash
  PROVE  ChildrenInv'
<1>1. /\ UNCHANGED <<overlap, record, children, onScreen, currentController,
                     pendingController, scrollDirection, allowRequestNewController,
                     isPanning, anims>>
      /\ crashed' = TRUE
  BY DEF Crash, pan
<1>2. crashed' \in BOOLEAN
  BY <1>1
<1>3. TypeOK'
  BY <1>1, <1>2 DEF ChildrenInv, TypeOK
<1>4. Bounded' /\ DirectionIsOfPan' /\ PendingIsLast' /\ RecordIsKnown'
  BY <1>1 DEF ChildrenInv, Bounded, DirectionIsOfPan, PendingIsLast, RecordIsKnown
<1> QED
  BY <1>3, <1>4 DEF ChildrenInv
\* A move to a side, without the views
MoveAsks(dir) ==
  LET turned  == scrollDirection = -dir
      left    == IF turned THEN Remove(children, pendingController) ELSE children
      request == turned \/ allowRequestNewController
      c       == Answer(dir)
  IN  /\ ~crashed /\ isPanning
      /\ request => Len(left) < MaxChildren
      /\ IF \/ turned /\ pendingController = None
            \/ request /\ currentController = None
         THEN Crash
         ELSE /\ scrollDirection' = dir /\ allowRequestNewController' = FALSE
              /\ pendingController' = IF request THEN c ELSE pendingController
              /\ children' = IF request /\ c # None THEN Append(left, c) ELSE left
              /\ UNCHANGED <<overlap, record, currentController, isPanning, anims,
                             crashed>>

LEMMA MoveMeaning ==
  ASSUME NEW dir \in {-1, 1}, NEW still \in BOOLEAN, PanChanged(dir, still)
  PROVE  MoveAsks(dir)
<1> DEFINE turned  == scrollDirection = -dir
           left    == IF turned THEN Remove(children, pendingController) ELSE children
           request == turned \/ allowRequestNewController
           nil     == \/ turned /\ pendingController = None
                      \/ request /\ currentController = None
<1>1. dir # 0
  OBVIOUS
<1>2. CASE nil
  BY <1>1, <1>2 DEF PanChanged, MoveAsks
<1>3. CASE ~nil
  <2>1. /\ ~crashed /\ isPanning
        /\ request => Len(left) < MaxChildren
        /\ scrollDirection' = dir /\ allowRequestNewController' = FALSE
        /\ pendingController' = IF request THEN Answer(dir) ELSE pendingController
        /\ children' = IF request /\ Answer(dir) # None THEN Append(left, Answer(dir))
                       ELSE left
        /\ UNCHANGED <<overlap, record, currentController, isPanning, anims, crashed>>
    BY <1>1, <1>3 DEF PanChanged
  <2> QED
    BY <1>3, <2>1 DEF MoveAsks
<1> QED
  BY <1>2, <1>3

\* A move that is to no side changes nothing but the place of the views.
LEMMA SmallMoveMeaning ==
  ASSUME TypeOK, NEW still \in BOOLEAN, PanChanged(0, still)
  PROVE  /\ ~crashed /\ isPanning
         /\ UNCHANGED <<overlap, record, children, pan, anims, crashed>>
<1>1. allowRequestNewController \in BOOLEAN
  BY DEF TypeOK
<1> QED
  BY <1>1 DEF PanChanged, pan

\* What is on the screen after a move
LEMMA ScreenOfMove ==
  ASSUME NEW dir \in {-1, 0, 1}, NEW still \in BOOLEAN, PanChanged(dir, still)
  PROVE  \/ UNCHANGED onScreen
         \/ /\ onScreen' \subseteq Views(children')
            /\ onScreen' \subseteq onScreen \cup {currentController}
            /\ pendingController' = None => onScreen' = Views(children') \cap onScreen
<1> DEFINE turned  == dir # 0 /\ scrollDirection = -dir
           request == dir # 0 /\ (turned \/ allowRequestNewController)
           c       == IF request THEN Answer(dir) ELSE pendingController
           back    == IF still THEN {currentController} \ {c} ELSE {}
           nil     == \/ turned /\ pendingController = None
                      \/ request /\ currentController = None
<1>1. CASE nil
  BY <1>1 DEF PanChanged, Crash
<1>2. CASE ~nil
  <2>1. /\ pendingController' = c
        /\ onScreen' = Views(children')
                       \cap IF c = None THEN onScreen
                            ELSE (onScreen \ {currentController, c}) \cup back
    BY <1>2 DEF PanChanged
  <2>2. back \subseteq {currentController}
    OBVIOUS
  <2> HIDE DEF c, back
  <2> QED
    BY <2>1, <2>2
<1> QED
  BY <1>1, <1>2

\* The views of no child and of one
LEMMA ViewsOfFew ==
  ASSUME NEW ch \in Seq(Controllers)
  PROVE  /\ Views(ch) \subseteq Controllers
         /\ ch = <<>> => Views(ch) = {}
         /\ Len(ch) = 1 => Views(ch) = {ch[1]}
<1>1. /\ DOMAIN ch = 1..Len(ch) /\ Len(ch) \in Nat
      /\ \A i \in DOMAIN ch : ch[i] \in Controllers
  OBVIOUS
<1>2. ch = <<>> => DOMAIN ch = {}
  BY <1>1
<1>3. Len(ch) = 1 => DOMAIN ch = {1}
  BY <1>1
<1> QED
  BY <1>1, <1>2, <1>3 DEF Views

\* A pan moves: what was pending, the last child, goes when the direction changes,
\* and the controller asked for is the last child, or the container has none.
LEMMA PanChangedKeepsChildren ==
  ASSUME ChildrenInv, NEW dir \in {-1, 1}, NEW still \in BOOLEAN, PanChanged(dir, still)
  PROVE  ChildrenInv'
<1> DEFINE turned  == scrollDirection = -dir
           left    == IF turned THEN Remove(children, pendingController) ELSE children
           request == turned \/ allowRequestNewController
           c       == Answer(dir)
           nil     == \/ turned /\ pendingController = None
                      \/ request /\ currentController = None
<1>1. /\ TypeOK /\ Bounded /\ DirectionIsOfPan /\ PendingIsLast /\ RecordIsKnown
      /\ isPanning /\ ~crashed /\ (request => Len(left) < MaxChildren)
  BY MoveMeaning DEF ChildrenInv, MoveAsks
<1>2. CASE nil
  BY <1>2, MoveMeaning, CrashKeepsChildren DEF MoveAsks
<1>3. CASE ~nil
  <2>1. /\ scrollDirection' = dir /\ allowRequestNewController' = FALSE
        /\ pendingController' = IF request THEN c ELSE pendingController
        /\ children' = IF request /\ c # None THEN Append(left, c) ELSE left
        /\ UNCHANGED <<overlap, record, currentController, isPanning, anims, crashed>>
    BY <1>3, MoveMeaning DEF MoveAsks
  <2>2. \/ c = None
        \/ /\ c \in Controllers /\ c # None
           /\ \A i \in DOMAIN children : children[i].id # c.id
    BY <1>1, AnswerMeaning
  <2>3. /\ left \in Seq(Controllers) /\ Distinct(left)
        /\ Len(left) <= Len(children)
        /\ \A i \in DOMAIN left : \E j \in DOMAIN children : left[i] = children[j]
    <3>1. children \in Seq(Controllers) /\ Distinct(children) /\ Len(children) \in Nat
      BY <1>1, TypesOfChildren
    <3>2. CASE turned
      <4> DEFINE r == Remove(children, pendingController)
      <4>1. /\ r \in Seq(Controllers) /\ Distinct(r) /\ Len(r) <= Len(children)
            /\ \A i \in DOMAIN r : \E j \in DOMAIN children : r[i] = children[j]
        BY <3>1, RemoveKeeps
      <4>2. left = r
        BY <3>2
      <4> HIDE DEF left, r
      <4> QED
        BY <4>1, <4>2
    <3>3. CASE ~turned
      <4>1. left = children
        BY <3>3
      <4> HIDE DEF left
      <4> QED
        BY <3>1, <4>1
    <3> QED
      BY <3>2, <3>3
  <2>4. turned => ~allowRequestNewController
    BY <1>1 DEF DirectionIsOfPan
  <2>5. allowRequestNewController \in BOOLEAN /\ allowRequestNewController' \in BOOLEAN
        /\ scrollDirection' \in {-1, 0, 1}
    BY <1>1, <2>1 DEF TypeOK
  <2>6. DOMAIN left = 1..Len(left) /\ Len(left) \in Nat
    BY <2>3
  \* The first child stays, or it was pending and nothing else was left.
  <2>7. left # <<>> => children # <<>> /\ Head(left) = Head(children)
    <3>1. CASE ~turned
      BY <3>1
    <3>2. CASE turned
      <4> SUFFICES ASSUME left # <<>> PROVE children # <<>> /\ Head(left) = Head(children)
        OBVIOUS
      <4>1. Len(left) \in Nat \ {0} /\ Head(left) = left[1] /\ 1 \in DOMAIN left
        BY <2>3
      <4>2. children # <<>> /\ Len(children) \in Nat \ {0} /\ Head(children) = children[1]
            /\ 1 \in DOMAIN children
        BY <1>1, <2>3, <4>1, TypesOfChildren
      <4>3. CASE children[1] # pendingController
        BY <1>1, <3>2, <4>1, <4>2, <4>3, TypesOfChildren, RemoveKeeps
      <4>4. CASE children[1] = pendingController
        <5>1. Len(children) = 1
          BY <1>1, <2>4, <3>2, <4>2, <4>4 DEF PendingIsLast
        <5>2. Len(left) = 0
          BY <1>1, <3>2, <4>2, <4>4, <5>1, TypesOfChildren, RemoveKeeps
        <5> QED
          BY <4>1, <5>2
      <4> QED
        BY <4>3, <4>4
    <3> QED
      BY <3>1, <3>2
  <2>8. turned /\ children # <<>> /\ record # Head(children).pg /\ anims = <<>>
          => left = <<>>
    <3> SUFFICES ASSUME turned, children # <<>>, record # Head(children).pg, anims = <<>>
                 PROVE  left = <<>>
      OBVIOUS
    <3>1. pendingController = children[1] /\ Len(children) = 1
      BY <1>1, <2>4, TypesOfChildren DEF RecordIsKnown, PendingIsLast
    <3>2. Len(left) = 0
      BY <1>1, <3>1, TypesOfChildren, RemoveKeeps
    <3> QED
      BY <2>3, <3>2
  <2> HIDE DEF left, c, request
  <2>9. /\ children' \in Seq(Controllers) /\ Distinct(children')
        /\ Len(children') <= Len(left) + 1
        /\ request => \A i \in DOMAIN children' :
                        children'[i] = pendingController' => i = Len(children')
        /\ children' # <<>> =>
             Head(children') = IF left = <<>> THEN c ELSE Head(left)
        /\ left = <<>> /\ children' # <<>> => pendingController' = c
    <3>1. CASE request /\ c # None
      <4>1. c \in Controllers /\ children' = Append(left, c) /\ pendingController' = c
        BY <2>1, <2>2, <3>1
      <4>2. \A i \in DOMAIN left : left[i].id # c.id
        BY <2>2, <2>3, <3>1
      <4>3. /\ children' \in Seq(Controllers) /\ Distinct(children')
            /\ Len(children') = Len(left) + 1
            /\ children'[Len(left) + 1] = c
            /\ \A i \in DOMAIN left : children'[i] = left[i] /\ left[i] # c
            /\ DOMAIN children' = 1..Len(left) + 1
            /\ Head(children') = IF left = <<>> THEN c ELSE Head(left)
        BY <2>3, <4>1, <4>2, AppendKeeps
      <4>4. \A i \in DOMAIN children' : children'[i] = c => i = Len(children')
        BY <2>6, <4>3
      <4> QED
        BY <2>6, <4>1, <4>3, <4>4
    <3>2. CASE ~(request /\ c # None)
      <4>1. children' = left
        BY <2>1, <3>2
      <4>2. \A i \in DOMAIN left : left[i] \in Controllers
        BY <2>3
      <4>3. request => pendingController' = None
        BY <2>1, <3>2
      <4> QED
        BY <2>3, <2>6, <4>1, <4>2, <4>3, NoneIsNoController
    <3> QED
      BY <3>1, <3>2
  <2>10. TypeOK'
    <3>1. pendingController' \in Controllers \cup {None}
      BY <1>1, <2>1, <2>2 DEF TypeOK
    <3>2. onScreen' \subseteq Controllers
      BY <1>1, <2>9, ScreenOfMove, ViewsOfFew DEF TypeOK
    <3> QED
      BY <1>1, <2>1, <2>5, <2>9, <3>1, <3>2 DEF TypeOK, Distinct
  <2>11. Bounded'
    <3>1. Len(children') \in Nat /\ Len(left) \in Nat /\ MaxChildren \in Nat
      BY <2>6, <2>9, TranslationAssumption
    <3>2. CASE request
      BY <1>1, <2>1, <2>9, <3>1, <3>2 DEF Bounded
    <3>3. CASE ~request
      <4>1. children' = children
        BY <2>1, <3>3 DEF left, request
      <4> QED
        BY <1>1, <2>1, <4>1 DEF Bounded
    <3> QED
      BY <3>2, <3>3
  <2>12. DirectionIsOfPan'
    BY <1>1, <2>1 DEF DirectionIsOfPan
  <2>13. ~request => left = children
    BY DEF left, request
  <2>14. PendingIsLast'
    <3>1. CASE request
      BY <2>9, <3>1 DEF PendingIsLast
    <3>2. CASE ~request
      <4>1. children' = children /\ pendingController' = pendingController
            /\ ~allowRequestNewController
        BY <2>1, <2>13, <3>2 DEF request
      <4> QED
        BY <1>1, <4>1 DEF PendingIsLast
    <3> QED
      BY <3>1, <3>2
  <2>15. RecordIsKnown'
    <3> SUFFICES ASSUME anims' = <<>>, children' # <<>>, record' # Head(children').pg
                 PROVE  pendingController' = Head(children')
      BY <1>1, <2>1 DEF RecordIsKnown
    <3>1. CASE left = <<>>
      BY <2>9, <3>1
    <3>2. CASE left # <<>>
      <4>1. children # <<>> /\ Head(children') = Head(children)
        BY <2>7, <2>9, <3>2
      <4>2. record # Head(children).pg /\ anims = <<>>
        BY <2>1, <4>1
      <4>3. ~request
        BY <1>1, <2>8, <3>2, <4>1, <4>2 DEF RecordIsKnown, request
      <4> QED
        BY <1>1, <2>1, <4>1, <4>2, <4>3 DEF RecordIsKnown
    <3> QED
      BY <3>1, <3>2
  <2> QED
    BY <2>10, <2>11, <2>12, <2>14, <2>15 DEF ChildrenInv
<1> QED
  BY <1>2, <1>3

\* A move that is to no side moves views.
LEMMA SmallMoveKeepsChildren ==
  ASSUME ChildrenInv, NEW still \in BOOLEAN, PanChanged(0, still)
  PROVE  ChildrenInv'
<1>1. TypeOK /\ children \in Seq(Controllers)
  BY DEF ChildrenInv, TypeOK
<1>2. UNCHANGED <<overlap, record, children, pan, anims, crashed>>
  BY <1>1, SmallMoveMeaning
<1>3. onScreen' \subseteq Controllers
  BY <1>1, <1>2, ScreenOfMove, ViewsOfFew DEF TypeOK
<1>4. TypeOK'
  BY <1>1, <1>2, <1>3 DEF TypeOK, pan
<1> QED
  BY <1>2, <1>4 DEF ChildrenInv, pan, Bounded, DirectionIsOfPan, PendingIsLast,
                    RecordIsKnown

\* A pan ends: if it leaves no animation behind, it asked for no page.
LEMMA PanEndedKeepsChildren ==
  ASSUME ChildrenInv, NEW far \in BOOLEAN, PanEnded(far)
  PROVE  ChildrenInv'
<1> DEFINE c == currentController
           p == pendingController
           a == [remove |-> IF far THEN c ELSE p, pan |-> TRUE]
<1>1. /\ TypeOK /\ Bounded /\ RecordIsKnown /\ ~crashed
      /\ Len(anims) < MaxAnims
  BY DEF ChildrenInv, PanEnded
<1>2. /\ isPanning' = FALSE /\ allowRequestNewController' = TRUE
      /\ scrollDirection' = 0
      /\ UNCHANGED <<overlap, record, children, currentController, pendingController,
                     crashed>>
  BY DEF PanEnded
<1>3. \/ p = None /\ UNCHANGED <<onScreen, anims>>
      \/ /\ p # None
         /\ onScreen' = IF far THEN (onScreen \cup {p}) \ {c}
                        ELSE (onScreen \ {p}) \cup ({c} \ {None})
         /\ anims' = Append(anims, a)
  BY DEF PanEnded
<1>4. c \in Controllers \cup {None} /\ p \in Controllers \cup {None}
  BY <1>1 DEF TypeOK
<1>5. a \in Animations
  BY <1>4 DEF Animations
<1> HIDE DEF a
<1>6. anims \in Seq(Animations) /\ Len(anims) \in Nat
  BY <1>1 DEF TypeOK, Animations
<1>7. /\ anims' \in Seq(Animations)
      /\ \/ p = None /\ anims' = anims
         \/ p # None /\ Len(anims') = Len(anims) + 1 /\ anims' # <<>>
  BY <1>3, <1>5, <1>6
<1>8. onScreen' \subseteq Controllers
  BY <1>1, <1>3, <1>4 DEF TypeOK
<1>9. /\ isPanning' \in BOOLEAN /\ allowRequestNewController' \in BOOLEAN
      /\ scrollDirection' \in {-1, 0, 1}
  BY <1>2
<1>10. TypeOK'
  BY <1>1, <1>2, <1>7, <1>8, <1>9 DEF TypeOK, Animations
<1>11. Bounded'
  BY <1>1, <1>2, <1>6, <1>7, TranslationAssumption DEF Bounded
<1>12. DirectionIsOfPan' /\ PendingIsLast'
  BY <1>2 DEF DirectionIsOfPan, PendingIsLast
<1>13. RecordIsKnown'
  <2> SUFFICES ASSUME anims' = <<>>, children' # <<>>, record' # Head(children').pg
               PROVE  FALSE
    BY DEF RecordIsKnown
  <2>1. p = None /\ anims = <<>>
    BY <1>7
  <2>2. p = Head(children) /\ children # <<>>
    BY <1>1, <1>2, <2>1 DEF RecordIsKnown
  <2> QED
    BY <1>1, <2>1, <2>2, TypesOfChildren, NoneIsNoController
<1> QED
  BY <1>10, <1>11, <1>12, <1>13 DEF ChildrenInv
\* An animation ends: the page of the first child is recorded.
LEMMA AnimationEndsKeepsChildren ==
  ASSUME ChildrenInv, NEW complete \in BOOLEAN, AnimationEnds(complete)
  PROVE  ChildrenInv'
<1> DEFINE a   == Head(anims)
           ch  == IF complete THEN Remove(children, a.remove) ELSE children
           nil == a.pan /\ (currentController = None \/ (complete /\ a.remove = None))
<1>1. /\ TypeOK /\ Bounded /\ DirectionIsOfPan /\ PendingIsLast /\ ~crashed
      /\ anims # <<>>
  BY DEF ChildrenInv, AnimationEnds
<1>2. CASE nil
  BY <1>2, CrashKeepsChildren DEF AnimationEnds
<1>3. CASE ~nil
  <2>1. /\ children' = ch
        /\ onScreen' = onScreen \cap Views(ch)
        /\ record' = Record(ch)
        /\ anims' = Tail(anims)
        /\ UNCHANGED <<overlap, currentController, pendingController, scrollDirection,
                       allowRequestNewController, isPanning, crashed>>
    BY <1>3 DEF AnimationEnds, pan
  <2>2. children \in Seq(Controllers) /\ Distinct(children) /\ Len(children) \in Nat
    BY <1>1, TypesOfChildren
  <2>3. /\ ch \in Seq(Controllers) /\ Distinct(ch) /\ Len(ch) <= Len(children)
        /\ \A i \in DOMAIN ch : \E j \in DOMAIN children : ch[i] = children[j]
        /\ ch = children \/ \A i \in DOMAIN ch : ch[i] # a.remove
        /\ ch = children \/ children = <<>> \/ children[Len(children)] = a.remove
             \/ ch[Len(ch)] = children[Len(children)]
    <3>1. CASE complete
      <4> DEFINE r == Remove(children, a.remove)
      <4>1. /\ r \in Seq(Controllers) /\ Distinct(r) /\ Len(r) <= Len(children)
            /\ \A i \in DOMAIN r : r[i] # a.remove
                 /\ \E j \in DOMAIN children : r[i] = children[j]
            /\ children # <<>> /\ children[Len(children)] # a.remove
                 => r[Len(r)] = children[Len(children)]
        BY <2>2, RemoveKeeps
      <4>2. ch = r
        BY <3>1
      <4> HIDE DEF ch, r
      <4> QED
        BY <4>1, <4>2
    <3>2. CASE ~complete
      <4>1. ch = children
        BY <3>2
      <4> HIDE DEF ch
      <4> QED
        BY <2>2, <4>1
    <3> QED
      BY <3>1, <3>2
  <2> HIDE DEF ch
  <2>4. anims \in Seq(Animations) /\ Len(anims) \in Nat \ {0}
    BY <1>1 DEF TypeOK, Animations
  <2>5. anims' \in Seq(Animations) /\ Len(anims') = Len(anims) - 1
    BY <2>1, <2>4
  <2>6. ch # <<>> => Head(ch) = ch[1] /\ ch[1] \in Controllers /\ Len(ch) \in Nat \ {0}
    BY <2>3
  <2>7. record' \in Pages /\ (ch # <<>> => record' = Head(ch).pg)
    BY <1>1, <2>1, <2>6 DEF Record, TypeOK, Controllers
  <2>8. onScreen' \subseteq Controllers
    BY <1>1, <2>1 DEF TypeOK
  <2>9. TypeOK'
    BY <1>1, <2>1, <2>3, <2>5, <2>7, <2>8 DEF TypeOK, Distinct, Animations
  <2>10. Bounded'
    <3>1. Len(children) <= MaxChildren /\ Len(anims) <= MaxAnims
      BY <1>1 DEF Bounded
    <3>2. MaxChildren \in Nat /\ MaxAnims \in Nat /\ Len(ch) \in Nat
      BY <2>3, TranslationAssumption
    <3> QED
      BY <2>1, <2>2, <2>3, <2>4, <2>5, <3>1, <3>2 DEF Bounded
  <2>11. DirectionIsOfPan'
    BY <1>1, <2>1 DEF DirectionIsOfPan
  <2>12. PendingIsLast'
    <3> SUFFICES ASSUME isPanning, ~allowRequestNewController,
                        NEW i \in DOMAIN ch, ch[i] = pendingController
                 PROVE  i = Len(ch)
      BY <2>1 DEF PendingIsLast
    <3>1. \A k \in DOMAIN children : children[k] = pendingController => k = Len(children)
      BY <1>1 DEF PendingIsLast
    <3>2. CASE ch = children
      BY <3>1, <3>2
    <3>3. CASE ch # children
      <4>1. PICK k \in DOMAIN children : ch[i] = children[k]
        BY <2>3
      <4>2. /\ k = Len(children) /\ children # <<>>
            /\ children[Len(children)] = pendingController
        BY <2>2, <3>1, <4>1
      <4>3. pendingController # a.remove
        BY <2>3, <3>3
      <4>4. ch[Len(ch)] = pendingController
        BY <2>3, <3>3, <4>2, <4>3
      <4>5. Len(ch) \in DOMAIN ch
        BY <2>3
      <4> QED
        BY <4>4, <4>5, <2>3 DEF Distinct
    <3> QED
      BY <3>2, <3>3
  <2>13. RecordIsKnown'
    BY <2>1, <2>7 DEF RecordIsKnown
  <2> QED
    BY <2>9, <2>10, <2>11, <2>12, <2>13 DEF ChildrenInv
<1> QED
  BY <1>2, <1>3

\* The reader is opened again with one controller, of the recorded page.
LEMMA RestartKeepsChildren ==
  ASSUME ChildrenInv, Restart
  PROVE  ChildrenInv'
<1>1. record \in Pages /\ [id |-> 0, pg |-> record] \in Controllers
  BY TranslationAssumption DEF ChildrenInv, TypeOK, Controllers, Ids
<1>2. /\ children' = <<[id |-> 0, pg |-> record]>> /\ onScreen' = {Head(children')}
      /\ currentController' = None /\ pendingController' = None
      /\ scrollDirection' = 0
      /\ allowRequestNewController' = TRUE /\ isPanning' = FALSE
      /\ anims' = <<>> /\ crashed' = FALSE
      /\ overlap' = overlap /\ record' = record
  BY DEF Restart
<1>3. /\ children' \in Seq(Controllers) /\ Len(children') = 1
      /\ DOMAIN children' = 1..1 /\ Head(children') = [id |-> 0, pg |-> record]
      /\ Head(children') \in Controllers /\ Head(children').pg = record
  BY <1>1, <1>2
<1>4. anims' \in Seq(Animations) /\ Len(anims') = 0
  BY <1>2
<1>5. TypeOK'
  <2>1. /\ allowRequestNewController' \in BOOLEAN /\ isPanning' \in BOOLEAN
        /\ crashed' \in BOOLEAN
    BY <1>2
  <2>2. \A i, j \in DOMAIN children' : children'[i].id = children'[j].id => i = j
    BY <1>3
  <2>3. onScreen' \subseteq Controllers
    BY <1>2, <1>3
  <2>4. {currentController', pendingController'} \subseteq Controllers \cup {None}
    BY <1>2
  <2>5. scrollDirection' \in {-1, 0, 1} /\ overlap' \in BOOLEAN
    BY <1>2 DEF ChildrenInv, TypeOK
  <2> QED
    BY <1>1, <1>2, <1>3, <1>4, <2>1, <2>2, <2>3, <2>4, <2>5 DEF TypeOK, Animations
<1>6. Bounded'
  BY <1>3, <1>4, TranslationAssumption DEF Bounded
<1>7. DirectionIsOfPan' /\ PendingIsLast' /\ RecordIsKnown'
  BY <1>2, <1>3 DEF DirectionIsOfPan, PendingIsLast, RecordIsKnown
<1> QED
  BY <1>5, <1>6, <1>7 DEF ChildrenInv

\* Every step keeps what holds whatever overlaps.
LEMMA ChildrenStep == ChildrenInv /\ [Next]_vars => ChildrenInv'
<1> SUFFICES ASSUME ChildrenInv, [Next]_vars PROVE ChildrenInv'
  OBVIOUS
<1>1. ASSUME NEW dir \in {-1, 1}, Tap(dir) PROVE ChildrenInv'
  BY <1>1, TapKeepsChildren
<1>2. ASSUME NEW dir \in {-1, 0, 1}, NEW still \in BOOLEAN, PanChanged(dir, still)
      PROVE  ChildrenInv'
  BY <1>2, PanChangedKeepsChildren, SmallMoveKeepsChildren
<1>3. CASE PanBegan
  BY <1>3, PanBeganKeepsChildren
<1>4. ASSUME NEW far \in BOOLEAN, PanEnded(far) PROVE ChildrenInv'
  BY <1>4, PanEndedKeepsChildren
<1>5. ASSUME NEW complete \in BOOLEAN, AnimationEnds(complete) PROVE ChildrenInv'
  BY <1>5, AnimationEndsKeepsChildren
<1>6. CASE Restart
  BY <1>6, RestartKeepsChildren
<1>7. CASE UNCHANGED vars
  BY <1>7 DEF vars, pan, ChildrenInv, TypeOK, Bounded, DirectionIsOfPan,
              PendingIsLast, RecordIsKnown
<1> QED
  BY <1>1, <1>2, <1>3, <1>4, <1>5, <1>6, <1>7 DEF Next

\* The children are distinct controllers, the bounds leave an identity for a new one,
\* and the record is that of the first child but for what a pan or an animation has
\* still to do: from the assumption on the constants alone.
THEOREM ChildrenInvariance == Spec => []ChildrenInv
<1>1. Init => ChildrenInv
  BY ChildrenInit
<1>2. ChildrenInv /\ [Next]_vars => ChildrenInv'
  BY ChildrenStep
<1> QED
  BY <1>1, <1>2, PTL DEF Spec

\* Type correctness: no controller is a child twice.
THEOREM TranslationTypes == Spec => []TypeOK
<1>1. ChildrenInv => TypeOK
  BY DEF ChildrenInv
<1> QED
  BY <1>1, ChildrenInvariance, PTL

\* Whatever overlaps and whatever is cut short, the record at rest is the page of the
\* first child.
THEOREM RecordFollowsFirstChild == Spec => []RecordIsOfFirstChild
<1>1. ChildrenInv => RecordIsOfFirstChild
  BY DEF ChildrenInv, RecordIsKnown, RecordIsOfFirstChild, AtRest
<1> QED
  BY <1>1, ChildrenInvariance, PTL
--------------------------------------------------------------------------------
(***************************************************************************)
(* The steps where gestures wait for animations                            *)
(***************************************************************************)

\* What such a step may do to the children and to the process
BlankStep ==
  children # <<>> /\ children' = <<>> =>
    \/ pendingController = currentController
    \/ pendingController \notin {children[i] : i \in DOMAIN children}

CrashStep == crashed' /\ ~crashed => record \in {0, LastPage} \/ children = <<>>

\* A sequence of one element
LEMMA OfOne ==
  ASSUME NEW S, NEW q \in Seq(S), Len(q) = 1
  PROVE  /\ q # <<>> /\ Head(q) = q[1] /\ q[1] \in S
         /\ DOMAIN q = {1} /\ Tail(q) = <<>>
<1>1. q # <<>> /\ DOMAIN q = 1..1 /\ Head(q) = q[1]
  OBVIOUS
<1>2. Tail(q) \in Seq(S) /\ Len(Tail(q)) = 0
  BY <1>1
<1>3. DOMAIN q = {1}
  BY <1>1
<1>4. q[1] \in S
  BY <1>3
<1>5. Tail(q) = <<>>
  <2> DEFINE t == Tail(q)
  <2>1. t \in Seq(S) /\ Len(t) = 0
    BY <1>2
  <2> HIDE DEF t
  <2>2. t = <<>>
    BY <2>1
  <2> QED
    BY <2>2 DEF t
<1> QED
  BY <1>1, <1>3, <1>4, <1>5

\* Of two children the other one is left, of one none.
LEMMA RemoveOfFew ==
  ASSUME NEW ch \in Seq(Controllers), Distinct(ch), NEW c
  PROVE  /\ Len(ch) = 2 /\ c = ch[1] =>
              Len(Remove(ch, c)) = 1 /\ Remove(ch, c)[1] = ch[2]
         /\ Len(ch) = 2 /\ c = ch[2] =>
              Len(Remove(ch, c)) = 1 /\ Remove(ch, c)[1] = ch[1]
         /\ Len(ch) = 1 /\ c = ch[1] => Remove(ch, c) = <<>>
         /\ Len(ch) = 1 /\ c # ch[1] => Remove(ch, c) = ch
<1> DEFINE r == Remove(ch, c)
<1>1. /\ r \in Seq(Controllers)
      /\ \/ r = ch /\ \A i \in DOMAIN ch : ch[i] # c
         \/ \E k \in DOMAIN ch :
              /\ ch[k] = c
              /\ Len(r) = Len(ch) - 1
              /\ \A i \in 1..Len(ch) - 1 : r[i] = IF i < k THEN ch[i] ELSE ch[i + 1]
  BY RemoveMeaning
<1> HIDE DEF r
<1>2. CASE r = ch /\ \A i \in DOMAIN ch : ch[i] # c
  BY <1>2 DEF r
<1>3. CASE \E k \in DOMAIN ch :
              /\ ch[k] = c
              /\ Len(r) = Len(ch) - 1
              /\ \A i \in 1..Len(ch) - 1 : r[i] = IF i < k THEN ch[i] ELSE ch[i + 1]
  <2>1. PICK k \in DOMAIN ch :
              /\ ch[k] = c
              /\ Len(r) = Len(ch) - 1
              /\ \A i \in 1..Len(ch) - 1 : r[i] = IF i < k THEN ch[i] ELSE ch[i + 1]
    BY <1>3
  <2>2. \A i \in DOMAIN ch : ch[i] = c => i = k
    BY <2>1 DEF Distinct
  <2>3. DOMAIN ch = 1..Len(ch) /\ Len(ch) \in Nat
    OBVIOUS
  <2>4. Len(ch) = 2 /\ c = ch[1] => Len(r) = 1 /\ r[1] = ch[2]
    BY <2>1, <2>2, <2>3
  <2>5. Len(ch) = 2 /\ c = ch[2] => Len(r) = 1 /\ r[1] = ch[1]
    BY <2>1, <2>2, <2>3
  <2>6. Len(ch) = 1 /\ c = ch[1] => r = <<>>
    BY <1>1, <2>1, <2>3
  <2>7. Len(ch) = 1 => c = ch[1]
    BY <2>1, <2>3
  <2> QED
    BY <2>4, <2>5, <2>6, <2>7 DEF r
<1> QED
  BY <1>1, <1>2, <1>3

\* The steps of the turn as PageTurn sees them
LEMMA TurnAsks ==
  ASSUME record' = record, Len(children') = 2,
         children'[2].pg \in {record - 1, record + 1} \cap Pages
  PROVE  [Turn!Next]_Turn!vars
  BY DEF Turn!Next, Turn!Ask, Turn!Beside, Turn!Pages, Pages

LEMMA TurnArrives ==
  ASSUME Len(children) = 2, children[2].pg # NoPage, Len(children') # 2,
         record' = children[2].pg
  PROVE  [Turn!Next]_Turn!vars
  BY DEF Turn!Next, Turn!Arrive

LEMMA TurnReturns ==
  ASSUME Len(children) = 2, children[2].pg # NoPage, Len(children') # 2,
         record' = record
  PROVE  [Turn!Next]_Turn!vars
  BY DEF Turn!Next, Turn!Return

LEMMA TurnWaits ==
  ASSUME record' = record, children' = children
  PROVE  [Turn!Next]_Turn!vars
  BY DEF Turn!vars

LEMMA NoTurn ==
  ASSUME record' = record, Len(children) # 2, Len(children') # 2
  PROVE  [Turn!Next]_Turn!vars
  BY DEF Turn!vars

\* A page of a controller is a page.
LEMMA PagesAreAsked ==
  ASSUME NEW c \in Controllers
  PROVE  c.pg \in Pages /\ c.pg # NoPage
  BY TranslationAssumption DEF Controllers, Pages

\* A tap at rest: the animation of the first child and the new one begins.
LEMMA TapIsCalm ==
  ASSUME ChildrenInv, CalmInv, ~overlap, NEW dir \in {-1, 1}, Tap(dir)
  PROVE  CalmInv' /\ [Turn!Next]_Turn!vars /\ BlankStep /\ CrashStep
<1> DEFINE c == Answer(dir)
           f == children[1]
           a == [remove |-> f, pan |-> FALSE]
<1>1. /\ TypeOK /\ Bounded /\ ~crashed /\ ~isPanning /\ anims = <<>>
      /\ children # <<>>
  BY DEF ChildrenInv, Tap, TouchArrives
<1>2. /\ children \in Seq(Controllers) /\ Distinct(children)
      /\ First(children) = f /\ f \in Controllers
  BY <1>1, TypesOfChildren
<1>3. Len(children) = 1 /\ onScreen \subseteq {f} /\ record = f.pg
  <2>1. ~Animated
    BY <1>1 DEF Animated
  <2> QED
    BY <1>1, <2>1 DEF CalmInv, Resting, PanBegun, PanAsked, OneOrNone
<1>4. /\ c \in Controllers /\ c # None /\ c.pg = record - dir /\ record - dir \in Pages
      /\ \A i \in DOMAIN children : children[i].id # c.id
  BY <1>1, AnswerMeaning DEF Tap
<1>5. /\ children' = Append(children, c) /\ anims' = Append(anims, a)
      /\ onScreen' = (onScreen \ {f}) \cup {c}
      /\ overlap' = overlap /\ record' = record /\ crashed' = crashed
      /\ isPanning' = isPanning
  BY <1>2 DEF Tap, pan
<1>6. Len(children') = 2 /\ children'[1] = f /\ children'[2] = c
  <2>1. children' = Append(children, c)
    BY <1>5
  <2> HIDE DEF c
  <2>2. /\ Len(children') = Len(children) + 1
        /\ children'[Len(children) + 1] = c
        /\ \A i \in DOMAIN children : children'[i] = children[i]
    BY <1>2, <1>4, <2>1, AppendKeeps
  <2>3. 1 \in DOMAIN children
    BY <1>2, <1>3
  <2> QED
    BY <1>3, <2>2, <2>3
<1>7. Len(anims') = 1 /\ anims'[1] = a
  BY <1>1, <1>5
<1>8. onScreen' = {c}
  BY <1>3, <1>5
<1>9. a.remove = f /\ ~a.pan /\ f # None
  BY <1>2, NoneIsNoController
<1>10. record \in Int /\ c.pg \in {record - 1, record + 1}
  BY <1>1, <1>4 DEF TypeOK, Pages
<1> HIDE DEF c, f, a
<1>11. Animated'
  BY <1>1, <1>3, <1>5, <1>6, <1>7, <1>8, <1>9, <1>10 DEF Animated, TwoOfTurn
<1>12. CalmInv'
  BY <1>1, <1>5, <1>11 DEF CalmInv
<1>13. [Turn!Next]_Turn!vars
  BY <1>4, <1>5, <1>6, <1>10, TurnAsks
<1>14. BlankStep /\ CrashStep
  BY <1>1, <1>5, <1>6 DEF BlankStep, CrashStep
<1> QED
  BY <1>12, <1>13, <1>14

\* A pan begins at rest, with the first child for the current controller.
LEMMA PanBeganIsCalm ==
  ASSUME ChildrenInv, CalmInv, ~overlap, PanBegan
  PROVE  CalmInv' /\ [Turn!Next]_Turn!vars /\ BlankStep /\ CrashStep
<1>1. ~crashed /\ ~isPanning /\ anims = <<>>
  BY DEF PanBegan, TouchArrives
<1>2. OneOrNone /\ (children # <<>> /\ onScreen = {} => AtAnEnd)
  <2>1. ~Animated
    BY <1>1 DEF Animated
  <2> QED
    BY <1>1, <2>1 DEF CalmInv, Resting, PanBegun, PanAsked
<1>3. /\ UNCHANGED <<overlap, record, children, onScreen, anims, crashed>>
      /\ currentController' = First(children)
      /\ isPanning' = TRUE /\ allowRequestNewController' = TRUE
  BY DEF PanBegan
<1>4. PanBegun'
  BY <1>1, <1>2, <1>3 DEF PanBegun, OneOrNone, AtAnEnd
<1>5. CalmInv'
  BY <1>1, <1>3, <1>4 DEF CalmInv
<1>6. [Turn!Next]_Turn!vars
  <2>1. record' = record /\ children' = children
    BY <1>3
  <2> QED
    BY <2>1, TurnWaits
<1>7. BlankStep /\ CrashStep
  BY <1>1, <1>3 DEF BlankStep, CrashStep
<1> QED
  BY <1>5, <1>6, <1>7
\* A pan that has asked for no page yet moves: it asks, or the process ends where no
\* view is left.
LEMMA FirstMoveIsCalm ==
  ASSUME ChildrenInv, CalmInv, ~overlap, NEW dir \in {-1, 1}, NEW still \in BOOLEAN,
         PanChanged(dir, still),
         ~crashed, PanBegun
  PROVE  CalmInv' /\ [Turn!Next]_Turn!vars /\ BlankStep /\ CrashStep
<1> DEFINE c == Answer(dir)
           f == children[1]
<1>1. /\ TypeOK /\ Bounded /\ isPanning /\ allowRequestNewController
      /\ scrollDirection = 0 /\ anims = <<>> /\ OneOrNone
      /\ currentController = First(children)
  BY DEF ChildrenInv, DirectionIsOfPan, PanBegun
<1>2. scrollDirection # -dir
  BY <1>1
<1>3. CASE currentController = None
  <2>1. /\ crashed' = TRUE
        /\ UNCHANGED <<overlap, record, children>>
    BY <1>1, <1>2, <1>3, MoveMeaning DEF MoveAsks, Crash
  <2>2. children = <<>> /\ Len(children) = 0
    BY <1>1, <1>3, TypesOfChildren, NoneIsNoController
  <2>3. CalmInv'
    BY <2>1, <2>2 DEF CalmInv
  <2>4. [Turn!Next]_Turn!vars
    <3>1. record' = record /\ children' = children
      BY <2>1
    <3> QED
      BY <3>1, TurnWaits
  <2>5. BlankStep /\ CrashStep
    BY <2>2 DEF BlankStep, CrashStep
  <2> QED
    BY <2>3, <2>4, <2>5
<1>4. CASE currentController # None
  <2>1. /\ scrollDirection' = dir /\ allowRequestNewController' = FALSE
        /\ pendingController' = c
        /\ children' = IF c # None THEN Append(children, c) ELSE children
        /\ UNCHANGED <<overlap, record, currentController, isPanning, anims, crashed>>
    BY <1>1, <1>2, <1>4, MoveMeaning DEF MoveAsks
  <2>2. /\ children \in Seq(Controllers) /\ Distinct(children) /\ children # <<>>
        /\ currentController = f /\ f \in Controllers
        /\ Len(children) = 1 /\ onScreen \subseteq {f} /\ record = f.pg
    BY <1>1, <1>4, TypesOfChildren DEF OneOrNone
  <2>3. record \in Int /\ f # None
    BY <1>1, <1>4, <2>2 DEF TypeOK, Pages
  <2>4. \/ c = None /\ record - dir \notin Pages
        \/ /\ c \in Controllers /\ c # None
           /\ record - dir \in Pages /\ c.pg = record - dir
           /\ \A i \in DOMAIN children : children[i].id # c.id
    BY <1>1, AnswerMeaning
  <2>8. onScreen' \subseteq {f}
    BY <2>2, ScreenOfMove
  <2> HIDE DEF c
  <2>5. BlankStep /\ CrashStep
    <3>1. children' # <<>>
      BY <2>1, <2>2
    <3> QED
      BY <2>1, <3>1 DEF BlankStep, CrashStep
  <2>6. CASE c = None
    <3>1. children' = children /\ record' = record
      BY <2>1, <2>6
    <3>2. PanAsked'
      BY <1>1, <2>1, <2>2, <2>3, <2>4, <2>6, <2>8, <3>1 DEF PanAsked
    <3>3. CalmInv'
      BY <2>1, <3>2 DEF CalmInv
    <3>4. [Turn!Next]_Turn!vars
      BY <3>1, TurnWaits
    <3> QED
      BY <2>5, <3>3, <3>4
  <2>7. CASE c # None
    <3>1. children' = Append(children, c) /\ record' = record
      BY <2>1, <2>7
    <3>9. c \in Controllers /\ \A i \in DOMAIN children : children[i].id # c.id
      BY <2>4, <2>7
    <3>2. /\ Len(children') = Len(children) + 1
          /\ children'[Len(children) + 1] = c
          /\ \A i \in DOMAIN children : children'[i] = children[i]
      BY <2>2, <3>1, <3>9, AppendKeeps
    <3>3. 1 \in DOMAIN children
      BY <2>2
    <3>4. Len(children') = 2 /\ children'[1] = f /\ children'[2] = c
      BY <2>2, <3>2, <3>3
    <3>5. c.pg \in {record - 1, record + 1} /\ c.pg \in Pages
      BY <2>3, <2>4, <2>7
    <3> HIDE DEF f
    <3>6. PanAsked'
      BY <1>1, <2>1, <2>2, <2>3, <2>7, <2>8, <3>4, <3>5 DEF PanAsked, TwoOfTurn
    <3>7. CalmInv'
      BY <2>1, <3>6 DEF CalmInv
    <3>8. [Turn!Next]_Turn!vars
      BY <3>1, <3>4, <3>5, TurnAsks
    <3> QED
      BY <2>5, <3>7, <3>8
  <2> QED
    BY <2>6, <2>7
<1> QED
  BY <1>3, <1>4

\* A pan that has asked moves on in its direction: nothing changes.
LEMMA SameWayIsCalm ==
  ASSUME ChildrenInv, CalmInv, ~overlap, NEW dir \in {-1, 1}, NEW still \in BOOLEAN,
         PanChanged(dir, still),
         ~crashed, PanAsked, scrollDirection = dir
  PROVE  CalmInv' /\ [Turn!Next]_Turn!vars /\ BlankStep /\ CrashStep
<1>1. isPanning /\ ~allowRequestNewController /\ scrollDirection # -dir
  BY DEF PanAsked
<1>2. /\ scrollDirection' = scrollDirection /\ allowRequestNewController' = FALSE
      /\ pendingController' = pendingController
      /\ children' = children
      /\ UNCHANGED <<overlap, record, currentController, isPanning, anims, crashed>>
  BY <1>1, MoveMeaning DEF MoveAsks, PanAsked
<1>7. onScreen' \subseteq {currentController}
  BY ScreenOfMove DEF PanAsked
<1>3. PanAsked'
  BY <1>1, <1>2, <1>7 DEF PanAsked, TwoOfTurn
<1>4. CalmInv'
  BY <1>2, <1>3 DEF CalmInv
<1>5. [Turn!Next]_Turn!vars
  <2>1. record' = record /\ children' = children
    BY <1>2
  <2> QED
    BY <2>1, TurnWaits
<1>6. BlankStep /\ CrashStep
  BY <1>2 DEF BlankStep, CrashStep
<1> QED
  BY <1>4, <1>5, <1>6

\* A pan is turned round: the second child goes and the page on the other side is
\* asked for, or the process ends at an end of the book.
LEMMA TurnedRoundIsCalm ==
  ASSUME ChildrenInv, CalmInv, ~overlap, NEW dir \in {-1, 1}, NEW still \in BOOLEAN,
         PanChanged(dir, still),
         ~crashed, PanAsked, scrollDirection = -dir
  PROVE  CalmInv' /\ [Turn!Next]_Turn!vars /\ BlankStep /\ CrashStep
<1> DEFINE c    == Answer(dir)
           cur  == currentController
           p    == pendingController
           left == Remove(children, p)
<1>1. /\ TypeOK /\ Bounded /\ isPanning /\ ~allowRequestNewController
      /\ anims = <<>> /\ cur # None /\ onScreen \subseteq {cur} /\ record = cur.pg
  BY DEF ChildrenInv, PanAsked
<1>5. onScreen' \subseteq {cur}
  BY <1>1, ScreenOfMove
<1>2. /\ children \in Seq(Controllers) /\ Distinct(children)
      /\ record \in Pages /\ record \in Int /\ LastPage \in Nat
      /\ cur \in Controllers
  BY <1>1, TypesOfChildren, TranslationAssumption DEF TypeOK, Pages
<1>3. CASE p = None
  <2>1. Len(children) = 1 /\ record - scrollDirection \notin Pages
    BY <1>3 DEF PanAsked
  <2>2. crashed' = TRUE /\ record' = record /\ children' = children
    BY <1>3, MoveMeaning DEF MoveAsks, Crash
  <2>3. CalmInv'
    <3>1. Len(children') = 1
      BY <2>1, <2>2
    <3>2. 1 <= 1
      OBVIOUS
    <3> QED
      BY <2>2, <3>1, <3>2 DEF CalmInv
  <2>4. record \in {0, LastPage}
    BY <1>2, <2>1 DEF Pages
  <2>5. BlankStep /\ CrashStep
    BY <2>2, <2>4 DEF BlankStep, CrashStep
  <2>6. [Turn!Next]_Turn!vars
    BY <2>2, TurnWaits
  <2> QED
    BY <2>3, <2>5, <2>6
<1>4. CASE p # None
  <2>1. /\ Len(children) = 2 /\ children[1] = cur /\ children[2] = p
    BY <1>4 DEF PanAsked, TwoOfTurn
  <2>2. /\ left \in Seq(Controllers) /\ Distinct(left)
        /\ Len(left) = 1 /\ left[1] = cur
        /\ \A i \in DOMAIN left : \E j \in DOMAIN children : left[i] = children[j]
    BY <1>2, <2>1, RemoveKeeps, RemoveOfFew
  <2>3. /\ scrollDirection' = dir /\ allowRequestNewController' = FALSE
        /\ pendingController' = c
        /\ children' = IF c # None THEN Append(left, c) ELSE left
        /\ UNCHANGED <<overlap, record, currentController, isPanning, anims, crashed>>
    BY <1>1, <1>4, MoveMeaning DEF MoveAsks
  <2>4. \/ c = None /\ record - dir \notin Pages
        \/ /\ c \in Controllers /\ c # None
           /\ record - dir \in Pages /\ c.pg = record - dir
           /\ \A i \in DOMAIN children : children[i].id # c.id
    BY <1>1, AnswerMeaning
  <2>5. children[2].pg # NoPage
    <3>1. 2 \in DOMAIN children
      BY <1>2, <2>1
    <3>2. children[2] \in Controllers
      BY <1>2, <3>1
    <3> QED
      BY <3>2, PagesAreAsked
  <2> HIDE DEF c, left
  <2>6. CASE c = None
    <3>1. children' = left /\ record' = record
      BY <2>3, <2>6
    <3>2. PanAsked'
      BY <1>1, <1>5, <2>2, <2>3, <2>4, <2>6, <3>1 DEF PanAsked
    <3>3. CalmInv'
      BY <2>3, <3>2 DEF CalmInv
    <3>4. [Turn!Next]_Turn!vars
      BY <2>1, <2>2, <2>5, <3>1, TurnReturns
    <3>5. children' # <<>> /\ crashed' = crashed
      <4>1. left # <<>>
        BY <2>2, OfOne
      <4> QED
        BY <2>3, <3>1, <4>1
    <3>6. BlankStep /\ CrashStep
      BY <3>5 DEF BlankStep, CrashStep
    <3> QED
      BY <3>3, <3>4, <3>6
  <2>7. CASE c # None
    <3>1. children' = Append(left, c) /\ record' = record /\ c \in Controllers
      BY <2>3, <2>4, <2>7
    <3>2. \A i \in DOMAIN left : left[i].id # c.id
      BY <2>2, <2>4, <2>7
    <3>3. /\ Len(children') = Len(left) + 1
          /\ children'[Len(left) + 1] = c
          /\ \A i \in DOMAIN left : children'[i] = left[i]
      BY <2>2, <3>1, <3>2, AppendKeeps
    <3>4. 1 \in DOMAIN left
      BY <2>2
    <3>5. Len(children') = 2 /\ children'[1] = cur /\ children'[2] = c
      BY <2>2, <3>3, <3>4
    <3>6. c.pg \in {record - 1, record + 1} /\ c.pg \in Pages
      BY <1>2, <2>4, <2>7
    <3>7. PanAsked'
      BY <1>1, <1>5, <2>3, <2>7, <3>1, <3>5, <3>6 DEF PanAsked, TwoOfTurn
    <3>8. CalmInv'
      BY <2>3, <3>7 DEF CalmInv
    <3>9. [Turn!Next]_Turn!vars
      BY <3>1, <3>5, <3>6, TurnAsks
    <3>10. children' # <<>>
      BY <3>1
    <3> QED
      BY <2>3, <3>8, <3>9, <3>10 DEF BlankStep, CrashStep
  <2> QED
    BY <2>6, <2>7
<1> QED
  BY <1>3, <1>4

\* A pan moves to no side: the phase stays.
LEMMA SmallMoveIsCalm ==
  ASSUME ChildrenInv, CalmInv, ~overlap, NEW still \in BOOLEAN, PanChanged(0, still),
         PanBegun \/ PanAsked
  PROVE  CalmInv' /\ [Turn!Next]_Turn!vars /\ BlankStep /\ CrashStep
<1>1. TypeOK /\ children \in Seq(Controllers)
  BY DEF ChildrenInv, TypeOK
<1>2. UNCHANGED <<overlap, record, children, pan, anims, crashed>> /\ ~crashed
  BY <1>1, SmallMoveMeaning
<1>3. \/ UNCHANGED onScreen
      \/ /\ onScreen' \subseteq Views(children)
         /\ onScreen' \subseteq onScreen \cup {currentController}
         /\ pendingController = None => onScreen' = Views(children) \cap onScreen
  BY <1>2, ScreenOfMove DEF pan
<1>4. ASSUME PanBegun PROVE CalmInv'
  <2>1. OneOrNone /\ (children # <<>> /\ onScreen = {} /\ pendingController = None => AtAnEnd)
    BY <1>4 DEF PanBegun
  <2>2. /\ onScreen' \subseteq Views(children)
        /\ pendingController = None => onScreen' = onScreen
    BY <1>1, <1>3, <2>1, ViewsOfFew DEF OneOrNone
  <2>3. OneOrNone'
    BY <1>1, <1>2, <2>1, <2>2, ViewsOfFew DEF OneOrNone
  <2>4. PanBegun'
    BY <1>2, <1>4, <2>1, <2>2, <2>3 DEF PanBegun, AtAnEnd, pan
  <2> QED
    BY <1>2, <2>4 DEF CalmInv
<1>5. ASSUME PanAsked PROVE CalmInv'
  <2>1. onScreen' \subseteq {currentController}
    BY <1>3, <1>5 DEF PanAsked
  <2>2. PanAsked'
    BY <1>2, <1>5, <2>1 DEF PanAsked, TwoOfTurn, pan
  <2> QED
    BY <1>2, <2>2 DEF CalmInv
<1>6. [Turn!Next]_Turn!vars
  BY <1>2, TurnWaits
<1>7. BlankStep /\ CrashStep
  BY <1>2 DEF BlankStep, CrashStep
<1> QED
  BY <1>4, <1>5, <1>6, <1>7

\* A move of the pan is one of these four.
LEMMA PanChangedIsCalm ==
  ASSUME ChildrenInv, CalmInv, ~overlap, NEW dir \in {-1, 0, 1}, NEW still \in BOOLEAN,
         PanChanged(dir, still)
  PROVE  CalmInv' /\ [Turn!Next]_Turn!vars /\ BlankStep /\ CrashStep
<1>1. isPanning /\ ~crashed
  BY DEF PanChanged
<1>2. PanBegun \/ PanAsked
  BY <1>1 DEF CalmInv, Resting, Animated
<1>5. CASE dir = 0
  BY <1>2, <1>5, SmallMoveIsCalm
<1>3. CASE dir # 0 /\ PanBegun
  BY <1>1, <1>3, FirstMoveIsCalm
<1>4. CASE dir # 0 /\ PanAsked
  <2>1. scrollDirection = dir \/ scrollDirection = -dir
    BY <1>4 DEF PanAsked
  <2> QED
    BY <1>1, <1>4, <2>1, SameWayIsCalm, TurnedRoundIsCalm
<1> QED
  BY <1>2, <1>3, <1>4, <1>5
\* A pan ends: at rest again, or with an animation.
LEMMA PanEndedIsCalm ==
  ASSUME ChildrenInv, CalmInv, ~overlap, NEW far \in BOOLEAN, PanEnded(far)
  PROVE  CalmInv' /\ [Turn!Next]_Turn!vars /\ BlankStep /\ CrashStep
<1> DEFINE c == currentController
           p == pendingController
           a == [remove |-> IF far THEN c ELSE p, pan |-> TRUE]
<1>1. TypeOK /\ isPanning /\ ~crashed
  BY DEF ChildrenInv, PanEnded
<1>2. PanBegun \/ PanAsked
  BY <1>1 DEF CalmInv, Resting, Animated
<1>3. /\ isPanning' = FALSE
      /\ UNCHANGED <<overlap, record, children, currentController, pendingController,
                     crashed>>
      /\ \/ p = None /\ onScreen' = onScreen /\ anims' = anims
         \/ /\ p # None
            /\ onScreen' = IF far THEN (onScreen \cup {p}) \ {c}
                           ELSE (onScreen \ {p}) \cup ({c} \ {None})
            /\ anims' = Append(anims, a)
  BY DEF PanEnded
<1>4. anims = <<>>
  BY <1>2 DEF PanBegun, PanAsked
<1>5. a.pan /\ a.remove = IF far THEN c ELSE p
  OBVIOUS
<1> HIDE DEF a
<1>6. p # None => Len(anims') = 1 /\ anims'[1] = a
  BY <1>3, <1>4
<1>7. Resting' \/ Animated'
  <2>1. CASE PanBegun
    <3>1. /\ c = First(children)
          /\ \/ children = <<>> /\ onScreen = {}
             \/ /\ Len(children) = 1 /\ onScreen \subseteq {children[1]}
                /\ record = children[1].pg
          /\ children # <<>> /\ onScreen = {} /\ p = None => AtAnEnd
      BY <2>1 DEF PanBegun, OneOrNone
    <3>2. CASE p = None
      BY <1>3, <1>4, <3>1, <3>2 DEF Resting, OneOrNone, AtAnEnd
    <3>3. CASE p # None /\ children = <<>>
      <4>1. c = None
        BY <1>1, <3>1, <3>3, TypesOfChildren
      <4> QED
        BY <1>3, <1>5, <1>6, <3>3, <4>1 DEF Animated
    <3>4. CASE p # None /\ children # <<>>
      <4>1. /\ c = children[1] /\ c # None /\ Len(children) = 1 /\ onScreen \subseteq {c}
            /\ record = c.pg
        BY <1>1, <3>1, <3>4, TypesOfChildren, NoneIsNoController
      <4>2. a.remove # c => onScreen' = {c}
        BY <1>3, <1>5, <3>4, <4>1
      <4>3. a.remove \in {c, p}
        BY <1>5
      <4> QED
        BY <1>3, <1>5, <1>6, <3>4, <4>1, <4>2, <4>3 DEF Animated
    <3> QED
      BY <3>2, <3>3, <3>4
  <2>2. CASE PanAsked
    <3>1. c # None /\ onScreen \subseteq {c} /\ record = c.pg
      BY <2>2 DEF PanAsked
    <3>2. CASE p = None
      <4>1. /\ Len(children) = 1 /\ children[1] = c
            /\ scrollDirection \in {-1, 1} /\ record - scrollDirection \notin Pages
        BY <2>2, <3>2 DEF PanAsked
      <4>2. AtAnEnd
        <5>1. record \in 0..LastPage /\ LastPage \in Nat
          BY <1>1, TranslationAssumption DEF TypeOK, Pages
        <5> QED
          BY <4>1, <5>1 DEF AtAnEnd, Pages
      <4> QED
        BY <1>3, <1>4, <3>1, <3>2, <4>1, <4>2 DEF Resting, OneOrNone, AtAnEnd
    <3>3. CASE p # None
      <4>1. TwoOfTurn(c, p)
        BY <2>2, <3>3 DEF PanAsked
      <4>2. c # p
        <5>1. Len(children) = 2 /\ children[1] = c /\ children[2] = p
          BY <4>1 DEF TwoOfTurn
        <5>2. 1 \in DOMAIN children /\ 2 \in DOMAIN children
          BY <1>1, <5>1, TypesOfChildren
        <5> QED
          BY <1>1, <5>1, <5>2 DEF TypeOK
      <4>3. onScreen' = {c, p} \ {a.remove}
        BY <1>3, <1>5, <3>1, <3>3, <4>2
      <4>4. a.remove \in {c, p}
        BY <1>5
      <4> QED
        BY <1>3, <1>5, <1>6, <3>1, <3>3, <4>1, <4>3, <4>4 DEF Animated, TwoOfTurn
    <3> QED
      BY <3>2, <3>3
  <2> QED
    BY <1>2, <2>1, <2>2
<1>8. CalmInv'
  BY <1>1, <1>3, <1>7 DEF CalmInv
<1>9. [Turn!Next]_Turn!vars
  <2>1. record' = record /\ children' = children
    BY <1>3
  <2> QED
    BY <2>1, TurnWaits
<1>10. BlankStep /\ CrashStep
  BY <1>1, <1>3 DEF BlankStep, CrashStep
<1> QED
  BY <1>8, <1>9, <1>10

\* The completion of an animation that removes one of two controllers
LEMMA TurnIsOver ==
  ASSUME ChildrenInv, ~overlap, NEW complete \in BOOLEAN, AnimationEnds(complete),
         Len(anims) = 1, ~isPanning,
         anims[1].pan => currentController # None /\ anims[1].remove # None,
         Len(children) = 2, record = children[1].pg,
         NEW f \in {1, 2}, anims[1].remove = children[f],
         onScreen = {children[3 - f]}
  PROVE  Resting' /\ CalmInv' /\ [Turn!Next]_Turn!vars /\ BlankStep /\ CrashStep
<1> DEFINE a == Head(anims)
           r == Remove(children, a.remove)
           k == children[3 - f]
<1>1. TypeOK /\ complete = TRUE /\ ~crashed
  BY DEF ChildrenInv, AnimationEnds
<1>2. a = anims[1] /\ Tail(anims) = <<>>
  <2>1. anims \in Seq(Animations)
    BY <1>1 DEF TypeOK, Animations
  <2> QED
    BY <2>1, OfOne
<1>3. /\ children' = r
      /\ onScreen' = onScreen \cap Views(r)
      /\ record' = Record(r)
      /\ anims' = Tail(anims)
      /\ UNCHANGED <<overlap, isPanning, crashed>>
  BY <1>1, <1>2 DEF AnimationEnds, pan
<1>4. /\ children \in Seq(Controllers) /\ Distinct(children)
      /\ DOMAIN children = 1..Len(children)
  BY <1>1, TypesOfChildren
<1>5. k \in Controllers /\ children[1] \in Controllers /\ children[2] \in Controllers
  <2>1. 1 \in DOMAIN children /\ 2 \in DOMAIN children
    BY <1>4
  <2>2. children[1] \in Controllers /\ children[2] \in Controllers
    BY <1>4, <2>1
  <2>3. 3 - f \in {1, 2}
    OBVIOUS
  <2> QED
    BY <2>2, <2>3
<1>6. r \in Seq(Controllers) /\ Len(r) = 1 /\ r[1] = k
  BY <1>2, <1>4, RemoveKeeps, RemoveOfFew
<1> HIDE DEF r
<1>7. r # <<>> /\ Head(r) = k /\ Views(r) = {k} /\ Record(r) = k.pg
  <2>1. r # <<>> /\ Head(r) = r[1] /\ r[1] = k
    BY <1>6, OfOne
  <2>2. DOMAIN r = {1}
    BY <1>6, OfOne
  <2> QED
    BY <1>6, <2>1, <2>2 DEF Record, Views
<1>8. Resting'
  <2>1. onScreen' = {k} /\ record' = k.pg /\ anims' = <<>> /\ isPanning' = isPanning
    BY <1>2, <1>3, <1>7
  <2> QED
    BY <1>3, <1>6, <2>1 DEF Resting, OneOrNone
<1>9. CalmInv'
  BY <1>1, <1>3, <1>8 DEF CalmInv
<1>10. [Turn!Next]_Turn!vars
  <2>1. children[2].pg # NoPage /\ Len(children') # 2
    BY <1>3, <1>5, <1>6, PagesAreAsked
  <2>2. record' = children[2].pg \/ record' = record
    BY <1>3, <1>7
  <2> QED
    BY <2>1, <2>2, TurnArrives, TurnReturns
<1>11. BlankStep /\ CrashStep
  BY <1>1, <1>3, <1>7 DEF BlankStep, CrashStep
<1> QED
  BY <1>8, <1>9, <1>10, <1>11
\* The completion of the animation after a pan that asked for nothing but found the
\* pending controller of an earlier turn: one child is left, or none.
LEMMA EmptyPanIsOver ==
  ASSUME ChildrenInv, ~overlap, NEW complete \in BOOLEAN, AnimationEnds(complete),
         Len(anims) = 1, ~isPanning,
         currentController # None, anims[1].remove # None,
         Len(children) = 1, children[1] = currentController,
         record = currentController.pg,
         anims[1].remove \in {currentController, pendingController},
         anims[1].remove # currentController => onScreen = {currentController}
  PROVE  CalmInv' /\ [Turn!Next]_Turn!vars /\ BlankStep /\ CrashStep
<1> DEFINE a == Head(anims)
           r == Remove(children, a.remove)
           c == currentController
<1>1. TypeOK /\ complete = TRUE /\ ~crashed
  BY DEF ChildrenInv, AnimationEnds
<1>2. a = anims[1] /\ Tail(anims) = <<>>
  <2>1. anims \in Seq(Animations)
    BY <1>1 DEF TypeOK, Animations
  <2> QED
    BY <2>1, OfOne
<1>3. /\ children' = r
      /\ onScreen' = onScreen \cap Views(r)
      /\ record' = Record(r)
      /\ anims' = Tail(anims)
      /\ UNCHANGED <<overlap, isPanning, crashed>>
  BY <1>1, <1>2 DEF AnimationEnds, pan
<1>4. /\ children \in Seq(Controllers) /\ Distinct(children)
      /\ children # <<>> /\ Head(children) = c /\ DOMAIN children = {1}
  BY <1>1, TypesOfChildren, OfOne
<1>5. CrashStep
  BY <1>1, <1>3 DEF CrashStep
<1>6. CASE a.remove = c
  <2>1. r = <<>>
    BY <1>2, <1>4, <1>6, RemoveOfFew
  <2> HIDE DEF r
  <2>2. /\ children' = <<>> /\ Len(children') = 0
        /\ onScreen' = {} /\ record' = record /\ anims' = <<>>
    BY <1>2, <1>3, <2>1 DEF Record, Views
  <2>3. Resting'
    BY <1>3, <2>2 DEF Resting, OneOrNone
  <2>4. CalmInv'
    BY <1>1, <1>3, <2>3 DEF CalmInv
  <2>5. [Turn!Next]_Turn!vars
    BY <2>2, NoTurn
  <2>6. BlankStep
    BY <1>4 DEF BlankStep
  <2> QED
    BY <1>5, <2>4, <2>5, <2>6
<1>7. CASE a.remove # c
  <2>1. r = children
    BY <1>2, <1>4, <1>7, RemoveOfFew
  <2> HIDE DEF r
  <2>2. children' = children /\ record' = record /\ anims' = <<>>
    BY <1>2, <1>3, <1>4, <2>1 DEF Record
  <2>3. onScreen' = {c}
    BY <1>2, <1>3, <1>4, <1>7, <2>1 DEF Views
  <2>4. Resting'
    BY <1>3, <2>2, <2>3 DEF Resting, OneOrNone
  <2>5. CalmInv'
    BY <1>1, <1>3, <2>4 DEF CalmInv
  <2>6. [Turn!Next]_Turn!vars
    BY <2>2, TurnWaits
  <2>7. BlankStep
    BY <2>2 DEF BlankStep
  <2> QED
    BY <1>5, <2>5, <2>6, <2>7
<1> QED
  BY <1>6, <1>7

\* An animation ends: at rest again, or the process ends where no view is left.
LEMMA AnimationEndsIsCalm ==
  ASSUME ChildrenInv, CalmInv, ~overlap, NEW complete \in BOOLEAN,
         AnimationEnds(complete)
  PROVE  CalmInv' /\ [Turn!Next]_Turn!vars /\ BlankStep /\ CrashStep
<1>1. TypeOK /\ ~crashed /\ anims # <<>>
  BY DEF ChildrenInv, AnimationEnds
<1>2. Animated
  BY <1>1 DEF CalmInv, Resting, PanBegun, PanAsked
<1>3. ~isPanning /\ Len(anims) = 1
  BY <1>2 DEF Animated
<1>4. ASSUME Len(children) = 2 PROVE children[1] # children[2]
  <2>1. 1 \in DOMAIN children /\ 2 \in DOMAIN children
    BY <1>1, <1>4, TypesOfChildren
  <2> QED
    BY <1>1, <2>1 DEF TypeOK
<1>5. CASE /\ ~anims[1].pan /\ anims[1].remove # None
           /\ Len(children) = 2 /\ TwoOfTurn(anims[1].remove, children[2])
           /\ onScreen = {children[2]}
  <2>1. record = children[1].pg /\ anims[1].remove = children[1]
    BY <1>5 DEF TwoOfTurn
  <2>2. onScreen = {children[3 - 1]} /\ 1 \in {1, 2}
    BY <1>5
  <2> QED
    BY <1>3, <1>5, <2>1, <2>2, TurnIsOver
<1>6. CASE /\ anims[1].pan /\ currentController # None /\ pendingController # None
           /\ TwoOfTurn(currentController, pendingController)
           /\ anims[1].remove \in {currentController, pendingController}
           /\ onScreen = {currentController, pendingController} \ {anims[1].remove}
  <2>1. /\ Len(children) = 2 /\ record = children[1].pg
        /\ children[1] = currentController /\ children[2] = pendingController
        /\ anims[1].remove # None
    BY <1>6 DEF TwoOfTurn
  <2>2. CASE anims[1].remove = children[1]
    <3>1. onScreen = {children[3 - 1]} /\ 1 \in {1, 2}
      BY <1>4, <1>6, <2>1, <2>2
    <3> QED
      BY <1>3, <1>6, <2>1, <2>2, <3>1, TurnIsOver
  <2>3. CASE anims[1].remove = children[2]
    <3>1. onScreen = {children[3 - 2]} /\ 2 \in {1, 2}
      BY <1>4, <1>6, <2>1, <2>3
    <3> QED
      BY <1>3, <1>6, <2>1, <2>3, <3>1, TurnIsOver
  <2> QED
    BY <1>6, <2>1, <2>2, <2>3
<1>7. CASE /\ anims[1].pan /\ currentController # None /\ pendingController # None
           /\ Len(children) = 1 /\ children[1] = currentController
           /\ record = currentController.pg
           /\ anims[1].remove \in {currentController, pendingController}
           /\ anims[1].remove # currentController => onScreen = {currentController}
  BY <1>3, <1>7, EmptyPanIsOver
<1>8. CASE anims[1].pan /\ children = <<>> /\ currentController = None
  <2>1. Head(anims) = anims[1]
    <3>1. anims \in Seq(Animations)
      BY <1>1 DEF TypeOK, Animations
    <3> QED
      BY <1>3, <3>1, OfOne
  <2>2. crashed' = TRUE /\ record' = record /\ children' = children
    BY <1>8, <2>1 DEF AnimationEnds, Crash
  <2>3. Len(children') = 0
    BY <1>8, <2>2
  <2>4. CalmInv'
    BY <2>2, <2>3 DEF CalmInv
  <2>5. [Turn!Next]_Turn!vars
    BY <2>2, TurnWaits
  <2>6. BlankStep /\ CrashStep
    BY <1>8 DEF BlankStep, CrashStep
  <2> QED
    BY <2>4, <2>5, <2>6
<1> QED
  BY <1>2, <1>5, <1>6, <1>7, <1>8 DEF Animated

\* The reader is opened again, at rest.
LEMMA RestartIsCalm ==
  ASSUME ChildrenInv, CalmInv, ~overlap, Restart
  PROVE  CalmInv' /\ [Turn!Next]_Turn!vars /\ BlankStep /\ CrashStep
<1> DEFINE c == [id |-> 0, pg |-> record]
<1>1. crashed /\ Len(children) <= 1 /\ Len(children) \in Nat
  BY TypesOfChildren DEF Restart, CalmInv, ChildrenInv
<1>2. /\ children' = <<c>> /\ onScreen' = {Head(children')}
      /\ isPanning' = FALSE /\ anims' = <<>> /\ crashed' = FALSE /\ record' = record
  BY DEF Restart
<1>3. c.pg = record
  OBVIOUS
<1> HIDE DEF c
<1>4. /\ children' # <<>> /\ Len(children') = 1 /\ children'[1] = c
      /\ Head(children') = c
  BY <1>2
<1>5. Resting'
  BY <1>2, <1>3, <1>4 DEF Resting, OneOrNone
<1>6. CalmInv'
  BY <1>2, <1>5 DEF CalmInv
<1>7. [Turn!Next]_Turn!vars
  BY <1>1, <1>2, <1>4, NoTurn
<1>8. BlankStep /\ CrashStep
  BY <1>1, <1>4 DEF BlankStep, CrashStep
<1> QED
  BY <1>6, <1>7, <1>8

\* Every step where gestures wait for animations
LEMMA CalmNext ==
  ASSUME ChildrenInv, CalmInv, ~overlap, [Next]_vars
  PROVE  /\ CalmInv' /\ [Turn!Next]_Turn!vars
         /\ UNCHANGED vars \/ (BlankStep /\ CrashStep)
<1>1. ASSUME NEW dir \in {-1, 1}, Tap(dir)
      PROVE  CalmInv' /\ [Turn!Next]_Turn!vars /\ BlankStep /\ CrashStep
  BY <1>1, TapIsCalm
<1>2. ASSUME NEW dir \in {-1, 0, 1}, NEW still \in BOOLEAN, PanChanged(dir, still)
      PROVE  CalmInv' /\ [Turn!Next]_Turn!vars /\ BlankStep /\ CrashStep
  BY <1>2, PanChangedIsCalm
<1>3. CASE PanBegan
  BY <1>3, PanBeganIsCalm
<1>4. ASSUME NEW far \in BOOLEAN, PanEnded(far)
      PROVE  CalmInv' /\ [Turn!Next]_Turn!vars /\ BlankStep /\ CrashStep
  BY <1>4, PanEndedIsCalm
<1>5. ASSUME NEW complete \in BOOLEAN, AnimationEnds(complete)
      PROVE  CalmInv' /\ [Turn!Next]_Turn!vars /\ BlankStep /\ CrashStep
  BY <1>5, AnimationEndsIsCalm
<1>6. CASE Restart
  BY <1>6, RestartIsCalm
<1>7. CASE UNCHANGED vars
  <2>1. CalmInv'
    BY <1>7 DEF vars, pan, CalmInv, Resting, PanBegun, PanAsked, Animated, OneOrNone,
                TwoOfTurn, AtAnEnd
  <2>2. record' = record /\ children' = children
    BY <1>7 DEF vars
  <2>3. [Turn!Next]_Turn!vars
    BY <2>2, TurnWaits
  <2> QED
    BY <1>7, <2>1, <2>3
<1> QED
  BY <1>1, <1>2, <1>3, <1>4, <1>5, <1>6, <1>7 DEF Next

\* No action decides whether touches overlap.
LEMMA OverlapStays == [Next]_vars => overlap' = overlap
<1> SUFFICES ASSUME [Next]_vars PROVE overlap' = overlap
  OBVIOUS
<1>1. ASSUME NEW dir \in {-1, 1}, Tap(dir) PROVE overlap' = overlap
  BY <1>1 DEF Tap
<1>5. ASSUME NEW dir \in {-1, 0, 1}, NEW still \in BOOLEAN, PanChanged(dir, still)
      PROVE  overlap' = overlap
  BY <1>5 DEF PanChanged, Crash
<1>2. ASSUME NEW far \in BOOLEAN, PanEnded(far) PROVE overlap' = overlap
  BY <1>2 DEF PanEnded
<1>3. ASSUME NEW complete \in BOOLEAN, AnimationEnds(complete) PROVE overlap' = overlap
  BY <1>3 DEF AnimationEnds, Crash
<1>4. CASE PanBegan \/ Restart \/ UNCHANGED vars
  BY <1>4 DEF PanBegan, Restart, vars
<1> QED
  BY <1>1, <1>2, <1>3, <1>4, <1>5 DEF Next

--------------------------------------------------------------------------------
(***************************************************************************)
(* The theorems where gestures wait for animations                         *)
(***************************************************************************)

\* A first state is at rest.
LEMMA CalmInit == Init => CalmInv
<1> SUFFICES ASSUME Init PROVE CalmInv
  OBVIOUS
<1> DEFINE c == [id |-> 0, pg |-> record]
<1>1. /\ children = <<c>> /\ onScreen = {Head(children)}
      /\ isPanning = FALSE /\ anims = <<>> /\ crashed = FALSE
  BY DEF Init
<1>2. c.pg = record
  OBVIOUS
<1> HIDE DEF c
<1>3. Len(children) = 1 /\ children[1] = c /\ Head(children) = c
  BY <1>1
<1>4. Resting
  BY <1>1, <1>2, <1>3 DEF Resting, OneOrNone
<1> QED
  BY <1>1, <1>4 DEF CalmInv

\* Every behaviour is of the four phases of a turn, or touches overlap.
THEOREM TranslationInvariance == Spec => []TranslationInv
<1>1. Init => TranslationInv
  BY ChildrenInit, CalmInit DEF TranslationInv
<1>2. TranslationInv /\ [Next]_vars => TranslationInv'
  <2> SUFFICES ASSUME TranslationInv, [Next]_vars PROVE TranslationInv'
    OBVIOUS
  <2>1. ChildrenInv'
    BY ChildrenStep DEF TranslationInv
  <2>2. CalmInv'
    <3>1. CASE ~overlap
      BY <3>1, CalmNext DEF TranslationInv
    <3>2. CASE overlap
      BY <3>2, OverlapStays DEF CalmInv
    <3> QED
      BY <3>1, <3>2
  <2> QED
    BY <2>1, <2>2 DEF TranslationInv
<1> QED
  BY <1>1, <1>2, PTL DEF Spec

\* Where gestures wait for animations, between two of them one controller is left and
\* recorded, or none; its view is in its place, or a pan at an end of the book has left
\* it where it was moved.  During a turn there are never more than two.
THEOREM OneIsLeft == Spec => []RestShowsRecord
<1>1. TranslationInv => RestShowsRecord
  <2> SUFFICES ASSUME TranslationInv, ~overlap
               PROVE  /\ Len(children) <= 2
                      /\ AtRest =>
                           \/ children = <<>> /\ onScreen = {}
                           \/ /\ Len(children) = 1 /\ record = Head(children).pg
                              /\ \/ onScreen = {Head(children)}
                                 \/ /\ onScreen = {} /\ pendingController = None
                                    /\ record \in {0, LastPage}
    BY DEF RestShowsRecord
  <2>1. /\ Len(children) \in Nat /\ children \in Seq(Controllers)
        /\ children = <<>> => Len(children) = 0
    BY TypesOfChildren DEF TranslationInv, ChildrenInv
  <2>2. Len(children) <= 2
    <3>1. crashed => Len(children) <= 1
      BY DEF TranslationInv, CalmInv
    <3>2. ~crashed => \/ OneOrNone \/ Len(children) \in {1, 2} \/ children = <<>>
      BY DEF TranslationInv, CalmInv, Resting, PanBegun, PanAsked, Animated, TwoOfTurn
    <3>3. OneOrNone => Len(children) \in {0, 1}
      BY <2>1 DEF OneOrNone
    <3>4. CASE crashed
      <4>1. Len(children) <= 1
        BY <3>1, <3>4
      <4> QED
        BY <2>1, <4>1
    <3>5. CASE ~crashed
      <4>1. Len(children) \in {0, 1, 2}
        BY <2>1, <3>2, <3>3, <3>5
      <4>2. \A n \in {0, 1, 2} : n <= 2
        OBVIOUS
      <4> QED
        BY <4>1, <4>2
    <3> QED
      BY <3>4, <3>5
  <2>3. ASSUME AtRest
        PROVE  /\ OneOrNone
               /\ children # <<>> /\ onScreen = {} => pendingController = None /\ AtAnEnd
    <3>1. ~isPanning /\ anims = <<>> /\ ~crashed /\ Len(anims) # 1
      BY <2>3 DEF AtRest
    <3> QED
      BY <3>1 DEF TranslationInv, CalmInv, Resting, PanBegun, PanAsked, Animated
  <2>4. Len(children) = 1 => Head(children) = children[1]
    BY <2>1, OfOne
  <2> QED
    BY <2>1, <2>2, <2>3, <2>4 DEF OneOrNone, AtAnEnd
<1> QED
  BY <1>1, TranslationInvariance, PTL

\* The last view leaves the screen only at the end of a pan that asked for no page and
\* took for pending what an earlier one left behind.
THEOREM BlankAfterEmptyPan == Spec => BlankOnlyAfterEmptyPan
<1>1. /\ TranslationInv /\ [Next]_vars
      => [~overlap /\ children # <<>> /\ children' = <<>> =>
            \/ pendingController = currentController
            \/ pendingController \notin {children[i] : i \in DOMAIN children}]_vars
  BY CalmNext DEF TranslationInv, BlankStep
<1> QED
  BY <1>1, TranslationInvariance, PTL DEF Spec, BlankOnlyAfterEmptyPan

\* Where gestures wait, a pan ends the process only at an end of the book, or where no
\* view is left.
THEOREM CrashAtTheEnds == Spec => CrashOnlyAtTheEnds
<1>1. /\ TranslationInv /\ [Next]_vars
      => [~overlap /\ crashed' /\ ~crashed =>
            record \in {0, LastPage} \/ children = <<>>]_vars
  BY CalmNext DEF TranslationInv, CrashStep
<1> QED
  BY <1>1, TranslationInvariance, PTL DEF Spec, CrashOnlyAtTheEnds

\* Where gestures wait, the record moves by one page, to the page asked for: the
\* protocol of PageTurn, step by step.
THEOREM TranslationTurnsByOnePage == Spec => TurnsAsExpected
<1>1. Init => Turn!Init
  <2> SUFFICES ASSUME Init PROVE Turn!Init
    OBVIOUS
  <2>1. Len(children) = 1
    BY DEF Init
  <2>2. record \in Turn!Pages
    BY DEF Init, Pages, Turn!Pages
  <2> QED
    BY <2>1, <2>2 DEF Turn!Init
<1>2. TranslationInv /\ [Next]_vars => [overlap \/ Turn!Next]_Turn!vars
  BY CalmNext DEF TranslationInv
<1> QED
  BY <1>1, <1>2, TranslationInvariance, PTL DEF Spec, TurnsAsExpected
================================================================================
