------------------------- MODULE TxtParserProofs -------------------------
(***************************************************************************)
(* Proofs about TxtParser, for texts of every length: what the titles of a  *)
(* text are, that the chapters in a new directory are the text              *)
(* (ChaptersAreTheText), that a text is refused only without a title or     *)
(* with one at its end (PlainTextIsParsed), and that every chapter of a     *)
(* parsed book can be displayed, also one that an earlier text has left     *)
(* (ChaptersAreDisplayed).                                                  *)
(*                                                                         *)
(* Both the list of matches and the units of a text are functions that are  *)
(* defined on a position by their value on the position before.  What holds *)
(* of each value is proved from the least position at which it would fail.  *)
(***************************************************************************)
EXTENDS TxtParser, TLAPS, FiniteSetTheorems, SequenceTheorems, WellFoundedInduction

\* A set of positions has a least one.
LEMMA LeastNumber ==
  ASSUME NEW S \in SUBSET Nat, S # {}
  PROVE  \E n \in S : \A k \in S : n <= k
<1> DEFINE R == OpToRel(<, Nat)
<1>1. IsWellFoundedOn(R, Nat)
  BY NatLessThanWellFounded
<1>2. PICK n \in S : \A k \in S : ~ (<<k, n>> \in R)
  <2> HIDE DEF R
  <2> QED
    BY <1>1, WFMin
<1>3. ASSUME NEW k \in S PROVE n <= k
  <2>1. n \in Nat /\ k \in Nat
    OBVIOUS
  <2>2. k < n => <<k, n>> \in R
    BY <2>1 DEF OpToRel
  <2>3. ~(k < n)
    <3> HIDE DEF R
    <3> QED
      BY <1>2, <2>2
  <2> QED
    BY <2>1, <2>3
<1> QED
  BY <1>3

\* The minimum of a set of positions is in it, and is the least.
LEMMA MinIsLeast ==
  ASSUME NEW S \in SUBSET Nat, S # {}
  PROVE  Min(S) \in S /\ \A k \in S : Min(S) <= k
<1>1. \E n \in S : \A k \in S : n <= k
  BY LeastNumber
<1> QED
  BY <1>1 DEF Min

\* A text is a sequence of characters that is not too long.
LEMMA TextIsSeq ==
  /\ \A t \in Texts : t \in Seq(Characters) /\ Len(t) \in Nat /\ Len(t) <= MaxLength
  /\ \A t \in Seq(Characters) : Len(t) <= MaxLength => t \in Texts
<1>1. ASSUME NEW t \in Texts PROVE t \in Seq(Characters) /\ Len(t) \in Nat /\ Len(t) <= MaxLength
  <2>1. PICK k \in 0 .. MaxLength : t \in [1 .. k -> Characters]
    BY DEF Texts
  <2>2. k \in Nat /\ k <= MaxLength
    BY <2>1, LengthAssumption
  <2>3. t \in Seq(Characters) /\ Len(t) = k
    BY <2>1, <2>2
  <2> QED
    BY <2>2, <2>3
<1>2. ASSUME NEW t \in Seq(Characters), Len(t) <= MaxLength PROVE t \in Texts
  <2>1. Len(t) \in 0 .. MaxLength /\ t \in [1 .. Len(t) -> Characters]
    BY <1>2, LengthAssumption
  <2> QED
    BY <2>1 DEF Texts
<1> QED
  BY <1>1, <1>2

\* p is the part of a text from its a-th to its b-th character.
Part(p, text, a, b) ==
  /\ p \in Seq(Characters) /\ Len(p) = b - a + 1
  /\ \A i \in 1 .. b - a + 1 : p[i] = text[a + i - 1]

LEMMA SubSeqPart ==
  ASSUME NEW text \in Seq(Characters), NEW a \in Nat, NEW b \in Nat,
         1 <= a, a <= b, b <= Len(text)
  PROVE  Part(SubSeq(text, a, b), text, a, b)
<1>1. a \in Int /\ b \in Int /\ \A i \in a .. b : text[i] \in Characters
  <2>1. \A i \in a .. b : i \in 1 .. Len(text)
    OBVIOUS
  <2> QED
    BY <2>1
<1>2. /\ SubSeq(text, a, b) \in Seq(Characters)
      /\ Len(SubSeq(text, a, b)) = IF a <= b THEN b - a + 1 ELSE 0
      /\ \A i \in 1 .. b - a + 1 : SubSeq(text, a, b)[i] = text[a + i - 1]
  BY <1>1, SubSeqProperties
<1> QED
  BY <1>2 DEF Part

\* Two parts of a text that meet
LEMMA PartsMeet ==
  ASSUME NEW text \in Seq(Characters), NEW a \in Nat, NEW b \in Nat, NEW d \in Nat,
         1 <= a, a <= b, b < d, d <= Len(text)
  PROVE  SubSeq(text, a, b) \o SubSeq(text, b + 1, d) = SubSeq(text, a, d)
<1> DEFINE p == SubSeq(text, a, b)
           q == SubSeq(text, b + 1, d)
           r == SubSeq(text, a, d)
           n == b - a + 1
           k == d - b
<1>0. n \in Nat /\ k \in Nat /\ d - a + 1 = n + k /\ n = b - a + 1
  OBVIOUS
<1>1. p \in Seq(Characters) /\ Len(p) = n /\ \A i \in 1 .. n : p[i] = text[a + i - 1]
  <2>1. Part(p, text, a, b)
    BY SubSeqPart
  <2> HIDE DEF p
  <2> QED
    BY <2>1 DEF Part
<1>2. q \in Seq(Characters) /\ Len(q) = k /\ \A i \in 1 .. k : q[i] = text[b + 1 + i - 1]
  <2>1. b + 1 \in Nat /\ 1 <= b + 1 /\ b + 1 <= d /\ d - (b + 1) + 1 = k
    OBVIOUS
  <2>2. Part(q, text, b + 1, d)
    BY <2>1, SubSeqPart
  <2> HIDE DEF q, k
  <2> QED
    BY <2>1, <2>2 DEF Part
<1>3. r \in Seq(Characters) /\ Len(r) = n + k /\ \A i \in 1 .. n + k : r[i] = text[a + i - 1]
  <2>1. a <= d
    OBVIOUS
  <2>2. Part(r, text, a, d)
    BY <2>1, SubSeqPart
  <2> HIDE DEF r, n, k
  <2> QED
    BY <1>0, <2>2 DEF Part
<1> HIDE DEF p, q, r, n, k
<1>4. /\ p \o q \in Seq(Characters)
      /\ Len(p \o q) = Len(p) + Len(q)
      /\ \A i \in 1 .. Len(p) + Len(q) : (p \o q)[i] = IF i <= Len(p) THEN p[i] ELSE q[i - Len(p)]
  BY <1>1, <1>2, ConcatProperties
<1>5. ASSUME NEW i \in 1 .. n + k PROVE (p \o q)[i] = r[i]
  <2>1. (p \o q)[i] = IF i <= n THEN p[i] ELSE q[i - n]
    BY <1>1, <1>2, <1>4
  <2>2. r[i] = text[a + i - 1]
    BY <1>3
  <2>3. CASE i <= n
    <3>1. i \in 1 .. n
      BY <1>0, <2>3
    <3> QED
      BY <1>1, <2>1, <2>2, <2>3, <3>1
  <2>4. CASE ~(i <= n)
    <3>1. i - n \in 1 .. k /\ b + 1 + (i - n) - 1 = a + i - 1
      BY <1>0, <2>4
    <3> QED
      BY <1>2, <2>1, <2>2, <2>4, <3>1
  <2> QED
    BY <2>3, <2>4
<1>6. p \o q = r
  <2>1. Len(p \o q) = Len(r) /\ \A i \in 1 .. Len(p \o q) : (p \o q)[i] = r[i]
    BY <1>1, <1>2, <1>3, <1>4, <1>5
  <2> QED
    BY <1>3, <1>4, <2>1, SeqEqual
<1> QED
  BY <1>6 DEF p, q, r

\* The text after each of the sequences that are joined
Joins(f, seqs) ==
  /\ f[1] = seqs[1]
  /\ \A i \in 2 .. Len(seqs) : f[i] = f[i - 1] \o seqs[i]
  /\ FlattenSeq(seqs) = f[Len(seqs)]

LEMMA FlattenJoins ==
  ASSUME NEW seqs, Len(seqs) \in Nat, Len(seqs) # 0
  PROVE  \E f : Joins(f, seqs)
<1> DEFINE n == Len(seqs)
           E(f, i) == IF i = 1 THEN seqs[i] ELSE f[i - 1] \o seqs[i]
           Upto(f, k) == f = [i \in 1 .. k |-> E(f, i)]
           joined == CHOOSE f : Upto(f, n)
<1>1. n \in Nat /\ n # 0
  OBVIOUS
<1>2. \A k \in 1 .. n : \E f : Upto(f, k)
  <2> DEFINE T == {k \in 1 .. n : ~\E f : Upto(f, k)}
  <2> SUFFICES ASSUME T # {} PROVE FALSE
    OBVIOUS
  <2>1. PICK k \in T : \A j \in T : k <= j
    <3>1. T \in SUBSET Nat
      <4> HIDE DEF Upto
      <4> QED
        BY <1>1
    <3> HIDE DEF T
    <3> QED
      BY <3>1, LeastNumber
  <2>2. k \in 1 .. n /\ k \in Nat
    BY <1>1
  <2>3. CASE k = 1
    <3> DEFINE f == [i \in 1 .. 1 |-> seqs[i]]
    <3>1. f = [i \in 1 .. 1 |-> E(f, i)]
      OBVIOUS
    <3>2. Upto(f, k)
      BY <2>3, <3>1
    <3> QED
      BY <3>2
  <2>4. CASE k # 1
    <3>1. k - 1 \in 1 .. n /\ ~(k <= k - 1)
      BY <1>1, <2>2, <2>4
    <3>2. k - 1 \notin T
      BY <2>1, <3>1
    <3>3. PICK f : Upto(f, k - 1)
      BY <3>1, <3>2
    <3> DEFINE g == [i \in 1 .. k |-> E(f, i)]
    <3>4. \A i \in 1 .. k : E(g, i) = E(f, i)
      <4> SUFFICES ASSUME NEW i \in 1 .. k, i # 1 PROVE g[i - 1] = f[i - 1]
        <5> HIDE DEF g
        <5> QED
          OBVIOUS
      <4>1. i - 1 \in 1 .. k /\ i - 1 \in 1 .. k - 1
        BY <2>2
      <4>2. g[i - 1] = E(f, i - 1)
        BY <4>1
      <4> HIDE DEF E, g
      <4>3. f[i - 1] = E(f, i - 1)
        BY <3>3, <4>1
      <4> QED
        BY <4>2, <4>3
    <3>5. Upto(g, k)
      <4> HIDE DEF E
      <4> QED
        BY <3>4
    <3> HIDE DEF g, Upto
    <3> QED
      BY <3>5
  <2> QED
    BY <2>3, <2>4
<1>3. Upto(joined, n)
  <2>1. n \in 1 .. n
    BY <1>1
  <2> HIDE DEF Upto, n
  <2> QED
    BY <1>2, <2>1
<1>4. FlattenSeq(seqs) = joined[n]
  BY <1>1 DEF FlattenSeq, joined
<1> HIDE DEF joined
<1>5. \A i \in 1 .. n : joined[i] = E(joined, i)
  <2> HIDE DEF E
  <2> QED
    BY <1>3
<1>6. joined[1] = seqs[1]
  BY <1>1, <1>5
<1>7. ASSUME NEW i \in 2 .. n PROVE joined[i] = joined[i - 1] \o seqs[i]
  <2>1. i \in 1 .. n /\ i # 1
    BY <1>1
  <2> QED
    BY <1>5, <2>1
<1>8. Joins(joined, seqs)
  BY <1>4, <1>6, <1>7 DEF Joins
<1> QED
  BY <1>8

\* A match of the pattern at the i-th unit
MatchAt(units, limit, i) == [location |-> i - 1, length |-> EndOfTitle(units, limit, i) - i]

\* The matches up to each unit
Finds(f, text) ==
  /\ f[0] = <<>>
  /\ \A i \in 1 .. Len(text) :
        f[i] = IF StartsTitle(UTF16(text), i)
               THEN Append(f[i - 1], MatchAt(UTF16(text), Len(text), i)) ELSE f[i - 1]
  /\ DoTitleMatch(text) = f[Len(text)]

LEMMA MatchFinds ==
  ASSUME NEW text, Len(text) \in Nat
  PROVE  \E f : Finds(f, text)
<1> DEFINE n == Len(text)
           E(f, i) == IF i = 0 THEN <<>>
                      ELSE IF StartsTitle(UTF16(text), i)
                           THEN Append(f[i - 1], MatchAt(UTF16(text), n, i))
                           ELSE f[i - 1]
           Upto(f, k) == f = [i \in 0 .. k |-> E(f, i)]
           found == CHOOSE f : Upto(f, n)
<1>1. n \in Nat
  OBVIOUS
<1>2. \A k \in 0 .. n : \E f : Upto(f, k)
  <2> DEFINE T == {k \in 0 .. n : ~\E f : Upto(f, k)}
  <2> SUFFICES ASSUME T # {} PROVE FALSE
    OBVIOUS
  <2>1. PICK k \in T : \A j \in T : k <= j
    <3>1. T \in SUBSET Nat
      <4> HIDE DEF Upto
      <4> QED
        BY <1>1
    <3> HIDE DEF T
    <3> QED
      BY <3>1, LeastNumber
  <2>2. k \in 0 .. n /\ k \in Nat
    BY <1>1
  <2>3. CASE k = 0
    <3> DEFINE f == [i \in 0 .. 0 |-> <<>>]
    <3>1. f = [i \in 0 .. 0 |-> E(f, i)]
      OBVIOUS
    <3>2. Upto(f, k)
      BY <2>3, <3>1
    <3> QED
      BY <3>2
  <2>4. CASE k # 0
    <3>1. k - 1 \in 0 .. n /\ ~(k <= k - 1)
      BY <1>1, <2>2, <2>4
    <3>2. k - 1 \notin T
      BY <2>1, <3>1
    <3>3. PICK f : Upto(f, k - 1)
      BY <3>1, <3>2
    <3> DEFINE g == [i \in 0 .. k |-> E(f, i)]
    <3>4. \A i \in 0 .. k : E(g, i) = E(f, i)
      <4> SUFFICES ASSUME NEW i \in 0 .. k, i # 0 PROVE g[i - 1] = f[i - 1]
        <5> HIDE DEF g
        <5> QED
          OBVIOUS
      <4>1. i - 1 \in 0 .. k /\ i - 1 \in 0 .. k - 1
        BY <2>2
      <4>2. g[i - 1] = E(f, i - 1)
        BY <4>1
      <4> HIDE DEF E, g
      <4>3. f[i - 1] = E(f, i - 1)
        BY <3>3, <4>1
      <4> QED
        BY <4>2, <4>3
    <3>5. Upto(g, k)
      <4> HIDE DEF E
      <4> QED
        BY <3>4
    <3> HIDE DEF g, Upto
    <3> QED
      BY <3>5
  <2> QED
    BY <2>3, <2>4
<1>3. Upto(found, n)
  <2>1. n \in 0 .. n
    BY <1>1
  <2> HIDE DEF Upto, n
  <2> QED
    BY <1>2, <2>1
<1>4. DoTitleMatch(text) = found[n]
  BY DEF DoTitleMatch, found, MatchAt
<1> HIDE DEF found
<1>5. \A i \in 0 .. n : found[i] = E(found, i)
  <2> HIDE DEF E
  <2> QED
    BY <1>3
<1>6. found[0] = <<>>
  BY <1>1, <1>5
<1>7. ASSUME NEW i \in 1 .. n
      PROVE  found[i] = IF StartsTitle(UTF16(text), i)
                        THEN Append(found[i - 1], MatchAt(UTF16(text), n, i)) ELSE found[i - 1]
  <2>1. i \in 0 .. n /\ i # 0
    BY <1>1
  <2> QED
    BY <1>5, <2>1
<1>8. Finds(found, text)
  BY <1>4, <1>6, <1>7 DEF Finds
<1> QED
  BY <1>8
-----------------------------------------------------------------------------
(***************************************************************************)
(* The matches of a text                                                   *)
(***************************************************************************)

Matches == [location : Nat, length : Nat]

\* A match ends at a unit that is not before its start, and at the first line end from there on.
LEMMA TitleEnds ==
  ASSUME NEW units, NEW limit \in Nat, NEW i \in 1 .. limit
  PROVE  LET e == EndOfTitle(units, limit, i)
         IN  /\ e \in i .. limit + 1
             /\ e # limit + 1 => units[e] \in LineEnd
             /\ \A j \in i .. limit : units[j] \in LineEnd => e <= j
<1> DEFINE S == {limit + 1} \cup {j \in i .. limit : units[j] \in LineEnd}
           e == Min(S)
<1>1. S \in SUBSET Nat /\ limit + 1 \in S
  BY DEF LineEnd
<1>2. e \in S /\ \A k \in S : e <= k
  <2> HIDE DEF S
  <2> QED
    BY <1>1, MinIsLeast
<1>3. e = EndOfTitle(units, limit, i)
  BY DEF EndOfTitle
<1> HIDE DEF e
<1>4. e \in i .. limit + 1
  BY <1>2
<1>5. e # limit + 1 => units[e] \in LineEnd
  BY <1>2
<1>6. \A j \in i .. limit : units[j] \in LineEnd => e <= j
  BY <1>2
<1> QED
  BY <1>3, <1>4, <1>5, <1>6

\* The matches that start at one of the first i units: the starts of titles, in their order.
FoundUpTo(q, units, limit, i) ==
  /\ q \in Seq(Matches) /\ Len(q) <= i
  /\ \A k \in DOMAIN q : /\ q[k].location + 1 \in 1 .. i
                         /\ StartsTitle(units, q[k].location + 1)
                         /\ q[k] = MatchAt(units, limit, q[k].location + 1)
  /\ \A j, k \in DOMAIN q : j < k => q[j].location < q[k].location
  /\ \A j \in 1 .. i : StartsTitle(units, j) => \E k \in DOMAIN q : q[k].location = j - 1

LEMMA MatchType ==
  ASSUME NEW units, NEW limit \in Nat, NEW i \in 1 .. limit
  PROVE  LET x == MatchAt(units, limit, i)
         IN  /\ x \in Matches /\ x.location = i - 1
             /\ x.location + x.length = EndOfTitle(units, limit, i) - 1
<1> DEFINE e == EndOfTitle(units, limit, i)
<1>1. e \in i .. limit + 1
  BY TitleEnds
<1> HIDE DEF e
<1>2. i - 1 \in Nat /\ e - i \in Nat /\ (i - 1) + (e - i) = e - 1
  BY <1>1
<1> QED
  BY <1>2 DEF MatchAt, Matches, e

LEMMA FoundNext ==
  ASSUME NEW q, NEW units, NEW limit \in Nat, NEW i \in 1 .. limit,
         FoundUpTo(q, units, limit, i - 1)
  PROVE  FoundUpTo(IF StartsTitle(units, i) THEN Append(q, MatchAt(units, limit, i)) ELSE q,
                   units, limit, i)
<1>1. /\ q \in Seq(Matches) /\ Len(q) <= i - 1 /\ DOMAIN q = 1 .. Len(q) /\ Len(q) \in Nat
      /\ \A k \in DOMAIN q : q[k] \in Matches /\ q[k].location \in Nat
  <2>1. q \in Seq(Matches) /\ Len(q) <= i - 1
    BY DEF FoundUpTo
  <2>2. DOMAIN q = 1 .. Len(q) /\ Len(q) \in Nat /\ \A k \in DOMAIN q : q[k] \in Matches
    BY <2>1
  <2>3. \A x \in Matches : x.location \in Nat
    BY DEF Matches
  <2> QED
    BY <2>1, <2>2, <2>3
<1>2. CASE ~StartsTitle(units, i)
  <2>1. ASSUME NEW k \in DOMAIN q PROVE q[k].location + 1 \in 1 .. i
    <3>1. q[k].location + 1 \in 1 .. i - 1
      BY DEF FoundUpTo
    <3> QED
      BY <3>1
  <2>2. \A j \in 1 .. i : j \in 1 .. i - 1 \/ j = i
    OBVIOUS
  <2>3. Len(q) <= i
    BY <1>1
  <2>4. FoundUpTo(q, units, limit, i)
    BY <1>2, <2>1, <2>2, <2>3 DEF FoundUpTo
  <2> QED
    BY <1>2, <2>4
<1>3. CASE StartsTitle(units, i)
  <2> DEFINE x == MatchAt(units, limit, i)
             n == Len(q)
             r == Append(q, x)
  <2>1. x \in Matches /\ x.location = i - 1
    BY MatchType
  <2>2. x = MatchAt(units, limit, x.location + 1)
    <3>1. x.location + 1 = i
      BY <2>1
    <3> QED
      BY <3>1
  <2> HIDE DEF x
  <2>3. /\ r \in Seq(Matches) /\ Len(r) = n + 1 /\ DOMAIN r = 1 .. n + 1
        /\ r[n + 1] = x /\ \A k \in DOMAIN q : r[k] = q[k]
    BY <1>1, <2>1
  <2>4. \A k \in DOMAIN r : k \in DOMAIN q \/ k = n + 1
    BY <1>1, <2>3
  <2> HIDE DEF r, n
  <2>5. \A k \in DOMAIN q : k < n + 1 /\ k \in DOMAIN r
    BY <1>1, <2>3 DEF n
  <2>6. ASSUME NEW k \in DOMAIN r
        PROVE  /\ r[k].location + 1 \in 1 .. i
               /\ StartsTitle(units, r[k].location + 1)
               /\ r[k] = MatchAt(units, limit, r[k].location + 1)
    <3>1. CASE k = n + 1
      <4>1. x.location + 1 = i
        BY <2>1
      <4> QED
        BY <1>3, <2>2, <2>3, <3>1, <4>1
    <3>2. CASE k \in DOMAIN q
      <4>1. /\ q[k].location + 1 \in 1 .. i - 1
            /\ StartsTitle(units, q[k].location + 1)
            /\ q[k] = MatchAt(units, limit, q[k].location + 1)
        BY <3>2 DEF FoundUpTo
      <4>2. q[k].location + 1 \in 1 .. i
        BY <4>1
      <4> QED
        BY <2>3, <3>2, <4>1, <4>2
    <3> QED
      BY <2>4, <3>1, <3>2
  <2>7. ASSUME NEW j \in DOMAIN r, NEW k \in DOMAIN r, j < k
        PROVE  r[j].location < r[k].location
    <3>1. j \in DOMAIN q
      <4>1. j # n + 1
        BY <2>3, <2>7
      <4> QED
        BY <2>4, <4>1
    <3>2. CASE k \in DOMAIN q
      <4>1. q[j].location < q[k].location
        BY <2>7, <3>1, <3>2 DEF FoundUpTo
      <4> QED
        BY <2>3, <3>1, <3>2, <4>1
    <3>3. CASE k = n + 1
      <4>1. q[j].location + 1 \in 1 .. i - 1 /\ q[j].location \in Nat
        BY <1>1, <3>1 DEF FoundUpTo
      <4>2. q[j].location < i - 1
        BY <4>1
      <4> QED
        BY <2>1, <2>3, <3>1, <3>3, <4>2
    <3> QED
      BY <2>4, <3>2, <3>3
  <2>8. ASSUME NEW j \in 1 .. i, StartsTitle(units, j)
        PROVE  \E k \in DOMAIN r : r[k].location = j - 1
    <3>1. CASE j = i
      <4>1. n + 1 \in DOMAIN r
        BY <1>1, <2>3 DEF n
      <4> QED
        BY <2>1, <2>3, <3>1, <4>1
    <3>2. CASE j # i
      <4>1. j \in 1 .. i - 1
        BY <3>2
      <4>2. PICK k \in DOMAIN q : q[k].location = j - 1
        BY <2>8, <4>1 DEF FoundUpTo
      <4> QED
        BY <2>3, <2>5, <4>2
    <3> QED
      BY <3>1, <3>2
  <2>9. Len(r) <= i
    BY <1>1, <2>3 DEF n
  <2>10. FoundUpTo(r, units, limit, i)
    BY <2>3, <2>6, <2>7, <2>8, <2>9 DEF FoundUpTo
  <2> QED
    BY <1>3, <2>10 DEF r, x
<1> QED
  BY <1>2, <1>3

\* The matches of a text are the starts of its titles, in their order.
LEMMA MatchesAreStarts ==
  ASSUME NEW text, Len(text) \in Nat
  PROVE  FoundUpTo(DoTitleMatch(text), UTF16(text), Len(text), Len(text))
<1> DEFINE n == Len(text)
           u == UTF16(text)
<1>1. PICK f : Finds(f, text)
  BY MatchFinds
<1> DEFINE Fine(i) == FoundUpTo(f[i], u, n, i)
           T == {i \in 0 .. n : ~Fine(i)}
<1>2. n \in Nat
  OBVIOUS
<1>3. ASSUME T # {} PROVE FALSE
  <2>1. PICK i \in T : \A j \in T : i <= j
    <3>1. T \in SUBSET Nat
      <4> HIDE DEF Fine
      <4> QED
        BY <1>2
    <3> HIDE DEF T
    <3> QED
      BY <1>3, <3>1, LeastNumber
  <2>2. i \in 0 .. n /\ i \in Nat /\ ~Fine(i)
    <3> HIDE DEF Fine
    <3> QED
      BY <1>2
  <2>3. CASE i = 0
    <3>1. f[i] = <<>>
      BY <1>1, <2>3 DEF Finds
    <3>2. <<>> \in Seq(Matches) /\ Len(<<>>) = 0 /\ DOMAIN <<>> = {}
      OBVIOUS
    <3>3. 1 .. i = {} /\ 0 <= i
      BY <2>3
    <3>4. FoundUpTo(<<>>, u, n, i)
      <4> HIDE DEF u, n
      <4> QED
        BY <3>2, <3>3 DEF FoundUpTo
    <3> QED
      BY <2>2, <3>1, <3>4
  <2>4. CASE i # 0
    <3>1. i \in 1 .. n /\ i - 1 \in 0 .. n /\ ~(i <= i - 1)
      BY <1>2, <2>2, <2>4
    <3>2. Fine(i - 1)
      <4> HIDE DEF Fine
      <4> QED
        BY <2>1, <3>1
    <3>3. f[i] = IF StartsTitle(u, i) THEN Append(f[i - 1], MatchAt(u, n, i)) ELSE f[i - 1]
      BY <1>1, <3>1 DEF Finds
    <3> HIDE DEF u, n
    <3>4. FoundUpTo(IF StartsTitle(u, i) THEN Append(f[i - 1], MatchAt(u, n, i)) ELSE f[i - 1],
                    u, n, i)
      BY <1>2, <3>1, <3>2, FoundNext
    <3> QED
      BY <2>2, <3>3, <3>4
  <2> QED
    BY <2>3, <2>4
<1>4. n \in 0 .. n /\ n \notin T
  BY <1>2, <1>3
<1>5. Fine(n)
  <2> HIDE DEF Fine
  <2> QED
    BY <1>4
<1> QED
  BY <1>1, <1>5 DEF Finds

\* A text with line ends of one unit only
Plain(text) == ~Contains(text, "rn")

LEMMA SingleCharacter ==
  ASSUME NEW text \in Seq(Characters), NEW i \in 1 .. Len(text)
  PROVE  SubSeq(text, i, i) = <<text[i]>>
<1>1. i \in Nat /\ 1 <= i /\ i <= i /\ i <= Len(text) /\ text[i] \in Characters
  OBVIOUS
<1>2. Part(SubSeq(text, i, i), text, i, i)
  BY <1>1, SubSeqPart
<1> DEFINE p == SubSeq(text, i, i)
<1> HIDE DEF p
<1>3. p \in Seq(Characters) /\ Len(p) = 1 /\ p[1] = text[i]
  <2>1. p \in Seq(Characters) /\ Len(p) = i - i + 1 /\ \A j \in 1 .. i - i + 1 : p[j] = text[i + j - 1]
    BY <1>2 DEF Part, p
  <2>2. i - i + 1 = 1 /\ 1 \in 1 .. i - i + 1 /\ i + 1 - 1 = i
    BY <1>1
  <2> QED
    BY <2>1, <2>2
<1>4. p = <<text[i]>>
  BY <1>3
<1> QED
  BY <1>4 DEF p

\* The units of a plain text are its characters.
LEMMA PlainUnits ==
  ASSUME NEW text \in Seq(Characters), Plain(text)
  PROVE  \A i \in 1 .. Len(text) : UTF16(text)[i] = text[i]
<1> SUFFICES ASSUME Len(text) # 0 PROVE UTF16(text) = text
  OBVIOUS
<1> DEFINE n == Len(text)
           parts == [i \in DOMAIN text |-> IF text[i] = "rn" THEN <<"r", "n">> ELSE <<text[i]>>]
<1>1. n \in Nat /\ n # 0 /\ DOMAIN text = 1 .. n
  OBVIOUS
<1>2. \A i \in 1 .. n : parts[i] = <<text[i]>>
  BY DEF Plain, Contains
<1>3. Len(parts) = n
  <2>1. DOMAIN parts = 1 .. n
    BY <1>1
  <2>2. parts \in [1 .. n -> {parts[i] : i \in 1 .. n}]
    BY <1>1
  <2>3. parts \in Seq({parts[i] : i \in 1 .. n})
    <3> HIDE DEF parts, n
    <3> QED
      BY <1>1, <2>2
  <2> HIDE DEF parts, n
  <2> QED
    BY <1>1, <2>1, <2>3
<1>4. UTF16(text) = FlattenSeq(parts)
  BY DEF UTF16
<1> HIDE DEF parts
<1>5. PICK f : Joins(f, parts)
  BY <1>1, <1>3, FlattenJoins
<1>6. f[1] = <<text[1]>> /\ FlattenSeq(parts) = f[n]
  BY <1>1, <1>2, <1>3, <1>5 DEF Joins
<1>7. ASSUME NEW i \in 2 .. n PROVE f[i] = f[i - 1] \o <<text[i]>>
  <2>1. f[i] = f[i - 1] \o parts[i]
    BY <1>3, <1>5 DEF Joins
  <2>2. i \in 1 .. n
    BY <1>1
  <2>3. parts[i] = <<text[i]>>
    BY <1>2, <2>2
  <2> QED
    BY <2>1, <2>3
<1> DEFINE T == {i \in 1 .. n : f[i] # SubSeq(text, 1, i)}
<1>8. ASSUME T # {} PROVE FALSE
  <2>1. PICK i \in T : \A j \in T : i <= j
    <3>1. T \in SUBSET Nat
      BY <1>1
    <3> HIDE DEF T
    <3> QED
      BY <1>8, <3>1, LeastNumber
  <2>2. i \in 1 .. n /\ i \in Nat /\ f[i] # SubSeq(text, 1, i)
    BY <1>1
  <2>3. SubSeq(text, i, i) = <<text[i]>>
    BY <2>2, SingleCharacter
  <2>4. CASE i = 1
    BY <1>6, <2>2, <2>3, <2>4
  <2>5. CASE i # 1
    <3>1. i \in 2 .. n /\ i - 1 \in 1 .. n /\ ~(i <= i - 1)
      BY <1>1, <2>2, <2>5
    <3>2. i - 1 \notin T
      <4> HIDE DEF T
      <4> QED
        BY <2>1, <3>1
    <3>3. f[i - 1] = SubSeq(text, 1, i - 1)
      BY <3>1, <3>2
    <3>4. i - 1 \in Nat /\ 1 <= i - 1 /\ i - 1 < i /\ i <= Len(text) /\ (i - 1) + 1 = i
          /\ 1 \in Nat /\ 1 <= 1
      BY <1>1, <3>1
    <3>5. SubSeq(text, 1, i - 1) \o SubSeq(text, (i - 1) + 1, i) = SubSeq(text, 1, i)
      BY <2>2, <3>4, PartsMeet
    <3> QED
      BY <1>7, <2>2, <2>3, <3>1, <3>3, <3>4, <3>5
  <2> QED
    BY <2>4, <2>5
<1>9. f[n] = SubSeq(text, 1, n)
  <2>1. n \in 1 .. n /\ n \notin T
    BY <1>1, <1>8
  <2> QED
    BY <2>1
<1>10. SubSeq(text, 1, n) = text
  <2> DEFINE p == SubSeq(text, 1, n)
  <2>1. Part(p, text, 1, n)
    <3>1. 1 \in Nat /\ 1 <= 1 /\ 1 <= n /\ n <= Len(text)
      BY <1>1
    <3> QED
      BY <1>1, <3>1, SubSeqPart
  <2> HIDE DEF p
  <2>2. p \in Seq(Characters) /\ Len(p) = n /\ \A i \in 1 .. n : p[i] = text[i]
    <3>1. n - 1 + 1 = n /\ \A i \in 1 .. n : 1 + i - 1 = i
      BY <1>1
    <3> HIDE DEF n
    <3> QED
      BY <2>1, <3>1 DEF Part
  <2>3. p = text
    <3>1. Len(p) = Len(text) /\ \A i \in 1 .. Len(p) : p[i] = text[i]
      BY <2>2
    <3> QED
      BY <2>2, <3>1, SeqEqual
  <2> QED
    BY <2>3 DEF p
<1> QED
  BY <1>4, <1>6, <1>9, <1>10
-----------------------------------------------------------------------------
(***************************************************************************)
(* Titles and chapters of a text                                           *)
(***************************************************************************)

\* The chapter of the k-th title of a text that is not empty
LEMMA ChapterInText ==
  ASSUME NEW text \in Seq(Characters), NEW k \in DOMAIN DoTitleMatch(text)
  PROVE  LET r == DoTitleMatch(text)
         IN  /\ Len(text) \in Nat /\ Len(r) \in Nat /\ Len(r) <= Len(text) /\ DOMAIN r = 1 .. Len(r)
             /\ r[k].location \in Nat /\ r[k].length \in Nat
             /\ EndLocation(text, r, k) \in Nat
             /\ r[k].location <= EndLocation(text, r, k)
             /\ EndLocation(text, r, k) < Len(text)
<1> DEFINE r == DoTitleMatch(text)
           n == Len(text)
<1>1. n \in Nat
  OBVIOUS
<1>2. FoundUpTo(r, UTF16(text), n, n)
  BY <1>1, MatchesAreStarts
<1> HIDE DEF r
<1>3. /\ r \in Seq(Matches) /\ Len(r) <= n
      /\ \A j \in DOMAIN r : r[j].location + 1 \in 1 .. n
      /\ \A i, j \in DOMAIN r : i < j => r[i].location < r[j].location
  BY <1>2 DEF FoundUpTo
<1>4. /\ Len(r) \in Nat /\ DOMAIN r = 1 .. Len(r)
      /\ \A j \in DOMAIN r : r[j].location \in Nat /\ r[j].length \in Nat /\ r[j].location < n
  <2>1. Len(r) \in Nat /\ DOMAIN r = 1 .. Len(r) /\ \A j \in DOMAIN r : r[j] \in Matches
    BY <1>3
  <2>2. ASSUME NEW j \in DOMAIN r
        PROVE  r[j].location \in Nat /\ r[j].length \in Nat /\ r[j].location < n
    <3>1. r[j].location \in Nat /\ r[j].length \in Nat
      BY <2>1 DEF Matches
    <3>2. r[j].location + 1 \in 1 .. n
      BY <1>3
    <3> QED
      BY <1>1, <3>1, <3>2
  <2> QED
    BY <2>1, <2>2
<1>5. k \in DOMAIN r
  BY DEF r
<1>6. CASE k = Len(r)
  <2>1. EndLocation(text, r, k) = n - 1
    BY <1>6 DEF EndLocation
  <2>2. n - 1 \in Nat /\ r[k].location <= n - 1 /\ n - 1 < n
    BY <1>1, <1>4, <1>5
  <2> QED
    BY <1>1, <1>3, <1>4, <1>5, <2>1, <2>2 DEF r
<1>7. CASE k # Len(r)
  <2>1. k + 1 \in DOMAIN r /\ k < k + 1
    BY <1>4, <1>5, <1>7
  <2>2. EndLocation(text, r, k) = r[k + 1].location - 1
    BY <1>7 DEF EndLocation
  <2>3. r[k].location < r[k + 1].location
    BY <1>3, <1>5, <2>1
  <2>4. /\ r[k + 1].location - 1 \in Nat /\ r[k].location <= r[k + 1].location - 1
        /\ r[k + 1].location - 1 < n
    BY <1>1, <1>4, <1>5, <2>1, <2>3
  <2> QED
    BY <1>1, <1>3, <1>4, <1>5, <2>2, <2>4 DEF r
<1> QED
  BY <1>6, <1>7

\* What is cut from a text is a text.
LEMMA SliceIsText ==
  ASSUME NEW text \in Texts, NEW a \in Nat, NEW b \in Nat, a <= b, b < Len(text)
  PROVE  /\ Slice(text, a, b) \in Texts /\ Len(Slice(text, a, b)) = b - a + 1
         /\ \A i \in 1 .. b - a + 1 : Slice(text, a, b)[i] = text[a + i]
<1>1. text \in Seq(Characters) /\ Len(text) \in Nat /\ Len(text) <= MaxLength
  BY TextIsSeq
<1>2. a + 1 \in Nat /\ b + 1 \in Nat /\ 1 <= a + 1 /\ a + 1 <= b + 1 /\ b + 1 <= Len(text)
  BY <1>1
<1> DEFINE p == SubSeq(text, a + 1, b + 1)
<1>3. Part(p, text, a + 1, b + 1)
  BY <1>1, <1>2, SubSeqPart
<1> HIDE DEF p
<1>4. p \in Seq(Characters) /\ Len(p) = b - a + 1 /\ \A i \in 1 .. b - a + 1 : p[i] = text[a + i]
  <2>1. (b + 1) - (a + 1) + 1 = b - a + 1 /\ \A i \in 1 .. b - a + 1 : (a + 1) + i - 1 = a + i
    OBVIOUS
  <2> QED
    BY <1>3, <2>1 DEF Part
<1>5. Len(p) <= MaxLength
  BY <1>1, <1>4, LengthAssumption
<1>6. p \in Texts
  BY <1>4, <1>5, TextIsSeq
<1> QED
  BY <1>4, <1>6 DEF Slice, p

\* A title that is cut is a text.
LEMMA TitleIsText ==
  ASSUME NEW text \in Texts, NEW k \in DOMAIN DoTitleMatch(text),
         TitleIsCut(text, DoTitleMatch(text)[k])
  PROVE  Slice(text, DoTitleMatch(text)[k].location,
               DoTitleMatch(text)[k].location + DoTitleMatch(text)[k].length) \in Texts
<1> DEFINE x == DoTitleMatch(text)[k]
<1>1. text \in Seq(Characters) /\ Len(text) \in Nat
  BY TextIsSeq
<1>2. x.location \in Nat /\ x.length \in Nat
  BY <1>1, ChapterInText
<1>3. x.location + x.length < Len(text)
  BY DEF TitleIsCut
<1> HIDE DEF x
<1>4. x.location + x.length \in Nat /\ x.location <= x.location + x.length
  BY <1>2
<1>5. Slice(text, x.location, x.location + x.length) \in Texts
  BY <1>2, <1>3, <1>4, SliceIsText
<1> QED
  BY <1>5 DEF x

\* In a plain text a line ends with a line feed.
LEMMA PlainLineEnd ==
  ASSUME NEW text \in Seq(Characters), Plain(text), NEW i \in 1 .. Len(text)
  PROVE  UTF16(text)[i] \in LineEnd <=> text[i] = "n"
<1>1. UTF16(text)[i] = text[i]
  BY PlainUnits
<1>2. text[i] \in Characters
  OBVIOUS
<1>3. text[i] # "r"
  BY <1>2 DEF Characters
<1> QED
  BY <1>1, <1>3 DEF LineEnd

\* Where a title of a plain text starts, and whether its line ends
LEMMA PlainTitle ==
  ASSUME NEW text \in Seq(Characters), Plain(text), NEW k \in DOMAIN DoTitleMatch(text)
  PROVE  LET x == DoTitleMatch(text)[k]
             i == x.location + 1
         IN  /\ i \in 1 .. Len(text) /\ text[i] = "T"
             /\ TitleIsCut(text, x) => \E e \in i .. Len(text) : text[e] = "n"
             /\ ~TitleIsCut(text, x) => \A e \in i .. Len(text) : text[e] # "n"
<1> DEFINE x == DoTitleMatch(text)[k]
           i == x.location + 1
           n == Len(text)
           u == UTF16(text)
           e == EndOfTitle(u, n, i)
<1>1. n \in Nat
  OBVIOUS
<1>2. FoundUpTo(DoTitleMatch(text), u, n, n)
  BY <1>1, MatchesAreStarts
<1>3. i \in 1 .. n /\ StartsTitle(u, i) /\ x = MatchAt(u, n, i)
  BY <1>2 DEF FoundUpTo
<1> HIDE DEF x, i
<1>4. text[i] = "T"
  <2>1. u[i] = text[i]
    BY <1>3, PlainUnits
  <2> QED
    BY <1>3, <2>1 DEF StartsTitle
<1>5. /\ e \in i .. n + 1
      /\ e # n + 1 => u[e] \in LineEnd
      /\ \A j \in i .. n : u[j] \in LineEnd => e <= j
  BY <1>1, <1>3, TitleEnds
<1>6. x.location + x.length = e - 1
  BY <1>1, <1>3, MatchType
<1> HIDE DEF e
<1>7. \A j \in i .. n : j \in 1 .. n /\ (u[j] \in LineEnd <=> text[j] = "n")
  <2>1. \A j \in i .. n : j \in 1 .. n
    BY <1>3
  <2> QED
    BY <2>1, PlainLineEnd
<1>8. ASSUME TitleIsCut(text, x) PROVE \E j \in i .. n : text[j] = "n"
  <2>1. e - 1 < n
    BY <1>6, <1>8 DEF TitleIsCut
  <2>2. e \in i .. n /\ e # n + 1
    BY <1>1, <1>3, <1>5, <2>1
  <2> QED
    BY <1>5, <1>7, <2>2
<1>9. ASSUME ~TitleIsCut(text, x), NEW j \in i .. n, text[j] = "n" PROVE FALSE
  <2>1. ~(e - 1 < n)
    BY <1>6, <1>9 DEF TitleIsCut
  <2>2. e <= j
    BY <1>5, <1>7, <1>9
  <2> QED
    BY <1>1, <1>3, <1>5, <2>1, <2>2
<1> QED
  BY <1>3, <1>4, <1>8, <1>9 DEF x, i

\* A text that can be displayed as a chapter: plain, with a title in front whose line ends
Heading(text) ==
  /\ text \in Texts /\ Plain(text)
  /\ 1 \in DOMAIN text /\ text[1] = "T"
  /\ \E e \in DOMAIN text : text[e] = "n"

\* A chapter of a plain text whose title is cut is a heading with its text.
LEMMA ChapterIsHeading ==
  ASSUME NEW text \in Texts, Plain(text), NEW k \in DOMAIN DoTitleMatch(text),
         TitleIsCut(text, DoTitleMatch(text)[k])
  PROVE  LET r == DoTitleMatch(text)
         IN  Heading(Slice(text, r[k].location, EndLocation(text, r, k)))
<1> DEFINE r == DoTitleMatch(text)
           a == r[k].location
           b == EndLocation(text, r, k)
           p == Slice(text, a, b)
           n == Len(text)
           u == UTF16(text)
<1>1. text \in Seq(Characters) /\ n \in Nat
  BY TextIsSeq
<1>2. a \in Nat /\ b \in Nat /\ a <= b /\ b < n /\ Len(r) \in Nat /\ DOMAIN r = 1 .. Len(r)
  BY <1>1, ChapterInText
<1>3. /\ a + 1 \in 1 .. n /\ text[a + 1] = "T"
      /\ \E e \in a + 1 .. n : text[e] = "n"
  BY <1>1, PlainTitle
<1>4. /\ \A j \in DOMAIN r : /\ StartsTitle(u, r[j].location + 1) /\ r[j].location + 1 \in 1 .. n
                             /\ r[j].location \in Nat
      /\ k + 1 \in DOMAIN r => a < r[k + 1].location
  <2>1. FoundUpTo(r, u, n, n)
    BY <1>1, MatchesAreStarts
  <2> HIDE DEF r, u, n
  <2>2. /\ r \in Seq(Matches)
        /\ \A j \in DOMAIN r : StartsTitle(u, r[j].location + 1) /\ r[j].location + 1 \in 1 .. n
        /\ \A i, j \in DOMAIN r : i < j => r[i].location < r[j].location
    BY <2>1 DEF FoundUpTo
  <2>4. \A j \in DOMAIN r : r[j] \in Matches
    BY <2>2
  <2>5. \A j \in DOMAIN r : r[j].location \in Nat
    BY <2>4 DEF Matches
  <2>3. k \in DOMAIN r /\ k \in Nat /\ k < k + 1
    BY <1>2 DEF r
  <2> QED
    BY <2>2, <2>3, <2>5
<1>5. k \in DOMAIN r
  OBVIOUS
<1>6. b = IF k = Len(r) THEN n - 1 ELSE r[k + 1].location - 1
  BY DEF EndLocation
<1>7. /\ p \in Texts /\ Len(p) = b - a + 1
      /\ \A i \in 1 .. b - a + 1 : p[i] = text[a + i]
  BY <1>2, SliceIsText
<1> HIDE DEF r, a, b, p, u
<1>8. \E e \in a + 1 .. b + 1 : text[e] = "n"
  <2>1. CASE k = Len(r)
    <3>1. b + 1 = n
      BY <1>1, <1>6, <2>1
    <3> QED
      BY <1>3, <3>1
  <2>2. CASE k # Len(r)
    <3> DEFINE v == r[k + 1].location
               c == v + 1
    <3>1. k + 1 \in DOMAIN r
      BY <1>2, <1>5, <2>2
    <3>2. c \in 1 .. n /\ StartsTitle(u, c) /\ b + 2 = c /\ a + 1 \in 1 .. c - 1
      <4>1. v + 1 \in 1 .. n /\ StartsTitle(u, v + 1) /\ a < v
        BY <1>4, <3>1
      <4>2. b = v - 1
        BY <1>6, <2>2
      <4>3. v \in Nat
        BY <1>4, <3>1
      <4> HIDE DEF v
      <4>4. b + 2 = v + 1 /\ a + 1 \in 1 .. (v + 1) - 1
        BY <1>2, <4>1, <4>2, <4>3
      <4> QED
        BY <4>1, <4>4
    <3> HIDE DEF c
    <3>3. u[a + 1] = "T"
      BY <1>1, <1>3, PlainUnits DEF u
    <3>4. PICK j \in a + 1 .. c : u[j] \in LineEnd
      BY <3>2, <3>3 DEF StartsTitle
    <3>5. u[c] \notin LineEnd
      BY <3>2 DEF StartsTitle, LineEnd
    <3>6. j \in a + 1 .. b + 1 /\ j \in 1 .. n
      BY <1>2, <3>2, <3>4, <3>5
    <3>7. text[j] = "n"
      BY <1>1, <3>4, <3>6, PlainLineEnd DEF u
    <3> QED
      BY <3>6, <3>7
  <2> QED
    BY <2>1, <2>2
<1>9. DOMAIN p = 1 .. b - a + 1
  <2>1. p \in Seq(Characters)
    BY <1>7, TextIsSeq
  <2> QED
    BY <1>7, <2>1
<1>10. 1 \in DOMAIN p /\ p[1] = "T"
  BY <1>2, <1>3, <1>7, <1>9
<1>11. \E e \in DOMAIN p : p[e] = "n"
  <2>1. PICK e \in a + 1 .. b + 1 : text[e] = "n"
    BY <1>8
  <2>2. e - a \in 1 .. b - a + 1 /\ a + (e - a) = e
    BY <1>2, <2>1
  <2>3. p[e - a] = "n"
    BY <1>7, <2>1, <2>2
  <2> QED
    BY <1>9, <2>2, <2>3
<1>12. Plain(p)
  <2> SUFFICES ASSUME NEW i \in 1 .. Len(p), p[i] = "rn" PROVE FALSE
    BY DEF Plain, Contains
  <2>1. text[a + i] = "rn" /\ a + i \in 1 .. n
    BY <1>1, <1>2, <1>7
  <2> QED
    BY <2>1 DEF Plain, Contains
<1>13. Heading(p)
  BY <1>7, <1>10, <1>11, <1>12 DEF Heading
<1> QED
  BY <1>13 DEF p, a, b, r

\* Such a text is displayed: its title is not empty, and something comes after it.
LEMMA HeadingIsDisplayed ==
  ASSUME NEW text, Heading(text)
  PROVE  IsDisplayed(text)
<1> DEFINE r == DoTitleMatch(text)
           n == Len(text)
           u == UTF16(text)
<1>1. text \in Seq(Characters) /\ n \in Nat /\ DOMAIN text = 1 .. n /\ Plain(text)
  BY TextIsSeq DEF Heading
<1>2. 1 \in 1 .. n /\ text[1] = "T"
  BY <1>1 DEF Heading
<1>3. StartsTitle(u, 1)
  <2>1. u[1] = "T"
    BY <1>1, <1>2, PlainUnits
  <2>2. 1 .. (1 - 1) = {}
    OBVIOUS
  <2> QED
    BY <2>1, <2>2 DEF StartsTitle
<1>4. FoundUpTo(r, u, n, n)
  BY <1>1, MatchesAreStarts
<1> HIDE DEF r, u
<1>5. /\ r \in Seq(Matches)
      /\ \A k \in DOMAIN r : r[k] = MatchAt(u, n, r[k].location + 1) /\ r[k].location + 1 \in 1 .. n
      /\ \A j, k \in DOMAIN r : j < k => r[j].location < r[k].location
  BY <1>4 DEF FoundUpTo
<1>6. Len(r) \in Nat /\ DOMAIN r = 1 .. Len(r) /\ \A k \in DOMAIN r : r[k].location \in Nat
  <2>1. Len(r) \in Nat /\ DOMAIN r = 1 .. Len(r) /\ \A k \in DOMAIN r : r[k] \in Matches
    BY <1>5
  <2>2. \A k \in DOMAIN r : r[k].location \in Nat
    BY <2>1 DEF Matches
  <2> QED
    BY <2>1, <2>2
<1>7. PICK k \in DOMAIN r : r[k].location = 0
  <2>1. \E k \in DOMAIN r : r[k].location = 1 - 1
    BY <1>2, <1>3, <1>4 DEF FoundUpTo
  <2> QED
    BY <2>1
<1>8. k = 1
  <2> SUFFICES ASSUME k # 1 PROVE FALSE
    OBVIOUS
  <2>1. 1 \in DOMAIN r /\ 1 < k
    BY <1>6, <1>7
  <2>2. r[1].location < 0
    BY <1>5, <1>7, <2>1
  <2> QED
    BY <1>6, <2>1, <2>2
<1>9. r # <<>> /\ r[1].location = 0 /\ r[1] = MatchAt(u, n, 1)
  <2>1. 1 \in DOMAIN r /\ r[1].location = 0
    BY <1>7, <1>8
  <2>2. r[1] = MatchAt(u, n, r[1].location + 1) /\ r[1].location + 1 = 1
    BY <1>5, <2>1
  <2>3. r # <<>>
    BY <2>1
  <2> QED
    BY <2>1, <2>2, <2>3
<1> DEFINE e == EndOfTitle(u, n, 1)
<1>10. /\ e \in 1 .. n + 1
       /\ e # n + 1 => u[e] \in LineEnd
       /\ \A j \in 1 .. n : u[j] \in LineEnd => e <= j
  BY <1>1, <1>2, TitleEnds
<1>11. r[1].location + r[1].length = e - 1
  BY <1>1, <1>2, <1>9, MatchType
<1> HIDE DEF e
<1>12. e <= n
  <2>1. PICK j \in 1 .. n : text[j] = "n"
    BY <1>1 DEF Heading
  <2>2. u[j] \in LineEnd
    BY <1>1, <2>1, PlainLineEnd DEF u
  <2>3. e <= j
    BY <1>10, <2>2
  <2> QED
    BY <1>1, <1>10, <2>3
<1>13. e # 1
  <2>1. u[1] = "T"
    BY <1>3 DEF StartsTitle
  <2> QED
    BY <1>1, <1>2, <1>10, <2>1 DEF LineEnd
<1>14. TitleRange(text) = r[1]
  BY <1>9 DEF TitleRange, r
<1>15. e - 1 >= 1 /\ (e - 1) - 1 < n - 1
  BY <1>1, <1>10, <1>12, <1>13
<1> DEFINE range == TitleRange(text)
<1>16. range.location \in Nat /\ range.length \in Nat /\ range.location + range.length = e - 1
  <2>1. r[1] \in Matches
    BY <1>5, <1>7, <1>8
  <2>2. range.location \in Nat /\ range.length \in Nat
    BY <1>14, <2>1 DEF Matches
  <2> QED
    BY <1>11, <1>14, <2>2
<1> HIDE DEF range
<1>17. range.location + range.length >= 1 /\ range.location + range.length - 1 < Len(text) - 1
  BY <1>1, <1>15, <1>16
<1> QED
  BY <1>17 DEF IsDisplayed, range

\* A plain text in which no title is found has none.
LEMMA PlainWithoutTitle ==
  ASSUME NEW text \in Seq(Characters), Plain(text), DoTitleMatch(text) = <<>>
  PROVE  ~Contains(text, "T")
<1> DEFINE n == Len(text)
           u == UTF16(text)
           T == {i \in 1 .. n : text[i] = "T"}
<1>1. n \in Nat
  OBVIOUS
<1>2. ASSUME T # {} PROVE FALSE
  <2>1. PICK i \in T : \A j \in T : i <= j
    <3>1. T \in SUBSET Nat
      BY <1>1
    <3> HIDE DEF T
    <3> QED
      BY <1>2, <3>1, LeastNumber
  <2>2. i \in 1 .. n /\ text[i] = "T"
    OBVIOUS
  <2>3. \A j \in 1 .. n : u[j] = text[j]
    BY PlainUnits
  <2> HIDE DEF u
  <2>4. StartsTitle(u, i)
    <3>1. ASSUME NEW j \in 1 .. (i - 1), u[j] = "T" PROVE FALSE
      <4>1. j \in 1 .. n /\ ~(i <= j)
        BY <1>1, <2>2
      <4>2. j \in T
        BY <2>3, <3>1, <4>1
      <4> QED
        BY <2>1, <4>1, <4>2
    <3> QED
      BY <2>2, <2>3, <3>1 DEF StartsTitle
  <2>5. FoundUpTo(<<>>, u, n, n)
    BY <1>1, MatchesAreStarts DEF u
  <2>6. \E k \in DOMAIN <<>> : <<>>[k].location = i - 1
    BY <2>2, <2>4, <2>5 DEF FoundUpTo
  <2> QED
    BY <2>6
<1> QED
  BY <1>2 DEF Contains

\* The titles that are cut before the first one that cannot be
LEMMA CutIsPrefix ==
  ASSUME NEW n \in Nat, NEW c \in SUBSET (1 .. n),
         \A k \in c : \A j \in 1 .. k : j \in c
  PROVE  /\ Cardinality(c) \in 0 .. n /\ c = 1 .. Cardinality(c)
<1>1. CASE c = 1 .. n
  <2>1. Cardinality(1 .. n) = n
    BY FS_Interval
  <2> QED
    BY <1>1, <2>1
<1>2. CASE c # 1 .. n
  <2> DEFINE T == {k \in 1 .. n : k \notin c}
  <2>1. T \in SUBSET Nat /\ T # {}
    <3>1. PICK k \in 1 .. n : k \notin c
      BY <1>2
    <3>2. k \in T
      BY <3>1
    <3> QED
      BY <3>2
  <2>2. PICK k \in T : \A j \in T : k <= j
    <3> HIDE DEF T
    <3> QED
      BY <2>1, LeastNumber
  <2>3. k \in 1 .. n /\ k \notin c
    OBVIOUS
  <2>4. c = 1 .. k - 1
    <3>1. ASSUME NEW j \in 1 .. k - 1 PROVE j \in c
      <4>1. j \in 1 .. n /\ ~(k <= j)
        BY <2>3
      <4> QED
        BY <2>2, <4>1
    <3>2. ASSUME NEW j \in c PROVE j \in 1 .. k - 1
      <4>1. j \in 1 .. n
        OBVIOUS
      <4>2. ~(k \in 1 .. j)
        BY <2>3
      <4> QED
        BY <2>3, <4>1, <4>2
    <3> QED
      BY <3>1, <3>2
  <2>5. Cardinality(1 .. k - 1) = k - 1
    <3>1. 1 \in Int /\ k - 1 \in Int /\ (k - 1) - 1 + 1 = k - 1
      BY <2>3
    <3>2. Cardinality(1 .. k - 1) = IF 1 > k - 1 THEN 0 ELSE (k - 1) - 1 + 1
      BY <3>1, FS_Interval
    <3> QED
      BY <2>3, <3>1, <3>2
  <2>6. k - 1 \in 0 .. n
    BY <2>3
  <2> QED
    BY <2>4, <2>5, <2>6
<1> QED
  BY <1>1, <1>2
-----------------------------------------------------------------------------
(***************************************************************************)
(* The inductive invariant                                                 *)
(***************************************************************************)

\* Every file is a chapter that can be displayed.
FilesAreHeadings == ~mixed => \A k \in DOMAIN files : files[k] # None => Heading(files[k])

\* Every chapter of the book has its file.
BookIsWritten ==
  book.result = "book" => \A k \in DOMAIN book.titles : k \in DOMAIN files /\ files[k] # None

\* The parser stops at a text without a title, or at a title with nothing after it.
TrapHasReason ==
  book.result = "trap" =>
    LET results == DoTitleMatch(content)
    IN  results = <<>> \/ \E k \in DOMAIN results : ~TitleIsCut(content, results[k])

TxtInv ==
  /\ TypeOK /\ DOMAIN files = 1 .. MaxLength /\ mixed \in BOOLEAN
  /\ FilesAreHeadings /\ BookIsWritten /\ TrapHasReason

LEMMA EmptyIsText == None \in Texts /\ DOMAIN None = {}
<1>1. <<>> \in Seq(Characters) /\ Len(<<>>) = 0 /\ DOMAIN <<>> = {}
  OBVIOUS
<1>2. 0 <= MaxLength
  BY LengthAssumption
<1> QED
  BY <1>1, <1>2, TextIsSeq DEF None

LEMMA TxtInit == Init => TxtInv
<1> SUFFICES ASSUME Init PROVE TxtInv
  OBVIOUS
<1>1. DOMAIN files = 1 .. MaxLength /\ \A k \in DOMAIN files : files[k] = None
  BY DEF Init
<1>2. book.result = "none" /\ book.titles = <<>> /\ DOMAIN <<>> = {}
  BY DEF Init, NoBook
<1>3. TypeOK
  BY <1>1, <1>2, EmptyIsText DEF TypeOK, Init
<1>4. mixed \in BOOLEAN
  BY DEF Init
<1> QED
  BY <1>1, <1>2, <1>3, <1>4 DEF TxtInv, FilesAreHeadings, BookIsWritten, TrapHasReason

\* What parseBook does: the titles up to the c-th are cut, and their files are there then.
Parses(r, c) ==
  /\ r = DoTitleMatch(content) /\ content \in Texts /\ content' = content
  /\ Len(r) \in Nat /\ DOMAIN r = 1 .. Len(r) /\ Len(r) <= MaxLength
  /\ c \in 0 .. Len(r) /\ \A k \in 1 .. c : TitleIsCut(content, r[k])
  /\ c < Len(r) => \E k \in DOMAIN r : ~TitleIsCut(content, r[k])
  /\ DOMAIN files' = DOMAIN files /\ files' = [k \in DOMAIN files |-> files'[k]]
  /\ \A k \in DOMAIN files :
        files'[k] = IF k > c \/ files[k] # None THEN files[k]
                    ELSE Slice(content, r[k].location, EndLocation(content, r, k))
  /\ book' = IF r = <<>> \/ c < Len(r)
             THEN [result |-> "trap", titles |-> <<>>]
             ELSE [result |-> "book",
                   titles |-> [k \in DOMAIN r |->
                                  Slice(content, r[k].location, r[k].location + r[k].length)]]
  /\ mixed' = (mixed \/ Contains(content, "rn"))

LEMMA ParseParses == TypeOK /\ Parse => \E r, c : Parses(r, c)
<1> SUFFICES ASSUME TypeOK, Parse PROVE \E r, c : Parses(r, c)
  OBVIOUS
<1> DEFINE r == DoTitleMatch(content)
           cut == {k \in DOMAIN r : \A j \in 1 .. k : TitleIsCut(content, r[j])}
           c == Cardinality(cut)
<1>1. content \in Texts /\ content \in Seq(Characters)
      /\ Len(content) \in Nat /\ Len(content) <= MaxLength
  BY TextIsSeq DEF TypeOK
<1>2. Len(r) \in Nat /\ DOMAIN r = 1 .. Len(r) /\ Len(r) <= MaxLength
  <2>1. FoundUpTo(r, UTF16(content), Len(content), Len(content))
    BY <1>1, MatchesAreStarts
  <2> HIDE DEF r
  <2>2. r \in Seq(Matches) /\ Len(r) <= Len(content)
    BY <2>1 DEF FoundUpTo
  <2> QED
    BY <1>1, <2>2, LengthAssumption
<1>3. /\ content' = content
      /\ files' = Written(content, r, c)
      /\ book' = IF r = <<>> \/ c < Len(r)
                 THEN [result |-> "trap", titles |-> <<>>]
                 ELSE [result |-> "book",
                       titles |-> [k \in DOMAIN r |->
                                      Slice(content, r[k].location, r[k].location + r[k].length)]]
      /\ mixed' = (mixed \/ Contains(content, "rn"))
  BY DEF Parse
<1> HIDE DEF r
<1>4. c \in 0 .. Len(r) /\ cut = 1 .. c
  <2>1. cut \in SUBSET (1 .. Len(r))
    BY <1>2
  <2>2. ASSUME NEW k \in cut, NEW j \in 1 .. k PROVE j \in cut
    <3>1. k \in 1 .. Len(r) /\ \A i \in 1 .. k : TitleIsCut(content, r[i])
      BY <1>2
    <3>2. j \in DOMAIN r /\ \A i \in 1 .. j : i \in 1 .. k
      BY <1>2, <2>2, <3>1
    <3> QED
      BY <3>1, <3>2
  <2>3. \A k \in cut : \A j \in 1 .. k : j \in cut
    BY <2>2
  <2> HIDE DEF cut
  <2> QED
    BY <1>2, <2>1, <2>3, CutIsPrefix
<1> HIDE DEF c
<1>5. ASSUME NEW k \in 1 .. c PROVE TitleIsCut(content, r[k])
  <2>1. k \in cut /\ k \in 1 .. k
    BY <1>4
  <2> QED
    BY <2>1
<1>6. ASSUME c < Len(r) PROVE \E k \in DOMAIN r : ~TitleIsCut(content, r[k])
  <2>1. c + 1 \in DOMAIN r /\ c + 1 \notin 1 .. c
    BY <1>2, <1>4, <1>6
  <2>2. PICK j \in 1 .. c + 1 : ~TitleIsCut(content, r[j])
    BY <1>4, <2>1
  <2>3. j \in DOMAIN r
    BY <1>2, <1>4, <2>1
  <2> QED
    BY <2>2, <2>3
<1> HIDE DEF cut
<1>7. DOMAIN files' = DOMAIN files /\ files' = [k \in DOMAIN files |-> files'[k]]
      /\ \A k \in DOMAIN files :
           files'[k] = IF k > c \/ files[k] # None THEN files[k]
                       ELSE Slice(content, r[k].location, EndLocation(content, r, k))
  BY <1>3 DEF Written
<1>8. Parses(r, c)
  BY <1>1, <1>2, <1>3, <1>4, <1>5, <1>6, <1>7 DEF Parses, r
<1> QED
  BY <1>8

\* A file that is written is a chapter.
LEMMA NewFile ==
  ASSUME NEW r, NEW c, Parses(r, c), TypeOK, DOMAIN files = 1 .. MaxLength,
         NEW k \in DOMAIN files, ~(k > c), files[k] = None
  PROVE  /\ k \in DOMAIN r /\ files'[k] \in Texts /\ files'[k] # None
         /\ files'[k] = Slice(content, r[k].location, EndLocation(content, r, k))
         /\ Plain(content) => Heading(files'[k])
<1>1. k \in 1 .. c /\ k \in DOMAIN r
  BY LengthAssumption DEF Parses
<1>2. /\ content \in Texts /\ content \in Seq(Characters)
      /\ files'[k] = Slice(content, r[k].location, EndLocation(content, r, k))
      /\ TitleIsCut(content, r[k]) /\ r = DoTitleMatch(content)
  BY <1>1, TextIsSeq DEF Parses
<1> DEFINE a == r[k].location
           b == EndLocation(content, r, k)
           p == Slice(content, a, b)
<1>3. a \in Nat /\ b \in Nat /\ a <= b /\ b < Len(content)
  BY <1>1, <1>2, ChapterInText
<1>4. p \in Texts /\ Len(p) = b - a + 1
  <2> HIDE DEF a, b
  <2> QED
    BY <1>2, <1>3, SliceIsText
<1>5. p # None
  <2>1. b - a + 1 # 0
    BY <1>3
  <2> HIDE DEF p, a, b
  <2> QED
    BY <1>4, <2>1 DEF None
<1>6. Plain(content) => Heading(p)
  BY <1>1, <1>2, ChapterIsHeading
<1> QED
  BY <1>1, <1>2, <1>4, <1>5, <1>6

LEMMA ParseKeeps == TxtInv /\ Parse => TxtInv'
<1> SUFFICES ASSUME TxtInv, Parse PROVE TxtInv'
  OBVIOUS
<1>1. TypeOK /\ DOMAIN files = 1 .. MaxLength
  BY DEF TxtInv
<1>2. PICK r, c : Parses(r, c)
  BY <1>1, ParseParses
<1>3. /\ r = DoTitleMatch(content) /\ content \in Texts /\ content' = content
      /\ Len(r) \in Nat /\ DOMAIN r = 1 .. Len(r) /\ Len(r) <= MaxLength
      /\ c \in 0 .. Len(r) /\ \A k \in 1 .. c : TitleIsCut(content, r[k])
      /\ c < Len(r) => \E k \in DOMAIN r : ~TitleIsCut(content, r[k])
      /\ DOMAIN files' = DOMAIN files
      /\ mixed' = (mixed \/ Contains(content, "rn"))
  BY <1>2 DEF Parses
<1>4. \A k \in DOMAIN files : k > c \/ files[k] # None => files'[k] = files[k]
  BY <1>2 DEF Parses
<1>5. \A k \in DOMAIN files : ~(k > c) /\ files[k] = None =>
         files'[k] \in Texts /\ files'[k] # None /\ (Plain(content) => Heading(files'[k]))
  BY <1>1, <1>2, NewFile
<1>6. ASSUME r = <<>> \/ c < Len(r)
      PROVE  /\ book'.result \in {"none", "book", "trap"}
             /\ \A k \in DOMAIN book'.titles : book'.titles[k] \in Texts
             /\ BookIsWritten' /\ TrapHasReason'
  <2>1. book'.result = "trap" /\ book'.titles = <<>> /\ DOMAIN <<>> = {}
    BY <1>2, <1>6 DEF Parses
  <2>2. \A k \in DOMAIN book'.titles : book'.titles[k] \in Texts
    BY <2>1
  <2>3. BookIsWritten'
    BY <2>1 DEF BookIsWritten
  <2>4. TrapHasReason'
    BY <1>3, <1>6 DEF TrapHasReason
  <2> QED
    BY <2>1, <2>2, <2>3, <2>4
<1>7. ASSUME ~(r = <<>> \/ c < Len(r))
      PROVE  /\ book'.result \in {"none", "book", "trap"}
             /\ \A k \in DOMAIN book'.titles : book'.titles[k] \in Texts
             /\ BookIsWritten' /\ TrapHasReason'
  <2>1. book'.result = "book" /\ DOMAIN book'.titles = DOMAIN r /\ c = Len(r)
    BY <1>2, <1>3, <1>7 DEF Parses
  <2>2. ASSUME NEW k \in DOMAIN r PROVE book'.titles[k] \in Texts
    <3>1. book'.titles[k] = Slice(content, r[k].location, r[k].location + r[k].length)
      BY <1>2, <1>7 DEF Parses
    <3>2. TitleIsCut(content, r[k])
      BY <1>3, <2>1
    <3> QED
      BY <1>3, <3>1, <3>2, TitleIsText
  <2>3. BookIsWritten'
    <3>1. ASSUME NEW k \in DOMAIN r PROVE k \in DOMAIN files' /\ files'[k] # None
      <4>1. k \in DOMAIN files /\ ~(k > c)
        BY <1>1, <1>3, <2>1, LengthAssumption
      <4> QED
        BY <1>3, <1>4, <1>5, <4>1
    <3> QED
      BY <2>1, <3>1 DEF BookIsWritten
  <2>4. TrapHasReason'
    BY <2>1 DEF TrapHasReason
  <2> QED
    BY <2>1, <2>2, <2>3, <2>4
<1>8. /\ book'.result \in {"none", "book", "trap"}
      /\ \A k \in DOMAIN book'.titles : book'.titles[k] \in Texts
      /\ BookIsWritten' /\ TrapHasReason'
  BY <1>6, <1>7
<1>9. TypeOK'
  <2>1. \A k \in DOMAIN files' : files'[k] \in Texts
    BY <1>1, <1>3, <1>4, <1>5 DEF TypeOK
  <2> QED
    BY <1>3, <1>8, <2>1 DEF TypeOK
<1>10. FilesAreHeadings'
  <2> SUFFICES ASSUME ~mixed', NEW k \in DOMAIN files', files'[k] # None PROVE Heading(files'[k])
    BY DEF FilesAreHeadings
  <2>1. ~mixed /\ Plain(content) /\ k \in DOMAIN files
    BY <1>3 DEF Plain
  <2>2. CASE k > c \/ files[k] # None
    <3>1. files'[k] = files[k]
      BY <1>4, <2>1, <2>2
    <3> QED
      BY <2>1, <3>1 DEF TxtInv, FilesAreHeadings
  <2>3. CASE ~(k > c) /\ files[k] = None
    BY <1>5, <2>1, <2>3
  <2> QED
    BY <2>2, <2>3
<1>11. mixed' \in BOOLEAN
  <2>1. mixed \in BOOLEAN /\ Contains(content, "rn") \in BOOLEAN
    BY DEF TxtInv, Contains
  <2> QED
    BY <1>3, <2>1
<1> QED
  BY <1>1, <1>3, <1>8, <1>9, <1>10, <1>11 DEF TxtInv
LEMMA OthersKeep == TxtInv /\ (Close \/ NewEdition \/ UNCHANGED vars) => TxtInv'
<1> SUFFICES ASSUME TxtInv, Close \/ NewEdition \/ UNCHANGED vars PROVE TxtInv'
  OBVIOUS
<1>1. TypeOK /\ DOMAIN files = 1 .. MaxLength /\ mixed \in BOOLEAN
      /\ FilesAreHeadings /\ BookIsWritten /\ TrapHasReason
  BY DEF TxtInv
<1>2. CASE Close
  <2>1. /\ content' = content /\ files' = files /\ mixed' = mixed
        /\ book'.result = "none" /\ book'.titles = <<>> /\ DOMAIN <<>> = {}
    BY <1>2 DEF Close, NoBook
  <2>2. TypeOK'
    BY <1>1, <2>1 DEF TypeOK
  <2> QED
    BY <1>1, <2>1, <2>2 DEF TxtInv, FilesAreHeadings, BookIsWritten, TrapHasReason
<1>3. CASE NewEdition
  <2>1. /\ content' \in Texts /\ files' = files /\ mixed' = mixed /\ book' = book
        /\ book.result = "none"
    BY <1>3 DEF NewEdition, NoBook
  <2>2. TypeOK'
    BY <1>1, <2>1 DEF TypeOK
  <2> QED
    BY <1>1, <2>1, <2>2 DEF TxtInv, FilesAreHeadings, BookIsWritten, TrapHasReason
<1>4. CASE UNCHANGED vars
  <2>1. content' = content /\ files' = files /\ mixed' = mixed /\ book' = book
    BY <1>4 DEF vars
  <2>2. TypeOK'
    BY <1>1, <2>1 DEF TypeOK
  <2> QED
    BY <1>1, <2>1, <2>2 DEF TxtInv, FilesAreHeadings, BookIsWritten, TrapHasReason
<1> QED
  BY <1>2, <1>3, <1>4

-----------------------------------------------------------------------------
(***************************************************************************)
(* The chapters of a new directory                                         *)
(***************************************************************************)

\* Where the k-th file of a new directory ends in the text
EndOfFile(r, k) == IF k <= Len(r) THEN EndLocation(content, r, k) + 1 ELSE Len(content)

\* The files of a new directory, joined, are the text from the cut of its first title on.
LEMMA FilesAreText ==
  ASSUME TxtInv, NEW r, NEW c, Parses(r, c), \A k \in DOMAIN files : files[k] = None,
         book'.result = "book"
  PROVE  FlattenSeq(files') = Slice(content, r[1].location, Len(content) - 1)
<1> DEFINE n == Len(r)
           a == r[1].location
           g == files'
           E(k) == EndOfFile(r, k)
<1>1. /\ n \in Nat /\ DOMAIN r = 1 .. n /\ n <= MaxLength /\ r = DoTitleMatch(content)
      /\ content \in Seq(Characters) /\ Len(content) \in Nat
      /\ DOMAIN files = 1 .. MaxLength /\ DOMAIN g = 1 .. MaxLength
  BY TextIsSeq DEF Parses, TxtInv
<1>2. r # <<>> /\ c = n /\ n # 0
  <2>1. r # <<>> /\ ~(c < n)
    BY DEF Parses
  <2>2. c \in 0 .. n
    BY DEF Parses
  <2>3. n # 0
    <3>1. r \in Seq(Matches)
      <4>1. FoundUpTo(r, UTF16(content), Len(content), Len(content))
        BY <1>1, MatchesAreStarts
      <4> QED
        BY <4>1 DEF FoundUpTo
    <3> QED
      BY <2>1, <3>1
  <2>4. n \in Nat
    BY <1>1
  <2> HIDE DEF n
  <2>5. c = n
    BY <2>1, <2>2, <2>4
  <2> QED
    BY <2>1, <2>3, <2>5
<1>3. \A k \in 1 .. n : g[k] = Slice(content, r[k].location, EndLocation(content, r, k))
  <2>1. ASSUME NEW k \in 1 .. n
        PROVE  g[k] = Slice(content, r[k].location, EndLocation(content, r, k))
    <3>1. k \in DOMAIN files /\ ~(k > c) /\ files[k] = None
      BY <1>1, <1>2, LengthAssumption
    <3>2. TypeOK
      BY DEF TxtInv
    <3> QED
      BY <1>1, <3>1, <3>2, NewFile
  <2> QED
    BY <2>1
<1>4. \A k \in 1 .. MaxLength : k > n => g[k] = <<>>
  BY <1>1, <1>2 DEF Parses, None
<1>5. \A k \in 1 .. n :
         /\ r[k].location \in Nat /\ EndLocation(content, r, k) \in Nat
         /\ r[k].location <= EndLocation(content, r, k)
         /\ EndLocation(content, r, k) < Len(content)
  <2> HIDE DEF n
  <2> QED
    BY <1>1, ChapterInText
<1>6. \A k \in 1 .. n : k # n => EndLocation(content, r, k) = r[k + 1].location - 1
  BY DEF EndLocation
<1>7. EndLocation(content, r, n) = Len(content) - 1
  BY DEF EndLocation
<1>8. Len(g) = MaxLength /\ Len(g) \in Nat /\ Len(g) # 0
  <2>1. g = [k \in 1 .. MaxLength |-> g[k]]
    BY <1>1 DEF Parses
  <2> HIDE DEF g, n
  <2>2. g \in [1 .. MaxLength -> {g[k] : k \in 1 .. MaxLength}]
    BY <2>1
  <2>3. g \in Seq({g[k] : k \in 1 .. MaxLength})
    BY <2>2, LengthAssumption
  <2> QED
    BY <1>1, <1>2, <2>1, <2>3, LengthAssumption
<1>9. PICK f : Joins(f, g)
  <2> HIDE DEF g
  <2> QED
    BY <1>8, FlattenJoins
<1>10. f[1] = g[1] /\ FlattenSeq(g) = f[MaxLength]
       /\ \A k \in 2 .. MaxLength : f[k] = f[k - 1] \o g[k]
  <2> HIDE DEF g
  <2> QED
    BY <1>8, <1>9 DEF Joins
<1> HIDE DEF g, n
<1>11. /\ \A k \in 1 .. n : E(k) = EndLocation(content, r, k) + 1
       /\ \A k \in 1 .. MaxLength : k > n => E(k) = Len(content)
       /\ E(n) = Len(content)
  <2>1. (Len(content) - 1) + 1 = Len(content) /\ n \in 1 .. n
    BY <1>1, <1>2
  <2>2. \A k \in 1 .. n : k <= n
    BY <1>1
  <2>3. \A k \in 1 .. MaxLength : k > n => ~(k <= n)
    BY <1>1
  <2>4. \A k \in 1 .. n : E(k) = EndLocation(content, r, k) + 1
    BY <2>2 DEF EndOfFile, n
  <2>5. \A k \in 1 .. MaxLength : k > n => E(k) = Len(content)
    BY <2>3 DEF EndOfFile, n
  <2>6. E(n) = Len(content)
    BY <1>7, <2>1, <2>4
  <2> QED
    BY <2>4, <2>5, <2>6
<1> HIDE DEF E
<1> DEFINE T == {k \in 1 .. MaxLength : f[k] # SubSeq(content, a + 1, E(k))}
<1>12. a \in Nat /\ a < Len(content) /\ 1 \in 1 .. n /\ 1 \in 1 .. MaxLength
  BY <1>1, <1>2, <1>5, LengthAssumption
<1>13. \A k \in 1 .. n : k # 1 => a < r[k].location
  <2>1. FoundUpTo(r, UTF16(content), Len(content), Len(content))
    BY <1>1, MatchesAreStarts
  <2>2. \A i, k \in DOMAIN r : i < k => r[i].location < r[k].location
    BY <2>1 DEF FoundUpTo
  <2>3. \A k \in 1 .. n : k # 1 => 1 < k /\ 1 \in DOMAIN r /\ k \in DOMAIN r
    BY <1>1, <1>12
  <2> QED
    BY <2>2, <2>3
<1> HIDE DEF a
<1>14. ASSUME T # {} PROVE FALSE
  <2>1. PICK k \in T : \A j \in T : k <= j
    <3>1. T \in SUBSET Nat
      BY LengthAssumption
    <3> HIDE DEF T
    <3> QED
      BY <1>14, <3>1, LeastNumber
  <2>2. k \in 1 .. MaxLength /\ k \in Nat /\ f[k] # SubSeq(content, a + 1, E(k))
    BY LengthAssumption
  <2>3. CASE k = 1
    <3>1. f[k] = Slice(content, a, EndLocation(content, r, 1)) /\ E(k) = EndLocation(content, r, 1) + 1
      BY <1>3, <1>10, <1>11, <1>12, <2>3 DEF a
    <3> QED
      BY <2>2, <3>1 DEF Slice
  <2>4. CASE k # 1
    <3>1. k \in 2 .. MaxLength /\ k - 1 \in 1 .. MaxLength /\ ~(k <= k - 1)
      BY <2>2, <2>4, LengthAssumption
    <3>2. k - 1 \notin T
      <4> HIDE DEF T
      <4> QED
        BY <2>1, <3>1
    <3>3. f[k - 1] = SubSeq(content, a + 1, E(k - 1))
      BY <3>1, <3>2
    <3>4. f[k] = f[k - 1] \o g[k]
      BY <1>10, <3>1
    <3> HIDE DEF T
    <3>5. CASE k > n
      <4>1. E(k) = Len(content) /\ g[k] = <<>>
        BY <1>4, <1>11, <2>2, <3>5
      <4>2. E(k - 1) = Len(content)
        <5>1. k - 1 = n \/ k - 1 > n
          BY <1>1, <2>2, <3>5
        <5> QED
          BY <1>11, <3>1, <5>1
      <4>3. SubSeq(content, a + 1, E(k)) \o <<>> = SubSeq(content, a + 1, E(k))
        <5> DEFINE p == SubSeq(content, a + 1, Len(content))
        <5>1. Part(p, content, a + 1, Len(content))
          <6>1. a + 1 \in Nat /\ 1 <= a + 1 /\ a + 1 <= Len(content) /\ Len(content) <= Len(content)
            BY <1>1, <1>12
          <6> QED
            BY <1>1, <6>1, SubSeqPart
        <5> HIDE DEF p
        <5>2. p \in Seq(Characters)
          BY <5>1 DEF Part
        <5>3. p \o <<>> = p
          BY <5>2, ConcatEmptySeq
        <5> QED
          BY <4>1, <5>3 DEF p
      <4> QED
        BY <2>2, <3>3, <3>4, <4>1, <4>2, <4>3
    <3>6. CASE ~(k > n)
      <4> DEFINE b == r[k].location
                 d == EndLocation(content, r, k) + 1
      <4>1. k \in 1 .. n /\ k - 1 \in 1 .. n /\ k - 1 # n /\ (k - 1) + 1 = k
        BY <1>1, <3>1, <3>6
      <4>2. g[k] = SubSeq(content, b + 1, d) /\ E(k) = d
        BY <1>3, <1>11, <4>1 DEF Slice
      <4>3. E(k - 1) = b
        <5>1. EndLocation(content, r, k - 1) = b - 1
          BY <1>6, <4>1
        <5>2. E(k - 1) = EndLocation(content, r, k - 1) + 1
          BY <1>11, <4>1
        <5>3. b \in Nat
          BY <1>5, <4>1
        <5> HIDE DEF b
        <5> QED
          BY <5>1, <5>2, <5>3
      <4>4. b \in Nat /\ d \in Nat /\ a < b /\ b < d /\ d <= Len(content)
        <5> DEFINE v == EndLocation(content, r, k)
        <5>1. b \in Nat /\ v \in Nat /\ b <= v /\ v < Len(content) /\ a < b
          BY <1>5, <1>13, <3>1, <4>1
        <5> HIDE DEF b, v
        <5>2. v + 1 \in Nat /\ b < v + 1 /\ v + 1 <= Len(content)
          BY <1>1, <5>1
        <5> QED
          BY <5>1, <5>2 DEF v
      <4> HIDE DEF b, d
      <4>5. a + 1 \in Nat /\ 1 <= a + 1 /\ a + 1 <= b
        BY <1>12, <4>4
      <4>6. SubSeq(content, a + 1, b) \o SubSeq(content, b + 1, d) = SubSeq(content, a + 1, d)
        BY <1>1, <4>4, <4>5, PartsMeet
      <4> QED
        BY <2>2, <3>3, <3>4, <4>2, <4>3, <4>6
    <3> QED
      BY <3>5, <3>6
  <2> QED
    BY <2>3, <2>4
<1>15. f[MaxLength] = SubSeq(content, a + 1, Len(content))
  <2>1. MaxLength \in 1 .. MaxLength /\ MaxLength \notin T
    BY <1>12, <1>14, LengthAssumption
  <2>2. f[MaxLength] = SubSeq(content, a + 1, E(MaxLength))
    BY <2>1
  <2>3. MaxLength > n \/ MaxLength = n
    BY <1>1, LengthAssumption
  <2>4. E(MaxLength) = Len(content)
    BY <1>11, <2>1, <2>3
  <2> QED
    BY <2>2, <2>4
<1>16. (Len(content) - 1) + 1 = Len(content)
  BY <1>1
<1>17. FlattenSeq(g) = Slice(content, a, Len(content) - 1)
  BY <1>10, <1>15, <1>16 DEF Slice
<1> QED
  BY <1>17 DEF g, a

-----------------------------------------------------------------------------
(***************************************************************************)
(* Theorems                                                                *)
(***************************************************************************)

\* The invariant: in a directory where only plain texts were parsed every file is a chapter with
\* its title, and the parser stops only at a text without a title or one that ends in a title.
THEOREM TxtInvariance == Spec => []TxtInv
<1>1. TxtInv /\ [Next]_vars => TxtInv'
  BY ParseKeeps, OthersKeep DEF Next
<1> QED
  BY <1>1, TxtInit, PTL DEF Spec

\* What parseBook cuts from a text is a text: no index is outside, whatever its line ends.
THEOREM TxtTypes == Spec => []TypeOK
<1>1. TxtInv => TypeOK
  BY DEF TxtInv
<1> QED
  BY <1>1, TxtInvariance, PTL

\* parseBook stops at a plain text only if it has no title, or its last line is one.
THEOREM PlainIsParsed == Spec => []PlainTextIsParsed
<1>1. TxtInv => PlainTextIsParsed
  <2> SUFFICES ASSUME TxtInv, book.result = "trap", ~Contains(content, "rn")
               PROVE  \/ ~Contains(content, "T")
                      \/ \E k \in DOMAIN content : /\ content[k] = "T"
                                                   /\ \A j \in k .. Len(content) : content[j] # "n"
    BY DEF PlainTextIsParsed
  <2> DEFINE r == DoTitleMatch(content)
  <2>1. content \in Seq(Characters) /\ Plain(content) /\ DOMAIN content = 1 .. Len(content)
    <3>1. content \in Seq(Characters)
      BY TextIsSeq DEF TxtInv, TypeOK
    <3> QED
      BY <3>1 DEF Plain
  <2>2. r = <<>> \/ \E k \in DOMAIN r : ~TitleIsCut(content, r[k])
    BY DEF TxtInv, TrapHasReason
  <2>3. CASE r = <<>>
    BY <2>1, <2>3, PlainWithoutTitle
  <2>4. CASE \E k \in DOMAIN r : ~TitleIsCut(content, r[k])
    <3>1. PICK k \in DOMAIN r : ~TitleIsCut(content, r[k])
      BY <2>4
    <3>2. LET i == r[k].location + 1
          IN  /\ i \in 1 .. Len(content) /\ content[i] = "T"
              /\ \A e \in i .. Len(content) : content[e] # "n"
      BY <2>1, <3>1, PlainTitle
    <3> QED
      BY <2>1, <3>2
  <2> QED
    BY <2>2, <2>3, <2>4
<1> QED
  BY <1>1, TxtInvariance, PTL

\* Each chapter of a parsed book can be displayed, if every text so far was plain: attributeText
\* cuts a title and something after it, also from the file of an earlier text.
THEOREM ChaptersStayDisplayed == Spec => []ChaptersAreDisplayed
<1>1. TxtInv => ChaptersAreDisplayed
  <2> SUFFICES ASSUME TxtInv, book.result = "book", ~mixed, NEW k \in DOMAIN book.titles
               PROVE  IsDisplayed(files[k])
    BY DEF ChaptersAreDisplayed
  <2>1. k \in DOMAIN files /\ files[k] # None
    BY DEF TxtInv, BookIsWritten
  <2>2. Heading(files[k])
    BY <2>1 DEF TxtInv, FilesAreHeadings
  <2> QED
    BY <2>2, HeadingIsDisplayed
<1> QED
  BY <1>1, TxtInvariance, PTL

\* parseBook loses nothing between two chapters, and writes nothing twice.
THEOREM ChaptersMakeTheText == Spec => ChaptersAreTheText
<1>1. TxtInv /\ [Next]_vars =>
        [Parse /\ (\A k \in DOMAIN files : files[k] = None) /\ book'.result = "book" =>
            FlattenSeq(files') = Slice(content, DoTitleMatch(content)[1].location, Len(content) - 1)]_vars
  <2> SUFFICES ASSUME TxtInv, Parse, \A k \in DOMAIN files : files[k] = None, book'.result = "book"
               PROVE  FlattenSeq(files') = Slice(content, DoTitleMatch(content)[1].location,
                                                 Len(content) - 1)
    OBVIOUS
  <2>1. PICK r, c : Parses(r, c)
    BY ParseParses DEF TxtInv
  <2>2. FlattenSeq(files') = Slice(content, r[1].location, Len(content) - 1)
    BY <2>1, FilesAreText
  <2>3. r = DoTitleMatch(content)
    BY <2>1 DEF Parses
  <2> QED
    BY <2>2, <2>3
<1> QED
  BY <1>1, TxtInvariance, PTL DEF Spec, ChaptersAreTheText
=============================================================================
