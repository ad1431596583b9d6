-------------------------- MODULE ProgressStoreProofs --------------------------
(***************************************************************************)
(* Theorems of ProgressStore, for every set of books, any number of places *)
(* and a table of any length. A query takes the first of the rows that     *)
(* match; the invariant says that it does not matter which is taken, since *)
(* rows of one title are equal: an insert is made for a title that is not  *)
(* there, and an update leaves no two rows that differ.                    *)
(***************************************************************************)
EXTENDS ProgressStore, WellFoundedInduction, TLAPS

\* Rows of one title are equal.
RowsAgree ==
  \A i, j \in DOMAIN rows : rows[i].title = rows[j].title => rows[i] = rows[j]

\* A query for the title of a row returns that row, or one equal to it.
QueriesAreExact ==
  \A i \in DOMAIN rows : Found(rows[i].title) /\ Read(rows[i].title) = rows[i]

\* The same, of rows that are known by their contents
RowsAreRead ==
  \A r \in Rows : (\E i \in DOMAIN rows : rows[i] = r) =>
                   Found(r.title) /\ Read(r.title) = r

\* While a book is open the table has a row, if not that of the book.
OpenHasRows == open # NoBook => rows # <<>>

\* The inductive invariant
StoreInv == TypeOK /\ RowsAgree /\ OpenHasRows

--------------------------------------------------------------------------------
\* A set of positions of a table has a least one: the query has a first row.
LEMMA LeastPosition ==
  ASSUME NEW S \in SUBSET Nat, S # {}
  PROVE  \E m \in S : \A k \in S : m <= k
<1> DEFINE R == OpToRel(<, Nat)
<1>1. IsWellFoundedOn(R, Nat)
  BY NatLessThanWellFounded
<1>2. PICK m \in S : \A k \in S : ~ (<<k, m>> \in R)
  <2> HIDE DEF R
  <2> QED
    BY <1>1, WFMin
<1>3. \A k \in S : m <= k
  <2> TAKE k \in S
  <2>1. m \in Nat /\ k \in Nat
    OBVIOUS
  <2>2. k < m => <<k, m>> \in R
    BY <2>1 DEF OpToRel
  <2>3. ~(k < m)
    <3> HIDE DEF R
    <3> QED
      BY <1>2, <2>2
  <2> QED
    BY <2>1, <2>3
<1> QED
  BY <1>2, <1>3

\* A title that is found is read from a row of the table that has it.
LEMMA ReadIsARow ==
  ASSUME TypeOK, NEW t, Found(t)
  PROVE  \E i \in DOMAIN rows : rows[i].title = t /\ rows[i] = Read(t)
<1> DEFINE S == {i \in DOMAIN rows : rows[i].title = t}
<1>1. S \in SUBSET Nat /\ S # {}
  BY DEF TypeOK, Found
<1>2. PICK m \in S : \A k \in S : m <= k
  BY <1>1, LeastPosition
<1>3. \E i \in DOMAIN rows : /\ rows[i].title = t
                             /\ \A j \in DOMAIN rows : rows[j].title = t => i <= j
  BY <1>2
<1> QED
  BY <1>3 DEF Read

\* Where rows of one title are equal, a query returns any row of the title.
LEMMA ReadIsAnyRow == TypeOK /\ RowsAgree => QueriesAreExact
<1> SUFFICES ASSUME TypeOK, RowsAgree, NEW i \in DOMAIN rows
             PROVE  Found(rows[i].title) /\ Read(rows[i].title) = rows[i]
  BY DEF QueriesAreExact
<1>1. Found(rows[i].title)
  BY DEF Found
<1> QED
  BY <1>1, ReadIsARow DEF RowsAgree

LEMMA RowIsRead == TypeOK /\ RowsAgree => RowsAreRead
BY ReadIsAnyRow DEF RowsAreRead, QueriesAreExact

--------------------------------------------------------------------------------
\* The table is empty at first.
LEMMA StoreInvInit == Init => StoreInv
<1> SUFFICES ASSUME Init PROVE StoreInv
  OBVIOUS
<1>1. rows = <<>> /\ open = NoBook /\ place = 0
  BY DEF Init
<1>2. TypeOK
  BY <1>1, StoreAssumption DEF TypeOK, Places
<1> QED
  BY <1>1, <1>2 DEF StoreInv, RowsAgree, OpenHasRows

\* An update without a condition leaves rows that are all equal to the one written.
LEMMA UpdateAllRows ==
  ASSUME TypeOK, NEW row \in Rows
  PROVE  /\ UpdateAll(row) \in Seq(Rows)
         /\ DOMAIN UpdateAll(row) = DOMAIN rows
         /\ \A i \in DOMAIN rows : UpdateAll(row)[i] = row
BY DEF TypeOK, UpdateAll

\* After an update the table holds the invariant, whatever was in it, if it was not
\* empty.
LEMMA UpdateKeepsInv ==
  ASSUME TypeOK, NEW row \in Rows, rows # <<>>,
         rows' = UpdateAll(row),
         open' \in Books \cup {NoBook}, place' \in Places
  PROVE  StoreInv'
<1>1. /\ rows' \in Seq(Rows) /\ DOMAIN rows' = DOMAIN rows
      /\ \A i \in DOMAIN rows : rows'[i] = row
  BY UpdateAllRows
<1>2. 1 \in DOMAIN rows
  BY DEF TypeOK
<1>3. TypeOK'
  BY <1>1 DEF TypeOK
<1>4. RowsAgree'
  BY <1>1 DEF RowsAgree
<1>5. rows' # <<>>
  BY <1>1, <1>2
<1> QED
  BY <1>3, <1>4, <1>5 DEF StoreInv, OpenHasRows

\* Opening reads a row, or inserts one for a title that no row has.
LEMMA OpenBookKeepsInv ==
  ASSUME StoreInv, NEW t \in Books, OpenBook(t)
  PROVE  StoreInv'
<1> USE DEF StoreInv
<1>1. t # NoBook /\ open' = t
  BY StoreAssumption DEF OpenBook
<1>2. CASE Found(t)
  <2>1. UNCHANGED rows /\ place' = IF Read(t).fin THEN LastPlace ELSE Read(t).place
    BY <1>2 DEF OpenBook
  <2>2. Read(t) \in Rows
    BY <1>2, ReadIsARow DEF TypeOK
  <2>3. TypeOK'
    BY <1>1, <2>1, <2>2, StoreAssumption DEF TypeOK, Rows, Places
  <2>4. RowsAgree'
    BY <2>1 DEF RowsAgree
  <2>5. OpenHasRows'
    BY <1>2, <2>1 DEF OpenHasRows, Found
  <2> QED
    BY <2>3, <2>4, <2>5
<1>3. CASE ~Found(t)
  <2> DEFINE row == [title |-> t, place |-> 0, fin |-> FALSE]
  <2>1. rows' = Append(rows, row) /\ place' = 0
    BY <1>3 DEF OpenBook
  <2>2. row \in Rows /\ row.title = t /\ ~row.fin /\ row.place = 0
    BY StoreAssumption DEF Rows, Places
  <2>3. rows \in Seq(Rows) /\ rows' \in Seq(Rows)
    BY <2>1, <2>2 DEF TypeOK
  <2>4. /\ DOMAIN rows = 1..Len(rows) /\ Len(rows) \in Nat
        /\ DOMAIN rows' = 1..Len(rows) + 1
        /\ rows'[Len(rows) + 1] = row
        /\ \A i \in DOMAIN rows : rows'[i] = rows[i]
    BY <2>1, <2>2, <2>3
  <2>5. TypeOK'
    BY <1>1, <2>1, <2>3, StoreAssumption DEF TypeOK, Places
  <2>6. \A i \in DOMAIN rows : rows[i].title # t
    BY <1>3 DEF Found
  <2> HIDE DEF row
  <2>7. RowsAgree'
    BY <2>2, <2>4, <2>6 DEF RowsAgree
  <2>8. OpenHasRows'
    BY <2>4 DEF OpenHasRows
  <2> QED
    BY <2>5, <2>7, <2>8
<1> QED
  BY <1>2, <1>3

\* Closing leaves the table as it is.
LEMMA CloseKeepsInv ==
  ASSUME StoreInv, Close
  PROVE  StoreInv'
<1>1. UNCHANGED rows /\ open' = NoBook /\ place' = 0
  BY DEF Close
<1> QED
  BY <1>1, StoreAssumption
     DEF StoreInv, TypeOK, Places, RowsAgree, OpenHasRows

\* Moving leaves the table as it is.
LEMMA MoveKeepsInv ==
  ASSUME StoreInv, NEW p \in Places, Move(p)
  PROVE  StoreInv'
<1>1. UNCHANGED <<rows, open>> /\ place' = p
  BY DEF Move
<1> QED
  BY <1>1 DEF StoreInv, TypeOK, RowsAgree, OpenHasRows

\* Saving writes the open book into every row.
LEMMA SaveKeepsInv ==
  ASSUME StoreInv, NEW p \in Places, Save(p)
  PROVE  StoreInv'
<1> DEFINE row == [title |-> open, place |-> p, fin |-> FALSE]
<1>1. /\ open \in Books /\ TypeOK /\ rows # <<>>
      /\ place' = p /\ rows' = UpdateAll(row) /\ open' = open
  BY DEF Save, StoreInv, TypeOK, OpenHasRows
<1>2. row \in Rows
  BY <1>1 DEF Rows
<1> HIDE DEF row
<1> QED
  BY <1>1, <1>2, UpdateKeepsInv

\* Marking writes the row of the title into every row.
LEMMA MarkKeepsInv ==
  ASSUME StoreInv, NEW t \in Books, NEW fin \in BOOLEAN, Mark(t, fin)
  PROVE  StoreInv'
<1> DEFINE row == [Read(t) EXCEPT !.fin = fin]
<1>1. /\ open' = open /\ place' = place /\ TypeOK /\ Found(t)
      /\ open \in Books \cup {NoBook} /\ place \in Places
      /\ rows' = UpdateAll(row)
  BY DEF Mark, StoreInv, TypeOK
<1>2. Read(t) \in Rows
  BY <1>1, ReadIsARow DEF TypeOK
<1>3. row \in Rows
  BY <1>2 DEF Rows
<1>4. rows # <<>>
  BY <1>1 DEF Found
<1> HIDE DEF row
<1> QED
  BY <1>1, <1>3, <1>4, UpdateKeepsInv

\* Every step keeps the invariant.
LEMMA StoreInvStep == StoreInv /\ [Next]_vars => StoreInv'
<1> SUFFICES ASSUME StoreInv, [Next]_vars PROVE StoreInv'
  OBVIOUS
<1>1. CASE \E t \in Books : OpenBook(t)
  BY <1>1, OpenBookKeepsInv
<1>2. CASE \E t \in Books, fin \in BOOLEAN : Mark(t, fin)
  BY <1>2, MarkKeepsInv
<1>3. CASE Close
  BY <1>3, CloseKeepsInv
<1>4. CASE \E p \in Places : Save(p)
  BY <1>4, SaveKeepsInv
<1>5. CASE \E p \in Places : Move(p)
  BY <1>5, MoveKeepsInv
<1>6. CASE UNCHANGED vars
  BY <1>6 DEF vars, StoreInv, TypeOK, RowsAgree, OpenHasRows
<1> QED
  BY <1>1, <1>2, <1>3, <1>4, <1>5, <1>6 DEF Next

\* The table, the open book and its place keep the invariant in every behaviour.
THEOREM StoreInvariance == Spec => []StoreInv
BY StoreInvInit, StoreInvStep, PTL DEF Spec

\* Type correctness of the table and of the open book's record.
THEOREM StoreTypes == Spec => []TypeOK
<1>1. StoreInv => TypeOK
  BY DEF StoreInv
<1> QED
  BY <1>1, StoreInvariance, PTL

--------------------------------------------------------------------------------
\* The shelf the table stands for: the place and the mark of each book
ShelfOf == [b \in Books |-> IF Found(b) THEN [place |-> Read(b).place, fin |-> Read(b).fin]
                            ELSE [place |-> 0, fin |-> FALSE]]

\* An update leaves, of all books, the one it writes.
LEMMA UpdateLeavesOne ==
  ASSUME StoreInv, StoreInv', NEW row \in Rows, rows # <<>>, rows' = UpdateAll(row)
  PROVE  ShelfOf' = [c \in Books |-> IF c = row.title
                                     THEN [place |-> row.place, fin |-> row.fin]
                                     ELSE [place |-> 0, fin |-> FALSE]]
<1>1. /\ rows' \in Seq(Rows) /\ 1 \in DOMAIN rows'
      /\ \A i \in DOMAIN rows' : rows'[i] = row
  BY UpdateAllRows DEF StoreInv, TypeOK
<1>2. QueriesAreExact'
  BY ReadIsAnyRow, PTL DEF StoreInv
<1>3. Found(row.title)' /\ Read(row.title)' = row
  BY <1>1, <1>2 DEF QueriesAreExact
<1>4. \A c \in Books : c # row.title => ~Found(c)'
  BY <1>1 DEF Found
<1> QED
  BY <1>3, <1>4 DEF ShelfOf

\* Inserting a row for the front page changes nothing of what is read.
LEMMA InsertIsNotSeen ==
  ASSUME StoreInv, StoreInv', NEW t \in Books, ~Found(t),
         rows' = Append(rows, [title |-> t, place |-> 0, fin |-> FALSE])
  PROVE  ShelfOf' = ShelfOf
<1> DEFINE row == [title |-> t, place |-> 0, fin |-> FALSE]
<1>1. row \in Rows /\ rows \in Seq(Rows)
  BY StoreAssumption DEF Rows, Places, StoreInv, TypeOK
<1>2. row.title = t /\ row.place = 0 /\ row.fin = FALSE
  OBVIOUS
<1>3. rows' = Append(rows, row)
  OBVIOUS
<1> HIDE DEF row
<1>4. /\ DOMAIN rows = 1..Len(rows) /\ Len(rows) \in Nat
      /\ DOMAIN rows' = 1..Len(rows) + 1
      /\ rows'[Len(rows) + 1] = row
      /\ \A i \in DOMAIN rows : rows'[i] = rows[i]
  BY <1>1, <1>3
<1>5. RowsAreRead /\ RowsAreRead'
  BY RowIsRead, PTL DEF StoreInv
<1>6. Found(t)' /\ Read(t)' = row
  <2>1. Len(rows) + 1 \in DOMAIN rows' /\ rows'[Len(rows) + 1] = row
    BY <1>4
  <2> QED
    BY <1>1, <1>2, <1>5, <2>1 DEF RowsAreRead
<1>7. ASSUME NEW c \in Books, c # t
      PROVE  (Found(c)' <=> Found(c)) /\ (Found(c) => Read(c)' = Read(c))
  <2>1. Found(c)' <=> Found(c)
    BY <1>2, <1>4, <1>7 DEF Found
  <2>2. ASSUME Found(c) PROVE Read(c)' = Read(c)
    <3>1. PICK i \in DOMAIN rows : rows[i].title = c
      BY <2>2 DEF Found
    <3>2. i \in DOMAIN rows' /\ rows'[i] = rows[i] /\ rows[i] \in Rows
      BY <1>1, <1>4
    <3>3. Read(c) = rows[i]
      BY <1>5, <3>1, <3>2 DEF RowsAreRead
    <3>4. Read(c)' = rows[i]
      BY <1>5, <3>1, <3>2 DEF RowsAreRead
    <3> QED
      BY <3>3, <3>4
  <2> QED
    BY <2>1, <2>2
<1>8. ShelfOf[t] = [place |-> 0, fin |-> FALSE] /\ ShelfOf[t]' = ShelfOf[t]
  BY <1>2, <1>6 DEF ShelfOf
<1>9. \A c \in Books : ShelfOf'[c] = ShelfOf[c]
  BY <1>7, <1>8 DEF ShelfOf
<1> QED
  BY <1>9 DEF ShelfOf

\* A step of the table is a step of the shelf that keeps one book.
LEMMA LastStep ==
  ASSUME StoreInv, StoreInv', [Next]_vars
  PROVE  [Shelf!LastNext]_Shelf!vars
<1> USE DEF Shelf!vars
<1>1. ASSUME NEW t \in Books, OpenBook(t) PROVE Shelf!Open(t)
  <2>1. CASE Found(t)
    <3>1. UNCHANGED rows /\ place' = IF Read(t).fin THEN LastPlace ELSE Read(t).place
      BY <1>1, <2>1 DEF OpenBook
    <3>2. ShelfOf' = ShelfOf
      BY <3>1 DEF ShelfOf, Found, Read
    <3>3. ShelfOf[t].fin = Read(t).fin /\ ShelfOf[t].place = Read(t).place
      BY <2>1 DEF ShelfOf
    <3>4. open = NoBook /\ open' = t
      BY <1>1 DEF OpenBook
    <3> QED
      BY <3>1, <3>2, <3>3, <3>4 DEF Shelf!Open, ShelfOf
  <2>2. CASE ~Found(t)
    <3>1. /\ open = NoBook /\ open' = t /\ place' = 0
          /\ rows' = Append(rows, [title |-> t, place |-> 0, fin |-> FALSE])
      BY <1>1, <2>2 DEF OpenBook
    <3>2. ShelfOf' = ShelfOf
      BY <2>2, <3>1, InsertIsNotSeen
    <3>3. ShelfOf[t] = [place |-> 0, fin |-> FALSE]
      BY <2>2 DEF ShelfOf
    <3> QED
      BY <3>1, <3>2, <3>3 DEF Shelf!Open, ShelfOf
  <2> QED
    BY <2>1, <2>2
<1>2. ASSUME NEW t \in Books, NEW fin \in BOOLEAN, Mark(t, fin)
      PROVE  Shelf!MarkOnly(t, fin)
  <2> DEFINE row == [Read(t) EXCEPT !.fin = fin]
  <2>1. Found(t) /\ rows' = UpdateAll(row) /\ UNCHANGED <<open, place>>
    BY <1>2 DEF Mark
  <2>2. Read(t) \in Rows /\ Read(t).title = t
    BY <2>1, ReadIsARow DEF StoreInv, TypeOK
  <2>3. row \in Rows /\ row.title = t /\ row.place = Read(t).place /\ row.fin = fin
    BY <2>2 DEF Rows
  <2>4. rows # <<>>
    BY <2>1 DEF Found
  <2> HIDE DEF row
  <2>5. ShelfOf[t].place = row.place
    BY <2>1, <2>3 DEF ShelfOf
  <2>6. ShelfOf' = [c \in Books |-> IF c = t THEN [place |-> ShelfOf[t].place, fin |-> fin]
                                    ELSE [place |-> 0, fin |-> FALSE]]
    BY <2>1, <2>3, <2>4, <2>5, UpdateLeavesOne
  <2> QED
    BY <2>1, <2>6 DEF Shelf!MarkOnly, Shelf!OnlyIs, Shelf!Unread, ShelfOf
<1>3. ASSUME Close PROVE Shelf!Close
  <2>1. open # NoBook /\ open' = NoBook /\ place' = 0 /\ UNCHANGED rows
    BY <1>3 DEF Close
  <2>2. ShelfOf' = ShelfOf
    BY <2>1 DEF ShelfOf, Found, Read
  <2> QED
    BY <2>1, <2>2 DEF Shelf!Close, ShelfOf
<1>4. ASSUME NEW p \in Places, Save(p) PROVE p \in Shelf!Places /\ Shelf!SaveOnly(p)
  <2> DEFINE row == [title |-> open, place |-> p, fin |-> FALSE]
  <2>1. /\ open # NoBook /\ open \in Books /\ place' = p /\ rows' = UpdateAll(row)
        /\ UNCHANGED open /\ rows # <<>>
    BY <1>4 DEF Save, StoreInv, TypeOK, OpenHasRows
  <2>2. row \in Rows /\ row.title = open /\ row.place = p /\ row.fin = FALSE
    BY <2>1 DEF Rows
  <2> HIDE DEF row
  <2>3. ShelfOf' = [c \in Books |-> IF c = open THEN [place |-> p, fin |-> FALSE]
                                    ELSE [place |-> 0, fin |-> FALSE]]
    BY <2>1, <2>2, UpdateLeavesOne
  <2> QED
    BY <2>1, <2>3 DEF Shelf!SaveOnly, Shelf!OnlyIs, Shelf!Unread, ShelfOf, Shelf!Places, Places
<1>5. ASSUME NEW p \in Places, Move(p) PROVE p \in Shelf!Places /\ Shelf!Move(p)
  <2>1. open # NoBook /\ place' = p /\ UNCHANGED <<rows, open>>
    BY <1>5 DEF Move
  <2>2. ShelfOf' = ShelfOf
    BY <2>1 DEF ShelfOf, Found, Read
  <2> QED
    BY <2>1, <2>2 DEF Shelf!Move, ShelfOf, Shelf!Places, Places
<1>6. CASE UNCHANGED vars
  <2>1. UNCHANGED <<rows, open, place>>
    BY <1>6 DEF vars
  <2>2. ShelfOf' = ShelfOf
    BY <2>1 DEF ShelfOf, Found, Read
  <2> QED
    BY <2>1, <2>2 DEF ShelfOf
<1> QED
  BY <1>1, <1>2, <1>3, <1>4, <1>5, <1>6 DEF Next, Shelf!LastNext

\* The table of any set of books is a shelf that keeps the book written last and shows
\* every other as one never read, whatever the order of opening, moving, saving,
\* marking and closing.
THEOREM TableKeepsOnlyLast == Spec => OnlyLastIsKept
<1>1. Init => Shelf!Init
  BY DEF Init, Shelf!Init, Shelf!Unread, Found
<1>2. StoreInv /\ StoreInv' /\ [Next]_vars => [Shelf!LastNext]_Shelf!vars
  BY LastStep
<1> QED
  BY <1>1, <1>2, StoreInvariance, PTL DEF Spec, OnlyLastIsKept, Shelf!LastSpec
================================================================================
