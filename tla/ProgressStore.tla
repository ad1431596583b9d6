----------------------------- MODULE ProgressStore -----------------------------
(***************************************************************************)
(* The table of books in the database (WLBOOK_TABLE) and the operations of *)
(* WLBookModel on it. A row is found by its title. The table has no key:   *)
(* insertOrReplace appends. An update without a condition, which is what   *)
(* save passes, writes all columns of all rows, the title too.             *)
(* WCDB is external: a query returns the first row that matches.           *)
(***************************************************************************)
EXTENDS Naturals, Sequences

CONSTANTS
  Books,       (* the titles of the books                                   *)
  NoBook,
  LastPlace,   (* a place stands for chapter, page and locations            *)
  MaxRows      (* bound: rows of the table                                  *)

ASSUME StoreAssumption ==
  /\ NoBook \notin Books
  /\ LastPlace \in Nat
  /\ MaxRows \in Nat

Places == 0..LastPlace
Rows   == [title : Books, place : Places, fin : BOOLEAN]

VARIABLES
  rows,        (* the table                                                 *)
  open,        (* title of the book in the container                        *)
  place        (* where its model is, saved or not                          *)

vars == <<rows, open, place>>

Init == rows = <<>> /\ open = NoBook /\ place = 0

\* WLBookModel.read(title)
Found(t) == \E i \in DOMAIN rows : rows[i].title = t
Read(t)  == rows[CHOOSE i \in DOMAIN rows :
                   /\ rows[i].title = t
                   /\ \A j \in DOMAIN rows : rows[j].title = t => i <= j]

\* Mutant of UpdateAll: only the row that was inserted last is written.
UpdateLast(row) == [i \in DOMAIN rows |-> IF i = Len(rows) THEN row ELSE rows[i]]

\* update without a condition
UpdateAll(row) == [i \in DOMAIN rows |-> row]

\* parseBook: read, or insert a row for the front page
OpenBook(t) ==
  /\ open = NoBook
  /\ open' = t
  /\ IF Found(t)
     THEN /\ place' = IF Read(t).fin THEN LastPlace ELSE Read(t).place
          /\ UNCHANGED rows
     ELSE /\ Len(rows) < MaxRows
          /\ rows' = Append(rows, [title |-> t, place |-> 0, fin |-> FALSE])
          /\ place' = 0

\* The container is closed, or the process ends.
Close == open # NoBook /\ open' = NoBook /\ place' = 0 /\ UNCHANGED rows

\* The model moves to p and save() is called.
Save(p) ==
  /\ open # NoBook
  /\ place' = p
  /\ rows' = UpdateAll([title |-> open, place |-> p, fin |-> FALSE])
  /\ UNCHANGED open

\* goToChapter and the paging after a change of the settings: the model moves to p
\* and nothing is saved.
Move(p) == open # NoBook /\ place' = p /\ UNCHANGED <<rows, open>>

\* WLBookModel.save(markFinished, title:), called by the host application at any
\* time, of a book that is open, of another, or of none
Mark(t, fin) ==
  /\ Found(t)
  /\ rows' = UpdateAll([Read(t) EXCEPT !.fin = fin])
  /\ UNCHANGED <<open, place>>

Next ==
  \/ \E t \in Books : OpenBook(t) \/ \E fin \in BOOLEAN : Mark(t, fin)
  \/ Close
  \/ \E p \in Places : Save(p) \/ Move(p)

Spec == Init /\ [][Next]_vars
--------------------------------------------------------------------------------
\* Type invariant
TypeOK ==
  /\ rows \in Seq(Rows)
  /\ open \in Books \cup {NoBook}
  /\ place \in Places

\* The table seen by title: a book without a row reads as one never read.
Shelf == INSTANCE BookShelf
           WITH shelf <- [b \in Books |->
                            IF Found(b)
                            THEN [place |-> Read(b).place, fin |-> Read(b).fin]
                            ELSE [place |-> 0, fin |-> FALSE]]

\* What the table keeps, of any number of books, however opening, moving, saving and
\* marking follow each other: the book written last has its place and its mark,
\* whatever was opened since, and every other opens at its first page.  Marking a
\* book while another is read takes the row of that one away; saving a book takes its
\* mark away.
OnlyLastIsKept == Shelf!LastSpec

\* "A table by books", "store the current book": each book keeps its own place.
\* True where there is one book; writing one of two erases the other.
EachBookKeepsItsPlace == Shelf!Spec
================================================================================
