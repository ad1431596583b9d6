------------------------------- MODULE BookShelf -------------------------------
(***************************************************************************)
(* The table of books, seen by title. Spec is what it promises: every book *)
(* has a place of its own, which reading another book does not change.     *)
(* LastSpec is what is left of that: the book that was written last has    *)
(* its place, and every other is as if it had never been read.             *)
(***************************************************************************)
EXTENDS Naturals

CONSTANTS
  Books,       (* the titles of the books                     *)
  NoBook,      (* no book is open                             *)
  LastPlace    (* the places of a book are 0..LastPlace       *)

VARIABLES
  shelf,       (* book -> the place recorded, and is it marked as finished? *)
  open,        (* the book that is read                                     *)
  place        (* where                                                     *)

vars == <<shelf, open, place>>

Places == 0..LastPlace

Unread == [place |-> 0, fin |-> FALSE]

Init ==
  /\ shelf = [b \in Books |-> Unread]
  /\ open = NoBook
  /\ place = 0

\* A book marked as finished opens at its end.
Open(b) ==
  /\ open = NoBook
  /\ open' = b
  /\ place' = IF shelf[b].fin THEN LastPlace ELSE shelf[b].place
  /\ UNCHANGED shelf

Close == open # NoBook /\ open' = NoBook /\ place' = 0 /\ UNCHANGED shelf

\* The reader goes to a place that is not recorded.
Move(p) == open # NoBook /\ place' = p /\ UNCHANGED <<shelf, open>>

Save(p) ==
  /\ open # NoBook
  /\ place' = p
  /\ shelf' = [shelf EXCEPT ![open] = [place |-> p, fin |-> FALSE]]
  /\ UNCHANGED open

Mark(b, fin) ==
  /\ shelf' = [shelf EXCEPT ![b].fin = fin]
  /\ UNCHANGED <<open, place>>

Next ==
  \/ \E b \in Books : Open(b) \/ \E fin \in BOOLEAN : Mark(b, fin)
  \/ Close
  \/ \E p \in Places : Save(p) \/ Move(p)

Spec == Init /\ [][Next]_vars
--------------------------------------------------------------------------------
\* Book b is written, and every other is forgotten.
OnlyIs(b, record) == shelf' = [c \in Books |-> IF c = b THEN record ELSE Unread]

SaveOnly(p) ==
  /\ open # NoBook
  /\ place' = p
  /\ OnlyIs(open, [place |-> p, fin |-> FALSE])
  /\ UNCHANGED open

MarkOnly(b, fin) ==
  /\ OnlyIs(b, [place |-> shelf[b].place, fin |-> fin])
  /\ UNCHANGED <<open, place>>

LastNext ==
  \/ \E b \in Books : Open(b) \/ \E fin \in BOOLEAN : MarkOnly(b, fin)
  \/ Close
  \/ \E p \in Places : SaveOnly(p) \/ Move(p)

LastSpec == Init /\ [][LastNext]_vars
================================================================================
