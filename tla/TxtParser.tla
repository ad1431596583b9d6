----------------------------- MODULE TxtParser -----------------------------
(***************************************************************************)
(* A text is cut into chapters at its titles, each is written to a file of  *)
(* the directory that is named after the book, and a chapter is displayed   *)
(* from its file.  The titles are found in UTF-16 units, the text is cut in  *)
(* characters; a line end of two units is one character.                     *)
(***************************************************************************)
EXTENDS Naturals, FiniteSets, Sequences, SequencesExt, FiniteSetsExt

CONSTANTS MaxLength,      \* bound: characters of a text
          MaxEditions     \* bound: texts that were put at the path

ASSUME LengthAssumption == MaxLength \in Nat

(* "T" stands for the words of a title up to its number, "x" for any other character, "n" for a  *)
(* line feed and "rn" for a carriage return with a line feed.                                    *)
Characters == {"T", "x", "n", "rn"}
Texts == UNION {[1 .. k -> Characters] : k \in 0 .. MaxLength}

None == <<>>

VARIABLES content,    \* the text at the path
          files,      \* the files of the chapters; None where there is no file
          book,       \* what the parser made of the text
          editions,   \* number of texts so far
          mixed       \* history: a text was parsed that has a line end of two units

vars == <<content, files, book, editions, mixed>>

NoBook == [result |-> "none", titles |-> <<>>]

-----------------------------------------------------------------------------
\* The units of a text.
UTF16(text) == FlattenSeq([i \in DOMAIN text |-> IF text[i] = "rn" THEN <<"r", "n">> ELSE <<text[i]>>])

LineEnd == {"r", "n"}

\* Mutant: a title reaches to the end of the text.
DoTitleMatchAll(text) ==
    LET units == UTF16(text)
        limit == Len(text)
        starts == {i \in 1 .. limit : units[i] = "T" /\ \A j \in 1 .. (i - 1) : units[j] # "T"}
    IN  [k \in 1 .. Cardinality(starts) |-> [location |-> Min(starts) - 1, length |-> limit - Min(starts) + 1]]

\* The words of a title start a match, unless they are in one that started on the same line.
StartsTitle(units, i) ==
    /\ units[i] = "T"
    /\ ~\E j \in 1 .. (i - 1) : units[j] = "T" /\ \A k \in j .. i : units[k] \notin LineEnd

\* The first unit after a match: a line end, or the first one that is not searched.
EndOfTitle(units, limit, i) == Min({limit + 1} \cup {j \in i .. limit : units[j] \in LineEnd})

\* The matches of the pattern from left to right, each to the end of its line, in as many units
\* as the text has characters.  Locations count from 0.
DoTitleMatch(text) ==
    LET units == UTF16(text)
        limit == Len(text)
        found[i \in 0 .. limit] ==
            IF i = 0 THEN <<>>
            ELSE IF StartsTitle(units, i)
                 THEN Append(found[i - 1],
                             [location |-> i - 1, length |-> EndOfTitle(units, limit, i) - i])
                 ELSE found[i - 1]
    IN  found[limit]

\* Mutant: the last character is left out.
SliceUpTo(text, first, last) == SubSeq(text, first + 1, last)

\* Characters first to last of a text, counted from 0.
Slice(text, first, last) == SubSeq(text, first + 1, last + 1)

\* Mutant: a chapter ends with the first character of the next one.
EndLocationShared(text, results, k) ==
    IF k = Len(results) THEN Len(text) - 1 ELSE results[k + 1].location

EndLocation(text, results, k) ==
    IF k = Len(results) THEN Len(text) - 1 ELSE results[k + 1].location - 1

\* The title is cut with the character after it, so there must be one.
TitleIsCut(text, result) == result.location + result.length < Len(text)

\* The files after the first k titles.  A file that exists is kept.
Written(text, results, k) ==
    [i \in DOMAIN files |->
        IF i > k \/ files[i] # None THEN files[i]
        ELSE Slice(text, results[i].location, EndLocation(text, results, i))]

\* parseBook, and WLBookModel.init, which takes the chapters for granted.
Parse ==
    LET results == DoTitleMatch(content)
        cut == {k \in DOMAIN results : \A j \in 1 .. k : TitleIsCut(content, results[j])}
    IN  /\ book = NoBook
        /\ files' = Written(content, results, Cardinality(cut))
        /\ book' = IF results = <<>> \/ Cardinality(cut) < Len(results)
                   THEN [result |-> "trap", titles |-> <<>>]
                   ELSE [result |-> "book",
                         titles |-> [k \in DOMAIN results |->
                                        Slice(content, results[k].location,
                                              results[k].location + results[k].length)]]
        /\ mixed' = (mixed \/ Contains(content, "rn"))
        /\ UNCHANGED <<content, editions>>

\* The book is closed, or the process ended; the files are kept.
Close ==
    /\ book # NoBook
    /\ book' = NoBook
    /\ UNCHANGED <<content, files, editions, mixed>>

\* Another text is put at the path, or has the same name up to its first point.
NewEdition ==
    /\ book = NoBook /\ editions < MaxEditions
    /\ content' \in Texts
    /\ editions' = editions + 1
    /\ UNCHANGED <<files, book, mixed>>

Init == /\ content \in Texts
        /\ files = [k \in 1 .. MaxLength |-> None]
        /\ book = NoBook /\ editions = 1 /\ mixed = FALSE

Next == Parse \/ Close \/ NewEdition

Spec == Init /\ [][Next]_vars

-----------------------------------------------------------------------------
\* attributeText: the title and then the rest of the file are cut.
TitleRange(text) == IF DoTitleMatch(text) = <<>> THEN [location |-> 0, length |-> 0] ELSE DoTitleMatch(text)[1]

IsDisplayed(text) ==
    LET range == TitleRange(text)
        endLocation == range.location + range.length - 1
    IN  /\ range.location + range.length >= 1
        /\ endLocation < Len(text) - 1

-----------------------------------------------------------------------------
\* Type correctness of the files and of the book.
TypeOK ==
    /\ content \in Texts
    /\ \A k \in DOMAIN files : files[k] \in Texts
    /\ book.result \in {"none", "book", "trap"} /\ \A k \in DOMAIN book.titles : book.titles[k] \in Texts

\* In a new directory the files are the text from its first cut on: nothing is lost between two
\* chapters and nothing is in both, also where line ends of two units displace the cuts (parseBook).
ChaptersAreTheText ==
    [][Parse /\ (\A k \in DOMAIN files : files[k] = None) /\ book'.result = "book" =>
          FlattenSeq(files') = Slice(content, DoTitleMatch(content)[1].location, Len(content) - 1)]_vars

\* A text with line ends of one unit is parsed, unless it has no title, or ends with one.
PlainTextIsParsed ==
    book.result = "trap" /\ ~Contains(content, "rn") =>
        \/ ~Contains(content, "T")
        \/ \E k \in DOMAIN content : /\ content[k] = "T"
                                     /\ \A j \in k .. Len(content) : content[j] # "n"

\* Every chapter of a parsed book can be displayed from its file, also one that an earlier text
\* has left, if all texts had line ends of one unit (attributeText).
ChaptersAreDisplayed ==
    book.result = "book" /\ ~mixed => \A k \in DOMAIN book.titles : IsDisplayed(files[k])
=============================================================================
