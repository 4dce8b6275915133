------------------------------ MODULE Markdown ------------------------------
(***************************************************************************)
(* The file of an exported conversation, as far as the next run reads it   *)
(* back: convToMarkdown of cdp.go writes it, fileConvUpdatedAt of          *)
(* daemon.go finds the version in it.                                      *)
(*                                                                         *)
(* A text is a sequence of lines.  Of a line there is its size in bytes,   *)
(* newline included, and the stamp it bears if it reads "- Updated: ...".  *)
(***************************************************************************)
EXTENDS Naturals, Sequences

CONSTANTS
    Stamps,     \* the stamps a line may bear
    NoStamp     \* of a line that does not begin with "- Updated: "

Lines == [stamp : Stamps \cup {NoStamp}, size : Nat]

Line(n) == [stamp |-> NoStamp, size |-> n]
Updated(s) == [stamp |-> s, size |-> 31]

\* Bytes(text)[n]: the size of the first n lines.
Bytes(text) ==
    LET bytes[n \in Nat] == IF n = 0 THEN 0 ELSE bytes[n - 1] + text[n].size IN bytes

Size(text) == Bytes(text)[Len(text)]

\* A faulty variant of Heading: the newlines of a title are kept.
HeadingAsIs(title) == <<Line(2 + title[1].size)>> \o Tail(title)

\* "# " and the title on one line, its newlines replaced by spaces.
Heading(title) == <<Line(2 + Size(title))>>

\* The title, "- Created: ...", "- Updated: ...", "- Model: ...", a rule, the messages.
Document(title, stamp, messages) ==
    Heading(title) \o <<Line(1), Line(31), Updated(stamp), Line(20), Line(1), Line(4), Line(1)>> \o messages

\* The first line of the kind within the first 512 bytes; a stamp that is cut off
\* there is no conversation's.
UpdatedAt(text) ==
    LET Seen == {i \in DOMAIN text : text[i].stamp # NoStamp /\ Bytes(text)[i] - 1 <= 512}
    IN  IF Seen = {} THEN NoStamp
        ELSE text[CHOOSE i \in Seen : \A j \in Seen : i <= j].stamp

=============================================================================
