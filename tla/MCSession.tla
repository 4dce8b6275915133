------------------------------ MODULE MCSession ------------------------------
(* Values for the constants of Session. *)
EXTENDS Session, TLC
CONSTANTS c1, c2, c3

\* Lines of a title or a message: a plain one, and one that looks like a header.
Plain(n) == [stamp |-> None, size |-> n]
Forged == [stamp |-> "earlier", size |-> 31]
\* A title of several lines, the longest that leaves room, and one byte more.
Titles == (c1 :> <<Forged, Plain(5), Forged>>) @@ (c2 :> <<Plain(448)>>) @@ (c3 :> <<Plain(449)>>)
Quotes == [c \in Convs |-> <<Plain(20), Forged>>]
Now == [c \in Convs |-> "now"]

\* A full page and a last one.
TwoPages == (1 :> {c1, c2}) @@ (2 :> {c3})
\* Rate limits are retried once, an expensive conversation twice.
FewRetries == [k \in Kinds |-> IF k = "conv" THEN 2 ELSE 1]

=============================================================================
