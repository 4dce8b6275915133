---------------------------- MODULE MarkdownProofs ----------------------------
(***************************************************************************)
(* Proofs about Markdown, for every title, stamp and list of messages:     *)
(* when fileConvUpdatedAt finds the stamp that convToMarkdown has written. *)
(*                                                                         *)
(* The size of a text is defined by recursion over its lines.  The         *)
(* recursion is justified, and facts about it are proved, by induction     *)
(* over sets of numbers, from the least element of a set of numbers.       *)
(***************************************************************************)
EXTENDS Markdown, TLAPS, WellFoundedInduction, SequenceTheorems

-----------------------------------------------------------------------------
(* Induction over sets of natural numbers *)

\* A set of numbers that is not empty has a least element.
LEMMA Least ==
    ASSUME NEW T \in SUBSET Nat, T # {}
    PROVE  \E x \in T : \A y \in T : x <= y
<1> DEFINE R == OpToRel(<, Nat)
<1>1. IsWellFoundedOn(R, Nat)
    BY NatLessThanWellFounded
<1>2. \A x, y \in Nat : y < x => <<y, x>> \in R
    BY DEF OpToRel
<1> HIDE DEF R
<1>3. PICK x \in T : \A y \in T : ~(<<y, x>> \in R)
    BY <1>1, WFMin
<1>4. \A y \in T : ~(y < x)
    BY <1>2, <1>3
<1>5. \A y \in T : x <= y
    BY <1>4
<1> QED
    BY <1>5

\* A set with 0 and every successor of its elements has all numbers.
LEMMA Induction ==
    ASSUME NEW T, 0 \in T, \A n \in Nat : n \in T => n + 1 \in T
    PROVE  Nat \subseteq T
<1> DEFINE U == Nat \ T
<1> SUFFICES ASSUME U # {} PROVE FALSE
    OBVIOUS
<1>1. PICK x \in U : \A y \in U : x <= y
    BY Least
<1>2. x # 0 /\ x - 1 \in Nat /\ x - 1 \in T
    BY <1>1
<1> QED
    BY <1>1, <1>2

-----------------------------------------------------------------------------
(* The recursive definition of Bytes *)

\* A solution of the recursion up to n.
Part(h, text, n) == h = [i \in 0 .. n |-> IF i = 0 THEN 0 ELSE h[i - 1] + text[i].size]

\* Two solutions agree where both are defined.
LEMMA PartsAgree ==
    ASSUME NEW text, NEW n \in Nat, NEW m \in Nat, NEW h, NEW k,
           Part(h, text, n), Part(k, text, m)
    PROVE  \A i \in Nat : i <= n /\ i <= m => h[i] = k[i]
<1> DEFINE T == {i \in Nat : i <= n /\ i <= m => h[i] = k[i]}
<1>1. \A i \in 0 .. n : h[i] = IF i = 0 THEN 0 ELSE h[i - 1] + text[i].size
    BY Zenon DEF Part
<1>2. \A i \in 0 .. m : k[i] = IF i = 0 THEN 0 ELSE k[i - 1] + text[i].size
    BY Zenon DEF Part
<1>3. 0 \in T
    BY <1>1, <1>2
<1>4. ASSUME NEW i \in Nat, i \in T PROVE i + 1 \in T
    <2>1. SUFFICES ASSUME i + 1 <= n, i + 1 <= m PROVE h[i + 1] = k[i + 1]
        OBVIOUS
    <2>2. i + 1 \in 0 .. n /\ i + 1 \in 0 .. m /\ (i + 1) - 1 = i /\ i + 1 # 0 /\ i <= n /\ i <= m
        BY <2>1
    <2>3. h[i] = k[i]
        BY <1>4, <2>2
    <2>4. h[i + 1] = h[i] + text[i + 1].size /\ k[i + 1] = k[i] + text[i + 1].size
        BY <1>1, <1>2, <2>2, Zenon
    <2> QED
        BY <2>3, <2>4
<1> HIDE DEF T
<1>5. Nat \subseteq T
    BY <1>3, <1>4, Induction
<1> QED
    BY <1>5 DEF T

\* There is a solution up to every number.
LEMMA PartExists ==
    ASSUME NEW text
    PROVE  \A n \in Nat : \E h : Part(h, text, n)
<1> DEFINE T == {n \in Nat : \E h : Part(h, text, n)}
<1>1. 0 \in T
    <2> DEFINE h == [i \in 0 .. 0 |-> 0]
    <2>1. h = [i \in 0 .. 0 |-> IF i = 0 THEN 0 ELSE h[i - 1] + text[i].size]
        OBVIOUS
    <2> QED
        BY <2>1 DEF Part
<1>2. ASSUME NEW n \in Nat, n \in T PROVE n + 1 \in T
    <2>1. PICK h : Part(h, text, n)
        BY <1>2
    <2> DEFINE k == [i \in 0 .. n + 1 |-> IF i = n + 1 THEN h[n] + text[n + 1].size ELSE h[i]]
    <2>2. ASSUME NEW i \in 0 .. n + 1
          PROVE  k[i] = IF i = 0 THEN 0 ELSE k[i - 1] + text[i].size
        <3>1. CASE i = n + 1
            <4>1. i - 1 = n /\ n # n + 1 /\ n \in 0 .. n + 1 /\ i # 0
                BY <3>1
            <4>2. k[n] = h[n]
                BY <4>1
            <4> QED
                BY <3>1, <4>1, <4>2
        <3>2. CASE i \in 0 .. n
            <4>1. h[i] = IF i = 0 THEN 0 ELSE h[i - 1] + text[i].size
                BY <2>1, <3>2, Zenon DEF Part
            <4>2. k[i] = h[i]
                BY <3>2
            <4>3. i # 0 => k[i - 1] = h[i - 1]
                BY <3>2
            <4> HIDE DEF k
            <4> QED
                BY <4>1, <4>2, <4>3
        <3> QED
            BY <3>1, <3>2
    <2>3. k = [i \in 0 .. n + 1 |-> k[i]]
        OBVIOUS
    <2> HIDE DEF k
    <2>4. k = [i \in 0 .. n + 1 |-> IF i = 0 THEN 0 ELSE k[i - 1] + text[i].size]
        BY <2>2, <2>3
    <2>5. Part(k, text, n + 1)
        BY <2>4 DEF Part
    <2> QED
        BY <2>5
<1> HIDE DEF T
<1>3. Nat \subseteq T
    BY <1>1, <1>2, Induction
<1> QED
    BY <1>3 DEF T

\* Bytes adds up the sizes of lines, one after the other.
LEMMA BytesDef ==
    ASSUME NEW text
    PROVE  /\ Bytes(text)[0] = 0
           /\ \A n \in Nat : Bytes(text)[n + 1] = Bytes(text)[n] + text[n + 1].size
<1> DEFINE h(n) == CHOOSE g : Part(g, text, n)
           g == [n \in Nat |-> h(n)[n]]
<1>1. \A n \in Nat : Part(h(n), text, n)
    BY PartExists
<1> HIDE DEF h
<1>2. ASSUME NEW n \in Nat PROVE g[n] = IF n = 0 THEN 0 ELSE g[n - 1] + text[n].size
    <2>1. h(n)[n] = IF n = 0 THEN 0 ELSE h(n)[n - 1] + text[n].size
        <3>1. n \in 0 .. n
            OBVIOUS
        <3>2. h(n) = [i \in 0 .. n |-> IF i = 0 THEN 0 ELSE h(n)[i - 1] + text[i].size]
            BY <1>1 DEF Part
        <3> QED
            BY <3>1, <3>2, Zenon
    <2>2. n # 0 => h(n)[n - 1] = h(n - 1)[n - 1]
        BY <1>1, PartsAgree
    <2> QED
        BY <2>1, <2>2
<1>3. g = [n \in Nat |-> IF n = 0 THEN 0 ELSE g[n - 1] + text[n].size]
    <2>1. g = [n \in Nat |-> g[n]]
        OBVIOUS
    <2> HIDE DEF g
    <2> QED
        BY <1>2, <2>1
<1> HIDE DEF g
<1>4. Bytes(text) = [n \in Nat |-> IF n = 0 THEN 0 ELSE Bytes(text)[n - 1] + text[n].size]
    BY <1>3, Zenon DEF Bytes
<1>5. \A n \in Nat : Bytes(text)[n] = IF n = 0 THEN 0 ELSE Bytes(text)[n - 1] + text[n].size
    BY <1>4, Zenon
<1>6. \A n \in Nat : n + 1 \in Nat /\ n + 1 # 0 /\ (n + 1) - 1 = n
    OBVIOUS
<1> QED
    BY <1>5, <1>6

-----------------------------------------------------------------------------
(* What the sizes of lines add up to *)

\* The bytes of a text are a number, and grow from line to line.
LEMMA BytesGrow ==
    ASSUME NEW text \in Seq(Lines)
    PROVE  \A n \in 0 .. Len(text) :
              /\ Bytes(text)[n] \in Nat
              /\ \A m \in 0 .. n : Bytes(text)[m] <= Bytes(text)[n]
<1> DEFINE T == {n \in Nat : n <= Len(text) =>
                    /\ Bytes(text)[n] \in Nat
                    /\ \A m \in 0 .. n : Bytes(text)[m] \in Nat /\ Bytes(text)[m] <= Bytes(text)[n]}
<1>1. 0 \in T
    BY BytesDef
<1>2. ASSUME NEW n \in Nat, n \in T PROVE n + 1 \in T
    <2>1. SUFFICES ASSUME n + 1 <= Len(text)
                   PROVE  /\ Bytes(text)[n + 1] \in Nat
                          /\ \A m \in 0 .. n + 1 :
                                Bytes(text)[m] \in Nat /\ Bytes(text)[m] <= Bytes(text)[n + 1]
        OBVIOUS
    <2>2. text[n + 1].size \in Nat
        <3>1. n + 1 \in 1 .. Len(text)
            BY <2>1
        <3>2. text[n + 1] \in Lines
            BY <3>1
        <3> QED
            BY <3>2 DEF Lines
    <2>3. Bytes(text)[n + 1] = Bytes(text)[n] + text[n + 1].size
        BY BytesDef
    <2>4. /\ Bytes(text)[n] \in Nat
          /\ \A m \in 0 .. n : Bytes(text)[m] \in Nat /\ Bytes(text)[m] <= Bytes(text)[n]
        BY <1>2, <2>1
    <2>5. Bytes(text)[n + 1] \in Nat /\ Bytes(text)[n] <= Bytes(text)[n + 1]
        BY <2>2, <2>3, <2>4
    <2>6. ASSUME NEW m \in 0 .. n PROVE Bytes(text)[m] \in Nat /\ Bytes(text)[m] <= Bytes(text)[n + 1]
        BY <2>4, <2>5
    <2>7. \A m \in 0 .. n + 1 : m = n + 1 \/ m \in 0 .. n
        OBVIOUS
    <2> QED
        BY <2>5, <2>6, <2>7
<1> HIDE DEF T
<1>3. Nat \subseteq T
    BY <1>1, <1>2, Induction
<1> QED
    BY <1>3 DEF T

\* The size of a text is a number.
LEMMA SizeIsNumber ==
    ASSUME NEW text \in Seq(Lines)
    PROVE  Size(text) \in Nat
BY BytesGrow DEF Size

-----------------------------------------------------------------------------
(* The header of an exported conversation *)

\* Where the header of a document has its stamp, and how many bytes end there.
LEMMA HeaderLines ==
    ASSUME NEW title \in Seq(Lines), NEW stamp \in Stamps, NEW messages \in Seq(Lines)
    PROVE  LET text == Document(title, stamp, messages)
           IN  /\ text \in Seq(Lines)
               /\ Len(text) >= 4
               /\ \A i \in 1 .. 3 : text[i].stamp = NoStamp
               /\ text[4].stamp = stamp
               /\ Bytes(text)[4] = Size(title) + 65
<1> DEFINE text == Document(title, stamp, messages)
           header == <<Line(2 + Size(title)), Line(1), Line(31), Updated(stamp),
                       Line(20), Line(1), Line(4), Line(1)>>
<1>1. \A n \in Nat : Line(n) \in Lines
    BY DEF Line, Lines
<1>2. Updated(stamp) \in Lines
    BY DEF Updated, Lines
<1>3. Size(title) \in Nat /\ 2 + Size(title) \in Nat
    BY SizeIsNumber
<1>4. header \in Seq(Lines) /\ Len(header) = 8
    BY <1>1, <1>2, <1>3
<1>5. /\ header[1] = Line(2 + Size(title)) /\ header[2] = Line(1)
      /\ header[3] = Line(31) /\ header[4] = Updated(stamp)
    OBVIOUS
<1>6. text = header \o messages
    BY DEF Document, Heading
<1> HIDE DEF text, header
<1>7. /\ header \o messages \in Seq(Lines)
      /\ Len(header \o messages) = Len(header) + Len(messages)
      /\ \A i \in 1 .. Len(header) + Len(messages) :
            (header \o messages)[i] = IF i <= Len(header) THEN header[i] ELSE messages[i - Len(header)]
    BY <1>4, ConcatProperties, Zenon
<1>8. text \in Seq(Lines) /\ Len(text) >= 8 /\ \A i \in 1 .. 4 : text[i] = header[i]
    <2>1. Len(messages) \in Nat
        OBVIOUS
    <2>2. \A i \in 1 .. 4 : i \in 1 .. Len(header) + Len(messages) /\ i <= Len(header)
        BY <1>4, <2>1
    <2>3. Len(header) + Len(messages) >= 8
        BY <1>4, <2>1
    <2> QED
        BY <1>6, <1>7, <2>2, <2>3, Zenon
<1>9. /\ text[1].size = 2 + Size(title) /\ text[2].size = 1
      /\ text[3].size = 31 /\ text[4].size = 31
    BY <1>5, <1>8 DEF Line, Updated
<1>10. /\ \A i \in 1 .. 3 : text[i].stamp = NoStamp
       /\ text[4].stamp = stamp
    BY <1>5, <1>8 DEF Line, Updated
<1>11. /\ Bytes(text)[0] = 0
       /\ Bytes(text)[1] = Bytes(text)[0] + text[1].size
       /\ Bytes(text)[2] = Bytes(text)[1] + text[2].size
       /\ Bytes(text)[3] = Bytes(text)[2] + text[3].size
       /\ Bytes(text)[4] = Bytes(text)[3] + text[4].size
    <2>1. /\ Bytes(text)[0] = 0
          /\ \A n \in Nat : Bytes(text)[n + 1] = Bytes(text)[n] + text[n + 1].size
        BY BytesDef
    <2>2. 0 + 1 = 1 /\ 1 + 1 = 2 /\ 2 + 1 = 3 /\ 3 + 1 = 4
        OBVIOUS
    <2> QED
        BY <2>1, <2>2
<1>12. Bytes(text)[4] = Size(title) + 65
    BY <1>3, <1>9, <1>11
<1> QED
    BY <1>8, <1>10, <1>12 DEF text

\* The version written into a conversation's file is the one the next run finds in
\* it, exactly when the title has at most 447 bytes, its newline aside: whatever lines the
\* messages have, lines that read "- Updated: ..." included (convToMarkdown,
\* fileConvUpdatedAt).
THEOREM HeaderIsFound ==
    ASSUME NoStamp \notin Stamps,
           NEW title \in Seq(Lines), NEW stamp \in Stamps, NEW messages \in Seq(Lines)
    PROVE  UpdatedAt(Document(title, stamp, messages)) = stamp <=> Size(title) <= 448
<1> DEFINE text == Document(title, stamp, messages)
           Seen == {i \in DOMAIN text : text[i].stamp # NoStamp /\ Bytes(text)[i] - 1 <= 512}
           first == CHOOSE i \in Seen : \A j \in Seen : i <= j
<1>1. /\ text \in Seq(Lines)
      /\ Len(text) >= 4
      /\ \A i \in 1 .. 3 : text[i].stamp = NoStamp
      /\ text[4].stamp = stamp
      /\ Bytes(text)[4] = Size(title) + 65
    BY HeaderLines
<1>2. UpdatedAt(text) = IF Seen = {} THEN NoStamp ELSE text[first].stamp
    BY DEF UpdatedAt
<1>3. Size(title) \in Nat
    BY SizeIsNumber
<1> HIDE DEF text
<1>4. DOMAIN text = 1 .. Len(text) /\ Len(text) \in Nat
    BY <1>1
<1>5. \A i \in Seen : i \in Nat /\ i >= 4
    BY <1>1, <1>4
<1>6. CASE Size(title) <= 448
    <2>1. 4 \in Seen
        BY <1>1, <1>3, <1>4, <1>6
    <2> HIDE DEF Seen
    <2>2. \A j \in Seen : 4 <= j
        BY <1>5
    <2>3. first \in Seen /\ \A j \in Seen : first <= j
        BY <2>1, <2>2
    <2> HIDE DEF first
    <2>4. first = 4
        BY <1>5, <2>1, <2>3
    <2>5. UpdatedAt(text) = stamp
        BY <1>1, <1>2, <2>1, <2>4
    <2> QED
        BY <1>6, <2>5 DEF text
<1>7. CASE ~(Size(title) <= 448)
    <2>1. ASSUME NEW i \in Seen PROVE FALSE
        <3>1. i \in 0 .. Len(text) /\ 4 \in 0 .. i
            BY <1>1, <1>4, <1>5
        <3>2. Bytes(text)[i] \in Nat /\ Bytes(text)[4] <= Bytes(text)[i]
            BY <1>1, <3>1, BytesGrow
        <3>3. Bytes(text)[i] - 1 <= 512
            OBVIOUS
        <3> HIDE DEF Seen
        <3> QED
            BY <1>1, <1>3, <1>7, <3>2, <3>3
    <2>2. UpdatedAt(text) = NoStamp
        BY <1>2, <2>1
    <2> QED
        BY <1>7, <2>2 DEF text
<1> QED
    BY <1>6, <1>7

=============================================================================
