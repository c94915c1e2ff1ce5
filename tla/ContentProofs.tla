--------------------------- MODULE ContentProofs ---------------------------
(***************************************************************************)
(* Proofs about Content for any document roots, edits, texts and limits:   *)
(* what a page is made of, what its outcome says, and what a miss means.   *)
(***************************************************************************)
EXTENDS Content, TextProofs
-----------------------------------------------------------------------------
(* sanitizeBody as one replacement of every byte.                          *)

\* What ReplaceLineEnds keeps of a byte: nothing of the CR of a CRLF.
Piece == {<<>>} \cup {<<c>> : c \in Byte}
Paired(s, i) == s[i] = "cr" /\ i < Len(s) /\ s[i + 1] = "lf"
Pieces(s) == [i \in DOMAIN s |-> IF Paired(s, i) THEN <<>> ELSE <<s[i]>>]
Ends == [p \in Piece |-> IF p = <<"cr">> THEN <<"lf">> ELSE p]
Unbroken == Byte \ {"cr"}

\* The pieces of a text are pieces, one for each byte.
LEMMA PieceTypes ==
  /\ Piece \in SUBSET Seq(Byte)
  /\ Spelling(Ends, Piece, Unbroken)
  /\ \A s \in Seq(Byte) : Pieces(s) \in Seq(Piece) /\ Len(Pieces(s)) = Len(s)
<1>1. Piece \in SUBSET Seq(Byte)
  <2>1. \A c \in Byte : <<c>> \in Seq(Byte)  OBVIOUS
  <2> QED  BY <2>1, EmptySeq DEF Piece
<1>2. Spelling(Ends, Piece, Unbroken)
  <2>1. ASSUME NEW p \in Piece PROVE Ends[p] \in Seq(Unbroken)
    <3>1. CASE p = <<>>
      <4>1. p # <<"cr">>  BY <3>1
      <4>2. Ends[p] = <<>>  BY <3>1, <4>1 DEF Ends
      <4> QED  BY <4>2, EmptySeq
    <3>2. ASSUME NEW c \in Byte, p = <<c>> PROVE Ends[p] \in Seq(Unbroken)
      <4>1. c = "cr" => Ends[p] = <<"lf">> /\ "lf" \in Unbroken
        BY <3>2 DEF Ends, Unbroken, Byte
      <4>2. c # "cr" => Ends[p] = <<c>> /\ c \in Unbroken
        <5>1. c # "cr" => p # <<"cr">>  BY <3>2
        <5>2. c # "cr" => Ends[p] = <<c>>  BY <3>2, <5>1 DEF Ends
        <5> QED  BY <5>2 DEF Unbroken
      <4>3. \A d \in Unbroken : <<d>> \in Seq(Unbroken)  OBVIOUS
      <4> QED  BY <4>1, <4>2, <4>3
    <3> QED  BY <3>1, <3>2 DEF Piece
  <2> QED  BY <2>1 DEF Ends, Spelling
<1>3. ASSUME NEW s \in Seq(Byte) PROVE Pieces(s) \in Seq(Piece) /\ Len(Pieces(s)) = Len(s)
  <2>1. \A i \in 1..Len(s) : (IF Paired(s, i) THEN <<>> ELSE <<s[i]>>) \in Piece
    BY DEF Piece
  <2>2. DOMAIN s = 1..Len(s) /\ Len(s) \in Nat  BY LenProperties
  <2> QED  BY <2>1, <2>2 DEF Pieces
<1> QED  BY <1>1, <1>2, <1>3

\* ReplaceLineEnds replaces piece by piece and leaves no CR.
LEMMA EndsSpread ==
  ASSUME NEW s \in Seq(Byte)
  PROVE  /\ ReplaceLineEnds(s) = Spread(Ends, Pieces(s))
         /\ ReplaceLineEnds(s) \in Seq(Unbroken)
<1> DEFINE Same == [p \in Piece |-> p]
           Lf == [c \in Byte |-> IF c = "cr" THEN "lf" ELSE c]
           One == [c \in Byte |-> <<Lf[c]>>]
           p == Pieces(s)
<1>1. /\ Piece \in SUBSET Seq(Byte) /\ Spelling(Ends, Piece, Unbroken)
      /\ p \in Seq(Piece)
  BY PieceTypes
<1>2. Spelling(Same, Piece, Byte)  BY <1>1 DEF Spelling
<1>3. Lf \in [Byte -> Unbroken]  BY DEF Byte, Unbroken
<1>4. Spelling(One, Byte, Unbroken) /\ \A c \in Byte : One[c] = <<Lf[c]>>
  <2> HIDE DEF Lf
  <2> QED  BY <1>3 DEF Spelling
<1>5. \A t \in Seq(Byte) : /\ Spread(One, t) \in Seq(Unbroken)
                            /\ Len(Spread(One, t)) = Len(t)
                            /\ \A i \in 1..Len(t) : Spread(One, t)[i] = One[t[i]][1]
  <2> HIDE DEF One, Lf
  <2>1. \A x : Len(<<x>>) = 1  OBVIOUS
  <2>2. \A c \in Byte : Len(One[c]) = 1  BY <1>4, <2>1
  <2> QED  BY <1>4, <2>2, SpreadLetters
<1>6. FlattenSeq(p) = Spread(Same, p) /\ Spread(Same, p) \in Seq(Byte)
  <2>1. [i \in DOMAIN p |-> Same[p[i]]] = p
    <3>1. DOMAIN p = 1..Len(p) /\ \A i \in 1..Len(p) : p[i] \in Piece
      BY <1>1, LenProperties
    <3>2. p = [i \in DOMAIN p |-> p[i]]  BY DEF Pieces
    <3> HIDE DEF p
    <3> QED  BY <3>1, <3>2
  <2>2. \A v \in Seq(Piece) :
           /\ Spread(Same, v) \in Seq(Byte)
           /\ \A d \in Piece : Spread(Same, Append(v, d)) = Spread(Same, v) \o Same[d]
    <3> HIDE DEF Same
    <3> QED  BY <1>2, SpreadAppend
  <2> QED  BY <1>1, <2>1, <2>2 DEF Spread
<1>7. Spread(One, Spread(Same, p)) = Spread(Ends, p)
  <2>1. ASSUME NEW d \in Piece PROVE Spread(One, Same[d]) = Ends[d]
    <3>1. CASE d = <<>>
      <4>1. Ends[d] = <<>>  BY <3>1 DEF Ends, Piece
      <4> QED  BY <3>1, <4>1, SpreadEmpty
    <3>2. ASSUME NEW c \in Byte, d = <<c>> PROVE Spread(One, Same[d]) = Ends[d]
      <4>1. Spread(One, <<c>>) = One[c]
        <5> HIDE DEF One
        <5> QED  BY <1>4, SpreadSingle
      <4>2. Ends[d] = <<Lf[c]>>
        <5>1. d = <<"cr">> <=> c = "cr"  BY <3>2
        <5> QED  BY <3>2, <5>1 DEF Ends
      <4> QED  BY <3>2, <4>1, <4>2
    <3> QED  BY <3>1, <3>2 DEF Piece
  <2> HIDE DEF One, Same
  <2>2. (\A d \in Piece : Spread(One, Same[d]) = Ends[d])
           => \A v \in Seq(Piece) : Spread(One, Spread(Same, v)) = Spread(Ends, v)
    <3>1. Spelling(One, Byte, Unbroken) /\ Spelling(Ends, Piece, Unbroken)
      BY <1>1, <1>4
    <3> QED  BY <1>2, <3>1, SpreadSpread
  <2>3. \A v \in Seq(Piece) : Spread(One, Spread(Same, v)) = Spread(Ends, v)
    BY <2>1, <2>2
  <2> QED  BY <1>1, <2>3
<1>8. ReplaceLineEnds(s) = Spread(One, Spread(Same, p))
  <2> DEFINE short == FlattenSeq(p)
  <2>1. ReplaceLineEnds(s)
          = [i \in DOMAIN short |-> IF short[i] = "cr" THEN "lf" ELSE short[i]]
    BY Zenon DEF ReplaceLineEnds, Pieces, Paired
  <2>2. short \in Seq(Byte)  BY <1>6
  <2> HIDE DEF short
  <2>3. Len(short) \in Nat /\ DOMAIN short = 1..Len(short)
        /\ \A i \in 1..Len(short) : short[i] \in Byte
    BY <2>2, LenProperties
  <2>4. DOMAIN ReplaceLineEnds(s) = 1..Len(short)
        /\ \A i \in 1..Len(short) : ReplaceLineEnds(s)[i] = Lf[short[i]]
    BY <2>1, <2>3
  <2>5. ReplaceLineEnds(s) = [i \in 1..Len(short) |-> ReplaceLineEnds(s)[i]]
    BY <2>1, <2>3
  <2> HIDE DEF Lf, One
  <2>6. /\ Spread(One, short) \in Seq(Unbroken)
        /\ Len(Spread(One, short)) = Len(short)
        /\ \A i \in 1..Len(short) : Spread(One, short)[i] = Lf[short[i]]
    <3>1. \A i \in 1..Len(short) : One[short[i]][1] = Lf[short[i]]  BY <1>4, <2>3
    <3> QED  BY <1>5, <2>2, <3>1
  <2>7. ReplaceLineEnds(s) \in Seq(Unbroken) /\ Len(ReplaceLineEnds(s)) = Len(short)
    <3>1. \A i \in 1..Len(short) : ReplaceLineEnds(s)[i] \in Unbroken
      BY <1>3, <2>3, <2>4
    <3> QED  BY <2>3, <2>4, <2>5, <3>1
  <2>8. ReplaceLineEnds(s) = Spread(One, short)
    BY <2>4, <2>6, <2>7, SeqEqual
  <2> QED  BY <1>6, <2>8 DEF short
<1>9. Spread(Ends, p) \in Seq(Unbroken)
  <2>1. \A v \in Seq(Piece) :
           /\ Spread(Ends, v) \in Seq(Unbroken)
           /\ \A d \in Piece : Spread(Ends, Append(v, d)) = Spread(Ends, v) \o Ends[d]
    BY <1>1, SpreadAppend
  <2> QED  BY <1>1, <2>1
<1> QED  BY <1>7, <1>8, <1>9

\* What a byte of a text without CR, and without "ff" when it is UTF-8, is
\* shown as; in UTF-8 "80" belongs to the byte before it.
Kept(utf8) == {c \in Byte : c # "cr" /\ (utf8 => c # "ff")}
Masked(utf8) == {"nul", "ctl"} \cup (IF utf8 THEN {"c2"} ELSE {"80"})
Out(utf8) ==
  [c \in Kept(utf8) |-> IF c = "lf" THEN CRLF
                        ELSE IF c \in Masked(utf8) THEN <<"?">>
                        ELSE IF utf8 /\ c = "80" THEN <<>>
                        ELSE IF utf8 /\ c = "c3" THEN <<"c3", "80">>
                        ELSE <<c>>]
Alone(utf8) ==
  [c \in Kept(utf8) |-> IF utf8 /\ c \in Leads THEN << <<c, "80">> >>
                        ELSE IF utf8 /\ c = "80" THEN <<>>
                        ELSE << <<c>> >>]
Show == [u \in Seq(Byte) |-> Shown(u)]

\* When texts of one and of two bytes are equal.
LEMMA Pairs ==
  /\ \A x, y : <<x>> = <<y>> <=> x = y
  /\ \A x, y, z : <<x, y>> # <<z>>
  /\ \A x, y, z, w : <<x, y>> = <<z, w>> <=> x = z /\ y = w
  OBVIOUS

\* The replacements of sanitizeBody make bytes of bytes.
LEMMA OutTypes ==
  ASSUME NEW utf8 \in BOOLEAN
  PROVE  /\ Spelling(Alone(utf8), Kept(utf8), Seq(Byte))
         /\ Spelling(Out(utf8), Kept(utf8), Byte)
         /\ Spelling(Show, Seq(Byte), Byte)
<1>0. /\ \A c \in Byte : <<c>> \in Seq(Byte)
      /\ \A c, d \in Byte : <<c, d>> \in Seq(Byte)
      /\ <<>> \in Seq(Byte) /\ <<>> \in Seq(Seq(Byte))
      /\ \A u \in Seq(Byte) : <<u>> \in Seq(Seq(Byte))
  BY EmptySeq
<1>1. {"80", "c3", "?", "cr", "lf"} \subseteq Byte /\ Kept(utf8) \subseteq Byte
  BY DEF Byte, Kept
<1>2. Spelling(Alone(utf8), Kept(utf8), Seq(Byte))
  <2>1. ASSUME NEW c \in Kept(utf8) PROVE Alone(utf8)[c] \in Seq(Seq(Byte))
    <3>1. <<c, "80">> \in Seq(Byte) /\ <<c>> \in Seq(Byte)  BY <1>0, <1>1
    <3>2. << <<c, "80">> >> \in Seq(Seq(Byte)) /\ << <<c>> >> \in Seq(Seq(Byte))
      BY <1>0, <3>1
    <3> QED  BY <1>0, <3>2, Zenon DEF Alone
  <2> QED  BY <2>1, Zenon DEF Alone, Spelling
<1>3. Spelling(Out(utf8), Kept(utf8), Byte)
  <2>1. ASSUME NEW c \in Kept(utf8) PROVE Out(utf8)[c] \in Seq(Byte)
    <3>1. /\ <<c>> \in Seq(Byte) /\ <<"?">> \in Seq(Byte) /\ CRLF \in Seq(Byte)
          /\ <<"c3", "80">> \in Seq(Byte)
      BY <1>0, <1>1 DEF CRLF
    <3> QED  BY <1>0, <3>1, Zenon DEF Out
  <2> QED  BY <2>1, Zenon DEF Out, Spelling
<1>4. Spelling(Show, Seq(Byte), Byte)
  <2>1. ASSUME NEW u \in Seq(Byte) PROVE Show[u] \in Seq(Byte)
    <3>1. <<"?">> \in Seq(Byte) /\ CRLF \in Seq(Byte)  BY <1>0, <1>1 DEF CRLF
    <3> QED  BY <3>1, Zenon DEF Show, Shown
  <2> QED  BY <2>1, Zenon DEF Show, Spelling
<1> QED  BY <1>2, <1>3, <1>4

\* The units of a text without faults are found byte by byte.
LEMMA UnitsSpread ==
  ASSUME NEW utf8 \in BOOLEAN, NEW s \in Seq(Kept(utf8))
  PROVE  Units(s, utf8) = Spread(Alone(utf8), s)
<1>0. Spelling(Alone(utf8), Kept(utf8), Seq(Byte))  BY OutTypes
<1>1. DOMAIN s = 1..Len(s) /\ Len(s) \in Nat /\ \A i \in 1..Len(s) : s[i] \in Kept(utf8)
  BY LenProperties, ElementOfSeq
<1>2. CASE utf8
  <2>1. \A c \in Kept(utf8) : Alone(utf8)[c] = CASE c \in Leads -> << <<c, "80">> >>
                                                [] c = "80"    -> <<>>
                                                [] OTHER       -> << <<c>> >>
    BY <1>2 DEF Alone, Leads
  <2>2. [i \in DOMAIN s |-> Alone(utf8)[s[i]]]
          = [i \in DOMAIN s |-> CASE s[i] \in Leads -> << <<s[i], "80">> >>
                                  [] s[i] = "80"    -> <<>>
                                  [] OTHER          -> << <<s[i]>> >>]
    BY <1>1, <2>1
  <2> QED  BY <1>2, <2>2, Zenon DEF Units, Spread
<1>3. CASE ~utf8
  <2> DEFINE A == Alone(utf8)
             u == Units(s, utf8)
             v == Spread(A, s)
  <2>1. \A c \in Kept(utf8) : A[c] = << <<c>> >>  BY <1>3 DEF Alone
  <2>2. \A x : Len(<<x>>) = 1 /\ <<x>>[1] = x  OBVIOUS
  <2>3. \A c \in Kept(utf8) : Len(A[c]) = 1 /\ A[c][1] = <<c>>  BY <2>1, <2>2
  <2>4. \A t \in Seq(Kept(utf8)) : /\ Spread(A, t) \in Seq(Seq(Byte))
                                   /\ Len(Spread(A, t)) = Len(t)
                                   /\ \A i \in 1..Len(t) : Spread(A, t)[i] = A[t[i]][1]
    <3>1. Spelling(A, Kept(utf8), Seq(Byte))  BY <1>0
    <3>2. \A c \in Kept(utf8) : Len(A[c]) = 1  BY <2>3
    <3> HIDE DEF A
    <3> QED  BY <3>1, <3>2, SpreadLetters
  <2>5. u = [i \in 1..Len(s) |-> <<s[i]>>]  BY <1>1, <1>3 DEF Units
  <2>6. u \in Seq(Seq(Byte)) /\ Len(u) = Len(s) /\ \A i \in 1..Len(s) : u[i] = <<s[i]>>
    <3>1. \A i \in 1..Len(s) : <<s[i]>> \in Seq(Byte)  BY <1>1 DEF Kept
    <3> HIDE DEF u
    <3> QED  BY <1>1, <2>5, <3>1
  <2>7. v \in Seq(Seq(Byte)) /\ Len(v) = Len(s) /\ \A i \in 1..Len(s) : v[i] = <<s[i]>>
    BY <1>1, <2>3, <2>4
  <2> HIDE DEF u, v, A
  <2>8. u = v
    <3>1. \A i \in 1..Len(u) : u[i] = v[i]  BY <2>6, <2>7
    <3>2. Len(u) = Len(v)  BY <2>6, <2>7
    <3> QED  BY <2>6, <2>7, <3>1, <3>2, SeqEqual
  <2> QED  BY <2>8 DEF u, v, A
<1> QED  BY <1>2, <1>3

\* Each unit is shown by itself, so each byte is replaced by itself.
LEMMA ShownSpread ==
  ASSUME NEW utf8 \in BOOLEAN, NEW s \in Seq(Kept(utf8))
  PROVE  LET units == Units(s, utf8)
         IN  FlattenSeq([i \in DOMAIN units |-> Shown(units[i])]) = Spread(Out(utf8), s)
<1> DEFINE A == Alone(utf8)
           units == Units(s, utf8)
<1>0. /\ Spelling(A, Kept(utf8), Seq(Byte))
      /\ Spelling(Out(utf8), Kept(utf8), Byte)
      /\ Spelling(Show, Seq(Byte), Byte)
  BY OutTypes
<1>1. units = Spread(A, s) /\ units \in Seq(Seq(Byte))
  <2>1. \A v \in Seq(Kept(utf8)) :
           /\ Spread(A, v) \in Seq(Seq(Byte))
           /\ \A d \in Kept(utf8) : Spread(A, Append(v, d)) = Spread(A, v) \o A[d]
    <3> HIDE DEF A
    <3> QED  BY <1>0, SpreadAppend
  <2> QED  BY <2>1, UnitsSpread
<1>2. FlattenSeq([i \in DOMAIN units |-> Shown(units[i])]) = Spread(Show, units)
  <2> HIDE DEF units
  <2>1. \A i \in DOMAIN units : units[i] \in Seq(Byte)  BY <1>1, LenProperties
  <2>2. [i \in DOMAIN units |-> Shown(units[i])] = [i \in DOMAIN units |-> Show[units[i]]]
    BY <2>1, Zenon DEF Show
  <2> QED  BY <2>2, Zenon DEF Spread
<1>3. ASSUME NEW c \in Kept(utf8) PROVE Spread(Show, A[c]) = Out(utf8)[c]
  <2>0. \A u \in Seq(Byte) : Spread(Show, <<u>>) = Shown(u)
    <3>1. \A u \in Seq(Byte) : Spread(Show, <<u>>) = Show[u]
      BY <1>0, SpreadSingle
    <3> QED  BY <3>1 DEF Show
  <2>1. <<c>> \in Seq(Byte) /\ <<c, "80">> \in Seq(Byte)
    BY DEF Kept, Byte
  <2>2. CASE utf8 /\ c \in Leads
    <3>1. A[c] = << <<c, "80">> >>  BY <2>2 DEF Alone
    <3>2. Spread(Show, A[c]) = Shown(<<c, "80">>)  BY <2>0, <2>1, <3>1
    <3>3. c = "c2" => /\ Shown(<<c, "80">>) = <<"?">>
                      /\ Out(utf8)[c] = <<"?">>
      BY <2>2, Pairs DEF Shown, ValidOutput, Out, Masked
    <3>4. c = "c3" => /\ Shown(<<c, "80">>) = <<"c3", "80">>
                      /\ Out(utf8)[c] = <<"c3", "80">>
      BY <2>2, Pairs DEF Shown, ValidOutput, Out, Masked
    <3> QED  BY <2>2, <3>2, <3>3, <3>4 DEF Leads
  <2>3. CASE utf8 /\ c = "80"
    <3>1. A[c] = <<>>  BY <2>3 DEF Alone, Leads
    <3>2. Out(utf8)[c] = <<>>  BY <2>3 DEF Out, Masked
    <3> QED  BY <3>1, <3>2, SpreadEmpty
  <2>4. CASE ~utf8 \/ c \notin {"c2", "c3", "80"}
    <3>1. A[c] = << <<c>> >>  BY <2>4 DEF Alone, Leads
    <3>2. Spread(Show, A[c]) = Shown(<<c>>)  BY <2>0, <2>1, <3>1
    <3>3. Shown(<<c>>) = IF c = "lf" THEN CRLF
                         ELSE IF c \in {"nul", "ctl", "cr", "80"} THEN <<"?">> ELSE <<c>>
      BY Pairs DEF Shown, ValidOutput
    <3>4. c # "cr"  BY DEF Kept
    <3>5. Out(utf8)[c] = IF c = "lf" THEN CRLF
                         ELSE IF c \in {"nul", "ctl", "cr", "80"} THEN <<"?">> ELSE <<c>>
      BY <2>4, <3>4 DEF Out, Masked
    <3> QED  BY <3>2, <3>3, <3>5
  <2> QED  BY <2>2, <2>3, <2>4 DEF Leads
<1>4. \A t \in Seq(Kept(utf8)) : Spread(Show, Spread(A, t)) = Spread(Out(utf8), t)
  <2> HIDE DEF A
  <2>1. (\A c \in Kept(utf8) : Spread(Show, A[c]) = Out(utf8)[c])
          => \A t \in Seq(Kept(utf8)) : Spread(Show, Spread(A, t)) = Spread(Out(utf8), t)
    BY <1>0, SpreadSpread
  <2> QED  BY <1>3, <2>1
<1> QED  BY <1>1, <1>2, <1>4

\* sanitizeBody accepts a text or not, and makes one body of it.
LEMMA BodyOf ==
  ASSUME NEW raw \in Seq(Byte), NEW utf8 \in BOOLEAN, sanitizeBody(raw, utf8) # {}
  PROVE  /\ ReplaceLineEnds(raw) \in Seq(Kept(utf8))
         /\ sanitizeBody(raw, utf8) = {Spread(Out(utf8), ReplaceLineEnds(raw))}
<1> DEFINE s == ReplaceLineEnds(raw)
<1>1. ~(utf8 /\ ~Valid(s))  BY Zenon DEF sanitizeBody
<1>2. s \in Seq(Unbroken)  BY EndsSpread
<1> HIDE DEF s
<1>3. s \in Seq(Kept(utf8))
  <2>1. ASSUME NEW i \in 1..Len(s) PROVE s[i] \in Kept(utf8)
    <3>1. s[i] \in Unbroken  BY <1>2
    <3>2. utf8 => s[i] # "ff"
      <4>1. i \in DOMAIN s  BY <1>2, LenProperties
      <4> QED  BY <1>1, <4>1 DEF Valid
    <3> QED  BY <3>1, <3>2 DEF Unbroken, Kept
  <2>2. Len(s) \in Nat /\ s \in [1..Len(s) -> Unbroken]  BY <1>2, LenProperties
  <2>3. s \in [1..Len(s) -> Kept(utf8)]  BY <2>1, <2>2
  <2> QED  BY <2>2, <2>3
<1>4. LET units == Units(s, utf8)
      IN  FlattenSeq([i \in DOMAIN units |-> Shown(units[i])]) = Spread(Out(utf8), s)
  BY <1>3, ShownSpread
<1>5. sanitizeBody(raw, utf8)
        = IF (\E i \in DOMAIN raw : raw[i] = "nul") \/ (utf8 /\ ~Valid(s)) THEN {}
          ELSE {Spread(Out(utf8), s)}
  BY <1>4, Zenon DEF sanitizeBody, s
<1> QED  BY <1>3, <1>5 DEF s

\* And it accepts a text without NUL whose line ends leave valid UTF-8.
LEMMA BodyWhen ==
  ASSUME NEW raw \in Seq(Byte), NEW utf8 \in BOOLEAN,
         \A i \in DOMAIN raw : raw[i] # "nul",
         utf8 => Valid(ReplaceLineEnds(raw))
  PROVE  sanitizeBody(raw, utf8) # {}
<1>1. ~((\E i \in DOMAIN raw : raw[i] = "nul")
          \/ (utf8 /\ ~Valid(ReplaceLineEnds(raw))))
  OBVIOUS
<1> QED  BY <1>1, Zenon DEF sanitizeBody

-----------------------------------------------------------------------------
(* No stray line end, no stray half of a rune.                             *)

\* Whatever is in A is followed by what is in B, which follows nothing else.
Bound(v, A, B) ==
  /\ \A i \in DOMAIN v : v[i] \in A => i < Len(v) /\ v[i + 1] \in B
  /\ \A i \in DOMAIN v : v[i] \in B => i > 1 /\ v[i - 1] \in A
Bounded(A, B, N) == {v \in Seq(Byte) : Bound(v, A, B)
                                       /\ \A i \in DOMAIN v : v[i] \notin N}

\* Texts in which every A is followed by a B stay so when they are joined.
LEMMA BoundConcat ==
  ASSUME NEW A, NEW B, NEW N
  PROVE  \A u, v \in Bounded(A, B, N) : u \o v \in Bounded(A, B, N)
<1> SUFFICES ASSUME NEW u \in Bounded(A, B, N), NEW v \in Bounded(A, B, N)
             PROVE  u \o v \in Bounded(A, B, N)
  OBVIOUS
<1> DEFINE w == u \o v
           m == Len(u)
           n == Len(v)
<1>1. u \in Seq(Byte) /\ v \in Seq(Byte)  BY DEF Bounded
<1>2. /\ m \in Nat /\ n \in Nat /\ DOMAIN u = 1..m /\ DOMAIN v = 1..n
      /\ \A i \in 1..m : u[i] \in A => i < m /\ u[i + 1] \in B
      /\ \A i \in 1..m : u[i] \in B => i > 1 /\ u[i - 1] \in A
      /\ \A i \in 1..n : v[i] \in A => i < n /\ v[i + 1] \in B
      /\ \A i \in 1..n : v[i] \in B => i > 1 /\ v[i - 1] \in A
      /\ \A i \in 1..m : u[i] \notin N
      /\ \A i \in 1..n : v[i] \notin N
  <2>1. m \in Nat /\ n \in Nat /\ DOMAIN u = 1..m /\ DOMAIN v = 1..n
    BY <1>1, LenProperties
  <2> QED  BY <2>1 DEF Bounded, Bound
<1>3. w \in Seq(Byte) /\ Len(w) = m + n
      /\ \A i \in 1..(m + n) : w[i] = IF i <= m THEN u[i] ELSE v[i - m]
  BY <1>1, ConcatProperties
<1>4. DOMAIN w = 1..(m + n)  BY <1>3, LenProperties
<1> HIDE DEF w, m, n
<1>5. ASSUME NEW i \in 1..(m + n)
      PROVE  /\ w[i] \in A => i < m + n /\ w[i + 1] \in B
             /\ w[i] \in B => i > 1 /\ w[i - 1] \in A
             /\ w[i] \notin N
  <2>1. CASE i <= m
    <3>1. i \in 1..m /\ w[i] = u[i]  BY <1>2, <1>3, <2>1
    <3>2. i < m => i + 1 \in 1..(m + n) /\ w[i + 1] = u[i + 1]  BY <1>2, <1>3, <2>1
    <3>3. i > 1 => i - 1 \in 1..(m + n) /\ w[i - 1] = u[i - 1]  BY <1>2, <1>3, <2>1
    <3> QED  BY <1>2, <3>1, <3>2, <3>3
  <2>2. CASE ~(i <= m)
    <3> DEFINE j == i - m
    <3>1. j \in 1..n /\ w[i] = v[j]  BY <1>2, <1>3, <2>2
    <3>2. j < n => i + 1 \in 1..(m + n) /\ w[i + 1] = v[j + 1]
      <4>1. j < n => i + 1 \in 1..(m + n) /\ ~(i + 1 <= m) /\ (i + 1) - m = j + 1
        BY <1>2, <2>2
      <4> QED  BY <1>3, <4>1
    <3>3. j > 1 => i - 1 \in 1..(m + n) /\ w[i - 1] = v[j - 1]
      <4>1. j > 1 => i - 1 \in 1..(m + n) /\ ~(i - 1 <= m) /\ (i - 1) - m = j - 1
        BY <1>2, <2>2
      <4> QED  BY <1>3, <4>1
    <3>4. /\ v[j] \in A => j < n /\ v[j + 1] \in B
          /\ v[j] \in B => j > 1 /\ v[j - 1] \in A
          /\ v[j] \notin N
      <4> HIDE DEF j
      <4> QED  BY <1>2, <3>1
    <3>5. (j < n => i < m + n) /\ (j > 1 => i > 1)  BY <1>2
    <3> HIDE DEF j
    <3> QED  BY <3>1, <3>2, <3>3, <3>4, <3>5
  <2> QED  BY <2>1, <2>2
<1> QED  BY <1>3, <1>4, <1>5 DEF Bounded, Bound, w

\* The short texts in which every A is followed by a B.
LEMMA BoundSmall ==
  ASSUME NEW A, NEW B, NEW N, NEW x \in Byte \ N, NEW y \in Byte \ N
  PROVE  /\ <<>> \in Bounded(A, B, N)
         /\ x \notin A \cup B => <<x>> \in Bounded(A, B, N)
         /\ x \notin A \cup B /\ y \notin A \cup B => <<x, y>> \in Bounded(A, B, N)
         /\ x \in A \ B /\ y \in B \ A => <<x, y>> \in Bounded(A, B, N)
<1>1. <<>> \in Bounded(A, B, N)  BY EmptySeq DEF Bounded, Bound
<1>2. x \notin A \cup B => <<x>> \in Bounded(A, B, N)
  <2> DEFINE v == <<x>>
  <2>1. v \in Seq(Byte) /\ DOMAIN v = 1..1 /\ v[1] = x  OBVIOUS
  <2> HIDE DEF v
  <2>2. \A i \in DOMAIN v : v[i] = x  BY <2>1
  <2>3. x \notin A \cup B => v \in Bounded(A, B, N)  BY <2>1, <2>2 DEF Bounded, Bound
  <2> QED  BY <2>3 DEF v
<1>3. /\ x \notin A \cup B /\ y \notin A \cup B => <<x, y>> \in Bounded(A, B, N)
      /\ x \in A \ B /\ y \in B \ A => <<x, y>> \in Bounded(A, B, N)
  <2> DEFINE v == <<x, y>>
  <2>1. v \in Seq(Byte) /\ DOMAIN v = 1..2 /\ Len(v) = 2 /\ v[1] = x /\ v[2] = y
    OBVIOUS
  <2> HIDE DEF v
  <2>2. \A i \in DOMAIN v : i = 1 \/ i = 2  BY <2>1
  <2>3. x \notin A \cup B /\ y \notin A \cup B => v \in Bounded(A, B, N)
    BY <2>1, <2>2 DEF Bounded, Bound
  <2>4. ASSUME x \in A \ B, y \in B \ A PROVE v \in Bounded(A, B, N)
    <3>1. \A i \in DOMAIN v : v[i] \in A => i < Len(v) /\ v[i + 1] \in B
      BY <2>1, <2>2, <2>4
    <3>2. \A i \in DOMAIN v : v[i] \in B => i > 1 /\ v[i - 1] \in A
      BY <2>1, <2>2, <2>4
    <3> QED  BY <2>1, <2>2, <3>1, <3>2 DEF Bounded, Bound
  <2> QED  BY <2>3, <2>4 DEF v
<1> QED  BY <1>1, <1>2, <1>3
-----------------------------------------------------------------------------
(* The line ends of a body, and those of the text it was made of.          *)

\* A CRLF is never made by putting two texts together at a byte other than LF.
LEMMA PiecesConcat ==
  ASSUME NEW s \in Seq(Byte), NEW t \in Seq(Byte), Len(t) > 0 => t[1] # "lf"
  PROVE  Pieces(s \o t) = Pieces(s) \o Pieces(t)
<1> DEFINE m == Len(s)
           n == Len(t)
           w == s \o t
           p == Pieces(s)
           q == Pieces(t)
           r == Pieces(w)
           u == p \o q
<1>1. /\ m \in Nat /\ n \in Nat /\ DOMAIN s = 1..m /\ DOMAIN t = 1..n
      /\ w \in Seq(Byte) /\ Len(w) = m + n /\ DOMAIN w = 1..(m + n)
      /\ \A i \in 1..(m + n) : w[i] = IF i <= m THEN s[i] ELSE t[i - m]
  <2>1. m \in Nat /\ n \in Nat /\ DOMAIN s = 1..m /\ DOMAIN t = 1..n  BY LenProperties
  <2>2. w \in Seq(Byte) /\ Len(w) = m + n
        /\ \A i \in 1..(m + n) : w[i] = IF i <= m THEN s[i] ELSE t[i - m]
    BY ConcatProperties
  <2>3. DOMAIN w = 1..(m + n)  BY <2>2, LenProperties
  <2> QED  BY <2>1, <2>2, <2>3
<1>2. /\ p \in Seq(Piece) /\ q \in Seq(Piece) /\ r \in Seq(Piece)
      /\ Len(p) = m /\ Len(q) = n /\ Len(r) = m + n
  BY <1>1, PieceTypes
<1>3. u \in Seq(Piece) /\ Len(u) = m + n
      /\ \A i \in 1..(m + n) : u[i] = IF i <= m THEN p[i] ELSE q[i - m]
  <2> HIDE DEF m, n, p, q
  <2> QED  BY <1>2, ConcatProperties
<1>4. /\ \A i \in 1..m : p[i] = IF Paired(s, i) THEN <<>> ELSE <<s[i]>>
      /\ \A i \in 1..n : q[i] = IF Paired(t, i) THEN <<>> ELSE <<t[i]>>
      /\ \A i \in 1..(m + n) : r[i] = IF Paired(w, i) THEN <<>> ELSE <<w[i]>>
  BY <1>1 DEF Pieces
<1>5. \A i \in 1..m : w[i] = s[i] /\ (Paired(w, i) <=> Paired(s, i))
  <2> SUFFICES ASSUME NEW i \in 1..m PROVE w[i] = s[i] /\ (Paired(w, i) <=> Paired(s, i))
    OBVIOUS
  <2> HIDE DEF w, m, n
  <2>1. w[i] = s[i]  BY <1>1
  <2>2. CASE i < m
    <3>1. i + 1 \in 1..(m + n) /\ i + 1 <= m /\ i < m + n  BY <1>1, <2>2
    <3>2. w[i + 1] = s[i + 1]  BY <1>1, <3>1
    <3> QED  BY <1>1, <2>1, <2>2, <3>1, <3>2 DEF Paired, m
  <2>3. CASE i = m
    <3>1. ~Paired(s, i)  BY <1>1, <2>3 DEF Paired, m
    <3>2. n > 0 => w[i + 1] = t[1]
      <4>1. n > 0 => i + 1 \in 1..(m + n) /\ ~(i + 1 <= m) /\ (i + 1) - m = 1
        BY <1>1, <2>3
      <4> QED  BY <1>1, <4>1
    <3>3. i < m + n => n > 0  BY <1>1, <2>3
    <3>4. n > 0 => t[1] # "lf"  BY DEF n
    <3> QED  BY <1>1, <2>1, <3>1, <3>2, <3>3, <3>4 DEF Paired
  <2> QED  BY <1>1, <2>1, <2>2, <2>3
<1>6. \A i \in 1..n : w[m + i] = t[i] /\ (Paired(w, m + i) <=> Paired(t, i))
  <2> SUFFICES ASSUME NEW i \in 1..n
               PROVE  w[m + i] = t[i] /\ (Paired(w, m + i) <=> Paired(t, i))
    OBVIOUS
  <2> HIDE DEF w, m, n
  <2>1. w[m + i] = t[i]
    <3>1. m + i \in 1..(m + n) /\ ~(m + i <= m) /\ (m + i) - m = i  BY <1>1
    <3> QED  BY <1>1, <3>1
  <2>2. i < n => w[(m + i) + 1] = t[i + 1]
    <3>1. i < n => (m + i) + 1 \in 1..(m + n) /\ ~((m + i) + 1 <= m)
                   /\ ((m + i) + 1) - m = i + 1
      BY <1>1
    <3> QED  BY <1>1, <3>1
  <2>3. (m + i < m + n) <=> (i < n)  BY <1>1
  <2> QED  BY <1>1, <2>1, <2>2, <2>3 DEF Paired, n
<1> HIDE DEF m, n, w, p, q, r, u
<1>7. ASSUME NEW i \in 1..(m + n) PROVE r[i] = u[i]
  <2>1. CASE i <= m
    <3>1. i \in 1..m  BY <1>1, <2>1
    <3>2. u[i] = p[i]  BY <1>3, <2>1
    <3>3. w[i] = s[i] /\ (Paired(w, i) <=> Paired(s, i))  BY <1>5, <3>1
    <3> QED  BY <1>4, <3>1, <3>2, <3>3
  <2>2. CASE ~(i <= m)
    <3>1. i - m \in 1..n /\ m + (i - m) = i  BY <1>1, <2>2
    <3>2. u[i] = q[i - m]  BY <1>3, <2>2
    <3>3. w[i] = t[i - m] /\ (Paired(w, i) <=> Paired(t, i - m))
      BY <1>6, <3>1
    <3> QED  BY <1>4, <3>1, <3>2, <3>3
  <2> QED  BY <2>1, <2>2
<1>8. r = u  BY <1>2, <1>3, <1>7, SeqEqual
<1> QED  BY <1>8 DEF w, p, q, r, u

\* Line ends are replaced on both sides of a place that does not split a CRLF.
LEMMA LineEndsConcat ==
  ASSUME NEW s \in Seq(Byte), NEW t \in Seq(Byte), Len(t) > 0 => t[1] # "lf"
  PROVE  ReplaceLineEnds(s \o t) = ReplaceLineEnds(s) \o ReplaceLineEnds(t)
<1>1. /\ s \o t \in Seq(Byte) /\ Pieces(s) \in Seq(Piece) /\ Pieces(t) \in Seq(Piece)
      /\ Spelling(Ends, Piece, Unbroken)
  BY ConcatProperties, PieceTypes
<1>2. \A u \in Seq(Piece) :
         /\ Spread(Ends, u) \in Seq(Unbroken)
         /\ \A v \in Seq(Piece) : Spread(Ends, u \o v) = Spread(Ends, u) \o Spread(Ends, v)
  <2>1. Spelling(Ends, Piece, Unbroken)  BY <1>1
  <2> QED  BY <2>1, SpreadConcat
<1>3. Spread(Ends, Pieces(s) \o Pieces(t)) = Spread(Ends, Pieces(s)) \o Spread(Ends, Pieces(t))
  BY <1>1, <1>2
<1> QED  BY <1>1, <1>3, EndsSpread, PiecesConcat

\* What ReplaceLineEnds makes of the bodies of single bytes.
LEMMA LineEndsSmall ==
  /\ ReplaceLineEnds(<<>>) = <<>>
  /\ \A c \in Unbroken : ReplaceLineEnds(<<c>>) = <<c>>
  /\ \A c, d \in Unbroken : d # "lf" => ReplaceLineEnds(<<c, d>>) = <<c, d>>
  /\ ReplaceLineEnds(CRLF) = <<"lf">>
<1>0. Spelling(Ends, Piece, Unbroken)  BY PieceTypes
<1>1. ReplaceLineEnds(<<>>) = <<>>
  <2>1. Pieces(<<>>) = <<>>  BY DEF Pieces
  <2> QED  BY <2>1, EmptySeq, EndsSpread, SpreadEmpty
<1>2. ASSUME NEW c \in Unbroken PROVE ReplaceLineEnds(<<c>>) = <<c>>
  <2> DEFINE s == <<c>>
  <2>1. s \in Seq(Byte) /\ Len(s) = 1 /\ s[1] = c /\ DOMAIN s = 1..1  BY DEF Unbroken
  <2> HIDE DEF s
  <2>2. Pieces(s) = [i \in 1..1 |-> s]
    <3>1. Pieces(s) = [i \in 1..1 |-> <<s[i]>>]  BY <2>1 DEF Pieces, Paired
    <3>2. \A i \in 1..1 : i = 1  OBVIOUS
    <3>3. <<s[1]>> = s  BY <2>1 DEF s
    <3> QED  BY <3>1, <3>2, <3>3
  <2>3. Pieces(s) = <<s>>  BY <2>2
  <2>4. <<c>> \in Piece /\ <<c>> # <<"cr">>  BY DEF Piece, Unbroken
  <2>5. Spread(Ends, << <<c>> >>) = Ends[<<c>>]  BY <1>0, <2>4, SpreadSingle
  <2>6. Ends[<<c>>] = <<c>>  BY <2>4 DEF Ends
  <2> QED  BY <2>1, <2>3, <2>5, <2>6, EndsSpread DEF s
<1>3. ASSUME NEW c \in Unbroken, NEW d \in Unbroken, d # "lf"
      PROVE  ReplaceLineEnds(<<c, d>>) = <<c, d>>
  <2> DEFINE one == <<c>>
             two == <<d>>
  <2>1. one \in Seq(Byte) /\ two \in Seq(Byte) /\ two[1] # "lf"
    <3>1. c \in Byte /\ d \in Byte  BY DEF Unbroken
    <3>2. one \in Seq(Byte)  BY <3>1
    <3>3. two \in Seq(Byte)  BY <3>1
    <3>4. two[1] = d  OBVIOUS
    <3> HIDE DEF one, two
    <3> QED  BY <1>3, <3>2, <3>3, <3>4
  <2>2. one \o two = <<c, d>>  BY PairParts, Zenon
  <2>3. ReplaceLineEnds(one) = one /\ ReplaceLineEnds(two) = two  BY <1>2
  <2> HIDE DEF one, two
  <2>4. ReplaceLineEnds(one \o two) = one \o two
    BY <2>1, <2>3, LineEndsConcat
  <2> QED  BY <2>2, <2>4
<1>4. ReplaceLineEnds(CRLF) = <<"lf">>
  <2> DEFINE none == <<>>
             lf == <<"lf">>
             pieces == <<none, lf>>
  <2>1. /\ CRLF \in Seq(Byte) /\ DOMAIN CRLF = 1..2 /\ Len(CRLF) = 2
        /\ CRLF[1] = "cr" /\ CRLF[2] = "lf"
    BY DEF CRLF, Byte
  <2>2. Pieces(CRLF) = pieces
    <3>1. Paired(CRLF, 1) /\ ~Paired(CRLF, 2)  BY <2>1 DEF Paired
    <3>2. Pieces(CRLF) = [i \in 1..2 |-> IF i = 1 THEN none ELSE lf]
      BY <2>1, <3>1 DEF Pieces
    <3> QED  BY <3>2
  <2>3. none \in Piece /\ lf \in Piece /\ lf # <<"cr">> /\ none # <<"cr">>
    BY DEF Piece, Byte
  <2>4. Ends[none] = none /\ Ends[lf] = lf  BY <2>3, Zenon DEF Ends
  <2>5. <<none>> \in Seq(Piece) /\ pieces = Append(<<none>>, lf)  BY <2>3
  <2> HIDE DEF none, lf
  <2>6. Spread(Ends, pieces) = Spread(Ends, <<none>>) \o Ends[lf]
    <3>1. \A v \in Seq(Piece) :
             /\ Spread(Ends, v) \in Seq(Unbroken)
             /\ \A e \in Piece : Spread(Ends, Append(v, e)) = Spread(Ends, v) \o Ends[e]
      BY <1>0, SpreadAppend
    <3> QED  BY <2>3, <2>5, <3>1
  <2>7. Spread(Ends, <<none>>) = Ends[none]  BY <1>0, <2>3, SpreadSingle
  <2>8. Spread(Ends, pieces) = none \o lf  BY <2>4, <2>6, <2>7
  <2>9. none \o lf = lf  BY DEF none, lf
  <2> QED  BY <2>1, <2>2, <2>8, <2>9, EndsSpread DEF lf
<1> QED  BY <1>1, <1>2, <1>3, <1>4

\* The body of every byte once its own line end is replaced again.
Bare(utf8) == [c \in Kept(utf8) |-> IF c = "lf" THEN <<"lf">> ELSE Out(utf8)[c]]

\* The forms a byte's body can have.
LEMMA OutForms ==
  ASSUME NEW utf8 \in BOOLEAN, NEW c \in Kept(utf8)
  PROVE  \/ c = "lf" /\ Out(utf8)[c] = CRLF /\ Bare(utf8)[c] = <<"lf">>
         \/ /\ c # "lf" /\ c \in Masked(utf8)
            /\ Out(utf8)[c] = <<"?">> /\ Bare(utf8)[c] = <<"?">>
         \/ /\ utf8 /\ c = "80" /\ Out(utf8)[c] = <<>> /\ Bare(utf8)[c] = <<>>
         \/ /\ utf8 /\ c = "c3"
            /\ Out(utf8)[c] = <<"c3", "80">> /\ Bare(utf8)[c] = <<"c3", "80">>
         \/ /\ c # "lf" /\ c \notin Masked(utf8) /\ (utf8 => c \notin {"80", "c3"})
            /\ Out(utf8)[c] = <<c>> /\ Bare(utf8)[c] = <<c>>
<1>1. c = "lf" => c \notin Masked(utf8)  BY DEF Masked
<1>2. CASE c = "lf"  BY <1>2 DEF Out, Bare
<1>3. CASE c # "lf"
  <2>1. Bare(utf8)[c] = Out(utf8)[c]  BY <1>3 DEF Bare
  <2>2. CASE c \in Masked(utf8)  BY <1>3, <2>1, <2>2 DEF Out
  <2>3. CASE c \notin Masked(utf8) /\ utf8 /\ c = "80"  BY <1>3, <2>1, <2>3 DEF Out
  <2>4. CASE c \notin Masked(utf8) /\ utf8 /\ c = "c3"
    <3>1. c # "80"  BY <2>4
    <3> QED  BY <1>3, <2>1, <2>4, <3>1 DEF Out
  <2>5. CASE c \notin Masked(utf8) /\ (utf8 => c \notin {"80", "c3"})
    BY <1>3, <2>1, <2>5 DEF Out
  <2> QED  BY <2>2, <2>3, <2>4, <2>5
<1> QED  BY <1>2, <1>3

\* Which bytes sanitizeBody has before it when it replaces them one by one.
LEMMA KeptBytes ==
  ASSUME NEW utf8 \in BOOLEAN
  PROVE  /\ {"lf", "?"} \subseteq Kept(utf8) /\ "c3" \in Kept(utf8) /\ "80" \in Kept(utf8)
         /\ Kept(utf8) \subseteq Unbroken /\ Unbroken \subseteq Byte
         /\ "cr" \in Byte
  BY DEF Kept, Byte, Unbroken

\* A body without its CRs is made of such bytes again.
LEMMA BareTypes ==
  ASSUME NEW utf8 \in BOOLEAN
  PROVE  /\ Spelling(Bare(utf8), Kept(utf8), Kept(utf8))
         /\ Spelling(Bare(utf8), Kept(utf8), Byte)
<1>1. ASSUME NEW c \in Kept(utf8) PROVE Bare(utf8)[c] \in Seq(Kept(utf8))
  <2> DEFINE K == Kept(utf8)
  <2>1. "lf" \in K /\ "?" \in K /\ "c3" \in K /\ "80" \in K /\ c \in K  BY KeptBytes
  <2> HIDE DEF K
  <2>2. /\ <<"lf">> \in Seq(K) /\ <<"?">> \in Seq(K) /\ <<>> \in Seq(K)
        /\ <<c>> \in Seq(K)
    BY <2>1, EmptySeq
  <2>3. <<"c3", "80">> \in Seq(K)  BY <2>1
  <2> QED  BY <2>2, <2>3, OutForms, Zenon DEF K
<1>2. Spelling(Bare(utf8), Kept(utf8), Kept(utf8))  BY <1>1, Zenon DEF Bare, Spelling
<1>3. ASSUME NEW c \in Kept(utf8) PROVE Bare(utf8)[c] \in Seq(Byte)
  <2>1. Kept(utf8) \subseteq Byte  BY DEF Kept
  <2>2. \A t \in Seq(Kept(utf8)) : t \in Seq(Byte)
    <3> DEFINE K == Kept(utf8)
    <3> HIDE DEF K
    <3>1. K \subseteq Byte  BY <2>1 DEF K
    <3>2. \A t \in Seq(K) : t \in Seq(Byte)  BY <3>1
    <3> QED  BY <3>2 DEF K
  <2> QED  BY <1>1, <2>2
<1>4. Spelling(Bare(utf8), Kept(utf8), Byte)  BY <1>3, Zenon DEF Bare, Spelling
<1> QED  BY <1>2, <1>4

\* Replacing the line ends of a body leaves the body of every byte but LF.
LEMMA LineEndsBody ==
  ASSUME NEW utf8 \in BOOLEAN
  PROVE  \A s \in Seq(Kept(utf8)) :
            /\ Spread(Out(utf8), s) \in Seq(Byte)
            /\ ReplaceLineEnds(Spread(Out(utf8), s)) = Spread(Bare(utf8), s)
<1> DEFINE K == Kept(utf8)
           O == Out(utf8)
           Q == Bare(utf8)
           T == {t \in Seq(K) : ReplaceLineEnds(Spread(O, t)) = Spread(Q, t)}
<1>1. \A v \in Seq(K) :
         /\ Spread(O, v) \in Seq(Byte)
         /\ \A d \in K : Spread(O, Append(v, d)) = Spread(O, v) \o O[d]
  <2>1. Spelling(O, K, Byte)  BY OutTypes
  <2> HIDE DEF K, O
  <2> QED  BY <2>1, SpreadAppend
<1>2. \A v \in Seq(K) :
         /\ Spread(Q, v) \in Seq(Byte)
         /\ \A d \in K : Spread(Q, Append(v, d)) = Spread(Q, v) \o Q[d]
  <2>1. Spelling(Q, K, Byte)  BY BareTypes
  <2> HIDE DEF K, Q
  <2> QED  BY <2>1, SpreadAppend
<1>3. ASSUME NEW c \in K
      PROVE  /\ O[c] \in Seq(Byte)
             /\ Len(O[c]) > 0 => O[c][1] # "lf"
             /\ ReplaceLineEnds(O[c]) = Q[c]
  <2>1. O[c] \in Seq(Byte)  BY OutTypes, Zenon DEF Spelling
  <2>2. c \in Unbroken /\ "?" \in Unbroken /\ "c3" \in Unbroken /\ "80" \in Unbroken
    BY KeptBytes DEF Unbroken, Byte
  <2>3. ReplaceLineEnds(O[c]) = Q[c]
    <3>1. "80" # "lf"  OBVIOUS
    <3>2. /\ ReplaceLineEnds(<<c>>) = <<c>> /\ ReplaceLineEnds(<<"?">>) = <<"?">>
          /\ ReplaceLineEnds(<<"c3", "80">>) = <<"c3", "80">>
      BY <2>2, <3>1, LineEndsSmall
    <3> QED  BY <3>2, LineEndsSmall, OutForms, Zenon
  <2>4. Len(O[c]) > 0 => O[c][1] # "lf"
    <3>1. Len(<<>>) = 0 /\ (\A x : <<x>>[1] = x) /\ <<"c3", "80">>[1] = "c3" /\ CRLF[1] = "cr"
      BY DEF CRLF
    <3>2. CASE O[c] = <<>>  BY <3>1, <3>2
    <3>3. CASE O[c] = CRLF  BY <3>1, <3>3
    <3>4. CASE O[c] = <<"c3", "80">>  BY <3>1, <3>4
    <3>5. CASE O[c] = <<"?">>  BY <3>1, <3>5
    <3>6. CASE c # "lf" /\ O[c] = <<c>>  BY <3>1, <3>6
    <3> QED  BY <3>2, <3>3, <3>4, <3>5, <3>6, OutForms, Zenon
  <2> QED  BY <2>1, <2>3, <2>4
<1>4. <<>> \in T
  <2>1. ReplaceLineEnds(Spread(O, <<>>)) = Spread(Q, <<>>)
    BY SpreadEmpty, LineEndsSmall
  <2> QED  BY <2>1, EmptySeq
<1>5. ASSUME NEW u \in Seq(K), NEW e \in K, u \in T PROVE Append(u, e) \in T
  <2> HIDE DEF K, O, Q
  <2>1. Append(u, e) \in Seq(K)  BY AppendProperties
  <2>2. /\ Spread(O, u) \in Seq(Byte) /\ Spread(O, Append(u, e)) = Spread(O, u) \o O[e]
        /\ Spread(Q, Append(u, e)) = Spread(Q, u) \o Q[e]
    BY <1>1, <1>2
  <2>3. ReplaceLineEnds(Spread(O, u) \o O[e])
          = ReplaceLineEnds(Spread(O, u)) \o ReplaceLineEnds(O[e])
    BY <1>3, <2>2, LineEndsConcat
  <2>4. ReplaceLineEnds(Spread(O, u)) = Spread(Q, u) /\ ReplaceLineEnds(O[e]) = Q[e]
    BY <1>3, <1>5
  <2>5. ReplaceLineEnds(Spread(O, Append(u, e))) = Spread(Q, Append(u, e))
    BY <2>2, <2>3, <2>4, Zenon
  <2> QED  BY <2>1, <2>5
<1>6. Seq(K) \subseteq T
  <2> HIDE DEF T, K
  <2> QED  BY <1>4, <1>5, SequenceInduction
<1> QED  BY <1>1, <1>6

\* Sanitising what is left of a body, line ends replaced, makes it again.
LEMMA BodyAgain ==
  ASSUME NEW utf8 \in BOOLEAN
  PROVE  \A s \in Seq(Kept(utf8)) :
            Spread(Out(utf8), Spread(Bare(utf8), s)) = Spread(Out(utf8), s)
<1> DEFINE K == Kept(utf8)
           O == Out(utf8)
           Q == Bare(utf8)
<1>1. Spelling(O, K, Byte) /\ Spelling(Q, K, K)  BY OutTypes, BareTypes
<1>2. ASSUME NEW c \in K PROVE Spread(O, Q[c]) = O[c]
  <2>0. \A d \in K : Spread(O, <<d>>) = O[d]
    <3> HIDE DEF K, O
    <3> QED  BY <1>1, SpreadSingle
  <2>1. "lf" \in K /\ "?" \in K /\ "c3" \in K /\ "80" \in K  BY KeptBytes
  <2>2. CASE c = "lf" /\ O[c] = CRLF /\ Q[c] = <<"lf">>
    BY <2>0, <2>2
  <2>3. CASE O[c] = <<"?">> /\ Q[c] = <<"?">>
    <3>1. O["?"] = <<"?">>
      <4>1. "?" # "lf" /\ "?" \notin Masked(utf8) /\ "?" # "80" /\ "?" # "c3"
        BY DEF Masked
      <4> QED  BY <2>1, <4>1, OutForms, Zenon
    <3>2. Spread(O, <<"?">>) = O["?"]  BY <2>0, <2>1
    <3> QED  BY <2>3, <3>1, <3>2
  <2>4. CASE O[c] = <<>> /\ Q[c] = <<>>
    BY <2>4, SpreadEmpty
  <2>5. CASE /\ utf8 /\ c = "c3"
             /\ O[c] = <<"c3", "80">> /\ Q[c] = <<"c3", "80">>
    <3>1. O["80"] = <<>>
      <4>1. "80" # "lf" /\ "80" \notin Masked(utf8) /\ "80" # "c3"
        BY <2>5 DEF Masked
      <4> QED  BY <2>1, <2>5, <4>1, OutForms, Zenon
    <3> DEFINE one == <<"c3">>
               two == <<"80">>
    <3>2. one \in Seq(K) /\ two \in Seq(K)
      <4> HIDE DEF K
      <4> QED  BY <2>1
    <3>3. Spread(O, one \o two) = Spread(O, one) \o Spread(O, two)
      <4> HIDE DEF K, O, one, two
      <4>1. \A u \in Seq(K) :
               /\ Spread(O, u) \in Seq(Byte)
               /\ \A v \in Seq(K) : Spread(O, u \o v) = Spread(O, u) \o Spread(O, v)
        <5>1. Spelling(O, K, Byte)  BY <1>1
        <5> QED  BY <5>1, SpreadConcat
      <4> QED  BY <3>2, <4>1
    <3>4. Spread(O, one) = O["c3"] /\ Spread(O, two) = O["80"]  BY <2>0, <2>1
    <3>5. one \o two = <<"c3", "80">>  BY PairParts, Zenon
    <3>6. O["c3"] \o <<>> = O["c3"]
      <4>1. O["c3"] \in Seq(Byte)  BY <1>1, <2>1 DEF Spelling
      <4> QED  BY <4>1, ConcatEmptySeq
    <3> QED  BY <2>5, <3>1, <3>3, <3>4, <3>5, <3>6
  <2>6. CASE O[c] = <<c>> /\ Q[c] = <<c>>
    BY <2>0, <2>6
  <2> QED  BY <2>2, <2>3, <2>4, <2>5, <2>6, OutForms, Zenon
<1> HIDE DEF K, O, Q
<1>3. (\A c \in K : Spread(O, Q[c]) = O[c])
        => \A s \in Seq(K) : Spread(O, Spread(Q, s)) = Spread(O, s)
  BY <1>1, SpreadSpread
<1>4. \A s \in Seq(K) : Spread(O, Spread(Q, s)) = Spread(O, s)
  BY <1>2, <1>3
<1> QED  BY <1>4 DEF K, O, Q

\* What may be sent: line ends in pairs, and in UTF-8 so the halves of runes.
Banned(utf8) == {"nul", "ctl"} \cup (IF utf8 THEN {"c2", "ff"} ELSE {"80"})
Runes == Bounded({"c3"}, {"80"}, {"c2", "ff"})
Neat(utf8) == {v \in Bounded({"cr"}, {"lf"}, Banned(utf8)) : utf8 => v \in Runes}

\* A neat text is UTF-8 where that is asked.
LEMMA RunesAreValid == \A s \in Runes : Valid(s)
  BY DEF Runes, Bounded, Bound, Valid, Leads

\* What may be sent is what is neat.
LEMMA NeatIsClean ==
  ASSUME NEW utf8 \in BOOLEAN, NEW s \in Seq(Byte)
  PROVE  CleanLines(s, utf8) <=> s \in Neat(utf8)
<1>1. ASSUME s \in Neat(utf8) PROVE CleanLines(s, utf8)
  <2>1. s \in Bounded({"cr"}, {"lf"}, Banned(utf8)) /\ (utf8 => s \in Runes)
    BY <1>1 DEF Neat
  <2>2. utf8 => Valid(s)  BY <2>1, RunesAreValid
  <2>3. \A i \in DOMAIN s : s[i] = "80" => utf8 /\ i > 1 /\ s[i - 1] # "c2"
    BY <2>1 DEF Bounded, Bound, Banned, Runes
  <2> QED  BY <2>1, <2>2, <2>3 DEF CleanLines, Bounded, Bound, Banned
<1>2. ASSUME CleanLines(s, utf8) PROVE s \in Neat(utf8)
  <2>1. utf8 => \A i \in DOMAIN s : s[i] # "c2"
    <3> SUFFICES ASSUME utf8, NEW i \in DOMAIN s, s[i] = "c2" PROVE FALSE
      OBVIOUS
    <3>1. i < Len(s) /\ s[i + 1] = "80"  BY <1>2 DEF CleanLines, Valid, Leads
    <3>2. i \in 1..Len(s) /\ Len(s) \in Nat /\ DOMAIN s = 1..Len(s)  BY LenProperties
    <3>3. i + 1 \in DOMAIN s /\ (i + 1) - 1 = i  BY <3>1, <3>2
    <3> QED  BY <1>2, <3>1, <3>3 DEF CleanLines
  <2>2. s \in Bounded({"cr"}, {"lf"}, Banned(utf8))
    BY <1>2, <2>1 DEF CleanLines, Valid, Bounded, Bound, Banned
  <2>3. utf8 => s \in Runes
    <3> SUFFICES ASSUME utf8 PROVE s \in Runes
      OBVIOUS
    <3>1. \A i \in DOMAIN s : s[i] = "c3" => i < Len(s) /\ s[i + 1] = "80"
      BY <1>2 DEF CleanLines, Valid, Leads
    <3>2. \A i \in DOMAIN s : s[i] = "80" => i > 1 /\ s[i - 1] = "c3"
      BY <1>2 DEF CleanLines, Valid, Leads
    <3>3. \A i \in DOMAIN s : s[i] \notin {"c2", "ff"}
      BY <1>2, <2>1 DEF CleanLines, Valid
    <3> QED  BY <3>1, <3>2, <3>3 DEF Runes, Bounded, Bound
  <2> QED  BY <2>2, <2>3 DEF Neat
<1> QED  BY <1>1, <1>2

\* In a body line ends come in pairs, and in UTF-8 so do the halves of runes.
LEMMA BodyBound ==
  ASSUME NEW utf8 \in BOOLEAN
  PROVE  \A s \in Seq(Kept(utf8)) :
            /\ Spread(Out(utf8), s) \in Neat(utf8)
            /\ utf8 => Spread(Bare(utf8), s) \in Runes
<1> DEFINE K == Kept(utf8)
           O == Out(utf8)
           Q == Bare(utf8)
           V == Bounded({"cr"}, {"lf"}, Banned(utf8))
           W == Runes
<1>1. Spelling(O, K, Byte) /\ Spelling(Q, K, Byte)  BY OutTypes, BareTypes
<1>2. V \in SUBSET Seq(Byte) /\ W \in SUBSET Seq(Byte)  BY DEF Bounded, Runes
<1>3. (\A u, v \in V : u \o v \in V) /\ (\A u, v \in W : u \o v \in W)
  BY BoundConcat, Zenon DEF Runes
<1>4. <<>> \in V /\ <<>> \in W
  <2>1. "x" \in Byte \ Banned(utf8) /\ "x" \in Byte \ {"c2", "ff"}  BY DEF Byte, Banned
  <2> QED  BY <2>1, BoundSmall DEF Runes
<1>5. ASSUME NEW c \in K PROVE O[c] \in V
  <2>1. /\ {"cr", "lf", "?", "c3"} \subseteq Byte \ Banned(utf8)
        /\ utf8 => "80" \in Byte \ Banned(utf8)
        /\ "cr" \in {"cr"} \ {"lf"} /\ "lf" \in {"lf"} \ {"cr"}
        /\ "?" \notin {"cr"} \cup {"lf"} /\ "c3" \notin {"cr"} \cup {"lf"}
        /\ "80" \notin {"cr"} \cup {"lf"}
    BY DEF Byte, Banned
  <2>2. CRLF \in V  BY <2>1, BoundSmall DEF CRLF
  <2>3. <<"?">> \in V  BY <2>1, BoundSmall
  <2>4. utf8 => <<"c3", "80">> \in V  BY <2>1, BoundSmall
  <2>5. c # "lf" /\ c \notin Masked(utf8) => <<c>> \in V
    <3>1. c # "lf" /\ c \notin Masked(utf8)
            => c \in Byte \ Banned(utf8) /\ c \notin {"cr"} \cup {"lf"}
      BY DEF Masked, Kept, Banned
    <3> QED  BY <3>1, BoundSmall
  <2> HIDE DEF V
  <2> QED  BY <1>4, <2>2, <2>3, <2>4, <2>5, OutForms, Zenon
<1>6. ASSUME utf8, NEW c \in K PROVE O[c] \in W /\ Q[c] \in W
  <2>1. /\ {"cr", "lf", "?", "c3", "80"} \subseteq Byte \ {"c2", "ff"}
        /\ "c3" \in {"c3"} \ {"80"} /\ "80" \in {"80"} \ {"c3"}
        /\ "cr" \notin {"c3"} \cup {"80"} /\ "lf" \notin {"c3"} \cup {"80"}
        /\ "?" \notin {"c3"} \cup {"80"}
    BY DEF Byte
  <2>2. CRLF \in W  BY <2>1, BoundSmall DEF CRLF, Runes
  <2>3. <<"?">> \in W /\ <<"lf">> \in W  BY <2>1, BoundSmall DEF Runes
  <2>4. <<"c3", "80">> \in W  BY <2>1, BoundSmall DEF Runes
  <2>5. c \notin Masked(utf8) /\ c \notin {"80", "c3"} => <<c>> \in W
    <3>1. c \notin Masked(utf8) /\ c \notin {"80", "c3"}
            => c \in Byte \ {"c2", "ff"} /\ c \notin {"c3"} \cup {"80"}
      BY <1>6 DEF Masked, Kept
    <3> QED  BY <3>1, BoundSmall DEF Runes
  <2> HIDE DEF W
  <2> QED  BY <1>4, <1>6, <2>2, <2>3, <2>4, <2>5, OutForms, Zenon
<1> HIDE DEF K, O, Q, V, W
<1>7. \A s \in Seq(K) : Spread(O, s) \in V
  BY <1>1, <1>2, <1>3, <1>4, <1>5, SpreadClosed
<1>8. ASSUME utf8 PROVE \A s \in Seq(K) : Spread(O, s) \in W
  <2>1. \A c \in K : O[c] \in W  BY <1>6, <1>8
  <2> QED  BY <1>1, <1>2, <1>3, <1>4, <2>1, SpreadClosed
<1>9. ASSUME utf8 PROVE \A s \in Seq(K) : Spread(Q, s) \in W
  <2>1. \A c \in K : Q[c] \in W  BY <1>6, <1>9
  <2> QED  BY <1>1, <1>2, <1>3, <1>4, <2>1, SpreadClosed
<1> QED  BY <1>7, <1>8, <1>9 DEF K, O, Q, V, W, Neat
-----------------------------------------------------------------------------
(* The lines and the printable units of a text and of its body.            *)

Marks(utf8) == {c \in Byte : c \notin {"cr", "lf"} /\ (utf8 => c # "80")}

\* Replacing the line ends keeps the number of lines and of printable units.
LEMMA CountLineEnds ==
  ASSUME NEW utf8 \in BOOLEAN, NEW s \in Seq(Byte)
  PROVE  /\ Breaks(s) = NumberOf(ReplaceLineEnds(s), {"lf"})
         /\ Printed(s, utf8) = NumberOf(ReplaceLineEnds(s), Marks(utf8))
<1> DEFINE p == Pieces(s)
           B == {<<"cr">>, <<"lf">>}
           M == {<<c>> : c \in Marks(utf8)}
<1>0. Spelling(Ends, Piece, Unbroken) /\ p \in Seq(Piece)  BY PieceTypes
<1>1. /\ DOMAIN s = 1..Len(s) /\ DOMAIN p = DOMAIN s
      /\ \A i \in DOMAIN s : s[i] \in Byte
      /\ \A i \in DOMAIN s : p[i] = IF Paired(s, i) THEN <<>> ELSE <<s[i]>>
  BY LenProperties DEF Pieces
<1>2. {i \in DOMAIN p : p[i] \in B}
        = {i \in DOMAIN s : \/ s[i] = "lf"
                            \/ s[i] = "cr" /\ ~(i < Len(s) /\ s[i + 1] = "lf")}
  <2> SUFFICES ASSUME NEW i \in DOMAIN s
               PROVE  p[i] \in B <=> \/ s[i] = "lf"
                                     \/ s[i] = "cr" /\ ~(i < Len(s) /\ s[i + 1] = "lf")
    BY <1>1
  <2>1. CASE Paired(s, i)
    <3>1. p[i] = <<>>  BY <1>1, <2>1
    <3>2. p[i] \notin B  BY <3>1
    <3> QED  BY <2>1, <3>2 DEF Paired
  <2>2. CASE ~Paired(s, i)
    <3>1. p[i] = <<s[i]>>  BY <1>1, <2>2
    <3>2. p[i] \in B <=> s[i] \in {"cr", "lf"}  BY <3>1, Pairs
    <3> QED  BY <2>2, <3>2 DEF Paired
  <2> QED  BY <2>1, <2>2
<1>3. {i \in DOMAIN p : p[i] \in M}
        = {i \in DOMAIN s : s[i] \notin {"cr", "lf"} /\ (utf8 => s[i] # "80")}
  <2> SUFFICES ASSUME NEW i \in DOMAIN s
               PROVE  p[i] \in M <=> s[i] \notin {"cr", "lf"} /\ (utf8 => s[i] # "80")
    BY <1>1
  <2>1. CASE Paired(s, i)
    <3>1. p[i] = <<>>  BY <1>1, <2>1
    <3>2. p[i] \notin M  BY <3>1
    <3> QED  BY <2>1, <3>2 DEF Paired
  <2>2. CASE ~Paired(s, i)
    <3>1. p[i] = <<s[i]>>  BY <1>1, <2>2
    <3>2. p[i] \in M <=> s[i] \in Marks(utf8)  BY <3>1, Pairs
    <3> QED  BY <1>1, <3>2 DEF Marks
  <2> QED  BY <2>1, <2>2
<1>4. Breaks(s) = NumberOf(p, B)  BY <1>2, Zenon DEF Breaks, NumberOf
<1>5. Printed(s, utf8) = NumberOf(p, M)
  <2>1. Printed(s, utf8)
          = Cardinality({i \in DOMAIN s : s[i] \notin {"cr", "lf"} /\ (utf8 => s[i] # "80")})
    BY DEF Printed
  <2> QED  BY <1>3, <2>1, Zenon DEF NumberOf
<1>6. ASSUME NEW d \in Piece
      PROVE  /\ d \in B => NumberOf(Ends[d], {"lf"}) = 1
             /\ d \notin B => NumberOf(Ends[d], {"lf"}) = 0
             /\ d \in M => NumberOf(Ends[d], Marks(utf8)) = 1
             /\ d \notin M => NumberOf(Ends[d], Marks(utf8)) = 0
  <2>1. CASE d = <<>>
    <3>1. d \notin B /\ d \notin M /\ d # <<"cr">>  BY <2>1
    <3>2. Ends[d] = <<>>  BY <2>1, <3>1 DEF Ends
    <3> HIDE DEF B, M
    <3> QED  BY <3>1, <3>2, NumberEmpty
  <2>2. ASSUME NEW c \in Byte, d = <<c>>
        PROVE  /\ d \in B => NumberOf(Ends[d], {"lf"}) = 1
               /\ d \notin B => NumberOf(Ends[d], {"lf"}) = 0
               /\ d \in M => NumberOf(Ends[d], Marks(utf8)) = 1
               /\ d \notin M => NumberOf(Ends[d], Marks(utf8)) = 0
    <3> DEFINE e == IF c = "cr" THEN "lf" ELSE c
    <3>1. d \in B <=> c \in {"cr", "lf"}  BY <2>2, Pairs
    <3>2. d \in M <=> c \in Marks(utf8)  BY <2>2, Pairs
    <3>3. Ends[d] = <<e>>
      <4>1. d = <<"cr">> <=> c = "cr"  BY <2>2, Pairs
      <4> QED  BY <2>2, <4>1 DEF Ends
    <3>4. e \in {"lf"} <=> c \in {"cr", "lf"}  OBVIOUS
    <3>5. e \in Marks(utf8) <=> c \in Marks(utf8)  BY DEF Marks
    <3> HIDE DEF e, B, M
    <3> QED  BY <3>1, <3>2, <3>3, <3>4, <3>5, NumberSmall
  <2> QED  BY <2>1, <2>2 DEF Piece
<1> HIDE DEF p, B, M
<1>7. NumberOf(Spread(Ends, p), {"lf"}) = NumberOf(p, B)
  <2>1. \A t \in Seq(Piece) : NumberOf(Spread(Ends, t), {"lf"}) = NumberOf(t, B)
    <3>1. \A d \in Piece : /\ d \in B => NumberOf(Ends[d], {"lf"}) = 1
                           /\ d \notin B => NumberOf(Ends[d], {"lf"}) = 0
      BY <1>6
    <3>2. Spelling(Ends, Piece, Unbroken)  BY <1>0
    <3> QED  BY <3>1, <3>2, NumberSpread
  <2> QED  BY <1>0, <2>1
<1>8. NumberOf(Spread(Ends, p), Marks(utf8)) = NumberOf(p, M)
  <2>1. \A t \in Seq(Piece) : NumberOf(Spread(Ends, t), Marks(utf8)) = NumberOf(t, M)
    <3>1. \A d \in Piece : /\ d \in M => NumberOf(Ends[d], Marks(utf8)) = 1
                           /\ d \notin M => NumberOf(Ends[d], Marks(utf8)) = 0
      BY <1>6
    <3>2. Spelling(Ends, Piece, Unbroken)  BY <1>0
    <3> QED  BY <3>1, <3>2, NumberSpread
  <2> QED  BY <1>0, <2>1
<1> QED  BY <1>4, <1>5, <1>7, <1>8, EndsSpread DEF p

\* So does replacing the bytes that are not allowed.
LEMMA CountBody ==
  ASSUME NEW utf8 \in BOOLEAN
  PROVE  \A s \in Seq(Kept(utf8)) :
            /\ NumberOf(Spread(Bare(utf8), s), {"lf"}) = NumberOf(s, {"lf"})
            /\ NumberOf(Spread(Bare(utf8), s), Marks(utf8)) = NumberOf(s, Marks(utf8))
<1> DEFINE K == Kept(utf8)
           Q == Bare(utf8)
           L == {"lf"}
           M == Marks(utf8)
<1>1. Spelling(Q, K, Byte)  BY BareTypes
<1>2. ASSUME NEW c \in K
      PROVE  /\ c \in L => NumberOf(Q[c], L) = 1
             /\ c \notin L => NumberOf(Q[c], L) = 0
             /\ c \in M => NumberOf(Q[c], M) = 1
             /\ c \notin M => NumberOf(Q[c], M) = 0
  <2>1. "lf" \in L /\ "?" \notin L /\ "c3" \notin L /\ "80" \notin L  OBVIOUS
  <2>2. "lf" \notin M /\ "?" \in M /\ "c3" \in M /\ (utf8 => "80" \notin M)
    BY DEF Marks, Byte
  <2>3. (c \in Masked(utf8) => c \in M) /\ (c = "lf" <=> c \in L)
    BY DEF Marks, Masked, Byte
  <2> HIDE DEF L, M
  <2>4. CASE c = "lf" /\ Q[c] = <<"lf">>  BY <2>1, <2>2, <2>4, NumberSmall
  <2>5. CASE c # "lf" /\ c \in Masked(utf8) /\ Q[c] = <<"?">>
    BY <2>1, <2>2, <2>3, <2>5, NumberSmall
  <2>6. CASE utf8 /\ c = "80" /\ Q[c] = <<>>  BY <2>1, <2>2, <2>6, NumberEmpty
  <2>7. CASE utf8 /\ c = "c3" /\ Q[c] = <<"c3", "80">>
    BY <2>1, <2>2, <2>7, NumberSmall
  <2>8. CASE c # "lf" /\ Q[c] = <<c>>  BY <2>3, <2>8, NumberSmall
  <2>9. \/ c = "lf" /\ Q[c] = <<"lf">>
        \/ c # "lf" /\ c \in Masked(utf8) /\ Q[c] = <<"?">>
        \/ utf8 /\ c = "80" /\ Q[c] = <<>>
        \/ utf8 /\ c = "c3" /\ Q[c] = <<"c3", "80">>
        \/ c # "lf" /\ Q[c] = <<c>>
    BY OutForms, Zenon
  <2> QED  BY <2>4, <2>5, <2>6, <2>7, <2>8, <2>9
<1> HIDE DEF K, Q, L, M
<1>3. \A s \in Seq(K) : NumberOf(Spread(Q, s), L) = NumberOf(s, L)
  <2>1. \A c \in K : /\ c \in L => NumberOf(Q[c], L) = 1
                     /\ c \notin L => NumberOf(Q[c], L) = 0
    BY <1>2
  <2> QED  BY <1>1, <2>1, NumberSpread
<1>4. \A s \in Seq(K) : NumberOf(Spread(Q, s), M) = NumberOf(s, M)
  <2>1. \A c \in K : /\ c \in M => NumberOf(Q[c], M) = 1
                     /\ c \notin M => NumberOf(Q[c], M) = 0
    BY <1>2
  <2> QED  BY <1>1, <2>1, NumberSpread
<1> QED  BY <1>3, <1>4 DEF K, Q, L, M

(* Whatever bytes a text is made of, and however many, its body is tidy:
   sanitizeBody.                                                           *)
LEMMA EveryTextTidy == \A raw \in Seq(Byte), utf8 \in BOOLEAN : Tidy(raw, utf8)
<1> SUFFICES ASSUME NEW raw \in Seq(Byte), NEW utf8 \in BOOLEAN,
                    NEW body \in sanitizeBody(raw, utf8)
             PROVE  /\ CleanLines(body, utf8)
                    /\ Breaks(body) = Breaks(raw) /\ Printed(body, utf8) = Printed(raw, utf8)
                    /\ sanitizeBody(body, utf8) = {body}
  BY Zenon DEF Tidy
<1> DEFINE s == ReplaceLineEnds(raw)
           rest == Spread(Bare(utf8), s)
<1>1. s \in Seq(Kept(utf8)) /\ body = Spread(Out(utf8), s)
  <2>1. sanitizeBody(raw, utf8) # {}  OBVIOUS
  <2>2. s \in Seq(Kept(utf8)) /\ sanitizeBody(raw, utf8) = {Spread(Out(utf8), s)}
    BY <2>1, BodyOf
  <2> QED  BY <2>2
<1>2. body \in Seq(Byte) /\ ReplaceLineEnds(body) = rest
  BY <1>1, LineEndsBody
<1>3. body \in Neat(utf8) /\ (utf8 => Valid(rest))
  BY <1>1, BodyBound, RunesAreValid
<1>4. CleanLines(body, utf8)  BY <1>2, <1>3, NeatIsClean
<1>5. Breaks(body) = Breaks(raw) /\ Printed(body, utf8) = Printed(raw, utf8)
  <2>1. /\ Breaks(raw) = NumberOf(s, {"lf"}) /\ Printed(raw, utf8) = NumberOf(s, Marks(utf8))
        /\ Breaks(body) = NumberOf(rest, {"lf"})
        /\ Printed(body, utf8) = NumberOf(rest, Marks(utf8))
    BY <1>2, CountLineEnds
  <2>2. /\ NumberOf(rest, {"lf"}) = NumberOf(s, {"lf"})
        /\ NumberOf(rest, Marks(utf8)) = NumberOf(s, Marks(utf8))
    BY <1>1, CountBody
  <2> QED  BY <2>1, <2>2
<1>6. sanitizeBody(body, utf8) = {body}
  <2>1. sanitizeBody(body, utf8) # {}
    <3>1. \A i \in DOMAIN body : body[i] # "nul"  BY <1>4 DEF CleanLines
    <3> QED  BY <1>2, <1>3, <3>1, BodyWhen
  <2>2. sanitizeBody(body, utf8) = {Spread(Out(utf8), rest)}
    BY <1>2, <2>1, BodyOf
  <2>3. Spread(Out(utf8), rest) = body  BY <1>1, BodyAgain
  <2> QED  BY <2>2, <2>3
<1> QED  BY <1>4, <1>5, <1>6

\* The bodies sanitizeBody makes are neat.
LEMMA BodiesAreNeat ==
  ASSUME NEW raw \in Seq(Byte), NEW utf8 \in BOOLEAN, NEW body \in sanitizeBody(raw, utf8)
  PROVE  body \in Seq(Byte) /\ body \in Neat(utf8)
<1>1. sanitizeBody(raw, utf8) # {}  OBVIOUS
<1>2. /\ ReplaceLineEnds(raw) \in Seq(Kept(utf8))
      /\ body = Spread(Out(utf8), ReplaceLineEnds(raw))
  <2>1. /\ ReplaceLineEnds(raw) \in Seq(Kept(utf8))
        /\ sanitizeBody(raw, utf8) = {Spread(Out(utf8), ReplaceLineEnds(raw))}
    BY <1>1, BodyOf
  <2> QED  BY <2>1
<1> QED  BY <1>2, LineEndsBody, BodyBound
-----------------------------------------------------------------------------
(* One request.                                                            *)

\* The ways a name can be settled are expanded everywhere.
USE DEF Settle, Found, Absent, Refused, Goto, TryCGI, NextSlot, Quiet

\* The step a request is at, and the kind of file it has open there.
StepInv ==
  /\ root \in [Paths -> Files]
  /\ pc \in {"lstat", "open", "read", "cgi", "run", "assemble", "done"}
  /\ slot \in Slots \cup {"none"}
  /\ slot = "none" <=> pc \in {"assemble", "done"}
  /\ pc = "read" => opened.kind = "file"
  /\ parts = [s \in Slots |-> parts[s]]

\* What became of the request's own name, up to the size limit.
MainInv ==
  /\ slot = "main" => /\ outcome = "none"
                      /\ \A k \in {"txt", "cgi"} : <<"main", k>> \notin errors
  /\ slot # "main" /\ pc # "done" =>
       \/ outcome = "hit" /\ parts["main"].from = "file"
       \/ outcome = "cgi_hit" /\ parts["main"].from = "cgi"
       \/ outcome \in {"miss", "cgi_fail"} /\ parts["main"].from = "nocontent"
  /\ outcome = "cgi_fail" => <<"main", "cgi">> \in errors
  /\ <<"main", "cgi">> \in errors => outcome \in {"cgi_fail", "miss"}

\* When the program is looked for, the text is still missing or has appeared.
GapInv ==
  /\ Missing(root) => gap
  /\ slot = "main" /\ pc = "cgi" =>
       config.cgi /\ (appeared \/ root[<<"main", "txt">>].kind = "absent")
  /\ (/\ outcome = "miss" /\ config.cgi /\ ~appeared
      /\ \A k \in {"txt", "cgi"} : <<"main", k>> \notin errors)
        => gap \/ (pc = "done" /\ TooLong)

IInv == /\ StepInv /\ OnlyRegularServed /\ MainInv /\ GapInv /\ OutcomeNamesBody

\* StepInv is preserved by every step.
LEMMA StepInvStep == StepInv /\ [Next]_vars => StepInv'
<1> SUFFICES ASSUME StepInv, [Next]_vars PROVE StepInv'
  OBVIOUS
<1> USE DEF StepInv, Slots, Paths, Files, Kinds
<1>1. CASE Lstat  BY <1>1 DEF Lstat
<1>2. CASE Open  BY <1>2 DEF Open
<1>3. CASE Read  BY <1>3 DEF Read
<1>4. CASE OpenExec  BY <1>4 DEF OpenExec
<1>5. CASE RunCGI  BY <1>5 DEF RunCGI
<1>6. CASE Assemble  BY <1>6 DEF Assemble, Page
<1>7. CASE Edit  BY <1>7, ContentAssumption DEF Edit
<1>8. CASE UNCHANGED vars  BY <1>8 DEF vars
<1> QED  BY <1>1, <1>2, <1>3, <1>4, <1>5, <1>6, <1>7, <1>8 DEF Next

\* OnlyRegularServed is preserved by every step.
LEMMA RegularStep == StepInv /\ OnlyRegularServed /\ [Next]_vars => OnlyRegularServed'
<1> SUFFICES ASSUME StepInv, OnlyRegularServed, [Next]_vars PROVE OnlyRegularServed'
  OBVIOUS
<1> USE DEF StepInv, OnlyRegularServed, Slots, Segment, Nothing, NoContent
<1>1. CASE Lstat  BY <1>1 DEF Lstat
<1>2. CASE Open  BY <1>2 DEF Open
<1>3. CASE Read  BY <1>3 DEF Read
<1>4. CASE OpenExec  BY <1>4 DEF OpenExec
<1>5. CASE RunCGI  BY <1>5 DEF RunCGI
<1>6. CASE Assemble  BY <1>6 DEF Assemble, Page
<1>7. CASE Edit  BY <1>7 DEF Edit
<1>8. CASE UNCHANGED vars  BY <1>8 DEF vars
<1> QED  BY <1>1, <1>2, <1>3, <1>4, <1>5, <1>6, <1>7, <1>8 DEF Next

\* MainInv is preserved by every step.
LEMMA MainInvStep == StepInv /\ MainInv /\ [Next]_vars => MainInv'
<1> SUFFICES ASSUME StepInv, MainInv, [Next]_vars PROVE MainInv'
  OBVIOUS
<1> USE DEF StepInv, MainInv, Slots, Segment, Nothing, NoContent
<1>1. CASE Lstat  BY <1>1 DEF Lstat
<1>2. CASE Open  BY <1>2 DEF Open
<1>3. CASE Read  BY <1>3 DEF Read
<1>4. CASE OpenExec  BY <1>4 DEF OpenExec
<1>5. CASE RunCGI  BY <1>5 DEF RunCGI
<1>6. CASE Assemble  BY <1>6 DEF Assemble, Page
<1>7. CASE Edit  BY <1>7 DEF Edit
<1>8. CASE UNCHANGED vars  BY <1>8 DEF vars
<1> QED  BY <1>1, <1>2, <1>3, <1>4, <1>5, <1>6, <1>7, <1>8 DEF Next

\* GapInv is preserved by every step.
LEMMA GapInvStep == StepInv /\ MainInv /\ GapInv /\ [Next]_vars => GapInv'
<1> SUFFICES ASSUME StepInv, MainInv, GapInv, [Next]_vars PROVE GapInv'
  OBVIOUS
<1> USE DEF StepInv, MainInv, GapInv, Slots, Missing, TooLong, Assembled
<1>1. CASE Lstat  BY <1>1 DEF Lstat
<1>2. CASE Open  BY <1>2 DEF Open
<1>3. CASE Read  BY <1>3 DEF Read
<1>4. CASE OpenExec  BY <1>4 DEF OpenExec
<1>5. CASE RunCGI  BY <1>5 DEF RunCGI
<1>6. CASE Assemble  BY <1>6 DEF Assemble, Page
<1>7. CASE Edit
  <2>1. PICK p \in Paths, f \in NewFiles :
          /\ pc # "done" /\ root' = [root EXCEPT ![p] = f]
          /\ gap' = (gap \/ Missing(root'))
          /\ appeared' = (appeared \/ (/\ p = <<"main", "txt">>
                                        /\ root[p].kind = "absent"
                                        /\ f.kind # "absent"))
          /\ UNCHANGED <<config, pc, slot, parts, outcome, errors>>
    BY <1>7 DEF Edit
  <2>2. <<"main", "txt">> \in Paths  BY DEF Paths
  <2>3. \/ appeared'
        \/ root[<<"main", "txt">>].kind = "absent" =>
             root'[<<"main", "txt">>].kind = "absent"
    BY <2>1, <2>2
  <2> QED  BY <2>1, <2>3
<1>8. CASE UNCHANGED vars  BY <1>8 DEF vars
<1> QED  BY <1>1, <1>2, <1>3, <1>4, <1>5, <1>6, <1>7, <1>8 DEF Next

\* OutcomeNamesBody is preserved by every step.
LEMMA OutcomeStep == StepInv /\ MainInv /\ OutcomeNamesBody /\ [Next]_vars => OutcomeNamesBody'
<1> SUFFICES ASSUME StepInv, MainInv, OutcomeNamesBody, [Next]_vars PROVE OutcomeNamesBody'
  OBVIOUS
<1> USE DEF StepInv, MainInv, OutcomeNamesBody, NoContent, Segment
<1>1. CASE Lstat  BY <1>1 DEF Lstat
<1>2. CASE Open  BY <1>2 DEF Open
<1>3. CASE Read  BY <1>3 DEF Read
<1>4. CASE OpenExec  BY <1>4 DEF OpenExec
<1>5. CASE RunCGI  BY <1>5 DEF RunCGI
<1>6. CASE Assemble  BY <1>6 DEF Assemble, Page
<1>7. CASE Edit  BY <1>7 DEF Edit
<1>8. CASE UNCHANGED vars  BY <1>8 DEF vars
<1> QED  BY <1>1, <1>2, <1>3, <1>4, <1>5, <1>6, <1>7, <1>8 DEF Next

\* Every reachable state satisfies the invariant.
LEMMA ContentInductive == Spec => []IInv
<1>1. Init => IInv
  BY ContentAssumption DEF Init, IInv, StepInv, OnlyRegularServed, MainInv, GapInv,
     OutcomeNamesBody, Slots, Nothing, Segment, NoFile
<1>2. IInv /\ [Next]_vars => IInv'
  BY StepInvStep, RegularStep, MainInvStep, GapInvStep, OutcomeStep DEF IInv
<1> QED  BY <1>1, <1>2, PTL DEF Spec

(* Whatever happens to the document root between Lstat, Open and ReadAll, a
   static part of a page is a regular file: openRegularReadNoFollow.       *)
THEOREM RegularOnly == Spec => []OnlyRegularServed
<1>1. IInv => OnlyRegularServed  BY DEF IInv
<1> QED  BY <1>1, ContentInductive, PTL

(* For every size of texts, templates and limit, the outcome that is logged
   names the body buildValidResponse returned.                             *)
THEOREM OutcomeRight == Spec => []OutcomeNamesBody
<1>1. IInv => OutcomeNamesBody  BY DEF IInv
<1> QED  BY <1>1, ContentInductive, PTL

(* However many edits race with a request, a silent miss means a moment at
   which it had neither a text nor a program, unless a text came into being
   meanwhile: resolveMainContent.                                          *)
THEOREM MissIsReal == Spec => []MissMeansNoFile
<1>1. IInv => MissMeansNoFile
  <2> SUFFICES ASSUME IInv, pc = "done", outcome = "miss", config.cgi,
                      ~TooLong,
                      \A k \in {"txt", "cgi"} : <<"main", k>> \notin errors,
                      ~appeared
               PROVE  gap
    BY DEF MissMeansNoFile
  <2>1. gap \/ (pc = "done" /\ TooLong)
    BY DEF IInv, GapInv
  <2> QED  BY <2>1
<1> QED  BY <1>1, ContentInductive, PTL
-----------------------------------------------------------------------------
\* Pages are made of bytes.
LEMMA PageBytes ==
  ASSUME parts \in [Slots -> Segments]
  PROVE  Assembled(parts) \in Seq(Byte)
<1> DEFINE B == Seq(Byte)
<1>1. CRLF \in B /\ <<>> \in B /\ CreditsBody \in B
  BY ContentAssumption, EmptySeq DEF CRLF, Byte
<1>2. \A u, v \in B : u \o v \in B  BY ConcatProperties
<1> HIDE DEF B
<1>3. \A u \in B : Glue(u) \in B  BY <1>1 DEF Glue
<1>4. \A u, v \in B : Add(u, v) \in B  BY <1>2, <1>3 DEF Add
<1>5. \A u, v, w \in B : Join(u, v, w) \in B
  <2> SUFFICES ASSUME NEW u \in B, NEW v \in B, NEW w \in B PROVE Join(u, v, w) \in B
    OBVIOUS
  <2> DEFINE all == Add(Add(Add(<<>>, u), v), w)
  <2>1. all \in B  BY <1>1, <1>4
  <2>2. all \o Glue(all) \in B
    <3> HIDE DEF all
    <3> QED  BY <1>2, <1>3, <2>1
  <2> QED  BY <2>2 DEF Join
<1>6. \A s \in {"header", "main", "footer"} : parts[s].body \in B
  BY DEF Segments, Slots, B
<1> DEFINE page == Join(parts["header"].body, parts["main"].body, parts["footer"].body)
<1>7. page \in B  BY <1>5, <1>6
<1>8. Join(page, CreditsBody, <<>>) \in B
  <2> HIDE DEF page
  <2> QED  BY <1>1, <1>5, <1>7
<1> QED  BY <1>7, <1>8 DEF Assembled, B

\* TypeOK is preserved by every step.
LEMMA TypeStep == TypeOK /\ StepInv /\ [Next]_vars => TypeOK'
<1> SUFFICES ASSUME TypeOK, StepInv, [Next]_vars PROVE TypeOK'
  OBVIOUS
<1>0. /\ \A k \in Kinds \cup {"cgi"}, body \in Seq(Byte) : Segment(k, body) \in Segments
      /\ Nothing \in Segments /\ NoContent \in Segments
  BY ContentAssumption, EmptySeq DEF Segment, Segments, Nothing, NoContent
<1>9. ASSUME opened \in Files, NEW body \in sanitizeBody(opened.text, config.utf8)
      PROVE  Segment(opened.kind, body) \in Segments /\ Segment("cgi", body) \in Segments
  <2>1. /\ opened.kind \in Kinds /\ opened.text \in Seq(Byte) /\ config.utf8 \in BOOLEAN
    BY <1>9, ContentAssumption DEF Files, TypeOK, Configs
  <2>2. body \in Seq(Byte)  BY <1>9, <2>1, BodiesAreNeat
  <2> QED  BY <1>0, <2>1, <2>2
<1> USE DEF TypeOK, Slots
<1>1. CASE Lstat  BY <1>0, <1>1 DEF Lstat
<1>2. CASE Open  BY <1>0, <1>2 DEF Open, Paths
<1>3. CASE Read
  <2>1. opened \in Files /\ Quiet /\ pc = "read"  BY <1>3 DEF Read
  <2>2. CASE Refused("txt", "miss")  BY <1>0, <2>1, <2>2
  <2>3. ASSUME NEW body \in sanitizeBody(opened.text, config.utf8),
               Found(Segment(opened.kind, body), "hit")
        PROVE  TypeOK'
    BY <1>9, <2>1, <2>3
  <2> QED  BY <1>3, <2>2, <2>3 DEF Read
<1>4. CASE OpenExec  BY <1>0, <1>4 DEF OpenExec, Paths
<1>5. CASE RunCGI
  <2>1. opened \in Files /\ Quiet /\ pc = "run"  BY <1>5 DEF RunCGI
  <2>2. CASE Refused("cgi", "cgi_fail")  BY <1>0, <2>1, <2>2
  <2>3. ASSUME NEW body \in sanitizeBody(opened.text, config.utf8),
               Found(Segment("cgi", body), "cgi_hit")
        PROVE  TypeOK'
    BY <1>9, <2>1, <2>3
  <2> QED  BY <1>5, <2>2, <2>3 DEF RunCGI
<1>6. CASE Assemble
  <2>1. parts["main"].from \in {"nothing", "nocontent", "cgi"} \cup Kinds
    BY DEF Segments
  <2>2. Page \in Segments  BY <2>1, PageBytes DEF Page, Segment, Segments
  <2> QED  BY <1>0, <1>6, <2>2 DEF Assemble
<1>7. CASE Edit  BY <1>7, ContentAssumption DEF Edit
<1>8. CASE UNCHANGED vars  BY <1>8 DEF vars
<1> QED  BY <1>1, <1>2, <1>3, <1>4, <1>5, <1>6, <1>7, <1>8 DEF Next

(* A request is always at a step it can take, with the descriptor that step
   needs, and its parts and answer are bytes: buildValidResponse.          *)
THEOREM ContentTypeCorrect == Spec => []TypeOK
<1>1. Init => TypeOK
  <2> SUFFICES ASSUME Init PROVE TypeOK
    OBVIOUS
  <2>1. root \in [Paths -> Files]  BY ContentAssumption DEF Init
  <2>2. gap \in BOOLEAN  BY DEF Init, Missing
  <2>3. parts \in [Slots -> Segments] /\ response \in Segments
    BY EmptySeq DEF Init, Nothing, Segment, Segments
  <2>4. edits \in 0..MaxEdits  BY ContentAssumption DEF Init
  <2> QED  BY <2>1, <2>2, <2>3, <2>4 DEF Init, TypeOK, Slots
<1>2. TypeOK /\ IInv /\ [Next]_vars => TypeOK'
  BY TypeStep DEF IInv
<1> QED  BY <1>1, <1>2, ContentInductive, PTL DEF Spec

(* Whatever a file or a program holds, its body is tidy: sanitizeBody, at
   every request that comes to read one.                                   *)
THEOREM AllTidy == Spec => []SanitizedIsTidy
<1>1. TypeOK => SanitizedIsTidy
  <2> SUFFICES ASSUME TypeOK, pc \in {"read", "run"}
               PROVE  Tidy(opened.text, config.utf8)
    BY DEF SanitizedIsTidy
  <2>1. opened \in Files /\ config.utf8 \in BOOLEAN  BY DEF TypeOK, Configs
  <2>2. opened.text \in Seq(Byte)  BY <2>1, ContentAssumption DEF Files
  <2> QED  BY <2>1, <2>2, EveryTextTidy
<1> QED  BY <1>1, ContentTypeCorrect, PTL
-----------------------------------------------------------------------------
(* The answer is its parts.                                                *)

\* Neat texts stay neat when they are joined.
LEMMA NeatConcat ==
  ASSUME NEW utf8 \in BOOLEAN, NEW u \in Neat(utf8), NEW v \in Neat(utf8)
  PROVE  u \o v \in Neat(utf8)
<1> DEFINE V == Bounded({"cr"}, {"lf"}, Banned(utf8))
<1>1. u \in V /\ v \in V /\ (utf8 => u \in Runes /\ v \in Runes)  BY DEF Neat
<1>2. (\A s, t \in V : s \o t \in V) /\ (\A s, t \in Runes : s \o t \in Runes)
  BY BoundConcat, Zenon DEF Runes
<1> HIDE DEF V
<1>3. u \o v \in V /\ (utf8 => u \o v \in Runes)  BY <1>1, <1>2
<1> QED  BY <1>3 DEF Neat, V

\* The fixed texts are neat, and so is what joinSegments adds.
LEMMA NeatConstants ==
  ASSUME NEW utf8 \in BOOLEAN
  PROVE  /\ Neat(utf8) \subseteq Seq(Byte)
         /\ <<>> \in Neat(utf8) /\ CRLF \in Neat(utf8)
         /\ NoContentBody \in Neat(utf8) /\ CreditsBody \in Neat(utf8)
<1>1. Neat(utf8) \subseteq Seq(Byte)  BY DEF Neat, Bounded
<1>2. NoContentBody \in Neat(utf8) /\ CreditsBody \in Neat(utf8)
  BY ContentAssumption, NeatIsClean
<1>3. /\ {"cr", "lf"} \subseteq (Byte \ Banned(utf8)) \cap (Byte \ {"c2", "ff"})
      /\ "cr" \in {"cr"} \ {"lf"} /\ "lf" \in {"lf"} \ {"cr"}
      /\ "cr" \notin {"c3"} \cup {"80"} /\ "lf" \notin {"c3"} \cup {"80"}
  BY DEF Byte, Banned
<1>4. /\ CRLF \in Bounded({"cr"}, {"lf"}, Banned(utf8))
      /\ <<>> \in Bounded({"cr"}, {"lf"}, Banned(utf8))
  <2>1. CRLF \in Bounded({"cr"}, {"lf"}, Banned(utf8))  BY <1>3, BoundSmall DEF CRLF
  <2>2. <<>> \in Bounded({"cr"}, {"lf"}, Banned(utf8))  BY <1>3, BoundSmall
  <2> QED  BY <2>1, <2>2
<1>5. /\ CRLF \in Runes
      /\ <<>> \in Runes
  <2>1. CRLF \in Runes  BY <1>3, BoundSmall DEF CRLF, Runes
  <2>2. <<>> \in Runes  BY <1>3, BoundSmall DEF Runes
  <2> QED  BY <2>1, <2>2
<1> QED  BY <1>1, <1>2, <1>4, <1>5 DEF Neat

\* A neat text ends in CRLF when it ends in LF.
LEMMA EndsByLast ==
  ASSUME NEW utf8 \in BOOLEAN, NEW v \in Neat(utf8)
  PROVE  EndsCRLF(v) <=> Len(v) > 0 /\ v[Len(v)] = "lf"
<1> DEFINE n == Len(v)
           t == SubSeq(v, n - 1, n)
<1>1. /\ v \in Seq(Byte) /\ n \in Nat /\ DOMAIN v = 1..n
      /\ \A i \in DOMAIN v : v[i] = "lf" => i > 1 /\ v[i - 1] = "cr"
  BY LenProperties DEF Neat, Bounded, Bound
<1>2. ASSUME n >= 2
      PROVE  t \in Seq(Byte) /\ Len(t) = 2 /\ t[1] = v[n - 1] /\ t[2] = v[n]
  <2>1. n - 1 \in 1..(n + 1) /\ n \in ((n - 1) - 1)..n /\ (n - (n - 1)) + 1 = 2
    BY <1>1, <1>2
  <2>2. /\ t \in Seq(Byte) /\ Len(t) = 2
        /\ \A i \in 1..2 : t[i] = v[((n - 1) + i) - 1]
    BY <1>1, <2>1, SubSeqProperties
  <2>3. ((n - 1) + 1) - 1 = n - 1 /\ ((n - 1) + 2) - 1 = n  BY <1>1
  <2>4. 1 \in 1..2 /\ 2 \in 1..2  OBVIOUS
  <2> HIDE DEF t, n
  <2> QED  BY <2>2, <2>3, <2>4
<1>3. CRLF \in Seq(Byte) /\ Len(CRLF) = 2 /\ CRLF[1] = "cr" /\ CRLF[2] = "lf"
  BY DEF CRLF, Byte
<1>4. ASSUME n >= 2 PROVE t = CRLF <=> v[n - 1] = "cr" /\ v[n] = "lf"
  <2> HIDE DEF t, n
  <2>1. t = CRLF <=> \A i \in 1..2 : t[i] = CRLF[i]
    BY <1>2, <1>3, <1>4, SeqEqual
  <2> QED  BY <1>2, <1>3, <1>4, <2>1
<1> QED
  <2>1. EndsCRLF(v) <=> n >= 2 /\ t = CRLF  BY DEF EndsCRLF
  <2>2. n > 0 => n \in DOMAIN v  BY <1>1
  <2> HIDE DEF t, n
  <2>3. n > 0 /\ v[n] = "lf" => n >= 2 /\ v[n - 1] = "cr"
    <3>1. n > 0 /\ v[n] = "lf" => n > 1 /\ v[n - 1] = "cr"  BY <1>1, <2>2, Zenon
    <3>2. n > 1 => n >= 2  BY <1>1
    <3> QED  BY <3>1, <3>2
  <2>4. n >= 2 => n > 0  BY <1>1
  <2>5. EndsCRLF(v) <=> n > 0 /\ v[n] = "lf"  BY <1>4, <2>1, <2>3, <2>4
  <2> QED  BY <2>5 DEF n

\* Whether a joined text ends in CRLF is settled by its last part.
LEMMA EndsConcat ==
  ASSUME NEW utf8 \in BOOLEAN, NEW u \in Neat(utf8), NEW v \in Neat(utf8), v # <<>>
  PROVE  u \o v # <<>> /\ (EndsCRLF(u \o v) <=> EndsCRLF(v))
<1> DEFINE w == u \o v
<1>1. u \in Seq(Byte) /\ v \in Seq(Byte) /\ w \in Neat(utf8)
  BY NeatConcat, NeatConstants
<1>2. /\ Len(u) \in Nat /\ Len(v) \in Nat /\ Len(v) > 0
      /\ w \in Seq(Byte) /\ Len(w) = Len(u) + Len(v)
      /\ \A i \in 1..(Len(u) + Len(v)) : w[i] = IF i <= Len(u) THEN u[i] ELSE v[i - Len(u)]
  <2>1. Len(u) \in Nat /\ Len(v) \in Nat /\ Len(v) # 0
    BY <1>1, LenProperties, EmptySeq
  <2> QED  BY <1>1, <2>1, ConcatProperties
<1>3. Len(w) > 0 /\ w[Len(w)] = v[Len(v)]
  <2>1. /\ Len(u) + Len(v) \in 1..(Len(u) + Len(v)) /\ ~(Len(u) + Len(v) <= Len(u))
        /\ (Len(u) + Len(v)) - Len(u) = Len(v)
    BY <1>2
  <2> HIDE DEF w
  <2> QED  BY <1>2, <2>1
<1>4. w # <<>>  BY <1>2, <1>3, EmptySeq
<1>5. EndsCRLF(w) <=> EndsCRLF(v)
  <2> HIDE DEF w
  <2> QED  BY <1>1, <1>2, <1>3, EndsByLast
<1> QED  BY <1>4, <1>5

\* The whole lines of a part are neat, and end a line unless there are none.
LEMMA LinesAreNeat ==
  ASSUME NEW utf8 \in BOOLEAN, NEW u \in Neat(utf8)
  PROVE  /\ Lines(u) \in Neat(utf8) /\ Lines(u) = u \o Glue(u)
         /\ Lines(u) = <<>> \/ EndsCRLF(Lines(u))
         /\ Lines(Lines(u)) = Lines(u)
<1>1. u \in Seq(Byte) /\ <<>> \in Neat(utf8) /\ CRLF \in Neat(utf8)
  BY NeatConstants
<1>2. u \o <<>> = u  BY <1>1, ConcatEmptySeq
<1>3. CASE u = <<>> \/ EndsCRLF(u)
  <2>1. Lines(u) = u /\ Glue(u) = <<>>  BY <1>3 DEF Lines, Glue
  <2> QED  BY <1>2, <1>3, <2>1
<1>4. CASE ~(u = <<>> \/ EndsCRLF(u))
  <2>1. Lines(u) = u \o CRLF /\ Glue(u) = CRLF  BY <1>4 DEF Lines, Glue
  <2>2. CRLF # <<>>  BY DEF CRLF
  <2>3. EndsCRLF(CRLF)
    <3>1. Len(CRLF) > 0 /\ CRLF[Len(CRLF)] = "lf"  BY DEF CRLF
    <3> QED  BY <1>1, <3>1, EndsByLast
  <2>4. EndsCRLF(u \o CRLF)  BY <1>1, <2>2, <2>3, EndsConcat
  <2>5. Lines(u) \in Neat(utf8)  BY <1>1, <2>1, NeatConcat
  <2>6. Lines(Lines(u)) = Lines(u)  BY <2>1, <2>4, Zenon DEF Lines
  <2> QED  BY <2>1, <2>4, <2>5, <2>6
<1> QED  BY <1>3, <1>4

\* One iteration of joinSegments puts whole lines after whole lines.
LEMMA AddLines ==
  ASSUME NEW utf8 \in BOOLEAN, NEW u \in Neat(utf8), NEW v \in Neat(utf8)
  PROVE  Add(u, v) \in Neat(utf8) /\ Lines(Add(u, v)) = Lines(u) \o Lines(v)
<1>1. /\ u \in Seq(Byte) /\ v \in Seq(Byte)
      /\ Lines(u) \in Neat(utf8) /\ Lines(u) \in Seq(Byte)
      /\ Lines(u) = u \o Glue(u) /\ CRLF \in Seq(Byte)
  BY LinesAreNeat, NeatConstants
<1>2. CASE v = <<>>
  <2>1. Add(u, v) = u /\ Lines(v) = <<>>  BY <1>2 DEF Add, Lines
  <2> QED  BY <1>1, <2>1, ConcatEmptySeq
<1>3. CASE v # <<>>
  <2>1. Add(u, v) = Lines(u) \o v  BY <1>1, <1>3 DEF Add
  <2>2. Lines(u) \o v \in Neat(utf8)  BY <1>1, NeatConcat
  <2>3. Lines(u) \o v # <<>> /\ (EndsCRLF(Lines(u) \o v) <=> EndsCRLF(v))
    BY <1>1, <1>3, EndsConcat
  <2>4. CASE EndsCRLF(v)
    <3>1. Lines(v) = v /\ Lines(Lines(u) \o v) = Lines(u) \o v
      BY <2>3, <2>4 DEF Lines
    <3> QED  BY <2>1, <2>2, <3>1
  <2>5. CASE ~EndsCRLF(v)
    <3>1. Lines(v) = v \o CRLF /\ Lines(Lines(u) \o v) = (Lines(u) \o v) \o CRLF
      BY <1>3, <2>3, <2>5, Zenon DEF Lines
    <3>2. (Lines(u) \o v) \o CRLF = Lines(u) \o (v \o CRLF)
      <4> DEFINE lines == Lines(u)
      <4>1. lines \in Seq(Byte) /\ CRLF \in Seq(Byte)  BY <1>1
      <4> HIDE DEF lines
      <4>2. (lines \o v) \o CRLF = lines \o (v \o CRLF)
        BY <1>1, <4>1, ConcatAssociative
      <4> QED  BY <4>2 DEF lines
    <3> QED  BY <2>1, <2>2, <3>1, <3>2
  <2> QED  BY <2>4, <2>5
<1> QED  BY <1>2, <1>3

\* joinSegments puts the whole lines of its parts one after the other.
LEMMA JoinLines ==
  ASSUME NEW utf8 \in BOOLEAN, NEW a \in Neat(utf8), NEW b \in Neat(utf8),
         NEW c \in Neat(utf8)
  PROVE  Join(a, b, c) \in Neat(utf8) /\ Join(a, b, c) = Lines(a) \o Lines(b) \o Lines(c)
<1> DEFINE none == <<>>
           one == Add(none, a)
           two == Add(one, b)
           all == Add(two, c)
<1>1. none \in Neat(utf8) /\ Lines(none) = none  BY NeatConstants DEF Lines
<1>2. one \in Neat(utf8) /\ Lines(one) = none \o Lines(a)
  <2> HIDE DEF none
  <2>1. Add(none, a) \in Neat(utf8) /\ Lines(Add(none, a)) = Lines(none) \o Lines(a)
    BY <1>1, AddLines
  <2> QED  BY <1>1, <2>1
<1>3. two \in Neat(utf8) /\ Lines(two) = Lines(one) \o Lines(b)
  <2> HIDE DEF one
  <2> QED  BY <1>2, AddLines
<1>4. all \in Neat(utf8) /\ Lines(all) = Lines(two) \o Lines(c)
  <2> HIDE DEF two
  <2> QED  BY <1>3, AddLines
<1>5. Lines(a) \in Seq(Byte)  BY LinesAreNeat, NeatConstants
<1>6. none \o Lines(a) = Lines(a)  BY <1>5, ConcatEmptySeq
<1>7. Join(a, b, c) = Lines(all) /\ Lines(all) \in Neat(utf8)
  <2>1. Join(a, b, c) = all \o Glue(all)  BY DEF Join
  <2> HIDE DEF all
  <2> QED  BY <1>4, <2>1, LinesAreNeat
<1> HIDE DEF none, one, two, all
<1> QED  BY <1>2, <1>3, <1>4, <1>6, <1>7

\* The parts of a page are neat for the protocol of the request.
PartsAreNeat == \A s \in Slots : parts[s].body \in Neat(config.utf8)

\* The page as the property puts it together.
Whole == LET body(s) == Lines(parts[s].body)
         IN  body("header") \o body("main") \o body("footer")
               \o (IF config.credits THEN CreditsBody ELSE <<>>)

\* buildValidResponse puts together that page.
LEMMA PageIsParts ==
  ASSUME TypeOK, PartsAreNeat
  PROVE  Assembled(parts) = Whole /\ Whole \in Neat(config.utf8)
<1> DEFINE h == parts["header"].body
           m == parts["main"].body
           f == parts["footer"].body
           page == Join(h, m, f)
           three == Lines(h) \o Lines(m) \o Lines(f)
           utf8 == config.utf8
<1>1. utf8 \in BOOLEAN /\ h \in Neat(utf8) /\ m \in Neat(utf8) /\ f \in Neat(utf8)
  BY DEF TypeOK, Configs, PartsAreNeat, Slots
<1>2. Whole = three \o (IF config.credits THEN CreditsBody ELSE <<>>)
  BY DEF Whole
<1>3. Assembled(parts) = IF config.credits THEN Join(page, CreditsBody, <<>>) ELSE page
  BY DEF Assembled
<1>4. page \in Neat(utf8) /\ page = three
  <2> HIDE DEF h, m, f, utf8
  <2> QED  BY <1>1, JoinLines
<1>5. Lines(page) = page
  <2>1. Lines(page) = page \o Glue(page)
    <3> HIDE DEF page, utf8
    <3> QED  BY <1>1, <1>4, LinesAreNeat
  <2> DEFINE all == Add(Add(Add(<<>>, h), m), f)
  <2>2. page = all \o Glue(all)  BY DEF Join
  <2>3. all \in Neat(utf8)
    <3>1. <<>> \in Neat(utf8)  BY <1>1, NeatConstants
    <3> HIDE DEF h, m, f, utf8
    <3> QED  BY <1>1, <3>1, AddLines
  <2> HIDE DEF all, page, utf8
  <2> QED  BY <1>1, <2>2, <2>3, LinesAreNeat
<1>6. /\ CreditsBody \in Neat(utf8) /\ <<>> \in Neat(utf8) /\ page \in Seq(Byte)
      /\ Lines(CreditsBody) = CreditsBody /\ Lines(<<>>) = <<>>
  <2> HIDE DEF page, utf8
  <2> QED  BY <1>1, <1>4, NeatConstants, ContentAssumption DEF Lines
<1> HIDE DEF page, three, utf8, h, m, f
<1>7. CASE config.credits
  <2>1. /\ Join(page, CreditsBody, <<>>) \in Neat(utf8)
        /\ Join(page, CreditsBody, <<>>) = page \o CreditsBody \o <<>>
    <3> DEFINE none == <<>>
    <3>1. none \in Neat(utf8) /\ Lines(none) = none  BY <1>6
    <3> HIDE DEF none
    <3>2. /\ Join(page, CreditsBody, none) \in Neat(utf8)
          /\ Join(page, CreditsBody, none) = Lines(page) \o Lines(CreditsBody) \o Lines(none)
      BY <1>1, <1>4, <1>6, <3>1, JoinLines
    <3>3. Join(page, CreditsBody, none) = page \o CreditsBody \o none
      BY <1>5, <1>6, <3>1, <3>2
    <3> QED  BY <3>2, <3>3 DEF none
  <2>2. page \o CreditsBody \in Seq(Byte)
    BY <1>1, <1>4, <1>6, NeatConcat, NeatConstants
  <2>3. page \o CreditsBody \o <<>> = page \o CreditsBody
    BY <2>2, ConcatEmptySeq
  <2> QED  BY <1>2, <1>3, <1>4, <1>7, <2>1, <2>3 DEF utf8
<1>8. CASE ~config.credits
  <2>1. page \o <<>> = page  BY <1>6, ConcatEmptySeq
  <2> QED  BY <1>2, <1>3, <1>4, <1>8, <2>1 DEF utf8
<1> QED  BY <1>7, <1>8

\* Only neat parts are ever put together.
LEMMA NeatStep == TypeOK /\ PartsAreNeat /\ [Next]_vars => PartsAreNeat'
<1> SUFFICES ASSUME TypeOK, PartsAreNeat, [Next]_vars PROVE PartsAreNeat'
  OBVIOUS
<1>0. /\ config.utf8 \in BOOLEAN /\ config' = config
      /\ Nothing.body \in Neat(config.utf8) /\ NoContent.body \in Neat(config.utf8)
  <2>1. config.utf8 \in BOOLEAN  BY DEF TypeOK, Configs
  <2>2. config' = config
    BY DEF Next, Lstat, Open, Read, OpenExec, RunCGI, Assemble, Edit, vars
  <2> QED  BY <2>1, <2>2, NeatConstants DEF Nothing, NoContent, Segment
<1>9. ASSUME opened \in Files, NEW body \in sanitizeBody(opened.text, config.utf8)
      PROVE  body \in Neat(config.utf8)
  <2>1. opened.text \in Seq(Byte)  BY <1>9, ContentAssumption DEF Files
  <2> QED  BY <1>0, <1>9, <2>1, BodiesAreNeat
<1>10. ASSUME NEW part, part.body \in Neat(config.utf8),
              parts' = [parts EXCEPT ![slot] = part]
       PROVE  PartsAreNeat'
  BY <1>0, <1>10 DEF PartsAreNeat, TypeOK
<1>11. ASSUME parts' = parts PROVE PartsAreNeat'
  BY <1>0, <1>11 DEF PartsAreNeat
<1>1. CASE Lstat  BY <1>0, <1>1, <1>10, <1>11 DEF Lstat
<1>2. CASE Open  BY <1>0, <1>2, <1>10, <1>11 DEF Open
<1>3. CASE Read
  <2>1. opened \in Files  BY <1>3 DEF Read, TypeOK
  <2>2. CASE Refused("txt", "miss")  BY <1>0, <1>10, <2>2
  <2>3. ASSUME NEW body \in sanitizeBody(opened.text, config.utf8),
               Found(Segment(opened.kind, body), "hit")
        PROVE  PartsAreNeat'
    <3>1. Segment(opened.kind, body).body \in Neat(config.utf8)
      BY <1>9, <2>1, <2>3 DEF Segment
    <3> QED  BY <1>10, <2>3, <3>1
  <2> QED  BY <1>3, <2>2, <2>3 DEF Read
<1>4. CASE OpenExec  BY <1>0, <1>4, <1>10, <1>11 DEF OpenExec
<1>5. CASE RunCGI
  <2>1. opened \in Files  BY <1>5 DEF RunCGI, TypeOK
  <2>2. CASE Refused("cgi", "cgi_fail")  BY <1>0, <1>10, <2>2
  <2>3. ASSUME NEW body \in sanitizeBody(opened.text, config.utf8),
               Found(Segment("cgi", body), "cgi_hit")
        PROVE  PartsAreNeat'
    <3>1. Segment("cgi", body).body \in Neat(config.utf8)
      BY <1>9, <2>1, <2>3 DEF Segment
    <3> QED  BY <1>10, <2>3, <3>1
  <2> QED  BY <1>5, <2>2, <2>3 DEF RunCGI
<1>6. CASE Assemble  BY <1>6, <1>11 DEF Assemble
<1>7. CASE Edit  BY <1>7, <1>11 DEF Edit
<1>8. CASE UNCHANGED vars  BY <1>8, <1>11 DEF vars
<1> QED  BY <1>1, <1>2, <1>3, <1>4, <1>5, <1>6, <1>7, <1>8 DEF Next

\* The answer to a request that is done.
AnswerInv ==
  pc = "done" => response.body = IF Len(Whole) <= MaxResponseBytes THEN Whole ELSE NoContentBody

\* AnswerInv is preserved by every step.
LEMMA AnswerStep == TypeOK /\ PartsAreNeat /\ AnswerInv /\ [Next]_vars => AnswerInv'
<1> SUFFICES ASSUME TypeOK, PartsAreNeat, AnswerInv, [Next]_vars PROVE AnswerInv'
  OBVIOUS
<1>1. CASE Assemble
  <2>1. Assembled(parts) = Whole /\ Whole \in Seq(Byte)
    BY PageIsParts, NeatConstants DEF TypeOK, Configs
  <2>2. Len(Whole) \in Nat /\ MaxResponseBytes \in Nat
    BY <2>1, LenProperties, ContentAssumption
  <2>3. Whole' = Whole  BY <1>1 DEF Assemble, Whole
  <2>4. response' = IF TooLong THEN NoContent ELSE Page  BY <1>1 DEF Assemble
  <2>5. TooLong <=> ~(Len(Whole) <= MaxResponseBytes)  BY <2>1, <2>2 DEF TooLong
  <2>6. Page.body = Whole /\ NoContent.body = NoContentBody
    BY <2>1 DEF Page, NoContent, Segment
  <2> QED  BY <2>3, <2>4, <2>5, <2>6 DEF AnswerInv
<1>2. CASE Edit
  <2>1. Whole' = Whole  BY <1>2 DEF Edit, Whole
  <2> QED  BY <1>2, <2>1 DEF Edit, AnswerInv
<1>3. CASE UNCHANGED vars
  <2>1. Whole' = Whole  BY <1>3 DEF vars, Whole
  <2> QED  BY <1>3, <2>1 DEF vars, AnswerInv
<1>4. CASE Lstat \/ Open \/ Read \/ OpenExec \/ RunCGI
  <2>1. pc' # "done"  BY <1>4 DEF Lstat, Open, Read, OpenExec, RunCGI
  <2> QED  BY <2>1 DEF AnswerInv
<1> QED  BY <1>1, <1>2, <1>3, <1>4 DEF Next

(* Whatever the files and programs hold and whenever they are exchanged, an
   answer is header, content, footer and credits as whole lines, counted in
   full against max_response_bytes, or NoContentBody, and may be sent:
   loadStatic, runCGI, joinSegments and buildValidResponse together.       *)
THEOREM AnswerHolds == Spec => []AnswerIsItsParts
<1>1. Init => PartsAreNeat /\ AnswerInv
  <2> SUFFICES ASSUME Init PROVE PartsAreNeat /\ AnswerInv
    OBVIOUS
  <2>1. config.utf8 \in BOOLEAN  BY DEF Init, Configs
  <2>2. <<>> \in Neat(config.utf8)  BY <2>1, NeatConstants
  <2> QED  BY <2>2 DEF Init, PartsAreNeat, AnswerInv, Nothing, Segment
<1>2. TypeOK /\ PartsAreNeat /\ AnswerInv /\ [Next]_vars => (PartsAreNeat /\ AnswerInv)'
  BY NeatStep, AnswerStep
<1>3. TypeOK /\ PartsAreNeat /\ AnswerInv => AnswerIsItsParts
  <2> SUFFICES ASSUME TypeOK, PartsAreNeat, AnswerInv, pc = "done"
               PROVE  /\ CleanLines(response.body, config.utf8)
                      /\ response.body
                           = IF Len(Whole) <= MaxResponseBytes THEN Whole ELSE NoContentBody
    BY Zenon DEF AnswerIsItsParts, Whole
  <2>1. response.body = IF Len(Whole) <= MaxResponseBytes THEN Whole ELSE NoContentBody
    BY DEF AnswerInv
  <2>2. config.utf8 \in BOOLEAN  BY DEF TypeOK, Configs
  <2>3. response.body \in Neat(config.utf8) /\ response.body \in Seq(Byte)
    BY <2>1, <2>2, PageIsParts, NeatConstants
  <2> QED  BY <2>1, <2>2, <2>3, NeatIsClean
<1> QED  BY <1>1, <1>2, <1>3, ContentTypeCorrect, PTL DEF Spec
-----------------------------------------------------------------------------
(* A request cannot be kept busy.                                          *)

\* The names still to resolve, and the steps still to take for this one.
SlotsLeft == CASE slot = "main" -> 3 [] slot = "header" -> 2 [] slot = "footer" -> 1
               [] OTHER -> 0
StepsLeft == CASE pc = "lstat" -> 4 [] pc = "open" -> 3 [] pc = "cgi" -> 2
               [] pc \in {"read", "run", "assemble"} -> 1 [] OTHER -> 0
Todo == 5 * SlotsLeft + StepsLeft

\* A name is settled, or looked at a further time.
Settled == /\ slot' = NextSlot
           /\ pc' = IF NextSlot = "none" THEN "assemble" ELSE "lstat"
Further == /\ slot' = slot
           /\ \/ pc = "lstat" /\ pc' \in {"open", "cgi"}
              \/ pc = "open" /\ pc' \in {"read", "cgi"}
              \/ pc = "cgi" /\ pc' = "run"
              \/ pc = "assemble" /\ pc' = "done"

\* The names count for more than the steps.
LEMMA TodoOrder ==
  ASSUME SlotsLeft \in 0..3, SlotsLeft' \in 0..3, StepsLeft \in 0..4, StepsLeft' \in 0..4,
         \/ SlotsLeft' < SlotsLeft /\ StepsLeft >= 1
         \/ SlotsLeft' = SlotsLeft /\ StepsLeft' < StepsLeft
  PROVE  Todo' < Todo
<1>1. ASSUME NEW s \in 0..3, NEW t \in 0..3, NEW m \in 0..4, NEW n \in 0..4,
             (t < s /\ m >= 1) \/ (t = s /\ n < m)
      PROVE  5 * t + n < 5 * s + m
  BY <1>1
<1>2. Todo = 5 * SlotsLeft + StepsLeft /\ Todo' = 5 * SlotsLeft' + StepsLeft'
  BY DEF Todo
<1> QED  BY <1>1, <1>2

\* A name that is settled is left behind.
LEMMA SettledLeavesLess ==
  ASSUME TypeOK, pc \in {"lstat", "open", "read", "cgi", "run"}, Settled
  PROVE  Todo' < Todo
<1>1. slot \in {"main", "header", "footer"}  BY DEF TypeOK, Slots
<1>2. \/ slot = "main" /\ slot' \in {"header", "none"}
      \/ slot = "header" /\ slot' = "footer"
      \/ slot = "footer" /\ slot' = "none"
  BY <1>1 DEF Settled
<1>3. pc' \in {"assemble", "lstat"}  BY DEF Settled
<1>4. SlotsLeft' < SlotsLeft /\ SlotsLeft \in 0..3 /\ SlotsLeft' \in 0..3
  BY <1>2 DEF SlotsLeft
<1>5. StepsLeft \in 1..4 /\ StepsLeft' \in 1..4
  BY <1>3 DEF StepsLeft
<1> QED  BY <1>4, <1>5, TodoOrder

\* So it is when it is looked at a further time.
LEMMA FurtherLeavesLess == Further => Todo' < Todo
<1> SUFFICES ASSUME Further PROVE Todo' < Todo
  OBVIOUS
<1>1. SlotsLeft' = SlotsLeft /\ SlotsLeft \in 0..3  BY DEF Further, SlotsLeft
<1>2. StepsLeft' < StepsLeft /\ StepsLeft \in 0..4 /\ StepsLeft' \in 0..4
  BY DEF Further, StepsLeft
<1> QED  BY <1>1, <1>2, TodoOrder

\* Every step of a request takes it on; edits do not set it back.
LEMMA StepLeavesLess ==
  ASSUME TypeOK, [Next]_vars
  PROVE  /\ Lstat \/ Open \/ Read \/ OpenExec \/ RunCGI \/ Assemble => Todo' < Todo
         /\ Edit \/ UNCHANGED vars => Todo' = Todo
<1>1. ASSUME pc \in {"lstat", "open", "read", "cgi", "run"}, Settled
      PROVE  Todo' < Todo
  BY <1>1, SettledLeavesLess
<1>2. Lstat => Todo' < Todo
  <2>1. Lstat => pc = "lstat" /\ (Settled \/ Further)
    BY DEF Lstat, Settled, Further
  <2> QED  BY <1>1, <2>1, FurtherLeavesLess
<1>3. Open => Todo' < Todo
  <2>1. Open => pc = "open" /\ (Settled \/ Further)
    BY DEF Open, Settled, Further
  <2> QED  BY <1>1, <2>1, FurtherLeavesLess
<1>4. Read => Todo' < Todo
  <2>1. Read => pc = "read" /\ Settled  BY DEF Read, Settled
  <2> QED  BY <1>1, <2>1
<1>5. OpenExec => Todo' < Todo
  <2>1. OpenExec => pc = "cgi" /\ (Settled \/ Further)
    BY DEF OpenExec, Settled, Further
  <2> QED  BY <1>1, <2>1, FurtherLeavesLess
<1>6. RunCGI => Todo' < Todo
  <2>1. RunCGI => pc = "run" /\ Settled  BY DEF RunCGI, Settled
  <2> QED  BY <1>1, <2>1
<1>7. Assemble => Todo' < Todo
  <2>1. Assemble => slot' = slot /\ pc = "assemble" /\ pc' = "done"
    BY DEF Assemble
  <2> QED  BY <2>1, FurtherLeavesLess DEF Further
<1>8. Edit \/ UNCHANGED vars => Todo' = Todo
  <2> SUFFICES ASSUME pc' = pc, slot' = slot PROVE Todo' = Todo
    BY DEF Edit, vars
  <2>1. SlotsLeft' = SlotsLeft /\ StepsLeft' = StepsLeft  BY DEF SlotsLeft, StepsLeft
  <2> QED  BY <2>1 DEF Todo
<1> QED  BY <1>2, <1>3, <1>4, <1>5, <1>6, <1>7, <1>8

(* buildValidResponse takes at most nineteen steps in all, however often the
   files are exchanged under it: there is no way back from a second look to
   a first one, and an edit never gives a request more to do.              *)
THEOREM RequestIsBounded ==
  Spec => [](Todo \in 0..19) /\ [][IF Edit THEN Todo' = Todo ELSE Todo' < Todo]_vars
<1>1. TypeOK => Todo \in 0..19
  <2>1. SlotsLeft \in 0..3 /\ StepsLeft \in 0..4  BY DEF SlotsLeft, StepsLeft
  <2> QED  BY <2>1 DEF Todo
<1>2. TypeOK /\ [Next]_vars => [IF Edit THEN Todo' = Todo ELSE Todo' < Todo]_vars
  <2> SUFFICES ASSUME TypeOK, [Next]_vars, vars' # vars
               PROVE  IF Edit THEN Todo' = Todo ELSE Todo' < Todo
    OBVIOUS
  <2>1. CASE Edit   BY <2>1, StepLeavesLess
  <2>2. CASE ~Edit  BY <2>2, StepLeavesLess DEF Next
  <2> QED  BY <2>1, <2>2
<1> QED  BY <1>1, <1>2, ContentTypeCorrect, PTL DEF Spec
=============================================================================
