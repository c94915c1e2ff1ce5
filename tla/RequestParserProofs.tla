------------------------ MODULE RequestParserProofs ------------------------
(***************************************************************************)
(* Proofs about RequestParser for lines of any number of tokens, any names *)
(* and any limit of flags: the loop of parseStructuredRequest builds what  *)
(* the loop-free Meaning says, canonical forms parse to themselves, and    *)
(* the three parsers agree.                                                *)
(***************************************************************************)
EXTENDS RequestParser, FiniteSetTheorems, SequenceTheorems, TLAPS

-----------------------------------------------------------------------------
(* Facts about the definitions.                                            *)

\* Flags and targets are kinds of token, told apart by the slash.
LEMMA TokenKinds ==
  /\ Flags \subseteq Tokens /\ Targets \subseteq Tokens
  /\ \A t \in Flags : t.slash = TRUE /\ t \notin Targets
  /\ \A t \in Targets : t.slash = FALSE /\ t \notin Flags
  /\ WFlag \in Flags /\ WFlag.name = W
  BY ParserAssumption DEF Flags, Targets, Tokens, WFlag

\* The tokens of a line are a sequence.
LEMMA LineTokens ==
  ASSUME NEW l \in Lines
  PROVE  l.toks \in Seq(Tokens)
<1>1. l.toks \in UNION {[1..n -> Tokens] : n \in 0..MaxTokens}
  BY DEF Lines
<1>2. \A n \in 0..MaxTokens : n \in Nat
  BY ParserAssumption
<1> QED  BY <1>1, <1>2, SeqDef

\* FirstOfName picks from the tokens it looks at.
LEMMA FirstFinite ==
  ASSUME NEW s \in Seq(Tokens), NEW n \in Nat
  PROVE  /\ FirstOfName(s, n) \subseteq 1..n
         /\ IsFiniteSet(FirstOfName(s, n))
         /\ Cardinality(FirstOfName(s, n)) \in Nat
<1>1. FirstOfName(s, n) \subseteq 1..n  BY DEF FirstOfName
<1>2. IsFiniteSet(1..n)  BY FS_Interval
<1>3. IsFiniteSet(FirstOfName(s, n))  BY <1>1, <1>2, FS_Subset
<1> QED  BY <1>1, <1>3, FS_CardinalityType

\* One more token adds its own index, when it is a flag of a new name.
LEMMA FirstOfMore ==
  ASSUME NEW s \in Seq(Tokens), NEW n \in Nat
  PROVE  LET new == s[n + 1].slash /\ \A j \in 1..n : s[j].name # s[n + 1].name
         IN  FirstOfName(s, n + 1) =
               IF new THEN FirstOfName(s, n) \cup {n + 1} ELSE FirstOfName(s, n)
<1>1. 1..(n + 1) = (1..n) \cup {n + 1} /\ n + 1 \notin 1..n  OBVIOUS
<1>2. 1..((n + 1) - 1) = 1..n  OBVIOUS
<1>3. \A i \in 1..n : i \in FirstOfName(s, n + 1) <=> i \in FirstOfName(s, n)
  BY <1>1 DEF FirstOfName
<1>4. n + 1 \in FirstOfName(s, n + 1)
        <=> s[n + 1].slash /\ \A j \in 1..n : s[j].name # s[n + 1].name
  BY <1>1, <1>2 DEF FirstOfName
<1>5. FirstOfName(s, n + 1) \subseteq (1..n) \cup {n + 1} /\ FirstOfName(s, n) \subseteq 1..n
  BY <1>1 DEF FirstOfName
<1>6. CASE n + 1 \in FirstOfName(s, n + 1)
  <2>1. FirstOfName(s, n + 1) = FirstOfName(s, n) \cup {n + 1}
    BY <1>3, <1>5, <1>6
  <2> QED  BY <1>4, <1>6, <2>1
<1>7. CASE n + 1 \notin FirstOfName(s, n + 1)
  <2>1. FirstOfName(s, n + 1) = FirstOfName(s, n)
    BY <1>3, <1>5, <1>7
  <2> QED  BY <1>4, <1>7, <2>1
<1> QED  BY <1>6, <1>7

\* More tokens have at least as many first flags.
LEMMA FirstGrows ==
  ASSUME NEW s \in Seq(Tokens), NEW n \in Nat, NEW m \in Nat, n <= m
  PROVE  Cardinality(FirstOfName(s, n)) <= Cardinality(FirstOfName(s, m))
<1>1. FirstOfName(s, n) \subseteq FirstOfName(s, m)  BY DEF FirstOfName
<1> QED  BY <1>1, FirstFinite, FS_Subset

\* A number above all of S comes last in S and moves no other.
LEMMA RankOfLast ==
  ASSUME NEW n \in Nat, NEW S \in SUBSET (1..n)
  PROVE  /\ Cardinality(S \cup {n + 1}) = Cardinality(S) + 1
         /\ WithRank(S \cup {n + 1}, Cardinality(S) + 1) = {n + 1}
         /\ \A k \in 1..Cardinality(S) : WithRank(S \cup {n + 1}, k) = WithRank(S, k)
<1> DEFINE more == S \cup {n + 1}
<1> DEFINE upTo(T, i) == {j \in T : j <= i}
<1>1. IsFiniteSet(S) /\ Cardinality(S) \in Nat
  <2>1. IsFiniteSet(1..n)  BY FS_Interval
  <2> QED  BY <2>1, FS_Subset, FS_CardinalityType
<1>2. n + 1 \notin S  OBVIOUS
<1>3. Cardinality(more) = Cardinality(S) + 1
  BY <1>1, <1>2, FS_AddElement
<1>4. upTo(more, n + 1) = more
  <2>1. \A j \in more : j <= n + 1  OBVIOUS
  <2> QED  BY <2>1
<1>5. \A i \in S : upTo(more, i) = upTo(S, i)  OBVIOUS
<1>6. \A i \in S : Cardinality(upTo(S, i)) <= Cardinality(S)
                   /\ Cardinality(upTo(S, i)) \in Nat
  <2> SUFFICES ASSUME NEW i \in S
               PROVE  /\ Cardinality(upTo(S, i)) <= Cardinality(S)
                      /\ Cardinality(upTo(S, i)) \in Nat
    OBVIOUS
  <2>1. upTo(S, i) \in SUBSET S  OBVIOUS
  <2> HIDE DEF upTo
  <2> QED  BY <1>1, <2>1, FS_Subset, FS_CardinalityType
<1>7. \A T, k : WithRank(T, k) = {i \in T : Cardinality(upTo(T, i)) = k}
  BY DEF WithRank
<1> HIDE DEF upTo
<1>8. \A k : \A i \in S : i \in WithRank(more, k) <=> i \in WithRank(S, k)
  BY <1>5, <1>7
<1>9. \A k : n + 1 \in WithRank(more, k) <=> k = Cardinality(S) + 1
  BY <1>3, <1>4, <1>7
<1>10. \A k : WithRank(more, k) \subseteq more /\ WithRank(S, k) \subseteq S
  BY DEF WithRank
<1>11. \A i \in S : i \notin WithRank(S, Cardinality(S) + 1)
  BY <1>1, <1>6, <1>7
<1>12. \A k \in 1..Cardinality(S) : k # Cardinality(S) + 1
  BY <1>1
<1>13. \A k \in 1..Cardinality(S) : WithRank(more, k) = WithRank(S, k)
  <2> SUFFICES ASSUME NEW k \in 1..Cardinality(S)
               PROVE  WithRank(more, k) = WithRank(S, k)
    OBVIOUS
  <2>1. n + 1 \notin WithRank(more, k)  BY <1>9, <1>12
  <2>2. WithRank(more, k) \subseteq S  BY <1>10, <2>1
  <2> QED  BY <1>8, <1>10, <2>2
<1>14. WithRank(more, Cardinality(S) + 1) = {n + 1}
  BY <1>8, <1>9, <1>10, <1>11
<1> QED  BY <1>3, <1>13, <1>14

\* The numbers up to n come in their own order.
LEMMA RankInInterval ==
  ASSUME NEW n \in Nat
  PROVE  /\ Cardinality(1..n) = n
         /\ \A k \in 1..n : WithRank(1..n, k) = {k}
<1>1. \A i \in 1..n : {j \in 1..n : j <= i} = 1..i  OBVIOUS
<1>2. \A i \in 0..n : Cardinality(1..i) = i  BY FS_Interval
<1>3. \A i \in 1..n : Cardinality({j \in 1..n : j <= i}) = i
  <2> TAKE i \in 1..n
  <2>1. {j \in 1..n : j <= i} = 1..i  BY <1>1
  <2>2. Cardinality(1..i) = i  BY <1>2
  <2> QED  BY <2>1, <2>2
<1> QED  BY <1>2, <1>3 DEF WithRank

\* A canonical form is read back as its flags and its target.
LEMMA CanonicalParts ==
  ASSUME NEW fs \in Seq(Flags), NEW tg,
         \A i, j \in 1..Len(fs) : i # j => fs[i].name # fs[j].name,
         tg = <<>> \/ \E t \in Targets : tg = <<t>>
  PROVE  LET s == fs \o tg
         IN  /\ s \in Seq(Tokens)
             /\ Cardinality(FirstOfName(s, Len(s))) = Len(fs)
             /\ Kept(s) = fs
             /\ TargetOf(s) = tg
             /\ s # <<>> /\ Len(fs) <= MaxFlags => WellFormed(s)
<1> DEFINE s == fs \o tg
<1> DEFINE n == Len(fs)
<1>1. fs \in Seq(Tokens) /\ tg \in Seq(Tokens) /\ n \in Nat /\ Len(tg) \in {0, 1}
  <2>1. fs \in Seq(Tokens)  BY TokenKinds, SeqMonotonic
  <2>2. CASE tg = <<>>  BY <2>1, <2>2
  <2>3. CASE tg # <<>>
    <3>1. PICK t \in Targets : tg = <<t>>  BY <2>3
    <3>2. t \in Tokens  BY TokenKinds
    <3> QED  BY <2>1, <3>1, <3>2
  <2> QED  BY <2>2, <2>3
<1>2. s \in Seq(Tokens) /\ Len(s) = n + Len(tg)
  BY <1>1, ConcatProperties
<1>3. \A i \in 1..n : s[i] = fs[i] /\ s[i] \in Flags
  BY <1>1, ElementOfSeq, ConcatProperties
<1>4. \A i \in 1..Len(s) : i \notin 1..n =>
         i = n + 1 /\ i = Len(s) /\ s[i] \in Targets /\ tg = <<s[i]>>
  <2> SUFFICES ASSUME NEW i \in 1..Len(s), i \notin 1..n
               PROVE  i = n + 1 /\ i = Len(s) /\ s[i] \in Targets /\ tg = <<s[i]>>
    OBVIOUS
  <2>0. i \in 1..(n + Len(tg)) /\ ~(i <= n)  BY <1>1, <1>2
  <2>1. Len(tg) = 1 /\ i = n + 1 /\ i = n + Len(tg)
    <3>1. n \in Nat /\ (Len(tg) = 0 \/ Len(tg) = 1)  BY <1>1
    <3>2. CASE Len(tg) = 0
      <4>1. i \in 1..(n + 0)  BY <2>0, <3>2
      <4> QED  BY <2>0, <3>1, <4>1
    <3>3. CASE Len(tg) = 1
      <4>1. i \in 1..(n + 1)  BY <2>0, <3>3
      <4>2. i = n + 1  BY <2>0, <3>1, <4>1
      <4> QED  BY <3>3, <4>2
    <3> QED  BY <3>1, <3>2, <3>3
  <2>2. PICK t \in Targets : tg = <<t>>  BY <2>1
  <2>3. s[i] = tg[1]  BY <1>1, <2>0, <2>1, ConcatProperties
  <2> QED  BY <1>2, <2>1, <2>2, <2>3
<1>5. FirstOfName(s, Len(s)) = 1..n
  <2>1. \A i \in 1..n : i \in FirstOfName(s, Len(s))
    BY <1>1, <1>2, <1>3, TokenKinds DEF FirstOfName
  <2>2. \A i \in FirstOfName(s, Len(s)) : i \in 1..Len(s) /\ s[i].slash
    BY DEF FirstOfName
  <2>3. \A i \in FirstOfName(s, Len(s)) : i \in 1..n
    BY <1>4, <2>2, TokenKinds
  <2> QED  BY <2>1, <2>3
<1>6. Cardinality(FirstOfName(s, Len(s))) = n
  BY <1>1, <1>5, RankInInterval
<1>7. Kept(s) = fs
  <2> HIDE DEF s
  <2>1. Kept(s) = [k \in 1..n |-> s[Nth(1..n, k)]]
    BY <1>5, <1>6 DEF Kept
  <2>2. \A k \in 1..n : Nth(1..n, k) = k
    BY <1>1, RankInInterval DEF Nth
  <2>3. fs = [k \in 1..n |-> fs[k]]  OBVIOUS
  <2>4. Kept(s) = [k \in 1..n |-> s[k]]  BY <2>1, <2>2
  <2>5. [k \in 1..n |-> s[k]] = [k \in 1..n |-> fs[k]]  BY <1>3
  <2> QED  BY <2>3, <2>4, <2>5
<1>8. s # <<>> => Len(s) \in 1..Len(s)
  BY <1>2
<1>9. TargetOf(s) = tg
  <2>1. CASE tg = <<>>
    <3>1. s # <<>> => s[Len(s)] \in Flags  BY <1>2, <1>3, <1>8, <2>1
    <3> HIDE DEF s
    <3> QED  BY <2>1, <3>1, TokenKinds DEF TargetOf, IsTarget
  <2>2. CASE tg # <<>>
    <3>0. Len(tg) = 1  BY <1>1, <2>2
    <3>1. Len(s) = n + 1 /\ s # <<>>  BY <1>1, <1>2, <3>0
    <3>2. s[Len(s)] \in Targets /\ tg = <<s[Len(s)]>>  BY <1>1, <1>4, <1>8, <3>1
    <3> HIDE DEF s
    <3> QED  BY <3>1, <3>2 DEF TargetOf, IsTarget
  <2> QED  BY <2>1, <2>2
<1>10. s # <<>> /\ n <= MaxFlags => WellFormed(s)
  <2> SUFFICES ASSUME s # <<>>, n <= MaxFlags PROVE WellFormed(s)
    OBVIOUS
  <2>1. \A i \in 1..(Len(s) - 1) : s[i] \in Flags
    <3> HIDE DEF s, n
    <3>0. n \in Nat /\ (Len(tg) = 0 \/ Len(tg) = 1) /\ Len(s) = n + Len(tg)
      BY <1>1, <1>2
    <3>1. Len(s) - 1 <= n /\ Len(s) \in Nat
      <4>1. CASE Len(tg) = 0
        <5>1. Len(s) = n + 0  BY <3>0, <4>1
        <5> QED  BY <3>0, <5>1
      <4>2. CASE Len(tg) = 1
        <5>1. Len(s) = n + 1  BY <3>0, <4>2
        <5> QED  BY <3>0, <5>1
      <4> QED  BY <3>0, <4>1, <4>2
    <3>2. \A i \in 1..(Len(s) - 1) : i \in 1..n  BY <1>1, <3>1
    <3> QED  BY <1>3, <3>2
  <2>2. s[Len(s)] \in Flags \/ s[Len(s)] \in Targets
    BY <1>3, <1>4, <1>8
  <2> HIDE DEF s
  <2> QED  BY <1>6, <2>1, <2>2 DEF WellFormed, IsFlag, IsTarget
<1> QED  BY <1>2, <1>6, <1>7, <1>9, <1>10
-----------------------------------------------------------------------------
(* The loop of parseStructuredRequest.                                     *)

\* The number of tokens the loop has seen, and the flags it keeps of them.
Seen == Len(line.toks) - Len(rest)
First == FirstOfName(line.toks, Seen)

\* Nothing has been built before the parser starts.
StartInv == phase = "start" => flags = <<>> /\ target = <<>>

\* Everything seen is a flag, except a target in the last place.
LoopInv ==
  phase = "scan" =>
    /\ mode # "finger" /\ ~(mode = "fingers" /\ line.ending # "CRLF")
    /\ ~Empty(line) /\ CleanRunes(line) /\ line.toks # <<>>
    /\ Seen \in 0..Len(line.toks)
    /\ \A k \in 1..Len(rest) : rest[k] = line.toks[Seen + k]
    /\ \A j \in 1..(Seen - 1) : IsFlag(line.toks[j])
    /\ \/ target = <<>> /\ \A j \in 1..Seen : IsFlag(line.toks[j])
       \/ Seen > 0 /\ target = <<line.toks[Seen]>> /\ ~line.toks[Seen].slash

\* The flags kept are those First points at, and cover every name seen.
FlagsInv ==
  phase = "scan" =>
    /\ Len(flags) = Cardinality(First)
    /\ \A k \in 1..Len(flags) : flags[k] = line.toks[Nth(First, k)]
    /\ \A k \in 1..Len(flags) : \E j \in 1..Seen : flags[k] = line.toks[j]
    /\ \A j \in 1..Seen : IsFlag(line.toks[j])
                          => \E k \in 1..Len(flags) : flags[k].name = line.toks[j].name

\* No name occurs twice among the flags kept.
DistinctInv == \A i, k \in 1..Len(flags) : i # k => flags[i].name # flags[k].name

\* What is accepted ends in at most one target; its canonical form is built
\* from the parts, except for plain finger.
ShapeInv ==
  phase = "accepted" =>
    /\ target = <<>> \/ \E t \in Targets : target = <<t>>
    /\ mode # "finger" => canonical = flags \o target

\* A sequence of one token is the token.
LEMMA OneToken ==
  ASSUME NEW S, NEW s \in Seq(S), Len(s) = 1
  PROVE  s = <<s[1]>> /\ s[1] \in S
<1>1. s[1] \in S  BY ElementOfSeq
<1>2. <<s[1]>> \in Seq(S) /\ Len(<<s[1]>>) = 1 /\ <<s[1]>>[1] = s[1]  BY <1>1
<1>3. \A i \in 1..Len(s) : i = 1  OBVIOUS
<1> QED  BY <1>1, <1>2, <1>3, SeqEqual

\* A sequence whose tail is one token is two tokens.
LEMMA TwoTokens ==
  ASSUME NEW S, NEW s \in Seq(S), s # <<>>, Len(Tail(s)) = 1
  PROVE  s = <<s[1], s[2]>> /\ Tail(s) = <<s[2]>>
<1>1. Len(s) = 2 /\ Tail(s) \in Seq(S) /\ Tail(s)[1] = s[2]
  BY HeadTailProperties
<1>2. s[1] \in S /\ s[2] \in S  BY <1>1, ElementOfSeq
<1>3. /\ <<s[1], s[2]>> \in Seq(S) /\ Len(<<s[1], s[2]>>) = 2
      /\ <<s[1], s[2]>>[1] = s[1] /\ <<s[1], s[2]>>[2] = s[2]
  BY <1>2
<1>4. \A i \in 1..2 : i = 1 \/ i = 2  OBVIOUS
<1>5. s = <<s[1], s[2]>>  BY <1>1, <1>3, <1>4, SeqEqual
<1> QED  BY <1>1, <1>5, OneToken

\* The lines plain finger accepts, once it has looked at the first token.
LEMMA PlainLines ==
  ASSUME NEW s \in Seq(Tokens)
  PROVE  LET tg == IF s # <<>> /\ s[1] = WFlag THEN Tail(s) ELSE s
         IN  /\ s = <<WFlag>> => tg = <<>> /\ TargetOf(s) = <<>>
             /\ Len(tg) = 1 /\ IsTarget(tg[1])
                  => \E t \in Targets : /\ s = <<t>> \/ s = <<WFlag, t>>
                                        /\ tg = <<t>> /\ TargetOf(s) = <<t>>
             /\ \A t \in Targets : s = <<t>> \/ s = <<WFlag, t>>
                  => Len(tg) = 1 /\ IsTarget(tg[1])
<1> DEFINE tg == IF s # <<>> /\ s[1] = WFlag THEN Tail(s) ELSE s
<1>1. s = <<WFlag>> => tg = <<>> /\ TargetOf(s) = <<>>
  BY TokenKinds DEF TargetOf, IsTarget
<1>2. ASSUME Len(tg) = 1, IsTarget(tg[1])
      PROVE  \E t \in Targets : /\ s = <<t>> \/ s = <<WFlag, t>>
                                /\ tg = <<t>> /\ TargetOf(s) = <<t>>
  <2>1. CASE s # <<>> /\ s[1] = WFlag
    <3>0. tg = Tail(s) /\ Len(Tail(s)) = 1  BY <1>2, <2>1
    <3>1. s = <<s[1], s[2]>> /\ tg = <<s[2]>>  BY <2>1, <3>0, TwoTokens
    <3>2. s[2] \in Targets  BY <1>2, <3>1 DEF IsTarget
    <3> QED  BY <2>1, <3>1, <3>2 DEF TargetOf, IsTarget
  <2>2. CASE ~(s # <<>> /\ s[1] = WFlag)
    <3>1. tg = s /\ s = <<s[1]>>  BY <1>2, <2>2, OneToken
    <3>2. s[1] \in Targets  BY <1>2, <3>1 DEF IsTarget
    <3> QED  BY <3>1, <3>2 DEF TargetOf, IsTarget
  <2> QED  BY <2>1, <2>2
<1>3. ASSUME NEW t \in Targets, s = <<t>> \/ s = <<WFlag, t>>
      PROVE  Len(tg) = 1 /\ IsTarget(tg[1])
  <2>1. t # WFlag  BY TokenKinds
  <2> QED  BY <1>3, <2>1 DEF IsTarget
<1> QED  BY <1>1, <1>2, <1>3

\* What is seen at the head of the loop.
LEMMA LoopHead ==
  ASSUME TypeOK, LoopInv, phase = "scan", rest # <<>>
  PROVE  /\ line.toks \in Seq(Tokens)
         /\ Seen \in Nat /\ Seen + 1 \in 1..Len(line.toks)
         /\ Head(rest) = line.toks[Seen + 1]
         /\ Tail(rest) \in Seq(Tokens)
         /\ Len(line.toks) - Len(Tail(rest)) = Seen + 1
         /\ \A k \in 1..Len(Tail(rest)) : Tail(rest)[k] = line.toks[Seen + 1 + k]
<1>1. line.toks \in Seq(Tokens)  BY LineTokens DEF TypeOK
<1>2. rest \in Seq(Tokens) /\ Len(rest) \in Nat \ {0}  BY EmptySeq DEF TypeOK
<1>3. Len(line.toks) \in Nat  BY <1>1
<1>4. Seen \in 0..Len(line.toks) /\ \A k \in 1..Len(rest) : rest[k] = line.toks[Seen + k]
  BY DEF LoopInv
<1>5. Seen = Len(line.toks) - Len(rest)  BY DEF Seen
<1>6. /\ Tail(rest) \in Seq(Tokens) /\ Len(Tail(rest)) = Len(rest) - 1
      /\ \A k \in 1..Len(Tail(rest)) : Tail(rest)[k] = rest[k + 1]
      /\ Head(rest) = rest[1]
  BY <1>2
<1>7. \A k \in 1..Len(Tail(rest)) : k + 1 \in 1..Len(rest) /\ Seen + (k + 1) = Seen + 1 + k
  BY <1>2, <1>3, <1>4, <1>6
<1> QED  BY <1>1, <1>2, <1>3, <1>4, <1>5, <1>6, <1>7

\* A token that spoils a line spoils its meaning.
LEMMA Spoiled ==
  ASSUME TypeOK, mode # "finger", ~Empty(line),
         NEW j \in 1..Len(line.toks),
         \/ ~IsFlag(line.toks[j]) /\ ~IsTarget(line.toks[j])
         \/ ~IsFlag(line.toks[j]) /\ j < Len(line.toks)
         \/ Cardinality(FirstOfName(line.toks, j)) > MaxFlags
  PROVE  Meaning(mode, line) = {}
<1> DEFINE s == line.toks
<1>1. s \in Seq(Tokens) /\ Len(s) \in Nat /\ j \in Nat /\ j <= Len(s)
  BY LineTokens DEF TypeOK
<1>2. ~WellFormed(s)
  <2>1. CASE ~IsFlag(s[j]) /\ j < Len(s)
    <3>1. j \in 1..(Len(s) - 1)  BY <1>1, <2>1
    <3> QED  BY <2>1, <3>1 DEF WellFormed
  <2>2. CASE ~IsFlag(s[j]) /\ ~IsTarget(s[j]) /\ j = Len(s)
    BY <2>2 DEF WellFormed
  <2>3. CASE Cardinality(FirstOfName(s, j)) > MaxFlags
    <3>1. Cardinality(FirstOfName(s, j)) <= Cardinality(FirstOfName(s, Len(s)))
      BY <1>1, FirstGrows
    <3>2. Cardinality(FirstOfName(s, j)) \in Nat /\ Cardinality(FirstOfName(s, Len(s))) \in Nat
      BY <1>1, FirstFinite
    <3>3. ~(Cardinality(FirstOfName(s, Len(s))) <= MaxFlags)
      BY <2>3, <3>1, <3>2, ParserAssumption
    <3> QED  BY <3>3 DEF WellFormed
  <2> QED  BY <1>1, <2>1, <2>2, <2>3
<1> QED  BY <1>2 DEF Meaning
-----------------------------------------------------------------------------
(* Every step keeps the parts of the invariant.                            *)

\* TypeOK is preserved by every step.
LEMMA TypeStep == TypeOK /\ [Next]_vars => TypeOK'
<1> SUFFICES ASSUME TypeOK, [Next]_vars PROVE TypeOK'
  OBVIOUS
<1>0. line.toks \in Seq(Tokens)  BY LineTokens DEF TypeOK
<1>1. CASE PlainFinger
  <2> DEFINE toks == line.toks
  <2> DEFINE tg == IF toks # <<>> /\ toks[1] = WFlag THEN Tail(toks) ELSE toks
  <2>1. CASE Reject  BY <1>1, <2>1 DEF TypeOK, PlainFinger, Reject
  <2>2. CASE ~Reject
    <3>1. /\ phase' = "accepted" /\ target' = tg /\ canonical' = toks
          /\ UNCHANGED <<mode, line, rest, flags>>
          /\ toks = <<>> \/ toks = <<WFlag>> \/ (Len(tg) = 1 /\ IsTarget(tg[1]))
      BY <1>1, <2>2 DEF PlainFinger, Accept, Empty
    <3>2. CASE toks = <<>>  BY <3>1, <3>2 DEF TypeOK
    <3>3. CASE toks = <<WFlag>>
      <4>1. tg = <<>> /\ tg \in Seq(Tokens) /\ Len(tg) <= 1
        <5>1. tg = <<>>  BY <1>0, <3>3, PlainLines
        <5> HIDE DEF tg
        <5> QED  BY <5>1
      <4> HIDE DEF tg
      <4>2. toks \in Seq(Flags \cup Targets)  BY <3>3, TokenKinds
      <4> QED  BY <3>1, <4>1, <4>2 DEF TypeOK
    <3>4. CASE Len(tg) = 1 /\ IsTarget(tg[1])
      <4>1. PICK t \in Targets : tg = <<t>> /\ (toks = <<t>> \/ toks = <<WFlag, t>>)
        BY <1>0, <3>4, PlainLines
      <4>2. toks \in Seq(Flags \cup Targets)  BY <4>1, TokenKinds
      <4>3. tg \in Seq(Tokens) /\ Len(tg) <= 1  BY <4>1, TokenKinds
      <4> QED  BY <3>1, <4>2, <4>3 DEF TypeOK
    <3> QED  BY <3>1, <3>2, <3>3, <3>4
  <2> QED  BY <2>1, <2>2
<1>2. CASE Begin
  <2>1. CASE Reject  BY <2>1 DEF TypeOK, Reject
  <2>2. CASE Accept(<<>>, <<>>)  BY <2>2 DEF TypeOK, Accept
  <2>3. CASE /\ phase' = "scan" /\ rest' = line.toks
             /\ UNCHANGED <<mode, line, flags, target, canonical>>
    BY <1>0, <2>3 DEF TypeOK
  <2> QED  BY <1>2, <2>1, <2>2, <2>3 DEF Begin
<1>3. CASE ScanFlag
  <2>1. CASE Reject  BY <2>1 DEF TypeOK, Reject
  <2>2. CASE ~Reject
    <3> DEFINE t == Head(rest)
    <3>1. /\ rest # <<>> /\ IsFlag(t) /\ rest' = Tail(rest)
          /\ \/ flags' = flags
             \/ flags' = Append(flags, t) /\ ~(Len(flags) >= MaxFlags)
          /\ UNCHANGED <<mode, line, phase, target, canonical>>
      BY <1>3, <2>2 DEF ScanFlag
    <3>2. Tail(rest) \in Seq(Tokens)  BY <3>1, HeadTailProperties DEF TypeOK
    <3>3. flags' \in Seq(Flags) /\ Len(flags') <= MaxFlags
      <4>1. CASE flags' = flags  BY <4>1 DEF TypeOK
      <4>2. CASE flags' = Append(flags, t) /\ ~(Len(flags) >= MaxFlags)
        <5>1. t \in Flags /\ flags \in Seq(Flags)  BY <3>1 DEF IsFlag, TypeOK
        <5> HIDE DEF t
        <5>2. flags' \in Seq(Flags) /\ Len(flags') = Len(flags) + 1 /\ Len(flags) \in Nat
          BY <4>2, <5>1
        <5> QED  BY <4>2, <5>2, ParserAssumption
      <4> QED  BY <3>1, <4>1, <4>2
    <3> QED  BY <3>1, <3>2, <3>3 DEF TypeOK
  <2> QED  BY <2>1, <2>2
<1>4. CASE ScanTarget
  <2>1. CASE Reject  BY <2>1 DEF TypeOK, Reject
  <2>2. CASE ~Reject
    <3>1. /\ rest # <<>> /\ rest' = Tail(rest) /\ target' = <<Head(rest)>>
          /\ UNCHANGED <<mode, line, phase, flags, canonical>>
      BY <1>4, <2>2 DEF ScanTarget
    <3>2. Head(rest) \in Tokens /\ Tail(rest) \in Seq(Tokens)
      BY <3>1, HeadTailProperties DEF TypeOK
    <3>3. target' \in Seq(Tokens) /\ Len(target') <= 1  BY <3>1, <3>2
    <3> QED  BY <3>1, <3>2, <3>3 DEF TypeOK
  <2> QED  BY <2>1, <2>2
<1>5. CASE Finish
  <2>1. CASE Reject  BY <2>1 DEF TypeOK, Reject
  <2>2. CASE ~Reject
    <3>1. /\ phase' = "accepted" /\ target' = target /\ canonical' = flags \o target
          /\ UNCHANGED <<mode, line, rest, flags>>
          /\ target = <<>> \/ IsTarget(target[1])
      BY <1>5, <2>2 DEF Finish, Accept, BuildCanonical
    <3>2. flags \in Seq(Flags \cup Targets)  BY SeqMonotonic DEF TypeOK
    <3>3. target \in Seq(Flags \cup Targets)
      <4>1. CASE target = <<>>  BY <4>1
      <4>2. CASE target # <<>>
        <5>0. target \in Seq(Tokens) /\ Len(target) <= 1  BY DEF TypeOK
        <5>1. Len(target) \in Nat \ {0}  BY <4>2, <5>0, EmptySeq
        <5>2. target = <<target[1]>> /\ target[1] \in Targets
          <6>1. Len(target) = 1  BY <5>0, <5>1
          <6>2. target = <<target[1]>>  BY <5>0, <6>1, OneToken
          <6> QED  BY <3>1, <4>2, <6>2 DEF IsTarget
        <5>3. <<target[1]>> \in Seq(Flags \cup Targets)  BY <5>2
        <5> QED  BY <5>2, <5>3
      <4> QED  BY <4>1, <4>2
    <3>4. canonical' \in Seq(Flags \cup Targets)  BY <3>1, <3>2, <3>3
    <3> QED  BY <3>1, <3>4 DEF TypeOK
  <2> QED  BY <2>1, <2>2
<1>6. CASE UNCHANGED vars  BY <1>6 DEF TypeOK, vars
<1> QED  BY <1>1, <1>2, <1>3, <1>4, <1>5, <1>6 DEF Next

\* A step that is not of the loop, or refuses the line, leaves the loop.
LEMMA Leaves ==
  ASSUME [Next]_vars, Reject \/ PlainFinger \/ Finish
  PROVE  phase' # "scan" /\ UNCHANGED <<line, flags>>
  BY DEF Reject, PlainFinger, Finish, Accept

\* An iteration that keeps going over a flag.
LEMMA FlagTaken ==
  ASSUME TypeOK, LoopInv, ScanFlag, ~Reject
  PROVE  LET t == line.toks[Seen + 1]
         IN  /\ phase = "scan" /\ rest # <<>> /\ target = <<>>
             /\ IsFlag(t) /\ t.slash = TRUE
             /\ Seen' = Seen + 1 /\ rest' = Tail(rest)
             /\ UNCHANGED <<mode, line, phase, target, canonical>>
             /\ \/ /\ \E i \in 1..Len(flags) : flags[i].name = t.name
                   /\ flags' = flags
                \/ /\ \A i \in 1..Len(flags) : flags[i].name # t.name
                   /\ flags' = Append(flags, t)
<1>1. phase = "scan" /\ rest # <<>>  BY DEF ScanFlag
<1>2. Head(rest) = line.toks[Seen + 1] /\ Len(line.toks) - Len(Tail(rest)) = Seen + 1
  BY <1>1, LoopHead
<1>3. target = <<>> /\ IsFlag(Head(rest)) /\ rest' = Tail(rest)
      /\ UNCHANGED <<mode, line, phase, target, canonical>>
  BY DEF ScanFlag
<1>4. \/ /\ \E i \in 1..Len(flags) : flags[i].name = Head(rest).name
         /\ flags' = flags
      \/ /\ \A i \in 1..Len(flags) : flags[i].name # Head(rest).name
         /\ flags' = Append(flags, Head(rest))
  BY DEF ScanFlag
<1>5. Seen' = Seen + 1  BY <1>2, <1>3 DEF Seen
<1> QED  BY <1>1, <1>2, <1>3, <1>4, <1>5, TokenKinds DEF IsFlag

\* An iteration that keeps going over a target.
LEMMA TargetTaken ==
  ASSUME TypeOK, LoopInv, ScanTarget, ~Reject
  PROVE  LET t == line.toks[Seen + 1]
         IN  /\ phase = "scan" /\ rest # <<>> /\ target = <<>>
             /\ ~t.slash /\ target' = <<t>>
             /\ Seen' = Seen + 1 /\ rest' = Tail(rest)
             /\ UNCHANGED <<mode, line, phase, flags, canonical>>
<1>1. phase = "scan" /\ rest # <<>>  BY DEF ScanTarget
<1>2. Head(rest) = line.toks[Seen + 1] /\ Len(line.toks) - Len(Tail(rest)) = Seen + 1
  BY <1>1, LoopHead
<1>3. target = <<>> /\ ~Head(rest).slash /\ target' = <<Head(rest)>> /\ rest' = Tail(rest)
      /\ UNCHANGED <<mode, line, phase, flags, canonical>>
  BY DEF ScanTarget
<1>4. Seen' = Seen + 1  BY <1>2, <1>3 DEF Seen
<1> QED  BY <1>1, <1>2, <1>3, <1>4

\* The way into the loop.
LEMMA LoopEntered ==
  ASSUME TypeOK, StartInv, Begin, phase' = "scan"
  PROVE  /\ mode # "finger" /\ ~(mode = "fingers" /\ line.ending # "CRLF")
         /\ ~Empty(line) /\ CleanRunes(line) /\ line.toks # <<>>
         /\ flags = <<>> /\ target = <<>>
         /\ rest' = line.toks /\ Seen' = 0
         /\ UNCHANGED <<mode, line, flags, target, canonical>>
<1>1. line.toks \in Seq(Tokens)  BY LineTokens DEF TypeOK
<1>2. /\ mode # "finger" /\ ~(mode = "fingers" /\ line.ending # "CRLF")
      /\ ~Empty(line) /\ CleanRunes(line) /\ line.toks # <<>>
      /\ rest' = line.toks /\ UNCHANGED <<mode, line, flags, target, canonical>>
  BY DEF Begin, Reject, Accept
<1>3. flags = <<>> /\ target = <<>>  BY DEF Begin, StartInv
<1>4. Seen' = 0
  <2>1. Seen' = Len(line.toks) - Len(line.toks)  BY <1>2 DEF Seen
  <2>2. Len(line.toks) \in Nat  BY <1>1
  <2> QED  BY <2>1, <2>2
<1> QED  BY <1>2, <1>3, <1>4

\* LoopInv is preserved by every step.
LEMMA LoopStep == TypeOK /\ StartInv /\ LoopInv /\ [Next]_vars => LoopInv'
<1> SUFFICES ASSUME TypeOK, StartInv, LoopInv, [Next]_vars, phase' = "scan" PROVE LoopInv'
  BY DEF LoopInv
<1>0. line.toks \in Seq(Tokens) /\ Len(line.toks) \in Nat  BY LineTokens DEF TypeOK
<1>1. CASE Begin
  <2>1. \A k \in 1..Len(rest') : rest'[k] = line.toks[0 + k]
    BY <1>0, <1>1, LoopEntered
  <2>2. \A j \in 1..(Seen' - 1) : FALSE  BY <1>1, LoopEntered
  <2>3. \A j \in 1..Seen' : FALSE  BY <1>1, LoopEntered
  <2> QED  BY <1>0, <1>1, <2>1, <2>2, <2>3, LoopEntered DEF LoopInv, Empty, CleanRunes
<1>2. CASE ScanFlag /\ ~Reject
  <2> DEFINE t == line.toks[Seen + 1]
  <2>1. /\ phase = "scan" /\ rest # <<>> /\ target = <<>> /\ IsFlag(t)
        /\ Seen' = Seen + 1 /\ rest' = Tail(rest)
        /\ UNCHANGED <<mode, line, phase, target, canonical>>
    BY <1>2, FlagTaken
  <2>2. /\ Seen \in Nat /\ Seen + 1 \in 1..Len(line.toks)
        /\ \A k \in 1..Len(Tail(rest)) : Tail(rest)[k] = line.toks[Seen + 1 + k]
    BY <2>1, LoopHead
  <2>3. \A j \in 1..Seen : IsFlag(line.toks[j])
    BY <2>1 DEF LoopInv
  <2>4. \A j \in 1..(Seen + 1) : IsFlag(line.toks[j])
    BY <2>1, <2>2, <2>3
  <2>5. \A j \in 1..((Seen + 1) - 1) : j \in 1..(Seen + 1)  BY <2>2
  <2>6. Seen + 1 \in 0..Len(line.toks)  BY <1>0, <2>2
  <2> QED  BY <2>1, <2>2, <2>4, <2>5, <2>6 DEF LoopInv, Empty, CleanRunes
<1>3. CASE ScanTarget /\ ~Reject
  <2> DEFINE t == line.toks[Seen + 1]
  <2>1. /\ phase = "scan" /\ rest # <<>> /\ target = <<>> /\ ~t.slash /\ target' = <<t>>
        /\ Seen' = Seen + 1 /\ rest' = Tail(rest)
        /\ UNCHANGED <<mode, line, phase, flags, canonical>>
    BY <1>3, TargetTaken
  <2>2. /\ Seen \in Nat /\ Seen + 1 \in 1..Len(line.toks)
        /\ \A k \in 1..Len(Tail(rest)) : Tail(rest)[k] = line.toks[Seen + 1 + k]
    BY <2>1, LoopHead
  <2>3. \A j \in 1..Seen : IsFlag(line.toks[j])
    BY <2>1 DEF LoopInv
  <2>4. (Seen + 1) - 1 = Seen /\ Seen + 1 > 0  BY <2>2
  <2>6. Seen + 1 \in 0..Len(line.toks)  BY <1>0, <2>2
  <2> QED  BY <2>1, <2>2, <2>3, <2>4, <2>6 DEF LoopInv, Empty, CleanRunes
<1>4. CASE Reject \/ PlainFinger \/ Finish  BY <1>4, Leaves
<1>5. CASE UNCHANGED vars
  <2>1. Seen' = Seen  BY <1>5 DEF vars, Seen
  <2> QED  BY <1>5, <2>1 DEF vars, LoopInv, Empty, CleanRunes
<1> QED  BY <1>1, <1>2, <1>3, <1>4, <1>5 DEF Next

\* FlagsInv is preserved by every step.
LEMMA FlagsStep == TypeOK /\ StartInv /\ LoopInv /\ FlagsInv /\ [Next]_vars => FlagsInv'
<1> SUFFICES ASSUME TypeOK, StartInv, LoopInv, FlagsInv, [Next]_vars, phase' = "scan"
             PROVE  FlagsInv'
  BY DEF FlagsInv
<1>0. line.toks \in Seq(Tokens) /\ Len(line.toks) \in Nat  BY LineTokens DEF TypeOK
<1>1. CASE Begin
  <2>1. Seen' = 0 /\ flags' = <<>> /\ line' = line  BY <1>1, LoopEntered
  <2>2. First' = {}
    <3>1. First' = FirstOfName(line.toks, 0)  BY <2>1 DEF First
    <3>2. FirstOfName(line.toks, 0) \subseteq 1..0  BY <1>0, FirstFinite
    <3> QED  BY <3>1, <3>2
  <2>3. Cardinality({}) = 0  BY FS_EmptySet
  <2> QED  BY <2>1, <2>2, <2>3 DEF FlagsInv
<1>2. CASE ScanFlag /\ ~Reject
  <2> DEFINE s == line.toks
  <2> DEFINE n == Seen
  <2> DEFINE t == s[n + 1]
  <2>1. /\ phase = "scan" /\ rest # <<>> /\ target = <<>> /\ IsFlag(t) /\ t.slash = TRUE
        /\ Seen' = n + 1 /\ line' = line
        /\ \/ (\E i \in 1..Len(flags) : flags[i].name = t.name) /\ flags' = flags
           \/ (\A i \in 1..Len(flags) : flags[i].name # t.name) /\ flags' = Append(flags, t)
    BY <1>2, FlagTaken
  <2>2. n \in Nat  BY <2>1, LoopHead
  <2>3. \A j \in 1..n : IsFlag(s[j])  BY <2>1 DEF LoopInv
  <2>4. /\ Len(flags) = Cardinality(First)
        /\ \A k \in 1..Len(flags) : flags[k] = s[Nth(First, k)]
        /\ \A k \in 1..Len(flags) : \E j \in 1..n : flags[k] = s[j]
        /\ \A j \in 1..n : \E k \in 1..Len(flags) : flags[k].name = s[j].name
    BY <2>1, <2>3 DEF FlagsInv
  <2>5. First' = FirstOfName(s, n + 1)  BY <2>1 DEF First
  <2>6. First \in SUBSET (1..n)  BY <1>0, <2>2, FirstFinite DEF First
  <2>7. 1..(n + 1) = (1..n) \cup {n + 1}  BY <2>2
  <2>8. flags \in Seq(Flags) /\ t \in Flags /\ Len(flags) \in Nat
    BY <2>1 DEF TypeOK, IsFlag
  <2> HIDE DEF n, t, s
  <2>9. CASE \E i \in 1..Len(flags) : flags[i].name = t.name
    <3>1. flags' = flags  BY <2>1, <2>9
    <3>2. \E j \in 1..n : s[j].name = t.name
      <4>1. PICK i \in 1..Len(flags) : flags[i].name = t.name  BY <2>9
      <4>2. \E j \in 1..n : flags[i] = s[j]  BY <2>4
      <4> QED  BY <4>1, <4>2
    <3>3. First' = First
      BY <1>0, <2>2, <2>5, <3>2, FirstOfMore DEF First, n, s, t
    <3>4. \A k \in 1..Len(flags) : \E j \in 1..(n + 1) : flags[k] = s[j]
      BY <2>4, <2>7
    <3>5. \A j \in 1..(n + 1) : \E k \in 1..Len(flags) : flags[k].name = s[j].name
      BY <2>4, <2>7, <2>9 DEF t
    <3> QED  BY <2>1, <2>4, <3>1, <3>3, <3>4, <3>5 DEF FlagsInv, s
  <2>10. CASE \A i \in 1..Len(flags) : flags[i].name # t.name
    <3>1. /\ flags' = Append(flags, t) /\ Len(flags') = Len(flags) + 1
          /\ \A k \in 1..Len(flags) : flags'[k] = flags[k]
          /\ flags'[Len(flags) + 1] = t
      BY <2>1, <2>8, <2>10
    <3>2. \A j \in 1..n : s[j].name # t.name  BY <2>4, <2>10
    <3>3. First' = First \cup {n + 1}
      BY <1>0, <2>1, <2>2, <2>5, <3>2, FirstOfMore DEF First, n, s, t
    <3>4. /\ Cardinality(First') = Len(flags) + 1
          /\ WithRank(First', Len(flags) + 1) = {n + 1}
          /\ \A k \in 1..Len(flags) : WithRank(First', k) = WithRank(First, k)
      BY <2>2, <2>4, <2>6, <3>3, RankOfLast
    <3>5. 1..(Len(flags) + 1) = (1..Len(flags)) \cup {Len(flags) + 1}  BY <2>8
    <3>6. \A k \in 1..(Len(flags) + 1) :
            flags'[k] = s[Nth(First', k)]
      <4>1. \A k \in 1..Len(flags) : flags'[k] = s[Nth(First', k)]
        <5> TAKE k \in 1..Len(flags)
        <5>1. WithRank(First', k) = WithRank(First, k)  BY <3>4
        <5>2. flags'[k] = s[Nth(First, k)]  BY <2>4, <3>1
        <5> QED  BY <5>1, <5>2 DEF Nth
      <4>2. (CHOOSE i \in {n + 1} : TRUE) = n + 1  OBVIOUS
      <4>3. flags'[Len(flags) + 1] = s[Nth(First', Len(flags) + 1)]
        BY <3>1, <3>4, <4>2 DEF t, Nth
      <4> QED  BY <3>5, <4>1, <4>3
    <3>7. \A k \in 1..(Len(flags) + 1) : \E j \in 1..(n + 1) : flags'[k] = s[j]
      <4>1. \A k \in 1..Len(flags) : \E j \in 1..n : flags'[k] = s[j]  BY <2>4, <3>1
      <4>2. flags'[Len(flags) + 1] = s[n + 1]  BY <3>1 DEF t
      <4> QED  BY <2>7, <3>5, <4>1, <4>2
    <3>8. \A j \in 1..(n + 1) : \E k \in 1..(Len(flags) + 1) : flags'[k].name = s[j].name
      <4>1. \A j \in 1..n : \E k \in 1..Len(flags) : flags'[k].name = s[j].name
        BY <2>4, <3>1
      <4>2. flags'[Len(flags) + 1].name = s[n + 1].name  BY <3>1 DEF t
      <4> QED  BY <2>7, <3>5, <4>1, <4>2
    <3>9. /\ Len(flags') = Cardinality(First')
          /\ \A k \in 1..Len(flags') : flags'[k] = s[Nth(First', k)]
          /\ \A k \in 1..Len(flags') : \E j \in 1..(n + 1) : flags'[k] = s[j]
          /\ \A j \in 1..(n + 1) : \E k \in 1..Len(flags') : flags'[k].name = s[j].name
      BY <3>1, <3>4, <3>6, <3>7, <3>8
    <3> HIDE DEF First
    <3> QED  BY <2>1, <3>9 DEF FlagsInv, s
  <2> QED  BY <2>1, <2>9, <2>10
<1>3. CASE ScanTarget /\ ~Reject
  <2> DEFINE s == line.toks
  <2> DEFINE n == Seen
  <2>1. /\ phase = "scan" /\ rest # <<>> /\ target = <<>> /\ ~s[n + 1].slash
        /\ Seen' = n + 1 /\ UNCHANGED <<line, flags>>
    BY <1>3, TargetTaken
  <2>2. n \in Nat  BY <2>1, LoopHead
  <2>3. First' = First
    <3>1. First' = FirstOfName(s, n + 1)  BY <2>1 DEF First
    <3> QED  BY <1>0, <2>1, <2>2, <3>1, FirstOfMore DEF First
  <2>4. 1..(n + 1) = (1..n) \cup {n + 1}  BY <2>2
  <2>5. ~IsFlag(s[n + 1])  BY <2>1, TokenKinds DEF IsFlag
  <2> HIDE DEF n
  <2>6. /\ Len(flags) = Cardinality(First)
        /\ \A k \in 1..Len(flags) : flags[k] = s[Nth(First, k)]
        /\ \A k \in 1..Len(flags) : \E j \in 1..n : flags[k] = s[j]
        /\ \A j \in 1..n : IsFlag(s[j]) => \E k \in 1..Len(flags) : flags[k].name = s[j].name
    BY <2>1 DEF FlagsInv, n
  <2>7. \A k \in 1..Len(flags) : \E j \in 1..(n + 1) : flags[k] = s[j]
    BY <2>4, <2>6
  <2>8. \A j \in 1..(n + 1) : IsFlag(s[j]) => \E k \in 1..Len(flags) : flags[k].name = s[j].name
    BY <2>4, <2>5, <2>6
  <2> QED  BY <2>1, <2>3, <2>6, <2>7, <2>8 DEF FlagsInv
<1>4. CASE Reject \/ PlainFinger \/ Finish  BY <1>4, Leaves
<1>5. CASE UNCHANGED vars
  <2>1. Seen' = Seen /\ First' = First  BY <1>5 DEF vars, Seen, First
  <2> QED  BY <1>5, <2>1 DEF vars, FlagsInv
<1> QED  BY <1>1, <1>2, <1>3, <1>4, <1>5 DEF Next

\* StartInv is preserved by every step.
LEMMA StartStep == StartInv /\ [Next]_vars => StartInv'
  BY DEF StartInv, Next, PlainFinger, Begin, ScanFlag, ScanTarget, Finish, Accept, Reject, vars

\* DistinctInv is preserved by every step.
LEMMA DistinctStep == TypeOK /\ LoopInv /\ DistinctInv /\ [Next]_vars => DistinctInv'
<1> SUFFICES ASSUME TypeOK, LoopInv, DistinctInv, [Next]_vars PROVE DistinctInv'
  OBVIOUS
<1>1. CASE flags' = flags  BY <1>1 DEF DistinctInv
<1>2. CASE ScanFlag /\ ~Reject /\ flags' # flags
  <2> DEFINE t == line.toks[Seen + 1]
  <2>1. flags' = Append(flags, t) /\ \A i \in 1..Len(flags) : flags[i].name # t.name
    BY <1>2, FlagTaken
  <2>2. flags \in Seq(Flags) /\ t \in Flags
    BY <1>2, FlagTaken DEF TypeOK, IsFlag
  <2> HIDE DEF t
  <2>3. /\ Len(flags') = Len(flags) + 1 /\ Len(flags) \in Nat
        /\ \A k \in 1..Len(flags) : flags'[k] = flags[k]
        /\ flags'[Len(flags) + 1] = t
    BY <2>1, <2>2
  <2>4. 1..(Len(flags) + 1) = (1..Len(flags)) \cup {Len(flags) + 1}  BY <2>3
  <2>5. \A i, k \in 1..(Len(flags) + 1) : i # k => flags'[i].name # flags'[k].name
    BY <2>1, <2>3, <2>4 DEF DistinctInv
  <2> QED  BY <2>3, <2>5 DEF DistinctInv
<1> QED
  BY <1>1, <1>2 DEF Next, PlainFinger, Begin, ScanFlag, ScanTarget, Finish, Accept, Reject, vars

\* What plain finger accepts, or refuses, is what Meaning says.
LEMMA PlainResult ==
  ASSUME TypeOK, StartInv, PlainFinger
  PROVE  ParsesAsDefined'
<1> DEFINE toks == line.toks
<1> DEFINE tg == IF toks # <<>> /\ toks[1] = WFlag THEN Tail(toks) ELSE toks
<1> DEFINE plain == {<<WFlag>>} \cup {<<t>> : t \in Targets} \cup {<<WFlag, t>> : t \in Targets}
<1>0. toks \in Seq(Tokens)  BY LineTokens DEF TypeOK
<1>1. mode = "finger" /\ phase = "start" /\ flags = <<>> /\ target = <<>>
  BY DEF PlainFinger, StartInv
<1>2. toks \in plain <=> toks = <<WFlag>> \/ (Len(tg) = 1 /\ IsTarget(tg[1]))
  <2>1. toks \in plain <=> \/ toks = <<WFlag>>
                          \/ \E t \in Targets : toks = <<t>> \/ toks = <<WFlag, t>>
    OBVIOUS
  <2> HIDE DEF plain
  <2> QED  BY <1>0, <2>1, PlainLines
<1>3. Meaning(mode, line) =
        IF Empty(line) THEN {[flags |-> <<>>, target |-> <<>>, canonical |-> <<>>]}
        ELSE IF line.spacing = "single" /\ toks \in plain
             THEN {[flags |-> <<>>, target |-> TargetOf(toks), canonical |-> toks]}
             ELSE {}
  BY <1>1 DEF Meaning
<1>4. CASE Empty(line)
  <2>1. tg = <<>> /\ toks = <<>>  BY <1>4 DEF Empty
  <2>2. phase' = "accepted" /\ target' = <<>> /\ canonical' = <<>>
        /\ UNCHANGED <<mode, line, flags>>
    BY <1>4, <2>1 DEF PlainFinger, Accept
  <2> QED  BY <1>1, <1>3, <1>4, <2>2 DEF ParsesAsDefined, Parsed
<1>5. CASE ~Empty(line) /\ line.spacing = "single" /\ toks \in plain
  <2>1. phase' = "accepted" /\ target' = tg /\ canonical' = toks
        /\ UNCHANGED <<mode, line, flags>>
    BY <1>2, <1>5 DEF PlainFinger, Accept
  <2>2. TargetOf(toks) = tg
    <3>1. CASE toks = <<WFlag>>  BY <1>0, <3>1, PlainLines
    <3>2. CASE Len(tg) = 1 /\ IsTarget(tg[1])  BY <1>0, <3>2, PlainLines
    <3> QED  BY <1>2, <1>5, <3>1, <3>2
  <2> HIDE DEF tg, plain
  <2> QED  BY <1>1, <1>3, <1>5, <2>1, <2>2 DEF ParsesAsDefined, Parsed
<1>6. CASE ~Empty(line) /\ ~(line.spacing = "single" /\ toks \in plain)
  <2>1. phase' = "rejected" /\ UNCHANGED <<mode, line>>
    BY <1>2, <1>6 DEF PlainFinger, Reject
  <2> QED  BY <1>3, <1>6, <2>1 DEF ParsesAsDefined
<1> QED  BY <1>4, <1>5, <1>6

\* A line refused in the loop has no meaning.
LEMMA LoopRefuses ==
  ASSUME TypeOK, LoopInv, FlagsInv, phase = "scan", Reject, ScanFlag \/ ScanTarget
  PROVE  Meaning(mode, line) = {}
<1> DEFINE s == line.toks
<1> DEFINE n == Seen
<1> DEFINE t == s[n + 1]
<1>1. rest # <<>>  BY DEF ScanFlag, ScanTarget
<1>2. /\ s \in Seq(Tokens) /\ n \in Nat /\ n + 1 \in 1..Len(s) /\ Head(rest) = t
  BY <1>1, LoopHead
<1>3. mode # "finger" /\ ~Empty(line)  BY DEF LoopInv
<1>4. CASE target # <<>>
  <2>1. n > 0 /\ ~s[n].slash  BY <1>4 DEF LoopInv
  <2>2. ~IsFlag(s[n])  BY <2>1, TokenKinds DEF IsFlag
  <2>3. n \in 1..Len(s) /\ n < Len(s)  BY <1>2, <2>1
  <2> QED  BY <1>3, <2>2, <2>3, Spoiled
<1>5. CASE target = <<>> /\ ScanFlag
  <2>1. t.slash /\ (~IsFlag(t) \/ (/\ \A i \in 1..Len(flags) : flags[i].name # t.name
                                  /\ Len(flags) >= MaxFlags))
    <3>1. phase' # phase  BY DEF Reject
    <3> QED  BY <1>2, <1>5, <3>1 DEF ScanFlag, Reject
  <2>2. ~IsTarget(t)  BY <2>1, TokenKinds DEF IsTarget
  <2>3. CASE ~IsFlag(t)  BY <1>2, <1>3, <2>2, <2>3, Spoiled
  <2>4. CASE /\ \A i \in 1..Len(flags) : flags[i].name # t.name
             /\ Len(flags) >= MaxFlags
    <3>1. \A j \in 1..n : IsFlag(s[j])  BY <1>5 DEF LoopInv
    <3>2. \A j \in 1..n : \E k \in 1..Len(flags) : flags[k].name = s[j].name
      BY <3>1 DEF FlagsInv
    <3>3. \A j \in 1..n : s[j].name # t.name  BY <2>4, <3>2
    <3>4. FirstOfName(s, n + 1) = First \cup {n + 1}
      BY <1>2, <2>1, <3>3, FirstOfMore DEF First
    <3>5. First \in SUBSET (1..n)  BY <1>2, FirstFinite DEF First
    <3>6. Cardinality(First) = Len(flags)  BY DEF FlagsInv
    <3>7. Cardinality(FirstOfName(s, n + 1)) = Len(flags) + 1
      BY <1>2, <3>4, <3>5, <3>6, RankOfLast
    <3>8. Len(flags) \in Nat  BY DEF TypeOK
    <3>9. Len(flags) + 1 > MaxFlags  BY <2>4, <3>8, ParserAssumption
    <3>10. Cardinality(FirstOfName(s, n + 1)) > MaxFlags  BY <3>7, <3>9
    <3> QED  BY <1>2, <1>3, <3>10, Spoiled
  <2> QED  BY <2>1, <2>3, <2>4
<1>6. CASE target = <<>> /\ ScanTarget
  <2>1. phase' # phase  BY DEF Reject
  <2> QED  BY <1>6, <2>1 DEF ScanTarget, Reject
<1> QED  BY <1>4, <1>5, <1>6

\* What the loop ends with is what Meaning says.
LEMMA FinishResult ==
  ASSUME TypeOK, LoopInv, FlagsInv, Finish
  PROVE  ParsesAsDefined' /\ ShapeInv'
<1> DEFINE s == line.toks
<1>1. phase = "scan" /\ rest = <<>>  BY DEF Finish
<1>2. s \in Seq(Tokens) /\ Len(s) \in Nat /\ s # <<>> /\ Len(s) \in 1..Len(s)
  <2>1. s \in Seq(Tokens) /\ s # <<>>  BY <1>1, LineTokens DEF TypeOK, LoopInv
  <2> QED  BY <2>1, EmptySeq
<1>3. Seen = Len(s)  BY <1>1, <1>2 DEF Seen
<1>4. mode # "finger" /\ ~(mode = "fingers" /\ line.ending # "CRLF")
      /\ ~Empty(line) /\ CleanRunes(line)
  BY <1>1 DEF LoopInv
<1>5. CASE target # <<>> /\ ~IsTarget(target[1])
  <2>1. target = <<s[Len(s)]>> /\ ~s[Len(s)].slash
    BY <1>1, <1>3, <1>5 DEF LoopInv
  <2>2. ~IsFlag(s[Len(s)]) /\ ~IsTarget(s[Len(s)])
    BY <1>5, <2>1, TokenKinds DEF IsFlag
  <2>3. Meaning(mode, line) = {}  BY <1>2, <1>4, <2>2, Spoiled
  <2>4. phase' = "rejected" /\ UNCHANGED <<mode, line>>
    BY <1>5 DEF Finish, Reject
  <2> QED  BY <2>3, <2>4 DEF ParsesAsDefined, ShapeInv
<1>6. CASE target = <<>> \/ IsTarget(target[1])
  <2>1. phase' = "accepted" /\ target' = target /\ canonical' = flags \o target
        /\ UNCHANGED <<mode, line, flags>>
    BY <1>6 DEF Finish, Accept, BuildCanonical
  <2>2. /\ \A i \in 1..(Len(s) - 1) : IsFlag(s[i])
        /\ \/ target = <<>> /\ IsFlag(s[Len(s)])
           \/ target = <<s[Len(s)]>> /\ IsTarget(s[Len(s)])
    <3>1. \A i \in 1..(Len(s) - 1) : IsFlag(s[i])  BY <1>1, <1>3 DEF LoopInv
    <3>2. CASE target = <<>> /\ \A j \in 1..Len(s) : IsFlag(s[j])
      BY <1>2, <3>1, <3>2
    <3>3. CASE target = <<s[Len(s)]>>  BY <1>6, <3>1, <3>3
    <3> QED  BY <1>1, <1>3, <3>2, <3>3 DEF LoopInv
  <2>3. target = TargetOf(s)
    BY <1>2, <2>2, TokenKinds DEF TargetOf, IsFlag, IsTarget
  <2>4. Len(flags) = Cardinality(FirstOfName(s, Len(s))) /\ flags = Kept(s)
    <3>1. Len(flags) = Cardinality(FirstOfName(s, Len(s)))
      BY <1>1, <1>3 DEF FlagsInv, First
    <3>2. \A k \in 1..Len(flags) : flags[k] = s[Nth(FirstOfName(s, Len(s)), k)]
      BY <1>1, <1>3 DEF FlagsInv, First
    <3>3. flags = [k \in 1..Len(flags) |-> flags[k]]  BY DEF TypeOK
    <3>4. flags = [k \in 1..Len(flags) |-> s[Nth(FirstOfName(s, Len(s)), k)]]
      BY <3>2, <3>3
    <3> QED  BY <3>1, <3>4 DEF Kept
  <2>5. WellFormed(s)
    BY <1>2, <2>2, <2>4 DEF WellFormed, TypeOK
  <2>6. Meaning(mode, line) = {[flags |-> flags, target |-> target, canonical |-> flags \o target]}
    BY <1>4, <2>3, <2>4, <2>5 DEF Meaning
  <2>7. target = <<>> \/ \E t \in Targets : target = <<t>>
    BY <2>2 DEF IsTarget
  <2> QED  BY <2>1, <2>6, <2>7 DEF ParsesAsDefined, Parsed, ShapeInv
<1> QED  BY <1>5, <1>6

-----------------------------------------------------------------------------
(* The invariant and what follows from it.                                 *)

IInv == /\ TypeOK /\ StartInv /\ LoopInv /\ FlagsInv /\ DistinctInv
        /\ ShapeInv /\ ParsesAsDefined

\* The result of a step is what Meaning says.
LEMMA ResultStep == IInv /\ [Next]_vars => ParsesAsDefined' /\ ShapeInv'
<1> SUFFICES ASSUME TypeOK, StartInv, LoopInv, FlagsInv, ShapeInv, ParsesAsDefined, [Next]_vars
             PROVE  ParsesAsDefined' /\ ShapeInv'
  BY DEF IInv
<1>1. CASE PlainFinger
  <2>1. ParsesAsDefined'  BY <1>1, PlainResult
  <2>2. ShapeInv'
    <3> SUFFICES ASSUME phase' = "accepted"
                 PROVE  target' = <<>> \/ \E t \in Targets : target' = <<t>>
      BY <1>1 DEF ShapeInv, PlainFinger, Accept, Reject
    <3>1. line.toks \in Seq(Tokens)  BY LineTokens DEF TypeOK
    <3>2. LET toks == line.toks
              tg == IF toks # <<>> /\ toks[1] = WFlag THEN Tail(toks) ELSE toks
          IN  /\ target' = tg
              /\ toks = <<>> \/ toks = <<WFlag>> \/ (Len(tg) = 1 /\ IsTarget(tg[1]))
      BY <1>1 DEF PlainFinger, Accept, Reject, Empty
    <3> QED  BY <3>1, <3>2, PlainLines
  <2> QED  BY <2>1, <2>2
<1>2. CASE Begin
  <2>1. CASE phase' = "scan"  BY <2>1 DEF ParsesAsDefined, ShapeInv
  <2>2. CASE phase' # "scan"
    <3>1. mode # "finger" /\ flags = <<>> /\ UNCHANGED <<mode, line, flags>>
      BY <1>2, <2>2 DEF Begin, StartInv, Accept, Reject
    <3>2. \/ /\ phase' = "rejected"
             /\ \/ mode = "fingers" /\ line.ending # "CRLF"
                \/ ~Empty(line) /\ (~CleanRunes(line) \/ line.toks = <<>>)
          \/ /\ phase' = "accepted" /\ target' = <<>> /\ canonical' = <<>>
             /\ Empty(line) /\ ~(mode = "fingers" /\ line.ending # "CRLF")
      BY <1>2, <2>2 DEF Begin, Accept, Reject
    <3>3. phase' = "accepted" => canonical' = flags' \o target'
      BY <3>1, <3>2
    <3> QED  BY <3>1, <3>2, <3>3 DEF ParsesAsDefined, ShapeInv, Meaning, Parsed, WellFormed
  <2> QED  BY <2>1, <2>2
<1>3. CASE (ScanFlag \/ ScanTarget) /\ ~Reject
  <2>1. phase' = "scan"  BY <1>3 DEF ScanFlag, ScanTarget
  <2> QED  BY <2>1 DEF ParsesAsDefined, ShapeInv
<1>4. CASE (ScanFlag \/ ScanTarget) /\ Reject
  <2>1. phase = "scan"  BY <1>4 DEF ScanFlag, ScanTarget
  <2>2. phase' = "rejected" /\ UNCHANGED <<mode, line>>  BY <1>4 DEF Reject
  <2>3. Meaning(mode, line) = {}  BY <1>4, <2>1, LoopRefuses
  <2> QED  BY <2>2, <2>3 DEF ParsesAsDefined, ShapeInv
<1>5. CASE Finish  BY <1>5, FinishResult
<1>6. CASE UNCHANGED vars
  <2>1. Parsed' = Parsed  BY <1>6 DEF vars, Parsed
  <2> QED  BY <1>6, <2>1 DEF vars, ParsesAsDefined, ShapeInv
<1> QED  BY <1>1, <1>2, <1>3, <1>4, <1>5, <1>6 DEF Next

\* Every reachable state satisfies the invariant.
LEMMA ParserInductive == Spec => []IInv
<1>1. Init => IInv
  BY ParserAssumption
  DEF Init, IInv, TypeOK, StartInv, LoopInv, FlagsInv, DistinctInv, ShapeInv, ParsesAsDefined
<1>2. IInv /\ [Next]_vars => IInv'
  BY TypeStep, StartStep, LoopStep, FlagsStep, DistinctStep, ResultStep DEF IInv
<1> QED  BY <1>1, <1>2, PTL DEF Spec

(* The parser keeps at most MaxFlags flags and one target, and its canonical
   form is made of flags and a target: parseStructuredRequest.             *)
THEOREM ParserTypeCorrect == Spec => []TypeOK
<1>1. IInv => TypeOK  BY DEF IInv
<1> QED  BY <1>1, ParserInductive, PTL

(* For lines of any length, every set of names and every limit of flags, the
   loop accepts and builds exactly what the loop-free definition says:
   parseFingerRequest, parseFingersRequest and parseStructuredRequest.     *)
THEOREM LoopIsDefinition == Spec => []ParsesAsDefined
<1>1. IInv => ParsesAsDefined  BY DEF IInv
<1> QED  BY <1>1, ParserInductive, PTL

\* The result read from the line it came from.
LEMMA Accepted ==
  ASSUME IInv, phase = "accepted"
  PROVE  /\ mode \in Modes /\ line.toks \in Seq(Tokens)
         /\ flags \in Seq(Flags) /\ Len(flags) <= MaxFlags
         /\ Meaning(mode, line) = {Parsed}
         /\ \/ /\ Empty(line)
               /\ flags = <<>> /\ target = <<>> /\ canonical = <<>>
            \/ /\ mode = "finger" /\ ~Empty(line) /\ line.spacing = "single"
               /\ line.toks \in {<<WFlag>>} \cup {<<t>> : t \in Targets}
                                   \cup {<<WFlag, t>> : t \in Targets}
               /\ flags = <<>> /\ target = TargetOf(line.toks) /\ canonical = line.toks
            \/ mode # "finger" /\ ~Empty(line) /\ CleanRunes(line) /\ WellFormed(line.toks)
<1>1. Meaning(mode, line) = {Parsed}  BY DEF IInv, ParsesAsDefined
<1>2. Parsed \in Meaning(mode, line)  BY <1>1
<1>3. Parsed.flags = flags /\ Parsed.target = target /\ Parsed.canonical = canonical
  BY DEF Parsed
<1>4. mode \in Modes /\ line.toks \in Seq(Tokens) /\ flags \in Seq(Flags) /\ Len(flags) <= MaxFlags
  BY LineTokens DEF IInv, TypeOK
<1>5. CASE Empty(line)
  <2>1. Parsed = [flags |-> <<>>, target |-> <<>>, canonical |-> <<>>]
    BY <1>2, <1>5 DEF Meaning
  <2> QED  BY <1>1, <1>3, <1>4, <1>5, <2>1
<1>6. CASE ~Empty(line) /\ mode = "finger"
  <2>1. /\ line.spacing = "single"
        /\ line.toks \in {<<WFlag>>} \cup {<<t>> : t \in Targets}
                            \cup {<<WFlag, t>> : t \in Targets}
        /\ Parsed = [flags |-> <<>>, target |-> TargetOf(line.toks), canonical |-> line.toks]
    BY <1>2, <1>6 DEF Meaning
  <2> QED  BY <1>1, <1>3, <1>4, <1>6, <2>1
<1>7. CASE ~Empty(line) /\ mode # "finger"
  <2>1. CleanRunes(line) /\ WellFormed(line.toks)
    BY <1>2, <1>7 DEF Meaning
  <2> QED  BY <1>1, <1>4, <1>7, <2>1
<1> QED  BY <1>5, <1>6, <1>7

\* What a well-formed list of flags and a target means.
LEMMA CanonicalMeaning ==
  ASSUME NEW fs \in Seq(Flags), NEW tg, NEW m \in {"extended", "fingers"}, NEW l,
         \A i, j \in 1..Len(fs) : i # j => fs[i].name # fs[j].name,
         tg = <<>> \/ \E t \in Targets : tg = <<t>>,
         Len(fs) <= MaxFlags,
         l.toks = fs \o tg, l.spacing = "single", l.ending = "CRLF"
  PROVE  Meaning(m, l) = {[flags |-> fs, target |-> tg, canonical |-> fs \o tg]}
<1> DEFINE s == fs \o tg
<1>1. /\ s \in Seq(Tokens) /\ Kept(s) = fs /\ TargetOf(s) = tg
      /\ s # <<>> => WellFormed(s)
  BY CanonicalParts
<1>2. tg \in Seq(Tokens) /\ fs \in Seq(Tokens)
  <2>1. CASE tg = <<>>  BY <2>1, TokenKinds, SeqMonotonic
  <2>2. CASE \E t \in Targets : tg = <<t>>  BY <2>2, TokenKinds, SeqMonotonic
  <2> QED  BY <2>1, <2>2
<1>3. CASE s = <<>>
  <2>1. fs = <<>> /\ tg = <<>>  BY <1>2, <1>3, ConcatEqualIffEmpty
  <2> QED  BY <1>3, <2>1 DEF Meaning, Empty
<1>4. CASE s # <<>>
  <2> HIDE DEF s
  <2>1. Meaning(m, l) = {[flags |-> Kept(s), target |-> TargetOf(s),
                          canonical |-> Kept(s) \o TargetOf(s)]}
    BY <1>1, <1>4 DEF Meaning, Empty, CleanRunes, s
  <2> QED  BY <1>1, <2>1
<1> QED  BY <1>3, <1>4

(* The canonical form of an accepted request is itself a request of the same
   protocol and means the same: buildCanonicalRequest.                     *)
THEOREM CanonicalStable == Spec => []CanonicalIsStable
<1>1. IInv => CanonicalIsStable
  <2> SUFFICES ASSUME IInv, phase = "accepted"
               PROVE  Meaning(mode, [toks |-> canonical, spacing |-> "single",
                                     ending |-> "CRLF"]) = {Parsed}
    BY DEF CanonicalIsStable
  <2> DEFINE l == [toks |-> canonical, spacing |-> "single", ending |-> "CRLF"]
  <2>1. CASE Empty(line)
    <3>1. flags = <<>> /\ target = <<>> /\ canonical = <<>>
      BY <2>1, Accepted
    <3>2. Empty(l)  BY <3>1 DEF Empty
    <3> QED  BY <3>1, <3>2 DEF Meaning, Parsed
  <2>2. CASE mode = "finger" /\ ~Empty(line)
    <3>1. /\ line.toks \in {<<WFlag>>} \cup {<<t>> : t \in Targets}
                              \cup {<<WFlag, t>> : t \in Targets}
          /\ flags = <<>> /\ target = TargetOf(line.toks) /\ canonical = line.toks
      BY <2>2, Accepted
    <3>2. ~Empty(l)  BY <3>1 DEF Empty
    <3> QED  BY <2>2, <3>1, <3>2 DEF Meaning, Parsed
  <2>3. CASE mode # "finger"
    <3>1. mode \in {"extended", "fingers"}  BY <2>3, Accepted DEF Modes
    <3>2. flags \in Seq(Flags) /\ Len(flags) <= MaxFlags  BY Accepted
    <3>3. canonical = flags \o target /\ (target = <<>> \/ \E t \in Targets : target = <<t>>)
      BY <2>3 DEF IInv, ShapeInv
    <3>4. \A i, j \in 1..Len(flags) : i # j => flags[i].name # flags[j].name
      BY DEF IInv, DistinctInv
    <3>5. l.toks = flags \o target /\ l.spacing = "single" /\ l.ending = "CRLF"
      BY <3>3
    <3> HIDE DEF l
    <3>6. Meaning(mode, l) = {[flags |-> flags, target |-> target, canonical |-> flags \o target]}
      BY <3>1, <3>2, <3>3, <3>4, <3>5, CanonicalMeaning
    <3> QED  BY <3>3, <3>6 DEF Parsed, l
  <2> QED  BY <2>1, <2>2, <2>3
<1> QED  BY <1>1, ParserInductive, PTL

(* Extended finger and fingers keep target and canonical form of whatever
   plain finger, or one another, accepted: the three parsers of request.go. *)
THEOREM ParsersAgree == Spec => []ModesAgree
<1>1. IInv => ModesAgree
  <2> SUFFICES ASSUME IInv, phase = "accepted", NEW m \in {"extended", "fingers"}
               PROVE  LET there == Meaning(m, [line EXCEPT !.ending = "CRLF"])
                      IN  /\ there # {}
                          /\ \A r \in there : r.target = target /\ r.canonical = canonical
    BY DEF ModesAgree
  <2> DEFINE l == [line EXCEPT !.ending = "CRLF"]
  <2>0. l.toks = line.toks /\ l.spacing = line.spacing /\ l.ending = "CRLF"
    BY DEF IInv, TypeOK, Lines
  <2> SUFFICES /\ Meaning(m, l) # {}
               /\ \A r \in Meaning(m, l) : r.target = target /\ r.canonical = canonical
    OBVIOUS
  <2> HIDE DEF l
  <2>1. CASE Empty(line)
    <3>1. target = <<>> /\ canonical = <<>> /\ Empty(l)
      BY <2>0, <2>1, Accepted DEF Empty
    <3>2. Meaning(m, l) = {[flags |-> <<>>, target |-> <<>>, canonical |-> <<>>]}
      BY <2>0, <3>1 DEF Meaning
    <3> QED  BY <3>1, <3>2
  <2>2. CASE mode = "finger" /\ ~Empty(line)
    <3>1. /\ line.toks \in {<<WFlag>>} \cup {<<t>> : t \in Targets}
                              \cup {<<WFlag, t>> : t \in Targets}
          /\ line.toks \in Seq(Tokens) /\ line.spacing = "single"
          /\ target = TargetOf(line.toks) /\ canonical = line.toks
      BY <2>2, Accepted
    <3>2. PICK fs \in {<<>>, <<WFlag>>}, tg \in {<<>>} \cup {<<t>> : t \in Targets} :
            line.toks = fs \o tg
      <4>1. CASE line.toks = <<WFlag>>
        <5>1. <<WFlag>> = <<WFlag>> \o <<>>  OBVIOUS
        <5> QED  BY <4>1, <5>1
      <4>2. ASSUME NEW t \in Targets, line.toks = <<t>>
            PROVE  \E fs \in {<<>>, <<WFlag>>}, tg \in {<<>>} \cup {<<u>> : u \in Targets} :
                     line.toks = fs \o tg
        <5>1. <<t>> = <<>> \o <<t>>  OBVIOUS
        <5> QED  BY <4>2, <5>1
      <4>3. ASSUME NEW t \in Targets, line.toks = <<WFlag, t>>
            PROVE  \E fs \in {<<>>, <<WFlag>>}, tg \in {<<>>} \cup {<<u>> : u \in Targets} :
                     line.toks = fs \o tg
        <5>1. <<WFlag, t>> = <<WFlag>> \o <<t>>  OBVIOUS
        <5> QED  BY <4>3, <5>1
      <4> QED  BY <3>1, <4>1, <4>2, <4>3
    <3>3. /\ fs \in Seq(Flags) /\ Len(fs) <= MaxFlags
          /\ \A i, j \in 1..Len(fs) : i # j => fs[i].name # fs[j].name
      <4>1. CASE fs = <<>>  BY <4>1, ParserAssumption
      <4>2. CASE fs = <<WFlag>>  BY <4>2, TokenKinds, ParserAssumption
      <4> QED  BY <3>2, <4>1, <4>2
    <3>4. tg = <<>> \/ \E t \in Targets : tg = <<t>>  BY <3>2
    <3>5. TargetOf(fs \o tg) = tg  BY <3>3, <3>4, CanonicalParts
    <3>6. Meaning(m, l) = {[flags |-> fs, target |-> tg, canonical |-> fs \o tg]}
      BY <2>0, <3>1, <3>2, <3>3, <3>4, CanonicalMeaning
    <3> QED  BY <3>1, <3>2, <3>5, <3>6
  <2>3. CASE mode # "finger" /\ ~Empty(line)
    <3>1. /\ Meaning(mode, line) = {Parsed}
          /\ CleanRunes(line) /\ WellFormed(line.toks)
      BY <2>3, Accepted
    <3>2. /\ ~Empty(l) /\ CleanRunes(l) /\ WellFormed(l.toks)
      BY <2>0, <2>3, <3>1 DEF Empty, CleanRunes
    <3>3. Meaning(m, l) = {[flags |-> Kept(line.toks), target |-> TargetOf(line.toks),
                            canonical |-> Kept(line.toks) \o TargetOf(line.toks)]}
      BY <2>0, <3>2 DEF Meaning
    <3>4. Meaning(mode, line) \subseteq Meaning(m, l)
      BY <2>3, <3>3 DEF Meaning
    <3>5. Meaning(m, l) = {Parsed}  BY <3>1, <3>3, <3>4
    <3> QED  BY <3>5 DEF Parsed
  <2> QED  BY <2>1, <2>2, <2>3
<1> QED  BY <1>1, ParserInductive, PTL
-----------------------------------------------------------------------------
\* The tokens still to look at, and the steps before and after the loop.
Left == CASE phase = "start" -> Len(line.toks) + 2
          [] phase = "scan" -> Len(rest) + 1
          [] OTHER -> 0

(* The parsers end on every line, and look at no token twice: every step
   lowers what is left, which is at most two more than the tokens of the
   line (parseFingerRequest, parseStructuredRequest and its loop).         *)
THEOREM ParserEnds == Spec => [](Left \in 0..(MaxTokens + 2)) /\ [][Left' < Left]_vars
<1> DEFINE RestInv == Len(rest) <= MaxTokens
<1>1. TypeOK => /\ line.toks \in Seq(Tokens) /\ Len(line.toks) \in 0..MaxTokens
                /\ rest \in Seq(Tokens) /\ Len(rest) \in Nat
  <2> SUFFICES ASSUME TypeOK PROVE /\ line.toks \in Seq(Tokens)
                                   /\ Len(line.toks) \in 0..MaxTokens
                                   /\ rest \in Seq(Tokens) /\ Len(rest) \in Nat
    OBVIOUS
  <2>1. line.toks \in Seq(Tokens)  BY LineTokens DEF TypeOK
  <2>2. PICK n \in 0..MaxTokens : line.toks \in [1..n -> Tokens]
    BY DEF TypeOK, Lines
  <2>3. n \in Nat  BY <2>2, ParserAssumption
  <2>4. Len(line.toks) = n  BY <2>2, <2>3
  <2> QED  BY <2>1, <2>2, <2>4, LenProperties DEF TypeOK
<1>2. TypeOK /\ [Next]_vars => /\ line' = line
                               /\ \/ UNCHANGED vars
                                  \/ phase = "start" /\ phase' \in {"accepted", "rejected"}
                                  \/ phase = "start" /\ phase' = "scan" /\ rest' = line.toks
                                  \/ phase = "scan" /\ phase' \in {"accepted", "rejected"}
                                  \/ /\ phase = "scan" /\ phase' = "scan"
                                     /\ rest # <<>> /\ rest' = Tail(rest)
  <2> SUFFICES ASSUME TypeOK, Next
               PROVE  /\ line' = line
                      /\ \/ phase = "start" /\ phase' \in {"accepted", "rejected"}
                         \/ phase = "start" /\ phase' = "scan" /\ rest' = line.toks
                         \/ phase = "scan" /\ phase' \in {"accepted", "rejected"}
                         \/ /\ phase = "scan" /\ phase' = "scan"
                            /\ rest # <<>> /\ rest' = Tail(rest)
    BY DEF vars
  <2>1. /\ Reject => phase' = "rejected" /\ line' = line
        /\ \A t, c : Accept(t, c) => phase' = "accepted" /\ line' = line
    BY DEF Reject, Accept
  <2>2. CASE PlainFinger  BY <2>1, <2>2 DEF PlainFinger
  <2>3. CASE Begin        BY <2>1, <2>3 DEF Begin
  <2>4. CASE ScanFlag     BY <2>1, <2>4 DEF ScanFlag
  <2>5. CASE ScanTarget   BY <2>1, <2>5 DEF ScanTarget
  <2>6. CASE Finish       BY <2>1, <2>6 DEF Finish
  <2> QED  BY <2>2, <2>3, <2>4, <2>5, <2>6 DEF Next
<1>3. TypeOK /\ rest # <<>> => Len(Tail(rest)) = Len(rest) - 1
  BY HeadTailProperties DEF TypeOK
<1>4. MaxTokens \in Nat  BY ParserAssumption
<1>5. Init => RestInv  BY <1>4, EmptySeq DEF Init
<1>6. TypeOK /\ RestInv /\ [Next]_vars => RestInv'
  <2> SUFFICES ASSUME TypeOK, RestInv, [Next]_vars PROVE RestInv'
    OBVIOUS
  <2>1. CASE rest' = rest        BY <2>1
  <2>2. CASE rest' = line.toks   BY <2>2, <1>1
  <2>3. CASE rest # <<>> /\ rest' = Tail(rest)  BY <2>3, <1>1, <1>3, <1>4
  <2>4. rest' = rest \/ rest' = line.toks \/ (rest # <<>> /\ rest' = Tail(rest))
    BY DEF Next, PlainFinger, Begin, ScanFlag, ScanTarget, Finish, Reject, Accept, vars
  <2> QED  BY <2>1, <2>2, <2>3, <2>4
<1>7. TypeOK /\ RestInv => Left \in 0..(MaxTokens + 2)
  BY <1>1, <1>4 DEF Left
<1>8. TypeOK /\ RestInv /\ [Next]_vars => [Left' < Left]_vars
  BY <1>1, <1>2, <1>3, <1>4 DEF Left
<1> HIDE DEF RestInv
<1> QED  BY <1>5, <1>6, <1>7, <1>8, ParserTypeCorrect, PTL DEF Spec
=============================================================================
