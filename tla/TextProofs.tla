--------------------------- MODULE TextProofs -----------------------------
(***************************************************************************)
(* Induction over numbers and sequences, and what it says of FlattenSeq,   *)
(* with which the sanitisers of server.go and logger.go are modelled.      *)
(*                                                                         *)
(* Induction is stated for sets: a set of numbers that holds 0 and with    *)
(* each number the next one holds all of them.  It rests on the least      *)
(* element of every set of numbers, that is on the well-founded order.     *)
(***************************************************************************)
EXTENDS Integers, SequencesExt, SequenceTheorems, FiniteSetTheorems,
        WellFoundedInduction, TLAPS

\* There is no endless descent in the natural numbers.
LEMMA NatWellFounded == IsWellFoundedOn({p \in Nat \X Nat : p[1] < p[2]}, Nat)
  BY NatLessThanWellFounded, Zenon DEF OpToRel

\* A set of numbers that is not empty has a least element.
LEMMA LeastNumber ==
  ASSUME NEW T \in SUBSET Nat, T # {}
  PROVE  \E n \in T : \A m \in T : n <= m
<1>1. PICK n \in T : \A m \in T : ~(<<m, n>> \in {p \in Nat \X Nat : p[1] < p[2]})
  BY NatWellFounded, WFMin
<1>2. ASSUME NEW m \in T PROVE n <= m
  <2>1. n \in Nat /\ m \in Nat /\ <<m, n>> \in Nat \X Nat  OBVIOUS
  <2>2. <<m, n>>[1] = m /\ <<m, n>>[2] = n  OBVIOUS
  <2>3. ~(m < n)  BY <1>1, <2>1, <2>2, Zenon
  <2> QED  BY <2>1, <2>3
<1> QED  BY <1>2

\* Min is that element.
LEMMA MinOf ==
  ASSUME NEW T \in SUBSET Nat, T # {}
  PROVE  Min(T) \in T /\ \A m \in T : Min(T) <= m
<1>1. \E n \in T : \A m \in T : n <= m  BY LeastNumber
<1> QED  BY <1>1 DEF Min

\* A set of numbers up to n that is not empty has its greatest element in Max.
LEMMA MaxOf ==
  ASSUME NEW n \in Nat, NEW T \in SUBSET (0..n), T # {}
  PROVE  Max(T) \in T /\ \A m \in T : m <= Max(T)
<1> DEFINE U == {n - k : k \in T}
<1>1. U \in SUBSET Nat /\ U # {}
  <2>1. \A k \in T : n - k \in Nat  OBVIOUS
  <2> QED  BY <2>1
<1>2. PICK u \in U : \A v \in U : u <= v
  <2> HIDE DEF U
  <2> QED  BY <1>1, LeastNumber
<1>3. PICK k \in T : u = n - k  BY <1>2
<1>4. \A m \in T : k >= m
  <2>1. \A m \in T : n - m \in U /\ n - k <= n - m  BY <1>2, <1>3
  <2> QED  BY <2>1
<1>5. \E x \in T : \A y \in T : x >= y  BY <1>4
<1>6. Max(T) \in T /\ \A m \in T : Max(T) >= m  BY <1>5 DEF Max
<1> QED  BY <1>6

\* Induction over numbers, for sets.
LEMMA NumberInduction ==
  ASSUME NEW T, 0 \in T, \A n \in Nat : n \in T => n + 1 \in T
  PROVE  Nat \subseteq T
<1> SUFFICES ASSUME Nat \ T # {} PROVE FALSE
  OBVIOUS
<1>1. PICK n \in Nat \ T : \A m \in Nat \ T : n <= m
  BY LeastNumber
<1>2. n # 0 /\ n - 1 \in Nat /\ n - 1 \in T
  BY <1>1
<1> QED  BY <1>2

\* The first elements of a sequence that is not empty, and its last one.
LEMMA AllButLast ==
  ASSUME NEW S, NEW s \in Seq(S), s # <<>>
  PROVE  \E t \in Seq(S), e \in S : s = Append(t, e) /\ Len(s) = Len(t) + 1
<1>1. PICK t \in Seq(S), e \in S : s = Append(t, e)
  BY SequenceEmptyOrAppend
<1>2. Len(s) = Len(t) + 1
  BY <1>1, AppendProperties
<1> QED  BY <1>1, <1>2

\* Induction over sequences, for sets: from the empty one by one element at a time.
LEMMA SequenceInduction ==
  ASSUME NEW S, NEW T, <<>> \in T,
         \A s \in Seq(S), e \in S : s \in T => Append(s, e) \in T
  PROVE  Seq(S) \subseteq T
<1> DEFINE U == {n \in Nat : \A s \in Seq(S) : Len(s) = n => s \in T}
<1>1. 0 \in U
  <2>1. \A s \in Seq(S) : Len(s) = 0 => s = <<>>  BY EmptySeq
  <2> QED  BY <2>1
<1>2. ASSUME NEW n \in Nat, n \in U PROVE n + 1 \in U
  <2>1. ASSUME NEW s \in Seq(S), Len(s) = n + 1 PROVE s \in T
    <3>1. s # <<>>  BY <1>2, <2>1, EmptySeq
    <3>2. PICK t \in Seq(S), e \in S : s = Append(t, e) /\ Len(s) = Len(t) + 1
      BY <3>1, AllButLast
    <3>3. Len(t) \in Nat  BY LenProperties
    <3>4. Len(t) = n  BY <2>1, <3>2, <3>3
    <3>5. t \in T  BY <1>2, <3>4
    <3> QED  BY <3>2, <3>5
  <2> QED  BY <2>1
<1>3. Nat \subseteq U
  <2> HIDE DEF U
  <2> QED  BY <1>1, <1>2, NumberInduction
<1>4. ASSUME NEW s \in Seq(S) PROVE s \in T
  <2>1. Len(s) \in U  BY <1>3, LenProperties
  <2> QED  BY <2>1
<1> QED  BY <1>4

\* A pair is its two elements, however it is put together.
LEMMA PairParts ==
  \A x, y : Append(<<x>>, y) = <<x, y>> /\ <<x>> \o <<y>> = <<x, y>>
<1> TAKE x, y
<1> DEFINE S == {x, y}
           one == <<x>>
           two == <<x, y>>
           u == Append(one, y)
<1>1. x \in S /\ y \in S  OBVIOUS
<1> HIDE DEF S
<1>2. one \in Seq(S)  BY <1>1
<1>3. two \in Seq(S) /\ Len(two) = 2 /\ two[1] = x /\ two[2] = y  BY <1>1
<1>4. Len(one) = 1 /\ one[1] = x  OBVIOUS
<1> HIDE DEF one, two
<1>5. u \in Seq(S) /\ Len(u) = 2 /\ u[2] = y /\ u[1] = x
  <2>1. /\ u \in Seq(S) /\ Len(u) = Len(one) + 1 /\ u[Len(one) + 1] = y
        /\ \A i \in 1..Len(one) : u[i] = one[i]
    BY <1>1, <1>2, AppendProperties
  <2>2. 1 \in 1..Len(one) /\ Len(one) + 1 = 2  BY <1>4
  <2> HIDE DEF u
  <2> QED  BY <1>4, <2>1, <2>2
<1>6. u = one \o <<y>>  BY <1>1, <1>2, AppendIsConcat
<1> HIDE DEF u
<1>7. \A i \in 1..Len(u) : u[i] = two[i]  BY <1>3, <1>5
<1>8. u = two  BY <1>3, <1>5, <1>7, SeqEqual
<1> QED  BY <1>6, <1>8 DEF u, one, two

-----------------------------------------------------------------------------
(* FlattenSeq, which is defined by recursion.                              *)

\* f joins the first n parts of s, one after the other.
Joins(f, s, n) ==
  f = [i \in 1..n |-> IF i = 1 THEN s[i] ELSE f[i - 1] \o s[i]]

\* Any number of elements of a sequence of sequences can be joined.
LEMMA JoinsExists ==
  ASSUME NEW s, NEW n \in Nat
  PROVE  \E f : Joins(f, s, n)
<1> DEFINE T == {k \in Nat : \E f : Joins(f, s, k)}
<1>1. 0 \in T
  <2> DEFINE f == [i \in 1..0 |-> s]
  <2>1. Joins(f, s, 0)  BY DEF Joins
  <2> QED  BY <2>1
<1>2. ASSUME NEW k \in Nat, k \in T PROVE k + 1 \in T
  <2>1. PICK f : Joins(f, s, k)  BY <1>2
  <2> DEFINE e == IF k = 0 THEN s[1] ELSE f[k] \o s[k + 1]
             g == [i \in 1..(k + 1) |-> IF i = k + 1 THEN e ELSE f[i]]
  <2>2. \A i \in 1..k : f[i] = IF i = 1 THEN s[i] ELSE f[i - 1] \o s[i]
    BY <2>1 DEF Joins
  <2>3. ASSUME NEW i \in 1..(k + 1)
        PROVE  g[i] = IF i = 1 THEN s[i] ELSE g[i - 1] \o s[i]
    <3>1. CASE i # k + 1
      <4>1. i \in 1..k /\ g[i] = f[i] /\ (i # 1 => g[i - 1] = f[i - 1])  BY <3>1
      <4> QED  BY <2>2, <4>1
    <3>2. CASE i = k + 1
      <4>1. g[i] = e /\ (i # 1 => g[i - 1] = f[k])  BY <3>2
      <4>2. i = 1 <=> k = 0  BY <3>2
      <4> QED  BY <3>2, <4>1, <4>2
    <3> QED  BY <3>1, <3>2
  <2>4. g = [i \in 1..(k + 1) |-> g[i]]  OBVIOUS
  <2> HIDE DEF g
  <2>5. Joins(g, s, k + 1)  BY <2>3, <2>4 DEF Joins
  <2> QED  BY <2>5
<1>3. Nat \subseteq T
  <2> HIDE DEF T
  <2> QED  BY <1>1, <1>2, NumberInduction
<1> QED  BY <1>3

Agree(s, t, n) == \A i \in 1..n : s[i] = t[i]

\* Two that join parts which agree agree.
LEMMA JoinsUnique ==
  ASSUME NEW s, NEW t, NEW n \in Nat \ {0}, NEW f, NEW g,
         Agree(s, t, n), Joins(f, s, n), Joins(g, t, n + 1)
  PROVE  f[n] = g[n]
<1> DEFINE T == {k \in Nat : k + 1 \in 1..n => f[k + 1] = g[k + 1]}
<1>1. /\ \A i \in 1..n : f[i] = IF i = 1 THEN s[i] ELSE f[i - 1] \o s[i]
      /\ \A i \in 1..(n + 1) : g[i] = IF i = 1 THEN t[i] ELSE g[i - 1] \o t[i]
      /\ \A i \in 1..n : s[i] = t[i]
  BY DEF Joins, Agree
<1>2. 0 \in T
  <2>1. 1 \in 1..n => 1 \in 1..(n + 1)  OBVIOUS
  <2> QED  BY <1>1, <2>1
<1>3. ASSUME NEW k \in Nat, k \in T PROVE k + 1 \in T
  <2>1. SUFFICES ASSUME k + 2 \in 1..n PROVE f[k + 2] = g[k + 2]
    <3>1. (k + 1) + 1 = k + 2  OBVIOUS
    <3> QED  BY <2>1, <3>1
  <2>2. k + 1 \in 1..n /\ k + 2 \in 1..(n + 1) /\ k + 2 # 1 /\ (k + 2) - 1 = k + 1
    BY <2>1
  <2>3. f[k + 1] = g[k + 1]  BY <1>3, <2>2
  <2>4. f[k + 2] = f[k + 1] \o s[k + 2]  BY <1>1, <2>1, <2>2
  <2>5. g[k + 2] = g[k + 1] \o t[k + 2]  BY <1>1, <2>2
  <2> QED  BY <1>1, <2>1, <2>3, <2>4, <2>5
<1>4. Nat \subseteq T
  <2> HIDE DEF T
  <2> QED  BY <1>2, <1>3, NumberInduction
<1>5. n - 1 \in T /\ (n - 1) + 1 = n /\ n \in 1..n  BY <1>4
<1> QED  BY <1>5

\* FlattenSeq joins all elements of a sequence.
LEMMA FlattenJoins ==
  ASSUME NEW s, NEW n \in Nat \ {0}, Len(s) = n
  PROVE  \E f : Joins(f, s, n) /\ FlattenSeq(s) = f[n]
<1> DEFINE flatten == CHOOSE f : Joins(f, s, Len(s))
<1>1. \E f : Joins(f, s, Len(s))  BY JoinsExists
<1>2. Joins(flatten, s, Len(s))  BY <1>1
<1>3. FlattenSeq(s) = flatten[Len(s)]
  <2>1. Len(s) # 0  OBVIOUS
  <2> QED  BY <2>1, Zenon DEF FlattenSeq, Joins
<1> QED  BY <1>2, <1>3

\* Nothing flattens to nothing.
LEMMA FlattenEmpty == FlattenSeq(<<>>) = <<>>
  BY DEF FlattenSeq

\* One more part is joined to the end, and the whole is a sequence.
LEMMA FlattenAppend ==
  ASSUME NEW S, NEW s \in Seq(Seq(S)), NEW e \in Seq(S)
  PROVE  /\ FlattenSeq(s) \in Seq(S)
         /\ FlattenSeq(Append(s, e)) = FlattenSeq(s) \o e
<1> DEFINE Step(t, d) == FlattenSeq(Append(t, d)) = FlattenSeq(t) \o d
           T == {t \in Seq(Seq(S)) : FlattenSeq(t) \in Seq(S)
                                     /\ \A d \in Seq(S) : Step(t, d)}
<1>1. ASSUME NEW d \in Seq(S) PROVE FlattenSeq(Append(<<>>, d)) = d
  <2> DEFINE t == Append(<<>>, d)
  <2>1. Len(t) = 1 /\ t[1] = d  OBVIOUS
  <2> HIDE DEF t
  <2>2. PICK f : Joins(f, t, 1) /\ FlattenSeq(t) = f[1]
    BY <2>1, 1 \in Nat \ {0}, FlattenJoins, Zenon
  <2>3. f[1] = t[1]  BY <2>1, <2>2 DEF Joins
  <2> QED  BY <2>1, <2>2, <2>3 DEF t
<1>2. ASSUME NEW t \in Seq(Seq(S)), NEW d \in Seq(S), t # <<>>
      PROVE  FlattenSeq(Append(t, d)) = FlattenSeq(t) \o d
  <2> DEFINE u == Append(t, d)
             n == Len(t)
  <2>1. n \in Nat \ {0}  BY <1>2, EmptySeq
  <2>2. Len(u) = n + 1 /\ u[n + 1] = d /\ \A i \in 1..n : t[i] = u[i]
    BY AppendProperties
  <2> HIDE DEF u
  <2>3. PICK f : Joins(f, t, n) /\ FlattenSeq(t) = f[n]
    BY <2>1, FlattenJoins
  <2> HIDE DEF n
  <2>4. PICK g : Joins(g, u, n + 1) /\ FlattenSeq(u) = g[n + 1]
    <3>1. n + 1 \in Nat \ {0}  BY <2>1
    <3> QED  BY <2>2, <3>1, FlattenJoins
  <2>5. f[n] = g[n]
    <3>1. Agree(t, u, n)  BY <2>2 DEF Agree
    <3>2. Joins(f, t, n) /\ Joins(g, u, n + 1)  BY <2>3, <2>4
    <3> QED  BY <2>1, <3>1, <3>2, JoinsUnique
  <2>6. g[n + 1] = g[n] \o u[n + 1]
    <3>1. n + 1 \in 1..(n + 1) /\ n + 1 # 1 /\ (n + 1) - 1 = n  BY <2>1
    <3> QED  BY <2>4, <3>1 DEF Joins
  <2> QED  BY <2>2, <2>3, <2>4, <2>5, <2>6 DEF u
<1>3. <<>> \in Seq(Seq(S)) /\ <<>> \in Seq(S)  BY EmptySeq
<1>4. <<>> \in T
  <2>1. ASSUME NEW d \in Seq(S) PROVE Step(<<>>, d)
    <3>1. <<>> \o d = d  BY ConcatEmptySeq
    <3> QED  BY <1>1, <3>1, FlattenEmpty
  <2> QED  BY <1>3, <2>1, FlattenEmpty
<1>5. ASSUME NEW t \in Seq(Seq(S)), NEW d \in Seq(S), t \in T PROVE Append(t, d) \in T
  <2>1. Append(t, d) \in Seq(Seq(S)) /\ Append(t, d) # <<>>  BY AppendProperties
  <2>2. FlattenSeq(t) \in Seq(S) /\ FlattenSeq(Append(t, d)) = FlattenSeq(t) \o d
    BY <1>5
  <2>3. FlattenSeq(Append(t, d)) \in Seq(S)  BY <2>2, ConcatProperties
  <2>4. \A c \in Seq(S) : Step(Append(t, d), c)  BY <1>2, <2>1
  <2> QED  BY <2>1, <2>3, <2>4
<1>6. Seq(Seq(S)) \subseteq T
  <2> HIDE DEF T
  <2> QED  BY <1>4, <1>5, SequenceInduction
<1> QED  BY <1>6

\* A sequence of texts flattens to a text.
LEMMA FlattenText ==
  ASSUME NEW S, NEW s \in Seq(Seq(S))
  PROVE  FlattenSeq(s) \in Seq(S)
<1>1. <<>> \in Seq(S)  BY EmptySeq
<1> QED  BY <1>1, FlattenAppend
-----------------------------------------------------------------------------
(* A text in which every element is replaced by a text of its own.         *)

Spread(P, s) == FlattenSeq([i \in DOMAIN s |-> P[s[i]]])

\* P gives a text over S for every element of D.
Spelling(P, D, S) == P \in [D -> Seq(S)]

\* An empty text spreads to an empty one.
LEMMA SpreadEmpty == \A P : Spread(P, <<>>) = <<>>
<1>1. \A P : [i \in DOMAIN <<>> |-> P[<<>>[i]]] = <<>>  OBVIOUS
<1> QED  BY <1>1, FlattenEmpty DEF Spread

\* A text spreads letter by letter.
LEMMA SpreadAppend ==
  ASSUME NEW D, NEW S, NEW P, Spelling(P, D, S)
  PROVE  \A s \in Seq(D) :
            /\ Spread(P, s) \in Seq(S)
            /\ \A e \in D : Spread(P, Append(s, e)) = Spread(P, s) \o P[e]
<1>p. P \in [D -> Seq(S)]  BY DEF Spelling
<1> USE <1>p
<1> TAKE s \in Seq(D)
<1> DEFINE parts(t) == [i \in DOMAIN t |-> P[t[i]]]
<1>1. ASSUME NEW t \in Seq(D) PROVE parts(t) \in Seq(Seq(S))
  <2>1. Len(t) \in Nat /\ DOMAIN t = 1..Len(t) /\ \A i \in 1..Len(t) : t[i] \in D
    BY LenProperties, ElementOfSeq
  <2>2. parts(t) \in [1..Len(t) -> Seq(S)]  BY <2>1
  <2> QED  BY <2>1, <2>2, SeqDef
<1>2. ASSUME NEW e \in D PROVE parts(Append(s, e)) = Append(parts(s), P[e])
  <2> DEFINE n == Len(s)
             t == Append(s, e)
             u == Append(parts(s), P[e])
  <2>1. n \in Nat /\ DOMAIN s = 1..n  BY LenProperties
  <2>2. /\ t \in Seq(D) /\ Len(t) = n + 1 /\ DOMAIN t = 1..(n + 1)
        /\ t[n + 1] = e /\ \A i \in 1..n : t[i] = s[i]
    BY AppendProperties, LenProperties
  <2>3. parts(s) \in Seq(Seq(S)) /\ P[e] \in Seq(S) /\ Len(parts(s)) = n
        /\ \A i \in 1..n : parts(s)[i] = P[s[i]]
    BY <1>1, <2>1
  <2>4. /\ u \in Seq(Seq(S)) /\ Len(u) = n + 1 /\ u[n + 1] = P[e]
        /\ \A i \in 1..n : u[i] = parts(s)[i]
    <3> DEFINE q == parts(s)
               d == P[e]
    <3>1. q \in Seq(Seq(S)) /\ d \in Seq(S) /\ Len(q) = n  BY <2>3
    <3> HIDE DEF q, d, n
    <3>2. LET v == Append(q, d)
          IN  /\ v \in Seq(Seq(S)) /\ Len(v) = n + 1 /\ v[n + 1] = d
              /\ \A i \in 1..n : v[i] = q[i]
      BY <3>1, AppendProperties
    <3> QED  BY <3>2 DEF q, d
  <2>5. parts(t) \in Seq(Seq(S)) /\ Len(parts(t)) = n + 1
        /\ \A i \in 1..(n + 1) : parts(t)[i] = P[t[i]]
    BY <1>1, <2>1, <2>2
  <2> HIDE DEF u, t, parts, n
  <2>6. \A i \in 1..(n + 1) : parts(t)[i] = u[i]
    <3>1. ASSUME NEW i \in 1..n PROVE parts(t)[i] = u[i]
      <4>1. i \in 1..(n + 1)  BY <2>1
      <4>2. parts(t)[i] = P[t[i]] /\ u[i] = parts(s)[i]  BY <2>4, <2>5, <4>1
      <4> QED  BY <2>2, <2>3, <4>2
    <3>2. parts(t)[n + 1] = u[n + 1]  BY <2>1, <2>2, <2>4, <2>5
    <3> QED  BY <2>1, <3>1, <3>2
  <2>7. parts(t) = u  BY <2>4, <2>5, <2>6, SeqEqual
  <2> QED  BY <2>7 DEF t, u
<1>3. parts(s) \in Seq(Seq(S))  BY <1>1
<1>4. \A t : Spread(P, t) = FlattenSeq(parts(t))  BY DEF Spread
<1> HIDE DEF parts
<1>5. Spread(P, s) \in Seq(S)  BY <1>3, <1>4, FlattenText
<1>6. ASSUME NEW e \in D PROVE Spread(P, Append(s, e)) = Spread(P, s) \o P[e]
  <2>1. P[e] \in Seq(S)  OBVIOUS
  <2>2. FlattenSeq(Append(parts(s), P[e])) = FlattenSeq(parts(s)) \o P[e]
    BY <1>3, <2>1, FlattenAppend
  <2> QED  BY <1>2, <1>4, <2>2, Zenon
<1> QED  BY <1>5, <1>6

\* Spreading goes through concatenation.
LEMMA SpreadConcat ==
  ASSUME NEW D, NEW S, NEW P, Spelling(P, D, S)
  PROVE  \A s \in Seq(D) :
            /\ Spread(P, s) \in Seq(S)
            /\ \A t \in Seq(D) : Spread(P, s \o t) = Spread(P, s) \o Spread(P, t)
<1>p. P \in [D -> Seq(S)]  BY DEF Spelling
<1> USE <1>p
<1> TAKE s \in Seq(D)
<1> DEFINE T == {u \in Seq(D) : Spread(P, s \o u) = Spread(P, s) \o Spread(P, u)}
<1>0. \A v \in Seq(D) :
         /\ Spread(P, v) \in Seq(S)
         /\ \A e \in D : Spread(P, Append(v, e)) = Spread(P, v) \o P[e]
  BY SpreadAppend
<1>1. Spread(P, s) \in Seq(S)  BY <1>0
<1>2. <<>> \in T
  <2>1. <<>> \in Seq(D) /\ s \o <<>> = s  BY EmptySeq, ConcatEmptySeq
  <2>2. Spread(P, s) \o <<>> = Spread(P, s)  BY <1>1, ConcatEmptySeq
  <2> QED  BY <2>1, <2>2, SpreadEmpty
<1>3. ASSUME NEW u \in Seq(D), NEW e \in D, u \in T PROVE Append(u, e) \in T
  <2>1. Append(u, e) \in Seq(D)  BY AppendProperties
  <2>2. s \o Append(u, e) = Append(s \o u, e) /\ s \o u \in Seq(D)
    <3>1. <<e>> \in Seq(D)  OBVIOUS
    <3>2. (s \o u) \o <<e>> = s \o (u \o <<e>>)  BY <3>1, ConcatAssociative
    <3>3. s \o u \in Seq(D)  BY ConcatProperties
    <3> QED  BY <3>2, <3>3, AppendIsConcat
  <2>3. Spread(P, Append(s \o u, e)) = Spread(P, s \o u) \o P[e]
    BY <1>0, <2>2
  <2>4. Spread(P, Append(u, e)) = Spread(P, u) \o P[e] /\ Spread(P, u) \in Seq(S)
    BY <1>0
  <2>5. P[e] \in Seq(S)  OBVIOUS
  <2>6. (Spread(P, s) \o Spread(P, u)) \o P[e] = Spread(P, s) \o (Spread(P, u) \o P[e])
    BY <1>1, <2>4, <2>5, ConcatAssociative
  <2>7. Spread(P, s \o u) = Spread(P, s) \o Spread(P, u)  BY <1>3
  <2> QED  BY <2>1, <2>2, <2>3, <2>4, <2>6, <2>7
<1>4. Seq(D) \subseteq T
  <2> HIDE DEF T
  <2> QED  BY <1>2, <1>3, SequenceInduction
<1> QED  BY <1>1, <1>4

\* A single letter spreads to its own spelling.
LEMMA SpreadSingle ==
  ASSUME NEW D, NEW S, NEW P, Spelling(P, D, S)
  PROVE  \A e \in D : Spread(P, <<e>>) = P[e]
<1>p. P \in [D -> Seq(S)]  BY DEF Spelling
<1> USE <1>p
<1> TAKE e \in D
<1>1. /\ <<>> \in Seq(D)
      /\ Append(<<>>, e) = <<e>>
  OBVIOUS
<1>2. \A v \in Seq(D) :
         /\ Spread(P, v) \in Seq(S)
         /\ \A d \in D : Spread(P, Append(v, d)) = Spread(P, v) \o P[d]
  BY SpreadAppend
<1>3. Spread(P, <<e>>) = <<>> \o P[e]  BY <1>1, <1>2, SpreadEmpty
<1>4. P[e] \in Seq(S)  OBVIOUS
<1> QED  BY <1>3, <1>4, ConcatEmptySeq

\* What the replacements share, and concatenation keeps, the whole has.
LEMMA SpreadClosed ==
  ASSUME NEW D, NEW S, NEW P, NEW V, Spelling(P, D, S), V \in SUBSET Seq(S),
         <<>> \in V, \A u, v \in V : u \o v \in V, \A e \in D : P[e] \in V
  PROVE  \A s \in Seq(D) : Spread(P, s) \in V
<1> DEFINE T == {u \in Seq(D) : Spread(P, u) \in V}
<1>2. \A v \in Seq(D) :
         /\ Spread(P, v) \in Seq(S)
         /\ \A d \in D : Spread(P, Append(v, d)) = Spread(P, v) \o P[d]
  BY SpreadAppend
<1>3. <<>> \in T  BY EmptySeq, SpreadEmpty
<1>4. ASSUME NEW u \in Seq(D), NEW e \in D, u \in T PROVE Append(u, e) \in T
  <2>1. Append(u, e) \in Seq(D)  BY AppendProperties
  <2>2. Spread(P, u) \in V /\ P[e] \in V  BY <1>4
  <2>3. Spread(P, Append(u, e)) = Spread(P, u) \o P[e]  BY <1>2
  <2> QED  BY <2>1, <2>2, <2>3
<1>5. Seq(D) \subseteq T
  <2> HIDE DEF T
  <2> QED  BY <1>3, <1>4, SequenceInduction
<1> QED  BY <1>5

\* Two replacements in a row are one.
LEMMA SpreadSpread ==
  ASSUME NEW D, NEW E, NEW S, NEW P, NEW Q, NEW R,
         Spelling(P, D, E), Spelling(Q, E, S), Spelling(R, D, S)
  PROVE  (\A e \in D : Spread(Q, P[e]) = R[e])
            => \A s \in Seq(D) : Spread(Q, Spread(P, s)) = Spread(R, s)
<1> DEFINE T == {u \in Seq(D) : Spread(Q, Spread(P, u)) = Spread(R, u)}
<1>1. \A v \in Seq(D) :
         /\ Spread(P, v) \in Seq(E)
         /\ \A d \in D : Spread(P, Append(v, d)) = Spread(P, v) \o P[d]
  BY SpreadAppend
<1>2. \A v \in Seq(D) :
         /\ Spread(R, v) \in Seq(S)
         /\ \A d \in D : Spread(R, Append(v, d)) = Spread(R, v) \o R[d]
  BY SpreadAppend
<1>0. \A u \in Seq(E) :
         /\ Spread(Q, u) \in Seq(S)
         /\ \A v \in Seq(E) : Spread(Q, u \o v) = Spread(Q, u) \o Spread(Q, v)
  BY SpreadConcat
<1> HAVE \A e \in D : Spread(Q, P[e]) = R[e]
<1>3. <<>> \in T  BY EmptySeq, SpreadEmpty
<1>4. ASSUME NEW u \in Seq(D), NEW e \in D, u \in T PROVE Append(u, e) \in T
  <2>1. Append(u, e) \in Seq(D)  BY AppendProperties
  <2>2. Spread(P, u) \in Seq(E) /\ P[e] \in Seq(E)  BY <1>1 DEF Spelling
  <2>3. Spread(Q, Spread(P, u) \o P[e]) = Spread(Q, Spread(P, u)) \o Spread(Q, P[e])
    BY <1>0, <2>2
  <2>4. Spread(Q, Spread(P, u)) = Spread(R, u)  BY <1>4
  <2>5. Spread(Q, Spread(P, Append(u, e))) = Spread(R, Append(u, e))
    BY <1>1, <1>2, <2>3, <2>4
  <2> QED  BY <2>1, <2>5
<1>5. Seq(D) \subseteq T
  <2> HIDE DEF T
  <2> QED  BY <1>3, <1>4, SequenceInduction
<1> QED  BY <1>5
\* Replacing every element by one element is a map.
LEMMA SpreadLetters ==
  ASSUME NEW D, NEW S, NEW P, Spelling(P, D, S),
         \A e \in D : Len(P[e]) = 1
  PROVE  \A s \in Seq(D) : /\ Spread(P, s) \in Seq(S)
                           /\ Len(Spread(P, s)) = Len(s)
                           /\ \A i \in 1..Len(s) : Spread(P, s)[i] = P[s[i]][1]
<1>p. P \in [D -> Seq(S)]  BY DEF Spelling
<1> USE <1>p
<1> DEFINE T == {u \in Seq(D) : /\ Len(Spread(P, u)) = Len(u)
                                /\ \A i \in 1..Len(u) : Spread(P, u)[i] = P[u[i]][1]}
<1>1. \A v \in Seq(D) :
         /\ Spread(P, v) \in Seq(S)
         /\ \A d \in D : Spread(P, Append(v, d)) = Spread(P, v) \o P[d]
  BY SpreadAppend
<1>2. <<>> \in T  BY EmptySeq, SpreadEmpty
<1>3. ASSUME NEW u \in Seq(D), NEW e \in D, u \in T PROVE Append(u, e) \in T
  <2> DEFINE n == Len(u)
             t == Append(u, e)
             f == Spread(P, u)
             g == Spread(P, t)
  <2>1. t \in Seq(D) /\ Len(t) = n + 1 /\ t[n + 1] = e /\ \A i \in 1..n : t[i] = u[i]
    BY AppendProperties
  <2>2. f \in Seq(S) /\ Len(f) = n /\ \A i \in 1..n : f[i] = P[u[i]][1]
    BY <1>1, <1>3
  <2>3. g = Append(f, P[e][1])
    <3>1. P[e][1] \in S /\ P[e] = <<P[e][1]>>
      <4> DEFINE w == P[e]
      <4>1. w \in Seq(S) /\ Len(w) = 1  OBVIOUS
      <4> HIDE DEF w
      <4>2. w[1] \in S /\ w = <<w[1]>>
        <5>1. 1 \in 1..Len(w)  BY <4>1
        <5>2. w[1] \in S  BY <4>1, <5>1, ElementOfSeq
        <5> DEFINE v == <<w[1]>>
        <5>3. v \in Seq(S) /\ Len(v) = 1 /\ v[1] = w[1]  BY <5>2
        <5> HIDE DEF v
        <5>4. w = v  BY <4>1, <5>3, SeqEqual
        <5> QED  BY <5>2, <5>4 DEF v
      <4> QED  BY <4>2 DEF w
    <3>2. g = f \o <<P[e][1]>>  BY <1>1, <3>1
    <3> QED  BY <2>2, <3>1, <3>2, AppendIsConcat
  <2>4. Len(g) = n + 1 /\ g[n + 1] = P[e][1] /\ \A i \in 1..n : g[i] = f[i]
    BY <2>2, <2>3, AppendProperties
  <2>5. n \in Nat  BY LenProperties
  <2> HIDE DEF n, t, f, g
  <2>6. \A i \in 1..(n + 1) : g[i] = P[t[i]][1]
    <3>1. ASSUME NEW i \in 1..(n + 1), i # n + 1 PROVE g[i] = P[t[i]][1]
      <4>1. i \in 1..n  BY <2>5, <3>1
      <4> QED  BY <2>1, <2>2, <2>4, <4>1
    <3>2. g[n + 1] = P[t[n + 1]][1]  BY <2>1, <2>4
    <3> QED  BY <3>1, <3>2
  <2> QED  BY <2>1, <2>4, <2>6 DEF t, g
<1>4. Seq(D) \subseteq T
  <2> HIDE DEF T
  <2> QED  BY <1>2, <1>3, SequenceInduction
<1> QED  BY <1>1, <1>4
-----------------------------------------------------------------------------
(* How many elements of a text are in a set.                               *)

NumberOf(s, C) == Cardinality({i \in DOMAIN s : s[i] \in C})

\* An empty text holds no letter.
LEMMA NumberEmpty == \A C : NumberOf(<<>>, C) = 0
<1>1. \A C : {i \in DOMAIN <<>> : <<>>[i] \in C} = {}  OBVIOUS
<1> QED  BY <1>1, FS_EmptySet DEF NumberOf

\* One more letter counts as one, or not at all.
LEMMA NumberAppend ==
  ASSUME NEW S, NEW C
  PROVE  \A s \in Seq(S) :
            /\ NumberOf(s, C) \in Nat
            /\ \A e \in S : NumberOf(Append(s, e), C)
                              = NumberOf(s, C) + (IF e \in C THEN 1 ELSE 0)
<1> TAKE s \in Seq(S)
<1> DEFINE n == Len(s)
           places(t) == {i \in DOMAIN t : t[i] \in C}
<1>1. n \in Nat /\ DOMAIN s = 1..n  BY LenProperties
<1>2. IsFiniteSet(places(s)) /\ Cardinality(places(s)) \in Nat
  <2>1. IsFiniteSet(1..n)  BY <1>1, FS_Interval
  <2>2. places(s) \in SUBSET (1..n)  BY <1>1
  <2> HIDE DEF places, n
  <2>3. IsFiniteSet(places(s))  BY <2>1, <2>2, FS_Subset
  <2> QED  BY <2>3, FS_CardinalityType
<1>3. ASSUME NEW e \in S
      PROVE  NumberOf(Append(s, e), C) = NumberOf(s, C) + (IF e \in C THEN 1 ELSE 0)
  <2> DEFINE t == Append(s, e)
  <2>1. /\ DOMAIN t = 1..(n + 1) /\ t[n + 1] = e /\ \A i \in 1..n : t[i] = s[i]
    BY <1>1, AppendProperties, LenProperties
  <2>2. n + 1 \notin places(s)  BY <1>1
  <2>3. CASE e \in C
    <3>1. places(t) = places(s) \cup {n + 1}
      <4> HIDE DEF t
      <4> QED  BY <1>1, <2>1, <2>3
    <3> HIDE DEF places, t, n
    <3>2. Cardinality(places(t)) = Cardinality(places(s)) + 1
      BY <1>2, <2>2, <3>1, FS_AddElement
    <3> QED  BY <2>3, <3>2 DEF places, t, NumberOf
  <2>4. CASE e \notin C
    <3>1. places(t) = places(s)
      <4> HIDE DEF t
      <4> QED  BY <1>1, <2>1, <2>4
    <3>2. NumberOf(t, C) = NumberOf(s, C)  BY <3>1, Zenon DEF NumberOf
    <3>3. NumberOf(s, C) \in Nat  BY <1>2 DEF NumberOf
    <3> QED  BY <2>4, <3>2, <3>3
  <2> QED  BY <2>3, <2>4
<1>4. NumberOf(s, C) \in Nat  BY <1>2 DEF NumberOf
<1> QED  BY <1>3, <1>4

\* Counting in texts of one and of two letters.
LEMMA NumberSmall ==
  \A C, x, y : /\ x \in C => NumberOf(<<x>>, C) = 1
               /\ x \notin C => NumberOf(<<x>>, C) = 0
               /\ x \in C /\ y \notin C => NumberOf(<<x, y>>, C) = 1
               /\ x \notin C /\ y \notin C => NumberOf(<<x, y>>, C) = 0
<1> TAKE C, x, y
<1> DEFINE S == {x, y}
           one == <<x>>
           two == <<x, y>>
<1>0. x \in S /\ y \in S  OBVIOUS
<1> HIDE DEF S
<1>1. /\ <<>> \in Seq(S) /\ one \in Seq(S)
      /\ Append(<<>>, x) = one /\ Append(one, y) = two
  <2>1. <<>> \in Seq(S)  BY EmptySeq
  <2>2. one \in Seq(S)  BY <1>0
  <2>3. Append(<<>>, x) = one  OBVIOUS
  <2>4. Append(one, y) = two  BY PairParts
  <2> QED  BY <2>1, <2>2, <2>3, <2>4
<1> HIDE DEF one, two
<1>2. \A v \in Seq(S) :
         /\ NumberOf(v, C) \in Nat
         /\ \A e \in S : NumberOf(Append(v, e), C)
                           = NumberOf(v, C) + (IF e \in C THEN 1 ELSE 0)
  BY NumberAppend
<1>3. NumberOf(one, C) = 0 + (IF x \in C THEN 1 ELSE 0)
  BY <1>0, <1>1, <1>2, NumberEmpty
<1>4. NumberOf(two, C) = NumberOf(one, C) + (IF y \in C THEN 1 ELSE 0)
  BY <1>0, <1>1, <1>2
<1> QED  BY <1>3, <1>4 DEF one, two

\* Counts add up under concatenation.
LEMMA NumberConcat ==
  ASSUME NEW S, NEW s \in Seq(S), NEW t \in Seq(S), NEW C
  PROVE  NumberOf(s \o t, C) = NumberOf(s, C) + NumberOf(t, C)
<1>0. \A v \in Seq(S) :
         /\ NumberOf(v, C) \in Nat
         /\ \A e \in S : NumberOf(Append(v, e), C)
                           = NumberOf(v, C) + (IF e \in C THEN 1 ELSE 0)
  BY NumberAppend
<1> DEFINE T == {u \in Seq(S) : NumberOf(s \o u, C) = NumberOf(s, C) + NumberOf(u, C)}
<1>1. <<>> \in T
  <2>1. <<>> \in Seq(S) /\ s \o <<>> = s  BY EmptySeq, ConcatEmptySeq
  <2>2. NumberOf(s, C) \in Nat  BY NumberAppend
  <2> QED  BY <2>1, <2>2, NumberEmpty
<1>2. ASSUME NEW u \in Seq(S), NEW e \in S, u \in T PROVE Append(u, e) \in T
  <2>1. Append(u, e) \in Seq(S)  BY AppendProperties
  <2>2. s \o Append(u, e) = Append(s \o u, e) /\ s \o u \in Seq(S)
    <3>1. <<e>> \in Seq(S)  OBVIOUS
    <3>2. (s \o u) \o <<e>> = s \o (u \o <<e>>)  BY <3>1, ConcatAssociative
    <3>3. s \o u \in Seq(S)  BY ConcatProperties
    <3> QED  BY <3>2, <3>3, AppendIsConcat
  <2> DEFINE d == IF e \in C THEN 1 ELSE 0
  <2>3. NumberOf(Append(s \o u, e), C) = NumberOf(s \o u, C) + d
    BY <1>0, <2>2
  <2>4. NumberOf(Append(u, e), C) = NumberOf(u, C) + d  BY NumberAppend
  <2>5. NumberOf(s, C) \in Nat /\ NumberOf(u, C) \in Nat /\ d \in Nat  BY NumberAppend
  <2>6. NumberOf(s \o u, C) = NumberOf(s, C) + NumberOf(u, C)  BY <1>2
  <2> HIDE DEF d
  <2>7. NumberOf(s \o Append(u, e), C) = NumberOf(s, C) + NumberOf(Append(u, e), C)
    BY <2>2, <2>3, <2>4, <2>5, <2>6
  <2> QED  BY <2>1, <2>7
<1>3. Seq(S) \subseteq T
  <2> HIDE DEF T
  <2> QED  BY <1>1, <1>2, SequenceInduction
<1> QED  BY <1>3

\* When every element makes one, or none, of a kind, so does the text.
LEMMA NumberSpread ==
  ASSUME NEW D, NEW S, NEW P, NEW C, NEW B, Spelling(P, D, S),
         \A e \in D : /\ e \in C => NumberOf(P[e], B) = 1
                      /\ e \notin C => NumberOf(P[e], B) = 0
  PROVE  \A s \in Seq(D) : NumberOf(Spread(P, s), B) = NumberOf(s, C)
<1>p. P \in [D -> Seq(S)]  BY DEF Spelling
<1> USE <1>p
<1>0. \A v \in Seq(D) :
         /\ Spread(P, v) \in Seq(S)
         /\ \A e \in D : Spread(P, Append(v, e)) = Spread(P, v) \o P[e]
  BY SpreadAppend
<1> DEFINE T == {u \in Seq(D) : NumberOf(Spread(P, u), B) = NumberOf(u, C)}
<1>1. <<>> \in T
  BY EmptySeq, SpreadEmpty, NumberEmpty
<1>2. ASSUME NEW u \in Seq(D), NEW e \in D, u \in T PROVE Append(u, e) \in T
  <2>1. Append(u, e) \in Seq(D)  BY AppendProperties
  <2>2. Spread(P, Append(u, e)) = Spread(P, u) \o P[e] /\ Spread(P, u) \in Seq(S)
    BY <1>0
  <2>3. P[e] \in Seq(S)  OBVIOUS
  <2>4. NumberOf(Spread(P, u) \o P[e], B) = NumberOf(Spread(P, u), B) + NumberOf(P[e], B)
    BY <2>2, <2>3, NumberConcat
  <2>5. NumberOf(Append(u, e), C) = NumberOf(u, C) + (IF e \in C THEN 1 ELSE 0)
    BY NumberAppend
  <2>6. NumberOf(Spread(P, Append(u, e)), B) = NumberOf(Append(u, e), C)
    BY <1>2, <2>2, <2>4, <2>5
  <2> QED  BY <2>1, <2>6
<1>3. Seq(D) \subseteq T
  <2> HIDE DEF T
  <2> QED  BY <1>1, <1>2, SequenceInduction
<1> QED  BY <1>3
=============================================================================
