--------------------------- MODULE SequenceFacts ----------------------------
(***************************************************************************)
(* What the proofs about several modules need to know of sequences, and    *)
(* of FlattenSeq.                                                          *)
(***************************************************************************)
EXTENDS Integers, Sequences, SequencesExt, SequenceTheorems, WellFoundedInduction, TLAPS

\* Induction over the natural numbers, about a set.
LEMMA AllNaturals ==
    ASSUME NEW T, T \subseteq Nat, 0 \in T, \A n \in T : n + 1 \in T
    PROVE  T = Nat
<1> DEFINE B == Nat \ T
           R == {ss \in Nat \X Nat : ss[1] < ss[2]}
<1>1. IsWellFoundedOn(R, Nat)
  BY NatLessThanWellFounded DEF OpToRel
<1>2. ASSUME B # {} PROVE FALSE
  <2>1. PICK x \in B : \A y \in B : ~ (<<y, x>> \in R)
    <3> HIDE DEF R
    <3>1. B \subseteq Nat
      OBVIOUS
    <3> HIDE DEF B
    <3> QED BY <1>1, <1>2, <3>1, WFMin
  <2>2. x \in Nat /\ x # 0 /\ x - 1 \in Nat
    OBVIOUS
  <2>3. <<x - 1, x>> \in R
    BY <2>2
  <2>4. x - 1 \in T
    BY <2>1, <2>2, <2>3
  <2>5. (x - 1) + 1 = x
    BY <2>2
  <2> QED BY <2>4, <2>5
<1> QED BY <1>2

\* FlattenSeq is defined by a recursive function; this is the function.
LEMMA FlattenTable ==
    ASSUME NEW S, NEW ss \in Seq(Seq(S))
    PROVE  \E g \in [1 .. Len(ss) -> Seq(S)] :
              /\ Len(ss) # 0 => FlattenSeq(ss) = g[Len(ss)]
              /\ \A i \in 1 .. Len(ss) : g[i] = IF i = 1 THEN ss[i] ELSE g[i - 1] \o ss[i]
<1> DEFINE n == Len(ss)
           Flat(g, k) == [i \in 1 .. k |-> IF i = 1 THEN ss[i] ELSE g[i - 1] \o ss[i]]
           flatten == CHOOSE g : g = Flat(g, n)
<1>1. FlattenSeq(ss) = IF n = 0 THEN ss ELSE flatten[n]
  BY DEF FlattenSeq
<1>2. n \in Nat /\ \A i \in 1 .. n : ss[i] \in Seq(S)
  BY ElementOfSeq, LenProperties
<1> HIDE DEF n
<1>3. \E g : g = Flat(g, n)
  <2> DEFINE T == {k \in Nat : k <= n => \E g \in [1 .. k -> Seq(S)] : g = Flat(g, k)}
  <2>1. 0 \in T
    <3>1. [i \in {} |-> i] \in [1 .. 0 -> Seq(S)]
      OBVIOUS
    <3>2. [i \in {} |-> i] = Flat([i \in {} |-> i], 0)
      OBVIOUS
    <3> QED BY <3>1, <3>2
  <2>2. ASSUME NEW k \in T PROVE k + 1 \in T
    <3>0. k \in Nat /\ k + 1 \in Nat
      OBVIOUS
    <3>1. CASE ~ (k + 1 <= n)
      BY <3>0, <3>1
    <3>2. CASE k + 1 <= n
      <4>0. k <= n
        BY <1>2, <3>0, <3>2
      <4>1. PICK g \in [1 .. k -> Seq(S)] : g = Flat(g, k)
        BY <4>0
      <4> DEFINE last == IF k = 0 THEN ss[1] ELSE g[k] \o ss[k + 1]
                 h == [i \in 1 .. k + 1 |-> IF i = k + 1 THEN last ELSE g[i]]
      <4>2. last \in Seq(S)
        <5>1. CASE k = 0
          BY <1>2, <3>0, <3>2, <5>1
        <5>2. CASE k # 0
          <6>1. g[k] \in Seq(S) /\ ss[k + 1] \in Seq(S)
            BY <1>2, <3>0, <3>2, <5>2
          <6> QED BY <5>2, <6>1, ConcatProperties
        <5> QED BY <5>1, <5>2
      <4>3. h \in [1 .. k + 1 -> Seq(S)]
        BY <4>2
      <4>4. \A i \in 1 .. k : g[i] = IF i = 1 THEN ss[i] ELSE g[i - 1] \o ss[i]
        BY <4>1
      <4>5. ASSUME NEW i \in 1 .. k + 1
            PROVE  h[i] = IF i = 1 THEN ss[i] ELSE h[i - 1] \o ss[i]
        <5>1. CASE i = k + 1
          <6>1. CASE k = 0
            BY <5>1, <6>1
          <6>2. CASE k # 0
            <7>1. i # 1 /\ i - 1 = k /\ k \in 1 .. k + 1
              BY <3>0, <5>1, <6>2
            <7>2. h[k] = g[k] /\ h[i] = g[k] \o ss[i]
              BY <3>0, <5>1, <6>2, <7>1
            <7> QED BY <7>1, <7>2
          <6> QED BY <6>1, <6>2
        <5>2. CASE i \in 1 .. k
          <6>0. i # k + 1 /\ i \in 1 .. k + 1
            BY <3>0, <5>2
          <6>1. h[i] = g[i]
            BY <6>0
          <6>2. i # 1 => i - 1 \in 1 .. k /\ h[i - 1] = g[i - 1]
            BY <3>0, <5>2
          <6> QED BY <4>4, <5>2, <6>1, <6>2
        <5> QED BY <5>1, <5>2
      <4>6. h = Flat(h, k + 1)
        <5> HIDE DEF h
        <5> QED BY <4>3, <4>5
      <4> HIDE DEF h, Flat
      <4> QED BY <3>2, <4>3, <4>6
    <3> QED BY <3>1, <3>2
  <2>3. T = Nat
    <3> HIDE DEF Flat
    <3>1. T \subseteq Nat
      OBVIOUS
    <3> HIDE DEF T
    <3> QED BY <2>1, <2>2, <3>1, AllNaturals
  <2>4. n \in T
    <3> HIDE DEF T
    <3> QED BY <1>2, <2>3
  <2>5. n <= n
    BY <1>2
  <2> HIDE DEF Flat
  <2> QED BY <2>4, <2>5
<1>4. flatten = Flat(flatten, n)
  <2> HIDE DEF Flat
  <2> QED BY <1>3
<1> HIDE DEF flatten
<1>5. ASSUME NEW i \in 1 .. n
      PROVE  flatten[i] = IF i = 1 THEN ss[i] ELSE flatten[i - 1] \o ss[i]
  BY <1>4
<1>6. \A i \in 1 .. n : flatten[i] \in Seq(S)
  <2> DEFINE T == {i \in Nat : i \in 1 .. n => flatten[i] \in Seq(S)}
  <2>1. 0 \in T
    OBVIOUS
  <2>2. ASSUME NEW i \in T PROVE i + 1 \in T
    <3>1. CASE i + 1 \notin 1 .. n
      BY <3>1
    <3>2. CASE i = 0 /\ 1 \in 1 .. n
      BY <1>2, <1>5, <3>2
    <3>3. CASE i # 0 /\ i + 1 \in 1 .. n
      <4>1. i \in 1 .. n /\ i + 1 # 1 /\ (i + 1) - 1 = i
        BY <1>2, <3>3
      <4>2. flatten[i] \in Seq(S) /\ ss[i + 1] \in Seq(S)
        BY <1>2, <3>3, <4>1
      <4>3. flatten[i + 1] = flatten[i] \o ss[i + 1]
        BY <1>5, <3>3, <4>1
      <4>4. flatten[i + 1] \in Seq(S)
        BY <4>2, <4>3, ConcatProperties
      <4> QED BY <4>4
    <3> QED BY <3>1, <3>2, <3>3
  <2>3. T = Nat
    <3>1. T \subseteq Nat
      OBVIOUS
    <3> HIDE DEF T
    <3> QED BY <2>1, <2>2, <3>1, AllNaturals
  <2> QED BY <1>2, <2>3
<1>7. flatten \in [1 .. n -> Seq(S)]
  BY <1>4, <1>6
<1> QED BY <1>1, <1>5, <1>7 DEF n

\* It returns a sequence.
LEMMA Flattened ==
    ASSUME NEW S, NEW ss \in Seq(Seq(S))
    PROVE  FlattenSeq(ss) \in Seq(S)
<1>1. Len(ss) \in Nat /\ (ss # <<>> => Len(ss) # 0)
  BY EmptySeq
<1>2. CASE ss = <<>>
  <2>1. Len(ss) = 0
    BY <1>2, EmptySeq
  <2>2. FlattenSeq(ss) = ss
    BY <2>1 DEF FlattenSeq
  <2> QED BY <1>2, <2>2, EmptySeq
<1>3. CASE ss # <<>>
  <2>1. Len(ss) \in 1 .. Len(ss)
    BY <1>1, <1>3
  <2> QED BY <1>1, <1>3, <2>1, FlattenTable
<1> QED BY <1>2, <1>3

\* The elements of a sequence are those at its indices.
LEMMA Elements ==
    ASSUME NEW S, NEW s \in Seq(S)
    PROVE  /\ Len(s) \in Nat /\ Range(s) \subseteq S
           /\ \A k \in 1 .. Len(s) : s[k] \in Range(s) /\ s[k] \in S
           /\ \A x \in Range(s) : \E k \in 1 .. Len(s) : x = s[k]
           /\ s # <<>> => /\ Len(s) \in Nat \ {0} /\ Last(s) = s[Len(s)]
                          /\ Last(s) \in Range(s) /\ Last(s) \in S
<1>1. Len(s) \in Nat /\ Range(s) = {s[k] : k \in 1 .. Len(s)}
  BY LenProperties, RangeEquality
<1>2. \A k \in 1 .. Len(s) : s[k] \in S
  BY ElementOfSeq
<1>3. s # <<>> => Len(s) \in Nat \ {0}
  BY EmptySeq
<1> QED BY <1>1, <1>2, <1>3 DEF Last

\* A part of a sequence has no other elements, in whatever order.
LEMMA PartOf ==
    ASSUME NEW S, NEW s \in Seq(S), NEW m \in Nat \ {0}, NEW n \in Int, n <= Len(s)
    PROVE  /\ SubSeq(s, m, n) \in Seq(S)
           /\ Range(SubSeq(s, m, n)) \subseteq Range(s)
           /\ Len(SubSeq(s, m, n)) = IF m <= n THEN n - m + 1 ELSE 0
<1> DEFINE t == SubSeq(s, m, n)
<1>1. Len(s) \in Nat /\ \A i \in m .. n : s[i] \in S /\ s[i] \in Range(s)
  BY Elements
<1>2. t \in Seq(Range(s)) /\ t \in Seq(S) /\ Len(t) = IF m <= n THEN n - m + 1 ELSE 0
  BY <1>1, SubSeqProperties
<1> QED BY <1>2, Elements

\* A reversed sequence has the same elements.
LEMMA Reversed ==
    ASSUME NEW S, NEW s \in Seq(S)
    PROVE  /\ Reverse(s) \in Seq(S) /\ Len(Reverse(s)) = Len(s)
           /\ Range(Reverse(s)) \subseteq Range(s)
<1> DEFINE t == [i \in 1 .. Len(s) |-> s[(Len(s) - i) + 1]]
<1>1. Reverse(s) = t
  BY DEF Reverse
<1>2. Len(s) \in Nat /\ \A k \in 1 .. Len(s) : s[k] \in Range(s) /\ s[k] \in S
  BY Elements
<1>3. \A i \in 1 .. Len(s) : (Len(s) - i) + 1 \in 1 .. Len(s)
  BY <1>2
<1>4. t \in Seq(Range(s)) /\ t \in Seq(S) /\ Len(t) = Len(s)
  BY <1>2, <1>3
<1> HIDE DEF t
<1> QED BY <1>1, <1>4, Elements

\* What an appended element does to the last one and to the elements.
LEMMA Appended ==
    ASSUME NEW S, NEW s \in Seq(S), NEW x \in S
    PROVE  /\ Append(s, x) \in Seq(S) /\ Append(s, x) # <<>>
           /\ Len(Append(s, x)) = Len(s) + 1 /\ Last(Append(s, x)) = x
           /\ Range(Append(s, x)) \subseteq Range(s) \cup {x}
<1> DEFINE t == Append(s, x)
<1>0. Len(s) \in Nat
  BY Elements
<1>1. /\ t \in Seq(S) /\ Len(t) = Len(s) + 1 /\ t[Len(s) + 1] = x
      /\ \A i \in 1 .. Len(s) : t[i] = s[i]
  BY AppendProperties
<1> HIDE DEF t
<1>2. t # <<>> /\ Last(t) = x
  BY <1>0, <1>1, EmptySeq DEF Last
<1>3. ASSUME NEW y \in Range(t) PROVE y \in Range(s) \cup {x}
  <2>1. PICK k \in 1 .. Len(s) + 1 : y = t[k]
    BY <1>1, Elements
  <2>2. k \in 1 .. Len(s) \/ k = Len(s) + 1
    BY <1>0
  <2> QED BY <1>1, <2>1, <2>2, Elements
<1> QED BY <1>1, <1>2, <1>3 DEF t

\* The same when the last element is replaced.
LEMMA Replaced ==
    ASSUME NEW S, NEW s \in Seq(S), s # <<>>, NEW x \in S
    PROVE  LET t == [s EXCEPT ![Len(s)] = x]
           IN /\ t \in Seq(S) /\ t # <<>> /\ Last(t) = x
              /\ Range(t) \subseteq Range(s) \cup {x}
<1> DEFINE t == [s EXCEPT ![Len(s)] = x]
<1>0. Len(s) \in Nat \ {0} /\ Len(s) \in 1 .. Len(s)
  BY Elements
<1>1. /\ t \in Seq(S) /\ Len(t) = Len(s)
      /\ \A j \in 1 .. Len(s) : t[j] = IF j = Len(s) THEN x ELSE s[j]
  BY <1>0, ExceptSeq
<1> HIDE DEF t
<1>2. t # <<>> /\ Last(t) = x
  BY <1>0, <1>1, EmptySeq DEF Last
<1>3. ASSUME NEW y \in Range(t) PROVE y \in Range(s) \cup {x}
  <2>1. PICK k \in 1 .. Len(s) : y = t[k]
    BY <1>1, Elements
  <2> QED BY <1>1, <2>1, Elements
<1> QED BY <1>1, <1>2, <1>3 DEF t

\* To replace the last element is to append another one to the front.
LEMMA ReplaceLast ==
    ASSUME NEW S, NEW s \in Seq(S), s # <<>>, NEW x \in S
    PROVE  /\ Front(s) \in Seq(S) /\ s = Append(Front(s), Last(s)) /\ Last(s) \in S
           /\ [s EXCEPT ![Len(s)] = x] = Append(Front(s), x)
<1> DEFINE n == Len(s)
           f == Front(s)
           t == [s EXCEPT ![Len(s)] = x]
<1>1. n \in Nat \ {0} /\ Last(s) = s[n] /\ Last(s) \in S
  BY Elements
<1>2. f \in Seq(S) /\ Len(f) = n - 1 /\ \A i \in 1 .. n - 1 : f[i] = s[i]
  <2>1. \A i \in 1 .. n - 1 : s[i] \in S
    BY <1>1, ElementOfSeq
  <2>2. 1 \in Int /\ n - 1 \in Int /\ f = SubSeq(s, 1, n - 1)
    BY <1>1 DEF Front
  <2> DEFINE m == n - 1
  <2>3. m \in Int /\ \A i \in 1 .. m : s[i] \in S
    BY <2>1, <2>2
  <2>4. f = SubSeq(s, 1, m)
    BY <2>2
  <2> HIDE DEF m
  <2>5. /\ f \in Seq(S) /\ Len(f) = IF 1 <= m THEN m - 1 + 1 ELSE 0
        /\ \A i \in 1 .. m - 1 + 1 : f[i] = s[1 + i - 1]
    BY <2>2, <2>3, <2>4, SubSeqProperties
  <2>6. m - 1 + 1 = m /\ m \in Nat /\ \A i \in 1 .. m : 1 + i - 1 = i
    BY <1>1 DEF m
  <2>7. f \in Seq(S) /\ Len(f) = m /\ \A i \in 1 .. m : f[i] = s[i]
    BY <2>5, <2>6
  <2> QED BY <2>7 DEF m
<1> HIDE DEF f
<1>3. ASSUME NEW y \in S
      PROVE  /\ Append(f, y) \in Seq(S) /\ Len(Append(f, y)) = n
             /\ \A i \in 1 .. n : Append(f, y)[i] = IF i = n THEN y ELSE s[i]
  BY <1>1, <1>2, AppendProperties
<1>4. s = Append(f, Last(s))
  <2>1. \A i \in 1 .. n : s[i] = Append(f, Last(s))[i]
    BY <1>1, <1>3
  <2> QED BY <1>1, <1>3, <2>1, SeqEqual
<1>5. t \in Seq(S) /\ Len(t) = n /\ \A i \in 1 .. n : t[i] = IF i = n THEN x ELSE s[i]
  BY <1>1, ExceptSeq
<1> HIDE DEF t
<1>6. t = Append(f, x)
  <2>1. \A i \in 1 .. n : t[i] = Append(f, x)[i]
    BY <1>3, <1>5
  <2> QED BY <1>3, <1>5, <2>1, SeqEqual
<1> QED BY <1>1, <1>2, <1>4, <1>6 DEF f, t

----------------------------------------------------------------------------
(***************************************************************************)
(* Flattened sequences.                                                    *)
(***************************************************************************)

\* The table from which FlattenSeq is read is one for the sequence extended.
LEMMA FlattenAppend ==
    ASSUME NEW S, NEW ss \in Seq(Seq(S)), NEW s \in Seq(S)
    PROVE  FlattenSeq(Append(ss, s)) = FlattenSeq(ss) \o s
<1> DEFINE n == Len(ss)
           tt == Append(ss, s)
<1>1. /\ tt \in Seq(Seq(S)) /\ Len(tt) = n + 1 /\ tt[n + 1] = s /\ n \in Nat
      /\ \A i \in 1 .. n : tt[i] = ss[i]
  BY AppendProperties, LenProperties
<1> HIDE DEF tt
<1>2. PICK g \in [1 .. n -> Seq(S)] :
         /\ n # 0 => FlattenSeq(ss) = g[n]
         /\ \A i \in 1 .. n : g[i] = IF i = 1 THEN ss[i] ELSE g[i - 1] \o ss[i]
  BY FlattenTable
<1>3. PICK h \in [1 .. Len(tt) -> Seq(S)] :
         /\ Len(tt) # 0 => FlattenSeq(tt) = h[Len(tt)]
         /\ \A i \in 1 .. Len(tt) : h[i] = IF i = 1 THEN tt[i] ELSE h[i - 1] \o tt[i]
  <2>1. tt \in Seq(Seq(S))
    BY <1>1
  <2> QED BY ONLY <2>1, FlattenTable
<1>8. n = Len(ss)
  OBVIOUS
<1> HIDE DEF n
<1>9. \A i \in 1 .. n + 1 : h[i] = IF i = 1 THEN tt[i] ELSE h[i - 1] \o tt[i]
  BY <1>1, <1>3
<1>4. \A i \in 1 .. n : h[i] = g[i]
  <2> DEFINE T == {i \in Nat : i \in 1 .. n => h[i] = g[i]}
  <2>1. 0 \in T
    OBVIOUS
  <2>2. ASSUME NEW i \in T PROVE i + 1 \in T
    <3>1. CASE i + 1 \notin 1 .. n
      BY <3>1
    <3>2. CASE i = 0 /\ 1 \in 1 .. n
      <4>1. h[1] = tt[1] /\ g[1] = ss[1] /\ tt[1] = ss[1]
        <5>1. 1 \in 1 .. n + 1
          BY <1>1
        <5> QED BY <1>1, <1>2, <1>9, <3>2, <5>1
      <4> QED BY <3>2, <4>1
    <3>3. CASE i # 0 /\ i + 1 \in 1 .. n
      <4>1. i \in 1 .. n /\ i + 1 # 1 /\ (i + 1) - 1 = i /\ i + 1 \in 1 .. n + 1
        BY <1>1, <3>3
      <4>2. h[i + 1] = h[i] \o tt[i + 1] /\ g[i + 1] = g[i] \o ss[i + 1]
        BY <1>2, <1>9, <3>3, <4>1
      <4>3. h[i] = g[i]
        BY <4>1
      <4>4. tt[i + 1] = ss[i + 1]
        BY <1>1, <3>3
      <4>5. h[i + 1] = g[i + 1]
        BY <4>2, <4>3, <4>4
      <4> QED BY <4>5
    <3> QED BY <3>1, <3>2, <3>3
  <2>3. T = Nat
    <3>1. T \subseteq Nat
      OBVIOUS
    <3> HIDE DEF T
    <3> QED BY <2>1, <2>2, <3>1, AllNaturals
  <2>4. \A i \in T : i \in 1 .. n => h[i] = g[i]
    OBVIOUS
  <2> HIDE DEF T
  <2> QED BY <1>1, <2>3, <2>4
<1>5. n + 1 # 0 /\ n + 1 \in 1 .. n + 1 /\ FlattenSeq(tt) = h[n + 1]
  BY <1>1, <1>3
<1>6. CASE n = 0
  <2>1. FlattenSeq(ss) = <<>>
    <3>1. FlattenSeq(ss) = ss
      BY <1>6, <1>8 DEF FlattenSeq
    <3> QED BY <1>6, <1>8, <3>1, EmptySeq
  <2>2. FlattenSeq(tt) = s
    BY <1>1, <1>3, <1>5, <1>6
  <2> QED BY <2>1, <2>2, ConcatEmptySeq DEF tt
<1>7. CASE n # 0
  <2>1. n + 1 # 1 /\ (n + 1) - 1 = n /\ n \in 1 .. n
    BY <1>1, <1>7
  <2>2. h[n + 1] = h[n] \o s
    BY <1>1, <1>3, <1>5, <2>1
  <2> QED BY <1>2, <1>4, <1>5, <1>7, <2>1, <2>2 DEF tt
<1> QED BY <1>6, <1>7

LEMMA FlattenNothing == FlattenSeq(<<>>) = <<>>
BY EmptySeq DEF FlattenSeq

LEMMA FlattenOne ==
    ASSUME NEW S, NEW s \in Seq(S)
    PROVE  FlattenSeq(<<s>>) = s
<1>1. <<s>> = Append(<<>>, s) /\ <<>> \in Seq(Seq(S)) /\ s \in Seq(S)
  OBVIOUS
<1>2. FlattenSeq(Append(<<>>, s)) = FlattenSeq(<<>>) \o s
  BY <1>1, FlattenAppend
<1> QED BY <1>1, <1>2, FlattenNothing, ConcatEmptySeq

LEMMA FlattenConcat ==
    ASSUME NEW S, NEW ss \in Seq(Seq(S)), NEW tt \in Seq(Seq(S))
    PROVE  FlattenSeq(ss \o tt) = FlattenSeq(ss) \o FlattenSeq(tt)
<1> DEFINE Holds(uu) == FlattenSeq(ss \o uu) = FlattenSeq(ss) \o FlattenSeq(uu)
           T == {n \in Nat : \A uu \in Seq(Seq(S)) : Len(uu) = n => Holds(uu)}
<1>1. FlattenSeq(ss) \in Seq(S)
  BY Flattened
<1>2. 0 \in T
  <2> SUFFICES ASSUME NEW uu \in Seq(Seq(S)), Len(uu) = 0 PROVE Holds(uu)
    OBVIOUS
  <2>1. uu = <<>>
    BY EmptySeq
  <2> QED BY <1>1, <2>1, FlattenNothing, ConcatEmptySeq
<1>3. ASSUME NEW n \in T PROVE n + 1 \in T
  <2> SUFFICES ASSUME NEW uu \in Seq(Seq(S)), Len(uu) = n + 1 PROVE Holds(uu)
    OBVIOUS
  <2>0. n \in Nat /\ \A vv \in Seq(Seq(S)) : Len(vv) = n => Holds(vv)
    OBVIOUS
  <2> HIDE DEF T
  <2>1. uu # <<>>
    BY <2>0, EmptySeq
  <2>2. PICK vv \in Seq(Seq(S)), v \in Seq(S) : uu = Append(vv, v)
    BY <2>1, SequenceEmptyOrAppend
  <2>3. Len(uu) = Len(vv) + 1 /\ Len(vv) \in Nat
    BY <2>2, AppendProperties, LenProperties
  <2>4. FlattenSeq(ss \o vv) = FlattenSeq(ss) \o FlattenSeq(vv)
    BY <2>0, <2>3
  <2>5. ss \o vv \in Seq(Seq(S)) /\ <<v>> \in Seq(Seq(S))
    BY ConcatProperties
  <2>6. ss \o uu = Append(ss \o vv, v)
    <3>1. uu = vv \o <<v>> /\ Append(ss \o vv, v) = (ss \o vv) \o <<v>>
      BY <2>2, <2>5, AppendIsConcat
    <3>2. ss \in Seq(Seq(S)) /\ vv \in Seq(Seq(S))
      OBVIOUS
    <3> QED BY <2>5, <3>1, <3>2, ConcatAssociative
  <2>7. FlattenSeq(ss \o uu) = FlattenSeq(ss \o vv) \o v
    BY <2>5, <2>6, FlattenAppend
  <2>8. FlattenSeq(uu) = FlattenSeq(vv) \o v /\ FlattenSeq(vv) \in Seq(S)
    BY <2>2, FlattenAppend, Flattened
  <2>9. (FlattenSeq(ss) \o FlattenSeq(vv)) \o v = FlattenSeq(ss) \o (FlattenSeq(vv) \o v)
    <3>1. FlattenSeq(ss) \in Seq(S) /\ FlattenSeq(vv) \in Seq(S) /\ v \in Seq(S)
      BY <1>1, <2>8
    <3> QED BY ONLY <3>1, ConcatAssociative
  <2> QED BY <2>4, <2>7, <2>8, <2>9
<1>4. T = Nat
  <2>1. T \subseteq Nat
    OBVIOUS
  <2> HIDE DEF T
  <2> QED BY <1>2, <1>3, <2>1, AllNaturals
<1> QED BY <1>4, LenProperties
=============================================================================
