---------------------------- MODULE SequenceFacts ----------------------------
(***************************************************************************)
(* Queues without repetition: what the sequence operators the models use   *)
(* for List::push_back, pop_front, insert, erase and for moving a whole    *)
(* list do to the set of the elements and to their being distinct.         *)
(***************************************************************************)
EXTENDS Naturals, Sequences, SequencesExt, SequenceTheorems, TLAPS

\* push_back of an element that is not in the list.
LEMMA AppendFacts ==
    ASSUME NEW S, NEW s \in Seq(S), NEW e \in S,
           IsInjective(s), e \notin ToSet(s)
    PROVE  /\ Append(s, e) \in Seq(S)
           /\ IsInjective(Append(s, e))
           /\ ToSet(Append(s, e)) = ToSet(s) \cup {e}
  BY DEF IsInjective, ToSet

\* pop_front.
LEMMA TailFacts ==
    ASSUME NEW S, NEW s \in Seq(S), s # <<>>, IsInjective(s)
    PROVE  /\ Head(s) \in S /\ Head(s) \in ToSet(s)
           /\ Tail(s) \in Seq(S)
           /\ IsInjective(Tail(s))
           /\ ToSet(Tail(s)) = ToSet(s) \ {Head(s)}
<1>1. /\ Len(s) \in Nat \ {0} /\ DOMAIN s = 1..Len(s)
      /\ Head(s) = s[1] /\ Head(s) \in S
      /\ Tail(s) \in Seq(S) /\ DOMAIN Tail(s) = 1..Len(s) - 1
      /\ \A i \in 1..Len(s) - 1 : Tail(s)[i] = s[i + 1]
  OBVIOUS
<1>2. IsInjective(Tail(s))
  BY <1>1 DEF IsInjective
<1>3. ASSUME NEW x \in ToSet(Tail(s)) PROVE x \in ToSet(s) \ {Head(s)}
  BY <1>1 DEF ToSet, IsInjective
<1>4. ASSUME NEW x \in ToSet(s) \ {Head(s)} PROVE x \in ToSet(Tail(s))
  <2>1. PICK i \in 1..Len(s) : s[i] = x
    BY <1>1 DEF ToSet
  <2>2. i - 1 \in 1..Len(s) - 1 /\ Tail(s)[i - 1] = x
    BY <1>1, <2>1
  <2> QED
    BY ZenonT(30), <1>1, <2>2 DEF ToSet
<1>5. Head(s) \in ToSet(s)
  BY <1>1 DEF ToSet
<1> QED
  BY <1>1, <1>2, <1>3, <1>4, <1>5

\* The elements of a concatenation, by position.
LEMMA ConcatElements ==
    ASSUME NEW S, NEW s \in Seq(S), NEW t \in Seq(S)
    PROVE  /\ s \o t \in Seq(S)
           /\ Len(s \o t) = Len(s) + Len(t)
           /\ DOMAIN (s \o t) = 1..Len(s) + Len(t)
           /\ \A i \in 1..Len(s) + Len(t) :
                 (s \o t)[i] = IF i <= Len(s) THEN s[i] ELSE t[i - Len(s)]
  OBVIOUS

\* Moving a list behind another one that has no element in common with it.
LEMMA ConcatFacts ==
    ASSUME NEW S, NEW s \in Seq(S), NEW t \in Seq(S),
           IsInjective(s), IsInjective(t), ToSet(s) \cap ToSet(t) = {}
    PROVE  /\ s \o t \in Seq(S)
           /\ IsInjective(s \o t)
           /\ ToSet(s \o t) = ToSet(s) \cup ToSet(t)
<1>1. /\ Len(s) \in Nat /\ DOMAIN s = 1..Len(s)
      /\ Len(t) \in Nat /\ DOMAIN t = 1..Len(t)
      /\ s \o t \in Seq(S) /\ DOMAIN (s \o t) = 1..Len(s) + Len(t)
      /\ \A i \in 1..Len(s) + Len(t) :
            (s \o t)[i] = IF i <= Len(s) THEN s[i] ELSE t[i - Len(s)]
  BY ConcatElements
<1>2. ASSUME NEW i \in 1..Len(s), NEW j \in 1..Len(t) PROVE s[i] # t[j]
  <2>1. s[i] \in ToSet(s) /\ t[j] \in ToSet(t)
    BY SMTT(30), <1>1 DEF ToSet
  <2> QED
    BY <2>1
<1>3. ASSUME NEW i \in 1..Len(s) + Len(t), NEW j \in 1..Len(s) + Len(t),
             (s \o t)[i] = (s \o t)[j]
      PROVE  i = j
  <2>1. CASE i <= Len(s) /\ j <= Len(s)
    BY <1>1, <1>3, <2>1 DEF IsInjective
  <2>2. CASE i > Len(s) /\ j > Len(s)
    <3>1. i - Len(s) \in 1..Len(t) /\ j - Len(s) \in 1..Len(t)
      BY <1>1, <2>2
    <3>2. t[i - Len(s)] = t[j - Len(s)]
      BY <1>1, <1>3, <2>2
    <3>3. i - Len(s) = j - Len(s)
      BY <1>1, <3>1, <3>2 DEF IsInjective
    <3> QED
      BY <1>1, <3>3
  <2>3. CASE i <= Len(s) /\ j > Len(s)
    BY <1>1, <1>2, <1>3, <2>3
  <2>4. CASE i > Len(s) /\ j <= Len(s)
    BY <1>1, <1>2, <1>3, <2>4
  <2> QED
    BY <1>1, <2>1, <2>2, <2>3, <2>4
<1>4. IsInjective(s \o t)
  BY <1>1, <1>3 DEF IsInjective
<1>5. ASSUME NEW x \in ToSet(s \o t) PROVE x \in ToSet(s) \cup ToSet(t)
  BY <1>1 DEF ToSet
<1>6. ASSUME NEW x \in ToSet(s) PROVE x \in ToSet(s \o t)
  BY <1>1 DEF ToSet
<1>7. ASSUME NEW x \in ToSet(t) PROVE x \in ToSet(s \o t)
  <2>1. PICK i \in 1..Len(t) : t[i] = x
    BY <1>1 DEF ToSet
  <2>2. i + Len(s) \in 1..Len(s) + Len(t) /\ (s \o t)[i + Len(s)] = x
    BY <1>1, <2>1
  <2> QED
    BY SMTT(30), <1>1, <2>2 DEF ToSet
<1> QED
  BY <1>1, <1>4, <1>5, <1>6, <1>7

\* The part of a list from position m to position n, which may be empty.
LEMMA PartFacts ==
    ASSUME NEW S, NEW s \in Seq(S),
           NEW m \in 1..Len(s) + 1, NEW n \in m - 1..Len(s)
    PROVE  /\ SubSeq(s, m, n) \in Seq(S)
           /\ Len(SubSeq(s, m, n)) = n - m + 1
           /\ DOMAIN SubSeq(s, m, n) = 1..n - m + 1
           /\ \A i \in 1..n - m + 1 : SubSeq(s, m, n)[i] = s[m + i - 1]
<1>1. Len(s) \in Nat /\ m \in Nat \ {0} /\ n \in Nat /\ m <= n + 1
  OBVIOUS
<1>2. \A i \in m..n : s[i] \in S
  BY <1>1
<1> QED
  BY <1>1, <1>2, SubSeqProperties

\* A list cut in two: the parts have no element in common and lose none.
LEMMA SplitFacts ==
    ASSUME NEW S, NEW s \in Seq(S), IsInjective(s), NEW n \in 0..Len(s)
    PROVE  /\ SubSeq(s, 1, n) \in Seq(S) /\ SubSeq(s, n + 1, Len(s)) \in Seq(S)
           /\ IsInjective(SubSeq(s, 1, n))
           /\ IsInjective(SubSeq(s, n + 1, Len(s)))
           /\ ToSet(SubSeq(s, 1, n)) = {s[i] : i \in 1..n}
           /\ ToSet(SubSeq(s, n + 1, Len(s))) = ToSet(s) \ ToSet(SubSeq(s, 1, n))
           /\ ToSet(SubSeq(s, 1, n)) \subseteq ToSet(s)
<1> DEFINE a == SubSeq(s, 1, n)
           b == SubSeq(s, n + 1, Len(s))
<1>1. Len(s) \in Nat /\ DOMAIN s = 1..Len(s) /\ n \in Nat /\ n <= Len(s)
  OBVIOUS
<1>2. /\ a \in Seq(S) /\ DOMAIN a = 1..n
      /\ \A i \in 1..n : a[i] = s[i]
  <2>1. 1 \in 1..Len(s) + 1 /\ n \in 1 - 1..Len(s)
    BY <1>1
  <2> QED
    BY <1>1, <2>1, PartFacts
<1>3. /\ b \in Seq(S) /\ DOMAIN b = 1..Len(s) - n
      /\ \A i \in 1..Len(s) - n : b[i] = s[n + i]
  <2>1. n + 1 \in 1..Len(s) + 1 /\ Len(s) \in (n + 1) - 1..Len(s)
    BY <1>1
  <2> QED
    BY <1>1, <2>1, PartFacts
<1> HIDE DEF a, b
<1>4. IsInjective(a)
  BY <1>1, <1>2 DEF IsInjective
<1>5. IsInjective(b)
  <2>1. ASSUME NEW i \in 1..Len(s) - n, NEW j \in 1..Len(s) - n, b[i] = b[j]
        PROVE  i = j
    <3>1. n + i \in 1..Len(s) /\ n + j \in 1..Len(s) /\ s[n + i] = s[n + j]
      BY <1>1, <1>3, <2>1
    <3>2. n + i = n + j
      BY <1>1, <3>1 DEF IsInjective
    <3> QED
      BY <1>1, <3>2
  <2> QED
    BY <1>3, <2>1 DEF IsInjective
<1>6. ToSet(a) = {s[i] : i \in 1..n}
  BY <1>1, <1>2 DEF ToSet
<1>7. ToSet(a) \subseteq ToSet(s)
  BY <1>1, <1>6 DEF ToSet
<1>8. ASSUME NEW x \in ToSet(b) PROVE x \in ToSet(s) \ ToSet(a)
  <2>1. PICK i \in 1..Len(s) - n : b[i] = x
    BY <1>3 DEF ToSet
  <2>2. n + i \in 1..Len(s) /\ s[n + i] = x
    BY <1>1, <1>3, <2>1
  <2>3. ASSUME NEW j \in 1..n PROVE s[j] # x
    <3>1. j \in 1..Len(s) /\ j # n + i
      BY <1>1
    <3> QED
      BY <1>1, <2>2, <3>1 DEF IsInjective
  <2> QED
    BY <1>1, <1>6, <2>2, <2>3 DEF ToSet
<1>9. ASSUME NEW x \in ToSet(s) \ ToSet(a) PROVE x \in ToSet(b)
  <2>1. PICK i \in 1..Len(s) : s[i] = x
    BY <1>1 DEF ToSet
  <2>2. i - n \in 1..Len(s) - n /\ b[i - n] = x
    BY <1>1, <1>3, <1>6, <2>1
  <2> QED
    BY <1>3, <2>2 DEF ToSet
<1> QED
  BY <1>2, <1>3, <1>4, <1>5, <1>6, <1>7, <1>8, <1>9 DEF a, b

\* erase of the element at position p.
LEMMA RemoveFacts ==
    ASSUME NEW S, NEW s \in Seq(S), IsInjective(s), NEW p \in DOMAIN s
    PROVE  /\ RemoveAt(s, p) \in Seq(S)
           /\ Len(RemoveAt(s, p)) = Len(s) - 1
           /\ \A i \in 1..Len(s) - 1 :
                 RemoveAt(s, p)[i] = IF i < p THEN s[i] ELSE s[i + 1]
           /\ IsInjective(RemoveAt(s, p))
           /\ ToSet(RemoveAt(s, p)) = ToSet(s) \ {s[p]}
<1> DEFINE a == SubSeq(s, 1, p - 1)
           b == SubSeq(s, p + 1, Len(s))
           r == a \o b
<1>1. Len(s) \in Nat /\ DOMAIN s = 1..Len(s) /\ p \in Nat /\ 1 <= p /\ p <= Len(s)
  OBVIOUS
<1>2. /\ a \in Seq(S) /\ Len(a) = p - 1
      /\ \A i \in 1..p - 1 : a[i] = s[i]
  <2>1. 1 \in 1..Len(s) + 1 /\ p - 1 \in 1 - 1..Len(s)
    BY <1>1
  <2> QED
    BY <1>1, <2>1, PartFacts
<1>3. /\ b \in Seq(S) /\ Len(b) = Len(s) - p
      /\ \A i \in 1..Len(s) - p : b[i] = s[p + i]
  <2>1. p + 1 \in 1..Len(s) + 1 /\ Len(s) \in (p + 1) - 1..Len(s)
    BY <1>1
  <2> QED
    BY <1>1, <2>1, PartFacts
<1> HIDE DEF a, b, r
<1>4. /\ r \in Seq(S) /\ Len(r) = Len(s) - 1 /\ DOMAIN r = 1..Len(s) - 1
      /\ \A i \in 1..Len(s) - 1 : r[i] = IF i < p THEN s[i] ELSE s[i + 1]
  <2>1. /\ r \in Seq(S) /\ Len(r) = Len(a) + Len(b)
        /\ DOMAIN r = 1..Len(a) + Len(b)
        /\ \A i \in 1..Len(a) + Len(b) :
              r[i] = IF i <= Len(a) THEN a[i] ELSE b[i - Len(a)]
    BY ZenonT(30), <1>2, <1>3, ConcatElements DEF r
  <2>2. Len(a) + Len(b) = Len(s) - 1
    BY <1>1, <1>2, <1>3
  <2>3. ASSUME NEW i \in 1..Len(s) - 1
        PROVE  r[i] = IF i < p THEN s[i] ELSE s[i + 1]
    <3>1. CASE i < p
      BY <1>1, <1>2, <2>1, <2>2, <3>1
    <3>2. CASE i >= p
      <4>1. i - (p - 1) \in 1..Len(s) - p /\ p + (i - (p - 1)) = i + 1
        BY <1>1, <3>2
      <4>2. r[i] = b[i - (p - 1)]
        BY SMTT(30), <1>1, <1>2, <2>1, <2>2, <3>2
      <4> QED
        BY SMTT(30), <1>1, <1>3, <4>1, <4>2, <3>2
    <3> QED
      BY <1>1, <3>1, <3>2
  <2> QED
    BY SMTT(30), <2>1, <2>2, <2>3
<1>5. RemoveAt(s, p) = r
  BY DEF RemoveAt, a, b, r
<1> DEFINE k(n) == IF n < p THEN n ELSE n + 1
<1>11. ASSUME NEW i \in 1..Len(s) - 1
      PROVE  k(i) \in 1..Len(s) /\ k(i) # p /\ r[i] = s[k(i)]
  BY <1>1, <1>4
<1>6. IsInjective(r)
  <2>1. ASSUME NEW i \in 1..Len(s) - 1, NEW j \in 1..Len(s) - 1, i # j
        PROVE  r[i] # r[j]
    <3>1. k(i) # k(j)
      BY <1>1, <2>1
    <3>2. k(i) \in DOMAIN s /\ k(j) \in DOMAIN s /\ r[i] = s[k(i)] /\ r[j] = s[k(j)]
      BY <1>1, <1>11
    <3> HIDE DEF k
    <3> QED
      BY <3>1, <3>2 DEF IsInjective
  <2> QED
    BY <1>4, <2>1 DEF IsInjective
<1>7. ASSUME NEW x \in ToSet(r) PROVE x \in ToSet(s) \ {s[p]}
  <2>1. PICK i \in 1..Len(s) - 1 : r[i] = x
    BY <1>4 DEF ToSet
  <2>2. k(i) \in DOMAIN s /\ p \in DOMAIN s /\ k(i) # p /\ x = s[k(i)]
    BY <1>1, <1>11, <2>1
  <2> HIDE DEF k
  <2> QED
    BY <2>2 DEF ToSet, IsInjective
<1>8. ASSUME NEW x \in ToSet(s) \ {s[p]} PROVE x \in ToSet(r)
  <2>1. PICK i \in 1..Len(s) : s[i] = x
    BY <1>1 DEF ToSet
  <2>2. CASE i < p
    BY <1>1, <1>4, <2>1, <2>2 DEF ToSet
  <2>3. CASE i > p
    <3>1. i - 1 \in 1..Len(s) - 1 /\ r[i - 1] = x
      BY <1>1, <1>4, <2>1, <2>3
    <3> QED
      BY <1>4, <3>1 DEF ToSet
  <2> QED
    BY <1>1, <2>1, <2>2, <2>3
<1> QED
  BY <1>4, <1>5, <1>6, <1>7, <1>8

\* insert of a new element in front of position p.
LEMMA InsertFacts ==
    ASSUME NEW S, NEW s \in Seq(S), IsInjective(s), NEW p \in 1..Len(s) + 1,
           NEW e \in S, e \notin ToSet(s)
    PROVE  /\ InsertAt(s, p, e) \in Seq(S)
           /\ Len(InsertAt(s, p, e)) = Len(s) + 1
           /\ \A i \in 1..Len(s) + 1 :
                 InsertAt(s, p, e)[i] = IF i < p THEN s[i]
                                        ELSE IF i = p THEN e ELSE s[i - 1]
           /\ IsInjective(InsertAt(s, p, e))
           /\ ToSet(InsertAt(s, p, e)) = ToSet(s) \cup {e}
<1> DEFINE a == SubSeq(s, 1, p - 1)
           b == SubSeq(s, p, Len(s))
           c == a \o <<e>>
           r == c \o b
<1>1. Len(s) \in Nat /\ DOMAIN s = 1..Len(s) /\ p \in Nat /\ 1 <= p /\ p <= Len(s) + 1
  OBVIOUS
<1>2. /\ a \in Seq(S) /\ Len(a) = p - 1
      /\ \A i \in 1..p - 1 : a[i] = s[i]
  <2>1. 1 \in 1..Len(s) + 1 /\ p - 1 \in 1 - 1..Len(s)
    BY <1>1
  <2> QED
    BY <1>1, <2>1, PartFacts
<1>3. /\ b \in Seq(S) /\ Len(b) = Len(s) - p + 1
      /\ \A i \in 1..Len(s) - p + 1 : b[i] = s[p + i - 1]
  <2>1. p \in 1..Len(s) + 1 /\ Len(s) \in p - 1..Len(s)
    BY <1>1
  <2> QED
    BY <1>1, <2>1, PartFacts
<1> HIDE DEF a, b, c, r
<1>4. /\ r \in Seq(S) /\ Len(r) = Len(s) + 1 /\ DOMAIN r = 1..Len(s) + 1
      /\ \A i \in 1..Len(s) + 1 :
            r[i] = IF i < p THEN s[i] ELSE IF i = p THEN e ELSE s[i - 1]
  <2>1. /\ c \in Seq(S) /\ Len(c) = p
        /\ \A i \in 1..p : c[i] = IF i < p THEN s[i] ELSE e
    BY <1>1, <1>2 DEF c
  <2>2. /\ r \in Seq(S) /\ Len(r) = p + Len(b)
        /\ DOMAIN r = 1..p + Len(b)
        /\ \A i \in 1..p + Len(b) : r[i] = IF i <= p THEN c[i] ELSE b[i - p]
    BY <1>3, <2>1, ConcatElements DEF r
  <2>3. p + Len(b) = Len(s) + 1
    BY <1>1, <1>3
  <2>4. ASSUME NEW i \in 1..Len(s) + 1
        PROVE  r[i] = IF i < p THEN s[i] ELSE IF i = p THEN e ELSE s[i - 1]
    <3>1. CASE i <= p
      BY <1>1, <2>1, <2>2, <2>3, <3>1
    <3>2. CASE i > p
      <4>1. i - p \in 1..Len(s) - p + 1 /\ p + (i - p) - 1 = i - 1
        BY <1>1, <3>2
      <4>2. r[i] = b[i - p]
        BY <1>1, <2>2, <2>3, <3>2
      <4> QED
        BY <1>1, <1>3, <3>2, <4>1, <4>2
    <3> QED
      BY <1>1, <3>1, <3>2
  <2> QED
    BY <2>2, <2>3, <2>4
<1>5. InsertAt(s, p, e) = r
  BY DEF InsertAt, a, b, c, r
<1>6. \A i \in 1..Len(s) : s[i] # e
  BY <1>1 DEF ToSet
<1>7. IsInjective(r)
  <2>1. ASSUME NEW i \in 1..Len(s) + 1, NEW j \in 1..Len(s) + 1, i < j
        PROVE  r[i] # r[j]
    <3>1. CASE i = p
      BY <1>1, <1>4, <1>6, <2>1, <3>1
    <3>2. CASE j = p
      BY <1>1, <1>4, <1>6, <2>1, <3>2
    <3>3. CASE i # p /\ j # p
      <4> DEFINE k(n) == IF n < p THEN n ELSE n - 1
      <4>1. /\ k(i) \in 1..Len(s) /\ k(j) \in 1..Len(s) /\ k(i) # k(j)
            /\ r[i] = s[k(i)] /\ r[j] = s[k(j)]
        BY <1>1, <1>4, <2>1, <3>3
      <4> QED
        BY <1>1, <4>1 DEF IsInjective
    <3> QED
      BY <3>1, <3>2, <3>3
  <2> QED
    BY <1>1, <1>4, <2>1 DEF IsInjective
<1>8. ASSUME NEW x \in ToSet(r) PROVE x \in ToSet(s) \cup {e}
  <2>1. PICK i \in 1..Len(s) + 1 : r[i] = x
    BY <1>4 DEF ToSet
  <2>2. CASE i = p
    BY <1>1, <1>4, <2>1, <2>2
  <2>3. CASE i # p
    <3>1. \E j \in 1..Len(s) : s[j] = x
      BY <1>1, <1>4, <2>1, <2>3
    <3> QED
      BY <1>1, <3>1 DEF ToSet
  <2> QED
    BY <2>2, <2>3
<1>9. ASSUME NEW x \in ToSet(s) PROVE x \in ToSet(r)
  <2>1. PICK i \in 1..Len(s) : s[i] = x
    BY <1>1 DEF ToSet
  <2>2. CASE i < p
    BY <1>1, <1>4, <2>1, <2>2 DEF ToSet
  <2>3. CASE i >= p
    <3>1. i + 1 \in 1..Len(s) + 1 /\ r[i + 1] = x
      BY <1>1, <1>4, <2>1, <2>3
    <3> QED
      BY ZenonT(30), <1>4, <3>1 DEF ToSet
  <2> QED
    BY <1>1, <2>1, <2>2, <2>3
<1>10. e \in ToSet(r)
  BY <1>1, <1>4 DEF ToSet
<1> QED
  BY <1>4, <1>5, <1>7, <1>8, <1>9, <1>10
=============================================================================
