-------------------------------- MODULE ListLemmas --------------------------------
(***************************************************************************)
(* Lists without repetition, as the code keeps its queues, its table of    *)
(* connections and what it watches: what append, insert, remove, pop and   *)
(* the taking of the first element make of their elements. Each lemma      *)
(* gives the type of the result, its elements and whether it still has no  *)
(* repetition.                                                             *)
(***************************************************************************)
EXTENDS Naturals, Sequences, FiniteSets, SequencesExt, SequenceTheorems, TLAPS

\* The elements of a list are those at its places.
LEMMA ListElems ==
    ASSUME NEW S, NEW s \in Seq(S), NEW n \in Nat, n = Len(s)
    PROVE  /\ DOMAIN s = 1..n
           /\ \A x : x \in Range(s) <=> \E k \in 1..n : s[k] = x
           /\ IsInjective(s) <=> \A k, l \in 1..n : s[k] = s[l] => k = l
           /\ \A k \in 1..n : s[k] \in S
<1>1. DOMAIN s = 1..n
  BY LenProperties
<1>2. \A x : x \in Range(s) <=> \E k \in 1..n : s[k] = x
  BY <1>1 DEF Range
<1>3. IsInjective(s) <=> \A k, l \in 1..n : s[k] = s[l] => k = l
  BY <1>1 DEF IsInjective
<1>4. \A k \in 1..n : s[k] \in S
  BY ElementOfSeq
<1> QED
  BY <1>1, <1>2, <1>3, <1>4

\* A part of a list: its places are places of the list.
LEMMA PartElems ==
    ASSUME NEW S, NEW s \in Seq(S), NEW i \in Nat, i >= 1, NEW m \in Nat, m <= Len(s)
    PROVE  /\ SubSeq(s, i, m) \in Seq(S)
           /\ IsInjective(s) => IsInjective(SubSeq(s, i, m))
           /\ \A x : x \in Range(SubSeq(s, i, m)) <=> \E k \in i..m : s[k] = x
<1> DEFINE p == SubSeq(s, i, m)
<1>1. PICK n \in Nat : n = Len(s)
  BY LenProperties
<1>2. \A k \in i..m : s[k] \in S
  BY <1>1, ListElems
<1>3. CASE i > m
  <2>1. p = <<>>
    BY <1>3, SubSeqEmpty
  <2>2. <<>> \in Seq(S) /\ Len(<<>>) = 0
    BY EmptySeq
  <2>3. \A x : x \notin Range(<<>>)
    BY DEF Range
  <2>4. IsInjective(<<>>)
    BY DEF IsInjective
  <2>5. i..m = {}
    BY <1>3
  <2> QED
    BY <2>1, <2>2, <2>3, <2>4, <2>5
<1>4. CASE i <= m
  <2> DEFINE q == m - i + 1
  <2>1. q \in Nat /\ i \in Int /\ m \in Int
    BY <1>4
  <2>2. /\ p \in Seq(S) /\ Len(p) = q
        /\ \A k \in 1..q : p[k] = s[i + k - 1]
    BY <1>2, <1>4, <2>1, SubSeqProperties
  <2> HIDE DEF p
  <2>3. ASSUME NEW k \in 1..q PROVE i + k - 1 \in i..m /\ i + k - 1 \in 1..n
    BY <1>1, <1>4
  <2>4. ASSUME NEW k \in i..m PROVE k - i + 1 \in 1..q /\ i + (k - i + 1) - 1 = k
    BY <1>4
  <2>5. \A x : x \in Range(p) <=> \E k \in 1..q : p[k] = x
    BY <2>1, <2>2, ListElems
  <2> HIDE DEF q
  <2>6. \A x : x \in Range(p) <=> \E k \in i..m : s[k] = x
    <3>1. ASSUME NEW x, x \in Range(p) PROVE \E k \in i..m : s[k] = x
      BY <3>1, <2>5, <2>2, <2>3
    <3>2. ASSUME NEW x, NEW k \in i..m, s[k] = x PROVE x \in Range(p)
      <4>1. p[k - i + 1] = s[i + (k - i + 1) - 1]
        BY <2>2, <2>4
      <4> QED
        BY <4>1, <2>4, <2>5, <3>2
    <3> QED
      BY <3>1, <3>2
  <2>7. ASSUME IsInjective(s) PROVE IsInjective(p)
    <3>1. \A k, l \in 1..n : s[k] = s[l] => k = l
      BY <1>1, <2>7, ListElems
    <3>2. ASSUME NEW k \in 1..q, NEW l \in 1..q, p[k] = p[l] PROVE k = l
      <4>1. s[i + k - 1] = s[i + l - 1]
        BY <2>2, <3>2
      <4>2. i + k - 1 = i + l - 1
        BY <4>1, <3>1, <2>3
      <4> QED
        BY <4>2, <2>1
    <3> QED
      BY <3>2, <2>1, <2>2, ListElems
  <2> QED
    BY <2>2, <2>6, <2>7 DEF p
<1> QED
  BY <1>3, <1>4

\* Two lists put together.
LEMMA JoinElems ==
    ASSUME NEW S, NEW a \in Seq(S), NEW b \in Seq(S)
    PROVE  /\ a \o b \in Seq(S)
           /\ Range(a \o b) = Range(a) \cup Range(b)
           /\ IsInjective(a) /\ IsInjective(b) /\ Range(a) \cap Range(b) = {}
                => IsInjective(a \o b)
<1> DEFINE c == a \o b
<1>1. PICK p \in Nat : p = Len(a)
  BY LenProperties
<1>2. PICK q \in Nat : q = Len(b)
  BY LenProperties
<1>3. /\ c \in Seq(S) /\ Len(c) = p + q
      /\ \A k \in 1..(p + q) : c[k] = IF k <= p THEN a[k] ELSE b[k - p]
  BY <1>1, <1>2, ConcatProperties
<1>4. Range(c) = Range(a) \cup Range(b)
  BY RangeConcatenation
<1> HIDE DEF c
<1>5. ASSUME IsInjective(a), IsInjective(b), Range(a) \cap Range(b) = {}
      PROVE  IsInjective(c)
  <2>1. \A k, l \in 1..p : a[k] = a[l] => k = l
    BY <1>1, <1>5, ListElems
  <2>2. \A k, l \in 1..q : b[k] = b[l] => k = l
    BY <1>2, <1>5, ListElems
  <2>3. ASSUME NEW k \in 1..p, NEW l \in 1..q PROVE a[k] # b[l]
    <3>1. a[k] \in Range(a)
      BY <1>1, ListElems
    <3>2. b[l] \in Range(b)
      BY <1>2, ListElems
    <3> QED
      BY <1>5, <3>1, <3>2
  <2>4. ASSUME NEW k \in 1..(p + q), NEW l \in 1..(p + q), c[k] = c[l]
        PROVE  k = l
    <3>1. CASE k <= p /\ l <= p
      BY <2>1, <2>4, <1>3, <3>1
    <3>2. CASE k > p /\ l > p
      <4>1. k - p \in 1..q /\ l - p \in 1..q
        BY <3>2
      <4>2. b[k - p] = b[l - p]
        BY <1>3, <2>4, <3>2
      <4>3. k - p = l - p
        BY <4>1, <4>2, <2>2
      <4> QED
        BY <4>3
    <3>3. CASE k <= p /\ l > p
      <4>1. k \in 1..p /\ l - p \in 1..q
        BY <3>3
      <4>2. a[k] = b[l - p]
        BY <1>3, <2>4, <3>3
      <4> QED
        BY <4>1, <4>2, <2>3
    <3>4. CASE k > p /\ l <= p
      <4>1. l \in 1..p /\ k - p \in 1..q
        BY <3>4
      <4>2. a[l] = b[k - p]
        BY <1>3, <2>4, <3>4
      <4> QED
        BY <4>1, <4>2, <2>3
    <3> QED
      BY <3>1, <3>2, <3>3, <3>4
  <2> QED
    BY <1>3, <2>4, ListElems
<1> QED
  BY <1>3, <1>4, <1>5 DEF c

\* A list of one element.
LEMMA OneElem ==
    ASSUME NEW S, NEW e \in S
    PROVE  <<e>> \in Seq(S) /\ Range(<<e>>) = {e} /\ IsInjective(<<e>>)
<1>1. <<e>> \in Seq(S) /\ DOMAIN <<e>> = {1} /\ <<e>>[1] = e
  OBVIOUS
<1>2. Range(<<e>>) = {e}
  BY <1>1 DEF Range
<1>3. IsInjective(<<e>>)
  BY <1>1 DEF IsInjective
<1> QED
  BY <1>1, <1>2, <1>3

\* list.append()
LEMMA AppendElems ==
    ASSUME NEW S, NEW s \in Seq(S), NEW e \in S
    PROVE  /\ Append(s, e) \in Seq(S)
           /\ Range(Append(s, e)) = Range(s) \cup {e}
           /\ IsInjective(s) /\ e \notin Range(s) => IsInjective(Append(s, e))
<1>1. Append(s, e) = s \o <<e>>
  BY AppendIsConcat
<1>2. /\ <<e>> \in Seq(S) /\ Range(<<e>>) = {e} /\ IsInjective(<<e>>)
  BY OneElem
<1>3. e \notin Range(s) => Range(s) \cap {e} = {}
  OBVIOUS
<1>4. /\ s \o <<e>> \in Seq(S)
      /\ Range(s \o <<e>>) = Range(s) \cup Range(<<e>>)
      /\ IsInjective(s) /\ IsInjective(<<e>>) /\ Range(s) \cap Range(<<e>>) = {}
           => IsInjective(s \o <<e>>)
  BY <1>2, JoinElems
<1> QED
  BY <1>1, <1>2, <1>3, <1>4

\* list.insert()
LEMMA InsertAtElems ==
    ASSUME NEW S, NEW s \in Seq(S), NEW e \in S, NEW i \in 1..(Len(s) + 1)
    PROVE  /\ InsertAt(s, i, e) \in Seq(S)
           /\ Range(InsertAt(s, i, e)) = Range(s) \cup {e}
           /\ IsInjective(s) /\ e \notin Range(s) => IsInjective(InsertAt(s, i, e))
<1>1. PICK n \in Nat : n = Len(s)
  BY LenProperties
<1> DEFINE a == SubSeq(s, 1, i - 1)
           b == SubSeq(s, i, n)
           c == a \o <<e>>
<1>2. InsertAt(s, i, e) = c \o b
  BY <1>1 DEF InsertAt
<1>3. i - 1 \in Nat /\ i - 1 <= n /\ i \in Nat /\ i >= 1
  BY <1>1
<1>4. /\ a \in Seq(S)
      /\ IsInjective(s) => IsInjective(a)
      /\ \A x : x \in Range(a) <=> \E k \in 1..(i - 1) : s[k] = x
  <2>1. 1 \in Nat /\ 1 >= 1
    OBVIOUS
  <2> QED
    BY <1>1, <1>3, <2>1, PartElems
<1>5. /\ b \in Seq(S)
      /\ IsInjective(s) => IsInjective(b)
      /\ \A x : x \in Range(b) <=> \E k \in i..n : s[k] = x
  <2>1. n <= Len(s)
    BY <1>1
  <2> QED
    BY <1>1, <1>3, <2>1, PartElems
<1>6. /\ <<e>> \in Seq(S) /\ Range(<<e>>) = {e} /\ IsInjective(<<e>>)
  BY OneElem
<1> HIDE DEF a, b
<1>7. /\ c \in Seq(S)
      /\ Range(c) = Range(a) \cup {e}
      /\ IsInjective(a) /\ e \notin Range(a) => IsInjective(c)
  <2>1. e \notin Range(a) => Range(a) \cap {e} = {}
    OBVIOUS
  <2>2. /\ c \in Seq(S)
        /\ Range(c) = Range(a) \cup Range(<<e>>)
        /\ IsInjective(a) /\ IsInjective(<<e>>) /\ Range(a) \cap Range(<<e>>) = {}
             => IsInjective(c)
    BY <1>4, <1>6, JoinElems
  <2> QED
    BY <1>6, <2>1, <2>2
<1> HIDE DEF c
<1>8. /\ c \o b \in Seq(S)
      /\ Range(c \o b) = Range(a) \cup {e} \cup Range(b)
      /\ IsInjective(c) /\ IsInjective(b) /\ Range(c) \cap Range(b) = {} => IsInjective(c \o b)
  BY <1>5, <1>7, JoinElems
<1>9. \A k : k \in 1..n <=> k \in 1..(i - 1) \/ k \in i..n
  BY <1>1, <1>3
<1>10. \A x : x \in Range(s) <=> x \in Range(a) \/ x \in Range(b)
  <2>1. \A x : x \in Range(s) <=> \E k \in 1..n : s[k] = x
    BY <1>1, ListElems
  <2> QED
    BY <2>1, <1>4, <1>5, <1>9
<1>11. ASSUME IsInjective(s) PROVE Range(a) \cap Range(b) = {}
  <2>1. \A k, l \in 1..n : s[k] = s[l] => k = l
    BY <1>1, <1>11, ListElems
  <2>2. \A k \in 1..(i - 1), l \in i..n : k # l
    BY <1>3
  <2> QED
    BY <1>4, <1>5, <1>9, <2>1, <2>2
<1>12. ASSUME IsInjective(s), e \notin Range(s) PROVE IsInjective(c \o b)
  BY <1>4, <1>5, <1>7, <1>8, <1>10, <1>11, <1>12
<1> QED
  BY <1>2, <1>8, <1>10, <1>12

\* Taking the element of one place out of a list.
LEMMA RemoveAtElems ==
    ASSUME NEW S, NEW s \in Seq(S), IsInjective(s), NEW i \in 1..Len(s)
    PROVE  /\ RemoveAt(s, i) \in Seq(S)
           /\ IsInjective(RemoveAt(s, i))
           /\ Range(RemoveAt(s, i)) = Range(s) \ {s[i]}
<1>1. PICK n \in Nat : n = Len(s)
  BY LenProperties
<1> DEFINE a == SubSeq(s, 1, i - 1)
           b == SubSeq(s, i + 1, n)
<1>2. RemoveAt(s, i) = a \o b
  BY <1>1 DEF RemoveAt
<1>3. i - 1 \in Nat /\ i - 1 <= n /\ i + 1 \in Nat /\ i + 1 >= 1
  BY <1>1
<1>4. /\ a \in Seq(S) /\ IsInjective(a)
      /\ \A x : x \in Range(a) <=> \E k \in 1..(i - 1) : s[k] = x
  <2>1. 1 \in Nat /\ 1 >= 1
    OBVIOUS
  <2> QED
    BY <1>1, <1>3, <2>1, PartElems
<1>5. /\ b \in Seq(S) /\ IsInjective(b)
      /\ \A x : x \in Range(b) <=> \E k \in (i + 1)..n : s[k] = x
  <2>1. n <= Len(s)
    BY <1>1
  <2> QED
    BY <1>1, <1>3, <2>1, PartElems
<1> HIDE DEF a, b
<1>6. /\ a \o b \in Seq(S)
      /\ Range(a \o b) = Range(a) \cup Range(b)
      /\ Range(a) \cap Range(b) = {} => IsInjective(a \o b)
  BY <1>4, <1>5, JoinElems
<1>7. \A k : /\ k \in 1..n <=> k \in 1..(i - 1) \/ k \in (i + 1)..n \/ k = i
             /\ k \in 1..(i - 1) => k # i /\ k \notin (i + 1)..n
             /\ k \in (i + 1)..n => k # i
  BY <1>1, <1>3
<1>8. /\ \A x : x \in Range(s) <=> \E k \in 1..n : s[k] = x
      /\ \A k, l \in 1..n : s[k] = s[l] => k = l
  BY <1>1, ListElems
<1>9. i \in 1..n
  BY <1>1
<1>10. \A x : x \in Range(a) \cup Range(b) <=> x \in Range(s) \ {s[i]}
  <2>1. ASSUME NEW x, x \in Range(a) \cup Range(b) PROVE x \in Range(s) \ {s[i]}
    BY <2>1, <1>4, <1>5, <1>7, <1>8, <1>9
  <2>2. ASSUME NEW x, x \in Range(s) \ {s[i]} PROVE x \in Range(a) \cup Range(b)
    BY <2>2, <1>4, <1>5, <1>7, <1>8
  <2> QED
    BY <2>1, <2>2
<1>11. Range(a) \cap Range(b) = {}
  BY <1>4, <1>5, <1>7, <1>8
<1> QED
  BY <1>2, <1>6, <1>10, <1>11

\* list.remove()
LEMMA RemoveFirstElems ==
    ASSUME NEW S, NEW s \in Seq(S), IsInjective(s), NEW e
    PROVE  /\ RemoveFirst(s, e) \in Seq(S)
           /\ IsInjective(RemoveFirst(s, e))
           /\ Range(RemoveFirst(s, e)) = Range(s) \ {e}
<1>1. CASE \E i \in 1..Len(s) : s[i] = e
  <2> DEFINE I == {i \in 1..Len(s) : s[i] = e}
             j == SelectInSeq(s, LAMBDA v : v = e)
  <2>1. PICK i \in 1..Len(s) : s[i] = e
    BY <1>1
  <2>2. I = {i}
    BY <2>1 DEF IsInjective
  <2>3. j = Min(I)
    BY <2>2 DEF SelectInSeq
  <2>4. j = i
    <3>1. \A x : x \in {i} <=> x = i
      OBVIOUS
    <3>2. i <= i
      <4>1. i \in Nat
        OBVIOUS
      <4> QED
        BY <4>1
    <3>3. Min({i}) = i
      BY <3>1, <3>2 DEF Min
    <3> QED
      BY <2>2, <2>3, <3>3
  <2>5. RemoveFirst(s, e) = RemoveAt(s, i)
    BY <1>1, <2>4 DEF RemoveFirst
  <2> QED
    BY <2>1, <2>5, RemoveAtElems
<1>2. CASE ~\E i \in 1..Len(s) : s[i] = e
  <2>1. RemoveFirst(s, e) = s
    BY <1>2 DEF RemoveFirst
  <2>2. e \notin Range(s)
    BY <1>2 DEF Range
  <2> QED
    BY <2>1, <2>2
<1> QED
  BY <1>1, <1>2

\* Taking the first element.
LEMMA TailElems ==
    ASSUME NEW S, NEW s \in Seq(S), s # <<>>, IsInjective(s)
    PROVE  /\ Head(s) \in Range(s)
           /\ Tail(s) \in Seq(S)
           /\ IsInjective(Tail(s))
           /\ Range(Tail(s)) = Range(s) \ {Head(s)}
<1>1. PICK n \in Nat : n = Len(s)
  BY LenProperties
<1>2. n > 0 /\ Head(s) = s[1]
  BY <1>1, EmptySeq
<1>3. Tail(s) = SubSeq(s, 2, n)
  BY <1>1, TailIsSubSeq
<1>4. /\ Tail(s) \in Seq(S) /\ IsInjective(Tail(s))
      /\ \A x : x \in Range(Tail(s)) <=> \E k \in 2..n : s[k] = x
  <2>1. n <= Len(s)
    BY <1>1
  <2>2. \A i \in Nat : i >= 1 =>
           /\ SubSeq(s, i, n) \in Seq(S) /\ IsInjective(SubSeq(s, i, n))
           /\ \A x : x \in Range(SubSeq(s, i, n)) <=> \E k \in i..n : s[k] = x
    BY <1>1, <2>1, PartElems
  <2>3. 2 \in Nat /\ 2 >= 1
    OBVIOUS
  <2>4. /\ SubSeq(s, 2, n) \in Seq(S) /\ IsInjective(SubSeq(s, 2, n))
        /\ \A x : x \in Range(SubSeq(s, 2, n)) <=> \E k \in 2..n : s[k] = x
    BY <2>2, <2>3, Zenon
  <2> QED
    BY <1>3, <2>4, Zenon
<1>5. /\ \A x : x \in Range(s) <=> \E k \in 1..n : s[k] = x
      /\ \A k, l \in 1..n : s[k] = s[l] => k = l
  BY <1>1, ListElems
<1>6. \A k : /\ k \in 1..n <=> k \in 2..n \/ k = 1
             /\ k \in 2..n => k # 1
  BY <1>2
<1>7. \A x : x \in Range(Tail(s)) <=> x \in Range(s) \ {s[1]}
  BY <1>4, <1>5, <1>6
<1> QED
  BY <1>2, <1>4, <1>5, <1>6, <1>7

\* The last element and those before it.
LEMMA FrontType ==
    ASSUME NEW S, NEW s \in Seq(S), s # <<>>
    PROVE  Last(s) \in S /\ Front(s) \in Seq(S)
<1>1. PICK n \in Nat : n = Len(s)
  BY LenProperties
<1>2. n > 0 /\ Last(s) = s[n]
  BY <1>1, EmptySeq DEF Last
<1> DEFINE m == n - 1
<1>3. Front(s) = SubSeq(s, 1, m)
  BY <1>1 DEF Front
<1>4. m \in Nat /\ m <= Len(s) /\ 1 \in Nat /\ 1 >= 1
  BY <1>1, <1>2
<1> HIDE DEF m
<1>5. SubSeq(s, 1, m) \in Seq(S)
  BY <1>4, PartElems
<1> QED
  BY <1>1, <1>2, <1>3, <1>5, ElementOfSeq

\* list.pop()
LEMMA FrontElems ==
    ASSUME NEW S, NEW s \in Seq(S), s # <<>>, IsInjective(s)
    PROVE  /\ Last(s) \in Range(s)
           /\ Front(s) \in Seq(S)
           /\ IsInjective(Front(s))
           /\ Range(Front(s)) = Range(s) \ {Last(s)}
<1>1. PICK n \in Nat : n = Len(s)
  BY LenProperties
<1>2. n > 0 /\ Last(s) = s[n]
  BY <1>1, EmptySeq DEF Last
<1>3. Front(s) = SubSeq(s, 1, n - 1)
  BY <1>1 DEF Front
<1>4. /\ Front(s) \in Seq(S) /\ IsInjective(Front(s))
      /\ \A x : x \in Range(Front(s)) <=> \E k \in 1..(n - 1) : s[k] = x
  <2> DEFINE m == n - 1
  <2>1. m \in Nat /\ m <= Len(s) /\ 1 \in Nat /\ 1 >= 1
    BY <1>1, <1>2
  <2> HIDE DEF m
  <2>2. /\ SubSeq(s, 1, m) \in Seq(S) /\ IsInjective(SubSeq(s, 1, m))
        /\ \A x : x \in Range(SubSeq(s, 1, m)) <=> \E k \in 1..m : s[k] = x
    BY <2>1, PartElems
  <2> QED
    BY <1>3, <2>2 DEF m
<1>5. /\ \A x : x \in Range(s) <=> \E k \in 1..n : s[k] = x
      /\ \A k, l \in 1..n : s[k] = s[l] => k = l
  BY <1>1, ListElems
<1>6. \A k : /\ k \in 1..n <=> k \in 1..(n - 1) \/ k = n
             /\ k \in 1..(n - 1) => k # n
  BY <1>2
<1>7. \A x : x \in Range(Front(s)) <=> x \in Range(s) \ {s[n]}
  BY <1>4, <1>5, <1>6
<1> QED
  BY <1>2, <1>4, <1>5, <1>6, <1>7
===============================================================================
