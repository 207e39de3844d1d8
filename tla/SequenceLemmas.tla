--------------------------- MODULE SequenceLemmas ---------------------------
(***************************************************************************)
(* What the operators on sequences that the models use do to the elements  *)
(* of a sequence, to their order and to their being distinct.              *)
(***************************************************************************)
EXTENDS Integers, SequencesExt, SequenceTheorems, TLAPS

(* What appending, and taking the first, do to the members of a sequence.  *)
LEMMA ToSetAppend ==
  ASSUME NEW S, NEW s \in Seq(S), NEW e \in S
  PROVE  ToSet(Append(s, e)) = ToSet(s) \cup {e}
<1>1. /\ Len(Append(s, e)) = Len(s) + 1
      /\ \A i \in 1 .. Len(s) : Append(s, e)[i] = s[i]
      /\ Append(s, e)[Len(s) + 1] = e
      /\ DOMAIN Append(s, e) = 1 .. Len(s) + 1
      /\ DOMAIN s = 1 .. Len(s)
      /\ Len(s) \in Nat
  OBVIOUS
<1>2. QED  BY <1>1, SMT DEF ToSet

LEMMA ToSetHeadTail ==
  ASSUME NEW S, NEW s \in Seq(S), s # <<>>
  PROVE  ToSet(s) = {Head(s)} \cup ToSet(Tail(s))
<1>1. /\ Len(s) \in Nat \ {0}
      /\ Head(s) = s[1]
      /\ DOMAIN Tail(s) = 1 .. Len(s) - 1
      /\ \A i \in 1 .. Len(s) - 1 : Tail(s)[i] = s[i + 1]
      /\ DOMAIN s = 1 .. Len(s)
  OBVIOUS
<1>2. ASSUME NEW i \in 1 .. Len(s), i # 1
      PROVE  i - 1 \in 1 .. Len(s) - 1 /\ s[i] = Tail(s)[i - 1]
  BY <1>1, <1>2
<1>3. ASSUME NEW i \in 1 .. Len(s)
      PROVE  s[i] \in {Head(s)} \cup ToSet(Tail(s))
  BY <1>1, <1>2, <1>3 DEF ToSet
<1>4. ASSUME NEW i \in 1 .. Len(s) - 1
      PROVE  Tail(s)[i] \in ToSet(s)
  BY <1>1 DEF ToSet
<1>5. Head(s) \in ToSet(s)
  BY <1>1 DEF ToSet
<1>6. QED  BY <1>1, <1>3, <1>4, <1>5 DEF ToSet

(* Nothing stands twice in a sequence.                                     *)
Distinct(q) == \A i, j \in 1 .. Len(q) : i # j => q[i] # q[j]

(* Where nothing stands twice, taking out the first e is taking out what   *)
(* is at the one position that holds e.                                    *)
LEMMA RemoveFirstIsRemoveAt ==
  ASSUME NEW q, Distinct(q), NEW k \in 1 .. Len(q)
  PROVE  RemoveFirst(q, q[k]) = RemoveAt(q, k)
<1> DEFINE I == {i \in 1 .. Len(q) : q[i] = q[k]}
<1>1. I = {k}
  BY DEF Distinct
<1>2. RemoveFirst(q, q[k]) = RemoveAt(q, Min(I))
  BY <1>1 DEF RemoveFirst, SelectInSeq
<1>3. Min({k}) = k
  BY DEF Min
<1> QED
  BY <1>1, <1>2, <1>3

(* What is left when one element of a sequence is taken out.               *)
LEMMA RemoveAtProperties ==
  ASSUME NEW S, NEW q \in Seq(S), NEW k \in 1 .. Len(q)
  PROVE  /\ RemoveAt(q, k) \in Seq(S)
         /\ Len(RemoveAt(q, k)) = Len(q) - 1
         /\ \A i \in 1 .. Len(q) - 1 :
              RemoveAt(q, k)[i] = IF i < k THEN q[i] ELSE q[i + 1]
<1> DEFINE a == SubSeq(q, 1, k - 1)
           b == SubSeq(q, k + 1, Len(q))
<1>1. Len(q) \in Nat /\ \A i \in 1 .. Len(q) : q[i] \in S
  BY LenProperties, ElementOfSeq
<1>2. /\ a \in Seq(S)
      /\ Len(a) = k - 1
      /\ \A i \in 1 .. k - 1 : a[i] = q[i]
  BY <1>1, SubSeqProperties
<1>3. /\ b \in Seq(S)
      /\ Len(b) = Len(q) - k
      /\ \A i \in 1 .. Len(q) - k : b[i] = q[k + i]
  BY <1>1, SubSeqProperties
<1>4. /\ a \o b \in Seq(S)
      /\ Len(a \o b) = Len(a) + Len(b)
      /\ \A i \in 1 .. Len(a) + Len(b) :
           (a \o b)[i] = IF i <= Len(a) THEN a[i] ELSE b[i - Len(a)]
  BY <1>2, <1>3, ConcatProperties
<1>5. RemoveAt(q, k) = a \o b
  BY DEF RemoveAt
<1> HIDE DEF a, b
<1>6. \A i \in 1 .. Len(q) - 1 :
        (a \o b)[i] = IF i <= k - 1 THEN a[i] ELSE b[i - (k - 1)]
  BY <1>1, <1>2, <1>3, <1>4
<1>7. ASSUME NEW i \in 1 .. Len(q) - 1, i < k
      PROVE  (a \o b)[i] = q[i]
  BY <1>1, <1>2, <1>6, <1>7
<1>8. ASSUME NEW i \in 1 .. Len(q) - 1, i >= k
      PROVE  (a \o b)[i] = q[i + 1]
  <2>1. i - (k - 1) \in 1 .. Len(q) - k /\ k + (i - (k - 1)) = i + 1
    BY <1>1, <1>8
  <2>2. b[i - (k - 1)] = q[i + 1]
    BY <1>3, <2>1
  <2>3. k \in Nat /\ i \in Nat /\ ~(i <= k - 1)
    BY <1>1, <1>8
  <2> QED
    BY <1>6, <2>2, <2>3
<1>9. a \o b \in Seq(S) /\ Len(a \o b) = Len(q) - 1
  BY <1>1, <1>2, <1>3, <1>4
<1>10. ASSUME NEW i \in 1 .. Len(q) - 1
       PROVE  (a \o b)[i] = IF i < k THEN q[i] ELSE q[i + 1]
  <2>1. k \in Nat /\ i \in Nat /\ (i < k \/ i >= k)
    BY <1>1
  <2>2. CASE i < k
    BY <1>7, <2>2
  <2>3. CASE i >= k
    <3>1. ~(i < k)
      BY <2>1, <2>3
    <3> QED
      BY <1>8, <2>3, <3>1
  <2> QED
    BY <2>1, <2>2, <2>3
<1> QED
  BY <1>5, <1>9, <1>10

(* Where nothing stands twice, taking an element out leaves a sequence.    *)
LEMMA RemoveFirstType ==
  ASSUME NEW S, NEW q \in Seq(S), NEW e, Distinct(q)
  PROVE  RemoveFirst(q, e) \in Seq(S)
<1>1. CASE \E k \in 1 .. Len(q) : q[k] = e
  BY <1>1, RemoveFirstIsRemoveAt, RemoveAtProperties
<1>2. CASE ~ \E k \in 1 .. Len(q) : q[k] = e
  BY <1>2 DEF RemoveFirst
<1> QED
  BY <1>1, <1>2

(* Cutting, removing and adding what is new keep the elements distinct.    *)
LEMMA StaysDistinct ==
  ASSUME NEW S, NEW q \in Seq(S), Distinct(q)
  PROVE  /\ Distinct(SubSeq(q, 3, Len(q)))
         /\ \A e \in S : /\ Distinct(RemoveFirst(q, e))
                         /\ ~Contains(q, e) => Distinct(Append(q, e))
<1> DEFINE n == Len(q)
<1>1. n \in Nat
  BY LenProperties
<1>2. Distinct(SubSeq(q, 3, n))
  <2>1. \A i \in 3 .. n : q[i] \in S
    BY <1>1, ElementOfSeq
  <2>2. /\ Len(SubSeq(q, 3, n)) = IF 3 <= n THEN n - 3 + 1 ELSE 0
        /\ \A i \in 1 .. n - 3 + 1 : SubSeq(q, 3, n)[i] = q[3 + i - 1]
    BY <1>1, <2>1, SubSeqProperties
  <2> DEFINE t == SubSeq(q, 3, n)
  <2> HIDE DEF n, t
  <2>3. ASSUME NEW i \in 1 .. Len(t), NEW j \in 1 .. Len(t), i # j
        PROVE  t[i] # t[j]
    <3>1. /\ 3 + i - 1 \in 1 .. n
          /\ 3 + j - 1 \in 1 .. n
          /\ 3 + i - 1 # 3 + j - 1
          /\ i \in 1 .. n - 3 + 1
          /\ j \in 1 .. n - 3 + 1
      BY <1>1, <2>2, <2>3 DEF t
    <3>2. t[i] = q[3 + i - 1] /\ t[j] = q[3 + j - 1]
      BY <2>2, <3>1 DEF t
    <3> QED
      BY <3>1, <3>2 DEF Distinct, n
  <2> QED
    BY <2>3 DEF Distinct, t
<1>3. ASSUME NEW e \in S
      PROVE  Distinct(RemoveFirst(q, e))
  <2>1. CASE Contains(q, e)
    <3>1. PICK k \in 1 .. n : q[k] = e
      BY <2>1 DEF Contains
    <3>2. RemoveFirst(q, e) = RemoveAt(q, k)
      BY <3>1, RemoveFirstIsRemoveAt
    <3> DEFINE t == RemoveAt(q, k)
    <3>3. /\ Len(t) = n - 1
          /\ \A i \in 1 .. n - 1 : t[i] = IF i < k THEN q[i] ELSE q[i + 1]
      BY RemoveAtProperties
    <3> HIDE DEF n, t
    <3>4. ASSUME NEW i \in 1 .. Len(t), NEW j \in 1 .. Len(t), i < j
          PROVE  t[i] # t[j]
      <4>1. /\ i \in 1 .. n - 1
            /\ j \in 1 .. n - 1
            /\ i \in 1 .. n
            /\ j \in 1 .. n
            /\ i + 1 \in 1 .. n
            /\ j + 1 \in 1 .. n
            /\ i # j
            /\ i # j + 1
            /\ i + 1 # j + 1
            /\ ~(i < k) => ~(j < k)
        BY <1>1, <3>1, <3>3, <3>4
      <4> QED
        BY <3>3, <4>1 DEF Distinct, n
    <3>5. ASSUME NEW i \in 1 .. Len(t), NEW j \in 1 .. Len(t), i # j
          PROVE  t[i] # t[j]
      <4>1. i < j \/ j < i
        BY <1>1, <3>3, <3>5
      <4> QED
        BY <3>4, <4>1
    <3> QED
      BY <3>2, <3>5 DEF Distinct, t
  <2>2. CASE ~Contains(q, e)
    BY <2>2 DEF RemoveFirst, Contains
  <2> QED
    BY <2>1, <2>2
<1>4. ASSUME NEW e \in S, ~Contains(q, e)
      PROVE  Distinct(Append(q, e))
  <2> DEFINE t == Append(q, e)
  <2>1. /\ Len(t) = n + 1
        /\ \A i \in 1 .. n : t[i] = q[i]
        /\ t[n + 1] = e
    BY AppendProperties
  <2> HIDE DEF n, t
  <2>2. ASSUME NEW i \in 1 .. Len(t), NEW j \in 1 .. Len(t), i # j
        PROVE  t[i] # t[j]
    <3>1. /\ i \in 1 .. n \/ i = n + 1
          /\ j \in 1 .. n \/ j = n + 1
      BY <1>1, <2>1
    <3>2. \A m \in 1 .. n : q[m] # e
      BY <1>4 DEF Contains, n
    <3>3. \A l, m \in 1 .. n : l # m => q[l] # q[m]
      BY DEF Distinct, n
    <3> QED
      BY <2>1, <2>2, <3>1, <3>2, <3>3
  <2> QED
    BY <2>2 DEF Distinct, t
<1> QED
  BY <1>2, <1>3, <1>4


(* The members of a sequence are the fewer by what is removed.             *)
LEMMA ToSetRemoveFirst ==
  ASSUME NEW S, NEW q \in Seq(S), Distinct(q), NEW e
  PROVE  ToSet(RemoveFirst(q, e)) = ToSet(q) \ {e}
<1>1. DOMAIN q = 1 .. Len(q) /\ Len(q) \in Nat
  BY LenProperties
<1>2. CASE ~ \E k \in 1 .. Len(q) : q[k] = e
  BY <1>1, <1>2 DEF RemoveFirst, ToSet
<1>3. CASE \E k \in 1 .. Len(q) : q[k] = e
  <2>1. PICK k \in 1 .. Len(q) : q[k] = e
    BY <1>3
  <2> DEFINE t == RemoveAt(q, k)
  <2>2. RemoveFirst(q, e) = t
    BY <2>1, RemoveFirstIsRemoveAt
  <2>3. /\ t \in Seq(S)
        /\ Len(t) = Len(q) - 1
        /\ \A i \in 1 .. Len(q) - 1 : t[i] = IF i < k THEN q[i] ELSE q[i + 1]
    BY RemoveAtProperties
  <2> HIDE DEF t
  <2>4. DOMAIN t = 1 .. Len(q) - 1
    BY <2>3, LenProperties
  <2>5. ASSUME NEW i \in 1 .. Len(q) - 1
        PROVE  t[i] \in ToSet(q) \ {e}
    <3>1. /\ i < k => t[i] = q[i] /\ i \in 1 .. Len(q) /\ i # k
          /\ ~(i < k) => t[i] = q[i + 1] /\ i + 1 \in 1 .. Len(q) /\ i + 1 # k
      BY <1>1, <2>1, <2>3
    <3>2. QED  BY <1>1, <2>1, <3>1 DEF ToSet, Distinct
  <2>6. ASSUME NEW i \in 1 .. Len(q), q[i] # e
        PROVE  q[i] \in ToSet(t)
    <3>1. CASE i < k
      <4>1. i \in 1 .. Len(q) - 1 /\ t[i] = q[i]
        BY <1>1, <2>1, <2>3, <3>1
      <4>2. QED  BY <2>4, <4>1 DEF ToSet
    <3>2. CASE i > k
      <4>1. i - 1 \in 1 .. Len(q) - 1 /\ ~(i - 1 < k) /\ (i - 1) + 1 = i
        BY <1>1, <2>1, <3>2
      <4>2. t[i - 1] = q[i]
        BY <2>3, <4>1
      <4>3. QED  BY <2>4, <4>1, <4>2 DEF ToSet
    <3>3. i # k
      BY <2>1, <2>6
    <3>4. QED  BY <1>1, <3>1, <3>2, <3>3
  <2>7. QED  BY <1>1, <2>2, <2>4, <2>5, <2>6 DEF ToSet
<1>4. QED  BY <1>2, <1>3

(* What is first in a sequence without duplicates is not among the rest.   *)
LEMMA DistinctTail ==
  ASSUME NEW S, NEW q \in Seq(S), q # <<>>, Distinct(q)
  PROVE  Distinct(Tail(q)) /\ Head(q) \notin ToSet(Tail(q))
<1>1. /\ Len(q) \in Nat \ {0}
      /\ Head(q) = q[1]
      /\ Len(Tail(q)) = Len(q) - 1
      /\ DOMAIN Tail(q) = 1 .. Len(q) - 1
      /\ \A i \in 1 .. Len(q) - 1 : Tail(q)[i] = q[i + 1]
  OBVIOUS
<1>2. ASSUME NEW i \in 1 .. Len(q) - 1
      PROVE  i + 1 \in 1 .. Len(q) /\ i + 1 # 1 /\ 1 \in 1 .. Len(q)
  BY <1>1
<1>3. Distinct(Tail(q))
  <2>1. ASSUME NEW i \in 1 .. Len(q) - 1, NEW j \in 1 .. Len(q) - 1, i # j
        PROVE  q[i + 1] # q[j + 1]
    <3>1. i + 1 # j + 1
      BY <2>1
    <3>2. QED  BY <1>2, <3>1 DEF Distinct
  <2>2. QED  BY <1>1, <2>1 DEF Distinct
<1>4. Head(q) \notin ToSet(Tail(q))
  BY <1>1, <1>2 DEF Distinct, ToSet
<1>5. QED  BY <1>3, <1>4
(* The order of two elements survives whatever happens to a third one, the *)
(* loss of the first two, if the earlier is left, and an addition behind.  *)
InOrder(q, e, f) ==
  \E i, j \in 1 .. Len(q) : i < j /\ q[i] = e /\ q[j] = f

LEMMA OrderAfterAppend ==
  ASSUME NEW S, NEW q \in Seq(S), NEW d \in S, NEW e, NEW f, InOrder(q, e, f)
  PROVE  InOrder(Append(q, d), e, f)
<1> DEFINE t == Append(q, d)
<1>1. Len(q) \in Nat /\ Len(t) = Len(q) + 1 /\ \A i \in 1 .. Len(q) : t[i] = q[i]
  BY AppendProperties
<1> HIDE DEF t
<1>2. PICK i, j \in 1 .. Len(q) : i < j /\ q[i] = e /\ q[j] = f
  BY DEF InOrder
<1>3. i \in 1 .. Len(t) /\ j \in 1 .. Len(t) /\ t[i] = e /\ t[j] = f
  BY <1>1, <1>2
<1> QED
  BY <1>2, <1>3 DEF InOrder, t

LEMMA OrderAfterRemoval ==
  ASSUME NEW S, NEW q \in Seq(S), NEW k \in 1 .. Len(q), NEW e, NEW f,
         InOrder(q, e, f), q[k] # e, q[k] # f
  PROVE  InOrder(RemoveAt(q, k), e, f)
<1> DEFINE t == RemoveAt(q, k)
<1>1. /\ Len(q) \in Nat
      /\ Len(t) = Len(q) - 1
      /\ \A i \in 1 .. Len(q) - 1 : t[i] = IF i < k THEN q[i] ELSE q[i + 1]
  BY LenProperties, RemoveAtProperties
<1> HIDE DEF t
<1>2. PICK i, j \in 1 .. Len(q) : i < j /\ q[i] = e /\ q[j] = f
  BY DEF InOrder
<1> DEFINE Moved(m) == IF m < k THEN m ELSE m - 1
<1>3. ASSUME NEW m \in 1 .. Len(q), m # k
      PROVE  Moved(m) \in 1 .. Len(t) /\ t[Moved(m)] = q[m]
  <2>1. k \in Nat /\ m \in Nat /\ (m < k \/ m > k)
    BY <1>1, <1>3
  <2>2. CASE m < k
    <3>1. m \in 1 .. Len(q) - 1 /\ Moved(m) = m
      BY <1>1, <2>1, <2>2
    <3> QED
      BY <1>1, <2>2, <3>1
  <2>3. CASE m > k
    <3>1. /\ m - 1 \in 1 .. Len(q) - 1
          /\ Moved(m) = m - 1
          /\ ~(m - 1 < k)
          /\ (m - 1) + 1 = m
      BY <1>1, <2>1, <2>3
    <3> QED
      BY <1>1, <3>1
  <2> QED
    BY <2>1, <2>2, <2>3
<1>4. Moved(i) < Moved(j)
  BY <1>1, <1>2
<1>5. i # k /\ j # k
  BY <1>2
<1> HIDE DEF Moved
<1>6. /\ Moved(i) \in 1 .. Len(t) /\ t[Moved(i)] = e
      /\ Moved(j) \in 1 .. Len(t) /\ t[Moved(j)] = f
  BY <1>2, <1>3, <1>5
<1> QED
  BY <1>4, <1>6 DEF InOrder, t

LEMMA OrderAfterCut ==
  ASSUME NEW S, NEW q \in Seq(S), Distinct(q), NEW e, NEW f, InOrder(q, e, f),
         \E i \in 1 .. Len(SubSeq(q, 3, Len(q))) : SubSeq(q, 3, Len(q))[i] = e
  PROVE  InOrder(SubSeq(q, 3, Len(q)), e, f)
<1> DEFINE n == Len(q)
           t == SubSeq(q, 3, n)
<1>1. n \in Nat /\ \A i \in 3 .. n : q[i] \in S
  BY LenProperties, ElementOfSeq
<1>2. /\ Len(t) = IF 3 <= n THEN n - 3 + 1 ELSE 0
      /\ \A i \in 1 .. n - 3 + 1 : t[i] = q[3 + i - 1]
  BY <1>1, SubSeqProperties
<1>3. /\ \E i \in 1 .. Len(t) : t[i] = e
      /\ \A i, j \in 1 .. n : i # j => q[i] # q[j]
  BY DEF Distinct
<1>4. PICK i, j \in 1 .. n : i < j /\ q[i] = e /\ q[j] = f
  BY DEF InOrder
<1> HIDE DEF n, t
<1>5. PICK m \in 1 .. Len(t) : t[m] = e
  BY <1>3
<1>6. m \in 1 .. n - 3 + 1 /\ 3 + m - 1 \in 1 .. n
  BY <1>1, <1>2, <1>5
<1>7. q[3 + m - 1] = e
  BY <1>2, <1>5, <1>6
<1>8. i = 3 + m - 1
  BY <1>3, <1>4, <1>6, <1>7
<1>9. /\ i - 2 \in 1 .. Len(t)
      /\ j - 2 \in 1 .. Len(t)
      /\ i - 2 < j - 2
      /\ i - 2 \in 1 .. n - 3 + 1
      /\ j - 2 \in 1 .. n - 3 + 1
      /\ 3 + (i - 2) - 1 = i
      /\ 3 + (j - 2) - 1 = j
  BY <1>1, <1>2, <1>4, <1>6, <1>8
<1>10. t[i - 2] = e /\ t[j - 2] = f
  BY <1>2, <1>4, <1>9
<1> QED
  BY <1>9, <1>10 DEF InOrder, t, n
(* Nor does any step of a line in which nobody stands twice.               *)
LEMMA OrderKept ==
  ASSUME NEW S, NEW l \in Seq(S), Distinct(l), NEW m,
         \/ m = l
         \/ m = SubSeq(l, 3, Len(l))
         \/ \E s \in S : m = Append(l, s)
         \/ \E s \in S : Contains(l, s) /\ m = RemoveFirst(l, s),
         NEW p, NEW q, InOrder(l, p, q),
         \E i \in 1 .. Len(m) : m[i] = p, \E i \in 1 .. Len(m) : m[i] = q
  PROVE  InOrder(m, p, q)
<1>1. CASE m = SubSeq(l, 3, Len(l))
  <2> DEFINE t == SubSeq(l, 3, Len(l))
  <2>1. \E i \in 1 .. Len(t) : t[i] = p
    BY <1>1, Zenon
  <2>2. InOrder(t, p, q)
    BY <2>1, OrderAfterCut
  <2> QED
    BY <1>1, <2>2, Zenon
<1>2. ASSUME NEW s \in S, m = Append(l, s)
      PROVE  InOrder(m, p, q)
  <2>1. InOrder(Append(l, s), p, q)
    BY OrderAfterAppend
  <2> QED
    BY <1>2, <2>1, Zenon
<1>3. ASSUME NEW s \in S, Contains(l, s), m = RemoveFirst(l, s)
      PROVE  InOrder(m, p, q)
  <2>1. m \in Seq(S) /\ ToSet(m) = ToSet(l) \ {s}
    BY <1>3, RemoveFirstType, ToSetRemoveFirst
  <2>2. p \in ToSet(m) /\ q \in ToSet(m)
    BY <2>1 DEF ToSet
  <2>3. p # s /\ q # s
    BY <2>1, <2>2
  <2>4. PICK k \in 1 .. Len(l) : l[k] = s
    BY <1>3 DEF Contains
  <2>5. m = RemoveAt(l, k)
    BY <1>3, <2>4, RemoveFirstIsRemoveAt
  <2>6. InOrder(RemoveAt(l, k), p, q)
    BY <2>3, <2>4, OrderAfterRemoval
  <2> QED
    BY <2>5, <2>6, Zenon
<1> QED
  BY <1>1, <1>2, <1>3, Zenon
=============================================================================
