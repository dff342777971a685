--------------------------- MODULE SequenceLemmas ---------------------------
(***************************************************************************)
(* What the proofs about lists and texts rest on: induction over the       *)
(* natural numbers, stated of sets, for the provers do not instantiate a   *)
(* theorem about every operator; and the order in which a list holds its   *)
(* elements.                                                               *)
(***************************************************************************)
EXTENDS SequencesExt, Integers, FiniteSetTheorems, SequenceTheorems,
        WellFoundedInduction, TLAPS

(* A set of natural numbers that is not empty has a least element.         *)
THEOREM LeastNatural ==
  ASSUME NEW T, T \subseteq Nat, T # {}
  PROVE  \E x \in T : \A y \in T : x <= y
  <1>1. IsWellFoundedOn(OpToRel(<, Nat), Nat)
    BY NatLessThanWellFounded
  <1>2. PICK x \in T : \A y \in T : ~ (<<y, x>> \in OpToRel(<, Nat))
    BY <1>1, WFMin
  <1>3. \A y \in T : x \in Nat /\ y \in Nat /\ <<y, x>> \in Nat \X Nat
    BY <1>2
  <1>4. \A y \in T : ~(y < x)
    BY <1>2, <1>3 DEF OpToRel
  <1>5. \A y \in T : x <= y
    BY <1>3, <1>4
  <1> QED
    BY <1>2, <1>5

(* Induction: what contains 0 and with each number the next contains every *)
(* natural number.                                                         *)
THEOREM NatSetInduction ==
  ASSUME NEW T, 0 \in T, \A n \in Nat : n \in T => n + 1 \in T
  PROVE  Nat \subseteq T
  <1>1. SUFFICES ASSUME Nat \ T # {} PROVE FALSE
    OBVIOUS
  <1>2. PICK x \in Nat \ T : \A y \in Nat \ T : x <= y
    BY <1>1, LeastNatural
  <1>3. x # 0 /\ x \in Nat /\ x - 1 \in Nat
    BY <1>2
  <1>4. x - 1 \in T
    BY <1>2, <1>3
  <1> QED
    BY <1>2, <1>3, <1>4

(* The least element.                                                      *)
LEMMA MinFacts ==
  ASSUME NEW T, T \subseteq Nat, T # {}
  PROVE  Min(T) \in T /\ \A y \in T : Min(T) <= y
  BY LeastNatural DEF Min

-----------------------------------------------------------------------------
(* s holds a somewhere before it holds b.                                  *)
Before(s, a, b) == \E i, j \in DOMAIN s : i < j /\ s[i] = a /\ s[j] = b

(* No element twice.                                                       *)
Distinct(s) == \A a \in ToSet(s) : ~Before(s, a, a)

(* Both, in terms of elements.                                             *)
LEMMA DistinctOrder ==
  ASSUME NEW s
  PROVE  /\ \A a, b : Before(s, a, b) => a \in ToSet(s) /\ b \in ToSet(s)
         /\ Distinct(s) <=> \A a : ~Before(s, a, a)
  BY DEF Distinct, Before, ToSet

(* Such a list holds an element at one index only.                         *)
LEMMA DistinctIndex ==
  ASSUME NEW S, NEW s \in Seq(S), Distinct(s), NEW i \in DOMAIN s, NEW j \in DOMAIN s, s[i] = s[j]
  PROVE  i = j
  <1>1. DOMAIN s = 1 .. Len(s) /\ Len(s) \in Nat
    BY LenProperties
  <1>2. i < j => Before(s, s[i], s[i])
    BY DEF Before
  <1>3. j < i => Before(s, s[i], s[i])
    BY DEF Before
  <1>4. ~Before(s, s[i], s[i])
    BY DistinctOrder
  <1> QED
    BY <1>1, <1>2, <1>3, <1>4

(* Such a list is as long as its elements are many.                        *)
LEMMA DistinctLength ==
  ASSUME NEW S, NEW s \in Seq(S), Distinct(s)
  PROVE  /\ IsFiniteSet(ToSet(s))
         /\ Cardinality(ToSet(s)) = Len(s)
  <1>1. s \in [1 .. Len(s) -> ToSet(s)] /\ DOMAIN s = 1 .. Len(s) /\ Len(s) \in Nat
    BY LenProperties DEF ToSet
  <1>2. \A i, j \in 1 .. Len(s) : s[i] = s[j] => i = j
    BY <1>1, DistinctIndex
  <1>3. s \in Injection(1 .. Len(s), ToSet(s)) /\ s \in Surjection(1 .. Len(s), ToSet(s))
    BY <1>1, <1>2 DEF Injection, Surjection, ToSet, IsInjective
  <1>4. ExistsBijection(1 .. Len(s), ToSet(s))
    BY <1>3 DEF ExistsBijection, Bijection
  <1>5. IsFiniteSet(1 .. Len(s)) /\ Cardinality(1 .. Len(s)) = Len(s)
    <2>1. IsFiniteSet(1 .. Len(s)) /\ Cardinality(1 .. Len(s)) = IF 1 > Len(s) THEN 0 ELSE Len(s) - 1 + 1
      BY <1>1, FS_Interval
    <2> QED
      BY <1>1, <2>1
  <1> HIDE DEF Before, Distinct
  <1> QED
    BY <1>4, <1>5, FS_Bijection

(* An element of such a list has one place.                                *)
LEMMA DistinctPlace ==
  ASSUME NEW S, NEW s \in Seq(S), Distinct(s), NEW a, NEW b, Before(s, a, b)
  PROVE  (CHOOSE i \in DOMAIN s : s[i] = a) < (CHOOSE i \in DOMAIN s : s[i] = b)
  <1>1. DOMAIN s = 1 .. Len(s) /\ Len(s) \in Nat
    BY LenProperties
  <1>2. PICK i, j \in DOMAIN s : i < j /\ s[i] = a /\ s[j] = b
    BY DEF Before
  <1>3. \A k, l \in DOMAIN s : s[k] = s[l] => k = l
    BY DistinctIndex
  <1>4. (CHOOSE k \in DOMAIN s : s[k] = a) = i /\ (CHOOSE k \in DOMAIN s : s[k] = b) = j
    BY <1>2, <1>3
  <1> QED
    BY <1>2, <1>4

(* Append puts an element behind all others.                               *)
LEMMA AppendOrder ==
  ASSUME NEW S, NEW s \in Seq(S), NEW n \in S
  PROVE  /\ Append(s, n) \in Seq(S)
         /\ Len(Append(s, n)) = Len(s) + 1
         /\ ToSet(Append(s, n)) = ToSet(s) \cup {n}
         /\ \A a, b : Before(Append(s, n), a, b) <=>
                          Before(s, a, b) \/ (a \in ToSet(s) /\ b = n)
  <1> DEFINE t == Append(s, n)
  <1>1. /\ t \in Seq(S) /\ Len(t) = Len(s) + 1 /\ t[Len(s) + 1] = n
        /\ \A i \in 1 .. Len(s) : t[i] = s[i]
        /\ DOMAIN s = 1 .. Len(s) /\ DOMAIN t = 1 .. Len(s) + 1 /\ Len(s) \in Nat
    BY AppendProperties, LenProperties
  <1> HIDE DEF t
  <1>2. ToSet(t) = ToSet(s) \cup {n}
    <2>1. \A x : x \in ToSet(t) <=> \E i \in 1 .. Len(s) + 1 : t[i] = x
      BY <1>1 DEF ToSet
    <2>2. \A x : x \in ToSet(s) <=> \E i \in 1 .. Len(s) : s[i] = x
      BY <1>1 DEF ToSet
    <2>3. \A x : x \in ToSet(t) <=> x \in ToSet(s) \/ x = n
      BY <2>1, <2>2, <1>1
    <2> QED
      BY <2>3
  <1>3. ASSUME NEW a, NEW b
        PROVE  Before(t, a, b) <=> Before(s, a, b) \/ (a \in ToSet(s) /\ b = n)
    <2>1. Before(t, a, b) <=> \E i, j \in 1 .. Len(s) + 1 : i < j /\ t[i] = a /\ t[j] = b
      BY <1>1 DEF Before
    <2>2. Before(s, a, b) <=> \E i, j \in 1 .. Len(s) : i < j /\ s[i] = a /\ s[j] = b
      BY <1>1 DEF Before
    <2>3. a \in ToSet(s) <=> \E i \in 1 .. Len(s) : s[i] = a
      BY <1>1 DEF ToSet
    <2>4. ASSUME Before(t, a, b)
          PROVE  Before(s, a, b) \/ (a \in ToSet(s) /\ b = n)
      <3>1. PICK i, j \in 1 .. Len(s) + 1 : i < j /\ t[i] = a /\ t[j] = b
        BY <2>1, <2>4
      <3>2. i \in 1 .. Len(s) /\ s[i] = a /\ (j \in 1 .. Len(s) \/ j = Len(s) + 1)
        BY <3>1, <1>1
      <3> QED
        BY <3>1, <3>2, <2>2, <2>3, <1>1
    <2>5. ASSUME Before(s, a, b) PROVE Before(t, a, b)
      <3>1. PICK i, j \in 1 .. Len(s) : i < j /\ s[i] = a /\ s[j] = b
        BY <2>2, <2>5
      <3> QED
        BY <3>1, <2>1, <1>1
    <2>6. ASSUME a \in ToSet(s), b = n PROVE Before(t, a, b)
      <3>1. PICK i \in 1 .. Len(s) : s[i] = a
        BY <2>3, <2>6
      <3>2. i < Len(s) + 1 /\ t[i] = a /\ t[Len(s) + 1] = b
            /\ i \in 1 .. Len(s) + 1 /\ Len(s) + 1 \in 1 .. Len(s) + 1
        BY <3>1, <1>1, <2>6
      <3> QED
        BY <3>2, <2>1
    <2> QED
      BY <2>4, <2>5, <2>6
  <1> QED
    BY <1>1, <1>2, <1>3 DEF t

(* A list is its first k elements before the others.                       *)
LEMMA SplitOrder ==
  ASSUME NEW S, NEW s \in Seq(S), NEW k \in 0 .. Len(s)
  PROVE  /\ SubSeq(s, k + 1, Len(s)) \in Seq(S)
         /\ Len(SubSeq(s, k + 1, Len(s))) = Len(s) - k
         /\ ToSet(s) = ToSet(SubSeq(s, 1, k)) \cup ToSet(SubSeq(s, k + 1, Len(s)))
         /\ \A a, b : Before(SubSeq(s, k + 1, Len(s)), a, b) => Before(s, a, b)
         /\ \A a \in ToSet(SubSeq(s, 1, k)), b \in ToSet(SubSeq(s, k + 1, Len(s))) :
                Before(s, a, b)
  <1> DEFINE p == SubSeq(s, 1, k)
             t == SubSeq(s, k + 1, Len(s))
  <1>1. DOMAIN s = 1 .. Len(s) /\ Len(s) \in Nat /\ k \in Nat /\ \A i \in 1 .. Len(s) : s[i] \in S
    BY LenProperties, ElementOfSeq
  <1>2. /\ t \in Seq(S) /\ Len(t) = Len(s) - k /\ \A i \in 1 .. Len(s) - k : t[i] = s[k + i]
    <2>1. \A i \in k + 1 .. Len(s) : s[i] \in S
      BY <1>1
    <2>2. /\ t \in Seq(S) /\ Len(t) = IF k + 1 <= Len(s) THEN Len(s) - (k + 1) + 1 ELSE 0
          /\ \A i \in 1 .. Len(s) - (k + 1) + 1 : t[i] = s[(k + 1) + i - 1]
      BY <2>1, <1>1, SubSeqProperties
    <2> HIDE DEF p, t
    <2>3. k + 1 <= Len(s) \/ Len(s) - k = 0
      <3>1. k \in Nat /\ Len(s) \in Nat /\ k <= Len(s)
        BY LenProperties
      <3> DEFINE l == Len(s)
      <3> HIDE DEF l
      <3>2. k \in Nat /\ l \in Nat /\ k <= l
        BY <3>1 DEF l
      <3>3. k + 1 <= l \/ l - k = 0
        BY <3>2
      <3> QED
        BY <3>3 DEF l
    <2>4. Len(s) - (k + 1) + 1 = Len(s) - k /\ \A i \in 1 .. Len(s) - k : (k + 1) + i - 1 = k + i
      BY <1>1
    <2>5. Len(t) = Len(s) - k
      BY <2>2, <2>3, <2>4
    <2>6. \A i \in 1 .. Len(s) - k : t[i] = s[k + i]
      BY <2>2, <2>4
    <2> QED
      BY <2>2, <2>5, <2>6
  <1>3. /\ p \in Seq(S) /\ Len(p) = k /\ \A i \in 1 .. k : p[i] = s[i]
    <2>1. \A i \in 1 .. k : s[i] \in S
      BY <1>1
    <2>2. /\ p \in Seq(S) /\ Len(p) = IF 1 <= k THEN k - 1 + 1 ELSE 0
          /\ \A i \in 1 .. k - 1 + 1 : p[i] = s[1 + i - 1]
      BY <2>1, <1>1, SubSeqProperties
    <2> HIDE DEF p
    <2> QED
      BY <2>2, <1>1
  <1>4. DOMAIN p = 1 .. k /\ DOMAIN t = 1 .. Len(s) - k
    BY <1>2, <1>3, LenProperties
  <1> HIDE DEF p, t
  <1>5. ToSet(s) = ToSet(p) \cup ToSet(t)
    <2>1. ASSUME NEW i \in 1 .. Len(s) PROVE s[i] \in ToSet(p) \cup ToSet(t)
      <3>1. CASE i \in 1 .. k
        BY <3>1, <1>3, <1>4 DEF ToSet
      <3>2. CASE i - k \in 1 .. Len(s) - k
        <4>1. t[i - k] = s[i]
          BY <3>2, <1>2, <1>1
        <4> QED
          BY <3>2, <4>1, <1>4 DEF ToSet
      <3> QED
        BY <3>1, <3>2, <1>1
    <2>2. \A i \in 1 .. k : p[i] \in ToSet(s)
      BY <1>1, <1>3 DEF ToSet
    <2>3. \A i \in 1 .. Len(s) - k : t[i] \in ToSet(s)
      <3>1. \A i \in 1 .. Len(s) - k : k + i \in DOMAIN s
        BY <1>1
      <3> QED
        BY <1>2, <3>1 DEF ToSet
    <2>4. ToSet(s) \subseteq ToSet(p) \cup ToSet(t)
      BY <2>1, <1>1 DEF ToSet
    <2>5. ToSet(p) \subseteq ToSet(s) /\ ToSet(t) \subseteq ToSet(s)
      BY <2>2, <2>3, <1>4 DEF ToSet
    <2> QED
      BY <2>4, <2>5
  <1>6. ASSUME NEW a, NEW b, Before(t, a, b) PROVE Before(s, a, b)
    <2>1. PICK i, j \in 1 .. Len(s) - k : i < j /\ t[i] = a /\ t[j] = b
      BY <1>4, <1>6 DEF Before
    <2>2. k + i \in DOMAIN s /\ k + j \in DOMAIN s /\ k + i < k + j
          /\ s[k + i] = a /\ s[k + j] = b
      BY <2>1, <1>1, <1>2
    <2> QED
      BY <2>2 DEF Before
  <1>7. ASSUME NEW a \in ToSet(p), NEW b \in ToSet(t) PROVE Before(s, a, b)
    <2>1. PICK i \in 1 .. k : s[i] = a
      BY <1>3, <1>4 DEF ToSet
    <2>2. PICK j \in 1 .. Len(s) - k : s[k + j] = b
      BY <1>2, <1>4 DEF ToSet
    <2>3. i \in DOMAIN s /\ k + j \in DOMAIN s /\ i < k + j
      BY <1>1
    <2> QED
      BY <2>1, <2>2, <2>3 DEF Before
  <1> QED
    BY <1>2, <1>5, <1>6, <1>7 DEF p, t

-----------------------------------------------------------------------------
(* The n elements of s behind the a-th are those of t behind the b-th.     *)
Agree(s, a, t, b, n) == \A k \in 1 .. n : s[a + k] = t[b + k]

(* Agreement is transitive.                                                *)
LEMMA AgreeTrans ==
  ASSUME NEW s, NEW a, NEW t, NEW b, NEW u, NEW c, NEW n,
         Agree(s, a, t, b, n), Agree(t, b, u, c, n)
  PROVE  Agree(s, a, u, c, n)
  BY DEF Agree

(* t is the texts a, b and c, of lengths p, n and q, in a row.             *)
InARow(t, S, a, b, c, p, n, q) ==
    /\ a \in Seq(S) /\ b \in Seq(S) /\ c \in Seq(S)
    /\ Len(a) = p /\ Len(b) = n /\ Len(c) = q
    /\ t = (a \o b) \o c

(* Where each of the three texts is.                                       *)
LEMMA ConcatThree ==
  ASSUME NEW t, NEW S, NEW a, NEW b, NEW c, NEW p \in Nat, NEW n \in Nat, NEW q \in Nat,
         InARow(t, S, a, b, c, p, n, q)
  PROVE  /\ t \in Seq(S)
         /\ Len(t) = p + n + q
         /\ Agree(t, 0, a, 0, p)
         /\ Agree(t, p, b, 0, n)
         /\ Agree(t, p + n, c, 0, q)
  <1> DEFINE h == a \o b
  <1>1. /\ h \in Seq(S) /\ Len(h) = p + n
        /\ \A k \in 1 .. p + n : h[k] = IF k <= p THEN a[k] ELSE b[k - p]
    BY ConcatProperties DEF InARow
  <1> HIDE DEF h
  <1>2. /\ t \in Seq(S) /\ Len(t) = p + n + q
        /\ \A k \in 1 .. p + n + q : t[k] = IF k <= p + n THEN h[k] ELSE c[k - (p + n)]
    <2>1. /\ h \o c \in Seq(S) /\ Len(h \o c) = Len(h) + Len(c)
          /\ \A k \in 1 .. Len(h) + Len(c) :
                (h \o c)[k] = IF k <= Len(h) THEN h[k] ELSE c[k - Len(h)]
      <3>1. h \in Seq(S) /\ c \in Seq(S)
        BY <1>1 DEF InARow
      <3> QED
        BY <3>1, ConcatProperties
    <2>2. Len(h) = p + n /\ Len(h) + Len(c) = p + n + q
      BY <1>1 DEF InARow
    <2>3. t = h \o c
      BY DEF h, InARow
    <2> QED
      BY <1>1, <2>1, <2>2, <2>3
  <1>3. ASSUME NEW k \in 1 .. p PROVE t[0 + k] = a[0 + k]
    <2>1. k \in 1 .. p + n /\ k \in 1 .. p + n + q /\ k <= p /\ k <= p + n /\ 0 + k = k
      OBVIOUS
    <2>2. t[k] = h[k] /\ h[k] = a[k]
      BY <1>1, <1>2, <2>1
    <2> QED
      BY <2>1, <2>2
  <1>4. ASSUME NEW k \in 1 .. n PROVE t[p + k] = b[0 + k]
    <2>1. p + k \in 1 .. p + n /\ p + k \in 1 .. p + n + q /\ ~(p + k <= p) /\ p + k - p = k
      OBVIOUS
    <2> QED
      BY <1>1, <1>2, <2>1
  <1>5. ASSUME NEW k \in 1 .. q PROVE t[p + n + k] = c[0 + k]
    <2> DEFINE i == p + n + k
    <2>1. i \in 1 .. p + n + q /\ ~(i <= p + n) /\ i - (p + n) = k /\ 0 + k = k
      OBVIOUS
    <2> HIDE DEF i
    <2>2. t[i] = c[i - (p + n)]
      BY <1>2, <2>1
    <2>3. t[i] = c[0 + k]
      BY <2>1, <2>2
    <2> QED
      BY <2>3 DEF i
  <1> QED
    BY <1>2, <1>3, <1>4, <1>5 DEF Agree

(* What stands before the i-th place and what stands from the j-th.        *)
LEMMA SplitAround ==
  ASSUME NEW S, NEW s \in Seq(S), NEW i \in 1 .. Len(s) + 1, NEW j \in i .. Len(s) + 1
  PROVE  /\ SubSeq(s, 1, i - 1) \in Seq(S) /\ Len(SubSeq(s, 1, i - 1)) = i - 1
         /\ Agree(SubSeq(s, 1, i - 1), 0, s, 0, i - 1)
         /\ SubSeq(s, j, Len(s)) \in Seq(S) /\ Len(SubSeq(s, j, Len(s))) = Len(s) + 1 - j
         /\ Agree(SubSeq(s, j, Len(s)), 0, s, j - 1, Len(s) + 1 - j)
  <1> DEFINE l == Len(s)
             a == SubSeq(s, 1, i - 1)
             c == SubSeq(s, j, l)
  <1>1. l \in Nat /\ \A k \in 1 .. l : s[k] \in S
    BY LenProperties, ElementOfSeq
  <1>2. i \in 1 .. l + 1 /\ j \in i .. l + 1
    OBVIOUS
  <1> HIDE DEF l
  <1>3. a \in Seq(S) /\ Len(a) = i - 1 /\ \A k \in 1 .. i - 1 : a[0 + k] = s[0 + k]
    <2>1. \A k \in 1 .. i - 1 : s[k] \in S
      BY <1>1, <1>2
    <2>2. /\ a \in Seq(S) /\ Len(a) = IF 1 <= i - 1 THEN i - 1 - 1 + 1 ELSE 0
          /\ \A k \in 1 .. i - 1 - 1 + 1 : a[k] = s[1 + k - 1]
      BY <2>1, <1>1, <1>2, SubSeqProperties
    <2> HIDE DEF a
    <2> QED
      BY <2>2, <1>1, <1>2
  <1>4. c \in Seq(S) /\ Len(c) = l + 1 - j /\ \A k \in 1 .. l + 1 - j : c[0 + k] = s[j - 1 + k]
    <2>1. \A k \in j .. l : s[k] \in S
      BY <1>1, <1>2
    <2>2. /\ c \in Seq(S) /\ Len(c) = IF j <= l THEN l - j + 1 ELSE 0
          /\ \A k \in 1 .. l - j + 1 : c[k] = s[j + k - 1]
      BY <2>1, <1>1, <1>2, SubSeqProperties
    <2> HIDE DEF c
    <2>3. Len(c) = l + 1 - j
      BY <2>2, <1>1, <1>2
    <2>4. ASSUME NEW k \in 1 .. l + 1 - j PROVE c[0 + k] = s[j - 1 + k]
      <3>1. j + k - 1 = j - 1 + k /\ k \in 1 .. l - j + 1 /\ 0 + k = k
        BY <1>1, <1>2
      <3> QED
        BY <2>2, <3>1
    <2> QED
      BY <2>2, <2>3, <2>4
  <1>5. Agree(a, 0, s, 0, i - 1) /\ Agree(c, 0, s, j - 1, l + 1 - j)
    BY <1>3, <1>4 DEF Agree
  <1> HIDE DEF a, c
  <1> QED
    BY <1>3, <1>4, <1>5 DEF l, a, c

(* InsertAt and RemoveAt, element by element.                              *)
LEMMA InsertAtElements ==
  ASSUME NEW S, NEW s \in Seq(S), NEW e \in S, NEW k \in 1 .. Len(s) + 1
  PROVE  /\ InsertAt(s, k, e) \in Seq(S)
         /\ Len(InsertAt(s, k, e)) = Len(s) + 1
         /\ \A i \in 1 .. k - 1 : InsertAt(s, k, e)[i] = s[i]
         /\ InsertAt(s, k, e)[k] = e
         /\ \A i \in k .. Len(s) : InsertAt(s, k, e)[i + 1] = s[i]
  <1> DEFINE l == Len(s)
             a == SubSeq(s, 1, k - 1)
             c == SubSeq(s, k, l)
             t == InsertAt(s, k, e)
  <1>1. l \in Nat /\ k \in 1 .. l + 1
    BY LenProperties
  <1>2. /\ a \in Seq(S) /\ Len(a) = k - 1 /\ Agree(a, 0, s, 0, k - 1)
        /\ c \in Seq(S) /\ Len(c) = l + 1 - k /\ Agree(c, 0, s, k - 1, l + 1 - k)
    BY <1>1, SplitAround
  <1>3. t = (a \o <<e>>) \o c
    BY DEF InsertAt
  <1> HIDE DEF l, a, c, t
  <1>4. InARow(t, S, a, <<e>>, c, k - 1, 1, l + 1 - k)
    BY <1>2, <1>3 DEF InARow
  <1>5. /\ t \in Seq(S) /\ Len(t) = k - 1 + 1 + (l + 1 - k)
        /\ Agree(t, 0, a, 0, k - 1) /\ Agree(t, k - 1, <<e>>, 0, 1)
        /\ Agree(t, k - 1 + 1, c, 0, l + 1 - k)
    <2>1. k - 1 \in Nat /\ 1 \in Nat /\ l + 1 - k \in Nat
      BY <1>1
    <2> QED
      BY <1>4, <2>1, ConcatThree
  <1>6. Len(t) = l + 1
    BY <1>1, <1>5
  <1>7. ASSUME NEW i \in 1 .. k - 1 PROVE t[i] = s[i]
    <2>1. t[0 + i] = a[0 + i] /\ a[0 + i] = s[0 + i] /\ 0 + i = i
      BY <1>1, <1>2, <1>5 DEF Agree
    <2> QED
      BY <2>1
  <1>8. t[k] = e
    <2>1. t[k - 1 + 1] = <<e>>[0 + 1] /\ k - 1 + 1 = k
      BY <1>1, <1>5 DEF Agree
    <2> QED
      BY <2>1
  <1>9. ASSUME NEW i \in k .. l PROVE t[i + 1] = s[i]
    <2> DEFINE j == i + 1 - k
    <2>1. j \in 1 .. l + 1 - k /\ k - 1 + 1 + j = i + 1 /\ k - 1 + j = i
      BY <1>1
    <2> HIDE DEF j
    <2>2. t[k - 1 + 1 + j] = c[0 + j] /\ c[0 + j] = s[k - 1 + j]
      BY <1>2, <1>5, <2>1 DEF Agree
    <2> QED
      BY <2>1, <2>2
  <1> QED
    BY <1>5, <1>6, <1>7, <1>8, <1>9 DEF t, l

(* An element taken out of a list.                                         *)
LEMMA RemoveAtElements ==
  ASSUME NEW S, NEW s \in Seq(S), NEW k \in 1 .. Len(s)
  PROVE  /\ RemoveAt(s, k) \in Seq(S)
         /\ Len(RemoveAt(s, k)) = Len(s) - 1
         /\ \A i \in 1 .. k - 1 : RemoveAt(s, k)[i] = s[i]
         /\ \A i \in k .. Len(s) - 1 : RemoveAt(s, k)[i] = s[i + 1]
  <1> DEFINE l == Len(s)
             a == SubSeq(s, 1, k - 1)
             c == SubSeq(s, k + 1, l)
             t == RemoveAt(s, k)
  <1>1. l \in Nat /\ k \in 1 .. l /\ k \in 1 .. l + 1 /\ k + 1 \in k .. l + 1
    BY LenProperties
  <1>2. /\ a \in Seq(S) /\ Len(a) = k - 1 /\ Agree(a, 0, s, 0, k - 1)
        /\ c \in Seq(S) /\ Len(c) = l + 1 - (k + 1)
        /\ Agree(c, 0, s, k + 1 - 1, l + 1 - (k + 1))
    BY <1>1, SplitAround
  <1>3. t = a \o c
    BY DEF RemoveAt
  <1> HIDE DEF l, a, c, t
  <1>4. /\ t \in Seq(S) /\ Len(t) = l - 1
        /\ \A i \in 1 .. l - 1 : t[i] = IF i <= k - 1 THEN a[i] ELSE c[i - (k - 1)]
    <2>1. /\ t \in Seq(S) /\ Len(t) = Len(a) + Len(c)
          /\ \A i \in 1 .. Len(a) + Len(c) : t[i] = IF i <= Len(a) THEN a[i] ELSE c[i - Len(a)]
      BY <1>2, <1>3, ConcatProperties
    <2>2. Len(a) + Len(c) = l - 1
      BY <1>1, <1>2
    <2> QED
      BY <1>2, <2>1, <2>2
  <1>5. ASSUME NEW i \in 1 .. k - 1 PROVE t[i] = s[i]
    <2>1. i \in 1 .. l - 1 /\ i <= k - 1 /\ 0 + i = i
      BY <1>1
    <2>2. a[0 + i] = s[0 + i]
      BY <1>2 DEF Agree
    <2> QED
      BY <1>4, <2>1, <2>2
  <1>6. ASSUME NEW i \in k .. l - 1 PROVE t[i] = s[i + 1]
    <2> DEFINE j == i - (k - 1)
    <2>1. /\ i \in 1 .. l - 1 /\ ~(i <= k - 1) /\ j \in 1 .. l + 1 - (k + 1)
          /\ 0 + j = j /\ k + 1 - 1 + j = i + 1
      BY <1>1
    <2>2. t[i] = c[j]
      BY <1>4, <2>1
    <2> HIDE DEF j
    <2>3. c[0 + j] = s[k + 1 - 1 + j]
      BY <1>2, <2>1 DEF Agree
    <2> QED
      BY <2>1, <2>2, <2>3
  <1> QED
    BY <1>4, <1>5, <1>6 DEF t, l

(* A function on 1 .. n is a list of length n.                             *)
LEMMA FunctionIsSeq ==
  ASSUME NEW S, NEW n \in Nat, NEW s \in [1 .. n -> S]
  PROVE  s \in Seq(S) /\ Len(s) = n
  <1>1. s \in Seq(S)
    BY SeqDef
  <1>2. DOMAIN s = 1 .. Len(s) /\ Len(s) \in Nat /\ DOMAIN s = 1 .. n
    BY <1>1, LenProperties
  <1> QED
    BY <1>1, <1>2

(* An element put in front of a list, and its first element taken off.     *)
LEMMA ConsElements ==
  ASSUME NEW S, NEW s \in Seq(S), NEW e \in S
  PROVE  /\ <<e>> \o s \in Seq(S) /\ Len(<<e>> \o s) = Len(s) + 1
         /\ (<<e>> \o s)[1] = e
         /\ \A i \in 1 .. Len(s) : (<<e>> \o s)[i + 1] = s[i]
  <1> DEFINE l == Len(s)
             t == <<e>> \o s
  <1>1. l \in Nat /\ <<e>> \in Seq(S) /\ Len(<<e>>) = 1 /\ <<e>>[1] = e
    BY LenProperties
  <1>2. /\ t \in Seq(S) /\ Len(t) = 1 + l
        /\ \A i \in 1 .. 1 + l : t[i] = IF i <= 1 THEN <<e>>[i] ELSE s[i - 1]
    <2>1. /\ t \in Seq(S) /\ Len(t) = Len(<<e>>) + Len(s)
          /\ \A i \in 1 .. Len(<<e>>) + Len(s) :
                t[i] = IF i <= Len(<<e>>) THEN <<e>>[i] ELSE s[i - Len(<<e>>)]
      BY <1>1, ConcatProperties
    <2> HIDE DEF t
    <2> QED
      BY <1>1, <2>1
  <1> HIDE DEF l, t
  <1>3. t[1] = e
    BY <1>1, <1>2
  <1>4. ASSUME NEW i \in 1 .. l PROVE t[i + 1] = s[i]
    <2>1. i + 1 \in 1 .. 1 + l /\ ~(i + 1 <= 1) /\ i + 1 - 1 = i
      BY <1>1
    <2> QED
      BY <1>2, <2>1
  <1> QED
    BY <1>1, <1>2, <1>3, <1>4 DEF l, t

(* The same list without its first element.                                *)
LEMMA TailElements ==
  ASSUME NEW S, NEW s \in Seq(S), NEW n \in Nat, Len(s) = n, n > 0
  PROVE  /\ Tail(s) \in Seq(S) /\ Len(Tail(s)) = n - 1
         /\ \A i \in 1 .. n - 1 : Tail(s)[i] = s[i + 1]
  <1>1. s # <<>>
    BY EmptySeq
  <1> QED
    BY <1>1, HeadTailProperties

(* What FlattenSeq holds are the elements of the lists it is given.        *)
LEMMA FlattenElements ==
  ASSUME NEW S, NEW ss \in Seq(Seq(S))
  PROVE  /\ FlattenSeq(ss) \in Seq(S) /\ Len(FlattenSeq(ss)) \in Nat
         /\ \A i \in 1 .. Len(FlattenSeq(ss)) :
               \E u \in 1 .. Len(ss) : \E k \in 1 .. Len(ss[u]) : FlattenSeq(ss)[i] = ss[u][k]
  <1> DEFINE Step(g, i) == IF i = 1 THEN ss[i] ELSE g[i - 1] \o ss[i]
             L == Len(ss)
             D == {n \in Nat : \E g : g = [i \in 1 .. n |-> Step(g, i)]}
             F == CHOOSE f : f = [i \in 1 .. L |-> Step(f, i)]
             From(t, n) == /\ t \in Seq(S)
                           /\ \A i \in 1 .. Len(t) :
                                 \E u \in 1 .. n : \E k \in 1 .. Len(ss[u]) : t[i] = ss[u][k]
             E == {n \in Nat : n + 1 <= L => From(F[n + 1], n + 1)}
  <1>1. L \in Nat /\ \A u \in 1 .. L : ss[u] \in Seq(S) /\ Len(ss[u]) \in Nat
    <2>1. L \in Nat /\ \A u \in 1 .. L : ss[u] \in Seq(S)
      <3> DEFINE T == Seq(S)
      <3> HIDE DEF T
      <3>1. ss \in Seq(T)
        BY DEF T
      <3>2. L \in Nat /\ \A u \in 1 .. L : ss[u] \in T
        BY <3>1, LenProperties, ElementOfSeq
      <3> QED
        BY <3>2 DEF T
    <2> QED
      BY <2>1, LenProperties
  <1>2. 0 \in D
    <2> DEFINE h == [i \in 1 .. 0 |-> <<>>]
    <2>1. h = [i \in 1 .. 0 |-> Step(h, i)]
      OBVIOUS
    <2> HIDE DEF h, Step
    <2> QED
      BY <2>1
  <1>3. ASSUME NEW n \in Nat, n \in D PROVE n + 1 \in D
    <2>1. PICK g : g = [i \in 1 .. n |-> Step(g, i)]
      BY <1>3
    <2> DEFINE h == [i \in 1 .. n + 1 |-> IF i <= n THEN g[i] ELSE Step(g, n + 1)]
    <2>2. \A i \in 1 .. n : h[i] = g[i]
      OBVIOUS
    <2>3. ASSUME NEW i \in 1 .. n + 1 PROVE h[i] = Step(h, i)
      <3>0. i = n + 1 \/ i \in 1 .. n
        OBVIOUS
      <3>1. CASE i = n + 1
        <4>1. h[i] = Step(g, i)
          BY <3>1
        <4>2. i = 1 \/ i - 1 \in 1 .. n
          BY <3>1
        <4>3. i # 1 => h[i - 1] = g[i - 1]
          <5> HIDE DEF h
          <5> QED
            BY <4>2, <2>2
        <4> HIDE DEF h
        <4> QED
          BY <4>1, <4>3
      <3>2. CASE i \in 1 .. n
        <4>1. g[i] = Step(g, i)
          <5> HIDE DEF Step
          <5> QED
            BY <2>1, <3>2
        <4>2. i = 1 \/ i - 1 \in 1 .. n
          BY <3>2
        <4>3. h[i] = g[i] /\ (i # 1 => h[i - 1] = g[i - 1])
          <5> HIDE DEF h
          <5> QED
            BY <4>2, <2>2, <3>2
        <4> HIDE DEF h
        <4> QED
          BY <4>1, <4>3
      <3> QED
        BY <3>0, <3>1, <3>2
    <2>4. h = [i \in 1 .. n + 1 |-> h[i]]
      OBVIOUS
    <2> HIDE DEF h, Step
    <2>5. h = [i \in 1 .. n + 1 |-> Step(h, i)]
      BY <2>3, <2>4
    <2> QED
      BY <2>5
  <1>4. Nat \subseteq D
    <2> HIDE DEF D
    <2> QED
      BY <1>2, <1>3, NatSetInduction
  <1>5. F = [i \in 1 .. L |-> Step(F, i)]
    <2>1. \E g : g = [i \in 1 .. L |-> Step(g, i)]
      BY <1>1, <1>4
    <2> HIDE DEF Step
    <2> QED
      BY <2>1
  <1>6. CASE L = 0
    <2>1. FlattenSeq(ss) = ss /\ ss = <<>>
      BY <1>6, EmptySeq DEF FlattenSeq
    <2>2. ss \in Seq(S) /\ Len(ss) = 0
      BY <2>1, <1>6
    <2> QED
      BY <2>1, <2>2
  <1>7. CASE L # 0
    <2>1. FlattenSeq(ss) = F[L]
      BY <1>7 DEF FlattenSeq
    <2> HIDE DEF F
    <2>2. 0 \in E
      <3> SUFFICES ASSUME 0 + 1 <= L PROVE From(F[0 + 1], 0 + 1)
        BY DEF E
      <3>1. 1 \in 1 .. L /\ 0 + 1 = 1
        BY <1>1, <1>7
      <3>2. F[1] = ss[1]
        BY <1>5, <3>1
      <3>3. From(ss[1], 1)
        BY <1>1, <3>1
      <3> HIDE DEF From
      <3>4. From(F[1], 1)
        BY <3>2, <3>3
      <3> QED
        BY <3>1, <3>4
    <2>3. ASSUME NEW n \in Nat, n \in E PROVE n + 1 \in E
      <3> SUFFICES ASSUME (n + 1) + 1 <= L PROVE From(F[(n + 1) + 1], (n + 1) + 1)
        BY DEF E
      <3> DEFINE m == (n + 1) + 1
                 a == F[n + 1]
                 b == ss[m]
                 c == F[m]
      <3>1. m \in 1 .. L /\ m # 1 /\ m - 1 = n + 1 /\ n + 1 <= L /\ n + 1 \in 1 .. m /\ m \in 1 .. m
            /\ \A u \in 1 .. n + 1 : u \in 1 .. m
        BY <1>1
      <3>2. From(a, n + 1)
        BY <2>3, <3>1
      <3>3. c = a \o b
        <4>1. c = Step(F, m)
          <5> HIDE DEF Step, m
          <5> QED
            BY <1>5, <3>1
        <4> HIDE DEF m
        <4> QED
          BY <4>1, <3>1
      <3>4. b \in Seq(S) /\ Len(b) \in Nat /\ a \in Seq(S) /\ Len(a) \in Nat
        BY <1>1, <3>1, <3>2, LenProperties
      <3> HIDE DEF a, c
      <3>5. /\ c \in Seq(S) /\ Len(c) = Len(a) + Len(b)
            /\ \A i \in 1 .. Len(a) + Len(b) : c[i] = IF i <= Len(a) THEN a[i] ELSE b[i - Len(a)]
        <4> HIDE DEF b
        <4> QED
          BY <3>3, <3>4, ConcatProperties
      <3>6. ASSUME NEW i \in 1 .. Len(c)
            PROVE  \E u \in 1 .. m : \E k \in 1 .. Len(ss[u]) : c[i] = ss[u][k]
        <4>1. CASE i <= Len(a)
          <5>1. i \in 1 .. Len(a) /\ c[i] = a[i]
            BY <3>4, <3>5, <4>1
          <5>2. PICK u \in 1 .. n + 1 : \E k \in 1 .. Len(ss[u]) : a[i] = ss[u][k]
            BY <5>1, <3>2
          <5> QED
            BY <5>1, <5>2, <3>1
        <4>2. CASE ~(i <= Len(a))
          <5>1. i - Len(a) \in 1 .. Len(b) /\ c[i] = b[i - Len(a)]
            BY <3>4, <3>5, <4>2
          <5> QED
            BY <5>1, <3>1
        <4> QED
          BY <4>1, <4>2
      <3>7. From(c, m)
        BY <3>5, <3>6
      <3> QED
        BY <3>7 DEF c, m
    <2>4. Nat \subseteq E
      <3> HIDE DEF E
      <3> QED
        BY <2>2, <2>3, NatSetInduction
    <2>5. L - 1 \in Nat /\ (L - 1) + 1 = L
      BY <1>1, <1>7
    <2>6. L - 1 \in E
      BY <2>4, <2>5
    <2>7. From(F[L], L)
      BY <2>5, <2>6
    <2> QED
      BY <2>1, <2>7, LenProperties
  <1> QED
    BY <1>6, <1>7
=============================================================================
