--------------------------- MODULE ReadableProofs ---------------------------
(***************************************************************************)
(* demangledToReadable on any name whose angles are balanced: each pass    *)
(* leaves them balanced, so that neither of its loops ever looks for an    *)
(* angle that is not there.                                                *)
(***************************************************************************)
EXTENDS Readable, SequenceLemmas

Angle(token) == IF token = "<" THEN 1 ELSE IF token = ">" THEN -1 ELSE 0

(* The depth changes by one at an angle, and nowhere else.                 *)
LEMMA DepthStep ==
  ASSUME NEW text
  PROVE  /\ Depth(text, 0) = 0
         /\ \A i \in Nat : Depth(text, i) \in Int
         /\ \A i \in Nat \ {0} : Depth(text, i) = Depth(text, i - 1) + Angle(text[i])
  <1> DEFINE Of(i, token) == {k \in 1 .. i : text[k] = token}
  <1>1. ASSUME NEW i \in Nat, NEW token
        PROVE  IsFiniteSet(Of(i, token)) /\ Cardinality(Of(i, token)) \in Nat
    <2>1. IsFiniteSet(1 .. i)
      BY FS_Interval
    <2>2. IsFiniteSet(Of(i, token))
      BY <2>1, FS_Subset
    <2> QED
      BY <2>2, FS_CardinalityType
  <1>2. ASSUME NEW i \in Nat \ {0}, NEW token
        PROVE  Cardinality(Of(i, token)) =
                   Cardinality(Of(i - 1, token)) + IF text[i] = token THEN 1 ELSE 0
    <2>1. i - 1 \in Nat /\ i \notin Of(i - 1, token)
      OBVIOUS
    <2>2. Of(i, token) = IF text[i] = token THEN Of(i - 1, token) \cup {i} ELSE Of(i - 1, token)
      OBVIOUS
    <2>3. IsFiniteSet(Of(i - 1, token)) /\ Cardinality(Of(i - 1, token)) \in Nat
      BY <1>1, <2>1
    <2> HIDE DEF Of
    <2>4. CASE text[i] = token
      <3>1. Cardinality(Of(i - 1, token) \cup {i}) = Cardinality(Of(i - 1, token)) + 1
        BY <2>1, <2>3, FS_AddElement
      <3> QED
        BY <3>1, <2>2, <2>4
    <2>5. CASE text[i] # token
      BY <2>2, <2>3, <2>5
    <2> QED
      BY <2>4, <2>5
  <1>3. \A token : Cardinality(Of(0, token)) = 0
    <2>1. \A token : Of(0, token) = {}
      OBVIOUS
    <2> QED
      BY <2>1, FS_EmptySet
  <1>4. \A i : Depth(text, i) = Cardinality(Of(i, "<")) - Cardinality(Of(i, ">"))
    BY DEF Depth
  <1> HIDE DEF Of
  <1>5. Depth(text, 0) = 0
    BY <1>3, <1>4
  <1>6. \A i \in Nat : Depth(text, i) \in Int
    BY <1>1, <1>4
  <1>7. ASSUME NEW i \in Nat \ {0}
        PROVE  Depth(text, i) = Depth(text, i - 1) + Angle(text[i])
    <2>1. i - 1 \in Nat
      OBVIOUS
    <2>2. /\ Cardinality(Of(i, "<")) = Cardinality(Of(i - 1, "<")) + IF text[i] = "<" THEN 1 ELSE 0
          /\ Cardinality(Of(i, ">")) = Cardinality(Of(i - 1, ">")) + IF text[i] = ">" THEN 1 ELSE 0
          /\ Cardinality(Of(i - 1, "<")) \in Nat /\ Cardinality(Of(i - 1, ">")) \in Nat
      BY <1>1, <1>2, <2>1
    <2> QED
      BY <1>4, <2>2 DEF Angle
  <1> QED
    BY <1>5, <1>6, <1>7

(* Where two texts agree, their depths change alike.                       *)
ChangeAlike(s, a, t, b, n) ==
    \A k \in 0 .. n : Depth(s, a + k) - Depth(s, a) = Depth(t, b + k) - Depth(t, b)

(* Texts that agree have the same change of depth.                         *)
LEMMA DepthShift ==
  ASSUME NEW s, NEW t, NEW a \in Nat, NEW b \in Nat, NEW n \in Nat, Agree(s, a, t, b, n)
  PROVE  ChangeAlike(s, a, t, b, n)
  <1> DEFINE Same(k) == Depth(s, a + k) - Depth(s, a) = Depth(t, b + k) - Depth(t, b)
             T == {k \in Nat : k <= n => Same(k)}
  <1>1. /\ \A i \in Nat : Depth(s, i) \in Int /\ Depth(t, i) \in Int
        /\ \A i \in Nat \ {0} : /\ Depth(s, i) = Depth(s, i - 1) + Angle(s[i])
                                /\ Depth(t, i) = Depth(t, i - 1) + Angle(t[i])
        /\ \A token : Angle(token) \in Int
    <2>1. \A token : Angle(token) \in Int
      BY DEF Angle
    <2> QED
      BY <2>1, DepthStep
  <1>2. 0 \in T
    BY <1>1
  <1>3. ASSUME NEW k \in Nat, k \in T PROVE k + 1 \in T
    <2> SUFFICES ASSUME k + 1 <= n PROVE Same(k + 1)
      OBVIOUS
    <2>1. Same(k) /\ s[a + (k + 1)] = t[b + (k + 1)]
      BY <1>3 DEF Agree
    <2>2. /\ a + (k + 1) \in Nat \ {0} /\ b + (k + 1) \in Nat \ {0}
          /\ a + (k + 1) - 1 = a + k /\ b + (k + 1) - 1 = b + k
      OBVIOUS
    <2>3. /\ Depth(s, a + (k + 1)) = Depth(s, a + k) + Angle(s[a + (k + 1)])
          /\ Depth(t, b + (k + 1)) = Depth(t, b + k) + Angle(t[b + (k + 1)])
      BY <1>1, <2>2
    <2>4. /\ Depth(s, a + k) \in Int /\ Depth(s, a) \in Int
          /\ Depth(t, b + k) \in Int /\ Depth(t, b) \in Int /\ Angle(s[a + (k + 1)]) \in Int
      BY <1>1
    <2> QED
      BY <2>1, <2>3, <2>4
  <1>4. Nat \subseteq T
    <2> HIDE DEF T
    <2> QED
      BY <1>2, <1>3, NatSetInduction
  <1> QED
    BY <1>4 DEF ChangeAlike

(* Up to the first angle that closes more than was open, nothing does.     *)
LEMMA DepthKept ==
  ASSUME NEW text, NEW a \in Nat, NEW n \in Nat,
         \A j \in a + 1 .. n : text[j] = ">" => Depth(text, j) >= Depth(text, a)
  PROVE  \A k \in a .. n : Depth(text, k) >= Depth(text, a)
  <1> DEFINE T == {m \in Nat : a + m <= n => Depth(text, a + m) >= Depth(text, a)}
  <1>1. /\ \A k \in Nat : Depth(text, k) \in Int
        /\ \A k \in Nat \ {0} : Depth(text, k) = Depth(text, k - 1) + Angle(text[k])
    BY DepthStep
  <1>2. 0 \in T
    BY <1>1
  <1>3. ASSUME NEW m \in Nat, m \in T PROVE m + 1 \in T
    <2> SUFFICES ASSUME a + (m + 1) <= n PROVE Depth(text, a + (m + 1)) >= Depth(text, a)
      OBVIOUS
    <2>1. a + (m + 1) \in Nat \ {0} /\ a + (m + 1) - 1 = a + m /\ a + m \in Nat
      OBVIOUS
    <2>2. Depth(text, a + m) >= Depth(text, a)
      BY <1>3
    <2>3. /\ Depth(text, a + (m + 1)) = Depth(text, a + m) + Angle(text[a + (m + 1)])
          /\ Depth(text, a + m) \in Int /\ Depth(text, a) \in Int
      BY <1>1, <2>1
    <2>4. text[a + (m + 1)] = ">" => Depth(text, a + (m + 1)) >= Depth(text, a)
      OBVIOUS
    <2> QED
      BY <2>2, <2>3, <2>4 DEF Angle
  <1>4. Nat \subseteq T
    <2> HIDE DEF T
    <2> QED
      BY <1>2, <1>3, NatSetInduction
  <1>5. ASSUME NEW k \in a .. n PROVE Depth(text, k) >= Depth(text, a)
    <2>1. k - a \in Nat /\ a + (k - a) = k /\ k <= n
      OBVIOUS
    <2>2. a + (k - a) <= n => Depth(text, a + (k - a)) >= Depth(text, a)
      BY <1>4, <2>1
    <2> QED
      BY <2>1, <2>2
  <1> QED
    BY <1>5

(* A text is balanced if no part of it from its beginning closes more than *)
(* it opens.                                                               *)
LEMMA BalancedFacts ==
  ASSUME NEW S, NEW text \in Seq(S)
  PROVE  Balanced(text) <=> /\ Depth(text, Len(text)) = 0
                            /\ \A i \in 0 .. Len(text) : Depth(text, i) >= 0
  <1>1. Len(text) \in Nat /\ DOMAIN text = 1 .. Len(text) /\ Depth(text, 0) = 0
    BY LenProperties, DepthStep
  <1>2. ASSUME Balanced(text) PROVE \A i \in 0 .. Len(text) : Depth(text, i) >= 0
    <2>1. \A j \in 0 + 1 .. Len(text) : text[j] = ">" => Depth(text, j) >= Depth(text, 0)
      BY <1>1, <1>2 DEF Balanced
    <2>2. \A k \in 0 .. Len(text) : Depth(text, k) >= Depth(text, 0)
      BY <1>1, <2>1, DepthKept
    <2> QED
      BY <1>1, <2>2
  <1> QED
    BY <1>1, <1>2 DEF Balanced

(* The angle CloseAngle finds is where the template that is open at i ends.*)
LEMMA CloseAngleFacts ==
  ASSUME NEW S, readable \in Seq(S), NEW i \in 1 .. Len(readable) + 1, CloseAngle(i) # 0
  PROVE  /\ CloseAngle(i) \in i .. Len(readable)
         /\ Depth(readable, CloseAngle(i) - 1) = Depth(readable, i - 1)
         /\ Depth(readable, CloseAngle(i)) = Depth(readable, i - 1) - 1
  <1> DEFINE outside == Depth(readable, i - 1)
             Closing == {j \in i .. Len(readable) : readable[j] = ">" /\ Depth(readable, j) < outside}
             c == CloseAngle(i)
  <1>1. Len(readable) \in Nat /\ i - 1 \in Nat
    BY LenProperties
  <1>2. Closing # {} /\ c = Min(Closing)
    BY DEF CloseAngle
  <1>3. Closing \subseteq Nat
    BY <1>1
  <1>4. c \in Closing /\ \A j \in Closing : c <= j
    <2> HIDE DEF Closing, c
    <2> QED
      BY <1>2, <1>3, MinFacts
  <1>5. /\ \A k \in Nat : Depth(readable, k) \in Int
        /\ \A k \in Nat \ {0} : Depth(readable, k) = Depth(readable, k - 1) + Angle(readable[k])
    BY DepthStep
  <1> HIDE DEF c
  <1>6. c - 1 \in Nat /\ c \in i .. Len(readable) /\ c \in Nat \ {0} /\ c - 1 \in i - 1 .. c - 1
    BY <1>1, <1>4
  <1>7. ASSUME NEW j \in i - 1 + 1 .. c - 1, readable[j] = ">"
        PROVE  Depth(readable, j) >= Depth(readable, i - 1)
    <2>1. j \in i .. Len(readable) /\ j \notin Closing
      BY <1>1, <1>4, <1>6
    <2>2. ~(Depth(readable, j) < Depth(readable, i - 1))
      BY <2>1, <1>7
    <2>3. Depth(readable, j) \in Int /\ Depth(readable, i - 1) \in Int
      BY <1>1, <1>5, <2>1
    <2> QED
      BY <2>2, <2>3
  <1>8. Depth(readable, c - 1) >= outside
    BY <1>1, <1>6, <1>7, DepthKept
  <1>9. Depth(readable, c) = Depth(readable, c - 1) - 1 /\ Depth(readable, c) < outside
    <2>1. readable[c] = ">" /\ Depth(readable, c) < outside
      BY <1>4
    <2> QED
      BY <2>1, <1>5, <1>6 DEF Angle
  <1>10. Depth(readable, c - 1) \in Int /\ outside \in Int
    BY <1>1, <1>5, <1>6
  <1> HIDE DEF outside
  <1>11. Depth(readable, c - 1) = outside /\ Depth(readable, c) = outside - 1
    BY <1>8, <1>9, <1>10
  <1> QED
    BY <1>6, <1>11 DEF c, outside

(* Within a template the angle that closes it is found.                    *)
LEMMA CloseAngleFound ==
  ASSUME NEW S, readable \in Seq(S), Balanced(readable), NEW i \in 1 .. Len(readable) + 1,
         Depth(readable, i - 1) > 0
  PROVE  CloseAngle(i) # 0
  <1> DEFINE Closing == {j \in i .. Len(readable) :
                            readable[j] = ">" /\ Depth(readable, j) < Depth(readable, i - 1)}
  <1>1. Len(readable) \in Nat /\ i - 1 \in Nat /\ Len(readable) \in i - 1 .. Len(readable)
    BY LenProperties
  <1>2. \A k \in Nat : Depth(readable, k) \in Int
    BY DepthStep
  <1>3. SUFFICES ASSUME Closing = {} PROVE FALSE
    <2>1. Closing # {} => CloseAngle(i) \in Closing
      <3>1. Closing \subseteq Nat
        BY <1>1
      <3>2. Closing # {} => CloseAngle(i) = Min(Closing)
        BY DEF CloseAngle
      <3> HIDE DEF Closing
      <3> QED
        BY <3>1, <3>2, MinFacts
    <2>2. 0 \notin Closing
      BY <1>1
    <2> QED
      BY <2>1, <2>2
  <1>4. ASSUME NEW j \in i - 1 + 1 .. Len(readable), readable[j] = ">"
        PROVE  Depth(readable, j) >= Depth(readable, i - 1)
    <2>1. j \in i .. Len(readable) /\ j \in Nat
      BY <1>1
    <2>2. ~(Depth(readable, j) < Depth(readable, i - 1))
      BY <2>1, <1>3, <1>4
    <2>3. Depth(readable, j) \in Int /\ Depth(readable, i - 1) \in Int
      BY <1>1, <1>2, <2>1
    <2> QED
      BY <2>2, <2>3
  <1>5. Depth(readable, Len(readable)) >= Depth(readable, i - 1)
    BY <1>1, <1>4, DepthKept
  <1>6. Depth(readable, Len(readable)) = 0
    BY DEF Balanced
  <1> QED
    BY <1>5, <1>6, <1>1, <1>2

(* Equal differences, as an equation for one of the four.                  *)
LEMMA SameChange ==
  ASSUME NEW x \in Int, NEW y \in Int, NEW u \in Int, NEW v \in Int, x - y = u - v
  PROVE  x = y + (u - v)
  OBVIOUS

(* p tokens of a balanced text, a balanced text, and the q tokens of the   *)
(* first from where it is as deep again, are a balanced text.              *)
LEMMA SpliceBalanced ==
  ASSUME NEW S, NEW old \in Seq(S), Balanced(old), NEW new \in Seq(S), Balanced(new),
         NEW text \in Seq(S),
         NEW p \in Nat, NEW n \in Nat, NEW q \in Nat, NEW b \in Nat,
         Len(old) = b + q, Len(new) = n, Len(text) = p + n + q, p <= b,
         Depth(old, p) = Depth(old, b),
         Agree(text, 0, old, 0, p), Agree(text, p, new, 0, n), Agree(text, p + n, old, b, q)
  PROVE  Balanced(text)
  <1>1. /\ \A k \in Nat : Depth(text, k) \in Int /\ Depth(old, k) \in Int /\ Depth(new, k) \in Int
        /\ Depth(text, 0) = 0 /\ Depth(old, 0) = 0 /\ Depth(new, 0) = 0
    BY DepthStep
  <1>2. /\ Depth(old, b + q) = 0 /\ \A k \in 0 .. b + q : Depth(old, k) >= 0
        /\ Depth(new, n) = 0 /\ \A k \in 0 .. n : Depth(new, k) >= 0
    BY BalancedFacts
  <1>3. ASSUME NEW k \in 0 .. p PROVE Depth(text, k) = Depth(old, k)
    <2>1. ChangeAlike(text, 0, old, 0, p)
      BY DepthShift
    <2>2. Depth(text, 0 + k) - Depth(text, 0) = Depth(old, 0 + k) - Depth(old, 0)
      BY <2>1 DEF ChangeAlike
    <2> QED
      BY <1>1, <2>2
  <1>4. ASSUME NEW k \in 0 .. n PROVE Depth(text, p + k) = Depth(old, p) + Depth(new, k)
    <2>2. ChangeAlike(text, p, new, 0, n)
      BY DepthShift
    <2>3. Depth(text, p + k) - Depth(text, p) = Depth(new, 0 + k) - Depth(new, 0)
      BY <2>2 DEF ChangeAlike
    <2>4. Depth(text, p) = Depth(old, p)
      BY <1>3
    <2>5. p + k \in Nat /\ k \in Nat /\ 0 + k = k
      OBVIOUS
    <2>6. /\ Depth(text, p + k) \in Int /\ Depth(text, p) \in Int
          /\ Depth(new, k) \in Int /\ Depth(new, 0) \in Int
      BY <1>1, <2>5
    <2>7. Depth(text, p + k) = Depth(text, p) + (Depth(new, k) - Depth(new, 0))
      BY <2>3, <2>5, <2>6, SameChange
    <2>8. Depth(new, k) - Depth(new, 0) = Depth(new, k)
      BY <2>6, <1>1
    <2> QED
      BY <2>4, <2>7, <2>8
  <1>5. ASSUME NEW k \in 0 .. q PROVE Depth(text, p + n + k) = Depth(old, b + k)
    <2>1. p + n \in Nat
      OBVIOUS
    <2>2. ChangeAlike(text, p + n, old, b, q)
      BY <2>1, DepthShift
    <2>3. Depth(text, p + n + k) - Depth(text, p + n) = Depth(old, b + k) - Depth(old, b)
      BY <2>2 DEF ChangeAlike
    <2>4. Depth(text, p + n) = Depth(old, b)
      <3>1. n \in 0 .. n /\ Depth(text, p + n) = Depth(old, p) + Depth(new, n)
        BY <1>4
      <3> QED
        BY <3>1, <1>1, <1>2
    <2>5. p + n + k \in Nat /\ b + k \in Nat
      OBVIOUS
    <2>6. /\ Depth(text, p + n + k) \in Int /\ Depth(text, p + n) \in Int
          /\ Depth(old, b + k) \in Int /\ Depth(old, b) \in Int
      BY <1>1, <2>1, <2>5
    <2>7. Depth(text, p + n + k) = Depth(text, p + n) + (Depth(old, b + k) - Depth(old, b))
      BY <2>3, <2>6, SameChange
    <2>8. Depth(old, b) + (Depth(old, b + k) - Depth(old, b)) = Depth(old, b + k)
      BY <2>6
    <2> QED
      BY <2>4, <2>7, <2>8
  <1>6. Depth(text, p + n + q) = 0
    <2>1. q \in 0 .. q
      OBVIOUS
    <2>2. Depth(text, p + n + q) = Depth(old, b + q)
      BY <1>5, <2>1
    <2> QED
      BY <1>2, <2>2
  <1>7. ASSUME NEW k \in 0 .. p + n + q PROVE Depth(text, k) >= 0
    <2>1. CASE k \in 0 .. p
      BY <2>1, <1>2, <1>3
    <2>2. CASE k - p \in 0 .. n
      <3>1. p + (k - p) = k /\ p \in 0 .. b + q
        OBVIOUS
      <3>2. Depth(text, p + (k - p)) = Depth(old, p) + Depth(new, k - p)
        BY <2>2, <1>4
      <3>3. Depth(old, p) >= 0 /\ Depth(new, k - p) >= 0
        BY <2>2, <3>1, <1>2
      <3>4. Depth(old, p) \in Int /\ Depth(new, k - p) \in Int
        BY <2>2, <1>1
      <3>5. Depth(old, p) + Depth(new, k - p) >= 0
        BY <3>3, <3>4
      <3>6. Depth(text, k) = Depth(old, p) + Depth(new, k - p)
        BY <3>1, <3>2
      <3> QED
        BY <3>5, <3>6
    <2>3. CASE k - (p + n) \in 0 .. q
      <3>1. p + n + (k - (p + n)) = k /\ b + (k - (p + n)) \in 0 .. b + q
        BY <2>3
      <3>2. Depth(text, p + n + (k - (p + n))) = Depth(old, b + (k - (p + n)))
        BY <2>3, <1>5
      <3> QED
        BY <3>1, <3>2, <1>2
    <2> QED
      BY <2>1, <2>2, <2>3
  <1> QED
    BY <1>6, <1>7, BalancedFacts

(* A balanced text in the place of a part that opens and closes alike      *)
(* leaves the whole balanced.                                              *)
LEMMA SubstituteFacts ==
  ASSUME NEW S, readable \in Seq(S), Balanced(readable),
         NEW i \in 1 .. Len(readable) + 1, NEW j \in i .. Len(readable) + 1,
         Depth(readable, i - 1) = Depth(readable, j - 1),
         NEW new \in Seq(S), Balanced(new), Substitute(i, j, new)
  PROVE  /\ readable' \in Seq(S)
         /\ Len(readable') = i - 1 + Len(new) + (Len(readable) + 1 - j)
         /\ Balanced(readable')
  <1> DEFINE a == SubSeq(readable, 1, i - 1)
             c == SubSeq(readable, j, Len(readable))
             text == (a \o new) \o c
             p == i - 1
             n == Len(new)
             q == Len(readable) + 1 - j
             b == j - 1
  <1>1. /\ p \in Nat /\ n \in Nat /\ q \in Nat /\ b \in Nat /\ p <= b /\ Len(readable) = b + q
    BY LenProperties
  <1>2. /\ a \in Seq(S) /\ Len(a) = p /\ Agree(a, 0, readable, 0, p)
        /\ c \in Seq(S) /\ Len(c) = q /\ Agree(c, 0, readable, b, q)
    BY SplitAround
  <1>3. readable' = text /\ Len(new) = n /\ Depth(readable, p) = Depth(readable, b)
    BY DEF Substitute
  <1> HIDE DEF a, c, p, n, q, b
  <1>4. /\ text \in Seq(S) /\ Len(text) = p + n + q
        /\ Agree(text, 0, readable, 0, p)
        /\ Agree(text, p, new, 0, n)
        /\ Agree(text, p + n, readable, b, q)
    <2>1. InARow(text, S, a, new, c, p, n, q)
      BY <1>2, <1>3 DEF InARow
    <2> HIDE DEF text
    <2>2. /\ text \in Seq(S) /\ Len(text) = p + n + q
          /\ Agree(text, 0, a, 0, p)
          /\ Agree(text, p, new, 0, n)
          /\ Agree(text, p + n, c, 0, q)
      BY <1>1, <2>1, ConcatThree
    <2>3. Agree(text, 0, readable, 0, p) /\ Agree(text, p + n, readable, b, q)
      BY <2>2, <1>2, AgreeTrans
    <2> QED
      BY <2>2, <2>3
  <1> HIDE DEF text
  <1>5. Balanced(text)
    BY <1>1, <1>3, <1>4, SpliceBalanced
  <1> QED
    BY <1>3, <1>4, <1>5 DEF p, n, q

(* The depth, one token further.                                           *)
LEMMA DepthNext ==
  ASSUME NEW text
  PROVE  \A i \in Nat : Depth(text, i + 1) = Depth(text, i) + Angle(text[i + 1])
  <1>1. \A i \in Nat : i + 1 \in Nat \ {0} /\ i + 1 - 1 = i
    OBVIOUS
  <1> QED
    BY <1>1, DepthStep

(* What each token adds to the depth.                                      *)
LEMMA AnglesAreOne ==
  /\ Angle("<") = 1 /\ Angle(">") = -1
  /\ \A token : token \notin {"<", ">"} => Angle(token) = 0
  BY DEF Angle

(* Texts without angles, and two balanced texts in a row, are balanced.    *)
LEMMA PlainBalanced ==
  ASSUME NEW S, NEW text \in Seq(S), \A i \in DOMAIN text : text[i] \notin {"<", ">"}
  PROVE  Balanced(text)
  <1> DEFINE T == {i \in Nat : i <= Len(text) => Depth(text, i) = 0}
  <1>1. Len(text) \in Nat /\ DOMAIN text = 1 .. Len(text)
    BY LenProperties
  <1>2. 0 \in T
    BY DepthStep
  <1>3. ASSUME NEW i \in Nat, i \in T PROVE i + 1 \in T
    <2> SUFFICES ASSUME i + 1 <= Len(text) PROVE Depth(text, i + 1) = 0
      OBVIOUS
    <2>1. Depth(text, i) = 0 /\ Angle(text[i + 1]) = 0
      BY <1>1, <1>3, AnglesAreOne
    <2> QED
      BY <2>1, DepthNext
  <1>4. Nat \subseteq T
    <2> HIDE DEF T
    <2> QED
      BY <1>2, <1>3, NatSetInduction
  <1> QED
    BY <1>1, <1>4, BalancedFacts

(* Two balanced texts in a row.                                            *)
LEMMA ConcatBalanced ==
  ASSUME NEW S, NEW a \in Seq(S), NEW b \in Seq(S), Balanced(a), Balanced(b)
  PROVE  a \o b \in Seq(S) /\ Balanced(a \o b)
  <1> DEFINE t == a \o b
             p == Len(a)
             n == Len(b)
  <1>1. p \in Nat /\ n \in Nat /\ Len(a) = p + 0 /\ Len(b) = n
    BY LenProperties
  <1>2. /\ t \in Seq(S) /\ Len(t) = p + n
        /\ \A k \in 1 .. p + n : t[k] = IF k <= p THEN a[k] ELSE b[k - p]
    BY ConcatProperties
  <1> HIDE DEF t, p, n
  <1>3. Agree(t, 0, a, 0, p)
    BY <1>1, <1>2 DEF Agree
  <1>4. Agree(t, p, b, 0, n)
    <2>1. ASSUME NEW k \in 1 .. n PROVE t[p + k] = b[0 + k]
      <3> DEFINE i == p + k
      <3>1. i \in 1 .. p + n /\ ~(i <= p) /\ i - p = k /\ 0 + k = k
        BY <1>1
      <3> HIDE DEF i
      <3>2. t[i] = b[k]
        BY <1>2, <3>1
      <3> QED
        BY <3>1, <3>2 DEF i
    <2> QED
      BY <2>1 DEF Agree
  <1>5. Agree(t, p + n, a, p, 0)
    BY DEF Agree
  <1>6. Balanced(t)
    <2>1. Len(t) = p + n + 0 /\ 0 \in Nat /\ p <= p
      BY <1>1, <1>2
    <2> QED
      BY <1>1, <1>2, <1>3, <1>4, <1>5, <2>1, SpliceBalanced
  <1> QED
    BY <1>2, <1>6 DEF t

-----------------------------------------------------------------------------
(* The entries of the lists.                                               *)
LEMMA TwoTokens ==
  ASSUME NEW S, NEW x \in S, NEW y \in S
  PROVE  /\ <<x>> \in Seq(S) /\ Len(<<x>>) = 1 /\ <<x>>[1] = x
         /\ <<x, y>> \in Seq(S) /\ Len(<<x, y>>) = 2
         /\ <<x, y>>[1] = x /\ <<x, y>>[2] = y
  OBVIOUS

(* A name with balanced parameters between angles.                         *)
LEMMA TemplateBalanced ==
  ASSUME NEW S, NEW x \in S, "<" \in S, ">" \in S, x \notin {"<", ">"},
         NEW a \in Seq(S), Balanced(a)
  PROVE  Template(x, a) \in Seq(S) /\ Balanced(Template(x, a)) /\ Len(Template(x, a)) > 0
  <1> DEFINE t == Template(x, a)
             n == Len(a)
             open == <<x, "<">>
             close == <<">">>
  <1>1. /\ n \in Nat /\ Len(a) = n
        /\ open \in Seq(S) /\ Len(open) = 2 /\ open[1] = x /\ open[2] = "<"
        /\ close \in Seq(S) /\ Len(close) = 1 /\ close[1] = ">"
    BY LenProperties, TwoTokens
  <1>2. InARow(t, S, open, a, close, 2, n, 1)
    BY <1>1 DEF Template, InARow
  <1> HIDE DEF t, n, open, close
  <1>3. /\ t \in Seq(S) /\ Len(t) = 2 + n + 1
        /\ Agree(t, 0, open, 0, 2) /\ Agree(t, 2, a, 0, n) /\ Agree(t, 2 + n, close, 0, 1)
    BY <1>1, <1>2, ConcatThree
  <1>4. t[1] = x /\ t[2] = "<"
    <2>1. t[0 + 1] = open[0 + 1] /\ t[0 + 2] = open[0 + 2]
      BY <1>3 DEF Agree
    <2> QED
      BY <1>1, <2>1
  <1>5. t[2 + n + 1] = ">"
    <2>1. t[2 + n + 1] = close[0 + 1]
      BY <1>3 DEF Agree
    <2> QED
      BY <1>1, <2>1
  <1>6. \A k \in Nat : Depth(t, k) \in Int /\ Depth(a, k) \in Int
    BY DepthStep
  <1>7. Depth(t, 0) = 0 /\ Depth(a, 0) = 0 /\ Depth(t, 1) = 0 /\ Depth(t, 2) = 1
    <2>1. Depth(t, 0) = 0 /\ Depth(a, 0) = 0
      BY DepthStep
    <2>2. Depth(t, 0 + 1) = Depth(t, 0) + Angle(t[0 + 1])
      BY DepthNext
    <2>3. Depth(t, 1 + 1) = Depth(t, 1) + Angle(t[1 + 1])
      BY DepthNext
    <2> QED
      BY <1>4, <2>1, <2>2, <2>3, AnglesAreOne
  <1>8. Depth(a, n) = 0 /\ \A k \in 0 .. n : Depth(a, k) >= 0
    BY <1>1, BalancedFacts
  <1>9. ASSUME NEW k \in 0 .. n PROVE Depth(t, 2 + k) = Depth(a, k) + 1
    <2>1. ChangeAlike(t, 2, a, 0, n)
      BY <1>1, <1>3, DepthShift
    <2>2. Depth(t, 2 + k) - Depth(t, 2) = Depth(a, 0 + k) - Depth(a, 0)
      BY <2>1 DEF ChangeAlike
    <2>3. 0 + k = k /\ k \in Nat /\ 2 + k \in Nat
      BY <1>1
    <2>4. Depth(t, 2 + k) \in Int /\ Depth(a, k) \in Int
      BY <1>6, <2>3
    <2> QED
      BY <1>7, <2>2, <2>3, <2>4
  <1>10. Depth(t, 2 + n + 1) = 0
    <2>1. 2 + n \in Nat /\ n \in 0 .. n
      BY <1>1
    <2>2. Depth(t, 2 + n + 1) = Depth(t, 2 + n) + Angle(t[2 + n + 1])
      BY <2>1, DepthNext
    <2>3. Depth(t, 2 + n) = Depth(a, n) + 1
      BY <2>1, <1>9
    <2> QED
      BY <2>2, <2>3, <1>5, <1>8, AnglesAreOne
  <1>11. ASSUME NEW k \in 0 .. 2 + n + 1 PROVE Depth(t, k) >= 0
    <2>1. CASE k \in {0, 1}
      BY <2>1, <1>7
    <2>2. CASE k - 2 \in 0 .. n
      <3>1. 2 + (k - 2) = k
        OBVIOUS
      <3>2. Depth(t, 2 + (k - 2)) = Depth(a, k - 2) + 1 /\ Depth(a, k - 2) >= 0
        BY <2>2, <1>8, <1>9
      <3>3. Depth(a, k - 2) \in Int
        BY <2>2, <1>1, <1>6
      <3> QED
        BY <3>1, <3>2, <3>3
    <2>3. CASE k = 2 + n + 1
      BY <2>3, <1>10
    <2> QED
      BY <1>1, <2>1, <2>2, <2>3
  <1>12. Balanced(t)
    BY <1>3, <1>10, <1>11, BalancedFacts
  <1> QED
    BY <1>1, <1>3, <1>12 DEF t

(* Up to three tokens without an angle.                                    *)
LEMMA PlainTokens ==
  ASSUME NEW S, NEW x \in S, NEW y \in S, NEW z \in S,
         x \notin {"<", ">"}, y \notin {"<", ">"}, z \notin {"<", ">"}
  PROVE  /\ <<>> \in Seq(S) /\ Balanced(<<>>)
         /\ <<x>> \in Seq(S) /\ Balanced(<<x>>)
         /\ <<x, y>> \in Seq(S) /\ Balanced(<<x, y>>)
         /\ <<x, y, z>> \in Seq(S) /\ Balanced(<<x, y, z>>)
  <1>1. <<>> \in Seq(S) /\ DOMAIN <<>> = {}
    OBVIOUS
  <1>2. <<x>> \in Seq(S) /\ DOMAIN <<x>> = 1 .. 1 /\ <<x>>[1] = x
    OBVIOUS
  <1>3. <<x, y>> \in Seq(S) /\ DOMAIN <<x, y>> = 1 .. 2 /\ <<x, y>>[1] = x /\ <<x, y>>[2] = y
    OBVIOUS
  <1>4. /\ <<x, y, z>> \in Seq(S) /\ DOMAIN <<x, y, z>> = 1 .. 3
        /\ <<x, y, z>>[1] = x /\ <<x, y, z>>[2] = y /\ <<x, y, z>>[3] = z
    OBVIOUS
  <1>5. Balanced(<<>>)
    BY <1>1, PlainBalanced
  <1>6. Balanced(<<x>>)
    <2>1. \A i \in DOMAIN <<x>> : <<x>>[i] \notin {"<", ">"}
      BY <1>2
    <2> QED
      BY <1>2, <2>1, PlainBalanced
  <1>7. Balanced(<<x, y>>)
    <2>1. \A i \in DOMAIN <<x, y>> : <<x, y>>[i] \notin {"<", ">"}
      BY <1>3
    <2> QED
      BY <1>3, <2>1, PlainBalanced
  <1>8. Balanced(<<x, y, z>>)
    <2>1. \A i \in DOMAIN <<x, y, z>> : <<x, y, z>>[i] \notin {"<", ">"}
      <3>1. 1 .. 3 = {1, 2, 3}
        OBVIOUS
      <3> QED
        BY <1>4, <3>1
    <2> QED
      BY <1>4, <2>1, PlainBalanced
  <1> QED
    BY <1>1, <1>2, <1>3, <1>4, <1>5, <1>6, <1>7, <1>8

(* The tokens of the texts that are replaced.                              *)
Verbose == {"<", ">", ",", "*", "char", "const", "int", "long", "unsigned", "std::string",
            "std::char_traits", "std::allocator", "std::basic_ostream", "std::basic_istream",
            "std::basic_iostream", "std::basic_string", "std::__cxx11::basic_string"}

(* The parameters of the string types are balanced,                        *)
LEMMA CharsBalanced ==
  /\ Chars("std::char_traits") \in Seq(Verbose) /\ Balanced(Chars("std::char_traits"))
  /\ Chars("std::allocator") \in Seq(Verbose) /\ Balanced(Chars("std::allocator"))
  <1>1. <<"char">> \in Seq(Verbose) /\ Balanced(<<"char">>)
    <2>1. "char" \in Verbose \ {"<", ">"}
      BY DEF Verbose
    <2> QED
      BY <2>1, PlainTokens
  <1>2. /\ "<" \in Verbose /\ ">" \in Verbose
        /\ "std::char_traits" \in Verbose \ {"<", ">"}
        /\ "std::allocator" \in Verbose \ {"<", ">"}
    BY DEF Verbose
  <1> QED
    BY <1>1, <1>2, TemplateBalanced DEF Chars

(* and so are the verbose names of those types.                            *)
LEMMA StringOfBalanced ==
  ASSUME NEW x \in Verbose, x \notin {"<", ">"}
  PROVE  StringOf(x) \in Seq(Verbose) /\ Balanced(StringOf(x)) /\ Len(StringOf(x)) > 0
  <1> DEFINE a == <<"char", ",">>
             b == Chars("std::char_traits")
             c == <<",">>
             d == Chars("std::allocator")
  <1>1. /\ a \in Seq(Verbose) /\ Balanced(a) /\ b \in Seq(Verbose) /\ Balanced(b)
        /\ c \in Seq(Verbose) /\ Balanced(c) /\ d \in Seq(Verbose) /\ Balanced(d)
    <2>1. "char" \in Verbose \ {"<", ">"} /\ "," \in Verbose \ {"<", ">"}
      BY DEF Verbose
    <2> QED
      BY <2>1, PlainTokens, CharsBalanced
  <1>2. StringOf(x) = Template(x, ((a \o b) \o c) \o d)
    BY DEF StringOf
  <1> HIDE DEF a, b, c, d
  <1>3. a \o b \in Seq(Verbose) /\ Balanced(a \o b)
    BY <1>1, ConcatBalanced
  <1>4. (a \o b) \o c \in Seq(Verbose) /\ Balanced((a \o b) \o c)
    BY <1>1, <1>3, ConcatBalanced
  <1>5. ((a \o b) \o c) \o d \in Seq(Verbose) /\ Balanced(((a \o b) \o c) \o d)
    BY <1>1, <1>4, ConcatBalanced
  <1>6. "<" \in Verbose /\ ">" \in Verbose
    BY DEF Verbose
  <1> QED
    BY <1>2, <1>5, <1>6, TemplateBalanced

(* The eleven entries of the table of verbose names.                       *)
LEMMA VerboseEntries ==
  /\ DOMAIN verboseLists = 1 .. 11 /\ Len(verboseLists) = 11
  /\ verboseLists[1].instance = StringOf("std::__cxx11::basic_string")
  /\ verboseLists[1].replace = <<"std::string">>
  /\ verboseLists[2].instance = StringOf("std::basic_string")
  /\ verboseLists[2].replace = <<"std::string">>
  /\ verboseLists[3].instance = StreamOf("std::basic_ostream")
  /\ verboseLists[3].replace = <<"std::ostream">>
  /\ verboseLists[4].instance = StreamOf("std::basic_istream")
  /\ verboseLists[4].replace = <<"std::istream">>
  /\ verboseLists[5].instance = StreamOf("std::basic_iostream")
  /\ verboseLists[5].replace = <<"std::iostream">>
  /\ verboseLists[6].instance = Template("std::allocator", <<"std::string">>)
  /\ verboseLists[6].replace = <<>>
  /\ verboseLists[7].instance = <<"long", "unsigned", "int">>
  /\ verboseLists[7].replace = <<"uint64_t">>
  /\ verboseLists[8].instance = <<"unsigned", "int">>
  /\ verboseLists[8].replace = <<"uint32_t">>
  /\ verboseLists[9].instance = <<"unsigned", "long">>
  /\ verboseLists[9].replace = <<"uint64_t">>
  /\ verboseLists[10].instance = <<"long", "int">>
  /\ verboseLists[10].replace = <<"int64_t">>
  /\ verboseLists[11].instance = <<"char", "const", "*">>
  /\ verboseLists[11].replace = <<"const", "char", "*">>
  <1>1. DOMAIN verboseLists = 1 .. 11 /\ Len(verboseLists) = 11
    BY DEF verboseLists
  <1>2. /\ verboseLists[1].instance = StringOf("std::__cxx11::basic_string")
        /\ verboseLists[1].replace = <<"std::string">>
    BY DEF verboseLists
  <1>3. /\ verboseLists[2].instance = StringOf("std::basic_string")
        /\ verboseLists[2].replace = <<"std::string">>
    BY DEF verboseLists
  <1>4. /\ verboseLists[3].instance = StreamOf("std::basic_ostream")
        /\ verboseLists[3].replace = <<"std::ostream">>
    BY DEF verboseLists
  <1>5. /\ verboseLists[4].instance = StreamOf("std::basic_istream")
        /\ verboseLists[4].replace = <<"std::istream">>
    BY DEF verboseLists
  <1>6. /\ verboseLists[5].instance = StreamOf("std::basic_iostream")
        /\ verboseLists[5].replace = <<"std::iostream">>
    BY DEF verboseLists
  <1>7. /\ verboseLists[6].instance = Template("std::allocator", <<"std::string">>)
        /\ verboseLists[6].replace = <<>>
    BY DEF verboseLists
  <1>8. /\ verboseLists[7].instance = <<"long", "unsigned", "int">>
        /\ verboseLists[7].replace = <<"uint64_t">>
    BY DEF verboseLists
  <1>9. /\ verboseLists[8].instance = <<"unsigned", "int">>
        /\ verboseLists[8].replace = <<"uint32_t">>
    BY DEF verboseLists
  <1>10. /\ verboseLists[9].instance = <<"unsigned", "long">>
         /\ verboseLists[9].replace = <<"uint64_t">>
    BY DEF verboseLists
  <1>11. /\ verboseLists[10].instance = <<"long", "int">>
         /\ verboseLists[10].replace = <<"int64_t">>
    BY DEF verboseLists
  <1>12. /\ verboseLists[11].instance = <<"char", "const", "*">>
         /\ verboseLists[11].replace = <<"const", "char", "*">>
    BY DEF verboseLists
  <1> QED
    BY <1>1, <1>2, <1>3, <1>4, <1>5, <1>6, <1>7, <1>8,
       <1>9, <1>10, <1>11, <1>12

(* What is looked for is balanced, and has a token at least,               *)
LEMMA VerboseInstances ==
  ASSUME NEW e \in 1 .. 11
  PROVE  /\ verboseLists[e].instance \in Seq(Verbose) /\ Balanced(verboseLists[e].instance)
         /\ Len(verboseLists[e].instance) > 0
  <1> DEFINE Good(text) == text \in Seq(Verbose) /\ Balanced(text)
             Some(text) == Good(text) /\ Len(text) > 0
  <1>1. "<" \in Verbose /\ ">" \in Verbose
    BY DEF Verbose
  <1>2. /\ "std::__cxx11::basic_string" \in Verbose \ {"<", ">"}
        /\ "std::basic_string" \in Verbose \ {"<", ">"}
        /\ "std::basic_ostream" \in Verbose \ {"<", ">"}
        /\ "std::basic_istream" \in Verbose \ {"<", ">"}
        /\ "std::basic_iostream" \in Verbose \ {"<", ">"}
        /\ "std::allocator" \in Verbose \ {"<", ">"}
        /\ "std::string" \in Verbose \ {"<", ">"}
    BY DEF Verbose
  <1>3. /\ "char" \in Verbose \ {"<", ">"} /\ "," \in Verbose \ {"<", ">"}
        /\ "const" \in Verbose \ {"<", ">"} /\ "*" \in Verbose \ {"<", ">"}
        /\ "long" \in Verbose \ {"<", ">"} /\ "int" \in Verbose \ {"<", ">"}
        /\ "unsigned" \in Verbose \ {"<", ">"}
    BY DEF Verbose
  <1>4. \A x, y, z \in Verbose \ {"<", ">"} : Good(<<x>>) /\ Some(<<x, y>>) /\ Some(<<x, y, z>>)
    <2> SUFFICES ASSUME NEW x \in Verbose \ {"<", ">"}, NEW y \in Verbose \ {"<", ">"},
                        NEW z \in Verbose \ {"<", ">"}
                 PROVE  Good(<<x>>) /\ Some(<<x, y>>) /\ Some(<<x, y, z>>)
      OBVIOUS
    <2>1. Len(<<x, y>>) = 2 /\ Len(<<x, y, z>>) = 3
      OBVIOUS
    <2>2. Len(<<x, y>>) > 0 /\ Len(<<x, y, z>>) > 0
      BY <2>1
    <2>3. Good(<<x>>) /\ Good(<<x, y>>) /\ Good(<<x, y, z>>)
      BY PlainTokens
    <2> QED
      BY <2>2, <2>3
  <1>5. Good(Chars("std::char_traits"))
    BY CharsBalanced
  <1>6. \A a, b : Good(a) /\ Good(b) => Good(a \o b)
    BY ConcatBalanced
  <1>7. \A x \in Verbose \ {"<", ">"} : \A a : Good(a) => Some(Template(x, a))
    BY <1>1, TemplateBalanced
  <1>8. Some(verboseLists[1].instance) /\ Some(verboseLists[2].instance)
    BY <1>2, StringOfBalanced, VerboseEntries
  <1> HIDE DEF Good, Some
  <1>9. /\ Some(verboseLists[3].instance) /\ Some(verboseLists[4].instance)
        /\ Some(verboseLists[5].instance)
    <2>1. Good(<<"char", ",">>)
      BY <1>3, <1>4 DEF Some
    <2>2. Good(<<"char", ",">> \o Chars("std::char_traits"))
      BY <2>1, <1>5, <1>6
    <2>3. \A x \in Verbose \ {"<", ">"} : Some(StreamOf(x))
      BY <2>2, <1>7 DEF StreamOf
    <2> QED
      BY <2>3, <1>2, VerboseEntries
  <1>10. Some(verboseLists[6].instance)
    <2>1. Good(<<"std::string">>)
      BY <1>2, <1>4
    <2> QED
      BY <2>1, <1>2, <1>7, VerboseEntries
  <1>11. Some(verboseLists[7].instance) /\ Some(verboseLists[8].instance)
    BY <1>3, <1>4, VerboseEntries
  <1>12. Some(verboseLists[9].instance) /\ Some(verboseLists[10].instance)
    BY <1>3, <1>4, VerboseEntries
  <1>13. Some(verboseLists[11].instance)
    BY <1>3, <1>4, VerboseEntries
  <1>14. Some(verboseLists[e].instance)
    BY <1>8, <1>9, <1>10, <1>11, <1>12, <1>13
  <1> QED
    BY <1>14 DEF Good, Some

(* and so is what replaces it.                                             *)
LEMMA VerboseReplacements ==
  ASSUME NEW e \in 1 .. 11
  PROVE  verboseLists[e].replace \in Seq(Tokens) /\ Balanced(verboseLists[e].replace)
  <1> DEFINE Good(text) == text \in Seq(Tokens) /\ Balanced(text)
             T == Tokens \ {"<", ">"}
  <1>1. ASSUME NEW k \in 1 .. 11, NEW i \in DOMAIN verboseLists[k].replace
        PROVE  verboseLists[k].replace[i] \in Tokens
    <2>1. verboseLists[k] \in ToSet(verboseLists)
      BY VerboseEntries DEF ToSet
    <2>2. verboseLists[k].replace[i] \in ToSet(verboseLists[k].replace)
      BY DEF ToSet
    <2> QED
      BY <2>1, <2>2 DEF Tokens
  <1>2. "std::string" \in T
    <2>1. verboseLists[1].replace = <<"std::string">>
      BY VerboseEntries
    <2>2. 1 \in DOMAIN verboseLists[1].replace /\ verboseLists[1].replace[1] = "std::string"
      BY <2>1
    <2> QED
      BY <1>1, <2>2
  <1>3. "std::ostream" \in T /\ "std::istream" \in T /\ "std::iostream" \in T
    <2>1. /\ verboseLists[3].replace = <<"std::ostream">>
          /\ verboseLists[4].replace = <<"std::istream">>
          /\ verboseLists[5].replace = <<"std::iostream">>
      BY VerboseEntries
    <2>2. /\ 1 \in DOMAIN verboseLists[3].replace /\ verboseLists[3].replace[1] = "std::ostream"
          /\ 1 \in DOMAIN verboseLists[4].replace /\ verboseLists[4].replace[1] = "std::istream"
          /\ 1 \in DOMAIN verboseLists[5].replace /\ verboseLists[5].replace[1] = "std::iostream"
      BY <2>1
    <2> QED
      BY <1>1, <2>2
  <1>4. "uint64_t" \in T /\ "uint32_t" \in T /\ "int64_t" \in T
    <2>1. /\ verboseLists[7].replace = <<"uint64_t">>
          /\ verboseLists[8].replace = <<"uint32_t">>
          /\ verboseLists[10].replace = <<"int64_t">>
      BY VerboseEntries
    <2>2. /\ 1 \in DOMAIN verboseLists[7].replace /\ verboseLists[7].replace[1] = "uint64_t"
          /\ 1 \in DOMAIN verboseLists[8].replace /\ verboseLists[8].replace[1] = "uint32_t"
          /\ 1 \in DOMAIN verboseLists[10].replace /\ verboseLists[10].replace[1] = "int64_t"
      BY <2>1
    <2> QED
      BY <1>1, <2>2
  <1>5. "const" \in T /\ "char" \in T /\ "*" \in T
    <2>1. verboseLists[11].replace = <<"const", "char", "*">>
      BY VerboseEntries
    <2>2. /\ 1 \in DOMAIN verboseLists[11].replace /\ verboseLists[11].replace[1] = "const"
          /\ 2 \in DOMAIN verboseLists[11].replace /\ verboseLists[11].replace[2] = "char"
          /\ 3 \in DOMAIN verboseLists[11].replace /\ verboseLists[11].replace[3] = "*"
      BY <2>1
    <2> QED
      BY <1>1, <2>2
  <1>6. \A x, y, z \in T : Good(<<>>) /\ Good(<<x>>) /\ Good(<<x, y, z>>)
    BY PlainTokens
  <1> HIDE DEF Good, T
  <1>7. Good(verboseLists[1].replace) /\ Good(verboseLists[2].replace)
    BY <1>2, <1>6, VerboseEntries
  <1>8. /\ Good(verboseLists[3].replace) /\ Good(verboseLists[4].replace)
        /\ Good(verboseLists[5].replace) /\ Good(verboseLists[6].replace)
    BY <1>3, <1>6, VerboseEntries
  <1>9. Good(verboseLists[7].replace) /\ Good(verboseLists[8].replace)
    BY <1>4, <1>6, VerboseEntries
  <1>10. Good(verboseLists[9].replace) /\ Good(verboseLists[10].replace)
    BY <1>4, <1>6, VerboseEntries
  <1>11. Good(verboseLists[11].replace)
    BY <1>5, <1>6, VerboseEntries
  <1>12. Good(verboseLists[e].replace)
    BY <1>7, <1>8, <1>9, <1>10, <1>11
  <1> QED
    BY <1>12 DEF Good

(* The tokens that are deleted, and the names that are trimmed.            *)
LEMMA OtherLists ==
  /\ DOMAIN deleteList = 1 .. 4 /\ Len(deleteList) = 4
  /\ \A e \in 1 .. 4 : deleteList[e] \notin {"<", ">"}
  /\ DOMAIN containerParameterList = 1 .. 6 /\ Len(containerParameterList) = 6
  <1>1. DOMAIN deleteList = 1 .. 4 /\ Len(deleteList) = 4
    BY DEF deleteList
  <1>2. DOMAIN containerParameterList = 1 .. 6 /\ Len(containerParameterList) = 6
    BY DEF containerParameterList
  <1>3. ASSUME NEW e \in 1 .. 4 PROVE deleteList[e] \notin {"<", ">"}
    <2>1. e \in {1, 2, 3, 4}
      OBVIOUS
    <2> QED
      BY <2>1 DEF deleteList
  <1> QED
    BY <1>1, <1>2, <1>3

-----------------------------------------------------------------------------
(* A text stands in full where it is found.                                *)
LEMMA FindFacts ==
  ASSUME NEW S, readable \in Seq(S), NEW V, NEW text \in Seq(V), NEW start \in Nat \ {0},
         Find(text, start) # 0
  PROVE  /\ Find(text, start) \in start .. Len(readable) - Len(text) + 1
         /\ Agree(readable, Find(text, start) - 1, text, 0, Len(text))
  <1> DEFINE l == Len(readable)
             n == Len(text)
             Hits == {i \in start .. l - n + 1 : SubSeq(readable, i, i + n - 1) = text}
             f == Find(text, start)
  <1>1. l \in Nat /\ n \in Nat /\ DOMAIN readable = 1 .. l
    BY LenProperties
  <1>2. Hits # {} /\ f = Min(Hits)
    BY DEF Find
  <1>3. Hits \subseteq Nat
    BY <1>1
  <1>4. f \in Hits
    <2> HIDE DEF Hits, f
    <2> QED
      BY <1>2, <1>3, MinFacts
  <1> HIDE DEF f
  <1>5. f \in start .. l - n + 1 /\ SubSeq(readable, f, f + n - 1) = text
    BY <1>4
  <1>6. ASSUME NEW k \in 1 .. n PROVE readable[f - 1 + k] = text[0 + k]
    <2>1. f \in 1 .. l + 1 /\ f + n - 1 \in f - 1 .. l
      BY <1>1, <1>5
    <2>2. /\ Len(SubSeq(readable, f, f + n - 1)) = IF f <= f + n - 1 THEN f + n - 1 - f + 1 ELSE 0
          /\ \A i \in 1 .. f + n - 1 - f + 1 : SubSeq(readable, f, f + n - 1)[i] = readable[f + i - 1]
      BY <2>1, SubSeqProperties
    <2> DEFINE i == f + k - 1
    <2>3. k \in 1 .. f + n - 1 - f + 1 /\ i = f - 1 + k /\ 0 + k = k
      BY <1>1, <1>5
    <2>4. text[k] = readable[i]
      BY <1>5, <2>2, <2>3
    <2> HIDE DEF i
    <2> QED
      BY <2>3, <2>4
  <1>7. Agree(readable, f - 1, text, 0, n)
    BY <1>6 DEF Agree
  <1> QED
    BY <1>5, <1>7 DEF l, n, f

(* A token that is found is where it is found.                             *)
LEMMA FindToken ==
  ASSUME NEW S, readable \in Seq(S), NEW x, NEW start \in Nat \ {0}, Find(<<x>>, start) # 0
  PROVE  /\ Find(<<x>>, start) \in start .. Len(readable)
         /\ readable[Find(<<x>>, start)] = x
  <1> DEFINE f == Find(<<x>>, start)
             t == <<x>>
  <1>1. t \in Seq({x}) /\ Len(t) = 1 /\ t[1] = x
    BY TwoTokens
  <1>2. f # 0 /\ f = Find(t, start)
    OBVIOUS
  <1> HIDE DEF f, t
  <1>3. f \in start .. Len(readable) - 1 + 1 /\ Agree(readable, f - 1, t, 0, 1)
    BY <1>1, <1>2, FindFacts
  <1>4. readable[f - 1 + 1] = t[0 + 1]
    BY <1>3 DEF Agree
  <1>5. f - 1 + 1 = f /\ f \in start .. Len(readable)
    BY <1>3, LenProperties
  <1> QED
    BY <1>1, <1>4, <1>5 DEF f, t

(* What is found of a balanced text opens and closes alike.                *)
LEMMA FindLevel ==
  ASSUME NEW S, readable \in Seq(S), NEW V, NEW text \in Seq(V), Balanced(text),
         NEW start \in Nat \ {0}, Find(text, start) # 0
  PROVE  Depth(readable, Find(text, start) - 1) = Depth(readable, Find(text, start) - 1 + Len(text))
  <1> DEFINE a == Find(text, start) - 1
             n == Len(text)
  <1>1. n \in Nat /\ Len(readable) \in Nat /\ Len(text) = n
    BY LenProperties
  <1>2. a \in Nat /\ Agree(readable, a, text, 0, n)
    BY <1>1, FindFacts
  <1> HIDE DEF a, n
  <1>3. ChangeAlike(readable, a, text, 0, n)
    BY <1>1, <1>2, DepthShift
  <1>4. Depth(readable, a + n) - Depth(readable, a) = Depth(text, 0 + n) - Depth(text, 0)
    BY <1>1, <1>3 DEF ChangeAlike
  <1>5. Depth(text, n) = 0 /\ Depth(text, 0) = 0 /\ 0 + n = n
    BY <1>1, DepthStep DEF Balanced
  <1>6. a + n \in Nat /\ Depth(readable, a + n) \in Int /\ Depth(readable, a) \in Int
    BY <1>1, <1>2, DepthStep
  <1>7. Depth(readable, a) = Depth(readable, a + n)
    BY <1>4, <1>5, <1>6
  <1> QED
    BY <1>7 DEF a, n

(* The deletion starts at a comma between the arguments.                   *)
LEMMA StartDeletionFacts ==
  ASSUME NEW S, readable \in Seq(S), NEW i \in 1 .. Len(readable) + 1, NEW count,
         StartDeletion(i, count) # 0
  PROVE  /\ StartDeletion(i, count) \in i .. Len(readable)
         /\ readable[StartDeletion(i, count)] \notin {"<", ">"}
         /\ Depth(readable, StartDeletion(i, count)) = Depth(readable, i - 1)
  <1> DEFINE last == IF CloseAngle(i) = 0 THEN Len(readable) ELSE CloseAngle(i)
             Commas == {j \in i .. last : readable[j] = "," /\ Depth(readable, j) = Depth(readable, i - 1)}
             Behind == {j \in Commas : Cardinality({k \in Commas : k <= j}) = count}
             s == StartDeletion(i, count)
  <1>1. Len(readable) \in Nat /\ i \in Nat /\ last \in Nat /\ last <= Len(readable)
    BY LenProperties, CloseAngleFacts
  <1>2. Behind # {} /\ s = Min(Behind)
    BY DEF StartDeletion
  <1>3. Commas \subseteq i .. last
    OBVIOUS
  <1>7. i .. last \subseteq i .. Len(readable) /\ i .. last \subseteq Nat
    <2> HIDE DEF last
    <2> QED
      BY <1>1
  <1>8. Commas \subseteq Nat
    BY <1>3, <1>7, Zenon
  <1>4. Behind \subseteq Commas /\ Behind \subseteq Nat
    BY <1>8
  <1>5. s \in Commas
    <2> HIDE DEF Behind, Commas, s
    <2> QED
      BY <1>2, <1>4, MinFacts
  <1>6. readable[s] \notin {"<", ">"} /\ Depth(readable, s) = Depth(readable, i - 1)
    <2>1. readable[s] = "," /\ Depth(readable, s) = Depth(readable, i - 1)
      BY <1>5
    <2> QED
      BY <2>1, Zenon
  <1>9. s \in i .. Len(readable)
    <2> HIDE DEF Commas, last, s
    <2> QED
      BY <1>3, <1>5, <1>7
  <1> QED
    BY <1>6, <1>9

-----------------------------------------------------------------------------
(* The passes.  The second one searches from the start each time.          *)
ReadableInv ==
    /\ TypeOK /\ AnglesBalanced /\ NeverThrows
    /\ pass = "delete" => from = 1

(* A pass goes on to its next entry, or the next pass begins.              *)
LEMMA NextEntryKeeps ==
  ASSUME ReadableInv, pass \in {"replace", "delete", "trim"}, NextEntry
  PROVE  ReadableInv' /\ Progress
  <1>1. /\ DOMAIN verboseLists = 1 .. 11 /\ Len(verboseLists) = 11
        /\ DOMAIN deleteList = 1 .. 4 /\ Len(deleteList) = 4
        /\ DOMAIN containerParameterList = 1 .. 6 /\ Len(containerParameterList) = 6
    BY VerboseEntries, OtherLists
  <1>2. /\ ListOf("replace") = verboseLists /\ ListOf("delete") = deleteList
        /\ ListOf("trim") = containerParameterList
    BY DEF ListOf
  <1>3. demangled' = demangled /\ readable' = readable /\ from' = 1
    BY DEF NextEntry
  <1>4. /\ readable \in Seq(Tokens) /\ Balanced(readable)
        /\ entry \in DOMAIN ListOf(pass)
    BY DEF ReadableInv, TypeOK, AnglesBalanced
  <1>5. /\ pass' \in {"replace", "delete", "trim", "done"}
        /\ pass' # "done" => entry' \in DOMAIN ListOf(pass')
        /\ \/ Stage(pass') > Stage(pass)
           \/ pass' = pass /\ entry' > entry
    <2>1. CASE entry < Len(ListOf(pass))
      <3>1. entry' = entry + 1 /\ pass' = pass
        BY <2>1 DEF NextEntry
      <3> QED
        BY <3>1, <2>1, <1>1, <1>2, <1>4
    <2>2. CASE ~(entry < Len(ListOf(pass)))
      <3>1. /\ entry' = 1
            /\ pass' = CASE pass = "replace" -> "delete"
                         [] pass = "delete" -> "trim"
                         [] pass = "trim" -> "done"
        BY <2>2 DEF NextEntry
      <3>2. Stage(pass') > Stage(pass)
        BY <3>1 DEF Stage
      <3>3. /\ pass' \in {"replace", "delete", "trim", "done"}
            /\ pass' # "done" => entry' \in DOMAIN ListOf(pass')
        BY <3>1, <1>1, <1>2
      <3> QED
        BY <3>2, <3>3
    <2> QED
      BY <2>1, <2>2
  <1>6. from' \in 1 .. Len(readable') + 1
    BY <1>3, <1>4, LenProperties
  <1>7. TypeOK'
    BY <1>3, <1>4, <1>5, <1>6 DEF TypeOK
  <1> QED
    BY <1>3, <1>4, <1>5, <1>7 DEF ReadableInv, AnglesBalanced, NeverThrows, Progress

(* l + 1 - j tokens behind j are kept, n stand from i on before them, and  *)
(* the search moves on from f to g.                                        *)
LEMMA LessIsLeft ==
  ASSUME NEW l \in Nat, NEW n \in Nat, NEW i \in Nat, NEW j \in Nat, NEW f \in Nat, NEW g \in Nat,
         NEW k, k = i - 1 + n + (l + 1 - j), g <= k + 1, g - f > n - (j - i)
  PROVE  k + 1 - g \in 0 .. (l + 1 - f) - 1
  OBVIOUS

(* A pass goes on in the same list once it has put a balanced text in the  *)
(* place of a part that opens and closes alike, and has less left if the   *)
(* search goes on behind the new text, or the text is shorter.             *)
LEMMA SubstituteKeeps ==
  ASSUME ReadableInv, pass \in {"replace", "delete", "trim"},
         NEW i \in 1 .. Len(readable) + 1, NEW j \in i .. Len(readable) + 1,
         Depth(readable, i - 1) = Depth(readable, j - 1),
         NEW new \in Seq(Tokens), Balanced(new), Substitute(i, j, new),
         UNCHANGED <<demangled, pass, entry>>,
         from' \in 1 .. i + Len(new), pass = "delete" => from' = from /\ j - i > Len(new),
         pass # "delete" => from' - from > Len(new) - (j - i)
  PROVE  ReadableInv' /\ Progress
  <1>1. /\ readable \in Seq(Tokens) /\ Balanced(readable)
        /\ entry \in DOMAIN ListOf(pass)
        /\ pass = "delete" => from = 1
        /\ from \in 1 .. Len(readable) + 1
    BY DEF ReadableInv, TypeOK, AnglesBalanced
  <1>2. /\ readable' \in Seq(Tokens) /\ Balanced(readable')
        /\ Len(readable') = i - 1 + Len(new) + (Len(readable) + 1 - j)
    BY <1>1, SubstituteFacts
  <1>3. from' \in 1 .. Len(readable') + 1
    <2>1. Len(readable) \in Nat /\ Len(new) \in Nat
      BY <1>1, LenProperties
    <2> QED
      BY <1>2, <2>1
  <1>4. demangled' = demangled /\ pass' = pass /\ entry' = entry
    OBVIOUS
  <1>5. TypeOK'
    <2>1. entry' \in DOMAIN ListOf(pass')
      BY <1>1, <1>4
    <2> QED
      BY <1>1, <1>2, <1>3, <1>4, <2>1 DEF TypeOK
  <1>6. Left' \in 0 .. Left - 1
    <2>1. /\ Len(readable) \in Nat /\ Len(new) \in Nat /\ i \in Nat /\ j \in Nat /\ j >= i /\ i >= 1
          /\ j <= Len(readable) + 1
          /\ Len(readable') = i - 1 + Len(new) + (Len(readable) + 1 - j)
          /\ from \in Nat /\ from' \in Nat /\ from' <= Len(readable') + 1
      BY <1>1, <1>2, <1>3, LenProperties
    <2>2. CASE pass = "delete"
      <3>1. Left = Len(readable) /\ Left' = Len(readable')
        BY <1>4, <2>2 DEF Left
      <3>2. j - i > Len(new)
        BY <2>2
      <3> QED
        BY <2>1, <3>1, <3>2
    <2>3. CASE pass # "delete"
      <3>1. Left = Len(readable) + 1 - from /\ Left' = Len(readable') + 1 - from'
        BY <1>4, <2>3 DEF Left
      <3>2. from' - from > Len(new) - (j - i)
        BY <2>3
      <3> QED
        BY <2>1, <3>1, <3>2, LessIsLeft
    <2> QED
      BY <2>2, <2>3
  <1> QED
    BY <1>1, <1>2, <1>4, <1>5, <1>6 DEF ReadableInv, AnglesBalanced, NeverThrows, Progress

(* A verbose name is replaced.                                             *)
LEMMA ReplaceKeeps == ReadableInv /\ Replace => ReadableInv' /\ Progress
  <1> SUFFICES ASSUME ReadableInv, Replace PROVE ReadableInv' /\ Progress
    OBVIOUS
  <1> DEFINE old == verboseLists[entry].instance
             new == verboseLists[entry].replace
             index == Find(old, from)
  <1>1. /\ pass = "replace" /\ entry \in 1 .. 11 /\ readable \in Seq(Tokens)
        /\ from \in 1 .. Len(readable) + 1 /\ Len(readable) \in Nat
    BY VerboseEntries, LenProperties DEF Replace, ReadableInv, TypeOK, ListOf
  <1>2. /\ old \in Seq(Verbose) /\ Balanced(old) /\ Len(old) \in Nat /\ Len(old) > 0
        /\ new \in Seq(Tokens) /\ Balanced(new) /\ Len(new) \in Nat
    BY <1>1, VerboseInstances, VerboseReplacements, LenProperties
  <1>3. CASE index = 0
    <2>1. NextEntry
      BY <1>3 DEF Replace
    <2> QED
      BY <1>1, <2>1, NextEntryKeeps
  <1>4. CASE index # 0
    <2>1. /\ Substitute(index, index + Len(old), new)
          /\ from' = index + Len(new) /\ UNCHANGED <<demangled, pass, entry>>
      BY <1>4 DEF Replace
    <2> HIDE DEF old, new
    <2>2. from \in Nat \ {0}
      BY <1>1
    <2>3. /\ index \in from .. Len(readable) - Len(old) + 1
          /\ Depth(readable, index - 1) = Depth(readable, index - 1 + Len(old))
      BY <1>1, <1>2, <1>4, <2>2, FindFacts, FindLevel
    <2> HIDE DEF index
    <2>4. /\ index \in 1 .. Len(readable) + 1
          /\ index + Len(old) \in index .. Len(readable) + 1
          /\ index - 1 + Len(old) = index + Len(old) - 1
          /\ from' \in 1 .. index + Len(new)
          /\ from' - from > Len(new) - (index + Len(old) - index)
      BY <1>1, <1>2, <2>1, <2>3
    <2> QED
      BY <1>1, <1>2, <2>1, <2>3, <2>4, SubstituteKeeps
  <1> QED
    BY <1>3, <1>4

(* The empty text.                                                         *)
LEMMA NoneBalanced == <<>> \in Seq(Tokens) /\ Balanced(<<>>) /\ Len(<<>>) = 0
  <1>1. <<>> \in Seq(Tokens) /\ Len(<<>>) = 0 /\ DOMAIN <<>> = {}
    OBVIOUS
  <1> QED
    BY <1>1, PlainBalanced

(* A template that is open before i is closed from there on.               *)
LEMMA OpenIsClosed ==
  ASSUME ReadableInv, NEW i \in 1 .. Len(readable) + 1, Depth(readable, i - 1) > 0
  PROVE  /\ CloseAngle(i) \in i .. Len(readable)
         /\ Depth(readable, CloseAngle(i) - 1) = Depth(readable, i - 1)
         /\ Depth(readable, CloseAngle(i)) = Depth(readable, i - 1) - 1
  <1>1. readable \in Seq(Tokens) /\ Balanced(readable)
    BY DEF ReadableInv, TypeOK, AnglesBalanced
  <1>2. CloseAngle(i) # 0
    BY <1>1, CloseAngleFound
  <1> QED
    BY <1>1, <1>2, CloseAngleFacts

(* Nowhere does the text close more than it opened.                        *)
LEMMA DepthNatural ==
  ASSUME ReadableInv
  PROVE  \A i \in 0 .. Len(readable) : Depth(readable, i) \in Nat
  <1>1. readable \in Seq(Tokens) /\ Balanced(readable) /\ Len(readable) \in Nat
    BY LenProperties DEF ReadableInv, TypeOK, AnglesBalanced
  <1>2. \A i \in 0 .. Len(readable) : Depth(readable, i) >= 0
    BY <1>1, BalancedFacts
  <1>3. \A i \in 0 .. Len(readable) : i \in Nat /\ Depth(readable, i) \in Int
    BY <1>1, DepthStep
  <1> QED
    BY <1>2, <1>3

(* A token is deleted.                                                     *)
LEMMA DeleteKeeps == ReadableInv /\ Delete => ReadableInv' /\ Progress
  <1> SUFFICES ASSUME ReadableInv, Delete PROVE ReadableInv' /\ Progress
    OBVIOUS
  <1> DEFINE index == Find(<<deleteList[entry]>>, from)
             angle == index < Len(readable) /\ readable[index + 1] = "<"
             close == IF angle THEN CloseAngle(index + 2) ELSE index
  <1>1. /\ pass = "delete" /\ entry \in 1 .. 4 /\ readable \in Seq(Tokens)
        /\ from = 1 /\ Len(readable) \in Nat
    BY OtherLists, LenProperties DEF Delete, ReadableInv, TypeOK, ListOf
  <1>2. CASE index = 0
    <2>1. NextEntry
      BY <1>2 DEF Delete
    <2> QED
      BY <1>1, <2>1, NextEntryKeeps
  <1>3. CASE index # 0
    <2>1. IF angle /\ close = 0 THEN Throw
          ELSE Substitute(index, close + 1, <<>>) /\ UNCHANGED <<demangled, pass, entry, from>>
      BY <1>3 DEF Delete
    <2>2. index \in 1 .. Len(readable) /\ readable[index] = deleteList[entry]
      BY <1>1, <1>3, FindToken
    <2> HIDE DEF index
    <2>3. Depth(readable, index) = Depth(readable, index - 1) /\ Depth(readable, index) \in Nat
      <3>1. Angle(readable[index]) = 0
        BY <1>1, <2>2, OtherLists, AnglesAreOne
      <3>2. /\ index \in Nat \ {0} /\ index - 1 \in 0 .. Len(readable)
            /\ index \in 0 .. Len(readable)
        BY <1>1, <2>2
      <3>3. Depth(readable, index) = Depth(readable, index - 1) + Angle(readable[index])
        BY <3>2, DepthStep
      <3>4. Depth(readable, index - 1) \in Nat /\ Depth(readable, index) \in Nat
        BY <3>2, DepthNatural
      <3> QED
        BY <3>1, <3>3, <3>4
    <2>4. /\ ~(angle /\ close = 0)
          /\ close \in index .. Len(readable)
          /\ Depth(readable, close) = Depth(readable, index - 1)
      <3>1. CASE angle
        <4> DEFINE i == index + 2
        <4>1. Depth(readable, index + 1) = Depth(readable, index) + 1
          <5>1. Depth(readable, index + 1) = Depth(readable, index) + Angle(readable[index + 1])
            BY <2>2, DepthNext
          <5> QED
            BY <3>1, <5>1, AnglesAreOne
        <4>2. i \in 1 .. Len(readable) + 1 /\ i - 1 = index + 1 /\ i > index /\ close = CloseAngle(i)
          BY <1>1, <2>2, <3>1
        <4> HIDE DEF close, i
        <4>3. Depth(readable, i - 1) > 0
          BY <4>1, <4>2, <2>3
        <4>4. /\ close \in i .. Len(readable)
              /\ Depth(readable, close) = Depth(readable, i - 1) - 1
          BY <4>2, <4>3, OpenIsClosed
        <4>5. close # 0 /\ close \in index .. Len(readable)
          BY <4>2, <4>4, <1>1, <2>2
        <4>6. Depth(readable, close) = Depth(readable, index - 1)
          BY <4>1, <4>2, <4>4, <2>3
        <4> QED
          BY <4>5, <4>6
      <3>2. CASE ~angle
        BY <3>2, <1>1, <2>2, <2>3
      <3> QED
        BY <3>1, <3>2
    <2>5. Substitute(index, close + 1, <<>>) /\ UNCHANGED <<demangled, pass, entry, from>>
      BY <2>1, <2>4
    <2> HIDE DEF close, angle
    <2>6. /\ index \in 1 .. Len(readable) + 1 /\ close + 1 \in index .. Len(readable) + 1
          /\ close + 1 - 1 = close /\ from' = from /\ from' \in 1 .. index + 0
      BY <1>1, <2>2, <2>4, <2>5
    <2> DEFINE none == <<>>
               j == close + 1
    <2>7. none \in Seq(Tokens) /\ Balanced(none) /\ Len(none) = 0 /\ Substitute(index, j, none)
      BY <2>5, NoneBalanced
    <2>8. j - 1 = close /\ j \in index .. Len(readable) + 1 /\ j - index > 0
      BY <1>1, <2>2, <2>4
    <2> HIDE DEF none, j
    <2> QED
      BY <1>1, <2>4, <2>5, <2>6, <2>7, <2>8, SubstituteKeeps
  <1> QED
    BY <1>2, <1>3

(* Parameters of a container are cut off.                                  *)
LEMMA TrimKeeps == ReadableInv /\ Trim => ReadableInv' /\ Progress
  <1> SUFFICES ASSUME ReadableInv, Trim PROVE ReadableInv' /\ Progress
    OBVIOUS
  <1> DEFINE c == containerParameterList[entry]
             index == Find(<<c.instance>>, from)
             o == OpenAngle(index)
             i == o + 1
             start == StartDeletion(i, c.count)
             close == CloseAngle(start)
             none == <<>>
  <1>1. /\ pass = "trim" /\ readable \in Seq(Tokens) /\ from \in Nat \ {0}
        /\ Len(readable) \in Nat
    BY LenProperties DEF Trim, ReadableInv, TypeOK
  <1>2. IF index = 0 \/ o = 0 THEN NextEntry
        ELSE IF start # 0 /\ close = 0 THEN Throw
        ELSE /\ IF start = 0 THEN UNCHANGED readable ELSE Substitute(start, close, none)
             /\ from' = index + 1 /\ UNCHANGED <<demangled, pass, entry>>
    BY DEF Trim
  <1>3. CASE index = 0 \/ o = 0
    BY <1>1, <1>2, <1>3, NextEntryKeeps
  <1>4. CASE ~(index = 0 \/ o = 0)
    <2>1. index \in from .. Len(readable) /\ index \in Nat \ {0}
      BY <1>1, <1>4, FindToken
    <2>2. o \in index .. Len(readable) /\ readable[o] = "<"
      BY <1>1, <1>4, <2>1, FindToken DEF OpenAngle
    <2>3. none \in Seq(Tokens) /\ Balanced(none) /\ Len(none) = 0
      BY NoneBalanced
    <2>4. start # 0 =>
            /\ start \in i .. Len(readable) /\ readable[start] \notin {"<", ">"}
            /\ Depth(readable, start) = Depth(readable, i - 1)
      <3>1. i \in 1 .. Len(readable) + 1
        BY <1>1, <2>1, <2>2
      <3> HIDE DEF i
      <3> QED
        BY <1>1, <3>1, StartDeletionFacts
    <2>5. i - 1 = o /\ i \in Nat /\ i > index
      BY <2>1, <2>2
    <2> HIDE DEF c, index, o, i, start, none
    <2>6. CASE start = 0
      <3>1. readable' = readable /\ from' = index + 1 /\ UNCHANGED <<demangled, pass, entry>>
        BY <1>2, <1>4, <2>6
      <3>2. from' \in 1 .. Len(readable) + 1
        BY <3>1, <1>1, <2>1
      <3>3. TypeOK'
        BY <3>1, <3>2 DEF ReadableInv, TypeOK
      <3>4. Left' \in 0 .. Left - 1
        <4>1. /\ Left = Len(readable) + 1 - from /\ Left' = Len(readable') + 1 - from'
              /\ from >= 1 /\ index >= from
          BY <3>1, <1>1, <2>1 DEF Left
        <4> QED
          BY <4>1, <3>1, <1>1, <2>1
      <3> QED
        BY <3>1, <3>3, <3>4, <1>1 DEF ReadableInv, AnglesBalanced, NeverThrows, Progress
    <2>7. CASE start # 0
      <3>1. /\ start \in i .. Len(readable) /\ readable[start] \notin {"<", ">"}
            /\ Depth(readable, start) = Depth(readable, o)
        BY <2>4, <2>5, <2>7
      <3>2. o \in Nat \ {0} /\ o - 1 \in 0 .. Len(readable) /\ o \in 0 .. Len(readable)
        BY <1>1, <2>1, <2>2
      <3>3. /\ start \in Nat \ {0} /\ start - 1 \in 0 .. Len(readable) /\ start \in 0 .. Len(readable)
            /\ start \in 1 .. Len(readable) + 1 /\ start > index
        BY <1>1, <2>1, <2>5, <3>1, <3>2
      <3>4. Depth(readable, start - 1) > 0
        <4>1. /\ Depth(readable, o) = Depth(readable, o - 1) + Angle(readable[o])
              /\ Depth(readable, start) = Depth(readable, start - 1) + Angle(readable[start])
          BY <3>2, <3>3, DepthStep
        <4>2. /\ Depth(readable, o) \in Nat /\ Depth(readable, o - 1) \in Nat
              /\ Depth(readable, start) \in Nat /\ Depth(readable, start - 1) \in Nat
          BY <3>2, <3>3, DepthNatural
        <4>3. Angle(readable[o]) = 1 /\ Angle(readable[start]) = 0
          BY <2>2, <3>1, AnglesAreOne
        <4> QED
          BY <4>1, <4>2, <4>3, <3>1
      <3>5. /\ close \in start .. Len(readable)
            /\ Depth(readable, close - 1) = Depth(readable, start - 1)
        BY <3>3, <3>4, OpenIsClosed
      <3> HIDE DEF close
      <3>6. close # 0
        BY <3>3, <3>5
      <3>7. /\ Substitute(start, close, none)
            /\ from' = index + 1 /\ UNCHANGED <<demangled, pass, entry>>
        BY <1>2, <1>4, <2>7, <3>6
      <3>8. close \in start .. Len(readable) + 1
        BY <1>1, <3>3, <3>5
      <3>9. from' \in 1 .. start + Len(none) /\ from' - from > Len(none) - (close - start)
        BY <1>1, <2>1, <2>3, <3>3, <3>5, <3>7
      <3> QED
        BY <1>1, <2>3, <3>3, <3>5, <3>7, <3>8, <3>9, SubstituteKeeps
    <2> QED
      BY <2>6, <2>7
  <1> QED
    BY <1>3, <1>4

(* In every reachable state.                                               *)
LEMMA ReadableInvariance == Spec => []ReadableInv
  <1>1. Init => ReadableInv
    <2> SUFFICES ASSUME Init PROVE ReadableInv
      OBVIOUS
    <2>1. /\ demangled \in Names /\ readable = Text[demangled]
          /\ pass = "replace" /\ entry = 1 /\ from = 1
      BY DEF Init
    <2>2. readable \in Seq(Tokens) /\ Balanced(readable)
      <3>1. readable \in Seq(ToSet(Text[demangled])) /\ Balanced(readable)
        BY <2>1, TextAssumption
      <3>2. ToSet(Text[demangled]) \subseteq Tokens
        BY <2>1 DEF Tokens
      <3>3. readable \in [1 .. Len(readable) -> Tokens] /\ Len(readable) \in Nat
        BY <3>1, <3>2, LenProperties
      <3> QED
        BY <3>1, <3>3
    <2>3. entry \in DOMAIN ListOf(pass)
      <3>1. ListOf(pass) = verboseLists
        BY <2>1 DEF ListOf
      <3>2. entry \in DOMAIN verboseLists
        <4>1. DOMAIN verboseLists = 1 .. 11
          BY VerboseEntries
        <4> QED
          BY <2>1, <4>1
      <3> QED
        BY <3>1, <3>2, Zenon
    <2>4. from \in 1 .. Len(readable) + 1
      BY <2>1, <2>2, LenProperties
    <2> QED
      BY <2>1, <2>2, <2>3, <2>4 DEF ReadableInv, TypeOK, AnglesBalanced, NeverThrows
  <1>2. ReadableInv /\ [Next]_readableVars => ReadableInv'
    <2> SUFFICES ASSUME ReadableInv, [Next]_readableVars PROVE ReadableInv'
      OBVIOUS
    <2>1. CASE UNCHANGED readableVars
      BY <2>1 DEF readableVars, ReadableInv, TypeOK, AnglesBalanced, NeverThrows
    <2>2. CASE Done
      BY <2>1, <2>2 DEF Done
    <2> QED
      BY <2>1, <2>2, ReplaceKeeps, DeleteKeeps, TrimKeeps DEF Next
  <1> QED
    BY <1>1, <1>2, PTL DEF Spec

(* Whatever the name, the entry is one of the list of the pass, and the    *)
(* next search begins within the text or right behind it.                  *)
THEOREM ReadableTypeOK == Spec => []TypeOK
  <1>1. ReadableInv => TypeOK
    BY DEF ReadableInv
  <1> QED
    BY <1>1, ReadableInvariance, PTL

(* No pass leaves the angles of a name unbalanced.                         *)
THEOREM ReadableStaysBalanced == Spec => []AnglesBalanced
  <1>1. ReadableInv => AnglesBalanced
    BY DEF ReadableInv
  <1> QED
    BY <1>1, ReadableInvariance, PTL

(* The exceptions of both deletion loops are never thrown: an angle that   *)
(* is open in a balanced name is closed in it.                             *)
THEOREM ReadableNeverThrows == Spec => []NeverThrows
  <1>1. ReadableInv => NeverThrows
    BY DEF ReadableInv
  <1> QED
    BY <1>1, ReadableInvariance, PTL

(* The comments at the loops of demangledToReadable are right for every    *)
(* name: each iteration leaves less to the next one or is the last of its  *)
(* loop, so that the loops end.                                            *)
THEOREM ReadableAlwaysProgresses == Spec => ReadableProgresses
  <1>1. ReadableInv /\ [Next]_readableVars => [Progress]_readableVars
    <2> SUFFICES ASSUME ReadableInv, Next PROVE Progress \/ UNCHANGED readableVars
      OBVIOUS
    <2> QED
      BY ReplaceKeeps, DeleteKeeps, TrimKeeps DEF Next, Done
  <1> QED
    BY <1>1, ReadableInvariance, PTL DEF Spec, ReadableProgresses
=============================================================================
