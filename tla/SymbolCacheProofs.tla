------------------------- MODULE SymbolCacheProofs -------------------------
(***************************************************************************)
(* The cache of symbol lookups and its record of use, for every set of     *)
(* names and every sequence of lookups and settings: the cache is in step  *)
(* with the record, within its limits, evicts by use, and is invisible.    *)
(***************************************************************************)
EXTENDS SymbolCache, SequenceLemmas

-----------------------------------------------------------------------------
(* What is erased from a list.                                             *)

Kept(list, gone) ==
    CHOOSE kept : kept = [i \in 0 .. Len(list) |->
        IF i = 0 THEN <<>>
        ELSE IF list[i] \in gone THEN kept[i - 1] ELSE Append(kept[i - 1], list[i])]

(* The recursive function of Without exists.                               *)
LEMMA KeptDef ==
  ASSUME NEW S, NEW list \in Seq(S), NEW gone
  PROVE  /\ Without(list, gone) = Kept(list, gone)[Len(list)]
         /\ Kept(list, gone) = [i \in 0 .. Len(list) |->
                IF i = 0 THEN <<>>
                ELSE IF list[i] \in gone THEN Kept(list, gone)[i - 1]
                     ELSE Append(Kept(list, gone)[i - 1], list[i])]
  <1> DEFINE Step(g, i) == IF i = 0 THEN <<>>
                           ELSE IF list[i] \in gone THEN g[i - 1] ELSE Append(g[i - 1], list[i])
             T == {n \in Nat : \E g : g = [i \in 0 .. n |-> Step(g, i)]}
  <1>1. 0 \in T
    <2>1. [i \in 0 .. 0 |-> <<>>] = [i \in 0 .. 0 |-> Step([j \in 0 .. 0 |-> <<>>], i)]
      OBVIOUS
    <2> QED
      BY <2>1
  <1>2. ASSUME NEW n \in Nat, n \in T PROVE n + 1 \in T
    <2>1. PICK g : g = [i \in 0 .. n |-> Step(g, i)]
      BY <1>2
    <2> DEFINE h == [i \in 0 .. n + 1 |-> IF i <= n THEN g[i] ELSE Step(g, n + 1)]
    <2>2. \A i \in 0 .. n : h[i] = g[i]
      OBVIOUS
    <2>3. ASSUME NEW i \in 0 .. n + 1 PROVE h[i] = Step(h, i)
      <3>1. CASE i = n + 1
        BY <3>1, <2>2
      <3>2. CASE i \in 0 .. n
        <4>1. g[i] = Step(g, i)
          BY <2>1, <3>2
        <4> QED
          BY <4>1, <3>2, <2>2
      <3> QED
        BY <3>1, <3>2
    <2>4. h = [i \in 0 .. n + 1 |-> Step(h, i)]
      BY <2>3
    <2>5. \E f : f = [i \in 0 .. n + 1 |-> Step(f, i)]
      <3> HIDE DEF h, Step
      <3> QED
        BY <2>4
    <2> HIDE DEF h, Step
    <2> QED
      BY <2>5
  <1>3. Len(list) \in T
    <2> HIDE DEF T
    <2> QED
      BY <1>1, <1>2, NatSetInduction, LenProperties
  <1>4. \E g : g = [i \in 0 .. Len(list) |-> Step(g, i)]
    BY <1>3
  <1>5. Kept(list, gone) = [i \in 0 .. Len(list) |-> Step(Kept(list, gone), i)]
    BY <1>4 DEF Kept
  <1>6. Without(list, gone) = Kept(list, gone)[Len(list)]
    BY DEF Without, Kept
  <1> QED
    BY <1>5, <1>6

(* Erasing takes the erased elements, no others, and keeps the order.      *)
LEMMA WithoutOrder ==
  ASSUME NEW S, NEW list \in Seq(S), NEW gone
  PROVE  /\ Without(list, gone) \in Seq(S)
         /\ ToSet(Without(list, gone)) = ToSet(list) \ gone
         /\ \A a, b : Before(Without(list, gone), a, b) <=>
                          Before(list, a, b) /\ a \notin gone /\ b \notin gone
  <1> DEFINE K == Kept(list, gone)
             Holds(i, a) == \E k \in 1 .. i : list[k] = a
             Order(i, a, b) == \E k, l \in 1 .. i : k < l /\ list[k] = a /\ list[l] = b
             Good(i) == /\ K[i] \in Seq(S)
                        /\ \A a : a \in ToSet(K[i]) <=> Holds(i, a) /\ a \notin gone
                        /\ \A a, b : Before(K[i], a, b) <=>
                               Order(i, a, b) /\ a \notin gone /\ b \notin gone
             T == {n \in Nat : n <= Len(list) => Good(n)}
  <1>1. /\ DOMAIN list = 1 .. Len(list) /\ Len(list) \in Nat
        /\ \A i \in 1 .. Len(list) : list[i] \in S
    BY LenProperties, ElementOfSeq
  <1>2. /\ K[0] = <<>>
        /\ \A i \in 1 .. Len(list) :
              K[i] = IF list[i] \in gone THEN K[i - 1] ELSE Append(K[i - 1], list[i])
    <2>1. K = [i \in 0 .. Len(list) |->
                IF i = 0 THEN <<>>
                ELSE IF list[i] \in gone THEN K[i - 1] ELSE Append(K[i - 1], list[i])]
      BY KeptDef
    <2> HIDE DEF K
    <2> DEFINE L == Len(list)
    <2>2. L \in Nat
      BY <1>1
    <2>3. K = [i \in 0 .. L |->
                IF i = 0 THEN <<>>
                ELSE IF list[i] \in gone THEN K[i - 1] ELSE Append(K[i - 1], list[i])]
      BY <2>1
    <2> HIDE DEF L
    <2>4. K[0] = <<>>
      BY <2>2, <2>3
    <2>5. ASSUME NEW i \in 1 .. L
          PROVE  K[i] = IF list[i] \in gone THEN K[i - 1] ELSE Append(K[i - 1], list[i])
      <3>1. i \in 0 .. L /\ i # 0
        BY <2>2
      <3> QED
        BY <2>3, <3>1
    <2> QED
      BY <2>4, <2>5 DEF L
  <1> HIDE DEF K
  <1>3. 0 \in T
    <2>1. K[0] \in Seq(S) /\ DOMAIN K[0] = {}
      BY <1>2
    <2>2. ToSet(K[0]) = {} /\ \A a, b : ~Before(K[0], a, b)
      BY <2>1 DEF ToSet, Before
    <2>3. \A a, b : ~Holds(0, a) /\ ~Order(0, a, b)
      OBVIOUS
    <2> QED
      BY <2>1, <2>2, <2>3
  <1>4. ASSUME NEW n \in Nat, n \in T PROVE n + 1 \in T
    <2> SUFFICES ASSUME n + 1 <= Len(list) PROVE Good(n + 1)
      OBVIOUS
    <2> DEFINE m == n + 1
    <2>1. Good(n) /\ list[m] \in S /\ m \in 1 .. Len(list)
      BY <1>1, <1>4
    <2>2. K[m] = IF list[m] \in gone THEN K[n] ELSE Append(K[n], list[m])
      BY <2>1, <1>2
    <2>3. \A a : Holds(m, a) <=> Holds(n, a) \/ a = list[m]
      OBVIOUS
    <2>4. \A a, b : Order(m, a, b) <=> Order(n, a, b) \/ (Holds(n, a) /\ b = list[m])
      <3>1. ASSUME NEW a, NEW b, Order(m, a, b)
            PROVE  Order(n, a, b) \/ (Holds(n, a) /\ b = list[m])
        <4>1. PICK k, l \in 1 .. m : k < l /\ list[k] = a /\ list[l] = b
          BY <3>1
        <4> QED
          BY <4>1
      <3>2. ASSUME NEW a, NEW b, Order(n, a, b) PROVE Order(m, a, b)
        BY <3>2
      <3>3. ASSUME NEW a, NEW b, Holds(n, a), b = list[m] PROVE Order(m, a, b)
        <4>1. PICK k \in 1 .. n : list[k] = a
          BY <3>3
        <4>2. k \in 1 .. m /\ m \in 1 .. m /\ k < m
          OBVIOUS
        <4> QED
          BY <4>1, <4>2, <3>3
      <3> QED
        BY <3>1, <3>2, <3>3
    <2> HIDE DEF Holds, Order, m
    <2>5. CASE list[m] \in gone
      BY <2>1, <2>2, <2>3, <2>4, <2>5 DEF m
    <2>6. CASE list[m] \notin gone
      <3>1. /\ K[m] \in Seq(S) /\ ToSet(K[m]) = ToSet(K[n]) \cup {list[m]}
            /\ \A a, b : Before(K[m], a, b) <=>
                   Before(K[n], a, b) \/ (a \in ToSet(K[n]) /\ b = list[m])
        BY <2>1, <2>2, <2>6, AppendOrder
      <3>2. \A a : a \in ToSet(K[m]) <=> Holds(m, a) /\ a \notin gone
        BY <3>1, <2>1, <2>3, <2>6
      <3>3. \A a, b : Before(K[m], a, b) <=> Order(m, a, b) /\ a \notin gone /\ b \notin gone
        BY <3>1, <2>1, <2>4, <2>6
      <3> QED
        BY <3>1, <3>2, <3>3 DEF m
    <2> QED
      BY <2>5, <2>6
  <1>5. Good(Len(list))
    <2>1. Len(list) \in T
      <3> HIDE DEF T
      <3> QED
        BY <1>1, <1>3, <1>4, NatSetInduction
    <2> HIDE DEF Good
    <2> QED
      BY <2>1, <1>1
  <1>6. Without(list, gone) = K[Len(list)]
    BY KeptDef DEF K
  <1>7. \A a : Holds(Len(list), a) <=> a \in ToSet(list)
    BY <1>1 DEF ToSet
  <1>8. \A a, b : Order(Len(list), a, b) <=> Before(list, a, b)
    BY <1>1 DEF Before
  <1> HIDE DEF Holds, Order
  <1> QED
    BY <1>5, <1>6, <1>7, <1>8

(* The key that is used goes to the back of its list, once.                *)
LEMMA ToBackOrder ==
  ASSUME NEW S, NEW list \in Seq(S), Distinct(list), NEW n \in S
  PROVE  /\ ToBack(list, n) \in Seq(S)
         /\ Distinct(ToBack(list, n))
         /\ ToSet(ToBack(list, n)) = ToSet(list) \cup {n}
         /\ Len(ToBack(list, n)) = IF n \in ToSet(list) THEN Len(list) ELSE Len(list) + 1
         /\ \A a, b : Before(ToBack(list, n), a, b) <=>
                \/ Before(list, a, b) /\ a # n /\ b # n
                \/ a \in ToSet(list) /\ a # n /\ b = n
  <1> DEFINE t == ToBack(list, n)
  <1>1. /\ Without(list, {n}) \in Seq(S)
        /\ ToSet(Without(list, {n})) = ToSet(list) \ {n}
        /\ \A a, b : Before(Without(list, {n}), a, b) <=>
                         Before(list, a, b) /\ a \notin {n} /\ b \notin {n}
    BY WithoutOrder
  <1> HIDE DEF t
  <1>2. /\ t \in Seq(S) /\ ToSet(t) = ToSet(list) \cup {n}
        /\ \A a, b : Before(t, a, b) <=>
               Before(Without(list, {n}), a, b) \/ (a \in ToSet(list) \ {n} /\ b = n)
    <2> DEFINE w == Without(list, {n})
    <2> HIDE DEF w
    <2>1. w \in Seq(S) /\ ToSet(w) = ToSet(list) \ {n} /\ t = Append(w, n)
      BY <1>1 DEF w, t, ToBack
    <2>2. /\ t \in Seq(S) /\ ToSet(t) = ToSet(w) \cup {n}
          /\ \A a, b : Before(t, a, b) <=> Before(w, a, b) \/ (a \in ToSet(w) /\ b = n)
      <3>1. /\ Append(w, n) \in Seq(S) /\ ToSet(Append(w, n)) = ToSet(w) \cup {n}
            /\ \A a, b : Before(Append(w, n), a, b) <=>
                   Before(w, a, b) \/ (a \in ToSet(w) /\ b = n)
        BY <2>1, AppendOrder
      <3> QED
        BY <3>1, <2>1
    <2> QED
      BY <2>1, <2>2 DEF w
  <1>3. \A a, b : Before(t, a, b) <=>
            \/ Before(list, a, b) /\ a # n /\ b # n
            \/ a \in ToSet(list) /\ a # n /\ b = n
    BY <1>1, <1>2
  <1>4. Distinct(t)
    BY <1>3, DistinctOrder
  <1>5. Len(t) = Cardinality(ToSet(list) \cup {n})
    BY <1>2, <1>4, DistinctLength
  <1>6. IsFiniteSet(ToSet(list)) /\ Cardinality(ToSet(list)) = Len(list)
    BY DistinctLength
  <1>7. Len(t) = IF n \in ToSet(list) THEN Len(list) ELSE Len(list) + 1
    BY <1>5, <1>6, FS_AddElement
  <1> QED
    BY <1>2, <1>3, <1>4, <1>7 DEF t

-----------------------------------------------------------------------------
(* The sizes set_cache_max accepts; the debug command accepts 0 as well,   *)
(* and then the cache and its record do part.                              *)
PositiveSizes == 0 \notin Sizes

(* The list of use is what is cached, once each, in the order of use, no   *)
(* longer than allowed, and what is cached is what a search would find.    *)
CacheInv ==
    /\ TypeOK
    /\ symbolCacheSize # 0
    /\ recency \in Seq(Names) /\ Distinct(recency)
    /\ Distinct(lruList)
    /\ ToSet(lruList) = lruMap
    /\ DOMAIN cache = lruMap
    /\ lruMap \subseteq ToSet(recency)
    /\ \A a, b \in Names : Before(lruList, a, b) => Before(recency, a, b)
    /\ Len(lruList) <= symbolCacheSize
    /\ \A n \in lruMap : Length[n] >= minCachedStringLength /\ cache[n] = Matching[n]
    /\ ~warned

(* A key is used: it goes to the back, and what the list no longer holds   *)
(* was used before everything it holds.                                    *)
LEMMA TouchKeyFacts ==
  ASSUME CacheInv, NEW n \in Names, recency' = ToBack(recency, n)
  PROVE  LET touched == TouchKey(n)
         IN  /\ recency' \in Seq(Names) /\ Distinct(recency)'
             /\ lruMap \cup {n} \subseteq ToSet(recency')
             /\ touched.list \in Seq(Names) /\ Distinct(touched.list)
             /\ ToSet(touched.list) = touched.map
             /\ Len(touched.list) <= symbolCacheSize
             /\ touched.map = (lruMap \cup {n}) \ touched.erase
             /\ touched.erase \subseteq lruMap \ {n}
             /\ n \in lruMap => touched.erase = {}
             /\ \A a, b \in Names : Before(touched.list, a, b) => Before(recency', a, b)
             /\ \A a \in touched.erase, b \in touched.map : Before(recency', a, b)
  <1> DEFINE list == ToBack(lruList, n)
             full == n \notin lruMap /\ Len(list) > symbolCacheSize
             touched == TouchKey(n)
  <1>1. /\ lruList \in Seq(Names) /\ Distinct(lruList) /\ ToSet(lruList) = lruMap
        /\ Len(lruList) \in Nat /\ symbolCacheSize \in Nat /\ symbolCacheSize # 0
        /\ Len(lruList) <= symbolCacheSize /\ lruMap \subseteq Names
    BY LenProperties DEF CacheInv, TypeOK
  <1>2. /\ list \in Seq(Names) /\ Distinct(list) /\ ToSet(list) = lruMap \cup {n}
        /\ Len(list) = IF n \in lruMap THEN Len(lruList) ELSE Len(lruList) + 1
        /\ \A a, b : Before(list, a, b) <=>
               \/ Before(lruList, a, b) /\ a # n /\ b # n
               \/ a \in lruMap /\ a # n /\ b = n
    <2>1. /\ list \in Seq(Names) /\ Distinct(list) /\ ToSet(list) = ToSet(lruList) \cup {n}
          /\ Len(list) = IF n \in ToSet(lruList) THEN Len(lruList) ELSE Len(lruList) + 1
          /\ \A a, b : Before(list, a, b) <=>
                 \/ Before(lruList, a, b) /\ a # n /\ b # n
                 \/ a \in ToSet(lruList) /\ a # n /\ b = n
      <3>1. lruList \in Seq(Names) /\ Distinct(lruList)
        BY <1>1
      <3>2. n \in Names
        OBVIOUS
      <3> QED
        BY ONLY <3>1, <3>2, ToBackOrder DEF list
    <2> HIDE DEF list
    <2> QED
      BY <2>1, <1>1
  <1>3. /\ recency' \in Seq(Names) /\ Distinct(recency') /\ ToSet(recency') = ToSet(recency) \cup {n}
        /\ \A a, b : Before(recency', a, b) <=>
               \/ Before(recency, a, b) /\ a # n /\ b # n
               \/ a \in ToSet(recency) /\ a # n /\ b = n
    <2>1. recency \in Seq(Names) /\ Distinct(recency)
      BY DEF CacheInv
    <2> DEFINE new == ToBack(recency, n)
    <2>2. /\ new \in Seq(Names) /\ Distinct(new) /\ ToSet(new) = ToSet(recency) \cup {n}
          /\ \A a, b : Before(new, a, b) <=>
                 \/ Before(recency, a, b) /\ a # n /\ b # n
                 \/ a \in ToSet(recency) /\ a # n /\ b = n
      BY <2>1, ToBackOrder
    <2> HIDE DEF new
    <2>3. recency' = new
      BY DEF new
    <2> QED
      BY <2>2, <2>3
  <1> HIDE DEF list
  <1>4. \A a, b \in Names : Before(list, a, b) => Before(recency', a, b)
    BY <1>1, <1>2, <1>3 DEF CacheInv
  <1>5. lruMap \cup {n} \subseteq ToSet(recency')
    BY <1>3 DEF CacheInv
  <1>6. Distinct(recency)' <=> Distinct(recency')
    BY DEF Distinct, Before, ToSet
  <1>7. CASE ~full
    <2>1. touched.list = list /\ touched.map = lruMap \cup {n} /\ touched.erase = {}
      BY <1>7 DEF TouchKey, list
    <2>2. Len(list) <= symbolCacheSize
      BY <1>1, <1>2, <1>7
    <2> HIDE DEF touched
    <2> QED
      BY <2>1, <2>2, <1>2, <1>3, <1>4, <1>5, <1>6 DEF touched
  <1>8. CASE full
    <2>1. /\ touched.list = Tail(list) /\ touched.erase = {Head(list)}
          /\ touched.map = (lruMap \cup {n}) \ {Head(list)}
      BY <1>8 DEF TouchKey, list
    <2>2. Len(list) = Len(lruList) + 1 /\ Len(list) >= 2 /\ list # <<>>
      BY <1>1, <1>2, <1>8, EmptySeq
    <2> DEFINE rest == SubSeq(list, 1 + 1, Len(list))
               first == SubSeq(list, 1, 1)
    <2>3. 1 \in 0 .. Len(list) /\ DOMAIN list = 1 .. Len(list) /\ Len(list) \in Nat
      BY <1>1, <1>2, <2>2, LenProperties
    <2>4. /\ rest \in Seq(Names) /\ Len(rest) = Len(list) - 1
          /\ ToSet(list) = ToSet(first) \cup ToSet(rest)
          /\ \A a, b : Before(rest, a, b) => Before(list, a, b)
          /\ \A a \in ToSet(first), b \in ToSet(rest) : Before(list, a, b)
      BY <1>2, <2>3, SplitOrder
    <2>5. Tail(list) = rest
      BY <1>2, <2>2, TailIsSubSeq
    <2>6. ToSet(first) = {Head(list)}
      <3>1. /\ first \in Seq(Names) /\ Len(first) = 1 /\ first[1] = list[1]
        <4>1. \A i \in 1 .. 1 : list[i] \in Names
          BY <1>2, <2>3, ElementOfSeq
        <4> QED
          BY <4>1, <2>3, SubSeqProperties
      <3>2. DOMAIN first = {1} /\ Head(list) = list[1]
        BY <3>1, <1>2, <2>2, LenProperties
      <3> HIDE DEF first
      <3> QED
        BY <3>1, <3>2 DEF ToSet
    <2> HIDE DEF rest, first
    <2>7. Distinct(rest)
      BY <2>4, <1>2, DistinctOrder
    <2>8. Head(list) \notin ToSet(rest) /\ Head(list) \in ToSet(list)
      BY <2>4, <2>6, <1>2, DistinctOrder
    <2>9. n # Head(list)
      <3>1. PICK b \in ToSet(rest) : TRUE
        <4>1. DOMAIN rest = 1 .. Len(rest) /\ Len(rest) >= 1
          BY <2>2, <2>4, LenProperties, <2>3
        <4>2. rest[1] \in ToSet(rest)
          BY <4>1 DEF ToSet
        <4> QED
          BY <4>2
      <3>2. Before(list, Head(list), b)
        BY <2>4, <2>6, <3>1
      <3> QED
        BY <3>2, <1>1, <1>2, <1>8
    <2>10. ToSet(rest) = (lruMap \cup {n}) \ {Head(list)}
      BY <2>4, <2>6, <2>8, <1>2
    <2>11. \A b \in ToSet(rest) : Before(recency', Head(list), b)
      BY <2>4, <2>6, <2>8, <1>4, <1>2, <1>1
    <2>12. \A a, b \in Names : Before(rest, a, b) => Before(recency', a, b)
      BY <2>4, <1>4
    <2>13. Len(rest) <= symbolCacheSize
      BY <2>2, <2>4, <1>1
    <2>14. {Head(list)} \subseteq lruMap \ {n} /\ n \notin lruMap
      BY <2>8, <2>9, <1>2, <1>8
    <2> HIDE DEF touched
    <2>15. /\ touched.list = rest /\ touched.erase = {Head(list)}
           /\ touched.map = (lruMap \cup {n}) \ {Head(list)}
      BY <2>1, <2>5
    <2> QED
      BY <2>4, <2>7, <2>10, <2>11, <2>12, <2>13, <2>14, <2>15, <1>3, <1>5, <1>6 DEF touched
  <1> QED
    BY <1>7, <1>8

-----------------------------------------------------------------------------
(* A name that leaves the cache is too short now, or was used before those *)
(* that stay.                                                              *)
LeavesFirst ==
    \A gone \in DOMAIN cache \ DOMAIN cache', stays \in DOMAIN cache' :
        \/ Length[gone] < minCachedStringLength'
        \/ Before(recency', gone, stays)

(* What an operation leaves behind, from what it does to the two records.  *)
LEMMA InStepAgain ==
  ASSUME NEW list \in Seq(Names), NEW keys \in SUBSET Names,
         NEW size \in Nat \ {0}, NEW length \in Nat, NEW used \in Seq(Names), NEW c,
         lruList' = list, lruMap' = keys, symbolCacheSize' = size,
         minCachedStringLength' = length, recency' = used, cache' = c, warned' \in BOOLEAN, ~warned',
         Distinct(used), Distinct(list), ToSet(list) = keys,
         c \in [keys -> SUBSET Symbols],
         keys \subseteq ToSet(used),
         \A a, b \in Names : Before(list, a, b) => Before(used, a, b),
         Len(list) <= size,
         \A n \in keys : Length[n] >= length /\ c[n] = Matching[n]
  PROVE  CacheInv'
  <1>1. DOMAIN c = keys
    OBVIOUS
  <1>2. c \in UNION {[D -> SUBSET Symbols] : D \in SUBSET Names}
    OBVIOUS
  <1>3. Distinct(recency)' /\ Distinct(lruList)' /\ (ToSet(lruList) = lruMap)'
    BY DEF Distinct, Before, ToSet
  <1>4. TypeOK'
    <2>1. (cache \in UNION {[D -> SUBSET Symbols] : D \in SUBSET Names})'
      BY <1>2
    <2>2. (lruList \in Seq(Names) /\ lruMap \subseteq Names)'
      OBVIOUS
    <2>3. (symbolCacheSize \in Nat /\ minCachedStringLength \in Nat /\ warned \in BOOLEAN)'
      OBVIOUS
    <2> QED
      BY <2>1, <2>2, <2>3 DEF TypeOK
  <1>5. (/\ symbolCacheSize # 0
         /\ recency \in Seq(Names)
         /\ DOMAIN cache = lruMap
         /\ lruMap \subseteq ToSet(recency)
         /\ Len(lruList) <= symbolCacheSize)'
    BY <1>1 DEF ToSet
  <1>6. (\A a, b \in Names : Before(lruList, a, b) => Before(recency, a, b))'
    BY DEF Before
  <1>7. (\A n \in lruMap : Length[n] >= minCachedStringLength /\ cache[n] = Matching[n])'
    OBVIOUS
  <1> QED
    BY <1>3, <1>4, <1>5, <1>6, <1>7 DEF CacheInv

(* What a search or the cache answers is the same.                         *)
LEMMA HitStep ==
  ASSUME CacheInv, NEW n \in Names, NEW strict \in BOOLEAN, Hit(n, strict),
         recency' = ToBack(recency, n),
         UNCHANGED <<symbolCacheSize, minCachedStringLength>>
  PROVE  /\ CacheInv' /\ LeavesFirst
         /\ Promise!Lookup(n, strict)
  <1> DEFINE touched == TouchKey(n)
             used == ToBack(recency, n)
  <1>1. /\ recency' \in Seq(Names) /\ Distinct(recency)'
        /\ lruMap \cup {n} \subseteq ToSet(recency')
        /\ touched.list \in Seq(Names) /\ Distinct(touched.list)
        /\ ToSet(touched.list) = touched.map
        /\ Len(touched.list) <= symbolCacheSize
        /\ touched.map = (lruMap \cup {n}) \ touched.erase
        /\ n \in lruMap => touched.erase = {}
        /\ \A a, b \in Names : Before(touched.list, a, b) => Before(recency', a, b)
    BY TouchKeyFacts
  <1>2. /\ lruList' = touched.list /\ lruMap' = touched.map
        /\ warned' = (warned \/ touched.erase # {})
        /\ cache' = cache /\ n \in DOMAIN cache
        /\ answer' = Promise!Answer(n, strict, IF strict THEN cache[n] \cap Exact[n] ELSE cache[n])
    BY DEF Hit
  <1> HIDE DEF touched
  <1>3. /\ DOMAIN cache = lruMap /\ lruMap \subseteq Names /\ warned \in BOOLEAN /\ ~warned
        /\ symbolCacheSize \in Nat \ {0} /\ minCachedStringLength \in Nat
        /\ cache \in [lruMap -> SUBSET Symbols]
        /\ \A m \in lruMap : Length[m] >= minCachedStringLength /\ cache[m] = Matching[m]
    BY DEF CacheInv, TypeOK
  <1>4. touched.erase = {} /\ touched.map = lruMap /\ warned' \in BOOLEAN /\ ~warned'
    BY <1>1, <1>2, <1>3
  <1>5. Distinct(recency')
    BY <1>1 DEF Distinct, Before, ToSet
  <1>6. CacheInv'
    <2>1. recency' \in Seq(Names) /\ lruMap \subseteq ToSet(recency') /\ ToSet(touched.list) = lruMap
      BY <1>1, <1>4
    <2>2. lruMap' = lruMap /\ cache' = cache
      BY <1>2, <1>4
    <2> HIDE DEF CacheInv
    <2> QED
      BY <1>1, <1>2, <1>3, <1>4, <1>5, <2>1, <2>2, InStepAgain
  <1>7. LeavesFirst
    BY <1>2 DEF LeavesFirst
  <1>8. cache[n] = Matching[n] /\ Exact[n] \subseteq Matching[n]
    BY <1>2, <1>3, CacheAssumption
  <1>9. Promise!Lookup(n, strict)
    BY <1>2, <1>8 DEF Promise!Lookup, Promise!Found
  <1> QED
    BY <1>6, <1>7, <1>9

(* A symbol that is not cached is looked up, and kept or not.              *)
LEMMA MissStep ==
  ASSUME CacheInv, NEW n \in Names, NEW strict \in BOOLEAN, NEW keep \in BOOLEAN,
         Miss(n, strict, keep),
         recency' = ToBack(recency, n),
         UNCHANGED <<symbolCacheSize, minCachedStringLength>>
  PROVE  /\ CacheInv' /\ LeavesFirst
         /\ Promise!Lookup(n, strict)
  <1> DEFINE touched == TouchKey(n)
             put == Put(cache, n, Matching[n])
             kept == Drop(put, touched.erase)
  <1>1. /\ recency' \in Seq(Names) /\ Distinct(recency)'
        /\ lruMap \cup {n} \subseteq ToSet(recency')
        /\ touched.list \in Seq(Names) /\ Distinct(touched.list)
        /\ ToSet(touched.list) = touched.map
        /\ Len(touched.list) <= symbolCacheSize
        /\ touched.map = (lruMap \cup {n}) \ touched.erase
        /\ touched.erase \subseteq lruMap \ {n}
        /\ \A a, b \in Names : Before(touched.list, a, b) => Before(recency', a, b)
        /\ \A a \in touched.erase, b \in touched.map : Before(recency', a, b)
    BY TouchKeyFacts
  <1>2. /\ DOMAIN cache = lruMap /\ lruMap \subseteq Names /\ warned' \in BOOLEAN /\ ~warned'
        /\ symbolCacheSize \in Nat \ {0} /\ minCachedStringLength \in Nat
        /\ cache \in [lruMap -> SUBSET Symbols]
        /\ n \notin lruMap /\ Matching[n] \in SUBSET Symbols
        /\ \A m \in lruMap : Length[m] >= minCachedStringLength /\ cache[m] = Matching[m]
    BY CacheAssumption DEF CacheInv, TypeOK, Miss
  <1>3. Distinct(recency')
    BY <1>1 DEF Distinct, Before, ToSet
  <1>4. CASE keep /\ Length[n] >= minCachedStringLength
    <2> DEFINE listed == IF n \in DOMAIN kept THEN kept ELSE Put(kept, n, {})
    <2>1. /\ lruList' = touched.list /\ lruMap' = touched.map
          /\ cache' = IF strict THEN kept ELSE listed
          /\ answer' = Promise!Answer(n, strict, IF strict THEN Exact[n] ELSE listed[n])
      BY <1>4 DEF Miss
    <2> HIDE DEF touched
    <2>2. /\ put \in [lruMap \cup {n} -> SUBSET Symbols]
          /\ \A m \in lruMap \cup {n} : put[m] = Matching[m]
      BY <1>2 DEF Put
    <2>3. /\ kept \in [touched.map -> SUBSET Symbols]
          /\ \A m \in touched.map : kept[m] = Matching[m]
      <3>1. kept = [m \in (lruMap \cup {n}) \ touched.erase |-> put[m]]
        BY <2>2 DEF Drop
      <3> HIDE DEF put, kept
      <3> QED
        BY <3>1, <2>2, <1>1
    <2>4. n \in touched.map
      BY <1>1
    <2>5. listed = kept
      BY <2>3, <2>4
    <2> HIDE DEF kept, listed
    <2>6. cache' = kept
      BY <2>1, <2>5
    <2>7. touched.map \in SUBSET Names /\ touched.map \subseteq ToSet(recency')
      BY <1>1, <1>2
    <2>8. \A m \in touched.map : Length[m] >= minCachedStringLength
      BY <1>1, <1>2, <1>4
    <2>9. CacheInv'
      <3> DEFINE list == touched.list
                 keys == touched.map
      <3>1. /\ recency' \in Seq(Names) /\ list \in Seq(Names)
            /\ Distinct(list) /\ ToSet(list) = keys /\ Len(list) <= symbolCacheSize
            /\ \A a, b \in Names : Before(list, a, b) => Before(recency', a, b)
        BY <1>1
      <3>2. /\ lruList' = list /\ lruMap' = keys /\ warned' \in BOOLEAN /\ ~warned'
            /\ symbolCacheSize \in Nat \ {0} /\ minCachedStringLength \in Nat
        BY <1>2, <2>1
      <3>3. /\ kept \in [keys -> SUBSET Symbols] /\ cache' = kept
            /\ keys \in SUBSET Names /\ keys \subseteq ToSet(recency')
            /\ \A m \in keys : Length[m] >= minCachedStringLength /\ kept[m] = Matching[m]
        BY <2>3, <2>6, <2>7, <2>8
      <3> HIDE DEF CacheInv, list, keys
      <3> QED
        BY <1>3, <3>1, <3>2, <3>3, InStepAgain
    <2>10. LeavesFirst
      <3>1. DOMAIN cache' = touched.map /\ DOMAIN cache \ DOMAIN cache' \subseteq touched.erase
        BY <2>3, <2>6, <1>1, <1>2
      <3> QED
        BY <3>1, <1>1 DEF LeavesFirst
    <2>11. Promise!Lookup(n, strict)
      BY <2>1, <2>3, <2>4, <2>5 DEF Promise!Lookup, Promise!Found
    <2> QED
      BY <2>9, <2>10, <2>11
  <1>5. CASE ~(keep /\ Length[n] >= minCachedStringLength)
    <2>1. /\ answer' = Promise!Answer(n, strict, Promise!Found(n, strict))
          /\ lruList' = lruList /\ lruMap' = lruMap /\ cache' = cache
      BY <1>5 DEF Miss
    <2>2. /\ recency \in Seq(Names) /\ Distinct(recency)
          /\ lruList \in Seq(Names) /\ Distinct(lruList) /\ ToSet(lruList) = lruMap
          /\ Len(lruList) <= symbolCacheSize
          /\ \A a, b \in Names : Before(lruList, a, b) => Before(recency, a, b)
      BY DEF CacheInv, TypeOK
    <2>3. \A a, b : Before(recency, a, b) /\ a # n /\ b # n => Before(recency', a, b)
      <3> DEFINE new == ToBack(recency, n)
      <3>1. \A a, b : Before(new, a, b) <=>
                \/ Before(recency, a, b) /\ a # n /\ b # n
                \/ a \in ToSet(recency) /\ a # n /\ b = n
        BY <2>2, ToBackOrder
      <3> HIDE DEF new
      <3>2. recency' = new
        BY DEF new
      <3> QED
        BY <3>1, <3>2
    <2>4. \A a, b \in Names : Before(lruList, a, b) => Before(recency', a, b)
      <3>1. \A a, b : Before(lruList, a, b) => a \in lruMap /\ b \in lruMap
        BY <2>2, DistinctOrder
      <3> QED
        BY <3>1, <2>2, <2>3, <1>2
    <2>5. lruMap \subseteq ToSet(recency') /\ recency' \in Seq(Names) /\ lruMap \in SUBSET Names
      BY <1>1, <1>2
    <2>6. CacheInv'
      BY <1>2, <1>3, <2>1, <2>2, <2>4, <2>5, InStepAgain
    <2>7. LeavesFirst
      BY <2>1 DEF LeavesFirst
    <2>8. Promise!Lookup(n, strict)
      BY <2>1 DEF Promise!Lookup
    <2> QED
      BY <2>6, <2>7, <2>8
  <1> QED
    BY <1>4, <1>5

(* What is too short or too much for the settings is evicted.              *)
LEMMA ConfigureStep ==
  ASSUME CacheInv, Configure,
         symbolCacheSize' \in Nat \ {0}, minCachedStringLength' \in Nat,
         \/ minCachedStringLength' = minCachedStringLength
         \/ symbolCacheSize' = symbolCacheSize
  PROVE  CacheInv' /\ LeavesFirst
  <1> DEFINE size == symbolCacheSize'
             short == {n \in lruMap : Length[n] < minCachedStringLength'}
             long == Without(lruList, short)
             surplus == IF Len(long) > size THEN Len(long) - size ELSE 0
             first == SubSeq(long, 1, surplus)
             rest == SubSeq(long, surplus + 1, Len(long))
             deletion == short \cup ToSet(first)
  <1>1. /\ lruList' = rest /\ lruMap' = lruMap \ deletion /\ cache' = Drop(cache, deletion)
        /\ UNCHANGED <<answer, warned, recency>>
    BY DEF Configure
  <1>2. /\ recency \in Seq(Names) /\ Distinct(recency)
        /\ lruList \in Seq(Names) /\ Distinct(lruList) /\ ToSet(lruList) = lruMap
        /\ DOMAIN cache = lruMap /\ lruMap \subseteq Names /\ lruMap \subseteq ToSet(recency)
        /\ \A a, b \in Names : Before(lruList, a, b) => Before(recency, a, b)
        /\ cache \in [lruMap -> SUBSET Symbols] /\ warned \in BOOLEAN /\ ~warned
        /\ \A n \in lruMap : cache[n] = Matching[n]
    BY DEF CacheInv, TypeOK
  <1>3. /\ long \in Seq(Names) /\ ToSet(long) = lruMap \ short
        /\ \A a, b : Before(long, a, b) => Before(lruList, a, b)
    <2> DEFINE gone == short
    <2> HIDE DEF gone
    <2>1. /\ Without(lruList, gone) \in Seq(Names)
          /\ ToSet(Without(lruList, gone)) = ToSet(lruList) \ gone
          /\ \A a, b : Before(Without(lruList, gone), a, b) <=>
                 Before(lruList, a, b) /\ a \notin gone /\ b \notin gone
      BY <1>2, WithoutOrder
    <2>2. ToSet(Without(lruList, gone)) = lruMap \ gone
      BY <2>1, <1>2
    <2> QED
      BY <2>1, <2>2 DEF gone
  <1> HIDE DEF size, long, short
  <1>4. size \in Nat /\ Len(long) \in Nat /\ surplus \in 0 .. Len(long)
        /\ Len(long) - surplus <= size
    <2>1. size \in Nat /\ Len(long) \in Nat
      BY <1>3, LenProperties DEF size
    <2> QED
      BY <2>1
  <1> HIDE DEF surplus
  <1>5. /\ rest \in Seq(Names) /\ Len(rest) = Len(long) - surplus
        /\ ToSet(long) = ToSet(first) \cup ToSet(rest)
        /\ \A a, b : Before(rest, a, b) => Before(long, a, b)
        /\ \A a \in ToSet(first), b \in ToSet(rest) : Before(long, a, b)
    BY <1>3, <1>4, SplitOrder
  <1> HIDE DEF rest, first
  <1>6. Len(rest) <= size
    BY <1>4, <1>5
  <1>7. Distinct(rest)
    BY <1>2, <1>3, <1>5, DistinctOrder
  <1>8. ToSet(first) \cap ToSet(rest) = {}
    <2>1. \A a : ~Before(long, a, a)
      BY <1>2, <1>3, DistinctOrder
    <2> QED
      BY <2>1, <1>5
  <1>9. ToSet(rest) = lruMap \ deletion /\ deletion \subseteq lruMap
    <2>1. short \subseteq lruMap
      BY DEF short
    <2> QED
      BY <2>1, <1>3, <1>5, <1>8
  <1> DEFINE keys == lruMap \ deletion
             c == Drop(cache, deletion)
  <1>10. /\ c \in [keys -> SUBSET Symbols]
         /\ \A n \in keys : c[n] = Matching[n]
    <2> HIDE DEF deletion
    <2> QED
      BY <1>2 DEF Drop
  <1>11. \A n \in keys : Length[n] >= minCachedStringLength'
    <2>1. \A n \in keys : n \notin short /\ n \in lruMap
      OBVIOUS
    <2>2. \A n \in lruMap : Length[n] \in Nat
      BY <1>2, CacheAssumption
    <2> HIDE DEF keys
    <2> QED
      BY <2>1, <2>2 DEF short
  <1>12. \A a, b \in Names : Before(rest, a, b) => Before(recency, a, b)
    BY <1>2, <1>3, <1>5
  <1>13. \A a \in ToSet(first), b \in ToSet(rest) : Before(recency, a, b)
    <2>1. \A a \in ToSet(first), b \in ToSet(rest) : a \in Names /\ b \in Names
      BY <1>2, <1>3, <1>5
    <2> QED
      BY <2>1, <1>2, <1>3, <1>5
  <1>14. CacheInv'
    <2>1. keys \in SUBSET Names /\ keys \subseteq ToSet(recency) /\ ToSet(rest) = keys
      BY <1>2, <1>9
    <2>2. recency' = recency /\ warned' \in BOOLEAN /\ ~warned' /\ lruList' = rest /\ lruMap' = keys /\ cache' = c
      BY <1>1, <1>2
    <2>3. size \in Nat \ {0} /\ symbolCacheSize' = size
      BY DEF size
    <2> HIDE DEF keys, c
    <2> QED
      BY <1>2, <1>5, <1>6, <1>7, <1>10, <1>11, <1>12, <2>1, <2>2, <2>3, InStepAgain
  <1>15. LeavesFirst
    <2>1. DOMAIN cache' = keys /\ recency' = recency /\ DOMAIN cache = lruMap
      BY <1>1, <1>2, <1>10
    <2>2. lruMap \ keys = deletion /\ keys = ToSet(rest)
      BY <1>9
    <2>3. \A gone \in short : Length[gone] < minCachedStringLength'
      BY DEF short
    <2> HIDE DEF keys
    <2>4. \A gone \in deletion, stays \in keys :
             Length[gone] < minCachedStringLength' \/ Before(recency, gone, stays)
      BY <2>2, <2>3, <1>13
    <2> HIDE DEF deletion
    <2>5. \A gone \in lruMap \ keys, stays \in keys :
             Length[gone] < minCachedStringLength' \/ Before(recency', gone, stays)
      BY <2>1, <2>2, <2>4
    <2> QED
      BY <2>1, <2>5 DEF LeavesFirst
  <1> QED
    BY <1>14, <1>15

(* The cache is cleared.                                                   *)
LEMMA ClearCacheStep ==
  ASSUME CacheInv, ClearCache
  PROVE  CacheInv' /\ LeavesFirst
  <1>1. /\ lruList' = <<>> /\ lruMap' = {} /\ cache' = [n \in {} |-> {}]
        /\ UNCHANGED <<symbolCacheSize, minCachedStringLength, answer, warned, recency>>
    BY DEF ClearCache
  <1>2. /\ <<>> \in Seq(Names) /\ ToSet(<<>>) = {} /\ Len(<<>>) = 0
        /\ Distinct(<<>>) /\ \A a, b : ~Before(<<>>, a, b)
    BY DEF ToSet, Distinct, Before
  <1>3. /\ recency \in Seq(Names) /\ Distinct(recency) /\ warned \in BOOLEAN /\ ~warned
        /\ symbolCacheSize \in Nat \ {0} /\ minCachedStringLength \in Nat
    BY DEF CacheInv, TypeOK
  <1>4. CacheInv'
    <2>1. [n \in {} |-> {}] \in [{} -> SUBSET Symbols]
      OBVIOUS
    <2>2. recency' = recency /\ warned' \in BOOLEAN /\ ~warned' /\ symbolCacheSize' = symbolCacheSize
          /\ minCachedStringLength' = minCachedStringLength
      BY <1>1, <1>3
    <2>3. 0 <= symbolCacheSize
      BY <1>3
    <2> QED
      BY <1>1, <1>2, <1>3, <2>1, <2>2, <2>3, InStepAgain
  <1>5. LeavesFirst
    BY <1>1 DEF LeavesFirst
  <1> QED
    BY <1>4, <1>5

-----------------------------------------------------------------------------
(* A symbol is looked up, and found in the cache or not.                   *)
LEMMA LookupStep ==
  ASSUME CacheInv, NEW n \in Names, NEW strict \in BOOLEAN, NEW keep \in BOOLEAN,
         GetSymbolListFromName(n, strict, keep)
  PROVE  CacheInv' /\ LeavesFirst /\ Promise!Next
  <1>1. /\ Hit(n, strict) \/ Miss(n, strict, keep)
        /\ recency' = ToBack(recency, n)
        /\ UNCHANGED <<symbolCacheSize, minCachedStringLength>>
    BY DEF GetSymbolListFromName
  <1>2. CacheInv' /\ LeavesFirst /\ Promise!Lookup(n, strict)
    BY <1>1, HitStep, MissStep
  <1> QED
    BY <1>2 DEF Promise!Next

(* A setting changes, and is applied.                                      *)
LEMMA SettingStep ==
  ASSUME CacheInv, PositiveSizes,
         \/ \E size \in Sizes : SetMaxSymbolCacheSize(size)
         \/ \E length \in MinLengths : SetMinCachedStringLength(length)
  PROVE  CacheInv' /\ LeavesFirst /\ answer' = answer
  <1>1. symbolCacheSize \in Nat \ {0} /\ minCachedStringLength \in Nat
    BY DEF CacheInv, TypeOK
  <1>2. /\ symbolCacheSize' \in Nat \ {0} /\ minCachedStringLength' \in Nat
        /\ \/ minCachedStringLength' = minCachedStringLength
           \/ symbolCacheSize' = symbolCacheSize
        /\ Configure
    BY <1>1, CacheAssumption
       DEF SetMaxSymbolCacheSize, SetMinCachedStringLength, PositiveSizes
  <1>3. answer' = answer
    BY <1>2 DEF Configure
  <1> QED
    BY <1>2, <1>3, ConfigureStep

(* Nothing changes.                                                        *)
LEMMA StutterStep ==
  ASSUME CacheInv, UNCHANGED vars
  PROVE  CacheInv' /\ LeavesFirst /\ answer' = answer
  <1>1. LeavesFirst /\ answer' = answer
    BY DEF vars, LeavesFirst
  <1>2. CacheInv'
    BY DEF vars, CacheInv, TypeOK, Distinct, Before, ToSet
  <1> QED
    BY <1>1, <1>2

(* The empty cache.                                                        *)
LEMMA CacheInvInit ==
  ASSUME Init
  PROVE  CacheInv
  <1>1. /\ <<>> \in Seq(Names) /\ ToSet(<<>>) = {} /\ Len(<<>>) = 0
        /\ Distinct(<<>>) /\ \A a, b : ~Before(<<>>, a, b)
    BY DEF ToSet, Distinct, Before
  <1>2. [n \in {} |-> {}] \in [{} -> SUBSET Symbols] /\ {} \in SUBSET Names
    OBVIOUS
  <1>3. cache \in UNION {[D -> SUBSET Symbols] : D \in SUBSET Names}
    BY <1>2 DEF Init
  <1>4. TypeOK
    BY <1>1, <1>3 DEF Init, TypeOK
  <1>5. /\ symbolCacheSize # 0 /\ ~warned /\ Len(lruList) <= symbolCacheSize
        /\ lruMap = {} /\ DOMAIN cache = {}
    BY <1>1 DEF Init
  <1>6. /\ recency = <<>> /\ lruList = <<>>
    BY DEF Init
  <1>7. ToSet(lruList) = lruMap /\ lruMap \subseteq ToSet(recency) /\ DOMAIN cache = lruMap
    BY <1>1, <1>5, <1>6
  <1>8. /\ recency \in Seq(Names) /\ Distinct(recency) /\ Distinct(lruList)
        /\ \A a, b \in Names : Before(lruList, a, b) => Before(recency, a, b)
    BY <1>1, <1>6
  <1>9. \A n \in lruMap : Length[n] >= minCachedStringLength /\ cache[n] = Matching[n]
    BY <1>5
  <1> QED
    BY <1>4, <1>5, <1>7, <1>8, <1>9 DEF CacheInv

(* Every step.                                                             *)
LEMMA CacheInvNext ==
  ASSUME PositiveSizes, CacheInv, [Next]_vars
  PROVE  CacheInv' /\ LeavesFirst /\ (Promise!Next \/ answer' = answer)
  <1>1. CASE \E n \in Names, strict \in BOOLEAN : GetSymbolListFromName(n, strict, TRUE)
    BY <1>1, LookupStep
  <1>2. CASE \E n \in Names : GetSymbolListFromName(n, FALSE, FALSE)
    BY <1>2, LookupStep
  <1>3. CASE \/ \E size \in Sizes : SetMaxSymbolCacheSize(size)
             \/ \E length \in MinLengths : SetMinCachedStringLength(length)
    BY <1>3, SettingStep
  <1>4. CASE ClearCache
    <2>1. answer' = answer
      BY <1>4 DEF ClearCache
    <2> QED
      BY <2>1, <1>4, ClearCacheStep
  <1>5. CASE UNCHANGED vars
    BY <1>5, StutterStep
  <1> QED
    BY <1>1, <1>2, <1>3, <1>4, <1>5 DEF Next

(* Every state the cache reaches, whatever is looked up and set to a       *)
(* positive size, is in the inductive invariant.                           *)
THEOREM CacheInvariance ==
  ASSUME PositiveSizes
  PROVE  Spec => []CacheInv
  <1>1. CacheInv /\ [Next]_vars => CacheInv'
    BY CacheInvNext
  <1> QED
    BY CacheInvInit, <1>1, PTL DEF Spec

(* Every variable keeps its type.                                          *)
THEOREM CacheTypeOK ==
  ASSUME PositiveSizes
  PROVE  Spec => []TypeOK
  <1>1. CacheInv => TypeOK
    BY DEF CacheInv
  <1> QED
    BY <1>1, CacheInvariance, PTL

(* SymbolMap's cache and SymbolConfig's list and map of the keys hold the  *)
(* same keys, the list each of them once.                                  *)
THEOREM CacheInStep ==
  ASSUME PositiveSizes
  PROVE  Spec => []InStep
  <1>1. CacheInv => InStep
    <2> SUFFICES ASSUME CacheInv PROVE InStep
      OBVIOUS
    <2>1. /\ lruList \in Seq(Names) /\ Distinct(lruList)
          /\ ToSet(lruList) = lruMap /\ DOMAIN cache = lruMap
      BY DEF CacheInv, TypeOK
    <2>2. Cardinality(ToSet(lruList)) = Len(lruList)
      BY <2>1, DistinctLength
    <2> QED
      BY <2>1, <2>2 DEF InStep
  <1> QED
    BY <1>1, CacheInvariance, PTL

(* The cache never holds more keys than symbolCacheSize_ allows, nor one   *)
(* shorter than minCachedStringLength_.                                    *)
THEOREM CacheWithinLimits ==
  ASSUME PositiveSizes
  PROVE  Spec => []WithinLimits
  <1>1. CacheInv => WithinLimits
    <2> SUFFICES ASSUME CacheInv PROVE WithinLimits
      OBVIOUS
    <2>1. /\ lruList \in Seq(Names) /\ Distinct(lruList)
          /\ ToSet(lruList) = lruMap /\ DOMAIN cache = lruMap
          /\ Len(lruList) <= symbolCacheSize
          /\ \A n \in lruMap : Length[n] >= minCachedStringLength
      BY DEF CacheInv, TypeOK
    <2>2. Cardinality(DOMAIN cache) = Len(lruList)
      BY <2>1, DistinctLength
    <2> QED
      BY <2>1, <2>2 DEF WithinLimits
  <1> QED
    BY <1>1, CacheInvariance, PTL

(* The warning of getSymbolListFromName, "Cache is out of sync with LRU    *)
(* config", is never given unless the size of the cache was set to 0.      *)
THEOREM CacheNeverOutOfSync ==
  ASSUME PositiveSizes
  PROVE  Spec => []NeverOutOfSync
  <1>1. CacheInv => NeverOutOfSync
    BY DEF CacheInv, NeverOutOfSync
  <1> QED
    BY <1>1, CacheInvariance, PTL

(* touchKey and configureCache drop a key that is long enough only when it *)
(* was looked up before every key they keep.                               *)
THEOREM CacheEvictsLeastRecent ==
  ASSUME PositiveSizes
  PROVE  Spec => EvictsLeastRecent
  <1> DEFINE Evicts ==
        \A gone \in DOMAIN cache \ DOMAIN cache', stays \in DOMAIN cache' :
            \/ Length[gone] < minCachedStringLength'
            \/ Since(gone)' < Since(stays)'
  <1>1. CacheInv /\ [Next]_vars => [Evicts]_vars
    <2> SUFFICES ASSUME CacheInv, [Next]_vars PROVE Evicts
      OBVIOUS
    <2>1. CacheInv' /\ LeavesFirst
      BY CacheInvNext
    <2>2. recency' \in Seq(Names) /\ Distinct(recency')
      <3>1. (recency \in Seq(Names) /\ Distinct(recency))'
        BY <2>1 DEF CacheInv
      <3> QED
        BY <3>1 DEF Distinct, Before, ToSet
    <2>3. ASSUME NEW gone, NEW stays, Before(recency', gone, stays)
          PROVE  Since(gone)' < Since(stays)'
      BY <2>2, <2>3, DistinctPlace DEF Since
    <2> QED
      BY <2>1, <2>3 DEF LeavesFirst
  <1> QED
    BY <1>1, CacheInvariance, PTL DEF Spec, EvictsLeastRecent

(* Whatever the cache holds, a lookup answers what a search of the symbol  *)
(* tables answers, and nothing else changes an answer.                     *)
THEOREM CacheTransparent ==
  ASSUME PositiveSizes
  PROVE  Spec => Transparent
  <1>1. Init => Promise!Init
    BY DEF Init, Promise!Init
  <1>2. CacheInv /\ [Next]_vars => [Promise!Next]_answer
    BY CacheInvNext
  <1> QED
    BY <1>1, <1>2, CacheInvariance, PTL DEF Spec, Transparent, Promise!Spec
=============================================================================
