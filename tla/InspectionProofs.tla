-------------------------- MODULE InspectionProofs --------------------------
(***************************************************************************)
(* What holds of the commands that look, for every debuggee: every layout  *)
(* of its memory, every debug information, every program.                  *)
(***************************************************************************)
EXTENDS Backtrace, SequenceLemmas

-----------------------------------------------------------------------------
(* The mappings of the child and the debugger's chunks.                    *)

KnownLine == [low : Nat, high : Nat, perms : SUBSET {"r", "w", "x"}, name : KnownNames]

(* The lines of /proc/pid/maps have the type the proofs use.               *)
LEMMA LoadedTyped == ToSet(Loaded) \cup Extra \subseteq KnownLine /\ Loaded \in Seq(KnownLine)
  <1>1. Loaded \in Seq(MapLine) /\ Extra \subseteq MapLine
    BY MemoryMapAssumption, ExtraAssumption
  <1>2. ToSet(Loaded) \subseteq MapLine
    BY <1>1, ElementOfSeq, LenProperties DEF ToSet
  <1>3. ASSUME NEW line \in ToSet(Loaded) \cup Extra PROVE line \in KnownLine
    <2>1. line \in MapLine /\ line.name \in KnownNames
      BY <1>1, <1>2 DEF KnownNames
    <2>2. line = [low |-> line.low, high |-> line.high, perms |-> line.perms, name |-> line.name]
          /\ line.low \in Nat /\ line.high \in Nat /\ line.perms \in SUBSET {"r", "w", "x"}
      BY <2>1 DEF MapLine
    <2> QED
      BY <2>1, <2>2 DEF KnownLine
  <1>4. DOMAIN Loaded = 1 .. Len(Loaded) /\ Len(Loaded) \in Nat
        /\ \A i \in 1 .. Len(Loaded) : Loaded[i] \in KnownLine
    BY <1>1, <1>3, LenProperties DEF ToSet
  <1> QED
    BY <1>1, <1>3, <1>4, FunctionIsSeq, LenProperties

(* What is loaded, line by line.                                           *)
LEMMA LoadedFacts ==
  /\ DOMAIN Loaded = 1 .. Len(Loaded) /\ Len(Loaded) \in Nat
  /\ \A i \in DOMAIN Loaded :
        /\ Loaded[i] \in KnownLine /\ Loaded[i] \in ToSet(Loaded)
        /\ Loaded[i].low \in Nat /\ Loaded[i].high \in Nat /\ Loaded[i].low < Loaded[i].high
  <1>1. Loaded \in Seq(MapLine) /\ Loaded \in Seq(KnownLine) /\ InOrder(Loaded)
    BY MemoryMapAssumption, LoadedTyped
  <1>2. DOMAIN Loaded = 1 .. Len(Loaded) /\ Len(Loaded) \in Nat
    BY <1>1, LenProperties
  <1>3. ASSUME NEW i \in DOMAIN Loaded
        PROVE  /\ Loaded[i] \in KnownLine /\ Loaded[i] \in ToSet(Loaded)
               /\ Loaded[i].low \in Nat /\ Loaded[i].high \in Nat /\ Loaded[i].low < Loaded[i].high
    <2>1. Loaded[i] \in MapLine /\ Loaded[i] \in KnownLine
      BY <1>1, <1>2, ElementOfSeq
    <2> QED
      BY <2>1, <1>1 DEF MapLine, ToSet, InOrder
  <1> QED
    BY <1>2, <1>3

-----------------------------------------------------------------------------
(* Multiples.                                                              *)
LEMMA MultipleIsWhole ==
  ASSUME NEW A \in Nat, A > 0, NEW q \in Int, NEW x \in Int, x = A * q
  PROVE  x % A = 0
  OBVIOUS

(* The multiples next to a multiple.                                       *)
LEMMA MultiplesBeside ==
  ASSUME NEW A \in Nat, A > 0, NEW x \in Int, x % A = 0
  PROVE  (x - A) % A = 0 /\ (x + A) % A = 0
  <1> DEFINE q == x \div A
  <1>1. x = A * q /\ q \in Int
    OBVIOUS
  <1> HIDE DEF q
  <1>2. x - A = A * (q - 1) /\ x + A = A * (q + 1)
    BY <1>1
  <1>3. q - 1 \in Int /\ q + 1 \in Int /\ x - A \in Int /\ x + A \in Int
    BY <1>1
  <1> QED
    BY <1>2, <1>3, MultipleIsWhole

-----------------------------------------------------------------------------
(* The stack of the child: of each activation the address sp[i] of its     *)
(* return address and the frame pointer bp[i] it runs with.                *)

Phases == {"entered", "pushed", "framed", "scratch", "left"}
Activation == [func : DOMAIN Funcs, ret : Int, phase : Phases]

(* The activation keeps its caller's rbp on the stack.                     *)
Holds(c) == c.phase \in {"pushed", "framed", "scratch"}

(* The lowest word of the i-th activation.                                 *)
Bottom(cs, sp, i) == IF Holds(cs[i]) THEN sp[i] - Align ELSE sp[i]

Shape(cs, r, sp) ==
    /\ sp \in Seq(Int) /\ Len(sp) = Len(cs)
    /\ r = Bottom(cs, sp, 1)
    /\ sp[Len(cs)] = StackTop /\ cs[Len(cs)].phase = "entered"
    /\ \A i \in 1 .. Len(cs) : sp[i] % Align = 0 /\ Bottom(cs, sp, i) >= StackLimit
    /\ \A i \in 1 .. Len(cs) - 1 : sp[i] = Bottom(cs, sp, i + 1) - Align
    /\ \A i, j \in 1 .. Len(cs) : i < j => sp[i] <= Bottom(cs, sp, j) - Align

(* Each return address is where it belongs, and each frame pointer that is *)
(* kept is the caller's; it is not used as one if its function has not set *)
(* it up.                                                                  *)
Chain(cs, w, b, sp, bp) ==
    /\ bp \in Seq(Int) /\ Len(bp) = Len(cs)
    /\ b = bp[1] /\ bp[Len(cs)] = 1
    /\ \A i \in 1 .. Len(cs) - 1 :
          /\ w[sp[i]] = cs[i].ret
          /\ Holds(cs[i]) => w[sp[i] - Align] = bp[i + 1]
          /\ cs[i].phase = "framed" => bp[i] = sp[i] - Align
          /\ cs[i].phase \in {"entered", "pushed", "left"} => bp[i] = bp[i + 1]

CallsTyped(cs) ==
    /\ cs \in Seq(Activation) /\ Len(cs) > 0
    /\ \A i \in 1 .. Len(cs) - 1 : cs[i].ret \in Returns[cs[i + 1].func]

StackInv ==
    /\ CallsTyped(calls) /\ rsp \in Int /\ rbp \in Int
    /\ word \in [DOMAIN Data \cup StackWords -> Int]
    /\ Funcs[calls[1].func].low <= pc /\ pc < Funcs[calls[1].func].high /\ pc \in Int
    /\ \E sp, bp : Shape(calls, rsp, sp) /\ (~meddled => Chain(calls, word, rbp, sp, bp))

(* Numbers and lists in the form the steps below use them.                 *)
LEMMA StackFacts ==
  ASSUME NEW cs, CallsTyped(cs)
  PROVE  /\ Len(cs) \in Nat /\ Len(cs) > 0 /\ DOMAIN cs = 1 .. Len(cs)
         /\ \A i \in 1 .. Len(cs) : cs[i] \in Activation
         /\ Align \in Nat /\ Align > 1 /\ StackTop \in Nat /\ StackLimit \in Nat
  BY LenProperties, ElementOfSeq, BacktraceAssumption, StackAssumption DEF CallsTyped

(* Every word of the stack lies between StackLimit and StackTop, and none  *)
(* below rsp.                                                              *)
LEMMA ShapeFacts ==
  ASSUME NEW cs, CallsTyped(cs), NEW r, NEW sp, Shape(cs, r, sp)
  PROVE  /\ \A i \in 1 .. Len(cs) : sp[i] \in Int /\ Bottom(cs, sp, i) \in Int
         /\ \A i \in 1 .. Len(cs) : Bottom(cs, sp, i) <= sp[i] /\ sp[i] <= StackTop
         /\ \A i \in 1 .. Len(cs) : Holds(cs[i]) => Bottom(cs, sp, i) = sp[i] - Align
         /\ \A i \in 1 .. Len(cs) : ~Holds(cs[i]) => Bottom(cs, sp, i) = sp[i]
         /\ \A i \in 1 .. Len(cs) : Holds(cs[i]) => i < Len(cs)
         /\ \A i \in 1 .. Len(cs) - 1 : sp[i] \in StackWords
         /\ \A i \in 1 .. Len(cs) : Holds(cs[i]) => sp[i] - Align \in StackWords
         /\ r \in StackLimit .. StackTop /\ r % Align = 0
         /\ \A i \in 1 .. Len(cs) : r <= Bottom(cs, sp, i)
  <1> DEFINE n == Len(cs)
  <1>1. /\ n \in Nat /\ n > 0 /\ Align \in Nat /\ Align > 1 /\ StackTop \in Nat /\ StackLimit \in Nat
    BY StackFacts
  <1>2. sp \in Seq(Int) /\ Len(sp) = n
    BY DEF Shape
  <1>3. \A i \in 1 .. n : sp[i] \in Int
    BY <1>2, ElementOfSeq
  <1>4. /\ r = Bottom(cs, sp, 1) /\ sp[n] = StackTop /\ cs[n].phase = "entered"
        /\ \A i \in 1 .. n : sp[i] % Align = 0 /\ Bottom(cs, sp, i) >= StackLimit
        /\ \A i \in 1 .. n - 1 : sp[i] = Bottom(cs, sp, i + 1) - Align
        /\ \A i, j \in 1 .. n : i < j => sp[i] <= Bottom(cs, sp, j) - Align
    BY DEF Shape
  <1> HIDE DEF n
  <1>5. ASSUME NEW i \in 1 .. n
        PROVE  /\ Bottom(cs, sp, i) \in Int /\ Bottom(cs, sp, i) <= sp[i]
               /\ Holds(cs[i]) => Bottom(cs, sp, i) = sp[i] - Align
               /\ ~Holds(cs[i]) => Bottom(cs, sp, i) = sp[i]
    BY <1>1, <1>3 DEF Bottom
  <1>6. ~Holds(cs[n])
    BY <1>4 DEF Holds
  <1>7. \A i \in 1 .. n : Holds(cs[i]) => i < n
    BY <1>1, <1>6
  <1>8. Bottom(cs, sp, n) = StackTop
    BY <1>1, <1>4, <1>5, <1>6
  <1>9. ASSUME NEW i \in 1 .. n - 1 PROVE sp[i] <= StackTop - Align
    <2>1. i \in 1 .. n /\ n \in 1 .. n /\ i < n
      BY <1>1
    <2> QED
      BY <2>1, <1>4, <1>8
  <1>10. \A i \in 1 .. n : sp[i] <= StackTop
    BY <1>1, <1>3, <1>4, <1>9
  <1>11. ASSUME NEW i \in 1 .. n - 1 PROVE sp[i] \in StackWords
    <2>1. sp[i] <= StackTop - 1 /\ sp[i] >= StackLimit
      BY <1>1, <1>3, <1>4, <1>5, <1>9
    <2> QED
      BY <1>1, <1>3, <1>4, <2>1 DEF StackWords
  <1>12. ASSUME NEW i \in 1 .. n, Holds(cs[i]) PROVE sp[i] - Align \in StackWords
    <2>1. sp[i] - Align <= StackTop - 1 /\ sp[i] - Align >= StackLimit
      BY <1>1, <1>3, <1>4, <1>5, <1>10, <1>12
    <2>2. (sp[i] - Align) % Align = 0
      BY <1>1, <1>3, <1>4, MultiplesBeside
    <2> QED
      BY <1>1, <1>3, <2>1, <2>2 DEF StackWords
  <1>13. r \in StackLimit .. StackTop /\ r % Align = 0
    <2>1. 1 \in 1 .. n
      BY <1>1
    <2>2. r \in Int /\ r >= StackLimit /\ r <= StackTop
      BY <2>1, <1>1, <1>3, <1>4, <1>5, <1>10
    <2>3. r = sp[1] \/ r = sp[1] - Align
      BY <2>1, <1>4, <1>5
    <2>4. sp[1] % Align = 0 /\ sp[1] \in Int /\ Align > 0
      BY <2>1, <1>1, <1>3, <1>4
    <2>5. (sp[1] - Align) % Align = 0
      BY <2>4, <1>1, MultiplesBeside
    <2> QED
      BY <2>2, <2>3, <2>4, <2>5, <1>1
  <1>14. ASSUME NEW i \in 1 .. n PROVE r <= Bottom(cs, sp, i)
    <2>1. CASE i = 1
      BY <2>1, <1>4, <1>5, <1>13
    <2>2. CASE i > 1
      <3>1. 1 \in 1 .. n /\ 1 < i
        BY <1>1, <2>2
      <3>2. sp[1] <= Bottom(cs, sp, i) - Align /\ r <= sp[1]
        BY <3>1, <1>4, <1>5
      <3> QED
        BY <3>1, <3>2, <1>1, <1>3, <1>5, <1>13
    <2> QED
      BY <2>1, <2>2, <1>1
  <1> QED
    BY <1>3, <1>5, <1>7, <1>10, <1>11, <1>12, <1>13, <1>14 DEF n

(* x has the words of w that the activations have on the stack.            *)
Keeps(cs, sp, w, x) ==
    \A i \in 1 .. Len(cs) - 1 :
        x[sp[i]] = w[sp[i]] /\ (Holds(cs[i]) => x[sp[i] - Align] = w[sp[i] - Align])

(* A word pushed below the stack overwrites nothing of it.                 *)
LEMMA PushKeeps ==
  ASSUME NEW cs, CallsTyped(cs), NEW r, NEW sp, Shape(cs, r, sp), r - Align >= StackLimit,
         NEW w \in [DOMAIN Data \cup StackWords -> Int], NEW v \in Int
  PROVE  /\ r - Align \in StackWords /\ r - Align < r
         /\ [w EXCEPT ![r - Align] = v] \in [DOMAIN Data \cup StackWords -> Int]
         /\ [w EXCEPT ![r - Align] = v][r - Align] = v
         /\ Keeps(cs, sp, w, [w EXCEPT ![r - Align] = v])
  <1> DEFINE n == Len(cs)
             a == r - Align
  <1>1. n \in Nat /\ n > 0 /\ Align \in Nat /\ Align > 1 /\ StackTop \in Nat /\ StackLimit \in Nat
    BY StackFacts
  <1>2. /\ \A i \in 1 .. n : sp[i] \in Int /\ r <= Bottom(cs, sp, i) /\ Bottom(cs, sp, i) <= sp[i]
        /\ \A i \in 1 .. n : Bottom(cs, sp, i) \in Int
        /\ \A i \in 1 .. n : Holds(cs[i]) => Bottom(cs, sp, i) = sp[i] - Align
        /\ r \in StackLimit .. StackTop /\ r % Align = 0
    BY ShapeFacts
  <1> HIDE DEF n
  <1>3. a \in StackWords /\ a < r
    <2>1. a % Align = 0
      BY <1>1, <1>2, MultiplesBeside
    <2> QED
      BY <2>1, <1>1, <1>2 DEF StackWords
  <1>4. \A i \in 1 .. n - 1 : i \in 1 .. n
    BY <1>1
  <1>5. ASSUME NEW i \in 1 .. n - 1 PROVE sp[i] # a /\ (Holds(cs[i]) => sp[i] - Align # a)
    BY <1>1, <1>2, <1>4
  <1> HIDE DEF a
  <1>6. \A x : x # a => [w EXCEPT ![a] = v][x] = w[x]
    OBVIOUS
  <1>7. /\ [w EXCEPT ![a] = v] \in [DOMAIN Data \cup StackWords -> Int]
        /\ [w EXCEPT ![a] = v][a] = v
    BY <1>3
  <1>8. Keeps(cs, sp, w, [w EXCEPT ![a] = v])
    BY <1>5, <1>6 DEF Keeps, n
  <1> QED
    BY <1>3, <1>7, <1>8 DEF a

(* A call puts an activation and its return address on top.                *)
LEMMA CallKeepsShape ==
  ASSUME NEW cs, CallsTyped(cs), NEW r, NEW sp, Shape(cs, r, sp), r - Align >= StackLimit,
         NEW c \in Activation, c.phase = "entered", c.ret \in Returns[cs[1].func]
  PROVE  CallsTyped(<<c>> \o cs) /\ Shape(<<c>> \o cs, r - Align, <<r - Align>> \o sp)
  <1> DEFINE n == Len(cs)
             a == r - Align
             ds == <<c>> \o cs
             sq == <<a>> \o sp
  <1>1. n \in Nat /\ n > 0 /\ Align \in Nat /\ Align > 1 /\ StackTop \in Nat /\ StackLimit \in Nat
    BY StackFacts
  <1>2. /\ \A i \in 1 .. n : sp[i] \in Int /\ r <= Bottom(cs, sp, i) /\ Bottom(cs, sp, i) \in Int
        /\ \A i \in 1 .. n : Bottom(cs, sp, i) <= sp[i]
        /\ r \in StackLimit .. StackTop /\ r % Align = 0
    BY ShapeFacts
  <1>3. cs \in Seq(Activation) /\ sp \in Seq(Int) /\ Len(sp) = n
        /\ \A i \in 1 .. n - 1 : cs[i].ret \in Returns[cs[i + 1].func]
    BY DEF CallsTyped, Shape
  <1>4. /\ r = Bottom(cs, sp, 1) /\ sp[n] = StackTop /\ cs[n].phase = "entered"
        /\ \A i \in 1 .. n : sp[i] % Align = 0 /\ Bottom(cs, sp, i) >= StackLimit
        /\ \A i \in 1 .. n - 1 : sp[i] = Bottom(cs, sp, i + 1) - Align
        /\ \A i, j \in 1 .. n : i < j => sp[i] <= Bottom(cs, sp, j) - Align
    BY DEF Shape
  <1>5. a % Align = 0 /\ a >= StackLimit /\ a \in Int
    <2>1. r \in Int /\ r % Align = 0 /\ Align > 0
      BY <1>1, <1>2
    <2>2. (r - Align) % Align = 0
      BY <2>1, <1>1, MultiplesBeside
    <2> QED
      BY <2>1, <2>2, <1>1
  <1> HIDE DEF n
  <1>6. /\ ds \in Seq(Activation) /\ Len(ds) = n + 1 /\ ds[1] = c
        /\ \A i \in 1 .. n : ds[i + 1] = cs[i]
    BY <1>3, ConsElements DEF n
  <1>7. /\ sq \in Seq(Int) /\ Len(sq) = n + 1 /\ sq[1] = a
        /\ \A i \in 1 .. n : sq[i + 1] = sp[i]
    <2>1. a \in Int
      BY <1>5
    <2> HIDE DEF a
    <2> QED
      BY <2>1, <1>3, ConsElements
  <1> HIDE DEF ds, sq
  <1>8. ~Holds(c) /\ Bottom(ds, sq, 1) = a
    BY <1>6, <1>7 DEF Holds, Bottom
  <1>9. \A i \in 1 .. n : Bottom(ds, sq, i + 1) = Bottom(cs, sp, i)
    BY <1>6, <1>7 DEF Bottom
  <1> HIDE DEF a
  <1>10. a = r - Align
    BY DEF a
  <1>11. \A i \in 1 .. n + 1 : i = 1 \/ (i - 1 \in 1 .. n /\ i = i - 1 + 1)
    BY <1>1
  <1>12. CallsTyped(ds)
    <2>1. ASSUME NEW i \in 1 .. n PROVE ds[i].ret \in Returns[ds[i + 1].func]
      <3>1. CASE i = 1
        <4>1. ds[i] = c /\ ds[i + 1] = cs[1]
          BY <3>1, <1>6
        <4> QED
          BY <4>1
      <3>2. CASE i # 1
        <4>1. i - 1 \in 1 .. n - 1 /\ i - 1 \in 1 .. n /\ i - 1 + 1 = i
          BY <3>2, <1>1
        <4>2. ds[i] = cs[i - 1] /\ ds[i + 1] = cs[i]
          BY <4>1, <1>6
        <4>3. cs[i - 1].ret \in Returns[cs[i - 1 + 1].func]
          BY <4>1, <1>3
        <4> QED
          BY <4>1, <4>2, <4>3
      <3> QED
        BY <3>1, <3>2
    <2>2. Len(ds) > 0 /\ Len(ds) - 1 = n
      BY <1>1, <1>6
    <2> QED
      BY <2>1, <2>2, <1>6 DEF CallsTyped
  <1>13. sq[n + 1] = StackTop /\ ds[n + 1].phase = "entered"
    <2>1. n \in 1 .. n
      BY <1>1
    <2> QED
      BY <2>1, <1>4, <1>6, <1>7
  <1>14. ASSUME NEW i \in 1 .. n + 1 PROVE sq[i] % Align = 0 /\ Bottom(ds, sq, i) >= StackLimit
    <2>1. CASE i = 1
      BY <2>1, <1>5, <1>7, <1>8
    <2>2. CASE i - 1 \in 1 .. n /\ i = i - 1 + 1
      <3>1. sq[i] = sp[i - 1] /\ Bottom(ds, sq, i) = Bottom(cs, sp, i - 1)
        BY <2>2, <1>7, <1>9
      <3> QED
        BY <3>1, <2>2, <1>4
    <2> QED
      BY <2>1, <2>2, <1>11
  <1>15. ASSUME NEW i \in 1 .. n PROVE sq[i] = Bottom(ds, sq, i + 1) - Align
    <2>1. CASE i = 1
      <3>1. Bottom(ds, sq, i + 1) = Bottom(cs, sp, 1) /\ sq[i] = a
        BY <2>1, <1>7, <1>9
      <3> QED
        BY <3>1, <1>4, <1>10
    <2>2. CASE i # 1
      <3>1. i - 1 \in 1 .. n - 1 /\ i - 1 \in 1 .. n /\ i - 1 + 1 = i
        BY <2>2, <1>1
      <3>2. sq[i] = sp[i - 1] /\ Bottom(ds, sq, i + 1) = Bottom(cs, sp, i)
        BY <3>1, <1>7, <1>9
      <3>3. sp[i - 1] = Bottom(cs, sp, i - 1 + 1) - Align
        BY <3>1, <1>4
      <3> QED
        BY <3>1, <3>2, <3>3
    <2> QED
      BY <2>1, <2>2
  <1>16. ASSUME NEW i \in 1 .. n + 1, NEW j \in 1 .. n + 1, i < j
         PROVE  sq[i] <= Bottom(ds, sq, j) - Align
    <2>1. j - 1 \in 1 .. n /\ j = j - 1 + 1
      BY <1>1, <1>11, <1>16
    <2>2. Bottom(ds, sq, j) = Bottom(cs, sp, j - 1)
      BY <2>1, <1>9
    <2>3. CASE i = 1
      BY <2>1, <2>2, <2>3, <1>1, <1>2, <1>7, <1>10
    <2>4. CASE i - 1 \in 1 .. n /\ i = i - 1 + 1
      <3>1. sq[i] = sp[i - 1] /\ i - 1 < j - 1
        BY <2>4, <1>7, <1>16
      <3> QED
        BY <3>1, <2>1, <2>2, <2>4, <1>4
    <2> QED
      BY <2>3, <2>4, <1>11
  <1>17. Shape(ds, a, sq)
    <2>1. Len(ds) = n + 1 /\ Len(ds) - 1 = n /\ Len(sq) = Len(ds) /\ a = Bottom(ds, sq, 1)
      BY <1>1, <1>6, <1>7, <1>8
    <2> QED
      BY <2>1, <1>7, <1>13, <1>14, <1>15, <1>16 DEF Shape
  <1> QED
    BY <1>12, <1>17 DEF a, ds, sq

(* A call pushes its return address and leaves every word of its callers.  *)
LEMMA CallKeepsChain ==
  ASSUME NEW cs, CallsTyped(cs), NEW r, NEW sp, Shape(cs, r, sp), r - Align >= StackLimit,
         NEW w \in [DOMAIN Data \cup StackWords -> Int], NEW b \in Int, NEW bp,
         Chain(cs, w, b, sp, bp),
         NEW c \in Activation, c.phase = "entered"
  PROVE  Chain(<<c>> \o cs, [w EXCEPT ![r - Align] = c.ret], b, <<r - Align>> \o sp, <<b>> \o bp)
  <1> DEFINE n == Len(cs)
             a == r - Align
             ds == <<c>> \o cs
             sq == <<a>> \o sp
             bq == <<b>> \o bp
             x == [w EXCEPT ![a] = c.ret]
  <1>1. n \in Nat /\ n > 0 /\ Align \in Nat /\ Align > 1 /\ StackTop \in Nat /\ StackLimit \in Nat
    BY StackFacts
  <1>2. /\ cs \in Seq(Activation) /\ sp \in Seq(Int) /\ Len(sp) = n /\ a \in Int
        /\ bp \in Seq(Int) /\ Len(bp) = n /\ c.ret \in Int
    <2>1. r \in StackLimit .. StackTop
      BY ShapeFacts
    <2>2. a \in Int
      BY <2>1, <1>1
    <2>3. c.ret \in Int
      BY DEF Activation
    <2> QED
      BY <2>2, <2>3 DEF CallsTyped, Shape, Chain
  <1>3. /\ b = bp[1] /\ bp[n] = 1
        /\ \A i \in 1 .. n - 1 :
              /\ w[sp[i]] = cs[i].ret
              /\ Holds(cs[i]) => w[sp[i] - Align] = bp[i + 1]
              /\ cs[i].phase = "framed" => bp[i] = sp[i] - Align
              /\ cs[i].phase \in {"entered", "pushed", "left"} => bp[i] = bp[i + 1]
    BY DEF Chain
  <1>4. /\ x[a] = c.ret
        /\ \A i \in 1 .. n - 1 : x[sp[i]] = w[sp[i]]
        /\ \A i \in 1 .. n - 1 : Holds(cs[i]) => x[sp[i] - Align] = w[sp[i] - Align]
    <2> DEFINE v == c.ret
               y == [w EXCEPT ![r - Align] = v]
    <2>1. v \in Int
      BY <1>2
    <2> HIDE DEF v
    <2>2. y[r - Align] = v /\ Keeps(cs, sp, w, y)
      BY <2>1, PushKeeps
    <2>3. y = x
      BY DEF v
    <2> HIDE DEF y, x
    <2> QED
      BY <2>2, <2>3 DEF v, Keeps
  <1> HIDE DEF n, x
  <1>5. /\ ds \in Seq(Activation) /\ Len(ds) = n + 1 /\ ds[1] = c
        /\ \A i \in 1 .. n : ds[i + 1] = cs[i]
    BY <1>2, ConsElements DEF n
  <1>6. /\ sq[1] = a /\ \A i \in 1 .. n : sq[i + 1] = sp[i]
    <2> HIDE DEF a
    <2> QED
      BY <1>2, ConsElements
  <1>7. /\ bq \in Seq(Int) /\ Len(bq) = n + 1 /\ bq[1] = b
        /\ \A i \in 1 .. n : bq[i + 1] = bp[i]
    BY <1>2, ConsElements
  <1> HIDE DEF a, ds, sq, bq
  <1>8. ~Holds(c) /\ c.phase # "framed"
    BY DEF Holds
  <1>9. ASSUME NEW i \in 1 .. n
        PROVE  /\ x[sq[i]] = ds[i].ret
               /\ Holds(ds[i]) => x[sq[i] - Align] = bq[i + 1]
               /\ ds[i].phase = "framed" => bq[i] = sq[i] - Align
               /\ ds[i].phase \in {"entered", "pushed", "left"} => bq[i] = bq[i + 1]
    <2>1. CASE i = 1
      <3>1. ds[i] = c /\ sq[i] = a /\ bq[i] = b /\ bq[i + 1] = bp[1]
        BY <2>1, <1>1, <1>5, <1>6, <1>7
      <3> QED
        BY <3>1, <1>3, <1>4, <1>8
    <2>2. CASE i # 1
      <3>1. i - 1 \in 1 .. n - 1 /\ i - 1 \in 1 .. n /\ i - 1 + 1 = i
        BY <2>2, <1>1
      <3>2. ds[i] = cs[i - 1] /\ sq[i] = sp[i - 1] /\ bq[i] = bp[i - 1] /\ bq[i + 1] = bp[i]
        BY <3>1, <1>5, <1>6, <1>7
      <3>3. /\ w[sp[i - 1]] = cs[i - 1].ret
            /\ Holds(cs[i - 1]) => w[sp[i - 1] - Align] = bp[i - 1 + 1]
            /\ cs[i - 1].phase = "framed" => bp[i - 1] = sp[i - 1] - Align
            /\ cs[i - 1].phase \in {"entered", "pushed", "left"} => bp[i - 1] = bp[i - 1 + 1]
        BY <3>1, <1>3
      <3>4. x[sp[i - 1]] = w[sp[i - 1]]
            /\ (Holds(cs[i - 1]) => x[sp[i - 1] - Align] = w[sp[i - 1] - Align])
        BY <3>1, <1>4
      <3> QED
        BY <3>1, <3>2, <3>3, <3>4
    <2> QED
      BY <2>1, <2>2
  <1>10. bq[n + 1] = 1
    <2>1. n \in 1 .. n
      BY <1>1
    <2> QED
      BY <2>1, <1>3, <1>7
  <1>11. Chain(ds, x, b, sq, bq)
    <2>1. Len(ds) - 1 = n /\ Len(bq) = Len(ds) /\ Len(ds) = n + 1
      BY <1>1, <1>5, <1>7
    <2> QED
      BY <2>1, <1>7, <1>9, <1>10 DEF Chain
  <1> QED
    BY <1>11 DEF ds, x, sq, bq, a

(* The activation on top changes its phase; sp stays, the lowest word      *)
(* follows.                                                                *)
LEMMA PhaseElements ==
  ASSUME NEW cs, CallsTyped(cs), NEW p \in Phases
  PROVE  LET ds == [cs EXCEPT ![1].phase = p]
         IN  /\ ds \in Seq(Activation) /\ Len(ds) = Len(cs) /\ CallsTyped(ds)
             /\ ds[1].phase = p /\ ds[1].func = cs[1].func /\ ds[1].ret = cs[1].ret
             /\ \A i \in 2 .. Len(cs) : ds[i] = cs[i]
  <1> DEFINE n == Len(cs)
             c == [cs[1] EXCEPT !.phase = p]
             ds == [cs EXCEPT ![1] = c]
  <1>1. n \in Nat /\ n > 0 /\ 1 \in 1 .. n /\ cs \in Seq(Activation)
        /\ (\A i \in 1 .. n - 1 : cs[i].ret \in Returns[cs[i + 1].func])
    BY StackFacts DEF CallsTyped
  <1>2. cs[1] \in Activation
    BY StackFacts
  <1>3. c \in Activation /\ c.phase = p /\ c.func = cs[1].func /\ c.ret = cs[1].ret
    BY <1>2 DEF Activation
  <1> HIDE DEF n, c
  <1>4. /\ ds \in Seq(Activation) /\ Len(ds) = n
        /\ \A i \in 1 .. n : ds[i] = IF i = 1 THEN c ELSE cs[i]
    BY <1>1, <1>3, ExceptSeq DEF n
  <1>5. ds = [cs EXCEPT ![1].phase = p]
    BY DEF c
  <1> HIDE DEF ds
  <1>6. ds[1] = c /\ \A i \in 2 .. n : ds[i] = cs[i]
    BY <1>1, <1>4
  <1>7. ASSUME NEW i \in 1 .. n - 1 PROVE ds[i].ret \in Returns[ds[i + 1].func]
    <2>1. i \in 1 .. n /\ i + 1 \in 2 .. n
      BY <1>1
    <2>2. ds[i].ret = cs[i].ret /\ ds[i + 1] = cs[i + 1]
      BY <2>1, <1>3, <1>4, <1>6
    <2> QED
      BY <2>2, <1>1
  <1>8. CallsTyped(ds)
    BY <1>1, <1>4, <1>7 DEF CallsTyped
  <1> QED
    BY <1>3, <1>4, <1>5, <1>6, <1>8 DEF n

(* The activation on top pushes or pops its caller's rbp.                  *)
LEMMA PhaseKeepsShape ==
  ASSUME NEW cs, CallsTyped(cs), NEW r, NEW sp, Shape(cs, r, sp), Len(cs) > 1,
         NEW p \in Phases, NEW q, q >= StackLimit,
         q = IF p \in {"pushed", "framed", "scratch"} THEN sp[1] - Align ELSE sp[1]
  PROVE  Shape([cs EXCEPT ![1].phase = p], q, sp)
  <1> DEFINE n == Len(cs)
             ds == [cs EXCEPT ![1].phase = p]
  <1>1. n \in Nat /\ n > 1 /\ Align \in Nat /\ Align > 1 /\ StackTop \in Nat /\ StackLimit \in Nat
    BY StackFacts
  <1>2. /\ Len(ds) = n /\ ds[1].phase = p /\ \A i \in 2 .. n : ds[i] = cs[i]
    BY PhaseElements
  <1>3. /\ sp \in Seq(Int) /\ Len(sp) = n
        /\ sp[n] = StackTop /\ cs[n].phase = "entered"
        /\ \A i \in 1 .. n : sp[i] % Align = 0 /\ Bottom(cs, sp, i) >= StackLimit
        /\ \A i \in 1 .. n - 1 : sp[i] = Bottom(cs, sp, i + 1) - Align
        /\ \A i, j \in 1 .. n : i < j => sp[i] <= Bottom(cs, sp, j) - Align
    BY DEF Shape
  <1> HIDE DEF n, ds
  <1>4. Bottom(ds, sp, 1) = q
    BY <1>2 DEF Bottom, Holds
  <1>5. \A i \in 2 .. n : Bottom(ds, sp, i) = Bottom(cs, sp, i)
    BY <1>2 DEF Bottom
  <1>6. ds[n].phase = "entered"
    <2>1. n \in 2 .. n
      BY <1>1
    <2> QED
      BY <2>1, <1>2, <1>3
  <1>7. \A i \in 1 .. n : i = 1 \/ i \in 2 .. n
    BY <1>1
  <1>8. ASSUME NEW i \in 1 .. n PROVE Bottom(ds, sp, i) >= StackLimit
    BY <1>3, <1>4, <1>5, <1>7
  <1>9. ASSUME NEW i \in 1 .. n - 1 PROVE sp[i] = Bottom(ds, sp, i + 1) - Align
    <2>1. i + 1 \in 2 .. n
      BY <1>1
    <2> QED
      BY <2>1, <1>3, <1>5
  <1>10. ASSUME NEW i \in 1 .. n, NEW j \in 1 .. n, i < j
         PROVE  sp[i] <= Bottom(ds, sp, j) - Align
    <2>1. j \in 2 .. n
      BY <1>1, <1>10
    <2> QED
      BY <2>1, <1>3, <1>5, <1>10
  <1>11. Shape(ds, q, sp)
    BY <1>2, <1>3, <1>4, <1>6, <1>8, <1>9, <1>10 DEF Shape
  <1> QED
    BY <1>11 DEF ds

(* Its frame pointer changes with its phase: x and v are the memory and    *)
(* rbp afterwards.                                                         *)
LEMMA PhaseKeepsChain ==
  ASSUME NEW cs, CallsTyped(cs), NEW w, NEW b, NEW sp, NEW bp, Chain(cs, w, b, sp, bp), Len(cs) > 1,
         NEW p \in Phases, NEW x, Keeps(cs, sp, w, x), NEW v \in Int,
         p \in {"pushed", "framed", "scratch"} => x[sp[1] - Align] = bp[2],
         p = "framed" => v = sp[1] - Align,
         p \in {"entered", "pushed", "left"} => v = bp[2]
  PROVE  Chain([cs EXCEPT ![1].phase = p], x, v, sp, [bp EXCEPT ![1] = v])
  <1> DEFINE n == Len(cs)
             ds == [cs EXCEPT ![1].phase = p]
             bq == [bp EXCEPT ![1] = v]
  <1>1. n \in Nat /\ n > 1 /\ 1 \in 1 .. n
    BY StackFacts
  <1>2. /\ Len(ds) = n /\ ds[1].phase = p /\ ds[1].ret = cs[1].ret
        /\ \A i \in 2 .. n : ds[i] = cs[i]
    BY PhaseElements
  <1>3. /\ bp \in Seq(Int) /\ Len(bp) = n /\ bp[n] = 1
        /\ \A i \in 1 .. n - 1 :
              /\ w[sp[i]] = cs[i].ret
              /\ Holds(cs[i]) => w[sp[i] - Align] = bp[i + 1]
              /\ cs[i].phase = "framed" => bp[i] = sp[i] - Align
              /\ cs[i].phase \in {"entered", "pushed", "left"} => bp[i] = bp[i + 1]
    BY DEF Chain
  <1> HIDE DEF ds
  <1>4. \A i \in 1 .. n - 1 :
            x[sp[i]] = w[sp[i]] /\ (Holds(cs[i]) => x[sp[i] - Align] = w[sp[i] - Align])
    BY DEF Keeps
  <1> HIDE DEF n
  <1>5. /\ bq \in Seq(Int) /\ Len(bq) = n /\ bq[1] = v
        /\ \A i \in 2 .. n : bq[i] = bp[i]
    <2>1. /\ bq \in Seq(Int) /\ Len(bq) = n
          /\ \A i \in 1 .. n : bq[i] = IF i = 1 THEN v ELSE bp[i]
      BY <1>1, <1>3, ExceptSeq
    <2> HIDE DEF bq
    <2> QED
      BY <2>1, <1>1
  <1> HIDE DEF bq
  <1>6. ASSUME NEW i \in 1 .. n - 1
        PROVE  /\ x[sp[i]] = ds[i].ret
               /\ Holds(ds[i]) => x[sp[i] - Align] = bq[i + 1]
               /\ ds[i].phase = "framed" => bq[i] = sp[i] - Align
               /\ ds[i].phase \in {"entered", "pushed", "left"} => bq[i] = bq[i + 1]
    <2>1. i + 1 \in 2 .. n /\ bq[i + 1] = bp[i + 1]
      BY <1>1, <1>5
    <2>2. CASE i = 1
      <3>1. bq[i + 1] = bp[2] /\ x[sp[i]] = ds[i].ret
        BY <2>1, <2>2, <1>2, <1>3, <1>4
      <3> QED
        BY <3>1, <2>2, <1>2, <1>5 DEF Holds
    <2>3. CASE i \in 2 .. n
      BY <2>1, <2>3, <1>2, <1>3, <1>4, <1>5
    <2> QED
      BY <2>2, <2>3, <1>1
  <1>7. bq[n] = 1
    <2>1. n \in 2 .. n
      BY <1>1
    <2> QED
      BY <2>1, <1>3, <1>5
  <1>8. Chain(ds, x, v, sp, bq)
    BY <1>2, <1>5, <1>6, <1>7 DEF Chain
  <1> QED
    BY <1>8 DEF ds, bq

(* A return takes the activation off.                                      *)
LEMMA ReturnKeepsShape ==
  ASSUME NEW cs, CallsTyped(cs), NEW r, NEW sp, Shape(cs, r, sp), Len(cs) > 1, ~Holds(cs[1])
  PROVE  CallsTyped(Tail(cs)) /\ Shape(Tail(cs), r + Align, Tail(sp))
  <1> DEFINE n == Len(cs)
             ds == Tail(cs)
             sq == Tail(sp)
  <1>1. n \in Nat /\ n > 1 /\ Align \in Nat /\ Align > 1 /\ StackTop \in Nat /\ StackLimit \in Nat
    BY StackFacts
  <1>2. /\ sp \in Seq(Int) /\ Len(sp) = n /\ cs \in Seq(Activation) /\ r = Bottom(cs, sp, 1)
        /\ sp[n] = StackTop /\ cs[n].phase = "entered"
        /\ \A i \in 1 .. n : sp[i] % Align = 0 /\ Bottom(cs, sp, i) >= StackLimit
        /\ \A i \in 1 .. n - 1 : sp[i] = Bottom(cs, sp, i + 1) - Align
        /\ \A i, j \in 1 .. n : i < j => sp[i] <= Bottom(cs, sp, j) - Align
        /\ \A i \in 1 .. n - 1 : cs[i].ret \in Returns[cs[i + 1].func]
    BY DEF Shape, CallsTyped
  <1>3. \A i \in 1 .. n : Bottom(cs, sp, i) \in Int
    BY ShapeFacts
  <1>4. r = sp[1]
    BY <1>2 DEF Bottom
  <1> HIDE DEF n
  <1>5. /\ ds \in Seq(Activation) /\ Len(ds) = n - 1 /\ \A i \in 1 .. n - 1 : ds[i] = cs[i + 1]
    BY <1>1, <1>2, TailElements DEF n
  <1>6. /\ sq \in Seq(Int) /\ Len(sq) = n - 1 /\ \A i \in 1 .. n - 1 : sq[i] = sp[i + 1]
    BY <1>1, <1>2, TailElements
  <1> HIDE DEF ds, sq
  <1>7. \A i \in 1 .. n - 1 : Bottom(ds, sq, i) = Bottom(cs, sp, i + 1) /\ i + 1 \in 1 .. n
    BY <1>1, <1>5, <1>6 DEF Bottom
  <1>8. r + Align = Bottom(ds, sq, 1)
    <2>1. 1 \in 1 .. n - 1 /\ 1 + 1 \in 1 .. n
      BY <1>1
    <2>2. r = Bottom(cs, sp, 1 + 1) - Align /\ Bottom(cs, sp, 1 + 1) \in Int
          /\ Bottom(ds, sq, 1) = Bottom(cs, sp, 1 + 1)
      BY <2>1, <1>2, <1>3, <1>4, <1>7
    <2> QED
      BY <2>2, <1>1
  <1>9. n - 1 \in 1 .. n - 1 /\ n - 1 + 1 = n /\ sq[n - 1] = StackTop /\ ds[n - 1].phase = "entered"
    <2>1. n - 1 \in 1 .. n - 1 /\ n - 1 + 1 = n
      BY <1>1
    <2> QED
      BY <2>1, <1>2, <1>5, <1>6
  <1>10. ASSUME NEW i \in 1 .. n - 1
         PROVE  sq[i] % Align = 0 /\ Bottom(ds, sq, i) >= StackLimit
    BY <1>2, <1>6, <1>7
  <1>11. ASSUME NEW i \in 1 .. n - 1 - 1
         PROVE  /\ sq[i] = Bottom(ds, sq, i + 1) - Align
                /\ ds[i].ret \in Returns[ds[i + 1].func]
    <2>1. i \in 1 .. n - 1 /\ i + 1 \in 1 .. n - 1
      BY <1>1
    <2>2. sp[i + 1] = Bottom(cs, sp, i + 1 + 1) - Align
          /\ cs[i + 1].ret \in Returns[cs[i + 1 + 1].func]
      BY <2>1, <1>2
    <2> QED
      BY <2>1, <2>2, <1>5, <1>6, <1>7
  <1>12. ASSUME NEW i \in 1 .. n - 1, NEW j \in 1 .. n - 1, i < j
         PROVE  sq[i] <= Bottom(ds, sq, j) - Align
    <2>1. i + 1 \in 1 .. n /\ j + 1 \in 1 .. n /\ i + 1 < j + 1
      BY <1>1, <1>12
    <2>2. sp[i + 1] <= Bottom(cs, sp, j + 1) - Align
      BY <2>1, <1>2
    <2> QED
      BY <2>2, <1>6, <1>7
  <1>13. Shape(ds, r + Align, sq)
    BY <1>5, <1>6, <1>8, <1>9, <1>10, <1>11, <1>12 DEF Shape
  <1>14. CallsTyped(ds)
    BY <1>1, <1>5, <1>11 DEF CallsTyped
  <1> QED
    BY <1>13, <1>14 DEF ds, sq

(* What a return leaves is the chain of the callers.                       *)
LEMMA ReturnKeepsChain ==
  ASSUME NEW cs, CallsTyped(cs), NEW w, NEW b, NEW sp, sp \in Seq(Int), Len(sp) = Len(cs),
         NEW bp, Chain(cs, w, b, sp, bp), Len(cs) > 1,
         cs[1].phase \in {"entered", "left"}
  PROVE  Chain(Tail(cs), w, b, Tail(sp), Tail(bp))
  <1> DEFINE n == Len(cs)
             ds == Tail(cs)
             sq == Tail(sp)
             bq == Tail(bp)
  <1>1. n \in Nat /\ n > 1 /\ cs \in Seq(Activation)
    BY StackFacts DEF CallsTyped
  <1>2. /\ bp \in Seq(Int) /\ Len(bp) = n /\ b = bp[1] /\ bp[n] = 1
        /\ \A i \in 1 .. n - 1 :
              /\ w[sp[i]] = cs[i].ret
              /\ Holds(cs[i]) => w[sp[i] - Align] = bp[i + 1]
              /\ cs[i].phase = "framed" => bp[i] = sp[i] - Align
              /\ cs[i].phase \in {"entered", "pushed", "left"} => bp[i] = bp[i + 1]
    BY DEF Chain
  <1> HIDE DEF n
  <1>3. Len(ds) = n - 1 /\ \A i \in 1 .. n - 1 : ds[i] = cs[i + 1]
    BY <1>1, TailElements DEF n
  <1>4. \A i \in 1 .. n - 1 : sq[i] = sp[i + 1]
    BY <1>1, TailElements DEF n
  <1>5. bq \in Seq(Int) /\ Len(bq) = n - 1 /\ \A i \in 1 .. n - 1 : bq[i] = bp[i + 1]
    BY <1>1, <1>2, TailElements
  <1> HIDE DEF ds, sq, bq
  <1>6. b = bq[1] /\ bq[n - 1] = 1
    <2>1. 1 \in 1 .. n - 1 /\ n - 1 \in 1 .. n - 1 /\ n - 1 + 1 = n
      BY <1>1
    <2>2. bq[1] = bp[1 + 1] /\ bq[n - 1] = bp[n - 1 + 1] /\ bp[1] = bp[1 + 1]
      BY <2>1, <1>2, <1>5
    <2> QED
      BY <2>1, <2>2, <1>2
  <1>7. ASSUME NEW i \in 1 .. n - 1 - 1
        PROVE  /\ w[sq[i]] = ds[i].ret
               /\ Holds(ds[i]) => w[sq[i] - Align] = bq[i + 1]
               /\ ds[i].phase = "framed" => bq[i] = sq[i] - Align
               /\ ds[i].phase \in {"entered", "pushed", "left"} => bq[i] = bq[i + 1]
    <2>1. i \in 1 .. n - 1 /\ i + 1 \in 1 .. n - 1
      BY <1>1
    <2>2. ds[i] = cs[i + 1] /\ sq[i] = sp[i + 1] /\ bq[i] = bp[i + 1] /\ bq[i + 1] = bp[i + 1 + 1]
      BY <2>1, <1>3, <1>4, <1>5
    <2> QED
      BY <2>1, <2>2, <1>2
  <1>8. Chain(ds, w, b, sq, bq)
    BY <1>3, <1>5, <1>6, <1>7 DEF Chain
  <1> QED
    BY <1>8 DEF ds, sq, bq

-----------------------------------------------------------------------------
(* The stack invariant, step by step.                                      *)

(* Before the first instruction.                                           *)
LEMMA StackInvInit == Init => StackInv
  <1> SUFFICES ASSUME Init PROVE StackInv
    OBVIOUS
  <1> DEFINE c == [func |-> 1, ret |-> None, phase |-> "entered"]
             sp == <<StackTop>>
             bp == <<1>>
  <1>1. /\ Align \in Nat /\ Align > 1 /\ StackTop \in Nat /\ StackLimit \in Nat
        /\ StackTop % Align = 0
    BY BacktraceAssumption, StackAssumption
  <1>2. /\ 1 \in DOMAIN Funcs /\ Funcs[1].low \in Nat /\ Funcs[1].high \in Nat
        /\ Funcs[1].low + 2 < Funcs[1].high
    <2> DEFINE F == [name : STRING, low : Nat, high : Nat, framed : BOOLEAN]
    <2>1. Funcs \in Seq(F) /\ Funcs # <<>>
      BY FunctionsAssumption
    <2> HIDE DEF F
    <2>2. 1 \in 1 .. Len(Funcs) /\ DOMAIN Funcs = 1 .. Len(Funcs)
      BY <2>1, EmptySeq, LenProperties
    <2>3. Funcs[1] \in F
      BY <2>1, <2>2, ElementOfSeq
    <2> QED
      BY <2>2, <2>3, FunctionsAssumption DEF F
  <1>3. c \in Activation
    BY <1>2 DEF Activation, Phases, None
  <1>4. calls = <<c>> /\ rsp = StackTop /\ rbp = 1 /\ meddled = FALSE /\ pc = Funcs[1].low
    BY DEF Init
  <1>5. c.phase = "entered" /\ c.func = 1 /\ ~Holds(c)
    BY DEF Holds
  <1> HIDE DEF c
  <1>6. CallsTyped(calls)
    BY <1>3, <1>4 DEF CallsTyped
  <1>7. Bottom(calls, sp, 1) = StackTop
    BY <1>4, <1>5 DEF Bottom
  <1>8. StackTop >= StackLimit
    <2>1. PICK s \in DOMAIN Loaded : IsStack(Loaded[s])
      BY StackAssumption
    <2>2. Loaded[s].low \in Nat /\ Loaded[s].low < Loaded[s].high
      BY LoadedFacts
    <2> QED
      BY <2>1, <2>2, <1>1 DEF IsStack
  <1>9. Shape(calls, rsp, sp)
    BY <1>1, <1>4, <1>5, <1>7, <1>8 DEF Shape
  <1>10. Chain(calls, word, rbp, sp, bp)
    BY <1>4 DEF Chain
  <1>11. word \in [DOMAIN Data \cup StackWords -> Int]
    <2>1. word = [a \in DOMAIN Data \cup StackWords |-> IF a \in DOMAIN Data THEN Data[a] ELSE 0]
      BY DEF Init
    <2>2. \A a \in DOMAIN Data : Data[a] \in Int
      BY StackAssumption
    <2> QED
      BY <2>1, <2>2
  <1>12. rsp \in Int /\ rbp \in Int
    BY <1>1, <1>4
  <1>13. pc \in Int /\ Funcs[calls[1].func].low <= pc /\ pc < Funcs[calls[1].func].high
    <2>1. calls[1].func = 1
      BY <1>4, <1>5
    <2>2. pc \in Int /\ Funcs[1].low <= pc /\ pc < Funcs[1].high
      BY <1>2, <1>4
    <2> QED
      BY <2>1, <2>2
  <1> HIDE DEF sp, bp
  <1> QED
    BY <1>6, <1>9, <1>10, <1>11, <1>12, <1>13 DEF StackInv

(* Addresses of the child's functions and of the returns to them.          *)
LEMMA FunctionFacts ==
  /\ \A f \in DOMAIN Funcs : Funcs[f].low \in Nat /\ Funcs[f].high \in Nat
        /\ Funcs[f].low + 2 < Funcs[f].high
  /\ \A f \in DOMAIN Funcs : \A ret \in Returns[f] :
        ret \in Int /\ Funcs[f].low + 1 <= ret /\ ret <= Funcs[f].high
  <1> DEFINE F == [name : STRING, low : Nat, high : Nat, framed : BOOLEAN]
  <1>1. Funcs \in Seq(F)
    BY FunctionsAssumption
  <1>2. ASSUME NEW f \in DOMAIN Funcs PROVE Funcs[f] \in F
    <2> HIDE DEF F
    <2>1. DOMAIN Funcs = 1 .. Len(Funcs)
      BY <1>1, LenProperties
    <2> QED
      BY <1>1, <2>1, ElementOfSeq
  <1>3. \A f \in DOMAIN Funcs : Funcs[f].low \in Nat /\ Funcs[f].high \in Nat
    BY <1>2
  <1> HIDE DEF F
  <1> QED
    BY <1>3, FunctionsAssumption

(* What holds of the activation on top.                                    *)
LEMMA TopFacts ==
  ASSUME StackInv
  PROVE  /\ CallsTyped(calls) /\ Len(calls) \in Nat /\ Len(calls) > 0 /\ 1 \in 1 .. Len(calls)
         /\ calls[1] \in Activation /\ calls[1].func \in DOMAIN Funcs
         /\ rsp \in Int /\ rbp \in Int
         /\ word \in [DOMAIN Data \cup StackWords -> Int]
         /\ Align \in Nat /\ Align > 1
         /\ Len(calls) > 1 => /\ calls[1].ret \in Returns[calls[2].func] /\ calls[1].ret \in Int
                              /\ calls[2].func \in DOMAIN Funcs
  <1>1. /\ CallsTyped(calls) /\ rsp \in Int /\ rbp \in Int
        /\ word \in [DOMAIN Data \cup StackWords -> Int]
    BY DEF StackInv
  <1>2. /\ Len(calls) \in Nat /\ Len(calls) > 0 /\ 1 \in 1 .. Len(calls)
        /\ \A i \in 1 .. Len(calls) : calls[i] \in Activation
        /\ Align \in Nat /\ Align > 1
    BY <1>1, StackFacts
  <1>3. \A i \in 1 .. Len(calls) : calls[i].func \in DOMAIN Funcs /\ calls[i].ret \in Int
    BY <1>2 DEF Activation
  <1>4. ASSUME Len(calls) > 1
        PROVE  calls[1].ret \in Returns[calls[2].func] /\ calls[2].func \in DOMAIN Funcs
    <2>1. 1 \in 1 .. Len(calls) - 1 /\ 1 + 1 = 2 /\ 2 \in 1 .. Len(calls)
      BY <1>2, <1>4
    <2> QED
      BY <1>1, <1>3, <2>1 DEF CallsTyped
  <1> QED
    BY <1>1, <1>2, <1>3, <1>4

(* call.                                                                   *)
LEMMA CallKeepsStack ==
  ASSUME StackInv, ~meddled, meddled' = meddled,
         NEW f \in DOMAIN Funcs, NEW ret \in Returns[Top.func], CallFunction(f, ret)
  PROVE  StackInv'
  <1> DEFINE c == [func |-> f, ret |-> ret, phase |-> "entered"]
             a == rsp - Align
             w == [word EXCEPT ![a] = c.ret]
  <1>1. /\ CallsTyped(calls) /\ rsp \in Int /\ rbp \in Int /\ calls[1].func \in DOMAIN Funcs
        /\ word \in [DOMAIN Data \cup StackWords -> Int] /\ Align \in Nat
        /\ ret \in Returns[calls[1].func]
    BY TopFacts DEF Top
  <1>2. ret \in Int
    BY <1>1, FunctionFacts
  <1>3. c \in Activation /\ c.phase = "entered" /\ c.ret = ret /\ c.func = f
    BY <1>2 DEF Activation, Phases
  <1>4. PICK sp, bp : Shape(calls, rsp, sp) /\ Chain(calls, word, rbp, sp, bp)
    BY DEF StackInv
  <1>5. /\ a >= StackLimit /\ rsp' = a /\ calls' = <<c>> \o calls /\ rbp' = rbp
        /\ pc' = Funcs[f].low
    BY DEF CallFunction, Push
  <1>6. word' = w
    BY <1>3 DEF CallFunction, Push
  <1> HIDE DEF c
  <1>7. CallsTyped(<<c>> \o calls) /\ Shape(<<c>> \o calls, a, <<a>> \o sp)
    BY <1>1, <1>3, <1>4, <1>5, CallKeepsShape
  <1>8. Chain(<<c>> \o calls, w, rbp, <<a>> \o sp, <<rbp>> \o bp)
    BY <1>1, <1>3, <1>4, <1>5, CallKeepsChain
  <1>9. w \in [DOMAIN Data \cup StackWords -> Int]
    BY <1>1, <1>2, <1>3
  <1>10. (<<c>> \o calls)[1] = c
    BY <1>1, <1>3, ConsElements DEF CallsTyped
  <1>11. a \in Int /\ Funcs[f].low \in Int /\ Funcs[f].low < Funcs[f].high
    BY <1>1, FunctionFacts
  <1> DEFINE cs == <<c>> \o calls
             sq == <<a>> \o sp
             bq == <<rbp>> \o bp
  <1> HIDE DEF a, w, cs, sq, bq
  <1>12. /\ CallsTyped(cs) /\ Shape(cs, a, sq) /\ Chain(cs, w, rbp, sq, bq) /\ cs[1] = c
         /\ calls' = cs
    BY <1>5, <1>7, <1>8, <1>10 DEF cs, sq, bq
  <1>13. \E s, b : Shape(cs, a, s) /\ Chain(cs, w, rbp, s, b)
    BY <1>12
  <1>14. \E s, b : Shape(calls', rsp', s) /\ (~meddled' => Chain(calls', word', rbp', s, b))
    BY <1>5, <1>6, <1>12, <1>13
  <1>15. /\ CallsTyped(calls') /\ rsp' \in Int /\ rbp' \in Int /\ calls'[1].func = f
         /\ word' \in [DOMAIN Data \cup StackWords -> Int]
    BY <1>1, <1>3, <1>5, <1>6, <1>9, <1>11, <1>12
  <1>16. Funcs[f].low <= pc' /\ pc' < Funcs[f].high /\ pc' \in Int
    BY <1>5, <1>11
  <1> QED
    BY <1>14, <1>15, <1>16 DEF StackInv

(* A change of phase of the activation on top, in terms of the lemmas      *)
(* above.                                                                  *)
LEMMA PhaseKeepsStack ==
  ASSUME StackInv, NEW sp, NEW bp, Shape(calls, rsp, sp), Chain(calls, word, rbp, sp, bp),
         Len(calls) > 1, NEW p \in Phases,
         calls' = [calls EXCEPT ![1].phase = p],
         word' \in [DOMAIN Data \cup StackWords -> Int], Keeps(calls, sp, word, word'),
         rsp' = IF p \in {"pushed", "framed", "scratch"} THEN sp[1] - Align ELSE sp[1],
         rsp' >= StackLimit, rsp' \in Int, rbp' \in Int,
         p \in {"pushed", "framed", "scratch"} => word'[sp[1] - Align] = bp[2],
         p = "framed" => rbp' = sp[1] - Align,
         p \in {"entered", "pushed", "left"} => rbp' = bp[2],
         Funcs[Top.func].low <= pc', pc' < Funcs[Top.func].high, pc' \in Int
  PROVE  StackInv'
  <1> DEFINE cs == [calls EXCEPT ![1].phase = p]
             bq == [bp EXCEPT ![1] = rbp']
             r == rsp'
             w == word'
             b == rbp'
  <1>1. CallsTyped(calls)
    BY DEF StackInv
  <1>2. CallsTyped(cs) /\ cs[1].func = calls[1].func
    BY <1>1, PhaseElements
  <1>3. Shape(cs, r, sp)
    <2> HIDE DEF r
    <2>1. r = (IF p \in {"pushed", "framed", "scratch"} THEN sp[1] - Align ELSE sp[1]) /\ r >= StackLimit
      BY DEF r
    <2> QED
      BY <1>1, <2>1, PhaseKeepsShape
  <1>4. Chain(cs, w, b, sp, [bp EXCEPT ![1] = b])
    <2> HIDE DEF w, b
    <2>1. /\ Keeps(calls, sp, word, w) /\ b \in Int
          /\ p \in {"pushed", "framed", "scratch"} => w[sp[1] - Align] = bp[2]
          /\ p = "framed" => b = sp[1] - Align
          /\ p \in {"entered", "pushed", "left"} => b = bp[2]
      BY DEF w, b
    <2> QED
      BY <1>1, <2>1, PhaseKeepsChain
  <1> HIDE DEF cs
  <1>5. calls' = cs
    BY DEF cs
  <1>6. Shape(calls', rsp', sp) /\ Chain(calls', word', rbp', sp, bq)
    BY <1>3, <1>4, <1>5
  <1>7. \E s, q : Shape(calls', rsp', s) /\ (~meddled' => Chain(calls', word', rbp', s, q))
    BY <1>6
  <1>8. CallsTyped(calls') /\ calls'[1].func = Top.func
    BY <1>2, <1>5 DEF Top
  <1> QED
    BY <1>7, <1>8 DEF StackInv

(* push rbp.                                                               *)
LEMMA PushRbpKeepsStack ==
  ASSUME StackInv, ~meddled, PushRbp
  PROVE  StackInv'
  <1> DEFINE w == [word EXCEPT ![rsp - Align] = rbp]
  <1>1. /\ CallsTyped(calls) /\ rsp \in Int /\ rbp \in Int /\ calls[1].func \in DOMAIN Funcs
        /\ word \in [DOMAIN Data \cup StackWords -> Int] /\ Align \in Nat
    BY TopFacts
  <1>2. PICK sp, bp : Shape(calls, rsp, sp) /\ Chain(calls, word, rbp, sp, bp)
    BY DEF StackInv
  <1>3. /\ calls[1].phase = "entered" /\ Len(calls) > 1
        /\ rsp - Align >= StackLimit /\ rsp' = rsp - Align /\ rbp' = rbp
        /\ calls' = [calls EXCEPT ![1].phase = "pushed"] /\ pc' = Funcs[Top.func].low + 1
    BY DEF PushRbp, Push, Top, Phase
  <1>4. word' = w
    BY DEF PushRbp, Push
  <1>5. /\ w \in [DOMAIN Data \cup StackWords -> Int] /\ w[rsp - Align] = rbp
        /\ Keeps(calls, sp, word, w)
    BY <1>1, <1>2, <1>3, PushKeeps
  <1>6. rsp = sp[1]
    BY <1>2, <1>3 DEF Shape, Bottom, Holds
  <1>7. rbp = bp[2]
    <2>1. 1 \in 1 .. Len(calls) - 1 /\ 1 + 1 = 2
      BY <1>3, TopFacts
    <2> QED
      BY <2>1, <1>2, <1>3 DEF Chain
  <1>8. Funcs[Top.func].low <= pc' /\ pc' < Funcs[Top.func].high /\ pc' \in Int
    BY <1>1, <1>3, FunctionFacts DEF Top
  <1>9. "pushed" \in Phases /\ "pushed" # "framed"
    BY DEF Phases
  <1>10. rsp' \in Int /\ rsp' = sp[1] - Align /\ rsp' >= StackLimit /\ rbp' = bp[2] /\ rbp' \in Int
         /\ word'[sp[1] - Align] = bp[2] /\ Keeps(calls, sp, word, word')
         /\ word' \in [DOMAIN Data \cup StackWords -> Int]
    BY <1>1, <1>3, <1>4, <1>5, <1>6, <1>7
  <1> QED
    BY <1>2, <1>3, <1>8, <1>9, <1>10, PhaseKeepsStack

(* mov rbp, rsp; or another use of rbp.                                    *)
LEMMA SetRbpKeepsStack ==
  ASSUME StackInv, ~meddled, NEW v \in Junk, SetRbp(v)
  PROVE  StackInv'
  <1> DEFINE p == IF Funcs[Top.func].framed THEN "framed" ELSE "scratch"
  <1>1. /\ CallsTyped(calls) /\ rsp \in Int /\ rbp \in Int /\ calls[1].func \in DOMAIN Funcs
        /\ word \in [DOMAIN Data \cup StackWords -> Int] /\ Align \in Nat
    BY TopFacts
  <1>2. PICK sp, bp : Shape(calls, rsp, sp) /\ Chain(calls, word, rbp, sp, bp)
    BY DEF StackInv
  <1>3. /\ calls[1].phase = "pushed" /\ rsp' = rsp /\ word' = word
        /\ calls' = [calls EXCEPT ![1].phase = p] /\ pc' = Funcs[Top.func].low + 2
        /\ p = "framed" => rbp' = rsp
        /\ p # "framed" => rbp' = v
    BY DEF SetRbp, Top, Phase
  <1>4. p \in Phases /\ p \in {"pushed", "framed", "scratch"} /\ p \notin {"entered", "pushed", "left"}
    BY DEF Phases
  <1>5. Holds(calls[1]) /\ 1 \in 1 .. Len(calls)
    BY <1>3, TopFacts DEF Holds
  <1>6. /\ 1 < Len(calls) /\ rsp = sp[1] - Align /\ rsp >= StackLimit
    BY <1>1, <1>2, <1>5, ShapeFacts DEF Shape
  <1>7. word[sp[1] - Align] = bp[2]
    <2>1. 1 \in 1 .. Len(calls) - 1 /\ 1 + 1 = 2
      BY <1>6, TopFacts
    <2> QED
      BY <2>1, <1>2, <1>5 DEF Chain
  <1>8. Funcs[Top.func].low <= pc' /\ pc' < Funcs[Top.func].high /\ pc' \in Int
    BY <1>1, <1>3, FunctionFacts DEF Top
  <1>9. rbp' \in Int /\ Keeps(calls, sp, word, word')
    BY <1>1, <1>3, BacktraceAssumption DEF Keeps
  <1> HIDE DEF p
  <1>10. Len(calls) > 1 /\ rsp' \in Int /\ rsp' = sp[1] - Align /\ rsp' >= StackLimit
         /\ word'[sp[1] - Align] = bp[2] /\ word' \in [DOMAIN Data \cup StackWords -> Int]
         /\ (p = "framed" => rbp' = sp[1] - Align)
    BY <1>1, <1>3, <1>6, <1>7, TopFacts
  <1> QED
    BY <1>2, <1>3, <1>4, <1>8, <1>9, <1>10, PhaseKeepsStack

(* leave, or pop rbp.                                                      *)
LEMMA LeaveKeepsStack ==
  ASSUME StackInv, ~meddled, Leave
  PROVE  StackInv'
  <1>1. /\ CallsTyped(calls) /\ rsp \in Int /\ rbp \in Int /\ calls[1].func \in DOMAIN Funcs
        /\ word \in [DOMAIN Data \cup StackWords -> Int] /\ Align \in Nat
    BY TopFacts
  <1>2. PICK sp, bp : Shape(calls, rsp, sp) /\ Chain(calls, word, rbp, sp, bp)
    BY DEF StackInv
  <1>3. /\ calls[1].phase \in {"framed", "scratch"} /\ rsp' = rsp + Align /\ word' = word
        /\ calls' = [calls EXCEPT ![1].phase = "left"] /\ pc' = Funcs[Top.func].high - 1
        /\ rbp' = word[rsp]
    BY DEF Leave, Top, Phase
  <1>4. "left" \in Phases /\ "left" \notin {"pushed", "framed", "scratch"} /\ "left" # "framed"
    BY DEF Phases
  <1>5. Holds(calls[1]) /\ 1 \in 1 .. Len(calls)
    BY <1>3, TopFacts DEF Holds
  <1>6. /\ 1 < Len(calls) /\ rsp = sp[1] - Align /\ rsp >= StackLimit /\ sp[1] \in Int
        /\ rsp \in StackWords
    BY <1>1, <1>2, <1>5, ShapeFacts DEF Shape
  <1>7. word[rsp] = bp[2] /\ word[rsp] \in Int
    <2>1. 1 \in 1 .. Len(calls) - 1 /\ 1 + 1 = 2
      BY <1>6, TopFacts
    <2> QED
      BY <2>1, <1>1, <1>2, <1>5, <1>6 DEF Chain
  <1>8. Funcs[Top.func].low <= pc' /\ pc' < Funcs[Top.func].high /\ pc' \in Int
    BY <1>1, <1>3, FunctionFacts DEF Top
  <1>9. Keeps(calls, sp, word, word')
    BY <1>3 DEF Keeps
  <1>10. Len(calls) > 1 /\ rsp' \in Int /\ rsp' = sp[1] /\ rsp' >= StackLimit
         /\ rbp' = bp[2] /\ rbp' \in Int
         /\ word' \in [DOMAIN Data \cup StackWords -> Int]
    BY <1>1, <1>3, <1>6, <1>7, TopFacts, StackAssumption
  <1> QED
    BY <1>2, <1>3, <1>4, <1>8, <1>9, <1>10, PhaseKeepsStack

(* ret.                                                                    *)
LEMMA ReturnKeepsStack ==
  ASSUME StackInv, ~meddled, meddled' = meddled, Return
  PROVE  StackInv'
  <1>1. /\ CallsTyped(calls) /\ rsp \in Int /\ rbp \in Int /\ Len(calls) \in Nat
        /\ word \in [DOMAIN Data \cup StackWords -> Int] /\ Align \in Nat
    BY TopFacts
  <1>2. PICK sp, bp : Shape(calls, rsp, sp) /\ Chain(calls, word, rbp, sp, bp)
    BY DEF StackInv
  <1>3. /\ calls[1].phase \in {"entered", "left"} /\ Len(calls) > 1
        /\ calls[1].ret < Funcs[calls[2].func].high
        /\ rsp' = rsp + Align /\ word' = word /\ rbp' = rbp
        /\ calls' = Tail(calls) /\ pc' = calls[1].ret
    BY DEF Return, Top
  <1>4. ~Holds(calls[1])
    BY <1>3 DEF Holds
  <1>5. CallsTyped(Tail(calls)) /\ Shape(Tail(calls), rsp + Align, Tail(sp))
    BY <1>1, <1>2, <1>3, <1>4, ReturnKeepsShape
  <1>6. Chain(Tail(calls), word, rbp, Tail(sp), Tail(bp))
    <2>1. sp \in Seq(Int) /\ Len(sp) = Len(calls)
      BY <1>2 DEF Shape
    <2> QED
      BY <1>1, <1>2, <1>3, <2>1, ReturnKeepsChain
  <1>7. Tail(calls)[1] = calls[2]
    <2>1. calls \in Seq(Activation) /\ 1 \in 1 .. Len(calls) - 1 /\ 1 + 1 = 2
      BY <1>1, <1>3 DEF CallsTyped
    <2> QED
      BY <2>1, <1>1, <1>3, TailElements
  <1>8. /\ pc' \in Int /\ pc' < Funcs[calls[2].func].high /\ Funcs[calls[2].func].low <= pc'
    <2>1. calls[1].ret \in Returns[calls[2].func] /\ calls[2].func \in DOMAIN Funcs
      BY <1>3, TopFacts
    <2> QED
      BY <2>1, <1>3, FunctionFacts
  <1> DEFINE cs == Tail(calls)
  <1> HIDE DEF cs
  <1>9. /\ \E s, b : Shape(cs, rsp', s) /\ Chain(cs, word', rbp', s, b)
        /\ CallsTyped(cs) /\ cs[1] = calls[2] /\ calls' = cs
    BY <1>3, <1>5, <1>6, <1>7 DEF cs
  <1>10. \E s, b : Shape(calls', rsp', s) /\ (~meddled' => Chain(calls', word', rbp', s, b))
    BY <1>9
  <1>11. CallsTyped(calls') /\ calls'[1] = calls[2]
    BY <1>9
  <1>12. rsp' \in Int /\ rbp' \in Int
    BY <1>1, <1>3
  <1>13. word' \in [DOMAIN Data \cup StackWords -> Int]
    BY <1>1, <1>3
  <1> QED
    BY <1>8, <1>10, <1>11, <1>12, <1>13 DEF StackInv

(* What the user writes spares the calls, if not what they keep on the     *)
(* stack.                                                                  *)
LEMMA MeddleKeepsStack ==
  ASSUME StackInv, Meddle
  PROVE  StackInv'
  <1>1. /\ meddled' = TRUE /\ calls' = calls /\ rsp' = rsp /\ pc' = pc
        /\ \/ rbp' \in Words /\ word' = word
           \/ \E a \in PokeAddrs, w \in Words : word' = [word EXCEPT ![a] = w] /\ rbp' = rbp
    BY DEF Meddle
  <1>2. rbp' \in Int
    BY <1>1, BacktraceAssumption DEF StackInv
  <1>3. word' \in [DOMAIN Data \cup StackWords -> Int]
    <2>1. word \in [DOMAIN Data \cup StackWords -> Int] /\ Words \subseteq Int
      BY BacktraceAssumption DEF StackInv
    <2>2. CASE word' = word
      BY <2>1, <2>2
    <2>3. ASSUME NEW a \in PokeAddrs, NEW w \in Words, word' = [word EXCEPT ![a] = w]
          PROVE  word' \in [DOMAIN Data \cup StackWords -> Int]
      BY <2>1, <2>3
    <2> QED
      BY <1>1, <2>2, <2>3
  <1>4. \E sp, bp : Shape(calls', rsp', sp) /\ (~meddled' => Chain(calls', word', rbp', sp, bp))
    <2>1. PICK sp : Shape(calls, rsp, sp)
      BY DEF StackInv
    <2>2. Shape(calls', rsp', sp)
      BY <1>1, <2>1
    <2> QED
      BY <1>1, <2>2
  <1> QED
    BY <1>1, <1>2, <1>3, <1>4 DEF StackInv

(* Every step.                                                             *)
LEMMA StackInvStep == StackInv /\ [Next]_lookingVars => StackInv'
  <1> SUFFICES ASSUME StackInv, [Next]_lookingVars PROVE StackInv'
    OBVIOUS
  <1>1. ASSUME UNCHANGED <<childVars, meddled>> PROVE StackInv'
    BY <1>1 DEF StackInv, childVars
  <1>2. CASE ChildRuns
    <2>1. ~meddled /\ meddled' = meddled
      BY <1>2 DEF ChildRuns
    <2>2. ASSUME NEW f \in DOMAIN Funcs, NEW ret \in Returns[Top.func], CallFunction(f, ret)
          PROVE  StackInv'
      BY <2>1, <2>2, CallKeepsStack
    <2>3. CASE PushRbp
      BY <2>1, <2>3, PushRbpKeepsStack
    <2>4. CASE Leave
      BY <2>1, <2>4, LeaveKeepsStack
    <2>5. CASE Return
      BY <2>1, <2>5, ReturnKeepsStack
    <2>6. ASSUME NEW v \in Junk, SetRbp(v) PROVE StackInv'
      BY <2>1, <2>6, SetRbpKeepsStack
    <2> QED
      BY <1>2, <2>2, <2>3, <2>4, <2>5, <2>6 DEF ChildRuns
  <1>3. CASE AddressSpaceChanges
    BY <1>1, <1>3 DEF AddressSpaceChanges
  <1>4. ASSUME NEW intact \in BOOLEAN, Start(intact) \/ ChildStops(intact) PROVE StackInv'
    BY <1>1, <1>4 DEF Start, ChildStops
  <1>5. CASE Resume
    BY <1>1, <1>5 DEF Resume
  <1>6. CASE Meddle
    BY <1>6, MeddleKeepsStack
  <1>7. CASE PrintBacktrace
    BY <1>1, <1>7 DEF PrintBacktrace
  <1>8. CASE Walking
    BY <1>1, <1>8 DEF Walking, NextFrame, LastFrame
  <1>9. CASE Done
    BY <1>1, <1>9 DEF Done, lookingVars
  <1>10. ASSUME NEW choice \in 0 .. 2, NEW name \in Names, AskFunction(name, choice) PROVE StackInv'
    BY <1>1, <1>10 DEF AskFunction
  <1>11. ASSUME NEW choice \in 0 .. 2, NEW l \in Lines, AskLine(l, choice) PROVE StackInv'
    BY <1>1, <1>11 DEF AskLine
  <1>12. CASE UNCHANGED lookingVars
    BY <1>1, <1>12 DEF lookingVars
  <1> QED
    BY <1>2, <1>3, <1>4, <1>5, <1>6, <1>7, <1>8, <1>9, <1>10, <1>11, <1>12 DEF Next

(* The stack is what calls and returns leave: every return address and     *)
(* every saved rbp is in its place until the user writes to it.            *)
THEOREM StackIsKept == Spec => []StackInv
  BY StackInvInit, StackInvStep, PTL DEF Spec

-----------------------------------------------------------------------------
(* The mappings of the child: in order, one of them the stack, none other  *)
(* in its room, and what is loaded stays where it is.                      *)

SameRange(a, b) == a.low = b.low /\ a.high = b.high /\ a.perms = b.perms

MapsOK(ms, r) ==
    /\ ms \in Seq(KnownLine) /\ InOrder(ms)
    /\ \E s \in DOMAIN ms : IsStack(ms[s]) /\ ms[s].low <= r
    /\ \A i \in DOMAIN ms : IsStack(ms[i]) \/ OutsideStack(ms[i])
    /\ \A l \in DOMAIN Loaded : OutsideStack(Loaded[l]) =>
          \E i \in DOMAIN ms : SameRange(ms[i], Loaded[l])

(* The mappings, line by line.                                             *)
LEMMA MapsFacts ==
  ASSUME NEW ms, NEW r \in Int, MapsOK(ms, r)
  PROVE  /\ Len(ms) \in Nat /\ DOMAIN ms = 1 .. Len(ms)
         /\ \A i \in 1 .. Len(ms) :
               /\ ms[i] \in KnownLine /\ ms[i].low \in Int /\ ms[i].high \in Int
               /\ ms[i].low < ms[i].high
         /\ \A i, j \in 1 .. Len(ms) : j < i => ms[j].high <= ms[i].low
  <1>1. ms \in Seq(KnownLine) /\ InOrder(ms)
    BY DEF MapsOK
  <1>2. Len(ms) \in Nat /\ DOMAIN ms = 1 .. Len(ms) /\ \A i \in 1 .. Len(ms) : ms[i] \in KnownLine
    BY <1>1, LenProperties, ElementOfSeq
  <1>3. \A i \in 1 .. Len(ms) :
            ms[i].low \in Int /\ ms[i].high \in Int /\ ms[i].low < ms[i].high
    BY <1>1, <1>2 DEF KnownLine, InOrder
  <1>4. ASSUME NEW i \in 1 .. Len(ms), NEW j \in 1 .. Len(ms), j < i
        PROVE  ms[j].high <= ms[i].low
    <2>1. j \in 1 .. i - 1
      BY <1>2, <1>4
    <2> QED
      BY <2>1, <1>1, <1>2 DEF InOrder
  <1> QED
    BY <1>2, <1>3, <1>4

(* A line that comes and goes is none of those loaded, nor the stack.      *)
LEMMA ExtraFacts ==
  ASSUME NEW line \in Extra
  PROVE  /\ line \in KnownLine /\ line.low \in Nat /\ line.high \in Nat /\ line.low < line.high
         /\ OutsideStack(line) /\ ~IsStack(line)
         /\ \A l \in DOMAIN Loaded : ~SameRange(line, Loaded[l])
  <1>1. line \in KnownLine /\ line.low \in Nat /\ line.high \in Nat /\ line.low < line.high
    BY LoadedTyped, ExtraAssumption DEF MapLine
  <1>2. \A l \in DOMAIN Loaded : line.high <= Loaded[l].low \/ Loaded[l].high <= line.low
    BY ExtraAssumption
  <1>3. \A l \in DOMAIN Loaded : ~SameRange(line, Loaded[l])
    BY <1>1, <1>2, LoadedFacts DEF SameRange
  <1>4. ~IsStack(line)
    <2>1. PICK s \in DOMAIN Loaded : IsStack(Loaded[s])
      BY StackAssumption
    <2>2. Loaded[s].low < Loaded[s].high /\ Loaded[s].high = StackTop /\ Loaded[s].low \in Nat
      BY <2>1, LoadedFacts DEF IsStack
    <2> QED
      BY <2>2, <1>1, <1>2, StackAssumption DEF IsStack
  <1>5. OutsideStack(line)
    BY <1>4, StackAssumption
  <1> QED
    BY <1>1, <1>3, <1>4, <1>5

(* After execl.                                                            *)
LEMMA LoadedMapsOK == MapsOK(Loaded, StackTop)
  <1>1. Loaded \in Seq(KnownLine) /\ InOrder(Loaded)
    BY LoadedTyped, MemoryMapAssumption
  <1>2. \A i \in DOMAIN Loaded : IsStack(Loaded[i]) \/ OutsideStack(Loaded[i])
    BY LoadedFacts, StackAssumption
  <1>3. \A l \in DOMAIN Loaded : SameRange(Loaded[l], Loaded[l])
    BY DEF SameRange
  <1>4. \E s \in DOMAIN Loaded : IsStack(Loaded[s]) /\ Loaded[s].low <= StackTop
    <2>1. PICK s \in DOMAIN Loaded : IsStack(Loaded[s])
      BY StackAssumption
    <2>2. Loaded[s].low < Loaded[s].high /\ Loaded[s].low \in Nat /\ Loaded[s].high = StackTop
      BY <2>1, LoadedFacts DEF IsStack
    <2> QED
      BY <2>1, <2>2, StackAssumption
  <1> QED
    BY <1>1, <1>2, <1>3, <1>4 DEF MapsOK

(* The child maps a region.                                                *)
LEMMA InsertKeepsMaps ==
  ASSUME NEW ms, NEW r \in Int, MapsOK(ms, r), NEW line \in Extra, NEW k \in 1 .. Len(ms) + 1,
         \A i \in 1 .. k - 1 : ms[i].high <= line.low,
         \A i \in k .. Len(ms) : line.high <= ms[i].low
  PROVE  MapsOK(InsertAt(ms, k, line), r)
  <1> DEFINE n == Len(ms)
             ns == InsertAt(ms, k, line)
  <1>1. /\ n \in Nat /\ DOMAIN ms = 1 .. n
        /\ \A i \in 1 .. n : ms[i].low \in Int /\ ms[i].high \in Int /\ ms[i].low < ms[i].high
        /\ \A i, j \in 1 .. n : j < i => ms[j].high <= ms[i].low
    BY MapsFacts
  <1>2. ms \in Seq(KnownLine) /\ line \in KnownLine /\ line.low \in Nat /\ line.high \in Nat
        /\ line.low < line.high /\ OutsideStack(line)
    BY ExtraFacts DEF MapsOK
  <1>3. k \in 1 .. n + 1
    OBVIOUS
  <1> HIDE DEF n
  <1>4. /\ ns \in Seq(KnownLine) /\ Len(ns) = n + 1 /\ ns[k] = line
        /\ \A i \in 1 .. k - 1 : ns[i] = ms[i]
        /\ \A i \in k .. n : ns[i + 1] = ms[i]
    <2>1. /\ InsertAt(ms, k, line) \in Seq(KnownLine)
          /\ Len(InsertAt(ms, k, line)) = Len(ms) + 1
          /\ InsertAt(ms, k, line)[k] = line
          /\ \A i \in 1 .. k - 1 : InsertAt(ms, k, line)[i] = ms[i]
          /\ \A i \in k .. Len(ms) : InsertAt(ms, k, line)[i + 1] = ms[i]
      <3> HIDE DEF ns
      <3>1. ms \in Seq(KnownLine) /\ line \in KnownLine /\ k \in 1 .. Len(ms) + 1
        BY <1>2
      <3> QED
        BY <3>1, InsertAtElements
    <2> QED
      BY <2>1 DEF n
  <1>5. DOMAIN ns = 1 .. n + 1
    BY <1>4, LenProperties
  <1> HIDE DEF ns
  <1>6. /\ \A i \in 1 .. k - 1 : i \in 1 .. n
        /\ \A i \in k .. n : i \in 1 .. n
        /\ \A i \in 1 .. n : i \in 1 .. k - 1 \/ i \in k .. n
        /\ \A i \in 1 .. n + 1 : i \in 1 .. k - 1 \/ i = k \/ (i - 1 \in k .. n /\ i - 1 + 1 = i)
    BY <1>1, <1>3
  <1>7. \A i \in 1 .. n : \E j \in 1 .. n + 1 : ns[j] = ms[i]
    <2>1. ASSUME NEW i \in 1 .. n PROVE \E j \in 1 .. n + 1 : ns[j] = ms[i]
      <3>1. CASE i \in 1 .. k - 1
        <4>1. i \in 1 .. n + 1
          BY <1>1
        <4> QED
          BY <3>1, <4>1, <1>4
      <3>2. CASE i \in k .. n
        <4>1. i + 1 \in 1 .. n + 1
          BY <1>1
        <4> QED
          BY <3>2, <4>1, <1>4
      <3> QED
        BY <3>1, <3>2, <1>6
    <2> QED
      BY <2>1
  <1>8. \A j \in 1 .. n + 1 : ns[j] = line \/ \E i \in 1 .. n : ns[j] = ms[i]
    <2>1. ASSUME NEW j \in 1 .. n + 1 PROVE ns[j] = line \/ \E i \in 1 .. n : ns[j] = ms[i]
      <3>1. CASE j \in 1 .. k - 1
        BY <3>1, <1>4, <1>6
      <3>2. CASE j = k
        BY <3>2, <1>4
      <3>3. CASE j - 1 \in k .. n /\ j - 1 + 1 = j
        <4>1. ns[j] = ms[j - 1] /\ j - 1 \in 1 .. n
          BY <3>3, <1>4, <1>6
        <4> QED
          BY <4>1
      <3> QED
        BY <3>1, <3>2, <3>3, <1>6
    <2> QED
      BY <2>1
  <1>9. InOrder(ns)
    <2>1. \A i \in 1 .. n + 1 : ns[i].low < ns[i].high
      BY <1>1, <1>2, <1>8
    <2>2. ASSUME NEW i \in 1 .. n + 1, NEW j \in 1 .. n + 1, j < i
          PROVE  ns[j].high <= ns[i].low
      <3>1. CASE i \in 1 .. k - 1
        <4>1. j \in 1 .. k - 1
          BY <1>3, <2>2, <3>1
        <4> QED
          BY <3>1, <4>1, <1>1, <1>4, <1>6, <2>2
      <3>2. CASE i = k
        <4>1. j \in 1 .. k - 1
          BY <1>3, <2>2, <3>2
        <4> QED
          BY <3>2, <4>1, <1>4
      <3>3. CASE i - 1 \in k .. n /\ i - 1 + 1 = i
        <4>1. ns[i] = ms[i - 1] /\ i - 1 \in 1 .. n
          BY <3>3, <1>4, <1>6
        <4>2. CASE j \in 1 .. k - 1
          <5>1. ns[j] = ms[j] /\ j \in 1 .. n /\ j < i - 1
            BY <4>2, <1>3, <1>4, <1>6, <3>3
          <5> QED
            BY <4>1, <5>1, <1>1
        <4>3. CASE j = k
          <5>1. line.high <= ms[i - 1].low
            BY <3>3 DEF n
          <5> QED
            BY <4>1, <4>3, <5>1, <1>4
        <4>4. CASE j - 1 \in k .. n /\ j - 1 + 1 = j
          <5>1. ns[j] = ms[j - 1] /\ j - 1 \in 1 .. n /\ j - 1 < i - 1
            BY <4>4, <1>4, <1>6, <2>2
          <5> QED
            BY <4>1, <5>1, <1>1
        <4> QED
          BY <4>2, <4>3, <4>4, <1>6
      <3> QED
        BY <3>1, <3>2, <3>3, <1>6
    <2>3. \A i \in 1 .. n + 1 : \A j \in 1 .. i - 1 : j \in 1 .. n + 1 /\ j < i
      BY <1>1
    <2> QED
      BY <2>1, <2>2, <2>3, <1>5 DEF InOrder
  <1>10. \E s \in DOMAIN ns : IsStack(ns[s]) /\ ns[s].low <= r
    <2>1. PICK s \in 1 .. n : IsStack(ms[s]) /\ ms[s].low <= r
      BY <1>1 DEF MapsOK
    <2> QED
      BY <2>1, <1>5, <1>7
  <1>11. \A i \in DOMAIN ns : IsStack(ns[i]) \/ OutsideStack(ns[i])
    <2>1. \A i \in 1 .. n : IsStack(ms[i]) \/ OutsideStack(ms[i])
      BY <1>1 DEF MapsOK
    <2> QED
      BY <2>1, <1>2, <1>5, <1>8
  <1>12. ASSUME NEW l \in DOMAIN Loaded, OutsideStack(Loaded[l])
         PROVE  \E i \in DOMAIN ns : SameRange(ns[i], Loaded[l])
    <2>1. PICK i \in 1 .. n : SameRange(ms[i], Loaded[l])
      BY <1>1, <1>12 DEF MapsOK
    <2> QED
      BY <2>1, <1>5, <1>7
  <1>13. MapsOK(ns, r)
    BY <1>4, <1>9, <1>10, <1>11, <1>12 DEF MapsOK
  <1> QED
    BY <1>13 DEF ns

(* The child unmaps a region.                                              *)
LEMMA RemoveKeepsMaps ==
  ASSUME NEW ms, NEW r \in Int, MapsOK(ms, r), NEW k \in DOMAIN ms, ms[k] \in Extra
  PROVE  MapsOK(RemoveAt(ms, k), r)
  <1> DEFINE n == Len(ms)
             ns == RemoveAt(ms, k)
  <1>1. /\ n \in Nat /\ DOMAIN ms = 1 .. n /\ k \in 1 .. n
        /\ \A i \in 1 .. n : ms[i].low \in Int /\ ms[i].high \in Int /\ ms[i].low < ms[i].high
        /\ \A i, j \in 1 .. n : j < i => ms[j].high <= ms[i].low
    BY MapsFacts
  <1>2. ms \in Seq(KnownLine) /\ ~IsStack(ms[k]) /\ \A l \in DOMAIN Loaded : ~SameRange(ms[k], Loaded[l])
    BY ExtraFacts DEF MapsOK
  <1> HIDE DEF n
  <1>3. /\ ns \in Seq(KnownLine) /\ Len(ns) = n - 1
        /\ \A i \in 1 .. k - 1 : ns[i] = ms[i]
        /\ \A i \in k .. n - 1 : ns[i] = ms[i + 1]
    BY <1>1, <1>2, RemoveAtElements DEF n
  <1>4. DOMAIN ns = 1 .. n - 1
    BY <1>3, LenProperties
  <1> HIDE DEF ns
  <1>5. /\ \A i \in 1 .. k - 1 : i \in 1 .. n /\ i \in 1 .. n - 1
        /\ \A i \in k .. n - 1 : i + 1 \in 1 .. n
        /\ \A i \in 1 .. n - 1 : i \in 1 .. k - 1 \/ i \in k .. n - 1
        /\ \A i \in 1 .. n : i \in 1 .. k - 1 \/ i = k \/ (i - 1 \in k .. n - 1 /\ i - 1 + 1 = i)
        /\ \A i \in k .. n - 1 : i \in 1 .. n - 1
    BY <1>1
  <1>6. \A i \in 1 .. n : i = k \/ \E j \in 1 .. n - 1 : ns[j] = ms[i]
    <2>1. ASSUME NEW i \in 1 .. n PROVE i = k \/ \E j \in 1 .. n - 1 : ns[j] = ms[i]
      <3>1. CASE i \in 1 .. k - 1
        BY <3>1, <1>3, <1>5
      <3>2. CASE i - 1 \in k .. n - 1 /\ i - 1 + 1 = i
        <4>1. ns[i - 1] = ms[i] /\ i - 1 \in 1 .. n - 1
          BY <3>2, <1>3, <1>5
        <4> QED
          BY <4>1
      <3> QED
        BY <3>1, <3>2, <1>5
    <2> QED
      BY <2>1
  <1>7. \A j \in 1 .. n - 1 : \E i \in 1 .. n : ns[j] = ms[i]
    BY <1>3, <1>5
  <1>8. InOrder(ns)
    <2>1. \A i \in 1 .. n - 1 : ns[i].low < ns[i].high
      BY <1>1, <1>7
    <2>2. ASSUME NEW i \in 1 .. n - 1, NEW j \in 1 .. i - 1 PROVE ns[j].high <= ns[i].low
      <3> DEFINE p == IF i < k THEN i ELSE i + 1
                 q == IF j < k THEN j ELSE j + 1
      <3>1. p \in 1 .. n /\ q \in 1 .. n /\ q < p
        BY <1>1
      <3>2. ns[i] = ms[p]
        <4>1. i \in 1 .. k - 1 \/ (i \in k .. n - 1 /\ ~(i < k))
          BY <1>1
        <4> QED
          BY <4>1, <1>1, <1>3
      <3>3. ns[j] = ms[q]
        <4>1. j \in 1 .. k - 1 \/ (j \in k .. n - 1 /\ ~(j < k))
          BY <1>1
        <4> QED
          BY <4>1, <1>1, <1>3
      <3> HIDE DEF p, q
      <3> QED
        BY <3>1, <3>2, <3>3, <1>1
    <2> QED
      BY <2>1, <2>2, <1>4 DEF InOrder
  <1>9. \E s \in DOMAIN ns : IsStack(ns[s]) /\ ns[s].low <= r
    <2>1. PICK s \in 1 .. n : IsStack(ms[s]) /\ ms[s].low <= r
      BY <1>1 DEF MapsOK
    <2> QED
      BY <2>1, <1>2, <1>4, <1>6
  <1>10. \A i \in DOMAIN ns : IsStack(ns[i]) \/ OutsideStack(ns[i])
    <2>1. \A i \in 1 .. n : IsStack(ms[i]) \/ OutsideStack(ms[i])
      BY <1>1 DEF MapsOK
    <2> QED
      BY <2>1, <1>4, <1>7
  <1>11. ASSUME NEW l \in DOMAIN Loaded, OutsideStack(Loaded[l])
         PROVE  \E i \in DOMAIN ns : SameRange(ns[i], Loaded[l])
    <2>1. PICK i \in 1 .. n : SameRange(ms[i], Loaded[l])
      BY <1>1, <1>11 DEF MapsOK
    <2> QED
      BY <2>1, <1>2, <1>4, <1>6
  <1>12. MapsOK(ns, r)
    BY <1>3, <1>8, <1>9, <1>10, <1>11 DEF MapsOK
  <1> QED
    BY <1>12 DEF ns

(* Two multiples of A are at least A apart.                                *)
LEMMA MultiplesApart ==
  ASSUME NEW A \in Nat, A > 0, NEW x \in Int, x % A = 0, NEW y \in Int, y % A = 0, x < y
  PROVE  y - x >= A
  <1> DEFINE q == x \div A
             r == y \div A
             d == y - x
  <1>1. x = A * q /\ q \in Int /\ y = A * r /\ r \in Int /\ d \in Int /\ d > 0 /\ d = y - x
    OBVIOUS
  <1> HIDE DEF q, r, d
  <1>2. d = A * (r - q) /\ r - q \in Int
    BY <1>1
  <1>3. d % A = 0
    BY <1>1, <1>2, MultipleIsWhole
  <1>4. d >= A
    BY <1>1, <1>3
  <1> QED
    BY <1>4 DEF d

(* A page more for the stack, which holds what is pushed.                  *)
Lowered(line) == [line EXCEPT !.low = @ - Page]

(* Only its lower end moves.                                               *)
LEMMA LoweredFacts ==
  ASSUME NEW line \in KnownLine, Page \in Nat, line.low - Page \in Nat
  PROVE  /\ Lowered(line) \in KnownLine /\ Lowered(line).low = line.low - Page
         /\ Lowered(line).high = line.high /\ Lowered(line).perms = line.perms
         /\ Lowered(line).name = line.name
  BY DEF Lowered, KnownLine

(* A push below the mapped stack: one page is enough, and there is room    *)
(* for it.                                                                 *)
LEMMA GrowKeepsMaps ==
  ASSUME NEW ms, NEW q \in Int, MapsOK(ms, q),
         NEW r \in Int, r = q - Align, StackLimit <= r, r < StackTop,
         \A i \in DOMAIN ms : ~Covers(ms[i], r)
  PROVE  MapsOK([i \in DOMAIN ms |-> IF ms[i].high = StackTop
                                     THEN [ms[i] EXCEPT !.low = @ - Page] ELSE ms[i]], r)
  <1> DEFINE n == Len(ms)
             ns == [i \in DOMAIN ms |-> IF ms[i].high = StackTop
                                        THEN [ms[i] EXCEPT !.low = @ - Page] ELSE ms[i]]
  <1>1. /\ n \in Nat /\ DOMAIN ms = 1 .. n
        /\ \A i \in 1 .. n : /\ ms[i] \in KnownLine
                             /\ ms[i].low \in Int /\ ms[i].high \in Int /\ ms[i].low < ms[i].high
        /\ \A i, j \in 1 .. n : j < i => ms[j].high <= ms[i].low
    BY MapsFacts
  <1>2. \A i \in 1 .. n : IsStack(ms[i]) \/ OutsideStack(ms[i])
    BY <1>1 DEF MapsOK
  <1> HIDE DEF n
  <1>3. PICK s \in 1 .. n : IsStack(ms[s]) /\ ms[s].low <= q
    BY <1>1 DEF MapsOK
  <1>4. /\ StackLimit \in Nat /\ StackTop \in Nat /\ Page \in Nat /\ Page > 0
        /\ (StackTop - StackLimit) % Page = 0 /\ Page >= Align /\ Align \in Nat
    BY StackAssumption, BacktraceAssumption
  <1>5. /\ ms[s].high = StackTop /\ ms[s].low >= StackLimit /\ (StackTop - ms[s].low) % Page = 0
        /\ "r" \in ms[s].perms /\ ms[s].low \in Int /\ ms[s].low < StackTop
    <2>1. ms[s].low \in Int /\ ms[s].low < ms[s].high
      BY <1>1
    <2> QED
      BY <1>3, <2>1 DEF IsStack
  <1>6. ASSUME NEW i \in 1 .. n, i # s PROVE ms[i].high <= ms[s].low \/ ms[s].high <= ms[i].low
    <2>1. i < s \/ s < i
      BY <1>6, <1>1
    <2> QED
      BY <2>1, <1>1
  <1>7. \A i \in 1 .. n : ms[i].high = StackTop <=> i = s
    <2>1. ASSUME NEW i \in 1 .. n, i # s PROVE ms[i].high # StackTop
      <3>1. ms[i].low \in Int /\ ms[i].high \in Int /\ ms[i].low < ms[i].high
        BY <1>1
      <3>2. ms[i].high <= ms[s].low \/ StackTop <= ms[i].low
        BY <1>5, <1>6, <2>1
      <3> QED
        BY <3>1, <3>2, <1>4, <1>5
    <2> QED
      BY <2>1, <1>5
  <1>8. /\ \A i \in 1 .. n : ns[i] = IF i = s THEN Lowered(ms[s]) ELSE ms[i]
        /\ DOMAIN ns = 1 .. n
    BY <1>1, <1>7 DEF Lowered
  <1> HIDE DEF ns
  <1>9. ms[s].low > r
    <2>1. ~Covers(ms[s], r)
      BY <1>1
    <2> QED
      BY <2>1, <1>1, <1>4, <1>5 DEF Covers
  <1>10. ms[s].low - Page >= StackLimit
    <2> DEFINE x == StackTop - ms[s].low
               y == StackTop - StackLimit
    <2>1. x % Page = 0 /\ y % Page = 0
      BY <1>4, <1>5
    <2>2. ms[s].low > StackLimit
      BY <1>4, <1>5, <1>9
    <2>3. x \in Int /\ y \in Int /\ x < y /\ y - x = ms[s].low - StackLimit
      <3> HIDE DEF ns
      <3>1. ms[s].low \in Int
        BY <1>5
      <3> QED
        BY <3>1, <2>2, <1>4
    <2> HIDE DEF x, y
    <2>4. y - x >= Page
      BY <2>1, <2>3, <1>4, MultiplesApart
    <2> QED
      BY <2>3, <2>4, <1>4, <1>5
  <1>11. (StackTop - (ms[s].low - Page)) % Page = 0
    <2> DEFINE x == StackTop - ms[s].low
    <2>1. x % Page = 0
      BY <1>5
    <2>2. x \in Int /\ StackTop - (ms[s].low - Page) = x + Page
      BY <1>4, <1>5
    <2> HIDE DEF x
    <2> QED
      BY <2>1, <2>2, <1>4, MultiplesBeside
  <1>12. /\ ns[s] \in KnownLine /\ ns[s].low = ms[s].low - Page /\ ns[s].high = StackTop
         /\ ns[s].perms = ms[s].perms
    <2>1. ms[s].low - Page \in Nat
      BY <1>4, <1>5, <1>10
    <2> QED
      BY <2>1, <1>1, <1>4, <1>5, <1>8, LoweredFacts
  <1>13. \A i \in 1 .. n : i # s => ns[i] = ms[i]
    BY <1>8
  <1>14. IsStack(ns[s]) /\ ns[s].low <= r
    <2>1. ms[s].low - Page <= r
      BY <1>3, <1>4, <1>5
    <2> QED
      BY <2>1, <1>5, <1>10, <1>11, <1>12 DEF IsStack
  <1>15. \A i \in 1 .. n : i # s => OutsideStack(ms[i])
    BY <1>2, <1>7 DEF IsStack
  <1>16. InOrder(ns)
    <2>1. ASSUME NEW i \in 1 .. n PROVE ns[i].low < ns[i].high
      <3>1. ns[s].low < ns[s].high
        BY <1>4, <1>5, <1>12
      <3>2. i # s => ns[i] = ms[i] /\ ms[i].low < ms[i].high
        BY <1>1, <1>13
      <3> QED
        BY <3>1, <3>2
    <2>2. ASSUME NEW i \in 1 .. n, NEW j \in 1 .. n, j < i PROVE ns[j].high <= ns[i].low
      <3>1. ms[j].high <= ms[i].low
        BY <1>1, <2>2
      <3>2. CASE i = s
        <4>1. j # s /\ OutsideStack(ms[j]) /\ ns[j] = ms[j] /\ ns[i].low = ms[s].low - Page
          BY <1>1, <1>12, <1>13, <1>15, <2>2, <3>2
        <4>2. ms[j].high <= StackLimit
          BY <4>1, <3>1, <3>2, <1>1, <1>4, <1>5 DEF OutsideStack
        <4> QED
          BY <4>1, <4>2, <1>1, <1>4, <1>10
      <3>3. CASE i # s
        <4>1. ns[j].high = ms[j].high
          BY <1>5, <1>12, <1>13
        <4> QED
          BY <4>1, <3>1, <3>3, <1>13
      <3> QED
        BY <3>2, <3>3
    <2>3. \A i \in 1 .. n : \A j \in 1 .. i - 1 : j \in 1 .. n /\ j < i
      BY <1>1
    <2> QED
      BY <2>1, <2>2, <2>3, <1>8 DEF InOrder
  <1>17. ns \in Seq(KnownLine)
    <2>1. \A i \in 1 .. n : ns[i] \in KnownLine
      BY <1>1, <1>12, <1>13
    <2>2. ns = [i \in 1 .. n |-> ns[i]]
      BY <1>8, <1>1 DEF ns
    <2> QED
      BY <2>1, <2>2, <1>1, FunctionIsSeq
  <1>18. \A i \in 1 .. n : IsStack(ns[i]) \/ OutsideStack(ns[i])
    BY <1>13, <1>14, <1>15
  <1>19. ASSUME NEW l \in DOMAIN Loaded, OutsideStack(Loaded[l])
         PROVE  \E i \in DOMAIN ns : SameRange(ns[i], Loaded[l])
    <2>1. PICK i \in 1 .. n : SameRange(ms[i], Loaded[l])
      BY <1>1, <1>19 DEF MapsOK
    <2>2. i # s
      <3>1. Loaded[l].low < Loaded[l].high /\ Loaded[l].low \in Int /\ Loaded[l].high \in Int
        BY LoadedFacts
      <3> QED
        BY <2>1, <3>1, <1>1, <1>4, <1>5, <1>19 DEF OutsideStack, SameRange
    <2> QED
      BY <2>1, <2>2, <1>8, <1>13
  <1>20. MapsOK(ns, r)
    BY <1>8, <1>14, <1>16, <1>17, <1>18, <1>19 DEF MapsOK
  <1> QED
    BY <1>20 DEF ns

(* Another name changes no address.                                        *)
LEMMA RenameKeepsMaps ==
  ASSUME NEW ms, NEW r \in Int, MapsOK(ms, r)
  PROVE  MapsOK([i \in DOMAIN ms |-> IF ms[i].name = Exec
                                     THEN [ms[i] EXCEPT !.name = Exec \o <<" ", "(deleted)">>]
                                     ELSE ms[i]], r)
  <1> DEFINE n == Len(ms)
             ns == [i \in DOMAIN ms |-> IF ms[i].name = Exec
                                        THEN [ms[i] EXCEPT !.name = Exec \o <<" ", "(deleted)">>]
                                        ELSE ms[i]]
  <1>1. /\ n \in Nat /\ DOMAIN ms = 1 .. n
        /\ \A i \in 1 .. n : /\ ms[i] \in KnownLine
                             /\ ms[i].low \in Int /\ ms[i].high \in Int /\ ms[i].low < ms[i].high
        /\ \A i, j \in 1 .. n : j < i => ms[j].high <= ms[i].low
    BY MapsFacts
  <1> HIDE DEF n
  <1>2. \A i \in 1 .. n : ns[i] = IF ms[i].name = Exec THEN [ms[i] EXCEPT !.name = Deleted] ELSE ms[i]
    BY <1>1 DEF Deleted
  <1>3. Deleted \in KnownNames
    BY DEF KnownNames
  <1>4. DOMAIN ns = 1 .. n /\ ns = [i \in 1 .. n |-> ns[i]]
    BY <1>1
  <1> HIDE DEF ns
  <1>5. ASSUME NEW i \in 1 .. n
        PROVE  /\ ns[i] \in KnownLine /\ ns[i].low = ms[i].low /\ ns[i].high = ms[i].high
               /\ ns[i].perms = ms[i].perms
    BY <1>1, <1>2, <1>3 DEF KnownLine
  <1>6. ns \in Seq(KnownLine)
    BY <1>1, <1>4, <1>5, FunctionIsSeq
  <1>7. InOrder(ns)
    <2>1. \A i \in 1 .. n : \A j \in 1 .. i - 1 : j \in 1 .. n
      BY <1>1
    <2> QED
      BY <1>1, <1>4, <1>5, <2>1 DEF InOrder, MapsOK
  <1>8. \A i \in 1 .. n : /\ IsStack(ns[i]) <=> IsStack(ms[i])
                          /\ OutsideStack(ns[i]) <=> OutsideStack(ms[i])
    BY <1>5 DEF IsStack, OutsideStack
  <1>9. \A i \in 1 .. n, l \in DOMAIN Loaded : SameRange(ms[i], Loaded[l]) => SameRange(ns[i], Loaded[l])
    BY <1>5 DEF SameRange
  <1>10. MapsOK(ns, r)
    <2>1. \E s \in DOMAIN ns : IsStack(ns[s]) /\ ns[s].low <= r
      <3>1. PICK s \in 1 .. n : IsStack(ms[s]) /\ ms[s].low <= r
        BY <1>1 DEF MapsOK
      <3>2. ns[s].low = ms[s].low
        BY <1>5
      <3> QED
        BY <3>1, <3>2, <1>4, <1>8
    <2>2. \A i \in DOMAIN ns : IsStack(ns[i]) \/ OutsideStack(ns[i])
      BY <1>1, <1>4, <1>8 DEF MapsOK
    <2>3. \A l \in DOMAIN Loaded : OutsideStack(Loaded[l]) =>
             \E i \in DOMAIN ns : SameRange(ns[i], Loaded[l])
      BY <1>1, <1>4, <1>9 DEF MapsOK
    <2> QED
      BY <2>1, <2>2, <2>3, <1>6, <1>7 DEF MapsOK
  <1> QED
    BY <1>10 DEF ns

(* What a push does to the mappings: no more than lower the stack.         *)
LEMMA PushKeepsMaps ==
  ASSUME MapsOK(maps, rsp), rsp \in StackLimit .. StackTop, NEW v, Push(v)
  PROVE  MapsOK(maps', rsp')
  <1>1. /\ StackLimit \in Nat /\ StackTop \in Nat /\ Align \in Nat /\ Align > 1
        /\ rsp \in Int /\ rsp <= StackTop
    BY StackAssumption, BacktraceAssumption
  <1>2. rsp' \in Int /\ StackLimit <= rsp' /\ rsp' < StackTop
    <2>1. rsp' = rsp - Align /\ rsp - Align >= StackLimit
      BY DEF Push
    <2> QED
      BY <1>1, <2>1
  <1>3. CASE \E i \in DOMAIN maps : Covers(maps[i], rsp')
    <2>1. maps' = maps
      BY <1>3 DEF Push, mapVars
    <2>2. PICK i \in DOMAIN maps : Covers(maps[i], rsp')
      BY <1>3
    <2>3. /\ maps[i].low <= rsp' /\ rsp' < maps[i].high /\ maps[i].low \in Int /\ maps[i].high \in Int
          /\ IsStack(maps[i]) \/ OutsideStack(maps[i])
      BY <1>1, <2>2, MapsFacts DEF MapsOK, Covers
    <2>4. IsStack(maps[i])
      BY <1>1, <1>2, <2>3 DEF OutsideStack
    <2> QED
      BY <2>1, <2>3, <2>4 DEF MapsOK
  <1>4. CASE ~\E i \in DOMAIN maps : Covers(maps[i], rsp')
    <2>1. maps' = [i \in DOMAIN maps |-> IF maps[i].high = StackTop
                                         THEN [maps[i] EXCEPT !.low = @ - Page] ELSE maps[i]]
      BY <1>4 DEF Push, SetMaps
    <2>2. rsp' = rsp - Align
      BY DEF Push
    <2> QED
      BY <1>1, <1>2, <1>4, <2>1, <2>2, GrowKeepsMaps
  <1> QED
    BY <1>3, <1>4

(* Every step.                                                             *)
LEMMA MapsOKStep ==
  StackInv /\ MapsOK(maps, rsp) /\ [Next]_lookingVars => MapsOK(maps, rsp)'
  <1> SUFFICES ASSUME StackInv, MapsOK(maps, rsp), [Next]_lookingVars
               PROVE  MapsOK(maps', rsp')
    OBVIOUS
  <1>1. maps' = maps /\ rsp' = rsp => MapsOK(maps', rsp')
    OBVIOUS
  <1>2. rsp \in StackLimit .. StackTop
    <2>1. PICK sp : CallsTyped(calls) /\ Shape(calls, rsp, sp)
      BY DEF StackInv
    <2> QED
      BY <2>1, ShapeFacts
  <1>3. CASE ChildRuns
    <2>1. ASSUME NEW f \in DOMAIN Funcs, NEW ret \in Returns[Top.func], CallFunction(f, ret)
          PROVE  MapsOK(maps', rsp')
      BY <1>2, <2>1, PushKeepsMaps DEF CallFunction
    <2>2. CASE PushRbp
      BY <1>2, <2>2, PushKeepsMaps DEF PushRbp
    <2>3. CASE Leave \/ Return
      <3>1. maps' = maps /\ rsp' = rsp + Align /\ Align \in Nat /\ rsp \in Int
        BY <2>3, TopFacts DEF Leave, Return, mapVars
      <3>2. PICK s \in DOMAIN maps : IsStack(maps[s]) /\ maps[s].low <= rsp
        BY DEF MapsOK
      <3>3. maps[s].low <= rsp'
        BY <3>1, <3>2, MapsFacts
      <3> QED
        BY <3>1, <3>2, <3>3 DEF MapsOK
    <2>4. ASSUME NEW v \in Junk, SetRbp(v) PROVE MapsOK(maps', rsp')
      BY <1>1, <2>4 DEF SetRbp, mapVars
    <2> QED
      BY <1>3, <2>1, <2>2, <2>3, <2>4 DEF ChildRuns
  <1>4. CASE AddressSpaceChanges
    <2>0. rsp \in Int /\ rsp' = rsp
      BY <1>4 DEF AddressSpaceChanges, childVars, StackInv
    <2>1. CASE ReplaceExec
      BY <2>0, <2>1, RenameKeepsMaps DEF ReplaceExec, SetMaps
    <2>2. ASSUME NEW line \in Extra, MapRegion(line) PROVE MapsOK(maps', rsp')
      BY <2>0, <2>2, InsertKeepsMaps DEF MapRegion, SetMaps
    <2>3. ASSUME NEW line \in Extra, UnmapRegion(line) PROVE MapsOK(maps', rsp')
      BY <2>0, <2>3, RemoveKeepsMaps DEF UnmapRegion, SetMaps
    <2> QED
      BY <1>4, <2>1, <2>2, <2>3 DEF AddressSpaceChanges
  <1>5. ASSUME NEW intact \in BOOLEAN, Start(intact) \/ ChildStops(intact) PROVE MapsOK(maps', rsp')
    BY <1>1, <1>5 DEF Start, ChildStops, InitializeMaps, Reload, mapVars, childVars
  <1>6. CASE Resume \/ Meddle \/ PrintBacktrace \/ Walking \/ Done
    BY <1>1, <1>6 DEF Resume, Meddle, PrintBacktrace, Walking, NextFrame, LastFrame, Done,
                      lookingVars, mapVars, childVars
  <1>7. ASSUME NEW choice \in 0 .. 2, NEW name \in Names, AskFunction(name, choice) PROVE MapsOK(maps', rsp')
    BY <1>1, <1>7 DEF AskFunction, mapVars, childVars
  <1>8. ASSUME NEW choice \in 0 .. 2, NEW l \in Lines, AskLine(l, choice) PROVE MapsOK(maps', rsp')
    BY <1>1, <1>8 DEF AskLine, mapVars, childVars
  <1>9. CASE UNCHANGED lookingVars
    BY <1>1, <1>9 DEF lookingVars, mapVars, childVars
  <1> QED
    BY <1>3, <1>4, <1>5, <1>6, <1>7, <1>8, <1>9 DEF Next

(* Whatever the child maps, unmaps, pushes or has replaced: its mappings   *)
(* lie apart and in order, one is the stack and holds nothing else, and    *)
(* what the loader mapped stays where it was.                              *)
THEOREM MappingsStayApart == Spec => []MapsOK(maps, rsp)
  <1>1. Init => MapsOK(maps, rsp)
    BY LoadedMapsOK DEF Init, MapsInit
  <1> QED
    BY <1>1, MapsOKStep, StackIsKept, PTL DEF Spec

-----------------------------------------------------------------------------
(* The chunks: the mappings as the constructor read them.                  *)

ReadFrom(cs, ms, intact) == cs = [i \in DOMAIN ms |-> Chunk(ms[i], intact)]

ChunksOK(cs) == InOrder(cs) /\ \A i \in DOMAIN cs : cs[i].path \in Paths

(* Every name is classified.                                               *)
LEMMA PathsKnown ==
  ASSUME NEW name, NEW intact \in BOOLEAN
  PROVE  PathOf(name, intact) \in Paths
  <1>1. \A w : Descriptor(w) \in Paths
    BY DEF Descriptor, Paths
  <1>2. "so" \in Paths /\ "exec" \in Paths /\ "mmap" \in Paths /\ "anon" \in Paths
    BY DEF Paths
  <1>3. CASE name = <<>>
    BY <1>2, <1>3 DEF PathOf
  <1>4. CASE name # <<>> /\ name[1] = "/"
    BY <1>2, <1>4 DEF PathOf
  <1>5. CASE name # <<>> /\ name[1] = "["
    BY <1>1, <1>2, <1>5 DEF PathOf
  <1>6. CASE name # <<>> /\ name[1] # "/" /\ name[1] # "["
    BY <1>1, <1>2, <1>6 DEF PathOf
  <1> QED
    BY <1>3, <1>4, <1>5, <1>6

(* What was read from the mappings has their ranges and permissions.       *)
LEMMA ReadFacts ==
  ASSUME NEW ms, NEW r \in Int, MapsOK(ms, r), NEW intact \in BOOLEAN, NEW cs, ReadFrom(cs, ms, intact)
  PROVE  /\ DOMAIN cs = 1 .. Len(ms) /\ Len(cs) = Len(ms) /\ Len(ms) \in Nat
         /\ \A i \in 1 .. Len(ms) :
               /\ cs[i].low = ms[i].low /\ cs[i].high = ms[i].high /\ cs[i].perms = ms[i].perms
               /\ cs[i].path = PathOf(Shown(ms[i].name), intact)
         /\ cs # <<>> /\ ChunksOK(cs)
  <1>1. /\ Len(ms) \in Nat /\ DOMAIN ms = 1 .. Len(ms)
        /\ \A i \in 1 .. Len(ms) : ms[i].low < ms[i].high
        /\ \A i, j \in 1 .. Len(ms) : j < i => ms[j].high <= ms[i].low
    BY MapsFacts
  <1>2. /\ cs = [i \in 1 .. Len(ms) |-> Chunk(ms[i], intact)]
        /\ DOMAIN cs = 1 .. Len(ms)
    BY <1>1 DEF ReadFrom
  <1>3. \A i \in 1 .. Len(ms) :
               /\ cs[i].low = ms[i].low /\ cs[i].high = ms[i].high /\ cs[i].perms = ms[i].perms
               /\ cs[i].path = PathOf(Shown(ms[i].name), intact)
    BY <1>2 DEF Chunk
  <1>4. Len(cs) = Len(ms)
    <2>1. cs \in Seq({cs[i] : i \in 1 .. Len(ms)}) /\ Len(cs) = Len(ms)
      <3> DEFINE T == {cs[i] : i \in 1 .. Len(ms)}
      <3>1. \A i \in 1 .. Len(ms) : cs[i] \in T
        OBVIOUS
      <3>2. cs \in [1 .. Len(ms) -> T]
        <4> HIDE DEF T
        <4>1. cs = [i \in 1 .. Len(ms) |-> cs[i]]
          BY <1>2
        <4> QED
          BY <4>1, <3>1
      <3> HIDE DEF T
      <3>3. cs \in Seq(T) /\ Len(cs) = Len(ms)
        BY <3>2, <1>1, FunctionIsSeq
      <3> QED
        BY <3>3 DEF T
    <2> QED
      BY <2>1
  <1>5. Len(ms) > 0
    <2>1. \E s \in 1 .. Len(ms) : TRUE
      BY <1>1 DEF MapsOK
    <2> QED
      BY <2>1, <1>1
  <1>6. cs # <<>>
    <2>1. 1 \in DOMAIN cs
      BY <1>1, <1>2, <1>5
    <2> QED
      BY <2>1
  <1>7. ChunksOK(cs)
    <2>1. \A i \in 1 .. Len(ms) : \A j \in 1 .. i - 1 : j \in 1 .. Len(ms) /\ j < i
      BY <1>1
    <2>2. InOrder(cs)
      BY <1>1, <1>2, <1>3, <2>1 DEF InOrder
    <2>3. \A i \in DOMAIN cs : cs[i].path \in Paths
      BY <1>2, <1>3, PathsKnown
    <2> QED
      BY <2>2, <2>3 DEF ChunksOK
  <1> QED
    BY <1>1, <1>2, <1>3, <1>4, <1>6, <1>7

(* A line is read as the executable if it is, and its name has no ".so".   *)
LEMMA ExecIsRead ==
  ASSUME PlainNames, NEW ms, NEW r \in Int, MapsOK(ms, r), NEW intact \in BOOLEAN, NEW cs, ReadFrom(cs, ms, intact)
  PROVE  /\ \A i \in 1 .. Len(ms) : cs[i].path = "exec" => ms[i].name = Exec
         /\ (\E i \in 1 .. Len(ms) : cs[i].path = "exec") => ~IsSharedObject(Exec)
         /\ ~IsSharedObject(Exec) =>
               \A i \in 1 .. Len(ms) : ms[i].name = Exec => cs[i].path = "exec"
  <1>1. \A i \in 1 .. Len(ms) : /\ cs[i].path = PathOf(Shown(ms[i].name), intact)
                                /\ ms[i].name \in KnownNames
    BY ReadFacts, MapsFacts DEF KnownLine
  <1>2. \A i \in 1 .. Len(ms) : cs[i].path = "exec" => ms[i].name = Exec
    BY <1>1 DEF PlainNames, ReadsAsExec
  <1>3. Exec # <<>> /\ Exec[1] = "/" /\ Shown(Exec) = Exec
    BY MemoryMapAssumption DEF PlainNames
  <1>4. PathOf(Exec, intact) = IF IsSharedObject(Exec) THEN "so" ELSE "exec"
    BY <1>3 DEF PathOf
  <1> QED
    BY <1>1, <1>2, <1>3, <1>4

(* The address that LowestExec finds, from what is loaded.                 *)
LEMMA LowestIsBase ==
  ASSUME PlainNames, NEW intact \in BOOLEAN, NEW cs, ReadFrom(cs, Loaded, intact),
         LowestExec(cs) # -1
  PROVE  LowestExec(cs) = Base
  <1> DEFINE top == StackTop
  <1>0. top \in Int /\ MapsOK(Loaded, top)
    BY StackAssumption, LoadedMapsOK
  <1> HIDE DEF top
  <1>1. /\ DOMAIN cs = 1 .. Len(Loaded) /\ DOMAIN Loaded = 1 .. Len(Loaded)
        /\ \A i \in 1 .. Len(Loaded) : cs[i].low = Loaded[i].low
    BY <1>0, ReadFacts, LoadedFacts
  <1>2. \E i \in DOMAIN cs : cs[i].path = "exec"
    BY DEF LowestExec
  <1>3. \A i \in 1 .. Len(Loaded) : cs[i].path = "exec" <=> Loaded[i].name = Exec
    BY <1>0, <1>1, <1>2, ExecIsRead
  <1>4. {cs[i].low : i \in {j \in DOMAIN cs : cs[j].path = "exec"}}
            = {Loaded[i].low : i \in {j \in DOMAIN Loaded : Loaded[j].name = Exec}}
    BY <1>1, <1>3
  <1> QED
    BY <1>2, <1>4 DEF LowestExec, Base

ChunksInv ==
    /\ at \in {"start", "running", "prompt", "walk", "done", "aborted"}
    /\ ChunksOK(chunks) /\ loadAddress \in Int
    /\ at = "start" => maps = Loaded \/ ~\E i \in DOMAIN maps : maps[i].name = Exec
    /\ at = "start" => chunks = <<>>
    /\ at \in {"running", "prompt", "walk", "done"} =>
          /\ chunks # <<>>
          /\ PlainNames => ~IsSharedObject(Exec) /\ loadAddress = Base
    /\ at \in {"prompt", "walk", "done"} =>
          \E intact \in BOOLEAN : ReadFrom(chunks, maps, intact)

(* A list with two more elements is another one.                           *)
LEMMA TwoMoreDiffer ==
  ASSUME NEW S, NEW s \in Seq(S), NEW a, NEW b
  PROVE  s \o <<a, b>> # s
  <1> DEFINE n == Len(s)
             T == S \cup {a, b}
             two == <<a, b>>
             t == s \o two
  <1>1. n \in Nat /\ DOMAIN s = 1 .. n /\ \A i \in 1 .. n : s[i] \in T
    BY LenProperties, ElementOfSeq
  <1>2. two \in Seq(T) /\ Len(two) = 2
    <2>1. a \in T /\ b \in T
      OBVIOUS
    <2> HIDE DEF T
    <2> QED
      BY <2>1
  <1>3. s = [i \in 1 .. n |-> s[i]]
    BY <1>1, LenProperties
  <1> HIDE DEF n, T, two
  <1>4. s \in Seq(T) /\ Len(s) = n
    BY <1>1, <1>3, FunctionIsSeq
  <1>5. Len(t) = n + 2
    <2>1. Len(s \o two) = Len(s) + Len(two)
      BY <1>2, <1>4, ConcatProperties
    <2> QED
      BY <2>1, <1>2, <1>4
  <1> HIDE DEF t
  <1>6. t # s
    BY <1>1, <1>4, <1>5
  <1> QED
    BY <1>6 DEF t, two

(* Before the map is read.                                                 *)
LEMMA ChunksInvInit == Init => ChunksInv
  <1> SUFFICES ASSUME Init PROVE ChunksInv
    OBVIOUS
  <1>1. at = "start" /\ chunks = <<>> /\ maps = Loaded /\ loadAddress = 0
    BY DEF Init, MapsInit
  <1>2. ChunksOK(chunks)
    BY <1>1 DEF ChunksOK, InOrder
  <1> QED
    BY <1>1, <1>2 DEF ChunksInv

(* initialize reads it first,                                              *)
LEMMA StartReadsChunks ==
  ASSUME MapsOK(maps, rsp), rsp \in Int, ChunksInv, NEW intact \in BOOLEAN, Start(intact)
  PROVE  ChunksInv'
  <1>1. CASE InitializeMaps(intact) /\ at' = "prompt"
    <2>1. maps' = maps /\ ReadFrom(chunks', maps, intact) /\ loadAddress' = LowestExec(chunks')
          /\ LowestExec(chunks') # -1 /\ (maps = Loaded \/ ~\E i \in DOMAIN maps : maps[i].name = Exec)
      BY <1>1 DEF InitializeMaps, Parsed, ReadFrom, ChunksInv, Start
    <2>2. chunks' # <<>> /\ ChunksOK(chunks') /\ DOMAIN chunks' = 1 .. Len(maps)
          /\ DOMAIN maps = 1 .. Len(maps)
      BY <2>1, ReadFacts, MapsFacts
    <2>3. ASSUME PlainNames PROVE ~IsSharedObject(Exec) /\ loadAddress' = Base
      <3>1. \E i \in 1 .. Len(maps) : chunks'[i].path = "exec"
        BY <2>1, <2>2 DEF LowestExec
      <3>2. ~IsSharedObject(Exec) /\ \E i \in DOMAIN maps : maps[i].name = Exec
        BY <2>1, <2>2, <2>3, <3>1, ExecIsRead
      <3>3. maps = Loaded
        BY <2>1, <3>2
      <3> QED
        BY <2>1, <2>3, <3>2, <3>3, LowestIsBase
    <2>4. loadAddress' \in Int
      <3> DEFINE lows == {chunks'[i].low : i \in {j \in DOMAIN chunks' : chunks'[j].path = "exec"}}
      <3>1. lows # {} /\ loadAddress' = Min(lows)
        BY <2>1 DEF LowestExec
      <3>2. \A i \in DOMAIN chunks' : chunks'[i].low \in Nat
        <4>1. \A i \in 1 .. Len(maps) : chunks'[i].low = maps[i].low /\ maps[i] \in KnownLine
          BY <2>1, ReadFacts, MapsFacts
        <4> QED
          BY <2>2, <4>1 DEF KnownLine
      <3>3. lows \subseteq Nat
        BY <3>2
      <3> HIDE DEF lows
      <3>4. Min(lows) \in lows
        BY <3>1, <3>3, MinFacts
      <3>5. loadAddress' \in lows
        BY <3>1, <3>4
      <3> QED
        BY <3>3, <3>5
    <2> QED
      BY <1>1, <2>1, <2>2, <2>3, <2>4 DEF ChunksInv
  <1>2. CASE at' = "aborted" /\ UNCHANGED mapVars
    BY <1>2 DEF ChunksInv, mapVars
  <1> QED
    BY <1>1, <1>2 DEF Start

(* and waitForSignal again at every stop.                                  *)
LEMMA StopReadsChunks ==
  ASSUME MapsOK(maps, rsp), rsp \in Int, ChunksInv, NEW intact \in BOOLEAN, ChildStops(intact)
  PROVE  ChunksInv'
  <1>1. /\ at = "running" /\ at' = "prompt" /\ maps' = maps /\ loadAddress' = loadAddress
        /\ chunks # <<>> /\ ReadFrom(chunks', maps, intact)
    BY DEF ChildStops, Reload, Parsed, ReadFrom, ChunksInv
  <1>2. chunks' # <<>> /\ ChunksOK(chunks')
    BY <1>1, ReadFacts
  <1> QED
    BY <1>1, <1>2 DEF ChunksInv

(* Every step.                                                             *)
LEMMA ChunksInvStep ==
  StackInv /\ MapsOK(maps, rsp) /\ ChunksInv /\ [Next]_lookingVars => ChunksInv'
  <1> SUFFICES ASSUME MapsOK(maps, rsp), rsp \in Int, ChunksInv, [Next]_lookingVars PROVE ChunksInv'
    BY DEF StackInv
  <1>1. CASE ChildRuns
    <2>1. /\ at = "running" /\ at' = "running" /\ chunks' = chunks /\ loadAddress' = loadAddress
      BY <1>1 DEF ChildRuns, lookVars, CallFunction, PushRbp, Push, SetMaps, Leave, Return, SetRbp, mapVars
    <2> QED
      BY <2>1 DEF ChunksInv
  <1>2. CASE AddressSpaceChanges
    <2>1. chunks' = chunks /\ loadAddress' = loadAddress /\ at' = at /\ at \in {"start", "running"}
          /\ (at = "start" => ReplaceExec)
      BY <1>2 DEF AddressSpaceChanges, ReplaceExec, MapRegion, UnmapRegion, SetMaps, lookVars
    <2>2. ASSUME at = "start" PROVE ~\E i \in DOMAIN maps' : maps'[i].name = Exec
      <3>1. maps' = [i \in DOMAIN maps |->
                        IF maps[i].name = Exec
                        THEN [maps[i] EXCEPT !.name = Exec \o <<" ", "(deleted)">>] ELSE maps[i]]
        BY <2>1, <2>2 DEF ReplaceExec, SetMaps
      <3>2. Exec \o <<" ", "(deleted)">> # Exec
        <4>1. ASSUME NEW i \in DOMAIN maps, maps[i].name = Exec PROVE Exec \in Seq(STRING)
          <5>1. maps = Loaded \/ maps[i].name # Exec
            BY <2>2, <4>1 DEF ChunksInv
          <5>2. Loaded \in Seq(MapLine) /\ i \in DOMAIN Loaded /\ DOMAIN Loaded = 1 .. Len(Loaded)
            BY <4>1, <5>1, MemoryMapAssumption, LoadedFacts
          <5>3. Loaded[i] \in MapLine
            BY <5>2, ElementOfSeq
          <5> QED
            BY <4>1, <5>1, <5>3 DEF MapLine
        <4> QED
          BY <4>1, <2>1, <2>2, TwoMoreDiffer DEF ReplaceExec
      <3>3. ASSUME NEW i \in DOMAIN maps PROVE maps'[i].name # Exec
        <4>1. i \in 1 .. Len(maps) /\ maps[i] \in KnownLine
          BY <3>3, MapsFacts
        <4>2. maps[i].name = Exec => maps'[i].name = Exec \o <<" ", "(deleted)">>
          BY <3>1, <4>1 DEF KnownLine
        <4> QED
          BY <3>1, <3>2, <4>2
      <3> QED
        BY <3>1, <3>3
    <2> QED
      BY <2>1, <2>2 DEF ChunksInv
  <1>3. ASSUME NEW intact \in BOOLEAN, Start(intact) \/ ChildStops(intact) PROVE ChunksInv'
    BY <1>3, StartReadsChunks, StopReadsChunks
  <1>4. ASSUME UNCHANGED mapVars, at \in {"prompt", "walk", "done"},
               at' \in {"running", "prompt", "walk", "done", "aborted"}
        PROVE  ChunksInv'
    BY <1>4 DEF ChunksInv, mapVars
  <1>5. CASE Resume \/ Meddle
    BY <1>4, <1>5 DEF Resume, Meddle, AtPrompt
  <1>6. CASE PrintBacktrace
    BY <1>4, <1>6 DEF PrintBacktrace, PrintFrame, AtPrompt
  <1>7. CASE Walking
    BY <1>4, <1>7 DEF Walking, NextFrame, LastFrame, PrintFrame
  <1>8. ASSUME NEW choice \in 0 .. 2, NEW name \in Names, AskFunction(name, choice) PROVE ChunksInv'
    BY <1>4, <1>8 DEF AskFunction, MayAsk, Ask
  <1>9. ASSUME NEW choice \in 0 .. 2, NEW l \in Lines, AskLine(l, choice) PROVE ChunksInv'
    BY <1>4, <1>9 DEF AskLine, MayAsk, Ask
  <1>10. CASE UNCHANGED lookingVars
    BY <1>10 DEF ChunksInv, lookingVars, mapVars, lookVars
  <1>11. CASE Done
    BY <1>11 DEF Done, ChunksInv, lookingVars, mapVars, lookVars
  <1> QED
    BY <1>1, <1>2, <1>3, <1>5, <1>6, <1>7, <1>8, <1>9, <1>10, <1>11 DEF Next

(* From the first prompt on the debugger has read the mappings, as they    *)
(* were at the stop.                                                       *)
THEOREM ChunksAreRead == Spec => []ChunksInv
  BY ChunksInvInit, ChunksInvStep, StackIsKept, MappingsStayApart, PTL DEF Spec

(* At the prompt, from whatever path the debuggee was loaded.              *)
THEOREM ChunksStayCurrent == PlainNames => (Spec => []ChunksAreCurrent)
  <1> SUFFICES ASSUME PlainNames PROVE Spec => []ChunksAreCurrent
    OBVIOUS
  <1>1. StackInv /\ MapsOK(maps, rsp) /\ ChunksInv => ChunksAreCurrent
    <2> SUFFICES ASSUME MapsOK(maps, rsp), rsp \in Int, ChunksInv, AtPrompt, NEW addr
                 PROVE  LET c == ChunkAt(addr)
                            m == SelectInSeq(maps, LAMBDA line : Covers(line, addr))
                        IN  /\ c = 0 <=> m = 0
                            /\ c # 0 => /\ chunks[c].perms = maps[m].perms
                                        /\ chunks[c].path = "exec" <=> maps[m].name = Exec
      BY DEF ChunksAreCurrent, StackInv
    <2> DEFINE n == Len(maps)
               C == {i \in 1 .. Len(chunks) : Covers(chunks[i], addr)}
               M == {i \in 1 .. Len(maps) : Covers(maps[i], addr)}
               m == SelectInSeq(maps, LAMBDA line : Covers(line, addr))
    <2>1. PICK intact \in BOOLEAN : ReadFrom(chunks, maps, intact)
      BY DEF ChunksInv, AtPrompt
    <2>2. /\ Len(chunks) = n /\ n \in Nat
          /\ \A i \in 1 .. n :
               /\ chunks[i].low = maps[i].low /\ chunks[i].high = maps[i].high
               /\ chunks[i].perms = maps[i].perms
               /\ chunks[i].path = "exec" <=> maps[i].name = Exec
      <3>1. ~IsSharedObject(Exec)
        BY DEF ChunksInv, AtPrompt
      <3> QED
        BY <2>1, <3>1, ReadFacts, ExecIsRead
    <2>3. C = M
      BY <2>2 DEF Covers
    <2>4. ChunkAt(addr) = IF C # {} THEN Min(C) ELSE 0
      BY DEF ChunkAt, SelectInSeq
    <2>5. m = IF M # {} THEN Min(M) ELSE 0
      BY DEF SelectInSeq
    <2>6. ChunkAt(addr) = m
      <3> HIDE DEF C, M, m
      <3> QED
        BY <2>3, <2>4, <2>5
    <2>7. m # 0 => m \in 1 .. n
      <3>1. M \subseteq Nat /\ M \subseteq 1 .. n
        BY <2>2
      <3> HIDE DEF M
      <3>2. M # {} => Min(M) \in M
        BY <3>1, MinFacts
      <3> QED
        BY <2>5, <3>1, <3>2
    <2> HIDE DEF m
    <2>8. m # 0 => /\ chunks[m].perms = maps[m].perms
                   /\ chunks[m].path = "exec" <=> maps[m].name = Exec
      BY <2>2, <2>7
    <2> QED
      BY <2>6, <2>8 DEF m
  <1> QED
    BY <1>1, StackIsKept, MappingsStayApart, ChunksAreRead, PTL

-----------------------------------------------------------------------------
(* What is kept of a list.                                                 *)

(* The recursive function of KeptOfFirst exists.                           *)
LEMMA KeptOfFirstDef ==
  ASSUME NEW S, NEW s \in Seq(S), NEW T
  PROVE  /\ Len(s) \in Nat
         /\ KeptOfFirst(s, T)[0] = <<>>
         /\ \A k \in 1 .. Len(s) :
               KeptOfFirst(s, T)[k] = IF s[k] \in T THEN Append(KeptOfFirst(s, T)[k - 1], s[k])
                                      ELSE KeptOfFirst(s, T)[k - 1]
  <1> DEFINE Step(g, i) == IF i = 0 THEN <<>>
                           ELSE IF s[i] \in T THEN Append(g[i - 1], s[i]) ELSE g[i - 1]
             D == {n \in Nat : \E g : g = [i \in 0 .. n |-> Step(g, i)]}
             K == KeptOfFirst(s, T)
             L == Len(s)
  <1>1. 0 \in D
    <2>1. [i \in 0 .. 0 |-> <<>>] = [i \in 0 .. 0 |-> Step([j \in 0 .. 0 |-> <<>>], i)]
      OBVIOUS
    <2> QED
      BY <2>1
  <1>2. ASSUME NEW n \in Nat, n \in D PROVE n + 1 \in D
    <2>1. PICK g : g = [i \in 0 .. n |-> Step(g, i)]
      BY <1>2
    <2> DEFINE h == [i \in 0 .. n + 1 |-> IF i <= n THEN g[i] ELSE Step(g, n + 1)]
    <2>2. \A i \in 0 .. n : h[i] = g[i]
      OBVIOUS
    <2>3. ASSUME NEW i \in 0 .. n + 1 PROVE h[i] = Step(h, i)
      <3>1. CASE i = n + 1
        BY <3>1, <2>2
      <3>2. CASE i \in 0 .. n
        <4>1. g[i] = Step(g, i)
          BY <2>1, <3>2
        <4> QED
          BY <4>1, <3>2, <2>2
      <3> QED
        BY <3>1, <3>2
    <2>4. h = [i \in 0 .. n + 1 |-> Step(h, i)]
      BY <2>3
    <2>5. \E f : f = [i \in 0 .. n + 1 |-> Step(f, i)]
      <3> HIDE DEF h, Step
      <3> QED
        BY <2>4
    <2> HIDE DEF h, Step
    <2> QED
      BY <2>5
  <1>3. L \in Nat /\ L \in D
    <2> HIDE DEF D
    <2> QED
      BY <1>1, <1>2, NatSetInduction, LenProperties
  <1>4. \E g : g = [i \in 0 .. L |-> Step(g, i)]
    BY <1>3
  <1>5. K = [i \in 0 .. L |-> Step(K, i)]
    BY <1>4 DEF KeptOfFirst
  <1> HIDE DEF K, L
  <1>6. K[0] = <<>>
    BY <1>3, <1>5
  <1>7. ASSUME NEW i \in 1 .. L PROVE K[i] = IF s[i] \in T THEN Append(K[i - 1], s[i]) ELSE K[i - 1]
    <2>1. i \in 0 .. L /\ i # 0
      BY <1>3
    <2>2. K[i] = Step(K, i)
      <3> HIDE DEF Step
      <3> QED
        BY <1>5, <2>1
    <2> QED
      BY <2>1, <2>2
  <1> QED
    BY <1>3, <1>6, <1>7 DEF K, L

(* What the first m elements add to the first k: some of those between,    *)
(* behind what was there; nothing only if none is in T.                    *)
Adds(a, b, s, T, k, m) ==
    /\ Len(a) <= Len(b)
    /\ \A i \in 1 .. Len(a) : b[i] = a[i]
    /\ \A i \in Len(a) + 1 .. Len(b) : \E j \in k + 1 .. m : b[i] = s[j] /\ s[j] \in T
    /\ Len(a) = Len(b) => \A j \in k + 1 .. m : s[j] \notin T

(* What the first k elements leave in a list stays there, in front.        *)
LEMMA KeptGrows ==
  ASSUME NEW S, NEW s \in Seq(S), NEW T, NEW k \in 0 .. Len(s), KeptOfFirst(s, T)[k] \in Seq(S)
  PROVE  \A m \in k .. Len(s) :
            /\ KeptOfFirst(s, T)[m] \in Seq(S)
            /\ Adds(KeptOfFirst(s, T)[k], KeptOfFirst(s, T)[m], s, T, k, m)
  <1> DEFINE K == KeptOfFirst(s, T)
             L == Len(s)
             Good(m) == K[m] \in Seq(S) /\ Adds(K[k], K[m], s, T, k, m)
             D == {n \in Nat : k + n <= L => Good(k + n)}
  <1>1. /\ L \in Nat /\ k \in 0 .. L
        /\ \A i \in 1 .. L : K[i] = IF s[i] \in T THEN Append(K[i - 1], s[i]) ELSE K[i - 1]
        /\ K[k] \in Seq(S) /\ Len(K[k]) \in Nat
        /\ \A i \in 1 .. L : s[i] \in S
    BY KeptOfFirstDef, LenProperties, ElementOfSeq
  <1> HIDE DEF K, L
  <1>2. 0 \in D
    BY <1>1 DEF Adds
  <1>3. ASSUME NEW n \in Nat, n \in D PROVE n + 1 \in D
    <2> SUFFICES ASSUME k + (n + 1) <= L PROVE Good(k + (n + 1))
      OBVIOUS
    <2> DEFINE m == k + (n + 1)
               a == K[k]
               b == K[m - 1]
               c == K[m]
    <2>1. m \in 1 .. L /\ m - 1 = k + n /\ k + n <= L /\ k < m
      BY <1>1
    <2>2. b \in Seq(S) /\ Adds(a, b, s, T, k, m - 1) /\ Len(b) \in Nat /\ a \in Seq(S) /\ Len(a) \in Nat
      BY <1>1, <1>3, <2>1, LenProperties
    <2>3. c = IF s[m] \in T THEN Append(b, s[m]) ELSE b
      BY <1>1, <2>1
    <2>4. s[m] \in S /\ k + 1 \in Int /\ m \in Int /\ k \in Int
      BY <1>1, <2>1
    <2> HIDE DEF m, a, b, c
    <2>5. CASE s[m] \in T
      <3>1. /\ c \in Seq(S) /\ Len(c) = Len(b) + 1 /\ c[Len(b) + 1] = s[m]
            /\ \A i \in 1 .. Len(b) : c[i] = b[i]
        BY <2>2, <2>3, <2>4, <2>5, AppendProperties
      <3>2. \A i \in 1 .. Len(a) : c[i] = a[i]
        BY <2>2, <3>1 DEF Adds
      <3>3. ASSUME NEW i \in Len(a) + 1 .. Len(c)
            PROVE  \E j \in k + 1 .. m : c[i] = s[j] /\ s[j] \in T
        <4>1. CASE i = Len(b) + 1
          <5>1. m \in k + 1 .. m
            BY <2>1, <2>4
          <5> QED
            BY <4>1, <5>1, <3>1, <2>5
        <4>2. CASE i \in Len(a) + 1 .. Len(b)
          <5>1. PICK j \in k + 1 .. m - 1 : b[i] = s[j] /\ s[j] \in T
            BY <4>2, <2>2 DEF Adds
          <5>2. j \in k + 1 .. m /\ c[i] = b[i]
            BY <4>2, <2>2, <2>4, <3>1
          <5> QED
            BY <5>1, <5>2
        <4> QED
          BY <4>1, <4>2, <3>1, <2>2
      <3>4. Len(a) <= Len(b) /\ Len(a) # Len(c) /\ Len(a) <= Len(c)
        BY <2>2, <3>1 DEF Adds
      <3> QED
        BY <3>1, <3>2, <3>3, <3>4 DEF Adds, m, a, c
    <2>6. CASE s[m] \notin T
      <3>1. c = b
        BY <2>3, <2>6
      <3>2. \A j \in k + 1 .. m : j = m \/ j \in k + 1 .. m - 1
        BY <2>4
      <3>3. \A j \in k + 1 .. m - 1 : j \in k + 1 .. m
        BY <2>4
      <3>4. Adds(a, c, s, T, k, m)
        BY <3>1, <3>2, <3>3, <2>2, <2>6 DEF Adds
      <3> QED
        BY <3>1, <3>4, <2>2 DEF m, a, c
    <2> QED
      BY <2>5, <2>6
  <1>4. Nat \subseteq D
    <2> HIDE DEF D
    <2> QED
      BY <1>2, <1>3, NatSetInduction
  <1>5. ASSUME NEW m \in k .. L PROVE Good(m)
    <2>1. m - k \in Nat /\ k + (m - k) = m /\ m <= L
      BY <1>1
    <2> HIDE DEF Good
    <2> QED
      BY <2>1, <1>4
  <1> QED
    BY <1>5 DEF K, L

(* Kept, as a list: its elements are those of s that are in T, by place.   *)
LEMMA KeptElements ==
  ASSUME NEW S, NEW s \in Seq(S), NEW T
  PROVE  /\ Len(s) \in Nat
         /\ \A k \in 0 .. Len(s) :
               /\ KeptOfFirst(s, T)[k] \in Seq(S) /\ Len(KeptOfFirst(s, T)[k]) \in Nat
               /\ Adds(KeptOfFirst(s, T)[k], Kept(s, T), s, T, k, Len(s))
         /\ Kept(s, T) \in Seq(S) /\ Len(Kept(s, T)) \in Nat
         /\ \A i \in 1 .. Len(Kept(s, T)) :
               \E j \in 1 .. Len(s) : Kept(s, T)[i] = s[j] /\ s[j] \in T
         /\ Kept(s, T) = <<>> => \A j \in 1 .. Len(s) : s[j] \notin T
  <1> DEFINE K == KeptOfFirst(s, T)
             L == Len(s)
  <1>1. L \in Nat /\ K[0] = <<>> /\ K[0] \in Seq(S) /\ Kept(s, T) = K[L]
    <2>1. L \in Nat /\ K[0] = <<>>
      BY KeptOfFirstDef
    <2>2. Kept(s, T) = K[L]
      BY DEF Kept
    <2>3. <<>> \in Seq(S)
      OBVIOUS
    <2> HIDE DEF K, L
    <2> QED
      BY <2>1, <2>2, <2>3
  <1>2. \A m \in 0 .. L : K[m] \in Seq(S) /\ Adds(K[0], K[m], s, T, 0, m)
    <2>1. 0 \in 0 .. L
      BY <1>1
    <2> QED
      BY <1>1, <2>1, KeptGrows
  <1>3. ASSUME NEW k \in 0 .. L
        PROVE  K[k] \in Seq(S) /\ Len(K[k]) \in Nat /\ Adds(K[k], K[L], s, T, k, L)
    <2>1. L \in k .. L
      BY <1>1
    <2> QED
      BY <1>2, <2>1, KeptGrows, LenProperties
  <1>4. L \in 0 .. L /\ Len(K[0]) = 0 /\ 0 + 1 = 1
    BY <1>1
  <1>5. \A i \in 1 .. Len(K[L]) : \E j \in 1 .. L : K[L][i] = s[j] /\ s[j] \in T
    BY <1>2, <1>4 DEF Adds
  <1>6. K[L] = <<>> => \A j \in 1 .. L : s[j] \notin T
    BY <1>2, <1>4 DEF Adds
  <1> HIDE DEF K, L
  <1> QED
    BY <1>1, <1>3, <1>4, <1>5, <1>6 DEF K, L

-----------------------------------------------------------------------------
(* The scans for listed dies.                                              *)

(* Lists with the same elements in the same places are the same.           *)
LEMMA SameList ==
  ASSUME NEW S, NEW s \in Seq(S), NEW R, NEW t \in Seq(R), Len(s) = Len(t),
         \A i \in 1 .. Len(s) : s[i] = t[i]
  PROVE  s = t
  <1>1. /\ Len(s) \in Nat /\ s = [i \in 1 .. Len(s) |-> s[i]]
        /\ t = [i \in 1 .. Len(t) |-> t[i]]
    BY LenProperties
  <1> QED
    BY <1>1

(* A list that begins with f and goes on with nothing in T keeps f.        *)
LEMMA KeptOfListed ==
  ASSUME NEW S, NEW s \in Seq(S), NEW T, NEW f \in Seq(S), Len(f) <= Len(s),
         \A i \in 1 .. Len(f) : s[i] = f[i] /\ s[i] \in T,
         \A i \in Len(f) + 1 .. Len(s) : s[i] \notin T
  PROVE  Kept(s, T) = f
  <1> DEFINE K == KeptOfFirst(s, T)
             L == Len(s)
             c == Len(f)
             Good(k) == /\ K[k] \in Seq(S) /\ Len(K[k]) = (IF k <= c THEN k ELSE c)
                        /\ \A j \in 1 .. Len(K[k]) : K[k][j] = f[j]
             D == {k \in Nat : k <= L => Good(k)}
  <1>1. /\ L \in Nat /\ K[0] = <<>>
        /\ \A k \in 1 .. L : K[k] = IF s[k] \in T THEN Append(K[k - 1], s[k]) ELSE K[k - 1]
    BY KeptOfFirstDef
  <1>2. c \in Nat /\ c <= L /\ \A i \in 1 .. L : s[i] \in S
    BY LenProperties, ElementOfSeq
  <1>3. Kept(s, T) = K[L]
    BY DEF Kept
  <1>4. /\ \A i \in 1 .. c : s[i] = f[i] /\ s[i] \in T
        /\ \A i \in c + 1 .. L : s[i] \notin T
    OBVIOUS
  <1> HIDE DEF K, L, c
  <1>5. 0 \in D
    <2>1. 0 <= c /\ K[0] \in Seq(S) /\ Len(K[0]) = 0
      BY <1>1, <1>2
    <2> QED
      BY <2>1
  <1>6. ASSUME NEW n \in Nat, n \in D PROVE n + 1 \in D
    <2> SUFFICES ASSUME n + 1 <= L PROVE Good(n + 1)
      OBVIOUS
    <2> DEFINE b == K[n]
               e == K[n + 1]
    <2>1. /\ n + 1 \in 1 .. L /\ n <= L
          /\ e = IF s[n + 1] \in T THEN Append(b, s[n + 1]) ELSE b
      <3>1. n + 1 \in 1 .. L /\ n <= L /\ (n + 1) - 1 = n
        BY <1>1
      <3> QED
        BY <3>1, <1>1
    <2>2. /\ b \in Seq(S) /\ Len(b) = (IF n <= c THEN n ELSE c) /\ s[n + 1] \in S
          /\ \A j \in 1 .. Len(b) : b[j] = f[j]
      BY <1>2, <1>6, <2>1
    <2> HIDE DEF b, e
    <2>3. CASE n < c
      <3>1. n + 1 \in 1 .. c
        BY <1>2, <2>3
      <3>2. /\ e \in Seq(S) /\ Len(e) = n + 1 /\ e[n + 1] = f[n + 1]
            /\ \A j \in 1 .. n : e[j] = f[j]
        <4>1. e = Append(b, s[n + 1]) /\ Len(b) = n /\ s[n + 1] = f[n + 1]
          BY <3>1, <1>2, <1>4, <2>1, <2>2, <2>3
        <4> QED
          BY <4>1, <2>2, AppendProperties
      <3>3. \A j \in 1 .. n + 1 : e[j] = f[j]
        BY <3>2
      <3>4. n + 1 <= c
        BY <3>1
      <3> QED
        BY <3>2, <3>3, <3>4 DEF e
    <2>4. CASE ~(n < c)
      <3>1. n + 1 \in c + 1 .. L /\ ~(n + 1 <= c) /\ (n <= c => n = c)
        BY <1>2, <2>1, <2>4
      <3>2. e = b
        BY <3>1, <1>4, <2>1
      <3> QED
        BY <3>1, <3>2, <2>2 DEF e
    <2> QED
      BY <2>3, <2>4
  <1>7. Nat \subseteq D
    <2> HIDE DEF D
    <2> QED
      BY <1>5, <1>6, NatSetInduction
  <1>8. Good(L)
    BY <1>1, <1>7
  <1>9. Kept(s, T) \in Seq(S) /\ Len(Kept(s, T)) = Len(f)
        /\ \A j \in 1 .. Len(f) : Kept(s, T)[j] = f[j]
    <2>1. Len(K[L]) = c
      BY <1>1, <1>2, <1>8
    <2> QED
      BY <1>3, <1>8, <2>1 DEF c
  <1> QED
    BY <1>9, SameList

(* The recursive function of VisitedOfFirst exists.                        *)
LEMMA VisitedOfFirstDef ==
  ASSUME NEW u, u.dies \in Seq(DieSet), NEW past
  PROVE  /\ Len(u.dies) \in Nat
         /\ VisitedOfFirst(u, past)[0] = <<>>
         /\ \A k \in 1 .. Len(u.dies) :
               VisitedOfFirst(u, past)[k] = Take(u, past, VisitedOfFirst(u, past)[k - 1], u.dies[k])
  <1> DEFINE Step(g, i) == IF i = 0 THEN <<>> ELSE Take(u, past, g[i - 1], u.dies[i])
             D == {n \in Nat : \E g : g = [i \in 0 .. n |-> Step(g, i)]}
             K == VisitedOfFirst(u, past)
             L == Len(u.dies)
  <1>1. 0 \in D
    <2>1. [i \in 0 .. 0 |-> <<>>] = [i \in 0 .. 0 |-> Step([j \in 0 .. 0 |-> <<>>], i)]
      OBVIOUS
    <2> QED
      BY <2>1
  <1>2. ASSUME NEW n \in Nat, n \in D PROVE n + 1 \in D
    <2>1. PICK g : g = [i \in 0 .. n |-> Step(g, i)]
      BY <1>2
    <2> DEFINE h == [i \in 0 .. n + 1 |-> IF i <= n THEN g[i] ELSE Step(g, n + 1)]
    <2>2. \A i \in 0 .. n : h[i] = g[i]
      OBVIOUS
    <2>3. ASSUME NEW i \in 0 .. n + 1 PROVE h[i] = Step(h, i)
      <3>1. CASE i = n + 1
        BY <3>1, <2>2
      <3>2. CASE i \in 0 .. n
        <4>1. g[i] = Step(g, i)
          BY <2>1, <3>2
        <4> QED
          BY <4>1, <3>2, <2>2
      <3> QED
        BY <3>1, <3>2
    <2>4. h = [i \in 0 .. n + 1 |-> Step(h, i)]
      BY <2>3
    <2>5. \E f : f = [i \in 0 .. n + 1 |-> Step(f, i)]
      <3> HIDE DEF h, Step
      <3> QED
        BY <2>4
    <2> HIDE DEF h, Step
    <2> QED
      BY <2>5
  <1>3. L \in Nat /\ L \in D
    <2> HIDE DEF D
    <2> QED
      BY <1>1, <1>2, NatSetInduction, LenProperties
  <1>4. \E g : g = [i \in 0 .. L |-> Step(g, i)]
    BY <1>3
  <1>5. K = [i \in 0 .. L |-> Step(K, i)]
    BY <1>4 DEF VisitedOfFirst
  <1> HIDE DEF K, L
  <1>6. K[0] = <<>>
    BY <1>3, <1>5
  <1>7. ASSUME NEW i \in 1 .. L PROVE K[i] = Take(u, past, K[i - 1], u.dies[i])
    <2>1. i \in 0 .. L /\ i # 0
      BY <1>3
    <2>2. K[i] = Step(K, i)
      <3> HIDE DEF Step
      <3> QED
        BY <1>5, <2>1
    <2> QED
      BY <2>1, <2>2
  <1> QED
    BY <1>3, <1>6, <1>7 DEF K, L

(* The compilation units, and what they consist of.                        *)
LEMMA UnitFacts ==
  /\ DOMAIN Units = 1 .. Len(Units) /\ Len(Units) \in Nat
  /\ \A u \in DOMAIN Units :
        /\ Units[u] \in UnitSet
        /\ Units[u].dies \in Seq(DieSet) /\ Units[u].lines \in Seq(EntrySet)
        /\ Units[u].low \in Nat /\ Units[u].high \in Nat
  <1>1. Units \in Seq(UnitSet)
    BY DwarfAssumption
  <1>2. DOMAIN Units = 1 .. Len(Units) /\ Len(Units) \in Nat
    BY <1>1, LenProperties
  <1>3. ASSUME NEW u \in DOMAIN Units PROVE Units[u] \in UnitSet
    BY <1>1, <1>2, ElementOfSeq
  <1> QED
    BY <1>2, <1>3 DEF UnitSet

(* The dies of a unit, and those of them that are listed.                  *)
LEMMA DieFacts ==
  ASSUME NEW u, u.dies \in Seq(DieSet)
  PROVE  /\ Len(u.dies) \in Nat /\ DOMAIN u.dies = 1 .. Len(u.dies)
         /\ \A k \in 1 .. Len(u.dies) :
               /\ u.dies[k] \in DieSet /\ u.dies[k].offset \in Nat
               /\ u.dies[k] \in ListedOf(u.dies) <=> Listed(u.dies[k])
         /\ ListedDies(u) \in Seq(DieSet) /\ Len(ListedDies(u)) \in Nat
         /\ \A i \in 1 .. Len(ListedDies(u)) :
               ListedDies(u)[i] \in ToSet(u.dies) /\ Listed(ListedDies(u)[i])
  <1>1. Len(u.dies) \in Nat /\ DOMAIN u.dies = 1 .. Len(u.dies)
        /\ \A k \in 1 .. Len(u.dies) : u.dies[k] \in DieSet
    BY LenProperties, ElementOfSeq
  <1>2. \A k \in 1 .. Len(u.dies) : u.dies[k].offset \in Nat
    BY <1>1 DEF DieSet
  <1>3. \A k \in 1 .. Len(u.dies) : u.dies[k] \in ListedOf(u.dies) <=> Listed(u.dies[k])
    BY <1>1 DEF ListedOf, ToSet
  <1>4. /\ ListedDies(u) \in Seq(DieSet) /\ Len(ListedDies(u)) \in Nat
        /\ \A i \in 1 .. Len(ListedDies(u)) :
              \E j \in 1 .. Len(u.dies) : ListedDies(u)[i] = u.dies[j] /\ u.dies[j] \in ListedOf(u.dies)
    BY KeptElements DEF ListedDies
  <1>5. \A i \in 1 .. Len(ListedDies(u)) :
           ListedDies(u)[i] \in ToSet(u.dies) /\ Listed(ListedDies(u)[i])
    BY <1>1, <1>3, <1>4 DEF ToSet
  <1> QED
    BY <1>1, <1>2, <1>3, <1>4, <1>5

(* offset[count], within the vector, at its end and beyond.                *)
LEMMA OffsetAtFacts ==
  ASSUME NEW u, u.dies \in Seq(DieSet), NEW count \in Nat, NEW past
  PROVE  /\ count < Len(ListedDies(u)) => OffsetAt(u, count, past) = ListedDies(u)[count + 1].offset
         /\ count = Len(ListedDies(u)) => OffsetAt(u, count, past) = past
         /\ count > Len(ListedDies(u)) => OffsetAt(u, count, past) = 0
  <1> DEFINE f == ListedDies(u)
             c == Len(f)
             o == Offsets(u)
  <1>1. f \in Seq(DieSet) /\ c \in Nat /\ DOMAIN f = 1 .. c
    BY DieFacts, LenProperties
  <1>2. o = [i \in 1 .. c |-> f[i].offset]
    BY <1>1 DEF Offsets
  <1>3. Len(o) = c
    <2>1. \A i \in 1 .. c : f[i].offset \in Nat
      <3>1. \A i \in 1 .. c : f[i] \in DieSet
        BY <1>1, ElementOfSeq
      <3> QED
        BY <3>1 DEF DieSet
    <2> HIDE DEF f, c, o
    <2>2. o \in [1 .. c -> Nat]
      BY <1>2, <2>1
    <2> QED
      BY <1>1, <2>2, FunctionIsSeq
  <1>4. count < c => o[count + 1] = f[count + 1].offset
    <2> HIDE DEF f, c, o
    <2> QED
      BY <1>1, <1>2
  <1>5. OffsetAt(u, count, past)
           = IF count < Len(o) THEN o[count + 1] ELSE IF count = Len(o) THEN past ELSE 0
    BY DEF OffsetAt
  <1> HIDE DEF o, c
  <1>6. /\ count < c => OffsetAt(u, count, past) = f[count + 1].offset
        /\ count = c => OffsetAt(u, count, past) = past
        /\ count > c => OffsetAt(u, count, past) = 0
    BY <1>1, <1>3, <1>4, <1>5
  <1> QED
    BY <1>6 DEF c, f

(* A die behind the listed ones with the offset past.                      *)
StrayDie(u, past, k) ==
    /\ k \in DOMAIN u.dies /\ u.dies[k].offset = past /\ ~Listed(u.dies[k])
    /\ \A l \in DOMAIN u.dies : Listed(u.dies[l]) => l < k

(* A scan takes what is listed, and then at most a stray die.              *)
LEMMA ScanOfUnit ==
  ASSUME NEW u, u.dies \in Seq(DieSet), NEW past,
         \A d, e \in DOMAIN u.dies : d < e => u.dies[d].offset < u.dies[e].offset
  PROVE  \/ Visited(u, past) = ListedDies(u)
         \/ \E k \in DOMAIN u.dies : StrayDie(u, past, k) /\
                Visited(u, past) = Append(ListedDies(u), u.dies[k])
  <1> DEFINE s == u.dies
             T == ListedOf(s)
             L == Len(s)
             f == ListedDies(u)
             c == Len(f)
             K == KeptOfFirst(s, T)
             V == VisitedOfFirst(u, past)
             Good(k) == V[k] = K[k] \/ \E j \in 1 .. k :
                           StrayDie(u, past, j) /\ K[k] = f /\ V[k] = Append(f, s[j])
             D == {k \in Nat : k <= L => Good(k)}
  <1>1. /\ L \in Nat /\ DOMAIN s = 1 .. L /\ f \in Seq(DieSet) /\ c \in Nat
        /\ \A k \in 1 .. L : s[k] \in DieSet /\ s[k].offset \in Nat /\ (s[k] \in T <=> Listed(s[k]))
    BY DieFacts
  <1>2. /\ K[0] = <<>>
        /\ \A k \in 1 .. L : K[k] = IF s[k] \in T THEN Append(K[k - 1], s[k]) ELSE K[k - 1]
    BY KeptOfFirstDef
  <1>3. \A k \in 0 .. L : K[k] \in Seq(DieSet) /\ Len(K[k]) \in Nat /\ Adds(K[k], f, s, T, k, L)
    BY KeptElements DEF ListedDies
  <1>4. V[0] = <<>> /\ \A k \in 1 .. L : V[k] = Take(u, past, V[k - 1], s[k])
    BY VisitedOfFirstDef
  <1>5. f = K[L] /\ Visited(u, past) = V[L]
    BY DEF ListedDies, Kept, Visited
  <1>6. \A d, e \in 1 .. L : d < e => s[d].offset < s[e].offset
    BY <1>1
  <1>7. \A count \in Nat :
           /\ count < c => OffsetAt(u, count, past) = f[count + 1].offset
           /\ count = c => OffsetAt(u, count, past) = past
           /\ count > c => OffsetAt(u, count, past) = 0
    BY OffsetAtFacts
  <1> HIDE DEF s, T, L, f, c, K, V
  <1>8. 0 \in D
    BY <1>2, <1>4
  <1>9. ASSUME NEW n \in Nat, n \in D PROVE n + 1 \in D
    <2> SUFFICES ASSUME n + 1 <= L PROVE Good(n + 1)
      OBVIOUS
    <2> DEFINE k == n + 1
               d == s[k]
               a == K[n]
               count == Len(V[n])
    <2>1. /\ k \in 1 .. L /\ n \in 0 .. L /\ k - 1 = n /\ Good(n) /\ n < k
      BY <1>1, <1>9
    <2>2. /\ V[k] = IF d.offset = OffsetAt(u, count, past) THEN Append(V[n], d) ELSE V[n]
          /\ K[k] = IF d \in T THEN Append(a, d) ELSE a
      <3>1. V[k] = Take(u, past, V[k - 1], s[k])
        BY <1>4, <2>1
      <3>2. K[k] = IF s[k] \in T THEN Append(K[k - 1], s[k]) ELSE K[k - 1]
        BY <1>2, <2>1
      <3> QED
        BY <3>1, <3>2, <2>1 DEF Take
    <2>3. d \in DieSet /\ d.offset \in Nat /\ (d \in T <=> Listed(d))
      BY <1>1, <2>1
    <2>4. a \in Seq(DieSet) /\ Len(a) \in Nat /\ Adds(a, f, s, T, n, L)
      BY <1>3, <2>1
    <2>5. /\ Len(a) <= c /\ \A i \in 1 .. Len(a) : f[i] = a[i]
          /\ \A i \in Len(a) + 1 .. c : \E j \in n + 1 .. L : f[i] = s[j] /\ s[j] \in T
          /\ Len(a) = c => \A j \in n + 1 .. L : s[j] \notin T
      BY <2>4 DEF Adds, c
    <2> HIDE DEF k, d, a, count
    <2>6. CASE V[n] = a
      <3>1. count = Len(a)
        BY <2>6 DEF count
      <3>2. CASE d \in T
        <4>1. Len(a) < c
          <5>1. k \in n + 1 .. L /\ s[k] \in T
            BY <2>1, <3>2 DEF d, k
          <5> QED
            BY <5>1, <1>1, <2>4, <2>5
        <4>2. f[Len(a) + 1] = d
          <5>1. Adds(K[k], f, s, T, k, L)
            BY <1>3, <2>1
          <5>2. K[k] \in Seq(DieSet) /\ Len(K[k]) = Len(a) + 1 /\ K[k][Len(a) + 1] = d
            BY <2>2, <2>3, <2>4, <3>2, AppendProperties
          <5>3. Len(a) + 1 \in 1 .. Len(K[k])
            BY <2>4, <5>2
          <5> QED
            BY <5>1, <5>2, <5>3 DEF Adds
        <4>3. d.offset = OffsetAt(u, count, past)
          BY <4>1, <4>2, <3>1, <2>4, <1>7
        <4>4. V[k] = K[k]
          BY <2>2, <2>6, <3>2, <4>3
        <4> QED
          BY <4>4 DEF k
      <3>3. CASE d \notin T
        <4>1. K[k] = a
          BY <2>2, <3>3
        <4>2. CASE Len(a) < c
          <5>1. Len(a) + 1 \in Len(a) + 1 .. c
            BY <4>2, <2>4, <1>1
          <5>2. PICK j \in n + 1 .. L : f[Len(a) + 1] = s[j] /\ s[j] \in T
            BY <5>1, <2>5
          <5>3. j # k /\ j \in 1 .. L /\ k < j
            BY <5>2, <2>1, <3>3, <1>1 DEF d, k
          <5>4. d.offset < s[j].offset /\ s[j].offset \in Nat
            BY <5>3, <2>1, <1>1, <1>6 DEF d
          <5>5. OffsetAt(u, count, past) = s[j].offset
            BY <4>2, <5>2, <3>1, <2>4, <1>7
          <5>6. V[k] = a
            BY <5>4, <5>5, <2>2, <2>3, <2>6
          <5> QED
            BY <4>1, <5>6 DEF k
        <4>3. CASE Len(a) = c
          <5>1. OffsetAt(u, count, past) = past
            BY <4>3, <3>1, <2>4, <1>7
          <5>2. a = f
            BY <4>3, <2>4, <2>5, <1>1, SameList DEF c
          <5>3. CASE d.offset = past
            <6>1. V[k] = Append(f, s[k]) /\ K[k] = f
              BY <5>1, <5>2, <5>3, <4>1, <2>2, <2>6 DEF d
            <6>2. StrayDie(u, past, k)
              <7>1. ASSUME NEW l \in 1 .. L, Listed(s[l]) PROVE l < k
                <8>1. s[l] \in T
                  BY <7>1, <1>1
                <8>2. l \notin n + 1 .. L
                  BY <8>1, <4>3, <2>5
                <8> QED
                  BY <8>2, <2>1, <1>1 DEF k
              <7>2. ~Listed(s[k]) /\ s[k].offset = past
                BY <5>3, <3>3, <2>3 DEF d
              <7> QED
                BY <7>1, <7>2, <2>1, <1>1 DEF StrayDie, s
            <6>3. k \in 1 .. k
              BY <2>1, <1>1
            <6> QED
              BY <6>1, <6>2, <6>3 DEF k
          <5>4. CASE d.offset # past
            <6>1. V[k] = K[k]
              BY <5>1, <5>4, <4>1, <2>2, <2>6
            <6> QED
              BY <6>1 DEF k
          <5> QED
            BY <5>3, <5>4
        <4> QED
          BY <4>2, <4>3, <2>4, <2>5, <1>1
      <3> QED
        BY <3>2, <3>3
    <2>7. ASSUME NEW j \in 1 .. n, StrayDie(u, past, j), a = f, V[n] = Append(f, s[j])
          PROVE  Good(k)
      <3>1. j \in 1 .. L /\ j < k
        BY <2>1, <2>7, <1>1 DEF k
      <3>2. d \notin T
        <4>1. \A l \in 1 .. L : Listed(s[l]) => l < j
          BY <2>7, <1>1 DEF StrayDie, s
        <4>2. ~Listed(s[k])
          BY <4>1, <3>1, <2>1
        <4> QED
          BY <4>2, <2>3 DEF d
      <3>3. count = c + 1
        <4>1. s[j] \in DieSet
          BY <1>1, <3>1
        <4> QED
          BY <4>1, <2>7, <1>1, AppendProperties DEF count, c
      <3>4. OffsetAt(u, count, past) = 0
        BY <3>3, <1>1, <1>7
      <3>5. d.offset # 0
        <4>1. s[j].offset < s[k].offset /\ s[j].offset \in Nat /\ s[k].offset \in Nat
          BY <3>1, <2>1, <1>1, <1>6
        <4> QED
          BY <4>1 DEF d
      <3>6. V[k] = Append(f, s[j]) /\ K[k] = f
        BY <3>2, <3>4, <3>5, <2>2, <2>7
      <3>7. j \in 1 .. k
        BY <3>1, <2>1, <1>1
      <3> QED
        BY <3>6, <3>7, <2>7
    <2> QED
      BY <2>1, <2>6, <2>7 DEF k, a
  <1>10. Nat \subseteq D
    <2> HIDE DEF D
    <2> QED
      BY <1>8, <1>9, NatSetInduction
  <1>11. Good(L)
    BY <1>1, <1>10
  <1> QED
    BY <1>1, <1>5, <1>11 DEF f, s

ScanInv == scan \in {Scan(p) : p \in Past}

(* What a scan of each unit yields.                                        *)
LEMMA ScanFacts ==
  ASSUME NEW past
  PROVE  /\ DOMAIN Scan(past) = DOMAIN Units /\ DOMAIN functionDies = DOMAIN Units
         /\ \A u \in DOMAIN Units :
               /\ functionDies[u] = ListedDies(Units[u])
               /\ \/ Scan(past)[u] = functionDies[u]
                  \/ /\ Reached(past)
                     /\ \E k \in DOMAIN Units[u].dies :
                           /\ ~Listed(Units[u].dies[k])
                           /\ Scan(past)[u] = Append(functionDies[u], Units[u].dies[k])
  <1>1. DOMAIN Scan(past) = DOMAIN Units /\ DOMAIN functionDies = DOMAIN Units
    BY DEF Scan, functionDies
  <1>2. ASSUME NEW u \in DOMAIN Units
        PROVE  /\ functionDies[u] = ListedDies(Units[u])
               /\ \/ Scan(past)[u] = functionDies[u]
                  \/ /\ Reached(past)
                     /\ \E k \in DOMAIN Units[u].dies :
                           /\ ~Listed(Units[u].dies[k])
                           /\ Scan(past)[u] = Append(functionDies[u], Units[u].dies[k])
    <2> DEFINE U == Units[u]
    <2>1. functionDies[u] = ListedDies(U)
      BY DEF functionDies
    <2>2. CASE functionDies[u] = <<>>
      <3>1. Scan(past)[u] = <<>>
        BY <2>2 DEF Scan
      <3> QED
        BY <2>1, <2>2, <3>1
    <2>3. CASE functionDies[u] # <<>>
      <3>1. Scan(past)[u] = Visited(U, past)
        BY <2>3 DEF Scan
      <3>2. /\ U.dies \in Seq(DieSet)
            /\ \A d, e \in DOMAIN U.dies : d < e => U.dies[d].offset < U.dies[e].offset
        BY UnitFacts, DwarfAssumption
      <3> HIDE DEF U
      <3>3. CASE Visited(U, past) = ListedDies(U)
        BY <2>1, <3>1, <3>3 DEF U
      <3>4. ASSUME NEW k \in DOMAIN U.dies, StrayDie(U, past, k),
                   Visited(U, past) = Append(ListedDies(U), U.dies[k])
            PROVE  /\ Reached(past) /\ ~Listed(U.dies[k])
                   /\ Scan(past)[u] = Append(functionDies[u], U.dies[k])
        <4>1. Reached(past)
          BY <2>3, <3>4 DEF Reached, StrayDie, U
        <4> QED
          BY <2>1, <3>1, <3>4, <4>1 DEF StrayDie
      <3> QED
        BY <2>1, <3>2, <3>3, <3>4, ScanOfUnit DEF U
    <2> QED
      BY <2>1, <2>2, <2>3
  <1> QED
    BY <1>1, <1>2

(* Whatever lies behind the offsets.                                       *)
LEMMA EveryScanIsExact == ScanInv => ScansAreExact
  <1> SUFFICES ASSUME NEW past \in Past, scan = Scan(past) PROVE ScansAreExact
    BY DEF ScanInv
  <1>1. \A u \in DOMAIN Units :
           \/ Scan(past)[u] = functionDies[u]
           \/ /\ Reached(past)
              /\ \E k \in DOMAIN Units[u].dies :
                    /\ ~Listed(Units[u].dies[k])
                    /\ Scan(past)[u] = Append(functionDies[u], Units[u].dies[k])
    BY ScanFacts
  <1>2. CASE \A u \in DOMAIN Units : Scan(past)[u] = functionDies[u]
    <2>1. functionDies = [u \in DOMAIN Units |-> functionDies[u]]
      BY DEF functionDies
    <2>2. Scan(past) = [u \in DOMAIN Units |-> Scan(past)[u]]
      BY DEF Scan
    <2>3. scan = functionDies
      BY <1>2, <2>1, <2>2
    <2> QED
      BY <2>3 DEF ScansAreExact
  <1>3. CASE \E u \in DOMAIN Units : Scan(past)[u] # functionDies[u]
    <2>1. Stray
      BY <1>1, <1>3 DEF Stray, StrayScans
    <2>2. ASSUME NEW u \in DOMAIN Units
          PROVE  Kept(scan[u], ListedOf(Units[u].dies)) = functionDies[u]
      <3> DEFINE U == Units[u]
                 f == functionDies[u]
                 T == ListedOf(U.dies)
                 s == scan[u]
      <3>1. U.dies \in Seq(DieSet) /\ f = ListedDies(U)
        BY UnitFacts, ScanFacts
      <3>2. /\ f \in Seq(DieSet) /\ Len(f) \in Nat
            /\ \A i \in 1 .. Len(f) : f[i] \in T
            /\ DOMAIN U.dies = 1 .. Len(U.dies)
            /\ \A k \in DOMAIN U.dies : U.dies[k] \in DieSet /\ (U.dies[k] \in T <=> Listed(U.dies[k]))
        BY <3>1, DieFacts DEF ListedOf
      <3>3. s = f \/ \E k \in DOMAIN U.dies : ~Listed(U.dies[k]) /\ s = Append(f, U.dies[k])
        BY <1>1
      <3> HIDE DEF U, f, T, s
      <3>4. CASE s = f
        <4>1. \A i \in Len(f) + 1 .. Len(s) : s[i] \notin T
          BY <3>2, <3>4
        <4>2. Len(f) <= Len(s)
          BY <3>2, <3>4
        <4>3. \A i \in 1 .. Len(f) : s[i] = f[i] /\ s[i] \in T
          BY <3>2, <3>4
        <4> QED
          BY <3>2, <3>4, <4>1, <4>2, <4>3, KeptOfListed DEF s, T, f, U
      <3>5. ASSUME NEW k \in DOMAIN U.dies, ~Listed(U.dies[k]), s = Append(f, U.dies[k])
            PROVE  Kept(s, T) = f
        <4> DEFINE d == U.dies[k]
        <4>1. d \in DieSet /\ d \notin T /\ s = Append(f, d)
          BY <3>2, <3>5
        <4> HIDE DEF d
        <4>2. s \in Seq(DieSet) /\ Len(s) = Len(f) + 1 /\ s[Len(f) + 1] = d
              /\ \A i \in 1 .. Len(f) : s[i] = f[i]
          BY <3>2, <4>1, AppendProperties
        <4>3. \A i \in Len(f) + 1 .. Len(s) : s[i] \notin T
          <5>1. \A i \in Len(f) + 1 .. Len(s) : i = Len(f) + 1
            BY <3>2, <4>2
          <5> QED
            BY <5>1, <4>1, <4>2
        <4>4. Len(f) <= Len(s) /\ \A i \in 1 .. Len(f) : s[i] = f[i] /\ s[i] \in T
          BY <3>2, <4>2
        <4> QED
          BY <3>2, <4>2, <4>3, <4>4, KeptOfListed
      <3> QED
        BY <3>3, <3>4, <3>5 DEF s, T, f, U
    <2> QED
      BY <2>1, <2>2 DEF ScansAreExact
  <1> QED
    BY <1>2, <1>3

(* The scan is the same all the time.                                      *)
LEMMA ScanInvStep == ScanInv /\ [Next]_lookingVars => ScanInv'
  <1> SUFFICES ASSUME [Next]_lookingVars PROVE scan' = scan
    BY DEF ScanInv
  <1>1. CASE ChildRuns \/ AddressSpaceChanges
    BY <1>1 DEF ChildRuns, AddressSpaceChanges
  <1>2. ASSUME NEW intact \in BOOLEAN, Start(intact) \/ ChildStops(intact) PROVE scan' = scan
    BY <1>2 DEF Start, ChildStops
  <1>3. CASE Resume \/ Meddle \/ PrintBacktrace
    BY <1>3 DEF Resume, Meddle, PrintBacktrace
  <1>4. CASE Walking \/ Done \/ UNCHANGED lookingVars
    BY <1>4 DEF Walking, NextFrame, LastFrame, Done, lookingVars
  <1>5. ASSUME NEW choice \in 0 .. 2, NEW name \in Names, AskFunction(name, choice) PROVE scan' = scan
    BY <1>5 DEF AskFunction
  <1>6. ASSUME NEW choice \in 0 .. 2, NEW l \in Lines, AskLine(l, choice) PROVE scan' = scan
    BY <1>6 DEF AskLine
  <1> QED
    BY <1>1, <1>2, <1>3, <1>4, <1>5, <1>6 DEF Next

(* It is one of those that the initial state allows.                       *)
LEMMA ScanIsOne == Spec => []ScanInv
  <1>1. Init => ScanInv
    BY DEF Init, ScanInv
  <1> QED
    BY <1>1, ScanInvStep, PTL DEF Spec

(* For all debug information, and all that may lie behind the offsets.     *)
THEOREM ScansStayExact == Spec => []ScansAreExact
  BY ScanIsOne, EveryScanIsExact, PTL

-----------------------------------------------------------------------------
(* What a backtrace prints.                                                *)

KnownFuncs == {""} \cup UNION {{d.name : d \in ToSet(Units[u].dies)} : u \in DOMAIN Units}
FrameSet == [func : KnownFuncs, pc : Int]
FramesInv == frames \in Seq(FrameSet) /\ Len(frames) <= MaxFrames

(* A scan of a unit takes dies of the unit.                                *)
LEMMA ScanIsOfDies ==
  ASSUME ScanInv
  PROVE  /\ DOMAIN scan = DOMAIN Units
         /\ \A u \in DOMAIN Units :
               /\ scan[u] \in Seq(DieSet) /\ DOMAIN scan[u] = 1 .. Len(scan[u])
               /\ Len(scan[u]) \in Nat
               /\ \A i \in DOMAIN scan[u] : scan[u][i] \in ToSet(Units[u].dies)
  <1>1. PICK past \in Past : scan = Scan(past)
    BY DEF ScanInv
  <1>2. ASSUME NEW u \in DOMAIN Units
        PROVE  /\ scan[u] \in Seq(DieSet) /\ DOMAIN scan[u] = 1 .. Len(scan[u])
               /\ Len(scan[u]) \in Nat
               /\ \A i \in DOMAIN scan[u] : scan[u][i] \in ToSet(Units[u].dies)
    <2> DEFINE U == Units[u]
               f == ListedDies(U)
               s == scan[u]
    <2>1. U.dies \in Seq(DieSet)
      BY UnitFacts
    <2>2. s = f \/ \E k \in DOMAIN U.dies : s = Append(f, U.dies[k])
      BY <1>1, ScanFacts
    <2> HIDE DEF U
    <2>3. /\ f \in Seq(DieSet) /\ Len(f) \in Nat /\ \A i \in 1 .. Len(f) : f[i] \in ToSet(U.dies)
          /\ DOMAIN U.dies = 1 .. Len(U.dies)
          /\ \A k \in DOMAIN U.dies : U.dies[k] \in DieSet /\ U.dies[k] \in ToSet(U.dies)
      BY <2>1, DieFacts DEF ToSet
    <2> HIDE DEF f, s
    <2>4. CASE s = f
      BY <2>3, <2>4, LenProperties DEF s, U
    <2>5. ASSUME NEW k \in DOMAIN U.dies, s = Append(f, U.dies[k])
          PROVE  /\ s \in Seq(DieSet) /\ DOMAIN s = 1 .. Len(s) /\ Len(s) \in Nat
                 /\ \A i \in DOMAIN s : s[i] \in ToSet(U.dies)
      <3> DEFINE d == U.dies[k]
      <3>1. d \in DieSet /\ d \in ToSet(U.dies) /\ s = Append(f, d)
        BY <2>3, <2>5
      <3> HIDE DEF d
      <3>2. s \in Seq(DieSet) /\ Len(s) = Len(f) + 1 /\ s[Len(f) + 1] = d
            /\ \A i \in 1 .. Len(f) : s[i] = f[i]
        BY <2>3, <3>1, AppendProperties
      <3>3. DOMAIN s = 1 .. Len(s) /\ Len(s) \in Nat
        BY <3>2, LenProperties
      <3>4. \A i \in 1 .. Len(f) + 1 : i \in 1 .. Len(f) \/ i = Len(f) + 1
        BY <2>3
      <3> QED
        BY <2>3, <3>1, <3>2, <3>3, <3>4
    <2> QED
      BY <2>2, <2>4, <2>5 DEF s, U
  <1> QED
    BY <1>1, <1>2, ScanFacts

(* A backtrace names no function but those of some unit.                   *)
LEMMA FunctionAtKnown ==
  ASSUME ScanInv, NEW addr, FunctionAt(addr, scan) # "throws"
  PROVE  FunctionAt(addr, scan) \in KnownFuncs
  <1> DEFINE Hits(u) == {k \in DOMAIN scan[u] : scan[u][k].pc = "none" \/ In(addr, scan[u][k])}
             Hit(u) == scan[u][Min(Hits(u))]
             F == FunctionsAt(addr, scan)
  <1>1. F = {ShownName(Hit(u)) :
                u \in {v \in DOMAIN Units : In(addr, Units[v]) /\ Hits(v) # {}}}
    BY DEF FunctionsAt
  <1>2. ASSUME NEW u \in DOMAIN Units, Hits(u) # {} PROVE Hit(u).name \in KnownFuncs
    <2>1. Hits(u) \subseteq Nat /\ Hits(u) \subseteq DOMAIN scan[u]
      BY ScanIsOfDies
    <2>2. Min(Hits(u)) \in Hits(u)
      <3> HIDE DEF Hits
      <3> QED
        BY <1>2, <2>1, MinFacts
    <2>3. Hit(u) \in ToSet(Units[u].dies)
      <3> HIDE DEF Hits
      <3> QED
        BY <2>1, <2>2, ScanIsOfDies
    <2> HIDE DEF Hit
    <2>4. ASSUME NEW d \in ToSet(Units[u].dies) PROVE d.name \in KnownFuncs
      <3>1. d.name \in {e.name : e \in ToSet(Units[u].dies)}
        OBVIOUS
      <3> QED
        BY <3>1 DEF KnownFuncs
    <2> QED
      BY <2>3, <2>4
  <1> HIDE DEF Hits, Hit, F
  <1>3. \A f \in F : f = "throws" \/ f \in KnownFuncs
    BY <1>1, <1>2 DEF ShownName
  <1>4. FunctionAt(addr, scan) = IF F = {} THEN "" ELSE CHOOSE f \in F : TRUE
    BY DEF FunctionAt, F
  <1>5. "" \in KnownFuncs
    BY DEF KnownFuncs
  <1> QED
    BY <1>3, <1>4, <1>5

(* One frame more, up to the bound.                                        *)
LEMMA PrintFrameTyped ==
  ASSUME FramesInv, ScanInv, NEW addr \in Int, PrintFrame(addr)
  PROVE  FramesInv'
  <1> DEFINE func == FunctionAt(Offset(addr), scan)
             frame == [func |-> func, pc |-> addr]
  <1>1. MaxFrames \in Nat /\ Len(frames) \in Nat
    BY BacktraceAssumption, LenProperties DEF FramesInv
  <1>2. frames' = frames \/ (func # "throws" /\ Len(frames) < MaxFrames /\ frames' = Append(frames, frame))
    BY DEF PrintFrame
  <1>3. func # "throws" => frame \in FrameSet
    BY FunctionAtKnown DEF FrameSet
  <1> HIDE DEF func, frame
  <1>4. CASE frames' = frames
    BY <1>4 DEF FramesInv
  <1>5. CASE frames' # frames
    <2>1. frame \in FrameSet /\ Len(frames) < MaxFrames /\ frames' = Append(frames, frame)
          /\ frames \in Seq(FrameSet)
      BY <1>2, <1>3, <1>5 DEF FramesInv
    <2>2. frames' \in Seq(FrameSet) /\ Len(frames') = Len(frames) + 1
      BY <2>1, AppendProperties
    <2> QED
      BY <1>1, <2>1, <2>2 DEF FramesInv
  <1> QED
    BY <1>4, <1>5

(* Every step.                                                             *)
LEMMA FramesInvStep == StackInv /\ ScanInv /\ FramesInv /\ [Next]_lookingVars => FramesInv'
  <1> SUFFICES ASSUME StackInv, ScanInv, FramesInv, [Next]_lookingVars PROVE FramesInv'
    OBVIOUS
  <1>1. frames' = frames => FramesInv'
    BY DEF FramesInv
  <1>2. frames' = <<>> => FramesInv'
    BY BacktraceAssumption DEF FramesInv
  <1>3. CASE ChildRuns \/ AddressSpaceChanges
    BY <1>1, <1>3 DEF ChildRuns, AddressSpaceChanges, lookVars
  <1>4. ASSUME NEW intact \in BOOLEAN, Start(intact) \/ ChildStops(intact) PROVE FramesInv'
    BY <1>1, <1>4 DEF Start, ChildStops
  <1>5. CASE Resume \/ Meddle
    BY <1>2, <1>5 DEF Resume, Meddle
  <1>6. CASE PrintBacktrace
    <2>1. pc \in Int
      BY DEF StackInv
    <2> QED
      BY <1>6, <2>1, PrintFrameTyped DEF PrintBacktrace
  <1>7. CASE NextFrame
    <2>1. Peek(fp + Align) \in Int
      <3>1. word \in [DOMAIN Data \cup StackWords -> Int]
        BY DEF StackInv
      <3> QED
        BY <3>1 DEF Peek
    <2>2. Peek(fp + Align) - 1 \in Int
      BY <2>1
    <2>3. UNCHANGED frames \/ PrintFrame(Peek(fp + Align) - 1)
      BY <1>7 DEF NextFrame
    <2> QED
      BY <1>1, <2>2, <2>3, PrintFrameTyped
  <1>8. CASE LastFrame \/ Done \/ UNCHANGED lookingVars
    BY <1>1, <1>8 DEF LastFrame, Done, lookingVars, lookVars
  <1>9. ASSUME NEW choice \in 0 .. 2, NEW name \in Names, AskFunction(name, choice) PROVE FramesInv'
    BY <1>2, <1>9 DEF AskFunction, Ask
  <1>10. ASSUME NEW choice \in 0 .. 2, NEW l \in Lines, AskLine(l, choice) PROVE FramesInv'
    BY <1>2, <1>10 DEF AskLine, Ask
  <1> QED
    BY <1>3, <1>4, <1>5, <1>6, <1>7, <1>8, <1>9, <1>10 DEF Next, Walking

(* In every reachable state.                                               *)
LEMMA FramesAreTyped == Spec => []FramesInv
  <1>1. Init => FramesInv
    BY BacktraceAssumption DEF Init, FramesInv
  <1> QED
    BY <1>1, FramesInvStep, StackIsKept, ScanIsOne, PTL DEF Spec

(* The state stays in its type; the chunks stay in order.                  *)
THEOREM InspectionTypeOK == Spec => []TypeOK
  <1>1. StackInv /\ ChunksInv /\ FramesInv => TypeOK
    <2> SUFFICES ASSUME StackInv, ChunksInv, FramesInv PROVE TypeOK
      OBVIOUS
    <2>1. InOrder(chunks) /\ \A i \in DOMAIN chunks : chunks[i].path \in Paths
      BY DEF ChunksInv, ChunksOK
    <2>2. rsp \in StackLimit .. StackTop /\ rsp % Align = 0
      <3>1. PICK sp : CallsTyped(calls) /\ Shape(calls, rsp, sp)
        BY DEF StackInv
      <3> QED
        BY <3>1, ShapeFacts
    <2>3. calls # <<>> /\ \A i \in DOMAIN calls : calls[i].func \in DOMAIN Funcs
      <3>1. /\ Len(calls) > 0 /\ DOMAIN calls = 1 .. Len(calls)
            /\ \A i \in 1 .. Len(calls) : calls[i] \in Activation
        BY StackFacts DEF StackInv
      <3>2. calls # <<>>
        BY <3>1
      <3> QED
        BY <3>1, <3>2 DEF Activation
    <2>4. at \in {"start", "running", "prompt", "walk", "done", "aborted"}
      BY DEF ChunksInv
    <2>5. Len(frames) <= MaxFrames
      BY DEF FramesInv
    <2>6. ASSUME NEW i \in DOMAIN frames
          PROVE  frames[i].func = "" \/
                    \E u \in DOMAIN Units : \E d \in ToSet(Units[u].dies) : frames[i].func = d.name
      <3>1. frames[i] \in FrameSet
        BY LenProperties, ElementOfSeq DEF FramesInv
      <3>2. frames[i].func \in KnownFuncs
        BY <3>1 DEF FrameSet
      <3> QED
        BY <3>2 DEF KnownFuncs
    <2> QED
      BY <2>1, <2>2, <2>3, <2>4, <2>5, <2>6 DEF TypeOK
  <1> QED
    BY <1>1, StackIsKept, ChunksAreRead, FramesAreTyped, PTL

-----------------------------------------------------------------------------
(* The walk from frame to frame.                                           *)

(* A frame pointer is that of the next activation which has set one up, or *)
(* that of none.                                                           *)
LeadsTo(cs, sp, b, j) ==
    \/ b = 1 /\ \A i \in j .. Len(cs) - 1 : cs[i].phase # "framed"
    \/ \E m \in j .. Len(cs) - 1 :
          /\ cs[m].phase = "framed" /\ b = sp[m] - Align
          /\ \A i \in j .. m - 1 : cs[i].phase # "framed"

(* So it is for every activation, when none used rbp for something else.   *)
LEMMA FramePointers ==
  ASSUME NEW cs, CallsTyped(cs), NEW w, NEW b, NEW sp, NEW bp, Chain(cs, w, b, sp, bp),
         \A i \in 1 .. Len(cs) : cs[i].phase # "scratch"
  PROVE  \A j \in 1 .. Len(cs) : LeadsTo(cs, sp, bp[j], j)
  <1> DEFINE n == Len(cs)
             D == {k \in Nat : k < n => LeadsTo(cs, sp, bp[n - k], n - k)}
  <1>1. /\ n \in Nat /\ n > 0
        /\ \A i \in 1 .. n : cs[i].phase \in {"entered", "pushed", "framed", "left"}
    <2>1. n \in Nat /\ n > 0 /\ \A i \in 1 .. n : cs[i] \in Activation
      BY StackFacts
    <2> QED
      BY <2>1 DEF Activation, Phases
  <1>2. /\ bp[n] = 1
        /\ \A i \in 1 .. n - 1 :
              /\ cs[i].phase = "framed" => bp[i] = sp[i] - Align
              /\ cs[i].phase \in {"entered", "pushed", "left"} => bp[i] = bp[i + 1]
    BY DEF Chain
  <1>3. 0 \in D
    <2>1. n - 0 = n /\ \A i \in n .. n - 1 : cs[i].phase # "framed"
      BY <1>1
    <2> QED
      BY <2>1, <1>2 DEF LeadsTo
  <1>4. ASSUME NEW k \in Nat, k \in D PROVE k + 1 \in D
    <2> SUFFICES ASSUME k + 1 < n PROVE LeadsTo(cs, sp, bp[n - (k + 1)], n - (k + 1))
      OBVIOUS
    <2> DEFINE j == n - (k + 1)
    <2>1. j \in 1 .. n - 1 /\ j + 1 = n - k /\ j \in 1 .. n /\ k < n
      BY <1>1
    <2>2. LeadsTo(cs, sp, bp[j + 1], j + 1)
      BY <1>4, <2>1
    <2> HIDE DEF j, n
    <2>3. CASE cs[j].phase = "framed"
      <3>1. j \in j .. n - 1 /\ \A i \in j .. j - 1 : cs[i].phase # "framed"
        BY <2>1, <1>1
      <3> QED
        BY <3>1, <2>1, <2>3, <1>2 DEF LeadsTo, j, n
    <2>4. CASE cs[j].phase # "framed"
      <3>1. bp[j] = bp[j + 1]
        BY <2>1, <2>4, <1>1, <1>2
      <3>2. \A i \in j .. n - 1 : i = j \/ i \in j + 1 .. n - 1
        BY <2>1, <1>1
      <3>3. CASE bp[j + 1] = 1 /\ \A i \in j + 1 .. n - 1 : cs[i].phase # "framed"
        BY <3>1, <3>2, <3>3, <2>4 DEF LeadsTo, j, n
      <3>4. ASSUME NEW m \in j + 1 .. n - 1, cs[m].phase = "framed", bp[j + 1] = sp[m] - Align,
                   \A i \in j + 1 .. m - 1 : cs[i].phase # "framed"
            PROVE  LeadsTo(cs, sp, bp[j], j)
        <4>1. m \in j .. n - 1 /\ \A i \in j .. m - 1 : i = j \/ i \in j + 1 .. m - 1
          BY <2>1, <1>1
        <4> QED
          BY <4>1, <3>1, <3>4, <2>4 DEF LeadsTo, n
      <3> QED
        BY <3>3, <3>4, <2>2 DEF LeadsTo, j, n
    <2> QED
      BY <2>3, <2>4 DEF j
  <1>5. Nat \subseteq D
    <2> HIDE DEF D
    <2> QED
      BY <1>3, <1>4, NatSetInduction
  <1>6. ASSUME NEW j \in 1 .. n PROVE LeadsTo(cs, sp, bp[j], j)
    <2>1. n - j \in Nat /\ n - j < n /\ n - (n - j) = j
      BY <1>1
    <2>2. n - j \in D
      <3> HIDE DEF D
      <3> QED
        BY <2>1, <1>5
    <2> QED
      BY <2>1, <2>2
  <1> QED
    BY <1>6

(* The chunk of an address is that of the mapping which covers it.         *)
LEMMA ChunkOfAddress ==
  ASSUME NEW r \in Int, MapsOK(maps, r), NEW intact \in BOOLEAN, ReadFrom(chunks, maps, intact),
         NEW s \in DOMAIN maps, NEW addr \in Int, Covers(maps[s], addr)
  PROVE  ChunkAt(addr) # 0 /\ chunks[ChunkAt(addr)].perms = maps[s].perms
  <1> DEFINE n == Len(maps)
             C == {i \in 1 .. Len(chunks) : Covers(chunks[i], addr)}
  <1>1. /\ n \in Nat /\ Len(chunks) = n /\ s \in 1 .. n
        /\ \A i \in 1 .. n :
              chunks[i].low = maps[i].low /\ chunks[i].high = maps[i].high /\ chunks[i].perms = maps[i].perms
    BY ReadFacts, MapsFacts
  <1>2. /\ \A i \in 1 .. n : maps[i].low \in Int /\ maps[i].high \in Int
        /\ \A i, j \in 1 .. n : j < i => maps[j].high <= maps[i].low
    BY MapsFacts
  <1> HIDE DEF n
  <1>3. C \subseteq Nat /\ C \subseteq 1 .. n /\ s \in C
    BY <1>1 DEF Covers
  <1>4. ASSUME NEW i \in C PROVE i = s
    <2>1. Covers(maps[i], addr) /\ i \in 1 .. n
      BY <1>1, <1>3 DEF Covers
    <2>2. maps[i].low <= addr /\ addr < maps[i].high /\ maps[s].low <= addr /\ addr < maps[s].high
      BY <2>1 DEF Covers
    <2>3. /\ maps[i].low \in Int /\ maps[i].high \in Int /\ maps[s].low \in Int /\ maps[s].high \in Int
          /\ i < s => maps[i].high <= maps[s].low
          /\ s < i => maps[s].high <= maps[i].low
      BY <1>1, <1>2, <2>1
    <2> QED
      BY <1>1, <2>1, <2>2, <2>3
  <1>5. ChunkAt(addr) = IF C # {} THEN Min(C) ELSE 0
    BY DEF ChunkAt, SelectInSeq
  <1> HIDE DEF C
  <1>6. Min(C) \in C
    BY <1>3, MinFacts
  <1>7. ChunkAt(addr) = s
    BY <1>3, <1>4, <1>5, <1>6
  <1> QED
    BY <1>1, <1>7

(* A frame that is set up can be read.                                     *)
LEMMA FrameIsReadable ==
  ASSUME StackInv, MapsOK(maps, rsp), NEW intact \in BOOLEAN, ReadFrom(chunks, maps, intact),
         NEW sp, Shape(calls, rsp, sp), NEW m \in 1 .. Len(calls) - 1, calls[m].phase = "framed"
  PROVE  /\ sp[m] \in Int /\ sp[m] - Align \in DOMAIN word /\ sp[m] \in DOMAIN word
         /\ sp[m] - Align > 0 /\ sp[m] - Align + Align = sp[m]
         /\ IsValidFramePointer(sp[m] - Align)
         /\ \E i \in DOMAIN maps : Covers(maps[i], sp[m] - Align)
         /\ \E i \in DOMAIN maps : Covers(maps[i], sp[m])
  <1> DEFINE p == sp[m] - Align
             q == sp[m]
  <1>1. /\ CallsTyped(calls) /\ rsp \in Int /\ word \in [DOMAIN Data \cup StackWords -> Int]
    BY DEF StackInv
  <1>2. /\ Align \in Nat /\ Align > 1 /\ StackTop \in Nat /\ StackLimit \in Nat /\ StackLimit > 0
        /\ Len(calls) \in Nat
    BY <1>1, StackFacts, StackAssumption
  <1>3. m \in 1 .. Len(calls) /\ Holds(calls[m])
    BY <1>2 DEF Holds
  <1>4. /\ q \in Int /\ q \in StackWords /\ p \in StackWords /\ p = Bottom(calls, sp, m) /\ rsp <= p
    BY <1>1, <1>3, ShapeFacts
  <1>5. /\ q \in Int /\ p \in Int /\ p + Align = q /\ rsp <= p /\ rsp <= q
        /\ p >= StackLimit /\ p < StackTop /\ q < StackTop /\ p % Align = 0
    <2>1. q \in Int /\ p \in Int /\ p + Align = q /\ p <= q
      BY <1>2, <1>4
    <2> HIDE DEF p, q
    <2>2. p >= StackLimit /\ p < StackTop /\ p % Align = 0 /\ q < StackTop
      BY <1>2, <1>4 DEF StackWords
    <2> QED
      BY <2>1, <2>2, <1>1, <1>4
  <1> HIDE DEF p, q
  <1>6. p \in DOMAIN word /\ q \in DOMAIN word
    BY <1>1, <1>4
  <1>7. PICK s \in DOMAIN maps : IsStack(maps[s]) /\ maps[s].low <= rsp
    BY DEF MapsOK
  <1>8. maps[s].low \in Int /\ maps[s].high = StackTop /\ "r" \in maps[s].perms
    BY <1>1, <1>7, MapsFacts DEF IsStack
  <1>9. Covers(maps[s], p) /\ Covers(maps[s], q)
    BY <1>1, <1>2, <1>5, <1>7, <1>8 DEF Covers
  <1>10. CanRead(p)
    BY <1>1, <1>5, <1>8, <1>9, ChunkOfAddress DEF CanRead
  <1>11. p > 0 /\ IsValidFramePointer(p)
    BY <1>2, <1>5, <1>10 DEF IsValidFramePointer
  <1> QED
    BY <1>5, <1>6, <1>7, <1>9, <1>11 DEF p, q

(* Without a stray die: what a scan makes of an address.                   *)
LEMMA ListedFacts ==
  ASSUME NEW u \in DOMAIN Units
  PROVE  /\ DOMAIN functionDies = DOMAIN Units
         /\ functionDies[u] \in Seq(DieSet) /\ DOMAIN functionDies[u] \subseteq Nat
         /\ \A k \in DOMAIN functionDies[u] :
               /\ functionDies[u][k] \in DieSet /\ functionDies[u][k] \in ToSet(functionDies[u])
               /\ functionDies[u][k] \in ToSet(Units[u].dies)
               /\ Listed(functionDies[u][k])
         /\ \A d \in ToSet(functionDies[u]) :
               d \in DieSet /\ \E k \in DOMAIN functionDies[u] : functionDies[u][k] = d
  <1> DEFINE f == functionDies[u]
  <1>1. DOMAIN functionDies = DOMAIN Units /\ f = ListedDies(Units[u])
    BY ScanFacts
  <1>2. Units[u].dies \in Seq(DieSet)
    BY UnitFacts
  <1>3. /\ f \in Seq(DieSet) /\ Len(f) \in Nat /\ DOMAIN f = 1 .. Len(f)
        /\ \A i \in 1 .. Len(f) : f[i] \in ToSet(Units[u].dies) /\ Listed(f[i])
    BY <1>1, <1>2, DieFacts, LenProperties
  <1> HIDE DEF f
  <1>4. \A k \in DOMAIN f : f[k] \in DieSet
    BY <1>3, ElementOfSeq
  <1>5. DOMAIN f \subseteq Nat
    BY <1>3
  <1> QED
    BY <1>1, <1>3, <1>4, <1>5 DEF f, ToSet

(* A backtrace that meets listed dies only has a name, or none, for every  *)
(* address but those in a function described by DW_AT_ranges only.         *)
LEMMA ListedHits ==
  ASSUME scan = functionDies, NEW addr
  PROVE  /\ FunctionAt(addr, scan) = "throws" => SplitAt(addr)
         /\ \A f \in FunctionsAt(addr, scan) : f = "throws" \/
               \E u \in DOMAIN Units : \E d \in ToSet(functionDies[u]) : In(addr, d) /\ d.name = f
         /\ FunctionsAt(addr, scan) = {} => FunctionAt(addr, scan) = ""
         /\ FunctionsAt(addr, scan) # {} => FunctionAt(addr, scan) \in FunctionsAt(addr, scan)
         /\ \A u \in DOMAIN Units : \A d \in ToSet(functionDies[u]) :
               In(addr, Units[u]) /\ In(addr, d) => FunctionsAt(addr, scan) # {}
  <1> DEFINE Hits(u) == {k \in DOMAIN scan[u] : scan[u][k].pc = "none" \/ In(addr, scan[u][k])}
             Hit(u) == scan[u][Min(Hits(u))]
             F == FunctionsAt(addr, scan)
  <1>1. F = {ShownName(Hit(u)) :
                u \in {v \in DOMAIN Units : In(addr, Units[v]) /\ Hits(v) # {}}}
    BY DEF FunctionsAt
  <1>2. ASSUME NEW u \in DOMAIN Units, Hits(u) # {}
        PROVE  /\ Hit(u) \in ToSet(functionDies[u]) /\ In(addr, Hit(u))
               /\ ShownName(Hit(u)) = Hit(u).name \/ ShownName(Hit(u)) = "throws"
               /\ ShownName(Hit(u)) = "throws" => Hit(u).pc = "ranges"
    <2>1. Hits(u) \subseteq Nat /\ Hits(u) \subseteq DOMAIN functionDies[u]
      BY ListedFacts
    <2>2. Min(Hits(u)) \in Hits(u)
      <3> HIDE DEF Hits
      <3> QED
        BY <1>2, <2>1, MinFacts
    <2> DEFINE k == Min(Hits(u))
    <2>3. k \in DOMAIN functionDies[u] /\ (scan[u][k].pc = "none" \/ In(addr, scan[u][k]))
          /\ Hit(u) = functionDies[u][k]
      <3> HIDE DEF k
      <3>1. k \in Hits(u)
        BY <2>2 DEF k
      <3> QED
        BY <3>1, <2>1 DEF k
    <2> HIDE DEF Hit, Hits, k
    <2>4. /\ Hit(u) \in DieSet /\ Hit(u) \in ToSet(functionDies[u]) /\ Listed(Hit(u))
      BY <2>3, ListedFacts
    <2>5. /\ Hit(u).pc \in {"low", "ranges"} /\ Hit(u).name # "" /\ Hit(u).name # "throws"
      BY <2>4 DEF Listed, DieSet
    <2> QED
      BY <2>3, <2>4, <2>5 DEF ShownName
  <1>3. ASSUME NEW u \in DOMAIN Units, NEW d \in ToSet(functionDies[u]), In(addr, Units[u]), In(addr, d)
        PROVE  F # {}
    <2>1. PICK k \in DOMAIN functionDies[u] : functionDies[u][k] = d
      BY ListedFacts
    <2>2. k \in Hits(u)
      BY <1>3, <2>1
    <2> HIDE DEF Hits, Hit
    <2>3. ShownName(Hit(u)) \in F
      BY <1>1, <1>3, <2>2
    <2> QED
      BY <2>3
  <1> HIDE DEF Hits, Hit
  <1>4. \A f \in F : f = "throws" \/
           \E u \in DOMAIN Units : \E d \in ToSet(functionDies[u]) : In(addr, d) /\ d.name = f
    BY <1>1, <1>2
  <1>7. "throws" \in F => SplitAt(addr)
    BY <1>1, <1>2 DEF SplitAt
  <1>5. FunctionAt(addr, scan) = IF F = {} THEN "" ELSE CHOOSE f \in F : TRUE
    BY DEF FunctionAt
  <1> HIDE DEF F
  <1>6. F # {} => FunctionAt(addr, scan) \in F
    BY <1>5
  <1>8. "" # "throws"
    OBVIOUS
  <1> QED
    BY <1>3, <1>4, <1>5, <1>6, <1>7, <1>8 DEF F

(* An address in a function has the name of the function, if any is shown. *)
LEMMA FunctionIsNamed ==
  ASSUME scan = functionDies, DescribesCode, DescribesFuncs, loadAddress = Base, Base \in Int,
         NEW f \in DOMAIN Funcs, NEW addr \in Int, Funcs[f].low <= addr, addr < Funcs[f].high,
         FunctionAt(Offset(addr), scan) # "throws"
  PROVE  FunctionAt(Offset(addr), scan) = NameOf(f)
  <1> DEFINE o == Offset(addr)
             F == FunctionsAt(o, scan)
  <1>1. o = addr - Base /\ o \in Int /\ Funcs[f].low \in Int /\ Funcs[f].high \in Int
    BY FunctionFacts DEF Offset
  <1>2. \A u \in DOMAIN Units : \A d \in ToSet(functionDies[u]) :
           d.low \in Int /\ d.high \in Int /\ Units[u].low \in Int /\ Units[u].high \in Int
    <2>1. \A u \in DOMAIN Units : Units[u].low \in Int /\ Units[u].high \in Int
      BY UnitFacts DEF UnitSet
    <2>2. ASSUME NEW u \in DOMAIN Units, NEW d \in ToSet(functionDies[u])
          PROVE  d.low \in Int /\ d.high \in Int
      <3>1. d \in DieSet
        BY ListedFacts
      <3> QED
        BY <3>1 DEF DieSet
    <2> QED
      BY <2>1, <2>2
  <1>7. FunctionAt(o, scan) # "throws"
    OBVIOUS
  <1> HIDE DEF o
  <1>3. ASSUME NEW u \in DOMAIN Units, NEW d \in ToSet(functionDies[u]), In(o, d)
        PROVE  d.name = Funcs[f].name
    <2>1. d.low <= o /\ o < d.high
      BY <1>3 DEF In
    <2>2. \/ Describes(d, Funcs[f]) \/ d.high + Base <= Funcs[f].low \/ Funcs[f].high <= d.low + Base
      BY DEF DescribesFuncs
    <2>3. d.low \in Int /\ d.high \in Int
      BY <1>2
    <2>4. ~(d.high + Base <= Funcs[f].low) /\ ~(Funcs[f].high <= d.low + Base)
      BY <1>1, <2>1, <2>3
    <2> QED
      BY <2>2, <2>4 DEF Describes
  <1>4. ASSUME NEW u \in DOMAIN Units, NEW d \in ToSet(functionDies[u]), d.name = Funcs[f].name
        PROVE  F # {}
    <2>1. PICK v \in DOMAIN Units : \E e \in ToSet(functionDies[v]) : Describes(e, Funcs[f])
      BY <1>4 DEF DescribesFuncs
    <2>2. PICK e \in ToSet(functionDies[v]) : Describes(e, Funcs[f])
      BY <2>1
    <2>3. e.low + Base = Funcs[f].low /\ e.high + Base = Funcs[f].high
          /\ Units[v].low <= e.low /\ e.high <= Units[v].high
      BY <2>2 DEF Describes, DescribesCode
    <2>4. e.low \in Int /\ e.high \in Int /\ Units[v].low \in Int /\ Units[v].high \in Int
      BY <1>2
    <2>5. e.low <= o /\ o < e.high /\ Units[v].low <= o /\ o < Units[v].high
      BY <1>1, <2>3, <2>4
    <2>6. In(o, e) /\ In(o, Units[v])
      BY <2>5 DEF In
    <2> QED
      BY <2>6, ListedHits
  <1>5. CASE F = {}
    <2>1. FunctionAt(o, scan) = ""
      BY <1>5, ListedHits
    <2>2. NameOf(f) = ""
      BY <1>4, <1>5 DEF NameOf
    <2> QED
      BY <2>1, <2>2 DEF o
  <1>6. CASE F # {}
    <2>1. FunctionAt(o, scan) \in F
      BY <1>6, ListedHits
    <2>2. PICK u \in DOMAIN Units :
             \E d \in ToSet(functionDies[u]) : In(o, d) /\ d.name = FunctionAt(o, scan)
      BY <2>1, <1>7, ListedHits
    <2>5. PICK d \in ToSet(functionDies[u]) : In(o, d) /\ d.name = FunctionAt(o, scan)
      BY <2>2
    <2>3. d.name = Funcs[f].name
      BY <1>3, <2>5
    <2>4. NameOf(f) = Funcs[f].name
      BY <2>3 DEF NameOf
    <2> QED
      BY <2>5, <2>3, <2>4 DEF o
  <1> QED
    BY <1>5, <1>6

-----------------------------------------------------------------------------
(* The activations whose frames the walk meets, up to the k-th of them.    *)
Steps(cs) == [i \in DOMAIN cs |-> i]
HasFrame(cs) == {i \in DOMAIN cs : i < Len(cs) /\ cs[i].phase = "framed"}
UpTo(cs, k) == KeptOfFirst(Steps(cs), HasFrame(cs))[k]

(* One more activation adds itself, if it has a frame.                     *)
LEMMA UpToFacts ==
  ASSUME NEW cs, CallsTyped(cs)
  PROVE  /\ UpTo(cs, 0) = <<>>
         /\ \A k \in 0 .. Len(cs) : UpTo(cs, k) \in Seq(Nat) /\ Len(UpTo(cs, k)) \in Nat
         /\ \A m \in HasFrame(cs) : UpTo(cs, m) = Append(UpTo(cs, m - 1), m)
  <1> DEFINE n == Len(cs)
             s == Steps(cs)
             T == HasFrame(cs)
  <1>1. n \in Nat /\ n > 0 /\ DOMAIN cs = 1 .. n
    BY StackFacts
  <1>2. s \in Seq(Nat) /\ Len(s) = n /\ \A i \in 1 .. n : s[i] = i
    <2>1. s \in [1 .. n -> Nat] /\ \A i \in 1 .. n : s[i] = i
      BY <1>1 DEF Steps
    <2> HIDE DEF s, n
    <2> QED
      BY <1>1, <2>1, FunctionIsSeq
  <1>3. T \subseteq 1 .. n
    BY <1>1 DEF HasFrame
  <1> HIDE DEF n, s, T
  <1>4. KeptOfFirst(s, T)[0] = <<>>
    BY <1>2, KeptOfFirstDef
  <1>5. \A k \in 0 .. n : KeptOfFirst(s, T)[k] \in Seq(Nat) /\ Len(KeptOfFirst(s, T)[k]) \in Nat
    BY <1>2, KeptElements
  <1>6. ASSUME NEW m \in T PROVE KeptOfFirst(s, T)[m] = Append(KeptOfFirst(s, T)[m - 1], m)
    <2>1. m \in 1 .. Len(s) /\ s[m] = m /\ s[m] \in T
      BY <1>2, <1>3
    <2>2. KeptOfFirst(s, T)[m] = IF s[m] \in T THEN Append(KeptOfFirst(s, T)[m - 1], s[m])
                                ELSE KeptOfFirst(s, T)[m - 1]
      BY <1>2, <2>1, KeptOfFirstDef
    <2> DEFINE before == KeptOfFirst(s, T)[m - 1]
               now == KeptOfFirst(s, T)[m]
    <2>3. now = IF s[m] \in T THEN Append(before, s[m]) ELSE before
      BY <2>2
    <2> HIDE DEF before, now
    <2>4. now = Append(before, m)
      BY <2>1, <2>3
    <2> QED
      BY <2>4 DEF before, now
  <1> QED
    BY <1>4, <1>5, <1>6 DEF UpTo, n, s, T

(* Those without a frame add nothing.                                      *)
LEMMA UpToSame ==
  ASSUME NEW cs, CallsTyped(cs), NEW k \in 0 .. Len(cs), NEW m \in k .. Len(cs),
         \A i \in k + 1 .. m : i \notin HasFrame(cs)
  PROVE  UpTo(cs, m) = UpTo(cs, k)
  <1> DEFINE n == Len(cs)
             s == Steps(cs)
             T == HasFrame(cs)
             a == UpTo(cs, k)
             b == UpTo(cs, m)
  <1>1. n \in Nat /\ n > 0 /\ DOMAIN cs = 1 .. n /\ k \in 0 .. n /\ m \in k .. n /\ m \in 0 .. n
    BY StackFacts
  <1>2. s \in Seq(Nat) /\ Len(s) = n /\ \A i \in 1 .. n : s[i] = i
    <2>1. s \in [1 .. n -> Nat] /\ \A i \in 1 .. n : s[i] = i
      BY <1>1 DEF Steps
    <2> HIDE DEF s, n
    <2> QED
      BY <1>1, <2>1, FunctionIsSeq
  <1>3. a \in Seq(Nat) /\ Len(a) \in Nat /\ b \in Seq(Nat) /\ Len(b) \in Nat
    BY <1>1, UpToFacts
  <1>4. Adds(a, b, s, T, k, m)
    <2> HIDE DEF s, T
    <2>1. a = KeptOfFirst(s, T)[k] /\ b = KeptOfFirst(s, T)[m]
      BY DEF UpTo, s, T
    <2> HIDE DEF a, b, n
    <2> QED
      BY <1>1, <1>2, <1>3, <2>1, KeptGrows
  <1>5. \A i \in k + 1 .. m : s[i] \notin T
    <2>1. \A i \in k + 1 .. m : i \in 1 .. n
      BY <1>1
    <2> QED
      BY <1>2, <2>1
  <1> HIDE DEF a, b, n, s, T
  <1>6. Len(a) <= Len(b) /\ (\A i \in 1 .. Len(a) : b[i] = a[i])
        /\ ~\E i \in Len(a) + 1 .. Len(b) : TRUE
    BY <1>4, <1>5 DEF Adds
  <1>7. Len(a) = Len(b)
    <2>1. ~(Len(b) \in Len(a) + 1 .. Len(b))
      BY <1>6
    <2> QED
      BY <1>3, <1>6, <2>1
  <1>8. a = b
    BY <1>3, <1>6, <1>7, SeqEqual
  <1> QED
    BY <1>8 DEF a, b

(* What has been printed once the activations up have been met.            *)
Shows(fs, cs, p, up) ==
    /\ Len(fs) = IF Len(up) < MaxFrames THEN Len(up) + 1 ELSE MaxFrames
    /\ fs[1] = [func |-> NameOf(cs[1].func), pc |-> p]
    /\ \A k \in 1 .. Len(fs) - 1 :
          fs[k + 1] = [func |-> NameOf(cs[up[k] + 1].func), pc |-> cs[up[k]].ret - 1]

(* One activation more shows as one frame more, up to the bound.           *)
LEMMA ShowsNext ==
  ASSUME NEW S, NEW fs \in Seq(S), NEW cs, NEW p, NEW up \in Seq(Nat), Shows(fs, cs, p, up),
         NEW m \in Nat, NEW frame \in S,
         frame = [func |-> NameOf(cs[m + 1].func), pc |-> cs[m].ret - 1],
         NEW fs2, fs2 = IF Len(fs) < MaxFrames THEN Append(fs, frame) ELSE fs
  PROVE  Shows(fs2, cs, p, Append(up, m))
  <1> DEFINE a == Len(up)
             up2 == Append(up, m)
             l == Len(fs)
  <1>1. MaxFrames \in Nat /\ MaxFrames > 0 /\ a \in Nat /\ l \in Nat
    BY BacktraceAssumption, LenProperties
  <1>2. /\ Len(up2) = a + 1 /\ up2[a + 1] = m /\ \A k \in 1 .. a : up2[k] = up[k]
    BY AppendProperties
  <1>3. /\ l = IF a < MaxFrames THEN a + 1 ELSE MaxFrames
        /\ fs[1] = [func |-> NameOf(cs[1].func), pc |-> p]
        /\ \A k \in 1 .. l - 1 :
              fs[k + 1] = [func |-> NameOf(cs[up[k] + 1].func), pc |-> cs[up[k]].ret - 1]
    BY DEF Shows
  <1> HIDE DEF a, up2, l
  <1>4. \A k \in 1 .. l - 1 : k \in 1 .. a
    BY <1>1, <1>3
  <1>5. CASE l < MaxFrames
    <2>1. Len(fs2) = l + 1 /\ fs2[l + 1] = frame /\ \A i \in 1 .. l : fs2[i] = fs[i]
      BY <1>5, AppendProperties DEF l
    <2>2. l = a + 1 /\ 1 \in 1 .. l
      BY <1>1, <1>3, <1>5
    <2>3. Len(fs2) = IF Len(up2) < MaxFrames THEN Len(up2) + 1 ELSE MaxFrames
      BY <1>1, <1>2, <1>5, <2>1, <2>2
    <2>4. fs2[1] = [func |-> NameOf(cs[1].func), pc |-> p]
      BY <1>3, <2>1, <2>2
    <2>5. ASSUME NEW k \in 1 .. Len(fs2) - 1
          PROVE  fs2[k + 1] = [func |-> NameOf(cs[up2[k] + 1].func), pc |-> cs[up2[k]].ret - 1]
      <3>1. CASE k = l
        <4>1. up2[k] = m /\ fs2[k + 1] = frame
          BY <1>2, <2>1, <2>2, <3>1
        <4> QED
          BY <4>1
      <3>2. CASE k \in 1 .. l - 1
        <4>1. k \in 1 .. a
          BY <1>4, <3>2
        <4>3. k \in Int /\ 1 <= k /\ k <= l - 1 /\ l \in Int
          BY <1>1, <3>2
        <4>4. k + 1 \in 1 .. l
          BY <4>3
        <4>2. up2[k] = up[k] /\ fs2[k + 1] = fs[k + 1]
          BY <1>2, <2>1, <4>1, <4>4
        <4> QED
          BY <1>3, <3>2, <4>2
      <3> QED
        BY <1>1, <2>1, <3>1, <3>2
    <2> QED
      BY <2>3, <2>4, <2>5 DEF Shows, up2
  <1>6. CASE ~(l < MaxFrames)
    <2>1. fs2 = fs /\ l = MaxFrames /\ ~(a + 1 < MaxFrames)
      BY <1>1, <1>3, <1>6 DEF l
    <2>2. Len(fs2) = IF Len(up2) < MaxFrames THEN Len(up2) + 1 ELSE MaxFrames
      BY <1>2, <2>1 DEF l
    <2>3. ASSUME NEW k \in 1 .. l - 1 PROVE up2[k] = up[k]
      BY <1>2, <1>4
    <2> QED
      BY <1>3, <2>1, <2>2, <2>3 DEF Shows, up2, l
  <1> QED
    BY <1>5, <1>6

-----------------------------------------------------------------------------
(* The invariant of the walk.                                              *)
Supposed == PlainNames /\ DescribesCode /\ DescribesFuncs

WalkIsAt(j) ==
    /\ j \in 1 .. Len(calls)
    /\ \E sp, bp : Shape(calls, rsp, sp) /\ Chain(calls, word, rbp, sp, bp) /\ fp = bp[j]
    /\ Supposed => Shows(frames, calls, pc, UpTo(calls, j - 1))

(* What the abort of a walk is left to.                                    *)
CallerIsSplit ==
    \E i \in DOMAIN calls : Reaches(i) /\ SplitAt(Offset(calls[i].ret - 1))

WalkInv ==
    /\ at \in {"start", "running", "prompt"} => frames = <<>>
    /\ (at = "walk" /\ Framed /\ scan = functionDies) => \E j : WalkIsAt(j)
    /\ (at = "done" /\ Framed /\ scan = functionDies) =>
          (Supposed => Shows(frames, calls, pc, UpTo(calls, Len(calls))))
    /\ (at = "aborted" /\ Framed /\ frames # <<>>) =>
          scan # functionDies \/ CallerIsSplit

(* The rbp of the first activation is no frame pointer.                    *)
LEMMA OneIsNoMultiple ==
  ASSUME NEW A \in Nat, A > 1 PROVE 1 % A # 0
  OBVIOUS

(* No activation has used rbp for something else.                          *)
LEMMA FramedPhases ==
  ASSUME Framed, StackInv
  PROVE  ~meddled /\ \A i \in 1 .. Len(calls) : calls[i].phase # "scratch"
  BY StackFacts DEF Framed, StackInv

(* Where the walk is, it goes on at the next activation with a frame, whose*)
(* frame it can read, or ends.                                             *)
LEMMA WalkGoesOn ==
  ASSUME StackInv, ChunksInv, MapsOK(maps, rsp), at = "walk", Framed,
         NEW j \in 1 .. Len(calls), NEW sp, NEW bp, Shape(calls, rsp, sp),
         Chain(calls, word, rbp, sp, bp), fp = bp[j]
  PROVE  \/ /\ ~IsValidFramePointer(fp)
            /\ \A i \in j .. Len(calls) - 1 : calls[i].phase # "framed"
         \/ \E m \in j .. Len(calls) - 1 :
               /\ m \in HasFrame(calls) /\ \A i \in j .. m - 1 : calls[i].phase # "framed"
               /\ IsValidFramePointer(fp) /\ ~Unreadable(fp) /\ ~Unreadable(fp + Align)
               /\ Peek(fp) = bp[m + 1] /\ Peek(fp + Align) = calls[m].ret
  <1> DEFINE n == Len(calls)
  <1>1. CallsTyped(calls) /\ word \in [DOMAIN Data \cup StackWords -> Int]
        /\ n \in Nat /\ n > 0 /\ Align \in Nat /\ Align > 1 /\ DOMAIN calls = 1 .. n /\ rsp \in Int
    BY TopFacts, StackFacts
  <1>2. \A k \in 1 .. n : LeadsTo(calls, sp, bp[k], k)
    BY <1>1, FramedPhases, FramePointers
  <1>3. PICK intact \in BOOLEAN : ReadFrom(chunks, maps, intact)
    BY DEF ChunksInv
  <1>4. CASE fp = 1 /\ \A i \in j .. n - 1 : calls[i].phase # "framed"
    <2>1. ~IsValidFramePointer(fp)
      BY <1>1, <1>4, OneIsNoMultiple DEF IsValidFramePointer
    <2> QED
      BY <1>4, <2>1
  <1>5. ASSUME NEW m \in j .. n - 1, calls[m].phase = "framed", fp = sp[m] - Align,
               \A i \in j .. m - 1 : calls[i].phase # "framed"
        PROVE  /\ m \in HasFrame(calls)
               /\ IsValidFramePointer(fp) /\ ~Unreadable(fp) /\ ~Unreadable(fp + Align)
               /\ Peek(fp) = bp[m + 1] /\ Peek(fp + Align) = calls[m].ret
    <2>1. m \in 1 .. n - 1 /\ m \in DOMAIN calls /\ m + 1 \in 1 .. n /\ m < n
      BY <1>1
    <2>2. m \in HasFrame(calls)
      BY <1>5, <2>1 DEF HasFrame
    <2>3. /\ sp[m] \in Int /\ sp[m] - Align \in DOMAIN word /\ sp[m] \in DOMAIN word
          /\ sp[m] - Align > 0 /\ sp[m] - Align + Align = sp[m]
          /\ IsValidFramePointer(sp[m] - Align)
          /\ \E i \in DOMAIN maps : Covers(maps[i], sp[m] - Align)
          /\ \E i \in DOMAIN maps : Covers(maps[i], sp[m])
      BY <1>3, <1>5, <2>1, FrameIsReadable
    <2>4. word[sp[m]] = calls[m].ret /\ word[sp[m] - Align] = bp[m + 1]
      BY <1>5, <2>1 DEF Chain, Holds
    <2>5. calls[m].ret \in Int /\ calls[m].ret >= 1
      <3>1. calls[m].ret \in Returns[calls[m + 1].func] /\ calls[m + 1].func \in DOMAIN Funcs
        BY <1>1, <2>1, StackFacts DEF CallsTyped, Activation
      <3> QED
        BY <3>1, FunctionFacts
    <2>6. bp[m + 1] \in Int /\ bp[m + 1] > 0
      <3>1. LeadsTo(calls, sp, bp[m + 1], m + 1)
        BY <1>2, <2>1
      <3>2. CASE bp[m + 1] = 1
        BY <3>2
      <3>3. ASSUME NEW l \in m + 1 .. n - 1, calls[l].phase = "framed", bp[m + 1] = sp[l] - Align
            PROVE  bp[m + 1] \in Int /\ bp[m + 1] > 0
        <4>1. l \in 1 .. n - 1
          BY <2>1, <1>1
        <4>2. sp[l] \in Int /\ sp[l] - Align > 0
          BY <1>3, <3>3, <4>1, FrameIsReadable
        <4> QED
          BY <3>3, <4>2, <1>1
      <3> QED
        BY <3>1, <3>2, <3>3 DEF LeadsTo
    <2> HIDE DEF n
    <2>7. word[sp[m]] # Ones /\ word[sp[m] - Align] # Ones
      BY <2>4, <2>5, <2>6 DEF Ones
    <2>8. fp + Align = sp[m]
      BY <1>5, <2>3
    <2>9. ~Unreadable(fp) /\ ~Unreadable(fp + Align)
      BY <1>5, <2>3, <2>7, <2>8 DEF Unreadable
    <2>10. Peek(fp) = bp[m + 1] /\ Peek(fp + Align) = calls[m].ret
      BY <1>5, <2>3, <2>4, <2>8 DEF Peek
    <2> QED
      BY <1>5, <2>2, <2>3, <2>9, <2>10
  <1>6. LeadsTo(calls, sp, fp, j)
    BY <1>2
  <1> QED
    BY <1>4, <1>5, <1>6 DEF LeadsTo

(* A frame is printed under the name of its function, or the debugger ends *)
(* at one described by DW_AT_ranges only.                                  *)
LEMMA FrameIsPrinted ==
  ASSUME scan = functionDies, NEW addr, PrintFrame(addr)
  PROVE  \/ at' = "aborted" /\ frames' = frames /\ SplitAt(Offset(addr))
         \/ /\ at' = "walk" /\ FunctionAt(Offset(addr), scan) # "throws"
            /\ frames' = IF Len(frames) < MaxFrames
                         THEN Append(frames, [func |-> FunctionAt(Offset(addr), scan), pc |-> addr])
                         ELSE frames
  <1>1. FunctionAt(Offset(addr), scan) = "throws" => SplitAt(Offset(addr))
    BY ListedHits
  <1> QED
    BY <1>1 DEF PrintFrame

(* At the prompt the load address is right, hence so is the name.          *)
LEMMA SupposedFunction ==
  ASSUME ChunksInv, at \in {"prompt", "walk", "done"}, scan = functionDies, Supposed,
         NEW f \in DOMAIN Funcs, NEW addr \in Int, Funcs[f].low <= addr, addr < Funcs[f].high,
         FunctionAt(Offset(addr), scan) # "throws"
  PROVE  FunctionAt(Offset(addr), scan) = NameOf(f)
  <1>1. loadAddress = Base /\ loadAddress \in Int
    BY DEF ChunksInv, Supposed
  <1> QED
    BY <1>1, FunctionIsNamed DEF Supposed

(* The walk begins at the activation on top.                               *)
LEMMA WalkBegins ==
  ASSUME StackInv, ChunksInv, FramesInv, PrintBacktrace, Framed, scan = functionDies, at' = "walk"
  PROVE  WalkIsAt(1)'
  <1> DEFINE addr == pc
             frame == [func |-> FunctionAt(Offset(addr), scan), pc |-> addr]
  <1>1. /\ at \in {"prompt", "done"} /\ frames = <<>> /\ fp' = rbp /\ PrintFrame(pc)
        /\ UNCHANGED <<mapVars, childVars, meddled, scan>>
    BY DEF PrintBacktrace, AtPrompt
  <1>2. /\ calls' = calls /\ rsp' = rsp /\ rbp' = rbp /\ word' = word /\ pc' = pc
    BY <1>1 DEF childVars
  <1>3. CallsTyped(calls) /\ Len(calls) \in Nat /\ 1 \in 1 .. Len(calls) /\ calls[1].func \in DOMAIN Funcs
    BY TopFacts
  <1>4. PICK sp, bp : Shape(calls, rsp, sp) /\ Chain(calls, word, rbp, sp, bp)
    BY FramedPhases DEF StackInv
  <1>5. rbp = bp[1]
    BY <1>4 DEF Chain
  <1>6. /\ addr \in Int /\ Funcs[calls[1].func].low <= addr /\ addr < Funcs[calls[1].func].high
    BY DEF StackInv
  <1>7. /\ FunctionAt(Offset(addr), scan) # "throws"
        /\ frames' = IF Len(frames) < MaxFrames THEN Append(frames, frame) ELSE frames
    <2>1. PrintFrame(addr)
      BY <1>1
    <2> HIDE DEF addr
    <2> QED
      BY <2>1, FrameIsPrinted
  <1>8. ASSUME Supposed PROVE Shows(frames', calls, pc, UpTo(calls, 0))
    <2>1. FunctionAt(Offset(addr), scan) = NameOf(calls[1].func)
      BY <1>1, <1>3, <1>6, <1>7, <1>8, SupposedFunction
    <2>2. frame = [func |-> NameOf(calls[1].func), pc |-> pc]
      BY <2>1
    <2> HIDE DEF frame, addr
    <2>3. frames' = <<frame>>
      <3>1. Len(<<>>) = 0 /\ 0 < MaxFrames /\ Append(<<>>, frame) = <<frame>>
        BY BacktraceAssumption
      <3> QED
        BY <1>1, <1>7, <3>1
    <2>4. Len(frames') = 1 /\ frames'[1] = frame
      BY <2>3
    <2>5. UpTo(calls, 0) = <<>> /\ Len(<<>>) = 0 /\ MaxFrames \in Nat /\ MaxFrames > 0
      BY <1>3, UpToFacts, BacktraceAssumption
    <2> QED
      BY <2>2, <2>4, <2>5 DEF Shows
  <1>9. 1 - 1 = 0
    OBVIOUS
  <1>10. Shape(calls', rsp', sp) /\ Chain(calls', word', rbp', sp, bp) /\ fp' = bp[1]
    BY <1>1, <1>2, <1>4, <1>5
  <1>11. Supposed => Shows(frames', calls', pc', UpTo(calls', 1 - 1))
    BY <1>2, <1>8, <1>9
  <1>12. 1 \in 1 .. Len(calls')
    BY <1>2, <1>3
  <1>13. WalkIsAt(1)'
    BY <1>10, <1>11, <1>12 DEF WalkIsAt
  <1> QED
    BY <1>13

(* It goes on to the next activation with a frame, or ends the debugger if *)
(* the caller of that is described by DW_AT_ranges only.                   *)
LEMMA WalkMeetsNext ==
  ASSUME StackInv, ChunksInv, MapsOK(maps, rsp), FramesInv, NextFrame, Framed, scan = functionDies,
         NEW j, WalkIsAt(j)
  PROVE  \/ at' = "walk" /\ \E k : WalkIsAt(k)'
         \/ at' = "aborted" /\ CallerIsSplit
  <1>1. /\ at = "walk" /\ IsValidFramePointer(fp) /\ UNCHANGED <<mapVars, childVars, meddled, scan>>
        /\ j \in 1 .. Len(calls)
    BY DEF NextFrame, WalkIsAt
  <1>2. /\ calls' = calls /\ rsp' = rsp /\ rbp' = rbp /\ word' = word /\ pc' = pc
    BY <1>1 DEF childVars
  <1>3. CallsTyped(calls) /\ Len(calls) \in Nat
    BY TopFacts
  <1>4. PICK sp, bp : Shape(calls, rsp, sp) /\ Chain(calls, word, rbp, sp, bp) /\ fp = bp[j]
    BY DEF WalkIsAt
  <1>5. PICK m \in j .. Len(calls) - 1 :
               /\ m \in HasFrame(calls) /\ \A i \in j .. m - 1 : calls[i].phase # "framed"
               /\ IsValidFramePointer(fp) /\ ~Unreadable(fp) /\ ~Unreadable(fp + Align)
               /\ Peek(fp) = bp[m + 1] /\ Peek(fp + Align) = calls[m].ret
    BY <1>1, <1>4, WalkGoesOn
  <1> DEFINE addr == calls[m].ret - 1
             f == calls[m + 1].func
             frame == [func |-> FunctionAt(Offset(addr), scan), pc |-> addr]
  <1>6. fp' = bp[m + 1] /\ PrintFrame(addr)
    BY <1>5 DEF NextFrame
  <1>7. m \in 1 .. Len(calls) /\ m + 1 \in 1 .. Len(calls) /\ m \in Nat /\ m \in 1 .. Len(calls) - 1
        /\ j - 1 \in 0 .. Len(calls) /\ m - 1 \in j - 1 .. Len(calls) /\ (m + 1) - 1 = m
    BY <1>1, <1>3
  <1>8. f \in DOMAIN Funcs /\ calls[m].ret \in Returns[f]
    <2>1. calls[m + 1] \in Activation
      BY <1>3, <1>7, StackFacts
    <2> QED
      BY <2>1, <1>3, <1>7 DEF CallsTyped, Activation
  <1>9. addr \in Int /\ Funcs[f].low <= addr /\ addr < Funcs[f].high
    <2> DEFINE ret == calls[m].ret
               low == Funcs[f].low
               high == Funcs[f].high
    <2> HIDE DEF f
    <2>1. low \in Nat /\ high \in Nat /\ ret \in Int /\ low + 1 <= ret /\ ret <= high
      BY <1>8, FunctionFacts
    <2> HIDE DEF ret, low, high
    <2>2. ret - 1 \in Int /\ low <= ret - 1 /\ ret - 1 < high
      BY <2>1
    <2> QED
      BY <2>2 DEF ret, low, high
  <1>17. PrintFrame(addr)
    BY <1>6
  <1>18. SplitAt(Offset(addr)) => CallerIsSplit
    <2>1. m \in DOMAIN calls /\ Reaches(m)
      BY <1>5 DEF HasFrame, Reaches
    <2> QED
      BY <2>1 DEF CallerIsSplit
  <1> HIDE DEF addr, f
  <1>19. CASE at' # "walk"
    <2>1. at' = "aborted" /\ SplitAt(Offset(addr))
      BY <1>17, <1>19, FrameIsPrinted
    <2> QED
      BY <2>1, <1>18
  <1>20. SUFFICES ASSUME at' = "walk" PROVE \E k : WalkIsAt(k)'
    BY <1>19
  <1>10. /\ FunctionAt(Offset(addr), scan) # "throws"
         /\ frames' = IF Len(frames) < MaxFrames THEN Append(frames, frame) ELSE frames
    BY <1>17, <1>20, FrameIsPrinted
  <1>11. UpTo(calls, m) = Append(UpTo(calls, j - 1), m) /\ UpTo(calls, j - 1) \in Seq(Nat)
    <2>1. \A i \in (j - 1) + 1 .. m - 1 : i \notin HasFrame(calls)
      <3>1. (j - 1) + 1 = j
        BY <1>1, <1>3
      <3> QED
        BY <3>1, <1>5 DEF HasFrame
    <2>2. UpTo(calls, m - 1) = UpTo(calls, j - 1)
      BY <1>3, <1>7, <2>1, UpToSame
    <2> QED
      BY <1>3, <1>5, <1>7, <2>2, UpToFacts
  <1>12. ASSUME Supposed PROVE Shows(frames', calls, pc, UpTo(calls, m))
    <2>1. FunctionAt(Offset(addr), scan) = NameOf(f)
      BY <1>1, <1>8, <1>9, <1>10, <1>12, SupposedFunction
    <2>2. frame = [func |-> NameOf(calls[m + 1].func), pc |-> calls[m].ret - 1]
      BY <2>1 DEF addr, f
    <2>3. Shows(frames, calls, pc, UpTo(calls, j - 1)) /\ frames \in Seq(FrameSet)
      BY <1>12 DEF WalkIsAt, FramesInv
    <2> DEFINE S == FrameSet \cup {frame}
    <2>4. frame \in S /\ frames \in Seq(S)
      <3>1. Len(frames) \in Nat /\ DOMAIN frames = 1 .. Len(frames)
            /\ \A i \in 1 .. Len(frames) : frames[i] \in S
        BY <2>3, LenProperties, ElementOfSeq
      <3>2. frames \in [1 .. Len(frames) -> S]
        <4>1. frames = [i \in 1 .. Len(frames) |-> frames[i]]
          BY <2>3, LenProperties
        <4> HIDE DEF S
        <4> QED
          BY <3>1, <4>1
      <3> HIDE DEF S
      <3>3. frames \in Seq(S)
        BY <3>1, <3>2, FunctionIsSeq
      <3> QED
        BY <3>3 DEF S
    <2> HIDE DEF S, frame
    <2>5. Shows(frames', calls, pc, Append(UpTo(calls, j - 1), m))
      BY <1>7, <1>10, <1>11, <2>2, <2>3, <2>4, ShowsNext
    <2> QED
      BY <1>11, <2>5
  <1>13. Shape(calls', rsp', sp) /\ Chain(calls', word', rbp', sp, bp) /\ fp' = bp[m + 1]
    BY <1>2, <1>4, <1>6
  <1>14. Supposed => Shows(frames', calls', pc', UpTo(calls', (m + 1) - 1))
    BY <1>2, <1>7, <1>12
  <1>15. m + 1 \in 1 .. Len(calls')
    BY <1>2, <1>7
  <1>16. WalkIsAt(m + 1)'
    BY <1>13, <1>14, <1>15 DEF WalkIsAt
  <1> QED
    BY <1>16

(* It ends where no activation is left that has a frame.                   *)
LEMMA WalkEnds ==
  ASSUME StackInv, ChunksInv, MapsOK(maps, rsp), LastFrame, Framed, NEW j, WalkIsAt(j), Supposed
  PROVE  Shows(frames, calls, pc, UpTo(calls, Len(calls)))
  <1> DEFINE n == Len(calls)
  <1>1. /\ at = "walk" /\ ~IsValidFramePointer(fp) /\ j \in 1 .. Len(calls)
        /\ Shows(frames, calls, pc, UpTo(calls, j - 1))
    BY DEF LastFrame, WalkIsAt
  <1>2. CallsTyped(calls) /\ Len(calls) \in Nat
    BY TopFacts
  <1>3. PICK sp, bp : Shape(calls, rsp, sp) /\ Chain(calls, word, rbp, sp, bp) /\ fp = bp[j]
    BY DEF WalkIsAt
  <1>4. \A i \in j .. Len(calls) - 1 : calls[i].phase # "framed"
    BY <1>1, <1>3, WalkGoesOn
  <1>5. \A i \in (j - 1) + 1 .. n : i \notin HasFrame(calls)
    <2>1. \A i \in (j - 1) + 1 .. n : i < n => i \in j .. n - 1
      BY <1>1, <1>2
    <2> QED
      BY <1>4, <2>1 DEF HasFrame
  <1>6. j - 1 \in 0 .. n /\ n \in j - 1 .. n
    BY <1>1, <1>2
  <1>7. UpTo(calls, n) = UpTo(calls, j - 1)
    BY <1>2, <1>5, <1>6, UpToSame
  <1> QED
    BY <1>1, <1>7

(* Every step.                                                             *)
LEMMA WalkInvStep ==
  StackInv /\ ChunksInv /\ MapsOK(maps, rsp) /\ FramesInv /\ WalkInv /\ [Next]_lookingVars => WalkInv'
  <1> SUFFICES ASSUME StackInv, ChunksInv, MapsOK(maps, rsp), FramesInv, WalkInv, [Next]_lookingVars
               PROVE  WalkInv'
    OBVIOUS
  <1>1. ASSUME frames' = <<>>, at' \in {"start", "running", "prompt", "aborted"} PROVE WalkInv'
    BY <1>1 DEF WalkInv
  <1>2. CASE ChildRuns \/ AddressSpaceChanges
    <2>1. at' = at /\ at \in {"start", "running"} /\ frames' = frames
      BY <1>2 DEF ChildRuns, AddressSpaceChanges, lookVars
    <2> QED
      BY <1>1, <2>1 DEF WalkInv
  <1>3. ASSUME NEW intact \in BOOLEAN, Start(intact) \/ ChildStops(intact) PROVE WalkInv'
    <2>1. at \in {"start", "running"} /\ frames' = frames /\ at' \in {"prompt", "aborted"}
      BY <1>3 DEF Start, ChildStops
    <2> QED
      BY <1>1, <2>1 DEF WalkInv
  <1>4. CASE Resume \/ Meddle
    BY <1>1, <1>4 DEF Resume, Meddle
  <1>5. CASE PrintBacktrace
    <2>1. /\ at \in {"prompt", "done"} /\ frames = <<>> /\ calls' = calls /\ meddled' = meddled /\ scan' = scan
      BY <1>5 DEF PrintBacktrace, AtPrompt, childVars
    <2>2. Framed' <=> Framed
      BY <2>1 DEF Framed
    <2>3. at' \in {"walk", "aborted"} /\ (at' = "aborted" => frames' = frames)
      BY <1>5 DEF PrintBacktrace, PrintFrame
    <2>4. CASE Framed /\ scan = functionDies
      <3>1. at' = "walk" => \E j : WalkIsAt(j)'
        BY <1>5, <2>4, WalkBegins
      <3> QED
        BY <2>1, <2>3, <3>1 DEF WalkInv
    <2>5. CASE ~(Framed /\ scan = functionDies)
      BY <2>1, <2>2, <2>3, <2>5 DEF WalkInv
    <2> QED
      BY <2>4, <2>5
  <1>6. CASE NextFrame
    <2>1. /\ at = "walk" /\ calls' = calls /\ meddled' = meddled /\ scan' = scan
          /\ at' \in {"walk", "aborted"} /\ loadAddress' = loadAddress
      BY <1>6 DEF NextFrame, PrintFrame, childVars, mapVars
    <2>2. Framed' <=> Framed
      BY <2>1 DEF Framed
    <2>3. CASE Framed /\ scan = functionDies
      <3>1. PICK j : WalkIsAt(j)
        BY <2>1, <2>3 DEF WalkInv
      <3>2. \/ at' = "walk" /\ \E k : WalkIsAt(k)'
            \/ at' = "aborted" /\ CallerIsSplit
        BY <1>6, <2>3, <3>1, WalkMeetsNext
      <3>3. CallerIsSplit => CallerIsSplit'
        BY <2>1 DEF CallerIsSplit, Reaches, Offset, SplitAt
      <3> QED
        BY <3>2, <3>3 DEF WalkInv
    <2>4. CASE ~(Framed /\ scan = functionDies)
      BY <2>1, <2>2, <2>4 DEF WalkInv
    <2> QED
      BY <2>3, <2>4
  <1>7. CASE LastFrame
    <2>1. /\ at = "walk" /\ at' = "done" /\ UNCHANGED <<calls, meddled, scan, frames, pc>>
      BY <1>7 DEF LastFrame, childVars
    <2>2. Framed' <=> Framed
      BY <2>1 DEF Framed
    <2>3. ASSUME Framed, scan = functionDies, Supposed
          PROVE  Shows(frames', calls', pc', UpTo(calls', Len(calls')))
      <3>1. PICK j : WalkIsAt(j)
        BY <2>1, <2>3 DEF WalkInv
      <3>2. Shows(frames, calls, pc, UpTo(calls, Len(calls)))
        BY <1>7, <2>3, <3>1, WalkEnds
      <3> QED
        BY <2>1, <3>2
    <2> QED
      BY <2>1, <2>2, <2>3 DEF WalkInv
  <1>8. CASE Done \/ UNCHANGED lookingVars
    <2>1. UNCHANGED <<at, frames, fp, calls, meddled, scan, pc, rsp, rbp, word, loadAddress>>
      BY <1>8 DEF Done, lookingVars, lookVars, childVars, mapVars
    <2>2. /\ Framed' <=> Framed
          /\ CallerIsSplit' <=> CallerIsSplit
      BY <2>1 DEF Framed, CallerIsSplit, Reaches, Offset, SplitAt
    <2>3. ASSUME NEW j, WalkIsAt(j) PROVE WalkIsAt(j)'
      BY <2>1, <2>3 DEF WalkIsAt
    <2>4. (\E j : WalkIsAt(j)) => \E j : WalkIsAt(j)'
      BY <2>3
    <2> QED
      BY <2>1, <2>2, <2>4 DEF WalkInv
  <1>9. ASSUME NEW choice \in 0 .. 2, NEW name \in Names, AskFunction(name, choice) PROVE WalkInv'
    BY <1>1, <1>9 DEF AskFunction, Ask
  <1>10. ASSUME NEW choice \in 0 .. 2, NEW l \in Lines, AskLine(l, choice) PROVE WalkInv'
    BY <1>1, <1>10 DEF AskLine, Ask
  <1> QED
    BY <1>2, <1>3, <1>4, <1>5, <1>6, <1>7, <1>8, <1>9, <1>10 DEF Next, Walking

(* The walk is where the invariant says, in every reachable state.         *)
THEOREM WalkIsKept == Spec => []WalkInv
  <1>1. Init => WalkInv
    BY DEF Init, WalkInv
  <1> QED
    BY <1>1, WalkInvStep, StackIsKept, ChunksAreRead, MappingsStayApart, FramesAreTyped, PTL DEF Spec

(* A backtrace of a stack that nobody wrote to, of functions that all keep *)
(* rbp, never ends the debugger, whatever the calls and the mappings are:  *)
(* only a scan that went past its offsets can, or a caller that the debug  *)
(* information describes by DW_AT_ranges only.                             *)
THEOREM BacktraceAlwaysSurvives == Spec => []BacktraceSurvives
  <1>1. WalkInv /\ ScansAreExact => BacktraceSurvives
    BY DEF WalkInv, ScansAreExact, BacktraceSurvives, CallerIsSplit
  <1> QED
    BY <1>1, WalkIsKept, ScansStayExact, PTL

-----------------------------------------------------------------------------
(* The end of the walk.  Where it stands on a stack that nobody wrote to,  *)
(* whatever the scans and the debug information are.                       *)
StandsAt(j) ==
    /\ j \in 1 .. Len(calls)
    /\ \E sp, bp : Shape(calls, rsp, sp) /\ Chain(calls, word, rbp, sp, bp) /\ fp = bp[j]

StandsInv == (at = "walk" /\ Framed) => \E j : StandsAt(j)

(* From a frame it goes up to another one in the stack, or to none.        *)
LEMMA StandsHigher ==
  ASSUME StackInv, ChunksInv, MapsOK(maps, rsp), NextFrame, at' = "walk", Framed, NEW j, StandsAt(j)
  PROVE  /\ \E k : StandsAt(k)'
         /\ IsValidFramePointer(fp') => fp < fp' /\ fp' < StackTop
  <1> DEFINE n == Len(calls)
  <1>1. /\ at = "walk" /\ IsValidFramePointer(fp) /\ UNCHANGED <<mapVars, childVars, meddled, scan>>
        /\ j \in 1 .. n
    BY DEF NextFrame, StandsAt
  <1>2. /\ calls' = calls /\ rsp' = rsp /\ rbp' = rbp /\ word' = word
    BY <1>1 DEF childVars
  <1>3. CallsTyped(calls) /\ n \in Nat /\ Align \in Nat /\ Align > 1
    BY TopFacts
  <1>4. PICK sp, bp : Shape(calls, rsp, sp) /\ Chain(calls, word, rbp, sp, bp) /\ fp = bp[j]
    BY DEF StandsAt
  <1>5. PICK m \in j .. n - 1 :
               /\ m \in HasFrame(calls) /\ \A i \in j .. m - 1 : calls[i].phase # "framed"
               /\ IsValidFramePointer(fp) /\ ~Unreadable(fp) /\ ~Unreadable(fp + Align)
               /\ Peek(fp) = bp[m + 1] /\ Peek(fp + Align) = calls[m].ret
    BY <1>1, <1>4, WalkGoesOn
  <1>6. fp' = bp[m + 1]
    BY <1>5 DEF NextFrame
  <1>7. /\ m \in 1 .. n - 1 /\ m \in 1 .. n /\ m + 1 \in 1 .. n /\ m \in Nat /\ j \in Nat
        /\ calls[m].phase = "framed"
    BY <1>1, <1>3, <1>5 DEF HasFrame
  <1>8. \A k \in 1 .. n : LeadsTo(calls, sp, bp[k], k)
    BY <1>3, <1>4, FramedPhases, FramePointers
  <1>9. \A p : p = 1 => ~IsValidFramePointer(p)
    BY <1>3, OneIsNoMultiple DEF IsValidFramePointer
  <1>10. fp = sp[m] - Align
    <2>1. LeadsTo(calls, sp, fp, j) /\ fp # 1
      BY <1>1, <1>4, <1>8, <1>9
    <2>2. PICK l \in j .. n - 1 : /\ calls[l].phase = "framed" /\ fp = sp[l] - Align
                                 /\ \A i \in j .. l - 1 : calls[i].phase # "framed"
      BY <2>1 DEF LeadsTo
    <2>3. ~(l < m) /\ ~(m < l)
      BY <1>3, <1>5, <1>7, <2>2
    <2>4. l = m
      BY <1>3, <1>7, <2>2, <2>3
    <2> QED
      BY <2>2, <2>4
  <1>11. ASSUME IsValidFramePointer(fp') PROVE fp < fp' /\ fp' < StackTop
    <2>1. LeadsTo(calls, sp, fp', m + 1) /\ fp' # 1
      BY <1>6, <1>7, <1>8, <1>9, <1>11
    <2>2. PICK l \in m + 1 .. n - 1 : calls[l].phase = "framed" /\ fp' = sp[l] - Align
      BY <2>1 DEF LeadsTo
    <2>3. l \in 1 .. n /\ m < l /\ Holds(calls[l])
      BY <1>3, <1>7, <2>2 DEF Holds
    <2>4. /\ sp[l] \in Int /\ sp[m] \in Int /\ sp[l] <= StackTop /\ StackTop \in Nat
          /\ Bottom(calls, sp, l) = sp[l] - Align
      BY <1>3, <1>4, <1>7, <2>3, ShapeFacts, StackFacts
    <2>5. sp[m] <= Bottom(calls, sp, l) - Align
      BY <1>4, <1>7, <2>3 DEF Shape
    <2> DEFINE x == sp[m]
               y == sp[l]
    <2>6. /\ x \in Int /\ y \in Int /\ x <= y - Align - Align /\ y <= StackTop /\ StackTop \in Nat
          /\ fp = x - Align /\ fp' = y - Align
      BY <1>10, <2>2, <2>4, <2>5
    <2> HIDE DEF x, y, n
    <2> QED
      BY <1>3, <2>6
  <1>12. m + 1 \in 1 .. Len(calls')
    BY <1>2, <1>7
  <1>13. Shape(calls', rsp', sp) /\ Chain(calls', word', rbp', sp, bp) /\ fp' = bp[m + 1]
    BY <1>2, <1>4, <1>6
  <1>14. StandsAt(m + 1)'
    BY <1>12, <1>13 DEF StandsAt
  <1> QED
    BY <1>11, <1>14

(* It begins at the activation on top.                                     *)
LEMMA StandsFirst ==
  ASSUME StackInv, PrintBacktrace, Framed
  PROVE  StandsAt(1)'
  <1>1. fp' = rbp /\ UNCHANGED childVars
    BY DEF PrintBacktrace
  <1>2. /\ calls' = calls /\ rsp' = rsp /\ rbp' = rbp /\ word' = word
    BY <1>1 DEF childVars
  <1>3. PICK sp, bp : Shape(calls, rsp, sp) /\ Chain(calls, word, rbp, sp, bp)
    BY FramedPhases DEF StackInv
  <1>4. rbp = bp[1] /\ 1 \in 1 .. Len(calls)
    BY <1>3, TopFacts DEF Chain
  <1> QED
    BY <1>1, <1>2, <1>3, <1>4 DEF StandsAt

(* Every step.                                                             *)
LEMMA StandsStep ==
  StackInv /\ ChunksInv /\ MapsOK(maps, rsp) /\ StandsInv /\ [Next]_lookingVars => StandsInv'
  <1> SUFFICES ASSUME StackInv, ChunksInv, MapsOK(maps, rsp), StandsInv, [Next]_lookingVars,
                      at' = "walk", Framed'
               PROVE  \E j : StandsAt(j)'
    BY DEF StandsInv
  <1>1. CASE PrintBacktrace
    <2>1. Framed
      BY <1>1 DEF PrintBacktrace, childVars, Framed
    <2> QED
      BY <1>1, <2>1, StandsFirst
  <1>2. CASE NextFrame
    <2>1. Framed /\ at = "walk"
      BY <1>2 DEF NextFrame, childVars, Framed
    <2>2. PICK j : StandsAt(j)
      BY <2>1 DEF StandsInv
    <2> QED
      BY <1>2, <2>1, <2>2, StandsHigher
  <1>3. CASE Done \/ UNCHANGED lookingVars
    <2>1. UNCHANGED <<at, fp, calls, meddled, rsp, rbp, word>>
      BY <1>3 DEF Done, lookingVars, lookVars, childVars
    <2>2. PICK j : StandsAt(j)
      BY <2>1 DEF StandsInv, Framed
    <2>3. StandsAt(j)'
      BY <2>1, <2>2 DEF StandsAt
    <2> QED
      BY <2>3
  <1>4. CASE ChildRuns \/ AddressSpaceChanges
    BY <1>4 DEF ChildRuns, AddressSpaceChanges, lookVars
  <1>5. ASSUME NEW intact \in BOOLEAN, Start(intact) \/ ChildStops(intact) PROVE FALSE
    BY <1>5 DEF Start, ChildStops
  <1>6. CASE Resume \/ Meddle \/ LastFrame
    BY <1>6 DEF Resume, Meddle, LastFrame
  <1>7. ASSUME NEW choice \in 0 .. 2, NEW name \in Names, AskFunction(name, choice) PROVE FALSE
    BY <1>7 DEF AskFunction, Ask
  <1>8. ASSUME NEW choice \in 0 .. 2, NEW l \in Lines, AskLine(l, choice) PROVE FALSE
    BY <1>8 DEF AskLine, Ask
  <1> QED
    BY <1>1, <1>2, <1>3, <1>4, <1>5, <1>6, <1>7, <1>8 DEF Next, Walking

(* The loop of printBacktrace climbs the stack, whatever the calls, the    *)
(* mappings and the debug information: it ends in as many steps as the     *)
(* stack has words at most.                                                *)
THEOREM BacktraceClimbs == Spec => WalkClimbs
  <1>1. Init => StandsInv
    BY DEF Init, StandsInv
  <1>2. Spec => []StandsInv
    BY <1>1, StandsStep, StackIsKept, ChunksAreRead, MappingsStayApart, PTL DEF Spec
  <1>3. StackInv /\ ChunksInv /\ MapsOK(maps, rsp) /\ StandsInv /\ [Next]_lookingVars =>
          [(at = "walk" /\ at' = "walk" /\ Framed) =>
              (IsValidFramePointer(fp') => fp < fp' /\ fp' < StackTop)]_lookingVars
    <2> SUFFICES ASSUME StackInv, ChunksInv, MapsOK(maps, rsp), StandsInv, Next,
                        at = "walk", at' = "walk", Framed, IsValidFramePointer(fp'),
                        ~UNCHANGED lookingVars
                 PROVE  fp < fp' /\ fp' < StackTop
      OBVIOUS
    <2>1. PICK j : StandsAt(j)
      BY DEF StandsInv
    <2>2. CASE NextFrame
      BY <2>1, <2>2, StandsHigher
    <2>3. ASSUME ~NextFrame PROVE FALSE
      <3>1. ~ChildRuns /\ ~AddressSpaceChanges /\ ~Resume /\ ~Meddle /\ ~PrintBacktrace /\ ~LastFrame /\ ~Done
        BY DEF ChildRuns, AddressSpaceChanges, Resume, Meddle, PrintBacktrace, LastFrame, Done, AtPrompt
      <3>2. \A intact \in BOOLEAN : ~Start(intact) /\ ~ChildStops(intact)
        BY DEF Start, ChildStops
      <3>3. ~MayAsk
        BY DEF MayAsk
      <3> QED
        BY <2>3, <3>1, <3>2, <3>3 DEF Next, Walking, AskFunction, AskLine
    <2> QED
      BY <2>2, <2>3
  <1> QED
    BY <1>2, <1>3, StackIsKept, ChunksAreRead, MappingsStayApart, PTL DEF Spec, WalkClimbs

-----------------------------------------------------------------------------
(* A backtrace shows the chain of calls, of a debuggee whose debug         *)
(* information describes it.                                               *)
THEOREM BacktraceShowsCallChain ==
  PlainNames /\ DescribesCode /\ DescribesFuncs => (Spec => []BacktraceIsCallChain)
  <1> SUFFICES ASSUME Supposed PROVE Spec => []BacktraceIsCallChain
    BY DEF Supposed
  <1>1. StackInv /\ FramesInv /\ WalkInv /\ ScansAreExact => BacktraceIsCallChain
    <2> SUFFICES ASSUME StackInv, FramesInv, WalkInv, ScansAreExact, at = "done", Framed, ~Stray
                 PROVE  LET up == Kept([i \in DOMAIN calls |-> i], {i \in DOMAIN calls : Reaches(i)})
                        IN  /\ Head(frames) = [func |-> NameOf(calls[1].func), pc |-> pc]
                            /\ Tail(frames) =
                                  SubSeq([k \in DOMAIN up |->
                                             [func |-> NameOf(calls[up[k] + 1].func), pc |-> calls[up[k]].ret - 1]],
                                         1, Min({MaxFrames - 1, Len(up)}))
      BY DEF BacktraceIsCallChain
    <2> DEFINE up == Kept([i \in DOMAIN calls |-> i], {i \in DOMAIN calls : Reaches(i)})
               shown == [k \in DOMAIN up |->
                            [func |-> NameOf(calls[up[k] + 1].func), pc |-> calls[up[k]].ret - 1]]
               l == Min({MaxFrames - 1, Len(up)})
    <2>1. scan = functionDies
      BY DEF ScansAreExact
    <2>2. Shows(frames, calls, pc, UpTo(calls, Len(calls)))
      BY <2>1 DEF WalkInv
    <2>3. up = UpTo(calls, Len(calls))
      <3>1. CallsTyped(calls) /\ Len(calls) \in Nat /\ DOMAIN calls = 1 .. Len(calls)
        BY TopFacts, StackFacts
      <3>2. [i \in DOMAIN calls |-> i] = Steps(calls) /\ {i \in DOMAIN calls : Reaches(i)} = HasFrame(calls)
        BY DEF Steps, HasFrame, Reaches
      <3>3. Len(Steps(calls)) = Len(calls)
        <4>1. Steps(calls) \in [1 .. Len(calls) -> Nat]
          BY <3>1 DEF Steps
        <4> QED
          BY <3>1, <4>1, FunctionIsSeq
      <3> QED
        BY <3>2, <3>3 DEF Kept, UpTo
    <2>4. up \in Seq(Nat) /\ Len(up) \in Nat /\ DOMAIN up = 1 .. Len(up)
      <3>1. CallsTyped(calls) /\ Len(calls) \in 0 .. Len(calls)
        BY TopFacts
      <3>2. UpTo(calls, Len(calls)) \in Seq(Nat)
        BY <3>1, UpToFacts
      <3> HIDE DEF up
      <3> QED
        BY <2>3, <3>2, LenProperties
    <2> HIDE DEF up
    <2>5. /\ Len(frames) = IF Len(up) < MaxFrames THEN Len(up) + 1 ELSE MaxFrames
          /\ frames[1] = [func |-> NameOf(calls[1].func), pc |-> pc]
          /\ \A k \in 1 .. Len(frames) - 1 :
                frames[k + 1] = [func |-> NameOf(calls[up[k] + 1].func), pc |-> calls[up[k]].ret - 1]
      BY <2>2, <2>3 DEF Shows
    <2>6. MaxFrames \in Nat /\ MaxFrames > 0 /\ MaxFrames - 1 \in Nat
      BY BacktraceAssumption
    <2>7. l \in {MaxFrames - 1, Len(up)} /\ l <= MaxFrames - 1 /\ l <= Len(up)
      <3>1. {MaxFrames - 1, Len(up)} \subseteq Nat /\ {MaxFrames - 1, Len(up)} # {}
        BY <2>4, <2>6
      <3> QED
        BY <3>1, MinFacts
    <2> HIDE DEF l
    <2>8. l = Len(frames) - 1 /\ l \in Nat /\ l <= Len(up) /\ Len(frames) > 0
      <3> DEFINE a == Len(up)
                 b == Len(frames)
                 c == MaxFrames
      <3>1. a \in Nat /\ c \in Nat /\ c > 0 /\ (l = c - 1 \/ l = a) /\ l <= c - 1 /\ l <= a
            /\ b = IF a < c THEN a + 1 ELSE c
        BY <2>4, <2>5, <2>6, <2>7
      <3> HIDE DEF a, b, c
      <3> QED
        BY <3>1 DEF a, b, c
    <2>9. frames # <<>> /\ frames \in Seq(FrameSet)
      <3>1. Len(<<>>) = 0
        OBVIOUS
      <3> QED
        BY <2>8, <3>1 DEF FramesInv
    <2>10. Head(frames) = frames[1]
      BY <2>9, HeadTailProperties
    <2>11. /\ Tail(frames) \in Seq(FrameSet) /\ Len(Tail(frames)) = l
           /\ \A k \in 1 .. l : Tail(frames)[k] = frames[k + 1]
      BY <2>8, <2>9, HeadTailProperties
    <2> DEFINE part == SubSeq(shown, 1, l)
    <2>12. part = [k \in 1 .. l |-> shown[k]]
      BY <2>8
    <2>13. ASSUME NEW k \in 1 .. l PROVE Tail(frames)[k] = shown[k]
      <3>1. k \in DOMAIN up /\ k \in 1 .. Len(frames) - 1
        BY <2>4, <2>8
      <3>2. shown[k] = [func |-> NameOf(calls[up[k] + 1].func), pc |-> calls[up[k]].ret - 1]
        BY <3>1
      <3>3. frames[k + 1] = [func |-> NameOf(calls[up[k] + 1].func), pc |-> calls[up[k]].ret - 1]
        BY <3>1, <2>5
      <3> HIDE DEF shown
      <3> QED
        BY <3>2, <3>3, <2>11
    <2>14. Tail(frames) = part
      <3>1. Tail(frames) = [k \in 1 .. l |-> Tail(frames)[k]]
        BY <2>11, LenProperties
      <3> HIDE DEF shown, part
      <3> QED
        BY <2>12, <2>13, <3>1
    <2>15. Tail(frames) = SubSeq(shown, 1, l) /\ Head(frames) = [func |-> NameOf(calls[1].func), pc |-> pc]
      BY <2>5, <2>10, <2>14
    <2> QED
      BY <2>15 DEF l, shown, up
  <1> QED
    BY <1>1, WalkIsKept, ScansStayExact, StackIsKept, FramesAreTyped, PTL

-----------------------------------------------------------------------------
(* Where a breakpoint is asked for.                                        *)

(* The answer stands until the next command.                               *)
Answered == asked # NothingAsked => at = "prompt"

(* A step forgets the answer, changes nothing, or gives one.               *)
LEMMA AnswerStands ==
  ASSUME Answered, [Next]_lookingVars
  PROVE  \/ asked' = NothingAsked
         \/ UNCHANGED lookingVars
         \/ \E choice \in 0 .. 2 : \E name \in Names : AskFunction(name, choice) /\ at' = "prompt"
         \/ \E choice \in 0 .. 2 : \E l \in Lines : AskLine(l, choice) /\ at' = "prompt"
  <1>1. CASE ChildRuns \/ AddressSpaceChanges
    BY <1>1 DEF Answered, ChildRuns, AddressSpaceChanges, lookVars
  <1>2. ASSUME NEW intact \in BOOLEAN, Start(intact) \/ ChildStops(intact) PROVE asked' = NothingAsked
    BY <1>2 DEF Answered, Start, ChildStops
  <1>3. CASE Resume \/ Meddle \/ PrintBacktrace
    BY <1>3 DEF Resume, Meddle, PrintBacktrace
  <1>4. CASE Walking
    BY <1>4 DEF Answered, Walking, NextFrame, LastFrame
  <1>5. CASE Done \/ UNCHANGED lookingVars
    BY <1>5 DEF Done
  <1>6. ASSUME NEW choice \in 0 .. 2, NEW name \in Names, AskFunction(name, choice)
        PROVE  asked' = NothingAsked \/ at' = "prompt"
    BY <1>6 DEF AskFunction, MayAsk, Ask
  <1>7. ASSUME NEW choice \in 0 .. 2, NEW l \in Lines, AskLine(l, choice) PROVE at' = "prompt"
    BY <1>7 DEF AskLine, Ask
  <1> QED
    BY <1>1, <1>2, <1>3, <1>4, <1>5, <1>6, <1>7 DEF Next

(* In every reachable state.                                               *)
LEMMA AnswersStand == Spec => []Answered
  <1>1. Init => Answered
    BY DEF Init, Answered
  <1>2. Answered /\ [Next]_lookingVars => Answered'
    <2> SUFFICES ASSUME Answered, [Next]_lookingVars PROVE Answered'
      OBVIOUS
    <2>1. CASE UNCHANGED lookingVars
      BY <2>1 DEF Answered, lookingVars, lookVars
    <2>2. asked' = NothingAsked \/ UNCHANGED lookingVars \/ at' = "prompt"
      BY AnswerStands
    <2> QED
      BY <2>1, <2>2 DEF Answered
  <1> QED
    BY <1>1, <1>2, PTL DEF Spec

(* The answer is one of the targets.                                       *)
LEMMA AskFacts ==
  ASSUME NEW what, NEW key, NEW choice, NEW targets, targets \subseteq Int, loadAddress \in Int,
         Ask(what, key, choice, targets), asked'.addr # None
  PROVE  /\ asked'.what = what /\ asked'.key = key
         /\ \E a \in targets : asked'.addr = a + loadAddress /\ asked'.addr - loadAddress = a
  <1>1. PICK addr \in IF targets = {} THEN {None} ELSE {a + loadAddress : a \in targets} :
           asked' = [what |-> what, key |-> key, choice |-> choice, addr |-> addr]
    BY DEF Ask
  <1>2. asked'.what = what /\ asked'.key = key /\ asked'.addr = addr
    BY <1>1
  <1>3. \E a \in targets : addr = a + loadAddress
    BY <1>1, <1>2
  <1>4. PICK a \in targets : addr = a + loadAddress
    BY <1>3
  <1>5. addr - loadAddress = a
    <2>1. a \in Int
      OBVIOUS
    <2>2. (a + loadAddress) - loadAddress = a
      BY <2>1
    <2> QED
      BY <1>4, <2>2
  <1> QED
    BY <1>2, <1>4, <1>5

(* A selection is one of the matches.                                      *)
LEMMA SelectedFacts ==
  ASSUME NEW matches, Len(matches) \in Nat, DOMAIN matches = 1 .. Len(matches), NEW choice
  PROVE  \A d \in Selected(matches, choice) : \E i \in 1 .. Len(matches) : d = matches[i]
  BY DEF Selected

(* The matches of a line are statements of that line.                      *)
LEMMA LineMatchFacts ==
  ASSUME NEW file, NEW line
  PROVE  /\ Len(LineMatches(file, line)) \in Nat
         /\ DOMAIN LineMatches(file, line) = 1 .. Len(LineMatches(file, line))
         /\ \A i \in 1 .. Len(LineMatches(file, line)) :
               \E u \in DOMAIN Units : \E k \in DOMAIN Units[u].lines :
                  /\ Units[u].file = file /\ LineMatches(file, line)[i] = Units[u].lines[k]
                  /\ Units[u].lines[k].line = line /\ Units[u].lines[k].stmt
                  /\ Units[u].lines[k].addr \in Nat
  <1> DEFINE First(u) == SelectInSeq(u.lines, LAMBDA e : e.line = line /\ e.stmt)
             Of(u) == IF u.file # file \/ First(u) = 0 THEN <<>> ELSE <<u.lines[First(u)]>>
             ss == [u \in DOMAIN Units |-> Of(Units[u])]
             M == LineMatches(file, line)
  <1>1. M = FlattenSeq(ss)
    BY DEF LineMatches
  <1>2. ASSUME NEW u \in DOMAIN Units
        PROVE  /\ Of(Units[u]) \in Seq(EntrySet)
               /\ \A j \in 1 .. Len(Of(Units[u])) : \E k \in DOMAIN Units[u].lines :
                     /\ Units[u].file = file /\ Of(Units[u])[j] = Units[u].lines[k]
                     /\ Units[u].lines[k].line = line /\ Units[u].lines[k].stmt
                     /\ Units[u].lines[k].addr \in Nat
    <2> DEFINE lines == Units[u].lines
               I == {i \in 1 .. Len(lines) : lines[i].line = line /\ lines[i].stmt}
               f == First(Units[u])
               o == Of(Units[u])
    <2>1. lines \in Seq(EntrySet) /\ Len(lines) \in Nat /\ DOMAIN lines = 1 .. Len(lines)
          /\ \A i \in 1 .. Len(lines) : lines[i] \in EntrySet
      BY UnitFacts, LenProperties, ElementOfSeq
    <2>2. f = IF I # {} THEN Min(I) ELSE 0
      BY DEF SelectInSeq
    <2>3. o = IF Units[u].file # file \/ f = 0 THEN <<>> ELSE <<lines[f]>>
      OBVIOUS
    <2>4. I # {} => Min(I) \in I
      <3>1. I \subseteq Nat
        BY <2>1
      <3> HIDE DEF I
      <3> QED
        BY <3>1, MinFacts
    <2> HIDE DEF o, f
    <2>5. CASE o = <<>>
      <3>1. o \in Seq(EntrySet) /\ Len(o) = 0
        BY <2>5
      <3>2. \A j \in 1 .. Len(o) : FALSE
        BY <3>1
      <3> HIDE DEF lines, I
      <3> QED
        BY <3>1, <3>2 DEF o
    <2>6. CASE o # <<>>
      <3>1. Units[u].file = file /\ f # 0 /\ o = <<lines[f]>>
        BY <2>3, <2>6
      <3>2. f \in I
        BY <2>2, <2>4, <3>1
      <3>3. f \in 1 .. Len(lines) /\ lines[f].line = line /\ lines[f].stmt /\ lines[f] \in EntrySet
        BY <2>1, <3>2
      <3>4. lines[f].addr \in Nat
        BY <3>3 DEF EntrySet
      <3> DEFINE e == lines[f]
      <3>5. e \in EntrySet /\ o = <<e>>
        BY <3>1, <3>3
      <3> HIDE DEF e
      <3>6. o \in Seq(EntrySet) /\ Len(o) = 1 /\ o[1] = e
        BY <3>5
      <3>7. \A j \in 1 .. Len(o) : o[j] = lines[f]
        BY <3>6 DEF e
      <3> QED
        BY <2>1, <3>1, <3>3, <3>4, <3>6, <3>7 DEF o
    <2> QED
      BY <2>5, <2>6
  <1> HIDE DEF Of
  <1>3. ss \in Seq(Seq(EntrySet)) /\ Len(ss) = Len(Units) /\ DOMAIN Units = 1 .. Len(Units)
    <2> DEFINE T == Seq(EntrySet)
    <2>1. DOMAIN Units = 1 .. Len(Units) /\ Len(Units) \in Nat
      BY UnitFacts
    <2>2. \A u \in DOMAIN Units : Of(Units[u]) \in T
      BY <1>2
    <2> HIDE DEF T
    <2>3. ss \in [1 .. Len(Units) -> T]
      BY <2>1, <2>2
    <2> HIDE DEF ss
    <2>4. ss \in Seq(T) /\ Len(ss) = Len(Units)
      BY <2>1, <2>3, FunctionIsSeq
    <2> QED
      BY <2>1, <2>4 DEF T
  <1>4. \A u \in DOMAIN Units : ss[u] = Of(Units[u])
    OBVIOUS
  <1> HIDE DEF ss, M
  <1>5. /\ M \in Seq(EntrySet) /\ Len(M) \in Nat
        /\ \A i \in 1 .. Len(M) : \E u \in 1 .. Len(ss) : \E k \in 1 .. Len(ss[u]) : M[i] = ss[u][k]
    BY <1>1, <1>3, FlattenElements
  <1>6. ASSUME NEW i \in 1 .. Len(M)
        PROVE  \E u \in DOMAIN Units : \E k \in DOMAIN Units[u].lines :
                  /\ Units[u].file = file /\ M[i] = Units[u].lines[k]
                  /\ Units[u].lines[k].line = line /\ Units[u].lines[k].stmt
                  /\ Units[u].lines[k].addr \in Nat
    <2>1. PICK u \in DOMAIN Units : \E j \in 1 .. Len(ss[u]) : M[i] = ss[u][j]
      BY <1>3, <1>5
    <2>2. PICK j \in 1 .. Len(ss[u]) : M[i] = ss[u][j]
      BY <2>1
    <2> QED
      BY <2>2, <1>2, <1>4
  <1> QED
    BY <1>5, <1>6, LenProperties DEF M

(* A breakpoint on a source line, of any debug information.                *)
THEOREM BreakpointStaysOnLine == Spec => []BreakpointOnLine
  <1>1. Init => BreakpointOnLine
    BY DEF Init, BreakpointOnLine, NothingAsked
  <1>2. Answered /\ ChunksInv /\ BreakpointOnLine /\ [Next]_lookingVars => BreakpointOnLine'
    <2> SUFFICES ASSUME Answered, ChunksInv, BreakpointOnLine, [Next]_lookingVars
                 PROVE  BreakpointOnLine'
      OBVIOUS
    <2>1. CASE asked' = NothingAsked
      BY <2>1 DEF BreakpointOnLine, NothingAsked
    <2>2. CASE UNCHANGED lookingVars
      BY <2>2 DEF BreakpointOnLine, Offset, lookingVars, lookVars, mapVars
    <2>3. ASSUME NEW choice \in 0 .. 2, NEW name \in Names, AskFunction(name, choice), asked' # NothingAsked
          PROVE  BreakpointOnLine'
      <3>1. asked'.what = "function"
        BY <2>3 DEF AskFunction, Ask, MayAsk
      <3> QED
        BY <3>1 DEF BreakpointOnLine
    <2>4. ASSUME NEW choice \in 0 .. 2, NEW l \in Lines, AskLine(l, choice) PROVE BreakpointOnLine'
      <3> SUFFICES ASSUME asked'.addr # None
                   PROVE  \E u \in DOMAIN Units : \E k \in DOMAIN Units[u].lines :
                             LET e == Units[u].lines[k]
                             IN  /\ Units[u].file = asked'.key[1] /\ e.line = asked'.key[2] /\ e.stmt
                                 /\ Offset(asked.addr)' = e.addr
                                 /\ e.file # asked'.key[1] => FromHeader(u, asked'.key[2])
        BY DEF BreakpointOnLine
      <3> DEFINE M == LineMatches(l[1], l[2])
                 targets == LineTargets(l[1], l[2], choice)
      <3>1. loadAddress \in Int /\ loadAddress' = loadAddress /\ Ask("line", l, choice, targets)
        BY <2>4 DEF ChunksInv, AskLine, mapVars
      <3>2. targets = {e.addr : e \in Selected(M, choice)}
        BY DEF LineTargets
      <3>3. ASSUME NEW a \in targets
            PROVE  \E u \in DOMAIN Units : \E k \in DOMAIN Units[u].lines :
                      /\ Units[u].file = l[1] /\ a = Units[u].lines[k].addr
                      /\ Units[u].lines[k].line = l[2] /\ Units[u].lines[k].stmt
                      /\ a \in Nat
        <4>1. PICK e \in Selected(M, choice) : a = e.addr
          BY <3>2
        <4>2. PICK i \in 1 .. Len(M) : e = M[i]
          BY LineMatchFacts, SelectedFacts
        <4> HIDE DEF M, targets
        <4> QED
          BY <4>1, <4>2, LineMatchFacts DEF M
      <3>4. targets \subseteq Int
        BY <3>3
      <3> HIDE DEF targets
      <3>5. asked'.key = l /\ \E a \in targets : asked'.addr = a + loadAddress /\ asked'.addr - loadAddress = a
        BY <3>1, <3>4, AskFacts
      <3>6. PICK a \in targets : asked'.addr - loadAddress = a
        BY <3>5
      <3>7. PICK u \in DOMAIN Units : \E k \in DOMAIN Units[u].lines :
                      /\ Units[u].file = l[1] /\ a = Units[u].lines[k].addr
                      /\ Units[u].lines[k].line = l[2] /\ Units[u].lines[k].stmt
        BY <3>3
      <3>8. PICK k \in DOMAIN Units[u].lines :
                      /\ Units[u].file = l[1] /\ a = Units[u].lines[k].addr
                      /\ Units[u].lines[k].line = l[2] /\ Units[u].lines[k].stmt
        BY <3>7
      <3>9. Offset(asked.addr)' = a
        BY <3>1, <3>6 DEF Offset
      <3>10. Units[u].lines[k].file # l[1] => FromHeader(u, l[2])
        BY <3>8 DEF FromHeader
      <3> QED
        BY <3>5, <3>8, <3>9, <3>10
    <2> QED
      BY <2>1, <2>2, <2>3, <2>4, AnswerStands
  <1> QED
    BY <1>1, <1>2, AnswersStand, ChunksAreRead, PTL DEF Spec

(* The entry that covers an address, and the next one.                     *)
LEMMA LineEntryFacts ==
  ASSUME NEW addr, NEW e \in LineEntries(addr)
  PROVE  /\ e[1] \in DOMAIN Units /\ In(addr, Units[e[1]])
         /\ e[2] \in Nat /\ e[2] \in DOMAIN Units[e[1]].lines /\ e[2] + 1 \in DOMAIN Units[e[1]].lines
         /\ Units[e[1]].lines[e[2]].addr <= addr /\ addr < Units[e[1]].lines[e[2] + 1].addr
  <1>1. /\ e \in UNION {{u} \X DOMAIN Units[u].lines : u \in DOMAIN Units}
        /\ In(addr, Units[e[1]]) /\ e[2] < Len(Units[e[1]].lines)
        /\ Units[e[1]].lines[e[2]].addr <= addr /\ addr < Units[e[1]].lines[e[2] + 1].addr
    BY DEF LineEntries
  <1>2. PICK u \in DOMAIN Units : e \in {u} \X DOMAIN Units[u].lines
    BY <1>1
  <1>3. e[1] = u /\ e[2] \in DOMAIN Units[u].lines
    BY <1>2
  <1>4. Len(Units[u].lines) \in Nat /\ DOMAIN Units[u].lines = 1 .. Len(Units[u].lines)
    BY UnitFacts, LenProperties
  <1>5. e[2] \in Nat /\ e[2] + 1 \in DOMAIN Units[u].lines
    <2> DEFINE k == e[2]
               n == Len(Units[u].lines)
    <2>1. k \in 1 .. n /\ n \in Nat /\ k < n
      BY <1>1, <1>3, <1>4
    <2> HIDE DEF k, n
    <2>2. k \in Nat /\ k + 1 \in 1 .. n
      BY <2>1
    <2> QED
      BY <2>2, <1>4 DEF k, n
  <1> QED
    BY <1>1, <1>3, <1>5

(* The addresses of a line table, by place.                                *)
LEMMA EntryFacts ==
  ASSUME NEW u \in DOMAIN Units
  PROVE  /\ DOMAIN Units[u].lines \subseteq Nat
         /\ \A k \in DOMAIN Units[u].lines : Units[u].lines[k].addr \in Nat
         /\ \A k, l \in DOMAIN Units[u].lines : k <= l => Units[u].lines[k].addr <= Units[u].lines[l].addr
  <1> DEFINE lines == Units[u].lines
  <1>1. lines \in Seq(EntrySet) /\ DOMAIN lines = 1 .. Len(lines)
        /\ \A k \in 1 .. Len(lines) : lines[k] \in EntrySet
    BY UnitFacts, LenProperties, ElementOfSeq
  <1>2. \A k \in DOMAIN lines : lines[k].addr \in Nat
    BY <1>1 DEF EntrySet
  <1>3. \A k, l \in DOMAIN lines : k < l => lines[k].addr <= lines[l].addr
    BY DwarfAssumption
  <1>4. DOMAIN lines \subseteq Nat
    BY <1>1
  <1> HIDE DEF lines
  <1>5. \A k, l \in DOMAIN lines : k <= l => lines[k].addr <= lines[l].addr
    <2>1. \A k, l \in DOMAIN lines : k <= l => k = l \/ k < l
      BY <1>4
    <2>2. \A k \in DOMAIN lines : lines[k].addr <= lines[k].addr
      BY <1>2
    <2> QED
      BY <1>3, <2>1, <2>2
  <1> QED
    BY <1>2, <1>4, <1>5 DEF lines

(* The matches of a name are dies that the scan takes, with that name.     *)
LEMMA NamedFacts ==
  ASSUME ScanInv, NEW name
  PROVE  /\ Len(Named(name, scan)) \in Nat /\ DOMAIN Named(name, scan) = 1 .. Len(Named(name, scan))
         /\ \A i \in 1 .. Len(Named(name, scan)) :
               /\ Named(name, scan)[i] \in DieSet /\ Named(name, scan)[i].name = name
               /\ \E u \in DOMAIN Units : \E k \in DOMAIN scan[u] : Named(name, scan)[i] = scan[u][k]
  <1> DEFINE dies == FlattenSeq(scan)
             T == {d \in ToSet(dies) : d.name = name}
             M == Kept(dies, T)
  <1>1. M = Named(name, scan)
    BY DEF Named
  <1>2. /\ DOMAIN scan = DOMAIN Units /\ DOMAIN Units = 1 .. Len(Units) /\ Len(Units) \in Nat
        /\ \A u \in DOMAIN Units : scan[u] \in Seq(DieSet) /\ DOMAIN scan[u] = 1 .. Len(scan[u])
    BY ScanIsOfDies, UnitFacts
  <1>3. scan = [u \in DOMAIN Units |-> scan[u]]
    <2>1. PICK past \in Past : scan = Scan(past)
      BY DEF ScanInv
    <2>2. Scan(past) = [u \in DOMAIN Units |-> Scan(past)[u]]
      BY DEF Scan
    <2> QED
      BY <2>1, <2>2
  <1>4. scan \in Seq(Seq(DieSet)) /\ Len(scan) = Len(Units)
    <2> DEFINE D == Seq(DieSet)
    <2>1. \A u \in DOMAIN Units : scan[u] \in D
      BY <1>2
    <2> HIDE DEF D
    <2>2. scan \in [1 .. Len(Units) -> D]
      BY <1>2, <1>3, <2>1
    <2>3. scan \in Seq(D) /\ Len(scan) = Len(Units)
      BY <1>2, <2>2, FunctionIsSeq
    <2> QED
      BY <2>3 DEF D
  <1>5. /\ dies \in Seq(DieSet) /\ Len(dies) \in Nat
        /\ \A i \in 1 .. Len(dies) :
              \E u \in 1 .. Len(scan) : \E k \in 1 .. Len(scan[u]) : dies[i] = scan[u][k]
    BY <1>4, FlattenElements
  <1> HIDE DEF dies, M
  <1>6. /\ M \in Seq(DieSet) /\ Len(M) \in Nat /\ DOMAIN M = 1 .. Len(M)
        /\ \A i \in 1 .. Len(M) : M[i] \in DieSet
        /\ \A i \in 1 .. Len(M) : \E j \in 1 .. Len(dies) : M[i] = dies[j] /\ dies[j] \in T
    <2> HIDE DEF T
    <2>1. /\ M \in Seq(DieSet) /\ Len(M) \in Nat
          /\ \A i \in 1 .. Len(M) : \E j \in 1 .. Len(dies) : M[i] = dies[j] /\ dies[j] \in T
      BY <1>5, KeptElements DEF M
    <2> QED
      BY <2>1, LenProperties, ElementOfSeq
  <1>7. ASSUME NEW i \in 1 .. Len(M)
        PROVE  M[i].name = name /\ \E u \in DOMAIN Units : \E k \in DOMAIN scan[u] : M[i] = scan[u][k]
    <2>1. PICK j \in 1 .. Len(dies) : M[i] = dies[j] /\ dies[j] \in T
      BY <1>6
    <2>2. PICK u \in 1 .. Len(scan) : \E k \in 1 .. Len(scan[u]) : dies[j] = scan[u][k]
      BY <1>5
    <2>3. u \in DOMAIN Units /\ DOMAIN scan[u] = 1 .. Len(scan[u])
      BY <1>2, <1>4
    <2> QED
      BY <2>1, <2>2, <2>3
  <1> QED
    BY <1>1, <1>6, <1>7

(* Behind the prologue of a function that has lines at two addresses is an *)
(* address in the function.                                                *)
LEMMA PrologueEndsInside ==
  ASSUME DescribesCode, NEW v \in DOMAIN Units, NEW d \in ToSet(functionDies[v]),
         NEW a \in AfterPrologue(d), ~OneLine(d)
  PROVE  In(a, d)
  <1>1. PICK e \in LineEntries(d.low) : a = Units[e[1]].lines[e[2] + 1].addr
    BY DEF AfterPrologue
  <1>2. PICK u \in DOMAIN Units : \E k, l \in DOMAIN Units[u].lines :
              /\ In(Units[u].lines[k].addr, d) /\ In(Units[u].lines[l].addr, d)
              /\ Units[u].lines[k].addr # Units[u].lines[l].addr
    BY DEF OneLine
  <1>3. PICK k \in DOMAIN Units[u].lines, l \in DOMAIN Units[u].lines :
              /\ In(Units[u].lines[k].addr, d) /\ In(Units[u].lines[l].addr, d)
              /\ Units[u].lines[k].addr # Units[u].lines[l].addr
    BY <1>2
  <1> DEFINE w == e[1]
             A == Units[u].lines[k].addr
             B == Units[u].lines[l].addr
             vl == Units[v].low
             vh == Units[v].high
             ul == Units[u].low
             uh == Units[u].high
             wl == Units[w].low
             wh == Units[w].high
  <1>4. /\ w \in DOMAIN Units /\ wl <= d.low /\ d.low < wh
        /\ e[2] \in Nat /\ e[2] \in DOMAIN Units[w].lines /\ e[2] + 1 \in DOMAIN Units[w].lines
        /\ Units[w].lines[e[2]].addr <= d.low /\ d.low < a
    BY <1>1, LineEntryFacts DEF In
  <1>5. /\ d.low \in Nat /\ d.high \in Nat
    <2>1. d \in DieSet
      BY ListedFacts
    <2> QED
      BY <2>1 DEF DieSet
  <1>6. vl <= d.low /\ d.high <= vh /\ ul <= A /\ A <= uh /\ ul <= B /\ B <= uh
    BY DEF DescribesCode
  <1>7. d.low <= A /\ A < d.high /\ d.low <= B /\ B < d.high /\ A # B
    BY <1>3 DEF In
  <1>8. vl \in Nat /\ vh \in Nat /\ ul \in Nat /\ uh \in Nat /\ wl \in Nat /\ wh \in Nat
        /\ A \in Nat /\ B \in Nat
    BY <1>4, UnitFacts, EntryFacts
  <1>9. /\ u # v => uh <= vl \/ vh <= ul
        /\ w # v => wh <= vl \/ vh <= wl
    BY <1>4 DEF DescribesCode
  <1> HIDE DEF vl, vh, ul, uh, wl, wh, A, B, w
  <1>10. u = v /\ w = v
    BY <1>4, <1>5, <1>6, <1>7, <1>8, <1>9
  <1>11. a = Units[v].lines[e[2] + 1].addr /\ e[2] + 1 \in DOMAIN Units[v].lines
         /\ e[2] \in DOMAIN Units[v].lines /\ Units[v].lines[e[2]].addr <= d.low
    BY <1>1, <1>4, <1>10 DEF w
  <1>12. ASSUME NEW m \in DOMAIN Units[v].lines, d.low < Units[v].lines[m].addr, Units[v].lines[m].addr < d.high
         PROVE  a < d.high
    <2> DEFINE x == Units[v].lines[m].addr
               y == Units[v].lines[e[2]].addr
               c == e[2]
    <2>1. /\ x \in Nat /\ y \in Nat /\ a \in Nat /\ m \in Nat /\ c \in Nat
          /\ m <= c => x <= y
          /\ c + 1 <= m => a <= x
      BY <1>4, <1>11, EntryFacts
    <2>2. d.low < x /\ x < d.high /\ y <= d.low
      BY <1>11, <1>12
    <2> HIDE DEF x, y, c
    <2>3. c + 1 <= m
      BY <1>5, <2>1, <2>2
    <2> QED
      BY <1>5, <2>1, <2>2, <2>3
  <1>13. d.low < A \/ d.low < B
    BY <1>5, <1>7, <1>8
  <1>14. a < d.high
    BY <1>7, <1>10, <1>12, <1>13 DEF A, B
  <1>15. a \in Nat
    BY <1>11, EntryFacts
  <1> QED
    BY <1>4, <1>5, <1>14, <1>15 DEF In

(* Code that is loaded stays where a breakpoint is accepted.               *)
LEMMA LoadedCodeIsBreakable ==
  ASSUME NEW r \in Int, MapsOK(maps, r), NEW intact \in BOOLEAN, ReadFrom(chunks, maps, intact),
         NEW l \in DOMAIN Loaded, OutsideStack(Loaded[l]), "x" \in Loaded[l].perms,
         NEW addr \in Int, Covers(Loaded[l], addr)
  PROVE  Breakable(addr)
  <1>1. PICK s \in DOMAIN maps : SameRange(maps[s], Loaded[l])
    BY DEF MapsOK
  <1>2. Covers(maps[s], addr) /\ maps[s].perms = Loaded[l].perms
    BY <1>1 DEF SameRange, Covers
  <1>3. ChunkAt(addr) # 0 /\ chunks[ChunkAt(addr)].perms = maps[s].perms
    BY <1>2, ChunkOfAddress
  <1> QED
    BY <1>2, <1>3 DEF Breakable

(* A target of a function's name is behind the prologue of a match, on a   *)
(* line of some unit.                                                      *)
LEMMA FunctionTargetFacts ==
  ASSUME ScanInv, NEW name, NEW choice, NEW a \in FunctionTargets(name, choice, scan)
  PROVE  /\ a \in Nat
         /\ \E u \in DOMAIN Units : \E k \in DOMAIN Units[u].lines : a = Units[u].lines[k].addr
         /\ \E u \in DOMAIN Units : \E k \in DOMAIN scan[u] :
               scan[u][k].name = name /\ a \in AfterPrologue(scan[u][k])
  <1>1. PICK d \in Selected(Named(name, scan), choice) : a \in AfterPrologue(d)
    BY DEF FunctionTargets
  <1>2. PICK i \in 1 .. Len(Named(name, scan)) : d = Named(name, scan)[i]
    BY NamedFacts, SelectedFacts
  <1>3. d.name = name /\ \E u \in DOMAIN Units : \E k \in DOMAIN scan[u] : d = scan[u][k]
    BY <1>2, NamedFacts
  <1>4. PICK e \in LineEntries(d.low) : a = Units[e[1]].lines[e[2] + 1].addr
    BY <1>1 DEF AfterPrologue
  <1>5. e[1] \in DOMAIN Units /\ e[2] + 1 \in DOMAIN Units[e[1]].lines
    BY LineEntryFacts
  <1>6. a \in Nat
    BY <1>4, <1>5, EntryFacts
  <1> QED
    BY <1>1, <1>3, <1>4, <1>5, <1>6

(* A breakpoint on a function is where one is accepted and, of a function  *)
(* that has lines at two addresses, in the function: in a debuggee whose   *)
(* debug information describes its code.                                   *)
THEOREM BreakpointLandsInFunction ==
  PlainNames /\ DescribesCode => (Spec => []BreakpointInFunction)
  <1> SUFFICES ASSUME PlainNames, DescribesCode PROVE Spec => []BreakpointInFunction
    OBVIOUS
  <1>1. Init => BreakpointInFunction
    BY DEF Init, BreakpointInFunction, NothingAsked
  <1>2. /\ StackInv /\ MapsOK(maps, rsp) /\ ChunksInv /\ ScanInv /\ ScansAreExact
        /\ Answered /\ BreakpointInFunction /\ [Next]_lookingVars
        => BreakpointInFunction'
    <2> SUFFICES ASSUME StackInv, MapsOK(maps, rsp), ChunksInv, ScanInv, ScansAreExact,
                        Answered, BreakpointInFunction, [Next]_lookingVars
                 PROVE  BreakpointInFunction'
      OBVIOUS
    <2>1. CASE asked' = NothingAsked
      BY <2>1 DEF BreakpointInFunction, NothingAsked
    <2>2. CASE UNCHANGED lookingVars
      BY <2>2 DEF BreakpointInFunction, Breakable, ChunkAt, SelectInSeq, Covers, Offset, Stray,
                  lookingVars, lookVars, mapVars
    <2>3. ASSUME NEW choice \in 0 .. 2, NEW l \in Lines, AskLine(l, choice) PROVE BreakpointInFunction'
      <3>1. asked'.what = "line"
        BY <2>3 DEF AskLine, Ask
      <3> QED
        BY <3>1 DEF BreakpointInFunction
    <2>4. ASSUME NEW choice \in 0 .. 2, NEW name \in Names, AskFunction(name, choice), asked' # NothingAsked
          PROVE  BreakpointInFunction'
      <3> SUFFICES ASSUME asked'.addr # None
                   PROVE  /\ Breakable(asked.addr)'
                          /\ \/ \E u \in DOMAIN Units : \E d \in ToSet(functionDies[u]) :
                                   d.name = asked'.key /\ (OneLine(d) \/ In(Offset(asked.addr)', d))
                             \/ Stray'
        BY DEF BreakpointInFunction
      <3> DEFINE targets == FunctionTargets(name, choice, scan)
      <3>1. /\ at = "prompt" /\ UNCHANGED <<mapVars, scan>> /\ Ask("function", name, choice, targets)
        BY <2>4 DEF AskFunction, MayAsk
      <3>2. chunks' = chunks /\ loadAddress' = loadAddress /\ loadAddress = Base /\ loadAddress \in Int
        BY <3>1 DEF mapVars, ChunksInv
      <3>3. PICK intact \in BOOLEAN : ReadFrom(chunks, maps, intact)
        BY <3>1 DEF ChunksInv
      <3>4. targets \subseteq Int
        BY FunctionTargetFacts
      <3> HIDE DEF targets
      <3>5. asked'.key = name /\ \E a \in targets : asked'.addr = a + loadAddress /\ asked'.addr - loadAddress = a
        BY <3>1, <3>2, <3>4, AskFacts
      <3>6. PICK a \in targets : asked'.addr = a + loadAddress /\ asked'.addr - loadAddress = a
        BY <3>5
      <3>7. /\ a \in Nat
            /\ \E u \in DOMAIN Units : \E k \in DOMAIN Units[u].lines : a = Units[u].lines[k].addr
            /\ \E u \in DOMAIN Units : \E k \in DOMAIN scan[u] :
                  scan[u][k].name = name /\ a \in AfterPrologue(scan[u][k])
        BY FunctionTargetFacts DEF targets
      <3>8. Breakable(asked.addr)'
        <4>1. PICK l \in DOMAIN Loaded : /\ OutsideStack(Loaded[l]) /\ "x" \in Loaded[l].perms
                                         /\ Covers(Loaded[l], a + Base)
          BY <3>7 DEF DescribesCode
        <4>2. a + Base \in Int /\ rsp \in Int
          BY <3>2, <3>7 DEF StackInv
        <4>3. Breakable(a + Base)
          BY <3>3, <4>1, <4>2, LoadedCodeIsBreakable
        <4>4. asked'.addr = a + Base
          BY <3>2, <3>6
        <4> QED
          BY <3>2, <4>3, <4>4 DEF Breakable, ChunkAt, SelectInSeq, Covers
      <3>9. Offset(asked.addr)' = a /\ (Stray' <=> Stray)
        BY <3>1, <3>2, <3>6 DEF Offset, Stray
      <3>10. ASSUME ~Stray
             PROVE  \E u \in DOMAIN Units : \E d \in ToSet(functionDies[u]) :
                       d.name = name /\ (OneLine(d) \/ In(a, d))
        <4>1. scan = functionDies
          BY <3>10 DEF ScansAreExact
        <4>2. PICK u \in DOMAIN Units : \E k \in DOMAIN functionDies[u] :
                 functionDies[u][k].name = name /\ a \in AfterPrologue(functionDies[u][k])
          BY <3>7, <4>1
        <4>3. PICK k \in DOMAIN functionDies[u] :
                 functionDies[u][k].name = name /\ a \in AfterPrologue(functionDies[u][k])
          BY <4>2
        <4> DEFINE d == functionDies[u][k]
        <4>4. d \in ToSet(functionDies[u])
          BY ListedFacts
        <4> HIDE DEF d
        <4>5. OneLine(d) \/ In(a, d)
          BY <4>3, <4>4, PrologueEndsInside DEF d
        <4> QED
          BY <4>3, <4>4, <4>5 DEF d
      <3> QED
        BY <3>5, <3>8, <3>9, <3>10
    <2> QED
      BY <2>1, <2>2, <2>3, <2>4, AnswerStands
  <1> QED
    BY <1>1, <1>2, AnswersStand, StackIsKept, MappingsStayApart, ChunksAreRead, ScanIsOne,
       ScansStayExact, PTL DEF Spec
=============================================================================
