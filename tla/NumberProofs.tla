----------------------------- MODULE NumberProofs -----------------------------
(***************************************************************************)
(* Numbers that grow and numbers that come down. Doublings is what its     *)
(* recursive definition says, and it grows: both are shown by way of a     *)
(* smallest counterexample. A measure of several numbers, compared like    *)
(* words in a dictionary, does not come down for ever: the theorems that   *)
(* say how much work a component has left are about such measures.         *)
(***************************************************************************)
EXTENDS Doubling, TLAPS, WellFoundedInduction

LEMMA SmallestElement ==
  ASSUME NEW S \in SUBSET Nat, S # {}
  PROVE  \E n \in S : \A m \in S : n <= m
<1> DEFINE Less == OpToRel(<, Nat)
<1>1. IsWellFoundedOn(Less, Nat)
  BY NatLessThanWellFounded
<1>2. Less = {ss \in Nat \X Nat : ss[1] < ss[2]}
  BY DEF OpToRel
<1> HIDE DEF Less
<1>3. PICK n \in S : \A m \in S : ~ (<<m, n>> \in Less)
  BY <1>1, WFMin
<1>4. ASSUME NEW m \in S PROVE n <= m
  <2>1. n \in Nat /\ m \in Nat
    OBVIOUS
  <2>2. <<m, n>> \in {ss \in Nat \X Nat : ss[1] < ss[2]} <=> m < n
    BY <2>1
  <2>3. ~ (m < n)
    BY <1>2, <1>3, <2>2
  <2>4. QED
    BY <2>1, <2>3
<1>5. QED
  BY <1>4

-----------------------------------------------------------------------------
(* The recursive definition has a solution.                                *)

DoublingStep(f, c, k) == IF k = 0 THEN c ELSE 2 * f[k - 1]

Doubles(f, c, n) == f \in [0 .. n -> Nat] /\ \A k \in 0 .. n : f[k] = DoublingStep(f, c, k)

LEMMA SomethingDoubles ==
  ASSUME NEW c \in Nat
  PROVE  \A n \in Nat : \E f : Doubles(f, c, n)
<1> DEFINE S == {n \in Nat : ~ \E f : Doubles(f, c, n)}
<1> SUFFICES ASSUME S # {} PROVE FALSE
  OBVIOUS
<1>1. PICK n \in S : \A m \in S : n <= m
  <2> HIDE DEF S
  <2>1. S \in SUBSET Nat
    BY DEF S
  <2>2. QED
    BY <2>1, SmallestElement
<1>2. n \in Nat /\ ~ \E f : Doubles(f, c, n)
  OBVIOUS
<1>3. CASE n = 0
  <2>1. Doubles([k \in 0 .. 0 |-> c], c, 0)
    BY DEF Doubles, DoublingStep
  <2>2. QED
    BY <1>2, <1>3, <2>1
<1>4. CASE n # 0
  <2>1. n - 1 \in Nat /\ n - 1 \notin S
    BY <1>1, <1>2, <1>4
  <2>2. PICK f : Doubles(f, c, n - 1)
    BY <2>1
  <2> DEFINE g == [k \in 0 .. n |-> IF k = n THEN 2 * f[n - 1] ELSE f[k]]
  <2>3. Doubles(g, c, n)
    BY <1>2, <1>4, <2>1, <2>2 DEF Doubles, DoublingStep
  <2>4. QED
    BY <1>2, <2>3
<1>5. QED
  BY <1>3, <1>4

LEMMA DoublingsDouble ==
  ASSUME NEW c \in Nat, NEW n \in Nat
  PROVE  Doubles(Doublings(c, n), c, n)
<1> DEFINE Solves(f) == f = [k \in 0 .. n |-> DoublingStep(f, c, k)]
<1>1. \E f : Solves(f)
  <2>1. PICK f : Doubles(f, c, n)
    BY SomethingDoubles
  <2>2. Solves(f)
    BY <2>1 DEF Doubles
  <2>3. QED
    BY <2>2
<1>2. Doublings(c, n) = CHOOSE f : Solves(f)
  BY DEF Doublings, DoublingStep
<1> DEFINE d == Doublings(c, n)
<1>3. Solves(d)
  <2> HIDE DEF Solves
  <2>1. QED
    BY <1>1, <1>2
<1>4. DOMAIN d = 0 .. n /\ \A k \in 0 .. n : d[k] = DoublingStep(d, c, k)
  <2> HIDE DEF d
  <2>1. QED
    BY <1>3
<1> HIDE DEF d
<1>5. \A k \in 0 .. n : d[k] \in Nat
  <2> DEFINE S == {k \in 0 .. n : d[k] \notin Nat}
  <2> SUFFICES ASSUME S # {} PROVE FALSE
    OBVIOUS
  <2>1. PICK k \in S : \A m \in S : k <= m
    <3> HIDE DEF S
    <3>1. S \in SUBSET Nat
      BY DEF S
    <3>2. QED
      BY <3>1, SmallestElement
  <2>2. CASE k = 0
    BY <1>4, <2>2 DEF DoublingStep
  <2>3. CASE k # 0
    <3>1. k - 1 \in 0 .. n /\ k - 1 \notin S
      BY <2>1, <2>3
    <3>2. d[k] = 2 * d[k - 1]
      BY <1>4, <2>3 DEF DoublingStep
    <3>3. QED
      BY <3>1, <3>2
  <2>4. QED
    BY <2>2, <2>3
<1>6. d = [k \in 0 .. n |-> d[k]]
  BY <1>3
<1>7. QED
  BY <1>4, <1>5, <1>6 DEF Doubles, d

\* What the proofs about the loops need of it.
THEOREM DoublingsGrow ==
  ASSUME NEW c \in Nat, NEW n \in Nat
  PROVE  /\ Doublings(c, n) \in [0 .. n -> Nat]
         /\ Doublings(c, n)[0] = c
         /\ \A k \in 0 .. n - 1 : Doublings(c, n)[k + 1] = 2 * Doublings(c, n)[k]
         /\ \A j, k \in 0 .. n : j <= k => Doublings(c, n)[j] <= Doublings(c, n)[k]
<1> DEFINE d == Doublings(c, n)
<1>1. Doubles(d, c, n)
  BY DoublingsDouble
<1> HIDE DEF d
<1>2. d \in [0 .. n -> Nat] /\ d[0] = c
  BY <1>1 DEF Doubles, DoublingStep
<1>3. \A k \in 0 .. n - 1 : d[k + 1] = 2 * d[k]
  <2> SUFFICES ASSUME NEW k \in 0 .. n - 1 PROVE d[k + 1] = 2 * d[k]
    OBVIOUS
  <2>1. k + 1 \in 0 .. n /\ k + 1 # 0 /\ (k + 1) - 1 = k
    OBVIOUS
  <2>2. QED
    BY <1>1, <2>1 DEF Doubles, DoublingStep
<1>4. ASSUME NEW j \in 0 .. n
      PROVE  \A k \in 0 .. n : j <= k => d[j] <= d[k]
  <2> DEFINE S == {k \in 0 .. n : j <= k /\ ~(d[j] <= d[k])}
  <2> SUFFICES ASSUME S # {} PROVE FALSE
    OBVIOUS
  <2>1. PICK k \in S : \A m \in S : k <= m
    <3> HIDE DEF S
    <3>1. S \in SUBSET Nat
      BY DEF S
    <3>2. QED
      BY <3>1, SmallestElement
  <2>2. k # j
    BY <1>2
  <2>3. k - 1 \in 0 .. n /\ j <= k - 1 /\ k - 1 \notin S
    BY <2>1, <2>2
  <2>4. d[(k - 1) + 1] = 2 * d[k - 1]
    BY <1>3, <2>3
  <2>5. d[k] = 2 * d[k - 1] /\ d[j] <= d[k - 1] /\ d[k - 1] \in Nat /\ d[j] \in Nat
    BY <1>2, <2>3, <2>4
  <2>6. QED
    BY <2>5
<1>5. QED
  BY <1>2, <1>3, <1>4 DEF d

-----------------------------------------------------------------------------
(* Coming down.                                                            *)

\* A measure of n numbers has come down: the first number that changed is smaller.
Down(n, new, old) == <<new, old>> \in LexProductOrdering(OpToRel(<, Nat), Nat, n)

\* A measure cannot come down for ever, whatever the later numbers do each time.
THEOREM NothingComesDownForEver ==
  ASSUME NEW n \in Nat
  PROVE  ~ \E f \in [Nat -> [1 .. n -> Nat]] : \A k \in Nat : Down(n, f[k + 1], f[k])
<1>1. IsWellFoundedOn(OpToRel(<, Nat), Nat)
  BY NatLessThanWellFounded
<1>2. IsWellFoundedOn(LexProductOrdering(OpToRel(<, Nat), Nat, n), [1 .. n -> Nat])
  BY <1>1, WFLexProductOrdering
<1>3. QED
  BY <1>2 DEF IsWellFoundedOn, Down

LEMMA DownIs ==
  ASSUME NEW n \in Nat, NEW new \in [1 .. n -> Nat], NEW old \in [1 .. n -> Nat],
         NEW j \in 1 .. n, \A i \in 1 .. j - 1 : new[i] = old[i], new[j] < old[j]
  PROVE  Down(n, new, old)
<1>1. <<new[j], old[j]>> \in OpToRel(<, Nat)
  BY DEF OpToRel
<1>2. QED
  BY <1>1 DEF Down, LexProductOrdering

LEMMA PairDown ==
  ASSUME NEW a \in Nat, NEW b \in Nat, NEW c \in Nat, NEW d \in Nat,
         a < c \/ (a = c /\ b < d)
  PROVE  <<a, b>> \in [1 .. 2 -> Nat] /\ Down(2, <<a, b>>, <<c, d>>)
<1>1. <<a, b>> \in [1 .. 2 -> Nat] /\ <<c, d>> \in [1 .. 2 -> Nat]
  OBVIOUS
<1>2. CASE a < c
  <2>1. 1 \in 1 .. 2 /\ \A i \in 1 .. 1 - 1 : <<a, b>>[i] = <<c, d>>[i]
    OBVIOUS
  <2>2. QED
    BY <1>1, <1>2, <2>1, DownIs
<1>3. CASE a = c /\ b < d
  <2>1. 2 \in 1 .. 2 /\ \A i \in 1 .. 2 - 1 : <<a, b>>[i] = <<c, d>>[i]
    BY <1>3
  <2>2. QED
    BY <1>1, <1>3, <2>1, DownIs
<1>4. QED
  BY <1>1, <1>2, <1>3

LEMMA TripleDown ==
  ASSUME NEW a \in Nat, NEW b \in Nat, NEW c \in Nat,
         NEW x \in Nat, NEW y \in Nat, NEW z \in Nat,
         a < x \/ (a = x /\ b < y) \/ (a = x /\ b = y /\ c < z)
  PROVE  <<a, b, c>> \in [1 .. 3 -> Nat] /\ Down(3, <<a, b, c>>, <<x, y, z>>)
<1>1. <<a, b, c>> \in [1 .. 3 -> Nat] /\ <<x, y, z>> \in [1 .. 3 -> Nat]
  OBVIOUS
<1>2. CASE a < x
  <2>1. 1 \in 1 .. 3 /\ \A i \in 1 .. 1 - 1 : <<a, b, c>>[i] = <<x, y, z>>[i]
    OBVIOUS
  <2>2. QED
    BY <1>1, <1>2, <2>1, DownIs
<1>3. CASE a = x /\ b < y
  <2>1. 2 \in 1 .. 3 /\ \A i \in 1 .. 2 - 1 : <<a, b, c>>[i] = <<x, y, z>>[i]
    BY <1>3
  <2>2. QED
    BY <1>1, <1>3, <2>1, DownIs
<1>4. CASE a = x /\ b = y /\ c < z
  <2>1. 3 \in 1 .. 3 /\ \A i \in 1 .. 3 - 1 : <<a, b, c>>[i] = <<x, y, z>>[i]
    BY <1>4
  <2>2. QED
    BY <1>1, <1>4, <2>1, DownIs
<1>5. QED
  BY <1>1, <1>2, <1>3, <1>4

===============================================================================
