------------------------------ MODULE JsonProofs ------------------------------
(***************************************************************************)
(* The text of every value reads back as that value: for all characters,   *)
(* however deep it nests.                                                  *)
(***************************************************************************)
EXTENDS JsonDocument, TLAPS, WellFoundedInduction, SequenceTheorems

-----------------------------------------------------------------------------
(* Induction over numbers, by a smallest counterexample.                   *)

LEMMA NumberInduction ==
  ASSUME NEW S \in SUBSET Nat, 0 \in S, \A n \in S : n + 1 \in S
  PROVE  \A n \in Nat : n \in S
<1> DEFINE Less == OpToRel(<, Nat)
<1>1. IsWellFoundedOn(Less, Nat)
  BY NatLessThanWellFounded
<1>2. Less = {ss \in Nat \X Nat : ss[1] < ss[2]}
  BY DEF OpToRel
<1> HIDE DEF Less
<1> SUFFICES ASSUME Nat \ S # {} PROVE FALSE
  OBVIOUS
<1>3. PICK n \in Nat \ S : \A m \in Nat \ S : ~ (<<m, n>> \in Less)
  <2>1. Nat \ S \in SUBSET Nat
    OBVIOUS
  <2>2. QED
    BY <1>1, <2>1, WFMin
<1>4. n # 0 /\ n - 1 \in Nat /\ (n - 1) + 1 = n
  BY <1>3
<1>5. n - 1 \in S
  <2>1. <<n - 1, n>> \in {ss \in Nat \X Nat : ss[1] < ss[2]} <=> n - 1 < n
    BY <1>4
  <2>2. QED
    BY <1>2, <1>3, <1>4, <2>1
<1>6. QED
  BY <1>3, <1>4, <1>5

-----------------------------------------------------------------------------
(* Joining texts.                                                          *)

FlatStep(ss, f, i) == IF i = 1 THEN ss[i] ELSE f[i - 1] \o ss[i]
Flattens(ss, f) == f = [i \in 1 .. Len(ss) |-> FlatStep(ss, f, i)]

LEMMA FlattensOnce ==
  ASSUME NEW S, NEW ss \in Seq(Seq(S)), NEW tt \in Seq(Seq(S)), NEW f, NEW g,
         Flattens(ss, f), Flattens(tt, g), Len(ss) <= Len(tt),
         \A i \in 1 .. Len(ss) : tt[i] = ss[i]
  PROVE  \A i \in 1 .. Len(ss) : f[i] = g[i] /\ f[i] \in Seq(S)
<1> DEFINE P(n) == n + 1 \in 1 .. Len(ss) => f[n + 1] = g[n + 1] /\ f[n + 1] \in Seq(S)
           T == {n \in Nat : P(n)}
<1>1. \A i \in 1 .. Len(ss) : f[i] = FlatStep(ss, f, i) /\ g[i] = FlatStep(tt, g, i)
  <2>1. \A i \in 1 .. Len(ss) : f[i] = FlatStep(ss, f, i)
    BY DEF Flattens
  <2>2. \A i \in 1 .. Len(tt) : g[i] = FlatStep(tt, g, i)
    BY DEF Flattens
  <2>3. 1 .. Len(ss) \subseteq 1 .. Len(tt)
    OBVIOUS
  <2>4. QED
    BY <2>1, <2>2, <2>3
<1>2. \A i \in 1 .. Len(ss) : ss[i] \in Seq(S)
  OBVIOUS
<1>3. P(0)
  BY <1>1, <1>2 DEF FlatStep
<1>4. ASSUME NEW n \in Nat, P(n) PROVE P(n + 1)
  <2> SUFFICES ASSUME (n + 1) + 1 \in 1 .. Len(ss)
               PROVE  f[(n + 1) + 1] = g[(n + 1) + 1] /\ f[(n + 1) + 1] \in Seq(S)
    OBVIOUS
  <2>1. n + 1 \in 1 .. Len(ss) /\ (n + 1) + 1 # 1 /\ ((n + 1) + 1) - 1 = n + 1
    OBVIOUS
  <2>2. f[n + 1] = g[n + 1] /\ f[n + 1] \in Seq(S)
    BY <1>4, <2>1
  <2>3. f[(n + 1) + 1] = f[n + 1] \o ss[(n + 1) + 1]
    BY <1>1, <2>1 DEF FlatStep
  <2>4. g[(n + 1) + 1] = g[n + 1] \o tt[(n + 1) + 1]
    BY <1>1, <2>1 DEF FlatStep
  <2>5. ss[(n + 1) + 1] \in Seq(S)
    BY <1>2
  <2>6. f[n + 1] \o ss[(n + 1) + 1] \in Seq(S)
    BY <2>2, <2>5, ConcatProperties
  <2>7. tt[(n + 1) + 1] = ss[(n + 1) + 1]
    OBVIOUS
  <2>8. QED
    BY <2>2, <2>3, <2>4, <2>6, <2>7
<1>5. \A n \in Nat : n \in T
  <2>1. 0 \in T /\ \A n \in T : n + 1 \in T
    <3> HIDE DEF P
    <3>1. QED
      BY <1>3, <1>4
  <2> HIDE DEF T
  <2>2. T \in SUBSET Nat
    BY DEF T
  <2>3. QED
    BY <2>1, <2>2, NumberInduction
<1>6. QED
  <2> SUFFICES ASSUME NEW i \in 1 .. Len(ss) PROVE f[i] = g[i] /\ f[i] \in Seq(S)
    OBVIOUS
  <2>1. i - 1 \in Nat /\ (i - 1) + 1 = i
    OBVIOUS
  <2>2. i - 1 \in T
    <3> HIDE DEF T
    <3>1. QED
      BY <1>5, <2>1
  <2>3. QED
    BY <2>1, <2>2

LEMMA SomethingFlattens ==
  ASSUME NEW S
  PROVE  \A ss \in Seq(Seq(S)) : \E f : Flattens(ss, f)
<1> DEFINE P(n) == \A ss \in Seq(Seq(S)) : Len(ss) = n => \E f : Flattens(ss, f)
           T == {n \in Nat : P(n)}
<1>1. P(0)
  <2> SUFFICES ASSUME NEW ss \in Seq(Seq(S)), Len(ss) = 0 PROVE \E f : Flattens(ss, f)
    OBVIOUS
  <2>1. Flattens(ss, [i \in 1 .. 0 |-> <<>>])
    BY DEF Flattens
  <2>2. QED
    BY <2>1
<1>2. ASSUME NEW n \in Nat, P(n) PROVE P(n + 1)
  <2> SUFFICES ASSUME NEW ss \in Seq(Seq(S)), Len(ss) = n + 1 PROVE \E f : Flattens(ss, f)
    OBVIOUS
  <2> DEFINE rr == SubSeq(ss, 1, n)
  <2>1. rr \in Seq(Seq(S)) /\ Len(rr) = n /\ \A i \in 1 .. n : rr[i] = ss[i]
    OBVIOUS
  <2> HIDE DEF rr
  <2>2. PICK f : Flattens(rr, f)
    BY <1>2, <2>1
  <2> DEFINE g == [i \in 1 .. n + 1 |->
                     IF i = n + 1 THEN FlatStep(ss, f, n + 1) ELSE f[i]]
  <2>3. \A i \in 1 .. n : f[i] = FlatStep(rr, f, i)
    BY <2>1, <2>2 DEF Flattens
  <2>4. \A i \in 1 .. n + 1 : g[i] = FlatStep(ss, g, i)
    BY <2>1, <2>3 DEF FlatStep
  <2>5. g = [i \in 1 .. n + 1 |-> g[i]]
    OBVIOUS
  <2> HIDE DEF g
  <2>6. Flattens(ss, g)
    BY <2>4, <2>5 DEF Flattens
  <2>7. QED
    BY <2>6
<1>3. \A n \in Nat : n \in T
  <2>1. 0 \in T /\ \A n \in T : n + 1 \in T
    <3> HIDE DEF P
    <3>1. QED
      BY <1>1, <1>2
  <2> HIDE DEF T
  <2>2. T \in SUBSET Nat
    BY DEF T
  <2>3. QED
    BY <2>1, <2>2, NumberInduction
<1>4. QED
  <2> SUFFICES ASSUME NEW ss \in Seq(Seq(S)) PROVE \E f : Flattens(ss, f)
    OBVIOUS
  <2>1. Len(ss) \in T
    BY <1>3
  <2>2. QED
    BY <2>1

LEMMA FlattenIs ==
  ASSUME NEW S, NEW ss \in Seq(Seq(S)), ss # <<>>
  PROVE  \E f : Flattens(ss, f) /\ FlattenSeq(ss) = f[Len(ss)]
<1> DEFINE fl == CHOOSE f : Flattens(ss, f)
<1>1. Flattens(ss, fl)
  BY SomethingFlattens
<1>2. FlattenSeq(ss) = fl[Len(ss)]
  <2>1. Len(ss) # 0
    OBVIOUS
  <2>2. QED
    BY <2>1 DEF FlattenSeq, Flattens, FlatStep
<1> HIDE DEF fl
<1>3. QED
  BY <1>1, <1>2

LEMMA FlattenAppend ==
  ASSUME NEW S
  PROVE  /\ FlattenSeq(<<>>) = <<>>
         /\ \A ss \in Seq(Seq(S)) : FlattenSeq(ss) \in Seq(S)
         /\ \A ss \in Seq(Seq(S)) : \A t \in Seq(S) :
              FlattenSeq(Append(ss, t)) = FlattenSeq(ss) \o t
<1>1. FlattenSeq(<<>>) = <<>>
  BY DEF FlattenSeq
<1>2. ASSUME NEW ss \in Seq(Seq(S)) PROVE FlattenSeq(ss) \in Seq(S)
  <2>1. CASE ss = <<>>
    <3>1. FlattenSeq(ss) = <<>>
      BY <1>1, <2>1
    <3>2. QED
      BY <3>1, EmptySeq
  <2>2. CASE ss # <<>>
    <3>1. PICK f : Flattens(ss, f) /\ FlattenSeq(ss) = f[Len(ss)]
      BY <2>2, FlattenIs
    <3>2. Len(ss) \in 1 .. Len(ss)
      BY <2>2
    <3>3. QED
      BY <3>1, <3>2, FlattensOnce
  <2>3. QED
    BY <2>1, <2>2
<1>3. ASSUME NEW ss \in Seq(Seq(S)), NEW t \in Seq(S)
      PROVE  FlattenSeq(Append(ss, t)) = FlattenSeq(ss) \o t
  <2> DEFINE tt == Append(ss, t)
  <2>1. /\ tt \in Seq(Seq(S)) /\ tt # <<>> /\ Len(tt) = Len(ss) + 1 /\ tt[Len(ss) + 1] = t
        /\ \A i \in 1 .. Len(ss) : tt[i] = ss[i]
        /\ Len(ss) \in Nat
    BY AppendProperties, LenProperties
  <2> HIDE DEF tt
  <2>2. PICK g : Flattens(tt, g) /\ FlattenSeq(tt) = g[Len(tt)]
    BY <2>1, FlattenIs
  <2>3. \A i \in 1 .. Len(ss) + 1 : g[i] = FlatStep(tt, g, i)
    BY <2>1, <2>2 DEF Flattens
  <2>4. g[Len(ss) + 1] = FlatStep(tt, g, Len(ss) + 1)
    BY <2>1, <2>3
  <2>5. CASE ss = <<>>
    BY <1>1, <2>1, <2>2, <2>4, <2>5 DEF FlatStep, tt
  <2>6. CASE ss # <<>>
    <3>1. PICK f : Flattens(ss, f) /\ FlattenSeq(ss) = f[Len(ss)]
      BY <2>6, FlattenIs
    <3>2. Len(ss) \in 1 .. Len(ss) /\ Len(ss) + 1 # 1 /\ (Len(ss) + 1) - 1 = Len(ss)
      BY <2>6
    <3>3. f[Len(ss)] = g[Len(ss)]
      <4>1. Len(ss) <= Len(tt)
        BY <2>1
      <4>2. Flattens(ss, f) /\ Flattens(tt, g)
        BY <2>2, <3>1
      <4>3. tt \in Seq(Seq(S)) /\ \A i \in 1 .. Len(ss) : tt[i] = ss[i]
        BY <2>1
      <4>4. \A i \in 1 .. Len(ss) : f[i] = g[i] /\ f[i] \in Seq(S)
        BY <4>1, <4>2, <4>3, FlattensOnce
      <4>5. QED
        BY <3>2, <4>4
    <3>4. QED
      BY <2>1, <2>2, <2>4, <3>1, <3>2, <3>3 DEF FlatStep, tt
  <2>7. QED
    BY <2>5, <2>6
<1>4. QED
  BY <1>1, <1>2, <1>3

-----------------------------------------------------------------------------
(* Reading a text symbol by symbol.                                        *)

RunStep(s, text, f, k) == IF k = 0 THEN s ELSE Step(f[k - 1], text[k])
Runs(s, text, f) == f = [k \in 0 .. Len(text) |-> RunStep(s, text, f, k)]

LEMMA RunsOnce ==
  ASSUME NEW s, NEW S, NEW t \in Seq(S), NEW u \in Seq(S), NEW f, NEW g,
         Runs(s, t, f), Runs(s, u, g), Len(t) <= Len(u),
         \A i \in 1 .. Len(t) : u[i] = t[i]
  PROVE  \A k \in 0 .. Len(t) : f[k] = g[k]
<1> DEFINE P(n) == n \in 0 .. Len(t) => f[n] = g[n]
           T == {n \in Nat : P(n)}
<1>0. Len(t) \in Nat /\ Len(u) \in Nat
  OBVIOUS
<1>1. \A k \in 0 .. Len(t) : f[k] = RunStep(s, t, f, k) /\ g[k] = RunStep(s, u, g, k)
  <2>1. \A k \in 0 .. Len(t) : f[k] = RunStep(s, t, f, k)
    BY DEF Runs
  <2>2. \A k \in 0 .. Len(u) : g[k] = RunStep(s, u, g, k)
    BY DEF Runs
  <2>3. 0 .. Len(t) \subseteq 0 .. Len(u)
    BY <1>0
  <2>4. QED
    BY <2>1, <2>2, <2>3
<1>2. P(0)
  BY <1>1 DEF RunStep
<1>3. ASSUME NEW n \in Nat, P(n) PROVE P(n + 1)
  <2> SUFFICES ASSUME n + 1 \in 0 .. Len(t) PROVE f[n + 1] = g[n + 1]
    OBVIOUS
  <2>1. /\ n \in 0 .. Len(t) /\ n + 1 \in 1 .. Len(t)
        /\ n + 1 # 0 /\ (n + 1) - 1 = n
    BY <1>0
  <2>2. f[n + 1] = Step(f[n], t[n + 1]) /\ g[n + 1] = Step(g[n], u[n + 1])
    BY <1>1, <2>1 DEF RunStep
  <2>3. f[n] = g[n] /\ u[n + 1] = t[n + 1]
    BY <1>3, <2>1
  <2>4. QED
    BY <2>2, <2>3
<1>4. \A n \in Nat : n \in T
  <2>1. 0 \in T /\ \A n \in T : n + 1 \in T
    <3> HIDE DEF P
    <3>1. QED
      BY <1>2, <1>3
  <2> HIDE DEF T
  <2>2. T \in SUBSET Nat
    BY DEF T
  <2>3. QED
    BY <2>1, <2>2, NumberInduction
<1>5. QED
  BY <1>4

LEMMA SomethingRuns ==
  ASSUME NEW s, NEW S
  PROVE  \A text \in Seq(S) : \E f : Runs(s, text, f)
<1> DEFINE P(n) == \A text \in Seq(S) : Len(text) = n => \E f : Runs(s, text, f)
           T == {n \in Nat : P(n)}
<1>1. P(0)
  <2> SUFFICES ASSUME NEW text \in Seq(S), Len(text) = 0 PROVE \E f : Runs(s, text, f)
    OBVIOUS
  <2>1. Runs(s, text, [k \in 0 .. 0 |-> s])
    <3>1. [k \in 0 .. 0 |-> s] = [k \in 0 .. Len(text) |-> RunStep(s, text, [j \in 0 .. 0 |-> s], k)]
      BY DEF RunStep
    <3>2. QED
      BY <3>1 DEF Runs
  <2>2. QED
    BY <2>1
<1>2. ASSUME NEW n \in Nat, P(n) PROVE P(n + 1)
  <2> SUFFICES ASSUME NEW text \in Seq(S), Len(text) = n + 1 PROVE \E f : Runs(s, text, f)
    OBVIOUS
  <2> DEFINE t == SubSeq(text, 1, n)
  <2>1. t \in Seq(S) /\ Len(t) = n /\ \A i \in 1 .. n : t[i] = text[i]
    OBVIOUS
  <2> HIDE DEF t
  <2>2. PICK f : Runs(s, t, f)
    BY <1>2, <2>1
  <2> DEFINE g == [k \in 0 .. n + 1 |-> IF k = n + 1 THEN RunStep(s, text, f, n + 1) ELSE f[k]]
  <2>3. \A k \in 0 .. n : f[k] = RunStep(s, t, f, k)
    BY <2>1, <2>2 DEF Runs
  <2>4. \A k \in 0 .. n + 1 : g[k] = RunStep(s, text, g, k)
    <3>1. g[n + 1] = RunStep(s, text, g, n + 1)
      BY DEF RunStep
    <3>2. ASSUME NEW k \in 0 .. n PROVE g[k] = RunStep(s, text, g, k)
      <4>1. g[k] = f[k]
        OBVIOUS
      <4>2. CASE k = 0
        BY <2>3, <4>1, <4>2 DEF RunStep
      <4>3. CASE k # 0
        <5>1. k - 1 \in 0 .. n /\ k \in 1 .. n /\ g[k - 1] = f[k - 1]
          BY <4>3
        <5>2. f[k] = Step(f[k - 1], t[k])
          BY <2>3, <4>3 DEF RunStep
        <5> HIDE DEF g
        <5>3. QED
          BY <2>1, <4>1, <4>3, <5>1, <5>2 DEF RunStep
      <4>4. QED
        BY <4>2, <4>3
    <3>3. QED
      <4> HIDE DEF g
      <4>1. QED
        BY <3>1, <3>2
  <2>5. g = [k \in 0 .. n + 1 |-> g[k]]
    OBVIOUS
  <2> HIDE DEF g
  <2>6. Runs(s, text, g)
    BY <2>4, <2>5 DEF Runs
  <2>7. QED
    BY <2>6
<1>3. \A n \in Nat : n \in T
  <2>1. 0 \in T /\ \A n \in T : n + 1 \in T
    <3> HIDE DEF P
    <3>1. QED
      BY <1>1, <1>2
  <2> HIDE DEF T
  <2>2. T \in SUBSET Nat
    BY DEF T
  <2>3. QED
    BY <2>1, <2>2, NumberInduction
<1>4. QED
  <2> SUFFICES ASSUME NEW text \in Seq(S) PROVE \E f : Runs(s, text, f)
    OBVIOUS
  <2>1. Len(text) \in T
    BY <1>3
  <2>2. QED
    BY <2>1

LEMMA AfterIs ==
  ASSUME NEW s, NEW S, NEW text \in Seq(S)
  PROVE  \E f : Runs(s, text, f) /\ After(s, text) = f[Len(text)]
<1> DEFINE ff == CHOOSE f : Runs(s, text, f)
<1>1. Runs(s, text, ff)
  BY SomethingRuns
<1>2. After(s, text) = ff[Len(text)]
  BY DEF After, Runs, RunStep
<1> HIDE DEF ff
<1>3. QED
  BY <1>1, <1>2

\* A text without a symbol takes the reader nowhere.
LEMMA AfterNothing ==
  ASSUME NEW s
  PROVE  After(s, <<>>) = s
<1>1. <<>> \in Seq({}) /\ Len(<<>>) = 0
  BY EmptySeq
<1>2. PICK f : Runs(s, <<>>, f) /\ After(s, <<>>) = f[Len(<<>>)]
  BY <1>1, AfterIs
<1>3. f[0] = RunStep(s, <<>>, f, 0)
  BY <1>1, <1>2 DEF Runs
<1>4. QED
  BY <1>1, <1>2, <1>3 DEF RunStep

\* One more symbol is one step.
LEMMA AfterAppend ==
  ASSUME NEW s, NEW S, NEW text \in Seq(S), NEW c \in S
  PROVE  After(s, Append(text, c)) = Step(After(s, text), c)
<1> DEFINE u == Append(text, c)
<1>1. /\ u \in Seq(S) /\ Len(u) = Len(text) + 1 /\ u[Len(text) + 1] = c
      /\ \A i \in 1 .. Len(text) : u[i] = text[i]
      /\ Len(text) \in Nat
  OBVIOUS
<1> HIDE DEF u
<1>2. PICK f : Runs(s, text, f) /\ After(s, text) = f[Len(text)]
  BY AfterIs
<1>3. PICK g : Runs(s, u, g) /\ After(s, u) = g[Len(u)]
  BY <1>1, AfterIs
<1>4. \A k \in 0 .. Len(text) : f[k] = g[k]
  <2>1. Runs(s, text, f) /\ Runs(s, u, g)
    BY <1>2, <1>3
  <2>2. Len(text) <= Len(u)
    BY <1>1
  <2>3. u \in Seq(S) /\ \A i \in 1 .. Len(text) : u[i] = text[i]
    BY <1>1
  <2>4. ASSUME NEW v \in Seq(S), Runs(s, v, g), Len(text) <= Len(v),
               \A i \in 1 .. Len(text) : v[i] = text[i]
        PROVE  \A k \in 0 .. Len(text) : f[k] = g[k]
    BY <1>2, <2>4, RunsOnce
  <2>5. QED
    BY <2>1, <2>2, <2>3, <2>4
<1>5. g[Len(text) + 1] = RunStep(s, u, g, Len(text) + 1)
  BY <1>1, <1>3 DEF Runs
<1>6. g[Len(text) + 1] = Step(g[Len(text)], c)
  BY <1>1, <1>5 DEF RunStep
<1>7. Len(text) \in 0 .. Len(text)
  BY <1>1
<1>8. QED
  BY <1>1, <1>2, <1>3, <1>4, <1>6, <1>7 DEF u

LEMMA AfterOne ==
  ASSUME NEW s, NEW c
  PROVE  After(s, <<c>>) = Step(s, c)
<1>1. <<>> \in Seq({c}) /\ Append(<<>>, c) = <<c>>
  BY EmptySeq
<1>2. After(s, Append(<<>>, c)) = Step(After(s, <<>>), c)
  BY <1>1, AfterAppend
<1>3. QED
  BY <1>1, <1>2, AfterNothing

\* Two texts, one behind the other.
LEMMA AfterConcat ==
  ASSUME NEW s, NEW S, NEW t \in Seq(S), NEW v \in Seq(S)
  PROVE  After(s, t \o v) = After(After(s, t), v)
<1> DEFINE P(n) == \A u \in Seq(S) : Len(u) = n => After(s, t \o u) = After(After(s, t), u)
           T == {n \in Nat : P(n)}
<1>0. \A r : \A text \in Seq(S) : \A c \in S :
        After(r, Append(text, c)) = Step(After(r, text), c)
  BY AfterAppend
<1>1. P(0)
  <2> SUFFICES ASSUME NEW u \in Seq(S), Len(u) = 0
               PROVE  After(s, t \o u) = After(After(s, t), u)
    OBVIOUS
  <2>1. u = <<>> /\ t \o u = t
    OBVIOUS
  <2>2. After(After(s, t), <<>>) = After(s, t)
    BY AfterNothing
  <2>3. QED
    BY <2>1, <2>2
<1>2. ASSUME NEW n \in Nat, P(n) PROVE P(n + 1)
  <2> SUFFICES ASSUME NEW u \in Seq(S), Len(u) = n + 1
               PROVE  After(s, t \o u) = After(After(s, t), u)
    OBVIOUS
  <2> DEFINE w == SubSeq(u, 1, n)
             c == u[n + 1]
  <2>1. w \in Seq(S) /\ Len(w) = n /\ c \in S /\ u = Append(w, c)
    OBVIOUS
  <2> HIDE DEF w, c
  <2>2. t \o w \in Seq(S) /\ t \o u = Append(t \o w, c)
    <3>1. t \o w \in Seq(S)
      BY <2>1, ConcatProperties
    <3>2. t \o Append(w, c) = Append(t \o w, c)
      BY <2>1
    <3>3. QED
      BY <2>1, <3>1, <3>2
  <2>3. After(s, t \o u) = Step(After(s, t \o w), c)
    <3>1. c \in S
      BY <2>1
    <3>2. After(s, Append(t \o w, c)) = Step(After(s, t \o w), c)
      BY <1>0, <2>2, <3>1
    <3>3. QED
      BY <2>2, <3>2
  <2>4. After(s, t \o w) = After(After(s, t), w)
    BY <1>2, <2>1
  <2>5. After(After(s, t), u) = Step(After(After(s, t), w), c)
    <3>1. w \in Seq(S) /\ c \in S
      BY <2>1
    <3>2. After(After(s, t), Append(w, c)) = Step(After(After(s, t), w), c)
      BY <1>0, <3>1
    <3>3. QED
      BY <2>1, <3>2
  <2>6. QED
    BY <2>3, <2>4, <2>5
<1>3. \A n \in Nat : n \in T
  <2>1. 0 \in T /\ \A n \in T : n + 1 \in T
    <3> HIDE DEF P
    <3>1. QED
      BY <1>1, <1>2
  <2> HIDE DEF T
  <2>2. T \in SUBSET Nat
    BY DEF T
  <2>3. QED
    BY <2>1, <2>2, NumberInduction
<1>4. QED
  <2>1. Len(v) \in T
    BY <1>3
  <2>2. QED
    BY <2>1

-----------------------------------------------------------------------------
(* Strings: what json_escape writes is read back.                          *)

\* The symbols of a text.
Glyphs == Symbols \cup Numerals \cup Chars \cup {"u", "0"} \cup {Letter[x] : x \in DOMAIN Letter}

LEMMA AfterGlyph ==
  ASSUME NEW s, NEW text \in Seq(Glyphs), NEW c \in Glyphs
  PROVE  After(s, Append(text, c)) = Step(After(s, text), c)
BY AfterAppend

LEMMA AppendToOne ==
  ASSUME NEW a \in Glyphs, NEW b \in Glyphs
  PROVE  Append(<<a>>, b) = <<a, b>>
<1>1. <<a>> \in Seq(Glyphs) /\ <<a, b>> = Append(<<a>>, b)
  OBVIOUS
<1>2. QED
  BY <1>1

LEMMA AppendToTwo ==
  ASSUME NEW a \in Glyphs, NEW b \in Glyphs, NEW c \in Glyphs
  PROVE  Append(<<a, b>>, c) = <<a, b, c>>
<1>1. <<a, b>> \in Seq(Glyphs) /\ <<a, b, c>> = Append(<<a, b>>, c)
  OBVIOUS
<1>2. QED
  BY <1>1

LEMMA AppendToThree ==
  ASSUME NEW a \in Glyphs, NEW b \in Glyphs, NEW c \in Glyphs, NEW d \in Glyphs
  PROVE  Append(<<a, b, c>>, d) = <<a, b, c, d>>
<1>1. <<a, b, c>> \in Seq(Glyphs) /\ <<a, b, c, d>> = Append(<<a, b, c>>, d)
  OBVIOUS
<1>2. QED
  BY <1>1

LEMMA AfterTwo ==
  ASSUME NEW s, NEW a \in Glyphs, NEW b \in Glyphs
  PROVE  After(s, <<a, b>>) = Step(Step(s, a), b)
<1>1. <<a>> \in Seq(Glyphs) /\ <<a, b>> = Append(<<a>>, b)
  OBVIOUS
<1>2. After(s, Append(<<a>>, b)) = Step(After(s, <<a>>), b)
  BY <1>1, AfterGlyph
<1>3. QED
  BY <1>1, <1>2, AfterOne

LEMMA LettersDiffer ==
  /\ DOMAIN Letter = {"backspace", "formfeed", "newline", "return", "tab"}
  /\ \A x \in DOMAIN Letter : Letter[x] \notin {Quote, Backslash, "u"}
  /\ \A x, y \in DOMAIN Letter : Letter[x] = Letter[y] => x = y
<1>1. DOMAIN Letter = {"backspace", "formfeed", "newline", "return", "tab"}
  BY DEF Letter
<1>2. /\ Letter["backspace"] = "b" /\ Letter["formfeed"] = "f" /\ Letter["newline"] = "n"
      /\ Letter["return"] = "r" /\ Letter["tab"] = "t"
  BY DEF Letter
<1>3. \A x \in DOMAIN Letter : Letter[x] \notin {Quote, Backslash, "u"}
  <2>1. \A x \in DOMAIN Letter : Letter[x] \in {"b", "f", "n", "r", "t"}
    BY <1>1, <1>2
  <2>2. QED
    BY <2>1 DEF Quote, Backslash
<1>4. \A x, y \in DOMAIN Letter : Letter[x] = Letter[y] => x = y
  BY <1>1, <1>2
<1>5. QED
  BY <1>1, <1>3, <1>4

LEMMA CodesDiffer ==
  ASSUME NEW c \in DOMAIN Code
  PROVE  /\ Code[c][1] \in Plain /\ Code[c][2] \in Plain
         /\ \A x \in DOMAIN Code :
              Code[x][1] = Code[c][1] /\ Code[x][2] = Code[c][2] => x = c
<1>1. \A x \in DOMAIN Code : /\ Code[x] = <<Code[x][1], Code[x][2]>>
                            /\ Code[x][1] \in Plain /\ Code[x][2] \in Plain
  BY JsonAssumption
<1>2. QED
  BY <1>1, JsonAssumption

LEMMA EscapeIsText ==
  ASSUME NEW c \in Chars
  PROVE  EscapeChar(c) \in Seq(Glyphs)
<1>1. c \in Glyphs /\ Backslash \in Glyphs /\ "u" \in Glyphs /\ "0" \in Glyphs
  BY DEF Glyphs, Chars
<1>2. CASE c \in DOMAIN Letter
  <2>1. Letter[c] \in Glyphs
    BY <1>2 DEF Glyphs
  <2>2. EscapeChar(c) \in {<<Backslash, c>>, <<Backslash, Letter[c]>>}
    BY <1>2 DEF EscapeChar
  <2>3. <<Backslash, c>> \in Seq(Glyphs) /\ <<Backslash, Letter[c]>> \in Seq(Glyphs)
    BY <1>1, <2>1
  <2>4. QED
    BY <2>2, <2>3
<1>3. CASE c \in DOMAIN Code
  <2>1. Code[c][1] \in Glyphs /\ Code[c][2] \in Glyphs
    BY <1>3, CodesDiffer DEF Glyphs, Chars
  <2>2. CASE c \in {Quote, Backslash} \cup DOMAIN Letter
    BY <1>3, <2>2, JsonAssumption
  <2>3. CASE c \notin {Quote, Backslash} \cup DOMAIN Letter
    <3>1. EscapeChar(c) = <<Backslash, "u", "0", "0", Code[c][1], Code[c][2]>>
      BY <1>3, <2>3 DEF EscapeChar
    <3>2. QED
      BY <1>1, <2>1, <3>1
  <2>4. QED
    BY <2>2, <2>3
<1>4. CASE c \notin DOMAIN Letter /\ c \notin DOMAIN Code
  BY <1>1, <1>4 DEF EscapeChar
<1>5. QED
  BY <1>2, <1>3, <1>4

\* The escape of a character is read as that character.
LEMMA EscapeReadsBack ==
  ASSUME NEW frame, NEW naming, NEW chars, NEW c \in Chars
  PROVE  After(Literal("character", frame, naming, chars, <<>>), EscapeChar(c))
           = Literal("character", frame, naming, Append(chars, c), <<>>)
<1> DEFINE L(expects, hex) == Literal(expects, frame, naming, chars, hex)
           taken == Literal("character", frame, naming, Append(chars, c), <<>>)
<1>0. c \in Glyphs /\ Backslash \in Glyphs /\ "u" \in Glyphs /\ "0" \in Glyphs
  BY DEF Glyphs, Chars
<1>1. Step(L("character", <<>>), Backslash) = L("escape", <<>>)
  BY DEF Step, StepCharacter, Literal, Quote, Backslash
<1>2. \A hex : Take(L("escape", hex), c) = taken /\ Take(L("hex", hex), c) = taken
  BY DEF Take, Literal
<1>3. CASE c \in {Quote, Backslash}
  <2>1. EscapeChar(c) = <<Backslash, c>>
    BY <1>3 DEF EscapeChar
  <2>2. Step(L("escape", <<>>), c) = taken
    BY <1>2, <1>3 DEF Step, StepEscape, Literal
  <2>3. QED
    BY <1>0, <1>1, <2>1, <2>2, AfterTwo
<1>4. CASE c \in DOMAIN Letter
  <2>1. c \notin {Quote, Backslash}
    BY <1>4, LettersDiffer DEF Quote, Backslash
  <2>2. EscapeChar(c) = <<Backslash, Letter[c]>>
    BY <1>4, <2>1 DEF EscapeChar
  <2>3. Letter[c] \in Glyphs
    BY <1>4 DEF Glyphs
  <2>4. (CHOOSE x \in DOMAIN Letter : Letter[x] = Letter[c]) = c
    BY <1>4, LettersDiffer
  <2>5. Letter[c] \notin {Quote, Backslash, "u"}
    BY <1>4, LettersDiffer
  <2>6. StepEscape(L("escape", <<>>), Letter[c]) = Take(L("escape", <<>>), c)
    BY <1>4, <2>4, <2>5 DEF StepEscape
  <2>7. Step(L("escape", <<>>), Letter[c]) = StepEscape(L("escape", <<>>), Letter[c])
    BY DEF Step, Literal
  <2>8. QED
    BY <1>0, <1>1, <1>2, <2>2, <2>3, <2>6, <2>7, AfterTwo
<1>5. CASE c \in DOMAIN Code
  <2>1. c \notin {Quote, Backslash} /\ c \notin DOMAIN Letter
    BY <1>5, JsonAssumption
  <2> DEFINE x == Code[c][1]
             y == Code[c][2]
  <2>2. EscapeChar(c) = <<Backslash, "u", "0", "0", x, y>>
    BY <1>5, <2>1 DEF EscapeChar
  <2>3. x \in Glyphs /\ y \in Glyphs
    BY <1>5, CodesDiffer DEF Glyphs, Chars
  <2> DEFINE Is(z) == <<"0", "0", x, y>> = <<"0", "0", Code[z][1], Code[z][2]>>
  <2>4. Is(c)
    OBVIOUS
  <2>5. ASSUME NEW z \in DOMAIN Code, Is(z) PROVE z = c
    <3>1. Code[z][1] = x /\ Code[z][2] = y
      BY <2>5
    <3>2. QED
      BY <1>5, <3>1, CodesDiffer
  <2> HIDE DEF x, y
  <2>6. Step(L("escape", <<>>), "u") = L("hex", <<>>)
    BY DEF Step, StepEscape, Literal, Quote, Backslash
  <2>7. ASSUME NEW hex, NEW z, Len(Append(hex, z)) < 4
        PROVE  Step(L("hex", hex), z) = L("hex", Append(hex, z))
    BY <2>7 DEF Step, StepHex, Literal
  <2> HIDE DEF L, taken
  <2>8. /\ Append(<<>>, "0") = <<"0">> /\ Append(<<"0">>, "0") = <<"0", "0">>
        /\ Append(<<"0", "0">>, x) = <<"0", "0", x>>
        /\ Append(<<"0", "0", x>>, y) = <<"0", "0", x, y>>
        /\ Len(<<"0">>) < 4 /\ Len(<<"0", "0">>) < 4 /\ Len(<<"0", "0", x>>) < 4
        /\ ~ (Len(<<"0", "0", x, y>>) < 4)
    <3>1. Append(<<>>, "0") = <<"0">>
      OBVIOUS
    <3>2. Append(<<"0">>, "0") = <<"0", "0">>
      BY <1>0, AppendToOne
    <3>3. Append(<<"0", "0">>, x) = <<"0", "0", x>>
      BY <1>0, <2>3, AppendToTwo
    <3>4. Append(<<"0", "0", x>>, y) = <<"0", "0", x, y>>
      BY <1>0, <2>3, AppendToThree
    <3>5. /\ Len(<<"0">>) = 1 /\ Len(<<"0", "0">>) = 2 /\ Len(<<"0", "0", x>>) = 3
          /\ Len(<<"0", "0", x, y>>) = 4
      OBVIOUS
    <3>6. QED
      BY <3>1, <3>2, <3>3, <3>4, <3>5
  <2>9. /\ Step(L("hex", <<>>), "0") = L("hex", <<"0">>)
        /\ Step(L("hex", <<"0">>), "0") = L("hex", <<"0", "0">>)
        /\ Step(L("hex", <<"0", "0">>), x) = L("hex", <<"0", "0", x>>)
    BY <2>7, <2>8
  <2>10. Step(L("hex", <<"0", "0", x>>), y) = taken
    <3>1. (CHOOSE z \in DOMAIN Code : Is(z)) = c
      <4> HIDE DEF Is
      <4>1. QED
        BY <1>5, <2>4, <2>5
    <3>2. L("hex", <<"0", "0", x>>).hex = <<"0", "0", x>>
      BY DEF Literal, L
    <3>3. StepHex(L("hex", <<"0", "0", x>>), y) = Take(L("hex", <<"0", "0", x>>), c)
      BY <1>5, <2>4, <2>8, <3>1, <3>2 DEF StepHex
    <3>4. Step(L("hex", <<"0", "0", x>>), y) = StepHex(L("hex", <<"0", "0", x>>), y)
      BY DEF Step, Literal, L
    <3>5. QED
      BY <1>2, <3>3, <3>4
  <2>11. After(L("character", <<>>), <<Backslash, "u">>) = L("hex", <<>>)
    BY <1>0, <1>1, <2>6, AfterTwo
  <2>12. After(L("character", <<>>), <<Backslash, "u", "0">>) = L("hex", <<"0">>)
    <3>1. <<Backslash, "u">> \in Seq(Glyphs) /\ <<Backslash, "u", "0">> = Append(<<Backslash, "u">>, "0")
      BY <1>0
    <3>2. QED
      BY <1>0, <2>9, <2>11, <3>1, AfterGlyph
  <2>13. After(L("character", <<>>), <<Backslash, "u", "0", "0">>) = L("hex", <<"0", "0">>)
    <3>1. /\ <<Backslash, "u", "0">> \in Seq(Glyphs)
          /\ <<Backslash, "u", "0", "0">> = Append(<<Backslash, "u", "0">>, "0")
      BY <1>0
    <3>2. QED
      BY <1>0, <2>9, <2>12, <3>1, AfterGlyph
  <2>14. After(L("character", <<>>), <<Backslash, "u", "0", "0", x>>) = L("hex", <<"0", "0", x>>)
    <3>1. /\ <<Backslash, "u", "0", "0">> \in Seq(Glyphs)
          /\ <<Backslash, "u", "0", "0", x>> = Append(<<Backslash, "u", "0", "0">>, x)
      BY <1>0
    <3>2. QED
      BY <2>3, <2>9, <2>13, <3>1, AfterGlyph
  <2>15. After(L("character", <<>>), <<Backslash, "u", "0", "0", x, y>>) = taken
    <3>1. /\ <<Backslash, "u", "0", "0", x>> \in Seq(Glyphs)
          /\ <<Backslash, "u", "0", "0", x, y>> = Append(<<Backslash, "u", "0", "0", x>>, y)
      BY <1>0, <2>3
    <3>2. QED
      BY <2>3, <2>10, <2>14, <3>1, AfterGlyph
  <2>16. QED
    BY <2>2, <2>15 DEF L, taken
<1>6. CASE c \in Plain
  <2>1. c \notin {Quote, Backslash} /\ c \notin DOMAIN Letter /\ c \notin DOMAIN Code
    BY <1>6, JsonAssumption DEF Control
  <2>2. EscapeChar(c) = <<c>>
    BY <2>1 DEF EscapeChar
  <2>3. Step(L("character", <<>>), c) = taken
    BY <1>6, <2>1 DEF Step, StepCharacter, Take, Literal
  <2>4. QED
    BY <1>0, <2>2, <2>3, AfterOne
<1>7. QED
  BY <1>3, <1>4, <1>5, <1>6 DEF Chars, Control

\* What is written between the quotes of a string.
LEMMA EscapeAppend ==
  ASSUME NEW chars \in Seq(Chars), NEW c \in Chars
  PROVE  /\ json_escape(chars) \in Seq(Glyphs)
         /\ json_escape(Append(chars, c)) = json_escape(chars) \o EscapeChar(c)
<1> DEFINE parts(s) == [i \in DOMAIN s |-> EscapeChar(s[i])]
<1>1. \A s \in Seq(Chars) : parts(s) \in Seq(Seq(Glyphs))
  <2> SUFFICES ASSUME NEW s \in Seq(Chars) PROVE parts(s) \in Seq(Seq(Glyphs))
    OBVIOUS
  <2>1. DOMAIN s = 1 .. Len(s) /\ Len(s) \in Nat /\ \A i \in 1 .. Len(s) : s[i] \in Chars
    OBVIOUS
  <2>2. \A i \in 1 .. Len(s) : EscapeChar(s[i]) \in Seq(Glyphs)
    BY <2>1, EscapeIsText
  <2>3. QED
    BY <2>1, <2>2
<1>2. parts(Append(chars, c)) = Append(parts(chars), EscapeChar(c))
  <2> DEFINE s == Append(chars, c)
  <2>1. /\ Len(s) = Len(chars) + 1 /\ DOMAIN s = 1 .. Len(chars) + 1 /\ s[Len(chars) + 1] = c
        /\ \A i \in 1 .. Len(chars) : s[i] = chars[i]
        /\ DOMAIN chars = 1 .. Len(chars) /\ Len(chars) \in Nat
    OBVIOUS
  <2>2. s \in Seq(Chars)
    OBVIOUS
  <2> HIDE DEF s
  <2> DEFINE p == parts(s)
             q == parts(chars)
  <2>3. p \in Seq(Seq(Glyphs)) /\ q \in Seq(Seq(Glyphs)) /\ EscapeChar(c) \in Seq(Glyphs)
    BY <1>1, <2>2, EscapeIsText
  <2>4. DOMAIN p = 1 .. Len(chars) + 1 /\ DOMAIN q = 1 .. Len(chars)
    BY <2>1
  <2>5. /\ \A i \in 1 .. Len(chars) : p[i] = q[i]
        /\ p[Len(chars) + 1] = EscapeChar(c)
    BY <2>1
  <2>6. Len(p) = Len(chars) + 1 /\ Len(q) = Len(chars)
    <3> HIDE DEF p, q
    <3>1. QED
      BY <2>1, <2>3, <2>4, LenProperties
  <2> HIDE DEF p, q
  <2>7. p = Append(q, EscapeChar(c))
    <3> DEFINE r == Append(q, EscapeChar(c))
    <3>1. /\ r \in Seq(Seq(Glyphs)) /\ Len(r) = Len(chars) + 1
          /\ r[Len(chars) + 1] = EscapeChar(c) /\ \A i \in 1 .. Len(chars) : r[i] = q[i]
      BY <2>1, <2>3, <2>6, AppendProperties
    <3> HIDE DEF r
    <3>2. Len(p) = Len(r) /\ \A i \in 1 .. Len(p) : p[i] = r[i]
      <4>1. \A i \in 1 .. Len(p) : i \in 1 .. Len(chars) \/ i = Len(chars) + 1
        BY <2>1, <2>6
      <4>2. QED
        BY <2>5, <2>6, <3>1, <4>1
    <3>3. p = r
      BY <2>3, <3>1, <3>2, SeqEqual
    <3>4. QED
      BY <3>3 DEF r
  <2>8. QED
    BY <2>7 DEF p, q, s
<1>3. json_escape(chars) = FlattenSeq(parts(chars))
  BY DEF json_escape
<1>4. json_escape(Append(chars, c)) = FlattenSeq(Append(parts(chars), EscapeChar(c)))
  <2>1. json_escape(Append(chars, c)) = FlattenSeq(parts(Append(chars, c)))
    BY DEF json_escape
  <2> HIDE DEF parts
  <2>2. QED
    BY <1>2, <2>1
<1> HIDE DEF parts
<1>5. parts(chars) \in Seq(Seq(Glyphs)) /\ EscapeChar(c) \in Seq(Glyphs)
  BY <1>1, EscapeIsText
<1>6. QED
  BY <1>3, <1>4, <1>5, FlattenAppend

\* What holds of the empty sequence, and of a sequence with one more element if it
\* holds of the sequence, holds of all.
LEMMA SequenceInduction ==
  ASSUME NEW S, NEW T \in SUBSET Seq(S), <<>> \in T,
         \A s \in T : \A x \in S : Append(s, x) \in T
  PROVE  \A s \in Seq(S) : s \in T
<1> DEFINE P(n) == \A s \in Seq(S) : Len(s) = n => s \in T
           N == {n \in Nat : P(n)}
<1>1. P(0)
  <2>1. \A s \in Seq(S) : Len(s) = 0 => s = <<>>
    OBVIOUS
  <2>2. QED
    BY <2>1
<1>2. ASSUME NEW n \in Nat, P(n) PROVE P(n + 1)
  <2> SUFFICES ASSUME NEW s \in Seq(S), Len(s) = n + 1 PROVE s \in T
    OBVIOUS
  <2> DEFINE w == SubSeq(s, 1, n)
             c == s[n + 1]
  <2>1. w \in Seq(S) /\ Len(w) = n /\ c \in S /\ s = Append(w, c)
    <3>1. n \in Nat /\ n + 1 \in 1 .. Len(s) /\ n <= Len(s)
      OBVIOUS
    <3>2. w \in Seq(S) /\ Len(w) = n /\ c \in S /\ \A i \in 1 .. n : w[i] = s[i]
      BY <3>1
    <3> HIDE DEF w
    <3>3. /\ Append(w, c) \in Seq(S) /\ Len(Append(w, c)) = Len(w) + 1
          /\ Append(w, c)[Len(w) + 1] = c
          /\ \A i \in 1 .. Len(w) : Append(w, c)[i] = w[i]
      BY <3>2, AppendProperties
    <3>4. \A i \in 1 .. Len(Append(w, c)) : Append(w, c)[i] = s[i]
      <4>1. \A i \in 1 .. n + 1 : i \in 1 .. n \/ i = n + 1
        OBVIOUS
      <4>2. QED
        BY <3>2, <3>3, <4>1 DEF c
    <3>5. QED
      BY <3>2, <3>3, <3>4, SeqEqual
  <2> HIDE DEF w, c
  <2>2. w \in T
    BY <1>2, <2>1
  <2>3. QED
    BY <2>1, <2>2
<1>3. \A n \in Nat : n \in N
  <2>1. 0 \in N /\ \A n \in N : n + 1 \in N
    <3> HIDE DEF P
    <3>1. QED
      BY <1>1, <1>2
  <2> HIDE DEF N
  <2>2. N \in SUBSET Nat
    BY DEF N
  <2>3. QED
    BY <2>1, <2>2, NumberInduction
<1>4. QED
  <2> SUFFICES ASSUME NEW s \in Seq(S) PROVE s \in T
    OBVIOUS
  <2>1. Len(s) \in N
    BY <1>3
  <2>2. QED
    BY <2>1

LEMMA LiteralReadsBack ==
  ASSUME NEW frame, NEW naming, NEW chars \in Seq(Chars)
  PROVE  /\ json_escape(chars) \in Seq(Glyphs)
         /\ After(Literal("character", frame, naming, <<>>, <<>>), json_escape(chars))
              = Literal("character", frame, naming, chars, <<>>)
<1> DEFINE from == Literal("character", frame, naming, <<>>, <<>>)
           at(s) == Literal("character", frame, naming, s, <<>>)
           T == {s \in Seq(Chars) : /\ json_escape(s) \in Seq(Glyphs)
                                    /\ After(from, json_escape(s)) = at(s)}
<1>1. <<>> \in T
  <2>1. json_escape(<<>>) = <<>>
    <3>1. [i \in DOMAIN <<>> |-> EscapeChar(<<>>[i])] = <<>>
      OBVIOUS
    <3>2. FlattenSeq(<<>>) = <<>>
      BY FlattenAppend
    <3>3. QED
      BY <3>1, <3>2 DEF json_escape
  <2>2. After(from, <<>>) = at(<<>>)
    BY AfterNothing
  <2>3. <<>> \in Seq(Chars) /\ <<>> \in Seq(Glyphs)
    OBVIOUS
  <2> HIDE DEF from, at
  <2>4. QED
    BY <2>1, <2>2, <2>3
<1>2. ASSUME NEW s \in T, NEW c \in Chars PROVE Append(s, c) \in T
  <2>1. s \in Seq(Chars) /\ json_escape(s) \in Seq(Glyphs) /\ After(from, json_escape(s)) = at(s)
    OBVIOUS
  <2> HIDE DEF from
  <2>2. EscapeChar(c) \in Seq(Glyphs)
    BY EscapeIsText
  <2>3. json_escape(Append(s, c)) = json_escape(s) \o EscapeChar(c)
    BY <2>1, EscapeAppend
  <2>4. json_escape(s) \o EscapeChar(c) \in Seq(Glyphs)
    BY <2>1, <2>2, ConcatProperties
  <2>5. After(from, json_escape(s) \o EscapeChar(c)) = After(After(from, json_escape(s)), EscapeChar(c))
    BY <2>1, <2>2, AfterConcat
  <2>6. After(at(s), EscapeChar(c)) = at(Append(s, c))
    BY EscapeReadsBack
  <2>7. Append(s, c) \in Seq(Chars)
    BY <2>1
  <2> HIDE DEF at
  <2>8. QED
    BY <2>1, <2>3, <2>4, <2>5, <2>6, <2>7
<1>3. T \in SUBSET Seq(Chars)
  OBVIOUS
<1>4. chars \in T
  <2> HIDE DEF T
  <2>1. QED
    BY <1>1, <1>2, <1>3, SequenceInduction
<1>5. QED
  BY <1>4

\* A text between two symbols.
LEMMA Bracketed ==
  ASSUME NEW a \in Glyphs, NEW b \in Glyphs, NEW text \in Seq(Glyphs)
  PROVE  /\ <<a>> \o text \o <<b>> \in Seq(Glyphs)
         /\ \A s : After(s, <<a>> \o text \o <<b>>) = Step(After(Step(s, a), text), b)
<1> DEFINE p == <<a>>
           q == <<b>>
           h == p \o text
<1>1. p \in Seq(Glyphs) /\ q \in Seq(Glyphs)
  OBVIOUS
<1>2. \A r : After(r, p) = Step(r, a) /\ After(r, q) = Step(r, b)
  BY AfterOne
<1> HIDE DEF p, q
<1>3. h \in Seq(Glyphs)
  BY <1>1, ConcatProperties
<1>4. ASSUME NEW s PROVE After(s, h) = After(Step(s, a), text)
  <2>1. After(s, p \o text) = After(After(s, p), text)
    BY <1>1, AfterConcat
  <2>2. QED
    BY <1>2, <2>1
<1> HIDE DEF h
<1>5. h \o q \in Seq(Glyphs)
  BY <1>1, <1>3, ConcatProperties
<1>6. ASSUME NEW s PROVE After(s, h \o q) = Step(After(Step(s, a), text), b)
  <2>1. After(s, h \o q) = After(After(s, h), q)
    BY <1>1, <1>3, AfterConcat
  <2>2. QED
    BY <1>2, <1>4, <2>1
<1>7. QED
  BY <1>5, <1>6 DEF h, p, q

LEMMA GlyphsAre ==
  {Quote, "[", "]", "{", "}", ",", ":", "true", "false", "null"} \cup Numerals \subseteq Glyphs
BY DEF Glyphs, Symbols

\* A quoted string is read to its last quote and no further.
LEMMA QuotedReadsBack ==
  ASSUME NEW frame, NEW naming \in BOOLEAN, NEW chars \in Seq(Chars), NEW s,
         Step(s, Quote) = Literal("character", frame, naming, <<>>, <<>>)
  PROVE  /\ Quoted(chars) \in Seq(Glyphs)
         /\ After(s, Quoted(chars)) =
              IF naming THEN Name(frame, chars) ELSE Accept(frame, String(chars))
<1> DEFINE text == json_escape(chars)
           end == Literal("character", frame, naming, chars, <<>>)
<1>1. Quote \in Glyphs
  BY GlyphsAre
<1>2. text \in Seq(Glyphs) /\ After(Step(s, Quote), text) = end
  BY LiteralReadsBack
<1>3. Quoted(chars) = <<Quote>> \o text \o <<Quote>>
  BY DEF Quoted
<1>4. Step(end, Quote) = IF naming THEN Name(frame, chars) ELSE Accept(frame, String(chars))
  BY DEF Step, StepCharacter, Literal
<1> HIDE DEF text, end
<1>5. /\ <<Quote>> \o text \o <<Quote>> \in Seq(Glyphs)
      /\ After(s, <<Quote>> \o text \o <<Quote>>) = Step(After(Step(s, Quote), text), Quote)
  BY <1>1, <1>2, Bracketed
<1>6. QED
  BY <1>2, <1>3, <1>4, <1>5

-----------------------------------------------------------------------------
(* Lists: what is between the brackets of an array or an object.           *)

LEMMA RowIsSequence ==
  ASSUME NEW S, NEW n \in Nat, NEW f, f = [i \in 1 .. n |-> f[i]], \A i \in 1 .. n : f[i] \in S
  PROVE  f \in Seq(S) /\ Len(f) = n
<1>1. f \in [1 .. n -> S]
  OBVIOUS
<1>2. QED
  BY <1>1

LEMMA ElementsOf ==
  ASSUME NEW S, NEW s \in Seq(S)
  PROVE  /\ Len(s) \in Nat
         /\ \A i \in 1 .. Len(s) : s[i] \in S
         /\ s # <<>> => Len(s) # 0
BY EmptySeq

\* A text behind a text.
LEMMA AfterBoth ==
  ASSUME NEW s, NEW t \in Seq(Glyphs), NEW v \in Seq(Glyphs)
  PROVE  After(s, t \o v) = After(After(s, t), v)
BY AfterConcat

Commas(parts, k) == FlattenSeq([i \in 1 .. k |-> Append(parts[i], ",")])

LEMMA ListedIs ==
  ASSUME NEW parts \in Seq(Seq(Glyphs))
  PROVE  /\ parts = <<>> => Listed(parts) = <<>>
         /\ \A k \in 0 .. Len(parts) : Commas(parts, k) \in Seq(Glyphs)
         /\ Commas(parts, 0) = <<>>
         /\ \A k \in 0 .. Len(parts) - 1 :
              Commas(parts, k + 1) = Commas(parts, k) \o Append(parts[k + 1], ",")
         /\ parts # <<>> => Listed(parts) = Commas(parts, Len(parts) - 1) \o parts[Len(parts)]
<1> DEFINE n == Len(parts)
           row(k) == [i \in 1 .. k |-> Append(parts[i], ",")]
<1>1. n \in Nat /\ DOMAIN parts = 1 .. n /\ \A i \in 1 .. n : parts[i] \in Seq(Glyphs)
  OBVIOUS
<1>2. \A i \in 1 .. n : Append(parts[i], ",") \in Seq(Glyphs)
  BY <1>1, AppendProperties, GlyphsAre
<1>3. ASSUME NEW k \in 0 .. n
      PROVE  row(k) \in Seq(Seq(Glyphs)) /\ Len(row(k)) = k
  <2>1. k \in Nat /\ 1 .. k \subseteq 1 .. n
    BY <1>1
  <2> DEFINE r == row(k)
  <2>2. DOMAIN r = 1 .. k /\ \A i \in 1 .. k : r[i] \in Seq(Glyphs)
    BY <1>2, <2>1
  <2>3. r = [i \in 1 .. k |-> r[i]]
    OBVIOUS
  <2> HIDE DEF r
  <2>4. r \in Seq(Seq(Glyphs)) /\ Len(r) = k
    BY <2>1, <2>2, <2>3, RowIsSequence
  <2>5. QED
    BY <2>4 DEF r
<1>4. parts = <<>> => Listed(parts) = <<>>
  <2> SUFFICES ASSUME parts = <<>> PROVE Listed(parts) = <<>>
    OBVIOUS
  <2>1. [i \in DOMAIN parts |-> IF i = Len(parts) THEN parts[i] ELSE Append(parts[i], ",")] = <<>>
    OBVIOUS
  <2>2. FlattenSeq(<<>>) = <<>>
    BY FlattenAppend
  <2>3. QED
    BY <2>1, <2>2 DEF Listed
<1>5. \A k \in 0 .. n : Commas(parts, k) \in Seq(Glyphs)
  <2> SUFFICES ASSUME NEW k \in 0 .. n PROVE FlattenSeq(row(k)) \in Seq(Glyphs)
    BY DEF Commas
  <2> HIDE DEF row
  <2>1. QED
    BY <1>3, FlattenAppend
<1>6. Commas(parts, 0) = <<>>
  <2>1. row(0) = <<>>
    OBVIOUS
  <2>2. FlattenSeq(<<>>) = <<>>
    BY FlattenAppend
  <2>3. QED
    BY <2>1, <2>2 DEF Commas
<1>7. ASSUME NEW k \in 0 .. n, NEW w \in Seq(Seq(Glyphs)), NEW t \in Seq(Glyphs),
             Len(w) = k + 1, w[k + 1] = t, \A i \in 1 .. k : w[i] = Append(parts[i], ",")
      PROVE  FlattenSeq(w) = Commas(parts, k) \o t
  <2> DEFINE r == row(k)
  <2>1. r \in Seq(Seq(Glyphs)) /\ Len(r) = k /\ \A i \in 1 .. k : r[i] = Append(parts[i], ",")
    BY <1>3
  <2>2. Commas(parts, k) = FlattenSeq(r)
    BY DEF Commas
  <2> HIDE DEF r
  <2> DEFINE u == Append(r, t)
  <2>3. /\ u \in Seq(Seq(Glyphs)) /\ Len(u) = k + 1 /\ u[k + 1] = t
        /\ \A i \in 1 .. k : u[i] = r[i]
    <3>1. /\ u \in Seq(Seq(Glyphs)) /\ Len(u) = Len(r) + 1 /\ u[Len(r) + 1] = t
          /\ \A i \in 1 .. Len(r) : u[i] = r[i]
      <4> DEFINE S == Seq(Glyphs)
      <4>1. r \in Seq(S) /\ t \in S
        BY <2>1
      <4> HIDE DEF S
      <4>2. /\ Append(r, t) \in Seq(S) /\ Len(Append(r, t)) = Len(r) + 1
            /\ Append(r, t)[Len(r) + 1] = t /\ \A i \in 1 .. Len(r) : Append(r, t)[i] = r[i]
        BY <4>1, AppendProperties
      <4>3. QED
        BY <4>2 DEF S, u
    <3> HIDE DEF u
    <3>2. QED
      BY <2>1, <3>1
  <2> HIDE DEF u
  <2>4. \A i \in 1 .. Len(w) : w[i] = u[i]
    <3>1. \A i \in 1 .. k + 1 : i \in 1 .. k \/ i = k + 1
      BY <1>1
    <3>2. QED
      BY <1>7, <2>1, <2>3, <3>1
  <2>5. Len(w) = Len(u)
    BY <1>7, <2>3
  <2>6. w = u
    BY <2>3, <2>4, <2>5, SeqEqual
  <2>7. FlattenSeq(Append(r, t)) = FlattenSeq(r) \o t
    BY <2>1, FlattenAppend
  <2>8. QED
    BY <2>2, <2>6, <2>7 DEF u
<1>8. ASSUME NEW k \in 0 .. n - 1
      PROVE  Commas(parts, k + 1) = Commas(parts, k) \o Append(parts[k + 1], ",")
  <2> DEFINE w == row(k + 1)
             t == Append(parts[k + 1], ",")
  <2>1. k \in 0 .. n /\ k + 1 \in 0 .. n /\ k + 1 \in 1 .. n /\ 1 .. k \subseteq 1 .. k + 1
        /\ k + 1 \in 1 .. k + 1
    BY <1>1
  <2>2. w \in Seq(Seq(Glyphs)) /\ Len(w) = k + 1
    <3> HIDE DEF row
    <3>1. QED
      BY <1>3, <2>1
  <2>3. w[k + 1] = t /\ \A i \in 1 .. k : w[i] = Append(parts[i], ",")
    BY <2>1
  <2>4. t \in Seq(Glyphs)
    BY <1>2, <2>1
  <2>5. Commas(parts, k + 1) = FlattenSeq(w)
    BY DEF Commas
  <2> HIDE DEF w, t
  <2>6. FlattenSeq(w) = Commas(parts, k) \o t
    BY <1>7, <2>1, <2>2, <2>3, <2>4
  <2>7. QED
    BY <2>5, <2>6 DEF t
<1>9. ASSUME parts # <<>>
      PROVE  Listed(parts) = Commas(parts, n - 1) \o parts[n]
  <2> DEFINE w == [i \in DOMAIN parts |-> IF i = Len(parts) THEN parts[i] ELSE Append(parts[i], ",")]
             t == parts[n]
  <2>1. n # 0
    BY <1>9, EmptySeq
  <2>2. n - 1 \in 0 .. n /\ (n - 1) + 1 = n /\ n \in 1 .. n
    BY <1>1, <2>1
  <2>3. w[n] = t /\ t \in Seq(Glyphs) /\ w = [i \in 1 .. n |-> w[i]]
    BY <1>1, <2>2
  <2>4. \A i \in 1 .. n : i # n => w[i] = Append(parts[i], ",")
    BY <1>1
  <2>5. Listed(parts) = FlattenSeq(w)
    BY DEF Listed
  <2> HIDE DEF w, t
  <2>6. \A i \in 1 .. n : w[i] \in Seq(Glyphs)
    BY <1>2, <2>3, <2>4
  <2>7. w \in Seq(Seq(Glyphs)) /\ Len(w) = n
    <3> HIDE DEF n
    <3>1. n \in Nat
      BY <1>1
    <3>2. QED
      BY <2>3, <2>6, <3>1, RowIsSequence
  <2> DEFINE k == n - 1
  <2>8. k \in 0 .. n /\ Len(w) = k + 1 /\ w[k + 1] = t
    BY <2>2, <2>3, <2>7
  <2>9. \A i \in 1 .. k : w[i] = Append(parts[i], ",")
    <3>1. \A i \in 1 .. k : i \in 1 .. n /\ i # n
      <4> HIDE DEF n
      <4>1. n \in Nat
        BY <1>1
      <4>2. QED
        BY <4>1
    <3>2. QED
      BY <2>4, <3>1
  <2> HIDE DEF k
  <2>10. FlattenSeq(w) = Commas(parts, k) \o t
    BY <1>7, <2>3, <2>7, <2>8, <2>9
  <2>11. QED
    BY <2>5, <2>10 DEF k, t
<1>10. QED
  BY <1>4, <1>5, <1>6, <1>8, <1>9

\* A list is read part by part: if each part takes the reader from where it expects
\* the part to behind it, and the comma to where it expects the next, the list takes
\* it from before the first to behind the last.
Leads(parts, before, behind) ==
  /\ \A k \in 1 .. Len(parts) : After(before[k - 1], parts[k]) = behind[k]
  /\ \A k \in 1 .. Len(parts) - 1 : Step(behind[k], ",") = before[k]

LEMMA ListedReads ==
  ASSUME NEW parts \in Seq(Seq(Glyphs)), parts # <<>>, NEW before, NEW behind,
         Leads(parts, before, behind)
  PROVE  /\ Listed(parts) \in Seq(Glyphs)
         /\ After(before[0], Listed(parts)) = behind[Len(parts)]
<1> DEFINE n == Len(parts)
           P(k) == k < n => After(before[0], Commas(parts, k)) = before[k]
           T == {k \in Nat : P(k)}
<1>1. n \in Nat /\ n # 0 /\ \A i \in 1 .. n : parts[i] \in Seq(Glyphs)
  BY ElementsOf
<1>0. n - 1 \in Nat /\ n - 1 \in 0 .. n /\ n \in 1 .. n /\ n - 1 < n
  <2> HIDE DEF n
  <2>1. n \in Nat /\ n # 0
    BY <1>1
  <2>2. QED
    BY <2>1
<1>2. P(0)
  BY ListedIs, AfterNothing
<1>3. ASSUME NEW k \in Nat, P(k) PROVE P(k + 1)
  <2> SUFFICES ASSUME k + 1 < n PROVE After(before[0], Commas(parts, k + 1)) = before[k + 1]
    OBVIOUS
  <2>1. k < n /\ k \in 0 .. n /\ k \in 0 .. n - 1 /\ k + 1 \in 1 .. n /\ k + 1 \in 1 .. n - 1
        /\ (k + 1) - 1 = k
    <3>1. n \in Nat /\ k + 1 < n
      BY <1>1
    <3> HIDE DEF n
    <3>2. QED
      BY <3>1
  <2> DEFINE c == Commas(parts, k)
             p == parts[k + 1]
             r == Append(p, ",")
  <2>2. c \in Seq(Glyphs) /\ Commas(parts, k + 1) = c \o r
    BY <2>1, ListedIs
  <2>3. p \in Seq(Glyphs) /\ "," \in Glyphs /\ After(before[k], p) = behind[k + 1]
    BY <1>1, <2>1, GlyphsAre DEF Leads
  <2>4. After(before[0], c) = before[k]
    BY <1>3, <2>1
  <2>5. Step(behind[k + 1], ",") = before[k + 1]
    BY <2>1 DEF Leads
  <2> HIDE DEF c, p
  <2>6. r \in Seq(Glyphs) /\ After(before[k], r) = before[k + 1]
    <3>1. After(before[k], Append(p, ",")) = Step(After(before[k], p), ",")
      BY <2>3, AfterGlyph
    <3>2. QED
      BY <2>3, <2>5, <3>1, AppendProperties
  <2> HIDE DEF r
  <2>7. After(before[0], c \o r) = After(After(before[0], c), r)
    BY <2>2, <2>6, AfterBoth
  <2>8. QED
    BY <2>2, <2>4, <2>6, <2>7
<1>4. \A k \in Nat : k \in T
  <2>1. 0 \in T /\ \A k \in T : k + 1 \in T
    <3>1. \A k \in Nat : P(k) => P(k + 1)
      BY <1>3
    <3>2. P(0)
      BY <1>2
    <3> HIDE DEF P
    <3>3. QED
      BY <3>1, <3>2
  <2> HIDE DEF T
  <2>2. T \in SUBSET Nat
    BY DEF T
  <2>3. QED
    BY <2>1, <2>2, NumberInduction
<1>5. QED
  <2> DEFINE c == Commas(parts, n - 1)
             p == parts[n]
  <2>1. After(before[0], c) = before[n - 1]
    <3>1. n - 1 \in T
      <4> HIDE DEF T
      <4>1. QED
        BY <1>1, <1>4
    <3>2. QED
      BY <1>0, <3>1
  <2>2. After(before[n - 1], p) = behind[n]
    BY <1>0 DEF Leads
  <2>3. c \in Seq(Glyphs) /\ p \in Seq(Glyphs) /\ Listed(parts) = c \o p
    BY <1>1, <1>0, ListedIs
  <2> HIDE DEF c, p
  <2>4. After(before[0], c \o p) = After(After(before[0], c), p)
    BY <2>3, AfterBoth
  <2>5. c \o p \in Seq(Glyphs)
    BY <2>3, ConcatProperties
  <2>6. QED
    BY <2>1, <2>2, <2>3, <2>4, <2>5

-----------------------------------------------------------------------------
(* Values.                                                                 *)

\* A text that stands for a value, wherever one is expected.
Spells(t, v) ==
  /\ t \in Seq(Glyphs)
  /\ \A frame : \A expects \in {"value", "item"} :
       After(Reading(expects, frame), t) = Accept(frame, v)

LEMMA OneGlyph ==
  ASSUME NEW c \in Glyphs
  PROVE  <<c>> \in Seq(Glyphs)
OBVIOUS

LEMMA LeafReadsBack ==
  ASSUME NEW v \in Leaves, NEW texts
  PROVE  Spells(Node(v, texts), v)
<1>1. CASE v = Null
  <2>1. Node(v, texts) = <<"null">>
    BY <1>1 DEF Node, Null
  <2>2. ASSUME NEW frame, NEW expects \in {"value", "item"}
        PROVE  Step(Reading(expects, frame), "null") = Accept(frame, v)
    BY <1>1 DEF Step, StepValue, Reading, Literal, Quote
  <2>3. <<"null">> \in Seq(Glyphs)
    <3>1. "null" \in Glyphs
      BY GlyphsAre
    <3>2. QED
      BY <3>1, OneGlyph
  <2>4. QED
    BY <2>1, <2>2, <2>3, AfterOne DEF Spells
<1>2. CASE v \in [is : {"bool"}, val : BOOLEAN]
  <2> DEFINE word == IF v.val THEN "true" ELSE "false"
  <2>1. Node(v, texts) = <<word>>
    BY <1>2 DEF Node
  <2>2. v = Bool(word = "true")
    BY <1>2 DEF Bool
  <2>3. word \in {"true", "false"}
    OBVIOUS
  <2> HIDE DEF word
  <2>4. ASSUME NEW frame, NEW expects \in {"value", "item"}
        PROVE  Step(Reading(expects, frame), word) = Accept(frame, v)
    BY <2>2, <2>3 DEF Step, StepValue, Reading, Literal, Quote
  <2>5. <<word>> \in Seq(Glyphs)
    <3>1. word \in Glyphs
      BY <2>3, GlyphsAre
    <3>2. QED
      BY <3>1, OneGlyph
  <2>6. QED
    BY <2>1, <2>4, <2>5, AfterOne DEF Spells
<1>3. CASE v \in [is : {"number"}, val : Numerals]
  <2> DEFINE digits == v.val
  <2>1. Node(v, texts) = <<digits>> /\ digits \in Numerals /\ v = Number(digits)
    BY <1>3 DEF Node, Number
  <2> HIDE DEF digits
  <2>2. digits \notin {Quote, "[", "]", "{", "true", "false", "null"}
    BY <2>1, JsonAssumption DEF Symbols
  <2>3. ASSUME NEW frame, NEW expects \in {"value", "item"}
        PROVE  Step(Reading(expects, frame), digits) = Accept(frame, v)
    BY <2>1, <2>2 DEF Step, StepValue, Reading, Literal
  <2>4. <<digits>> \in Seq(Glyphs)
    <3>1. digits \in Glyphs
      BY <2>1, GlyphsAre
    <3>2. QED
      BY <3>1, OneGlyph
  <2>5. QED
    BY <2>1, <2>3, <2>4, AfterOne DEF Spells
<1>4. CASE v \in [is : {"string"}, val : Seq(Chars)]
  <2> DEFINE chars == v.val
  <2>1. Node(v, texts) = Quoted(chars) /\ chars \in Seq(Chars) /\ v = String(chars)
    BY <1>4 DEF Node, String
  <2> HIDE DEF chars
  <2>2. ASSUME NEW frame, NEW expects \in {"value", "item"}
        PROVE  Step(Reading(expects, frame), Quote) = Literal("character", frame, FALSE, <<>>, <<>>)
    BY DEF Step, StepValue, Reading, Literal, Quote
  <2>3. ASSUME NEW frame, NEW expects \in {"value", "item"}
        PROVE  /\ Quoted(chars) \in Seq(Glyphs)
               /\ After(Reading(expects, frame), Quoted(chars)) = Accept(frame, v)
    <3> DEFINE s == Reading(expects, frame)
               naming == FALSE
    <3>1. Step(s, Quote) = Literal("character", frame, naming, <<>>, <<>>) /\ naming \in BOOLEAN
      BY <2>2
    <3>2. ~ naming
      OBVIOUS
    <3> HIDE DEF s, naming
    <3>3. /\ Quoted(chars) \in Seq(Glyphs)
          /\ After(s, Quoted(chars)) =
               IF naming THEN Name(frame, chars) ELSE Accept(frame, String(chars))
      BY <2>1, <3>1, QuotedReadsBack
    <3>4. QED
      BY <2>1, <3>2, <3>3 DEF s
  <2>4. QED
    BY <2>1, <2>3 DEF Spells
<1>5. QED
  BY <1>1, <1>2, <1>3, <1>4 DEF Leaves

\* The first so many elements.
First(s, k) == [i \in 1 .. k |-> s[i]]

LEMMA FirstOf ==
  ASSUME NEW S, NEW s \in Seq(S)
  PROVE  /\ First(s, 0) = <<>>
         /\ First(s, Len(s)) = s
         /\ \A k \in 1 .. Len(s) : /\ Append(First(s, k - 1), s[k]) = First(s, k)
                                  /\ DOMAIN First(s, k - 1) = 1 .. k - 1
                                  /\ \A i \in 1 .. k - 1 : First(s, k - 1)[i] = s[i]
<1>1. First(s, 0) = <<>>
  BY DEF First
<1>2. First(s, Len(s)) = s
  BY DEF First
<1>3. ASSUME NEW k \in 1 .. Len(s)
      PROVE  Append(First(s, k - 1), s[k]) = First(s, k)
  <2>1. k - 1 \in Nat /\ k \in Nat /\ (k - 1) + 1 = k /\ 1 .. k \subseteq 1 .. Len(s)
        /\ 1 .. k - 1 \subseteq 1 .. k /\ k \in 1 .. k
    OBVIOUS
  <2> DEFINE f == First(s, k - 1)
             g == First(s, k)
  <2>2. /\ f = [i \in 1 .. k - 1 |-> f[i]] /\ \A i \in 1 .. k - 1 : f[i] = s[i]
        /\ g = [i \in 1 .. k |-> g[i]] /\ \A i \in 1 .. k : g[i] = s[i]
    BY DEF First
  <2>3. \A i \in 1 .. Len(s) : s[i] \in S
    BY ElementsOf
  <2> HIDE DEF f, g
  <2>4. f \in Seq(S) /\ Len(f) = k - 1
    <3>1. \A i \in 1 .. k - 1 : f[i] \in S
      BY <2>1, <2>2, <2>3
    <3>2. QED
      BY <2>1, <2>2, <3>1, RowIsSequence
  <2>5. g \in Seq(S) /\ Len(g) = k
    <3>1. \A i \in 1 .. k : g[i] \in S
      BY <2>1, <2>2, <2>3
    <3>2. QED
      BY <2>1, <2>2, <3>1, RowIsSequence
  <2> DEFINE h == Append(f, s[k])
  <2>6. /\ h \in Seq(S) /\ Len(h) = k /\ h[k] = s[k] /\ \A i \in 1 .. k - 1 : h[i] = f[i]
    BY <2>1, <2>3, <2>4, AppendProperties
  <2> HIDE DEF h
  <2>7. \A i \in 1 .. Len(h) : h[i] = g[i]
    <3>1. \A i \in 1 .. k : i \in 1 .. k - 1 \/ i = k
      BY <2>1
    <3>2. QED
      BY <2>1, <2>2, <2>6, <3>1
  <2>8. h = g
    BY <2>5, <2>6, <2>7, SeqEqual
  <2>9. QED
    BY <2>8 DEF f, g, h
<1>4. ASSUME NEW k \in 1 .. Len(s)
      PROVE  /\ DOMAIN First(s, k - 1) = 1 .. k - 1
             /\ \A i \in 1 .. k - 1 : First(s, k - 1)[i] = s[i]
  BY DEF First
<1>5. QED
  BY <1>1, <1>2, <1>3, <1>4

\* An array, if its elements are.
LEMMA ArrayReadsBack ==
  ASSUME NEW S, NEW texts, \A v \in S : Spells(texts[v], v), NEW items \in Seq(S)
  PROVE  Spells(Node(Array(items), texts), Array(items))
<1> DEFINE n == Len(items)
           parts == [i \in DOMAIN items |-> texts[items[i]]]
           list == Listed(parts)
           F(k, frame) == Frame("array", First(items, k), <<>>, frame)
<1>1. n \in Nat /\ DOMAIN items = 1 .. n /\ \A i \in 1 .. n : items[i] \in S
  OBVIOUS
<1>2. Node(Array(items), texts) = <<"[">> \o list \o <<"]">>
  BY DEF Node, Array
<1>3. parts \in Seq(Seq(Glyphs)) /\ Len(parts) = n /\ \A i \in 1 .. n : parts[i] = texts[items[i]]
  <2>1. parts = [i \in 1 .. n |-> parts[i]] /\ \A i \in 1 .. n : parts[i] = texts[items[i]]
    BY <1>1
  <2> HIDE DEF parts
  <2>2. \A i \in 1 .. n : parts[i] \in Seq(Glyphs)
    BY <1>1, <2>1 DEF Spells
  <2>3. QED
    BY <1>1, <2>1, <2>2, RowIsSequence
<1>4. \A frame : /\ F(0, frame) = Frame("array", <<>>, <<>>, frame)
                /\ F(n, frame) = Frame("array", items, <<>>, frame)
  BY FirstOf
<1>5. ASSUME NEW frame
      PROVE  \E expects \in {"item", "more"} :
               /\ list \in Seq(Glyphs)
               /\ After(Reading("item", F(0, frame)), list) = Reading(expects, F(n, frame))
  <2>1. CASE items = <<>>
    <3>1. parts = <<>> /\ n = 0
      BY <2>1
    <3> HIDE DEF parts
    <3>2. list = <<>>
      BY <1>3, <3>1, ListedIs
    <3>3. <<>> \in Seq(Glyphs)
      OBVIOUS
    <3> HIDE DEF list, F
    <3>4. After(Reading("item", F(0, frame)), <<>>) = Reading("item", F(0, frame))
      BY AfterNothing
    <3>5. QED
      BY <3>1, <3>2, <3>3, <3>4
  <2>2. CASE items # <<>>
    <3> DEFINE before == [k \in 0 .. n |-> Reading(IF k = 0 THEN "item" ELSE "value", F(k, frame))]
               behind == [k \in 0 .. n |-> Reading("more", F(k, frame))]
    <3>1. n # 0 /\ parts # <<>>
      <4>1. n # 0
        BY <2>2, ElementsOf
      <4> HIDE DEF parts, n
      <4>2. QED
        BY <1>3, <4>1
    <3>2. /\ before[0] = Reading("item", F(0, frame))
          /\ behind[n] = Reading("more", F(n, frame))
      BY <1>1
    <3>3. ASSUME NEW k \in 1 .. n PROVE After(before[k - 1], parts[k]) = behind[k]
      <4> DEFINE e == IF k - 1 = 0 THEN "item" ELSE "value"
                 G == F(k - 1, frame)
                 t == texts[items[k]]
                 v == items[k]
      <4>1. before[k - 1] = Reading(e, G) /\ behind[k] = Reading("more", F(k, frame))
        <5>1. k - 1 \in 0 .. n /\ k \in 0 .. n
          BY <1>1
        <5> HIDE DEF F
        <5>2. QED
          BY <5>1
      <4>2. e \in {"value", "item"} /\ Spells(t, v) /\ parts[k] = t
        BY <1>1, <1>3
      <4>3. Accept(G, v) = Reading("more", F(k, frame))
        <5>1. Append(First(items, k - 1), items[k]) = First(items, k)
          BY FirstOf
        <5>2. QED
          BY <5>1 DEF Accept, Frame
      <4> HIDE DEF e, G, t, v, parts, before, behind, F
      <4>4. After(Reading(e, G), t) = Accept(G, v)
        BY <4>2 DEF Spells
      <4>5. QED
        BY <4>1, <4>2, <4>3, <4>4
    <3>4. ASSUME NEW k \in 1 .. n - 1 PROVE Step(behind[k], ",") = before[k]
      <4>1. k \in 0 .. n /\ k # 0
        BY <1>1
      <4>2. behind[k] = Reading("more", F(k, frame)) /\ before[k] = Reading("value", F(k, frame))
        BY <4>1
      <4>3. F(k, frame).is = "array"
        BY DEF Frame
      <4> HIDE DEF F, before, behind
      <4>4. Step(Reading("more", F(k, frame)), ",") = Reading("value", F(k, frame))
        BY <4>3 DEF Step, StepMore, Reading, Literal
      <4>5. QED
        BY <4>2, <4>4
    <3>5. Leads(parts, before, behind)
      <4> HIDE DEF parts, before, behind, n
      <4>1. QED
        BY <1>3, <3>3, <3>4 DEF Leads
    <3> HIDE DEF parts, before, behind, n, F
    <3>6. list \in Seq(Glyphs) /\ After(before[0], list) = behind[n]
      BY <1>3, <3>1, <3>5, ListedReads
    <3>7. QED
      BY <3>2, <3>6
  <2>3. QED
    BY <2>1, <2>2
<1>6. ASSUME NEW frame, NEW expects \in {"item", "more"}
      PROVE  Step(Reading(expects, F(n, frame)), "]") = Accept(frame, Array(items))
  <2> DEFINE G == F(n, frame)
  <2>1. G.is = "array" /\ Close(G) = Accept(frame, Array(items))
    BY <1>4 DEF Close, Frame, Array
  <2> HIDE DEF G
  <2>2. Step(Reading(expects, G), "]") = Close(G)
    BY <2>1 DEF Step, StepValue, StepMore, Reading, Literal, Quote
  <2>3. QED
    BY <2>1, <2>2 DEF G
<1>7. ASSUME NEW frame, NEW expects \in {"value", "item"}
      PROVE  Step(Reading(expects, frame), "[") = Reading("item", F(0, frame))
  <2>1. Step(Reading(expects, frame), "[") = Reading("item", Frame("array", <<>>, <<>>, frame))
    BY DEF Step, StepValue, Reading, Literal, Quote
  <2>2. QED
    BY <1>4, <2>1
<1> HIDE DEF list, F, n
<1>8. "[" \in Glyphs /\ "]" \in Glyphs
  BY GlyphsAre
<1>9. ASSUME NEW frame, NEW expects \in {"value", "item"}
      PROVE  /\ <<"[">> \o list \o <<"]">> \in Seq(Glyphs)
             /\ After(Reading(expects, frame), <<"[">> \o list \o <<"]">>)
                  = Accept(frame, Array(items))
  <2>1. PICK e \in {"item", "more"} :
               /\ list \in Seq(Glyphs)
               /\ After(Reading("item", F(0, frame)), list) = Reading(e, F(n, frame))
    BY <1>5
  <2>2. /\ <<"[">> \o list \o <<"]">> \in Seq(Glyphs)
        /\ After(Reading(expects, frame), <<"[">> \o list \o <<"]">>)
             = Step(After(Step(Reading(expects, frame), "["), list), "]")
    BY <1>8, <2>1, Bracketed
  <2>3. QED
    BY <1>6, <1>7, <2>1, <2>2
<1>10. QED
  BY <1>2, <1>9 DEF Spells

LEMMA NameStarts ==
  ASSUME NEW frame, NEW expects \in {"member", "name"}
  PROVE  Step(Reading(expects, frame), Quote) = Literal("character", frame, TRUE, <<>>, <<>>)
BY DEF Step, StepName, Reading, Literal, Quote

\* A member: its name, a colon and its value, into an object that has no such name.
LEMMA MemberReadsBack ==
  ASSUME NEW around, NEW val, NEW expects \in {"member", "name"}, NEW chars \in Seq(Chars),
         NEW t, NEW v, Spells(t, v), \A m \in DOMAIN val : val[m][1] # chars
  PROVE  /\ Quoted(chars) \o <<":">> \o t \in Seq(Glyphs)
         /\ After(Reading(expects, Frame("object", val, <<>>, around)),
                  Quoted(chars) \o <<":">> \o t)
              = Reading("more", Frame("object", Append(val, <<chars, v>>), <<>>, around))
<1> DEFINE frame == Frame("object", val, <<>>, around)
           s == Reading(expects, frame)
           named == Frame("object", val, chars, around)
           naming == TRUE
           quoted == Quoted(chars)
           colon == <<":">>
           head == quoted \o colon
<1>1. Step(s, Quote) = Literal("character", frame, naming, <<>>, <<>>) /\ naming \in BOOLEAN
  BY NameStarts
<1>2. naming
  OBVIOUS
<1>3. Name(frame, chars) = Reading("colon", named)
  <2>1. frame.val = val /\ frame.around = around
    BY DEF Frame
  <2>2. QED
    BY <2>1 DEF Name
<1>4. Step(Reading("colon", named), ":") = Reading("value", named)
  BY DEF Step, Reading, Literal
<1>5. Accept(named, v) = Reading("more", Frame("object", Append(val, <<chars, v>>), <<>>, around))
  <2>1. named.is = "object" /\ named.val = val /\ named.name = chars /\ named.around = around
    BY DEF Frame
  <2> HIDE DEF named
  <2>2. QED
    BY <2>1 DEF Accept
<1>6. colon \in Seq(Glyphs)
  <2>1. ":" \in Glyphs
    BY GlyphsAre
  <2>2. QED
    BY <2>1, OneGlyph
<1>7. \A r : After(r, colon) = Step(r, ":")
  BY AfterOne
<1>8. t \in Seq(Glyphs) /\ After(Reading("value", named), t) = Accept(named, v)
  BY DEF Spells
<1> HIDE DEF named, naming, quoted, colon, head, s, frame
<1>9. quoted \in Seq(Glyphs) /\ After(s, quoted) = Reading("colon", named)
  <2>1. /\ Quoted(chars) \in Seq(Glyphs)
        /\ After(s, Quoted(chars)) =
             IF naming THEN Name(frame, chars) ELSE Accept(frame, String(chars))
    BY <1>1, QuotedReadsBack
  <2>2. QED
    BY <1>2, <1>3, <2>1 DEF quoted
<1>10. head \in Seq(Glyphs) /\ After(s, head) = Reading("value", named)
  <2>1. quoted \o colon \in Seq(Glyphs)
    BY <1>6, <1>9, ConcatProperties
  <2>2. After(s, quoted \o colon) = After(After(s, quoted), colon)
    BY <1>6, <1>9, AfterBoth
  <2>3. QED
    BY <1>4, <1>7, <1>9, <2>1, <2>2 DEF head
<1>11. head \o t \in Seq(Glyphs)
  BY <1>8, <1>10, ConcatProperties
<1>12. After(s, head \o t) = After(After(s, head), t)
  BY <1>8, <1>10, AfterBoth
<1>13. QED
  BY <1>5, <1>8, <1>10, <1>11, <1>12 DEF head, quoted, colon, s, frame

\* An object, if its values are and no name occurs twice.
LEMMA ObjectReadsBack ==
  ASSUME NEW S, NEW texts, \A v \in S : Spells(texts[v], v), NEW members \in Members(S)
  PROVE  Spells(Node(Object(members), texts), Object(members))
<1> DEFINE n == Len(members)
           parts == [m \in DOMAIN members |->
                       Quoted(members[m][1]) \o <<":">> \o texts[members[m][2]]]
           list == Listed(parts)
           F(k, frame) == Frame("object", First(members, k), <<>>, frame)
<1>0. members \in Seq(Seq(Chars) \X S) /\ NamesDiffer(members)
  BY DEF Members
<1>1. /\ n \in Nat /\ DOMAIN members = 1 .. n
      /\ \A i \in 1 .. n : /\ members[i][1] \in Seq(Chars) /\ members[i][2] \in S
                          /\ members[i] = <<members[i][1], members[i][2]>>
  <2> DEFINE P == Seq(Chars) \X S
  <2>1. \A x \in P : x[1] \in Seq(Chars) /\ x[2] \in S /\ x = <<x[1], x[2]>>
    OBVIOUS
  <2>2. members \in Seq(P)
    BY <1>0
  <2> HIDE DEF P
  <2>3. n \in Nat /\ DOMAIN members = 1 .. n /\ \A i \in 1 .. n : members[i] \in P
    BY <2>2, LenProperties, ElementsOf
  <2>4. QED
    BY <2>1, <2>3
<1>2. Node(Object(members), texts) = <<"{">> \o list \o <<"}">>
  BY DEF Node, Object
<1>3. ASSUME NEW frame, NEW k \in 1 .. n, NEW expects \in {"member", "name"}
      PROVE  /\ parts[k] \in Seq(Glyphs)
             /\ After(Reading(expects, F(k - 1, frame)), parts[k]) = Reading("more", F(k, frame))
  <2> DEFINE val == First(members, k - 1)
             chars == members[k][1]
             v == members[k][2]
             t == texts[v]
  <2>1. chars \in Seq(Chars) /\ v \in S /\ members[k] = <<chars, v>> /\ Spells(t, v)
    BY <1>1
  <2>2. \A m \in DOMAIN val : val[m][1] # chars
    <3>1. \A m \in 1 .. k - 1 : m \in DOMAIN members /\ k \in DOMAIN members /\ m # k
      BY <1>1
    <3>2. \A m \in 1 .. k - 1 : members[m][1] # chars
      BY <1>0, <3>1 DEF NamesDiffer
    <3>3. DOMAIN val = 1 .. k - 1 /\ \A m \in 1 .. k - 1 : val[m] = members[m]
      BY <1>0, FirstOf
    <3> HIDE DEF val
    <3>4. QED
      BY <3>2, <3>3
  <2>3. Append(val, <<chars, v>>) = First(members, k)
    <3>1. Append(First(members, k - 1), members[k]) = First(members, k)
      BY <1>0, FirstOf
    <3>2. QED
      BY <2>1, <3>1
  <2>4. F(k - 1, frame) = Frame("object", val, <<>>, frame)
    OBVIOUS
  <2>5. parts[k] = Quoted(chars) \o <<":">> \o t
    BY <1>1
  <2>6. F(k, frame) = Frame("object", First(members, k), <<>>, frame)
    OBVIOUS
  <2> HIDE DEF val, chars, v, t, parts, F
  <2>7. /\ Quoted(chars) \o <<":">> \o t \in Seq(Glyphs)
        /\ After(Reading(expects, Frame("object", val, <<>>, frame)), Quoted(chars) \o <<":">> \o t)
             = Reading("more", Frame("object", Append(val, <<chars, v>>), <<>>, frame))
    BY <2>1, <2>2, MemberReadsBack
  <2>8. QED
    BY <2>3, <2>4, <2>5, <2>6, <2>7
<1>4. parts \in Seq(Seq(Glyphs)) /\ Len(parts) = n
  <2>1. parts = [i \in 1 .. n |-> parts[i]]
    BY <1>1
  <2>2. \A i \in 1 .. n : parts[i] \in Seq(Glyphs)
    <3> HIDE DEF parts, F
    <3>1. QED
      BY <1>3
  <2> HIDE DEF parts
  <2>3. QED
    BY <1>1, <2>1, <2>2, RowIsSequence
<1>5. \A frame : /\ F(0, frame) = Frame("object", <<>>, <<>>, frame)
                /\ F(n, frame) = Frame("object", members, <<>>, frame)
  BY <1>0, FirstOf
<1>6. ASSUME NEW frame
      PROVE  \E expects \in {"member", "more"} :
               /\ list \in Seq(Glyphs)
               /\ After(Reading("member", F(0, frame)), list) = Reading(expects, F(n, frame))
  <2>1. CASE members = <<>>
    <3>1. parts = <<>> /\ n = 0
      BY <2>1
    <3> HIDE DEF parts
    <3>2. list = <<>>
      BY <1>4, <3>1, ListedIs
    <3>3. <<>> \in Seq(Glyphs)
      OBVIOUS
    <3> HIDE DEF list, F
    <3>4. After(Reading("member", F(0, frame)), <<>>) = Reading("member", F(0, frame))
      BY AfterNothing
    <3>5. QED
      BY <3>1, <3>2, <3>3, <3>4
  <2>2. CASE members # <<>>
    <3> DEFINE before == [k \in 0 .. n |-> Reading(IF k = 0 THEN "member" ELSE "name", F(k, frame))]
               behind == [k \in 0 .. n |-> Reading("more", F(k, frame))]
    <3>1. n # 0 /\ parts # <<>>
      <4>1. n # 0
        BY <1>0, <2>2, ElementsOf
      <4> HIDE DEF parts, n
      <4>2. QED
        BY <1>4, <4>1
    <3>2. /\ before[0] = Reading("member", F(0, frame))
          /\ behind[n] = Reading("more", F(n, frame))
      BY <1>1
    <3>3. ASSUME NEW k \in 1 .. n PROVE After(before[k - 1], parts[k]) = behind[k]
      <4>1. k - 1 \in 0 .. n /\ k \in 0 .. n
        BY <1>1
      <4> HIDE DEF F, parts
      <4>2. behind[k] = Reading("more", F(k, frame))
        BY <4>1
      <4>3. \E expects \in {"member", "name"} : before[k - 1] = Reading(expects, F(k - 1, frame))
        BY <4>1
      <4> HIDE DEF before, behind
      <4>4. QED
        BY <1>3, <4>2, <4>3
    <3>4. ASSUME NEW k \in 1 .. n - 1 PROVE Step(behind[k], ",") = before[k]
      <4>1. k \in 0 .. n /\ k # 0
        BY <1>1
      <4>2. behind[k] = Reading("more", F(k, frame)) /\ before[k] = Reading("name", F(k, frame))
        BY <4>1
      <4>3. F(k, frame).is = "object"
        BY DEF Frame
      <4> HIDE DEF F, before, behind
      <4>4. Step(Reading("more", F(k, frame)), ",") = Reading("name", F(k, frame))
        BY <4>3 DEF Step, StepMore, Reading, Literal
      <4>5. QED
        BY <4>2, <4>4
    <3>5. Leads(parts, before, behind)
      <4> HIDE DEF parts, before, behind, n
      <4>1. QED
        BY <1>4, <3>3, <3>4 DEF Leads
    <3> HIDE DEF parts, before, behind, n, F
    <3>6. list \in Seq(Glyphs) /\ After(before[0], list) = behind[n]
      BY <1>4, <3>1, <3>5, ListedReads
    <3>7. QED
      BY <3>2, <3>6
  <2>3. QED
    BY <2>1, <2>2
<1>7. ASSUME NEW frame, NEW expects \in {"member", "more"}
      PROVE  Step(Reading(expects, F(n, frame)), "}") = Accept(frame, Object(members))
  <2> DEFINE G == F(n, frame)
  <2>1. G.is = "object" /\ Close(G) = Accept(frame, Object(members))
    BY <1>5 DEF Close, Frame, Object
  <2> HIDE DEF G
  <2>2. Step(Reading(expects, G), "}") = Close(G)
    BY <2>1 DEF Step, StepName, StepMore, Reading, Literal, Quote
  <2>3. QED
    BY <2>1, <2>2 DEF G
<1>8. ASSUME NEW frame, NEW expects \in {"value", "item"}
      PROVE  Step(Reading(expects, frame), "{") = Reading("member", F(0, frame))
  <2>1. Step(Reading(expects, frame), "{") = Reading("member", Frame("object", <<>>, <<>>, frame))
    BY DEF Step, StepValue, Reading, Literal, Quote
  <2>2. QED
    BY <1>5, <2>1
<1> HIDE DEF list, F, n
<1>9. "{" \in Glyphs /\ "}" \in Glyphs
  BY GlyphsAre
<1>10. ASSUME NEW frame, NEW expects \in {"value", "item"}
       PROVE  /\ <<"{">> \o list \o <<"}">> \in Seq(Glyphs)
              /\ After(Reading(expects, frame), <<"{">> \o list \o <<"}">>)
                   = Accept(frame, Object(members))
  <2>1. PICK e \in {"member", "more"} :
               /\ list \in Seq(Glyphs)
               /\ After(Reading("member", F(0, frame)), list) = Reading(e, F(n, frame))
    BY <1>6
  <2>2. /\ <<"{">> \o list \o <<"}">> \in Seq(Glyphs)
        /\ After(Reading(expects, frame), <<"{">> \o list \o <<"}">>)
             = Step(After(Step(Reading(expects, frame), "{"), list), "}")
    BY <1>9, <2>1, Bracketed
  <2>3. QED
    BY <1>7, <1>8, <2>1, <2>2
<1>11. QED
  BY <1>2, <1>10 DEF Spells

-----------------------------------------------------------------------------
(* Depth: what Values and Texts are at each.                               *)

ValuesStep(f, d) ==
  IF d = 0 THEN Leaves
  ELSE Leaves \cup [is : {"array"}, val : Seq(f[d - 1])]
              \cup [is : {"object"}, val : Members(f[d - 1])]

TextsStep(f, d) == [v \in Values[d] |-> Node(v, IF d = 0 THEN <<>> ELSE f[d - 1])]

LEMMA SomeValues ==
  \A n \in Nat : \E f : f = [d \in 0 .. n |-> ValuesStep(f, d)]
<1> DEFINE P(n) == \E f : f = [d \in 0 .. n |-> ValuesStep(f, d)]
           T == {n \in Nat : P(n)}
<1>1. P(0)
  <2> DEFINE f == [d \in 0 .. 0 |-> Leaves]
  <2>1. f = [d \in 0 .. 0 |-> ValuesStep(f, d)]
    BY DEF ValuesStep
  <2>2. QED
    BY <2>1
<1>2. ASSUME NEW n \in Nat, P(n) PROVE P(n + 1)
  <2>1. PICK f : f = [d \in 0 .. n |-> ValuesStep(f, d)]
    BY <1>2
  <2> DEFINE g == [d \in 0 .. n + 1 |-> IF d = n + 1 THEN ValuesStep(f, n + 1) ELSE f[d]]
  <2>2. \A d \in 0 .. n : g[d] = f[d] /\ f[d] = ValuesStep(f, d)
    BY <2>1
  <2>3. g[n + 1] = ValuesStep(f, n + 1) /\ g = [d \in 0 .. n + 1 |-> g[d]]
    OBVIOUS
  <2> HIDE DEF g
  <2>4. \A d \in 0 .. n : g[d] = ValuesStep(g, d)
    <3> SUFFICES ASSUME NEW d \in 0 .. n PROVE g[d] = ValuesStep(g, d)
      OBVIOUS
    <3>1. CASE d = 0
      BY <2>2, <3>1 DEF ValuesStep
    <3>2. CASE d # 0
      <4>1. d - 1 \in 0 .. n
        BY <3>2
      <4>2. g[d - 1] = f[d - 1] /\ g[d] = ValuesStep(f, d)
        BY <2>2, <4>1
      <4>3. QED
        BY <4>2 DEF ValuesStep
    <3>3. QED
      BY <3>1, <3>2
  <2>5. g[n + 1] = ValuesStep(g, n + 1)
    <3>1. (n + 1) - 1 = n /\ n \in 0 .. n
      OBVIOUS
    <3>2. g[n] = f[n]
      BY <2>2, <3>1
    <3>3. QED
      BY <2>3, <3>1, <3>2 DEF ValuesStep
  <2>6. \A d \in 0 .. n + 1 : d \in 0 .. n \/ d = n + 1
    OBVIOUS
  <2>7. g = [d \in 0 .. n + 1 |-> ValuesStep(g, d)]
    BY <2>3, <2>4, <2>5, <2>6
  <2>8. QED
    BY <2>7
<1>3. \A n \in Nat : n \in T
  <2>1. 0 \in T /\ \A n \in T : n + 1 \in T
    <3> HIDE DEF P
    <3>1. QED
      BY <1>1, <1>2
  <2> HIDE DEF T
  <2>2. T \in SUBSET Nat
    BY DEF T
  <2>3. QED
    BY <2>1, <2>2, NumberInduction
<1>4. QED
  BY <1>3

LEMMA ValuesAre ==
  /\ Values[0] = Leaves
  /\ \A d \in 1 .. MaxDepth :
       Values[d] = Leaves \cup [is : {"array"}, val : Seq(Values[d - 1])]
                          \cup [is : {"object"}, val : Members(Values[d - 1])]
<1>1. MaxDepth \in Nat
  BY JsonAssumption
<1>2. Values = CHOOSE f : f = [d \in 0 .. MaxDepth |-> ValuesStep(f, d)]
  BY DEF Values, ValuesStep
<1>3. \E f : f = [d \in 0 .. MaxDepth |-> ValuesStep(f, d)]
  BY <1>1, SomeValues
<1>4. Values = [d \in 0 .. MaxDepth |-> ValuesStep(Values, d)]
  BY <1>2, <1>3
<1>5. \A d \in 0 .. MaxDepth : Values[d] = ValuesStep(Values, d)
  BY <1>4
<1>6. 0 \in 0 .. MaxDepth /\ \A d \in 1 .. MaxDepth : d \in 0 .. MaxDepth /\ d # 0
  BY <1>1
<1>7. QED
  BY <1>5, <1>6 DEF ValuesStep

LEMMA SomeTexts ==
  \A n \in Nat : \E f : f = [d \in 0 .. n |-> TextsStep(f, d)]
<1> DEFINE P(n) == \E f : f = [d \in 0 .. n |-> TextsStep(f, d)]
           T == {n \in Nat : P(n)}
<1>1. P(0)
  <2> DEFINE f == [d \in 0 .. 0 |-> [v \in Values[d] |-> Node(v, <<>>)]]
  <2>1. f = [d \in 0 .. 0 |-> TextsStep(f, d)]
    BY DEF TextsStep
  <2>2. QED
    BY <2>1
<1>2. ASSUME NEW n \in Nat, P(n) PROVE P(n + 1)
  <2>1. PICK f : f = [d \in 0 .. n |-> TextsStep(f, d)]
    BY <1>2
  <2> DEFINE g == [d \in 0 .. n + 1 |-> IF d = n + 1 THEN TextsStep(f, n + 1) ELSE f[d]]
  <2>2. \A d \in 0 .. n : g[d] = f[d] /\ f[d] = TextsStep(f, d)
    BY <2>1
  <2>3. g[n + 1] = TextsStep(f, n + 1) /\ g = [d \in 0 .. n + 1 |-> g[d]]
    OBVIOUS
  <2> HIDE DEF g
  <2>4. \A d \in 0 .. n : g[d] = TextsStep(g, d)
    <3> SUFFICES ASSUME NEW d \in 0 .. n PROVE g[d] = TextsStep(g, d)
      OBVIOUS
    <3>1. CASE d = 0
      BY <2>2, <3>1 DEF TextsStep
    <3>2. CASE d # 0
      <4>1. d - 1 \in 0 .. n
        BY <3>2
      <4>2. g[d - 1] = f[d - 1] /\ g[d] = TextsStep(f, d)
        BY <2>2, <4>1
      <4>3. QED
        BY <4>2 DEF TextsStep
    <3>3. QED
      BY <3>1, <3>2
  <2>5. g[n + 1] = TextsStep(g, n + 1)
    <3>1. (n + 1) - 1 = n /\ n \in 0 .. n
      OBVIOUS
    <3>2. g[n] = f[n]
      BY <2>2, <3>1
    <3>3. QED
      BY <2>3, <3>1, <3>2 DEF TextsStep
  <2>6. \A d \in 0 .. n + 1 : d \in 0 .. n \/ d = n + 1
    OBVIOUS
  <2>7. g = [d \in 0 .. n + 1 |-> TextsStep(g, d)]
    BY <2>3, <2>4, <2>5, <2>6
  <2>8. QED
    BY <2>7
<1>3. \A n \in Nat : n \in T
  <2>1. 0 \in T /\ \A n \in T : n + 1 \in T
    <3> HIDE DEF P
    <3>1. QED
      BY <1>1, <1>2
  <2> HIDE DEF T
  <2>2. T \in SUBSET Nat
    BY DEF T
  <2>3. QED
    BY <2>1, <2>2, NumberInduction
<1>4. QED
  BY <1>3

LEMMA TextsAre ==
  /\ \A v \in Values[0] : Texts[0][v] = Node(v, <<>>)
  /\ \A d \in 1 .. MaxDepth : \A v \in Values[d] : Texts[d][v] = Node(v, Texts[d - 1])
<1>1. MaxDepth \in Nat
  BY JsonAssumption
<1>2. Texts = CHOOSE f : f = [d \in 0 .. MaxDepth |-> TextsStep(f, d)]
  BY DEF Texts, TextsStep
<1>3. \E f : f = [d \in 0 .. MaxDepth |-> TextsStep(f, d)]
  BY <1>1, SomeTexts
<1>4. Texts = [d \in 0 .. MaxDepth |-> TextsStep(Texts, d)]
  BY <1>2, <1>3
<1>5. \A d \in 0 .. MaxDepth : Texts[d] = TextsStep(Texts, d)
  BY <1>4
<1>6. 0 \in 0 .. MaxDepth /\ \A d \in 1 .. MaxDepth : d \in 0 .. MaxDepth /\ d # 0
  BY <1>1
<1>7. QED
  BY <1>5, <1>6 DEF TextsStep

\* The text of a value stands for it, at every depth.
LEMMA TextsSpell ==
  \A d \in 0 .. MaxDepth : \A v \in Values[d] : Spells(Texts[d][v], v)
<1> DEFINE P(d) == d \in 0 .. MaxDepth => \A v \in Values[d] : Spells(Texts[d][v], v)
           T == {d \in Nat : P(d)}
<1>0. MaxDepth \in Nat
  BY JsonAssumption
<1>1. P(0)
  BY ValuesAre, TextsAre, LeafReadsBack
<1>2. ASSUME NEW d \in Nat, P(d) PROVE P(d + 1)
  <2> SUFFICES ASSUME d + 1 \in 0 .. MaxDepth, NEW v \in Values[d + 1]
               PROVE  Spells(Texts[d + 1][v], v)
    OBVIOUS
  <2>1. d \in 0 .. MaxDepth /\ d + 1 \in 1 .. MaxDepth /\ (d + 1) - 1 = d
    BY <1>0
  <2> DEFINE S == Values[d]
             texts == Texts[d]
  <2>2. \A x \in S : Spells(texts[x], x)
    BY <1>2, <2>1
  <2>3. Texts[d + 1][v] = Node(v, texts)
    BY <2>1, TextsAre
  <2>4. v \in Leaves \cup [is : {"array"}, val : Seq(S)] \cup [is : {"object"}, val : Members(S)]
    BY <2>1, ValuesAre
  <2> HIDE DEF S, texts
  <2>5. CASE v \in Leaves
    BY <2>3, <2>5, LeafReadsBack
  <2>6. CASE v \in [is : {"array"}, val : Seq(S)]
    <3>1. v.val \in Seq(S) /\ v = Array(v.val)
      BY <2>6 DEF Array
    <3>2. Spells(Node(Array(v.val), texts), Array(v.val))
      BY <2>2, <3>1, ArrayReadsBack
    <3>3. QED
      BY <2>3, <3>1, <3>2
  <2>7. CASE v \in [is : {"object"}, val : Members(S)]
    <3>1. v.val \in Members(S) /\ v = Object(v.val)
      BY <2>7 DEF Object
    <3>2. Spells(Node(Object(v.val), texts), Object(v.val))
      BY <2>2, <3>1, ObjectReadsBack
    <3>3. QED
      BY <2>3, <3>1, <3>2
  <2>8. QED
    BY <2>4, <2>5, <2>6, <2>7
<1>3. \A d \in Nat : d \in T
  <2>1. 0 \in T /\ \A d \in T : d + 1 \in T
    <3> HIDE DEF P
    <3>1. QED
      BY <1>1, <1>2
  <2> HIDE DEF T
  <2>2. T \in SUBSET Nat
    BY DEF T
  <2>3. QED
    BY <2>1, <2>2, NumberInduction
<1>4. QED
  BY <1>0, <1>3

\* The text of every value is JSON, and it reads back as that value: whatever
\* characters its strings and names are made of, however deep it nests, whatever
\* order its members stand in.
THEOREM WriteReadsBack ==
  \A v \in Values[MaxDepth] : Read(write(v)) = v
<1> SUFFICES ASSUME NEW v \in Values[MaxDepth] PROVE Read(write(v)) = v
  OBVIOUS
<1>1. Spells(write(v), v)
  <2>1. MaxDepth \in 0 .. MaxDepth
    BY JsonAssumption
  <2>2. QED
    BY <2>1, TextsSpell DEF write
<1>2. After(Reading("value", Outside), write(v)) = Accept(Outside, v)
  BY <1>1 DEF Spells
<1>3. Accept(Outside, v) = Reading("end", v)
  BY DEF Accept, Outside
<1>4. Reading("end", v).expects = "end" /\ Reading("end", v).frame = v
  BY DEF Reading, Literal
<1>5. QED
  BY <1>2, <1>3, <1>4 DEF Read

LEMMA ValuesGrow ==
  /\ \A d \in 0 .. MaxDepth : Leaves \subseteq Values[d]
  /\ \A d \in 1 .. MaxDepth : Values[d - 1] \subseteq Values[d]
  /\ \A d \in 0 .. MaxDepth : Values[d] \subseteq Values[MaxDepth]
<1> DEFINE P(d) == d + 1 \in 1 .. MaxDepth => Values[d] \subseteq Values[d + 1]
           T == {d \in Nat : P(d)}
           Q(n) == n \in 0 .. MaxDepth => Values[MaxDepth - n] \subseteq Values[MaxDepth]
           U == {n \in Nat : Q(n)}
<1>0. MaxDepth \in Nat
  BY JsonAssumption
<1>1. \A d \in 0 .. MaxDepth : Leaves \subseteq Values[d]
  <2>1. \A d \in 0 .. MaxDepth : d = 0 \/ d \in 1 .. MaxDepth
    BY <1>0
  <2>2. QED
    BY <2>1, ValuesAre
<1>2. P(0)
  BY <1>0, <1>1, ValuesAre
<1>3. ASSUME NEW d \in Nat, P(d) PROVE P(d + 1)
  <2> SUFFICES ASSUME (d + 1) + 1 \in 1 .. MaxDepth
               PROVE  Values[d + 1] \subseteq Values[(d + 1) + 1]
    OBVIOUS
  <2>1. /\ d + 1 \in 1 .. MaxDepth /\ (d + 1) + 1 \in 1 .. MaxDepth
        /\ (d + 1) - 1 = d /\ ((d + 1) + 1) - 1 = d + 1
    BY <1>0
  <2> DEFINE A == Values[d]
             B == Values[d + 1]
             C == Values[(d + 1) + 1]
  <2>2. A \subseteq B
    BY <1>3, <2>1
  <2>3. /\ B = Leaves \cup [is : {"array"}, val : Seq(A)] \cup [is : {"object"}, val : Members(A)]
        /\ C = Leaves \cup [is : {"array"}, val : Seq(B)] \cup [is : {"object"}, val : Members(B)]
    BY <2>1, ValuesAre
  <2> HIDE DEF A, B, C
  <2>4. Seq(A) \subseteq Seq(B)
    BY <2>2
  <2>5. Members(A) \subseteq Members(B)
    <3>1. Seq(Seq(Chars) \X A) \subseteq Seq(Seq(Chars) \X B)
      <4> DEFINE X == Seq(Chars) \X A
                 Y == Seq(Chars) \X B
      <4>1. X \subseteq Y
        BY <2>2
      <4> HIDE DEF X, Y
      <4>2. Seq(X) \subseteq Seq(Y)
        BY <4>1
      <4>3. QED
        BY <4>2 DEF X, Y
    <3>2. QED
      BY <3>1 DEF Members
  <2>6. B \subseteq C
    BY <2>3, <2>4, <2>5
  <2>7. QED
    BY <2>6 DEF B, C
<1>4. \A d \in Nat : d \in T
  <2>1. 0 \in T /\ \A d \in T : d + 1 \in T
    <3> HIDE DEF P
    <3>1. QED
      BY <1>2, <1>3
  <2> HIDE DEF T
  <2>2. T \in SUBSET Nat
    BY DEF T
  <2>3. QED
    BY <2>1, <2>2, NumberInduction
<1>5. \A d \in 1 .. MaxDepth : Values[d - 1] \subseteq Values[d]
  <2> SUFFICES ASSUME NEW d \in 1 .. MaxDepth PROVE Values[d - 1] \subseteq Values[d]
    OBVIOUS
  <2>1. d - 1 \in Nat /\ (d - 1) + 1 = d
    BY <1>0
  <2>2. P(d - 1)
    BY <1>4, <2>1
  <2>3. QED
    BY <2>1, <2>2
<1>6. Q(0)
  BY <1>0
<1>7. ASSUME NEW n \in Nat, Q(n) PROVE Q(n + 1)
  <2> SUFFICES ASSUME n + 1 \in 0 .. MaxDepth
               PROVE  Values[MaxDepth - (n + 1)] \subseteq Values[MaxDepth]
    OBVIOUS
  <2>1. n \in 0 .. MaxDepth /\ MaxDepth - n \in 1 .. MaxDepth
        /\ (MaxDepth - n) - 1 = MaxDepth - (n + 1)
    BY <1>0
  <2>2. Values[(MaxDepth - n) - 1] \subseteq Values[MaxDepth - n]
    BY <1>5, <2>1
  <2>3. Values[MaxDepth - n] \subseteq Values[MaxDepth]
    BY <1>7, <2>1
  <2>4. QED
    BY <2>1, <2>2, <2>3
<1>8. \A n \in Nat : n \in U
  <2>1. 0 \in U /\ \A n \in U : n + 1 \in U
    <3> HIDE DEF Q
    <3>1. QED
      BY <1>6, <1>7
  <2> HIDE DEF U
  <2>2. U \in SUBSET Nat
    BY DEF U
  <2>3. QED
    BY <2>1, <2>2, NumberInduction
<1>9. \A d \in 0 .. MaxDepth : Values[d] \subseteq Values[MaxDepth]
  <2> SUFFICES ASSUME NEW d \in 0 .. MaxDepth PROVE Values[d] \subseteq Values[MaxDepth]
    OBVIOUS
  <2>1. MaxDepth - d \in Nat /\ MaxDepth - d \in 0 .. MaxDepth /\ MaxDepth - (MaxDepth - d) = d
    BY <1>0
  <2>2. Q(MaxDepth - d)
    BY <1>8, <2>1
  <2>3. QED
    BY <2>1, <2>2
<1>10. QED
  BY <1>1, <1>5, <1>9

-----------------------------------------------------------------------------
(* The document: every container holds what it was given.                  *)

\* What a container is given, and what it has of it.
Gifts == Values[MaxDepth] \cup (Keys \X Values[MaxDepth])

Kept(container, history) ==
  \/ container.is = "array" /\ container.val = history
  \/ /\ container.is = "object"
     /\ history \in Seq(Keys \X Values[MaxDepth])
     /\ AsGiven(container.val, history)

\* A stack of containers and what each of them was given.
Stacked(st, gv) ==
  /\ st \in Seq(Values[MaxDepth]) /\ gv \in Seq(Seq(Gifts))
  /\ Len(st) \in 1 .. MaxDepth /\ Len(gv) = Len(st)
  /\ \A k \in 1 .. Len(st) : st[k] \in Values[MaxDepth + 1 - k] /\ Kept(st[k], gv[k])

IInv == Stacked(open, given) /\ calls \in 0 .. MaxCalls

LEMMA ContainersAre ==
  ASSUME NEW d \in 1 .. MaxDepth, NEW c \in Values[d]
  PROVE  /\ c.is = "array" => c.val \in Seq(Values[d - 1]) /\ c = Array(c.val)
         /\ c.is = "object" => c.val \in Members(Values[d - 1]) /\ c = Object(c.val)
<1> DEFINE S == Values[d - 1]
<1>1. c \in Leaves \cup [is : {"array"}, val : Seq(S)] \cup [is : {"object"}, val : Members(S)]
  BY ValuesAre
<1> HIDE DEF S
<1>2. CASE c \in Leaves
  <2>1. c.is \notin {"array", "object"}
    BY <1>2 DEF Leaves, Null
  <2>2. QED
    BY <2>1
<1>3. CASE c \in [is : {"array"}, val : Seq(S)]
  BY <1>3 DEF Array, S
<1>4. CASE c \in [is : {"object"}, val : Members(S)]
  BY <1>4 DEF Object, S
<1>5. QED
  BY <1>1, <1>2, <1>3, <1>4

LEMMA ContainersIn ==
  ASSUME NEW d \in 1 .. MaxDepth
  PROVE  /\ \A val \in Seq(Values[d - 1]) :
              Array(val) \in Values[d] /\ Array(val).is = "array" /\ Array(val).val = val
         /\ \A val \in Members(Values[d - 1]) :
              Object(val) \in Values[d] /\ Object(val).is = "object" /\ Object(val).val = val
BY ValuesAre DEF Array, Object

\* The members after a set.
Members1(val, key, value) ==
  IF \E m \in DOMAIN val : val[m][1] = key
  THEN [m \in DOMAIN val |-> IF val[m][1] = key THEN <<key, value>> ELSE val[m]]
  ELSE Append(val, <<key, value>>)

LEMMA SetIs ==
  ASSUME NEW val, NEW key, NEW value
  PROVE  set(Object(val), key, value) = Object(Members1(val, key, value))
BY DEF set, Object, Members1

LEMMA NoneGiven == AsGiven(<<>>, <<>>) /\ \A S : <<>> \in Members(S)
<1>1. DOMAIN <<>> = {}
  OBVIOUS
<1>2. QED
  BY <1>1 DEF AsGiven, Members, NamesDiffer

\* What a set leaves: one member more or one overwritten, the names in their places.
LEMMA SetLeaves ==
  ASSUME NEW S, NEW val \in Members(S), NEW key \in Seq(Chars), NEW value \in S
  PROVE  LET new == Members1(val, key, value) IN
           /\ new \in Members(S)
           /\ Len(val) \in Nat /\ DOMAIN val = 1 .. Len(val)
           /\ DOMAIN new = 1 .. Len(val) \/ DOMAIN new = 1 .. Len(val) + 1
           /\ \A m \in 1 .. Len(val) : new[m][1] = val[m][1]
           /\ \A m \in DOMAIN new : IF new[m][1] = key THEN new[m] = <<key, value>>
                                    ELSE m \in 1 .. Len(val) /\ new[m] = val[m]
           /\ \E m \in DOMAIN new : new[m][1] = key
           /\ \A m \in DOMAIN new \ (1 .. Len(val)) :
                /\ m = Len(val) + 1 /\ new[m][1] = key
                /\ \A n \in 1 .. Len(val) : val[n][1] # key
<1> DEFINE P == Seq(Chars) \X S
           n == Len(val)
           pair == <<key, value>>
           new == Members1(val, key, value)
<1>1. val \in Seq(P) /\ NamesDiffer(val) /\ pair \in P /\ pair[1] = key
  BY DEF Members
<1> HIDE DEF P, pair
<1>2. n \in Nat /\ DOMAIN val = 1 .. n /\ \A m \in 1 .. n : val[m] \in P
  BY <1>1, LenProperties, ElementsOf
<1>3. CASE \E m \in DOMAIN val : val[m][1] = key
  <2>1. new = [m \in 1 .. n |-> IF val[m][1] = key THEN pair ELSE val[m]]
    BY <1>2, <1>3 DEF Members1, pair
  <2> HIDE DEF new
  <2>2. /\ new = [m \in 1 .. n |-> new[m]] /\ DOMAIN new = 1 .. n
        /\ \A m \in 1 .. n : new[m] = IF val[m][1] = key THEN pair ELSE val[m]
    BY <2>1
  <2>3. \A m \in 1 .. n : new[m] \in P /\ new[m][1] = val[m][1]
    BY <1>1, <1>2, <2>2
  <2>4. new \in Seq(P)
    <3> HIDE DEF n
    <3>1. QED
      BY <1>2, <2>2, <2>3, RowIsSequence
  <2>5. NamesDiffer(new)
    BY <1>1, <1>2, <2>2, <2>3 DEF NamesDiffer
  <2>6. new \in Members(S)
    BY <2>4, <2>5 DEF Members, P
  <2>7. \E m \in 1 .. n : new[m][1] = key
    BY <1>2, <1>3, <2>3
  <2>8. DOMAIN new \ (1 .. n) = {}
    BY <2>2
  <2>9. \A m \in 1 .. n : IF new[m][1] = key THEN new[m] = pair ELSE new[m] = val[m]
    BY <2>2, <2>3
  <2> HIDE DEF n
  <2>10. QED
    BY <1>2, <2>2, <2>3, <2>6, <2>7, <2>8, <2>9 DEF n, new, pair
<1>4. CASE ~ \E m \in DOMAIN val : val[m][1] = key
  <2>1. new = Append(val, pair)
    BY <1>4 DEF Members1, pair
  <2> HIDE DEF new
  <2>2. /\ new \in Seq(P) /\ Len(new) = n + 1 /\ new[n + 1] = pair
        /\ \A m \in 1 .. n : new[m] = val[m]
    BY <1>1, <2>1, AppendProperties
  <2>3. DOMAIN new = 1 .. n + 1
    BY <2>2, LenProperties
  <2>4. \A m \in 1 .. n : val[m][1] # key
    BY <1>2, <1>4
  <2> HIDE DEF n
  <2>5. \A m \in 1 .. n + 1 : m \in 1 .. n \/ m = n + 1
    BY <1>2
  <2>6. NamesDiffer(new)
    <3>1. \A i, j \in 1 .. n + 1 : new[i][1] = new[j][1] => i = j
      <4> SUFFICES ASSUME NEW i \in 1 .. n + 1, NEW j \in 1 .. n + 1, new[i][1] = new[j][1]
                   PROVE  i = j
        OBVIOUS
      <4>1. CASE i \in 1 .. n /\ j \in 1 .. n
        BY <1>1, <1>2, <2>2, <4>1 DEF NamesDiffer
      <4>2. CASE i = n + 1 /\ j \in 1 .. n
        BY <1>1, <2>2, <2>4, <4>2
      <4>3. CASE i \in 1 .. n /\ j = n + 1
        BY <1>1, <2>2, <2>4, <4>3
      <4>4. QED
        BY <2>5, <4>1, <4>2, <4>3
    <3>2. QED
      BY <2>3, <3>1 DEF NamesDiffer
  <2>7. new \in Members(S)
    BY <2>2, <2>6 DEF Members, P
  <2>8. n + 1 \in 1 .. n + 1 /\ 1 .. n \subseteq 1 .. n + 1
    BY <1>2
  <2>9. \A m \in 1 .. n + 1 : IF new[m][1] = key THEN new[m] = pair
                             ELSE m \in 1 .. n /\ new[m] = val[m]
    BY <1>1, <2>2, <2>4, <2>5
  <2>10. new[n + 1][1] = key
    BY <1>1, <2>2
  <2>11. \A m \in DOMAIN new \ (1 .. n) : m = n + 1
    BY <2>3, <2>5
  <2>12. \A m \in 1 .. n : new[m][1] = val[m][1]
    BY <2>2
  <2>13. QED
    BY <1>2, <2>3, <2>4, <2>7, <2>8, <2>9, <2>10, <2>11, <2>12 DEF n, new, pair
<1>5. QED
  BY <1>3, <1>4

LEMMA AsGivenIs ==
  ASSUME NEW S, NEW members \in Seq(S), NEW G, NEW history \in Seq(G), AsGiven(members, history)
  PROVE  LET n == Len(members)
             h == Len(history)
         IN  /\ \A m \in 1 .. n : \E i \in 1 .. h :
                  /\ history[i] = members[m]
                  /\ \A j \in 1 .. h : j > i => history[j][1] # members[m][1]
             /\ \A i \in 1 .. h : \E m \in 1 .. n : members[m][1] = history[i][1]
             /\ \A l, m \in 1 .. n : l < m =>
                  \E i \in 1 .. h : /\ history[i][1] = members[l][1]
                                    /\ \A j \in 1 .. i : history[j][1] # members[m][1]
<1> DEFINE n == Len(members)
           h == Len(history)
<1>0. DOMAIN members = 1 .. n /\ DOMAIN history = 1 .. h
  BY LenProperties
<1> HIDE DEF n, h
<1>1. ASSUME NEW m \in 1 .. n
      PROVE  \E i \in 1 .. h :
               /\ history[i] = members[m]
               /\ \A j \in 1 .. h : j > i => history[j][1] # members[m][1]
  <2>1. PICK i \in DOMAIN history :
          /\ history[i] = members[m]
          /\ \A j \in DOMAIN history : j > i => history[j][1] # members[m][1]
    BY <1>0 DEF AsGiven
  <2>2. QED
    BY <1>0, <2>1
<1>2. ASSUME NEW i \in 1 .. h
      PROVE  \E m \in 1 .. n : members[m][1] = history[i][1]
  <2>1. PICK m \in DOMAIN members : members[m][1] = history[i][1]
    BY <1>0 DEF AsGiven
  <2>2. QED
    BY <1>0, <2>1
<1>3. ASSUME NEW l \in 1 .. n, NEW m \in 1 .. n, l < m
      PROVE  \E i \in 1 .. h : /\ history[i][1] = members[l][1]
                                /\ \A j \in 1 .. i : history[j][1] # members[m][1]
  <2>1. \A x, y \in DOMAIN members :
          x < y => \E i \in DOMAIN history :
                     /\ history[i][1] = members[x][1]
                     /\ \A j \in 1 .. i : history[j][1] # members[y][1]
    BY DEF AsGiven
  <2>2. l \in DOMAIN members /\ m \in DOMAIN members
    BY <1>0
  <2>3. PICK i \in DOMAIN history :
          /\ history[i][1] = members[l][1]
          /\ \A j \in 1 .. i : history[j][1] # members[m][1]
    BY <1>3, <2>1, <2>2
  <2>4. QED
    BY <1>0, <2>3
<1>4. QED
  BY <1>1, <1>2, <1>3 DEF n, h

\* After a set the object holds what it held, and the member that was given last.
LEMMA SetKeepsHistory ==
  ASSUME NEW S, NEW val \in Members(S), NEW key \in Seq(Chars), NEW value \in S,
         NEW G, NEW history \in Seq(G), <<key, value>> \in G, AsGiven(val, history)
  PROVE  AsGiven(Members1(val, key, value), Append(history, <<key, value>>))
<1> DEFINE n == Len(val)
           h == Len(history)
           pair == <<key, value>>
           new == Members1(val, key, value)
           more == Append(history, pair)
<1>1. /\ n \in Nat /\ DOMAIN val = 1 .. n
      /\ DOMAIN new = 1 .. n \/ DOMAIN new = 1 .. n + 1
      /\ \A m \in 1 .. n : new[m][1] = val[m][1]
      /\ \A m \in DOMAIN new : IF new[m][1] = key THEN new[m] = pair
                               ELSE m \in 1 .. n /\ new[m] = val[m]
      /\ \E m \in DOMAIN new : new[m][1] = key
      /\ \A m \in DOMAIN new \ (1 .. n) :
           /\ m = n + 1 /\ new[m][1] = key
           /\ \A i \in 1 .. n : val[i][1] # key
  BY SetLeaves
<1>2. /\ h \in Nat /\ DOMAIN history = 1 .. h /\ Len(more) = h + 1 /\ more \in Seq(G)
      /\ more[h + 1] = pair /\ pair[1] = key /\ \A i \in 1 .. h : more[i] = history[i]
  BY AppendProperties, LenProperties
<1>3. DOMAIN more = 1 .. h + 1
  BY <1>2, LenProperties
<1>4. /\ \A m \in 1 .. n : \E i \in 1 .. h :
           /\ history[i] = val[m] /\ \A j \in 1 .. h : j > i => history[j][1] # val[m][1]
      /\ \A i \in 1 .. h : \E m \in 1 .. n : val[m][1] = history[i][1]
      /\ \A l, m \in 1 .. n : l < m =>
           \E i \in 1 .. h : /\ history[i][1] = val[l][1]
                             /\ \A j \in 1 .. i : history[j][1] # val[m][1]
  <2>1. val \in Seq(Seq(Chars) \X S) /\ AsGiven(val, history)
    BY DEF Members
  <2>2. QED
    BY <2>1, AsGivenIs
<1> HIDE DEF n, h, pair, new, more
<1>5. h + 1 \in 1 .. h + 1 /\ 1 .. h \subseteq 1 .. h + 1
      /\ \A i \in 1 .. h + 1 : i \in 1 .. h \/ i = h + 1
  BY <1>2
<1>6. 1 .. n \subseteq DOMAIN new /\ \A m \in DOMAIN new : m \in 1 .. n \/ m = n + 1
  BY <1>1
<1>7. ASSUME NEW m \in DOMAIN new
      PROVE  \E i \in 1 .. h + 1 :
               more[i] = new[m] /\ \A j \in 1 .. h + 1 : j > i => more[j][1] # new[m][1]
  <2>1. CASE new[m][1] = key
    <3>1. more[h + 1] = new[m]
      BY <1>1, <1>2, <2>1
    <3>2. \A j \in 1 .. h + 1 : ~ (j > h + 1)
      BY <1>2
    <3>3. QED
      BY <1>5, <3>1, <3>2
  <2>2. CASE new[m][1] # key
    <3>1. m \in 1 .. n /\ new[m] = val[m]
      BY <1>1, <2>2
    <3>2. PICK i \in 1 .. h :
            /\ history[i] = val[m] /\ \A j \in 1 .. h : j > i => history[j][1] # val[m][1]
      BY <1>4, <3>1
    <3>3. \A j \in 1 .. h + 1 : j > i => more[j][1] # new[m][1]
      BY <1>2, <1>5, <2>2, <3>1, <3>2
    <3>4. QED
      BY <1>2, <1>5, <3>1, <3>2, <3>3
  <2>3. QED
    BY <2>1, <2>2
<1>8. ASSUME NEW i \in 1 .. h + 1
      PROVE  \E m \in DOMAIN new : new[m][1] = more[i][1]
  <2>1. CASE i \in 1 .. h
    <3>1. PICK m \in 1 .. n : val[m][1] = history[i][1]
      BY <1>4, <2>1
    <3>2. QED
      BY <1>1, <1>2, <1>6, <2>1, <3>1
  <2>2. CASE i = h + 1
    BY <1>1, <1>2, <2>2
  <2>3. QED
    BY <1>5, <2>1, <2>2
<1>9. ASSUME NEW l \in DOMAIN new, NEW m \in DOMAIN new, l < m
      PROVE  \E i \in 1 .. h + 1 : /\ more[i][1] = new[l][1]
                                   /\ \A j \in 1 .. i : more[j][1] # new[m][1]
  <2>1. l \in 1 .. n
    BY <1>1, <1>6, <1>9
  <2>2. \A i \in 1 .. h : 1 .. i \subseteq 1 .. h
    BY <1>2
  <2>3. CASE m \in 1 .. n
    <3>1. PICK i \in 1 .. h : /\ history[i][1] = val[l][1]
                              /\ \A j \in 1 .. i : history[j][1] # val[m][1]
      BY <1>4, <1>9, <2>1, <2>3
    <3>2. more[i][1] = new[l][1]
      BY <1>1, <1>2, <2>1, <3>1
    <3>3. \A j \in 1 .. i : more[j][1] # new[m][1]
      BY <1>1, <1>2, <2>2, <2>3, <3>1
    <3>4. QED
      BY <1>5, <3>2, <3>3
  <2>4. CASE m \notin 1 .. n
    <3>1. new[m][1] = key /\ \A i \in 1 .. n : val[i][1] # key
      BY <1>1, <2>4
    <3>2. PICK i \in 1 .. h : history[i] = val[l]
      BY <1>4, <2>1
    <3>3. more[i][1] = new[l][1]
      BY <1>1, <1>2, <2>1, <3>2
    <3>4. \A j \in 1 .. h : more[j][1] # key
      <4> SUFFICES ASSUME NEW j \in 1 .. h PROVE more[j][1] # key
        OBVIOUS
      <4>1. PICK k \in 1 .. n : val[k][1] = history[j][1]
        BY <1>4
      <4>2. QED
        BY <1>2, <3>1, <4>1
    <3>5. QED
      BY <1>5, <2>2, <3>1, <3>3, <3>4
  <2>5. QED
    BY <2>3, <2>4
<1>10. AsGiven(new, more)
  <2>1. \A m \in DOMAIN new :
          \E i \in DOMAIN more :
            /\ more[i] = new[m]
            /\ \A j \in DOMAIN more : j > i => more[j][1] # new[m][1]
    BY <1>3, <1>7
  <2>2. \A i \in DOMAIN more : \E m \in DOMAIN new : new[m][1] = more[i][1]
    BY <1>3, <1>8
  <2>3. \A l, m \in DOMAIN new :
          l < m => \E i \in DOMAIN more :
                     /\ more[i][1] = new[l][1]
                     /\ \A j \in 1 .. i : more[j][1] # new[m][1]
    BY <1>3, <1>9
  <2>4. QED
    BY <2>1, <2>2, <2>3 DEF AsGiven
<1>11. QED
  BY <1>10 DEF new, more, pair

LEMMA ScalarsAreValues ==
  ASSUME NEW d \in 1 .. MaxDepth
  PROVE  Scalars \subseteq Values[d - 1]
<1>1. d - 1 \in 0 .. MaxDepth
  BY JsonAssumption
<1>2. QED
  BY <1>1, ValuesGrow, DocumentAssumption

LEMMA SetKeeps ==
  ASSUME NEW d \in 1 .. MaxDepth, NEW c \in Values[d], c.is = "object",
         NEW key \in Keys, NEW value \in Values[d - 1],
         NEW history \in Seq(Gifts), Kept(c, history)
  PROVE  /\ set(c, key, value) \in Values[d]
         /\ Append(history, <<key, value>>) \in Seq(Gifts)
         /\ Kept(set(c, key, value), Append(history, <<key, value>>))
<1> DEFINE S == Values[d - 1]
           val == c.val
           G == Keys \X Values[MaxDepth]
           pair == <<key, value>>
           new == Members1(val, key, value)
<1>1. val \in Members(S) /\ c = Object(val)
  BY ContainersAre
<1>2. S \subseteq Values[MaxDepth]
  <2>1. d - 1 \in 0 .. MaxDepth
    BY JsonAssumption
  <2>2. QED
    BY <2>1, ValuesGrow
<1>3. key \in Seq(Chars) /\ pair \in G /\ pair \in Gifts
  BY <1>2, DocumentAssumption DEF Gifts
<1>4. history \in Seq(G) /\ AsGiven(val, history)
  BY DEF Kept
<1>5. set(c, key, value) = Object(new)
  BY <1>1, SetIs
<1>6. new \in Members(S)
  BY <1>1, <1>3, SetLeaves
<1>7. Object(new) \in Values[d] /\ Object(new).is = "object" /\ Object(new).val = new
  BY <1>6, ContainersIn
<1> HIDE DEF S, G, val, new, pair
<1>8. AsGiven(Members1(val, key, value), Append(history, <<key, value>>))
  BY <1>1, <1>3, <1>4, SetKeepsHistory DEF S, pair
<1>9. Append(history, pair) \in Seq(G) /\ Append(history, pair) \in Seq(Gifts)
  BY <1>3, <1>4, AppendProperties
<1>10. Kept(Object(new), Append(history, pair))
  BY <1>7, <1>8, <1>9 DEF Kept, G, new, pair
<1>11. QED
  BY <1>5, <1>7, <1>9, <1>10 DEF pair

LEMMA PushKeeps ==
  ASSUME NEW d \in 1 .. MaxDepth, NEW c \in Values[d], c.is = "array",
         NEW value \in Values[d - 1], NEW history \in Seq(Gifts), Kept(c, history)
  PROVE  /\ push(c, value) \in Values[d]
         /\ Append(history, value) \in Seq(Gifts)
         /\ Kept(push(c, value), Append(history, value))
<1> DEFINE S == Values[d - 1]
           val == c.val
<1>1. val \in Seq(S) /\ c = Array(val) /\ val = history
  BY ContainersAre DEF Kept
<1>2. S \subseteq Values[MaxDepth]
  <2>1. d - 1 \in 0 .. MaxDepth
    BY JsonAssumption
  <2>2. QED
    BY <2>1, ValuesGrow
<1>3. value \in Gifts
  BY <1>2 DEF Gifts
<1>4. push(c, value) = Array(Append(val, value))
  BY <1>1 DEF push, Array
<1>5. Append(val, value) \in Seq(S)
  BY <1>1, AppendProperties
<1>6. /\ Array(Append(val, value)) \in Values[d] /\ Array(Append(val, value)).is = "array"
      /\ Array(Append(val, value)).val = Append(val, value)
  BY <1>5, ContainersIn
<1>7. Append(history, value) \in Seq(Gifts)
  BY <1>3, AppendProperties
<1> HIDE DEF S, val
<1>8. QED
  BY <1>1, <1>4, <1>6, <1>7 DEF Kept

\* The last container changes.
LEMMA LastChanges ==
  ASSUME NEW st, NEW gv, Stacked(st, gv), NEW c \in Values[MaxDepth + 1 - Len(st)],
         NEW history \in Seq(Gifts), Kept(c, history)
  PROVE  Stacked([st EXCEPT ![Len(st)] = c], [gv EXCEPT ![Len(st)] = history])
<1> DEFINE n == Len(st)
           ss == [st EXCEPT ![n] = c]
           hh == [gv EXCEPT ![n] = history]
           V == Values[MaxDepth]
           H == Seq(Gifts)
<1>0. MaxDepth \in Nat
  BY JsonAssumption
<1>1. /\ st \in Seq(V) /\ gv \in Seq(H) /\ n \in 1 .. MaxDepth /\ Len(gv) = n
      /\ \A k \in 1 .. n : st[k] \in Values[MaxDepth + 1 - k] /\ Kept(st[k], gv[k])
  BY DEF Stacked
<1>2. c \in V
  <2>1. MaxDepth + 1 - n \in 0 .. MaxDepth
    BY <1>0, <1>1
  <2>2. QED
    BY <2>1, ValuesGrow
<1>3. history \in H /\ c \in Values[MaxDepth + 1 - n]
  OBVIOUS
<1> HIDE DEF V, H, n
<1>4. n \in 1 .. n /\ n \in Nat
  BY <1>0, <1>1
<1>5. /\ ss \in Seq(V) /\ Len(ss) = n /\ ss[n] = c /\ \A k \in 1 .. n : k # n => ss[k] = st[k]
  <2>1. n \in 1 .. Len(st) /\ Len(st) = n
    BY <1>4 DEF n
  <2>2. QED
    BY <1>1, <1>2, <2>1, ExceptSeq
<1>6. /\ hh \in Seq(H) /\ Len(hh) = n /\ hh[n] = history
      /\ \A k \in 1 .. n : k # n => hh[k] = gv[k]
  BY <1>1, <1>3, <1>4, ExceptSeq
<1> HIDE DEF ss, hh
<1>7. \A k \in 1 .. n : ss[k] \in Values[MaxDepth + 1 - k] /\ Kept(ss[k], hh[k])
  BY <1>1, <1>3, <1>5, <1>6
<1>8. Stacked(ss, hh)
  BY <1>1, <1>5, <1>6, <1>7 DEF Stacked, V, H
<1>9. QED
  BY <1>8 DEF ss, hh, n

\* One more container.
LEMMA OneMore ==
  ASSUME NEW st, NEW gv, Stacked(st, gv), Len(st) < MaxDepth,
         NEW c \in {EmptyArray, EmptyObject}
  PROVE  Stacked(Append(st, c), Append(gv, <<>>))
<1> DEFINE n == Len(st)
           ss == Append(st, c)
           hh == Append(gv, <<>>)
           V == Values[MaxDepth]
           H == Seq(Gifts)
<1>0. MaxDepth \in Nat
  BY JsonAssumption
<1>1. /\ st \in Seq(V) /\ gv \in Seq(H) /\ n \in 1 .. MaxDepth /\ Len(gv) = n
      /\ \A k \in 1 .. n : st[k] \in Values[MaxDepth + 1 - k] /\ Kept(st[k], gv[k])
      /\ n < MaxDepth
  BY DEF Stacked
<1>2. c \in Values[MaxDepth - n] /\ Kept(c, <<>>)
  <2>1. MaxDepth - n \in 1 .. MaxDepth
    BY <1>0, <1>1
  <2> DEFINE d == MaxDepth - n
  <2>2. d \in 1 .. MaxDepth
    BY <2>1
  <2> HIDE DEF d
  <2>3. <<>> \in Seq(Values[d - 1]) /\ <<>> \in Members(Values[d - 1])
    BY NoneGiven, EmptySeq
  <2>4. /\ Array(<<>>) \in Values[d] /\ Array(<<>>).is = "array" /\ Array(<<>>).val = <<>>
        /\ Object(<<>>) \in Values[d] /\ Object(<<>>).is = "object" /\ Object(<<>>).val = <<>>
    BY <2>2, <2>3, ContainersIn
  <2>5. <<>> \in Seq(Keys \X Values[MaxDepth])
    BY EmptySeq
  <2>6. QED
    BY <2>4, <2>5, NoneGiven DEF Kept, EmptyArray, EmptyObject, d
<1>3. c \in V
  <2>1. MaxDepth - n \in 0 .. MaxDepth
    BY <1>0, <1>1
  <2>2. QED
    BY <1>2, <2>1, ValuesGrow
<1>4. <<>> \in H
  BY EmptySeq
<1> HIDE DEF V, H, n
<1>5. /\ ss \in Seq(V) /\ Len(ss) = n + 1 /\ ss[n + 1] = c /\ \A k \in 1 .. n : ss[k] = st[k]
  <2>1. Len(st) = n
    BY DEF n
  <2>2. QED
    BY <1>1, <1>3, <2>1, AppendProperties
<1>6. /\ hh \in Seq(H) /\ Len(hh) = n + 1 /\ hh[n + 1] = <<>> /\ \A k \in 1 .. n : hh[k] = gv[k]
  BY <1>1, <1>4, AppendProperties
<1> HIDE DEF ss, hh
<1>7. n + 1 \in 1 .. MaxDepth /\ MaxDepth + 1 - (n + 1) = MaxDepth - n
      /\ \A k \in 1 .. n + 1 : k \in 1 .. n \/ k = n + 1
  BY <1>0, <1>1
<1>8. \A k \in 1 .. n + 1 : ss[k] \in Values[MaxDepth + 1 - k] /\ Kept(ss[k], hh[k])
  BY <1>1, <1>2, <1>5, <1>6, <1>7
<1>9. Stacked(ss, hh)
  BY <1>5, <1>6, <1>7, <1>8 DEF Stacked, V, H
<1>10. QED
  BY <1>9 DEF ss, hh

\* Without the last container.
LEMMA OneLess ==
  ASSUME NEW st, NEW gv, Stacked(st, gv), Len(st) > 1
  PROVE  /\ Stacked(Front(st), Front(gv)) /\ Len(Front(st)) = Len(st) - 1
         /\ Front(st)[Len(st) - 1] = st[Len(st) - 1]
         /\ Front(gv)[Len(st) - 1] = gv[Len(st) - 1]
<1> DEFINE n == Len(st)
           ss == SubSeq(st, 1, n - 1)
           hh == SubSeq(gv, 1, n - 1)
           V == Values[MaxDepth]
           H == Seq(Gifts)
<1>0. MaxDepth \in Nat
  BY JsonAssumption
<1>1. /\ st \in Seq(V) /\ gv \in Seq(H) /\ n \in 1 .. MaxDepth /\ Len(gv) = n
      /\ \A k \in 1 .. n : st[k] \in Values[MaxDepth + 1 - k] /\ Kept(st[k], gv[k])
      /\ n > 1 /\ Len(st) = n
  BY DEF Stacked
<1>2. Front(st) = ss /\ Front(gv) = hh
  BY <1>1 DEF Front
<1> HIDE DEF V, H, n
<1>3. n - 1 \in 1 .. n /\ n - 1 \in Nat /\ n - 1 \in 1 .. n - 1 /\ n \in Nat /\ 1 .. n - 1 \subseteq 1 .. n
      /\ n - 1 \in 1 .. MaxDepth
  BY <1>0, <1>1
<1>4. ss \in Seq(V) /\ Len(ss) = n - 1 /\ \A k \in 1 .. n - 1 : ss[k] = st[k]
  BY <1>1, <1>3
<1>5. hh \in Seq(H) /\ Len(hh) = n - 1 /\ \A k \in 1 .. n - 1 : hh[k] = gv[k]
  BY <1>1, <1>3
<1> HIDE DEF ss, hh
<1>6. \A k \in 1 .. n - 1 : ss[k] \in Values[MaxDepth + 1 - k] /\ Kept(ss[k], hh[k])
  BY <1>1, <1>3, <1>4, <1>5
<1>7. Stacked(ss, hh)
  BY <1>3, <1>4, <1>5, <1>6 DEF Stacked, V, H
<1>8. QED
  BY <1>2, <1>3, <1>4, <1>5, <1>7 DEF n

LEMMA InitInv == Init => IInv
<1> SUFFICES ASSUME Init PROVE IInv
  OBVIOUS
<1> DEFINE V == Values[MaxDepth]
           H == Seq(Gifts)
           none == <<>>
<1>1. EmptyObject \in V /\ Kept(EmptyObject, <<>>)
  <2>1. MaxDepth \in 1 .. MaxDepth
    BY JsonAssumption
  <2>2. <<>> \in Members(Values[MaxDepth - 1]) /\ <<>> \in Seq(Keys \X Values[MaxDepth])
    BY NoneGiven, EmptySeq
  <2>3. Object(<<>>) \in V /\ Object(<<>>).is = "object" /\ Object(<<>>).val = <<>>
    BY <2>1, <2>2, ContainersIn
  <2>4. QED
    BY <2>2, <2>3, NoneGiven DEF Kept, EmptyObject
<1>2. none \in H
  BY EmptySeq
<1>3. open = <<EmptyObject>> /\ given = <<none>> /\ calls = 0
  BY DEF Init
<1>4. 1 \in 1 .. MaxDepth /\ MaxDepth + 1 - 1 = MaxDepth
  BY JsonAssumption
<1>5. Kept(EmptyObject, none)
  BY <1>1
<1> HIDE DEF V, H, none
<1>6. open \in Seq(V) /\ Len(open) = 1 /\ open[1] = EmptyObject
  BY <1>1, <1>3
<1>7. given \in Seq(H) /\ Len(given) = 1 /\ given[1] = none
  BY <1>2, <1>3
<1>8. \A k \in 1 .. 1 : k = 1
  OBVIOUS
<1>9. Stacked(open, given)
  BY <1>1, <1>4, <1>5, <1>6, <1>7, <1>8 DEF Stacked, V, H
<1>10. QED
  BY <1>3, <1>9, DocumentAssumption DEF IInv

\* One lemma per action: the containers still hold what they were given.
LEMMA SetScalarKeeps == IInv /\ SetScalar => IInv'
<1> SUFFICES ASSUME IInv, SetScalar PROVE IInv'
  OBVIOUS
<1> DEFINE n == Len(open)
           c == open[n]
           h == given[n]
<1>1. PICK key \in Keys, value \in Scalars :
        /\ open' = [open EXCEPT ![n] = set(@, key, value)]
        /\ given' = [given EXCEPT ![n] = Append(@, <<key, value>>)]
  BY DEF SetScalar, Depth
<1>2. Stacked(open, given) /\ c.is = "object" /\ calls < MaxCalls /\ calls' = calls + 1
  BY DEF IInv, SetScalar, Call, Depth
<1>3. n \in 1 .. n /\ n \in 1 .. MaxDepth /\ c \in Values[MaxDepth + 1 - n] /\ Kept(c, h)
  BY <1>2 DEF Stacked
<1>4. h \in Seq(Gifts)
  BY <1>2, <1>3 DEF Stacked
<1>0. /\ open' = [open EXCEPT ![n] = set(c, key, value)]
      /\ given' = [given EXCEPT ![n] = Append(h, <<key, value>>)]
  BY <1>1
<1> HIDE DEF n, c, h
<1> DEFINE d == MaxDepth + 1 - n
<1>5. d \in 1 .. MaxDepth
  BY <1>3, JsonAssumption
<1> HIDE DEF d
<1>6. value \in Values[d - 1] /\ c \in Values[d]
  BY <1>3, <1>5, ScalarsAreValues DEF d
<1>7. /\ set(c, key, value) \in Values[d]
      /\ Append(h, <<key, value>>) \in Seq(Gifts)
      /\ Kept(set(c, key, value), Append(h, <<key, value>>))
  BY <1>2, <1>3, <1>4, <1>5, <1>6, SetKeeps
<1>8. Stacked(open', given')
  BY <1>0, <1>2, <1>7, LastChanges DEF d, n
<1>9. calls' \in 0 .. MaxCalls
  BY <1>2, DocumentAssumption DEF IInv
<1>10. QED
  BY <1>8, <1>9 DEF IInv

LEMMA OpenKeeps == IInv /\ (OpenArray \/ OpenObject) => IInv'
<1> SUFFICES ASSUME IInv, OpenArray \/ OpenObject PROVE IInv'
  OBVIOUS
<1>1. PICK c \in {EmptyArray, EmptyObject} : open' = Append(open, c) /\ given' = Append(given, <<>>)
  BY DEF OpenArray, OpenObject
<1>2. /\ Stacked(open, given) /\ Len(open) < MaxDepth
      /\ calls \in 0 .. MaxCalls /\ calls < MaxCalls /\ calls' = calls + 1
  BY DEF IInv, OpenArray, OpenObject, Call, Depth
<1>3. Stacked(open', given')
  BY <1>1, <1>2, OneMore
<1>4. calls' \in 0 .. MaxCalls
  BY <1>2, DocumentAssumption
<1>5. QED
  BY <1>3, <1>4 DEF IInv

\* What SetMember and PushEntry have in common: the last container goes into the one
\* around it.
LEMMA OneIn ==
  ASSUME NEW st, NEW gv, Stacked(st, gv), Len(st) > 1, NEW c, NEW history,
         c \in Values[MaxDepth + 2 - Len(st)], history \in Seq(Gifts), Kept(c, history)
  PROVE  Stacked([Front(st) EXCEPT ![Len(st) - 1] = c],
                 [Front(gv) EXCEPT ![Len(st) - 1] = history])
<1> DEFINE ss == Front(st)
           hh == Front(gv)
           n == Len(st)
<1>1. Stacked(ss, hh) /\ Len(ss) = n - 1
  BY OneLess
<1>2. n \in Nat /\ MaxDepth \in Nat /\ MaxDepth + 1 - (n - 1) = MaxDepth + 2 - n
  BY JsonAssumption DEF Stacked
<1> HIDE DEF ss, hh, n
<1>3. c \in Values[MaxDepth + 1 - Len(ss)]
  BY <1>1, <1>2 DEF n
<1>4. Stacked([ss EXCEPT ![Len(ss)] = c], [hh EXCEPT ![Len(ss)] = history])
  BY <1>1, <1>3, LastChanges
<1>5. QED
  BY <1>1, <1>4 DEF ss, hh, n

LEMMA AroundLast ==
  ASSUME NEW st, NEW gv, Stacked(st, gv), Len(st) > 1, NEW n, n = Len(st)
  PROVE  /\ n \in Nat /\ n - 1 \in 1 .. n /\ MaxDepth + 2 - n \in 1 .. MaxDepth
         /\ st[n - 1] \in Values[MaxDepth + 2 - n]
         /\ st[n] \in Values[(MaxDepth + 2 - n) - 1]
         /\ gv[n - 1] \in Seq(Gifts) /\ Kept(st[n - 1], gv[n - 1])
<1>1. /\ gv \in Seq(Seq(Gifts)) /\ n \in 1 .. MaxDepth /\ Len(gv) = n /\ n > 1
      /\ \A k \in 1 .. n : st[k] \in Values[MaxDepth + 1 - k] /\ Kept(st[k], gv[k])
  BY DEF Stacked
<1>2. MaxDepth \in Nat
  BY JsonAssumption
<1>3. /\ n \in Nat /\ n \in 1 .. n /\ n - 1 \in 1 .. n /\ MaxDepth + 2 - n \in 1 .. MaxDepth
      /\ MaxDepth + 1 - (n - 1) = MaxDepth + 2 - n
      /\ (MaxDepth + 2 - n) - 1 = MaxDepth + 1 - n
  BY <1>1, <1>2
<1>4. \A k \in 1 .. n : gv[k] \in Seq(Gifts)
  BY <1>1, ElementsOf
<1>5. QED
  BY <1>1, <1>3, <1>4

LEMMA SetMemberKeeps == IInv /\ SetMember => IInv'
<1> SUFFICES ASSUME IInv, SetMember PROVE IInv'
  OBVIOUS
<1> DEFINE n == Len(open)
           c == open[n - 1]
           h == given[n - 1]
           v == open[n]
           d == MaxDepth + 2 - n
<1>1. /\ Stacked(open, given) /\ n > 1 /\ c.is = "object"
      /\ calls \in 0 .. MaxCalls /\ calls < MaxCalls /\ calls' = calls + 1
  BY DEF IInv, SetMember, Call, Depth
<1>2. /\ n \in Nat /\ n - 1 \in 1 .. n /\ d \in 1 .. MaxDepth /\ c \in Values[d] /\ v \in Values[d - 1]
      /\ h \in Seq(Gifts) /\ Kept(c, h)
  BY <1>1, AroundLast
<1>3. Front(open)[n - 1] = c /\ Front(given)[n - 1] = h
  BY <1>1, OneLess
<1>4. PICK key \in Keys :
        /\ open' = [Front(open) EXCEPT ![n - 1] = set(@, key, v)]
        /\ given' = [Front(given) EXCEPT ![n - 1] = Append(@, <<key, v>>)]
  BY DEF SetMember, Depth
<1>5. /\ open' = [Front(open) EXCEPT ![n - 1] = set(c, key, v)]
      /\ given' = [Front(given) EXCEPT ![n - 1] = Append(h, <<key, v>>)]
  <2> HIDE DEF n, c, h, v
  <2>1. QED
    BY <1>3, <1>4, SMT
<1> HIDE DEF c, h, v, d, n
<1>6. /\ set(c, key, v) \in Values[d]
      /\ Append(h, <<key, v>>) \in Seq(Gifts)
      /\ Kept(set(c, key, v), Append(h, <<key, v>>))
  BY <1>1, <1>2, SetKeeps
<1>7. Stacked(open', given')
  BY <1>1, <1>5, <1>6, OneIn DEF d, n
<1>8. calls' \in 0 .. MaxCalls
  BY <1>1, DocumentAssumption
<1>9. QED
  BY <1>7, <1>8 DEF IInv

LEMMA PushEntryKeeps == IInv /\ PushEntry => IInv'
<1> SUFFICES ASSUME IInv, PushEntry PROVE IInv'
  OBVIOUS
<1> DEFINE n == Len(open)
           c == open[n - 1]
           h == given[n - 1]
           v == open[n]
           d == MaxDepth + 2 - n
<1>1. /\ Stacked(open, given) /\ n > 1 /\ c.is = "array"
      /\ calls \in 0 .. MaxCalls /\ calls < MaxCalls /\ calls' = calls + 1
  BY DEF IInv, PushEntry, Call, Depth
<1>2. /\ n \in Nat /\ n - 1 \in 1 .. n /\ d \in 1 .. MaxDepth /\ c \in Values[d] /\ v \in Values[d - 1]
      /\ h \in Seq(Gifts) /\ Kept(c, h)
  BY <1>1, AroundLast
<1>3. Front(open)[n - 1] = c /\ Front(given)[n - 1] = h
  BY <1>1, OneLess
<1>4. /\ open' = [Front(open) EXCEPT ![n - 1] = push(@, v)]
      /\ given' = [Front(given) EXCEPT ![n - 1] = Append(@, v)]
  BY DEF PushEntry, Depth
<1>5. /\ open' = [Front(open) EXCEPT ![n - 1] = push(c, v)]
      /\ given' = [Front(given) EXCEPT ![n - 1] = Append(h, v)]
  <2> HIDE DEF n, c, h, v
  <2>1. QED
    BY <1>3, <1>4, SMT
<1> HIDE DEF c, h, v, d, n
<1>6. push(c, v) \in Values[d] /\ Append(h, v) \in Seq(Gifts) /\ Kept(push(c, v), Append(h, v))
  BY <1>1, <1>2, PushKeeps
<1>7. Stacked(open', given')
  BY <1>1, <1>5, <1>6, OneIn DEF d, n
<1>8. calls' \in 0 .. MaxCalls
  BY <1>1, DocumentAssumption
<1>9. QED
  BY <1>7, <1>8 DEF IInv

LEMMA Inductive == Spec => []IInv
<1>1. Init => IInv
  BY InitInv
<1>2. IInv /\ [Next]_vars => IInv'
  <2>1. IInv /\ Next => IInv'
    BY SetScalarKeeps, OpenKeeps, SetMemberKeeps, PushEntryKeeps DEF Next
  <2>2. IInv /\ UNCHANGED vars => IInv'
    BY DEF IInv, vars
  <2>3. QED
    BY <2>1, <2>2
<1>3. QED
  BY <1>1, <1>2, PTL DEF Spec

\* The containers that are open always nest within the bound, each a value of the
\* depth that is left to it.
THEOREM Typed == Spec => []TypeOK
<1>1. IInv => TypeOK
  <2> SUFFICES ASSUME IInv PROVE TypeOK
    OBVIOUS
  <2>1. Stacked(open, given) /\ calls \in 0 .. MaxCalls
    BY DEF IInv
  <2>2. /\ open \in Seq(Values[MaxDepth]) /\ Depth \in 1 .. MaxDepth /\ Len(given) = Depth
        /\ given \in Seq(Seq(Gifts))
    BY <2>1 DEF Stacked, Depth
  <2>3. DOMAIN given = 1 .. Depth
    BY <2>2, LenProperties
  <2>4. ASSUME NEW k \in 1 .. Depth
        PROVE  /\ open[k] \in Values[MaxDepth + 1 - k]
               /\ \/ open[k].is = "array" /\ given[k] \in Seq(Values[MaxDepth])
                  \/ open[k].is = "object" /\ given[k] \in Seq(Keys \X Values[MaxDepth])
    <3>1. open[k] \in Values[MaxDepth + 1 - k] /\ Kept(open[k], given[k])
      BY <2>1 DEF Stacked, Depth
    <3>2. CASE open[k].is = "array" /\ open[k].val = given[k]
      <4> DEFINE d == MaxDepth + 1 - k
      <4>1. d \in 1 .. MaxDepth /\ d - 1 \in 0 .. MaxDepth
        BY <2>2, JsonAssumption
      <4> HIDE DEF d
      <4>2. open[k].val \in Seq(Values[d - 1])
        BY <3>1, <3>2, <4>1, ContainersAre DEF d
      <4>3. Values[d - 1] \subseteq Values[MaxDepth]
        BY <4>1, ValuesGrow
      <4>4. QED
        BY <3>1, <3>2, <4>2, <4>3
    <3>3. CASE open[k].is = "object" /\ given[k] \in Seq(Keys \X Values[MaxDepth])
      BY <3>1, <3>3
    <3>4. QED
      BY <3>1, <3>2, <3>3 DEF Kept
  <2>5. QED
    BY <2>1, <2>2, <2>3, <2>4 DEF TypeOK
<1>2. QED
  BY <1>1, Inductive, PTL

\* At every moment the text of every container is JSON and reads back as what set and
\* push gave it (json_escape, write, set and push of json_value.h, as build_json_report
\* calls them): for all names and strings, all numbers, any nesting and any number of
\* calls.
THEOREM DocumentReadsBack == Spec => []ReadsBack
<1>1. IInv => ReadsBack
  <2> SUFFICES ASSUME IInv, NEW k \in DOMAIN open
               PROVE  LET got == Read(write(open[k])) IN
                        /\ got.is = open[k].is
                        /\ IF got.is = "array" THEN got.val = given[k] ELSE AsGiven(got.val, given[k])
    BY DEF ReadsBack
  <2>1. Stacked(open, given)
    BY DEF IInv
  <2>2. open[k] \in Values[MaxDepth] /\ Kept(open[k], given[k])
    <3>1. open \in Seq(Values[MaxDepth])
      BY <2>1 DEF Stacked
    <3>2. k \in 1 .. Len(open)
      BY <3>1, LenProperties
    <3>3. QED
      BY <2>1, <3>1, <3>2, ElementsOf DEF Stacked
  <2>3. Read(write(open[k])) = open[k]
    BY <2>2, WriteReadsBack
  <2>4. QED
    BY <2>2, <2>3 DEF Kept
<1>2. QED
  BY <1>1, Inductive, PTL

===============================================================================
