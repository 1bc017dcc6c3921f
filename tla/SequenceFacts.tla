---------------------------- MODULE SequenceFacts ----------------------------
(* Facts about sequences and counting that the proofs of several components   *)
(* need: what appending and taking the head do to the elements of a sequence, *)
(* to their order and to the number of places that hold a given element; the  *)
(* least element of a set of naturals, induction from it, and what it gives   *)
(* about recursive functions, FlattenSeq and prefixes.                        *)
EXTENDS Integers, Sequences, FiniteSets, FiniteSetTheorems, SequenceTheorems,
        SequencesExt, WellFoundedInduction, TLAPS

(* The elements of s.                                                         *)
Elements(s) == {s[i] : i \in DOMAIN s}

(* The places of s that hold x.                                               *)
Places(s, x) == {i \in DOMAIN s : s[i] = x}

(* The elements of s other than 0 ascend strictly.                            *)
Ascends(s) == \A i, j \in DOMAIN s : i < j /\ s[i] # 0 /\ s[j] # 0 => s[i] < s[j]

(* Every element of A is smaller than every element of B.                     *)
Below(A, B) == \A a \in A, b \in B : a < b

-----------------------------------------------------------------------------
(* The empty sequence has no element.                                         *)
LEMMA NoElements == Elements(<< >>) = {}
BY DEF Elements

(* Two sequences of one element put together are a pair.                      *)
LEMMA PairOfTwo ==
  ASSUME NEW S, NEW a \in S, NEW b \in S
  PROVE  <<a>> \o <<b>> = <<a, b>>
<1> DEFINE s == <<a>> \o <<b>>
           t == <<a, b>>
<1>1. <<a>> \in Seq(S) /\ <<b>> \in Seq(S) /\ t \in Seq(S)
  OBVIOUS
<1>2. Len(s) = 2 /\ s[1] = a /\ s[2] = b
  BY <1>1
<1>3. s \in Seq(S)
  BY <1>1
<1>4. Len(t) = 2 /\ t[1] = a /\ t[2] = b
  OBVIOUS
<1> HIDE DEF s, t
<1>5. \A i \in 1 .. Len(s) : s[i] = t[i]
  BY <1>2, <1>4
<1>6. s = t
  BY <1>1, <1>2, <1>3, <1>4, <1>5, SeqEqual
<1> QED
  BY <1>6 DEF s, t

(* Sequences of one and of two elements.                                      *)
LEMMA SmallTuples ==
  ASSUME NEW a, NEW b
  PROVE  /\ <<a>> # << >> /\ <<a>>[1] = a /\ Head(<<a>>) = a /\ Tail(<<a>>) = << >>
         /\ <<a, b>> # << >> /\ <<a, b>>[1] = a /\ <<a, b>>[2] = b
         /\ Head(<<a, b>>) = a /\ Tail(<<a, b>>) = <<b>>
         /\ DOMAIN <<a>> = {1} /\ DOMAIN <<a, b>> = {1, 2}
OBVIOUS

(* What Append does, position by position.                                    *)
LEMMA AppendShape ==
  ASSUME NEW S, NEW s \in Seq(S), NEW x
  PROVE  /\ Len(Append(s, x)) = Len(s) + 1 /\ Len(s) \in Nat
         /\ DOMAIN s = 1 .. Len(s) /\ DOMAIN Append(s, x) = 1 .. Len(s) + 1
         /\ \A i \in 1 .. Len(s) : Append(s, x)[i] = s[i]
         /\ Append(s, x)[Len(s) + 1] = x
         /\ Append(s, x) # << >>
OBVIOUS

(* What Tail does, position by position.                                      *)
LEMMA TailShape ==
  ASSUME NEW S, NEW s \in Seq(S), s # << >>
  PROVE  /\ Len(s) \in Nat /\ Len(s) >= 1 /\ Len(Tail(s)) = Len(s) - 1
         /\ Tail(s) \in Seq(S)
         /\ DOMAIN s = 1 .. Len(s) /\ DOMAIN Tail(s) = 1 .. Len(s) - 1
         /\ \A i \in 1 .. Len(s) - 1 : Tail(s)[i] = s[i + 1]
         /\ Head(s) = s[1]
OBVIOUS

(* Append adds its argument to the elements.                                  *)
LEMMA ElementsAppend ==
  ASSUME NEW S, NEW s \in Seq(S), NEW x
  PROVE  Elements(Append(s, x)) = Elements(s) \cup {x}
<1> DEFINE t == Append(s, x)
           n == Len(s)
<1>1. /\ n \in Nat /\ DOMAIN s = 1 .. n /\ DOMAIN t = 1 .. n + 1
      /\ \A i \in 1 .. n : t[i] = s[i]
      /\ t[n + 1] = x
  BY AppendShape
<1> HIDE DEF t, n
<1>2. Elements(t) = Elements(s) \cup {x}
  BY <1>1 DEF Elements
<1> QED
  BY <1>2 DEF t

(* Tail keeps every element but the first.                                    *)
LEMMA ElementsTail ==
  ASSUME NEW S, NEW s \in Seq(S), s # << >>
  PROVE  Elements(s) = {Head(s)} \cup Elements(Tail(s))
<1> DEFINE t == Tail(s)
           n == Len(s)
           h == Head(s)
<1>1. /\ n \in Nat /\ n >= 1 /\ DOMAIN s = 1 .. n /\ DOMAIN t = 1 .. n - 1
      /\ \A i \in 1 .. n - 1 : t[i] = s[i + 1]
      /\ h = s[1]
  BY TailShape
<1> HIDE DEF t, n, h
<1>2. Elements(t) \subseteq Elements(s) /\ h \in Elements(s)
  BY <1>1 DEF Elements
<1>3. ASSUME NEW i \in 1 .. n PROVE s[i] \in {h} \cup Elements(t)
  <2>1. CASE i = 1
    BY <1>1, <2>1
  <2>2. CASE i # 1
    <3>1. i - 1 \in 1 .. n - 1 /\ t[i - 1] = s[i]
      BY <1>1, <2>2
    <3> QED
      BY <1>1, <3>1 DEF Elements
  <2> QED
    BY <2>1, <2>2
<1>4. Elements(s) \subseteq {h} \cup Elements(t)
  BY <1>1, <1>3 DEF Elements
<1> QED
  BY <1>2, <1>4 DEF t, h

(* A larger element behind an ascending sequence keeps it ascending.          *)
LEMMA AscendsAppend ==
  ASSUME NEW s \in Seq(Nat), NEW x \in Nat, Ascends(s), x = 0 \/ Below(Elements(s), {x})
  PROVE  Ascends(Append(s, x))
<1> DEFINE t == Append(s, x)
           n == Len(s)
<1>1. /\ n \in Nat /\ DOMAIN s = 1 .. n /\ DOMAIN t = 1 .. n + 1
      /\ \A i \in 1 .. n : t[i] = s[i]
      /\ t[n + 1] = x
  BY AppendShape
<1> HIDE DEF t, n
<1>2. ASSUME NEW i \in DOMAIN t, NEW j \in DOMAIN t, i < j, t[i] # 0, t[j] # 0
      PROVE  t[i] < t[j]
  <2>1. i \in 1 .. n
    BY <1>1, <1>2
  <2>2. CASE j \in 1 .. n
    BY <1>1, <1>2, <2>1, <2>2 DEF Ascends
  <2>3. CASE j = n + 1
    BY <1>1, <1>2, <2>1, <2>3 DEF Below, Elements
  <2> QED
    BY <1>1, <2>2, <2>3
<1> QED
  BY <1>2 DEF Ascends, t

(* The tail of an ascending sequence ascends, and its head is below it.       *)
LEMMA AscendsTail ==
  ASSUME NEW s \in Seq(Nat), s # << >>, Ascends(s)
  PROVE  /\ Ascends(Tail(s))
         /\ Head(s) # 0 => Below({Head(s)}, Elements(Tail(s)) \ {0})
<1> DEFINE t == Tail(s)
           n == Len(s)
           h == Head(s)
<1>1. /\ n \in Nat /\ n >= 1 /\ DOMAIN s = 1 .. n /\ DOMAIN t = 1 .. n - 1
      /\ \A i \in 1 .. n - 1 : t[i] = s[i + 1]
      /\ h = s[1]
  BY TailShape
<1> HIDE DEF t, n, h
<1>2. ASSUME NEW i \in DOMAIN t, NEW j \in DOMAIN t, i < j, t[i] # 0, t[j] # 0
      PROVE  t[i] < t[j]
  <2>1. /\ i + 1 \in DOMAIN s /\ j + 1 \in DOMAIN s /\ i + 1 < j + 1
        /\ t[i] = s[i + 1] /\ t[j] = s[j + 1]
    BY <1>1, <1>2, SMTT(30)
  <2> QED
    BY <1>2, <2>1 DEF Ascends
<1>3. ASSUME NEW i \in DOMAIN t, h # 0, t[i] # 0 PROVE h < t[i]
  <2>1. 1 \in DOMAIN s /\ i + 1 \in DOMAIN s /\ 1 < i + 1 /\ t[i] = s[i + 1] /\ h = s[1]
    BY <1>1
  <2> QED
    BY <1>3, <2>1 DEF Ascends
<1> QED
  BY <1>2, <1>3 DEF Ascends, Below, Elements, t, h

(* The places that hold x are finitely many.                                  *)
LEMMA PlacesFinite ==
  ASSUME NEW S, NEW s \in Seq(S), NEW x
  PROVE  /\ IsFiniteSet(Places(s, x)) /\ Cardinality(Places(s, x)) \in Nat
         /\ Places(s, x) \subseteq 1 .. Len(s)
<1>1. DOMAIN s = 1 .. Len(s) /\ Len(s) \in Nat
  OBVIOUS
<1>2. IsFiniteSet(1 .. Len(s))
  BY <1>1, FS_Interval
<1>3. Places(s, x) \subseteq 1 .. Len(s)
  BY <1>1 DEF Places
<1>4. IsFiniteSet(Places(s, x))
  BY <1>2, <1>3, FS_Subset
<1> QED
  BY <1>3, <1>4, FS_CardinalityType

(* No place of the empty sequence holds anything.                             *)
LEMMA NoPlaces ==
  ASSUME NEW x
  PROVE  Cardinality(Places(<< >>, x)) = 0
<1>1. Places(<< >>, x) = {}
  BY DEF Places
<1> QED
  BY <1>1, FS_EmptySet

(* Appending x adds one place that holds x, appending another element none.   *)
LEMMA CountAppend ==
  ASSUME NEW S, NEW s \in Seq(S), NEW x, NEW y
  PROVE  Cardinality(Places(Append(s, y), x)) =
           Cardinality(Places(s, x)) + (IF y = x THEN 1 ELSE 0)
<1> DEFINE t == Append(s, y)
           n == Len(s)
           P == Places(s, x)
           Q == Places(t, x)
<1>1. /\ n \in Nat /\ DOMAIN s = 1 .. n /\ DOMAIN t = 1 .. n + 1
      /\ \A i \in 1 .. n : t[i] = s[i]
      /\ t[n + 1] = y
  BY AppendShape
<1>2. IsFiniteSet(P) /\ Cardinality(P) \in Nat
  BY PlacesFinite
<1>3. n + 1 \notin P /\ Q = (IF y = x THEN P \cup {n + 1} ELSE P)
  <2> HIDE DEF t, n
  <2> QED
    BY <1>1 DEF Places
<1> HIDE DEF P, Q, n
<1>4. CASE y = x
  BY <1>2, <1>3, <1>4, FS_AddElement DEF P, Q
<1>5. CASE y # x
  BY <1>2, <1>3, <1>5 DEF P, Q
<1> QED
  BY <1>4, <1>5

(* Taking the head takes away one place when the head is x, and none else.    *)
LEMMA CountTail ==
  ASSUME NEW S, NEW s \in Seq(S), s # << >>, NEW x
  PROVE  Cardinality(Places(s, x)) =
           Cardinality(Places(Tail(s), x)) + (IF Head(s) = x THEN 1 ELSE 0)
<1> DEFINE t == Tail(s)
           n == Len(s)
           P == Places(s, x)
           Q == Places(t, x)
           R == {i \in 2 .. n : s[i] = x}
           f == [i \in Q |-> i + 1]
<1>1. /\ n \in Nat /\ n >= 1 /\ DOMAIN s = 1 .. n /\ DOMAIN t = 1 .. n - 1
      /\ \A i \in 1 .. n - 1 : t[i] = s[i + 1]
      /\ Head(s) = s[1] /\ t \in Seq(S)
  BY TailShape
<1>2. IsFiniteSet(Q) /\ Cardinality(Q) \in Nat
  BY <1>1, PlacesFinite
<1>3. f \in Bijection(Q, R)
  <2> HIDE DEF t, n
  <2>1. \A i \in Q : i \in 1 .. n - 1 /\ i + 1 \in R
    BY <1>1 DEF Places
  <2>2. f \in [Q -> R]
    BY <2>1
  <2>3. \A i, j \in Q : f[i] = f[j] => i = j
    BY <2>1
  <2>4. \A k \in R : \E i \in Q : f[i] = k
    <3> TAKE k \in R
    <3>1. k - 1 \in 1 .. n - 1 /\ t[k - 1] = x
      BY <1>1
    <3>2. k - 1 \in Q
      BY <1>1, <3>1 DEF Places
    <3>3. f[k - 1] = k
      BY <3>1, <3>2
    <3> QED
      BY <3>2, <3>3
  <2> HIDE DEF f, Q, R
  <2> QED
    BY <2>2, <2>3, <2>4 DEF Bijection, Injection, Surjection, IsInjective
<1>4. IsFiniteSet(R) /\ Cardinality(R) = Cardinality(Q)
  <2>1. ExistsBijection(Q, R)
    BY <1>3 DEF ExistsBijection
  <2> QED
    BY <1>2, <2>1, FS_Bijection
<1>5. 1 \notin R /\ P = (IF Head(s) = x THEN R \cup {1} ELSE R)
  <2> HIDE DEF t, n
  <2> QED
    BY <1>1 DEF Places
<1> HIDE DEF P, Q, R, n, f
<1>6. CASE Head(s) = x
  BY <1>2, <1>4, <1>5, <1>6, FS_AddElement, ZenonT(30) DEF P, Q, t
<1>7. CASE Head(s) # x
  BY <1>2, <1>4, <1>5, <1>7 DEF P, Q, t
<1> QED
  BY <1>6, <1>7

-----------------------------------------------------------------------------
(* A set of naturals that is not empty has a least element.                   *)
LEMMA LeastNatural ==
  ASSUME NEW T, T \subseteq Nat, T # {}
  PROVE  \E m \in T : \A k \in T : m <= k
<1>1. IsWellFoundedOn(OpToRel(<, Nat), Nat)
  BY NatLessThanWellFounded, Zenon
<1> DEFINE R == OpToRel(<, Nat)
<1>2. \A a, b \in Nat : <<a, b>> \in R <=> a < b
  BY DEF OpToRel
<1> HIDE DEF R
<1>3. \E x \in T : \A y \in T : ~(<<y, x>> \in R)
  BY <1>1, WFMin DEF R
<1>4. PICK x \in T : \A y \in T : ~(<<y, x>> \in R)
  BY <1>3
<1>5. \A y \in T : x <= y
  <2> TAKE y \in T
  <2>1. ~(<<y, x>> \in R) /\ x \in Nat /\ y \in Nat
    BY <1>4
  <2>2. ~(y < x)
    BY <1>2, <2>1
  <2> QED
    BY <2>1, <2>2
<1> QED
  BY <1>5

(* A set that holds 0, and with every number the next one, holds them all.    *)
LEMMA NatSetInduction ==
  ASSUME NEW S, 0 \in S, \A n \in Nat : n \in S => n + 1 \in S
  PROVE  Nat \subseteq S
<1> DEFINE T == Nat \ S
<1> SUFFICES ASSUME T # {} PROVE FALSE
  OBVIOUS
<1>1. PICK m \in T : \A k \in T : m <= k
  BY LeastNatural
<1>2. m # 0 /\ m - 1 \in Nat /\ m - 1 \in S
  BY <1>1
<1> QED
  BY <1>1, <1>2

(* g starts with v and goes on by step up to n.                               *)
Follows(g, n, v, step) == g[0] = v /\ \A j \in 1 .. n : g[j] = step[<<g[j - 1], j>>]

(* There is a function that starts with v and goes on by step, as far as one  *)
(* likes: what a recursive definition over 0 .. n needs to mean anything.     *)
LEMMA Recursion ==
  ASSUME NEW V, NEW v \in V, NEW step \in [V \X (Nat \ {0}) -> V], NEW n \in Nat
  PROVE  \E g \in [0 .. n -> V] : Follows(g, n, v, step)
<1> DEFINE P(m) == \E g \in [0 .. m -> V] : Follows(g, m, v, step)
           S == {m \in Nat : P(m)}
<1>1. P(0)
  <2> DEFINE g == [j \in 0 .. 0 |-> v]
  <2>1. g \in [0 .. 0 -> V] /\ Follows(g, 0, v, step)
    BY DEF Follows
  <2> QED
    BY <2>1
<1>2. ASSUME NEW m \in Nat, P(m) PROVE P(m + 1)
  <2>1. PICK g \in [0 .. m -> V] : Follows(g, m, v, step)
    BY <1>2
  <2> DEFINE h == [j \in 0 .. m + 1 |-> IF j = m + 1 THEN step[<<g[m], m + 1>>] ELSE g[j]]
  <2>2. g[m] \in V /\ step[<<g[m], m + 1>>] \in V
    OBVIOUS
  <2>3. h \in [0 .. m + 1 -> V]
    BY <2>2
  <2>4. h[0] = v
    BY <2>1 DEF Follows
  <2>5. ASSUME NEW j \in 1 .. m + 1 PROVE h[j] = step[<<h[j - 1], j>>]
    <3>1. CASE j = m + 1
      <4>1. h[j] = step[<<g[m], m + 1>>] /\ h[j - 1] = g[m]
        BY <3>1
      <4> QED
        BY <3>1, <4>1
    <3>2. CASE j # m + 1
      <4>1. j \in 1 .. m /\ h[j] = g[j] /\ h[j - 1] = g[j - 1]
        BY <3>2
      <4> QED
        BY <2>1, <4>1 DEF Follows
    <3> QED
      BY <3>1, <3>2
  <2> HIDE DEF h
  <2>6. Follows(h, m + 1, v, step)
    BY <2>4, <2>5 DEF Follows
  <2> QED
    BY <2>3, <2>6
<1> HIDE DEF P
<1>3. 0 \in S /\ \A m \in Nat : m \in S => m + 1 \in S
  BY <1>1, <1>2
<1>4. Nat \subseteq S
  <2> HIDE DEF S
  <2> QED
    BY <1>3, NatSetInduction
<1>5. P(n)
  BY <1>4
<1> QED
  BY <1>5 DEF P

(* g and h agree up to n.                                                     *)
Agree(g, h, n) == \A j \in 0 .. n : g[j] = h[j]

(* Two functions that follow the same step agree as far as both follow it.    *)
LEMMA RecursionUnique ==
  ASSUME NEW v, NEW step, NEW n \in Nat, NEW g, NEW h,
         Follows(g, n, v, step), Follows(h, n, v, step)
  PROVE  Agree(g, h, n)
<1> DEFINE S == {m \in Nat : m <= n => g[m] = h[m]}
<1>1. 0 \in S
  BY DEF Follows
<1>2. ASSUME NEW m \in Nat, m \in S PROVE m + 1 \in S
  <2> SUFFICES ASSUME m + 1 <= n PROVE g[m + 1] = h[m + 1]
    OBVIOUS
  <2>1. g[m] = h[m] /\ m + 1 \in 1 .. n /\ (m + 1) - 1 = m
    BY <1>2
  <2> QED
    BY <2>1 DEF Follows
<1>3. Nat \subseteq S
  <2> HIDE DEF S
  <2> QED
    BY <1>1, <1>2, NatSetInduction
<1> QED
  BY <1>3 DEF Agree

(* One step of concatenating the sequences ss.                                *)
FlatStep(S, ss) == [p \in Seq(S) \X (Nat \ {0}) |->
                      IF p[2] \in 1 .. Len(ss) THEN p[1] \o ss[p[2]] ELSE p[1]]

(* FlattenSeq concatenates from the left.                                     *)
LEMMA FlattenFollows ==
  ASSUME NEW S, NEW ss \in Seq(Seq(S))
  PROVE  \E g \in [0 .. Len(ss) -> Seq(S)] :
           /\ Follows(g, Len(ss), << >>, FlatStep(S, ss))
           /\ FlattenSeq(ss) = g[Len(ss)]
<1> DEFINE n == Len(ss)
           step == FlatStep(S, ss)
<1>1. n \in Nat /\ DOMAIN ss = 1 .. n /\ \A j \in 1 .. n : ss[j] \in Seq(S)
  OBVIOUS
<1>2. step \in [Seq(S) \X (Nat \ {0}) -> Seq(S)]
  BY <1>1 DEF FlatStep
<1>3. << >> \in Seq(S)
  OBVIOUS
<1>4. PICK g \in [0 .. n -> Seq(S)] : Follows(g, n, << >>, step)
  <2> HIDE DEF step, n
  <2> QED
    BY <1>1, <1>2, <1>3, Recursion
<1>5. ASSUME NEW j \in 1 .. n PROVE g[j] = g[j - 1] \o ss[j]
  <2>1. g[j - 1] \in Seq(S) /\ j \in Nat \ {0}
    <3> HIDE DEF n
    <3>1. j - 1 \in 0 .. n /\ j \in Nat \ {0}
      BY <1>1
    <3> QED
      BY <3>1
  <2>2. step[<<g[j - 1], j>>] = g[j - 1] \o ss[j]
    BY <2>1 DEF FlatStep
  <2> HIDE DEF step
  <2> QED
    BY <1>4, <2>2 DEF Follows
<1>6. FlattenSeq(ss) = g[n]
  <2>1. CASE n = 0
    <3>1. g[0] = << >>
      BY <1>4 DEF Follows
    <3>2. ss = << >>
      BY <2>1
    <3> QED
      BY <2>1, <3>1, <3>2 DEF FlattenSeq
  <2>2. CASE n # 0
    <3> DEFINE F(f) == [i \in 1 .. n |-> IF i = 1 THEN ss[i] ELSE f[i - 1] \o ss[i]]
               h == [i \in 1 .. n |-> g[i]]
               c == CHOOSE f : f = F(f)
    <3>1. h = F(h)
      <4>1. ASSUME NEW i \in 1 .. n PROVE h[i] = F(h)[i]
        <5>1. CASE i = 1
          <6>1. g[0] = << >> /\ g[1] = g[0] \o ss[1] /\ ss[1] \in Seq(S)
            BY <1>1, <1>4, <1>5, <5>1, SMTT(30) DEF Follows
          <6>2. << >> \o ss[1] = ss[1]
            BY <6>1, ConcatEmptySeq
          <6>3. h[i] = g[1] /\ F(h)[i] = ss[1]
            BY <5>1
          <6> QED
            BY <6>1, <6>2, <6>3
        <5>2. CASE i # 1
          <6>1. i - 1 \in 1 .. n
            BY <1>1, <5>2
          <6> QED
            BY <1>5, <5>2, <6>1
        <5> QED
          BY <5>1, <5>2
      <4>2. F(h) = [i \in 1 .. n |-> F(h)[i]]
        OBVIOUS
      <4> HIDE DEF F
      <4> QED
        BY <4>1, <4>2
    <3>2. c = F(c)
      <4> HIDE DEF F, h
      <4> QED
        BY <3>1
    <3>3. FlattenSeq(ss) = c[n]
      BY <2>2 DEF FlattenSeq
    <3> HIDE DEF c, h
    <3> DEFINE T == {m \in Nat : m + 1 <= n => c[m + 1] = g[m + 1]}
    <3>4. 0 \in T
      <4>1. 1 \in 1 .. n
        <5> HIDE DEF n
        <5> QED
          BY <1>1, <2>2
      <4>2. F(c)[1] = ss[1] /\ F(h)[1] = ss[1]
        BY <4>1
      <4>3. h[1] = g[1]
        BY <4>1 DEF h
      <4>4. c[1] = ss[1] /\ g[1] = ss[1]
        <5> HIDE DEF F
        <5> QED
          BY <3>1, <3>2, <4>2, <4>3
      <4> QED
        BY <4>4
    <3>5. ASSUME NEW m \in Nat, m \in T PROVE m + 1 \in T
      <4> SUFFICES ASSUME m + 2 <= n PROVE c[m + 2] = g[m + 2]
        BY <1>1
      <4>1. c[m + 1] = g[m + 1] /\ m + 2 \in 1 .. n /\ (m + 2) - 1 = m + 1 /\ m + 2 # 1
        BY <1>1, <3>5
      <4>2. c[m + 2] = c[m + 1] \o ss[m + 2]
        <5>1. F(c)[m + 2] = c[m + 1] \o ss[m + 2]
          BY <4>1
        <5> HIDE DEF F
        <5> QED
          BY <3>2, <5>1
      <4>3. g[m + 2] = g[m + 1] \o ss[m + 2]
        BY <1>5, <4>1
      <4> QED
        BY <4>1, <4>2, <4>3
    <3>6. Nat \subseteq T
      <4> HIDE DEF T
      <4> QED
        BY <3>4, <3>5, NatSetInduction
    <3>7. n - 1 \in T
      <4>1. n - 1 \in Nat
        <5> HIDE DEF n
        <5> QED
          BY <1>1, <2>2
      <4> HIDE DEF T, n
      <4> QED
        BY <3>6, <4>1
    <3> QED
      BY <1>1, <2>2, <3>3, <3>7
  <2> QED
    BY <2>1, <2>2
<1> QED
  BY <1>4, <1>6

(* FlattenSeq of sequences is a sequence; one more sequence goes to its end.  *)
LEMMA FlattenAppend ==
  ASSUME NEW S, NEW ss \in Seq(Seq(S)), NEW s \in Seq(S)
  PROVE  /\ FlattenSeq(ss) \in Seq(S)
         /\ FlattenSeq(Append(ss, s)) = FlattenSeq(ss) \o s
<1> DEFINE n == Len(ss)
           tt == Append(ss, s)
<1>1. /\ n \in Nat /\ tt \in Seq(Seq(S)) /\ Len(tt) = n + 1
      /\ \A j \in 1 .. n : tt[j] = ss[j]
      /\ tt[n + 1] = s
  OBVIOUS
<1>0. n \in Nat
  OBVIOUS
<1>2. PICK g \in [0 .. n -> Seq(S)] :
        Follows(g, n, << >>, FlatStep(S, ss)) /\ FlattenSeq(ss) = g[n]
  BY FlattenFollows
<1>3. PICK h \in [0 .. n + 1 -> Seq(S)] :
        Follows(h, n + 1, << >>, FlatStep(S, tt)) /\ FlattenSeq(tt) = h[n + 1]
  <2> HIDE DEF tt, n
  <2>1. \E h \in [0 .. Len(tt) -> Seq(S)] :
           Follows(h, Len(tt), << >>, FlatStep(S, tt)) /\ FlattenSeq(tt) = h[Len(tt)]
    BY <1>1, FlattenFollows
  <2> QED
    BY <1>1, <2>1
<1> HIDE DEF tt, n
<1>4. ASSUME NEW j \in 1 .. n + 1
      PROVE  h[j] = h[j - 1] \o tt[j]
  <2>1. h[j - 1] \in Seq(S) /\ j \in Nat \ {0} /\ j \in 1 .. Len(tt)
    BY <1>1
  <2>2. FlatStep(S, tt)[<<h[j - 1], j>>] = h[j - 1] \o tt[j]
    BY <2>1 DEF FlatStep
  <2> QED
    BY <1>3, <2>2 DEF Follows
<1>5. ASSUME NEW j \in 1 .. n PROVE h[j] = FlatStep(S, ss)[<<h[j - 1], j>>]
  <2>1. j - 1 \in 0 .. n + 1 /\ j \in Nat \ {0} /\ j \in 1 .. n + 1
    BY <1>1
  <2>3. h[j - 1] \in Seq(S) /\ j \in 1 .. Len(ss)
    BY <2>1 DEF n
  <2>2. FlatStep(S, ss)[<<h[j - 1], j>>] = h[j - 1] \o ss[j]
    BY <2>1, <2>3 DEF FlatStep
  <2> QED
    BY <1>1, <1>4, <2>1, <2>2
<1>6. Follows(h, n, << >>, FlatStep(S, ss))
  BY <1>3, <1>5 DEF Follows
<1>7. h[n] = g[n]
  <2>1. Agree(g, h, n)
    <3> DEFINE st == FlatStep(S, ss)
               e == << >>
    <3>1. Follows(g, n, e, st) /\ Follows(h, n, e, st)
      BY <1>2, <1>6
    <3> HIDE DEF st, e
    <3> QED
      BY <1>0, <3>1, RecursionUnique
  <2> QED
    BY <1>0, <2>1 DEF Agree
<1>8. h[n + 1] = h[n] \o s /\ g[n] \in Seq(S)
  <2>1. n + 1 \in 1 .. n + 1 /\ (n + 1) - 1 = n /\ n \in 0 .. n
    BY <1>0
  <2>2. tt[n + 1] = s
    BY <1>1
  <2> QED
    BY <1>4, <2>1, <2>2
<1> QED
  BY <1>2, <1>3, <1>7, <1>8 DEF tt

(* Nothing is flattened to nothing.                                           *)
LEMMA FlattenEmpty == FlattenSeq(<< >>) = << >>
BY DEF FlattenSeq

(* A sequence is a prefix of itself, of what it grows to, and of what what it *)
(* is a prefix of grows to.                                                   *)
LEMMA PrefixFacts ==
  ASSUME NEW S, NEW s \in Seq(S), NEW t \in Seq(S), NEW u \in Seq(S)
  PROVE  /\ IsPrefix(s, s)
         /\ IsPrefix(s, s \o t)
         /\ IsPrefix(s, t) => IsPrefix(s, t \o u)
         /\ IsPrefix(s, t) /\ IsPrefix(t, u) => IsPrefix(s, u)
<1>1. ASSUME NEW a \in Seq(S), NEW b \in Seq(S)
      PROVE  IsPrefix(a, b) <=> Len(a) <= Len(b) /\ \A j \in 1 .. Len(a) : a[j] = b[j]
  <2>1. SubSeq(a, 1, Len(a)) = a
    OBVIOUS
  <2>2. CASE Len(a) <= Len(b)
    <3> DEFINE c == SubSeq(b, 1, Len(a))
    <3>1. c \in Seq(S) /\ Len(c) = Len(a) /\ \A j \in 1 .. Len(a) : c[j] = b[j]
      BY <2>2
    <3>2. a = c <=> \A j \in 1 .. Len(a) : a[j] = c[j]
      <4> HIDE DEF c
      <4> QED
        BY <3>1, SeqEqual
    <3>3. IsPrefix(a, b) <=> a = c
      BY <2>1, <2>2 DEF IsPrefix
    <3> HIDE DEF c
    <3> QED
      BY <2>2, <3>1, <3>2, <3>3
  <2>3. CASE ~(Len(a) <= Len(b))
    BY <2>3 DEF IsPrefix
  <2> QED
    BY <2>2, <2>3
<1>2. IsPrefix(s, s)
  BY <1>1
<1>3. ASSUME NEW a \in Seq(S), NEW b \in Seq(S)
      PROVE  IsPrefix(a, a \o b) /\ a \o b \in Seq(S)
  <2> DEFINE c == a \o b
  <2>1. c \in Seq(S) /\ Len(a) <= Len(c) /\ \A j \in 1 .. Len(a) : a[j] = c[j]
    OBVIOUS
  <2> HIDE DEF c
  <2>2. IsPrefix(a, c)
    BY <1>1, <2>1
  <2> QED
    BY <2>1, <2>2 DEF c
<1>5. ASSUME NEW a \in Seq(S), NEW b \in Seq(S), NEW c \in Seq(S),
             IsPrefix(a, b), IsPrefix(b, c)
      PROVE  IsPrefix(a, c)
  <2>1. Len(a) \in Nat /\ Len(b) \in Nat /\ Len(c) \in Nat
    OBVIOUS
  <2>2. /\ Len(a) <= Len(b) /\ \A j \in 1 .. Len(a) : a[j] = b[j]
        /\ Len(b) <= Len(c) /\ \A j \in 1 .. Len(b) : b[j] = c[j]
    BY <1>1, <1>5
  <2>3. Len(a) <= Len(c) /\ \A j \in 1 .. Len(a) : a[j] = c[j]
    BY <2>1, <2>2
  <2> QED
    BY <1>1, <2>3
<1> QED
  BY <1>2, <1>3, <1>5

(* A prefix stays one when the longer sequence grows by an element.           *)
LEMMA PrefixAppend ==
  ASSUME NEW S, NEW s \in Seq(S), NEW t \in Seq(S), NEW x \in S
  PROVE  /\ IsPrefix(s, t) => IsPrefix(s, Append(t, x))
         /\ IsPrefix(t, Append(t, x))
         /\ Append(t, x) \in Seq(S)
<1>1. Append(t, x) = t \o <<x>> /\ <<x>> \in Seq(S)
  BY AppendIsConcat
<1> DEFINE y == <<x>>
<1> HIDE DEF y
<1>2. y \in Seq(S) /\ Append(t, x) = t \o y
  BY <1>1 DEF y
<1>3. t \o y \in Seq(S)
  BY <1>2
<1> QED
  BY <1>2, <1>3, PrefixFacts

(* A sequence put after another one element at a time.                        *)
LEMMA SubSeqGrow ==
  ASSUME NEW S, NEW p \in Seq(S), NEW s \in Seq(S)
  PROVE  /\ p \o SubSeq(s, 1, 0) = p
         /\ p \o SubSeq(s, 1, Len(s)) = p \o s
         /\ \A m \in 0 .. Len(s) : p \o SubSeq(s, 1, m) \in Seq(S)
         /\ \A m \in Nat : m + 1 <= Len(s) =>
              p \o SubSeq(s, 1, m + 1) = Append(p \o SubSeq(s, 1, m), s[m + 1])
<1>1. SubSeq(s, 1, 0) = << >> /\ SubSeq(s, 1, Len(s)) = s
  OBVIOUS
<1>2. ASSUME NEW m \in 0 .. Len(s) PROVE p \o SubSeq(s, 1, m) \in Seq(S)
  OBVIOUS
<1>3. ASSUME NEW m \in Nat, m + 1 <= Len(s)
      PROVE  p \o SubSeq(s, 1, m + 1) = Append(p \o SubSeq(s, 1, m), s[m + 1])
  <2> DEFINE a == SubSeq(s, 1, m)
             b == SubSeq(s, 1, m + 1)
  <2>1. /\ a \in Seq(S) /\ Len(a) = m /\ b \in Seq(S) /\ Len(b) = m + 1
        /\ \A j \in 1 .. m : a[j] = s[j]
        /\ \A j \in 1 .. m + 1 : b[j] = s[j]
        /\ s[m + 1] \in S
    BY <1>3
  <2> HIDE DEF a, b
  <2>2. b = Append(a, s[m + 1])
    <3>1. Append(a, s[m + 1]) \in Seq(S) /\ Len(Append(a, s[m + 1])) = m + 1
      BY <2>1
    <3>2. \A j \in 1 .. m + 1 : Append(a, s[m + 1])[j] = b[j]
      BY <2>1
    <3> DEFINE c == Append(a, s[m + 1])
    <3> HIDE DEF c
    <3>3. c \in Seq(S) /\ Len(c) = m + 1 /\ \A j \in 1 .. m + 1 : c[j] = b[j]
      BY <3>1, <3>2 DEF c
    <3>4. b = c
      BY <2>1, <3>3, SeqEqual
    <3> QED
      BY <3>4 DEF c
  <2>3. p \o Append(a, s[m + 1]) = Append(p \o a, s[m + 1])
    BY <2>1
  <2> QED
    BY <2>2, <2>3 DEF a, b
<1>4. p \o << >> = p
  BY ConcatEmptySeq
<1> QED
  BY <1>1, <1>2, <1>3, <1>4

(* The elements m + 1 to n of a sequence.                                      *)
LEMMA SliceShape ==
  ASSUME NEW S, NEW s \in Seq(S), NEW m \in Nat, NEW n \in Nat, m <= n, n <= Len(s)
  PROVE  /\ SubSeq(s, m + 1, n) \in Seq(S) /\ Len(SubSeq(s, m + 1, n)) = n - m
         /\ \A i \in 1 .. n - m : SubSeq(s, m + 1, n)[i] = s[m + i]
<1>1. PICK a \in Nat : a = m + 1
  OBVIOUS
<1>2. \A i \in a .. n : s[i] \in S
  BY <1>1
<1>3. /\ SubSeq(s, a, n) \in Seq(S)
      /\ Len(SubSeq(s, a, n)) = IF a <= n THEN n - a + 1 ELSE 0
      /\ \A i \in 1 .. n - a + 1 : SubSeq(s, a, n)[i] = s[a + i - 1]
  BY <1>2, SubSeqProperties
<1>4. n - a + 1 = n - m /\ (a > n => n - m = 0)
  BY <1>1
<1>5. \A i \in 1 .. n - m : a + i - 1 = m + i
  BY <1>1
<1>6. Len(SubSeq(s, a, n)) = n - m
  BY <1>1, <1>3, <1>4
<1>7. \A i \in 1 .. n - m : SubSeq(s, a, n)[i] = s[m + i]
  BY <1>3, <1>4, <1>5
<1> QED
  BY <1>1, <1>3, <1>6, <1>7

(* t begins with s.                                                            *)
Begins(t, s) == Len(s) <= Len(t) /\ \A i \in 1 .. Len(s) : t[i] = s[i]

(* That is what a prefix is.                                                   *)
LEMMA PrefixBegins ==
  ASSUME NEW S, NEW s \in Seq(S), NEW t \in Seq(S), Begins(t, s)
  PROVE  IsPrefix(s, t)
<1>1. Len(s) \in Nat /\ Len(t) \in Nat /\ Len(s) <= Len(t)
  BY DEF Begins
<1>2. PICK n \in Nat : n = Len(s)
  BY <1>1
<1>3. PICK u : u = SubSeq(t, 1, n)
  OBVIOUS
<1>4. u \in Seq(S) /\ Len(u) = n /\ \A i \in 1 .. n : u[i] = t[i]
  <2>1. /\ SubSeq(t, 0 + 1, n) \in Seq(S) /\ Len(SubSeq(t, 0 + 1, n)) = n - 0
        /\ \A i \in 1 .. n - 0 : SubSeq(t, 0 + 1, n)[i] = t[0 + i]
    BY <1>1, <1>2, SliceShape
  <2>2. 0 + 1 = 1 /\ n - 0 = n /\ \A i \in 1 .. n : 0 + i = i
    OBVIOUS
  <2> QED
    BY <1>3, <2>1, <2>2
<1>5. \A i \in 1 .. n : u[i] = s[i]
  BY <1>2, <1>4 DEF Begins
<1>6. u = s
  BY <1>2, <1>4, <1>5, SeqEqual
<1>7. SubSeq(s, 1, Len(s)) = s
  OBVIOUS
<1> QED
  BY <1>1, <1>2, <1>3, <1>6, <1>7 DEF IsPrefix

(* The first k elements of a sequence.                                         *)
LEMMA FirstShape ==
  ASSUME NEW S, NEW s \in Seq(S), NEW k \in Nat, k <= Len(s)
  PROVE  /\ SubSeq(s, 1, k) \in Seq(S) /\ Len(SubSeq(s, 1, k)) = k
         /\ \A i \in 1 .. k : SubSeq(s, 1, k)[i] = s[i]
         /\ SubSeq(s, 1, 0) = << >> /\ SubSeq(s, 1, Len(s)) = s
         /\ k + 1 <= Len(s) => SubSeq(s, 1, k + 1) = Append(SubSeq(s, 1, k), s[k + 1])
<1>1. /\ SubSeq(s, 0 + 1, k) \in Seq(S) /\ Len(SubSeq(s, 0 + 1, k)) = k - 0
      /\ \A i \in 1 .. k - 0 : SubSeq(s, 0 + 1, k)[i] = s[0 + i]
  BY SliceShape
<1>2. 0 + 1 = 1 /\ k - 0 = k /\ \A i \in 1 .. k : 0 + i = i
  OBVIOUS
<1>3. SubSeq(s, 1, 0) = << >> /\ SubSeq(s, 1, Len(s)) = s
  OBVIOUS
<1>4. ASSUME k + 1 <= Len(s) PROVE SubSeq(s, 1, k + 1) = Append(SubSeq(s, 1, k), s[k + 1])
  <2>1. << >> \in Seq(S)
    OBVIOUS
  <2>2. << >> \o SubSeq(s, 1, k + 1) = Append(<< >> \o SubSeq(s, 1, k), s[k + 1])
    BY <1>4, <2>1, SubSeqGrow
  <2>3. SubSeq(s, 1, k + 1) \in Seq(S) /\ SubSeq(s, 1, k) \in Seq(S)
    BY <1>4
  <2>4. << >> \o SubSeq(s, 1, k + 1) = SubSeq(s, 1, k + 1) /\ << >> \o SubSeq(s, 1, k) = SubSeq(s, 1, k)
    BY <2>3, ConcatEmptySeq
  <2> QED
    BY <2>2, <2>4
<1> QED
  BY <1>1, <1>2, <1>3, <1>4

(* What one sequence before another does.                                      *)
LEMMA ConcatShape ==
  ASSUME NEW S, NEW s \in Seq(S), NEW t \in Seq(S)
  PROVE  /\ s \o t \in Seq(S) /\ Len(s \o t) = Len(s) + Len(t)
         /\ Len(s) \in Nat /\ Len(t) \in Nat
         /\ \A i \in 1 .. Len(s) : (s \o t)[i] = s[i]
         /\ \A i \in 1 .. Len(t) : (s \o t)[Len(s) + i] = t[i]
<1>1. Len(s) \in Nat /\ Len(t) \in Nat /\ s \o t \in Seq(S) /\ Len(s \o t) = Len(s) + Len(t)
  OBVIOUS
<1>2. \A i \in 1 .. Len(s) + Len(t) :
        (s \o t)[i] = IF i <= Len(s) THEN s[i] ELSE t[i - Len(s)]
  OBVIOUS
<1>3. PICK m \in Nat : m = Len(s)
  BY <1>1
<1>4. PICK n \in Nat : n = Len(t)
  BY <1>1
<1>5. \A i \in 1 .. m : i \in 1 .. m + n /\ i <= m
  OBVIOUS
<1>6. \A i \in 1 .. n : m + i \in 1 .. m + n /\ ~(m + i <= m) /\ (m + i) - m = i
  OBVIOUS
<1>7. \A i \in 1 .. m : (s \o t)[i] = s[i]
  BY <1>2, <1>3, <1>4, <1>5
<1>8. \A i \in 1 .. n : (s \o t)[m + i] = t[i]
  BY <1>2, <1>3, <1>4, <1>6
<1> QED
  BY <1>1, <1>3, <1>4, <1>7, <1>8

(* The elements of a concatenation.                                           *)
LEMMA ElementsConcat ==
  ASSUME NEW S, NEW s \in Seq(S), NEW t \in Seq(S)
  PROVE  Elements(s \o t) = Elements(s) \cup Elements(t)
<1> DEFINE u == s \o t
           a == Len(s)
           b == Len(t)
<1>1. /\ u \in Seq(S) /\ Len(u) = a + b /\ a \in Nat /\ b \in Nat
      /\ \A i \in 1 .. a : u[i] = s[i]
      /\ \A i \in 1 .. b : u[a + i] = t[i]
  BY ConcatShape
<1>2. DOMAIN s = 1 .. a /\ DOMAIN t = 1 .. b /\ DOMAIN u = 1 .. a + b
  BY <1>1
<1> HIDE DEF u, a, b
<1>3. ASSUME NEW i \in 1 .. a + b PROVE u[i] \in Elements(s) \cup Elements(t)
  <2>1. CASE i \in 1 .. a
    BY <1>1, <1>2, <2>1 DEF Elements
  <2>2. CASE i \notin 1 .. a
    <3>1. i - a \in 1 .. b /\ a + (i - a) = i
      BY <1>1, <2>2
    <3>2. u[i] = t[i - a]
      BY <1>1, <3>1
    <3> QED
      BY <1>2, <3>1, <3>2 DEF Elements
  <2> QED
    BY <2>1, <2>2
<1>4. \A i \in 1 .. a : i \in 1 .. a + b /\ s[i] = u[i]
  BY <1>1
<1>5. \A i \in 1 .. b : a + i \in 1 .. a + b /\ t[i] = u[a + i]
  BY <1>1
<1>6. Elements(s) \subseteq Elements(u)
  BY <1>2, <1>4 DEF Elements
<1>7. Elements(t) \subseteq Elements(u)
  BY <1>2, <1>5 DEF Elements
<1>8. Elements(u) \subseteq Elements(s) \cup Elements(t)
  BY <1>2, <1>3 DEF Elements
<1> QED
  BY <1>6, <1>7, <1>8 DEF u
==============================================================================
