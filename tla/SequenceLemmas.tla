--------------------------- MODULE SequenceLemmas ---------------------------
(***************************************************************************)
(* Lemmas about numbers and sequences that the proofs of several modules   *)
(* cite.                                                                   *)
(***************************************************************************)
EXTENDS SequencesExt, SequenceTheorems, FiniteSetTheorems, TLAPS

\* A set of natural numbers has a least element, ...
LEMMA LeastNat ==
  ASSUME NEW T, T \subseteq Nat, T # {}
  PROVE  \E x \in T : \A y \in T : x <= y
<1> DEFINE R == OpToRel(<, Nat)
<1>1. R = {ss \in Nat \X Nat : ss[1] < ss[2]}
  BY DEF OpToRel
<1>2. IsWellFoundedOn(R, Nat)
  BY NatLessThanWellFounded
<1> HIDE DEF R
<1>3. PICK x \in T : \A y \in T : ~ (<<y, x>> \in R)
  BY <1>2, WFMin
<1>4. ASSUME NEW y \in T PROVE x <= y
  <2>1. x \in Nat /\ y \in Nat
    OBVIOUS
  <2>2. <<y, x>> \in Nat \X Nat /\ <<y, x>>[1] = y /\ <<y, x>>[2] = x
    BY <2>1
  <2>3. ASSUME y < x PROVE FALSE
    <3>1. <<y, x>> \in R
      BY <1>1, <2>2, <2>3
    <3>2. QED
      BY <1>3, <3>1
  <2>4. QED
    BY <2>1, <2>3
<1>5. QED
  BY <1>4

\* ... so that induction along an interval needs no more than a set.
LEMMA IntervalInduction ==
  ASSUME NEW n \in Nat, NEW T, 1 \in T, \A k \in 1 .. n - 1 : k \in T => k + 1 \in T
  PROVE  1 .. n \subseteq T
<1> DEFINE Rest == {k \in 1 .. n : k \notin T}
<1> SUFFICES ASSUME Rest # {} PROVE FALSE
  OBVIOUS
<1>1. PICK x \in Rest : \A y \in Rest : x <= y
  <2>1. Rest \subseteq Nat
    OBVIOUS
  <2> HIDE DEF Rest
  <2>2. QED
    BY <2>1, LeastNat
<1>2. x \in 2 .. n
  <2>1. x # 1
    OBVIOUS
  <2>2. QED
    BY <2>1
<1>3. x - 1 \in 1 .. n - 1 /\ x - 1 \in T /\ (x - 1) + 1 = x
  BY <1>1, <1>2
<1>4. QED
  BY <1>3

\* The numbers from n on, one after the other.
LEMMA SuccessiveFacts ==
  ASSUME NEW n \in Nat, NEW m \in Nat \ {0}
  PROVE  LET s == [k \in 1 .. m |-> n + k - 1]
         IN  /\ s \in Seq(Nat) /\ s # <<>> /\ Len(s) = m /\ IsInjective(s)
             /\ Range(s) = n .. n + m - 1
<1> DEFINE s == [k \in 1 .. m |-> n + k - 1]
<1>1. s \in [1 .. m -> Nat]
  OBVIOUS
<1>2. s \in Seq(Nat) /\ Len(s) = m
  BY <1>1, SeqDef
<1>3. s # <<>>
  BY <1>2
<1>4. IsInjective(s)
  BY DEF IsInjective
<1>5. Range(s) = n .. n + m - 1
  <2>1. \A x \in n .. n + m - 1 : x - n + 1 \in 1 .. m /\ s[x - n + 1] = x
    OBVIOUS
  <2>2. \A k \in 1 .. m : s[k] \in n .. n + m - 1
    OBVIOUS
  <2>3. DOMAIN s = 1 .. m
    OBVIOUS
  <2>4. QED
    BY <2>1, <2>2, <2>3 DEF Range
<1>6. QED
  BY <1>2, <1>3, <1>4, <1>5

\* A nonempty set of positions has a greatest one.
LEMMA GreatestPlace ==
  ASSUME NEW n \in Nat, NEW T, T \subseteq 1 .. n, T # {}
  PROVE  \E x \in T : \A y \in T : y <= x
<1> DEFINE R == {k \in 0 .. n - 1 : n - k \in T}
<1>1. R \subseteq Nat /\ R # {}
  <2>1. PICK x \in T : TRUE
    OBVIOUS
  <2>2. n - x \in 0 .. n - 1 /\ n - (n - x) = x
    OBVIOUS
  <2>3. n - x \in R
    BY <2>1, <2>2
  <2>4. R \subseteq Nat
    OBVIOUS
  <2> HIDE DEF R
  <2>5. QED
    BY <2>3, <2>4
<1>2. PICK k \in R : \A j \in R : k <= j
  <2> HIDE DEF R
  <2>1. QED
    BY <1>1, LeastNat
<1>3. ASSUME NEW y \in T PROVE y <= n - k
  <2>1. n - y \in R /\ y \in 1 .. n /\ k \in 0 .. n - 1
    OBVIOUS
  <2>2. k <= n - y
    BY <1>2, <2>1
  <2>3. QED
    BY <2>1, <2>2
<1>4. QED
  BY <1>3

\* The elements of a concatenation differ when those of both parts do and no
\* element is in both.
LEMMA ConcatFacts ==
  ASSUME NEW S, NEW s \in Seq(S), NEW t \in Seq(S)
  PROVE  /\ s \o t \in Seq(S)
         /\ Range(s \o t) = Range(s) \cup Range(t)
         /\ IsInjective(s \o t) <=>
              IsInjective(s) /\ IsInjective(t) /\ Range(s) \cap Range(t) = {}
<1> DEFINE u == s \o t
<1>1. /\ Len(s) \in Nat /\ DOMAIN s = 1 .. Len(s)
      /\ Len(t) \in Nat /\ DOMAIN t = 1 .. Len(t)
  BY LenProperties
<1>2. /\ u \in Seq(S) /\ DOMAIN u = 1 .. Len(s) + Len(t)
      /\ \A i \in 1 .. Len(s) : u[i] = s[i]
      /\ \A i \in 1 .. Len(t) : u[Len(s) + i] = t[i]
  BY <1>1, ConcatProperties
<1>3. Range(u) = Range(s) \cup Range(t)
  BY RangeConcatenation
<1>4. ASSUME IsInjective(u)
      PROVE  IsInjective(s) /\ IsInjective(t) /\ Range(s) \cap Range(t) = {}
  <2>1. ASSUME NEW i \in 1 .. Len(s), NEW j \in 1 .. Len(s), s[i] = s[j] PROVE i = j
    <3>1. i \in DOMAIN u /\ j \in DOMAIN u /\ u[i] = u[j]
      BY <1>1, <1>2, <2>1
    <3>2. QED
      BY <1>4, <3>1 DEF IsInjective
  <2>2. ASSUME NEW i \in 1 .. Len(t), NEW j \in 1 .. Len(t), t[i] = t[j] PROVE i = j
    <3>1. Len(s) + i \in DOMAIN u /\ Len(s) + j \in DOMAIN u /\ u[Len(s) + i] = u[Len(s) + j]
      BY <1>1, <1>2, <2>2
    <3>2. Len(s) + i = Len(s) + j
      BY <1>4, <3>1 DEF IsInjective
    <3>3. QED
      BY <1>1, <3>2
  <2>3. ASSUME NEW i \in 1 .. Len(s), NEW j \in 1 .. Len(t), s[i] = t[j] PROVE FALSE
    <3>1. i \in DOMAIN u /\ Len(s) + j \in DOMAIN u /\ u[i] = u[Len(s) + j]
      BY <1>1, <1>2, <2>3
    <3>2. i = Len(s) + j
      BY <1>4, <3>1 DEF IsInjective
    <3>3. QED
      BY <1>1, <3>2
  <2>4. QED
    BY <1>1, <2>1, <2>2, <2>3 DEF IsInjective, Range
<1>5. ASSUME IsInjective(s), IsInjective(t), Range(s) \cap Range(t) = {}
      PROVE  IsInjective(u)
  <2> SUFFICES ASSUME NEW i \in DOMAIN u, NEW j \in DOMAIN u, u[i] = u[j] PROVE i = j
    BY DEF IsInjective
  <2>1. ASSUME NEW k \in DOMAIN u
        PROVE  \/ k \in 1 .. Len(s) /\ u[k] = s[k] /\ u[k] \in Range(s)
               \/ k - Len(s) \in 1 .. Len(t) /\ u[k] = t[k - Len(s)] /\ u[k] \in Range(t)
    <3>1. CASE k <= Len(s)
      BY <1>1, <1>2, <3>1 DEF Range
    <3>2. CASE k > Len(s)
      <4>1. k - Len(s) \in 1 .. Len(t) /\ Len(s) + (k - Len(s)) = k
        BY <1>1, <1>2, <3>2
      <4>2. u[k] = t[k - Len(s)]
        BY <1>2, <4>1
      <4>3. QED
        BY <1>1, <4>1, <4>2 DEF Range
    <3>3. QED
      BY <1>1, <1>2, <3>1, <3>2
  <2>2. CASE i \in 1 .. Len(s) /\ u[i] = s[i] /\ u[i] \in Range(s)
    <3>1. j \in 1 .. Len(s) /\ u[j] = s[j]
      BY <1>5, <2>1, <2>2
    <3>2. QED
      BY <1>1, <1>5, <2>2, <3>1 DEF IsInjective
  <2>3. CASE i - Len(s) \in 1 .. Len(t) /\ u[i] = t[i - Len(s)] /\ u[i] \in Range(t)
    <3>1. j - Len(s) \in 1 .. Len(t) /\ u[j] = t[j - Len(s)]
      BY <1>5, <2>1, <2>3
    <3>2. i - Len(s) = j - Len(s)
      BY <1>1, <1>5, <2>3, <3>1 DEF IsInjective
    <3>3. QED
      BY <1>1, <1>2, <3>2
  <2>4. QED
    BY <2>1, <2>2, <2>3
<1>6. QED
  BY <1>2, <1>3, <1>4, <1>5

LEMMA SingleFacts ==
  ASSUME NEW S, NEW e \in S
  PROVE  <<e>> \in Seq(S) /\ Range(<<e>>) = {e} /\ IsInjective(<<e>>)
BY DEF Range, IsInjective

LEMMA EmptyFacts ==
  ASSUME NEW S
  PROVE  <<>> \in Seq(S) /\ Range(<<>>) = {} /\ IsInjective(<<>>)
BY DEF Range, IsInjective

LEMMA AppendFacts ==
  ASSUME NEW S, NEW s \in Seq(S), NEW e \in S
  PROVE  /\ Append(s, e) = s \o <<e>>
         /\ Append(s, e) \in Seq(S) /\ Len(Append(s, e)) = Len(s) + 1
         /\ Range(Append(s, e)) = Range(s) \cup {e}
         /\ IsInjective(Append(s, e)) <=> IsInjective(s) /\ e \notin Range(s)
<1>1. /\ Append(s, e) = s \o <<e>>
      /\ Append(s, e) \in Seq(S) /\ Len(Append(s, e)) = Len(s) + 1
  BY AppendIsConcat, AppendProperties
<1>2. <<e>> \in Seq(S) /\ Range(<<e>>) = {e} /\ IsInjective(<<e>>)
  BY SingleFacts
<1>3. /\ Range(s \o <<e>>) = Range(s) \cup Range(<<e>>)
      /\ IsInjective(s \o <<e>>) <=>
           IsInjective(s) /\ IsInjective(<<e>>) /\ Range(s) \cap Range(<<e>>) = {}
  BY <1>2, ConcatFacts
<1>4. QED
  BY <1>1, <1>2, <1>3

LEMMA HeadTailFacts ==
  ASSUME NEW S, NEW s \in Seq(S), s # <<>>
  PROVE  /\ Head(s) \in S /\ Tail(s) \in Seq(S) /\ Len(Tail(s)) = Len(s) - 1
         /\ s = <<Head(s)>> \o Tail(s)
         /\ Range(s) = {Head(s)} \cup Range(Tail(s))
         /\ IsInjective(s) <=> IsInjective(Tail(s)) /\ Head(s) \notin Range(Tail(s))
<1>1. Head(s) \in S /\ Tail(s) \in Seq(S) /\ Len(Tail(s)) = Len(s) - 1
  BY HeadTailProperties
<1>2. s = <<Head(s)>> \o Tail(s)
  <2>1. Len(s) \in Nat \ {0}
    BY EmptySeq
  <2>2. SubSeq(s, 1, Len(s)) = <<s[1]>> \o SubSeq(s, 2, Len(s))
    <3>1. 1 \in 1 .. Len(s) /\ Len(s) \in 1 .. Len(s) /\ 1 + 1 = 2
      BY <2>1
    <3>2. QED
      BY <3>1, SubSeqRecursiveFirst
  <2>3. SubSeq(s, 1, Len(s)) = s /\ Tail(s) = SubSeq(s, 2, Len(s))
    BY SubSeqFull, TailIsSubSeq
  <2>4. Head(s) = s[1]
    OBVIOUS
  <2>5. QED
    BY <2>2, <2>3, <2>4
<1>3. <<Head(s)>> \in Seq(S) /\ Range(<<Head(s)>>) = {Head(s)} /\ IsInjective(<<Head(s)>>)
  BY <1>1, SingleFacts
<1>4. /\ Range(<<Head(s)>> \o Tail(s)) = Range(<<Head(s)>>) \cup Range(Tail(s))
      /\ IsInjective(<<Head(s)>> \o Tail(s)) <=>
           /\ IsInjective(<<Head(s)>>) /\ IsInjective(Tail(s))
           /\ Range(<<Head(s)>>) \cap Range(Tail(s)) = {}
  BY <1>1, <1>3, ConcatFacts
<1>5. QED
  BY <1>1, <1>2, <1>3, <1>4

\* A sequence of all elements of a set, each once, contains them all.
LEMMA OrderFacts ==
  ASSUME NEW S, IsFiniteSet(S), NEW s \in SetToSeqs(S)
  PROVE  /\ s \in [1 .. Cardinality(S) -> S]
         /\ s \in Seq(S)
         /\ Range(s) = S
<1> DEFINE n == Cardinality(S)
<1>1. n \in Nat
  BY FS_CardinalityType
<1>2. s \in [1 .. n -> S] /\ \A i, j \in 1 .. n : i # j => s[i] # s[j]
  BY DEF SetToSeqs
<1>3. IsFiniteSet(1 .. n) /\ Cardinality(1 .. n) = n
  BY <1>1, FS_Interval
<1>4. s \in Injection(1 .. n, S)
  BY <1>2 DEF Injection, IsInjective
<1>5. s \in Surjection(1 .. n, S)
  BY <1>3, <1>4, FS_Injection
<1>6. s \in Seq(S)
  BY <1>1, <1>2
<1>7. Range(s) = S
  BY <1>2, <1>5 DEF Surjection, Range
<1>8. QED
  BY <1>2, <1>6, <1>7

\* A sequence without its k-th element.
LEMMA RemoveFacts ==
  ASSUME NEW S, NEW s \in Seq(S), NEW k \in 1 .. Len(s)
  PROVE  /\ RemoveAt(s, k) \in Seq(S) /\ Len(RemoveAt(s, k)) = Len(s) - 1
         /\ \A j \in 1 .. Len(s) - 1 : RemoveAt(s, k)[j] = IF j < k THEN s[j] ELSE s[j + 1]
         /\ IsInjective(s) => /\ IsInjective(RemoveAt(s, k))
                              /\ Range(RemoveAt(s, k)) = Range(s) \ {s[k]}
<1> DEFINE a == SubSeq(s, 1, k - 1)
           b == SubSeq(s, k + 1, Len(s))
           t == RemoveAt(s, k)
<1>1. Len(s) \in Nat /\ DOMAIN s = 1 .. Len(s) /\ \A i \in 1 .. Len(s) : s[i] \in S
  OBVIOUS
<1>2. /\ a \in Seq(S) /\ Len(a) = k - 1 /\ \A i \in 1 .. k - 1 : a[i] = s[i]
  <2>1. 1 \in Int /\ k - 1 \in Int /\ \A i \in 1 .. k - 1 : s[i] \in S
    BY <1>1
  <2>2. QED
    BY <2>1, SubSeqProperties
<1>3. b \in Seq(S) /\ Len(b) = Len(s) - k /\ \A i \in 1 .. Len(s) - k : b[i] = s[k + i]
  <2>1. k + 1 \in Int /\ Len(s) \in Int /\ \A i \in k + 1 .. Len(s) : s[i] \in S
    BY <1>1
  <2>2. /\ b \in Seq(S)
        /\ Len(b) = IF k + 1 <= Len(s) THEN Len(s) - (k + 1) + 1 ELSE 0
        /\ \A i \in 1 .. Len(s) - (k + 1) + 1 : b[i] = s[(k + 1) + i - 1]
    BY <2>1, SubSeqProperties
  <2> HIDE DEF b
  <2>3. Len(s) - (k + 1) + 1 = Len(s) - k /\ (k + 1 <= Len(s) \/ Len(s) - k = 0)
    <3>1. \A n \in Nat : \A i \in 1 .. n : n - (i + 1) + 1 = n - i /\ (i + 1 <= n \/ n - i = 0)
      OBVIOUS
    <3>2. QED
      BY <1>1, <3>1
  <2>4. Len(b) = Len(s) - k
    BY <2>2, <2>3
  <2>5. ASSUME NEW i \in 1 .. Len(s) - k PROVE b[i] = s[k + i]
    <3>1. (k + 1) + i - 1 = k + i
      BY <1>1
    <3>2. QED
      BY <2>2, <2>3, <3>1
  <2>6. QED
    BY <2>2, <2>4, <2>5
<1> HIDE DEF a, b
<1>4. t = a \o b
  BY DEF RemoveAt, a, b
<1>5. /\ t \in Seq(S) /\ Len(t) = Len(s) - 1
      /\ \A j \in 1 .. Len(s) - 1 : t[j] = IF j <= k - 1 THEN a[j] ELSE b[j - (k - 1)]
  <2>1. /\ a \o b \in Seq(S) /\ Len(a \o b) = Len(a) + Len(b)
        /\ \A j \in 1 .. Len(a) + Len(b) :
             (a \o b)[j] = IF j <= Len(a) THEN a[j] ELSE b[j - Len(a)]
    BY <1>2, <1>3, ConcatProperties
  <2>2. Len(a) + Len(b) = Len(s) - 1
    BY <1>1, <1>2, <1>3
  <2> HIDE DEF t
  <2>3. QED
    BY <1>2, <1>4, <2>1, <2>2
<1>6. ASSUME NEW j \in 1 .. Len(s) - 1 PROVE t[j] = IF j < k THEN s[j] ELSE s[j + 1]
  <2> HIDE DEF t
  <2>1. CASE j < k
    BY <1>1, <1>2, <1>5, <2>1
  <2>2. CASE j >= k
    <3>1. j - (k - 1) \in 1 .. Len(s) - k /\ k + (j - (k - 1)) = j + 1 /\ ~(j <= k - 1)
      BY <1>1, <2>2
    <3>2. QED
      BY <1>3, <1>5, <2>2, <3>1
  <2>3. QED
    BY <1>1, <2>1, <2>2
<1>7. DOMAIN t = 1 .. Len(s) - 1
  BY <1>5
<1> HIDE DEF t
<1>8. ASSUME IsInjective(s) PROVE IsInjective(t)
  <2> SUFFICES ASSUME NEW i \in 1 .. Len(s) - 1, NEW j \in 1 .. Len(s) - 1, t[i] = t[j] PROVE i = j
    BY <1>7 DEF IsInjective
  <2> DEFINE up(x) == IF x < k THEN x ELSE x + 1
  <2>1. up(i) \in 1 .. Len(s) /\ up(j) \in 1 .. Len(s) /\ t[i] = s[up(i)] /\ t[j] = s[up(j)]
    BY <1>1, <1>6
  <2>2. up(i) = up(j)
    BY <1>1, <1>8, <2>1 DEF IsInjective
  <2>3. QED
    BY <1>1, <2>2
<1>9. ASSUME IsInjective(s) PROVE Range(t) = Range(s) \ {s[k]}
  <2>1. ASSUME NEW j \in 1 .. Len(s) - 1 PROVE t[j] \in Range(s) \ {s[k]}
    <3>1. CASE j < k
      BY <1>1, <1>6, <1>9, <3>1 DEF Range, IsInjective
    <3>2. CASE j >= k
      <4>1. j + 1 \in 1 .. Len(s) /\ j + 1 # k /\ t[j] = s[j + 1]
        BY <1>1, <1>6, <3>2
      <4>2. QED
        BY <1>1, <1>9, <4>1 DEF Range, IsInjective
    <3>3. QED
      BY <1>1, <3>1, <3>2
  <2>2. ASSUME NEW i \in 1 .. Len(s), i # k PROVE s[i] \in Range(t)
    <3>1. CASE i < k
      <4>1. i \in 1 .. Len(s) - 1 /\ t[i] = s[i]
        BY <1>1, <1>6, <3>1
      <4>2. QED
        BY <1>7, <4>1 DEF Range
    <3>2. CASE i > k
      <4>1. i - 1 \in 1 .. Len(s) - 1 /\ ~(i - 1 < k) /\ (i - 1) + 1 = i
        BY <1>1, <3>2
      <4>2. t[i - 1] = s[i]
        BY <1>6, <4>1
      <4>3. QED
        BY <1>7, <4>1, <4>2 DEF Range
    <3>3. QED
      BY <1>1, <2>2, <3>1, <3>2
  <2>3. QED
    BY <1>1, <1>7, <2>1, <2>2 DEF Range
<1>10. QED
  BY <1>5, <1>6, <1>8, <1>9 DEF t

------------------------------------------------------------------------------
(***************************************************************************)
(* The spare objects of a pool: a stack s whose first u places are empty,  *)
(* of objects numbered up to m.                                            *)
(***************************************************************************)
SpareOK(s, u, m) ==
  /\ u \in Nat /\ m \in Nat /\ s \in Seq(0 .. m) /\ u <= Len(s)
  /\ \A i, j \in 1 .. Len(s) : s[i] = s[j] /\ i # j => s[i] = 0
  /\ \A i \in 1 .. Len(s) : (s[i] = 0) <=> (i <= u)

LEMMA SpareTaken ==
  ASSUME NEW s, NEW u, NEW m, SpareOK(s, u, m), u < Len(s)
  PROVE  LET t == [s EXCEPT ![u + 1] = 0]
         IN  /\ s[u + 1] \in Range(s) /\ s[u + 1] \in 1 .. m
             /\ SpareOK(t, u + 1, m) /\ Len(t) = Len(s)
             /\ Range(t) \subseteq (Range(s) \ {s[u + 1]}) \cup {0}
<1> DEFINE n == Len(s)
           t == [s EXCEPT ![u + 1] = 0]
<1>1. /\ n \in Nat /\ s \in [1 .. n -> 0 .. m] /\ u \in Nat /\ m \in Nat /\ u + 1 \in 1 .. n
      /\ \A i, j \in 1 .. n : s[i] = s[j] /\ i # j => s[i] = 0
      /\ \A i \in 1 .. n : (s[i] = 0) <=> (i <= u)
  BY DEF SpareOK
<1>2. t \in Seq(0 .. m) /\ Len(t) = n /\ t[u + 1] = 0 /\ \A i \in 1 .. n : i # u + 1 => t[i] = s[i]
  BY <1>1 DEF SpareOK
<1>3. DOMAIN s = 1 .. n /\ DOMAIN t = 1 .. n
  BY <1>1
<1> HIDE DEF n, t
<1>4. \A i \in 1 .. n : s[i] \in Range(s)
  BY <1>3 DEF Range
<1>5. ASSUME NEW i \in 1 .. n PROVE t[i] \in (Range(s) \ {s[u + 1]}) \cup {0}
  <2>1. CASE i = u + 1
    BY <1>2, <2>1
  <2>2. CASE i # u + 1
    BY <1>1, <1>2, <1>4, <2>2
  <2>3. QED
    BY <2>1, <2>2
<1>6. \A i, j \in 1 .. n : t[i] = t[j] /\ i # j => t[i] = 0
  BY <1>1, <1>2
<1>7. \A i \in 1 .. n : (t[i] = 0) <=> (i <= u + 1)
  BY <1>1, <1>2
<1>8. SpareOK(t, u + 1, m)
  BY <1>1, <1>2, <1>6, <1>7 DEF SpareOK
<1>9. s[u + 1] \in Range(s) /\ s[u + 1] \in 1 .. m
  BY <1>1, <1>4
<1>10. Range(t) \subseteq (Range(s) \ {s[u + 1]}) \cup {0}
  BY <1>3, <1>5 DEF Range
<1>11. QED
  BY <1>2, <1>8, <1>9, <1>10 DEF n, t

LEMMA SpareAdded ==
  ASSUME NEW s, NEW u, NEW m, SpareOK(s, u, m), NEW a \in Nat,
         NEW new, new = [k \in 1 .. a |-> m + k]
  PROVE  LET t == s \o new
         IN  /\ SpareOK(t, u, m + a) /\ Len(t) = Len(s) + a
             /\ Range(t) \subseteq Range(s) \cup (m + 1 .. m + a)
<1> DEFINE n == Len(s)
           t == s \o new
<1>1. /\ n \in Nat /\ s \in [1 .. n -> 0 .. m] /\ u \in Nat /\ m \in Nat /\ u <= n
      /\ \A i, j \in 1 .. n : s[i] = s[j] /\ i # j => s[i] = 0
      /\ \A i \in 1 .. n : (s[i] = 0) <=> (i <= u)
  BY DEF SpareOK
<1>2. new \in Seq(Nat) /\ Len(new) = a /\ \A k \in 1 .. a : new[k] = m + k
  <2>1. new \in [1 .. a -> Nat]
    BY <1>1
  <2>2. QED
    BY <2>1, SeqDef
<1>3. s \in Seq(Nat)
  BY <1>1, SeqDef
<1>4. /\ t \in Seq(Nat) /\ Len(t) = n + a
      /\ \A i \in 1 .. n + a : t[i] = IF i <= n THEN s[i] ELSE new[i - n]
  BY <1>2, <1>3, ConcatProperties
<1> HIDE DEF t
<1>5. DOMAIN s = 1 .. n /\ DOMAIN t = 1 .. n + a
  BY <1>1, <1>4
<1> HIDE DEF n
<1>6. \A i \in 1 .. n : i \in 1 .. n + a /\ t[i] = s[i]
  BY <1>1, <1>4
<1>7. ASSUME NEW i \in n + 1 .. n + a PROVE i \in 1 .. n + a /\ t[i] = m + (i - n)
  <2>1. i \in 1 .. n + a /\ ~(i <= n) /\ i - n \in 1 .. a
    BY <1>1
  <2>2. QED
    BY <1>2, <1>4, <2>1
<1>8. \A i \in 1 .. n + a : i \in 1 .. n \/ i \in n + 1 .. n + a
  BY <1>1
<1>9. ASSUME NEW i \in 1 .. n + a
      PROVE  t[i] \in 0 .. m + a /\ ((t[i] = 0) <=> (i <= u))
  <2>1. CASE i \in 1 .. n
    BY <1>1, <1>6, <2>1
  <2>2. CASE i \in n + 1 .. n + a
    BY <1>1, <1>7, <2>2
  <2>3. QED
    BY <1>8, <2>1, <2>2
<1>10. ASSUME NEW i \in 1 .. n + a, NEW j \in 1 .. n + a, t[i] = t[j], i # j PROVE t[i] = 0
  <2>1. CASE i \in 1 .. n /\ j \in 1 .. n
    BY <1>1, <1>6, <1>10, <2>1
  <2>2. CASE i \in 1 .. n /\ j \in n + 1 .. n + a
    <3>1. s[i] \in 0 .. m /\ t[i] = s[i] /\ t[j] = m + (j - n)
      BY <1>1, <1>6, <1>7, <2>2
    <3>2. s[i] <= m /\ s[i] \in Nat /\ j \in Nat /\ j > n
      BY <1>1, <2>2, <3>1
    <3>3. m + (j - n) > m /\ m + (j - n) \in Nat /\ m \in Nat
      BY <1>1, <3>2
    <3>4. s[i] = m + (j - n)
      BY <1>10, <3>1
    <3>5. QED
      BY <3>2, <3>3, <3>4
  <2>3. CASE i \in n + 1 .. n + a /\ j \in 1 .. n
    <3>1. s[j] \in 0 .. m /\ t[j] = s[j] /\ t[i] = m + (i - n)
      BY <1>1, <1>6, <1>7, <2>3
    <3>2. s[j] <= m /\ s[j] \in Nat /\ i \in Nat /\ i > n
      BY <1>1, <2>3, <3>1
    <3>3. m + (i - n) > m /\ m + (i - n) \in Nat /\ m \in Nat
      BY <1>1, <3>2
    <3>4. s[j] = m + (i - n)
      BY <1>10, <3>1
    <3>5. QED
      BY <3>2, <3>3, <3>4
  <2>4. CASE i \in n + 1 .. n + a /\ j \in n + 1 .. n + a
    <3>1. t[i] = m + (i - n) /\ t[j] = m + (j - n) /\ i \in Nat /\ j \in Nat
      BY <1>1, <1>7, <2>4
    <3>2. m + (i - n) = m + (j - n)
      BY <1>10, <3>1
    <3>3. i = j
      BY <1>1, <3>1, <3>2
    <3>4. QED
      BY <1>10, <3>3
  <2>5. QED
    BY <1>8, <2>1, <2>2, <2>3, <2>4
<1>11. t \in Seq(0 .. m + a)
  <2>1. n + a \in Nat /\ t \in [1 .. n + a -> Nat]
    BY <1>1, <1>4
  <2>2. t \in [1 .. n + a -> 0 .. m + a]
    BY <1>9, <2>1
  <2>3. QED
    BY <2>1, <2>2, SeqDef
<1>12. SpareOK(t, u, m + a)
  BY <1>1, <1>4, <1>9, <1>10, <1>11 DEF SpareOK
<1>13. Range(t) \subseteq Range(s) \cup (m + 1 .. m + a)
  <2>1. ASSUME NEW i \in 1 .. n + a PROVE t[i] \in Range(s) \cup (m + 1 .. m + a)
    <3>1. CASE i \in 1 .. n
      BY <1>5, <1>6, <3>1 DEF Range
    <3>2. CASE i \in n + 1 .. n + a
      BY <1>1, <1>7, <3>2
    <3>3. QED
      BY <1>8, <3>1, <3>2
  <2>2. QED
    BY <1>5, <2>1 DEF Range
<1>14. QED
  BY <1>4, <1>12, <1>13 DEF t, n

LEMMA SparePut ==
  ASSUME NEW s, NEW u, NEW m, SpareOK(s, u, m), u > 0, NEW o \in 1 .. m, o \notin Range(s)
  PROVE  LET t == [s EXCEPT ![u] = o]
         IN  /\ SpareOK(t, u - 1, m) /\ Len(t) = Len(s)
             /\ Range(t) \subseteq Range(s) \cup {o}
<1> DEFINE n == Len(s)
           t == [s EXCEPT ![u] = o]
<1>1. /\ n \in Nat /\ s \in [1 .. n -> 0 .. m] /\ u \in 1 .. n /\ m \in Nat
      /\ \A i, j \in 1 .. n : s[i] = s[j] /\ i # j => s[i] = 0
      /\ \A i \in 1 .. n : (s[i] = 0) <=> (i <= u)
  BY DEF SpareOK
<1>2. t \in Seq(0 .. m) /\ Len(t) = n /\ t[u] = o /\ \A i \in 1 .. n : i # u => t[i] = s[i]
  BY <1>1 DEF SpareOK
<1>3. DOMAIN s = 1 .. n /\ DOMAIN t = 1 .. n
  BY <1>1
<1> HIDE DEF n, t
<1>4. \A i \in 1 .. n : s[i] \in Range(s) /\ s[i] # o
  BY <1>3 DEF Range
<1>5. \A i, j \in 1 .. n : t[i] = t[j] /\ i # j => t[i] = 0
  BY <1>1, <1>2, <1>4
<1>6. \A i \in 1 .. n : (t[i] = 0) <=> (i <= u - 1)
  BY <1>1, <1>2
<1>7. SpareOK(t, u - 1, m)
  BY <1>1, <1>2, <1>5, <1>6 DEF SpareOK
<1>8. Range(t) \subseteq Range(s) \cup {o}
  BY <1>2, <1>3, <1>4 DEF Range
<1>9. QED
  BY <1>2, <1>7, <1>8 DEF n, t

LEMMA SpareDropped ==
  ASSUME NEW s, NEW u, NEW m, SpareOK(s, u, m), NEW k \in u .. Len(s)
  PROVE  LET t == SubSeq(s, 1, k)
         IN  SpareOK(t, u, m) /\ Len(t) = k /\ Range(t) \subseteq Range(s)
<1> DEFINE n == Len(s)
           t == SubSeq(s, 1, k)
<1>1. /\ n \in Nat /\ s \in Seq(0 .. m) /\ u \in Nat /\ m \in Nat /\ k \in Nat /\ u <= k /\ k <= n
      /\ DOMAIN s = 1 .. n
      /\ \A i, j \in 1 .. n : s[i] = s[j] /\ i # j => s[i] = 0
      /\ \A i \in 1 .. n : (s[i] = 0) <=> (i <= u)
  BY DEF SpareOK
<1>2. t \in Seq(0 .. m) /\ Len(t) = k /\ DOMAIN t = 1 .. k /\ \A i \in 1 .. k : t[i] = s[i] /\ i \in 1 .. n
  BY <1>1
<1> HIDE DEF n, t
<1>3. SpareOK(t, u, m)
  BY <1>1, <1>2 DEF SpareOK
<1>4. Range(t) \subseteq Range(s)
  BY <1>1, <1>2 DEF Range
<1>5. QED
  BY <1>2, <1>3, <1>4 DEF t
==============================================================================
