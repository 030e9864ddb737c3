--------------------------- MODULE ObjectMapProofs ---------------------------
(***************************************************************************)
(* Theorems about ObjectMap for every AllocNum, MaxSize and set of objects.*)
(***************************************************************************)
EXTENDS ObjectMap, SequenceLemmas

(***************************************************************************)
(* The inductive invariant.                                                *)
(***************************************************************************)
Live == {i \in Ids : Find(i)}

\* The live ids, in the order of s, are linked forwards and backwards.
Linked(s) ==
  /\ s \in Seq(Ids) /\ IsInjective(s) /\ Range(s) = Live
  /\ head_id = IF s = <<>> THEN INVALID_ID ELSE s[1]
  /\ tail_id = IF s = <<>> THEN INVALID_ID ELSE s[Len(s)]
  /\ \A k \in 1 .. Len(s) :
       /\ next[s[k]] = IF k = Len(s) THEN INVALID_ID ELSE s[k + 1]
       /\ prev[s[k]] = IF k = 1 THEN INVALID_ID ELSE s[k - 1]

\* Erase leaves nothing in the links that Insert does not write.
Unlinked == \A i \in Ids : ~Find(i) => next[i] = INVALID_ID /\ prev[i] = INVALID_ID

IndInv == TypeOK /\ FreeExact /\ Unlinked /\ Linked(Visited)

------------------------------------------------------------------------------
(***************************************************************************)
(* A ring: the entries of ix on 0 .. n - 1 from h up to t.                 *)
(***************************************************************************)
RingCount(n, h, t) == IF t > h THEN t - h ELSE n + t - h
RingPlace(n, h, k) == IF h + k - 1 < n THEN h + k - 1 ELSE h + k - 1 - n
RingSeq(ix, n, h, t) == [k \in 1 .. RingCount(n, h, t) |-> ix[(h + k - 1) % n]]

LEMMA FreeIsRing == FreeSeq = RingSeq(indexs, Count, head, tail)
BY DEF FreeSeq, FreeCount, RingSeq, RingCount

LEMMA Wrap ==
  ASSUME NEW n \in Nat \ {0}, NEW x \in 0 .. 2 * n - 1
  PROVE  x % n = IF x < n THEN x ELSE x - n
OBVIOUS

LEMMA PlaceFacts ==
  ASSUME NEW n \in Nat \ {0}, NEW h \in 0 .. n - 1, NEW k \in 1 .. n
  PROVE  (h + k - 1) % n = RingPlace(n, h, k) /\ RingPlace(n, h, k) \in 0 .. n - 1
<1> DEFINE x == h + k - 1
<1>1. x \in 0 .. 2 * n - 1
  OBVIOUS
<1>2. x % n = IF x < n THEN x ELSE x - n
  <2> HIDE DEF x
  <2> QED
    BY <1>1, Wrap
<1>3. QED
  BY <1>1, <1>2 DEF RingPlace

LEMMA RingFacts ==
  ASSUME NEW n \in Nat \ {0}, NEW h \in 0 .. n - 1, NEW t \in 0 .. n - 1,
         NEW S, NEW ix \in [0 .. n - 1 -> S]
  PROVE  /\ RingSeq(ix, n, h, t) \in Seq(S)
         /\ Len(RingSeq(ix, n, h, t)) = RingCount(n, h, t)
         /\ RingCount(n, h, t) \in 1 .. n
<1> DEFINE s == RingSeq(ix, n, h, t)
<1>1. RingCount(n, h, t) \in 1 .. n
  BY DEF RingCount
<1>2. ASSUME NEW k \in 1 .. RingCount(n, h, t) PROVE (h + k - 1) % n \in 0 .. n - 1
  <2>1. k \in 1 .. n
    BY <1>1
  <2>2. QED
    BY <2>1, PlaceFacts
<1>3. s \in [1 .. RingCount(n, h, t) -> S]
  BY <1>2 DEF RingSeq
<1>4. s \in Seq(S) /\ Len(s) = RingCount(n, h, t)
  BY <1>1, <1>3
<1>5. QED
  BY <1>1, <1>4

LEMMA RingItem ==
  ASSUME NEW n \in Nat \ {0}, NEW h \in 0 .. n - 1, NEW t \in 0 .. n - 1,
         NEW ix, NEW k \in 1 .. RingCount(n, h, t)
  PROVE  RingSeq(ix, n, h, t)[k] = ix[RingPlace(n, h, k)]
<1>1. RingCount(n, h, t) \in 1 .. n
  BY DEF RingCount
<1>2. k \in 1 .. n
  BY <1>1
<1>3. (h + k - 1) % n = RingPlace(n, h, k)
  BY <1>2, PlaceFacts
<1>4. QED
  BY <1>3 DEF RingSeq

\* Taking the entry at h.
LEMMA RingTake ==
  ASSUME NEW n \in Nat \ {0}, NEW h \in 0 .. n - 1, NEW t \in 0 .. n - 1,
         NEW ix \in [0 .. n - 1 -> Nat]
  PROVE  /\ RingSeq(ix, n, h, t) # <<>> /\ Head(RingSeq(ix, n, h, t)) = ix[h]
         /\ (h + 1) % n \in 0 .. n - 1
         /\ (h + 1) % n = t <=> Len(RingSeq(ix, n, h, t)) = 1
         /\ (h + 1) % n # t => RingSeq(ix, n, (h + 1) % n, t) = Tail(RingSeq(ix, n, h, t))
<1> DEFINE s == RingSeq(ix, n, h, t)
           h1 == (h + 1) % n
           r == RingSeq(ix, n, h1, t)
<1>1. h1 = IF h + 1 < n THEN h + 1 ELSE 0
  <2> DEFINE x == h + 1
  <2>1. x \in 0 .. 2 * n - 1
    OBVIOUS
  <2>2. x % n = IF x < n THEN x ELSE x - n
    <3> HIDE DEF x
    <3> QED
      BY <2>1, Wrap
  <2>3. QED
    BY <2>1, <2>2
<1>2. h1 \in 0 .. n - 1
  BY <1>1
<1>3. /\ s \in Seq(Nat) /\ Len(s) = RingCount(n, h, t) /\ RingCount(n, h, t) \in 1 .. n
      /\ \A k \in 1 .. RingCount(n, h, t) : s[k] = ix[RingPlace(n, h, k)]
  <2> HIDE DEF h1
  <2>1. s \in Seq(Nat) /\ Len(s) = RingCount(n, h, t) /\ RingCount(n, h, t) \in 1 .. n
    BY RingFacts
  <2>2. ASSUME NEW k \in 1 .. RingCount(n, h, t) PROVE s[k] = ix[RingPlace(n, h, k)]
    BY RingItem
  <2>3. QED
    BY <2>1, <2>2
<1>4. /\ r \in Seq(Nat) /\ Len(r) = RingCount(n, h1, t)
      /\ \A k \in 1 .. RingCount(n, h1, t) : r[k] = ix[RingPlace(n, h1, k)]
  <2> HIDE DEF h1
  <2>1. r \in Seq(Nat) /\ Len(r) = RingCount(n, h1, t)
    BY <1>2, RingFacts
  <2>2. ASSUME NEW k \in 1 .. RingCount(n, h1, t) PROVE r[k] = ix[RingPlace(n, h1, k)]
    BY <1>2, RingItem
  <2>3. QED
    BY <2>1, <2>2
<1> HIDE DEF s, h1, r
<1>5. h1 = t <=> Len(s) = 1
  BY <1>1, <1>3 DEF RingCount
<1>6. s # <<>> /\ Head(s) = ix[h]
  <2>1. RingPlace(n, h, 1) = h
    BY DEF RingPlace
  <2>2. QED
    BY <1>3, <2>1
<1>7. ASSUME h1 # t PROVE r = Tail(s)
  <2>0. RingCount(n, h1, t) = RingCount(n, h, t) - 1
    BY <1>1, <1>7 DEF RingCount
  <2>1. Len(r) = Len(s) - 1
    BY <1>3, <1>4, <2>0
  <2>2. /\ Tail(s) \in Seq(Nat) /\ Len(Tail(s)) = Len(s) - 1
        /\ \A k \in 1 .. Len(s) - 1 : Tail(s)[k] = s[k + 1]
    BY <1>3
  <2>3. ASSUME NEW k \in 1 .. Len(s) - 1 PROVE r[k] = s[k + 1]
    <3>1. RingPlace(n, h1, k) = RingPlace(n, h, k + 1)
      BY <1>1, <1>3 DEF RingPlace
    <3>2. k + 1 \in 1 .. RingCount(n, h, t) /\ k \in 1 .. RingCount(n, h1, t)
      BY <1>3, <2>0
    <3>3. QED
      BY <1>3, <1>4, <3>1, <3>2
  <2>4. QED
    BY <1>4, <2>1, <2>2, <2>3, SeqEqual
<1>8. QED
  BY <1>2, <1>5, <1>6, <1>7 DEF s, h1, r

\* Putting an entry at t, where there is room.
LEMMA RingPut ==
  ASSUME NEW n \in Nat \ {0}, NEW h \in 0 .. n - 1, NEW t \in 0 .. n - 1,
         NEW ix \in [0 .. n - 1 -> Nat], NEW e \in Nat,
         RingCount(n, h, t) < n
  PROVE  /\ (t + 1) % n \in 0 .. n - 1
         /\ RingSeq([ix EXCEPT ![t] = e], n, h, (t + 1) % n) = Append(RingSeq(ix, n, h, t), e)
<1> DEFINE s == RingSeq(ix, n, h, t)
           t1 == (t + 1) % n
           ix1 == [ix EXCEPT ![t] = e]
           r == RingSeq(ix1, n, h, t1)
<1>1. t1 = IF t + 1 < n THEN t + 1 ELSE 0
  <2> DEFINE x == t + 1
  <2>1. x \in 0 .. 2 * n - 1
    OBVIOUS
  <2>2. x % n = IF x < n THEN x ELSE x - n
    <3> HIDE DEF x
    <3> QED
      BY <2>1, Wrap
  <2>3. QED
    BY <2>1, <2>2
<1>2. t1 \in 0 .. n - 1 /\ ix1 \in [0 .. n - 1 -> Nat]
  BY <1>1
<1>3. /\ s \in Seq(Nat) /\ Len(s) = RingCount(n, h, t) /\ RingCount(n, h, t) \in 1 .. n
      /\ \A k \in 1 .. RingCount(n, h, t) : s[k] = ix[RingPlace(n, h, k)]
  <2> HIDE DEF t1, ix1
  <2>1. s \in Seq(Nat) /\ Len(s) = RingCount(n, h, t) /\ RingCount(n, h, t) \in 1 .. n
    BY RingFacts
  <2>2. ASSUME NEW k \in 1 .. RingCount(n, h, t) PROVE s[k] = ix[RingPlace(n, h, k)]
    BY RingItem
  <2>3. QED
    BY <2>1, <2>2
<1>4. /\ r \in Seq(Nat) /\ Len(r) = RingCount(n, h, t1)
      /\ \A k \in 1 .. RingCount(n, h, t1) : r[k] = ix1[RingPlace(n, h, k)]
  <2> HIDE DEF t1, ix1
  <2>1. r \in Seq(Nat) /\ Len(r) = RingCount(n, h, t1)
    BY <1>2, RingFacts
  <2>2. ASSUME NEW k \in 1 .. RingCount(n, h, t1) PROVE r[k] = ix1[RingPlace(n, h, k)]
    BY <1>2, RingItem
  <2>3. QED
    BY <2>1, <2>2
<1> HIDE DEF s, t1, r
<1>5. Len(r) = Len(s) + 1
  BY <1>1, <1>3, <1>4 DEF RingCount
<1>6. /\ Append(s, e) \in Seq(Nat) /\ Len(Append(s, e)) = Len(s) + 1
      /\ \A k \in 1 .. Len(s) : Append(s, e)[k] = s[k]
      /\ Append(s, e)[Len(s) + 1] = e
  BY <1>3, AppendProperties
<1>7. ASSUME NEW k \in 1 .. Len(s) PROVE r[k] = s[k]
  <2>1. RingPlace(n, h, k) \in (0 .. n - 1) \ {t}
    BY <1>3 DEF RingCount, RingPlace
  <2>2. QED
    BY <1>3, <1>4, <1>5, <2>1
<1>8. r[Len(s) + 1] = e
  <2>1. RingPlace(n, h, Len(s) + 1) = t
    BY <1>3 DEF RingCount, RingPlace
  <2>2. r[Len(s) + 1] = ix1[t]
    <3>1. Len(s) + 1 \in 1 .. RingCount(n, h, t1)
      BY <1>3, <1>4, <1>5
    <3>2. QED
      BY <1>4, <2>1, <3>1
  <2>3. QED
    BY <2>2
<1>9. r = Append(s, e)
  <2>1. \A k \in 1 .. Len(r) : r[k] = Append(s, e)[k]
    BY <1>3, <1>5, <1>6, <1>7, <1>8
  <2>2. QED
    BY <1>4, <1>5, <1>6, <2>1, SeqEqual
<1>10. QED
  BY <1>2, <1>9 DEF s, t1, r

\* The ring of the places that have been added.
LEMMA RingNew ==
  ASSUME NEW n \in Nat, NEW a \in Nat \ {0}, NEW ix, \A i \in n .. n + a - 1 : ix[i] = i
  PROVE  RingSeq(ix, n + a, n, 0) = [k \in 1 .. a |-> n + k - 1]
<1>1. RingCount(n + a, n, 0) = a
  BY DEF RingCount
<1>2. ASSUME NEW k \in 1 .. a PROVE ix[(n + k - 1) % (n + a)] = n + k - 1
  <2>1. n + a \in Nat \ {0} /\ n + k - 1 \in 0 .. 2 * (n + a) - 1 /\ n + k - 1 < n + a
    OBVIOUS
  <2>2. (n + k - 1) % (n + a) = n + k - 1
    BY <2>1, Wrap
  <2>3. QED
    BY <2>2
<1>3. QED
  BY <1>1, <1>2 DEF RingSeq

------------------------------------------------------------------------------
(***************************************************************************)
(* The ring of free ids.                                                   *)
(***************************************************************************)
LEMMA StateFacts ==
  ASSUME TypeOK
  PROVE  /\ Count \in Nat /\ Count <= MaxSize /\ Ids = 0 .. Count - 1
         /\ IsFiniteSet(Ids) /\ Ids \subseteq Nat
         /\ MaxSize \in Nat /\ INVALID_ID = MaxSize /\ INVALID_ID \notin Ids
         /\ (Ids # {}) <=> (Count \in Nat \ {0})
<1>1. Count \in Nat /\ Count <= MaxSize /\ Ids = 0 .. Count - 1 /\ MaxSize \in Nat
  BY MaxSizeAssumption DEF TypeOK
<1> HIDE DEF Ids, Count
<1>2. IsFiniteSet(Ids)
  BY <1>1, FS_Interval
<1>3. QED
  BY <1>1, <1>2 DEF INVALID_ID

\* A range of ids counts as many as it is long.
LEMMA CountIs ==
  ASSUME NEW n \in Nat, NEW m \in Nat
  PROVE  Cardinality(0 .. n + m - 1) = n + m
BY FS_Interval

\* The ring holds at least one free id while there are ids.
LEMMA FreeFacts ==
  ASSUME TypeOK, Ids # {}
  PROVE  /\ FreeSeq \in Seq(Ids) /\ Len(FreeSeq) \in 1 .. Count
         /\ Len(FreeSeq) = RingCount(Count, head, tail)
<1>1. /\ Count \in Nat \ {0} /\ head \in 0 .. Count - 1 /\ tail \in 0 .. Count - 1
      /\ indexs \in [0 .. Count - 1 -> Ids]
  BY StateFacts DEF TypeOK
<1>2. QED
  <2> HIDE DEF Ids, Count
  <2> QED
    BY <1>1, FreeIsRing, RingFacts

LEMMA FreeOfNone == ASSUME TypeOK, Ids = {} PROVE FreeSeq = <<>>
<1>1. Count = 0 /\ head = 0 /\ tail = 0
  BY StateFacts DEF TypeOK
<1>2. FreeCount = 0
  BY <1>1 DEF FreeCount
<1>3. QED
  BY <1>2 DEF FreeSeq

\* Where an id is live the ring has room.
LEMMA RoomForLive ==
  ASSUME TypeOK, FreeExact, NEW id \in Ids, Find(id)
  PROVE  Len(FreeSeq) < Count
<1>1. /\ FreeSeq \in Seq(Ids) /\ Len(FreeSeq) \in 1 .. Count
      /\ IsFiniteSet(Ids) /\ Count = Cardinality(Ids) /\ Count \in Nat
  BY FreeFacts, StateFacts DEF Count
<1> HIDE DEF Ids, Count
<1>2. SUFFICES ASSUME Len(FreeSeq) = Count PROVE FALSE
  BY <1>1
<1>3. FreeSeq \in [1 .. Count -> Ids]
  BY <1>1, <1>2
<1>4. FreeSeq \in Injection(1 .. Count, Ids)
  BY <1>3 DEF FreeExact, Injection, IsInjective
<1>5. Cardinality(1 .. Count) = Count
  BY <1>1, FS_Interval
<1>6. FreeSeq \in Surjection(1 .. Count, Ids)
  BY <1>1, <1>4, <1>5, FS_Injection
<1>7. id \in Range(FreeSeq)
  BY <1>3, <1>6 DEF Surjection, Range
<1>8. QED
  BY <1>7 DEF FreeExact

------------------------------------------------------------------------------
(***************************************************************************)
(* The list of live ids.                                                   *)
(***************************************************************************)
\* A list that is linked is as long as there are live ids.
LEMMA ListLength == ASSUME TypeOK, NEW s, Linked(s) PROVE Len(s) \in 0 .. Count
<1>1. /\ s \in Seq(Ids) /\ IsInjective(s)
      /\ IsFiniteSet(Ids) /\ Count = Cardinality(Ids) /\ Count \in Nat
  BY StateFacts DEF Linked, Count
<1> HIDE DEF Ids, Count
<1>2. Len(s) \in Nat /\ s \in [1 .. Len(s) -> Ids]
  BY <1>1
<1>3. s \in Injection(1 .. Len(s), Ids)
  BY <1>1, <1>2 DEF Injection, IsInjective
<1>4. Cardinality(1 .. Len(s)) = Len(s)
  BY <1>2, FS_Interval
<1>5. Len(s) <= Count
  BY <1>1, <1>3, <1>4, FS_Injection
<1>6. QED
  BY <1>1, <1>2, <1>5

\* The loop steps through the list and, after it, stands at INVALID_ID.
LEMMA CursorIs ==
  ASSUME TypeOK, NEW s, Linked(s)
  PROVE  \A k \in 1 .. Count + 1 : Cursor[k] = IF k <= Len(s) THEN s[k] ELSE INVALID_ID
<1> DEFINE At(f, k) == IF k = 1 THEN head_id
                       ELSE IF f[k - 1] \in Ids THEN next[f[k - 1]] ELSE INVALID_ID
           w == [k \in 1 .. Count + 1 |-> IF k <= Len(s) THEN s[k] ELSE INVALID_ID]
           Same == {k \in 1 .. Count + 1 : Cursor[k] = w[k]}
<1>1. Count \in Nat /\ Len(s) \in 0 .. Count /\ INVALID_ID \notin Ids
  BY StateFacts, ListLength
<1>2. /\ \A k \in 1 .. Len(s) : s[k] \in Ids
      /\ \A k \in 1 .. Len(s) : next[s[k]] = IF k = Len(s) THEN INVALID_ID ELSE s[k + 1]
      /\ head_id = IF Len(s) = 0 THEN INVALID_ID ELSE s[1]
  <2>1. s \in Seq(Ids) /\ head_id = (IF s = <<>> THEN INVALID_ID ELSE s[1])
    BY DEF Linked
  <2>2. s = <<>> <=> Len(s) = 0
    BY <2>1, EmptySeq
  <2>3. QED
    BY <2>1, <2>2 DEF Linked
<1>3. w = [k \in 1 .. Count + 1 |-> At(w, k)]
  <2> HIDE DEF Ids, Count
  <2>1. ASSUME NEW k \in 1 .. Count + 1 PROVE w[k] = At(w, k)
    <3>1. CASE k = 1
      BY <1>1, <1>2, <3>1
    <3>2. CASE k # 1
      <4>1. k - 1 \in 1 .. Count + 1
        BY <1>1, <3>2
      <4>2. w[k - 1] = IF k - 1 <= Len(s) THEN s[k - 1] ELSE INVALID_ID
        BY <4>1
      <4>3. CASE k - 1 <= Len(s)
        <5>1. k - 1 \in 1 .. Len(s) /\ (k - 1) + 1 = k
          BY <1>1, <3>2, <4>3
        <5>2. w[k - 1] = s[k - 1] /\ s[k - 1] \in Ids
              /\ next[s[k - 1]] = IF k - 1 = Len(s) THEN INVALID_ID ELSE s[k]
          BY <1>2, <4>2, <4>3, <5>1
        <5>3. At(w, k) = IF k - 1 = Len(s) THEN INVALID_ID ELSE s[k]
          BY <3>2, <5>2
        <5>4. QED
          BY <1>1, <4>3, <5>1, <5>3
      <4>4. CASE k - 1 > Len(s)
        <5>1. w[k - 1] = INVALID_ID /\ w[k] = INVALID_ID
          BY <1>1, <4>2, <4>4
        <5>2. QED
          BY <1>1, <3>2, <5>1
      <4>5. QED
        BY <1>1, <4>3, <4>4
    <3>3. QED
      BY <3>1, <3>2
  <2>2. QED
    BY <2>1
<1>4. Cursor = [k \in 1 .. Count + 1 |-> At(Cursor, k)]
  <2>1. Cursor = CHOOSE f : f = [k \in 1 .. Count + 1 |-> At(f, k)]
    BY DEF Cursor
  <2> HIDE DEF w, At
  <2>2. QED
    BY <1>3, <2>1
<1>5. 1 \in Same
  <2> HIDE DEF Count, Ids
  <2>1. 1 \in 1 .. Count + 1
    BY <1>1
  <2>2. Cursor[1] = head_id /\ w[1] = head_id
    BY <1>3, <1>4, <2>1
  <2>3. QED
    BY <2>1, <2>2
<1>6. ASSUME NEW k \in 1 .. (Count + 1) - 1, k \in Same PROVE k + 1 \in Same
  <2> HIDE DEF Count, Ids
  <2>1. k + 1 \in 1 .. Count + 1 /\ k + 1 # 1 /\ (k + 1) - 1 = k
    BY <1>1
  <2>2. Cursor[k + 1] = At(Cursor, k + 1) /\ w[k + 1] = At(w, k + 1)
    <3> HIDE DEF w, At
    <3> QED
      BY <1>3, <1>4, <2>1
  <2>3. Cursor[k] = w[k]
    BY <1>6
  <2>4. At(Cursor, k + 1) = At(w, k + 1)
    <3> HIDE DEF w
    <3> QED
      BY <2>1, <2>3
  <2>5. QED
    BY <2>1, <2>2, <2>4
<1>7. 1 .. Count + 1 \subseteq Same
  <2>1. Count + 1 \in Nat
    BY <1>1
  <2> HIDE DEF Same, Count
  <2>2. QED
    BY <1>5, <1>6, <2>1, IntervalInduction
<1>8. QED
  BY <1>7

\* The loop visits just the list.
LEMMA VisitedIs == \A s : TypeOK /\ Linked(s) => Visited = s
<1> SUFFICES ASSUME NEW s, TypeOK, Linked(s) PROVE Visited = s
  OBVIOUS
<1> DEFINE steps == {k \in 1 .. Count + 1 : \A j \in 1 .. k : Cursor[j] # Stop}
<1>1. /\ Count \in Nat /\ Len(s) \in 0 .. Count /\ INVALID_ID \notin Ids
      /\ s \in Seq(Ids)
  BY StateFacts, ListLength DEF Linked
<1>2. \A k \in 1 .. Count + 1 : Cursor[k] = IF k <= Len(s) THEN s[k] ELSE INVALID_ID
  BY CursorIs
<1>3. \A k \in 1 .. Len(s) : s[k] \in Ids
  BY <1>1
<1>4. Stop = INVALID_ID
  <2>1. CASE s = <<>>
    BY <2>1 DEF Linked, Stop
  <2>2. CASE s # <<>>
    <3>1. Len(s) \in 1 .. Len(s)
      BY <1>1, <2>2, EmptySeq
    <3>2. tail_id = s[Len(s)] /\ next[s[Len(s)]] = INVALID_ID
      BY <2>2, <3>1 DEF Linked
    <3>3. QED
      BY <3>2 DEF Stop
  <2>3. QED
    BY <2>1, <2>2
<1>5. steps = 1 .. Len(s)
  <2> HIDE DEF Ids, Count
  <2>1. ASSUME NEW k \in 1 .. Len(s) PROVE k \in steps
    <3>1. \A j \in 1 .. k : j \in 1 .. Len(s) /\ j \in 1 .. Count + 1
      BY <1>1
    <3>2. \A j \in 1 .. k : Cursor[j] # Stop
      BY <1>1, <1>2, <1>3, <1>4, <3>1
    <3>3. QED
      BY <1>1, <3>2
  <2>2. ASSUME NEW k \in 1 .. Count + 1, k \notin 1 .. Len(s) PROVE k \notin steps
    <3>1. Cursor[k] = INVALID_ID /\ k \in 1 .. k
      BY <1>1, <1>2, <2>2
    <3>2. QED
      BY <1>4, <3>1
  <2>3. QED
    <3>1. steps \subseteq 1 .. Count + 1
      OBVIOUS
    <3> HIDE DEF steps
    <3>2. QED
      BY <2>1, <2>2, <3>1
<1>6. Visited = [k \in 1 .. Len(s) |-> Cursor[k]]
  <2>1. Cardinality(1 .. Len(s)) = Len(s)
    <3>1. Len(s) \in Nat
      BY <1>1
    <3> HIDE DEF steps
    <3>2. QED
      BY <3>1, FS_Interval
  <2>2. Visited = [k \in 1 .. Cardinality(steps) |-> Cursor[k]]
    BY DEF Visited
  <2> HIDE DEF steps
  <2>3. QED
    BY <1>5, <2>1, <2>2
<1>7. \A k \in 1 .. Len(s) : Cursor[k] = s[k]
  BY <1>1, <1>2
<1>8. s = [k \in 1 .. Len(s) |-> s[k]]
  BY <1>1
<1>9. QED
  BY <1>6, <1>7, <1>8

------------------------------------------------------------------------------
(***************************************************************************)
(* Insert.                                                                 *)
(***************************************************************************)
\* The places an insertion adds, and what it makes of the state.
Added == IF Len(FreeSeq) = 1 THEN NewPlaces ELSE {}
Inserted(o, id) ==
  /\ obj' = [i \in Ids \cup Added |-> IF i = id THEN o ELSE IF i \in Ids THEN obj[i] ELSE Null]
  /\ next' = [i \in Ids \cup Added |->
                IF i = tail_id THEN id ELSE IF i \in Ids THEN next[i] ELSE INVALID_ID]
  /\ prev' = [i \in Ids \cup Added |->
                IF i = id THEN tail_id ELSE IF i \in Ids THEN prev[i] ELSE INVALID_ID]
  /\ head_id' = IF head_id = INVALID_ID THEN id ELSE head_id
  /\ tail_id' = id
  /\ Count' = IF Len(FreeSeq) = 1 THEN Count + AllocNum ELSE Count
  /\ Ids' = 0 .. Count' - 1 /\ Count' \in Nat /\ Count' <= MaxSize
  /\ indexs' \in [Ids' -> Ids'] /\ head' \in Ids' /\ tail' \in Ids'
  /\ FreeSeq' = IF Len(FreeSeq) = 1 THEN [k \in 1 .. AllocNum |-> Count + k - 1] ELSE Tail(FreeSeq)

LEMMA InsertFacts ==
  ASSUME TypeOK, FreeExact, Unlinked, NEW o \in Objects, Insert(o)
  PROVE  /\ FreeSeq # <<>> /\ Head(FreeSeq) \in Ids /\ ~Find(Head(FreeSeq))
         /\ Inserted(o, Head(FreeSeq))
<1> DEFINE id == indexs[head]
           linked == tail_id # INVALID_ID
           obj1 == [obj EXCEPT ![id] = o]
           next1 == Set(next, linked, tail_id, id)
           prev1 == Set(prev, linked, id, tail_id)
           head1 == (head + 1) % Count
<1>1. /\ Count \in Nat \ {0} /\ Count <= MaxSize /\ Ids = 0 .. Count - 1 /\ MaxSize \in Nat
      /\ INVALID_ID = MaxSize
      /\ head \in 0 .. Count - 1 /\ tail \in 0 .. Count - 1 /\ indexs \in [0 .. Count - 1 -> Ids]
  BY StateFacts DEF TypeOK, Insert
<1>2. /\ FreeSeq # <<>> /\ Head(FreeSeq) = id /\ head1 \in 0 .. Count - 1
      /\ head1 = tail <=> Len(FreeSeq) = 1
      /\ head1 # tail => RingSeq(indexs, Count, head1, tail) = Tail(FreeSeq)
  <2> HIDE DEF Ids, Count
  <2>1. indexs \in [0 .. Count - 1 -> Nat]
    BY <1>1
  <2>2. QED
    BY <1>1, <2>1, RingTake, FreeIsRing
<1>3. id \in Ids /\ ~Find(id)
  <2>1. FreeSeq \in Seq(Ids)
    BY <1>1, FreeFacts
  <2>2. Head(FreeSeq) \in Range(FreeSeq)
    BY <1>2, <2>1, HeadTailFacts
  <2>3. QED
    BY <1>2, <2>2 DEF FreeExact
<1>4. /\ obj1 = [i \in Ids |-> IF i = id THEN o ELSE obj[i]]
      /\ next1 = [i \in Ids |-> IF i = tail_id THEN id ELSE next[i]]
      /\ prev1 = [i \in Ids |-> IF i = id THEN tail_id ELSE prev[i]]
  <2>1. /\ obj \in [Ids -> Objects \cup {Null}] /\ prev \in [Ids -> IdOrInvalid]
        /\ next \in [Ids -> IdOrInvalid] /\ tail_id \in Ids \cup {INVALID_ID} /\ INVALID_ID \notin Ids
    BY StateFacts DEF TypeOK, IdOrInvalid
  <2>2. prev[id] = INVALID_ID
    BY <1>3 DEF Unlinked
  <2> HIDE DEF id, Ids
  <2>3. obj1 = [i \in Ids |-> IF i = id THEN o ELSE obj[i]]
    BY <1>3, <2>1
  <2>4. next1 = [i \in Ids |-> IF i = tail_id THEN id ELSE next[i]]
    BY <2>1 DEF Set
  <2>5. prev1 = [i \in Ids |-> IF i = id THEN tail_id ELSE prev[i]]
    BY <1>3, <2>1, <2>2 DEF Set
  <2>6. QED
    BY <2>3, <2>4, <2>5
<1>5. head_id' = (IF head_id = INVALID_ID THEN id ELSE head_id) /\ tail_id' = id
  BY DEF Insert
<1>6. CASE head1 # tail
  <2>1. /\ obj' = obj1 /\ next' = next1 /\ prev' = prev1
        /\ head' = head1 /\ indexs' = indexs /\ tail' = tail
    BY <1>6 DEF Insert
  <2>2. Ids' = Ids /\ Count' = Count /\ Added = {} /\ Len(FreeSeq) # 1
    <3> HIDE DEF obj1
    <3>1. DOMAIN obj1 = Ids
      BY <1>4
    <3>2. QED
      BY <1>2, <1>6, <2>1, <3>1 DEF Ids, Count, Added
  <2>3. FreeSeq' = Tail(FreeSeq)
    <3>1. (FreeSeq = RingSeq(indexs, Count, head, tail))'
      BY FreeIsRing, PTL
    <3>2. QED
      BY <1>2, <1>6, <2>1, <2>2, <3>1
  <2> HIDE DEF obj1, next1, prev1, head1, Ids, Count
  <2>4. QED
    BY <1>1, <1>2, <1>3, <1>4, <1>5, <2>1, <2>2, <2>3 DEF Inserted
<1>7. CASE head1 = tail
  <2>1. /\ obj' = Grown(obj1, Null) /\ next' = Grown(next1, INVALID_ID)
        /\ prev' = Grown(prev1, INVALID_ID)
        /\ indexs' = [i \in Ids \cup NewPlaces |-> IF i \in Ids THEN indexs[i] ELSE i]
        /\ head' = Count /\ tail' = 0 /\ Count + AllocNum <= MaxSize
    BY <1>7 DEF Insert
  <2>2. /\ NewPlaces = Count .. Count + AllocNum - 1 /\ Added = NewPlaces /\ Len(FreeSeq) = 1
        /\ AllocNum \in Nat \ {0}
    BY <1>2, <1>7, AllocAssumption DEF NewPlaces, Added
  <2>3. Ids' = Ids \cup NewPlaces
    BY <2>1 DEF Ids, Grown
  <2>4. Ids' = 0 .. Count + AllocNum - 1
    <3> HIDE DEF Ids
    <3> QED
      BY <1>1, <2>2, <2>3
  <2>5. Count' = Count + AllocNum
    <3>1. Count' = Cardinality(Ids')
      BY DEF Count
    <3> HIDE DEF Count, Ids
    <3>2. Cardinality(0 .. Count + AllocNum - 1) = Count + AllocNum
      BY <1>1, <2>2, CountIs
    <3>3. QED
      BY <2>4, <3>1, <3>2
  <2>6. FreeSeq' = [k \in 1 .. AllocNum |-> Count + k - 1]
    <3>1. (FreeSeq = RingSeq(indexs, Count, head, tail))'
      BY FreeIsRing, PTL
    <3>2. \A i \in Count .. Count + AllocNum - 1 : indexs'[i] = i
      <4> HIDE DEF Ids, Count
      <4> QED
        BY <1>1, <2>1, <2>2
    <3>3. FreeSeq' = RingSeq(indexs', Count + AllocNum, Count, 0)
      BY <2>1, <2>5, <3>1
    <3> HIDE DEF Ids, Count
    <3>4. QED
      BY <1>1, <2>2, <3>2, <3>3, RingNew
  <2>7. /\ obj' = [i \in Ids \cup Added |-> IF i = id THEN o ELSE IF i \in Ids THEN obj[i] ELSE Null]
        /\ next' = [i \in Ids \cup Added |->
                      IF i = tail_id THEN id ELSE IF i \in Ids THEN next[i] ELSE INVALID_ID]
        /\ prev' = [i \in Ids \cup Added |->
                      IF i = id THEN tail_id ELSE IF i \in Ids THEN prev[i] ELSE INVALID_ID]
    <3>1. tail_id \in Ids \cup {INVALID_ID}
      BY DEF TypeOK, IdOrInvalid
    <3> HIDE DEF obj1, next1, prev1, id, Ids, Count
    <3>2. \A i \in Added : i \notin Ids /\ i # INVALID_ID /\ i # tail_id /\ i # id
      BY <1>1, <1>3, <2>1, <2>2, <3>1
    <3>3. obj' = [i \in Ids \cup Added |-> IF i = id THEN o ELSE IF i \in Ids THEN obj[i] ELSE Null]
      BY <1>3, <1>4, <2>1, <2>2, <3>2 DEF Grown
    <3>4. next' = [i \in Ids \cup Added |->
                     IF i = tail_id THEN id ELSE IF i \in Ids THEN next[i] ELSE INVALID_ID]
      BY <1>4, <2>1, <2>2, <3>2 DEF Grown
    <3>5. prev' = [i \in Ids \cup Added |->
                     IF i = id THEN tail_id ELSE IF i \in Ids THEN prev[i] ELSE INVALID_ID]
      BY <1>3, <1>4, <2>1, <2>2, <3>2 DEF Grown
    <3>6. QED
      BY <3>3, <3>4, <3>5
  <2>8. indexs' \in [Ids' -> Ids'] /\ head' \in Ids' /\ tail' \in Ids'
    <3> HIDE DEF Ids, Count
    <3> QED
      BY <1>1, <2>1, <2>2, <2>3, <2>4
  <2>9. Count' \in Nat /\ Count' <= MaxSize /\ Ids' = 0 .. Count' - 1
    <3> HIDE DEF Ids, Count
    <3> QED
      BY <1>1, <2>1, <2>2, <2>4, <2>5
  <2> HIDE DEF id, Ids, Count
  <2>10. QED
    BY <1>2, <1>3, <1>5, <2>2, <2>5, <2>6, <2>7, <2>8, <2>9 DEF Inserted
<1>8. QED
  BY <1>6, <1>7

LEMMA InsertType ==
  ASSUME TypeOK, NEW o \in Objects, NEW id \in Ids, Inserted(o, id)
  PROVE  /\ TypeOK' /\ Ids' = Ids \cup Added
         /\ Ids \cap Added = {} /\ INVALID_ID \notin Ids'
<1>1. /\ Count \in Nat /\ Ids = 0 .. Count - 1 /\ INVALID_ID = MaxSize /\ MaxSize \in Nat
      /\ AllocNum \in Nat \ {0}
      /\ Added = IF Len(FreeSeq) = 1 THEN Count .. Count + AllocNum - 1 ELSE {}
  BY StateFacts, AllocAssumption DEF Added, NewPlaces
<1>2. /\ obj \in [Ids -> Objects \cup {Null}] /\ prev \in [Ids -> IdOrInvalid]
      /\ next \in [Ids -> IdOrInvalid]
      /\ head_id \in IdOrInvalid /\ tail_id \in IdOrInvalid
  BY DEF TypeOK
<1>3. Ids' = 0 .. Count' - 1 /\ Count' \in Nat /\ Count' <= MaxSize
      /\ Count' = IF Len(FreeSeq) = 1 THEN Count + AllocNum ELSE Count
  BY DEF Inserted
<1>4. DOMAIN obj' = Ids \cup Added
  BY DEF Inserted
<1>5. Ids' = Ids \cup Added
  BY <1>4 DEF Ids
<1>6. Ids \cap Added = {} /\ INVALID_ID \notin Ids'
  <2> HIDE DEF Ids, Count, Added
  <2>1. Ids \cap Added = {}
    BY <1>1
  <2>2. INVALID_ID \notin Ids'
    BY <1>1, <1>3
  <2>3. QED
    BY <2>1, <2>2
<1>7. IdOrInvalid' = Ids \cup Added \cup {INVALID_ID}
  BY <1>5 DEF IdOrInvalid, INVALID_ID
<1>8. /\ obj' \in [Ids' -> Objects \cup {Null}]
      /\ next' \in [Ids' -> IdOrInvalid'] /\ prev' \in [Ids' -> IdOrInvalid']
  <2>1. Inserted(o, id)!1 /\ Inserted(o, id)!2 /\ Inserted(o, id)!3
    BY DEF Inserted
  <2> HIDE DEF Ids, Added
  <2>2. obj' \in [Ids' -> Objects \cup {Null}]
    BY <1>2, <1>5, <2>1
  <2>3. next' \in [Ids' -> IdOrInvalid']
    BY <1>2, <1>5, <1>7, <2>1 DEF IdOrInvalid
  <2>4. prev' \in [Ids' -> IdOrInvalid']
    BY <1>2, <1>5, <1>7, <2>1 DEF IdOrInvalid
  <2>5. QED
    BY <2>2, <2>3, <2>4
<1>9. /\ indexs' \in [Ids' -> Ids'] /\ head' \in Ids' /\ tail' \in Ids'
      /\ head_id' \in IdOrInvalid' /\ tail_id' \in IdOrInvalid'
  <2>1. /\ indexs' \in [Ids' -> Ids'] /\ head' \in Ids' /\ tail' \in Ids'
        /\ head_id' = (IF head_id = INVALID_ID THEN id ELSE head_id) /\ tail_id' = id
    BY DEF Inserted
  <2> HIDE DEF Ids, Added
  <2>2. QED
    BY <1>2, <1>7, <2>1 DEF IdOrInvalid
<1>10. Count' \in 0 .. MaxSize
  BY <1>1, <1>3
<1>11. QED
  BY <1>3, <1>5, <1>6, <1>8, <1>9, <1>10 DEF TypeOK

LEMMA InsertLive ==
  ASSUME TypeOK, NEW o \in Objects, NEW id \in Ids, Inserted(o, id)
  PROVE  /\ \A i \in Ids' : Find(i)' <=> i = id \/ (i \in Ids /\ Find(i))
         /\ Live' = Live \cup {id}
<1>1. Ids' = Ids \cup Added
  BY InsertType
<1>2. o # Null
  BY NullAssumption
<1>3. ASSUME NEW i \in Ids' PROVE Find(i)' <=> i = id \/ (i \in Ids /\ Find(i))
  <2>1. obj'[i] = IF i = id THEN o ELSE IF i \in Ids THEN obj[i] ELSE Null
    BY <1>1, <1>3 DEF Inserted
  <2>2. Find(i)' <=> obj'[i] # Null
    BY <1>3 DEF Find
  <2>3. i \in Ids => (Find(i) <=> obj[i] # Null)
    BY DEF Find
  <2> HIDE DEF Ids, Find
  <2>4. QED
    BY <1>2, <2>1, <2>2, <2>3
<1>4. Live' = {i \in Ids' : Find(i)'}
  BY DEF Live
<1>5. Live = {i \in Ids : Find(i)}
  BY DEF Live
<1>6. QED
  <2> HIDE DEF Ids, Find, Live
  <2> QED
    BY <1>1, <1>3, <1>4, <1>5

LEMMA InsertFree ==
  ASSUME TypeOK, FreeExact, NEW o \in Objects, FreeSeq # <<>>, Head(FreeSeq) \in Ids,
         Inserted(o, Head(FreeSeq))
  PROVE  FreeExact'
<1> DEFINE id == Head(FreeSeq)
           Unused == {i \in Ids : ~Find(i)}
<1>1. /\ FreeSeq \in Seq(Ids) /\ IsInjective(FreeSeq) /\ Range(FreeSeq) = Unused
  <2>1. FreeSeq \in Seq(Ids)
    BY FreeFacts
  <2>2. QED
    BY <2>1 DEF FreeExact
<1>2. /\ Tail(FreeSeq) \in Seq(Ids) /\ IsInjective(Tail(FreeSeq))
      /\ Range(Tail(FreeSeq)) = Unused \ {id}
      /\ Len(FreeSeq) = 1 => Unused = {id}
  <2> HIDE DEF Unused, Ids
  <2>1. /\ Tail(FreeSeq) \in Seq(Ids) /\ Len(Tail(FreeSeq)) = Len(FreeSeq) - 1
        /\ Range(FreeSeq) = {id} \cup Range(Tail(FreeSeq))
        /\ IsInjective(Tail(FreeSeq)) /\ id \notin Range(Tail(FreeSeq))
    BY <1>1, HeadTailFacts
  <2>2. ASSUME Len(FreeSeq) = 1 PROVE Tail(FreeSeq) = <<>>
    <3>1. Tail(FreeSeq) \in Seq(Ids) /\ Len(Tail(FreeSeq)) = 0
      BY <2>1, <2>2
    <3>2. QED
      BY <3>1, EmptySeq
  <2>3. QED
    BY <1>1, <2>1, <2>2, EmptyFacts
<1>3. /\ Ids' = Ids \cup Added
      /\ Ids \cap Added = {}
      /\ \A i \in Ids' : Find(i)' <=> i = id \/ (i \in Ids /\ Find(i))
  BY InsertType, InsertLive
<1>4. {i \in Ids' : ~Find(i)'} = (Unused \ {id}) \cup Added
  <2>1. id \in Ids
    OBVIOUS
  <2> HIDE DEF Ids, Find, id, Added
  <2>2. QED
    BY <1>3, <2>1
<1>5. CASE Len(FreeSeq) = 1
  <2>1. /\ FreeSeq' = [k \in 1 .. AllocNum |-> Count + k - 1]
        /\ Added = Count .. Count + AllocNum - 1
        /\ Count \in Nat
    BY <1>5, StateFacts DEF Inserted, Added, NewPlaces
  <2>2. IsInjective(FreeSeq') /\ Range(FreeSeq') = Added
    <3> HIDE DEF Count, Added
    <3> QED
      BY <2>1, AllocAssumption, SuccessiveFacts
  <2>3. {i \in Ids' : ~Find(i)'} = Added
    <3> HIDE DEF Unused, Added
    <3> QED
      BY <1>2, <1>4, <1>5
  <2>4. QED
    BY <2>2, <2>3 DEF FreeExact
<1>6. CASE Len(FreeSeq) # 1
  <2>1. FreeSeq' = Tail(FreeSeq) /\ Added = {}
    BY <1>6 DEF Inserted, Added
  <2>2. {i \in Ids' : ~Find(i)'} = Unused \ {id}
    <3> HIDE DEF Unused, Added
    <3> QED
      BY <1>4, <2>1
  <2>3. QED
    BY <1>2, <2>1, <2>2 DEF FreeExact
<1>7. QED
  BY <1>5, <1>6

LEMMA InsertList ==
  ASSUME TypeOK, Unlinked, NEW s, Linked(s),
         NEW o \in Objects, NEW id \in Ids, ~Find(id), Inserted(o, id)
  PROVE  Unlinked' /\ Linked(Append(s, id))'
<1> DEFINE t == Append(s, id)
<1>1. /\ Ids' = Ids \cup Added /\ Ids \cap Added = {} /\ INVALID_ID \notin Ids'
      /\ \A i \in Ids' : Find(i)' <=> i = id \/ (i \in Ids /\ Find(i))
      /\ Live' = Live \cup {id}
      /\ INVALID_ID' = INVALID_ID
  BY InsertType, InsertLive DEF INVALID_ID
<1>2. /\ s \in Seq(Ids) /\ IsInjective(s) /\ Range(s) = Live
      /\ head_id = IF s = <<>> THEN INVALID_ID ELSE s[1]
      /\ tail_id = IF s = <<>> THEN INVALID_ID ELSE s[Len(s)]
      /\ \A k \in 1 .. Len(s) :
           /\ next[s[k]] = IF k = Len(s) THEN INVALID_ID ELSE s[k + 1]
           /\ prev[s[k]] = IF k = 1 THEN INVALID_ID ELSE s[k - 1]
  BY DEF Linked
<1>3. /\ \A i \in Ids' : next'[i] = IF i = tail_id THEN id
                                    ELSE IF i \in Ids THEN next[i] ELSE INVALID_ID
      /\ \A i \in Ids' : prev'[i] = IF i = id THEN tail_id
                                    ELSE IF i \in Ids THEN prev[i] ELSE INVALID_ID
      /\ head_id' = IF head_id = INVALID_ID THEN id ELSE head_id
      /\ tail_id' = id
  BY <1>1 DEF Inserted
<1>4. id \notin Range(s) /\ Live \subseteq Ids /\ id \in Ids
  BY <1>2 DEF Live
<1>5. /\ Len(s) \in Nat /\ \A k \in 1 .. Len(s) : s[k] \in Ids /\ s[k] # id
      /\ \A j, k \in 1 .. Len(s) : s[j] = s[k] => j = k
      /\ s = <<>> <=> Len(s) = 0
  <2>1. Len(s) \in Nat /\ DOMAIN s = 1 .. Len(s) /\ (s = <<>> <=> Len(s) = 0)
    BY <1>2, EmptySeq
  <2>2. \A k \in 1 .. Len(s) : s[k] \in Ids /\ s[k] # id
    BY <1>2, <1>4, <2>1 DEF Range
  <2>3. QED
    BY <1>2, <2>1, <2>2 DEF IsInjective
<1>6. /\ t \in Seq(Ids) /\ Len(t) = Len(s) + 1
      /\ Range(t) = Range(s) \cup {id} /\ IsInjective(t)
      /\ \A k \in 1 .. Len(s) : t[k] = s[k]
      /\ t[Len(s) + 1] = id
  <2> HIDE DEF Ids
  <2>1. /\ t \in Seq(Ids) /\ Len(t) = Len(s) + 1
        /\ Range(t) = Range(s) \cup {id} /\ IsInjective(t)
    <3>1. s \in Seq(Ids) /\ id \in Ids /\ IsInjective(s) /\ id \notin Range(s)
      BY <1>2, <1>4
    <3>2. IsInjective(t) <=> IsInjective(s) /\ id \notin Range(s)
      BY <3>1, AppendFacts
    <3>3. t \in Seq(Ids) /\ Len(t) = Len(s) + 1
      BY <3>1, AppendProperties
    <3>4. Range(t) = Range(s) \cup {id}
      <4>1. t = s \o <<id>> /\ <<id>> \in Seq(Ids) /\ Range(<<id>>) = {id}
        BY <3>1, AppendIsConcat, SingleFacts
      <4> DEFINE e == <<id>>
      <4>2. e \in Seq(Ids)
        BY <4>1
      <4> HIDE DEF t, e
      <4>3. Range(s \o e) = Range(s) \cup Range(e)
        BY <3>1, <4>2, RangeConcatenation
      <4>4. QED
        BY <4>1, <4>3 DEF e
    <3>5. QED
      BY <3>1, <3>2, <3>3, <3>4
  <2>2. t[Len(s) + 1] = id /\ \A k \in 1 .. Len(s) : t[k] = s[k]
    BY <1>2, AppendProperties
  <2>3. QED
    BY <2>1, <2>2
<1> HIDE DEF t, Ids, Find, Live
<1>7. t \in Seq(Ids')
  <2>1. Seq(Ids) \subseteq Seq(Ids')
    BY <1>1
  <2>2. QED
    BY <1>6, <2>1
<1>8. ASSUME NEW k \in 1 .. Len(t)
      PROVE  /\ next'[t[k]] = IF k = Len(t) THEN INVALID_ID ELSE t[k + 1]
             /\ prev'[t[k]] = IF k = 1 THEN INVALID_ID ELSE t[k - 1]
  <2>1. CASE k = Len(t)
    <3>1. k = Len(s) + 1 /\ t[k] = id /\ id \in Ids'
      BY <1>1, <1>4, <1>6, <2>1
    <3>2. id # tail_id /\ next[id] = INVALID_ID
      <4>1. tail_id = INVALID_ID \/ tail_id \in Range(s)
        BY <1>2, <1>5 DEF Range
      <4>2. QED
        BY <1>1, <1>4, <4>1 DEF Unlinked
    <3>3. next'[id] = INVALID_ID
      BY <1>3, <1>4, <3>1, <3>2
    <3>4. prev'[id] = tail_id
      BY <1>3, <3>1
    <3>5. tail_id = IF k = 1 THEN INVALID_ID ELSE t[k - 1]
      BY <1>2, <1>5, <1>6, <3>1
    <3>6. QED
      BY <2>1, <3>1, <3>3, <3>4, <3>5
  <2>2. CASE k # Len(t)
    <3>1. /\ k \in 1 .. Len(s) /\ t[k] = s[k] /\ s[k] \in Ids /\ s[k] # id /\ s[k] \in Ids'
          /\ s # <<>>
      BY <1>1, <1>5, <1>6, <2>2
    <3>2. next'[t[k]] = t[k + 1]
      <4>1. CASE k = Len(s)
        BY <1>2, <1>3, <1>6, <3>1, <4>1
      <4>2. CASE k # Len(s)
        <5>1. Len(s) \in 1 .. Len(s) /\ k + 1 \in 1 .. Len(s)
          BY <1>5, <3>1, <4>2
        <5>2. s[k] # tail_id
          BY <1>2, <1>5, <3>1, <4>2, <5>1
        <5>3. QED
          BY <1>2, <1>3, <1>6, <3>1, <4>2, <5>1, <5>2
      <4>3. QED
        BY <4>1, <4>2
    <3>3. prev'[t[k]] = IF k = 1 THEN INVALID_ID ELSE t[k - 1]
      <4>1. k # 1 => k - 1 \in 1 .. Len(s)
        BY <3>1
      <4>2. QED
        BY <1>2, <1>3, <1>6, <3>1, <4>1
    <3>4. QED
      BY <2>2, <3>2, <3>3
  <2>3. QED
    BY <2>1, <2>2
<1>9. head_id' = t[1] /\ tail_id' = t[Len(t)] /\ t # <<>>
  <2>1. CASE s = <<>>
    BY <1>2, <1>3, <1>5, <1>6, <2>1
  <2>2. CASE s # <<>>
    <3>1. 1 \in 1 .. Len(s)
      BY <1>5, <2>2
    <3>2. head_id = s[1] /\ s[1] \in Ids
      BY <1>2, <1>5, <2>2, <3>1
    <3>3. QED
      BY <1>1, <1>3, <1>6, <3>1, <3>2
  <2>3. QED
    BY <2>1, <2>2
<1>10. Linked(t)'
  <2>1. Range(t) = Live'
    BY <1>1, <1>2, <1>6
  <2>2. QED
    BY <1>1, <1>6, <1>7, <1>8, <1>9, <2>1 DEF Linked
<1>11. Unlinked'
  <2>1. ASSUME NEW i \in Ids', ~Find(i)' PROVE next'[i] = INVALID_ID /\ prev'[i] = INVALID_ID
    <3>1. i # id /\ (i \in Ids => ~Find(i))
      BY <1>1, <2>1
    <3>2. i # tail_id
      <4>1. tail_id = INVALID_ID \/ tail_id \in Live
        BY <1>2, <1>5 DEF Range
      <4>2. QED
        BY <1>1, <3>1, <4>1 DEF Live
    <3>3. i \in Ids => next[i] = INVALID_ID /\ prev[i] = INVALID_ID
      BY <3>1 DEF Unlinked
    <3>4. QED
      BY <1>3, <3>1, <3>2, <3>3
  <2>2. QED
    BY <1>1, <2>1 DEF Unlinked
<1>12. QED
  BY <1>10, <1>11 DEF t

------------------------------------------------------------------------------
(***************************************************************************)
(* Erase.                                                                  *)
(***************************************************************************)
\* What the removal of an id makes of the state.
Erased(id) ==
  /\ obj' = [i \in Ids |-> IF i = id THEN Null ELSE obj[i]]
  /\ next' = [i \in Ids |-> IF i = id THEN INVALID_ID ELSE IF i = prev[id] THEN next[id] ELSE next[i]]
  /\ prev' = [i \in Ids |-> IF i = id THEN INVALID_ID ELSE IF i = next[id] THEN prev[id] ELSE prev[i]]
  /\ head_id' = IF id = head_id THEN next[id] ELSE head_id
  /\ tail_id' = IF id = tail_id THEN prev[id] ELSE tail_id
  /\ Ids' = Ids /\ Count' = Count
  /\ indexs' \in [Ids -> Ids] /\ head' \in Ids /\ tail' \in Ids
  /\ FreeSeq' = Append(FreeSeq, id)

\* A live id stands at one place of the list, at an end of it where a link ends.
LEMMA PlaceInList ==
  ASSUME TypeOK, NEW s, Linked(s), NEW id \in Ids, Find(id)
  PROVE  \E k \in 1 .. Len(s) :
           /\ s[k] = id
           /\ id = head_id <=> k = 1
           /\ id = tail_id <=> k = Len(s)
           /\ prev[id] = IF k = 1 THEN INVALID_ID ELSE s[k - 1]
           /\ next[id] = IF k = Len(s) THEN INVALID_ID ELSE s[k + 1]
<1>1. id \in Range(s) /\ s \in Seq(Ids) /\ IsInjective(s)
  BY DEF Linked, Live
<1>2. DOMAIN s = 1 .. Len(s) /\ Len(s) \in Nat
  BY <1>1
<1>3. PICK k \in 1 .. Len(s) : s[k] = id
  BY <1>1, <1>2 DEF Range
<1>4. s # <<>> /\ 1 \in 1 .. Len(s) /\ Len(s) \in 1 .. Len(s)
  BY <1>1, <1>2, <1>3, EmptySeq
<1>5. head_id = s[1] /\ tail_id = s[Len(s)]
  BY <1>4 DEF Linked
<1>6. (s[1] = s[k] <=> k = 1) /\ (s[Len(s)] = s[k] <=> k = Len(s))
  BY <1>1, <1>2, <1>3, <1>4 DEF IsInjective
<1>7. /\ prev[id] = IF k = 1 THEN INVALID_ID ELSE s[k - 1]
      /\ next[id] = IF k = Len(s) THEN INVALID_ID ELSE s[k + 1]
  BY <1>3 DEF Linked
<1> HIDE DEF Ids
<1>8. QED
  BY <1>3, <1>5, <1>6, <1>7

LEMMA EraseFacts ==
  ASSUME TypeOK, FreeExact, NEW s, Linked(s), NEW id \in Ids, Erase(id)
  PROVE  Find(id) /\ Erased(id)
<1> DEFINE p == prev[id]
           n == next[id]
           first == id = head_id
           last == id = tail_id
           next1 == Set(next, ~first /\ p # INVALID_ID, p, n)
           next2 == Set(next1, last /\ p # INVALID_ID, p, INVALID_ID)
           prev1 == Set(prev, first /\ n # INVALID_ID, n, INVALID_ID)
           prev2 == Set(prev1, ~last /\ n # INVALID_ID, n, p)
<1>1. /\ Find(id)
      /\ head_id' = (IF first THEN n ELSE head_id) /\ tail_id' = (IF last THEN p ELSE tail_id)
      /\ next' = [next2 EXCEPT ![id] = INVALID_ID] /\ prev' = [prev2 EXCEPT ![id] = INVALID_ID]
      /\ obj' = [obj EXCEPT ![id] = Null]
      /\ indexs' = [indexs EXCEPT ![tail] = id] /\ tail' = (tail + 1) % Count /\ head' = head
  BY DEF Erase, Unlink, Free
<1>2. /\ Count \in Nat \ {0} /\ Ids = 0 .. Count - 1
      /\ INVALID_ID \notin Ids /\ Ids \subseteq Nat
      /\ head \in Ids /\ tail \in Ids /\ indexs \in [Ids -> Ids]
      /\ obj \in [Ids -> Objects \cup {Null}]
      /\ next \in [Ids -> Ids \cup {INVALID_ID}] /\ prev \in [Ids -> Ids \cup {INVALID_ID}]
      /\ p \in Ids \cup {INVALID_ID} /\ n \in Ids \cup {INVALID_ID}
  BY StateFacts DEF TypeOK, IdOrInvalid
<1>3. PICK k \in 1 .. Len(s) :
        /\ s[k] = id /\ (first <=> k = 1) /\ (last <=> k = Len(s))
        /\ p = IF k = 1 THEN INVALID_ID ELSE s[k - 1]
        /\ n = IF k = Len(s) THEN INVALID_ID ELSE s[k + 1]
  BY <1>1, PlaceInList
<1>4. (first => p = INVALID_ID) /\ (last => n = INVALID_ID)
  BY <1>3
<1>5. obj' = [i \in Ids |-> IF i = id THEN Null ELSE obj[i]]
  <2> HIDE DEF Ids
  <2> QED
    BY <1>1, <1>2
<1>6. next' = [i \in Ids |-> IF i = id THEN INVALID_ID ELSE IF i = p THEN n ELSE next[i]]
  <2> HIDE DEF Ids, first, last, p, n
  <2>1. next1 = [i \in Ids |-> IF i = p /\ ~first THEN n ELSE next[i]]
    BY <1>2 DEF Set
  <2>2. next2 = [i \in Ids |-> IF i = p THEN n ELSE next[i]]
    <3>1. CASE last /\ p # INVALID_ID
      BY <1>2, <1>4, <2>1, <3>1 DEF Set
    <3>2. CASE ~(last /\ p # INVALID_ID)
      BY <1>2, <1>4, <2>1, <3>2 DEF Set
    <3>3. QED
      BY <3>1, <3>2
  <2> HIDE DEF next1, next2
  <2>3. QED
    BY <1>1, <2>2
<1>7. prev' = [i \in Ids |-> IF i = id THEN INVALID_ID ELSE IF i = n THEN p ELSE prev[i]]
  <2> HIDE DEF Ids, first, last, p, n
  <2>1. prev1 = [i \in Ids |-> IF i = n /\ first THEN INVALID_ID ELSE prev[i]]
    BY <1>2 DEF Set
  <2>2. prev2 = [i \in Ids |-> IF i = n THEN p ELSE prev[i]]
    <3>1. CASE ~last /\ n # INVALID_ID
      BY <1>2, <1>4, <2>1, <3>1 DEF Set
    <3>2. CASE ~(~last /\ n # INVALID_ID)
      <4>1. n = INVALID_ID /\ \A i \in Ids : i # n
        BY <1>2, <1>4, <3>2
      <4>2. prev1 = [i \in Ids |-> IF i = n THEN p ELSE prev[i]]
        BY <2>1, <4>1
      <4> HIDE DEF prev1
      <4>3. QED
        BY <3>2, <4>2 DEF Set
    <3>3. QED
      BY <3>1, <3>2
  <2> HIDE DEF prev1, prev2
  <2>3. QED
    BY <1>1, <2>2
<1>8. Ids' = Ids /\ Count' = Count
  <2>1. DOMAIN obj' = Ids
    BY <1>5
  <2>2. QED
    BY <2>1 DEF Ids, Count
<1>9. /\ indexs' \in [Ids -> Ids] /\ head' \in Ids /\ tail' \in Ids
      /\ FreeSeq' = Append(FreeSeq, id)
  <2> HIDE DEF Ids, Count, p, n
  <2>1. RingCount(Count, head, tail) < Count
    <3>1. Len(FreeSeq) = RingCount(Count, head, tail) /\ Len(FreeSeq) < Count
      BY <1>1, <1>2, FreeFacts, RoomForLive
    <3>2. QED
      BY <3>1
  <2>2. /\ indexs \in [0 .. Count - 1 -> Nat] /\ id \in Nat
        /\ head \in 0 .. Count - 1 /\ tail \in 0 .. Count - 1 /\ Count \in Nat \ {0}
    BY <1>2
  <2>3. /\ (tail + 1) % Count \in 0 .. Count - 1
        /\ RingSeq([indexs EXCEPT ![tail] = id], Count, head, (tail + 1) % Count)
             = Append(RingSeq(indexs, Count, head, tail), id)
    BY <2>1, <2>2, RingPut
  <2>4. (FreeSeq = RingSeq(indexs, Count, head, tail))'
    BY FreeIsRing, PTL
  <2>5. FreeSeq' = Append(FreeSeq, id)
    BY <1>1, <1>8, <2>3, <2>4, FreeIsRing
  <2>6. QED
    BY <1>1, <1>2, <2>3, <2>5
<1>10. QED
  BY <1>1, <1>5, <1>6, <1>7, <1>8, <1>9 DEF Erased

LEMMA EraseLive ==
  ASSUME NEW id \in Ids, Erased(id)
  PROVE  /\ \A i \in Ids : Find(i)' <=> i # id /\ Find(i)
         /\ Live' = Live \ {id}
<1>1. Ids' = Ids
  BY DEF Erased
<1>2. ASSUME NEW i \in Ids PROVE Find(i)' <=> i # id /\ Find(i)
  <2>1. obj'[i] = IF i = id THEN Null ELSE obj[i]
    BY DEF Erased
  <2>2. (Find(i)' <=> obj'[i] # Null) /\ (Find(i) <=> obj[i] # Null)
    BY <1>1 DEF Find
  <2> HIDE DEF Ids, Find
  <2>3. QED
    BY <2>1, <2>2
<1>3. Live' = {i \in Ids : Find(i)'} /\ Live = {i \in Ids : Find(i)}
  BY <1>1 DEF Live
<1> HIDE DEF Ids, Find, Live
<1>4. QED
  BY <1>2, <1>3

LEMMA EraseType ==
  ASSUME TypeOK, NEW id \in Ids, Erased(id)
  PROVE  TypeOK'
<1>1. /\ Count \in 0 .. MaxSize /\ Ids = 0 .. Count - 1
      /\ obj \in [Ids -> Objects \cup {Null}] /\ prev \in [Ids -> IdOrInvalid]
      /\ next \in [Ids -> IdOrInvalid]
      /\ head_id \in IdOrInvalid /\ tail_id \in IdOrInvalid
  BY DEF TypeOK
<1>2. Ids' = Ids /\ Count' = Count
  BY DEF Erased
<1>3. IdOrInvalid' = IdOrInvalid /\ INVALID_ID \in IdOrInvalid
  BY <1>2 DEF IdOrInvalid, INVALID_ID
<1>4. prev[id] \in IdOrInvalid /\ next[id] \in IdOrInvalid
  BY <1>1
<1> HIDE DEF Ids, Count, IdOrInvalid
<1>5. /\ obj' \in [Ids -> Objects \cup {Null}] /\ prev' \in [Ids -> IdOrInvalid]
      /\ next' \in [Ids -> IdOrInvalid]
  BY <1>1, <1>3, <1>4 DEF Erased
<1>6. /\ indexs' \in [Ids -> Ids] /\ head' \in Ids /\ tail' \in Ids
      /\ head_id' \in IdOrInvalid /\ tail_id' \in IdOrInvalid
  BY <1>1, <1>4 DEF Erased
<1>7. QED
  BY <1>1, <1>2, <1>3, <1>5, <1>6 DEF TypeOK

LEMMA EraseFree ==
  ASSUME TypeOK, FreeExact, NEW id \in Ids, Find(id), Erased(id)
  PROVE  FreeExact'
<1>1. /\ FreeSeq \in Seq(Ids) /\ IsInjective(FreeSeq)
      /\ Range(FreeSeq) = {i \in Ids : ~Find(i)}
      /\ id \notin Range(FreeSeq)
  BY FreeFacts DEF FreeExact
<1>2. Ids' = Ids /\ FreeSeq' = Append(FreeSeq, id)
      /\ \A i \in Ids : Find(i)' <=> i # id /\ Find(i)
  BY EraseLive DEF Erased
<1>3. {i \in Ids' : ~Find(i)'} = {i \in Ids : ~Find(i)} \cup {id}
  <2> HIDE DEF Ids, Find
  <2> QED
    BY <1>2
<1> HIDE DEF Ids, Find
<1>4. IsInjective(FreeSeq') /\ Range(FreeSeq') = Range(FreeSeq) \cup {id}
  <2>1. FreeSeq' \in Seq(Ids) /\ Range(FreeSeq') = Range(FreeSeq) \cup {id}
        /\ (IsInjective(FreeSeq') <=> IsInjective(FreeSeq) /\ id \notin Range(FreeSeq))
    BY <1>1, <1>2, AppendFacts
  <2>2. QED
    BY <1>1, <2>1
<1>5. QED
  BY <1>1, <1>3, <1>4 DEF FreeExact

LEMMA EraseList ==
  ASSUME TypeOK, Unlinked, NEW s, Linked(s), NEW id \in Ids, Find(id), Erased(id)
  PROVE  Unlinked' /\ \E k \in 1 .. Len(s) : Linked(RemoveAt(s, k))'
<1>1. /\ Ids' = Ids /\ INVALID_ID' = INVALID_ID /\ INVALID_ID \notin Ids
      /\ \A i \in Ids : Find(i)' <=> i # id /\ Find(i)
      /\ Live' = Live \ {id} /\ Live \subseteq Ids
  BY EraseLive, StateFacts DEF Erased, INVALID_ID, Live
<1>2. /\ s \in Seq(Ids) /\ IsInjective(s) /\ Range(s) = Live
      /\ head_id = IF s = <<>> THEN INVALID_ID ELSE s[1]
      /\ tail_id = IF s = <<>> THEN INVALID_ID ELSE s[Len(s)]
      /\ \A k \in 1 .. Len(s) :
           /\ next[s[k]] = IF k = Len(s) THEN INVALID_ID ELSE s[k + 1]
           /\ prev[s[k]] = IF k = 1 THEN INVALID_ID ELSE s[k - 1]
  BY DEF Linked
<1>3. PICK k \in 1 .. Len(s) :
        /\ s[k] = id /\ (id = head_id <=> k = 1) /\ (id = tail_id <=> k = Len(s))
        /\ prev[id] = IF k = 1 THEN INVALID_ID ELSE s[k - 1]
        /\ next[id] = IF k = Len(s) THEN INVALID_ID ELSE s[k + 1]
  BY PlaceInList
<1> DEFINE t == RemoveAt(s, k)
<1>4. /\ Len(s) \in Nat /\ \A j \in 1 .. Len(s) : s[j] \in Ids
      /\ \A i, j \in 1 .. Len(s) : s[i] = s[j] => i = j
      /\ s # <<>>
  <2>1. Len(s) \in Nat /\ DOMAIN s = 1 .. Len(s) /\ \A j \in 1 .. Len(s) : s[j] \in Ids
    BY <1>2
  <2>2. s # <<>>
    <3>1. k \in 1 .. Len(s) /\ Len(<<>>) = 0 /\ 1 .. 0 = {}
      OBVIOUS
    <3>2. QED
      BY <3>1
  <2>3. \A i, j \in 1 .. Len(s) : s[i] = s[j] => i = j
    BY <1>2, <2>1 DEF IsInjective
  <2>4. QED
    BY <2>1, <2>2, <2>3
<1>5. /\ t \in Seq(Ids) /\ Len(t) = Len(s) - 1 /\ IsInjective(t) /\ Range(t) = Live'
      /\ \A j \in 1 .. Len(s) - 1 : t[j] = IF j < k THEN s[j] ELSE s[j + 1]
  <2> HIDE DEF Ids, Live
  <2> QED
    BY <1>1, <1>2, <1>3, RemoveFacts
<1> HIDE DEF t, Ids, Find, Live
<1>6. /\ \A i \in Ids : next'[i] = IF i = id THEN INVALID_ID
                                   ELSE IF i = prev[id] THEN next[id] ELSE next[i]
      /\ \A i \in Ids : prev'[i] = IF i = id THEN INVALID_ID
                                   ELSE IF i = next[id] THEN prev[id] ELSE prev[i]
      /\ head_id' = IF id = head_id THEN next[id] ELSE head_id
      /\ tail_id' = IF id = tail_id THEN prev[id] ELSE tail_id
  BY DEF Erased
<1>7. ASSUME NEW j \in 1 .. Len(s) - 1
      PROVE  /\ next'[t[j]] = IF j = Len(s) - 1 THEN INVALID_ID ELSE t[j + 1]
             /\ prev'[t[j]] = IF j = 1 THEN INVALID_ID ELSE t[j - 1]
  <2> DEFINE m == IF j < k THEN j ELSE j + 1
  <2>1. m \in 1 .. Len(s) /\ m # k /\ t[j] = s[m] /\ s[m] \in Ids /\ s[m] # id
    BY <1>3, <1>4, <1>5
  <2>2. s[m] = prev[id] <=> m = k - 1
    <3>1. k # 1 => k - 1 \in 1 .. Len(s)
      BY <1>4
    <3>2. QED
      BY <1>1, <1>3, <1>4, <2>1, <3>1
  <2>3. s[m] = next[id] <=> m = k + 1
    <3>1. k # Len(s) => k + 1 \in 1 .. Len(s)
      BY <1>4
    <3>2. QED
      BY <1>1, <1>3, <1>4, <2>1, <3>1
  <2>4. /\ next'[t[j]] = IF m = k - 1 THEN next[id] ELSE IF m = Len(s) THEN INVALID_ID ELSE s[m + 1]
        /\ prev'[t[j]] = IF m = k + 1 THEN prev[id] ELSE IF m = 1 THEN INVALID_ID ELSE s[m - 1]
    <3> HIDE DEF m
    <3>1. /\ next'[s[m]] = IF s[m] = prev[id] THEN next[id] ELSE next[s[m]]
          /\ prev'[s[m]] = IF s[m] = next[id] THEN prev[id] ELSE prev[s[m]]
      BY <1>6, <2>1
    <3>2. /\ next[s[m]] = IF m = Len(s) THEN INVALID_ID ELSE s[m + 1]
          /\ prev[s[m]] = IF m = 1 THEN INVALID_ID ELSE s[m - 1]
      BY <1>2, <2>1
    <3>3. QED
      BY <2>1, <2>2, <2>3, <3>1, <3>2
  <2>5. next'[t[j]] = IF j = Len(s) - 1 THEN INVALID_ID ELSE t[j + 1]
    <3>1. j # Len(s) - 1 => t[j + 1] = IF j + 1 < k THEN s[j + 1] ELSE s[j + 2]
      <4>1. j # Len(s) - 1 => j + 1 \in 1 .. Len(s) - 1 /\ (j + 1) + 1 = j + 2
        BY <1>4
      <4>2. QED
        BY <1>5, <4>1
    <3>2. CASE j < k - 1
      BY <1>4, <2>4, <3>1, <3>2
    <3>3. CASE j = k - 1
      BY <1>3, <1>4, <2>4, <3>1, <3>3
    <3>4. CASE j >= k
      BY <1>4, <2>4, <3>1, <3>4
    <3>5. QED
      BY <1>4, <3>2, <3>3, <3>4
  <2>6. prev'[t[j]] = IF j = 1 THEN INVALID_ID ELSE t[j - 1]
    <3>1. j # 1 => t[j - 1] = IF j - 1 < k THEN s[j - 1] ELSE s[j]
      <4>1. j # 1 => j - 1 \in 1 .. Len(s) - 1 /\ (j - 1) + 1 = j
        BY <1>4
      <4>2. QED
        BY <1>5, <4>1
    <3>2. CASE j < k
      BY <1>4, <2>4, <3>1, <3>2
    <3>3. CASE j = k
      BY <1>3, <1>4, <2>4, <3>1, <3>3
    <3>4. CASE j > k
      BY <1>4, <2>4, <3>1, <3>4
    <3>5. QED
      BY <1>4, <3>2, <3>3, <3>4
  <2>7. QED
    BY <2>5, <2>6
<1>8. /\ head_id' = IF t = <<>> THEN INVALID_ID ELSE t[1]
      /\ tail_id' = IF t = <<>> THEN INVALID_ID ELSE t[Len(t)]
  <2>1. t = <<>> <=> Len(s) = 1
    BY <1>4, <1>5, EmptySeq
  <2>2. Len(s) # 1 =>
          /\ t[1] = (IF 1 < k THEN s[1] ELSE s[2])
          /\ t[Len(t)] = IF Len(s) - 1 < k THEN s[Len(s) - 1] ELSE s[Len(s)]
    <3>1. \A n \in Nat : \A i \in 1 .. n :
            n # 1 => 1 \in 1 .. n - 1 /\ n - 1 \in 1 .. n - 1 /\ (n - 1) + 1 = n
      OBVIOUS
    <3>2. Len(s) # 1 => 1 \in 1 .. Len(s) - 1 /\ Len(s) - 1 \in 1 .. Len(s) - 1
                        /\ (Len(s) - 1) + 1 = Len(s)
      BY <1>4, <3>1
    <3>3. ASSUME Len(s) # 1 PROVE t[1] = IF 1 < k THEN s[1] ELSE s[2]
      <4>1. 1 \in 1 .. Len(s) - 1 /\ 1 + 1 = 2
        BY <3>2, <3>3
      <4>2. QED
        BY <1>5, <4>1
    <3>4. ASSUME Len(s) # 1
          PROVE  t[Len(s) - 1] = IF Len(s) - 1 < k THEN s[Len(s) - 1] ELSE s[Len(s)]
      <4>1. Len(s) - 1 \in 1 .. Len(s) - 1 /\ (Len(s) - 1) + 1 = Len(s)
        BY <3>2, <3>4
      <4>2. QED
        BY <1>5, <4>1
    <3>5. QED
      BY <1>5, <3>3, <3>4
  <2>3. head_id = s[1] /\ tail_id = s[Len(s)]
    BY <1>2, <1>4
  <2>4. Len(s) \in Nat /\ k \in 1 .. Len(s)
    BY <1>4
  <2>5. head_id' = IF t = <<>> THEN INVALID_ID ELSE t[1]
    <3>1. CASE k = 1
      BY <1>3, <1>6, <2>1, <2>2, <2>4, <3>1
    <3>2. CASE k # 1
      BY <1>3, <1>6, <2>1, <2>2, <2>3, <2>4, <3>2
    <3>3. QED
      BY <3>1, <3>2
  <2>6. tail_id' = IF t = <<>> THEN INVALID_ID ELSE t[Len(t)]
    <3>1. CASE k = Len(s)
      BY <1>3, <1>6, <2>1, <2>2, <2>4, <3>1
    <3>2. CASE k # Len(s)
      BY <1>3, <1>6, <2>1, <2>2, <2>3, <2>4, <3>2
    <3>3. QED
      BY <3>1, <3>2
  <2>7. QED
    BY <2>5, <2>6
<1>9. Linked(t)'
  BY <1>1, <1>5, <1>7, <1>8 DEF Linked
<1>10. Unlinked'
  <2>1. ASSUME NEW i \in Ids, ~Find(i)' PROVE next'[i] = INVALID_ID /\ prev'[i] = INVALID_ID
    <3>1. CASE i = id
      BY <1>6, <3>1
    <3>2. CASE i # id
      <4>1. ~Find(i) /\ next[i] = INVALID_ID /\ prev[i] = INVALID_ID
        BY <1>1, <2>1, <3>2 DEF Unlinked
      <4>2. i # prev[id] /\ i # next[id]
        <5>1. i \notin Range(s)
          BY <1>2, <4>1 DEF Live
        <5>2. \A j \in 1 .. Len(s) : s[j] \in Range(s)
          <6>1. DOMAIN s = 1 .. Len(s)
            BY <1>2
          <6>2. QED
            BY <6>1 DEF Range
        <5>3. (k # 1 => k - 1 \in 1 .. Len(s)) /\ (k # Len(s) => k + 1 \in 1 .. Len(s))
          BY <1>4
        <5>4. QED
          BY <1>1, <1>3, <5>1, <5>2, <5>3
      <4>3. QED
        BY <1>6, <3>2, <4>1, <4>2
    <3>3. QED
      BY <3>1, <3>2
  <2>2. QED
    BY <1>1, <2>1 DEF Unlinked
<1>11. QED
  BY <1>9, <1>10 DEF t

------------------------------------------------------------------------------
(***************************************************************************)
(* The invariant.                                                          *)
(***************************************************************************)
LEMMA NoneLinked == ASSUME TypeOK, Live = {}, head_id = INVALID_ID, tail_id = INVALID_ID
                    PROVE  Linked(<<>>)
<1>1. <<>> \in Seq(Ids) /\ IsInjective(<<>>) /\ Range(<<>>) = {} /\ Len(<<>>) = 0
  BY EmptyFacts
<1>2. 1 .. Len(<<>>) = {}
  BY <1>1
<1>3. QED
  BY <1>1, <1>2 DEF Linked

LEMMA InitFacts ==
  ASSUME Init
  PROVE  /\ IndInv /\ Count = AllocNum /\ Live = {}
         /\ FreeSeq = [k \in 1 .. AllocNum |-> 0 + k - 1]
<1> DEFINE ids == 0 .. AllocNum - 1
<1>1. AllocNum \in Nat \ {0} /\ MaxSize \in Nat /\ AllocNum <= MaxSize
  BY AllocAssumption, MaxSizeAssumption
<1>2. /\ obj = [i \in ids |-> Null] /\ prev = [i \in ids |-> INVALID_ID]
      /\ next = [i \in ids |-> INVALID_ID] /\ indexs = [i \in ids |-> i]
      /\ head = 0 /\ tail = 0 /\ head_id = INVALID_ID /\ tail_id = INVALID_ID
  BY DEF Init
<1>3. Ids = ids
  BY <1>2 DEF Ids
<1>4. Count = AllocNum
  <2>1. Cardinality(0 .. 0 + AllocNum - 1) = 0 + AllocNum
    <3>1. 0 \in Nat /\ AllocNum \in Nat
      BY <1>1
    <3>2. QED
      BY <3>1, CountIs
  <2>2. 0 + AllocNum = AllocNum /\ 0 .. 0 + AllocNum - 1 = ids
    BY <1>1
  <2>3. Count = Cardinality(ids)
    BY <1>3 DEF Count
  <2> HIDE DEF ids
  <2>4. QED
    BY <2>1, <2>2, <2>3
<1>5. TypeOK
  <2>1. 0 \in ids
    BY <1>1
  <2>2. INVALID_ID \in IdOrInvalid /\ Null \in Objects \cup {Null}
    BY DEF IdOrInvalid
  <2>3. Count \in 0 .. MaxSize /\ Ids = 0 .. Count - 1
    BY <1>1, <1>3, <1>4
  <2> HIDE DEF ids, IdOrInvalid
  <2>4. QED
    BY <1>2, <1>3, <2>1, <2>2, <2>3 DEF TypeOK
<1>6. \A i \in Ids : ~Find(i)
  BY <1>2, <1>3 DEF Find
<1>7. Unlinked
  BY <1>2, <1>3 DEF Unlinked
<1>8. Live = {}
  BY <1>6 DEF Live
<1>9. FreeSeq = [k \in 1 .. AllocNum |-> 0 + k - 1]
  <2>1. FreeSeq = RingSeq(indexs, 0 + AllocNum, 0, 0)
    BY <1>1, <1>2, <1>4, FreeIsRing
  <2>2. \A i \in 0 .. 0 + AllocNum - 1 : indexs[i] = i
    BY <1>1, <1>2
  <2>3. 0 \in Nat
    OBVIOUS
  <2> HIDE DEF ids
  <2>4. QED
    BY <1>1, <2>1, <2>2, <2>3, RingNew
<1>10. FreeExact
  <2>1. IsInjective(FreeSeq) /\ Range(FreeSeq) = 0 .. 0 + AllocNum - 1
    BY <1>1, <1>9, SuccessiveFacts
  <2>2. {i \in Ids : ~Find(i)} = 0 .. 0 + AllocNum - 1
    BY <1>1, <1>3, <1>6
  <2>3. QED
    BY <2>1, <2>2 DEF FreeExact
<1>11. Linked(<<>>)
  BY <1>2, <1>5, <1>8, NoneLinked
<1>12. Visited = <<>>
  BY <1>5, <1>11, VisitedIs
<1>13. QED
  BY <1>4, <1>5, <1>7, <1>8, <1>9, <1>10, <1>11, <1>12 DEF IndInv

\* After each operation the list it leaves is the one the loop visits.
LEMMA ListIsVisited ==
  ASSUME NEW t, TypeOK', FreeExact', Unlinked', Linked(t)'
  PROVE  IndInv' /\ Visited' = t
<1>1. (\A s : TypeOK /\ Linked(s) => Visited = s)'
  BY VisitedIs, PTL
<1>2. Visited' = t
  BY <1>1
<1>3. Linked(Visited)'
  BY <1>2 DEF Linked
<1>4. QED
  BY <1>2, <1>3 DEF IndInv

LEMMA InsertStep ==
  ASSUME IndInv, NEW o \in Objects, Insert(o)
  PROVE  /\ IndInv' /\ FreeSeq # <<>> /\ Head(FreeSeq) \in Ids
         /\ Inserted(o, Head(FreeSeq)) /\ Visited' = Append(Visited, Head(FreeSeq))
<1>1. TypeOK /\ FreeExact /\ Unlinked /\ Linked(Visited)
  BY DEF IndInv
<1>2. /\ FreeSeq # <<>> /\ Head(FreeSeq) \in Ids /\ ~Find(Head(FreeSeq))
      /\ Inserted(o, Head(FreeSeq))
  BY <1>1, InsertFacts
<1>3. PICK id \in Ids : id = Head(FreeSeq)
  BY <1>2
<1>4. PICK s : s = Visited
  OBVIOUS
<1>5. TypeOK' /\ FreeExact'
  BY <1>1, <1>2, InsertType, InsertFree
<1>6. Unlinked' /\ Linked(Append(s, id))'
  <2>1. Linked(s) /\ ~Find(id) /\ Inserted(o, id)
    BY <1>1, <1>2, <1>3, <1>4
  <2>2. QED
    BY <1>1, <2>1, InsertList
<1>7. IndInv' /\ Visited' = Append(s, id)
  BY <1>5, <1>6, ListIsVisited
<1>8. QED
  BY <1>2, <1>3, <1>4, <1>7

LEMMA EraseStep ==
  ASSUME IndInv, NEW id \in Ids, Erase(id)
  PROVE  /\ IndInv' /\ Find(id) /\ Erased(id)
         /\ \E k \in DOMAIN Visited : Visited' = RemoveAt(Visited, k)
<1>1. TypeOK /\ FreeExact /\ Unlinked /\ Linked(Visited)
  BY DEF IndInv
<1>2. PICK s : s = Visited
  OBVIOUS
<1>3. Linked(s)
  BY <1>1, <1>2
<1>4. Find(id) /\ Erased(id)
  BY <1>1, <1>3, EraseFacts
<1>5. TypeOK' /\ FreeExact'
  BY <1>1, <1>4, EraseType, EraseFree
<1>6. Unlinked' /\ \E k \in 1 .. Len(s) : Linked(RemoveAt(s, k))'
  BY <1>1, <1>3, <1>4, EraseList
<1>7. PICK k \in 1 .. Len(s) : Linked(RemoveAt(s, k))'
  BY <1>6
<1>8. IndInv' /\ Visited' = RemoveAt(s, k)
  BY <1>5, <1>6, <1>7, ListIsVisited
<1>9. DOMAIN s = 1 .. Len(s)
  BY <1>3 DEF Linked
<1>10. QED
  BY <1>2, <1>4, <1>8, <1>9

LEMMA ClearStep ==
  ASSUME IndInv, Clear
  PROVE  /\ IndInv' /\ Ids' = {} /\ Live' = {} /\ Count' = 0 /\ FreeSeq' = <<>>
         /\ Visited' = <<>>
<1>1. /\ obj' = <<>> /\ prev' = <<>> /\ next' = <<>> /\ indexs' = <<>> /\ head' = 0 /\ tail' = 0
      /\ head_id' = INVALID_ID /\ tail_id' = INVALID_ID
  BY DEF Clear
<1>2. Ids' = {} /\ INVALID_ID' = INVALID_ID
  BY <1>1 DEF Ids, INVALID_ID
<1>3. Count' = 0
  BY <1>2, FS_EmptySet DEF Count
<1>4. TypeOK'
  <2>1. \A S : <<>> \in [{} -> S]
    OBVIOUS
  <2>2. IdOrInvalid' = {INVALID_ID}
    BY <1>2 DEF IdOrInvalid
  <2>3. Count' \in 0 .. MaxSize /\ Ids' = 0 .. Count' - 1
    BY <1>2, <1>3, MaxSizeAssumption
  <2>4. QED
    BY <1>1, <1>2, <2>1, <2>2, <2>3 DEF TypeOK
<1>5. Live' = {} /\ Unlinked'
  BY <1>2 DEF Live, Unlinked
<1>6. FreeSeq' = <<>>
  <2>1. (TypeOK /\ Ids = {} => FreeSeq = <<>>)'
    BY FreeOfNone, PTL
  <2>2. QED
    BY <1>2, <1>4, <2>1
<1>7. FreeExact'
  BY <1>2, <1>6, EmptyFacts DEF FreeExact
<1>8. Linked(<<>>)'
  <2>1. (TypeOK /\ Live = {} /\ head_id = INVALID_ID /\ tail_id = INVALID_ID => Linked(<<>>))'
    BY NoneLinked, PTL
  <2>2. QED
    BY <1>1, <1>2, <1>4, <1>5, <2>1
<1>9. IndInv' /\ Visited' = <<>>
  BY <1>4, <1>5, <1>7, <1>8, ListIsVisited
<1>10. QED
  BY <1>2, <1>3, <1>5, <1>6, <1>9

LEMMA NextIndInv == IndInv /\ [Next]_vars => IndInv'
<1> SUFFICES ASSUME IndInv, [Next]_vars PROVE IndInv'
  OBVIOUS
<1>1. CASE \E o \in Objects : Insert(o)
  BY <1>1, InsertStep
<1>2. CASE \E id \in Ids : Erase(id)
  BY <1>2, EraseStep
<1>3. CASE Clear
  BY <1>3, ClearStep
<1>4. CASE UNCHANGED vars
  <2>1. /\ Ids' = Ids /\ Count' = Count /\ IdOrInvalid' = IdOrInvalid /\ FreeSeq' = FreeSeq
        /\ Live' = Live /\ Visited' = Visited
    BY <1>4 DEF vars, Ids, Count, IdOrInvalid, INVALID_ID, FreeSeq, FreeCount, Live, Find,
                Visited, Stop, Cursor
  <2>2. TypeOK'
    BY <1>4, <2>1 DEF IndInv, TypeOK, vars
  <2>3. \A i \in Ids : Find(i)' <=> Find(i)
    BY <1>4, <2>1 DEF Find, vars
  <2>4. FreeExact' /\ Unlinked'
    BY <1>4, <2>1, <2>3 DEF IndInv, FreeExact, Unlinked, INVALID_ID, vars
  <2>5. Linked(Visited)'
    BY <1>4, <2>1 DEF IndInv, Linked, INVALID_ID, vars
  <2>6. QED
    BY <2>2, <2>4, <2>5 DEF IndInv
<1>5. QED
  BY <1>1, <1>2, <1>3, <1>4 DEF Next

\* The list a loop follows is the one the links make.
LEMMA LinkedIsExact == IndInv => ListExact
<1> SUFFICES ASSUME IndInv PROVE ListExact
  OBVIOUS
<1>1. Linked(Visited)
  BY DEF IndInv
<1>2. PICK s : s = Visited
  OBVIOUS
<1>3. /\ s \in Seq(Ids) /\ IsInjective(s) /\ Range(s) = {i \in Ids : Find(i)}
      /\ tail_id = IF s = <<>> THEN INVALID_ID ELSE s[Len(s)]
      /\ \A k \in 1 .. Len(s) : prev[s[k]] = IF k = 1 THEN INVALID_ID ELSE s[k - 1]
  BY <1>1, <1>2 DEF Linked, Live
<1>4. s = <<>> <=> Len(s) = 0
  BY <1>3, EmptySeq, EmptyFacts
<1>5. QED
  BY <1>2, <1>3, <1>4 DEF ListExact

------------------------------------------------------------------------------
(***************************************************************************)
(* The table as IdTable sees it.                                           *)
(***************************************************************************)
Table == [i \in Live |-> obj[i]]

LEMMA TableInsert ==
  ASSUME IndInv, NEW o \in Objects, Insert(o)
  PROVE  Abstract!Insert(o)
<1>1. PICK id \in Ids : id = Head(FreeSeq)
  BY InsertStep
<1>2. TypeOK /\ FreeSeq # <<>> /\ Inserted(o, id)
  BY <1>1, InsertStep DEF IndInv
<1>3. Live' = Live \cup {id}
  BY <1>2, InsertLive
<1>4. \A i \in Live' : obj'[i] = IF i = id THEN o ELSE obj[i]
  BY <1>2, <1>3 DEF Inserted, Live
<1>5. Table' = [i \in Live \cup {id} |-> IF i = id THEN o ELSE Table[i]]
  <2>1. Table' = [i \in Live' |-> obj'[i]]
    BY DEF Table
  <2>2. \A i \in Live : Table[i] = obj[i]
    BY DEF Table
  <2> HIDE DEF Live, Table
  <2>3. QED
    BY <1>3, <1>4, <2>1, <2>2
<1>6. DOMAIN Table = Live
  BY DEF Table
<1>7. IF Len(FreeSeq) = 1
      THEN FreeSeq' = [k \in 1 .. AllocNum |-> Count + k - 1] /\ Count' = Count + AllocNum
      ELSE FreeSeq' = Tail(FreeSeq) /\ Count' = Count
  BY <1>2 DEF Inserted
<1>8. Table = [i \in {j \in Ids : Find(j)} |-> obj[i]]
  BY DEF Table, Live
<1>9. Table' = [i \in {j \in Ids : Find(j)} |-> obj[i]]'
  BY DEF Table, Live
<1>10. QED
  <2> HIDE DEF Table, Count, FreeSeq
  <2> QED
    BY <1>1, <1>2, <1>5, <1>6, <1>7, <1>8, <1>9 DEF Abstract!Insert, Abstract!NewIds

LEMMA TableErase ==
  ASSUME IndInv, NEW id \in Ids, Erase(id)
  PROVE  Abstract!Erase(id)
<1>1. TypeOK /\ Find(id) /\ Erased(id)
  BY EraseStep DEF IndInv
<1>2. Live' = Live \ {id} /\ id \in Live
  BY <1>1, EraseLive DEF Live
<1>3. \A i \in Live' : obj'[i] = obj[i]
  BY <1>1, <1>2 DEF Erased, Live
<1>4. DOMAIN Table = Live /\ \A i \in Live : Table[i] = obj[i]
  BY DEF Table
<1>5. Table' = [i \in Live \ {id} |-> Table[i]]
  <2>1. Table' = [i \in Live' |-> obj'[i]]
    BY DEF Table
  <2> HIDE DEF Live, Table
  <2>2. QED
    BY <1>2, <1>3, <1>4, <2>1
<1>6. FreeSeq' = Append(FreeSeq, id) /\ Count' = Count
  BY <1>1 DEF Erased
<1>7. Table = [i \in {j \in Ids : Find(j)} |-> obj[i]]
  BY DEF Table, Live
<1>8. Table' = [i \in {j \in Ids : Find(j)} |-> obj[i]]'
  BY DEF Table, Live
<1>9. QED
  <2> HIDE DEF Table, Count, FreeSeq, Live
  <2> QED
    BY <1>2, <1>4, <1>5, <1>6, <1>7, <1>8 DEF Abstract!Erase, Abstract!Restrict

LEMMA TableClear ==
  ASSUME IndInv, Clear
  PROVE  Abstract!Clear
<1>1. Live' = {} /\ Count' = 0 /\ FreeSeq' = <<>>
  BY ClearStep
<1>2. Table' = <<>>
  BY <1>1, EmptyFacts DEF Table
<1>3. Table' = [i \in {j \in Ids : Find(j)} |-> obj[i]]'
  BY DEF Table, Live
<1>4. QED
  BY <1>1, <1>2, <1>3 DEF Abstract!Clear

LEMMA TableInit == Init => Abstract!Init
<1> SUFFICES ASSUME Init PROVE Abstract!Init
  OBVIOUS
<1>1. Count = AllocNum /\ Live = {} /\ FreeSeq = [k \in 1 .. AllocNum |-> 0 + k - 1]
  BY InitFacts
<1>2. [i \in {j \in Ids : Find(j)} |-> obj[i]] = <<>>
  BY <1>1 DEF Live
<1>3. QED
  <2> HIDE DEF Count, FreeSeq, Ids
  <2> QED
    BY <1>1, <1>2 DEF Abstract!Init, Abstract!NewIds

------------------------------------------------------------------------------
(***************************************************************************)
(* The theorems.                                                           *)
(***************************************************************************)
LEMMA InitIndInv == Init => IndInv
BY InitFacts

\* The links, the ring and the ids stay as IndInv says, whatever is inserted,
\* erased or cleared (object_map.hpp, all of ObjectMap).
THEOREM IndInvHolds == Spec => []IndInv
BY InitIndInv, NextIndInv, PTL DEF Spec

\* Every index the table reads or writes is inside its vectors, as long as
\* nothing is inserted after Clear (which Insert's guard leaves out).
THEOREM TypeCorrect == Spec => []TypeOK
<1>1. IndInv => TypeOK
  BY DEF IndInv
<1>2. QED
  BY <1>1, IndInvHolds, PTL

\* Each id is in the ring of free ids once or live: none is lost and none is
\* handed out twice, through every growth of the ring and every wrap of it.
THEOREM FreeIdsAreExact == Spec => []FreeExact
<1>1. IndInv => FreeExact
  BY DEF IndInv
<1>2. QED
  BY <1>1, IndInvHolds, PTL

\* A loop over the table visits every live id once and stops, and the prev
\* links run through the same list backwards.
THEOREM ListIsExact == Spec => []ListExact
BY LinkedIsExact, IndInvHolds, PTL

\* Insert adds at the end of what a loop visits, Erase takes one id out, and
\* nothing else moves.
THEOREM OrderIsKept == Spec => OrderKept
<1> DEFINE Kept == \/ Visited' = Visited
                   \/ \E id \in Ids : Visited' = Append(Visited, id)
                   \/ \E k \in DOMAIN Visited : Visited' = RemoveAt(Visited, k)
                   \/ Visited' = <<>>
<1>1. IndInv /\ [Next]_vars => [Kept]_vars
  <2> SUFFICES ASSUME IndInv, Next PROVE Kept
    OBVIOUS
  <2>1. CASE \E o \in Objects : Insert(o)
    BY <2>1, InsertStep
  <2>2. CASE \E id \in Ids : Erase(id)
    BY <2>2, EraseStep
  <2>3. CASE Clear
    BY <2>3, ClearStep
  <2>4. QED
    BY <2>1, <2>2, <2>3 DEF Next
<1> HIDE DEF Kept
<1>2. Spec => [][Kept]_vars
  BY <1>1, IndInvHolds, PTL DEF Spec
<1>3. QED
  BY <1>2 DEF OrderKept, Kept

\* The ring and the list implement IdTable: a freed id is handed out again only
\* after every id that was free when it was freed.
THEOREM TableIsIdTable == Spec => ImplementsIdTable
<1>1. IndInv /\ [Next]_vars => [Abstract!Next]_(Abstract!vars)
  <2> SUFFICES ASSUME IndInv, [Next]_vars PROVE [Abstract!Next]_(Abstract!vars)
    OBVIOUS
  <2>1. CASE \E o \in Objects : Insert(o)
    BY <2>1, TableInsert DEF Abstract!Next
  <2>2. CASE \E id \in Ids : Erase(id)
    <3>1. PICK id \in Ids : Erase(id)
      BY <2>2
    <3>2. Abstract!Erase(id)
      BY <3>1, TableErase
    <3>3. id \in DOMAIN [i \in {j \in Ids : Find(j)} |-> obj[i]]
      BY <3>2 DEF Abstract!Erase
    <3>4. QED
      BY <3>2, <3>3 DEF Abstract!Next
  <2>3. CASE Clear
    BY <2>3, TableClear DEF Abstract!Next
  <2>4. CASE UNCHANGED vars
    BY <2>4 DEF vars, Abstract!vars, Ids, Count, Find, FreeSeq, FreeCount
  <2>5. QED
    BY <2>1, <2>2, <2>3, <2>4 DEF Next
<1>2. QED
  BY <1>1, TableInit, IndInvHolds, PTL DEF Spec, ImplementsIdTable, Abstract!Spec
==============================================================================
