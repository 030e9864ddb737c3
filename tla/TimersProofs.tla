---------------------------- MODULE TimersProofs ----------------------------
(***************************************************************************)
(* Theorems about Timers for every allocation size and every bound.        *)
(***************************************************************************)
EXTENDS Timers, SequenceLemmas

(***************************************************************************)
(* Ways.  A function next leads from i over all of its domain to d, and    *)
(* out of it from there.                                                   *)
(***************************************************************************)
Way(next, i, d) ==
  LET P == DOMAIN next
  IN /\ i \in P /\ d \in P /\ next[d] \notin P
     /\ \A j \in P \ {d} : next[j] \in P \ {i}
     /\ \A j \in P \ {i} : \E k \in P \ {d} : next[k] = j
     /\ \A j, k \in P \ {d} : next[j] = next[k] => j = k

\* f[i] is where one comes from i by following nx, as long as it leads on from
\* places in go.
Follows(f, D, nx, go) == f = [j \in D |-> {j} \cup IF j \in go THEN f[nx[j]] ELSE {}]

\* The rank of a place falls on the way, ...
Falls(D, n, rank, nx, go) ==
  /\ rank \in [D -> 1 .. n] /\ go \subseteq D
  /\ \A j \in D : nx[j] \in D => rank[nx[j]] < rank[j]
  /\ \A j \in go : nx[j] \in D

\* ... so that there is such a function, ...
LEMMA FollowsExists ==
  ASSUME NEW D, NEW n \in Nat, NEW rank, NEW nx, NEW go, Falls(D, n, rank, nx, go)
  PROVE  \E f : Follows(f, D, nx, go)
<1> DEFINE Low(k) == {j \in D : rank[j] < k}
           OK(k) == \E f : f = [j \in Low(k) |-> {j} \cup IF j \in go THEN f[nx[j]] ELSE {}]
           T == {k \in 1 .. n + 1 : OK(k)}
<1>1. /\ \A j \in D : rank[j] \in Nat /\ rank[j] >= 1 /\ rank[j] <= n
      /\ \A j \in go : j \in D /\ nx[j] \in D /\ rank[nx[j]] < rank[j]
  BY DEF Falls
<1>2. 1 \in T
  <2>1. Low(1) = {}
    BY <1>1
  <2> DEFINE f == [j \in Low(1) |-> {}]
  <2>2. f = [j \in Low(1) |-> {j} \cup IF j \in go THEN f[nx[j]] ELSE {}]
    BY <2>1
  <2>3. OK(1)
    BY <2>2
  <2>4. QED
    BY <2>3
<1>3. ASSUME NEW k \in 1 .. n, k \in T PROVE k + 1 \in T
  <2>1. PICK f : f = [j \in Low(k) |-> {j} \cup IF j \in go THEN f[nx[j]] ELSE {}]
    BY <1>3
  <2> DEFINE g == [j \in Low(k + 1) |-> {j} \cup IF j \in go THEN f[nx[j]] ELSE {}]
  <2>2. \A j \in Low(k) : j \in Low(k + 1) /\ g[j] = f[j]
    <3>1. \A j \in Low(k) : f[j] = {j} \cup IF j \in go THEN f[nx[j]] ELSE {}
      BY <2>1
    <3>2. \A j \in Low(k) : j \in Low(k + 1)
      BY <1>1
    <3>3. QED
      BY <3>1, <3>2
  <2>3. \A j \in Low(k + 1) : j \in go => nx[j] \in Low(k)
    BY <1>1
  <2>4. \A j \in Low(k + 1) : g[j] = {j} \cup IF j \in go THEN g[nx[j]] ELSE {}
    <3>1. \A j \in Low(k + 1) : g[j] = {j} \cup IF j \in go THEN f[nx[j]] ELSE {}
      OBVIOUS
    <3> HIDE DEF Low, g
    <3>2. QED
      BY <2>2, <2>3, <3>1
  <2>5. g = [j \in Low(k + 1) |-> {j} \cup IF j \in go THEN g[nx[j]] ELSE {}]
    <3> DEFINE g2 == [j \in Low(k + 1) |-> {j} \cup IF j \in go THEN g[nx[j]] ELSE {}]
    <3>1. \A j \in Low(k + 1) : g2[j] = g[j]
      BY <2>4
    <3>2. g = [j \in Low(k + 1) |-> g[j]] /\ g2 = [j \in Low(k + 1) |-> g2[j]]
      OBVIOUS
    <3>3. g = g2
      <4> HIDE DEF g, g2, Low
      <4> QED
        BY <3>1, <3>2
    <3>4. QED
      BY <3>3
  <2>6. OK(k + 1)
    <3> HIDE DEF g
    <3> QED
      BY <2>5
  <2>7. k + 1 \in 1 .. n + 1
    OBVIOUS
  <2> HIDE DEF OK
  <2>8. QED
    BY <2>6, <2>7
<1>4. n + 1 \in T
  <2> HIDE DEF T
  <2>1. \A k \in 1 .. (n + 1) - 1 : k \in T => k + 1 \in T
    BY <1>3
  <2>2. 1 .. n + 1 \subseteq T
    BY <1>2, <2>1, IntervalInduction
  <2>3. QED
    BY <2>2
<1>5. Low(n + 1) = D
  BY <1>1
<1>6. QED
  BY <1>4, <1>5 DEF Follows

\* ... and the places one comes through are a way.
Along(P, nx) == [j \in P |-> nx[j]]
Leads(P, D, nx, go, i) ==
  \E d : /\ Way(Along(P, nx), i, d)
         /\ P \subseteq D /\ d \notin go /\ P \ {d} \subseteq go

LEMMA FollowedIsWay ==
  ASSUME NEW D, NEW n \in Nat, NEW rank, NEW nx, NEW go, Falls(D, n, rank, nx, go),
         NEW f, Follows(f, D, nx, go), NEW i \in D
  PROVE  Leads(f[i], D, nx, go, i)
<1> DEFINE Chain(j, d) ==
             /\ f[j] \subseteq D /\ j \in f[j] /\ d \in f[j] /\ d \notin go
             /\ \A k \in f[j] : rank[d] <= rank[k] /\ rank[k] <= rank[j]
             /\ \A k \in f[j] \ {d} : k \in go /\ nx[k] \in f[j] \ {j}
             /\ \A k \in f[j] \ {j} : \E l \in f[j] \ {d} : nx[l] = k
             /\ \A k, l \in f[j] \ {d} : nx[k] = nx[l] => k = l
           Good(j) == \E d : Chain(j, d)
           Bad == {rank[j] : j \in {k \in D : ~Good(k)}}
<1>1. /\ \A j \in D : rank[j] \in Nat /\ rank[j] >= 1 /\ rank[j] <= n
      /\ \A j \in D : nx[j] \in D => rank[nx[j]] < rank[j]
      /\ \A j \in go : j \in D /\ nx[j] \in D
  BY DEF Falls
<1>2. \A j \in D : f[j] = {j} \cup IF j \in go THEN f[nx[j]] ELSE {}
  BY DEF Follows
<1>3. ASSUME NEW j \in D, j \notin go PROVE Good(j)
  <2>1. f[j] = {j}
    BY <1>2, <1>3
  <2>2. rank[j] <= rank[j]
    BY <1>1
  <2>3. Chain(j, j)
    BY <1>3, <2>1, <2>2
  <2>4. QED
    BY <2>3
<1>4. ASSUME NEW j \in go, Good(nx[j]) PROVE Good(j)
  <2> DEFINE p == nx[j]
  <2>1. j \in D /\ p \in D /\ rank[p] < rank[j] /\ f[j] = {j} \cup f[p]
    BY <1>1, <1>2, <1>4
  <2>2. PICK d : Chain(p, d)
    BY <1>4
  <2> HIDE DEF p
  <2>3. /\ f[p] \subseteq D /\ p \in f[p] /\ d \in f[p] /\ d \notin go
        /\ \A k \in f[p] : rank[d] <= rank[k] /\ rank[k] <= rank[p]
        /\ \A k \in f[p] \ {d} : k \in go /\ nx[k] \in f[p] \ {p}
        /\ \A k \in f[p] \ {p} : \E l \in f[p] \ {d} : nx[l] = k
        /\ \A k, l \in f[p] \ {d} : nx[k] = nx[l] => k = l
    BY <2>2
  <2>4. j \notin f[p] /\ j # d /\ nx[j] = p
    <3>1. \A k \in f[p] : rank[k] <= rank[p] /\ rank[k] \in Nat
      BY <1>1, <2>3
    <3>2. rank[p] \in Nat /\ rank[j] \in Nat
      BY <1>1, <2>1
    <3>3. j \notin f[p]
      BY <2>1, <3>1, <3>2
    <3>4. QED
      BY <2>3, <3>3 DEF p
  <2>5. \A k \in f[j] : rank[d] <= rank[k] /\ rank[k] <= rank[j]
    <3>1. \A k \in f[p] : rank[k] \in Nat
      BY <1>1, <2>3
    <3>2. rank[j] \in Nat /\ rank[d] \in Nat /\ rank[p] \in Nat
      BY <1>1, <2>1, <2>3
    <3>3. QED
      BY <2>1, <2>3, <3>1, <3>2
  <2>6. \A k \in f[j] \ {d} : k \in go /\ nx[k] \in f[j] \ {j}
    BY <1>4, <2>1, <2>3, <2>4
  <2>7. \A k \in f[j] \ {j} : \E l \in f[j] \ {d} : nx[l] = k
    BY <2>1, <2>3, <2>4
  <2>8. \A k, l \in f[j] \ {d} : nx[k] = nx[l] => k = l
    BY <2>1, <2>3, <2>4
  <2>9. Chain(j, d)
    BY <2>1, <2>3, <2>5, <2>6, <2>7, <2>8
  <2>10. QED
    BY <2>9
<1>5. Good(i)
  <2>1. SUFFICES ASSUME ~Good(i) PROVE FALSE
    OBVIOUS
  <2> HIDE DEF Good
  <2>2. Bad \subseteq Nat /\ Bad # {}
    BY <1>1, <2>1
  <2>3. PICK x \in Bad : \A y \in Bad : x <= y
    <3> HIDE DEF Bad
    <3> QED
      BY <2>2, LeastNat
  <2>4. PICK j \in D : ~Good(j) /\ rank[j] = x
    BY <2>3
  <2>5. j \in go /\ nx[j] \in D /\ rank[nx[j]] < rank[j] /\ ~Good(nx[j])
    BY <1>1, <1>3, <1>4, <2>4
  <2>6. rank[nx[j]] \in Bad /\ rank[nx[j]] \in Nat /\ rank[j] \in Nat
    BY <1>1, <2>5
  <2>7. QED
    BY <2>3, <2>4, <2>5, <2>6
<1>6. PICK d : Chain(i, d)
  BY <1>5
<1>7. /\ f[i] \subseteq D /\ i \in f[i] /\ d \in f[i] /\ d \notin go
      /\ \A k \in f[i] : rank[d] <= rank[k] /\ rank[k] <= rank[i]
      /\ \A k \in f[i] \ {d} : k \in go /\ nx[k] \in f[i] \ {i}
      /\ \A k \in f[i] \ {i} : \E l \in f[i] \ {d} : nx[l] = k
      /\ \A k, l \in f[i] \ {d} : nx[k] = nx[l] => k = l
  BY <1>6
<1> DEFINE next == Along(f[i], nx)
<1>8. nx[d] \notin f[i]
  <2>1. SUFFICES ASSUME nx[d] \in f[i] PROVE FALSE
    OBVIOUS
  <2>2. d \in D /\ nx[d] \in D /\ rank[d] <= rank[nx[d]] /\ rank[nx[d]] < rank[d]
    BY <1>1, <1>7, <2>1
  <2>3. QED
    BY <1>1, <2>2
<1>9. DOMAIN next = f[i] /\ \A j \in f[i] : next[j] = nx[j]
  BY DEF Along
<1>10. Way(next, i, d)
  <2> HIDE DEF next
  <2> QED
    BY <1>7, <1>8, <1>9 DEF Way
<1>11. QED
  BY <1>7, <1>10 DEF Leads

------------------------------------------------------------------------------
(***************************************************************************)
(* A shift changes the places of the nodes, and nothing else.              *)
(***************************************************************************)
\* from[j] is the place from which the node at j has come.
Permutes(from, D) ==
  /\ from \in [D -> D]
  /\ \A j, k \in D : from[j] = from[k] => j = k
  /\ \A j \in D : \E k \in D : from[k] = j

LEMMA ShiftPermutes ==
  ASSUME NEW h, NEW next, NEW i, NEW d, Way(next, i, d), DOMAIN next \subseteq DOMAIN h
  PROVE  \E from : /\ Permutes(from, DOMAIN h)
                   /\ Shifted(h, i, next) = [j \in DOMAIN h |-> h[from[j]]]
                   /\ \A j \in DOMAIN h : j \notin DOMAIN next => from[j] = j
                   /\ from[d] = i /\ \A j \in DOMAIN next \ {d} : from[j] = next[j]
<1> DEFINE D == DOMAIN h
           P == DOMAIN next
           from == [j \in D |-> IF j \notin P THEN j ELSE IF j = d THEN i ELSE next[j]]
<1>1. /\ i \in P /\ d \in P /\ next[d] \notin P
      /\ \A j \in P \ {d} : next[j] \in P \ {i}
      /\ \A j \in P \ {i} : \E k \in P \ {d} : next[k] = j
      /\ \A j, k \in P \ {d} : next[j] = next[k] => j = k
  BY DEF Way
<1>2. P \subseteq D
  OBVIOUS
<1>3. /\ \A j \in D : j \notin P => from[j] = j
      /\ from[d] = i /\ \A j \in P \ {d} : from[j] = next[j]
      /\ DOMAIN from = D /\ from = [j \in D |-> from[j]]
  BY <1>1, <1>2
<1> HIDE DEF from
<1>4. Permutes(from, D)
  <2>1. \A j \in D : from[j] \in D
    BY <1>1, <1>2, <1>3
  <2>2. from \in [D -> D]
    BY <1>3, <2>1
  <2>3. ASSUME NEW j \in D, NEW k \in D, from[j] = from[k] PROVE j = k
    <3>1. CASE j \notin P \/ k \notin P
      BY <1>1, <1>3, <2>3, <3>1
    <3>2. CASE j \in P /\ k \in P
      <4>1. \A l \in P : l # d => from[l] = next[l] /\ from[l] # i
        BY <1>1, <1>3
      <4>2. CASE j = d \/ k = d
        BY <1>3, <2>3, <3>2, <4>1, <4>2
      <4>3. CASE j # d /\ k # d
        BY <1>1, <2>3, <3>2, <4>1, <4>3
      <4>4. QED
        BY <4>2, <4>3
    <3>3. QED
      BY <3>1, <3>2
  <2>4. ASSUME NEW j \in D PROVE \E k \in D : from[k] = j
    <3>1. CASE j \notin P
      BY <1>3, <3>1
    <3>2. CASE j = i
      BY <1>1, <1>2, <1>3, <3>2
    <3>3. CASE j \in P \ {i}
      <4>1. PICK k \in P \ {d} : next[k] = j
        BY <1>1, <3>3
      <4>2. k \in D /\ from[k] = j
        BY <1>2, <1>3, <4>1
      <4>3. QED
        BY <4>2
    <3>4. QED
      BY <3>1, <3>2, <3>3
  <2>5. QED
    BY <2>2, <2>3, <2>4, Zenon DEF Permutes
<1>5. Shifted(h, i, next) = [j \in D |-> h[from[j]]]
  <2>1. Shifted(h, i, next) = [j \in D |-> IF j \notin P THEN h[j]
                                          ELSE IF next[j] \in P THEN h[next[j]] ELSE h[i]]
    BY DEF Shifted
  <2>2. \A j \in D : (IF j \notin P THEN h[j] ELSE IF next[j] \in P THEN h[next[j]] ELSE h[i])
                       = h[from[j]]
    BY <1>1, <1>3
  <2>3. QED
    BY <2>1, <2>2
<1>6. QED
  BY <1>3, <1>4, <1>5

------------------------------------------------------------------------------
(***************************************************************************)
(* The two ways of the heap.                                               *)
(***************************************************************************)
LEMMA PlacesOfHeap ==
  /\ \A j \in Nat \ {0} : Parent(j) \in Nat /\ Parent(j) < j /\ (j = Child(Parent(j)) \/ j = Child(Parent(j)) + 1)
  /\ Parent(0) \notin Nat
  /\ \A j \in Nat : /\ Child(j) \in Nat /\ Child(j) > j
                    /\ Parent(Child(j)) = j /\ Parent(Child(j) + 1) = j
<1>1. \A j \in Nat \ {0} : Parent(j) \in Nat /\ Parent(j) < j /\ (j = Child(Parent(j)) \/ j = Child(Parent(j)) + 1)
  BY DEF Parent, Child
<1>2. Parent(0) \notin Nat
  <2>1. ASSUME NEW x \in Int, x < 0 PROVE x \div 2 \notin Nat
    BY <2>1
  <2>2. 0 - 1 \in Int /\ 0 - 1 < 0
    OBVIOUS
  <2>3. (0 - 1) \div 2 \notin Nat
    BY <2>1, <2>2
  <2>4. QED
    BY <2>3 DEF Parent
<1>3. ASSUME NEW j \in Nat
      PROVE  /\ Child(j) \in Nat /\ Child(j) > j
             /\ Parent(Child(j)) = j /\ Parent(Child(j) + 1) = j
  BY DEF Parent, Child
<1>4. QED
  BY <1>1, <1>2, <1>3

LEMMA WayUpIs ==
  ASSUME NEW h, NEW i \in Nat
  PROVE  LET P == WayUp(h, i)
         IN  /\ P \subseteq 0 .. i
             /\ \E d : /\ Way([j \in P |-> Parent(j)], i, d)
                       /\ d = 0 \/ ~Before(h[i], h[Parent(d)])
                       /\ \A j \in P \ {d} : j > 0 /\ Before(h[i], h[Parent(j)])
<1> DEFINE D == 0 .. i
           Up(f) == f = [j \in D |-> {j} \cup IF j > 0 /\ Before(h[i], h[Parent(j)])
                                             THEN f[Parent(j)] ELSE {}]
           go == {j \in D : j > 0 /\ Before(h[i], h[Parent(j)])}
           rank == [j \in D |-> j + 1]
           nx == [j \in D |-> Parent(j)]
<1>1. Falls(D, i + 1, rank, nx, go)
  <2>1. rank \in [D -> 1 .. i + 1] /\ go \subseteq D
    OBVIOUS
  <2>2. ASSUME NEW j \in D, nx[j] \in D PROVE rank[nx[j]] < rank[j]
    BY <2>2, PlacesOfHeap
  <2>3. ASSUME NEW j \in go PROVE nx[j] \in D
    BY PlacesOfHeap
  <2>4. QED
    BY <2>1, <2>2, <2>3 DEF Falls
<1>2. ASSUME NEW f PROVE Up(f) <=> Follows(f, D, nx, go)
  <2>1. [j \in D |-> {j} \cup IF j > 0 /\ Before(h[i], h[Parent(j)]) THEN f[Parent(j)] ELSE {}]
          = [j \in D |-> {j} \cup IF j \in go THEN f[nx[j]] ELSE {}]
    OBVIOUS
  <2>2. QED
    BY <2>1 DEF Follows
<1> DEFINE g == CHOOSE f : Up(f)
<1>3. Up(g)
  <2>1. i + 1 \in Nat
    OBVIOUS
  <2>2. \E f : Follows(f, D, nx, go)
    <3> HIDE DEF D, nx, go, rank
    <3> QED
      BY <1>1, <2>1, FollowsExists
  <2>3. \E f : Up(f)
    <3> HIDE DEF Up, D, nx, go
    <3> QED
      BY <1>2, <2>2
  <2> HIDE DEF Up
  <2>4. QED
    BY <2>3
<1>4. WayUp(h, i) = g[i]
  BY DEF WayUp
<1>5. Follows(g, D, nx, go)
  BY <1>2, <1>3
<1>6. i \in D /\ i + 1 \in Nat
  OBVIOUS
<1> HIDE DEF g
<1>7. PICK d : /\ Way(Along(g[i], nx), i, d)
               /\ g[i] \subseteq D /\ d \notin go /\ g[i] \ {d} \subseteq go
  <2>1. Leads(g[i], D, nx, go, i)
    <3> HIDE DEF D, nx, go, rank
    <3> QED
      BY <1>1, <1>5, <1>6, FollowedIsWay
  <2>2. QED
    BY <2>1 DEF Leads
<1>8. Along(g[i], nx) = [j \in g[i] |-> Parent(j)]
  BY <1>7 DEF Along
<1>9. d \in D
  BY <1>7 DEF Way, Along
<1>10. d = 0 \/ ~Before(h[i], h[Parent(d)])
  BY <1>7, <1>9
<1>11. \A j \in g[i] \ {d} : j > 0 /\ Before(h[i], h[Parent(j)])
  BY <1>7
<1>12. QED
  BY <1>4, <1>7, <1>8, <1>10, <1>11

LEMMA LesserChildIs ==
  ASSUME NEW h, NEW j \in Nat
  PROVE  LET c == LesserChild(h, j)
         IN  /\ c \in Nat /\ c > j /\ Parent(c) = j /\ (c = Child(j) \/ c = Child(j) + 1)
             /\ c = Child(j) + 1 => c \in DOMAIN h
BY PlacesOfHeap DEF LesserChild

LEMMA WayDownIs ==
  ASSUME NEW m \in Nat, NEW h, DOMAIN h = 0 .. m - 1, NEW i \in 0 .. m - 1
  PROVE  LET P == WayDown(h, i)
         IN  /\ P \subseteq 0 .. m - 1
             /\ \E d : /\ Way([j \in P |-> LesserChild(h, j)], i, d)
                       /\ LesserChild(h, d) \notin DOMAIN h \/ Before(h[i], h[LesserChild(h, d)])
                       /\ \A j \in P \ {d} : /\ LesserChild(h, j) \in DOMAIN h
                                             /\ ~Before(h[i], h[LesserChild(h, j)])
<1> DEFINE D == 0 .. m - 1
           Down(f) == f = [j \in D |-> {j} \cup IF LesserChild(h, j) \in D /\ ~Before(h[i], h[LesserChild(h, j)])
                                               THEN f[LesserChild(h, j)] ELSE {}]
           go == {j \in D : LesserChild(h, j) \in D /\ ~Before(h[i], h[LesserChild(h, j)])}
           rank == [j \in D |-> m - j]
           nx == [j \in D |-> LesserChild(h, j)]
<1>1. Falls(D, m, rank, nx, go)
  <2>1. rank \in [D -> 1 .. m] /\ go \subseteq D
    OBVIOUS
  <2>2. ASSUME NEW j \in D, nx[j] \in D PROVE rank[nx[j]] < rank[j]
    <3>1. nx[j] > j /\ nx[j] \in Nat
      BY LesserChildIs
    <3>2. rank[nx[j]] = m - nx[j] /\ rank[j] = m - j
      BY <2>2
    <3> HIDE DEF nx, rank
    <3>3. QED
      BY <3>1, <3>2
  <2>3. ASSUME NEW j \in go PROVE nx[j] \in D
    OBVIOUS
  <2>4. QED
    BY <2>1, <2>2, <2>3 DEF Falls
<1>2. ASSUME NEW f PROVE Down(f) <=> Follows(f, D, nx, go)
  <2>1. [j \in D |-> {j} \cup IF LesserChild(h, j) \in D /\ ~Before(h[i], h[LesserChild(h, j)])
                             THEN f[LesserChild(h, j)] ELSE {}]
          = [j \in D |-> {j} \cup IF j \in go THEN f[nx[j]] ELSE {}]
    OBVIOUS
  <2>2. QED
    BY <2>1 DEF Follows
<1> DEFINE g == CHOOSE f : Down(f)
<1>3. Down(g)
  <2>1. \E f : Follows(f, D, nx, go)
    <3> HIDE DEF D, nx, go, rank
    <3> QED
      BY <1>1, FollowsExists
  <2>2. \E f : Down(f)
    <3> HIDE DEF Down, D, nx, go
    <3> QED
      BY <1>2, <2>1
  <2> HIDE DEF Down
  <2>3. QED
    BY <2>2
<1>4. WayDown(h, i) = g[i]
  BY DEF WayDown
<1>5. Follows(g, D, nx, go)
  BY <1>2, <1>3
<1> HIDE DEF g
<1>6. PICK d : /\ Way(Along(g[i], nx), i, d)
               /\ g[i] \subseteq D /\ d \notin go /\ g[i] \ {d} \subseteq go
  <2>1. i \in D
    OBVIOUS
  <2>2. Leads(g[i], D, nx, go, i)
    <3> HIDE DEF D, nx, go, rank
    <3> QED
      BY <1>1, <1>5, <2>1, FollowedIsWay
  <2>3. QED
    BY <2>2 DEF Leads
<1>7. Along(g[i], nx) = [j \in g[i] |-> LesserChild(h, j)]
  BY <1>6 DEF Along
<1>8. d \in D
  BY <1>6 DEF Way, Along
<1>9. LesserChild(h, d) \notin D \/ Before(h[i], h[LesserChild(h, d)])
  BY <1>6, <1>8
<1>10. \A j \in g[i] \ {d} : LesserChild(h, j) \in D /\ ~Before(h[i], h[LesserChild(h, j)])
  BY <1>6
<1>11. QED
  BY <1>4, <1>6, <1>7, <1>9, <1>10

------------------------------------------------------------------------------
(***************************************************************************)
(* The inductive invariant.                                                *)
(***************************************************************************)
Nodes == [key : Nat, timer : Nat, time : Nat]
HeapOK == HeapSize \in Nat /\ heap \in [0 .. HeapSize - 1 -> Nodes]

\* A key is in use or in the queue of free ones, once.
FreeOK ==
  /\ size \in Nat /\ DOMAIN pos \subseteq 0 .. size - 1
  /\ free \in Seq(Nat) /\ free # <<>> /\ IsInjective(free)
  /\ Range(free) = (0 .. size - 1) \ DOMAIN pos

\* The k-th timer gets no key greater than k.
Numbered ==
  /\ size = Len(free) + HeapSize /\ HeapSize <= created
  /\ \A q \in 1 .. Len(free) : free[q] <= created + q - 1

PoolOK == SpareOK(objects, used, made) /\ used < Len(objects)

\* No object is in two places, and the pool counts those that are not spare.
Apart ==
  /\ \A n, m \in Range(heap) : n.timer = m.timer => n = m
  /\ running \in Seq(1 .. made) /\ IsInjective(running)
  /\ InHeap \subseteq 1 .. made /\ InHeap \cap Range(running) = {}
  /\ Busy \cap Range(objects) = {}
  /\ used = HeapSize + Len(running)

Bounds ==
  /\ now \in 0 .. MaxTime /\ update \in 0 .. MaxTime \cup {NotUpdating}
  /\ \A n \in Range(heap) : n.time \in 0 .. MaxTime
  /\ created \in 0 .. MaxTimers /\ made <= MaxObjects

IndInv == HeapOK /\ KeysExact /\ FreeOK /\ Numbered /\ PoolOK /\ Apart /\ Bounds

------------------------------------------------------------------------------
(***************************************************************************)
(* The heap and its table of keys.                                         *)
(***************************************************************************)
LEMMA SizeIs ==
  ASSUME NEW n \in Nat, NEW f, DOMAIN f = 0 .. n - 1
  PROVE  Cardinality(DOMAIN f) = n
<1>1. 0 \in Int /\ n - 1 \in Int
  OBVIOUS
<1>2. Cardinality(0 .. n - 1) = IF 0 > n - 1 THEN 0 ELSE (n - 1) - 0 + 1
  BY <1>1, FS_Interval
<1>3. QED
  BY <1>2

\* The keys of h differ.
Distinct(h) == \A i, j \in DOMAIN h : h[i].key = h[j].key => i = j

LEMMA KeysDiffer == ASSUME KeysExact PROVE Distinct(heap)
BY DEF KeysExact, Distinct

\* A key leads to its node.
LEMMA KeyLeads ==
  ASSUME KeysExact
  PROVE  /\ \A n \in Range(heap) : n.key \in DOMAIN pos /\ heap[pos[n.key]] = n
         /\ \A k \in DOMAIN pos : pos[k] \in DOMAIN heap /\ heap[pos[k]].key = k
BY DEF KeysExact, Range

KeysOf(h, W) == {h[j].key : j \in W}

\* The nodes of h outside of W have their places in the table of keys p.
HasPlaces(p, h, W) == \A j \in DOMAIN h \ W : h[j].key \in DOMAIN p /\ p[h[j].key] = j

\* What a shift makes of h: from[j] is where the node at j has come from.
Carried(h, r, from, next, i, d) ==
  /\ DOMAIN next \subseteq DOMAIN h /\ Way(next, i, d)
  /\ Permutes(from, DOMAIN h) /\ r = [j \in DOMAIN h |-> h[from[j]]]
  /\ \A j \in DOMAIN h : j \notin DOMAIN next => from[j] = j
  /\ from[d] = i /\ \A j \in DOMAIN next \ {d} : from[j] = next[j]

\* When nodes change their places those on the way, and only those, are placed
\* anew, and all keys lead to their nodes.
LEMMA PlacedFacts ==
  ASSUME NEW h, Distinct(h), NEW r, NEW from, NEW next, NEW i, NEW d,
         Carried(h, r, from, next, i, d), HasPlaces(pos, h, DOMAIN next)
  PROVE  /\ Distinct(r) /\ DOMAIN r = DOMAIN h /\ Range(r) = Range(h)
         /\ HasPlaces(Placed(r, DOMAIN next), r, {})
         /\ DOMAIN Placed(r, DOMAIN next) = DOMAIN pos \cup KeysOf(r, DOMAIN next)
<1> DEFINE D == DOMAIN h
           W == DOMAIN next
<1>0. /\ DOMAIN h = D /\ DOMAIN next = W /\ Permutes(from, D)
      /\ r = [j \in D |-> h[from[j]]] /\ W \subseteq D
      /\ \A j \in D \ W : from[j] = j /\ h[j].key \in DOMAIN pos /\ pos[h[j].key] = j
  BY DEF Carried, HasPlaces
<1> HIDE DEF D, W
<1>1. /\ DOMAIN r = D /\ \A j \in D : r[j] = h[from[j]] /\ from[j] \in D
      /\ \A j, k \in D : from[j] = from[k] => j = k
      /\ \A j \in D : \E k \in D : from[k] = j
  BY <1>0 DEF Permutes
<1>2. ASSUME NEW j \in D, NEW k \in D, r[j].key = r[k].key PROVE j = k
  <2>1. h[from[j]].key = h[from[k]].key
    BY <1>1, <1>2
  <2>2. from[j] = from[k]
    BY <1>0, <1>1, <2>1 DEF Distinct
  <2>3. QED
    BY <1>1, <2>2
<1>3. Distinct(r)
  BY <1>1, <1>2 DEF Distinct
<1>4. Range(r) = Range(h)
  <2>1. \A j \in D : r[j] \in Range(h)
    BY <1>0, <1>1 DEF Range
  <2>2. \A j \in D : h[j] \in Range(r)
    BY <1>0, <1>1 DEF Range
  <2>3. Range(r) = {r[j] : j \in D} /\ Range(h) = {h[j] : j \in D}
    BY <1>0, <1>1 DEF Range
  <2>4. QED
    BY <2>1, <2>2, <2>3
<1> DEFINE p == Placed(r, W)
<1>5. DOMAIN p = DOMAIN pos \cup {r[j].key : j \in W}
  BY DEF Placed
<1>6. ASSUME NEW j \in D PROVE r[j].key \in DOMAIN p /\ p[r[j].key] = j
  <2>1. CASE j \in W
    <3>1. r[j].key \in DOMAIN p
      BY <1>5, <2>1
    <3>2. \E k \in W : r[k].key = r[j].key
      BY <2>1
    <3>3. p[r[j].key] = CHOOSE k \in W : r[k].key = r[j].key
      BY <3>1, <3>2 DEF Placed
    <3>4. \A k \in W : r[k].key = r[j].key => k = j
      BY <1>0, <1>2
    <3>5. (CHOOSE k \in W : r[k].key = r[j].key) = j
      BY <2>1, <3>4
    <3>6. QED
      BY <3>1, <3>3, <3>5
  <2>2. CASE j \notin W
    <3>1. r[j] = h[j] /\ h[j].key \in DOMAIN pos /\ pos[h[j].key] = j
      BY <1>0, <1>1, <2>2
    <3>2. ~\E k \in W : r[k].key = r[j].key
      BY <1>0, <1>2, <2>2
    <3>3. r[j].key \in DOMAIN p
      BY <1>5, <3>1
    <3>4. p[r[j].key] = pos[r[j].key]
      BY <3>2, <3>3 DEF Placed
    <3>5. QED
      BY <3>1, <3>3, <3>4
  <2>3. QED
    BY <2>1, <2>2
<1>7. HasPlaces(p, r, {})
  BY <1>1, <1>6 DEF HasPlaces
<1>8. QED
  BY <1>0, <1>1, <1>3, <1>4, <1>5, <1>7 DEF KeysOf

LEMMA WithLastFacts ==
  ASSUME HeapOK, KeysExact, NEW n \in Nodes, n.key \notin DOMAIN pos
  PROVE  LET h == WithLast(n)
         IN  /\ h \in [0 .. HeapSize -> Nodes] /\ Distinct(h) /\ h[HeapSize] = n
             /\ \A j \in 0 .. HeapSize - 1 : j \in 0 .. HeapSize /\ h[j] = heap[j]
             /\ Range(h) = Range(heap) \cup {n}
<1> DEFINE h == WithLast(n)
<1>1. HeapSize \in Nat /\ DOMAIN heap = 0 .. HeapSize - 1 /\ \A j \in DOMAIN heap : heap[j] \in Nodes
  BY DEF HeapOK
<1>2. h = [j \in 0 .. HeapSize |-> IF j = HeapSize THEN n ELSE heap[j]]
  BY DEF WithLast
<1>3. /\ HeapSize \in 0 .. HeapSize /\ \A j \in 0 .. HeapSize : j # HeapSize => j \in 0 .. HeapSize - 1
      /\ \A j \in 0 .. HeapSize - 1 : j \in 0 .. HeapSize /\ j # HeapSize
  BY <1>1
<1>4. /\ DOMAIN h = 0 .. HeapSize /\ h[HeapSize] = n
      /\ \A j \in 0 .. HeapSize - 1 : h[j] = heap[j]
  BY <1>2, <1>3
<1> HIDE DEF h
<1>5. h \in [0 .. HeapSize -> Nodes]
  BY <1>1, <1>2, <1>3
<1>6. \A j \in 0 .. HeapSize - 1 : heap[j].key # n.key
  BY <1>1 DEF KeysExact
<1>7. Distinct(h)
  <2>1. \A i, j \in 0 .. HeapSize - 1 : heap[i].key = heap[j].key => i = j
    BY <1>1, KeysDiffer DEF Distinct
  <2>2. QED
    BY <1>3, <1>4, <1>6, <2>1 DEF Distinct
<1>8. Range(h) = Range(heap) \cup {n}
  BY <1>1, <1>3, <1>4 DEF Range
<1>9. QED
  BY <1>3, <1>4, <1>5, <1>7, <1>8 DEF h

LEMMA FilledFacts ==
  ASSUME HeapOK, KeysExact, NEW i \in DOMAIN heap
  PROVE  LET h == Filled(i)
             last == HeapSize - 1
         IN  /\ h \in [0 .. last - 1 -> Nodes] /\ Distinct(h) /\ last \in Nat
             /\ \A j \in 0 .. last - 1 : j \in DOMAIN heap /\ h[j] = heap[IF j = i THEN last ELSE j]
             /\ Range(h) = Range(heap) \ {heap[i]}
<1> DEFINE h == Filled(i)
           last == HeapSize - 1
           src(j) == IF j = i THEN last ELSE j
<1>1. HeapSize \in Nat /\ DOMAIN heap = 0 .. HeapSize - 1 /\ \A j \in DOMAIN heap : heap[j] \in Nodes
  BY DEF HeapOK
<1>2. last \in Nat /\ last \in DOMAIN heap /\ HeapSize - 2 = last - 1 /\ i \in 0 .. last
  BY <1>1
<1>3. h = [j \in 0 .. last - 1 |-> IF j = i THEN heap[last] ELSE heap[j]]
  BY <1>2 DEF Filled
<1>4. \A j \in 0 .. last - 1 : j \in DOMAIN heap /\ j # last
  BY <1>1, <1>2
<1>5. DOMAIN h = 0 .. last - 1 /\ \A j \in 0 .. last - 1 : h[j] = heap[src(j)] /\ src(j) \in DOMAIN heap
  BY <1>2, <1>3, <1>4
<1>6. h \in [0 .. last - 1 -> Nodes]
  BY <1>1, <1>3, <1>5
<1>7. \A j, k \in DOMAIN heap : heap[j].key = heap[k].key => j = k
  BY KeysDiffer DEF Distinct
<1>8. \A j, k \in 0 .. last - 1 : src(j) = src(k) => j = k
  BY <1>4
<1>9. \A j \in 0 .. last - 1 : src(j) # i
  BY <1>2, <1>4
<1>10. \A k \in DOMAIN heap : k # i => \E j \in 0 .. last - 1 : src(j) = k
  <2>1. SUFFICES ASSUME NEW k \in DOMAIN heap, k # i PROVE \E j \in 0 .. last - 1 : src(j) = k
    OBVIOUS
  <2>2. CASE k = last
    <3>1. i \in 0 .. last - 1
      BY <1>2, <2>1, <2>2
    <3>2. QED
      BY <2>2, <3>1
  <2>3. CASE k # last
    <3>1. k \in 0 .. last - 1
      BY <1>1, <1>2, <2>3
    <3>2. QED
      BY <2>1, <3>1
  <2>4. QED
    BY <2>2, <2>3
<1> HIDE DEF h, last, src
<1>11. Distinct(h)
  BY <1>5, <1>7, <1>8 DEF Distinct
<1>12. Range(h) = Range(heap) \ {heap[i]}
  <2>1. \A j \in 0 .. last - 1 : h[j] \in Range(heap) /\ h[j] # heap[i]
    BY <1>5, <1>7, <1>9 DEF Range
  <2>2. ASSUME NEW k \in DOMAIN heap, heap[k] # heap[i] PROVE heap[k] \in Range(h)
    <3>1. PICK j \in 0 .. last - 1 : src(j) = k
      BY <1>10, <2>2
    <3>2. QED
      BY <1>5, <3>1 DEF Range
  <2>3. QED
    BY <1>5, <2>1, <2>2 DEF Range
<1>13. QED
  BY <1>2, <1>4, <1>5, <1>6, <1>11, <1>12 DEF h, last, src

LEMMA ParentIs ==
  ASSUME NEW m \in Nat, NEW j \in 0 .. m, j > 0
  PROVE  Parent(j) \in Nat /\ Parent(j) < j /\ Parent(j) # m /\ Parent(j) \in 0 .. m
<1>1. j \in Nat \ {0}
  OBVIOUS
<1>2. Parent(j) \in Nat /\ Parent(j) < j
  BY <1>1, PlacesOfHeap
<1>3. QED
  BY <1>2

Ordered(h) == \A j \in DOMAIN h : j > 0 => ~Before(h[j], h[Parent(j)])

\* Up: the nodes that are passed go one place down, away from the node that is
\* before them all.
LEMMA UpOrder ==
  ASSUME NEW m \in Nat, NEW h \in [0 .. m -> Nodes],
         \A j \in 1 .. m - 1 : ~Before(h[j], h[Parent(j)]),
         NEW P, P \subseteq 0 .. m, NEW d, NEW r, NEW from,
         Carried(h, r, from, [j \in P |-> Parent(j)], m, d),
         d = 0 \/ ~Before(h[m], h[Parent(d)]),
         \A j \in P \ {d} : j > 0 /\ Before(h[m], h[Parent(j)])
  PROVE  Ordered(r)
<1> DEFINE next == [j \in P |-> Parent(j)]
           t(x) == h[x].time
<1>1. /\ DOMAIN h = 0 .. m /\ DOMAIN next = P /\ \A j \in P : next[j] = Parent(j)
      /\ \A j \in 0 .. m : t(j) \in Nat
  BY DEF Nodes
<1>2. /\ m \in P /\ d \in P /\ Parent(d) \notin P
      /\ \A j \in P \ {d} : Parent(j) \in P \ {m}
      /\ \A j \in P \ {m} : \E k \in P \ {d} : Parent(k) = j
  BY <1>1 DEF Carried, Way
<1>3. /\ DOMAIN r = 0 .. m /\ \A j \in 0 .. m : r[j] = h[from[j]]
      /\ \A j \in 0 .. m : j \notin P => from[j] = j
      /\ from[d] = m /\ \A j \in P \ {d} : from[j] = Parent(j)
  BY <1>1 DEF Carried
<1> HIDE DEF t, next
<1>4. /\ \A j \in 1 .. m - 1 : t(j) >= t(Parent(j))
      /\ d = 0 \/ t(m) >= t(Parent(d))
      /\ \A j \in P \ {d} : j > 0 /\ t(m) < t(Parent(j))
  <2>1. ASSUME NEW j \in 1 .. m PROVE Parent(j) \in 0 .. m
    BY ParentIs
  <2>2. d \in 0 .. m
    BY <1>2
  <2>3. \A j \in 1 .. m - 1 : j \in 1 .. m /\ j \in 0 .. m
    OBVIOUS
  <2>4. \A j \in 1 .. m - 1 : t(j) >= t(Parent(j))
    BY <1>1, <2>1, <2>3 DEF Before, t
  <2>5. d = 0 \/ t(m) >= t(Parent(d))
    <3>1. CASE d # 0
      <4>1. d \in 1 .. m /\ m \in 0 .. m
        BY <2>2, <3>1
      <4>2. QED
        BY <1>1, <2>1, <3>1, <4>1 DEF Before, t
    <3>2. QED
      BY <3>1
  <2>6. \A j \in P \ {d} : j > 0 /\ t(m) < t(Parent(j))
    BY DEF Before, t
  <2>7. QED
    BY <2>4, <2>5, <2>6
<1>5. ASSUME NEW j \in 0 .. m, j > 0 PROVE t(from[j]) >= t(from[Parent(j)])
  <2> DEFINE p == Parent(j)
  <2>1. p \in 0 .. m /\ p < j /\ p # m /\ p \in Nat
    BY <1>5, ParentIs
  <2>2. j < m => t(j) >= t(p)
    BY <1>4, <1>5
  <2>3. ASSUME p \in P, p # d PROVE t(from[p]) <= t(p) /\ from[p] = Parent(p) /\ Parent(p) \in 0 .. m
    <3>1. from[p] = Parent(p) /\ p > 0 /\ Parent(p) \in P
      BY <1>2, <1>3, <1>4, <2>3
    <3>2. p \in 1 .. m - 1
      BY <2>1, <1>5, <3>1
    <3>3. QED
      BY <1>4, <3>1, <3>2
  <2>4. CASE j \in P /\ j # d
    <3>1. from[j] = p /\ p \in P /\ t(m) < t(p)
      BY <1>2, <1>3, <1>4, <2>4
    <3>2. CASE p = d
      BY <1>1, <1>3, <2>1, <3>1, <3>2
    <3>3. CASE p # d
      BY <2>3, <3>1, <3>3
    <3>4. QED
      BY <3>2, <3>3
  <2>5. CASE j = d
    <3>1. from[j] = m /\ from[p] = p /\ t(m) >= t(p)
      BY <1>2, <1>3, <1>4, <1>5, <2>1, <2>5
    <3>2. QED
      BY <3>1
  <2>6. CASE j \notin P /\ p \in P
    <3>1. from[j] = j /\ j # m /\ j < m
      BY <1>2, <1>3, <1>5, <2>6
    <3>2. t(j) >= t(p) /\ t(j) \in Nat /\ t(p) \in Nat /\ t(m) \in Nat
      BY <1>1, <1>5, <2>1, <2>2, <3>1
    <3>3. CASE p = d
      <4>1. PICK k \in P \ {d} : Parent(k) = p
        BY <1>2, <2>1, <2>6
      <4>2. t(m) < t(p) /\ from[p] = m
        BY <1>3, <1>4, <3>3, <4>1
      <4>3. QED
        BY <3>1, <3>2, <4>2
    <3>4. CASE p # d
      <4>1. t(from[p]) <= t(p) /\ t(from[p]) \in Nat
        BY <1>1, <2>3, <2>6, <3>4
      <4>2. QED
        BY <3>1, <3>2, <4>1
    <3>5. QED
      BY <3>3, <3>4
  <2>7. CASE j \notin P /\ p \notin P
    <3>1. from[j] = j /\ from[p] = p /\ j # m
      BY <1>2, <1>3, <2>1, <2>7
    <3>2. QED
      BY <2>2, <3>1, <1>5
  <2>8. QED
    BY <2>4, <2>5, <2>6, <2>7
<1>6. ASSUME NEW j \in 0 .. m, j > 0 PROVE ~Before(r[j], r[Parent(j)])
  <2>1. Parent(j) \in 0 .. m
    BY <1>6, ParentIs
  <2>2. from[j] \in 0 .. m /\ from[Parent(j)] \in 0 .. m
    BY <1>1, <2>1 DEF Carried, Permutes
  <2>3. r[j].time = t(from[j]) /\ r[Parent(j)].time = t(from[Parent(j)])
    BY <1>3, <2>1 DEF t
  <2>4. QED
    BY <1>1, <1>5, <1>6, <2>2, <2>3 DEF Before
<1>7. QED
  BY <1>3, <1>6 DEF Ordered

LEMMA LesserIs ==
  ASSUME NEW m \in Nat, NEW h \in [0 .. m - 1 -> Nodes], NEW j \in 0 .. m - 1, j > 0
  PROVE  LET c == LesserChild(h, Parent(j))
         IN  c \in 0 .. m - 1 /\ h[c].time <= h[j].time
<1> DEFINE p == Parent(j)
           l == Child(p)
<1>1. p \in Nat /\ (j = l \/ j = l + 1) /\ l \in Nat
  <2>1. j \in Nat \ {0}
    OBVIOUS
  <2>2. QED
    BY <2>1, PlacesOfHeap
<1>2. DOMAIN h = 0 .. m - 1 /\ \A x \in 0 .. m - 1 : h[x].time \in Nat
  BY DEF Nodes
<1> HIDE DEF p, l
<1>3. LesserChild(h, p) = IF l + 1 \in 0 .. m - 1 /\ h[l + 1].time < h[l].time THEN l + 1 ELSE l
  BY <1>2 DEF LesserChild, Before, l
<1>4. l \in 0 .. m - 1
  BY <1>1
<1>5. CASE l + 1 \in 0 .. m - 1 /\ h[l + 1].time < h[l].time
  BY <1>1, <1>2, <1>3, <1>4, <1>5 DEF p
<1>6. CASE ~(l + 1 \in 0 .. m - 1 /\ h[l + 1].time < h[l].time)
  BY <1>1, <1>2, <1>3, <1>4, <1>6 DEF p
<1>7. QED
  BY <1>5, <1>6

\* Down from the top: the lesser child goes one place up, above its sibling.
LEMMA DownOrder ==
  ASSUME NEW m \in Nat, NEW h \in [0 .. m - 1 -> Nodes],
         \A j \in 0 .. m - 1 : j > 0 /\ Parent(j) # 0 => ~Before(h[j], h[Parent(j)]),
         NEW P, P \subseteq 0 .. m - 1, NEW d, NEW r, NEW from,
         Carried(h, r, from, [j \in P |-> LesserChild(h, j)], 0, d),
         LesserChild(h, d) \notin DOMAIN h \/ Before(h[0], h[LesserChild(h, d)]),
         \A j \in P \ {d} : LesserChild(h, j) \in DOMAIN h /\ ~Before(h[0], h[LesserChild(h, j)])
  PROVE  Ordered(r)
<1> DEFINE D == 0 .. m - 1
           next == [j \in P |-> LesserChild(h, j)]
           t(x) == h[x].time
           lc(x) == LesserChild(h, x)
<1>1. /\ DOMAIN h = D /\ DOMAIN next = P /\ \A j \in P : next[j] = lc(j)
      /\ \A j \in D : t(j) \in Nat
  BY DEF Nodes
<1>2. /\ 0 \in P /\ d \in P
      /\ \A j \in P \ {d} : lc(j) \in P \ {0}
      /\ \A j \in P \ {0} : \E k \in P \ {d} : lc(k) = j
  BY <1>1 DEF Carried, Way
<1>3. /\ DOMAIN r = D /\ \A j \in D : r[j] = h[from[j]] /\ from[j] \in D
      /\ \A j \in D : j \notin P => from[j] = j
      /\ from[d] = 0 /\ \A j \in P \ {d} : from[j] = lc(j)
  BY <1>1 DEF Carried, Permutes
<1>4. P \subseteq D /\ \A j \in D : j \in Nat
  OBVIOUS
<1>5. \A j \in D : lc(j) \in Nat /\ lc(j) > j /\ Parent(lc(j)) = j
  BY <1>4, LesserChildIs
<1>6. ASSUME NEW j \in D, j > 0 PROVE Parent(j) \in D /\ lc(Parent(j)) \in D /\ t(lc(Parent(j))) <= t(j)
  <2>1. Parent(j) \in Nat /\ Parent(j) < j
    <3>1. m - 1 \in Nat
      OBVIOUS
    <3>2. QED
      BY <1>6, <3>1, ParentIs
  <2>2. QED
    BY <1>6, <2>1, LesserIs
<1>7. \A j \in D : j > 0 /\ Parent(j) # 0 => t(j) >= t(Parent(j))
  <2>1. SUFFICES ASSUME NEW j \in D, j > 0, Parent(j) # 0 PROVE t(j) >= t(Parent(j))
    OBVIOUS
  <2>2. Parent(j) \in D /\ ~(t(j) < t(Parent(j)))
    BY <1>6, <2>1 DEF Before
  <2> HIDE DEF t
  <2>3. QED
    BY <1>1, <2>2
<1>8. lc(d) \in D => t(0) < t(lc(d))
  BY <1>1 DEF Before
<1>9. \A j \in P \ {d} : lc(j) \in D /\ t(0) >= t(lc(j))
  <2>1. SUFFICES ASSUME NEW j \in P \ {d} PROVE lc(j) \in D /\ t(0) >= t(lc(j))
    OBVIOUS
  <2>2. lc(j) \in D /\ 0 \in D /\ ~(t(0) < t(lc(j)))
    BY <1>1, <1>2 DEF Before
  <2> HIDE DEF t, lc
  <2>3. QED
    BY <1>1, <2>2
<1> HIDE DEF t, next, lc, D
<1>10. ASSUME NEW j \in D, j > 0 PROVE t(from[j]) >= t(from[Parent(j)])
  <2> DEFINE p == Parent(j)
  <2>1. p \in D /\ lc(p) \in D /\ t(lc(p)) <= t(j) /\ t(j) \in Nat /\ t(lc(p)) \in Nat
    BY <1>1, <1>6, <1>10
  <2>2. CASE j \in P
    <3>1. PICK k \in P \ {d} : lc(k) = j
      BY <1>2, <1>10, <2>2
    <3>2. k = p /\ from[p] = j /\ t(0) >= t(j)
      BY <1>3, <1>4, <1>5, <1>9, <3>1
    <3>3. CASE j = d
      BY <1>3, <3>2, <3>3
    <3>4. CASE j # d
      <4>1. from[j] = lc(j) /\ lc(j) \in D /\ lc(j) > 0 /\ Parent(lc(j)) = j
        BY <1>3, <1>4, <1>5, <1>9, <1>10, <2>2, <3>4
      <4>2. j # 0
        BY <1>10
      <4>3. t(lc(j)) >= t(j)
        BY <1>7, <4>1, <4>2
      <4>4. QED
        BY <3>2, <4>1, <4>3
    <3>5. QED
      BY <3>3, <3>4
  <2>3. CASE j \notin P /\ p = d
    <3>1. from[j] = j /\ from[p] = 0 /\ t(0) < t(lc(p))
      BY <1>3, <1>8, <2>1, <2>3
    <3>2. t(0) \in Nat
      BY <1>1, <1>2, <1>4
    <3>3. QED
      BY <2>1, <3>1, <3>2
  <2>4. CASE j \notin P /\ p \in P /\ p # d
    <3>1. from[j] = j /\ from[p] = lc(p)
      BY <1>3, <2>4
    <3>2. QED
      BY <2>1, <3>1
  <2>5. CASE j \notin P /\ p \notin P
    <3>1. from[j] = j /\ from[p] = p /\ p # 0
      BY <1>2, <1>3, <2>1, <2>5
    <3>2. QED
      BY <1>7, <1>10, <3>1
  <2>6. QED
    BY <2>2, <2>3, <2>4, <2>5
<1>11. ASSUME NEW j \in D, j > 0 PROVE ~Before(r[j], r[Parent(j)])
  <2>1. Parent(j) \in D
    BY <1>6, <1>11
  <2>2. from[j] \in D /\ from[Parent(j)] \in D
    BY <1>3, <2>1
  <2>3. r[j].time = t(from[j]) /\ r[Parent(j)].time = t(from[Parent(j)])
    BY <1>3, <2>1 DEF t
  <2>4. QED
    BY <1>1, <1>10, <1>11, <2>2, <2>3 DEF Before
<1>12. QED
  BY <1>3, <1>11 DEF Ordered

------------------------------------------------------------------------------
(***************************************************************************)
(* Emplace and Pop.                                                        *)
(***************************************************************************)
\* A shift along a way keeps the nodes, and the keys lead to them.
Moved(h, r, next, i, d) ==
  /\ Distinct(r) /\ DOMAIN r = DOMAIN h /\ Range(r) = Range(h)
  /\ \E from : Carried(h, r, from, next, i, d)
  /\ HasPlaces(Placed(r, DOMAIN next), r, {})
  /\ DOMAIN Placed(r, DOMAIN next) = DOMAIN pos \cup KeysOf(r, DOMAIN next)

LEMMA ShiftFacts ==
  ASSUME NEW h, Distinct(h), NEW next, NEW i, NEW d, Way(next, i, d),
         DOMAIN next \subseteq DOMAIN h, HasPlaces(pos, h, DOMAIN next)
  PROVE  Moved(h, Shifted(h, i, next), next, i, d)
<1>1. PICK from : /\ Permutes(from, DOMAIN h)
                  /\ Shifted(h, i, next) = [j \in DOMAIN h |-> h[from[j]]]
                  /\ \A j \in DOMAIN h : j \notin DOMAIN next => from[j] = j
                  /\ from[d] = i /\ \A j \in DOMAIN next \ {d} : from[j] = next[j]
  BY ShiftPermutes
<1> DEFINE r == Shifted(h, i, next)
<1>2. Carried(h, r, from, next, i, d)
  BY <1>1 DEF Carried
<1> HIDE DEF r
<1>3. Moved(h, r, next, i, d)
  BY <1>2, PlacedFacts DEF Moved
<1>4. QED
  BY <1>3 DEF r

\* The table is exact when every key is one of a node, and leads to it.
Led ==
  HasPlaces(pos, heap, {}) /\ \A k \in DOMAIN pos : \E n \in Range(heap) : n.key = k

LEMMA ExactWhen == KeysExact <=> Led
<1>1. ASSUME Led PROVE KeysExact
  <2>1. \A j \in DOMAIN heap : heap[j].key \in DOMAIN pos /\ pos[heap[j].key] = j
    BY <1>1 DEF Led, HasPlaces
  <2>2. Range(heap) = {heap[j] : j \in DOMAIN heap}
    BY DEF Range
  <2>3. DOMAIN pos = {heap[j].key : j \in DOMAIN heap}
    BY <1>1, <2>1, <2>2 DEF Led
  <2>4. QED
    BY <2>1, <2>3 DEF KeysExact
<1>2. ASSUME KeysExact PROVE Led
  <2>1. HasPlaces(pos, heap, {})
    BY <1>2 DEF KeysExact, HasPlaces
  <2>2. ASSUME NEW k \in DOMAIN pos PROVE \E n \in Range(heap) : n.key = k
    BY <1>2 DEF KeysExact, Range
  <2>3. QED
    BY <2>1, <2>2 DEF Led
<1>3. QED
  BY <1>1, <1>2

\* A new node is kept with the others, under its key, and in order.
LEMMA EmplaceFacts ==
  ASSUME HeapOK, KeysExact, NEW o \in Nat, NEW t \in Nat,
         Head(free) \in Nat, Head(free) \notin DOMAIN pos, Emplace(o, t)
  PROVE  /\ HeapOK' /\ HeapSize' = HeapSize + 1 /\ KeysExact'
         /\ Range(heap') = Range(heap) \cup {NewNode(o, t)}
         /\ DOMAIN pos' = DOMAIN pos \cup {Head(free)}
         /\ HeapOrdered => HeapOrdered'
<1> DEFINE m == HeapSize
           n == NewNode(o, t)
           h == WithLast(n)
           W == WayUp(h, m)
           next == [j \in W |-> Parent(j)]
<1>1. m \in Nat /\ DOMAIN heap = 0 .. m - 1 /\ \A j \in 0 .. m - 1 : heap[j] \in Nodes
  BY DEF HeapOK
<1>2. n \in Nodes /\ n.key = Head(free)
  BY DEF NewNode, Nodes
<1>3. heap' = Shifted(h, m, next) /\ pos' = Placed(heap', W)
  BY DEF Emplace
<1>4. /\ h \in [0 .. m -> Nodes] /\ Distinct(h) /\ h[m] = n
      /\ \A j \in 0 .. m - 1 : j \in 0 .. m /\ h[j] = heap[j]
      /\ Range(h) = Range(heap) \cup {n}
  <2> HIDE DEF n
  <2>1. QED
    BY <1>2, WithLastFacts
<1> HIDE DEF n, h
<1>5. W \subseteq 0 .. m
  BY <1>1, WayUpIs
<1>6. PICK d : /\ Way(next, m, d)
               /\ d = 0 \/ ~Before(h[m], h[Parent(d)])
               /\ \A j \in W \ {d} : j > 0 /\ Before(h[m], h[Parent(j)])
  BY <1>1, WayUpIs
<1> HIDE DEF W
<1>7. DOMAIN next = W
  OBVIOUS
<1>8. m \in W /\ d \in W
  BY <1>6, <1>7 DEF Way
<1>9. HasPlaces(pos, h, W)
  <2>1. SUFFICES ASSUME NEW j \in (0 .. m) \ W PROVE h[j].key \in DOMAIN pos /\ pos[h[j].key] = j
    BY <1>4 DEF HasPlaces
  <2>2. j \in 0 .. m - 1
    BY <1>1, <1>8, <2>1
  <2>3. h[j] = heap[j] /\ j \in DOMAIN heap
    BY <1>1, <1>4, <2>2
  <2>4. QED
    BY <2>3 DEF KeysExact
<1> HIDE DEF next
<1> DEFINE r == heap'
           p == pos'
<1>10. /\ Distinct(r) /\ DOMAIN r = 0 .. m /\ Range(r) = Range(h)
       /\ \E from : Carried(h, r, from, next, m, d)
       /\ HasPlaces(p, r, {})
       /\ DOMAIN p = DOMAIN pos \cup KeysOf(r, W)
  <2>1. DOMAIN h = 0 .. m /\ Distinct(h) /\ Way(next, m, d)
    BY <1>4, <1>6
  <2>2. DOMAIN next \subseteq DOMAIN h /\ HasPlaces(pos, h, DOMAIN next)
    BY <1>5, <1>7, <1>9, <2>1
  <2>3. Moved(h, Shifted(h, m, next), next, m, d)
    BY <2>1, <2>2, ShiftFacts
  <2>4. Shifted(h, m, next) = r /\ Placed(r, DOMAIN next) = p
    BY <1>3, <1>7
  <2> HIDE DEF r, p
  <2>5. QED
    BY <1>7, <2>1, <2>3, <2>4 DEF Moved
<1>11. PICK from : Carried(h, r, from, next, m, d)
  BY <1>10
<1>12. HeapSize' = m + 1
  <2>1. DOMAIN r = 0 .. (m + 1) - 1 /\ m + 1 \in Nat
    BY <1>1, <1>10
  <2>2. QED
    BY <1>1, <2>1, SizeIs DEF HeapSize
<1>13. HeapOK'
  <2>1. r = [j \in 0 .. m |-> r[j]]
    BY <1>4, <1>11 DEF Carried
  <2>2. \A j \in 0 .. m : r[j] \in Nodes
    BY <1>4, <1>11 DEF Carried, Permutes
  <2>3. 0 .. HeapSize' - 1 = 0 .. m /\ HeapSize' \in Nat
    BY <1>1, <1>12
  <2>4. QED
    BY <2>1, <2>2, <2>3 DEF HeapOK
<1>14. DOMAIN p = DOMAIN pos \cup {Head(free)}
  <2>1. \A j \in 0 .. m : r[j].key \in DOMAIN pos \cup {Head(free)}
    <3>1. \A j \in 0 .. m : r[j] \in Range(heap) \cup {n}
      BY <1>4, <1>10 DEF Range
    <3>2. \A x \in Range(heap) : x.key \in DOMAIN pos
      BY KeyLeads
    <3>3. QED
      BY <1>2, <3>1, <3>2
  <2>2. r[d] = h[from[d]] /\ from[d] = m
    BY <1>4, <1>5, <1>8, <1>11 DEF Carried
  <2>3. r[d].key = Head(free)
    BY <1>2, <1>4, <2>2
  <2>4. QED
    BY <1>5, <1>8, <1>10, <2>1, <2>3 DEF KeysOf
<1>15. KeysExact'
  <2>1. ASSUME NEW k \in DOMAIN p PROVE \E x \in Range(r) : x.key = k
    <3>1. CASE k \in DOMAIN pos
      <4>1. pos[k] \in DOMAIN heap /\ heap[pos[k]].key = k
        BY <3>1, KeyLeads
      <4>2. heap[pos[k]] \in Range(r)
        BY <1>4, <1>10, <4>1 DEF Range
      <4>3. QED
        BY <4>1, <4>2
    <3>2. CASE k = Head(free)
      BY <1>2, <1>4, <1>10, <3>2
    <3>3. QED
      BY <1>14, <3>1, <3>2
  <2>2. Led'
    BY <1>10, <2>1 DEF Led
  <2>3. QED
    BY <2>2, ExactWhen, PTL
<1>16. ASSUME HeapOrdered PROVE HeapOrdered'
  <2>1. ASSUME NEW j \in 1 .. m - 1 PROVE ~Before(h[j], h[Parent(j)])
    <3>1. Parent(j) \in 0 .. m - 1
      <4>1. j \in 0 .. m - 1 /\ j > 0 /\ m - 1 \in Nat
        BY <1>1
      <4>2. QED
        BY <4>1, ParentIs
    <3>2. h[j] = heap[j] /\ h[Parent(j)] = heap[Parent(j)] /\ j \in DOMAIN heap /\ j > 0
      BY <1>1, <1>4, <3>1
    <3>3. QED
      BY <1>16, <3>2 DEF HeapOrdered
  <2>2. Ordered(r)
    <3>1. Carried(h, r, from, [j \in W |-> Parent(j)], m, d)
      BY <1>11 DEF next
    <3> HIDE DEF m, r
    <3>2. QED
      BY <1>1, <1>4, <1>5, <1>6, <2>1, <3>1, UpOrder
  <2>3. QED
    BY <2>2 DEF Ordered, HeapOrdered
<1>17. QED
  BY <1>4, <1>10, <1>12, <1>13, <1>14, <1>15, <1>16 DEF n

\* A node that is taken out is gone, and its key with it; the others are kept,
\* in order unless it was in the middle.
LEMMA PopFacts ==
  ASSUME HeapOK, KeysExact, NEW i \in DOMAIN heap, Pop(i)
  PROVE  /\ HeapOK' /\ HeapSize' = HeapSize - 1 /\ KeysExact'
         /\ Range(heap') = Range(heap) \ {heap[i]}
         /\ DOMAIN pos' = DOMAIN pos \ {heap[i].key}
         /\ i \in {0, HeapSize - 1} /\ HeapOrdered => HeapOrdered'
<1> DEFINE m == HeapSize - 1
           h == Filled(i)
           W == IF i = m THEN {} ELSE WayDown(h, i)
           next == [j \in W |-> LesserChild(h, j)]
           r == heap'
           q == Placed(r, W)
           k0 == heap[i].key
<1>1. HeapSize \in Nat /\ DOMAIN heap = 0 .. m /\ \A j \in 0 .. m : heap[j] \in Nodes
  BY DEF HeapOK
<1>2. r = Shifted(h, i, next) /\ pos' = Restrict(q, DOMAIN pos \ {k0})
  BY DEF Pop
<1>3. /\ h \in [0 .. m - 1 -> Nodes] /\ Distinct(h) /\ m \in Nat
      /\ \A j \in 0 .. m - 1 : j \in DOMAIN heap /\ h[j] = heap[IF j = i THEN m ELSE j]
      /\ Range(h) = Range(heap) \ {heap[i]}
  BY FilledFacts
<1> HIDE DEF h
<1>4. i \in Nat /\ i \in 0 .. m /\ (i # m => i \in 0 .. m - 1)
  BY <1>1, <1>3
<1>5. W \subseteq 0 .. m - 1
  BY <1>3, <1>4, WayDownIs
<1>6. HasPlaces(pos, h, W)
  <2>1. i # m => i \in W
    BY <1>3, <1>4, WayDownIs DEF Way
  <2>2. SUFFICES ASSUME NEW j \in (0 .. m - 1) \ W PROVE h[j].key \in DOMAIN pos /\ pos[h[j].key] = j
    BY <1>3 DEF HasPlaces
  <2>3. h[j] = heap[j] /\ j \in DOMAIN heap
    BY <1>3, <2>1, <2>2
  <2>4. QED
    BY <2>3 DEF KeysExact
<1>7. i # m => \E d : /\ Way(next, i, d)
                      /\ LesserChild(h, d) \notin DOMAIN h \/ Before(h[i], h[LesserChild(h, d)])
                      /\ \A j \in W \ {d} : /\ LesserChild(h, j) \in DOMAIN h
                                            /\ ~Before(h[i], h[LesserChild(h, j)])
  BY <1>3, <1>4, WayDownIs
<1>8. i = m => W = {}
  OBVIOUS
<1> HIDE DEF W, r, q
<1>9. DOMAIN next = W /\ DOMAIN h = 0 .. m - 1
  BY <1>3
<1> HIDE DEF m
<1>10. /\ Distinct(r) /\ DOMAIN r = 0 .. m - 1 /\ Range(r) = Range(h) /\ HasPlaces(q, r, {})
       /\ i = m => r = h
       /\ i # m => \E d, from : /\ Carried(h, r, from, next, i, d)
                                /\ LesserChild(h, d) \notin DOMAIN h \/ Before(h[i], h[LesserChild(h, d)])
                                /\ \A j \in W \ {d} : /\ LesserChild(h, j) \in DOMAIN h
                                                      /\ ~Before(h[i], h[LesserChild(h, j)])
  <2>1. CASE i = m
    <3>1. W = {} /\ DOMAIN next = {}
      BY <1>8, <1>9, <2>1
    <3>2. r = h
      BY <1>2, <1>3, <3>1 DEF Shifted
    <3>3. \A j \in 0 .. m - 1 : h[j].key \in DOMAIN q /\ q[h[j].key] = pos[h[j].key]
      BY <1>6, <1>9, <3>1 DEF q, Placed, HasPlaces
    <3>4. HasPlaces(q, r, {})
      BY <1>6, <1>9, <3>1, <3>2, <3>3 DEF HasPlaces
    <3>5. QED
      BY <1>3, <1>9, <2>1, <3>2, <3>4
  <2>2. CASE i # m
    <3>1. PICK d : /\ Way(next, i, d)
                   /\ LesserChild(h, d) \notin DOMAIN h \/ Before(h[i], h[LesserChild(h, d)])
                   /\ \A j \in W \ {d} : /\ LesserChild(h, j) \in DOMAIN h
                                         /\ ~Before(h[i], h[LesserChild(h, j)])
      BY <1>7, <2>2
    <3>2. Distinct(h) /\ DOMAIN next \subseteq DOMAIN h /\ HasPlaces(pos, h, DOMAIN next)
      BY <1>3, <1>5, <1>6, <1>9
    <3> HIDE DEF next
    <3>3. Moved(h, Shifted(h, i, next), next, i, d)
      BY <3>1, <3>2, ShiftFacts
    <3>4. Moved(h, r, next, i, d) /\ Placed(r, DOMAIN next) = q
      BY <1>2, <1>9, <3>3 DEF q
    <3>5. PICK from : Carried(h, r, from, next, i, d)
      BY <3>4 DEF Moved
    <3>6. Distinct(r) /\ DOMAIN r = 0 .. m - 1 /\ Range(r) = Range(h) /\ HasPlaces(q, r, {})
      BY <1>9, <3>4 DEF Moved
    <3>7. QED
      BY <2>2, <3>1, <3>5, <3>6
  <2>3. QED
    BY <2>1, <2>2
<1>11. HeapSize' = m
  BY <1>3, <1>10, SizeIs DEF HeapSize, r
<1>12. HeapOK'
  <2>1. r = [j \in 0 .. m - 1 |-> r[j]]
    BY <1>2, <1>9 DEF Shifted
  <2>2. \A j \in 0 .. m - 1 : r[j] \in Range(r)
    BY <1>10 DEF Range
  <2>3. \A x \in Range(h) : x \in Nodes
    BY <1>3 DEF Range
  <2>4. QED
    BY <1>3, <1>10, <1>11, <2>1, <2>2, <2>3 DEF HeapOK, r
<1>13. DOMAIN pos' = DOMAIN pos \ {k0} /\ \A k \in DOMAIN pos \ {k0} : pos'[k] = q[k]
  BY <1>2 DEF Restrict
<1>14. \A x \in Range(heap) : x \in Range(r) <=> x.key # k0
  <2>1. \A x \in Range(heap) : x.key = k0 <=> x = heap[i]
    BY KeysDiffer DEF Distinct, Range
  <2>2. QED
    BY <1>3, <1>10, <2>1
<1>15. KeysExact'
  <2>1. ASSUME NEW k \in DOMAIN pos \ {k0} PROVE \E x \in Range(r) : x.key = k
    <3>1. pos[k] \in DOMAIN heap /\ heap[pos[k]].key = k
      BY KeyLeads
    <3>2. heap[pos[k]] \in Range(heap)
      BY <3>1 DEF Range
    <3>3. QED
      BY <1>14, <3>1, <3>2
  <2>2. ASSUME NEW j \in 0 .. m - 1 PROVE r[j].key \in DOMAIN pos \ {k0} /\ q[r[j].key] = j
    <3>1. r[j] \in Range(r) /\ r[j] \in Range(heap)
      BY <1>3, <1>10 DEF Range
    <3>2. QED
      BY <1>10, <1>14, <3>1, KeyLeads DEF HasPlaces
  <2>3. Led'
    BY <1>10, <1>13, <2>1, <2>2 DEF Led, HasPlaces, r
  <2>4. QED
    BY <2>3, ExactWhen, PTL
<1>16. ASSUME i \in {0, m}, HeapOrdered PROVE HeapOrdered'
  <2>1. ASSUME NEW j \in 0 .. m - 1, j > 0
        PROVE  /\ Parent(j) \in 0 .. m - 1 /\ ~Before(heap[j], heap[Parent(j)]) /\ h[j] = heap[IF j = i THEN m ELSE j]
               /\ h[Parent(j)] = heap[IF Parent(j) = i THEN m ELSE Parent(j)]
    <3>1. m - 1 \in Nat
      BY <1>3, <2>1
    <3>2. Parent(j) \in 0 .. m - 1
      BY <2>1, <3>1, ParentIs
    <3>3. QED
      BY <1>3, <1>16, <2>1, <3>2 DEF HeapOrdered
  <2>2. CASE i = m
    <3>1. \A j \in 0 .. m - 1 : j # m
      BY <1>3
    <3>2. Ordered(r)
      BY <1>9, <1>10, <2>1, <2>2, <3>1 DEF Ordered
    <3>3. QED
      BY <3>2 DEF Ordered, HeapOrdered, r
  <2>3. CASE i # m
    <3>1. i = 0
      BY <1>16, <2>3
    <3>2. PICK d, from : /\ Carried(h, r, from, next, 0, d)
                         /\ LesserChild(h, d) \notin DOMAIN h \/ Before(h[0], h[LesserChild(h, d)])
                         /\ \A j \in W \ {d} : /\ LesserChild(h, j) \in DOMAIN h
                                               /\ ~Before(h[0], h[LesserChild(h, j)])
      BY <1>10, <2>3, <3>1
    <3>3. \A j \in 0 .. m - 1 : j > 0 /\ Parent(j) # 0 => ~Before(h[j], h[Parent(j)])
      <4>1. SUFFICES ASSUME NEW j \in 0 .. m - 1, j > 0, Parent(j) # 0 PROVE ~Before(h[j], h[Parent(j)])
        OBVIOUS
      <4>2. h[j] = heap[j] /\ h[Parent(j)] = heap[Parent(j)] /\ ~Before(heap[j], heap[Parent(j)])
        BY <2>1, <3>1, <4>1
      <4>3. QED
        BY <4>2
    <3>4. Ordered(r)
      BY <1>3, <1>5, <3>2, <3>3, DownOrder
    <3>5. QED
      BY <3>4 DEF Ordered, HeapOrdered, r
  <2>4. QED
    BY <2>2, <2>3
<1>17. QED
  BY <1>3, <1>10, <1>11, <1>12, <1>13, <1>15, <1>16 DEF r, m

------------------------------------------------------------------------------
(***************************************************************************)
(* The keys and the pool.                                                  *)
(***************************************************************************)
LEMMA NewKeysFacts ==
  ASSUME NEW n \in Nat
  PROVE  /\ Keys!NewIds(n) \in Seq(Nat) /\ Keys!NewIds(n) # <<>> /\ IsInjective(Keys!NewIds(n))
         /\ Len(Keys!NewIds(n)) = TsAllocNum /\ Range(Keys!NewIds(n)) = n .. n + TsAllocNum - 1
         /\ \A k \in 1 .. TsAllocNum : Keys!NewIds(n)[k] = n + k - 1
<1> DEFINE s == [k \in 1 .. TsAllocNum |-> n + k - 1]
<1>1. TsAllocNum \in Nat \ {0}
  BY AllocAssumption
<1>2. Keys!NewIds(n) = s /\ \A k \in 1 .. TsAllocNum : s[k] = n + k - 1
  BY DEF Keys!NewIds
<1>3. /\ s \in Seq(Nat) /\ s # <<>> /\ Len(s) = TsAllocNum /\ IsInjective(s)
      /\ Range(s) = n .. n + TsAllocNum - 1
  BY <1>1, SuccessiveFacts
<1> HIDE DEF s
<1>4. QED
  BY <1>2, <1>3

\* A new timer's key was not in use; the next ones are numbered on.
LEMMA InsertFacts ==
  ASSUME FreeOK, Numbered, HeapSize \in Nat, created \in Nat, Keys!Insert(TRUE),
         DOMAIN pos' = DOMAIN pos \cup {Head(free)}, HeapSize' = HeapSize + 1, created' = created + 1
  PROVE  /\ Head(free) \in (0 .. size - 1) \ DOMAIN pos /\ Head(free) <= created
         /\ FreeOK' /\ Numbered'
<1> DEFINE h == Head(free)
           n == Len(free)
<1>1. /\ h \in Nat /\ Tail(free) \in Seq(Nat) /\ Len(Tail(free)) = n - 1
      /\ Range(free) = {h} \cup Range(Tail(free))
      /\ IsInjective(Tail(free)) /\ h \notin Range(Tail(free))
  BY HeadTailFacts DEF FreeOK
<1>2. /\ n \in Nat \ {0} /\ free[1] = h /\ size \in Nat /\ size = n + HeapSize /\ HeapSize <= created
      /\ DOMAIN pos \subseteq 0 .. size - 1 /\ Range(free) = (0 .. size - 1) \ DOMAIN pos
      /\ \A q \in 1 .. n : free[q] <= created + q - 1
  BY EmptySeq DEF FreeOK, Numbered
<1>3. h \in (0 .. size - 1) \ DOMAIN pos /\ h <= created
  BY <1>1, <1>2
<1>4. CASE n = 1
  <2>1. free' = Keys!NewIds(size) /\ size' = size + TsAllocNum
    BY <1>4 DEF Keys!Insert
  <2>2. /\ free' \in Seq(Nat) /\ free' # <<>> /\ IsInjective(free') /\ Len(free') = TsAllocNum
        /\ Range(free') = size .. size + TsAllocNum - 1
        /\ \A k \in 1 .. TsAllocNum : free'[k] = size + k - 1
    BY <1>2, <2>1, NewKeysFacts
  <2>3. Range(Tail(free)) = {}
    BY <1>1, <1>4, EmptySeq DEF Range
  <2>4. DOMAIN pos' = 0 .. size - 1
    BY <1>1, <1>2, <2>3
  <2>5. TsAllocNum \in Nat \ {0}
    BY AllocAssumption
  <2>6. /\ size' \in Nat /\ (0 .. size' - 1) \ (0 .. size - 1) = size .. size + TsAllocNum - 1
        /\ 0 .. size - 1 \subseteq 0 .. size' - 1
    BY <1>2, <2>1, <2>5
  <2>7. FreeOK'
    BY <2>2, <2>4, <2>6 DEF FreeOK
  <2>8. size' = Len(free') + HeapSize' /\ HeapSize' <= created'
    <3>1. size = 1 + HeapSize /\ size' = size + TsAllocNum /\ Len(free') = TsAllocNum
      BY <1>2, <1>4, <2>1, <2>2
    <3>2. HeapSize \in Nat /\ TsAllocNum \in Nat /\ created \in Nat /\ HeapSize <= created
      BY <1>2, <2>5
    <3> HIDE DEF n
    <3>3. size' = TsAllocNum + (HeapSize + 1) /\ HeapSize + 1 <= created + 1
      BY <3>1, <3>2
    <3>4. QED
      BY <3>1, <3>3
  <2>9. \A q \in 1 .. Len(free') : free'[q] <= created' + q - 1
    BY <1>2, <1>4, <2>2, <2>5
  <2>10. QED
    BY <1>3, <2>7, <2>8, <2>9 DEF Numbered
<1>5. CASE n # 1
  <2>1. free' = Tail(free) /\ size' = size
    BY <1>5 DEF Keys!Insert
  <2>2. free' # <<>> /\ Len(free') = n - 1
    <3>1. Len(free') = n - 1 /\ n - 1 # 0
      BY <1>1, <1>2, <1>5, <2>1
    <3>2. Len(<<>>) = 0
      OBVIOUS
    <3>3. QED
      BY <3>1, <3>2
  <2>3. Range(free') = (0 .. size' - 1) \ DOMAIN pos'
    BY <1>1, <1>2, <2>1
  <2>4. FreeOK'
    BY <1>1, <1>2, <1>3, <2>1, <2>2, <2>3 DEF FreeOK
  <2>5. size' = Len(free') + HeapSize' /\ HeapSize' <= created'
    BY <1>2, <2>1, <2>2
  <2>6. ASSUME NEW q \in 1 .. n - 1 PROVE free'[q] <= created' + q - 1
    <3>1. free'[q] = free[q + 1] /\ q + 1 \in 1 .. n
      BY <1>2, <2>1 DEF FreeOK
    <3>2. free[q + 1] \in Nat /\ free[q + 1] <= created + (q + 1) - 1
      BY <1>2, <3>1 DEF FreeOK
    <3>3. QED
      BY <3>1, <3>2
  <2>7. QED
    BY <1>3, <2>2, <2>4, <2>5, <2>6 DEF Numbered
<1>6. QED
  BY <1>4, <1>5

\* The key of a timer that leaves is handed out after the ones that are free.
LEMMA EraseFacts ==
  ASSUME FreeOK, Numbered, HeapSize \in Nat \ {0}, created \in Nat, NEW k \in DOMAIN pos, Keys!Erase(k),
         DOMAIN pos' = DOMAIN pos \ {k}, HeapSize' = HeapSize - 1, created' = created
  PROVE  FreeOK' /\ Numbered'
<1>1. free' = Append(free, k) /\ size' = size
  BY DEF Keys!Erase
<1>2. k \in Nat /\ k \notin Range(free) /\ k \in 0 .. size - 1
  BY DEF FreeOK
<1>3. /\ free' \in Seq(Nat) /\ Len(free') = Len(free) + 1
      /\ Range(free') = Range(free) \cup {k} /\ IsInjective(free')
  BY <1>1, <1>2, AppendFacts DEF FreeOK
<1>4. Len(free) \in Nat /\ free' # <<>>
  BY <1>3 DEF FreeOK
<1>5. FreeOK'
  BY <1>1, <1>2, <1>3, <1>4 DEF FreeOK
<1>6. /\ size \in Nat /\ size = Len(free) + HeapSize /\ HeapSize <= created
      /\ \A q \in 1 .. Len(free) : free[q] <= created + q - 1
  BY DEF FreeOK, Numbered
<1>7. size' = Len(free') + HeapSize' /\ HeapSize' <= created'
  BY <1>1, <1>3, <1>4, <1>6
<1>8. ASSUME NEW q \in 1 .. Len(free) + 1 PROVE free'[q] <= created' + q - 1
  <2>1. CASE q = Len(free) + 1
    <3>1. free'[q] = k
      BY <1>1, <1>4, <2>1 DEF FreeOK
    <3>2. QED
      BY <1>2, <1>4, <1>6, <2>1, <3>1
  <2>2. CASE q # Len(free) + 1
    <3>1. q \in 1 .. Len(free) /\ free'[q] = free[q]
      BY <1>1, <1>4, <2>2 DEF FreeOK
    <3>2. QED
      BY <1>6, <3>1
  <2>3. QED
    BY <2>1, <2>2
<1>9. QED
  BY <1>3, <1>5, <1>7, <1>8 DEF Numbered

LEMMA PoolIs ==
  PoolOK <=>
    /\ used \in Nat /\ made \in Nat /\ objects \in Seq(0 .. made) /\ used < Len(objects)
    /\ \A i, j \in DOMAIN objects : objects[i] = objects[j] /\ i # j => objects[i] = 0
    /\ \A i \in DOMAIN objects : (objects[i] = 0) <=> (i <= used)
<1>1. objects \in Seq(0 .. made) => DOMAIN objects = 1 .. Len(objects) /\ Len(objects) \in Nat
  OBVIOUS
<1>2. used < Len(objects) /\ used \in Nat /\ Len(objects) \in Nat => used <= Len(objects)
  OBVIOUS
<1>3. QED
  BY <1>1, <1>2 DEF PoolOK, SpareOK

\* The pool hands out an object that was spare.
LEMMA GetFacts ==
  ASSUME PoolOK, Pool!Get
  PROVE  /\ Pool!Spare \in Range(objects) /\ Pool!Spare \in 1 .. made
         /\ used' = used + 1 /\ made' >= made /\ PoolOK'
         /\ Range(objects') \subseteq (Range(objects) \ {Pool!Spare}) \cup {0} \cup (made + 1 .. made')
<1> DEFINE n == Len(objects)
           left == [objects EXCEPT ![used + 1] = 0]
<1>1. SpareOK(objects, used, made) /\ used < n
  BY DEF PoolOK
<1>2. n \in Nat /\ used \in Nat /\ made \in Nat /\ TpAllocNum \in Nat \ {0}
  BY AllocAssumption, PoolIs
<1>3. /\ Pool!Spare \in Range(objects) /\ Pool!Spare \in 1 .. made
      /\ SpareOK(left, used + 1, made) /\ Len(left) = n
      /\ Range(left) \subseteq (Range(objects) \ {Pool!Spare}) \cup {0}
  BY <1>1, SpareTaken DEF Pool!Spare
<1>4. used' = used + 1
  BY DEF Pool!Get
<1>5. CASE used + 1 = n
  <2> DEFINE new == Pool!NewObjects(made)
  <2>1. objects' = left \o new /\ made' = made + TpAllocNum
    BY <1>5 DEF Pool!Get
  <2>2. new = [k \in 1 .. TpAllocNum |-> made + k]
    BY DEF Pool!NewObjects
  <2> HIDE DEF left, new
  <2>3. /\ SpareOK(objects', used', made') /\ Len(objects') = n + TpAllocNum
        /\ Range(objects') \subseteq Range(left) \cup (made + 1 .. made')
    <3>1. SpareOK(left, used + 1, made) /\ TpAllocNum \in Nat
      BY <1>2, <1>3
    <3>2. /\ SpareOK(left \o new, used + 1, made + TpAllocNum) /\ Len(left \o new) = Len(left) + TpAllocNum
          /\ Range(left \o new) \subseteq Range(left) \cup (made + 1 .. made + TpAllocNum)
      BY ONLY <2>2, <3>1, SpareAdded
    <3>3. QED
      BY <1>3, <1>4, <2>1, <3>2
  <2>4. used' < Len(objects') /\ made' >= made
    BY <1>2, <1>4, <1>5, <2>1, <2>3
  <2>5. PoolOK'
    BY <2>3, <2>4 DEF PoolOK
  <2>6. QED
    BY <1>3, <1>4, <2>3, <2>4, <2>5
<1>6. CASE used + 1 # n
  <2> HIDE DEF left
  <2>1. objects' = left /\ made' = made
    BY <1>6 DEF Pool!Get, left
  <2>2. used' < Len(objects')
    BY <1>1, <1>2, <1>3, <1>4, <1>6, <2>1
  <2>3. SpareOK(objects', used', made')
    BY <1>3, <1>4, <2>1
  <2>4. PoolOK'
    BY <2>2, <2>3 DEF PoolOK
  <2>5. QED
    BY <1>2, <1>3, <1>4, <2>1, <2>4
<1>7. QED
  BY <1>5, <1>6

\* An object that was handed out comes back as a spare one.
LEMMA PutFacts ==
  ASSUME PoolOK, NEW o \in 1 .. made, o \notin Range(objects), Pool!Put(o)
  PROVE  /\ used' = used - 1 /\ made' = made /\ PoolOK'
         /\ Range(objects') \subseteq Range(objects) \cup {o}
<1> DEFINE n == Len(objects)
           back == [objects EXCEPT ![used] = o]
<1>1. /\ SpareOK(objects, used, made) /\ used > 0 /\ used' = used - 1 /\ made' = made
      /\ n \in Nat /\ used \in Nat /\ made \in Nat /\ used < n /\ TpAllocNum \in Nat \ {0}
  BY AllocAssumption, PoolIs DEF PoolOK, Pool!Put
<1>2. SpareOK(back, used', made') /\ Len(back) = n /\ Range(back) \subseteq Range(objects) \cup {o}
  BY <1>1, SparePut
<1>3. objects' = IF n - (used - 1) > 2 * TpAllocNum THEN SubSeq(back, 1, Len(back) - TpAllocNum) ELSE back
  BY DEF Pool!Put
<1> HIDE DEF back
<1>4. CASE n - (used - 1) > 2 * TpAllocNum
  <2>1. /\ n - TpAllocNum \in used' .. Len(back) /\ used' < n - TpAllocNum
        /\ objects' = SubSeq(back, 1, n - TpAllocNum)
    <3>1. \A x, u \in Nat, a \in Nat \ {0} :
            u > 0 /\ u < x /\ x - (u - 1) > 2 * a => x - a \in u - 1 .. x /\ u - 1 < x - a
      OBVIOUS
    <3>2. n - TpAllocNum \in used - 1 .. n /\ used - 1 < n - TpAllocNum
      BY <1>1, <1>4, <3>1
    <3>3. QED
      BY <1>1, <1>2, <1>3, <1>4, <3>2
  <2>2. SpareOK(objects', used', made') /\ Len(objects') = n - TpAllocNum /\ Range(objects') \subseteq Range(back)
    BY <1>2, <2>1, SpareDropped
  <2>3. PoolOK'
    BY <2>1, <2>2 DEF PoolOK
  <2>4. QED
    BY <1>1, <1>2, <2>2, <2>3
<1>5. CASE ~(n - (used - 1) > 2 * TpAllocNum)
  <2>1. objects' = back /\ used' < n /\ SpareOK(objects', used', made')
    BY <1>1, <1>2, <1>3, <1>5
  <2>2. PoolOK'
    BY <1>2, <2>1 DEF PoolOK
  <2>3. QED
    BY <1>1, <1>2, <2>1, <2>2
<1>6. QED
  BY <1>4, <1>5

------------------------------------------------------------------------------
(***************************************************************************)
(* The steps keep the invariant.                                           *)
(***************************************************************************)
HeapParts == HeapOK /\ KeysExact /\ FreeOK /\ Numbered

LEMMA HeapStays ==
  ASSUME HeapParts, UNCHANGED <<heapVars, created>>
  PROVE  HeapParts' /\ HeapSize' = HeapSize /\ InHeap' = InHeap /\ Range(heap') = Range(heap)
<1>1. heap' = heap /\ pos' = pos /\ free' = free /\ size' = size /\ created' = created
  BY DEF heapVars
<1>2. HeapSize' = HeapSize /\ InHeap' = InHeap /\ Range(heap') = Range(heap)
  BY <1>1 DEF HeapSize, InHeap
<1>3. HeapOK' /\ KeysExact' /\ FreeOK' /\ Numbered'
  BY <1>1, <1>2 DEF HeapParts, HeapOK, KeysExact, FreeOK, Numbered
<1>4. QED
  BY <1>2, <1>3 DEF HeapParts

LEMMA PoolStays == ASSUME PoolOK, UNCHANGED timerPoolVars PROVE PoolOK'
BY DEF PoolOK, timerPoolVars

\* A node leaves the heap.
LEMMA NodeLeaves ==
  ASSUME HeapParts, created \in Nat, NEW i \in DOMAIN heap, Pop(i), UNCHANGED created
  PROVE  /\ HeapParts' /\ HeapSize' = HeapSize - 1 /\ HeapSize \in Nat
         /\ Range(heap') = Range(heap) \ {heap[i]} /\ heap[i] \in Range(heap)
         /\ DOMAIN pos' = DOMAIN pos \ {heap[i].key}
<1>1. HeapOK /\ KeysExact /\ FreeOK /\ Numbered
  BY DEF HeapParts
<1>2. /\ HeapOK' /\ HeapSize' = HeapSize - 1 /\ KeysExact'
      /\ Range(heap') = Range(heap) \ {heap[i]}
      /\ DOMAIN pos' = DOMAIN pos \ {heap[i].key}
  BY <1>1, PopFacts
<1>3. HeapSize \in Nat \ {0} /\ heap[i] \in Range(heap)
  BY <1>1 DEF HeapOK, Range
<1>4. heap[i].key \in DOMAIN pos /\ Keys!Erase(heap[i].key)
  BY <1>1, <1>3, KeyLeads DEF Pop
<1>5. FreeOK' /\ Numbered'
  BY <1>1, <1>2, <1>3, <1>4, EraseFacts
<1>6. QED
  BY <1>2, <1>3, <1>5 DEF HeapParts

LEMMA SeqWidens ==
  ASSUME NEW S, NEW T, S \subseteq T, NEW s \in Seq(S)
  PROVE  s \in Seq(T)
<1>1. Len(s) \in Nat /\ s \in [1 .. Len(s) -> S]
  BY LenProperties
<1>2. s \in [1 .. Len(s) -> T]
  BY <1>1
<1>3. QED
  BY <1>1, <1>2, SeqDef

LEMMA InHeapIs == InHeap = {n.timer : n \in Range(heap)}
BY DEF InHeap, Range

LEMMA CreateTimerStep ==
  ASSUME IndInv, NEW delay \in 0 .. MaxTime, CreateTimer(delay)
  PROVE  IndInv'
<1> DEFINE o == Pool!Spare
           t == now + delay
           n == NewNode(o, t)
<1>1. /\ HeapOK /\ KeysExact /\ FreeOK /\ Numbered /\ PoolOK /\ Apart /\ Bounds
      /\ created' = created + 1 /\ created < MaxTimers /\ t <= MaxTime
      /\ Pool!Get /\ made' <= MaxObjects /\ Emplace(o, t)
      /\ UNCHANGED <<now, update, running>>
  BY DEF IndInv, CreateTimer
<1>2. /\ now \in 0 .. MaxTime /\ update \in 0 .. MaxTime \cup {NotUpdating}
      /\ \A x \in Range(heap) : x.time \in 0 .. MaxTime
      /\ created \in 0 .. MaxTimers
      /\ MaxTime \in Nat /\ MaxTimers \in Nat /\ MaxObjects \in Nat
  BY <1>1, BoundAssumption DEF Bounds
<1>3. /\ o \in Range(objects) /\ o \in 1 .. made
      /\ used' = used + 1 /\ made' >= made /\ PoolOK' /\ made \in Nat /\ made' \in Nat /\ used \in Nat
      /\ Range(objects') \subseteq (Range(objects) \ {o}) \cup {0} \cup (made + 1 .. made')
  <2>1. /\ o \in Range(objects) /\ o \in 1 .. made
        /\ used' = used + 1 /\ made' >= made /\ PoolOK'
        /\ Range(objects') \subseteq (Range(objects) \ {o}) \cup {0} \cup (made + 1 .. made')
    BY <1>1, GetFacts
  <2>2. made \in Nat /\ used \in Nat
    BY <1>1, PoolIs
  <2>3. made' \in Nat
    BY <2>1 DEF PoolOK, SpareOK
  <2>4. QED
    BY <2>1, <2>2, <2>3
<1>4. o \in Nat /\ t \in 0 .. MaxTime /\ t \in Nat
  BY <1>1, <1>2, <1>3
<1> HIDE DEF o, t
<1>5. Head(free) \in Nat /\ Head(free) \notin DOMAIN pos
  BY <1>1, HeadTailFacts DEF FreeOK
<1>6. /\ HeapOK' /\ HeapSize' = HeapSize + 1 /\ KeysExact'
      /\ Range(heap') = Range(heap) \cup {n}
      /\ DOMAIN pos' = DOMAIN pos \cup {Head(free)}
  BY <1>1, <1>4, <1>5, EmplaceFacts
<1>7. FreeOK' /\ Numbered' /\ HeapSize \in Nat
  <2>1. HeapSize \in Nat /\ created \in Nat /\ Keys!Insert(TRUE)
    <3>1. HeapSize \in Nat
      BY <1>1 DEF HeapOK
    <3>2. Keys!Insert(TRUE)
      BY <1>1 DEF Emplace
    <3>3. created \in Nat
      BY <1>2
    <3>4. QED
      BY <3>1, <3>2, <3>3, Zenon
  <2>2. QED
    BY <1>1, <1>6, <2>1, InsertFacts
<1>8. n.timer = o /\ n.time = t
  BY DEF NewNode
<1> HIDE DEF n
<1>9. Apart'
  <2>1. /\ \A x, y \in Range(heap) : x.timer = y.timer => x = y
        /\ running \in Seq(1 .. made) /\ IsInjective(running)
        /\ InHeap \subseteq 1 .. made /\ InHeap \cap Range(running) = {}
        /\ Busy \cap Range(objects) = {} /\ Busy = InHeap \cup Range(running)
        /\ used = HeapSize + Len(running) /\ running' = running
    BY <1>1 DEF Apart, Busy
  <2>2. InHeap = {x.timer : x \in Range(heap)}
    BY InHeapIs
  <2>3. InHeap' = {x.timer : x \in Range(heap')}
    BY DEF InHeap, Range
  <2>4. o \notin InHeap /\ o \notin Range(running) /\ \A x \in Range(heap) : x.timer # o
    BY <1>3, <2>1, <2>2
  <2>5. InHeap' = InHeap \cup {o}
    BY <1>6, <1>8, <2>2, <2>3
  <2>6. \A x, y \in Range(heap') : x.timer = y.timer => x = y
    BY <1>6, <1>8, <2>1, <2>4
  <2>7. running \in Seq(1 .. made')
    <3>1. 1 .. made \subseteq 1 .. made'
      BY <1>3
    <3>2. QED
      BY <2>1, <3>1, SeqWidens
  <2>8. InHeap' \subseteq 1 .. made' /\ Range(running) \subseteq 1 .. made
    <3>1. Range(running) \subseteq 1 .. made
      BY <2>1, RangeOfSeq
    <3>2. QED
      BY <1>3, <2>1, <2>5, <3>1
  <2>9. Busy' = Busy \cup {o}
    BY <2>1, <2>5 DEF Busy
  <2>10. Busy' \cap Range(objects') = {}
    <3>1. Busy \subseteq 1 .. made /\ Busy' \subseteq 1 .. made
      BY <1>3, <2>1, <2>8, <2>9
    <3>2. \A x \in 1 .. made : x # 0 /\ x \notin made + 1 .. made'
      BY <1>3
    <3>3. Busy' \cap (Range(objects) \ {o}) = {}
      BY <2>1, <2>9
    <3>4. QED
      BY <1>3, <3>1, <3>2, <3>3
  <2>11. used' = HeapSize' + Len(running')
    <3>1. Len(running) \in Nat
      BY <2>1
    <3>2. QED
      BY <1>3, <1>6, <1>7, <2>1, <3>1
  <2>12. QED
    BY <2>1, <2>4, <2>5, <2>6, <2>7, <2>8, <2>10, <2>11 DEF Apart
<1>10. Bounds'
  BY <1>1, <1>2, <1>4, <1>6, <1>8 DEF Bounds
<1>11. QED
  BY <1>3, <1>6, <1>7, <1>9, <1>10 DEF IndInv

\* A timer that is taken out of the heap is called: it is nowhere else.
LEMMA CallStep ==
  ASSUME IndInv, NEW i \in DOMAIN heap, Pop(i), running' = <<heap[i].timer>> \o running,
         UNCHANGED <<timerPoolVars, now, update, created>>
  PROVE  IndInv'
<1> DEFINE n == heap[i]
<1>1. /\ HeapParts /\ PoolOK /\ Apart /\ Bounds
      /\ objects' = objects /\ used' = used /\ made' = made
  BY DEF IndInv, HeapParts, timerPoolVars
<1>2. created \in Nat
  BY <1>1 DEF Bounds
<1>3. /\ HeapParts' /\ HeapSize' = HeapSize - 1 /\ HeapSize \in Nat
      /\ Range(heap') = Range(heap) \ {n} /\ n \in Range(heap)
  BY <1>1, <1>2, NodeLeaves
<1>4. PoolOK'
  BY <1>1, PoolStays
<1> HIDE DEF n
<1>5. /\ \A x, y \in Range(heap) : x.timer = y.timer => x = y
      /\ running \in Seq(1 .. made) /\ IsInjective(running)
      /\ InHeap \subseteq 1 .. made /\ InHeap \cap Range(running) = {}
      /\ Busy \cap Range(objects) = {} /\ Busy = InHeap \cup Range(running)
      /\ used = HeapSize + Len(running)
  BY <1>1 DEF Apart, Busy
<1>6. InHeap = {x.timer : x \in Range(heap)} /\ InHeap' = {x.timer : x \in Range(heap')}
  BY DEF InHeap, Range
<1>7. n.timer \in InHeap /\ InHeap' = InHeap \ {n.timer}
  BY <1>3, <1>5, <1>6
<1>8. /\ running' \in Seq(1 .. made) /\ Range(running') = Range(running) \cup {n.timer}
      /\ IsInjective(running') /\ Len(running') = Len(running) + 1
  <2>1. n.timer \in 1 .. made
    BY <1>5, <1>7
  <2>2. <<n.timer>> \in Seq(1 .. made) /\ Range(<<n.timer>>) = {n.timer} /\ IsInjective(<<n.timer>>)
    BY <2>1, SingleFacts
  <2>3. running' = <<n.timer>> \o running
    BY DEF n
  <2>4. Range(<<n.timer>>) \cap Range(running) = {}
    BY <1>5, <1>7, <2>2
  <2>5. Len(running') = Len(running) + 1
    BY <1>5, <2>1, <2>3
  <2> DEFINE u == <<n.timer>>
  <2> HIDE DEF u
  <2>6. /\ u \o running \in Seq(1 .. made) /\ Range(u \o running) = Range(u) \cup Range(running)
        /\ IsInjective(u \o running) <=>
             IsInjective(u) /\ IsInjective(running) /\ Range(u) \cap Range(running) = {}
    <3>1. u \in Seq(1 .. made) /\ running \in Seq(1 .. made)
      BY <1>5, <2>2 DEF u
    <3>2. QED
      BY ONLY <3>1, ConcatFacts
  <2>7. QED
    BY <1>5, <2>2, <2>3, <2>4, <2>5, <2>6 DEF u
<1>9. Apart'
  <2>1. Busy' = Busy
    BY <1>5, <1>7, <1>8 DEF Busy
  <2>2. \A x, y \in Range(heap') : x.timer = y.timer => x = y
    BY <1>3, <1>5
  <2>3. used' = HeapSize' + Len(running')
    <3>1. Len(running) \in Nat
      BY <1>5
    <3>2. QED
      BY <1>1, <1>3, <1>5, <1>8, <3>1
  <2>4. InHeap' \subseteq 1 .. made' /\ InHeap' \cap Range(running') = {}
    BY <1>1, <1>5, <1>7, <1>8
  <2>5. QED
    BY <1>1, <1>5, <1>8, <2>1, <2>2, <2>3, <2>4 DEF Apart
<1>10. Bounds'
  BY <1>1, <1>3 DEF Bounds
<1>11. QED
  BY <1>3, <1>4, <1>9, <1>10 DEF IndInv, HeapParts

LEMMA RemoveTimerStep ==
  ASSUME IndInv, NEW id \in DOMAIN pos, RemoveTimer(id)
  PROVE  IndInv'
<1> DEFINE i == pos[id]
           n == heap[i]
<1>1. /\ HeapParts /\ PoolOK /\ Apart /\ Bounds
      /\ Pool!Put(n.timer) /\ Pop(i)
      /\ now' = now /\ update' = update /\ running' = running /\ created' = created
  BY DEF IndInv, HeapParts, RemoveTimer
<1>2. i \in DOMAIN heap
  BY <1>1, KeyLeads DEF HeapParts
<1>3. /\ HeapParts' /\ HeapSize' = HeapSize - 1 /\ HeapSize \in Nat
      /\ Range(heap') = Range(heap) \ {n} /\ n \in Range(heap)
  <2>1. created \in Nat
    BY <1>1 DEF Bounds
  <2> HIDE DEF i
  <2>2. QED
    BY <1>1, <1>2, <2>1, NodeLeaves
<1> HIDE DEF n
<1>4. /\ \A x, y \in Range(heap) : x.timer = y.timer => x = y
      /\ running \in Seq(1 .. made) /\ IsInjective(running)
      /\ InHeap \subseteq 1 .. made /\ InHeap \cap Range(running) = {}
      /\ Busy \cap Range(objects) = {} /\ Busy = InHeap \cup Range(running)
      /\ used = HeapSize + Len(running)
  BY <1>1 DEF Apart, Busy
<1>5. InHeap = {x.timer : x \in Range(heap)} /\ InHeap' = {x.timer : x \in Range(heap')}
  BY DEF InHeap, Range
<1>6. n.timer \in InHeap /\ InHeap' = InHeap \ {n.timer}
  BY <1>3, <1>4, <1>5
<1>7. n.timer \in 1 .. made /\ n.timer \notin Range(objects)
  BY <1>4, <1>6
<1>8. /\ used' = used - 1 /\ made' = made /\ PoolOK'
      /\ Range(objects') \subseteq Range(objects) \cup {n.timer}
  BY <1>1, <1>7, PutFacts
<1>9. Apart'
  <2>1. Busy' = Busy \ {n.timer}
    BY <1>1, <1>4, <1>6 DEF Busy
  <2>2. \A x, y \in Range(heap') : x.timer = y.timer => x = y
    BY <1>3, <1>4
  <2>3. used' = HeapSize' + Len(running')
    <3>1. Len(running) \in Nat
      BY <1>4
    <3>2. QED
      BY <1>1, <1>3, <1>4, <1>8, <3>1
  <2>4. Busy' \cap Range(objects') = {}
    BY <1>4, <1>8, <2>1
  <2>5. QED
    BY <1>1, <1>4, <1>6, <1>8, <2>2, <2>3, <2>4 DEF Apart
<1>10. Bounds'
  BY <1>1, <1>3, <1>8 DEF Bounds
<1>11. QED
  BY <1>3, <1>8, <1>9, <1>10 DEF IndInv, HeapParts

\* The timer whose callback returns goes back to the pool.
LEMMA CallbackReturnsStep ==
  ASSUME IndInv, CallbackReturns
  PROVE  IndInv'
<1> DEFINE o == Head(running)
<1>1. /\ HeapParts /\ PoolOK /\ Apart /\ Bounds
      /\ running # <<>> /\ running' = Tail(running) /\ Pool!Put(o)
      /\ UNCHANGED heapVars /\ now' = now /\ update' = update /\ created' = created
  BY DEF IndInv, HeapParts, CallbackReturns
<1>2. HeapParts' /\ HeapSize' = HeapSize /\ InHeap' = InHeap /\ Range(heap') = Range(heap)
  BY <1>1, HeapStays
<1>3. /\ \A x, y \in Range(heap) : x.timer = y.timer => x = y
      /\ running \in Seq(1 .. made) /\ IsInjective(running)
      /\ InHeap \subseteq 1 .. made /\ InHeap \cap Range(running) = {}
      /\ Busy \cap Range(objects) = {} /\ Busy = InHeap \cup Range(running)
      /\ used = HeapSize + Len(running) /\ HeapSize \in Nat
  BY <1>1 DEF Apart, Busy, HeapParts, HeapOK
<1>4. /\ o \in 1 .. made /\ running' \in Seq(1 .. made) /\ Len(running') = Len(running) - 1
      /\ Range(running) = {o} \cup Range(running') /\ IsInjective(running') /\ o \notin Range(running')
  BY <1>1, <1>3, HeadTailFacts
<1> HIDE DEF o
<1>5. /\ used' = used - 1 /\ made' = made /\ PoolOK'
      /\ Range(objects') \subseteq Range(objects) \cup {o}
  BY <1>1, <1>3, <1>4, PutFacts
<1>6. Apart'
  <2>1. Busy' = Busy \ {o}
    BY <1>2, <1>3, <1>4 DEF Busy
  <2>2. used' = HeapSize' + Len(running')
    <3>1. Len(running) \in Nat
      BY <1>3
    <3>2. QED
      BY <1>2, <1>3, <1>4, <1>5, <3>1
  <2>3. Busy' \cap Range(objects') = {}
    BY <1>3, <1>5, <2>1
  <2>4. InHeap' \subseteq 1 .. made' /\ InHeap' \cap Range(running') = {}
    BY <1>2, <1>3, <1>4, <1>5
  <2>5. QED
    BY <1>2, <1>3, <1>4, <1>5, <2>2, <2>3, <2>4 DEF Apart
<1>7. Bounds'
  BY <1>1, <1>2, <1>5 DEF Bounds
<1>8. QED
  BY <1>2, <1>5, <1>6, <1>7 DEF IndInv, HeapParts

\* The heap, the pool and the timers being called stay as they are.
LEMMA OtherStep ==
  ASSUME IndInv, UNCHANGED <<heapVars, timerPoolVars, running, created>>,
         now' \in 0 .. MaxTime, update' \in 0 .. MaxTime \cup {NotUpdating}
  PROVE  IndInv'
<1>1. /\ HeapParts /\ PoolOK /\ Apart /\ Bounds
      /\ objects' = objects /\ used' = used /\ made' = made
      /\ UNCHANGED heapVars /\ running' = running /\ created' = created
  BY DEF IndInv, HeapParts, timerPoolVars
<1>2. HeapParts' /\ HeapSize' = HeapSize /\ InHeap' = InHeap /\ Range(heap') = Range(heap)
  BY <1>1, HeapStays
<1>3. PoolOK'
  BY <1>1, PoolStays DEF timerPoolVars
<1>4. Busy' = Busy
  BY <1>1, <1>2 DEF Busy
<1>5. Apart'
  BY <1>1, <1>2, <1>4 DEF Apart
<1>6. Bounds'
  BY <1>1, <1>2 DEF Bounds
<1>7. QED
  BY <1>2, <1>3, <1>5, <1>6 DEF IndInv, HeapParts

\* The parts of the actions that take a timer out of the heap to call it.
LEMMA CallTimerStep ==
  ASSUME IndInv, NEW id \in DOMAIN pos, CallTimer(id)
  PROVE  IndInv'
<1> DEFINE i == pos[id]
<1>1. /\ Pop(i) /\ running' = <<heap[i].timer>> \o running
      /\ UNCHANGED <<timerPoolVars, now, update, created>>
  BY DEF CallTimer
<1>2. i \in DOMAIN heap
  BY KeyLeads DEF IndInv
<1> HIDE DEF i
<1>3. QED
  BY <1>1, <1>2, CallStep

LEMMA UpdateCallsStep ==
  ASSUME IndInv, UpdateCalls
  PROVE  IndInv'
<1>1. /\ Pop(0) /\ running' = <<heap[0].timer>> \o running /\ 0 \in DOMAIN heap
      /\ UNCHANGED <<timerPoolVars, now, update, created>>
  <2>1. running = <<>> /\ running' = <<heap[0].timer>> /\ HeapSize > 0
    BY DEF UpdateCalls, InLoop, Due, Top
  <2>2. <<heap[0].timer>> \o <<>> = <<heap[0].timer>>
    OBVIOUS
  <2>3. 0 \in DOMAIN heap
    BY <2>1 DEF IndInv, HeapOK
  <2>4. QED
    BY <2>1, <2>2, <2>3 DEF UpdateCalls
<1>2. QED
  BY <1>1, CallStep

------------------------------------------------------------------------------
(***************************************************************************)
(* The theorems.                                                           *)
(***************************************************************************)
LEMMA InitIndInv == Init => IndInv
<1> SUFFICES ASSUME Init PROVE IndInv
  OBVIOUS
<1>1. /\ heap = <<>> /\ pos = <<>> /\ free = Keys!NewIds(0) /\ size = TsAllocNum
      /\ objects = Pool!NewObjects(0) /\ used = 0 /\ made = TpAllocNum
      /\ now = 0 /\ update = NotUpdating /\ running = <<>> /\ created = 0
  BY DEF Init, Pool!PoolInit
<1>2. /\ TpAllocNum \in Nat \ {0} /\ TsAllocNum \in Nat \ {0} /\ TpAllocNum <= MaxObjects
      /\ MaxObjects \in Nat /\ MaxTimers \in Nat /\ MaxTime \in Nat
  BY AllocAssumption, BoundAssumption
<1>3. /\ DOMAIN heap = {} /\ DOMAIN pos = {} /\ Range(heap) = {} /\ InHeap = {}
      /\ HeapSize = 0
  BY <1>1, FS_EmptySet DEF Range, InHeap, HeapSize
<1>4. HeapOK
  <2>1. 0 .. 0 - 1 = {} /\ heap \in [{} -> Nodes]
    BY <1>1
  <2>2. QED
    BY <1>3, <2>1 DEF HeapOK
<1>5. KeysExact
  BY <1>3 DEF KeysExact
<1>6. /\ free \in Seq(Nat) /\ free # <<>> /\ IsInjective(free) /\ Len(free) = TsAllocNum
      /\ Range(free) = 0 .. 0 + TsAllocNum - 1
      /\ \A k \in 1 .. TsAllocNum : free[k] = 0 + k - 1
  BY <1>1, NewKeysFacts
<1>7. FreeOK
  BY <1>1, <1>2, <1>3, <1>6 DEF FreeOK
<1>8. Numbered
  <2>1. \A q \in 1 .. Len(free) : free[q] <= created + q - 1
    BY <1>1, <1>2, <1>6
  <2>2. QED
    BY <1>1, <1>2, <1>3, <1>6, <2>1 DEF Numbered
<1>9. objects = [k \in 1 .. TpAllocNum |-> k]
  BY <1>1, <1>2 DEF Pool!NewObjects
<1>10. objects \in [1 .. TpAllocNum -> 0 .. made] /\ \A k \in 1 .. TpAllocNum : objects[k] = k
  BY <1>1, <1>2, <1>9
<1>11. objects \in Seq(0 .. made) /\ Len(objects) = TpAllocNum /\ DOMAIN objects = 1 .. TpAllocNum
  <2>1. TpAllocNum \in Nat
    BY <1>2
  <2>2. objects \in Seq(0 .. made)
    BY <1>10, <2>1, SeqDef
  <2>3. DOMAIN objects = 1 .. TpAllocNum
    BY <1>10
  <2>4. Len(objects) = TpAllocNum
    BY <2>1, <2>2, <2>3, LenProperties
  <2>5. QED
    BY <2>2, <2>3, <2>4
<1>12. PoolOK
  BY <1>1, <1>2, <1>10, <1>11, PoolIs
<1>13. Apart
  <2>1. running \in Seq(1 .. made) /\ Range(running) = {} /\ IsInjective(running) /\ Len(running) = 0
    BY <1>1, EmptyFacts
  <2>2. Busy = {}
    BY <1>3, <2>1 DEF Busy
  <2>3. QED
    BY <1>1, <1>3, <2>1, <2>2 DEF Apart
<1>14. Bounds
  BY <1>1, <1>2, <1>3 DEF Bounds
<1>15. QED
  BY <1>4, <1>5, <1>7, <1>8, <1>12, <1>13, <1>14 DEF IndInv

LEMMA NextIndInv == IndInv /\ [Next]_vars => IndInv'
<1> SUFFICES ASSUME IndInv, [Next]_vars PROVE IndInv'
  OBVIOUS
<1>1. now \in 0 .. MaxTime /\ update \in 0 .. MaxTime \cup {NotUpdating} /\ MaxTime \in Nat
  BY BoundAssumption DEF IndInv, Bounds
<1>2. ASSUME NEW delay \in 0 .. MaxTime, CreateTimer(delay) PROVE IndInv'
  BY <1>2, CreateTimerStep
<1>3. ASSUME NEW id \in DOMAIN pos, CallTimer(id) PROVE IndInv'
  BY <1>3, CallTimerStep
<1>4. ASSUME NEW id \in DOMAIN pos, RemoveTimer(id) PROVE IndInv'
  BY <1>4, RemoveTimerStep
<1>5. CASE UpdateBegins
  BY <1>1, <1>5, OtherStep DEF UpdateBegins
<1>6. CASE UpdateCalls
  BY <1>6, UpdateCallsStep
<1>7. CASE UpdateEnds
  BY <1>1, <1>7, OtherStep DEF UpdateEnds
<1>8. CASE CallbackReturns
  BY <1>8, CallbackReturnsStep
<1>9. CASE Tick
  <2>1. now' \in 0 .. MaxTime
    BY <1>1, <1>9 DEF Tick
  <2>2. QED
    BY <1>1, <1>9, <2>1, OtherStep DEF Tick
<1>10. CASE UNCHANGED vars
  BY <1>1, <1>10, OtherStep DEF vars
<1>11. QED
  BY <1>2, <1>3, <1>4, <1>5, <1>6, <1>7, <1>8, <1>9, <1>10 DEF Next

\* The invariant: the heap and its table of keys describe each other, free keys
\* are numbered on, and no Timer object is in two places.
THEOREM IndInvHolds == Spec => []IndInv
BY InitIndInv, NextIndInv, PTL DEF Spec

\* The heap, its keys and the pool have the shape the code relies on.
THEOREM TypeCorrect == Spec => []TypeOK
<1>1. IndInv => TypeOK
  <2> SUFFICES ASSUME IndInv PROVE TypeOK
    OBVIOUS
  <2>1. /\ HeapSize \in Nat /\ heap \in [0 .. HeapSize - 1 -> Nodes]
        /\ DOMAIN pos \subseteq 0 .. size - 1
        /\ \A x \in Range(heap) : x.time \in 0 .. MaxTime /\ x.key \in DOMAIN pos /\ x.timer \in 1 .. made
        /\ \A k \in DOMAIN pos : pos[k] \in DOMAIN heap
        /\ running \in Seq(1 .. made)
        /\ now \in 0 .. MaxTime /\ update \in 0 .. MaxTime \cup {NotUpdating}
        /\ created \in 0 .. MaxTimers /\ made <= MaxObjects
    BY KeyLeads, InHeapIs DEF IndInv, HeapOK, FreeOK, Apart, Bounds
  <2>2. heap \in [0 .. HeapSize - 1 -> [key : 0 .. size - 1, timer : 1 .. made, time : 0 .. MaxTime]]
    <3>1. ASSUME NEW i \in 0 .. HeapSize - 1
          PROVE  heap[i] \in [key : 0 .. size - 1, timer : 1 .. made, time : 0 .. MaxTime]
      <4>1. heap[i] \in Range(heap) /\ heap[i] \in Nodes
        BY <2>1 DEF Range
      <4>2. /\ heap[i] \in [key : Nat, timer : Nat, time : Nat]
            /\ heap[i].key \in 0 .. size - 1 /\ heap[i].timer \in 1 .. made /\ heap[i].time \in 0 .. MaxTime
        BY <2>1, <4>1 DEF Nodes
      <4>3. QED
        BY <4>2
    <3>2. QED
      BY <2>1, <3>1
  <2>3. used \in 0 .. Len(objects) - 1 /\ made \in 0 .. MaxObjects
    <3>1. used \in Nat /\ made \in Nat /\ used < Len(objects) /\ Len(objects) \in Nat
      BY PoolIs DEF IndInv
    <3>2. MaxObjects \in Nat
      BY BoundAssumption
    <3>3. QED
      BY <2>1, <3>1, <3>2
  <2>4. Range(pos) \subseteq DOMAIN heap
    BY <2>1 DEF Range
  <2>5. QED
    BY <2>1, <2>2, <2>3, <2>4 DEF TypeOK
<1>2. QED
  BY <1>1, IndInvHolds, PTL

\* An id that is in use always leads to its own timer: CallTimer and RemoveTimer
\* take the right one, however the shifts have moved it.
THEOREM KeysAlwaysExact == Spec => []KeysExact
<1>1. IndInv => KeysExact
  BY DEF IndInv
<1>2. QED
  BY <1>1, IndInvHolds, PTL

\* A Timer object is in the heap, being called, or spare, once: no callback runs
\* on an object that the pool may hand out.
THEOREM TimersStayApart == Spec => []TimersApart
<1>1. IndInv => TimersApart
  <2> SUFFICES ASSUME IndInv PROVE TimersApart
    OBVIOUS
  <2>1. /\ HeapSize \in Nat /\ DOMAIN heap = 0 .. HeapSize - 1
        /\ \A x, y \in Range(heap) : x.timer = y.timer => x = y
        /\ running \in Seq(1 .. made) /\ IsInjective(running)
        /\ InHeap \cap Range(running) = {}
        /\ Busy \cap Range(objects) = {} /\ Busy = InHeap \cup Range(running)
        /\ used = HeapSize + Len(running)
    BY DEF IndInv, HeapOK, Apart, Busy
  <2>2. IsFiniteSet(InHeap) /\ Cardinality(InHeap) = HeapSize
    <3> DEFINE f == [i \in DOMAIN heap |-> heap[i].timer]
    <3>1. IsFiniteSet(DOMAIN heap)
      <4>1. 0 \in Int /\ HeapSize - 1 \in Int
        BY <2>1
      <4>2. QED
        BY <2>1, <4>1, FS_Interval
    <3>2. \A i, j \in DOMAIN heap : heap[i].timer = heap[j].timer => i = j
      BY <2>1, KeysDiffer DEF Range, Distinct, IndInv
    <3>3. f \in [DOMAIN heap -> InHeap] /\ \A x \in InHeap : \E i \in DOMAIN heap : f[i] = x
      BY DEF InHeap
    <3>4. f \in Bijection(DOMAIN heap, InHeap)
      BY <3>2, <3>3 DEF Bijection, Injection, Surjection, IsInjective
    <3>5. IsFiniteSet(InHeap) /\ Cardinality(InHeap) = Cardinality(DOMAIN heap)
      BY <3>1, <3>4, FS_Bijection DEF ExistsBijection
    <3>6. QED
      BY <3>5 DEF HeapSize
  <2>3. IsFiniteSet(Range(running)) /\ Cardinality(Range(running)) = Len(running) /\ Len(running) \in Nat
    <3>1. Len(running) \in Nat /\ DOMAIN running = 1 .. Len(running)
      BY <2>1
    <3>2. IsFiniteSet(1 .. Len(running)) /\ Cardinality(1 .. Len(running)) = Len(running)
      <4>1. 1 \in Int /\ Len(running) \in Int
        BY <3>1
      <4>2. /\ IsFiniteSet(1 .. Len(running))
            /\ Cardinality(1 .. Len(running)) = IF 1 > Len(running) THEN 0 ELSE Len(running) - 1 + 1
        BY <4>1, FS_Interval
      <4>3. QED
        BY <3>1, <4>2
    <3>3. running \in [DOMAIN running -> Range(running)]
      BY <2>1, <3>1 DEF Range
    <3>4. running \in Bijection(1 .. Len(running), Range(running))
      BY <2>1, <3>1, <3>3 DEF Bijection, Injection, Surjection, IsInjective, Range
    <3>5. QED
      BY <3>1, <3>2, <3>4, FS_Bijection DEF ExistsBijection
  <2>4. Cardinality(Busy) = HeapSize + Len(running)
    <3>1. Cardinality(InHeap \cup Range(running))
            = Cardinality(InHeap) + Cardinality(Range(running)) - Cardinality(InHeap \cap Range(running))
      BY <2>2, <2>3, FS_Union
    <3>2. Cardinality(InHeap \cap Range(running)) = 0
      BY <2>1, FS_EmptySet
    <3>3. QED
      BY <2>1, <2>2, <2>3, <3>1, <3>2
  <2>5. QED
    BY <2>1, <2>4 DEF TimersApart
<1>2. QED
  BY <1>1, IndInvHolds, PTL

\* A step that neither calls nor removes a timer from the middle of the heap by
\* its id leaves the heap in order, if it was.
THEOREM OrderIsKept == Spec => OrderKept
<1>1. IndInv /\ [Next]_vars => [HeapOrdered /\ ~TakenFromTheMiddle => HeapOrdered']_heapVars
  <2> SUFFICES ASSUME IndInv, [Next]_vars, ~(UNCHANGED heapVars), HeapOrdered, ~TakenFromTheMiddle
               PROVE  HeapOrdered'
    OBVIOUS
  <2>1. HeapOK /\ KeysExact /\ FreeOK /\ HeapParts
    BY DEF IndInv, HeapParts
  <2>2. ASSUME NEW delay \in 0 .. MaxTime, CreateTimer(delay) PROVE HeapOrdered'
    <3> DEFINE o == Pool!Spare
               t == now + delay
    <3>1. Emplace(o, t)
      BY <2>2 DEF CreateTimer
    <3>2. o \in Nat
      <4>1. PoolOK /\ Pool!Get
        BY <2>2 DEF IndInv, CreateTimer
      <4>2. o \in 1 .. made
        BY <4>1, GetFacts
      <4>3. QED
        BY <4>2
    <3>3. t \in Nat
      BY DEF IndInv, Bounds
    <3>4. Head(free) \in Nat /\ Head(free) \notin DOMAIN pos
      BY <2>1, HeadTailFacts DEF FreeOK
    <3> HIDE DEF o, t
    <3>5. QED
      BY <2>1, <3>1, <3>2, <3>3, <3>4, EmplaceFacts
  <2>3. ASSUME NEW id \in DOMAIN pos, Pop(pos[id]) PROVE HeapOrdered'
    <3> DEFINE i == pos[id]
    <3>1. i \in DOMAIN heap /\ heap[i].key = id
      BY <2>1, KeyLeads
    <3>2. DOMAIN pos' = DOMAIN pos \ {id} /\ (i \in {0, HeapSize - 1} /\ HeapOrdered => HeapOrdered')
      <4>1. Pop(i)
        BY <2>3
      <4> HIDE DEF i
      <4>2. QED
        BY <2>1, <3>1, <4>1, PopFacts
    <3>3. i \in {0, HeapSize - 1}
      BY <3>2 DEF TakenFromTheMiddle
    <3>4. QED
      BY <3>2, <3>3
  <2>4. CASE UpdateCalls
    <3>1. Pop(0) /\ HeapSize > 0
      BY <2>4 DEF UpdateCalls, Due
    <3>2. 0 \in DOMAIN heap
      BY <2>1, <3>1 DEF HeapOK
    <3>3. QED
      BY <2>1, <3>1, <3>2, PopFacts
  <2>5. CASE UpdateBegins \/ UpdateEnds \/ CallbackReturns \/ Tick \/ UNCHANGED vars
    BY <2>5 DEF UpdateBegins, UpdateEnds, CallbackReturns, Tick, vars
  <2>6. QED
    BY <2>2, <2>3, <2>4, <2>5 DEF Next, CallTimer, RemoveTimer
<1>2. QED
  BY <1>1, IndInvHolds, PTL DEF Spec, OrderKept

------------------------------------------------------------------------------
(***************************************************************************)
(* The heap of timers is a TimerSet.                                       *)
(***************************************************************************)
\* The timers and times under the ids that are in use.
Entry(n) == [timer |-> n.timer, time |-> n.time]
Pending == [k \in DOMAIN pos |-> [timer |-> heap[pos[k]].timer, time |-> heap[pos[k]].time]]

\* The table of ids shows the nodes of the heap, and nothing else.
Shown ==
  /\ \A n \in Range(heap) : n.key \in DOMAIN Pending /\ Pending[n.key] = Entry(n)
  /\ \A k \in DOMAIN Pending : \E n \in Range(heap) : n.key = k

LEMMA NodesAreShown == KeysExact => Shown
<1> SUFFICES ASSUME KeysExact PROVE Shown
  OBVIOUS
<1>1. DOMAIN Pending = DOMAIN pos
  BY DEF Pending
<1>2. ASSUME NEW n \in Range(heap) PROVE n.key \in DOMAIN Pending /\ Pending[n.key] = Entry(n)
  <2>1. n.key \in DOMAIN pos /\ heap[pos[n.key]] = n
    BY KeyLeads
  <2>2. QED
    BY <2>1 DEF Pending, Entry
<1>3. ASSUME NEW k \in DOMAIN pos PROVE \E n \in Range(heap) : n.key = k
  <2>1. pos[k] \in DOMAIN heap /\ heap[pos[k]].key = k
    BY KeyLeads
  <2>2. QED
    BY <2>1 DEF Range
<1>4. QED
  BY <1>1, <1>2, <1>3 DEF Shown

\* A node that leaves the heap takes its id away.
LEMMA PopTakes ==
  ASSUME IndInv, NEW i \in DOMAIN heap, Pop(i), UNCHANGED created
  PROVE  /\ heap[i].key \in DOMAIN Pending /\ Pending[heap[i].key] = Entry(heap[i])
         /\ Pending' = [k \in DOMAIN Pending \ {heap[i].key} |-> Pending[k]]
<1> DEFINE n == heap[i]
           id == n.key
<1>1. HeapParts /\ KeysExact /\ created \in Nat
  BY DEF IndInv, HeapParts, Bounds
<1>2. /\ HeapParts' /\ Range(heap') = Range(heap) \ {n} /\ n \in Range(heap)
      /\ DOMAIN pos' = DOMAIN pos \ {id}
  BY <1>1, NodeLeaves
<1> HIDE DEF n
<1>3. Shown /\ Shown'
  BY <1>1, <1>2, NodesAreShown, PTL DEF HeapParts
<1>4. /\ \A m \in Range(heap) : m.key \in DOMAIN Pending /\ Pending[m.key] = Entry(m)
      /\ \A k \in DOMAIN Pending : \E m \in Range(heap) : m.key = k
      /\ \A m \in Range(heap') : m.key \in DOMAIN Pending' /\ Pending'[m.key] = Entry(m)
  BY <1>3 DEF Shown, Entry
<1>5. DOMAIN Pending = DOMAIN pos /\ DOMAIN Pending' = DOMAIN pos'
  BY DEF Pending
<1>6. ASSUME NEW k \in DOMAIN Pending \ {id} PROVE Pending'[k] = Pending[k]
  <2>1. PICK m \in Range(heap) : m.key = k
    BY <1>4
  <2>2. m \in Range(heap')
    BY <1>2, <1>6, <2>1
  <2>3. QED
    BY <1>4, <2>1, <2>2
<1>7. Pending' = [k \in DOMAIN Pending' |-> Pending'[k]]
  BY DEF Pending
<1>8. QED
  BY <1>2, <1>4, <1>5, <1>6, <1>7 DEF n

LEMMA EntryIs == ASSUME NEW n PROVE Entry(n).timer = n.timer /\ Entry(n).time = n.time
BY DEF Entry

LEMMA IdSteps ==
  ASSUME NEW id \in DOMAIN Pending, Abstract!Remove(id) \/ Abstract!Call(id) \/ Abstract!Fire(id)
  PROVE  Abstract!Next
BY DEF Abstract!Next, Pending

LEMMA AbstractPending ==
  [k \in DOMAIN pos |-> [timer |-> heap[pos[k]].timer, time |-> heap[pos[k]].time]] = Pending
BY DEF Pending

LEMMA CreateTimerCreates ==
  ASSUME IndInv, NEW delay \in 0 .. MaxTime, CreateTimer(delay)
  PROVE  \E id \in 0 .. MaxTimers, t \in 1 .. MaxObjects, time \in 0 .. MaxTime :
            Abstract!Create(id, t, time)
<1> DEFINE o == Pool!Spare
           t == now + delay
           n == NewNode(o, t)
           h == Head(free)
<1>1. /\ HeapOK /\ KeysExact /\ FreeOK /\ Numbered /\ PoolOK /\ Apart /\ Bounds /\ ApplicationActs
      /\ created' = created + 1 /\ created < MaxTimers /\ t <= MaxTime
      /\ Pool!Get /\ o \in 1 .. MaxObjects /\ Emplace(o, t)
      /\ UNCHANGED <<now, update, running>>
  BY DEF IndInv, CreateTimer
<1>2. t \in 0 .. MaxTime /\ t \in Nat /\ o \in Nat /\ created \in Nat /\ MaxTimers \in Nat
  BY <1>1, BoundAssumption DEF Bounds
<1>3. o \in Range(objects)
  BY <1>1, GetFacts
<1> HIDE DEF o, t
<1>4. h \in Nat /\ h \notin DOMAIN pos /\ h <= created
  <2>1. h \in Nat /\ h \notin DOMAIN pos
    BY <1>1, HeadTailFacts DEF FreeOK
  <2>2. h = free[1] /\ 1 \in 1 .. Len(free)
    BY <1>1, EmptySeq DEF FreeOK
  <2>3. free[1] <= created + 1 - 1
    BY <1>1, <2>2 DEF Numbered
  <2>4. QED
    BY <1>2, <2>1, <2>2, <2>3
<1>5. /\ KeysExact' /\ Range(heap') = Range(heap) \cup {n} /\ DOMAIN pos' = DOMAIN pos \cup {h}
  BY <1>1, <1>2, <1>4, EmplaceFacts
<1>6. n.key = h /\ Entry(n) = [timer |-> o, time |-> t]
  BY DEF NewNode, Entry
<1> HIDE DEF n, h
<1>7. Shown /\ Shown'
  BY <1>1, <1>5, NodesAreShown, PTL
<1>8. /\ \A m \in Range(heap) : m.key \in DOMAIN Pending /\ Pending[m.key] = Entry(m)
      /\ \A k \in DOMAIN Pending : \E m \in Range(heap) : m.key = k
      /\ \A m \in Range(heap') : m.key \in DOMAIN Pending' /\ Pending'[m.key] = Entry(m)
  BY <1>7 DEF Shown, Entry
<1>9. DOMAIN Pending = DOMAIN pos /\ DOMAIN Pending' = DOMAIN pos'
  BY DEF Pending
<1>10. Pending' = [k \in DOMAIN Pending \cup {h} |-> IF k = h THEN [timer |-> o, time |-> t] ELSE Pending[k]]
  <2>1. Pending'[h] = [timer |-> o, time |-> t]
    BY <1>5, <1>6, <1>8
  <2>2. ASSUME NEW k \in DOMAIN Pending PROVE Pending'[k] = Pending[k] /\ k # h
    <3>1. PICK m \in Range(heap) : m.key = k
      BY <1>8
    <3>2. QED
      BY <1>4, <1>5, <1>8, <1>9, <3>1
  <2>3. Pending' = [k \in DOMAIN Pending' |-> Pending'[k]]
    BY DEF Pending
  <2>4. QED
    BY <1>5, <1>9, <2>1, <2>2, <2>3
<1>11. \A k \in DOMAIN Pending : Pending[k].timer # o
  <2>1. SUFFICES ASSUME NEW k \in DOMAIN Pending PROVE Pending[k].timer # o
    OBVIOUS
  <2>2. PICK m \in Range(heap) : m.key = k
    BY <1>8
  <2>3. m.timer \in InHeap /\ Pending[k].timer = m.timer
    BY <1>8, <2>2, InHeapIs, EntryIs
  <2>4. QED
    BY <1>1, <1>3, <2>3 DEF Apart, Busy
<1>12. \A k \in DOMAIN running : running[k] # o
  BY <1>1, <1>3 DEF Apart, Busy, Range
<1>13. h \in 0 .. MaxTimers
  BY <1>1, <1>2, <1>4
<1>14. PICK id, p, time : id = h /\ p = o /\ time = t
  OBVIOUS
<1>15. Abstract!Create(id, p, time)
  BY <1>1, <1>4, <1>9, <1>10, <1>11, <1>12, <1>14, AbstractPending
     DEF Abstract!Create, Abstract!ApplicationActs, ApplicationActs, Pending
<1>16. id \in 0 .. MaxTimers /\ p \in 1 .. MaxObjects /\ time \in 0 .. MaxTime
  BY <1>1, <1>2, <1>13, <1>14
<1>17. QED
  BY <1>15, <1>16

\* Every step of the timers is one of the TimerSet, or none.
LEMMA StepIsAbstract == IndInv /\ [Next]_vars => [Abstract!Next]_(Abstract!vars)
<1> SUFFICES ASSUME IndInv, [Next]_vars PROVE Abstract!Next \/ UNCHANGED Abstract!vars
  OBVIOUS
<1>1. KeysExact /\ HeapOK /\ Bounds
  BY DEF IndInv
<1>2. ASSUME NEW delay \in 0 .. MaxTime, CreateTimer(delay) PROVE Abstract!Next
  BY <1>2, CreateTimerCreates DEF Abstract!Next
<1>3. ASSUME NEW id \in DOMAIN pos
      PROVE  /\ pos[id] \in DOMAIN heap /\ heap[pos[id]].key = id
             /\ id \in DOMAIN Pending /\ Pending[id] = Entry(heap[pos[id]])
  BY <1>1, KeyLeads DEF Pending, Entry
<1>4. ASSUME NEW id \in DOMAIN pos, CallTimer(id) PROVE Abstract!Next
  <2> DEFINE i == pos[id]
  <2>1. /\ Pop(i) /\ created' = created /\ ApplicationActs /\ update' = update
        /\ running' = <<heap[i].timer>> \o running
    BY <1>4 DEF CallTimer
  <2>2. i \in DOMAIN heap /\ heap[i].key = id /\ id \in DOMAIN Pending /\ Pending[id].timer = heap[i].timer
    BY <1>3, EntryIs
  <2> HIDE DEF i
  <2>3. Pending' = [k \in DOMAIN Pending \ {id} |-> Pending[k]]
    BY <2>1, <2>2, PopTakes
  <2>4. Abstract!Call(id)
    BY <2>1, <2>2, <2>3
       DEF Abstract!Call, Abstract!Take, Abstract!Restrict, Abstract!ApplicationActs, ApplicationActs, Pending
  <2>5. QED
    BY <2>2, <2>4, IdSteps
<1>5. ASSUME NEW id \in DOMAIN pos, RemoveTimer(id) PROVE Abstract!Next
  <2> DEFINE i == pos[id]
  <2>1. /\ Pop(i) /\ created' = created /\ ApplicationActs /\ update' = update /\ running' = running
    BY <1>5 DEF RemoveTimer
  <2>2. i \in DOMAIN heap /\ heap[i].key = id /\ id \in DOMAIN Pending
    BY <1>3
  <2> HIDE DEF i
  <2>3. Pending' = [k \in DOMAIN Pending \ {id} |-> Pending[k]]
    BY <2>1, <2>2, PopTakes
  <2>4. Abstract!Remove(id)
    BY <2>1, <2>2, <2>3
       DEF Abstract!Remove, Abstract!Take, Abstract!Restrict, Abstract!ApplicationActs, ApplicationActs, Pending
  <2>5. QED
    BY <2>2, <2>4, IdSteps
<1>6. CASE UpdateCalls
  <2> DEFINE n == heap[0]
    <2>1. /\ Pop(0) /\ created' = created /\ update' = update /\ running = <<>> /\ update # NotUpdating
        /\ running' = <<n.timer>> /\ HeapSize > 0 /\ n.time <= update
    BY <1>6 DEF UpdateCalls, InLoop, Due, Top
  <2>2. 0 \in DOMAIN heap
    BY <1>1, <2>1 DEF HeapOK
  <2>3. PICK id : id = n.key
    OBVIOUS
  <2>4. /\ id \in DOMAIN Pending /\ Pending[id] = Entry(n)
        /\ Pending' = [k \in DOMAIN Pending \ {id} |-> Pending[k]]
    BY <2>1, <2>2, <2>3, PopTakes
  <2> HIDE DEF n
  <2>5. Pending[id].timer = n.timer /\ Pending[id].time = n.time
    BY <2>4, EntryIs
  <2>6. Abstract!Fire(id)
    BY <2>1, <2>4, <2>5 DEF Abstract!Fire, Abstract!Take, Abstract!Restrict, Pending
  <2>7. QED
    BY <2>4, <2>6, IdSteps
<1>7. CASE UpdateBegins
  <2>1. now \in 0 .. MaxTime
    BY <1>1 DEF Bounds
  <2>2. Abstract!Begin(now)
    BY <1>7 DEF UpdateBegins, Abstract!Begin, heapVars
  <2>3. QED
    BY <2>1, <2>2 DEF Abstract!Next
<1>8. CASE UpdateEnds
  <2>1. Abstract!End
    BY <1>8 DEF UpdateEnds, InLoop, Abstract!End, heapVars
  <2>2. QED
    BY <2>1 DEF Abstract!Next
<1>9. CASE CallbackReturns
  <2>1. Abstract!Return
    BY <1>9 DEF CallbackReturns, Abstract!Return, heapVars
  <2>2. QED
    BY <2>1 DEF Abstract!Next
<1>10. CASE Tick \/ UNCHANGED vars
  BY <1>10 DEF Tick, vars, heapVars, Abstract!vars
<1>11. QED
  BY <1>2, <1>4, <1>5, <1>6, <1>7, <1>8, <1>9, <1>10 DEF Next

\* A timer that has been created is called once, when due if by Update(), or is
\* removed before: the heap, its keys and its pool are a TimerSet.
THEOREM TimersAreTimerSet == Spec => ImplementsTimerSet
<1>1. Init => Abstract!Init
  BY DEF Init, Abstract!Init
<1>2. QED
  BY <1>1, StepIsAbstract, IndInvHolds, PTL DEF Spec, ImplementsTimerSet, Abstract!Spec
==============================================================================
