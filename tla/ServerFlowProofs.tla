--------------------------- MODULE ServerFlowProofs ---------------------------
(***************************************************************************)
(* Theorems about ServerFlow for every number of connections, events and   *)
(* sends, every queue size and every allocation size of the table.         *)
(***************************************************************************)
EXTENDS ServerFlow, RetryPipeProofs

(***************************************************************************)
(* The inductive invariant: of the pipe that of RetryPipeProofs, and ...   *)
(***************************************************************************)
Events == [kind : {"CONN", "RECV", "DISC"}, pid : Nat, conn : Conns]
Total == Cardinality(Opened)

FlowTypeOK ==
  /\ event \in Seq(Events) /\ Len(event) = issued
  /\ told \in [Conns -> {"nothing", "conn", "orphan", "disc"}]
  /\ openedBy \in [Conns -> Nat] /\ \A c \in Conns : openedBy[c] <= Total
  /\ sends \subseteq [pid : Nat, for : Conns]

\* Ids are in use by one open connection or free, and never all of them in use.
TableOK ==
  /\ size \in Nat /\ DOMAIN table \subseteq 0 .. size - 1
  /\ table \in [DOMAIN table -> Conns] /\ IsInjective(table)
  /\ free \in Seq(Nat) /\ free # <<>> /\ IsInjective(free)
  /\ Range(free) = (0 .. size - 1) \ DOMAIN table
Rows ==
  /\ TableOK
  /\ \A c \in Conns : told[c] \in {"conn", "orphan"} <=> c \in Range(table)

\* A connection that was called p is open under it, or p is given out to no
\* connection before the next but one after its end: p stands so far behind in
\* the queue of free ids, or its present owner came so late.
Behind(p, c) == \E q \in 1 .. Len(free) : free[q] = p /\ openedBy[c] + 1 < Total + q
Named(p, c) ==
  \/ p \in DOMAIN table /\ table[p] = c
  \/ /\ told[c] = "disc"
     /\ \/ p \in DOMAIN table /\ openedBy[c] + 1 < table[p]
        \/ Behind(p, c)
AllNamed ==
  /\ \A k \in 1 .. issued : Named(event[k].pid, event[k].conn)
  /\ \A s \in sends : Named(s.pid, s.for)

\* The events of each pid, in the order of issue, are the story of one
\* connection after the other.
Precedes(l, k) == /\ event[l].pid = event[k].pid
                  /\ \A m \in l + 1 .. k - 1 : event[m].pid # event[k].pid
Story ==
  \A k \in 1 .. issued :
    /\ \A l \in 1 .. k - 1 :
         Precedes(l, k) => \/ event[l].kind = "DISC"
                           \/ event[k].kind # "CONN" /\ event[l].conn = event[k].conn
    /\ (\A l \in 1 .. k - 1 : Precedes(l, k) => event[l].kind = "DISC") /\ event[k].kind # "CONN"
         => \A m \in 1 .. issued : event[m].conn = event[k].conn => event[m].kind # "CONN"

\* How the story of a pid ends so far, and what told says of it.
Latest(k) == \A m \in k + 1 .. issued : event[m].pid # event[k].pid
Present ==
  /\ \A k \in 1 .. issued :
       Latest(k) =>
         LET p == event[k].pid
         IN IF p \in DOMAIN table /\ table[p] = event[k].conn
            THEN event[k].kind # "DISC"
            ELSE event[k].kind = "DISC" /\ (p \in DOMAIN table => told[table[p]] = "orphan")
  /\ \A p \in DOMAIN table :
       told[table[p]] = "conn" => \E k \in 1 .. issued : event[k].pid = p /\ Latest(k)
  /\ \A k \in 1 .. issued :
       /\ told[event[k].conn] # "nothing"
       /\ event[k].kind = "CONN" => told[event[k].conn] # "orphan"

FlowInv == FlowTypeOK /\ Rows /\ AllNamed /\ Story /\ Present

------------------------------------------------------------------------------
(***************************************************************************)
(* The table.                                                              *)
(***************************************************************************)
\* The id that is handed out goes from the free ones to the table, and the
\* others come one place nearer.
LEMMA InsertFacts ==
  ASSUME TableOK, NEW c \in Conns, c \notin Range(table), Connection!Ids!Insert(c)
  PROVE  /\ Head(free) \in Nat /\ Head(free) \notin DOMAIN table
         /\ DOMAIN table' = DOMAIN table \cup {Head(free)}
         /\ table'[Head(free)] = c /\ \A p \in DOMAIN table : table'[p] = table[p]
         /\ Range(table') = Range(table) \cup {c}
         /\ \A q \in 2 .. Len(free) : q - 1 \in 1 .. Len(free') /\ free'[q - 1] = free[q]
         /\ TableOK'
<1> DEFINE h == Head(free)
<1>1. /\ h \in Nat /\ Tail(free) \in Seq(Nat) /\ Len(Tail(free)) = Len(free) - 1
      /\ Range(free) = {h} \cup Range(Tail(free))
      /\ IsInjective(Tail(free)) /\ h \notin Range(Tail(free))
  BY HeadTailFacts DEF TableOK
<1>2. h \in (0 .. size - 1) \ DOMAIN table
  BY <1>1 DEF TableOK
<1>3. table' = [id \in DOMAIN table \cup {h} |-> IF id = h THEN c ELSE table[id]]
  BY DEF Connection!Ids!Insert
<1>4. DOMAIN table' = DOMAIN table \cup {h}
  BY <1>3
<1>5. table'[h] = c /\ \A id \in DOMAIN table : table'[id] = table[id]
  BY <1>2, <1>3
<1>6. Range(table') = Range(table) \cup {c}
  BY <1>4, <1>5 DEF Range
<1>7. IsInjective(table')
  BY <1>2, <1>4, <1>5 DEF IsInjective, Range, TableOK
<1>8. table' \in [DOMAIN table' -> Conns]
  BY <1>3, <1>4, <1>5 DEF TableOK
<1>9. CASE Len(free) = 1
  <2>1. free' = Connection!Ids!NewIds(size) /\ size' = size + PsAllocNum
    BY <1>9 DEF Connection!Ids!Insert
  <2>2. /\ free' \in Seq(Nat) /\ free' # <<>> /\ IsInjective(free')
        /\ Range(free') = size .. size + PsAllocNum - 1
    BY <2>1, SuccessiveFacts, FlowAssumption DEF TableOK, Connection!Ids!NewIds
  <2>3. Range(Tail(free)) = {}
    BY <1>1, <1>9, EmptySeq DEF Range
  <2>4. DOMAIN table' = 0 .. size - 1
    BY <1>1, <1>4, <2>3 DEF TableOK
  <2>5. size' \in Nat /\ (0 .. size' - 1) \ (0 .. size - 1) = size .. size + PsAllocNum - 1
        /\ 0 .. size - 1 \subseteq 0 .. size' - 1
    BY <2>1, FlowAssumption DEF TableOK
  <2>6. TableOK'
    BY <1>7, <1>8, <2>2, <2>4, <2>5 DEF TableOK
  <2>7. 2 .. Len(free) = {}
    BY <1>9
  <2>8. QED
    BY <1>1, <1>2, <1>4, <1>5, <1>6, <2>6, <2>7
<1>10. CASE Len(free) # 1
  <2>1. free' = Tail(free) /\ size' = size
    BY <1>10 DEF Connection!Ids!Insert
  <2>2. free \in Seq(Nat) /\ Len(free) \in Nat \ {0, 1}
    BY <1>10, EmptySeq, LenProperties DEF TableOK
  <2>3. free' # <<>>
    <3>1. Len(free') # 0
      BY <1>1, <2>1, <2>2
    <3>2. QED
      BY <3>1
  <2>4. Range(free') = (0 .. size' - 1) \ DOMAIN table'
    BY <1>1, <1>4, <2>1 DEF TableOK
  <2>5. DOMAIN table' \subseteq 0 .. size' - 1 /\ size' \in Nat
    BY <1>2, <1>4, <2>1 DEF TableOK
  <2>6. TableOK'
    BY <1>1, <1>7, <1>8, <2>1, <2>3, <2>4, <2>5 DEF TableOK
  <2>7. ASSUME NEW q \in 2 .. Len(free) PROVE q - 1 \in 1 .. Len(free') /\ free'[q - 1] = free[q]
    <3>1. q - 1 \in 1 .. Len(free) - 1 /\ (q - 1) + 1 = q
      BY <2>2
    <3>2. \A i \in 1 .. Len(free) - 1 : Tail(free)[i] = free[i + 1]
      BY <2>2, HeadTailProperties
    <3>3. QED
      BY <1>1, <2>1, <3>1, <3>2
  <2>8. QED
    BY <1>1, <1>2, <1>4, <1>5, <1>6, <2>6, <2>7
<1>11. QED
  BY <1>9, <1>10

\* The id that is given back goes to the end of the free ones.
LEMMA EraseFacts ==
  ASSUME TableOK, NEW pid \in DOMAIN table, Connection!Ids!Erase(pid)
  PROVE  /\ pid \in Nat /\ table[pid] \in Conns
         /\ DOMAIN table' = DOMAIN table \ {pid}
         /\ \A p \in DOMAIN table' : table'[p] = table[p]
         /\ Range(table') = Range(table) \ {table[pid]}
         /\ Len(free) \in Nat \ {0} /\ Len(free') = Len(free) + 1 /\ free'[Len(free) + 1] = pid
         /\ \A q \in 1 .. Len(free) : free'[q] = free[q]
         /\ TableOK'
<1>1. /\ table' = [id \in DOMAIN table \ {pid} |-> table[id]] /\ size' = size
      /\ free' = Append(free, pid)
  BY DEF Connection!Ids!Erase, Connection!Ids!Restrict
<1>2. DOMAIN table' = DOMAIN table \ {pid} /\ \A id \in DOMAIN table' : table'[id] = table[id]
  BY <1>1
<1>3. Range(table') = Range(table) \ {table[pid]}
  BY <1>2 DEF Range, TableOK, IsInjective
<1>4. IsInjective(table') /\ table' \in [DOMAIN table' -> Conns]
  BY <1>1, <1>2 DEF TableOK, IsInjective
<1>5. pid \in Nat /\ pid \notin Range(free) /\ pid \in 0 .. size - 1
  BY DEF TableOK
<1>6. free \in Seq(Nat) /\ free # <<>> /\ Len(free) \in Nat \ {0}
  BY EmptySeq, LenProperties DEF TableOK
<1>7. /\ free' \in Seq(Nat) /\ Range(free') = Range(free) \cup {pid} /\ IsInjective(free')
      /\ Len(free') = Len(free) + 1
  BY <1>1, <1>5, AppendFacts DEF TableOK
<1>8. free'[Len(free) + 1] = pid /\ \A q \in 1 .. Len(free) : free'[q] = free[q]
  BY <1>1, <1>5, <1>6, AppendProperties
<1>9. free' # <<>>
  BY <1>6, <1>7
<1>10. TableOK'
  BY <1>1, <1>2, <1>4, <1>5, <1>7, <1>9 DEF TableOK
<1>11. QED
  BY <1>2, <1>3, <1>5, <1>6, <1>7, <1>8, <1>10 DEF TableOK

------------------------------------------------------------------------------
(***************************************************************************)
(* Opening and closing.                                                    *)
(***************************************************************************)
LEMMA TotalIsNat == Total \in Nat /\ IsFiniteSet(Opened) /\ Opened \subseteq Conns
<1>1. IsFiniteSet(Conns)
  BY FS_Interval, FlowAssumption DEF Conns
<1>2. Opened \subseteq Conns
  BY DEF Opened
<1>3. QED
  BY <1>1, <1>2, FS_Subset, FS_CardinalityType DEF Total

LEMMA OpenFacts ==
  ASSUME FlowTypeOK, Rows, NEW c \in Conns, NEW reset \in BOOLEAN, Connection!Open(c, reset)
  PROVE  /\ told[c] = "nothing" /\ c \notin Range(table) /\ Connection!Ids!Insert(c)
         /\ told' = [told EXCEPT ![c] = IF reset THEN "orphan" ELSE "conn"]
         /\ told' \in [Conns -> {"nothing", "conn", "orphan", "disc"}]
         /\ Rows' /\ Total' = Total + 1
<1>1. /\ told[c] = "nothing" /\ Connection!Ids!Insert(c)
      /\ told' = [told EXCEPT ![c] = IF reset THEN "orphan" ELSE "conn"]
  BY DEF Connection!Open
<1>2. c \notin Range(table) /\ TableOK
  BY <1>1 DEF Rows
<1>3. told' \in [Conns -> {"nothing", "conn", "orphan", "disc"}]
      /\ \A d \in Conns : told'[d] = IF d = c THEN IF reset THEN "orphan" ELSE "conn" ELSE told[d]
  BY <1>1 DEF FlowTypeOK
<1>4. Range(table') = Range(table) \cup {c} /\ TableOK'
  BY <1>1, <1>2, InsertFacts
<1>5. Rows'
  BY <1>3, <1>4 DEF Rows
<1>6. Opened' = Opened \cup {c} /\ c \notin Opened
  BY <1>1, <1>3 DEF Opened
<1>7. Total' = Total + 1
  <2> HIDE DEF Opened
  <2>1. QED
    BY <1>6, TotalIsNat, FS_AddElement DEF Total
<1>8. QED
  BY <1>1, <1>2, <1>3, <1>5, <1>7

LEMMA CloseFacts ==
  ASSUME FlowTypeOK, Rows, NEW pid \in DOMAIN table, Connection!Close(pid)
  PROVE  /\ Connection!Ids!Erase(pid) /\ table[pid] \in Conns
         /\ told[table[pid]] \in {"conn", "orphan"}
         /\ told' = [told EXCEPT ![table[pid]] = "disc"]
         /\ told' \in [Conns -> {"nothing", "conn", "orphan", "disc"}]
         /\ Rows' /\ Total' = Total
<1>1. /\ Connection!Ids!Erase(pid)
      /\ told' = [told EXCEPT ![table[pid]] = "disc"]
  BY DEF Connection!Close
<1>2. TableOK /\ table[pid] \in Range(table) /\ table[pid] \in Conns
  BY DEF Rows, TableOK, Range
<1>3. told[table[pid]] \in {"conn", "orphan"}
  BY <1>2 DEF Rows
<1>4. told' \in [Conns -> {"nothing", "conn", "orphan", "disc"}]
      /\ \A d \in Conns : told'[d] = IF d = table[pid] THEN "disc" ELSE told[d]
  BY <1>1, <1>2 DEF FlowTypeOK
<1>5. Range(table') = Range(table) \ {table[pid]} /\ TableOK'
  BY <1>1, <1>2, EraseFacts
<1>6. Rows'
  BY <1>4, <1>5 DEF Rows
<1>7. Opened' = Opened
  BY <1>3, <1>4 DEF Opened
<1>8. QED
  BY <1>1, <1>2, <1>3, <1>4, <1>6, <1>7 DEF Total

\* Who was called p stays behind when the next connection is opened, ...
LEMMA OpenKeepsNames ==
  ASSUME FlowTypeOK, Rows, NEW reset \in BOOLEAN, NEW n \in Conns, n = Total + 1,
         Connection!Open(n, reset), openedBy' = openedBy,
         NEW p, NEW c \in Conns, Named(p, c)
  PROVE  Named(p, c)'
<1> DEFINE h == Head(free)
<1>1. /\ told[n] = "nothing" /\ n \notin Range(table) /\ Total' = Total + 1 /\ TableOK
      /\ \A d \in Conns : d # n => told'[d] = told[d]
  BY OpenFacts DEF Rows, FlowTypeOK
<1>2. /\ h \notin DOMAIN table /\ DOMAIN table' = DOMAIN table \cup {h} /\ table'[h] = n
      /\ \A i \in DOMAIN table : table'[i] = table[i]
      /\ \A q \in 2 .. Len(free) : q - 1 \in 1 .. Len(free') /\ free'[q - 1] = free[q]
  BY <1>1, OpenFacts, InsertFacts
<1>3. CASE p \in DOMAIN table /\ table[p] = c
  BY <1>2, <1>3 DEF Named
<1>4. CASE told[c] = "disc"
  <2>1. told'[c] = "disc"
    BY <1>1, <1>4
  <2>2. CASE p \in DOMAIN table /\ openedBy[c] + 1 < table[p]
    BY <1>2, <2>1, <2>2 DEF Named
  <2>3. CASE Behind(p, c)
    <3>1. PICK q \in 1 .. Len(free) : free[q] = p /\ openedBy[c] + 1 < Total + q
      BY <2>3 DEF Behind
    <3>2. openedBy[c] \in Nat /\ Total \in Nat /\ Len(free) \in Nat
      BY <1>1, TotalIsNat, LenProperties DEF FlowTypeOK, TableOK
    <3>3. CASE q = 1
      <4>1. p = h
        BY <1>1, <3>1, <3>3, HeadTailProperties DEF TableOK
      <4>2. openedBy[c] + 1 < n
        BY <3>1, <3>2, <3>3
      <4>3. QED
        BY <1>2, <2>1, <4>1, <4>2 DEF Named
    <3>4. CASE q # 1
      <4>1. q \in 2 .. Len(free) /\ Total' + (q - 1) = Total + q
        BY <1>1, <3>2, <3>4
      <4>2. q - 1 \in 1 .. Len(free') /\ free'[q - 1] = p
        BY <1>2, <3>1, <4>1
      <4>3. openedBy'[c] + 1 < Total' + (q - 1)
        BY <3>1, <4>1
      <4>4. Behind(p, c)'
        BY <4>2, <4>3 DEF Behind
      <4>5. QED
        BY <2>1, <4>4 DEF Named
    <3>5. QED
      BY <3>3, <3>4
  <2>4. CASE p \in DOMAIN table /\ table[p] = c
    BY <1>3, <2>4
  <2>5. QED
    BY <2>2, <2>3, <2>4 DEF Named
<1>5. QED
  BY <1>3, <1>4 DEF Named

\* ... and when one is closed, the one it belongs to itself then too.
LEMMA CloseKeepsNames ==
  ASSUME FlowTypeOK, Rows, NEW pid \in DOMAIN table, Connection!Close(pid),
         openedBy' = [openedBy EXCEPT ![table[pid]] = Total],
         NEW p, NEW c \in Conns, Named(p, c)
  PROVE  Named(p, c)'
<1> DEFINE d == table[pid]
           n == Len(free)
<1>1. /\ d \in Conns /\ told[d] \in {"conn", "orphan"} /\ Total' = Total /\ TableOK
      /\ \A i \in Conns : told'[i] = IF i = d THEN "disc" ELSE told[i]
      /\ \A i \in Conns : openedBy'[i] = IF i = d THEN Total ELSE openedBy[i]
  BY CloseFacts DEF Rows, FlowTypeOK
<1>2. /\ DOMAIN table' = DOMAIN table \ {pid} /\ \A i \in DOMAIN table' : table'[i] = table[i]
      /\ n \in Nat \ {0} /\ Len(free') = n + 1 /\ free'[n + 1] = pid
      /\ \A q \in 1 .. n : free'[q] = free[q]
  BY <1>1, CloseFacts, EraseFacts
<1>3. Total \in Nat /\ openedBy[c] \in Nat /\ openedBy[c] <= Total
  BY TotalIsNat DEF FlowTypeOK
<1> HIDE DEF n
<1>4. Total + 1 < Total + (n + 1) /\ openedBy[c] + 1 < Total + (n + 1) /\ n + 1 \in 1 .. n + 1
  BY <1>2, <1>3
<1>5. CASE p = pid /\ c = d
  <2>1. Behind(p, c)'
    BY <1>1, <1>2, <1>4, <1>5 DEF Behind
  <2>2. QED
    BY <1>1, <1>5, <2>1 DEF Named
<1>6. CASE p \in DOMAIN table /\ table[p] = c /\ p # pid
  BY <1>2, <1>6 DEF Named
<1>7. CASE told[c] = "disc"
  <2>1. told'[c] = "disc" /\ openedBy'[c] = openedBy[c]
    BY <1>1, <1>7
  <2>2. CASE p = pid
    <3>1. Behind(p, c)'
      BY <1>1, <1>2, <1>4, <2>1, <2>2 DEF Behind
    <3>2. QED
      BY <2>1, <3>1 DEF Named
  <2>3. CASE p # pid /\ p \in DOMAIN table /\ openedBy[c] + 1 < table[p]
    BY <1>2, <2>1, <2>3 DEF Named
  <2>4. CASE Behind(p, c)
    <3>1. PICK q \in 1 .. n : free[q] = p /\ openedBy[c] + 1 < Total + q
      BY <2>4 DEF Behind, n
    <3>2. q \in 1 .. n + 1
      BY <1>2
    <3>3. Behind(p, c)'
      BY <1>1, <1>2, <2>1, <3>1, <3>2 DEF Behind
    <3>4. QED
      BY <2>1, <3>3 DEF Named
  <2>5. CASE p \in DOMAIN table /\ table[p] = c
    BY <1>5, <1>6, <2>5
  <2>6. QED
    BY <2>2, <2>3, <2>4, <2>5 DEF Named
<1>8. QED
  BY <1>5, <1>6, <1>7 DEF Named

------------------------------------------------------------------------------
(***************************************************************************)
(* An event is issued.                                                     *)
(***************************************************************************)
LEMMA RecvFacts ==
  ASSUME FlowTypeOK, NEW kind \in {"CONN", "RECV", "DISC"}, NEW pid \in Nat, NEW c \in Conns,
         Recv(kind, pid, c)
  PROVE  /\ issued \in Nat /\ issued' = issued + 1
         /\ event' \in Seq(Events) /\ Len(event') = issued'
         /\ event'[issued + 1].kind = kind /\ event'[issued + 1].pid = pid
         /\ event'[issued + 1].conn = c
         /\ \A k \in 1 .. issued : event'[k] = event[k] /\ event[k] \in Events
<1> DEFINE e == [kind |-> kind, pid |-> pid, conn |-> c]
<1>1. e \in Events
  BY DEF Events
<1>2. /\ event \in Seq(Events) /\ Len(event) = issued /\ issued \in Nat
      /\ issued' = issued + 1 /\ event' = Append(event, e)
  BY LenProperties DEF FlowTypeOK, Recv, Issue
<1> HIDE DEF e
<1>3. /\ event' \in Seq(Events) /\ Len(event') = issued + 1 /\ event'[issued + 1] = e
      /\ \A k \in 1 .. issued : event'[k] = event[k]
  BY <1>1, <1>2, AppendProperties
<1>4. \A k \in 1 .. issued : event[k] \in Events
  BY <1>2, ElementOfSeq
<1>5. e.kind = kind /\ e.pid = pid /\ e.conn = c
  BY DEF e
<1>6. QED
  BY <1>2, <1>3, <1>4, <1>5

\* The next event of a pid follows on the one that was the latest.
LEMMA LatestGrows ==
  ASSUME FlowTypeOK, NEW kind \in {"CONN", "RECV", "DISC"}, NEW pid \in Nat, NEW c \in Conns,
         Recv(kind, pid, c), NEW n, n = issued + 1
  PROVE  /\ \A k \in 1 .. issued : Latest(k)' <=> Latest(k) /\ event[k].pid # pid
         /\ Latest(n)'
         /\ \A k \in 1 .. issued : \A l \in 1 .. k - 1 : Precedes(l, k)' <=> Precedes(l, k)
         /\ \A l \in 1 .. issued : Precedes(l, n)' <=> Latest(l) /\ event[l].pid = pid
<1>1. /\ issued \in Nat /\ issued' = issued + 1 /\ event'[n].pid = pid
      /\ \A k \in 1 .. issued : event'[k] = event[k]
  BY RecvFacts
<1>2. ASSUME NEW k \in 1 .. issued PROVE Latest(k)' <=> Latest(k) /\ event[k].pid # pid
  <2>1. k + 1 .. issued' = (k + 1 .. issued) \cup {n} /\ k + 1 .. issued \subseteq 1 .. issued
    BY <1>1
  <2>2. QED
    BY <1>1, <2>1 DEF Latest
<1>3. Latest(n)'
  <2>1. n + 1 .. issued' = {}
    BY <1>1
  <2>2. QED
    BY <1>1, <2>1 DEF Latest
<1>4. ASSUME NEW k \in 1 .. issued, NEW l \in 1 .. k - 1 PROVE Precedes(l, k)' <=> Precedes(l, k)
  <2>1. l + 1 .. k - 1 \subseteq 1 .. issued /\ l \in 1 .. issued
    BY <1>1
  <2>2. QED
    BY <1>1, <2>1 DEF Precedes
<1>5. ASSUME NEW l \in 1 .. issued
      PROVE  Precedes(l, n)' <=> Latest(l) /\ event[l].pid = pid
  <2>1. l + 1 .. issued \subseteq 1 .. issued /\ n - 1 = issued
    BY <1>1
  <2>2. QED
    BY <1>1, <2>1 DEF Precedes, Latest
<1>6. QED
  BY <1>2, <1>3, <1>4, <1>5

LEMMA StoryGrows ==
  ASSUME FlowTypeOK, Story,
         NEW kind \in {"CONN", "RECV", "DISC"}, NEW pid \in Nat, NEW c \in Conns, Recv(kind, pid, c),
         \A l \in 1 .. issued :
           Latest(l) /\ event[l].pid = pid =>
             event[l].kind = "DISC" \/ (kind # "CONN" /\ event[l].conn = c),
         (\A l \in 1 .. issued : Latest(l) /\ event[l].pid = pid => event[l].kind = "DISC")
           /\ kind # "CONN" => \A m \in 1 .. issued : event[m].conn = c => event[m].kind # "CONN",
         kind = "CONN" => \A m \in 1 .. issued : event[m].conn # c
  PROVE  Story'
<1>0. PICK n : n = issued + 1
  OBVIOUS
<1>1. /\ issued \in Nat /\ issued' = issued + 1
      /\ event'[n].kind = kind /\ event'[n].conn = c
      /\ \A k \in 1 .. issued : event'[k] = event[k]
  BY <1>0, RecvFacts
<1>2. 1 .. issued' = (1 .. issued) \cup {n}
  BY <1>0, <1>1
<1>3. ASSUME NEW k \in 1 .. issued
      PROVE  /\ \A l \in 1 .. k - 1 :
                  Precedes(l, k)' => \/ event'[l].kind = "DISC"
                                     \/ event'[k].kind # "CONN" /\ event'[l].conn = event'[k].conn
             /\ (\A l \in 1 .. k - 1 : Precedes(l, k)' => event'[l].kind = "DISC")
                  /\ event'[k].kind # "CONN"
                  => \A m \in 1 .. issued' : event'[m].conn = event'[k].conn => event'[m].kind # "CONN"
  <2>1. \A l \in 1 .. k - 1 : l \in 1 .. issued /\ (Precedes(l, k)' <=> Precedes(l, k))
    BY <1>0, <1>1, LatestGrows
  <2>2. /\ \A l \in 1 .. k - 1 :
             Precedes(l, k) => \/ event[l].kind = "DISC"
                               \/ event[k].kind # "CONN" /\ event[l].conn = event[k].conn
        /\ (\A l \in 1 .. k - 1 : Precedes(l, k) => event[l].kind = "DISC") /\ event[k].kind # "CONN"
             => \A m \in 1 .. issued : event[m].conn = event[k].conn => event[m].kind # "CONN"
    BY DEF Story
  <2>3. kind = "CONN" => event[k].conn # c
    OBVIOUS
  <2>4. QED
    BY <1>1, <1>2, <2>1, <2>2, <2>3
<1>4. /\ \A l \in 1 .. issued :
           Precedes(l, n)' => event'[l].kind = "DISC" \/ (kind # "CONN" /\ event'[l].conn = c)
      /\ (\A l \in 1 .. issued : Precedes(l, n)' => event'[l].kind = "DISC") /\ kind # "CONN"
           => \A m \in 1 .. issued' : event'[m].conn = c => event'[m].kind # "CONN"
  BY <1>0, <1>1, <1>2, LatestGrows
<1>5. 1 .. n - 1 = 1 .. issued
  BY <1>0, <1>1
<1>6. QED
  BY <1>1, <1>2, <1>3, <1>4, <1>5 DEF Story

\* Who is named by an event or by a send.
Called(p, c) == \/ \E k \in 1 .. issued : event[k].pid = p /\ event[k].conn = c
                \/ \E s \in sends : s.pid = p /\ s.for = c
EachNamed == \A p, d : Called(p, d) => Named(p, d)
LEMMA NamesAre == AllNamed <=> EachNamed
<1>1. AllNamed <=> /\ \A k \in 1 .. issued : Named(event[k].pid, event[k].conn)
                   /\ \A s \in sends : Named(s.pid, s.for)
  BY DEF AllNamed
<1>2. QED
  BY <1>1 DEF Called, EachNamed

LEMMA CalledGrows ==
  ASSUME FlowTypeOK, NEW kind \in {"CONN", "RECV", "DISC"}, NEW pid \in Nat, NEW conn \in Conns,
         Recv(kind, pid, conn), sends' = sends
  PROVE  \A p, c : Called(p, c)' => (Called(p, c) /\ c \in Conns) \/ (p = pid /\ c = conn)
<1>1. PICK i : i = issued + 1
  OBVIOUS
<1>2. /\ issued \in Nat /\ issued' = issued + 1 /\ event'[i].pid = pid /\ event'[i].conn = conn
      /\ \A k \in 1 .. issued : event'[k] = event[k] /\ event[k] \in Events
  BY <1>1, RecvFacts
<1>3. \A s \in sends : s.for \in Conns
  BY DEF FlowTypeOK
<1>4. ASSUME NEW p, NEW c, Called(p, c)'
      PROVE  (Called(p, c) /\ c \in Conns) \/ (p = pid /\ c = conn)
  <2>1. CASE \E k \in 1 .. issued' : event'[k].pid = p /\ event'[k].conn = c
    <3>1. PICK k \in 1 .. issued' : event'[k].pid = p /\ event'[k].conn = c
      BY <2>1
    <3>2. k = i \/ k \in 1 .. issued
      BY <1>1, <1>2
    <3>3. k \in 1 .. issued => event[k].conn \in Conns
      BY <1>2 DEF Events
    <3>4. QED
      BY <1>2, <3>1, <3>2, <3>3 DEF Called
  <2>2. CASE \E s \in sends : s.pid = p /\ s.for = c
    <3>1. PICK s \in sends : s.pid = p /\ s.for = c
      BY <2>2
    <3>2. QED
      BY <1>3, <3>1 DEF Called
  <2>3. QED
    BY <1>4, <2>1, <2>2 DEF Called
<1>5. QED
  BY <1>4

------------------------------------------------------------------------------
(***************************************************************************)
(* The steps.                                                              *)
(***************************************************************************)
LEMMA AddPeerStep ==
  ASSUME FlowInv, NEW reset \in BOOLEAN, AddPeer(reset)
  PROVE  FlowInv'
<1>1. PICK n, h : n = Total + 1 /\ h = Head(free)
  OBVIOUS
<1>2. /\ n \in Conns /\ Connection!Open(n, reset) /\ openedBy' = openedBy /\ sends' = sends
      /\ IF reset THEN UNCHANGED <<vars, event>> ELSE Recv("CONN", h, n)
  BY <1>1 DEF AddPeer, Total
<1>3. FlowTypeOK /\ Rows /\ AllNamed /\ Story /\ Present /\ TableOK
  BY DEF FlowInv, Rows
<1>4. /\ told[n] = "nothing" /\ n \notin Range(table) /\ Connection!Ids!Insert(n)
      /\ told' \in [Conns -> {"nothing", "conn", "orphan", "disc"}]
      /\ \A c \in Conns : told'[c] = IF c = n THEN IF reset THEN "orphan" ELSE "conn" ELSE told[c]
      /\ Rows' /\ Total' = Total + 1 /\ Total \in Nat
  BY <1>2, <1>3, OpenFacts, TotalIsNat DEF FlowTypeOK
<1>5. /\ h \in Nat /\ h \notin DOMAIN table /\ DOMAIN table' = DOMAIN table \cup {h}
      /\ table'[h] = n /\ \A p \in DOMAIN table : table'[p] = table[p]
  BY <1>1, <1>2, <1>3, <1>4, InsertFacts
<1>6. \A p \in DOMAIN table : table[p] \in Conns /\ table[p] # n
  BY <1>3, <1>4 DEF TableOK, Range
<1>7. \A c \in Conns : openedBy'[c] <= Total'
  BY <1>2, <1>3, <1>4 DEF FlowTypeOK
<1>8. \A p : \A c \in Conns : Named(p, c) => Named(p, c)'
  BY <1>1, <1>2, <1>3, OpenKeepsNames
<1>9. /\ issued \in Nat /\ \A k \in 1 .. issued : event[k] \in Events
      /\ \A s \in sends : s.for \in Conns
  BY <1>3, LenProperties, ElementOfSeq DEF FlowTypeOK
<1>10. \A k \in 1 .. issued : event[k].conn \in Conns /\ event[k].conn # n
  BY <1>3, <1>4, <1>9 DEF Present, Events
<1>11. \A k \in 1 .. issued : Latest(k) /\ event[k].pid = h => event[k].kind = "DISC"
  BY <1>3, <1>5 DEF Present
<1>12. \A k \in 1 .. issued :
         Latest(k) /\ event[k].pid # h =>
           LET p == event[k].pid
           IN IF p \in DOMAIN table' /\ table'[p] = event[k].conn
              THEN event[k].kind # "DISC"
              ELSE event[k].kind = "DISC" /\ (p \in DOMAIN table' => told'[table'[p]] = "orphan")
  BY <1>3, <1>4, <1>5, <1>6 DEF Present
<1>13. \A k \in 1 .. issued :
         /\ told'[event[k].conn] # "nothing"
         /\ event[k].kind = "CONN" => told'[event[k].conn] # "orphan"
  BY <1>3, <1>4, <1>10 DEF Present
<1>14. CASE reset
  <2>1. UNCHANGED <<issued, event>>
    BY <1>2, <1>14 DEF vars
  <2>2. FlowTypeOK'
    BY <1>2, <1>3, <1>4, <1>7, <2>1 DEF FlowTypeOK
  <2>3. AllNamed'
    <3>1. \A p, c : Called(p, c)' => Called(p, c) /\ c \in Conns
      BY <1>2, <1>9, <1>10, <2>1 DEF Called
    <3>2. \A p, c : Called(p, c)' => Named(p, c)'
      BY <1>3, <1>8, <3>1, NamesAre DEF EachNamed
    <3>3. (AllNamed <=> EachNamed)'
      BY NamesAre, PTL
    <3>4. QED
      BY <3>2, <3>3 DEF EachNamed
  <2>4. Story'
    BY <1>3, <2>1 DEF Story, Precedes
  <2>5. \A k \in 1 .. issued : Latest(k)' <=> Latest(k)
    BY <2>1 DEF Latest
  <2>6. told'[n] = "orphan"
    BY <1>2, <1>4, <1>14
  <2>7. Present'
    <3>1. \A k \in 1 .. issued :
            Latest(k) =>
              LET p == event[k].pid
              IN IF p \in DOMAIN table' /\ table'[p] = event[k].conn
                 THEN event[k].kind # "DISC"
                 ELSE event[k].kind = "DISC" /\ (p \in DOMAIN table' => told'[table'[p]] = "orphan")
      BY <1>5, <1>10, <1>11, <1>12, <2>6
    <3>2. \A p \in DOMAIN table' :
            told'[table'[p]] = "conn" => \E k \in 1 .. issued : event[k].pid = p /\ Latest(k)
      BY <1>3, <1>4, <1>5, <1>6, <2>6 DEF Present
    <3>3. QED
      BY <1>13, <2>1, <2>5, <3>1, <3>2 DEF Present
  <2>8. QED
    BY <1>4, <2>2, <2>3, <2>4, <2>7 DEF FlowInv
<1>15. CASE ~reset
  <2>1. PICK i : i = issued + 1
    OBVIOUS
  <2>2. Recv("CONN", h, n)
    BY <1>2, <1>15
  <2>3. /\ issued' = issued + 1 /\ event' \in Seq(Events) /\ Len(event') = issued'
        /\ event'[i].kind = "CONN" /\ event'[i].pid = h /\ event'[i].conn = n
        /\ \A k \in 1 .. issued : event'[k] = event[k]
    BY <1>2, <1>3, <1>5, <2>1, <2>2, RecvFacts
  <2>4. 1 .. issued' = (1 .. issued) \cup {i}
    BY <1>9, <2>1, <2>3
  <2>5. (\A k \in 1 .. issued : Latest(k)' <=> Latest(k) /\ event[k].pid # h) /\ Latest(i)'
    BY <1>2, <1>3, <1>5, <2>1, <2>2, LatestGrows
  <2>6. FlowTypeOK'
    BY <1>2, <1>3, <1>4, <1>7, <2>3 DEF FlowTypeOK
  <2>7. AllNamed'
    <3>1. \A p, c : Called(p, c)' => (Called(p, c) /\ c \in Conns) \/ (p = h /\ c = n)
      BY <1>2, <1>3, <1>5, <2>2, CalledGrows
    <3>2. Named(h, n)'
      BY <1>5 DEF Named
    <3>3. \A p, c : Called(p, c)' => Named(p, c)'
      BY <1>3, <1>8, <3>1, <3>2, NamesAre DEF EachNamed
    <3>4. (AllNamed <=> EachNamed)'
      BY NamesAre, PTL
    <3>5. QED
      BY <3>3, <3>4 DEF EachNamed
  <2>8. Story'
    <3>1. \A l \in 1 .. issued : Latest(l) /\ event[l].pid = h => event[l].kind = "DISC"
      BY <1>11
    <3>2. \A m \in 1 .. issued : event[m].conn # n
      BY <1>10
    <3>3. \A l \in 1 .. issued :
            Latest(l) /\ event[l].pid = h =>
              event[l].kind = "DISC" \/ ("CONN" # "CONN" /\ event[l].conn = n)
      BY <3>1
    <3>4. "CONN" \in {"CONN", "RECV", "DISC"}
      OBVIOUS
    <3>5. FlowTypeOK /\ Story /\ h \in Nat /\ n \in Conns
      BY <1>2, <1>3, <1>5
    <3>6. QED
      BY <2>2, <3>2, <3>3, <3>4, <3>5, StoryGrows
  <2>9. told'[n] = "conn"
    BY <1>2, <1>4, <1>15
  <2>10. Present'
    <3>1. \A k \in 1 .. issued' :
            Latest(k)' =>
              LET p == event'[k].pid
              IN IF p \in DOMAIN table' /\ table'[p] = event'[k].conn
                 THEN event'[k].kind # "DISC"
                 ELSE event'[k].kind = "DISC" /\ (p \in DOMAIN table' => told'[table'[p]] = "orphan")
      BY <1>5, <1>12, <2>3, <2>4, <2>5
    <3>2. \A p \in DOMAIN table' :
            told'[table'[p]] = "conn" => \E k \in 1 .. issued' : event'[k].pid = p /\ Latest(k)'
      <4>1. ASSUME NEW p \in DOMAIN table, told'[table'[p]] = "conn"
            PROVE  \E k \in 1 .. issued : event[k].pid = p /\ Latest(k)
        BY <1>3, <1>4, <1>5, <1>6, <4>1 DEF Present
      <4>2. QED
        BY <1>5, <2>3, <2>4, <2>5, <4>1
    <3>3. \A k \in 1 .. issued' :
            /\ told'[event'[k].conn] # "nothing"
            /\ event'[k].kind = "CONN" => told'[event'[k].conn] # "orphan"
      BY <1>13, <2>3, <2>4, <2>9
    <3>4. QED
      BY <3>1, <3>2, <3>3 DEF Present
  <2>11. QED
    BY <1>4, <2>6, <2>7, <2>8, <2>10 DEF FlowInv
<1>16. QED
  BY <1>14, <1>15

LEMMA MessageReadStep ==
  ASSUME FlowInv, NEW pid, MessageRead(pid)
  PROVE  FlowInv'
<1>1. PICK i, c : i = issued + 1 /\ c = table[pid]
  OBVIOUS
<1>2. /\ pid \in DOMAIN table /\ Recv("RECV", pid, c)
      /\ UNCHANGED <<table, free, size, told, sends, openedBy>>
  BY <1>1 DEF MessageRead, connVars
<1>3. FlowTypeOK /\ Rows /\ AllNamed /\ Story /\ Present /\ TableOK
  BY DEF FlowInv, Rows
<1>4. pid \in Nat /\ c \in Conns /\ told[c] \in {"conn", "orphan"}
  BY <1>1, <1>2, <1>3 DEF Rows, TableOK, Range
<1>5. /\ issued \in Nat /\ issued' = issued + 1 /\ event' \in Seq(Events) /\ Len(event') = issued'
      /\ event'[i].kind = "RECV" /\ event'[i].pid = pid /\ event'[i].conn = c
      /\ \A k \in 1 .. issued : event'[k] = event[k] /\ event[k] \in Events
      /\ 1 .. issued' = (1 .. issued) \cup {i}
  BY <1>1, <1>2, <1>3, <1>4, RecvFacts
<1>6. (\A k \in 1 .. issued : Latest(k)' <=> Latest(k) /\ event[k].pid # pid) /\ Latest(i)'
  BY <1>1, <1>2, <1>3, <1>4, LatestGrows
<1>7. Total' = Total
  BY <1>2 DEF Total, Opened
<1>8. FlowTypeOK' /\ Rows'
  BY <1>2, <1>3, <1>5, <1>7 DEF FlowTypeOK, Rows, TableOK
<1>9. AllNamed'
  <2>1. \A p, d : Called(p, d)' => Called(p, d) \/ (p = pid /\ d = c)
    BY <1>2, <1>3, <1>4, CalledGrows
  <2>2. Named(pid, c)
    BY <1>1, <1>2 DEF Named
  <2>3. \A p, d : Named(p, d)' <=> Named(p, d)
    BY <1>2, <1>7 DEF Named, Behind
  <2>4. \A p, d : Called(p, d)' => Named(p, d)'
    BY <1>3, <2>1, <2>2, <2>3, NamesAre DEF EachNamed
  <2>5. (AllNamed <=> EachNamed)'
    BY NamesAre, PTL
  <2>6. QED
    BY <2>4, <2>5 DEF EachNamed
\* The message follows on what is reported of an open connection, or its
\* connection was reset before it was reported.
<1>10. \A l \in 1 .. issued :
         Latest(l) /\ event[l].pid = pid =>
           \/ event[l].conn = c /\ event[l].kind # "DISC"
           \/ event[l].kind = "DISC" /\ told[c] = "orphan"
  BY <1>1, <1>2, <1>3 DEF Present
<1>11. told[c] = "conn" => \E l \in 1 .. issued : event[l].pid = pid /\ Latest(l)
  BY <1>1, <1>2, <1>3 DEF Present
<1>12. told[c] = "orphan" => \A m \in 1 .. issued : event[m].conn = c => event[m].kind # "CONN"
  BY <1>3 DEF Present
<1>13. Story'
  <2>1. \A l \in 1 .. issued :
          Latest(l) /\ event[l].pid = pid =>
            event[l].kind = "DISC" \/ ("RECV" # "CONN" /\ event[l].conn = c)
    BY <1>10
  <2>2. (\A l \in 1 .. issued : Latest(l) /\ event[l].pid = pid => event[l].kind = "DISC")
          => \A m \in 1 .. issued : event[m].conn = c => event[m].kind # "CONN"
    BY <1>4, <1>10, <1>11, <1>12
  <2>3. "RECV" \in {"CONN", "RECV", "DISC"} /\ "RECV" # "CONN"
    OBVIOUS
  <2>4. QED
    BY <1>2, <1>3, <1>4, <2>1, <2>2, <2>3, StoryGrows
<1>14. Present'
  <2>1. \A k \in 1 .. issued' :
          Latest(k)' =>
            LET p == event'[k].pid
            IN IF p \in DOMAIN table' /\ table'[p] = event'[k].conn
               THEN event'[k].kind # "DISC"
               ELSE event'[k].kind = "DISC" /\ (p \in DOMAIN table' => told'[table'[p]] = "orphan")
    BY <1>1, <1>2, <1>3, <1>5, <1>6 DEF Present
  <2>2. \A p \in DOMAIN table' :
          told'[table'[p]] = "conn" => \E k \in 1 .. issued' : event'[k].pid = p /\ Latest(k)'
    <3>1. \A p \in DOMAIN table :
            told[table[p]] = "conn" => \E k \in 1 .. issued : event[k].pid = p /\ Latest(k)
      BY <1>3 DEF Present
    <3>2. QED
      BY <1>2, <1>5, <1>6, <3>1
  <2>3. \A k \in 1 .. issued' :
          /\ told'[event'[k].conn] # "nothing"
          /\ event'[k].kind = "CONN" => told'[event'[k].conn] # "orphan"
    BY <1>2, <1>3, <1>4, <1>5 DEF Present
  <2>4. QED
    BY <2>1, <2>2, <2>3 DEF Present
<1>15. QED
  BY <1>8, <1>9, <1>13, <1>14 DEF FlowInv

LEMMA DelPeerStep ==
  ASSUME FlowInv, NEW pid \in DOMAIN table, DelPeer(pid)
  PROVE  FlowInv'
<1>1. PICK i, c : i = issued + 1 /\ c = table[pid]
  OBVIOUS
<1>2. /\ Connection!Close(pid) /\ Recv("DISC", pid, c) /\ sends' = sends
      /\ openedBy' = [openedBy EXCEPT ![c] = Total]
  BY <1>1 DEF DelPeer, Total
<1>3. FlowTypeOK /\ Rows /\ AllNamed /\ Story /\ Present /\ TableOK
  BY DEF FlowInv, Rows
<1>4. /\ c \in Conns /\ told[c] \in {"conn", "orphan"} /\ Connection!Ids!Erase(pid)
      /\ told' \in [Conns -> {"nothing", "conn", "orphan", "disc"}]
      /\ \A d \in Conns : told'[d] = IF d = c THEN "disc" ELSE told[d]
      /\ Rows' /\ Total' = Total /\ Total \in Nat
  BY <1>1, <1>2, <1>3, CloseFacts, TotalIsNat DEF FlowTypeOK
<1>5. /\ pid \in Nat /\ DOMAIN table' = DOMAIN table \ {pid}
      /\ \A p \in DOMAIN table' : table'[p] = table[p]
  BY <1>1, <1>3, <1>4, EraseFacts
<1>6. \A p \in DOMAIN table' : table[p] \in Conns /\ table[p] # c
  BY <1>1, <1>3, <1>5 DEF TableOK, IsInjective
<1>7. /\ issued \in Nat /\ issued' = issued + 1 /\ event' \in Seq(Events) /\ Len(event') = issued'
      /\ event'[i].kind = "DISC" /\ event'[i].pid = pid /\ event'[i].conn = c
      /\ \A k \in 1 .. issued : event'[k] = event[k] /\ event[k] \in Events
      /\ 1 .. issued' = (1 .. issued) \cup {i}
  BY <1>1, <1>2, <1>3, <1>4, <1>5, RecvFacts
<1>8. (\A k \in 1 .. issued : Latest(k)' <=> Latest(k) /\ event[k].pid # pid) /\ Latest(i)'
  BY <1>1, <1>2, <1>3, <1>4, <1>5, LatestGrows
<1>9. FlowTypeOK'
  <2>1. openedBy' \in [Conns -> Nat] /\ \A d \in Conns : openedBy'[d] <= Total'
    BY <1>2, <1>3, <1>4 DEF FlowTypeOK
  <2>2. QED
    BY <1>2, <1>3, <1>4, <1>7, <2>1 DEF FlowTypeOK
<1>10. AllNamed'
  <2>1. \A p, d : Called(p, d)' => (Called(p, d) /\ d \in Conns) \/ (p = pid /\ d = c)
    BY <1>2, <1>3, <1>4, <1>5, CalledGrows
  <2>2. Named(pid, c)
    BY <1>1 DEF Named
  <2>3. \A p : \A d \in Conns : Named(p, d) => Named(p, d)'
    BY <1>1, <1>2, <1>3, CloseKeepsNames
  <2>4. \A p, d : Called(p, d)' => Named(p, d)'
    BY <1>3, <1>4, <2>1, <2>2, <2>3, NamesAre DEF EachNamed
  <2>5. (AllNamed <=> EachNamed)'
    BY NamesAre, PTL
  <2>6. QED
    BY <2>4, <2>5 DEF EachNamed
<1>11. \A l \in 1 .. issued :
         Latest(l) /\ event[l].pid = pid =>
           \/ event[l].conn = c /\ event[l].kind # "DISC"
           \/ event[l].kind = "DISC" /\ told[c] = "orphan"
  BY <1>1, <1>3 DEF Present
<1>12. told[c] = "conn" => \E l \in 1 .. issued : event[l].pid = pid /\ Latest(l)
  BY <1>1, <1>3 DEF Present
<1>13. told[c] = "orphan" => \A m \in 1 .. issued : event[m].conn = c => event[m].kind # "CONN"
  BY <1>3 DEF Present
<1>14. Story'
  <2>1. \A l \in 1 .. issued :
          Latest(l) /\ event[l].pid = pid =>
            event[l].kind = "DISC" \/ ("DISC" # "CONN" /\ event[l].conn = c)
    BY <1>11
  <2>2. (\A l \in 1 .. issued : Latest(l) /\ event[l].pid = pid => event[l].kind = "DISC")
          => \A m \in 1 .. issued : event[m].conn = c => event[m].kind # "CONN"
    BY <1>4, <1>11, <1>12, <1>13
  <2>3. "DISC" \in {"CONN", "RECV", "DISC"} /\ "DISC" # "CONN"
    OBVIOUS
  <2>4. QED
    BY <1>2, <1>3, <1>4, <1>5, <2>1, <2>2, <2>3, StoryGrows
<1>15. Present'
  <2>1. \A k \in 1 .. issued :
          Latest(k) /\ event[k].pid # pid =>
            LET p == event[k].pid
            IN IF p \in DOMAIN table' /\ table'[p] = event[k].conn
               THEN event[k].kind # "DISC"
               ELSE event[k].kind = "DISC" /\ (p \in DOMAIN table' => told'[table'[p]] = "orphan")
    BY <1>3, <1>4, <1>5, <1>6 DEF Present
  <2>2. \A k \in 1 .. issued' :
          Latest(k)' =>
            LET p == event'[k].pid
            IN IF p \in DOMAIN table' /\ table'[p] = event'[k].conn
               THEN event'[k].kind # "DISC"
               ELSE event'[k].kind = "DISC" /\ (p \in DOMAIN table' => told'[table'[p]] = "orphan")
    BY <1>5, <1>7, <1>8, <2>1
  <2>3. \A p \in DOMAIN table' :
          told'[table'[p]] = "conn" => \E k \in 1 .. issued' : event'[k].pid = p /\ Latest(k)'
    <3>1. \A p \in DOMAIN table' :
            told'[table'[p]] = "conn" => \E k \in 1 .. issued : event[k].pid = p /\ Latest(k)
      BY <1>3, <1>4, <1>5, <1>6 DEF Present
    <3>2. QED
      BY <1>5, <1>7, <1>8, <3>1
  <2>4. \A k \in 1 .. issued' :
          /\ told'[event'[k].conn] # "nothing"
          /\ event'[k].kind = "CONN" => told'[event'[k].conn] # "orphan"
    <3>1. \A k \in 1 .. issued : event[k].conn \in Conns
      BY <1>7 DEF Events
    <3>2. QED
      BY <1>3, <1>4, <1>7, <3>1 DEF Present
  <2>5. QED
    BY <2>2, <2>3, <2>4 DEF Present
<1>16. QED
  BY <1>4, <1>9, <1>10, <1>14, <1>15 DEF FlowInv

LEMMA OthersStep ==
  ASSUME FlowInv, UNCHANGED <<connVars, event, openedBy, issued>>,
         \A s \in sends' : s \in sends \/ (s \in [pid : Nat, for : Conns] /\ Called(s.pid, s.for))
  PROVE  FlowInv'
<1>1. FlowTypeOK /\ Rows /\ AllNamed /\ Story /\ Present
  BY DEF FlowInv
<1>2. UNCHANGED <<table, free, size, told, event, openedBy, issued>>
  BY DEF connVars
<1>3. Total' = Total
  BY <1>2 DEF Total, Opened
<1>4. FlowTypeOK'
  BY <1>1, <1>2, <1>3 DEF FlowTypeOK
<1>5. Rows'
  BY <1>1, <1>2 DEF Rows, TableOK
<1>6. AllNamed'
  <2>1. \A p, d : Called(p, d)' => Called(p, d)
    BY <1>2 DEF Called
  <2>2. \A p, d : Named(p, d)' <=> Named(p, d)
    BY <1>2, <1>3 DEF Named, Behind
  <2>3. EachNamed'
    BY <1>1, <2>1, <2>2, NamesAre DEF EachNamed
  <2>4. (AllNamed <=> EachNamed)'
    BY NamesAre, PTL
  <2>5. QED
    BY <2>3, <2>4
<1>7. Story'
  BY <1>1, <1>2 DEF Story, Precedes
<1>8. Present'
  BY <1>1, <1>2 DEF Present, Latest
<1>9. QED
  BY <1>4, <1>5, <1>6, <1>7, <1>8 DEF FlowInv

\* What the application has heard has been issued.
LEMMA HeardFacts ==
  ASSUME IndInv, FlowTypeOK
  PROVE  /\ issued \in Nat /\ Len(delivered) \in Nat /\ DOMAIN delivered = 1 .. Len(delivered)
         /\ DOMAIN Heard = DOMAIN delivered /\ DOMAIN event = 1 .. issued
         /\ \A i \in DOMAIN delivered : delivered[i] \in 1 .. issued /\ Heard[i] = event[delivered[i]]
         /\ \A k \in 1 .. issued : event[k] \in Events
<1>1. TypeOK /\ Apart
  BY IndInvParts
<1>2. /\ issued \in Nat /\ delivered \in Seq(Messages) /\ event \in Seq(Events) /\ Len(event) = issued
  BY <1>1 DEF TypeOK, FlowTypeOK
<1>3. DOMAIN delivered = 1 .. Len(delivered) /\ DOMAIN event = 1 .. issued /\ Len(delivered) \in Nat
  BY <1>2, LenProperties
<1>4. \A k \in 1 .. issued : event[k] \in Events
  BY <1>2, ElementOfSeq
<1>5. \A i \in DOMAIN delivered : delivered[i] \in 1 .. issued
  BY <1>1 DEF Apart, Range
<1>6. QED
  BY <1>2, <1>3, <1>4, <1>5 DEF Heard

LEMMA AnswerStep ==
  ASSUME IndInv, FlowInv, NEW e \in Range(Heard), SendAnswer(e)
  PROVE  FlowInv'
<1>1. UNCHANGED <<connVars, event, openedBy, issued>> /\ sends' = sends \cup {[pid |-> e.pid, for |-> e.conn]}
  BY DEF SendAnswer, vars
<1>2. FlowTypeOK
  BY DEF FlowInv
<1>3. PICK k \in 1 .. issued : e = event[k] /\ event[k] \in Events
  BY <1>2, HeardFacts DEF Range
<1>4. [pid |-> e.pid, for |-> e.conn] \in [pid : Nat, for : Conns]
  BY <1>3 DEF Events
<1>5. Called(e.pid, e.conn)
  BY <1>3 DEF Called
<1>6. QED
  BY <1>1, <1>4, <1>5, OthersStep

LEMMA FlowInitInv == FlowInit => FlowInv
<1> SUFFICES ASSUME FlowInit PROVE FlowInv
  OBVIOUS
<1>1. /\ issued = 0 /\ event = <<>> /\ sends = {} /\ openedBy = [c \in Conns |-> 0]
      /\ table = <<>> /\ free = Connection!Ids!NewIds(0) /\ size = PsAllocNum
      /\ told = [c \in Conns |-> "nothing"]
  BY DEF FlowInit, Init, Connection!Init, Connection!Ids!Init
<1>2. 1 .. issued = {}
  BY <1>1
<1>3. FlowTypeOK
  BY <1>1, TotalIsNat DEF FlowTypeOK
<1>4. Rows
  <2>1. /\ free \in Seq(Nat) /\ free # <<>> /\ IsInjective(free)
        /\ Range(free) = 0 .. 0 + PsAllocNum - 1
    BY <1>1, SuccessiveFacts, FlowAssumption DEF Connection!Ids!NewIds
  <2>2. DOMAIN table = {} /\ Range(table) = {} /\ IsInjective(table)
    BY <1>1, EmptyFacts
  <2>3. table \in [{} -> Conns]
    BY <1>1
  <2>4. size \in Nat /\ 0 .. 0 + PsAllocNum - 1 = 0 .. size - 1
    BY <1>1, FlowAssumption
  <2>5. TableOK
    BY <2>1, <2>2, <2>3, <2>4 DEF TableOK
  <2>6. QED
    BY <1>1, <2>2, <2>5 DEF Rows
<1>5. AllNamed /\ Story
  BY <1>1, <1>2 DEF AllNamed, Story
<1>6. Present
  BY <1>1, <1>2 DEF Present
<1>7. QED
  BY <1>3, <1>4, <1>5, <1>6 DEF FlowInv

\* Every step of the composition is one of the pipe or leaves it alone.
LEMMA FlowIsPipe == [FlowNext]_flowVars => [Next]_vars
BY DEF FlowNext, flowVars, AddPeer, MessageRead, DelPeer, Recv, SendArrives, SendAnswer, Next

LEMMA FlowNextInv == IndInv /\ FlowInv /\ [FlowNext]_flowVars => FlowInv'
<1> SUFFICES ASSUME IndInv, FlowInv, [FlowNext]_flowVars PROVE FlowInv'
  OBVIOUS
<1>1. CASE \E reset \in BOOLEAN : AddPeer(reset)
  BY <1>1, AddPeerStep
<1>2. CASE \E pid \in DOMAIN table : MessageRead(pid)
  BY <1>2, MessageReadStep
<1>3. CASE \E pid \in DOMAIN table : DelPeer(pid)
  BY <1>3, DelPeerStep
<1>4. CASE (Resume \/ Expire \/ Deliver) /\ UNCHANGED <<connVars, event, sends, openedBy>>
  BY <1>4, OthersStep DEF Resume, Expire, Deliver
<1>5. CASE \E e \in Range(Heard) : SendAnswer(e)
  BY <1>5, AnswerStep
<1>6. CASE \E s \in sends : SendArrives(s)
  BY <1>6, OthersStep DEF SendArrives, vars
<1>7. CASE UNCHANGED flowVars
  BY <1>7, OthersStep DEF flowVars, vars
<1>8. QED
  BY <1>1, <1>2, <1>3, <1>4, <1>5, <1>6, <1>7 DEF FlowNext

------------------------------------------------------------------------------
(***************************************************************************)
(* What the application hears under a pid no event of which has stalled.   *)
(***************************************************************************)
Unstalled(p) == \A k \in stalled : event[k].pid # p

\* It hears every event issued under the pid before this one, and in that order.
LEMMA HeardInTurn ==
  ASSUME IndInv, FlowTypeOK, NEW i \in DOMAIN delivered, Unstalled(Heard[i].pid)
  PROVE  /\ \A j \in Before(i) : delivered[j] < delivered[i]
         /\ \A j, k \in Before(i) : j < k => delivered[j] < delivered[k]
         /\ \A l \in 1 .. delivered[i] - 1 :
              event[l].pid = Heard[i].pid => \E j \in Before(i) : delivered[j] = l
<1> DEFINE n == Len(delivered)
           P == Heard[i].pid
<1>1. TypeOK /\ Apart /\ InOrder /\ Suspended
  BY IndInvParts
<1>2. /\ issued \in Nat /\ n \in Nat /\ DOMAIN delivered = 1 .. n
      /\ \A j \in 1 .. n : delivered[j] \in 1 .. issued /\ Heard[j] = event[delivered[j]]
  BY HeardFacts
<1>3. /\ delivered \in Seq(Messages) /\ queue \in Seq(Messages) /\ Len(queue) \in Nat
  BY <1>1, LenProperties DEF TypeOK
<1>4. /\ DOMAIN Arriving = 1 .. n + Len(queue)
      /\ \A j \in 1 .. n : Arriving[j] = delivered[j]
      /\ Range(Arriving) = Range(delivered) \cup Range(queue)
  BY <1>3, ConcatFacts, ConcatProperties, LenProperties DEF Arriving
<1>5. 1 .. n \subseteq 1 .. n + Len(queue) /\ i \in 1 .. n
  BY <1>2, <1>3
<1> HIDE DEF n
<1>6. ASSUME NEW j \in 1 .. n, NEW k \in 1 .. n, j < k, Heard[k].pid = P
      PROVE  delivered[j] < delivered[k]
  <2>1. delivered[k] \notin stalled
    BY <1>2, <1>6 DEF Unstalled
  <2>2. ~(Arriving[j] > Arriving[k])
    BY <1>1, <1>4, <1>5, <1>6, <2>1 DEF InOrder
  <2>3. delivered[j] # delivered[k]
    <3>1. IsInjective(delivered) /\ j # k
      BY <1>1, <1>2, <1>6 DEF Apart
    <3>2. QED
      BY <1>2, <3>1 DEF IsInjective
  <2>4. delivered[j] \in Nat /\ delivered[k] \in Nat
    BY <1>2
  <2>5. QED
    BY <1>4, <2>2, <2>3, <2>4
<1>7. \A j \in Before(i) : j \in 1 .. n /\ j < i /\ Heard[j].pid = P
  BY <1>2, <1>5 DEF Before
<1>8. ASSUME NEW l \in 1 .. delivered[i] - 1, event[l].pid = P
      PROVE  \E j \in Before(i) : delivered[j] = l
  <2>1. l \in 1 .. issued /\ l < delivered[i] /\ delivered[i] \in Nat /\ l \in Nat
    BY <1>2, <1>5
  <2>2. l \notin stalled
    BY <1>8 DEF Unstalled
  <2>3. l \in Range(Arriving)
    BY <1>1, <1>4, <2>1, <2>2 DEF Apart, Suspended
  <2>4. PICK j \in 1 .. n + Len(queue) : Arriving[j] = l
    BY <1>4, <2>3 DEF Range
  <2>5. j < i
    <3>1. j # i
      BY <1>4, <1>5, <2>1, <2>4
    <3>2. ~(i < j)
      BY <1>1, <1>4, <1>5, <2>1, <2>2, <2>4 DEF InOrder
    <3>3. QED
      BY <1>2, <1>3, <1>5, <3>1, <3>2
  <2>6. j \in 1 .. n /\ j \in 1 .. i - 1
    BY <1>2, <1>5, <2>5
  <2>7. delivered[j] = l /\ Heard[j] = event[l]
    BY <1>2, <1>4, <2>4, <2>6
  <2>8. QED
    BY <1>8, <2>6, <2>7 DEF Before
<1>9. QED
  BY <1>5, <1>6, <1>7, <1>8

LEMMA StoryIsHeard == IndInv /\ FlowInv => HeardInOrder
<1> SUFFICES ASSUME IndInv, FlowInv, NEW i \in DOMAIN delivered, Unstalled(Heard[i].pid)
             PROVE  Follows(i)
  BY DEF HeardInOrder, Unstalled
<1> DEFINE x == delivered[i]
           e == Heard[i]
<1>1. FlowTypeOK /\ Story
  BY DEF FlowInv
<1>2. /\ issued \in Nat /\ i \in Nat /\ x \in 1 .. issued /\ e = event[x] /\ e.kind \in {"CONN", "RECV", "DISC"}
      /\ \A j \in Before(i) : delivered[j] \in 1 .. issued /\ Heard[j] = event[delivered[j]]
      /\ Before(i) \subseteq 1 .. i - 1 /\ DOMAIN event = 1 .. issued
  BY <1>1, HeardFacts DEF Before, Events
<1>3. /\ \A l \in 1 .. x - 1 :
           Precedes(l, x) => event[l].kind = "DISC" \/ (e.kind # "CONN" /\ event[l].conn = e.conn)
      /\ (\A l \in 1 .. x - 1 : Precedes(l, x) => event[l].kind = "DISC") /\ e.kind # "CONN"
           => \A m \in DOMAIN event : event[m].conn = e.conn => event[m].kind # "CONN"
  BY <1>1, <1>2 DEF Story
<1>4. /\ \A j \in Before(i) : delivered[j] < x
      /\ \A j, k \in Before(i) : j < k => delivered[j] < delivered[k]
      /\ \A l \in 1 .. x - 1 : event[l].pid = e.pid => \E j \in Before(i) : delivered[j] = l
  BY <1>1, HeardInTurn
<1>5. CASE Before(i) = {}
  <2>1. \A l \in 1 .. x - 1 : ~Precedes(l, x)
    BY <1>2, <1>4, <1>5 DEF Precedes
  <2>2. QED
    BY <1>3, <1>5, <2>1 DEF Follows
<1>6. CASE Before(i) # {}
  <2> DEFINE j == CHOOSE j \in Before(i) : \A k \in Before(i) : k <= j
             l == delivered[j]
  <2>1. j \in Before(i) /\ \A k \in Before(i) : k <= j
    <3>1. \E b \in Before(i) : \A k \in Before(i) : k <= b
      <4>1. i - 1 \in Nat /\ Before(i) \subseteq 1 .. i - 1
        BY <1>2, <1>6
      <4>2. QED
        BY <1>6, <4>1, GreatestPlace
    <3>2. QED
      BY <3>1
  <2>2. Follows(i) <=>
          LET fresh == event[l].kind = "DISC"
          IN  \/ e.kind = "CONN" /\ fresh
              \/ e.kind # "CONN" /\ ~fresh /\ event[l].conn = e.conn
              \/ e.kind # "CONN" /\ fresh
                 /\ \A k \in DOMAIN event : event[k].conn = e.conn => event[k].kind # "CONN"
    <3>1. Heard[j] = event[l]
      BY <1>2, <2>1
    <3>2. QED
      BY <1>6, <3>1 DEF Follows
  <2> HIDE DEF j
  <2>3. l \in 1 .. x - 1 /\ event[l].pid = e.pid
    BY <1>2, <1>4, <2>1 DEF Before
  <2>4. \A m \in l + 1 .. x - 1 : event[m].pid # e.pid
    <3>1. ASSUME NEW m \in l + 1 .. x - 1, event[m].pid = e.pid PROVE FALSE
      <4>1. m \in 1 .. x - 1 /\ l < m /\ l \in Nat /\ m \in Nat
        BY <1>2, <2>3
      <4>2. PICK k \in Before(i) : delivered[k] = m
        BY <1>4, <3>1, <4>1
      <4>3. k <= j /\ k \in Nat /\ j \in Nat
        BY <1>2, <2>1
      <4>4. CASE k = j
        BY <4>1, <4>2, <4>4
      <4>5. CASE k < j
        <5>1. delivered[k] < delivered[j]
          BY <1>4, <2>1, <4>5
        <5>2. QED
          BY <4>1, <4>2, <5>1
      <4>6. QED
        BY <4>3, <4>4, <4>5
    <3>2. QED
      BY <3>1
  <2>5. Precedes(l, x)
    BY <1>2, <2>3, <2>4 DEF Precedes
  <2>6. \A m \in 1 .. x - 1 : Precedes(m, x) => m = l
    <3>1. ASSUME NEW m \in 1 .. x - 1, Precedes(m, x), m # l PROVE FALSE
      <4>1. CASE m < l
        <5>1. l \in m + 1 .. x - 1
          BY <1>2, <2>3, <4>1
        <5>2. QED
          BY <1>2, <2>3, <3>1, <5>1 DEF Precedes
      <4>2. CASE l < m
        <5>1. m \in l + 1 .. x - 1
          BY <1>2, <2>3, <4>2
        <5>2. QED
          BY <1>2, <2>4, <3>1, <5>1 DEF Precedes
      <4>3. QED
        BY <1>2, <2>3, <3>1, <4>1, <4>2
    <3>2. QED
      BY <3>1
  <2> HIDE DEF l, x, e
  <2>7. CASE event[l].kind = "DISC"
    BY <1>3, <2>2, <2>6, <2>7
  <2>8. CASE event[l].kind # "DISC"
    BY <1>3, <2>2, <2>3, <2>5, <2>8
  <2>9. QED
    BY <2>7, <2>8
<1>7. QED
  BY <1>5, <1>6

------------------------------------------------------------------------------
\* The io thread, the application and the pipe between them keep FlowInv.
THEOREM FlowInvHolds == FlowSpec => [](IndInv /\ FlowInv)
<1>1. FlowInit => IndInv /\ FlowInv
  BY InitIndInv, FlowInitInv DEF FlowInit
<1>2. IndInv /\ FlowInv /\ [FlowNext]_flowVars => (IndInv /\ FlowInv)'
  BY FlowIsPipe, NextIndInv, FlowNextInv
<1>3. QED
  BY <1>1, <1>2, PTL DEF FlowSpec

\* Under a pid no event of which found the queue full the application hears the
\* story of one connection after the other, in the order in which it happened.
THEOREM StoriesAreHeard == FlowSpec => []HeardInOrder
BY StoryIsHeard, FlowInvHolds, PTL

\* An answer that arrives after the end of its connection is never written to
\* the connection that is opened next.
THEOREM NeverToTheNext == FlowSpec => NotToTheNext
<1> DEFINE Kept == \A s \in sends \ sends' :
                     s.pid \in DOMAIN table /\ table[s.pid] # s.for
                       => table[s.pid] > openedBy[s.for] + 1
<1>1. FlowInv /\ [FlowNext]_flowVars => [Kept]_flowVars
  <2> SUFFICES ASSUME FlowInv,
                      NEW s \in sends, s.pid \in DOMAIN table, table[s.pid] # s.for
               PROVE  table[s.pid] > openedBy[s.for] + 1
    OBVIOUS
  <2>1. AllNamed /\ TableOK /\ FlowTypeOK
    BY DEF FlowInv, Rows
  <2>2. Named(s.pid, s.for)
    BY <2>1 DEF AllNamed
  <2>3. ~Behind(s.pid, s.for)
    <3>1. s.pid \notin Range(free)
      BY <2>1 DEF TableOK
    <3>2. DOMAIN free = 1 .. Len(free)
      BY <2>1, LenProperties DEF TableOK
    <3>3. QED
      BY <3>1, <3>2 DEF Behind, Range
  <2>4. openedBy[s.for] + 1 < table[s.pid]
    BY <2>2, <2>3 DEF Named
  <2>5. openedBy[s.for] \in Nat /\ table[s.pid] \in Nat
    BY <2>1 DEF FlowTypeOK, TableOK, Conns
  <2>6. QED
    BY <2>4, <2>5
<1> HIDE DEF Kept
<1>2. FlowSpec => [][Kept]_flowVars
  BY <1>1, FlowInvHolds, PTL DEF FlowSpec
<1>3. QED
  BY <1>2 DEF NotToTheNext, Kept
==============================================================================
