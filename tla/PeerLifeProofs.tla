--------------------------- MODULE PeerLifeProofs ---------------------------
(***************************************************************************)
(* Theorems about PeerLife for every set of connections, every size of the *)
(* peer table and of the pool, and every bound.                            *)
(***************************************************************************)
EXTENDS PeerLife, SequenceLemmas

(***************************************************************************)
(* The inductive invariant.                                                *)
(***************************************************************************)
\* The table and the pool: a pid is in use or in the queue of free ones, once;
\* an object stands in the table once, among the spare ones once, or nowhere;
\* there is always a spare one.
Store ==
  /\ size \in Nat /\ used \in Nat /\ made \in Nat
  /\ table \in [DOMAIN table -> 1 .. made] /\ IsInjective(table)
  /\ free \in Seq(Nat) /\ IsInjective(free) /\ Range(free) = (0 .. size - 1) \ DOMAIN table
  /\ objects \in Seq(0 .. made) /\ used < Len(objects)

\* A connection between its entry in the table and its removal.
Live(c) == told[c] \in {"conn", "orphan"}

\* It has the Peer its coroutines run in, which counts them and which is being
\* stopped when the socket is closed; while the socket is open it is read.
Served(c) ==
  LET p == peer[frame[c]]
  IN /\ p.conn = c /\ p.pid \in DOMAIN table /\ table[p.pid] = frame[c]
     /\ p.recving <=> rx[c].at # "none"
     /\ p.sending = Writes(c)
     /\ p.wait <=> c \notin open
     /\ rx[c].at = "none" => Writes(c) > 0 /\ c \notin open

Unserved(c) == c \notin open /\ rx[c] = NoRead /\ tx[c] = NoWrites

Lives ==
  \A c \in Conns :
    /\ Live(c) => Served(c)
    /\ ~Live(c) => Unserved(c)
    /\ rx[c].at = "none" => rx[c].op = "none"
    /\ origin[c] \in {"new", "connecting"} => told[c] = "nothing"

\* The Peers of the table serve live connections, the others serve none.
Rows ==
  \A pid \in DOMAIN table :
    LET p == peer[table[pid]]
    IN p.pid = pid /\ p.conn \in Conns /\ Live(p.conn) /\ frame[p.conn] = table[pid]
Others == \A o \in 1 .. MaxObjects : o \notin Range(table) => peer[o].conn = NoConn

InCallback == holder \in Conns => rx[holder].at = "callback"

IndInv == TypeOK /\ Store /\ PoolApart /\ Lives /\ Rows /\ Others /\ InCallback

\* The parts of TypeOK, which steps disturb separately.
PeerType ==
  [pid : Pids \cup {INVALID_PEER_ID}, conn : Conns \cup {NoConn}, wait : BOOLEAN,
   sending : 0 .. MaxSends, recving : BOOLEAN]
ReadType == [at : {"none", "head", "body", "callback"}, op : {"none", "pending", "ok", "err"}]
WriteType == [pending : 0 .. MaxSends, ok : 0 .. MaxSends, err : 0 .. MaxSends]
StoreTypeOK ==
  /\ DOMAIN table \subseteq 0 .. size - 1 /\ Range(table) \subseteq 1 .. made
  /\ made <= MaxObjects /\ used <= Len(objects) /\ Range(objects) \subseteq 0 .. made
PeersTypeOK == peer \in [1 .. MaxObjects -> PeerType]
ConnsTypeOK ==
  /\ open \subseteq Conns
  /\ frame \in [Conns -> 0 .. MaxObjects]
  /\ rx \in [Conns -> ReadType]
  /\ tx \in [Conns -> WriteType]
  /\ told \in [Conns -> {"nothing", "orphan", "conn", "disc"}]
RestTypeOK ==
  /\ origin \in [Conns -> {"new", "accepted", "connecting", "answered", "failed"}]
  /\ listening \in {"no", "yes", "dead"} /\ holder \in Conns \cup {NoConn, SendLoop}
  /\ calls \in 0 .. MaxDisc /\ posted \in Seq(Pids)

LEMMA TypeParts == TypeOK <=> StoreTypeOK /\ PeersTypeOK /\ ConnsTypeOK /\ RestTypeOK
BY Zenon DEF TypeOK, StoreTypeOK, PeersTypeOK, ConnsTypeOK, RestTypeOK, PeerType, ReadType, WriteType

------------------------------------------------------------------------------
(***************************************************************************)
(* The table and the pool.                                                 *)
(***************************************************************************)
\* What the table's part of Store says, for the table alone.
TableOK ==
  /\ size \in Nat /\ DOMAIN table \subseteq 0 .. size - 1
  /\ table \in [DOMAIN table -> Range(table)] /\ IsInjective(table)
  /\ free \in Seq(Nat) /\ IsInjective(free) /\ Range(free) = (0 .. size - 1) \ DOMAIN table

\* The ids that are added, and the objects that are made, at a time.
LEMMA NewIdsFacts ==
  ASSUME NEW n \in Nat
  PROVE  /\ Peers!NewIds(n) \in Seq(Nat) /\ IsInjective(Peers!NewIds(n))
         /\ Range(Peers!NewIds(n)) = n .. n + PsAllocNum - 1
BY AllocAssumption, SuccessiveFacts DEF Peers!NewIds

LEMMA NewObjectsFacts ==
  ASSUME NEW n \in Nat
  PROVE  LET s == Pool!NewObjects(n)
         IN  /\ s \in Seq(Nat) /\ Len(s) = PpAllocNum
             /\ \A k \in 1 .. PpAllocNum : s[k] = n + k
BY AllocAssumption, SeqDef DEF Pool!NewObjects

\* A new id is one that was not in use.
LEMMA InsertFacts ==
  ASSUME TableOK, NEW o, o \notin Range(table), Peers!Insert(o)
  PROVE  /\ Head(free) \in (0 .. size - 1) \ DOMAIN table
         /\ table' = [id \in DOMAIN table \cup {Head(free)} |->
                        IF id = Head(free) THEN o ELSE table[id]]
         /\ DOMAIN table' = DOMAIN table \cup {Head(free)}
         /\ Range(table') = Range(table) \cup {o}
         /\ size' >= size /\ TableOK'
<1> DEFINE h == Head(free)
<1>1. /\ h \in Nat /\ Tail(free) \in Seq(Nat) /\ Len(Tail(free)) = Len(free) - 1
      /\ Range(free) = {h} \cup Range(Tail(free))
      /\ IsInjective(Tail(free)) /\ h \notin Range(Tail(free))
  BY HeadTailFacts DEF TableOK, Peers!Insert
<1>2. h \in (0 .. size - 1) \ DOMAIN table
  BY <1>1 DEF TableOK
<1>3. table' = [id \in DOMAIN table \cup {h} |-> IF id = h THEN o ELSE table[id]]
  BY DEF Peers!Insert
<1>4. DOMAIN table' = DOMAIN table \cup {h}
  BY <1>3
<1>5. table'[h] = o /\ \A id \in DOMAIN table : table'[id] = table[id]
  BY <1>2, <1>3
<1>6. Range(table') = Range(table) \cup {o}
  BY <1>4, <1>5 DEF Range
<1>7. IsInjective(table')
  BY <1>2, <1>4, <1>5 DEF IsInjective, Range, TableOK
<1>8. table' \in [DOMAIN table' -> Range(table')]
  BY <1>3, <1>4, <1>5, <1>6 DEF Range
<1>9. CASE Len(free) = 1
  <2>1. free' = Peers!NewIds(size) /\ size' = size + PsAllocNum
    BY <1>9 DEF Peers!Insert
  <2>2. /\ free' \in Seq(Nat) /\ IsInjective(free')
        /\ Range(free') = size .. size + PsAllocNum - 1
    BY <2>1, NewIdsFacts DEF TableOK
  <2>3. Range(Tail(free)) = {}
    BY <1>1, <1>9, EmptySeq DEF Range
  <2>4. DOMAIN table' = 0 .. size - 1
    BY <1>1, <1>4, <2>3 DEF TableOK
  <2>5. size' \in Nat /\ size' >= size /\ (0 .. size' - 1) \ (0 .. size - 1) = size .. size + PsAllocNum - 1
        /\ 0 .. size - 1 \subseteq 0 .. size' - 1
    BY <2>1, AllocAssumption DEF TableOK
  <2>6. QED
    BY <1>2, <1>3, <1>4, <1>6, <1>7, <1>8, <2>2, <2>4, <2>5 DEF TableOK
<1>10. CASE Len(free) # 1
  <2>1. free' = Tail(free) /\ size' = size
    BY <1>10 DEF Peers!Insert
  <2>2. Range(free') = (0 .. size' - 1) \ DOMAIN table'
    BY <1>1, <1>4, <2>1 DEF TableOK
  <2>3. /\ size' \in Nat /\ size' >= size /\ DOMAIN table' \subseteq 0 .. size' - 1
        /\ free' \in Seq(Nat) /\ IsInjective(free')
    BY <1>1, <1>2, <1>4, <2>1 DEF TableOK
  <2>4. TableOK'
    BY <1>7, <1>8, <2>2, <2>3 DEF TableOK
  <2>5. QED
    BY <1>2, <1>3, <1>4, <1>6, <2>3, <2>4
<1>11. QED
  BY <1>9, <1>10

\* An id that is taken out of use is free.
LEMMA EraseFacts ==
  ASSUME TableOK, NEW pid \in DOMAIN table, Peers!Erase(pid)
  PROVE  /\ table' = [id \in DOMAIN table \ {pid} |-> table[id]]
         /\ DOMAIN table' = DOMAIN table \ {pid}
         /\ Range(table') = Range(table) \ {table[pid]}
         /\ size' = size /\ TableOK'
<1>1. table' = [id \in DOMAIN table \ {pid} |-> table[id]] /\ size' = size
      /\ free' = Append(free, pid)
  BY DEF Peers!Erase, Peers!Restrict
<1>2. DOMAIN table' = DOMAIN table \ {pid} /\ \A id \in DOMAIN table' : table'[id] = table[id]
  BY <1>1
<1>3. Range(table') = Range(table) \ {table[pid]}
  BY <1>2 DEF Range, TableOK, IsInjective
<1>4. IsInjective(table') /\ table' \in [DOMAIN table' -> Range(table')]
  BY <1>1, <1>2 DEF Range, TableOK, IsInjective
<1>5. pid \in Nat /\ pid \notin Range(free) /\ pid \in 0 .. size - 1
  BY DEF TableOK
<1>6. free' \in Seq(Nat) /\ Range(free') = Range(free) \cup {pid} /\ IsInjective(free')
  BY <1>1, <1>5, AppendFacts DEF TableOK
<1>7. TableOK'
  BY <1>1, <1>2, <1>4, <1>5, <1>6 DEF TableOK
<1>8. QED
  BY <1>1, <1>2, <1>3, <1>7

\* What Store and PoolApart say of the pool alone: no spare object is there
\* twice, and there is one.
PoolOK == SpareOK(objects, used, made) /\ used < Len(objects)

LEMMA PoolIs ==
  PoolOK <=>
    /\ used \in Nat /\ made \in Nat /\ objects \in Seq(0 .. made) /\ used < Len(objects)
    /\ \A i, j \in DOMAIN objects : objects[i] = objects[j] /\ i # j => objects[i] = 0
    /\ \A i \in DOMAIN objects : (objects[i] = 0) <=> (i <= used)
<1>1. objects \in Seq(0 .. made) => DOMAIN objects = 1 .. Len(objects) /\ Len(objects) \in Nat
  OBVIOUS
<1>2. used < Len(objects) /\ used \in Nat /\ Len(objects) \in Nat => used <= Len(objects)
  OBVIOUS
<1>3. QED
  BY <1>1, <1>2 DEF PoolOK, SpareOK

\* The pool hands out an object that was spare.
LEMMA GetFacts ==
  ASSUME PoolOK, Pool!Get
  PROVE  /\ Pool!Spare \in Range(objects) /\ Pool!Spare \in 1 .. made
         /\ used' = used + 1 /\ made' >= made /\ PoolOK'
         /\ Range(objects') \subseteq (Range(objects) \ {Pool!Spare}) \cup {0} \cup (made + 1 .. made')
<1> DEFINE n == Len(objects)
           left == [objects EXCEPT ![used + 1] = 0]
<1>1. SpareOK(objects, used, made) /\ used < n
  BY DEF PoolOK
<1>2. n \in Nat /\ used \in Nat /\ made \in Nat /\ PpAllocNum \in Nat \ {0}
  BY AllocAssumption, PoolIs
<1>3. /\ Pool!Spare \in Range(objects) /\ Pool!Spare \in 1 .. made
      /\ SpareOK(left, used + 1, made) /\ Len(left) = n
      /\ Range(left) \subseteq (Range(objects) \ {Pool!Spare}) \cup {0}
  BY <1>1, SpareTaken DEF Pool!Spare
<1>4. used' = used + 1
  BY DEF Pool!Get
<1>5. CASE used + 1 = n
  <2> DEFINE new == Pool!NewObjects(made)
  <2>1. objects' = left \o new /\ made' = made + PpAllocNum
    BY <1>5 DEF Pool!Get
  <2>2. new = [k \in 1 .. PpAllocNum |-> made + k]
    BY DEF Pool!NewObjects
  <2> HIDE DEF left, new
  <2>3. /\ SpareOK(objects', used', made') /\ Len(objects') = n + PpAllocNum
        /\ Range(objects') \subseteq Range(left) \cup (made + 1 .. made')
    <3>1. SpareOK(left, used + 1, made) /\ PpAllocNum \in Nat
      BY <1>2, <1>3
    <3>2. /\ SpareOK(left \o new, used + 1, made + PpAllocNum) /\ Len(left \o new) = Len(left) + PpAllocNum
          /\ Range(left \o new) \subseteq Range(left) \cup (made + 1 .. made + PpAllocNum)
      BY ONLY <2>2, <3>1, SpareAdded
    <3>3. QED
      BY <1>3, <1>4, <2>1, <3>2
  <2>4. used' < Len(objects') /\ made' >= made
    BY <1>2, <1>4, <1>5, <2>1, <2>3
  <2>5. PoolOK'
    BY <2>3, <2>4 DEF PoolOK
  <2>6. QED
    BY <1>3, <1>4, <2>3, <2>4, <2>5
<1>6. CASE used + 1 # n
  <2> HIDE DEF left
  <2>1. objects' = left /\ made' = made
    BY <1>6 DEF Pool!Get, left
  <2>2. used' < Len(objects')
    BY <1>1, <1>2, <1>3, <1>4, <1>6, <2>1
  <2>3. SpareOK(objects', used', made')
    BY <1>3, <1>4, <2>1
  <2>4. PoolOK'
    BY <2>2, <2>3 DEF PoolOK
  <2>5. QED
    BY <1>2, <1>3, <1>4, <2>1, <2>4
<1>7. QED
  BY <1>5, <1>6

\* An object that was handed out comes back as a spare one.
LEMMA PutFacts ==
  ASSUME PoolOK, NEW o \in 1 .. made, o \notin Range(objects), Pool!Put(o)
  PROVE  /\ used' = used - 1 /\ made' = made /\ PoolOK'
         /\ Range(objects') \subseteq Range(objects) \cup {o}
<1> DEFINE n == Len(objects)
           back == [objects EXCEPT ![used] = o]
<1>1. /\ SpareOK(objects, used, made) /\ used > 0 /\ used' = used - 1 /\ made' = made
      /\ n \in Nat /\ used \in Nat /\ made \in Nat /\ used < n /\ PpAllocNum \in Nat \ {0}
  BY AllocAssumption, PoolIs DEF PoolOK, Pool!Put
<1>2. SpareOK(back, used', made') /\ Len(back) = n /\ Range(back) \subseteq Range(objects) \cup {o}
  BY <1>1, SparePut
<1>3. objects' = IF n - (used - 1) > 2 * PpAllocNum THEN SubSeq(back, 1, Len(back) - PpAllocNum) ELSE back
  BY DEF Pool!Put
<1> HIDE DEF back
<1>4. CASE n - (used - 1) > 2 * PpAllocNum
  <2>1. /\ n - PpAllocNum \in used' .. Len(back) /\ used' < n - PpAllocNum
        /\ objects' = SubSeq(back, 1, n - PpAllocNum)
    BY <1>1, <1>2, <1>3, <1>4
  <2>2. SpareOK(objects', used', made') /\ Len(objects') = n - PpAllocNum /\ Range(objects') \subseteq Range(back)
    BY <1>2, <2>1, SpareDropped
  <2>3. PoolOK'
    BY <2>1, <2>2 DEF PoolOK
  <2>4. QED
    BY <1>1, <1>2, <2>2, <2>3
<1>5. CASE ~(n - (used - 1) > 2 * PpAllocNum)
  <2>1. objects' = back /\ used' < n /\ SpareOK(objects', used', made')
    BY <1>1, <1>2, <1>3, <1>5
  <2>2. PoolOK'
    BY <1>2, <2>1 DEF PoolOK
  <2>3. QED
    BY <1>1, <1>2, <2>1, <2>2
<1>6. QED
  BY <1>4, <1>5

\* The table and the pool together.
StoreOK == StoreTypeOK /\ Store /\ PoolApart
Counted ==
  /\ Range(table) \subseteq 1 .. made /\ made <= MaxObjects
  /\ Range(objects) \cap Range(table) = {}
  /\ used = Cardinality(DOMAIN table)

LEMMA InUseIsFinite ==
  ASSUME TableOK
  PROVE  IsFiniteSet(DOMAIN table) /\ Cardinality(Range(table)) = Cardinality(DOMAIN table)
<1>1. IsFiniteSet(0 .. size - 1)
  <2>1. 0 \in Int /\ size - 1 \in Int
    BY DEF TableOK
  <2>2. QED
    BY <2>1, FS_Interval
<1>2. IsFiniteSet(DOMAIN table)
  BY <1>1, FS_Subset DEF TableOK
<1>3. table \in Bijection(DOMAIN table, Range(table))
  BY DEF TableOK, IsInjective, Range, Bijection, Injection, Surjection, IsInjective
<1>4. QED
  BY <1>2, <1>3, FS_Bijection DEF ExistsBijection

LEMMA StoreParts == StoreOK <=> TableOK /\ PoolOK /\ Counted
<1>1. ASSUME StoreOK PROVE TableOK /\ PoolOK /\ Counted
  <2>1. TableOK
    BY <1>1 DEF StoreOK, StoreTypeOK, Store, TableOK, Range
  <2>2. PoolOK
    BY <1>1, PoolIs DEF StoreOK, StoreTypeOK, Store, PoolApart
  <2>3. Counted
    BY <1>1 DEF StoreOK, StoreTypeOK, Store, PoolApart, Counted
  <2>4. QED
    BY <2>1, <2>2, <2>3
<1>2. ASSUME TableOK, PoolOK, Counted PROVE StoreOK
  <2>1. Len(objects) \in Nat /\ used \in Nat /\ \A i \in DOMAIN objects : objects[i] \in 0 .. made
    BY <1>2, PoolIs
  <2>2. StoreTypeOK
    <3>1. Range(objects) \subseteq 0 .. made
      BY <2>1 DEF Range
    <3>2. QED
      BY <1>2, <2>1, <3>1, PoolIs DEF TableOK, Counted, StoreTypeOK
  <2>3. Store
    BY <1>2, PoolIs DEF TableOK, Counted, Store
  <2>4. PoolApart
    BY <1>2, InUseIsFinite, PoolIs DEF Counted, PoolApart
  <2>5. QED
    BY <2>2, <2>3, <2>4 DEF StoreOK
<1>3. QED
  BY <1>1, <1>2

LEMMA StoreGets ==
  ASSUME StoreOK, Peers!Insert(Pool!Spare), Pool!Get, made' <= MaxObjects
  PROVE  LET o == Pool!Spare
             h == Head(free)
         IN  /\ h \in (0 .. size - 1) \ DOMAIN table
             /\ o \in (1 .. MaxObjects) \ Range(table)
             /\ table' = [id \in DOMAIN table \cup {h} |-> IF id = h THEN o ELSE table[id]]
             /\ DOMAIN table' = DOMAIN table \cup {h} /\ Range(table') = Range(table) \cup {o}
             /\ size \in Nat /\ size' \in Nat /\ size' >= size
             /\ StoreOK'
<1> DEFINE o == Pool!Spare
           h == Head(free)
<1>1. TableOK /\ PoolOK /\ Counted
  BY StoreParts
<1>2. /\ o \in Range(objects) /\ o \in 1 .. made
      /\ used' = used + 1 /\ made' >= made /\ PoolOK'
      /\ Range(objects') \subseteq (Range(objects) \ {o}) \cup {0} \cup (made + 1 .. made')
  BY <1>1, GetFacts
<1>3. o \notin Range(table)
  BY <1>1, <1>2 DEF Counted
<1>4. /\ h \in (0 .. size - 1) \ DOMAIN table
      /\ table' = [id \in DOMAIN table \cup {h} |-> IF id = h THEN o ELSE table[id]]
      /\ DOMAIN table' = DOMAIN table \cup {h} /\ Range(table') = Range(table) \cup {o}
      /\ size' >= size /\ TableOK'
  BY <1>1, <1>3, InsertFacts
<1>5. Cardinality(DOMAIN table') = Cardinality(DOMAIN table) + 1
  BY <1>1, <1>4, InUseIsFinite, FS_AddElement
<1>6. made \in Nat /\ made' \in Nat /\ used \in Nat
  BY <1>1, <1>2 DEF PoolOK, SpareOK
<1>7. Range(table') \subseteq 1 .. made' /\ Range(objects') \cap Range(table') = {}
  <2>1. Range(table') = Range(table) \cup {o} /\ Range(table) \subseteq 1 .. made
        /\ Range(objects) \cap Range(table) = {}
    BY <1>1, <1>4 DEF Counted
  <2>2. 1 .. made \subseteq 1 .. made' /\ 0 \notin 1 .. made
        /\ (1 .. made) \cap (made + 1 .. made') = {}
    BY <1>2, <1>6
  <2>3. o \in 1 .. made /\ Range(objects') \subseteq (Range(objects) \ {o}) \cup {0} \cup (made + 1 .. made')
    BY <1>2
  <2>4. QED
    BY <2>1, <2>2, <2>3, Zenon
<1>8. Counted'
  BY <1>1, <1>2, <1>5, <1>7 DEF Counted
<1>9. StoreOK'
  BY <1>2, <1>4, <1>8, StoreParts, PTL
<1>10. size \in Nat /\ size' \in Nat
  BY <1>1, <1>4 DEF TableOK
<1>11. o \in 1 .. MaxObjects
  BY <1>1, <1>2, <1>6, BoundAssumption DEF Counted
<1>12. QED
  BY <1>3, <1>4, <1>9, <1>10, <1>11

LEMMA StorePuts ==
  ASSUME StoreOK, NEW pid \in DOMAIN table, Pool!Put(table[pid]), Peers!Erase(pid)
  PROVE  /\ table' = [id \in DOMAIN table \ {pid} |-> table[id]]
         /\ DOMAIN table' = DOMAIN table \ {pid} /\ Range(table') = Range(table) \ {table[pid]}
         /\ size' = size
         /\ StoreOK'
<1> DEFINE o == table[pid]
<1>1. TableOK /\ PoolOK /\ Counted
  BY StoreParts
<1>2. o \in Range(table) /\ o \in 1 .. made /\ o \notin Range(objects)
  BY <1>1 DEF Counted, Range
<1>3. /\ used' = used - 1 /\ made' = made /\ PoolOK'
      /\ Range(objects') \subseteq Range(objects) \cup {o}
  BY <1>1, <1>2, PutFacts
<1>4. /\ table' = [id \in DOMAIN table \ {pid} |-> table[id]]
      /\ DOMAIN table' = DOMAIN table \ {pid} /\ Range(table') = Range(table) \ {o}
      /\ size' = size /\ TableOK'
  BY <1>1, EraseFacts
<1>5. Cardinality(DOMAIN table') = Cardinality(DOMAIN table) - 1
  BY <1>1, <1>4, InUseIsFinite, FS_RemoveElement
<1>6. Counted'
  BY <1>1, <1>2, <1>3, <1>4, <1>5 DEF Counted
<1>7. StoreOK'
  BY <1>3, <1>4, <1>6, StoreParts, PTL
<1>8. QED
  BY <1>4, <1>7

------------------------------------------------------------------------------
(***************************************************************************)
(* Connections.                                                            *)
(***************************************************************************)
LEMMA IndInvParts ==
  IndInv <=> /\ StoreOK /\ PeersTypeOK /\ ConnsTypeOK /\ RestTypeOK
             /\ Lives /\ Rows /\ Others /\ InCallback
BY TypeParts, Zenon DEF IndInv, StoreOK

LEMMA StoreAlone == StoreOK /\ UNCHANGED <<tableVars, poolVars>> => StoreOK'
BY DEF StoreOK, StoreTypeOK, Store, PoolApart, tableVars, poolVars

\* A live connection, its Peer, and its pid.
LEMMA LiveFacts ==
  ASSUME IndInv, NEW c \in Conns, Live(c)
  PROVE  /\ frame[c] \in 1 .. MaxObjects /\ frame[c] \in Range(table)
         /\ peer[frame[c]] \in PeerType /\ peer[frame[c]].conn = c
         /\ peer[frame[c]].pid \in DOMAIN table /\ table[peer[frame[c]].pid] = frame[c]
         /\ rx[c] \in ReadType /\ tx[c] \in WriteType
         /\ Served(c)
         /\ \A d \in Conns : Live(d) /\ d # c => frame[d] # frame[c]
         /\ \A pid \in DOMAIN table : table[pid] = frame[c] => pid = peer[frame[c]].pid
<1>1. StoreOK /\ PeersTypeOK /\ ConnsTypeOK /\ Lives /\ Rows
  BY IndInvParts
<1>2. Served(c) /\ \A d \in Conns : Live(d) => Served(d)
  BY <1>1 DEF Lives
<1>3. /\ peer[frame[c]].conn = c /\ peer[frame[c]].pid \in DOMAIN table
      /\ table[peer[frame[c]].pid] = frame[c]
      /\ \A d \in Conns : Live(d) => peer[frame[d]].conn = d
  BY <1>2 DEF Served
<1>4. frame[c] \in Range(table)
  BY <1>3 DEF Range
<1>5. frame[c] \in 1 .. MaxObjects
  <2>1. Range(table) \subseteq 1 .. made /\ made \in Nat /\ made <= MaxObjects
    BY <1>1 DEF StoreOK, StoreTypeOK, Store
  <2>2. QED
    BY <1>4, <2>1, BoundAssumption
<1>6. peer[frame[c]] \in PeerType /\ rx[c] \in ReadType /\ tx[c] \in WriteType
  BY <1>1, <1>5 DEF PeersTypeOK, ConnsTypeOK
<1>7. \A d \in Conns : Live(d) /\ d # c => frame[d] # frame[c]
  BY <1>3
<1>8. \A pid \in DOMAIN table : table[pid] = frame[c] => pid = peer[frame[c]].pid
  BY <1>1 DEF Rows
<1>9. QED
  BY <1>2, <1>3, <1>4, <1>5, <1>6, <1>7, <1>8

\* A step of one connection that stays in the table: its Peer, its read and its
\* writes become q, r and w, and its socket may be closed.
LEMMA Goes ==
  ASSUME IndInv, NEW c \in Conns, Live(c), NEW q \in PeerType, NEW r \in ReadType,
         NEW w \in [pending : Nat, ok : Nat, err : Nat],
         q.pid = peer[frame[c]].pid, q.conn = c,
         peer' = [peer EXCEPT ![frame[c]] = q],
         rx' = [rx EXCEPT ![c] = r], tx' = [tx EXCEPT ![c] = w],
         open' = open \/ open' = open \ {c},
         r.at = "none" => r.op = "none" /\ q.sending > 0 /\ c \notin open',
         q.recving <=> r.at # "none",
         q.sending = w.pending + w.ok + w.err,
         q.wait <=> c \notin open',
         UNCHANGED <<tableVars, poolVars, frame, told, origin>>,
         RestTypeOK', InCallback'
  PROVE  IndInv'
<1> DEFINE o == frame[c]
<1>1. /\ StoreOK /\ PeersTypeOK /\ ConnsTypeOK /\ Lives /\ Rows /\ Others
      /\ table' = table /\ size' = size /\ frame' = frame /\ told' = told /\ origin' = origin
  BY IndInvParts DEF tableVars
<1>2. /\ o \in 1 .. MaxObjects /\ o \in Range(table)
      /\ peer[o].pid \in DOMAIN table /\ table[peer[o].pid] = o
      /\ \A d \in Conns : Live(d) /\ d # c => frame[d] # o
      /\ \A pid \in DOMAIN table : table[pid] = o => pid = peer[o].pid
  BY LiveFacts
<1>3. /\ peer'[o] = q /\ \A x \in 1 .. MaxObjects : x # o => peer'[x] = peer[x]
      /\ rx'[c] = r /\ \A d \in Conns : d # c => rx'[d] = rx[d]
      /\ tx'[c] = w /\ \A d \in Conns : d # c => tx'[d] = tx[d]
      /\ \A d \in Conns : d # c => (d \in open' <=> d \in open)
  BY <1>1, <1>2 DEF PeersTypeOK, ConnsTypeOK
<1>4. \A d \in Conns : Live(d) => frame[d] \in 1 .. MaxObjects
  BY LiveFacts
<1>5. StoreOK'
  BY <1>1, StoreAlone
<1>6. PeersTypeOK'
  BY <1>1, <1>2 DEF PeersTypeOK, PeerType, Pids
<1>7. ConnsTypeOK'
  <2>1. w \in WriteType
    <3>1. q.sending \in 0 .. MaxSends
      BY DEF PeerType
    <3>2. w.pending \in 0 .. MaxSends /\ w.ok \in 0 .. MaxSends /\ w.err \in 0 .. MaxSends
      BY <3>1, BoundAssumption
    <3>3. QED
      BY <3>2 DEF WriteType
  <2>2. rx' \in [Conns -> ReadType] /\ tx' \in [Conns -> WriteType]
    BY <1>1, <2>1 DEF ConnsTypeOK
  <2>3. open' \subseteq Conns
    BY <1>1 DEF ConnsTypeOK
  <2>4. QED
    BY <1>1, <2>2, <2>3 DEF ConnsTypeOK
<1>8. Lives'
  <2> SUFFICES ASSUME NEW d \in Conns
               PROVE  /\ Live(d)' => Served(d)'
                      /\ ~Live(d)' => Unserved(d)'
                      /\ rx'[d].at = "none" => rx'[d].op = "none"
                      /\ origin'[d] \in {"new", "connecting"} => told'[d] = "nothing"
    BY DEF Lives
  <2>1. /\ Live(d)' <=> Live(d)
        /\ origin'[d] \in {"new", "connecting"} => told'[d] = "nothing"
    BY <1>1 DEF Live, Lives
  <2>2. CASE d = c
    BY <1>1, <1>2, <1>3, <2>1, <2>2 DEF Served, Writes
  <2>3. CASE d # c
    <3>1. /\ rx'[d] = rx[d] /\ tx'[d] = tx[d] /\ (d \in open' <=> d \in open)
          /\ frame'[d] = frame[d] /\ table' = table
      BY <1>1, <1>3, <2>3
    <3>2. Live(d) => peer'[frame[d]] = peer[frame[d]]
      BY <1>2, <1>3, <1>4, <2>3
    <3>3. Live(d) => Served(d)'
      BY <1>1, <3>1, <3>2 DEF Lives, Served, Writes
    <3>4. ~Live(d) => Unserved(d)'
      BY <1>1, <3>1 DEF Lives, Unserved
    <3>5. rx'[d].at = "none" => rx'[d].op = "none"
      BY <1>1, <3>1 DEF Lives
    <3>6. QED
      BY <2>1, <3>3, <3>4, <3>5
  <2>4. QED
    BY <2>2, <2>3
<1>9. Rows'
  <2> SUFFICES ASSUME NEW pid \in DOMAIN table
               PROVE  LET p == peer'[table[pid]]
                      IN  p.pid = pid /\ p.conn \in Conns /\ Live(p.conn) /\ frame[p.conn] = table[pid]
    BY <1>1 DEF Rows, Live
  <2>1. CASE table[pid] = o
    BY <1>2, <1>3, <2>1
  <2>2. CASE table[pid] # o
    <3>1. table[pid] \in 1 .. MaxObjects
      <4>1. table[pid] \in 1 .. made /\ made \in Nat /\ made <= MaxObjects
        BY <1>1 DEF StoreOK, StoreTypeOK, Store
      <4>2. QED
        BY <4>1, BoundAssumption
    <3>2. QED
      BY <1>1, <1>3, <2>2, <3>1 DEF Rows
  <2>3. QED
    BY <2>1, <2>2
<1>10. Others'
  BY <1>1, <1>2, <1>3 DEF Others
<1>11. QED
  BY <1>5, <1>6, <1>7, <1>8, <1>9, <1>10, IndInvParts, PTL

\* A step of a connection that leaves the table: no coroutine is suspended in its
\* Peer any more, and the socket is closed.
LEMMA Leaves ==
  ASSUME IndInv, NEW c \in Conns, Live(c), NEW q \in PeerType,
         q.pid = peer[frame[c]].pid, q.conn = c,
         DelPeer(q.pid, [peer EXCEPT ![frame[c]] = q]),
         rx' = [rx EXCEPT ![c] = NoRead], tx' = [tx EXCEPT ![c] = NoWrites],
         open' = open \/ open' = open \ {c}, c \notin open',
         UNCHANGED <<frame, origin>>,
         RestTypeOK', holder' = NoConn
  PROVE  IndInv'
<1> DEFINE o == frame[c]
           id == peer[frame[c]].pid
           p == [peer EXCEPT ![frame[c]] = q]
<1>1. /\ StoreOK /\ PeersTypeOK /\ ConnsTypeOK /\ Lives /\ Rows /\ Others
      /\ frame' = frame /\ origin' = origin
  BY IndInvParts
<1>2. /\ o \in 1 .. MaxObjects /\ o \in Range(table)
      /\ id \in DOMAIN table /\ table[id] = o
      /\ \A d \in Conns : Live(d) /\ d # c => frame[d] # o
      /\ \A pid \in DOMAIN table : table[pid] = o => pid = id
  BY LiveFacts
<1>3. p \in [1 .. MaxObjects -> PeerType] /\ p[o] = q /\ \A x \in 1 .. MaxObjects : x # o => p[x] = peer[x]
  BY <1>1, <1>2 DEF PeersTypeOK
<1>4. /\ told' = [told EXCEPT ![c] = "disc"]
      /\ peer' = [p EXCEPT ![o].pid = INVALID_PEER_ID, ![o].conn = NoConn]
      /\ Pool!Put(table[id]) /\ Peers!Erase(id)
  BY <1>2, <1>3 DEF DelPeer
<1>5. /\ table' = [pid \in DOMAIN table \ {id} |-> table[pid]]
      /\ DOMAIN table' = DOMAIN table \ {id} /\ Range(table') = Range(table) \ {o}
      /\ size' = size /\ StoreOK'
  BY <1>1, <1>2, <1>4, StorePuts
<1>6. /\ \A x \in 1 .. MaxObjects : x # o => peer'[x] = peer[x]
      /\ peer'[o].conn = NoConn
      /\ peer' \in [1 .. MaxObjects -> PeerType]
  <2> DEFINE f == [q EXCEPT !.pid = INVALID_PEER_ID, !.conn = NoConn]
  <2>1. peer' = [p EXCEPT ![o] = f]
    BY <1>2, <1>3, <1>4
  <2>2. f \in PeerType /\ f.conn = NoConn
    BY DEF PeerType
  <2>3. QED
    BY <1>2, <1>3, <2>1, <2>2
<1>7. PeersTypeOK'
  BY <1>5, <1>6 DEF PeersTypeOK, PeerType, Pids
<1>8. /\ rx'[c] = NoRead /\ \A d \in Conns : d # c => rx'[d] = rx[d]
      /\ tx'[c] = NoWrites /\ \A d \in Conns : d # c => tx'[d] = tx[d]
      /\ told'[c] = "disc" /\ \A d \in Conns : d # c => told'[d] = told[d]
      /\ \A d \in Conns : d # c => (d \in open' <=> d \in open)
  BY <1>1, <1>4 DEF ConnsTypeOK
<1>9. ConnsTypeOK'
  <2>1. NoRead \in ReadType /\ NoWrites \in WriteType
    BY BoundAssumption DEF NoRead, NoWrites, ReadType, WriteType
  <2>2. rx' \in [Conns -> ReadType] /\ tx' \in [Conns -> WriteType]
    BY <1>1, <2>1 DEF ConnsTypeOK
  <2>3. told' \in [Conns -> {"nothing", "orphan", "conn", "disc"}]
    BY <1>1, <1>4 DEF ConnsTypeOK
  <2>4. open' \subseteq Conns
    BY <1>1 DEF ConnsTypeOK
  <2>5. QED
    BY <1>1, <2>2, <2>3, <2>4 DEF ConnsTypeOK
<1>10. Lives'
  <2> SUFFICES ASSUME NEW d \in Conns
               PROVE  /\ Live(d)' => Served(d)'
                      /\ ~Live(d)' => Unserved(d)'
                      /\ rx'[d].at = "none" => rx'[d].op = "none"
                      /\ origin'[d] \in {"new", "connecting"} => told'[d] = "nothing"
    BY DEF Lives
  <2>1. CASE d = c
    <3>1. ~Live(d)' /\ Unserved(d)' /\ rx'[d].op = "none"
      BY <1>8, <2>1 DEF Live, Unserved, NoRead
    <3>2. origin'[d] \notin {"new", "connecting"}
      BY <1>1, <2>1 DEF Lives, Live
    <3>3. QED
      BY <3>1, <3>2
  <2>2. CASE d # c
    <3>1. /\ rx'[d] = rx[d] /\ tx'[d] = tx[d] /\ (d \in open' <=> d \in open)
          /\ frame'[d] = frame[d] /\ told'[d] = told[d] /\ origin'[d] = origin[d]
      BY <1>1, <1>8, <2>2
    <3>2. Live(d)' <=> Live(d)
      BY <3>1 DEF Live
    <3>3. ASSUME Live(d) PROVE Served(d)'
      <4>1. frame[d] \in 1 .. MaxObjects /\ frame[d] # o
        BY <1>2, <2>2, <3>3, LiveFacts
      <4>2. peer'[frame[d]] = peer[frame[d]]
        BY <1>6, <4>1
      <4>3. Served(d)
        BY <3>3, LiveFacts
      <4>4. peer[frame[d]].pid # id
        BY <1>2, <4>1, <4>3 DEF Served
      <4>5. peer[frame[d]].pid \in DOMAIN table' /\ table'[peer[frame[d]].pid] = frame[d]
        BY <1>5, <4>3, <4>4 DEF Served
      <4>6. QED
        BY <3>1, <4>2, <4>3, <4>5 DEF Served, Writes
    <3>4. ~Live(d) => Unserved(d)'
      BY <1>1, <3>1 DEF Lives, Unserved
    <3>5. QED
      BY <1>1, <3>1, <3>2, <3>3, <3>4 DEF Lives
  <2>3. QED
    BY <2>1, <2>2
<1>11. Rows'
  <2> SUFFICES ASSUME NEW pid \in DOMAIN table \ {id}
               PROVE  LET q2 == peer'[table[pid]]
                      IN  /\ q2.pid = pid /\ q2.conn \in Conns /\ told'[q2.conn] \in {"conn", "orphan"}
                          /\ frame[q2.conn] = table[pid]
    BY <1>1, <1>5 DEF Rows, Live
  <2>1. table[pid] # o /\ table[pid] \in 1 .. MaxObjects
    <3>1. table[pid] \in 1 .. made /\ made \in Nat /\ made <= MaxObjects
      BY <1>1 DEF StoreOK, StoreTypeOK, Store
    <3>2. QED
      BY <1>2, <3>1, BoundAssumption
  <2>2. peer'[table[pid]] = peer[table[pid]] /\ peer[table[pid]].conn # c
    BY <1>1, <1>6, <2>1 DEF Rows
  <2>3. QED
    BY <1>1, <1>8, <2>2 DEF Rows, Live
<1>12. Others'
  BY <1>1, <1>5, <1>6 DEF Others
<1>13. InCallback'
  BY ConnAssumption DEF InCallback
<1>14. QED
  BY <1>5, <1>7, <1>9, <1>10, <1>11, <1>12, <1>13, IndInvParts, PTL

\* A coroutine goes on inside its Peer and ends with _CheckRelease().
LEMMA Ends ==
  ASSUME IndInv, NEW c \in Conns, Live(c), NEW q \in PeerType, NEW r \in ReadType,
         NEW w \in [pending : Nat, ok : Nat, err : Nat],
         q.pid = peer[frame[c]].pid, q.conn = c,
         CheckRelease(frame[c], [peer EXCEPT ![frame[c]] = q]),
         rx' = [rx EXCEPT ![c] = r], tx' = [tx EXCEPT ![c] = w],
         open' = open \/ open' = open \ {c},
         r.at = "none" => r.op = "none" /\ c \notin open',
         q.recving <=> r.at # "none",
         q.sending = w.pending + w.ok + w.err,
         q.wait <=> c \notin open',
         UNCHANGED <<frame, origin>>,
         holder' = NoConn,
         size' = size => RestTypeOK'
  PROVE  IndInv'
<1> DEFINE o == frame[c]
           p == [peer EXCEPT ![frame[c]] = q]
<1>1. peer \in [1 .. MaxObjects -> PeerType] /\ o \in 1 .. MaxObjects
  BY LiveFacts, IndInvParts DEF PeersTypeOK
<1>2. p[o] = q
  BY <1>1
<1>3. q.sending \in Nat /\ w.pending \in Nat /\ w.ok \in Nat /\ w.err \in Nat
  BY BoundAssumption DEF PeerType
<1>4. CASE ~q.wait \/ q.sending > 0 \/ q.recving
  <2>1. peer' = p /\ UNCHANGED <<told, poolVars, tableVars>>
    BY <1>2, <1>4 DEF CheckRelease
  <2>2. r.at = "none" => q.sending > 0
    BY <1>4
  <2>3. RestTypeOK' /\ InCallback'
    BY <2>1, ConnAssumption DEF InCallback, tableVars
  <2>4. QED
    BY <2>1, <2>2, <2>3, Goes
<1>5. CASE ~(~q.wait \/ q.sending > 0 \/ q.recving)
  <2>1. DelPeer(q.pid, p)
    BY <1>2, <1>5 DEF CheckRelease
  <2>2. q.sending = 0 /\ r.at = "none" /\ r.op = "none" /\ c \notin open'
    BY <1>3, <1>5
  <2>3. r = NoRead
    BY <2>2 DEF NoRead, ReadType
  <2>4. w.pending = 0 /\ w.ok = 0 /\ w.err = 0
    BY <1>3, <2>2
  <2>5. w = NoWrites
    BY <2>4 DEF NoWrites
  <2>6. size' = size
    BY <2>1 DEF DelPeer, Peers!Erase
  <2>7. QED
    BY <2>1, <2>2, <2>3, <2>5, <2>6, Leaves
<1>6. QED
  BY <1>4, <1>5

LEMMA RestAlone ==
  RestTypeOK /\ UNCHANGED <<size, origin, listening, holder, calls, posted>> => RestTypeOK'
BY DEF RestTypeOK, Pids

\* Whatever waits for the socket belongs to a live connection.
LEMMA BusyIsLive ==
  ASSUME IndInv, NEW c \in Conns,
         \/ rx[c].at # "none" \/ rx[c].op # "none"
         \/ tx[c].pending > 0 \/ tx[c].ok > 0 \/ tx[c].err > 0 \/ Writes(c) > 0
         \/ c \in open
  PROVE  Live(c)
<1>1. Lives
  BY IndInvParts
<1>2. ~Live(c) => c \notin open /\ rx[c] = NoRead /\ tx[c] = NoWrites
  BY <1>1 DEF Lives, Unserved
<1>3. QED
  BY <1>2 DEF NoRead, NoWrites, Writes

\* What _Disconnect does to a live connection under its own pid.
LEMMA StopFacts ==
  ASSUME IndInv, NEW c \in Conns, Live(c)
  PROVE  LET o == frame[c]
             q == [peer[o] EXCEPT !.wait = TRUE]
         IN  /\ Stoppable(peer[o].pid) = open \cap {c}
             /\ open \ Stoppable(peer[o].pid) = open \ {c}
             /\ PeersStopped(peer[o].pid) = [peer EXCEPT ![o] = q]
             /\ q \in PeerType
<1> DEFINE o == frame[c]
           q == [peer[o] EXCEPT !.wait = TRUE]
<1>1. /\ o \in 1 .. MaxObjects /\ peer \in [1 .. MaxObjects -> PeerType]
      /\ peer[o] \in PeerType /\ peer[o].conn = c
      /\ peer[o].pid \in DOMAIN table /\ table[peer[o].pid] = o
      /\ peer[o].wait <=> c \notin open
  BY LiveFacts, IndInvParts DEF Served, PeersTypeOK
<1>2. Stoppable(peer[o].pid) = open \cap {c}
  BY <1>1 DEF Stoppable
<1>3. q \in PeerType
  BY <1>1 DEF PeerType
<1>4. PeersStopped(peer[o].pid) = [peer EXCEPT ![o] = q]
  <2>1. CASE c \in open
    BY <1>1, <1>2, <2>1 DEF PeersStopped
  <2>2. CASE c \notin open
    <3>1. peer[o].wait = TRUE
      <4>1. peer[o].wait \in BOOLEAN
        BY <1>1 DEF PeerType
      <4>2. QED
        BY <1>1, <2>2, <4>1
    <3>2. q = peer[o]
      BY <1>1, <3>1 DEF PeerType
    <3>3. PeersStopped(peer[o].pid) = peer
      BY <1>2, <2>2 DEF PeersStopped
    <3>4. QED
      BY <1>1, <3>2, <3>3
  <2>3. QED
    BY <2>1, <2>2
<1>5. QED
  BY <1>2, <1>3, <1>4

\* What the close aborts.
LEMMA ReadAborted ==
  ASSUME NEW c \in Conns, NEW S \in SUBSET {c}, NEW f \in [Conns -> ReadType]
  PROVE  \E r \in ReadType :
           /\ ReadsAborted(S, f) = [f EXCEPT ![c] = r]
           /\ r.at = f[c].at /\ (r.op = "none" <=> f[c].op = "none")
<1> DEFINE r == IF c \in S /\ f[c].op = "pending" THEN [f[c] EXCEPT !.op = "err"] ELSE f[c]
<1>1. r \in ReadType /\ r.at = f[c].at /\ (r.op = "none" <=> f[c].op = "none")
  BY DEF ReadType
<1>2. ReadsAborted(S, f) = [f EXCEPT ![c] = r]
  BY DEF ReadsAborted
<1> HIDE DEF r
<1>3. QED
  BY <1>1, <1>2

LEMMA WriteAborted ==
  ASSUME NEW c \in Conns, NEW S \in SUBSET {c},
         NEW g \in [Conns -> [pending : Nat, ok : Nat, err : Nat]]
  PROVE  \E w \in [pending : Nat, ok : Nat, err : Nat] :
           /\ WritesAborted(S, g) = [g EXCEPT ![c] = w]
           /\ w.pending + w.ok + w.err = g[c].pending + g[c].ok + g[c].err
<1> DEFINE w == IF c \in S THEN [g[c] EXCEPT !.pending = 0, !.err = @ + g[c].pending] ELSE g[c]
<1>1. g[c].pending \in Nat /\ g[c].ok \in Nat /\ g[c].err \in Nat
  OBVIOUS
<1>2. /\ w \in [pending : Nat, ok : Nat, err : Nat]
      /\ w.pending + w.ok + w.err = g[c].pending + g[c].ok + g[c].err
  <2>1. g[c] \in [pending : Nat, ok : Nat, err : Nat]
    OBVIOUS
  <2>2. CASE c \in S
    <3>1. w = [g[c] EXCEPT !.pending = 0, !.err = g[c].err + g[c].pending]
      BY <2>2
    <3>2. w.pending = 0 /\ w.ok = g[c].ok /\ w.err = g[c].err + g[c].pending
      BY <2>1, <3>1
    <3>3. w \in [pending : Nat, ok : Nat, err : Nat]
      <4>1. g[c].err + g[c].pending \in Nat
        BY <1>1
      <4>2. \A n \in Nat : [g[c] EXCEPT !.pending = 0, !.err = n] \in [pending : Nat, ok : Nat, err : Nat]
        BY <2>1
      <4>3. QED
        BY <3>1, <4>1, <4>2
    <3>4. QED
      BY <1>1, <3>2, <3>3
  <2>3. CASE c \notin S
    BY <2>1, <2>3
  <2>4. QED
    BY <2>2, <2>3
<1>3. WritesAborted(S, g) = [g EXCEPT ![c] = w]
  BY DEF WritesAborted
<1> HIDE DEF w
<1>4. QED
  BY <1>2, <1>3

------------------------------------------------------------------------------
(***************************************************************************)
(* The steps.                                                              *)
(***************************************************************************)
LEMMA InitIndInv == Init => IndInv
<1> SUFFICES ASSUME Init PROVE IndInv
  OBVIOUS
<1> USE AllocAssumption, BoundAssumption, ConnAssumption, PidAssumption
<1>1. /\ table = <<>> /\ free = Peers!NewIds(0) /\ size = PsAllocNum
      /\ objects = Pool!NewObjects(0) /\ used = 0 /\ made = PpAllocNum
      /\ peer = [o \in 1 .. MaxObjects |-> FreshPeer]
      /\ open = {} /\ frame = [c \in Conns |-> 0] /\ rx = [c \in Conns |-> NoRead]
      /\ tx = [c \in Conns |-> NoWrites] /\ told = [c \in Conns |-> "nothing"]
      /\ origin = [c \in Conns |-> "new"]
      /\ listening = "no" /\ holder = NoConn /\ calls = MaxDisc /\ posted = <<>>
  BY DEF Init, Peers!Init, Pool!PoolInit
<1>2. DOMAIN table = {} /\ Range(table) = {}
  BY <1>1 DEF Range
<1>3. TableOK
  <2>1. table \in [DOMAIN table -> Range(table)] /\ IsInjective(table)
    BY <1>1, <1>2 DEF IsInjective
  <2>2. free \in Seq(Nat) /\ IsInjective(free) /\ Range(free) = 0 .. 0 + PsAllocNum - 1
    BY <1>1, NewIdsFacts
  <2>3. 0 + PsAllocNum - 1 = size - 1 /\ size \in Nat
    BY <1>1
  <2>4. QED
    BY <1>2, <2>1, <2>2, <2>3 DEF TableOK
<1>4. PoolOK
  <2>1. /\ objects \in Seq(Nat) /\ Len(objects) = PpAllocNum
        /\ \A k \in 1 .. PpAllocNum : objects[k] = 0 + k
    BY <1>1, NewObjectsFacts
  <2>2. DOMAIN objects = 1 .. PpAllocNum
    BY <2>1
  <2>3. \A k \in 1 .. PpAllocNum : objects[k] = k /\ objects[k] \in 0 .. made /\ objects[k] # 0
    BY <1>1, <2>1
  <2>4. objects \in Seq(0 .. made)
    <3>1. objects \in [1 .. PpAllocNum -> 0 .. made]
      BY <2>1, <2>2, <2>3
    <3>2. QED
      BY <3>1, SeqDef
  <2>5. used < Len(objects) /\ used \in Nat /\ made \in Nat /\ \A k \in 1 .. PpAllocNum : ~(k <= used)
    BY <1>1, <2>1
  <2>6. QED
    BY <2>2, <2>3, <2>4, <2>5, PoolIs
<1>5. Counted
  BY <1>1, <1>2, FS_EmptySet DEF Counted
<1>6. StoreOK
  BY <1>3, <1>4, <1>5, StoreParts
<1>7. PeersTypeOK
  <2>1. FreshPeer \in PeerType
    BY DEF FreshPeer, PeerType
  <2>2. QED
    BY <1>1, <2>1 DEF PeersTypeOK
<1>8. ConnsTypeOK
  BY <1>1 DEF ConnsTypeOK, ReadType, WriteType, NoRead, NoWrites
<1>9. RestTypeOK
  BY <1>1 DEF RestTypeOK
<1>10. Lives
  BY <1>1 DEF Lives, Live, Unserved, NoRead, NoWrites
<1>11. Rows /\ Others /\ InCallback
  BY <1>1, <1>2 DEF Rows, Others, FreshPeer, InCallback
<1>12. QED
  BY <1>6, <1>7, <1>8, <1>9, <1>10, <1>11, IndInvParts

\* _AddPeer gives a new connection a pid and an object that nothing uses.
LEMMA AddPeerStep ==
  ASSUME IndInv, NEW c \in Conns, NEW reset, told[c] = "nothing", AddPeer(c, reset),
         \A d \in Conns : d # c => origin'[d] = origin[d],
         origin'[c] \notin {"new", "connecting"},
         Free, holder' = holder, size' >= size => RestTypeOK'
  PROVE  IndInv'
<1> DEFINE o == Pool!Spare
           id == Head(free)
           q == [pid |-> id, conn |-> c, wait |-> FALSE, sending |-> 0, recving |-> TRUE]
<1> USE AllocAssumption, BoundAssumption
<1>1. StoreOK /\ PeersTypeOK /\ ConnsTypeOK /\ RestTypeOK /\ Lives /\ Rows /\ Others
  BY IndInvParts
<1>2. /\ Peers!Insert(o) /\ Pool!Get /\ made' <= MaxObjects
      /\ peer' = [peer EXCEPT ![o] = q] /\ open' = open \cup {c}
      /\ frame' = [frame EXCEPT ![c] = o]
      /\ rx' = [rx EXCEPT ![c] = [at |-> "head", op |-> "pending"]]
      /\ told' = [told EXCEPT ![c] = IF reset THEN "orphan" ELSE "conn"]
      /\ tx' = tx
  BY DEF AddPeer
<1>3. /\ id \in (0 .. size - 1) \ DOMAIN table
      /\ o \in (1 .. MaxObjects) \ Range(table)
      /\ table' = [x \in DOMAIN table \cup {id} |-> IF x = id THEN o ELSE table[x]]
      /\ DOMAIN table' = DOMAIN table \cup {id} /\ Range(table') = Range(table) \cup {o}
      /\ size \in Nat /\ size' \in Nat /\ size' >= size
      /\ StoreOK'
  BY <1>1, <1>2, StoreGets
<1>4. table'[id] = o /\ \A x \in DOMAIN table : table'[x] = table[x]
  BY <1>3
<1>5. RestTypeOK'
  BY <1>3
<1>6. PeersTypeOK'
  <2>1. PeerType \subseteq PeerType'
    BY <1>3 DEF PeerType, Pids
  <2>2. q \in PeerType'
    BY <1>3 DEF PeerType, Pids
  <2>3. QED
    BY <1>1, <1>2, <2>1, <2>2 DEF PeersTypeOK
<1>7. /\ peer'[o] = q /\ \A x \in 1 .. MaxObjects : x # o => peer'[x] = peer[x]
      /\ frame'[c] = o /\ rx'[c] = [at |-> "head", op |-> "pending"]
      /\ told'[c] \in {"conn", "orphan"}
      /\ \A d \in Conns : d # c => /\ frame'[d] = frame[d] /\ rx'[d] = rx[d]
                                   /\ told'[d] = told[d] /\ (d \in open' <=> d \in open)
  BY <1>1, <1>2, <1>3 DEF PeersTypeOK, ConnsTypeOK
<1>8. ConnsTypeOK'
  <2>1. [at |-> "head", op |-> "pending"] \in ReadType
    BY DEF ReadType
  <2>2. rx' \in [Conns -> ReadType] /\ tx' \in [Conns -> WriteType]
    BY <1>1, <1>2, <2>1 DEF ConnsTypeOK
  <2>3. told' \in [Conns -> {"nothing", "orphan", "conn", "disc"}]
    BY <1>1, <1>2 DEF ConnsTypeOK
  <2>4. open' \subseteq Conns /\ frame' \in [Conns -> 0 .. MaxObjects]
    BY <1>1, <1>2, <1>3 DEF ConnsTypeOK
  <2>5. QED
    BY <2>2, <2>3, <2>4 DEF ConnsTypeOK
<1>9. Lives'
  <2> SUFFICES ASSUME NEW d \in Conns
               PROVE  /\ Live(d)' => Served(d)'
                      /\ ~Live(d)' => Unserved(d)'
                      /\ rx'[d].at = "none" => rx'[d].op = "none"
                      /\ origin'[d] \in {"new", "connecting"} => told'[d] = "nothing"
    BY DEF Lives
  <2>1. CASE d = c
    <3>1. Live(d)' /\ rx'[d].at # "none"
      BY <1>7, <2>1 DEF Live
    <3>2. tx'[c] = NoWrites
      BY <1>1, <1>2 DEF Lives, Live, Unserved
    <3>3. Served(d)'
      BY <1>2, <1>3, <1>4, <1>7, <2>1, <3>2 DEF Served, Writes, NoWrites
    <3>4. QED
      BY <2>1, <3>1, <3>3
  <2>2. CASE d # c
    <3>1. /\ rx'[d] = rx[d] /\ tx'[d] = tx[d] /\ (d \in open' <=> d \in open)
          /\ frame'[d] = frame[d] /\ told'[d] = told[d] /\ origin'[d] = origin[d]
      BY <1>2, <1>7, <2>2
    <3>2. Live(d)' <=> Live(d)
      BY <3>1 DEF Live
    <3>3. ASSUME Live(d) PROVE Served(d)'
      <4>1. frame[d] \in 1 .. MaxObjects /\ frame[d] \in Range(table) /\ Served(d)
        BY <3>3, LiveFacts
      <4>2. peer'[frame[d]] = peer[frame[d]]
        BY <1>3, <1>7, <4>1
      <4>3. peer[frame[d]].pid \in DOMAIN table' /\ table'[peer[frame[d]].pid] = frame[d]
        BY <1>3, <1>4, <4>1 DEF Served
      <4>4. QED
        BY <3>1, <4>1, <4>2, <4>3 DEF Served, Writes
    <3>4. ~Live(d) => Unserved(d)'
      BY <1>1, <3>1 DEF Lives, Unserved
    <3>5. QED
      BY <1>1, <3>1, <3>2, <3>3, <3>4 DEF Lives
  <2>3. QED
    BY <2>1, <2>2
<1>10. Rows'
  <2> SUFFICES ASSUME NEW pid \in DOMAIN table'
               PROVE  LET p == peer'[table'[pid]]
                      IN  /\ p.pid = pid /\ p.conn \in Conns /\ told'[p.conn] \in {"conn", "orphan"}
                          /\ frame'[p.conn] = table'[pid]
    BY DEF Rows, Live
  <2>1. CASE pid = id
    BY <1>4, <1>7, <2>1
  <2>2. CASE pid # id
    <3>1. pid \in DOMAIN table /\ table'[pid] = table[pid] /\ table[pid] \in Range(table)
      BY <1>3, <1>4, <2>2 DEF Range
    <3>2. table[pid] \in 1 .. MaxObjects /\ table[pid] # o
      <4>1. table[pid] \in 1 .. made /\ made \in Nat /\ made <= MaxObjects
        BY <1>1, <3>1 DEF StoreOK, StoreTypeOK, Store
      <4>2. QED
        BY <1>3, <3>1, <4>1
    <3>3. peer'[table[pid]] = peer[table[pid]]
      BY <1>7, <3>2
    <3>4. Live(peer[table[pid]].conn) /\ peer[table[pid]].conn \in Conns
      BY <1>1, <3>1 DEF Rows
    <3>5. peer[table[pid]].conn # c
      BY <3>4 DEF Live
    <3>6. QED
      BY <1>1, <1>7, <3>1, <3>3, <3>4, <3>5 DEF Rows, Live
  <2>3. QED
    BY <2>1, <2>2
<1>11. Others'
  BY <1>1, <1>3, <1>7 DEF Others
<1>12. InCallback'
  BY ConnAssumption DEF InCallback, Free
<1>13. QED
  BY <1>3, <1>5, <1>6, <1>8, <1>9, <1>10, <1>11, <1>12, IndInvParts, PTL

\* A step that leaves the table, the pool, the Peers and the sockets alone.
LEMMA PeersAlone ==
  ASSUME IndInv, UNCHANGED peerVars, holder' \in {holder, NoConn, SendLoop}, RestTypeOK',
         \A c \in Conns : origin'[c] \in {"new", "connecting"} => origin[c] \in {"new", "connecting"}
  PROVE  IndInv'
<1>1. /\ StoreOK /\ PeersTypeOK /\ ConnsTypeOK /\ Lives /\ Rows /\ Others /\ InCallback
  BY IndInvParts
<1>2. /\ UNCHANGED <<tableVars, poolVars>>
      /\ table' = table /\ size' = size /\ peer' = peer /\ open' = open /\ frame' = frame
      /\ rx' = rx /\ tx' = tx /\ told' = told
  BY DEF peerVars, tableVars
<1>3. StoreOK' /\ PeersTypeOK' /\ ConnsTypeOK' /\ Rows' /\ Others' /\ InCallback'
  <2>1. InCallback'
    BY <1>1, <1>2, ConnAssumption DEF InCallback
  <2>2. QED
    BY <1>1, <1>2, <2>1, StoreAlone
       DEF PeersTypeOK, PeerType, Pids, ConnsTypeOK, Rows, Live, Others
<1>4. Lives'
  <2> SUFFICES ASSUME NEW d \in Conns
               PROVE  /\ Live(d)' => Served(d)'
                      /\ ~Live(d)' => Unserved(d)'
                      /\ rx'[d].at = "none" => rx'[d].op = "none"
                      /\ origin'[d] \in {"new", "connecting"} => told'[d] = "nothing"
    BY DEF Lives
  <2>1. (Live(d)' <=> Live(d)) /\ (Served(d)' <=> Served(d)) /\ (Unserved(d)' <=> Unserved(d))
    BY <1>2 DEF Live, Served, Unserved, Writes
  <2>2. QED
    BY <1>1, <1>2, <2>1 DEF Lives
<1>5. QED
  BY <1>3, <1>4, IndInvParts, PTL

LEMMA ListenStep == ASSUME IndInv, Listen PROVE IndInv'
<1>1. UNCHANGED <<peerVars, origin, holder, calls, posted>> /\ listening' \in {"yes", "dead"}
  BY DEF Listen, discVars
<1>2. RestTypeOK'
  BY <1>1, IndInvParts DEF RestTypeOK, Pids, peerVars, tableVars
<1>3. QED
  BY <1>1, <1>2, PeersAlone

LEMMA ConnectStep == ASSUME IndInv, NEW c \in Conns, Connect(c) \/ ConnectFailed(c) PROVE IndInv'
<1>1. /\ UNCHANGED <<peerVars, listening, holder, calls, posted>>
      /\ origin[c] \in {"new", "connecting"}
      /\ \/ origin' = [origin EXCEPT ![c] = "connecting"]
         \/ origin' = [origin EXCEPT ![c] = "failed"]
  BY DEF Connect, ConnectFailed, discVars
<1>2. RestTypeOK'
  BY <1>1, IndInvParts DEF RestTypeOK, Pids, peerVars, tableVars
<1>3. \A d \in Conns : origin'[d] \in {"new", "connecting"} => origin[d] \in {"new", "connecting"}
  BY <1>1, IndInvParts DEF RestTypeOK
<1>4. QED
  BY <1>1, <1>2, <1>3, PeersAlone

LEMMA DisconnectStep == ASSUME IndInv, NEW pid \in Pids, Disconnect(pid) PROVE IndInv'
<1>1. /\ UNCHANGED <<peerVars, origin, listening, holder>>
      /\ calls > 0 /\ calls' = calls - 1 /\ posted' = Append(posted, pid)
  BY DEF Disconnect
<1>2. RestTypeOK'
  BY <1>1, IndInvParts, BoundAssumption DEF RestTypeOK, Pids, peerVars, tableVars
<1>3. QED
  BY <1>1, <1>2, PeersAlone

LEMMA AcceptStep ==
  ASSUME IndInv, NEW c \in Conns, NEW reset \in BOOLEAN, Accept(c, reset) \/ Connected(c, reset)
  PROVE  IndInv'
<1>1. /\ Free /\ AddPeer(c, reset) /\ origin[c] \in {"new", "connecting"}
      /\ UNCHANGED <<holder, calls, posted>>
      /\ \E s \in {"accepted", "failed", "answered"} : origin' = [origin EXCEPT ![c] = s]
      /\ listening' \in {listening, "dead"}
  BY DEF Accept, Connected, discVars
<1>2. told[c] = "nothing" /\ RestTypeOK
  BY <1>1, IndInvParts DEF Lives
<1>3. /\ \A d \in Conns : d # c => origin'[d] = origin[d]
      /\ origin'[c] \notin {"new", "connecting"}
      /\ origin' \in [Conns -> {"new", "accepted", "connecting", "answered", "failed"}]
  BY <1>1, <1>2 DEF RestTypeOK
<1>4. ASSUME size' >= size PROVE RestTypeOK'
  <2>1. size \in Nat /\ size' \in Nat
    <3>1. TableOK' /\ TableOK
      <4>1. StoreOK
        BY IndInvParts
      <4>2. StoreOK'
        BY <1>1, <4>1, StoreGets DEF AddPeer
      <4>3. QED
        BY <4>1, <4>2, StoreParts, PTL
    <3>2. QED
      BY <3>1 DEF TableOK
  <2>2. Pids \subseteq Pids'
    BY <1>4, <2>1 DEF Pids
  <2>3. posted \in Seq(Pids')
    <3>1. posted \in Seq(Pids)
      BY <1>2 DEF RestTypeOK
    <3>2. QED
      BY <2>2, <3>1, SeqDef
  <2>4. QED
    BY <1>1, <1>2, <1>3, <2>3 DEF RestTypeOK
<1>5. holder' = holder
  BY <1>1
<1>6. QED
  BY <1>1, <1>2, <1>3, <1>4, <1>5, AddPeerStep

\* The functions a step of one connection leaves alone, as Goes and Ends see them.
LEMMA SameFacts ==
  ASSUME IndInv, NEW c \in Conns, Live(c)
  PROVE  /\ peer = [peer EXCEPT ![frame[c]] = peer[frame[c]]]
         /\ rx = [rx EXCEPT ![c] = rx[c]] /\ tx = [tx EXCEPT ![c] = tx[c]]
         /\ peer[frame[c]] \in PeerType /\ rx[c] \in ReadType
         /\ tx[c] \in [pending : Nat, ok : Nat, err : Nat]
         /\ rx \in [Conns -> ReadType] /\ tx \in [Conns -> [pending : Nat, ok : Nat, err : Nat]]
<1>1. /\ peer \in [1 .. MaxObjects -> PeerType]
      /\ rx \in [Conns -> ReadType] /\ tx \in [Conns -> WriteType]
  BY IndInvParts DEF PeersTypeOK, ConnsTypeOK
<1>2. WriteType \subseteq [pending : Nat, ok : Nat, err : Nat]
  BY BoundAssumption DEF WriteType
<1>3. frame[c] \in 1 .. MaxObjects
  BY LiveFacts
<1>4. QED
  BY <1>1, <1>2, <1>3

LEMMA ReadSettlesStep == ASSUME IndInv, NEW c \in Conns, ReadSettles(c) PROVE IndInv'
<1>1. rx[c].op = "pending"
  BY DEF ReadSettles
<1>2. PICK x \in {"ok", "err"} : rx' = [rx EXCEPT ![c].op = x]
  BY DEF ReadSettles
<1>3. /\ UNCHANGED <<tableVars, poolVars, frame, told, origin>>
      /\ UNCHANGED <<listening, holder, calls, posted>>
      /\ peer' = peer /\ open' = open /\ tx' = tx /\ size' = size
  BY DEF ReadSettles, discVars, tableVars
<1>4. Live(c) /\ Served(c) /\ peer[frame[c]].conn = c
  BY <1>1, BusyIsLive, LiveFacts
<1> DEFINE r == [rx[c] EXCEPT !.op = x]
<1>5. r \in ReadType /\ r.at = rx[c].at /\ rx' = [rx EXCEPT ![c] = r]
  BY <1>2, <1>4, SameFacts DEF ReadType
<1>6. rx[c].at # "none"
  BY <1>1, IndInvParts DEF Lives
<1>7. RestTypeOK' /\ InCallback'
  <2>1. RestTypeOK /\ InCallback /\ rx \in [Conns -> ReadType]
    BY IndInvParts DEF ConnsTypeOK
  <2>2. \A d \in Conns : rx'[d].at = rx[d].at
    BY <1>5, <2>1
  <2>3. holder' = holder /\ holder \in Conns \cup {NoConn, SendLoop}
    BY <1>3, <2>1 DEF RestTypeOK
  <2>4. InCallback'
    BY <2>1, <2>2, <2>3 DEF InCallback
  <2>5. QED
    BY <1>3, <2>1, <2>4, RestAlone
<1> HIDE DEF r
<1>8. QED
  <2> DEFINE q == peer[frame[c]]
             w == tx[c]
  <2>1. /\ peer' = [peer EXCEPT ![frame[c]] = q] /\ tx' = [tx EXCEPT ![c] = w]
        /\ q \in PeerType /\ w \in [pending : Nat, ok : Nat, err : Nat]
    BY <1>3, <1>4, SameFacts
  <2>2. /\ (q.recving <=> r.at # "none") /\ q.sending = w.pending + w.ok + w.err
        /\ (q.wait <=> c \notin open')
    BY <1>3, <1>4, <1>5 DEF Served, Writes
  <2>3. r.at # "none" /\ q.pid = peer[frame[c]].pid /\ q.conn = c
    BY <1>4, <1>5, <1>6
  <2> HIDE DEF q, w
  <2>4. QED
    BY <1>3, <1>4, <1>5, <1>7, <2>1, <2>2, <2>3, Goes

LEMMA WriteSettlesStep == ASSUME IndInv, NEW c \in Conns, WriteSettles(c) PROVE IndInv'
<1>1. tx[c].pending > 0
  BY DEF WriteSettles
<1>2. /\ UNCHANGED <<tableVars, poolVars, frame, told, origin>>
      /\ UNCHANGED <<listening, holder, calls, posted>>
      /\ peer' = peer /\ open' = open /\ rx' = rx /\ size' = size
  BY DEF WriteSettles, discVars, tableVars
<1>3. Live(c) /\ Served(c) /\ peer[frame[c]].conn = c
  BY <1>1, BusyIsLive, LiveFacts
<1>4. RestTypeOK' /\ InCallback'
  BY <1>2, IndInvParts, RestAlone DEF InCallback
<1> DEFINE q == peer[frame[c]]
           r == rx[c]
<1>5. /\ peer' = [peer EXCEPT ![frame[c]] = q] /\ rx' = [rx EXCEPT ![c] = r]
      /\ q \in PeerType /\ r \in ReadType
  BY <1>2, <1>3, SameFacts
<1>6. \E w \in [pending : Nat, ok : Nat, err : Nat] :
        /\ tx' = [tx EXCEPT ![c] = w]
        /\ w.pending + w.ok + w.err = tx[c].pending + tx[c].ok + tx[c].err
  <2>1. tx \in [Conns -> [pending : Nat, ok : Nat, err : Nat]] /\ tx[c] \in [pending : Nat, ok : Nat, err : Nat]
    BY <1>3, SameFacts
  <2>2. tx[c].pending \in Nat /\ tx[c].ok \in Nat /\ tx[c].err \in Nat /\ tx[c].pending - 1 \in Nat
    BY <1>1, <2>1
  <2>3. CASE tx' = [tx EXCEPT ![c].pending = @ - 1, ![c].ok = @ + 1]
    <3> DEFINE w == [pending |-> tx[c].pending - 1, ok |-> tx[c].ok + 1, err |-> tx[c].err]
    <3>1. w \in [pending : Nat, ok : Nat, err : Nat]
      BY <2>2
    <3>2. tx' = [tx EXCEPT ![c] = w]
      BY <2>1, <2>3
    <3>3. w.pending + w.ok + w.err = tx[c].pending + tx[c].ok + tx[c].err
      BY <2>2
    <3> HIDE DEF w
    <3>4. QED
      BY <3>1, <3>2, <3>3
  <2>4. CASE tx' = [tx EXCEPT ![c].pending = @ - 1, ![c].err = @ + 1]
    <3> DEFINE w == [pending |-> tx[c].pending - 1, ok |-> tx[c].ok, err |-> tx[c].err + 1]
    <3>1. w \in [pending : Nat, ok : Nat, err : Nat]
      BY <2>2
    <3>2. tx' = [tx EXCEPT ![c] = w]
      BY <2>1, <2>4
    <3>3. w.pending + w.ok + w.err = tx[c].pending + tx[c].ok + tx[c].err
      BY <2>2
    <3> HIDE DEF w
    <3>4. QED
      BY <3>1, <3>2, <3>3
  <2>5. QED
    BY <2>3, <2>4 DEF WriteSettles
<1>7. PICK w \in [pending : Nat, ok : Nat, err : Nat] :
        /\ tx' = [tx EXCEPT ![c] = w]
        /\ w.pending + w.ok + w.err = tx[c].pending + tx[c].ok + tx[c].err
  BY <1>6
<1>8. /\ (q.recving <=> r.at # "none") /\ q.sending = w.pending + w.ok + w.err
      /\ (q.wait <=> c \notin open')
      /\ r.at = "none" => r.op = "none" /\ q.sending > 0 /\ c \notin open'
  BY <1>2, <1>3, <1>7, IndInvParts DEF Served, Writes, Lives
<1>9. QED
  BY <1>2, <1>3, <1>4, <1>5, <1>7, <1>8, Goes

\* The coroutine goes on reading, in the next part or in the application.
LEMMA ReadsOn ==
  ASSUME IndInv, NEW c \in Conns, Live(c), rx[c].at # "none", NEW r \in ReadType, r.at # "none",
         rx' = [rx EXCEPT ![c] = r],
         UNCHANGED <<tableVars, poolVars, peer, open, frame, tx, told, origin>>,
         RestTypeOK', InCallback'
  PROVE  IndInv'
<1> DEFINE q == peer[frame[c]]
           w == tx[c]
<1>1. peer' = peer /\ open' = open /\ tx' = tx
  OBVIOUS
<1>2. /\ q \in PeerType /\ w \in [pending : Nat, ok : Nat, err : Nat]
      /\ peer' = [peer EXCEPT ![frame[c]] = q] /\ tx' = [tx EXCEPT ![c] = w]
  BY <1>1, SameFacts
<1>3. /\ q.pid = peer[frame[c]].pid /\ q.conn = c
      /\ (q.recving <=> r.at # "none") /\ q.sending = w.pending + w.ok + w.err
      /\ (q.wait <=> c \notin open')
  BY <1>1, LiveFacts DEF Served, Writes
<1> HIDE DEF q, w
<1>4. QED
  BY <1>1, <1>2, <1>3, Goes

LEMMA HeadReadStep == ASSUME IndInv, NEW c \in Conns, HeadRead(c) PROVE IndInv'
<1> DEFINE o == frame[c]
<1>1. /\ holder = NoConn /\ rx[c] = [at |-> "head", op |-> "ok"]
      /\ open' = open /\ frame' = frame /\ tx' = tx
      /\ UNCHANGED <<origin, listening, holder, calls, posted>>
  BY DEF HeadRead, Free, discVars
<1>2. Live(c) /\ Served(c) /\ peer[o].conn = c /\ o \in 1 .. MaxObjects
  BY <1>1, BusyIsLive, LiveFacts
<1>3. /\ peer = [peer EXCEPT ![o] = peer[o]] /\ tx' = [tx EXCEPT ![c] = tx[c]]
      /\ peer[o] \in PeerType /\ tx[c] \in [pending : Nat, ok : Nat, err : Nat]
      /\ peer \in [1 .. MaxObjects -> PeerType]
  BY <1>1, <1>2, SameFacts, IndInvParts DEF PeersTypeOK
<1>4. size' = size => RestTypeOK'
  BY <1>1, IndInvParts, RestAlone
<1>5. /\ (peer[o].recving <=> rx[c].at # "none") /\ (peer[o].wait <=> c \notin open)
      /\ peer[o].sending = tx[c].pending + tx[c].ok + tx[c].err
  BY <1>2 DEF Served, Writes
<1>6. CASE c \in open
  <2>1. PICK x \in {"pending", "ok"} : rx' = [rx EXCEPT ![c] = [at |-> "body", op |-> x]]
    BY <1>2, <1>6 DEF HeadRead
  <2>2. UNCHANGED <<tableVars, poolVars, told>> /\ peer' = peer /\ size' = size
    BY <1>2, <1>6 DEF HeadRead, tableVars
  <2> DEFINE r == [at |-> "body", op |-> x]
  <2>3. r \in ReadType /\ r.at # "none" /\ rx' = [rx EXCEPT ![c] = r] /\ rx[c].at # "none"
    BY <1>1, <2>1 DEF ReadType
  <2>4. RestTypeOK' /\ InCallback'
    BY <1>1, <1>4, <2>2, ConnAssumption DEF InCallback
  <2> HIDE DEF r
  <2>5. QED
    BY <1>1, <1>2, <2>2, <2>3, <2>4, ReadsOn
<1>7. CASE c \notin open
  <2> DEFINE q == [peer[o] EXCEPT !.recving = FALSE]
             r == NoRead
             w == tx[c]
  <2>1. rx' = [rx EXCEPT ![c] = NoRead] /\ RecvEnds(c, peer)
    BY <1>2, <1>7 DEF HeadRead
  <2>2. CheckRelease(o, [peer EXCEPT ![o] = q])
    <3>1. [peer EXCEPT ![o].recving = FALSE] = [peer EXCEPT ![o] = q]
      BY <1>2, <1>3
    <3>2. QED
      BY <2>1, <3>1 DEF RecvEnds
  <2>3. q \in PeerType /\ q.pid = peer[o].pid /\ q.conn = c /\ ~q.recving
        /\ q.sending = peer[o].sending /\ (q.wait <=> peer[o].wait)
    BY <1>2, <1>3 DEF PeerType
  <2>4. r \in ReadType /\ r.at = "none" /\ r.op = "none"
    BY DEF NoRead, ReadType
  <2>5. /\ w \in [pending : Nat, ok : Nat, err : Nat]
        /\ rx' = [rx EXCEPT ![c] = r] /\ tx' = [tx EXCEPT ![c] = w]
        /\ (q.recving <=> r.at # "none") /\ q.sending = w.pending + w.ok + w.err
        /\ (q.wait <=> c \notin open')
    BY <1>1, <1>3, <1>5, <2>1, <2>3, <2>4
  <2>6. holder' = NoConn /\ c \notin open'
    BY <1>1, <1>7
  <2> HIDE DEF q, r, w
  <2>7. QED
    BY <1>1, <1>2, <1>4, <2>2, <2>3, <2>4, <2>5, <2>6, Ends
<1>8. QED
  BY <1>6, <1>7

LEMMA NextHeadType == ASSUME NEW c \in Conns PROVE NextHead(c) \in ReadType /\ NextHead(c).at = "head"
BY DEF NextHead, ReadType

LEMMA BodyReadStep == ASSUME IndInv, NEW c \in Conns, BodyRead(c) PROVE IndInv'
<1>1. /\ holder = NoConn /\ rx[c].at = "body"
      /\ UNCHANGED <<tableVars, poolVars, peer, open, frame, tx, told, origin>>
      /\ UNCHANGED <<listening, calls, posted>> /\ size' = size
  BY DEF BodyRead, Free, discVars, tableVars
<1>2. Live(c) /\ rx \in [Conns -> ReadType] /\ RestTypeOK
  BY <1>1, BusyIsLive, IndInvParts DEF ConnsTypeOK
<1>3. CASE SingleThread
  <2> DEFINE r == [at |-> "callback", op |-> "none"]
  <2>1. holder' = c /\ rx' = [rx EXCEPT ![c] = r] /\ r \in ReadType /\ r.at # "none"
    BY <1>3 DEF BodyRead, ReadType
  <2>2. RestTypeOK'
    BY <1>1, <1>2, <2>1 DEF RestTypeOK, Pids
  <2>3. InCallback'
    BY <1>2, <2>1 DEF InCallback
  <2>4. QED
    BY <1>1, <1>2, <2>1, <2>2, <2>3, ReadsOn
<1>4. CASE ~SingleThread
  <2>1. holder' = holder /\ rx' = [rx EXCEPT ![c] = NextHead(c)]
    BY <1>4 DEF BodyRead
  <2>2. RestTypeOK' /\ InCallback'
    BY <1>1, <1>2, <2>1, RestAlone, ConnAssumption DEF InCallback
  <2>3. QED
    BY <1>1, <1>2, <2>1, <2>2, NextHeadType, ReadsOn
<1>5. QED
  BY <1>3, <1>4

LEMMA CallbackStep == ASSUME IndInv, CallbackReturns PROVE IndInv'
<1>1. /\ UNCHANGED <<tableVars, poolVars, peer, open, frame, tx, told, origin>>
      /\ UNCHANGED <<listening, calls, posted>> /\ size' = size
      /\ holder \in Conns /\ holder' = NoConn
      /\ rx' = [rx EXCEPT ![holder] = NextHead(holder)]
  BY DEF CallbackReturns, discVars, tableVars
<1>2. RestTypeOK /\ holder \in Conns /\ rx[holder].at = "callback"
  BY <1>1, IndInvParts DEF RestTypeOK, InCallback
<1>3. Live(holder)
  BY <1>2, BusyIsLive
<1>4. RestTypeOK' /\ InCallback'
  BY <1>1, <1>2, ConnAssumption DEF InCallback, RestTypeOK, Pids
<1>5. QED
  BY <1>1, <1>2, <1>3, <1>4, NextHeadType, ReadsOn

LEMMA ReadFailedStep == ASSUME IndInv, NEW c \in Conns, ReadFailed(c) PROVE IndInv'
<1> DEFINE o == frame[c]
           S == Stoppable(peer[o].pid)
           f == [rx EXCEPT ![c] = NoRead]
           s == [peer[o] EXCEPT !.wait = TRUE]
           q == [s EXCEPT !.recving = FALSE]
           r == NoRead
<1>1. /\ holder = NoConn /\ rx[c].op = "err" /\ open' = open \ S /\ frame' = frame
      /\ rx' = ReadsAborted(S, f) /\ tx' = WritesAborted(S, tx)
      /\ RecvEnds(c, PeersStopped(peer[o].pid))
      /\ UNCHANGED <<origin, listening, holder, calls, posted>>
  BY DEF ReadFailed, Free, discVars
<1>2. Live(c) /\ Served(c) /\ peer[o].conn = c /\ o \in 1 .. MaxObjects
  BY <1>1, BusyIsLive, LiveFacts
<1>3. /\ S = open \cap {c} /\ open' = open \ {c}
      /\ PeersStopped(peer[o].pid) = [peer EXCEPT ![o] = s] /\ s \in PeerType
  BY <1>1, <1>2, StopFacts
<1>4. /\ peer \in [1 .. MaxObjects -> PeerType] /\ rx \in [Conns -> ReadType]
      /\ tx \in [Conns -> [pending : Nat, ok : Nat, err : Nat]] /\ peer[o] \in PeerType
  BY <1>2, SameFacts, IndInvParts DEF PeersTypeOK
<1>5. r \in ReadType /\ r.at = "none" /\ r.op = "none"
  BY DEF NoRead, ReadType
<1>6. rx' = [rx EXCEPT ![c] = r]
  <2>1. f \in [Conns -> ReadType] /\ f[c] = r
    BY <1>4, <1>5
  <2>2. ReadsAborted(S, f) = f
    BY <1>3, <2>1 DEF ReadsAborted, NoRead
  <2>3. QED
    BY <1>1, <2>2
<1>7. PICK w \in [pending : Nat, ok : Nat, err : Nat] :
        /\ tx' = [tx EXCEPT ![c] = w]
        /\ w.pending + w.ok + w.err = tx[c].pending + tx[c].ok + tx[c].err
  <2>1. S \in SUBSET {c} /\ tx' = WritesAborted(S, tx)
    BY <1>1, <1>3
  <2>2. tx \in [Conns -> [pending : Nat, ok : Nat, err : Nat]]
    BY <1>4
  <2> HIDE DEF S, f, s, q, r
  <2>3. QED
    BY <2>1, <2>2, WriteAborted
<1>8. /\ q \in PeerType /\ q.pid = peer[o].pid /\ q.conn = c /\ ~q.recving /\ q.wait
      /\ q.sending = peer[o].sending
  BY <1>2, <1>3, <1>4 DEF PeerType
<1>9. CheckRelease(o, [peer EXCEPT ![o] = q])
  <2>1. [[peer EXCEPT ![o] = s] EXCEPT ![o].recving = FALSE] = [peer EXCEPT ![o] = q]
    BY <1>2, <1>4
  <2>2. QED
    BY <1>1, <1>3, <2>1 DEF RecvEnds
<1>10. /\ (q.recving <=> r.at # "none") /\ q.sending = w.pending + w.ok + w.err
       /\ c \notin open' /\ (q.wait <=> c \notin open')
  BY <1>2, <1>3, <1>5, <1>7, <1>8 DEF Served, Writes
<1>11. size' = size => RestTypeOK'
  BY <1>1, IndInvParts, RestAlone
<1>12. holder' = NoConn /\ UNCHANGED <<frame, origin>> /\ open' = open \ {c}
  BY <1>1, <1>3
<1> HIDE DEF q, r, s, f, S
<1>13. QED
  BY <1>2, <1>5, <1>6, <1>7, <1>8, <1>9, <1>10, <1>11, <1>12, Ends

LEMMA WriteDoneStep == ASSUME IndInv, NEW c \in Conns, WriteDone(c) PROVE IndInv'
<1> DEFINE o == frame[c]
           q == [peer[o] EXCEPT !.sending = @ - 1]
           r == rx[c]
           w == [tx[c] EXCEPT !.ok = @ - 1]
<1>1. /\ holder = NoConn /\ tx[c].ok > 0 /\ open' = open /\ frame' = frame /\ rx' = rx
      /\ tx' = [tx EXCEPT ![c].ok = @ - 1] /\ SendEnds(c, peer)
      /\ UNCHANGED <<origin, listening, holder, calls, posted>>
  BY DEF WriteDone, Free, discVars
<1>2. Live(c) /\ Served(c) /\ peer[o].conn = c /\ o \in 1 .. MaxObjects
  BY <1>1, BusyIsLive, LiveFacts
<1>3. /\ peer \in [1 .. MaxObjects -> PeerType] /\ peer[o] \in PeerType
      /\ rx' = [rx EXCEPT ![c] = r] /\ r \in ReadType
      /\ tx \in [Conns -> [pending : Nat, ok : Nat, err : Nat]]
      /\ tx[c] \in [pending : Nat, ok : Nat, err : Nat]
  BY <1>1, <1>2, SameFacts, IndInvParts DEF PeersTypeOK
<1>4. /\ tx[c].pending \in Nat /\ tx[c].ok \in Nat /\ tx[c].err \in Nat /\ tx[c].ok - 1 \in Nat
      /\ peer[o].sending = tx[c].pending + tx[c].ok + tx[c].err
      /\ peer[o].sending - 1 \in 0 .. MaxSends
  <2>1. tx[c].pending \in Nat /\ tx[c].ok \in Nat /\ tx[c].err \in Nat
    BY <1>3
  <2>2. peer[o].sending \in 0 .. MaxSends
    BY <1>3 DEF PeerType
  <2>3. QED
    BY <1>1, <1>2, <2>1, <2>2, BoundAssumption DEF Served, Writes
<1>5. /\ w \in [pending : Nat, ok : Nat, err : Nat] /\ tx' = [tx EXCEPT ![c] = w]
      /\ w.pending = tx[c].pending /\ w.ok = tx[c].ok - 1 /\ w.err = tx[c].err
  BY <1>1, <1>3, <1>4
<1>6. /\ q \in PeerType /\ q.pid = peer[o].pid /\ q.conn = c /\ q.sending = peer[o].sending - 1
      /\ (q.recving <=> peer[o].recving) /\ (q.wait <=> peer[o].wait)
  BY <1>2, <1>3, <1>4 DEF PeerType
<1>7. CheckRelease(o, [peer EXCEPT ![o] = q])
  <2>1. [peer EXCEPT ![o].sending = @ - 1] = [peer EXCEPT ![o] = q]
    BY <1>2, <1>3
  <2>2. QED
    BY <1>1, <2>1 DEF SendEnds
<1>8. /\ (q.recving <=> r.at # "none") /\ q.sending = w.pending + w.ok + w.err
      /\ (q.wait <=> c \notin open')
      /\ r.at = "none" => r.op = "none" /\ c \notin open'
  BY <1>1, <1>2, <1>4, <1>5, <1>6, IndInvParts DEF Served, Lives
<1>9. size' = size => RestTypeOK'
  BY <1>1, IndInvParts, RestAlone
<1>10. holder' = NoConn /\ UNCHANGED <<frame, origin>> /\ open' = open
  BY <1>1
<1>11. r \in ReadType /\ rx' = [rx EXCEPT ![c] = r]
  BY <1>3
<1> HIDE DEF q, r, w
<1>12. QED
  BY <1>2, <1>5, <1>6, <1>7, <1>8, <1>9, <1>10, <1>11, Ends

LEMMA WriteFailedStep == ASSUME IndInv, NEW c \in Conns, WriteFailed(c) PROVE IndInv'
<1> DEFINE o == frame[c]
           S == Stoppable(peer[o].pid)
           g == [tx EXCEPT ![c].err = @ - 1]
           s == [peer[o] EXCEPT !.wait = TRUE]
           q == [s EXCEPT !.sending = @ - 1]
<1>1. /\ holder = NoConn /\ tx[c].err > 0 /\ open' = open \ S /\ frame' = frame
      /\ rx' = ReadsAborted(S, rx) /\ tx' = WritesAborted(S, g)
      /\ SendEnds(c, PeersStopped(peer[o].pid))
      /\ UNCHANGED <<origin, listening, holder, calls, posted>>
  BY DEF WriteFailed, Free, discVars
<1>2. Live(c) /\ Served(c) /\ peer[o].conn = c /\ o \in 1 .. MaxObjects
  BY <1>1, BusyIsLive, LiveFacts
<1>3. /\ S = open \cap {c} /\ open' = open \ {c} /\ c \notin open'
      /\ PeersStopped(peer[o].pid) = [peer EXCEPT ![o] = s] /\ s \in PeerType
  BY <1>1, <1>2, StopFacts
<1>4. /\ peer \in [1 .. MaxObjects -> PeerType] /\ rx \in [Conns -> ReadType]
      /\ tx \in [Conns -> [pending : Nat, ok : Nat, err : Nat]] /\ peer[o] \in PeerType
  BY <1>2, SameFacts, IndInvParts DEF PeersTypeOK
<1>5. /\ tx[c] \in [pending : Nat, ok : Nat, err : Nat]
      /\ tx[c].pending \in Nat /\ tx[c].ok \in Nat /\ tx[c].err \in Nat /\ tx[c].err - 1 \in Nat
      /\ peer[o].sending = tx[c].pending + tx[c].ok + tx[c].err
      /\ peer[o].sending - 1 \in 0 .. MaxSends
  <2>1. tx[c] \in [pending : Nat, ok : Nat, err : Nat]
    BY <1>4
  <2>2. tx[c].pending \in Nat /\ tx[c].ok \in Nat /\ tx[c].err \in Nat
    BY <2>1
  <2>3. peer[o].sending \in 0 .. MaxSends
    BY <1>4 DEF PeerType
  <2>4. QED
    BY <1>1, <1>2, <2>1, <2>2, <2>3, BoundAssumption DEF Served, Writes
<1>6. S \in SUBSET {c}
  BY <1>3
<1>7. PICK r \in ReadType : /\ rx' = [rx EXCEPT ![c] = r]
                            /\ r.at = rx[c].at /\ (r.op = "none" <=> rx[c].op = "none")
  <2> HIDE DEF S
  <2>1. QED
    BY <1>1, <1>4, <1>6, ReadAborted
<1>8. \E w \in [pending : Nat, ok : Nat, err : Nat] :
        /\ tx' = [tx EXCEPT ![c] = w]
        /\ w.pending + w.ok + w.err = peer[o].sending - 1
  <2> DEFINE v == [tx[c] EXCEPT !.err = @ - 1]
  <2>1. /\ v \in [pending : Nat, ok : Nat, err : Nat]
        /\ v.pending = tx[c].pending /\ v.ok = tx[c].ok /\ v.err = tx[c].err - 1
    BY <1>5
  <2>2. g = [tx EXCEPT ![c] = v]
    BY <1>4
  <2> HIDE DEF v
  <2>3. g \in [Conns -> [pending : Nat, ok : Nat, err : Nat]] /\ g[c] = v
    BY <1>4, <2>1, <2>2
  <2> HIDE DEF g, S
  <2>4. PICK w \in [pending : Nat, ok : Nat, err : Nat] :
          /\ tx' = [g EXCEPT ![c] = w]
          /\ w.pending + w.ok + w.err = g[c].pending + g[c].ok + g[c].err
    BY <1>1, <1>6, <2>3, WriteAborted
  <2>5. tx' = [tx EXCEPT ![c] = w]
    BY <1>4, <2>2, <2>4
  <2>6. w.pending + w.ok + w.err = peer[o].sending - 1
    BY <1>5, <2>1, <2>3, <2>4
  <2>7. QED
    BY <2>5, <2>6
<1>9. PICK w \in [pending : Nat, ok : Nat, err : Nat] :
        /\ tx' = [tx EXCEPT ![c] = w]
        /\ w.pending + w.ok + w.err = peer[o].sending - 1
  BY <1>8
<1>10. /\ q \in PeerType /\ q.pid = peer[o].pid /\ q.conn = c /\ q.wait
       /\ (q.recving <=> peer[o].recving) /\ q.sending = peer[o].sending - 1
  BY <1>2, <1>3, <1>4, <1>5 DEF PeerType
<1>11. CheckRelease(o, [peer EXCEPT ![o] = q])
  <2>1. [[peer EXCEPT ![o] = s] EXCEPT ![o].sending = @ - 1] = [peer EXCEPT ![o] = q]
    BY <1>2, <1>4
  <2>2. QED
    BY <1>1, <1>3, <2>1 DEF SendEnds
<1>12. /\ (q.recving <=> r.at # "none") /\ q.sending = w.pending + w.ok + w.err
       /\ (q.wait <=> c \notin open')
       /\ r.at = "none" => r.op = "none" /\ c \notin open'
  BY <1>2, <1>3, <1>7, <1>9, <1>10, IndInvParts DEF Served, Lives
<1>13. size' = size => RestTypeOK'
  BY <1>1, IndInvParts, RestAlone
<1>14. holder' = NoConn /\ UNCHANGED <<frame, origin>> /\ open' = open \ {c}
  BY <1>1, <1>3
<1> HIDE DEF q, s, g, S
<1>15. QED
  BY <1>2, <1>7, <1>9, <1>10, <1>11, <1>12, <1>13, <1>14, Ends

\* A pid in the table is that of a live connection.
LEMMA RowFacts ==
  ASSUME IndInv, NEW pid \in DOMAIN table
  PROVE  LET c == peer[table[pid]].conn
         IN c \in Conns /\ Live(c) /\ frame[c] = table[pid] /\ peer[frame[c]].pid = pid
BY IndInvParts DEF Rows

LEMMA SendStep == ASSUME IndInv, NEW pid \in Pids, Send(pid) PROVE IndInv'
<1> DEFINE o == table[pid]
           c == peer[o].conn
           q == [peer[o] EXCEPT !.sending = @ + 1]
           r == rx[c]
           w == IF c \in open THEN [tx[c] EXCEPT !.pending = @ + 1] ELSE [tx[c] EXCEPT !.err = @ + 1]
<1>1. /\ pid \in DOMAIN table /\ peer[o].sending < MaxSends
      /\ peer' = [peer EXCEPT ![o].sending = @ + 1]
      /\ tx' = IF c \in open THEN [tx EXCEPT ![c].pending = @ + 1]
                             ELSE [tx EXCEPT ![c].err = @ + 1]
      /\ UNCHANGED <<tableVars, poolVars, frame, told, origin>>
      /\ open' = open /\ rx' = rx /\ size' = size
      /\ UNCHANGED <<listening, calls, posted>>
      /\ holder' \in {holder, SendLoop}
  BY DEF Send, discVars, tableVars
<1>2. c \in Conns /\ Live(c) /\ frame[c] = o
  BY <1>1, RowFacts
<1>3. Served(c) /\ o \in 1 .. MaxObjects
  BY <1>2, LiveFacts
<1>4. /\ peer \in [1 .. MaxObjects -> PeerType] /\ peer[o] \in PeerType
      /\ rx' = [rx EXCEPT ![c] = r] /\ r \in ReadType
      /\ tx \in [Conns -> [pending : Nat, ok : Nat, err : Nat]]
      /\ tx[c] \in [pending : Nat, ok : Nat, err : Nat]
  BY <1>1, <1>2, SameFacts, IndInvParts DEF PeersTypeOK
<1>5. /\ tx[c].pending \in Nat /\ tx[c].ok \in Nat /\ tx[c].err \in Nat
      /\ peer[o].sending = tx[c].pending + tx[c].ok + tx[c].err
      /\ peer[o].sending \in Nat /\ peer[o].sending + 1 \in 0 .. MaxSends
  <2>1. tx[c].pending \in Nat /\ tx[c].ok \in Nat /\ tx[c].err \in Nat
    BY <1>4
  <2>2. peer[o].sending \in 0 .. MaxSends
    BY <1>4 DEF PeerType
  <2>3. QED
    BY <1>1, <1>2, <1>3, <2>1, <2>2, BoundAssumption DEF Served, Writes
<1>6. /\ w \in [pending : Nat, ok : Nat, err : Nat] /\ tx' = [tx EXCEPT ![c] = w]
      /\ w.pending + w.ok + w.err = peer[o].sending + 1
  <2>1. CASE c \in open
    <3> DEFINE v == [tx[c] EXCEPT !.pending = @ + 1]
    <3>1. /\ v \in [pending : Nat, ok : Nat, err : Nat]
          /\ v.pending = tx[c].pending + 1 /\ v.ok = tx[c].ok /\ v.err = tx[c].err
      <4>1. tx[c].pending + 1 \in Nat /\ tx[c] \in [pending : Nat, ok : Nat, err : Nat]
        BY <1>4, <1>5
      <4> HIDE DEF c
      <4>2. \A n \in Nat : [tx[c] EXCEPT !.pending = n] \in [pending : Nat, ok : Nat, err : Nat]
        BY <4>1
      <4>3. v \in [pending : Nat, ok : Nat, err : Nat]
        BY <4>1, <4>2
      <4>4. QED
        BY <4>1, <4>3
    <3>2. tx' = [tx EXCEPT ![c] = v] /\ w = v
      BY <1>1, <1>2, <1>4, <2>1
    <3>3. v.pending + v.ok + v.err = peer[o].sending + 1
      BY <1>5, <3>1
    <3> HIDE DEF v, w
    <3>4. QED
      BY <3>1, <3>2, <3>3
  <2>2. CASE c \notin open
    <3> DEFINE v == [tx[c] EXCEPT !.err = @ + 1]
    <3>1. /\ v \in [pending : Nat, ok : Nat, err : Nat]
          /\ v.pending = tx[c].pending /\ v.ok = tx[c].ok /\ v.err = tx[c].err + 1
      <4>1. tx[c].err + 1 \in Nat /\ tx[c] \in [pending : Nat, ok : Nat, err : Nat]
        BY <1>4, <1>5
      <4> HIDE DEF c
      <4>2. \A n \in Nat : [tx[c] EXCEPT !.err = n] \in [pending : Nat, ok : Nat, err : Nat]
        BY <4>1
      <4>3. v \in [pending : Nat, ok : Nat, err : Nat]
        BY <4>1, <4>2
      <4>4. QED
        BY <4>1, <4>3
    <3>2. tx' = [tx EXCEPT ![c] = v] /\ w = v
      BY <1>1, <1>2, <1>4, <2>2
    <3>3. v.pending + v.ok + v.err = peer[o].sending + 1
      BY <1>5, <3>1
    <3> HIDE DEF v, w
    <3>4. QED
      BY <3>1, <3>2, <3>3
  <2>3. QED
    BY <2>1, <2>2
<1>7. /\ q \in PeerType /\ q.pid = peer[frame[c]].pid /\ q.conn = c /\ q.sending = peer[o].sending + 1
      /\ (q.recving <=> peer[o].recving) /\ (q.wait <=> peer[o].wait)
      /\ peer' = [peer EXCEPT ![frame[c]] = q]
  BY <1>1, <1>2, <1>3, <1>4, <1>5 DEF PeerType
<1>8. /\ (q.recving <=> r.at # "none") /\ q.sending = w.pending + w.ok + w.err
      /\ (q.wait <=> c \notin open')
      /\ r.at = "none" => r.op = "none" /\ q.sending > 0 /\ c \notin open'
  <2>1. q.sending > 0
    BY <1>5, <1>7
  <2>2. q.sending = w.pending + w.ok + w.err
    BY <1>6, <1>7
  <2>3. /\ (peer[o].recving <=> rx[c].at # "none") /\ (peer[o].wait <=> c \notin open)
        /\ rx[c].at = "none" => rx[c].op = "none" /\ c \notin open
    BY <1>2, <1>3, IndInvParts DEF Served, Lives
  <2>4. QED
    BY <1>1, <1>7, <2>1, <2>2, <2>3
<1>9. RestTypeOK' /\ InCallback'
  <2>1. RestTypeOK /\ InCallback
    BY IndInvParts
  <2>2. QED
    BY <1>1, <2>1, ConnAssumption DEF InCallback, RestTypeOK, Pids
<1>10. UNCHANGED <<tableVars, poolVars, frame, told, origin>> /\ open' = open
  BY <1>1
<1>11. r \in ReadType /\ rx' = [rx EXCEPT ![c] = r]
  BY <1>4
<1> HIDE DEF q, r, w, c
<1>12. QED
  BY <1>2, <1>6, <1>7, <1>8, <1>9, <1>10, <1>11, Goes

LEMMA DisconnectedStep ==
  ASSUME IndInv, NEW pid \in Pids, Disconnected(pid),
         calls' \in 0 .. MaxDisc, posted' \in Seq(Pids)
  PROVE  IndInv'
<1> DEFINE S == Stoppable(pid)
<1>1. /\ UNCHANGED <<tableVars, poolVars, frame, told, origin>>
      /\ UNCHANGED <<listening, holder>> /\ size' = size
      /\ peer' = PeersStopped(pid) /\ open' = open \ S
      /\ rx' = ReadsAborted(S, rx) /\ tx' = WritesAborted(S, tx)
  BY DEF Disconnected, tableVars
<1>2. /\ RestTypeOK /\ InCallback /\ Lives /\ rx \in [Conns -> ReadType] /\ tx \in [Conns -> WriteType]
  BY IndInvParts DEF ConnsTypeOK
<1>3. RestTypeOK'
  BY <1>1, <1>2 DEF RestTypeOK, Pids
<1>4. CASE S = {}
  <2>1. peer' = peer /\ open' = open
    BY <1>1, <1>4 DEF PeersStopped
  <2>2. rx' = rx
    <3>1. ReadsAborted({}, rx) = rx
      BY <1>2 DEF ReadsAborted
    <3>2. QED
      BY <1>1, <1>4, <3>1
  <2>3. tx' = tx
    <3>1. WritesAborted({}, tx) = tx
      BY <1>2 DEF WritesAborted
    <3>2. QED
      BY <1>1, <1>4, <3>1
  <2>4. UNCHANGED peerVars /\ holder' = holder /\ origin' = origin
    BY <1>1, <2>1, <2>2, <2>3 DEF peerVars
  <2>5. QED
    BY <1>3, <2>4, PeersAlone
<1>5. CASE S # {}
  <2> DEFINE c == peer[table[pid]].conn
             q == [peer[frame[c]] EXCEPT !.wait = TRUE]
  <2>1. pid \in DOMAIN table /\ c \in open
    BY <1>5 DEF Stoppable
  <2>2. c \in Conns /\ Live(c) /\ frame[c] = table[pid] /\ peer[frame[c]].pid = pid
    BY <2>1, RowFacts
  <2>3. S = open \cap {c} /\ open \ S = open \ {c} /\ PeersStopped(pid) = [peer EXCEPT ![frame[c]] = q]
        /\ q \in PeerType
    <3> HIDE DEF c
    <3>1. /\ Stoppable(peer[frame[c]].pid) = open \cap {c}
          /\ open \ Stoppable(peer[frame[c]].pid) = open \ {c}
          /\ PeersStopped(peer[frame[c]].pid) = [peer EXCEPT ![frame[c]] = q]
          /\ q \in PeerType
      BY <2>2, StopFacts
    <3>2. QED
      BY <2>2, <3>1
  <2>4. tx \in [Conns -> [pending : Nat, ok : Nat, err : Nat]] /\ S \in SUBSET {c}
    BY <1>2, <2>3, BoundAssumption DEF WriteType
  <2> HIDE DEF S, c
  <2>5. PICK r \in ReadType : /\ rx' = [rx EXCEPT ![c] = r]
                              /\ r.at = rx[c].at /\ (r.op = "none" <=> rx[c].op = "none")
    <3>1. rx' = ReadsAborted(S, rx) /\ rx \in [Conns -> ReadType] /\ c \in Conns /\ S \in SUBSET {c}
      BY <1>1, <1>2, <2>2, <2>4
    <3> HIDE DEF q
    <3>2. QED
      BY <3>1, ReadAborted
  <2>6. PICK w \in [pending : Nat, ok : Nat, err : Nat] :
          /\ tx' = [tx EXCEPT ![c] = w]
          /\ w.pending + w.ok + w.err = tx[c].pending + tx[c].ok + tx[c].err
    <3>1. tx' = WritesAborted(S, tx) /\ c \in Conns /\ S \in SUBSET {c}
      BY <1>1, <2>2, <2>4
    <3> HIDE DEF q
    <3>2. \E w \in [pending : Nat, ok : Nat, err : Nat] :
            /\ WritesAborted(S, tx) = [tx EXCEPT ![c] = w]
            /\ w.pending + w.ok + w.err = tx[c].pending + tx[c].ok + tx[c].err
      BY <2>4, <3>1, WriteAborted, Zenon
    <3>3. QED
      BY <3>1, <3>2
  <2>7. Served(c) /\ peer[frame[c]].conn = c /\ peer[frame[c]] \in PeerType
    BY <2>2, LiveFacts
  <2>8. /\ q.pid = peer[frame[c]].pid /\ q.conn = c /\ q.wait
        /\ (q.recving <=> peer[frame[c]].recving) /\ q.sending = peer[frame[c]].sending
    BY <2>7 DEF PeerType
  <2>9. rx[c].at # "none"
    BY <2>1, <2>7 DEF Served
  <2>10. open' = open \ {c} /\ c \notin open' /\ peer' = [peer EXCEPT ![frame[c]] = q]
    BY <1>1, <2>3
  <2>11. /\ (q.recving <=> r.at # "none") /\ q.sending = w.pending + w.ok + w.err
         /\ (q.wait <=> c \notin open') /\ r.at # "none"
    BY <2>5, <2>6, <2>7, <2>8, <2>9, <2>10 DEF Served, Writes
  <2>12. InCallback'
    <3>1. \A d \in Conns : rx'[d].at = rx[d].at
      BY <1>2, <2>2, <2>5
    <3>2. QED
      BY <1>1, <1>2, <3>1 DEF InCallback, RestTypeOK
  <2> HIDE DEF q
  <2>13. UNCHANGED <<tableVars, poolVars, frame, told, origin>>
    BY <1>1
  <2>14. QED
    BY <1>3, <2>2, <2>3, <2>5, <2>6, <2>8, <2>10, <2>11, <2>12, <2>13, Goes
<1>6. QED
  BY <1>4, <1>5

LEMMA RunDisconnectStep ==
  ASSUME IndInv, NEW pid \in Pids, RunDisconnect(pid) \/ DisconnectInline(pid)
  PROVE  IndInv'
<1>1. Disconnected(pid)
  BY DEF RunDisconnect, DisconnectInline
<1>2. calls \in 0 .. MaxDisc /\ posted \in Seq(Pids)
  BY IndInvParts DEF RestTypeOK
<1>3. CASE RunDisconnect(pid)
  <2>1. posted # <<>> /\ posted' = Tail(posted) /\ calls' = calls
    BY <1>3 DEF RunDisconnect
  <2>2. QED
    BY <1>1, <1>2, <2>1, DisconnectedStep
<1>4. CASE DisconnectInline(pid)
  <2>1. calls > 0 /\ calls' = calls - 1 /\ posted' = posted
    BY <1>4 DEF DisconnectInline
  <2>2. calls' \in 0 .. MaxDisc
    BY <1>2, <2>1, BoundAssumption
  <2>3. QED
    BY <1>1, <1>2, <2>1, <2>2, DisconnectedStep
<1>5. QED
  BY <1>3, <1>4

\* What _send_loop does besides sending.
LEMMA SendLoopStep == ASSUME IndInv, SendIgnored \/ SendLoopSleeps PROVE IndInv'
<1>1. /\ UNCHANGED <<peerVars, origin, listening, calls, posted>>
      /\ holder' \in {NoConn, SendLoop}
  BY DEF SendIgnored, SendLoopSleeps, discVars
<1>2. size' = size
  BY <1>1 DEF peerVars, tableVars
<1>3. RestTypeOK'
  BY <1>1, <1>2, IndInvParts DEF RestTypeOK, Pids
<1>4. QED
  BY <1>1, <1>3, PeersAlone

LEMMA NextIndInv == IndInv /\ [Next]_vars => IndInv'
<1> SUFFICES ASSUME IndInv, [Next]_vars PROVE IndInv'
  OBVIOUS
<1>1. CASE Listen
  BY <1>1, ListenStep
<1>2. CASE CallbackReturns
  BY <1>2, CallbackStep
<1>3. ASSUME NEW c \in Conns, NEW reset \in BOOLEAN, Accept(c, reset) \/ Connected(c, reset)
      PROVE  IndInv'
  BY <1>3, AcceptStep
<1>4. ASSUME NEW c \in Conns, Connect(c) \/ ConnectFailed(c) PROVE IndInv'
  BY <1>4, ConnectStep
<1>5. ASSUME NEW c \in Conns, ReadSettles(c) PROVE IndInv'
  BY <1>5, ReadSettlesStep
<1>6. ASSUME NEW c \in Conns, WriteSettles(c) PROVE IndInv'
  BY <1>6, WriteSettlesStep
<1>7. ASSUME NEW c \in Conns, Handlers(c) PROVE IndInv'
  BY <1>7, HeadReadStep, BodyReadStep, ReadFailedStep, WriteDoneStep, WriteFailedStep DEF Handlers
<1>8. ASSUME NEW pid \in Pids, Send(pid) PROVE IndInv'
  BY <1>8, SendStep
<1>9. ASSUME NEW pid \in Pids, Disconnect(pid) PROVE IndInv'
  BY <1>9, DisconnectStep
<1>10. ASSUME NEW pid \in Pids, RunDisconnect(pid) \/ DisconnectInline(pid) PROVE IndInv'
  BY <1>10, RunDisconnectStep
<1>11. CASE SendIgnored \/ SendLoopSleeps
  BY <1>11, SendLoopStep
<1>12. CASE UNCHANGED vars
  <2>1. UNCHANGED peerVars /\ UNCHANGED <<size, origin, listening, holder, calls, posted>>
    BY <1>12 DEF vars, peerVars, tableVars, discVars
  <2>2. RestTypeOK'
    BY <2>1, IndInvParts, RestAlone
  <2>3. QED
    BY <2>1, <2>2, PeersAlone
<1>13. QED
  BY <1>1, <1>2, <1>3, <1>4, <1>5, <1>6, <1>7, <1>8, <1>9, <1>10, <1>11, <1>12 DEF Next

------------------------------------------------------------------------------
(***************************************************************************)
(* The theorems.                                                           *)
(***************************************************************************)
\* The inductive invariant holds in every behaviour of the server.
THEOREM IndInvHolds == Spec => []IndInv
BY InitIndInv, NextIndInv, PTL DEF Spec

\* Every variable has its type; _sending never falls below zero, though it is
\* unsigned in the code and would wrap.
THEOREM TypeCorrect == Spec => []TypeOK
<1>1. IndInv => TypeOK
  BY DEF IndInv
<1>2. QED
  BY <1>1, IndInvHolds, PTL

\* A coroutine that goes on after its read or write finds its Peer still serving
\* its connection, and in the table under its pid.
THEOREM ObjectsAreNotReused == Spec => []NotReused
<1>1. IndInv => NotReused
  <2> SUFFICES ASSUME IndInv, NEW c \in Conns, Suspended(c)
               PROVE  LET p == peer[frame[c]]
                      IN p.conn = c /\ p.pid \in DOMAIN table /\ table[p.pid] = frame[c]
    BY DEF NotReused
  <2>1. Live(c)
    BY BusyIsLive DEF Suspended
  <2>2. QED
    BY <2>1, LiveFacts
<1>2. QED
  BY <1>1, IndInvHolds, PTL

\* _recving and _sending of a Peer count the coroutines suspended in it.
THEOREM CountsAreExact == Spec => []CountsExact
<1>1. IndInv => CountsExact
  <2> SUFFICES ASSUME IndInv, NEW c \in Conns, frame[c] # 0, peer[frame[c]].conn = c
               PROVE  /\ peer[frame[c]].recving = (rx[c].at # "none")
                      /\ peer[frame[c]].sending = Writes(c)
    BY DEF CountsExact
  <2> DEFINE o == frame[c]
  <2>1. o \in 1 .. MaxObjects
    BY IndInvParts, BoundAssumption DEF ConnsTypeOK
  <2>2. o \in Range(table)
    BY <2>1, ConnAssumption, IndInvParts DEF Others
  <2>3. PICK pid \in DOMAIN table : table[pid] = o
    BY <2>2 DEF Range
  <2>4. Live(c)
    BY <2>3, RowFacts
  <2>5. Served(c) /\ peer[o] \in PeerType
    BY <2>4, LiveFacts
  <2>6. peer[o].recving \in BOOLEAN /\ (peer[o].recving <=> rx[c].at # "none")
    BY <2>5 DEF PeerType, Served
  <2>7. peer[o].recving = (rx[c].at # "none")
    BY <2>6, Zenon
  <2>8. QED
    BY <2>5, <2>7 DEF Served
<1>2. QED
  BY <1>1, IndInvHolds, PTL

\* A stopped Peer stays in the table only while a coroutine will release it.
THEOREM NoneIsForgotten == Spec => []NoneForgotten
<1>1. IndInv => NoneForgotten
  <2> SUFFICES ASSUME IndInv, NEW pid \in DOMAIN table
               PROVE  LET c == peer[table[pid]].conn
                      IN c \in Conns /\ (c \in open => rx[c].at # "none") /\ (c \notin open => Suspended(c))
    BY DEF NoneForgotten
  <2> DEFINE c == peer[table[pid]].conn
  <2>1. c \in Conns /\ Live(c)
    BY RowFacts
  <2>2. Served(c)
    BY <2>1, LiveFacts
  <2> HIDE DEF c
  <2>3. rx[c].at = "none" => Writes(c) > 0 /\ c \notin open
    BY <2>2 DEF Served
  <2>4. QED
    BY <2>1, <2>3 DEF c, Suspended
<1>2. QED
  BY <1>1, IndInvHolds, PTL

\* DISC is the last of a connection: no coroutine of it is left and its socket is
\* closed; and none is suspended in it before CONN.
THEOREM DiscComesLast == Spec => []DiscIsLast
<1>1. IndInv => DiscIsLast
  <2> SUFFICES ASSUME IndInv, NEW c \in Conns
               PROVE  /\ told[c] = "disc" => ~Suspended(c) /\ c \notin open
                      /\ Suspended(c) => told[c] \in {"conn", "orphan"}
    BY DEF DiscIsLast
  <2>1. Suspended(c) \/ c \in open => Live(c)
    BY BusyIsLive DEF Suspended
  <2>2. QED
    BY <2>1 DEF Live
<1>2. QED
  BY <1>1, IndInvHolds, PTL

\* Spare and destroyed objects serve nobody, and no object serves twice.
THEOREM PoolStaysApart == Spec => []PoolApart
<1>1. IndInv => PoolApart
  BY DEF IndInv
<1>2. QED
  BY <1>1, IndInvHolds, PTL

\* A pid the application has been told means one connection.
THEOREM PidsStayApart == Spec => []PidsApart
<1>1. IndInv => PidsApart
  <2> SUFFICES ASSUME IndInv, NEW c \in Conns, NEW d \in Conns, c # d,
                      {told[c], told[d]} \subseteq {"conn", "orphan"}
               PROVE  peer[frame[c]].pid # peer[frame[d]].pid
    BY DEF PidsApart
  <2>1. Live(c) /\ Live(d)
    BY DEF Live
  <2>2. /\ table[peer[frame[c]].pid] = frame[c] /\ table[peer[frame[d]].pid] = frame[d]
        /\ frame[d] # frame[c]
    BY <2>1, LiveFacts
  <2>3. QED
    BY <2>2
<1>2. QED
  BY <1>1, IndInvHolds, PTL

------------------------------------------------------------------------------
(***************************************************************************)
(* The server implements Connections.                                      *)
(***************************************************************************)
\* The table as Connections sees it.
Serving == [pid \in DOMAIN table |-> peer[table[pid]].conn]

\* The Peers in P serve what they serve now, under the same pids.
SameService(P) ==
  /\ DOMAIN P = 1 .. MaxObjects
  /\ \A x \in 1 .. MaxObjects : P[x].conn = peer[x].conn /\ P[x].pid = peer[x].pid

LEMMA InUseFacts ==
  ASSUME IndInv, NEW pid \in DOMAIN table
  PROVE  table[pid] \in 1 .. MaxObjects
<1>1. StoreTypeOK /\ made \in Nat /\ table[pid] \in Range(table)
  BY IndInvParts DEF StoreOK, Store, Range
<1>2. table[pid] \in 1 .. made /\ made <= MaxObjects
  BY <1>1 DEF StoreTypeOK
<1>3. QED
  BY <1>1, <1>2, BoundAssumption

LEMMA Stutters ==
  ASSUME IndInv, UNCHANGED <<table, free, size, told>>, SameService(peer')
  PROVE  UNCHANGED Promised!vars
<1>1. \A pid \in DOMAIN table : table[pid] \in 1 .. MaxObjects
  BY InUseFacts
<1>2. Serving' = Serving
  BY <1>1 DEF Serving, SameService
<1>3. QED
  BY <1>2 DEF Serving, Promised!vars

\* Taking a Peer out of the table is a Close, whatever the coroutine has changed
\* before in its own Peer.
LEMMA ReleaseCloses ==
  ASSUME IndInv, NEW c \in Conns, Live(c), NEW P, SameService(P), CheckRelease(frame[c], P)
  PROVE  Promised!Next \/ UNCHANGED Promised!vars
<1> DEFINE o == frame[c]
<1>1. PICK id \in DOMAIN table :
        /\ o \in 1 .. MaxObjects /\ table[id] = o /\ peer[o].conn = c /\ peer[o].pid = id
        /\ \A pid \in DOMAIN table : table[pid] = o => pid = id
  BY LiveFacts
<1>2. P[o].pid = id /\ P[o].conn = c
  BY <1>1 DEF SameService
<1>3. CASE ~P[o].wait \/ P[o].sending > 0 \/ P[o].recving
  <2>1. peer' = P /\ UNCHANGED <<told, poolVars, tableVars>>
    BY <1>3 DEF CheckRelease
  <2>2. QED
    BY <2>1, Stutters DEF tableVars
<1>4. CASE ~(~P[o].wait \/ P[o].sending > 0 \/ P[o].recving)
  <2>1. DelPeer(id, P)
    BY <1>2, <1>4 DEF CheckRelease
  <2>2. /\ told' = [told EXCEPT ![c] = "disc"]
        /\ peer' = [P EXCEPT ![o].pid = INVALID_PEER_ID, ![o].conn = NoConn]
        /\ Peers!Erase(id)
    BY <1>1, <1>2, <2>1 DEF DelPeer
  <2>3. /\ table' = [pid \in DOMAIN table \ {id} |-> table[pid]]
        /\ free' = Append(free, id) /\ size' = size
    BY <2>2 DEF Peers!Erase, Peers!Restrict
  <2>4. \A pid \in DOMAIN table \ {id} : peer'[table[pid]].conn = peer[table[pid]].conn
    <3> SUFFICES ASSUME NEW pid \in DOMAIN table \ {id}
                 PROVE  peer'[table[pid]].conn = peer[table[pid]].conn
      OBVIOUS
    <3>1. table[pid] \in 1 .. MaxObjects
      BY InUseFacts
    <3>2. table[pid] # o
      BY <1>1
    <3>3. peer'[table[pid]] = P[table[pid]]
      BY <2>2, <3>1, <3>2 DEF SameService
    <3>4. QED
      BY <3>1, <3>3 DEF SameService
  <2>5. Serving' = [pid \in DOMAIN table \ {id} |-> Serving[pid]]
    BY <2>3, <2>4 DEF Serving
  <2>6. DOMAIN Serving = DOMAIN table /\ Serving[id] = c
    BY <1>1 DEF Serving
  <2>7. Promised!Close(id)
    BY <1>1, <2>2, <2>3, <2>5, <2>6
       DEF Promised!Close, Promised!Ids!Erase, Promised!Ids!Restrict, Serving
  <2>8. id \in DOMAIN Serving
    BY <1>1, <2>6
  <2>9. QED
    BY <2>7, <2>8 DEF Promised!Next, Serving
<1>5. QED
  BY <1>3, <1>4

LEMMA AddPeerOpens ==
  ASSUME IndInv, NEW c \in Conns, NEW reset \in BOOLEAN, told[c] = "nothing", AddPeer(c, reset)
  PROVE  Promised!Next
<1> DEFINE o == Pool!Spare
           id == Head(free)
           q == [pid |-> id, conn |-> c, wait |-> FALSE, sending |-> 0, recving |-> TRUE]
<1>1. /\ Peers!Insert(o) /\ Pool!Get /\ made' <= MaxObjects
      /\ peer' = [peer EXCEPT ![o] = q]
      /\ told' = [told EXCEPT ![c] = IF reset THEN "orphan" ELSE "conn"]
  BY DEF AddPeer
<1>2. /\ id \notin DOMAIN table
      /\ o \in (1 .. MaxObjects) \ Range(table)
      /\ table' = [x \in DOMAIN table \cup {id} |-> IF x = id THEN o ELSE table[x]]
      /\ DOMAIN table' = DOMAIN table \cup {id}
  BY <1>1, StoreGets, IndInvParts
<1>3. peer \in [1 .. MaxObjects -> PeerType]
  BY IndInvParts DEF PeersTypeOK
<1>4. peer'[table'[id]].conn = c
  BY <1>1, <1>2, <1>3
<1>5. \A x \in DOMAIN table : peer'[table'[x]].conn = peer[table[x]].conn
  <2> SUFFICES ASSUME NEW x \in DOMAIN table PROVE peer'[table'[x]].conn = peer[table[x]].conn
    OBVIOUS
  <2>1. table'[x] = table[x] /\ table[x] # o
    BY <1>2 DEF Range
  <2>2. QED
    BY <1>1, <1>3, <2>1
<1>6. Serving' = [x \in DOMAIN table \cup {id} |-> IF x = id THEN c ELSE Serving[x]]
  BY <1>2, <1>4, <1>5 DEF Serving
<1>7. /\ free # <<>>
      /\ IF Len(free) = 1
         THEN free' = Promised!Ids!NewIds(size) /\ size' = size + PsAllocNum
         ELSE free' = Tail(free) /\ size' = size
  BY <1>1 DEF Peers!Insert, Peers!NewIds, Promised!Ids!NewIds
<1>8. DOMAIN Serving = DOMAIN table
  BY DEF Serving
<1>9. Promised!Ids!Insert(c)
  BY <1>6, <1>7, <1>8 DEF Promised!Ids!Insert, Serving
<1>10. Promised!Open(c, reset)
  BY <1>1, <1>9 DEF Promised!Open
<1>11. QED
  BY <1>10 DEF Promised!Next

\* The coroutines' steps change nothing that Connections sees but by releasing.
LEMMA HandlersImplement ==
  ASSUME IndInv, NEW c \in Conns, Handlers(c)
  PROVE  Promised!Next \/ UNCHANGED Promised!vars
<1> DEFINE o == frame[c]
           pid == peer[o].pid
<1>1. Live(c)
  BY BusyIsLive DEF Handlers, HeadRead, BodyRead, ReadFailed, WriteDone, WriteFailed
<1>2. peer \in [1 .. MaxObjects -> PeerType] /\ o \in 1 .. MaxObjects
  BY <1>1, LiveFacts, IndInvParts DEF PeersTypeOK
<1>3. SameService(peer)
  BY <1>2 DEF SameService
<1>4. /\ SameService([peer EXCEPT ![o].recving = FALSE])
      /\ SameService([peer EXCEPT ![o].sending = @ - 1])
  BY <1>2 DEF SameService, PeerType
<1>5. /\ SameService([PeersStopped(pid) EXCEPT ![o].recving = FALSE])
      /\ SameService([PeersStopped(pid) EXCEPT ![o].sending = @ - 1])
  <2> DEFINE s == [peer[o] EXCEPT !.wait = TRUE]
             P == PeersStopped(pid)
  <2>1. P = [peer EXCEPT ![o] = s] /\ s \in PeerType
    BY <1>1, StopFacts
  <2>2. P \in [1 .. MaxObjects -> PeerType] /\ SameService(P)
    BY <1>2, <2>1 DEF SameService, PeerType
  <2> HIDE DEF P
  <2>3. P[o] \in PeerType
    BY <1>2, <2>2
  <2>4. SameService([P EXCEPT ![o].recving = FALSE])
    BY <1>2, <2>2, <2>3 DEF SameService, PeerType
  <2>5. SameService([P EXCEPT ![o].sending = @ - 1])
    BY <1>2, <2>2, <2>3 DEF SameService, PeerType
  <2>6. QED
    BY <2>4, <2>5 DEF P
<1>6. CASE HeadRead(c)
  <2>1. \/ peer' = peer /\ UNCHANGED <<told, tableVars>>
        \/ CheckRelease(o, [peer EXCEPT ![o].recving = FALSE])
    BY <1>6 DEF HeadRead, RecvEnds
  <2>2. QED
    BY <1>1, <1>3, <1>4, <2>1, Stutters, ReleaseCloses DEF tableVars
<1>7. CASE BodyRead(c)
  BY <1>3, <1>7, Stutters DEF BodyRead, tableVars
<1>8. CASE ReadFailed(c)
  <2>1. CheckRelease(o, [PeersStopped(pid) EXCEPT ![o].recving = FALSE])
    BY <1>8 DEF ReadFailed, RecvEnds
  <2>2. QED
    BY <1>1, <1>5, <2>1, ReleaseCloses
<1>9. CASE WriteDone(c)
  <2>1. CheckRelease(o, [peer EXCEPT ![o].sending = @ - 1])
    BY <1>9 DEF WriteDone, SendEnds
  <2>2. QED
    BY <1>1, <1>4, <2>1, ReleaseCloses
<1>10. CASE WriteFailed(c)
  <2>1. CheckRelease(o, [PeersStopped(pid) EXCEPT ![o].sending = @ - 1])
    BY <1>10 DEF WriteFailed, SendEnds
  <2>2. QED
    BY <1>1, <1>5, <2>1, ReleaseCloses
<1>11. QED
  BY <1>6, <1>7, <1>8, <1>9, <1>10 DEF Handlers

LEMMA NextImplements == IndInv /\ [Next]_vars => [Promised!Next]_(Promised!vars)
<1> SUFFICES ASSUME IndInv, [Next]_vars
             PROVE  Promised!Next \/ UNCHANGED Promised!vars
  OBVIOUS
<1>1. peer \in [1 .. MaxObjects -> PeerType] /\ SameService(peer)
  BY IndInvParts DEF PeersTypeOK, SameService
<1>2. ASSUME UNCHANGED <<table, free, size, told, peer>>
      PROVE  UNCHANGED Promised!vars
  BY <1>1, <1>2, Stutters
<1>3. CASE Listen \/ CallbackReturns \/ SendIgnored \/ SendLoopSleeps \/ UNCHANGED vars
  BY <1>2, <1>3 DEF Listen, CallbackReturns, SendIgnored, SendLoopSleeps, vars, peerVars, tableVars
<1>4. ASSUME NEW c \in Conns, NEW reset \in BOOLEAN, Accept(c, reset) \/ Connected(c, reset)
      PROVE  Promised!Next
  <2>1. AddPeer(c, reset) /\ origin[c] \in {"new", "connecting"}
    BY <1>4 DEF Accept, Connected
  <2>2. told[c] = "nothing"
    BY <2>1, IndInvParts DEF Lives
  <2>3. QED
    BY <2>1, <2>2, AddPeerOpens
<1>5. ASSUME NEW c \in Conns,
             Connect(c) \/ ConnectFailed(c) \/ ReadSettles(c) \/ WriteSettles(c)
      PROVE  UNCHANGED Promised!vars
  BY <1>2, <1>5 DEF Connect, ConnectFailed, ReadSettles, WriteSettles, peerVars, tableVars
<1>6. ASSUME NEW c \in Conns, Handlers(c) PROVE Promised!Next \/ UNCHANGED Promised!vars
  BY <1>6, HandlersImplement
<1>7. ASSUME NEW pid \in Pids, Send(pid) PROVE UNCHANGED Promised!vars
  <2>1. UNCHANGED <<table, free, size, told>> /\ peer' = [peer EXCEPT ![table[pid]].sending = @ + 1]
        /\ pid \in DOMAIN table
    BY <1>7 DEF Send, tableVars
  <2>2. SameService(peer')
    BY <1>1, <2>1 DEF SameService, PeerType
  <2>3. QED
    BY <2>1, <2>2, Stutters
<1>8. ASSUME NEW pid \in Pids, Disconnect(pid) PROVE UNCHANGED Promised!vars
  BY <1>2, <1>8 DEF Disconnect, peerVars, tableVars
<1>9. ASSUME NEW pid \in Pids, RunDisconnect(pid) \/ DisconnectInline(pid)
      PROVE  UNCHANGED Promised!vars
  <2>1. UNCHANGED <<table, free, size, told>> /\ peer' = PeersStopped(pid)
    BY <1>9 DEF RunDisconnect, DisconnectInline, Disconnected, tableVars
  <2>2. SameService(PeersStopped(pid))
    BY <1>1 DEF SameService, PeersStopped, PeerType
  <2>3. QED
    BY <2>1, <2>2, Stutters
<1>10. QED
  BY <1>3, <1>4, <1>5, <1>6, <1>7, <1>8, <1>9 DEF Next

\* The server is a Connections: each connection is reported once when it is
\* opened, under the id that has been free for longest, and once when it is
\* closed, together with the change of the table.
THEOREM ServerIsConnections == Spec => ImplementsConnections
<1>1. Init => Promised!Init
  <2> SUFFICES ASSUME Init PROVE Promised!Init
    OBVIOUS
  <2>1. /\ table = <<>> /\ free = Peers!NewIds(0) /\ size = PsAllocNum
        /\ told = [c \in Conns |-> "nothing"]
    BY DEF Init, Peers!Init
  <2>2. Serving = <<>>
    BY <2>1 DEF Serving
  <2>3. QED
    BY <2>1, <2>2 DEF Promised!Init, Promised!Ids!Init, Peers!NewIds, Promised!Ids!NewIds, Serving
<1>2. QED
  BY <1>1, IndInvHolds, NextImplements, PTL DEF Spec, Promised!Spec, ImplementsConnections
==============================================================================
