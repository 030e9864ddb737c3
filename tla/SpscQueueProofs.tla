--------------------------- MODULE SpscQueueProofs ---------------------------
(***************************************************************************)
(* Theorems about SpscQueue for every Size, Values and number of pushes.   *)
(***************************************************************************)
EXTENDS SpscQueue, TLAPS, SequenceTheorems

\* A step of the index around the ring lengthens the distance to it by one,
\* shortens the distance from it by one, and distances tell indexes apart.
LEMMA DistFacts ==
  ASSUME NEW r \in Idx, NEW w \in Idx
  PROVE  /\ Dist(r, w) \in 0 .. Size - 1
         /\ NextIdx(r) \in Idx
         /\ Dist(r, w) = 0 <=> r = w
         /\ (NextIdx(w) = r) <=> (Dist(r, w) = Size - 1)
         /\ Dist(r, w) < Size - 1 => Dist(r, NextIdx(w)) = Dist(r, w) + 1
         /\ r # w => Dist(NextIdx(r), w) = Dist(r, w) - 1
BY SizeAssumption DEF Dist, NextIdx, Idx

\* Two indexes at the same distance from a third are the same.
LEMMA DistInjective ==
  ASSUME NEW r \in Idx, NEW i \in Idx, NEW w \in Idx
  PROVE  Dist(r, i) = Dist(r, w) <=> i = w
BY SizeAssumption DEF Dist, Idx

\* The last element of a modification order to which a store is appended.
LEMMA AppendFacts ==
  ASSUME NEW order \in Seq(Idx), order # <<>>, NEW i \in Idx
  PROVE  /\ Len(order) \in Nat /\ Len(order) >= 1
         /\ Last(order) = order[Len(order)]
         /\ Last(order) \in Idx
         /\ Append(order, i) \in Seq(Idx)
         /\ Append(order, i) # <<>>
         /\ Len(Append(order, i)) = Len(order) + 1
         /\ Last(Append(order, i)) = i
         /\ \A k \in 1 .. Len(order) : Append(order, i)[k] = order[k]
         /\ Append(order, i)[Len(order) + 1] = i
BY SizeAssumption DEF Last

LEMMA InitTypeOK == Init => TypeOK
<1> SUFFICES ASSUME Init PROVE TypeOK
  OBVIOUS
<1>1. 0 \in Idx
  BY SizeAssumption DEF Idx
<1>2. write_order \in Seq(Idx) /\ Len(write_order) = 1 /\ read_order \in Seq(Idx) /\ Len(read_order) = 1
  BY <1>1 DEF Init
<1>3. slots \in [Idx -> Values \cup {Raw}] /\ built \in [Idx -> Nat] /\ cleared \in [Idx -> Nat]
  BY DEF Init
<1>4. seen_read \in 1 .. Len(read_order) /\ seen_write \in 1 .. Len(write_order)
  BY <1>2 DEF Init
<1>5. write_order # <<>> /\ read_order # <<>>
  BY DEF Init
<1>6. QED
  BY <1>2, <1>3, <1>4, <1>5, Zenon DEF Init, TypeOK

\* What the inductive invariant says of the present indexes and positions.
LEMMA StateFacts ==
  ASSUME IndInv
  PROVE  /\ Written \in Nat /\ Freed \in Nat /\ Freed >= 1
         /\ seen_read \in Nat /\ seen_write \in Nat
         /\ seen_read <= Freed /\ Freed <= seen_write /\ seen_write <= Written
         /\ Written <= Freed + Size - 1
         /\ WriteIdx \in Idx /\ ReadIdx \in Idx
         /\ WriteIdx = write_order[Written] /\ ReadIdx = read_order[Freed]
         /\ \A j \in 1 .. Freed : read_order[j] \in Idx
         /\ \A k \in 1 .. Written : write_order[k] \in Idx
         /\ Dist(ReadIdx, WriteIdx) = Written - Freed
<1> USE SizeAssumption
<1>1. /\ write_order \in Seq(Idx) /\ write_order # <<>>
      /\ read_order \in Seq(Idx) /\ read_order # <<>>
      /\ seen_read \in 1 .. Len(read_order) /\ seen_write \in 1 .. Len(write_order)
  BY DEF IndInv, TypeOK
<1>2. PICK i \in Idx : TRUE
  BY DEF Idx
<1>3. /\ Written \in Nat /\ Written >= 1 /\ WriteIdx \in Idx /\ WriteIdx = write_order[Written]
      /\ Freed \in Nat /\ Freed >= 1 /\ ReadIdx \in Idx /\ ReadIdx = read_order[Freed]
  BY <1>1, <1>2, AppendFacts DEF Written, Freed, WriteIdx, ReadIdx
<1>4. /\ seen_read \in Nat /\ seen_write \in Nat
      /\ seen_read <= Freed /\ Freed <= seen_write /\ seen_write <= Written
      /\ Written <= Freed + Size - 1
  BY <1>1, <1>3 DEF IndInv, Positions, Written, Freed
<1>5. Dist(ReadIdx, WriteIdx) = Written - Freed
  BY <1>3, <1>4 DEF IndInv, Ring
<1>6. /\ \A j \in 1 .. Freed : read_order[j] \in Idx
      /\ \A k \in 1 .. Written : write_order[k] \in Idx
  BY <1>1 DEF Written, Freed
<1>7. QED
  BY <1>3, <1>4, <1>5, <1>6

\* The parts of TypeOK a step disturbs separately.
MemoryOK == /\ slots \in [Idx -> Values \cup {Raw}]
            /\ built \in [Idx -> Nat]
            /\ cleared \in [Idx -> Nat]
OrdersOK == /\ write_order \in Seq(Idx) /\ write_order # <<>>
            /\ read_order \in Seq(Idx) /\ read_order # <<>>
            /\ seen_read \in 1 .. Len(read_order)
            /\ seen_write \in 1 .. Len(write_order)
ControlOK == /\ prod \in {"idle", "construct", "publish"}
             /\ arg \in Values \cup {Raw}
             /\ cons \in {"idle", "move", "destroy", "publish"}
             /\ out \in Values \cup {Raw}
HintsOK == room \in BOOLEAN /\ some \in BOOLEAN /\ alive \in BOOLEAN

LEMMA TypeParts == TypeOK <=> MemoryOK /\ OrdersOK /\ ControlOK /\ HintsOK
BY Zenon DEF TypeOK, MemoryOK, OrdersOK, ControlOK, HintsOK

LEMMA PushCheckStep ==
  ASSUME IndInv, NEW v \in Values, NEW p \in 1 .. Len(read_order), PushCheck(v, p)
  PROVE  IndInv'
<1> USE SizeAssumption DEF IndInv
<1>1. MemoryOK /\ OrdersOK /\ ControlOK /\ HintsOK
  BY TypeParts
<1>2. /\ UNCHANGED <<slots, write_order, read_order, built, cleared, alive, cons, out, some, seen_write>>
      /\ prod = "idle" /\ prod' \in {"idle", "construct"} /\ alive
      /\ seen_read' = p /\ seen_read <= p /\ p <= Len(read_order)
  BY <1>1, SMT DEF PushCheck, sharedVars, consVars, Loadable, OrdersOK
<1>3. prod' = "construct" => arg' = v /\ ~Full(WriteIdx, read_order[p])
  BY SMT DEF PushCheck
<1>4. TypeOK'
  <2>1. MemoryOK' /\ OrdersOK'
    BY <1>1, <1>2 DEF MemoryOK, OrdersOK
  <2>2. ControlOK'
    BY <1>1, <1>2, SMT DEF ControlOK, PushCheck
  <2>3. HintsOK'
    BY <1>1, <1>2, Zenon DEF HintsOK, PushCheck
  <2>4. QED
    BY <2>1, <2>2, <2>3, TypeParts, PTL
<1>5. Positions'
  <2>1. prod' = "construct" => Written - p # Size - 1
    <3> SUFFICES ASSUME prod' = "construct" PROVE Written - p # Size - 1
      OBVIOUS
    <3>1. p \in 1 .. Freed /\ Written \in 1 .. Written /\ p <= Written /\ Written < p + Size
      BY <1>2, StateFacts DEF Positions, Freed
    <3>2. Dist(read_order[p], WriteIdx) = Written - p
      BY <3>1, StateFacts DEF Ring
    <3>3. QED
      BY <1>2, <1>3, <3>1, <3>2, StateFacts, DistFacts DEF Full
  <2>2. QED
    BY <1>2, <2>1, StateFacts DEF Positions, Written, Freed
<1>6. Ring' /\ Epochs'
  BY <1>1, <1>2 DEF Ring, Epochs, Written, Freed
<1>7. SlotsExact'
  BY <1>2 DEF SlotsExact, InFlight, WriteIdx, ReadIdx
<1>8. Held'
  BY <1>2, <1>3 DEF Held, WriteIdx
<1>9. QED
  BY <1>4, <1>5, <1>6, <1>7, <1>8

LEMMA PushConstructStep ==
  ASSUME IndInv, PushConstruct
  PROVE  IndInv'
<1> USE SizeAssumption DEF IndInv
<1>1. MemoryOK /\ OrdersOK /\ ControlOK /\ HintsOK
  BY TypeParts
<1>2. /\ UNCHANGED <<write_order, read_order, cleared, alive, arg, seen_read, room,
                     cons, out, some, seen_write>>
      /\ prod = "construct" /\ prod' = "publish"
      /\ slots' = [slots EXCEPT ![WriteIdx] = arg]
      /\ built' = [built EXCEPT ![WriteIdx] = Written]
  BY DEF PushConstruct, consVars, Written
<1>3. arg \in Values /\ alive
  BY <1>2 DEF Held
<1>4. WriteIdx \in Idx /\ WriteIdx = write_order[Written] /\ WriteIdx' = WriteIdx /\ ReadIdx' = ReadIdx
      /\ Written \in Nat
  BY <1>2, StateFacts DEF WriteIdx, ReadIdx
<1>5. /\ slots'[WriteIdx] = arg /\ built'[WriteIdx] = Written
      /\ \A i \in Idx : i # WriteIdx => slots'[i] = slots[i] /\ built'[i] = built[i]
      /\ slots' \in [Idx -> Values \cup {Raw}] /\ built' \in [Idx -> Nat]
  BY <1>1, <1>2, <1>3, <1>4 DEF MemoryOK
<1>6. TypeOK'
  <2>1. MemoryOK' /\ OrdersOK'
    BY <1>1, <1>2, <1>5 DEF MemoryOK, OrdersOK
  <2>2. ControlOK' /\ HintsOK'
    BY <1>1, <1>2, Zenon DEF ControlOK, HintsOK
  <2>3. QED
    BY <2>1, <2>2, TypeParts, PTL
<1>7. Positions' /\ Ring'
  BY <1>2 DEF Positions, Ring, Written, Freed
<1>8. Epochs'
  BY <1>2, <1>4, <1>5 DEF Epochs, Written, Freed
<1>9. SlotsExact'
  BY <1>2, <1>3, <1>4, <1>5, RawAssumption DEF SlotsExact, InFlight
<1>10. Held'
  BY <1>2, <1>3, <1>4, <1>5 DEF Held
<1>11. QED
  BY <1>6, <1>7, <1>8, <1>9, <1>10

LEMMA PushPublishStep ==
  ASSUME IndInv, PushPublish
  PROVE  IndInv'
<1> USE SizeAssumption DEF IndInv
<1>1. MemoryOK /\ OrdersOK /\ ControlOK /\ HintsOK
  BY TypeParts
<1>2. /\ UNCHANGED <<slots, read_order, built, cleared, alive, seen_read, room,
                     cons, out, some, seen_write>>
      /\ prod = "publish" /\ prod' = "idle" /\ arg' = Raw
      /\ write_order' = Append(write_order, NextIdx(WriteIdx))
  BY DEF PushPublish, consVars
<1>3. /\ WriteIdx \in Idx /\ ReadIdx \in Idx /\ NextIdx(WriteIdx) \in Idx
      /\ WriteIdx = write_order[Written] /\ ReadIdx' = ReadIdx
  BY <1>2, StateFacts, DistFacts DEF ReadIdx
<1>4. /\ write_order' \in Seq(Idx) /\ write_order' # <<>>
      /\ Written' = Written + 1 /\ WriteIdx' = NextIdx(WriteIdx)
      /\ \A k \in 1 .. Written : write_order'[k] = write_order[k]
      /\ write_order'[Written + 1] = NextIdx(WriteIdx)
  BY <1>1, <1>2, <1>3, AppendFacts DEF OrdersOK, Written, WriteIdx
<1>5. Freed' = Freed /\ Written + 1 <= seen_read + Size - 1
  BY <1>2, StateFacts DEF Freed, Positions
<1>6. TypeOK'
  <2>1. MemoryOK'
    BY <1>1, <1>2 DEF MemoryOK
  <2>2. Len(write_order') = Len(write_order) + 1 /\ Len(write_order) \in Nat
    BY <1>4, StateFacts DEF Written
  <2>3. OrdersOK'
    BY <1>1, <1>2, <1>4, <2>2 DEF OrdersOK
  <2>4. ControlOK' /\ HintsOK'
    BY <1>1, <1>2, Zenon DEF ControlOK, HintsOK
  <2>5. QED
    BY <2>1, <2>3, <2>4, TypeParts, PTL
<1>7. Positions'
  BY <1>2, <1>4, <1>5, StateFacts DEF Positions
<1>8. Ring'
  <2> SUFFICES ASSUME NEW j \in 1 .. Freed, NEW k \in 1 .. Written + 1, j <= k, k < j + Size
               PROVE  Dist(read_order[j], write_order'[k]) = k - j
    BY <1>2, <1>4, <1>5 DEF Ring
  <2>1. CASE k <= Written
    BY <1>4, <2>1, StateFacts DEF Ring
  <2>2. CASE k = Written + 1
    <3>1. /\ j \in 1 .. Freed /\ Written \in 1 .. Written /\ j <= Written
          /\ Written + 1 < j + Size /\ read_order[j] \in Idx
      BY <2>2, StateFacts
    <3>2. Dist(read_order[j], WriteIdx) = Written - j
      BY <1>3, <3>1 DEF Ring
    <3>3. Dist(read_order[j], NextIdx(WriteIdx)) = Written - j + 1
      <4>1. Dist(read_order[j], WriteIdx) < Size - 1
        BY <3>1, <3>2, StateFacts
      <4>2. Dist(read_order[j], NextIdx(WriteIdx)) = Dist(read_order[j], WriteIdx) + 1
        BY <1>3, <3>1, <4>1, DistFacts
      <4>3. QED
        BY <3>2, <4>2
    <3>4. QED
      BY <1>4, <2>2, <3>1, <3>3, StateFacts
  <2>3. QED
    BY <2>1, <2>2, StateFacts
<1>9. Epochs'
  <2> SUFFICES ASSUME NEW i \in Idx
               PROVE  /\ cleared[i] <= Freed
                      /\ cleared[i] = Freed => cons # "idle"
                      /\ cleared[i] > 0 => read_order[cleared[i]] = i
                      /\ built[i] <= Written + 1
                      /\ built[i] = Written + 1 => FALSE
                      /\ built[i] > 0 => write_order'[built[i]] = i
    BY <1>2, <1>4, <1>5 DEF Epochs
  <2>1. built[i] \in Nat /\ built[i] <= Written /\ Written \in Nat
    BY <1>1, StateFacts DEF Epochs, MemoryOK
  <2>2. built[i] > 0 => built[i] \in 1 .. Written
    BY <2>1
  <2>3. QED
    BY <1>4, <2>1, <2>2 DEF Epochs
<1>10. SlotsExact'
  <2> SUFFICES ASSUME NEW i \in Idx PROVE (slots[i] # Raw) <=> InFlight(i)'
    BY <1>2 DEF SlotsExact
  <2>1. /\ Dist(ReadIdx, WriteIdx) = Written - Freed /\ Written - Freed < Size - 1
        /\ Dist(ReadIdx, i) \in 0 .. Size - 1 /\ Dist(ReadIdx, WriteIdx) \in 0 .. Size - 1
        /\ Dist(ReadIdx, i) = Dist(ReadIdx, WriteIdx) <=> i = WriteIdx
        /\ Dist(ReadIdx, WriteIdx') = Dist(ReadIdx, WriteIdx) + 1
    <3>1. Dist(ReadIdx, WriteIdx) = Written - Freed /\ Written - Freed < Size - 1
      BY <1>2, <1>5, StateFacts
    <3>2. Dist(ReadIdx, i) \in 0 .. Size - 1 /\ Dist(ReadIdx, WriteIdx) \in 0 .. Size - 1
      BY <1>3, DistFacts
    <3>3. Dist(ReadIdx, i) = Dist(ReadIdx, WriteIdx) <=> i = WriteIdx
      BY <1>3, DistInjective
    <3>4. Dist(ReadIdx, WriteIdx') = Dist(ReadIdx, WriteIdx) + 1
      BY <1>3, <1>4, <3>1, DistFacts
    <3>5. QED
      BY <3>1, <3>2, <3>3, <3>4
  <2>2. cons = "publish" => WriteIdx # ReadIdx
    BY <1>3, <2>1, StateFacts, DistFacts DEF Positions
  <2>3. alive
    BY <1>2 DEF Held
  <2>4. InFlight(i)' <=> InFlight(i)
    BY <1>2, <1>3, <2>1, <2>2, <2>3 DEF InFlight
  <2>5. QED
    BY <2>4 DEF SlotsExact
<1>11. Held'
  BY <1>2 DEF Held
<1>12. QED
  BY <1>6, <1>7, <1>8, <1>9, <1>10, <1>11

LEMMA ProducerFullStep ==
  ASSUME IndInv, NEW p \in 1 .. Len(read_order), ProducerFull(p)
  PROVE  IndInv'
<1> USE SizeAssumption DEF IndInv
<1>1. MemoryOK /\ OrdersOK /\ ControlOK /\ HintsOK
  BY TypeParts
<1>2. /\ UNCHANGED <<slots, write_order, read_order, built, cleared, alive, prod, arg,
                     cons, out, some, seen_write>>
      /\ prod = "idle" /\ seen_read' = p /\ seen_read <= p /\ p <= Len(read_order)
  BY <1>1, SMT DEF ProducerFull, sharedVars, consVars, Loadable, OrdersOK
<1>3. TypeOK'
  <2>1. MemoryOK' /\ OrdersOK'
    BY <1>1, <1>2 DEF MemoryOK, OrdersOK
  <2>2. ControlOK'
    BY <1>1, <1>2 DEF ControlOK
  <2>3. HintsOK'
    BY <1>1, <1>2, Zenon DEF HintsOK, ProducerFull
  <2>4. QED
    BY <2>1, <2>2, <2>3, TypeParts, PTL
<1>4. Positions'
  BY <1>2, StateFacts DEF Positions, Written, Freed
<1>5. Ring' /\ Epochs'
  BY <1>1, <1>2 DEF Ring, Epochs, Written, Freed
<1>6. SlotsExact' /\ Held'
  BY <1>2 DEF SlotsExact, InFlight, WriteIdx, ReadIdx, Held
<1>7. QED
  BY <1>3, <1>4, <1>5, <1>6

LEMMA PopCheckStep ==
  ASSUME IndInv, NEW p \in 1 .. Len(write_order), PopCheck(p)
  PROVE  IndInv'
<1> USE SizeAssumption DEF IndInv
<1>1. MemoryOK /\ OrdersOK /\ ControlOK /\ HintsOK
  BY TypeParts
<1>2. /\ UNCHANGED <<slots, write_order, read_order, built, cleared, alive, prod, arg,
                     seen_read, room, out>>
      /\ cons = "idle" /\ cons' \in {"idle", "move"} /\ alive
      /\ seen_write' = p /\ seen_write <= p /\ p <= Len(write_order)
  BY <1>1, SMT DEF PopCheck, sharedVars, prodVars, Loadable, OrdersOK
<1>3. cons' = "move" => ~Empty(write_order[p], ReadIdx)
  BY SMT DEF PopCheck
<1>4. TypeOK'
  <2>1. MemoryOK' /\ OrdersOK'
    BY <1>1, <1>2 DEF MemoryOK, OrdersOK
  <2>2. ControlOK'
    BY <1>1, <1>2, SMT DEF ControlOK
  <2>3. HintsOK'
    BY <1>1, <1>2, Zenon DEF HintsOK, PopCheck
  <2>4. QED
    BY <2>1, <2>2, <2>3, TypeParts, PTL
<1>5. Positions'
  <2>1. cons' = "move" => p # Freed
    <3> SUFFICES ASSUME cons' = "move", p = Freed PROVE FALSE
      OBVIOUS
    <3>1. Freed \in 1 .. Freed /\ p \in 1 .. Written
      BY StateFacts DEF Written
    <3>2. Dist(ReadIdx, write_order[p]) = 0
      BY <3>1, StateFacts DEF Ring
    <3>3. QED
      BY <1>3, <3>1, <3>2, StateFacts, DistFacts DEF Empty
  <2>2. QED
    BY <1>2, <2>1, StateFacts DEF Positions, Written, Freed
<1>6. Ring' /\ Epochs'
  BY <1>1, <1>2 DEF Ring, Epochs, Written, Freed
<1>7. SlotsExact' /\ Held'
  BY <1>2 DEF SlotsExact, InFlight, WriteIdx, ReadIdx, Held
<1>8. QED
  BY <1>4, <1>5, <1>6, <1>7

LEMMA PopMoveStep ==
  ASSUME IndInv, PopMove
  PROVE  IndInv'
<1> USE SizeAssumption DEF IndInv
<1>1. MemoryOK /\ OrdersOK /\ ControlOK /\ HintsOK
  BY TypeParts
<1>2. /\ UNCHANGED <<slots, write_order, read_order, built, alive, prod, arg,
                     seen_read, room, seen_write, some>>
      /\ cons = "move" /\ cons' = "destroy" /\ out' = slots[ReadIdx]
      /\ cleared' = [cleared EXCEPT ![ReadIdx] = Freed]
  BY DEF PopMove, prodVars, Freed
<1>3. /\ ReadIdx \in Idx /\ ReadIdx = read_order[Freed] /\ WriteIdx' = WriteIdx /\ ReadIdx' = ReadIdx
      /\ Freed \in Nat
  BY <1>2, StateFacts DEF WriteIdx, ReadIdx
<1>4. /\ cleared'[ReadIdx] = Freed /\ cleared' \in [Idx -> Nat]
      /\ \A i \in Idx : i # ReadIdx => cleared'[i] = cleared[i]
  BY <1>1, <1>2, <1>3 DEF MemoryOK
<1>5. TypeOK'
  <2>1. MemoryOK' /\ OrdersOK'
    BY <1>1, <1>2, <1>4 DEF MemoryOK, OrdersOK
  <2>2. ControlOK'
    BY <1>1, <1>2, <1>3 DEF ControlOK, MemoryOK
  <2>3. HintsOK'
    BY <1>1, <1>2, Zenon DEF HintsOK
  <2>4. QED
    BY <2>1, <2>2, <2>3, TypeParts, PTL
<1>6. Positions' /\ Ring'
  BY <1>2 DEF Positions, Ring, Written, Freed
<1>7. Epochs'
  BY <1>2, <1>3, <1>4 DEF Epochs, Written, Freed
<1>8. SlotsExact' /\ Held'
  BY <1>2, <1>3 DEF SlotsExact, InFlight, Held
<1>9. QED
  BY <1>5, <1>6, <1>7, <1>8

\* While the consumer holds an element, the slot it reads is not the producer's.
LEMMA ApartFacts ==
  ASSUME IndInv, cons # "idle"
  PROVE  /\ WriteIdx # ReadIdx
         /\ Dist(ReadIdx, WriteIdx) > 0
         /\ Freed + 1 <= Written
<1>1. Freed + 1 <= Written
  BY StateFacts DEF IndInv, Positions
<1>2. QED
  BY <1>1, StateFacts, DistFacts

LEMMA PopDestroyStep ==
  ASSUME IndInv, PopDestroy
  PROVE  IndInv'
<1> USE SizeAssumption DEF IndInv
<1>1. MemoryOK /\ OrdersOK /\ ControlOK /\ HintsOK
  BY TypeParts
<1>2. /\ UNCHANGED <<write_order, read_order, built, alive, prod, arg,
                     seen_read, room, out, seen_write, some>>
      /\ cons = "destroy" /\ cons' = "publish"
      /\ slots' = [slots EXCEPT ![ReadIdx] = Raw]
      /\ cleared' = [cleared EXCEPT ![ReadIdx] = Freed]
  BY DEF PopDestroy, prodVars, Freed
<1>3. /\ ReadIdx \in Idx /\ ReadIdx = read_order[Freed] /\ WriteIdx' = WriteIdx /\ ReadIdx' = ReadIdx
      /\ Freed \in Nat /\ WriteIdx # ReadIdx
  BY <1>2, StateFacts, ApartFacts DEF WriteIdx, ReadIdx
<1>4. /\ slots'[ReadIdx] = Raw /\ cleared'[ReadIdx] = Freed
      /\ slots' \in [Idx -> Values \cup {Raw}] /\ cleared' \in [Idx -> Nat]
      /\ \A i \in Idx : i # ReadIdx => slots'[i] = slots[i] /\ cleared'[i] = cleared[i]
  BY <1>1, <1>2, <1>3 DEF MemoryOK
<1>5. TypeOK'
  <2>1. MemoryOK' /\ OrdersOK'
    BY <1>1, <1>2, <1>4 DEF MemoryOK, OrdersOK
  <2>2. ControlOK' /\ HintsOK'
    BY <1>1, <1>2, Zenon DEF ControlOK, HintsOK
  <2>3. QED
    BY <2>1, <2>2, TypeParts, PTL
<1>6. Positions' /\ Ring'
  BY <1>2 DEF Positions, Ring, Written, Freed
<1>7. Epochs'
  BY <1>2, <1>3, <1>4 DEF Epochs, Written, Freed
<1>8. SlotsExact'
  BY <1>2, <1>3, <1>4 DEF SlotsExact, InFlight
<1>9. Held'
  BY <1>2, <1>3, <1>4, StateFacts DEF Held
<1>10. QED
  BY <1>5, <1>6, <1>7, <1>8, <1>9

LEMMA PopPublishStep ==
  ASSUME IndInv, PopPublish
  PROVE  IndInv'
<1> USE SizeAssumption DEF IndInv
<1>1. MemoryOK /\ OrdersOK /\ ControlOK /\ HintsOK
  BY TypeParts
<1>2. /\ UNCHANGED <<slots, write_order, built, cleared, alive, prod, arg,
                     seen_read, room, out, seen_write, some>>
      /\ cons = "publish" /\ cons' = "idle"
      /\ read_order' = Append(read_order, NextIdx(ReadIdx))
  BY DEF PopPublish, prodVars
<1>3. /\ WriteIdx \in Idx /\ ReadIdx \in Idx /\ NextIdx(ReadIdx) \in Idx
      /\ ReadIdx = read_order[Freed] /\ WriteIdx' = WriteIdx
  BY <1>2, StateFacts, DistFacts DEF WriteIdx
<1>4. /\ read_order' \in Seq(Idx) /\ read_order' # <<>>
      /\ Freed' = Freed + 1 /\ ReadIdx' = NextIdx(ReadIdx)
      /\ \A j \in 1 .. Freed : read_order'[j] = read_order[j]
      /\ read_order'[Freed + 1] = NextIdx(ReadIdx)
  BY <1>1, <1>2, <1>3, AppendFacts DEF OrdersOK, Freed, ReadIdx
<1>5. Written' = Written /\ Freed + 1 <= seen_write
  BY <1>2, StateFacts DEF Written, Positions
<1>6. TypeOK'
  <2>1. MemoryOK'
    BY <1>1, <1>2 DEF MemoryOK
  <2>2. Len(read_order') = Len(read_order) + 1 /\ Len(read_order) \in Nat
    BY <1>4, StateFacts DEF Freed
  <2>3. OrdersOK'
    BY <1>1, <1>2, <1>4, <2>2 DEF OrdersOK
  <2>4. ControlOK' /\ HintsOK'
    BY <1>1, <1>2, Zenon DEF ControlOK, HintsOK
  <2>5. QED
    BY <2>1, <2>3, <2>4, TypeParts, PTL
<1>7. Positions'
  BY <1>2, <1>4, <1>5, StateFacts DEF Positions
<1>8. Ring'
  <2> SUFFICES ASSUME NEW j \in 1 .. Freed + 1, NEW k \in 1 .. Written, j <= k, k < j + Size
               PROVE  Dist(read_order'[j], write_order[k]) = k - j
    BY <1>2, <1>4, <1>5 DEF Ring
  <2>1. CASE j <= Freed
    BY <1>4, <2>1, StateFacts DEF Ring
  <2>2. CASE j = Freed + 1
    <3>1. Freed \in 1 .. Freed /\ Freed <= k /\ k < Freed + Size /\ write_order[k] \in Idx
      BY <2>2, StateFacts
    <3>2. Dist(ReadIdx, write_order[k]) = k - Freed
      BY <1>3, <3>1 DEF Ring
    <3>3. Dist(NextIdx(ReadIdx), write_order[k]) = k - Freed - 1
      <4>1. ReadIdx # write_order[k]
        BY <1>3, <2>2, <3>1, <3>2, StateFacts, DistFacts
      <4>2. Dist(NextIdx(ReadIdx), write_order[k]) = Dist(ReadIdx, write_order[k]) - 1
        BY <1>3, <3>1, <4>1, DistFacts
      <4>3. QED
        BY <3>2, <4>2
    <3>4. read_order'[j] = NextIdx(ReadIdx) /\ k - Freed - 1 = k - j
      BY <1>4, <2>2, <3>1, StateFacts
    <3>5. QED
      BY <3>3, <3>4
  <2>3. QED
    BY <2>1, <2>2, StateFacts
<1>9. Epochs'
  <2> SUFFICES ASSUME NEW i \in Idx
               PROVE  /\ cleared[i] <= Freed + 1
                      /\ cleared[i] = Freed + 1 => FALSE
                      /\ cleared[i] > 0 => read_order'[cleared[i]] = i
                      /\ built[i] <= Written
                      /\ built[i] = Written => prod = "publish"
                      /\ built[i] > 0 => write_order[built[i]] = i
    BY <1>2, <1>4, <1>5 DEF Epochs
  <2>1. cleared[i] \in Nat /\ cleared[i] <= Freed /\ Freed \in Nat
    BY <1>1, StateFacts DEF Epochs, MemoryOK
  <2>2. cleared[i] > 0 => cleared[i] \in 1 .. Freed
    BY <2>1
  <2>3. QED
    BY <1>4, <2>1, <2>2 DEF Epochs
<1>10. SlotsExact'
  <2> SUFFICES ASSUME NEW i \in Idx PROVE (slots[i] # Raw) <=> InFlight(i)'
    BY <1>2 DEF SlotsExact
  <2>1. /\ Dist(ReadIdx, i) \in 0 .. Size - 1 /\ Dist(ReadIdx, WriteIdx) \in 0 .. Size - 1
        /\ Dist(ReadIdx, i) = 0 <=> i = ReadIdx
        /\ i # ReadIdx => Dist(ReadIdx', i) = Dist(ReadIdx, i) - 1
        /\ Dist(ReadIdx', WriteIdx) = Dist(ReadIdx, WriteIdx) - 1
    BY <1>2, <1>3, <1>4, DistFacts, ApartFacts
  <2>2. Dist(ReadIdx', ReadIdx) = Size - 1
    BY <1>3, <1>4, DistFacts
  <2>3. InFlight(i)' <=> InFlight(i)
    BY <1>2, <1>3, <2>1, <2>2, ApartFacts DEF InFlight
  <2>4. QED
    BY <2>3 DEF SlotsExact
<1>11. Held'
  BY <1>2, <1>3 DEF Held
<1>12. QED
  BY <1>6, <1>7, <1>8, <1>9, <1>10, <1>11

LEMMA ConsumerEmptyStep ==
  ASSUME IndInv, NEW p \in 1 .. Len(write_order), ConsumerEmpty(p)
  PROVE  IndInv'
<1> USE SizeAssumption DEF IndInv
<1>1. MemoryOK /\ OrdersOK /\ ControlOK /\ HintsOK
  BY TypeParts
<1>2. /\ UNCHANGED <<slots, write_order, read_order, built, cleared, alive, prod, arg,
                     seen_read, room, cons, out>>
      /\ cons = "idle" /\ seen_write' = p /\ seen_write <= p /\ p <= Len(write_order)
  BY <1>1, SMT DEF ConsumerEmpty, sharedVars, prodVars, Loadable, OrdersOK
<1>3. TypeOK'
  <2>1. MemoryOK' /\ OrdersOK'
    BY <1>1, <1>2 DEF MemoryOK, OrdersOK
  <2>2. ControlOK'
    BY <1>1, <1>2 DEF ControlOK
  <2>3. HintsOK'
    BY <1>1, <1>2, Zenon DEF HintsOK, ConsumerEmpty
  <2>4. QED
    BY <2>1, <2>2, <2>3, TypeParts, PTL
<1>4. Positions'
  BY <1>2, StateFacts DEF Positions, Written, Freed
<1>5. Ring' /\ Epochs'
  BY <1>1, <1>2 DEF Ring, Epochs, Written, Freed
<1>6. SlotsExact' /\ Held'
  BY <1>2 DEF SlotsExact, InFlight, WriteIdx, ReadIdx, Held
<1>7. QED
  BY <1>3, <1>4, <1>5, <1>6

LEMMA DestroyStep ==
  ASSUME IndInv, Destroy
  PROVE  IndInv'
<1> USE SizeAssumption DEF IndInv
<1>1. MemoryOK /\ OrdersOK /\ ControlOK /\ HintsOK
  BY TypeParts
<1>2. /\ UNCHANGED <<write_order, read_order, built, cleared, prod, arg, seen_read, room,
                     cons, out, seen_write, some>>
      /\ prod = "idle" /\ cons = "idle" /\ alive' = FALSE /\ alive
      /\ slots' = [i \in Idx |-> IF Dist(ReadIdx, i) < Dist(ReadIdx, WriteIdx)
                                 THEN Raw ELSE slots[i]]
  BY DEF Destroy, prodVars, consVars
<1>3. TypeOK'
  <2>1. MemoryOK' /\ OrdersOK'
    BY <1>1, <1>2 DEF MemoryOK, OrdersOK
  <2>2. ControlOK' /\ HintsOK'
    BY <1>1, <1>2, Zenon DEF ControlOK, HintsOK
  <2>3. QED
    BY <2>1, <2>2, TypeParts, PTL
<1>4. Positions' /\ Ring' /\ Epochs' /\ Held'
  BY <1>2 DEF Positions, Ring, Epochs, Held, Written, Freed
<1>5. SlotsExact'
  BY <1>2 DEF SlotsExact, InFlight
<1>6. QED
  BY <1>3, <1>4, <1>5

LEMMA StutterStep == IndInv /\ UNCHANGED vars => IndInv'
<1> SUFFICES ASSUME IndInv, UNCHANGED vars PROVE IndInv'
  OBVIOUS
<1>1. UNCHANGED <<slots, write_order, read_order, built, cleared, alive, prod, arg, seen_read,
                  room, cons, out, seen_write, some>>
  BY DEF vars, sharedVars, prodVars, consVars
<1>2. QED
  BY <1>1 DEF IndInv, TypeOK, Positions, Ring, Epochs, SlotsExact, InFlight, Held, Written, Freed,
              WriteIdx, ReadIdx

LEMMA InitIndInv == Init => IndInv
<1> SUFFICES ASSUME Init PROVE IndInv
  OBVIOUS
<1> USE SizeAssumption
<1>1. 0 \in Idx /\ Written = 1 /\ Freed = 1 /\ write_order[1] = 0 /\ read_order[1] = 0
      /\ WriteIdx = 0 /\ ReadIdx = 0
  BY DEF Init, Idx, Written, Freed, WriteIdx, ReadIdx, Last
<1>2. Positions /\ Held
  BY <1>1 DEF Init, Positions, Held
<1>3. Ring
  BY <1>1 DEF Ring, Dist
<1>4. Epochs
  BY <1>1 DEF Init, Epochs
<1>5. SlotsExact
  BY <1>1, DistFacts DEF Init, SlotsExact, InFlight
<1>6. QED
  BY <1>2, <1>3, <1>4, <1>5, InitTypeOK DEF IndInv

LEMMA NextIndInv == IndInv /\ [Next]_vars => IndInv'
<1> SUFFICES ASSUME IndInv, [Next]_vars PROVE IndInv'
  OBVIOUS
<1>1. CASE Producer
  BY <1>1, PushCheckStep, PushConstructStep, PushPublishStep, ProducerFullStep DEF Producer
<1>2. CASE Consumer
  BY <1>2, PopCheckStep, PopMoveStep, PopDestroyStep, PopPublishStep, ConsumerEmptyStep DEF Consumer
<1>3. CASE Destroy
  BY <1>3, DestroyStep
<1>4. CASE UNCHANGED vars
  BY <1>4, StutterStep
<1>5. QED
  BY <1>1, <1>2, <1>3, <1>4 DEF Next

\* Whatever stale index either thread reads, the positions, the ring and the
\* slots stay as IndInv says, for every number of slots and every element type.
THEOREM IndInvHolds == Spec => []IndInv
BY InitIndInv, NextIndInv, PTL DEF Spec

\* Every variable keeps its type.
THEOREM TypeCorrect == Spec => []TypeOK
<1>1. IndInv => TypeOK
  BY DEF IndInv
<1>2. QED
  BY <1>1, IndInvHolds, PTL

\* A slot holds a live object exactly while its element is queued or in the
\* hands of a call (placement new and the explicit destructor calls match).
THEOREM SlotsAlwaysExact == Spec => []SlotsExact
<1>1. IndInv => SlotsExact
  BY DEF IndInv
<1>2. QED
  BY <1>1, IndInvHolds, PTL

LEMMA IndInvNoDataRace == IndInv => NoDataRace
<1> SUFFICES ASSUME IndInv PROVE NoDataRace
  OBVIOUS
<1> USE SizeAssumption
<1>1. MemoryOK
  BY TypeParts DEF IndInv
<1>2. ASSUME prod = "construct" PROVE cleared[WriteIdx] < seen_read
  <2> DEFINE c == cleared[WriteIdx]
  <2>1. c \in Nat /\ c <= Freed /\ (c = Freed => cons # "idle") /\ (c > 0 => read_order[c] = WriteIdx)
    BY <1>1, StateFacts DEF MemoryOK, IndInv, Epochs
  <2>2. Written <= seen_read + Size - 2
    BY <1>2 DEF IndInv, Positions
  <2> HIDE DEF c
  <2> SUFFICES ASSUME c >= seen_read PROVE FALSE
    BY <2>1, StateFacts DEF c
  <2>3. c \in 1 .. Freed /\ Written \in 1 .. Written /\ c <= Written /\ Written < c + Size
    BY <1>1, <2>1, <2>2, StateFacts, TypeParts DEF IndInv, OrdersOK
  <2>4. Dist(read_order[c], WriteIdx) = Written - c
    BY <2>3, StateFacts DEF IndInv, Ring
  <2>5. Dist(WriteIdx, WriteIdx) = 0
    BY StateFacts, DistFacts
  <2>6. c = Written /\ c = Freed
    BY <2>1, <2>3, <2>4, <2>5, StateFacts
  <2>7. QED
    BY <2>1, <2>6, StateFacts, ApartFacts
<1>3. ASSUME cons \in {"move", "destroy"} PROVE built[ReadIdx] < seen_write
  <2> DEFINE b == built[ReadIdx]
  <2>1. b \in Nat /\ b <= Written /\ (b > 0 => write_order[b] = ReadIdx)
    BY <1>1, StateFacts DEF MemoryOK, IndInv, Epochs
  <2>2. Freed < seen_write
    BY <1>3 DEF IndInv, Positions
  <2> HIDE DEF b
  <2> SUFFICES ASSUME b >= seen_write PROVE FALSE
    BY <2>1, StateFacts DEF b
  <2>3. b \in 1 .. Written /\ Freed \in 1 .. Freed /\ Freed <= b /\ b < Freed + Size /\ b > Freed
    BY <2>1, <2>2, StateFacts
  <2>4. Dist(ReadIdx, write_order[b]) = b - Freed
    BY <2>3, StateFacts DEF IndInv, Ring
  <2>5. Dist(ReadIdx, ReadIdx) = 0
    BY StateFacts, DistFacts
  <2>6. QED
    BY <2>1, <2>3, <2>4, <2>5, StateFacts
<1>4. QED
  BY <1>2, <1>3 DEF NoDataRace

\* The acquire/release pairs on the two indexes order every access to a slot:
\* neither thread ever touches a slot the other may still be using.
THEOREM DataRaceFree == Spec => []NoDataRace
BY IndInvNoDataRace, IndInvHolds, PTL

------------------------------------------------------------------------------
\* What a hint amounts to, in positions.
HintInv == /\ room => prod = "idle" /\ Written <= seen_read + Size - 2
           /\ some => cons = "idle" /\ Freed < seen_write

LEMMA HintStep ==
  ASSUME IndInv, HintInv, [Next]_vars
  PROVE  /\ HintInv'
         /\ room /\ ~room' => prod' = "construct"
         /\ some /\ ~some' => cons' = "move"
<1> USE SizeAssumption
<1> DEFINE Goal == /\ HintInv'
                   /\ room /\ ~room' => prod' = "construct"
                   /\ some /\ ~some' => cons' = "move"
<1>1. MemoryOK /\ OrdersOK /\ ControlOK /\ HintsOK
  BY TypeParts DEF IndInv
<1>2. ASSUME NEW p \in Loadable(seen_read, read_order)
      PROVE  Full(WriteIdx, read_order[p]) <=> Written - p = Size - 1
  <2>1. p \in 1 .. Freed /\ Written \in 1 .. Written /\ p <= Written /\ Written < p + Size
        /\ seen_read <= p
    BY <1>1, StateFacts DEF Loadable, OrdersOK, Freed, IndInv, Positions
  <2>2. Dist(read_order[p], WriteIdx) = Written - p
    BY <2>1, StateFacts DEF IndInv, Ring
  <2>3. QED
    BY <2>1, <2>2, StateFacts, DistFacts DEF Full
<1>3. ASSUME NEW p \in Loadable(seen_write, write_order)
      PROVE  Empty(write_order[p], ReadIdx) <=> p = Freed
  <2>1. p \in 1 .. Written /\ Freed \in 1 .. Freed /\ Freed <= p /\ p < Freed + Size
    BY <1>1, StateFacts DEF Loadable, OrdersOK, Written
  <2>2. Dist(ReadIdx, write_order[p]) = p - Freed
    BY <2>1, StateFacts DEF IndInv, Ring
  <2>3. Dist(ReadIdx, write_order[p]) = 0 <=> ReadIdx = write_order[p]
    BY <2>1, StateFacts, DistFacts
  <2>4. Dist(ReadIdx, write_order[p]) = 0 <=> p = Freed
    BY <2>1, <2>2, StateFacts
  <2>5. QED
    BY <2>3, <2>4 DEF Empty
<1>4. ASSUME NEW v \in Values, NEW p \in 1 .. Len(read_order), PushCheck(v, p) PROVE Goal
  <2>1. p \in Loadable(seen_read, read_order) /\ seen_read <= p /\ p \in Nat
    BY <1>1, <1>4 DEF PushCheck, Loadable, OrdersOK
  <2>2. room' = FALSE /\ some' = some /\ UNCHANGED <<write_order, read_order, cons, seen_write>>
    BY <1>4, Zenon DEF PushCheck, sharedVars, consVars
  <2>3. prod' = "construct" \/ Full(WriteIdx, read_order[p])
    BY <1>4, Zenon DEF PushCheck
  <2>4. room => prod' = "construct"
    BY <1>2, <2>1, <2>3, StateFacts, SMT DEF HintInv, OrdersOK
  <2>5. HintInv'
    BY <2>2, Zenon DEF HintInv, Freed
  <2>6. QED
    BY <2>2, <2>4, <2>5, Zenon
<1>5. ASSUME NEW p \in 1 .. Len(read_order), ProducerFull(p) PROVE Goal
  <2>1. p \in Loadable(seen_read, read_order) /\ seen_read <= p /\ p \in Nat /\ p <= Freed
        /\ seen_read' = p /\ prod = "idle" /\ prod' = prod
    BY <1>1, <1>5, SMT DEF ProducerFull, Loadable, OrdersOK, Freed
  <2>2. some' = some /\ UNCHANGED <<write_order, read_order, cons, seen_write>>
    BY <1>5, Zenon DEF ProducerFull, sharedVars, consVars
  <2>3. room' <=> ~Full(WriteIdx, read_order[p])
    BY <1>5, Zenon DEF ProducerFull
  <2>4. ~Full(WriteIdx, read_order[p]) => Written <= p + Size - 2
    BY <1>2, <2>1, StateFacts DEF IndInv, Positions
  <2>5. room => ~Full(WriteIdx, read_order[p])
    BY <1>2, <2>1, StateFacts DEF HintInv
  <2>6. HintInv'
    <3>1. room' => prod' = "idle" /\ Written' <= seen_read' + Size - 2
      BY <2>1, <2>2, <2>3, <2>4 DEF Written
    <3>2. some' => cons' = "idle" /\ Freed' < seen_write'
      BY <2>2, Zenon DEF HintInv, Freed
    <3>3. QED
      BY <3>1, <3>2, Zenon DEF HintInv
  <2>7. QED
    BY <2>2, <2>3, <2>5, <2>6, Zenon
<1>6. ASSUME NEW p \in 1 .. Len(write_order), PopCheck(p) PROVE Goal
  <2>1. p \in Loadable(seen_write, write_order) /\ seen_write <= p /\ p \in Nat
    BY <1>1, <1>6 DEF PopCheck, Loadable, OrdersOK
  <2>2. some' = FALSE /\ room' = room /\ UNCHANGED <<write_order, read_order, prod, seen_read>>
    BY <1>6, Zenon DEF PopCheck, sharedVars, prodVars
  <2>3. cons' = "move" \/ Empty(write_order[p], ReadIdx)
    BY <1>6, Zenon DEF PopCheck
  <2>4. some => cons' = "move"
    BY <1>3, <2>1, <2>3, StateFacts, SMT DEF HintInv
  <2>5. HintInv'
    BY <2>2, Zenon DEF HintInv, Written
  <2>6. QED
    BY <2>2, <2>4, <2>5, Zenon
<1>7. ASSUME NEW p \in 1 .. Len(write_order), ConsumerEmpty(p) PROVE Goal
  <2>1. p \in Loadable(seen_write, write_order) /\ seen_write <= p /\ p \in Nat
        /\ seen_write' = p /\ cons = "idle" /\ cons' = cons
    BY <1>1, <1>7, SMT DEF ConsumerEmpty, Loadable, OrdersOK
  <2>2. room' = room /\ UNCHANGED <<write_order, read_order, prod, seen_read>>
    BY <1>7, Zenon DEF ConsumerEmpty, sharedVars, prodVars
  <2>3. some' <=> ~Empty(write_order[p], ReadIdx)
    BY <1>7, Zenon DEF ConsumerEmpty
  <2>4. ~Empty(write_order[p], ReadIdx) => Freed < p
    BY <1>3, <2>1, StateFacts
  <2>5. some => ~Empty(write_order[p], ReadIdx)
    BY <1>3, <2>1, StateFacts DEF HintInv
  <2>6. HintInv'
    <3>1. some' => cons' = "idle" /\ Freed' < seen_write'
      BY <2>1, <2>2, <2>3, <2>4 DEF Freed
    <3>2. room' => prod' = "idle" /\ Written' <= seen_read' + Size - 2
      BY <2>2, Zenon DEF HintInv, Written
    <3>3. QED
      BY <3>1, <3>2, Zenon DEF HintInv
  <2>7. QED
    BY <2>2, <2>3, <2>5, <2>6, Zenon
<1>8. ASSUME PushConstruct \/ PushPublish PROVE Goal
  <2>1. ~room
    BY <1>8 DEF HintInv, PushConstruct, PushPublish
  <2>2. room' = room /\ some' = some /\ UNCHANGED <<read_order, cons, seen_write>>
    BY <1>8, Zenon DEF PushConstruct, PushPublish, consVars
  <2>3. QED
    BY <2>1, <2>2, Zenon DEF HintInv, Freed
<1>9. ASSUME PopMove \/ PopDestroy \/ PopPublish PROVE Goal
  <2>1. ~some
    BY <1>9 DEF HintInv, PopMove, PopDestroy, PopPublish
  <2>2. room' = room /\ some' = some /\ UNCHANGED <<write_order, prod, seen_read>>
    BY <1>9, Zenon DEF PopMove, PopDestroy, PopPublish, prodVars
  <2>3. QED
    BY <2>1, <2>2, Zenon DEF HintInv, Written
<1>10. ASSUME Destroy \/ UNCHANGED vars PROVE Goal
  <2>1. UNCHANGED <<room, some, prod, cons, seen_read, seen_write, write_order, read_order>>
    BY <1>10, Zenon DEF Destroy, vars, sharedVars, prodVars, consVars
  <2>2. QED
    BY <2>1, Zenon DEF HintInv, Written, Freed
<1>11. QED
  BY <1>4, <1>5, <1>6, <1>7, <1>8, <1>9, <1>10, Zenon DEF Next, Producer, Consumer

\* A thread told there is room, or an element, finds it when it next calls.
THEOREM HintsAreKept == Spec => HintsHold
<1>1. Init => HintInv
  BY Zenon DEF Init, HintInv
<1>2. IndInv /\ HintInv /\ [Next]_vars => HintInv'
  BY HintStep
<1>3. IndInv /\ HintInv /\ [Next]_vars
      => [/\ room /\ ~room' => prod' = "construct"
          /\ some /\ ~some' => cons' = "move"]_<<room, some>>
  BY HintStep
<1>4. QED
  BY <1>1, <1>2, <1>3, IndInvHolds, PTL DEF Spec, HintsHold

------------------------------------------------------------------------------
(***************************************************************************)
(* Refinement: the ring buffer implements BoundedFifo.                     *)
(***************************************************************************)

LEMMA AtFacts ==
  ASSUME NEW r \in Idx, NEW m \in 0 .. Size - 1
  PROVE  /\ At(r, m) \in Idx
         /\ Dist(r, At(r, m)) = m
         /\ m + 1 < Size => At(NextIdx(r), m) = At(r, m + 1)
BY SizeAssumption DEF At, Dist, NextIdx, Idx

LEMMA AtDist ==
  ASSUME NEW r \in Idx, NEW w \in Idx
  PROVE  At(r, Dist(r, w)) = w
BY SizeAssumption DEF At, Dist, Idx

\* The elements from index first up to the write index.
From(first) == [k \in 1 .. Dist(first, WriteIdx) |-> slots[At(first, k - 1)]]

\* The queue's contents are a sequence of elements, at most Size - 1 of them.
ContentsOK ==
  /\ FirstIdx \in Idx
  /\ Dist(FirstIdx, WriteIdx) = IF Taken THEN Written - Freed - 1 ELSE Written - Freed
  /\ Dist(FirstIdx, WriteIdx) \in 0 .. Size - 1
  /\ Contents = From(FirstIdx)
  /\ Contents \in Seq(Values)
  /\ Len(Contents) = Dist(FirstIdx, WriteIdx)
  /\ \A k \in 1 .. Len(Contents) : Contents[k] = slots[At(FirstIdx, k - 1)]

LEMMA ContentsFacts == IndInv /\ alive => ContentsOK
<1> SUFFICES ASSUME IndInv, alive PROVE ContentsOK
  OBVIOUS
<1> USE SizeAssumption
<1>1. /\ FirstIdx \in Idx
      /\ Dist(FirstIdx, WriteIdx) = IF Taken THEN Written - Freed - 1 ELSE Written - Freed
      /\ Dist(FirstIdx, WriteIdx) \in 0 .. Size - 1
  <2>1. CASE Taken
    <3>1. cons # "idle" /\ FirstIdx = NextIdx(ReadIdx)
      BY <2>1 DEF Taken, FirstIdx
    <3>2. Dist(NextIdx(ReadIdx), WriteIdx) = Dist(ReadIdx, WriteIdx) - 1
      BY <3>1, StateFacts, ApartFacts, DistFacts
    <3>3. NextIdx(ReadIdx) \in Idx /\ Dist(NextIdx(ReadIdx), WriteIdx) \in 0 .. Size - 1
      BY StateFacts, DistFacts
    <3>4. QED
      BY <2>1, <3>1, <3>2, <3>3, StateFacts
  <2>2. CASE ~Taken
    BY <2>2, StateFacts, DistFacts DEF FirstIdx
  <2>3. QED
    BY <2>1, <2>2
<1> DEFINE n == Dist(FirstIdx, WriteIdx)
<1>2. ASSUME NEW k \in 1 .. n PROVE slots[At(FirstIdx, k - 1)] \in Values
  <2> DEFINE i == At(FirstIdx, k - 1)
  <2>1. k - 1 \in 0 .. Size - 1 /\ i \in Idx
    BY <1>1, AtFacts
  <2>2. slots[i] \in Values \cup {Raw}
    BY <2>1, TypeParts DEF IndInv, MemoryOK
  <2>3. Dist(ReadIdx, i) < Dist(ReadIdx, WriteIdx) /\ (Taken => Dist(ReadIdx, i) > 0)
    <3>1. CASE ~Taken
      <4>1. Dist(ReadIdx, i) = k - 1
        BY <1>1, <2>1, <3>1, AtFacts DEF FirstIdx
      <4>2. QED
        BY <1>1, <3>1, <4>1, StateFacts
    <3>2. CASE Taken
      <4>1. k \in 0 .. Size - 1 /\ k < Dist(ReadIdx, WriteIdx)
        BY <1>1, <3>2, StateFacts
      <4>2. i = At(ReadIdx, k)
        BY <1>1, <2>1, <3>2, <4>1, StateFacts, AtFacts DEF FirstIdx
      <4>3. Dist(ReadIdx, i) = k
        BY <4>1, <4>2, StateFacts, AtFacts
      <4>4. QED
        BY <4>1, <4>3
    <3>3. QED
      BY <3>1, <3>2
  <2>4. InFlight(i)
    <3>1. Taken => i # ReadIdx
      BY <2>1, <2>3, StateFacts, DistFacts
    <3>2. QED
      BY <2>3, <3>1 DEF InFlight, Taken
  <2>5. QED
    BY <2>1, <2>2, <2>4 DEF IndInv, SlotsExact
<1>3. Contents = From(FirstIdx)
  BY DEF Contents, From
<1>4. From(FirstIdx) \in [1 .. n -> Values]
  BY <1>2 DEF From
<1>5. n \in Nat
  BY <1>1
<1> HIDE DEF n
<1>6. Contents \in Seq(Values) /\ Len(Contents) = n
  BY <1>3, <1>4, <1>5
<1>7. \A k \in 1 .. n : Contents[k] = slots[At(FirstIdx, k - 1)]
  BY <1>3 DEF From, n
<1>8. QED
  BY <1>1, <1>3, <1>6, <1>7 DEF n, ContentsOK

\* Two states with the same oldest element, write index and queued slots have
\* the same contents.
LEMMA SameContents ==
  ASSUME IndInv, IndInv', alive, alive',
         FirstIdx' = FirstIdx, WriteIdx' = WriteIdx,
         \A i \in Idx : Dist(FirstIdx, i) < Dist(FirstIdx, WriteIdx) => slots'[i] = slots[i]
  PROVE  Contents' = Contents
<1>1. /\ FirstIdx \in Idx /\ Dist(FirstIdx, WriteIdx) \in 0 .. Size - 1
      /\ Contents \in Seq(Values) /\ Len(Contents) = Dist(FirstIdx, WriteIdx)
      /\ \A k \in 1 .. Len(Contents) : Contents[k] = slots[At(FirstIdx, k - 1)]
  BY ContentsFacts DEF ContentsOK
<1>2. /\ Contents' \in Seq(Values) /\ Len(Contents') = Dist(FirstIdx', WriteIdx')
      /\ \A k \in 1 .. Len(Contents') : Contents'[k] = slots'[At(FirstIdx', k - 1)]
  <2>1. ContentsOK'
    BY ContentsFacts, PTL
  <2>2. QED
    BY <2>1 DEF ContentsOK
<1>3. Len(Contents') = Len(Contents)
  BY <1>1, <1>2
<1>4. ASSUME NEW k \in 1 .. Len(Contents) PROVE Contents'[k] = Contents[k]
  <2>1. k - 1 \in 0 .. Size - 1 /\ k - 1 < Dist(FirstIdx, WriteIdx)
    BY <1>1, SizeAssumption
  <2>2. At(FirstIdx, k - 1) \in Idx /\ Dist(FirstIdx, At(FirstIdx, k - 1)) = k - 1
    BY <1>1, <2>1, AtFacts
  <2>3. QED
    BY <1>1, <1>2, <1>3, <2>1, <2>2
<1>5. QED
  BY <1>1, <1>2, <1>3, <1>4, SeqEqual

\* The release store of _write_idx appends the element to the queue.
LEMMA PushPublishRefines ==
  ASSUME IndInv, IndInv', PushPublish
  PROVE  Fifo!Push(arg) /\ arg \in Values
<1> USE SizeAssumption
<1>1. /\ UNCHANGED <<slots, read_order, alive, cons, out>> /\ alive
      /\ prod = "publish" /\ slots[WriteIdx] = arg /\ arg \in Values
      /\ write_order' = Append(write_order, NextIdx(WriteIdx))
  BY DEF PushPublish, consVars, IndInv, Held
<1>2. WriteIdx' = NextIdx(WriteIdx) /\ FirstIdx' = FirstIdx /\ WriteIdx \in Idx
  BY <1>1, TypeParts, StateFacts, DistFacts, AppendFacts
     DEF IndInv, OrdersOK, WriteIdx, ReadIdx, FirstIdx, Taken
<1> DEFINE n == Dist(FirstIdx, WriteIdx)
<1>3. /\ FirstIdx \in Idx /\ n \in 0 .. Size - 1
      /\ Contents \in Seq(Values) /\ Len(Contents) = n
      /\ \A k \in 1 .. Len(Contents) : Contents[k] = slots[At(FirstIdx, k - 1)]
      /\ n <= Written - Freed
  BY <1>1, StateFacts, ContentsFacts DEF ContentsOK
<1>4. n < Size - 1
  BY <1>1, <1>3, StateFacts, TypeParts DEF IndInv, OrdersOK, Positions
<1>5. Dist(FirstIdx, WriteIdx') = n + 1
  BY <1>2, <1>3, <1>4, DistFacts
<1>6. /\ Contents' \in Seq(Values) /\ Len(Contents') = n + 1
      /\ \A k \in 1 .. Len(Contents') : Contents'[k] = slots[At(FirstIdx, k - 1)]
  <2> alive'
    BY <1>1
  <2>1. ContentsOK'
    BY ContentsFacts, PTL
  <2>2. QED
    BY <1>1, <1>2, <1>5, <2>1 DEF ContentsOK
<1>7. At(FirstIdx, n) = WriteIdx
  BY <1>2, <1>3, AtDist
<1> HIDE DEF n
<1>8. Contents' = Append(Contents, arg)
  <2>1. /\ Append(Contents, arg) \in Seq(Values) /\ Len(Append(Contents, arg)) = n + 1
        /\ \A k \in 1 .. n : Append(Contents, arg)[k] = Contents[k]
        /\ Append(Contents, arg)[n + 1] = arg
    BY <1>1, <1>3
  <2>2. ASSUME NEW k \in 1 .. n + 1 PROVE Contents'[k] = Append(Contents, arg)[k]
    <3>1. CASE k \in 1 .. n
      BY <1>3, <1>6, <2>1, <3>1
    <3>2. CASE k = n + 1
      <4>1. k \in 1 .. Len(Contents') /\ k - 1 = n
        BY <1>3, <1>6, <3>2
      <4>2. Contents'[k] = slots[At(FirstIdx, k - 1)]
        BY <1>6, <4>1
      <4>3. QED
        BY <1>1, <1>7, <2>1, <3>2, <4>1, <4>2
    <3>3. QED
      BY <1>3, <3>1, <3>2
  <2>3. QED
    BY <1>6, <2>1, <2>2, SeqEqual
<1>9. Len(Contents) < Size - 1
  BY <1>3, <1>4
<1>10. QED
  BY <1>1, <1>8, <1>9 DEF Fifo!Push

\* Moving the element out of the slot takes it off the front of the queue.
LEMMA PopMoveRefines ==
  ASSUME IndInv, IndInv', PopMove
  PROVE  Fifo!Pop
<1> USE SizeAssumption
<1>1. /\ UNCHANGED <<slots, write_order, read_order, alive>> /\ alive
      /\ cons = "move" /\ cons' = "destroy" /\ out' = slots[ReadIdx]
  BY DEF PopMove, prodVars, IndInv, Held
<1>2. /\ FirstIdx = ReadIdx /\ FirstIdx' = NextIdx(ReadIdx) /\ WriteIdx' = WriteIdx
      /\ ReadIdx \in Idx /\ WriteIdx \in Idx
  BY <1>1, StateFacts DEF FirstIdx, Taken, ReadIdx, WriteIdx
<1> DEFINE n == Dist(ReadIdx, WriteIdx)
<1>3. /\ n \in 1 .. Size - 1
      /\ Contents \in Seq(Values) /\ Len(Contents) = n
      /\ \A k \in 1 .. n : Contents[k] = slots[At(ReadIdx, k - 1)]
  BY <1>1, <1>2, ApartFacts, ContentsFacts DEF ContentsOK
<1>4. Dist(NextIdx(ReadIdx), WriteIdx) = n - 1
  BY <1>1, <1>2, ApartFacts, DistFacts
<1>5. /\ Contents' \in Seq(Values) /\ Len(Contents') = n - 1
      /\ \A k \in 1 .. n - 1 : Contents'[k] = slots[At(NextIdx(ReadIdx), k - 1)]
  <2> alive'
    BY <1>1
  <2>1. ContentsOK'
    BY ContentsFacts, PTL
  <2>2. QED
    BY <1>1, <1>2, <1>4, <2>1 DEF ContentsOK
<1>6. At(ReadIdx, 0) = ReadIdx
  BY <1>2 DEF At, Idx
<1>7. ASSUME NEW k \in 1 .. n - 1 PROVE At(NextIdx(ReadIdx), k - 1) = At(ReadIdx, k)
  <2>1. k - 1 \in 0 .. Size - 1 /\ k - 1 + 1 < Size /\ k - 1 + 1 = k
    BY <1>3
  <2>2. At(NextIdx(ReadIdx), k - 1) = At(ReadIdx, k - 1 + 1)
    BY <1>2, <2>1, AtFacts
  <2>3. QED
    BY <2>1, <2>2
<1> HIDE DEF n
<1>8. Contents # <<>> /\ Head(Contents) = slots[ReadIdx]
  <2>1. 1 \in 1 .. n /\ 1 - 1 = 0
    BY <1>3
  <2>2. Contents[1] = slots[ReadIdx]
    BY <1>3, <1>6, <2>1
  <2>3. QED
    BY <1>3, <2>2
<1>9. Contents' = Tail(Contents)
  <2>1. /\ Tail(Contents) \in Seq(Values) /\ Len(Tail(Contents)) = n - 1
        /\ \A k \in 1 .. n - 1 : Tail(Contents)[k] = Contents[k + 1]
    BY <1>3, <1>8, HeadTailProperties
  <2>2. ASSUME NEW k \in 1 .. n - 1 PROVE Contents'[k] = Tail(Contents)[k]
    <3>1. k + 1 \in 1 .. n /\ k + 1 - 1 = k
      BY <1>3
    <3>2. Contents[k + 1] = slots[At(ReadIdx, k)]
      BY <1>3, <3>1
    <3>3. QED
      BY <1>5, <1>7, <2>1, <3>2
  <2>3. QED
    BY <1>5, <2>1, <2>2, SeqEqual
<1>10. QED
  BY <1>1, <1>8, <1>9 DEF Fifo!Pop

\* Every other step leaves the contents, and what the last Pop returned, alone.
LEMMA QuietSteps ==
  ASSUME IndInv, IndInv', alive, alive', UNCHANGED <<write_order, out>>,
         \/ /\ UNCHANGED <<slots, read_order>> /\ Taken' = Taken
         \/ PushConstruct
         \/ PopDestroy
         \/ PopPublish
  PROVE  UNCHANGED Fifo!vars
<1> USE SizeAssumption
<1>1. /\ WriteIdx' = WriteIdx /\ WriteIdx \in Idx /\ ReadIdx \in Idx /\ FirstIdx \in Idx
      /\ Dist(FirstIdx, WriteIdx) \in 0 .. Size - 1
  BY StateFacts, ContentsFacts DEF ContentsOK, WriteIdx
<1>2. CASE UNCHANGED <<slots, read_order>> /\ Taken' = Taken
  <2>1. FirstIdx' = FirstIdx
    BY <1>2 DEF FirstIdx, ReadIdx
  <2>2. QED
    BY <1>1, <1>2, <2>1, SameContents DEF Fifo!vars
<1>3. CASE PushConstruct
  <2>1. UNCHANGED <<read_order, cons>> /\ slots' = [slots EXCEPT ![WriteIdx] = arg]
    BY <1>3 DEF PushConstruct, consVars
  <2>2. FirstIdx' = FirstIdx
    BY <2>1 DEF FirstIdx, ReadIdx, Taken
  <2>3. \A i \in Idx : i # WriteIdx => slots'[i] = slots[i]
    BY <2>1, TypeParts DEF IndInv, MemoryOK
  <2>4. QED
    BY <1>1, <2>2, <2>3, SameContents DEF Fifo!vars
<1>4. CASE PopDestroy
  <2>1. UNCHANGED read_order /\ cons = "destroy" /\ cons' = "publish"
        /\ slots' = [slots EXCEPT ![ReadIdx] = Raw]
    BY <1>4 DEF PopDestroy
  <2>2. FirstIdx' = FirstIdx /\ FirstIdx = NextIdx(ReadIdx)
    BY <2>1 DEF FirstIdx, ReadIdx, Taken
  <2>3. \A i \in Idx : i # ReadIdx => slots'[i] = slots[i]
    BY <2>1, TypeParts DEF IndInv, MemoryOK
  <2>4. ~(Dist(FirstIdx, ReadIdx) < Dist(FirstIdx, WriteIdx))
    BY <1>1, <2>2, DistFacts
  <2>5. QED
    BY <1>1, <2>2, <2>3, <2>4, SameContents DEF Fifo!vars
<1>5. CASE PopPublish
  <2>1. slots' = slots /\ cons = "publish" /\ cons' = "idle"
        /\ read_order' = Append(read_order, NextIdx(ReadIdx))
    BY <1>5 DEF PopPublish
  <2>2. ReadIdx' = NextIdx(ReadIdx)
    BY <1>1, <2>1, TypeParts, DistFacts, AppendFacts DEF IndInv, OrdersOK, ReadIdx
  <2>3. FirstIdx' = FirstIdx
    BY <2>1, <2>2 DEF FirstIdx, Taken
  <2>4. QED
    BY <1>1, <2>1, <2>3, SameContents DEF Fifo!vars
<1>6. QED
  BY <1>2, <1>3, <1>4, <1>5

LEMMA InitRefines == Init => Fifo!Init
<1> SUFFICES ASSUME Init PROVE Fifo!Init
  OBVIOUS
<1>1. IndInv /\ alive /\ ReadIdx = WriteIdx /\ ~Taken /\ out = Raw
  BY InitIndInv DEF Init, ReadIdx, WriteIdx, Taken
<1>2. Dist(FirstIdx, WriteIdx) = 0
  BY <1>1, StateFacts, DistFacts DEF FirstIdx
<1>3. Contents \in Seq(Values) /\ Len(Contents) = 0
  BY <1>1, <1>2, ContentsFacts DEF ContentsOK
<1>4. QED
  BY <1>1, <1>3, EmptySeq DEF Fifo!Init

LEMMA StepRefines ==
  ASSUME IndInv, IndInv', [Next]_vars
  PROVE  [Fifo!Next]_Fifo!vars
<1>1. ASSUME NEW v \in Values, NEW p \in 1 .. Len(read_order), PushCheck(v, p)
      PROVE  UNCHANGED Fifo!vars
  BY <1>1, QuietSteps, Zenon DEF PushCheck, sharedVars, consVars, Taken
<1>2. ASSUME NEW p \in 1 .. Len(read_order), ProducerFull(p) PROVE UNCHANGED Fifo!vars
  BY <1>2, QuietSteps, Zenon DEF ProducerFull, sharedVars, consVars, Taken
<1>3. ASSUME NEW p \in 1 .. Len(write_order), PopCheck(p) PROVE UNCHANGED Fifo!vars
  <2>1. UNCHANGED <<write_order, out, slots, read_order, alive>> /\ alive
        /\ cons = "idle" /\ cons' \in {"idle", "move"}
    BY <1>3, SMT DEF PopCheck, sharedVars
  <2>2. QED
    BY <2>1, QuietSteps DEF Taken
<1>4. ASSUME NEW p \in 1 .. Len(write_order), ConsumerEmpty(p) PROVE UNCHANGED Fifo!vars
  BY <1>4, QuietSteps, Zenon DEF ConsumerEmpty, sharedVars, Taken
<1>5. ASSUME PushConstruct PROVE UNCHANGED Fifo!vars
  BY <1>5, QuietSteps DEF PushConstruct, consVars, IndInv, Held
<1>6. ASSUME PopDestroy \/ PopPublish PROVE UNCHANGED Fifo!vars
  BY <1>6, QuietSteps DEF PopDestroy, PopPublish, IndInv, Held
<1>7. ASSUME PushPublish PROVE Fifo!Next
  BY <1>7, PushPublishRefines DEF Fifo!Next
<1>8. ASSUME PopMove PROVE Fifo!Next
  BY <1>8, PopMoveRefines DEF Fifo!Next
<1>9. ASSUME Destroy PROVE Fifo!Next
  BY <1>9 DEF Destroy, consVars, Contents, Fifo!Next, Fifo!Destroy
<1>10. ASSUME UNCHANGED vars PROVE UNCHANGED Fifo!vars
  BY <1>10 DEF vars, sharedVars, prodVars, consVars, Fifo!vars, Contents, FirstIdx, Taken,
               WriteIdx, ReadIdx
<1>11. QED
  BY <1>1, <1>2, <1>3, <1>4, <1>5, <1>6, <1>7, <1>8, <1>9, <1>10 DEF Next, Producer, Consumer

\* The queue is a FIFO queue of Size - 1 elements: every Pop returns the oldest
\* element pushed and not yet popped, and a Push takes effect once.
THEOREM RefinesFifo == Spec => ImplementsFifo
<1>1. IndInv /\ IndInv' /\ [Next]_vars => [Fifo!Next]_Fifo!vars
  BY StepRefines
<1>2. QED
  BY <1>1, InitRefines, IndInvHolds, PTL DEF Spec, ImplementsFifo, Fifo!Spec
==============================================================================
