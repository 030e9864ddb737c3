------------------------------ MODULE ObjectMap ------------------------------
(***************************************************************************)
(* src/util/object_map.hpp: objects in a vector indexed by id.  The free   *)
(* ids stand in a ring inside a second vector of the same length, from     *)
(* _head up to _tail; the live ones are linked in the order of insertion.  *)
(***************************************************************************)
EXTENDS Naturals, SequencesExt

CONSTANTS AllocNum,   \* _alloc_num
          Objects,    \* what is inserted
          Null,       \* nullptr
          MaxSize     \* bound: the vectors grow no further

ASSUME AllocAssumption == AllocNum \in Nat \ {0}
ASSUME NullAssumption == Null \notin Objects
ASSUME MaxSizeAssumption == MaxSize \in Nat /\ AllocNum <= MaxSize

VARIABLES obj, prev, next,    \* the fields of _objects, functions of the id
          indexs, head, tail, \* the ring of free ids
          head_id, tail_id    \* the ends of the list of live ids
vars == <<obj, prev, next, indexs, head, tail, head_id, tail_id>>

\* size_t(-1); here an id the bounded vectors never have.
INVALID_ID == MaxSize

Ids == DOMAIN obj
Count == Cardinality(Ids)    \* _objects.size()

Init ==
  LET ids == 0 .. AllocNum - 1
  IN /\ obj = [i \in ids |-> Null]
     /\ prev = [i \in ids |-> INVALID_ID]
     /\ next = [i \in ids |-> INVALID_ID]
     /\ indexs = [i \in ids |-> i]
     /\ head = 0 /\ tail = 0
     /\ head_id = INVALID_ID /\ tail_id = INVALID_ID

Find(id) == id \in Ids /\ obj[id] # Null

\* f with one entry changed, when the code's `if' says so.
Set(f, cond, i, x) == IF cond THEN [f EXCEPT ![i] = x] ELSE f

\* The places that resize(size + _alloc_num) adds.
NewPlaces == Count .. Count + AllocNum - 1
Grown(f, x) == [i \in Ids \cup NewPlaces |-> IF i \in Ids THEN f[i] ELSE x]

\* Mutant: the vectors do not grow when the last free id is taken.
InsertNoGrowth(o) ==
  LET id == indexs[head]
      linked == tail_id # INVALID_ID
  IN /\ Ids # {}
     /\ head_id' = IF head_id = INVALID_ID THEN id ELSE head_id
     /\ tail_id' = id
     /\ obj' = [obj EXCEPT ![id] = o]
     /\ next' = Set(next, linked, tail_id, id)
     /\ prev' = Set(prev, linked, id, tail_id)
     /\ head' = (head + 1) % Count
     /\ UNCHANGED <<indexs, tail>>

\* Insert(o), with the _Allocate() it calls when it has taken the last free id.
\* On an empty vector (after Clear) the code reads outside it.
Insert(o) ==
  /\ Ids # {}
  /\ LET id == indexs[head]
         linked == tail_id # INVALID_ID
         obj1 == [obj EXCEPT ![id] = o]
         next1 == Set(next, linked, tail_id, id)
         prev1 == Set(prev, linked, id, tail_id)
         head1 == (head + 1) % Count
     IN /\ head_id' = IF head_id = INVALID_ID THEN id ELSE head_id
        /\ tail_id' = id
        /\ \/ /\ head1 # tail
              /\ obj' = obj1 /\ next' = next1 /\ prev' = prev1
              /\ head' = head1
              /\ UNCHANGED <<indexs, tail>>
           \/ /\ head1 = tail
              /\ Count + AllocNum <= MaxSize
              /\ obj' = Grown(obj1, Null)
              /\ next' = Grown(next1, INVALID_ID)
              /\ prev' = Grown(prev1, INVALID_ID)
              /\ indexs' = [i \in Ids \cup NewPlaces |-> IF i \in Ids THEN indexs[i] ELSE i]
              /\ head' = Count
              /\ tail' = 0

\* Mutant: the first object's successor keeps its prev.
UnlinkForward(id) ==
  /\ head_id' = IF id = head_id THEN next[id] ELSE head_id
  /\ tail_id' = IF id = tail_id THEN prev[id] ELSE tail_id
  /\ next' = [Set(next, prev[id] # INVALID_ID, prev[id], next[id]) EXCEPT ![id] = INVALID_ID]
  /\ prev' = [Set(prev, id # head_id /\ id # tail_id, next[id], prev[id]) EXCEPT ![id] = INVALID_ID]
  /\ obj' = [obj EXCEPT ![id] = Null]

\* Mutant: the id before becomes the last one of the list.
UnlinkTruncates(id) ==
  /\ head_id' = IF id = head_id THEN next[id] ELSE head_id
  /\ tail_id' = IF id = head_id /\ id # tail_id THEN tail_id ELSE prev[id]
  /\ next' = [Set(next, prev[id] # INVALID_ID, prev[id], INVALID_ID) EXCEPT ![id] = INVALID_ID]
  /\ prev' = [Set(prev, next[id] # INVALID_ID, next[id], INVALID_ID) EXCEPT ![id] = INVALID_ID]
  /\ obj' = [obj EXCEPT ![id] = Null]

\* Erase takes the id out of the list of live ids, ...
Unlink(id) ==
  LET p == prev[id]
      n == next[id]
      first == id = head_id
      last == id = tail_id
      next1 == Set(next, ~first /\ p # INVALID_ID, p, n)
      next2 == Set(next1, last /\ p # INVALID_ID, p, INVALID_ID)
      prev1 == Set(prev, first /\ n # INVALID_ID, n, INVALID_ID)
      prev2 == Set(prev1, ~last /\ n # INVALID_ID, n, p)
  IN /\ head_id' = IF first THEN n ELSE head_id
     /\ tail_id' = IF last THEN p ELSE tail_id
     /\ next' = [next2 EXCEPT ![id] = INVALID_ID]
     /\ prev' = [prev2 EXCEPT ![id] = INVALID_ID]
     /\ obj' = [obj EXCEPT ![id] = Null]

\* Mutants: the ring does not wrap; a freed id is the next to be handed out.
FreeUnwrapped(id) ==
  /\ indexs' = [indexs EXCEPT ![tail] = id]
  /\ tail' = tail + 1
  /\ UNCHANGED head
FreeInFront(id) ==
  LET before == (head + Count - 1) % Count
  IN /\ indexs' = [indexs EXCEPT ![before] = id]
     /\ head' = before
     /\ UNCHANGED tail

\* ... and puts it at the end of the ring of free ids.
Free(id) ==
  /\ indexs' = [indexs EXCEPT ![tail] = id]
  /\ tail' = (tail + 1) % Count
  /\ UNCHANGED head

\* Erase(id); for an id that is not live it returns at once.
Erase(id) == Find(id) /\ Unlink(id) /\ Free(id)

Clear ==
  /\ obj' = <<>> /\ prev' = <<>> /\ next' = <<>> /\ indexs' = <<>>
  /\ head' = 0 /\ tail' = 0
  /\ head_id' = INVALID_ID /\ tail_id' = INVALID_ID

Next == \/ \E o \in Objects : Insert(o)
        \/ \E id \in Ids : Erase(id)
        \/ Clear

Spec == Init /\ [][Next]_vars

\* The ids a loop from begin() to end() visits.  It follows next until the id
\* end() returns; a loop longer than the vector would never stop.
Stop == IF tail_id = INVALID_ID THEN INVALID_ID ELSE next[tail_id]
Cursor[k \in 1 .. Count + 1] ==
  IF k = 1 THEN head_id
  ELSE IF Cursor[k - 1] \in Ids THEN next[Cursor[k - 1]] ELSE INVALID_ID
Visited ==
  LET steps == {k \in 1 .. Count + 1 : \A j \in 1 .. k : Cursor[j] # Stop}
  IN [k \in 1 .. Cardinality(steps) |-> Cursor[k]]

------------------------------------------------------------------------------
IdOrInvalid == Ids \cup {INVALID_ID}

TypeOK ==
  /\ Count \in 0 .. MaxSize /\ Ids = 0 .. Count - 1
  /\ obj \in [Ids -> Objects \cup {Null}]
  /\ prev \in [Ids -> IdOrInvalid] /\ next \in [Ids -> IdOrInvalid]
  /\ indexs \in [Ids -> Ids]
  /\ IF Ids = {} THEN head = 0 /\ tail = 0 ELSE head \in Ids /\ tail \in Ids
  /\ head_id \in IdOrInvalid /\ tail_id \in IdOrInvalid

\* The positions of the ring that hold free ids.  The ring is never empty, so
\* _head = _tail means that every id is free.
FreeCount == IF tail > head THEN tail - head ELSE Count + tail - head
FreeSeq == [k \in 1 .. FreeCount |-> indexs[(head + k - 1) % Count]]

\* An id is in the ring of free ids once, or live; none is lost, and none is
\* handed out twice.
FreeExact ==
  /\ IsInjective(FreeSeq)
  /\ Range(FreeSeq) = {i \in Ids : ~Find(i)}

\* The list holds every live id once, forwards and backwards.
ListExact ==
  LET n == Len(Visited)
  IN /\ IsInjective(Visited)
     /\ Range(Visited) = {i \in Ids : Find(i)}
     /\ tail_id = IF n = 0 THEN INVALID_ID ELSE Visited[n]
     /\ \A k \in 1 .. n : prev[Visited[k]] = IF k = 1 THEN INVALID_ID ELSE Visited[k - 1]

\* A loop over the table visits the objects in the order they were inserted,
\* whatever was erased in between.
OrderKept ==
  [][ \/ Visited' = Visited
      \/ \E id \in Ids : Visited' = Append(Visited, id)
      \/ \E k \in DOMAIN Visited : Visited' = RemoveAt(Visited, k)
      \/ Visited' = <<>> ]_vars

\* The table behaves as IdTable says: an id is reused only after every id that
\* was free when it was freed.
Abstract == INSTANCE IdTable
              WITH table <- [i \in {j \in Ids : Find(j)} |-> obj[i]],
                   free <- FreeSeq, size <- Count
ImplementsIdTable == Abstract!Spec
==============================================================================
