-------------------------- MODULE Memory_proofs --------------------------
(***************************************************************************)
(* Proofs about what is kept in memory: the ring of jr_buf, the stacks of  *)
(* records of the exceptions, and the table in which the diagnosis of      *)
(* memory records every pointer.                                           *)
(***************************************************************************)
EXTENDS RingBuffer, Exceptions, MemDiag, Integers, SequenceTheorems, FiniteSetTheorems, TLAPS

(* The place of element i of a ring whose head is at h.                    *)
Place(h, i) == IF h + i >= RingSize THEN h + i - RingSize ELSE h + i

(* From its head on, an array holds the elements of a sequence.            *)
Holds(array, h, items) == \A i \in 1 .. Len(items) : array[Place(h, i - 1)] = items[i]

Arrays == [Slots -> Cells]

-----------------------------------------------------------------------------
(* The arithmetic of places.                                               *)

LEMMA PlaceInSlots ==
  ASSUME NEW h \in Slots, NEW i \in 0 .. RingSize
  PROVE  Place(h, i) \in Slots
  BY RingAssumption DEF Place, Slots

LEMMA PlacesApart ==
  ASSUME NEW h \in Slots, NEW i \in 0 .. RingSize - 1, NEW j \in 0 .. RingSize - 1, i # j
  PROVE  Place(h, i) # Place(h, j)
  BY RingAssumption DEF Place, Slots

(* Going once around, an element is at its own place again.                *)
LEMMA PlaceEnds ==
  ASSUME NEW h \in Slots
  PROVE  Place(h, 0) = h /\ Place(h, RingSize) = h
  BY RingAssumption DEF Place, Slots

LEMMA PlaceAfter ==
  ASSUME NEW h \in Slots, NEW i \in 0 .. RingSize - 1
  PROVE  /\ After(h) \in Slots
         /\ Place(After(h), i) = Place(h, i + 1)
         /\ After(Place(h, i)) = Place(h, i + 1)
         /\ Before(Place(h, i + 1)) = Place(h, i)
  BY RingAssumption DEF Place, Slots, After, Before

LEMMA PlaceBefore ==
  ASSUME NEW h \in Slots, NEW i \in 0 .. RingSize - 1
  PROVE  /\ Before(h) \in Slots
         /\ Place(Before(h), i + 1) = Place(h, i)
  BY RingAssumption DEF Place, Slots, Before

-----------------------------------------------------------------------------
(* What each change of the array and the head does to the elements.        *)

(* An element stored behind the last one.                                  *)
LEMMA NewTailHolds ==
  ASSUME NEW a \in Arrays, NEW h \in Slots, NEW s \in Seq(RingValues), NEW v \in RingValues,
         Holds(a, h, s), Len(s) < RingSize
  PROVE  Holds([a EXCEPT ![Place(h, Len(s))] = v], h, Append(s, v))
<1> DEFINE b == [a EXCEPT ![Place(h, Len(s))] = v]
<1>1. Len(s) \in Nat /\ Len(Append(s, v)) = Len(s) + 1
  BY AppendProperties, LenProperties
<1>2. ASSUME NEW i \in 1 .. Len(s)
      PROVE  b[Place(h, i - 1)] = Append(s, v)[i]
  <2>1. Place(h, i - 1) # Place(h, Len(s)) /\ Place(h, i - 1) \in Slots
    <3>1. /\ i - 1 \in 0 .. RingSize - 1 /\ Len(s) \in 0 .. RingSize - 1
          /\ i - 1 \in 0 .. RingSize /\ i - 1 # Len(s)
      BY <1>1, RingAssumption
    <3> QED
      BY <3>1, PlacesApart, PlaceInSlots
  <2>2. b[Place(h, i - 1)] = a[Place(h, i - 1)]
    BY <2>1 DEF Arrays
  <2>3. Append(s, v)[i] = s[i]
    BY AppendProperties
  <2> QED
    BY <2>2, <2>3 DEF Holds
<1>3. b[Place(h, Len(s))] = v
  BY <1>1, PlaceInSlots, RingAssumption DEF Arrays, Slots
<1>4. Append(s, v)[Len(s) + 1] = v
  BY AppendProperties
<1>5. ASSUME NEW i \in 1 .. Len(s) + 1
      PROVE  b[Place(h, i - 1)] = Append(s, v)[i]
  <2>1. CASE i = Len(s) + 1
    <3>1. i - 1 = Len(s)
      BY <1>1, <2>1
    <3> QED
      BY <1>3, <1>4, <2>1, <3>1
  <2>2. CASE i # Len(s) + 1
    BY <1>1, <1>2, <2>2
  <2> QED
    BY <2>1, <2>2
<1> QED
  BY <1>1, <1>5 DEF Holds

(* The first element taken.                                                *)
LEMMA NoHeadHolds ==
  ASSUME NEW a \in Arrays, NEW h \in Slots, NEW s \in Seq(RingValues),
         Holds(a, h, s), Len(s) \in 1 .. RingSize
  PROVE  /\ Holds(a, After(h), Tail(s))
         /\ a[h] = Head(s) /\ Head(s) \in RingValues
         /\ Tail(s) \in Seq(RingValues) /\ Len(Tail(s)) = Len(s) - 1
<1>1. s # <<>>
  BY EmptySeq
<1>2. /\ Head(s) \in RingValues /\ Tail(s) \in Seq(RingValues) /\ Len(Tail(s)) = Len(s) - 1
      /\ \A i \in 1 .. Len(Tail(s)) : Tail(s)[i] = s[i + 1]
  BY <1>1, HeadTailProperties
<1>3. a[h] = s[1] /\ Head(s) = s[1]
  BY <1>1, PlaceEnds DEF Holds
<1>4. ASSUME NEW i \in 1 .. Len(s) - 1
      PROVE  a[Place(After(h), i - 1)] = Tail(s)[i]
  <2>1. i - 1 \in 0 .. RingSize - 1 /\ (i - 1) + 1 = i /\ (i + 1) - 1 = i /\ i + 1 \in 1 .. Len(s)
    BY RingAssumption
  <2>2. Place(After(h), i - 1) = Place(h, (i + 1) - 1)
    BY <2>1, PlaceAfter
  <2> QED
    BY <1>2, <2>1, <2>2 DEF Holds
<1> QED
  BY <1>2, <1>3, <1>4 DEF Holds

(* The last element taken.                                                 *)
LEMMA SequenceTaken ==
  ASSUME NEW s \in Seq(RingValues), Len(s) \in 1 .. RingSize
  PROVE  /\ AllButLast(s) \in Seq(RingValues) /\ Len(AllButLast(s)) = Len(s) - 1
         /\ \A i \in 1 .. Len(s) - 1 : AllButLast(s)[i] = s[i]
         /\ s[Len(s)] \in RingValues
<1>1. \A i \in 1 .. Len(s) - 1 : s[i] \in RingValues
  BY ElementOfSeq
<1>2. /\ AllButLast(s) \in Seq(RingValues) /\ Len(AllButLast(s)) = Len(s) - 1
      /\ \A i \in 1 .. Len(s) - 1 : AllButLast(s)[i] = s[i]
  <2>1. /\ SubSeq(s, 1, Len(s) - 1) \in Seq(RingValues)
        /\ Len(SubSeq(s, 1, Len(s) - 1)) = IF 1 <= Len(s) - 1 THEN Len(s) - 1 - 1 + 1 ELSE 0
        /\ \A i \in 1 .. Len(s) - 1 - 1 + 1 : SubSeq(s, 1, Len(s) - 1)[i] = s[1 + i - 1]
    BY <1>1, SubSeqProperties
  <2>2. \A i \in 1 .. Len(s) - 1 : i \in 1 .. Len(s) - 1 - 1 + 1 /\ 1 + i - 1 = i
    OBVIOUS
  <2>3. \A i \in 1 .. Len(s) - 1 : SubSeq(s, 1, Len(s) - 1)[i] = s[i]
    BY <2>1, <2>2, Zenon
  <2>4. \A n \in 1 .. RingSize : (IF 1 <= n - 1 THEN n - 1 - 1 + 1 ELSE 0) = n - 1
    BY RingAssumption
  <2>5. Len(SubSeq(s, 1, Len(s) - 1)) = Len(s) - 1
    BY <2>1, <2>4, Zenon
  <2> QED
    BY <2>1, <2>3, <2>5, Zenon DEF AllButLast
<1>3. s[Len(s)] \in RingValues
  BY ElementOfSeq
<1> QED
  BY <1>2, <1>3

LEMMA NoTailHolds ==
  ASSUME NEW a \in Arrays, NEW h \in Slots, NEW s \in Seq(RingValues),
         Holds(a, h, s), Len(s) \in 1 .. RingSize
  PROVE  /\ Holds(a, h, AllButLast(s))
         /\ a[Place(h, Len(s) - 1)] = s[Len(s)] /\ s[Len(s)] \in RingValues
         /\ AllButLast(s) \in Seq(RingValues) /\ Len(AllButLast(s)) = Len(s) - 1
  BY SequenceTaken DEF Holds

(* An element stored before the first one.                                 *)
LEMMA NewHeadHolds ==
  ASSUME NEW a \in Arrays, NEW h \in Slots, NEW s \in Seq(RingValues), NEW v \in RingValues,
         Holds(a, h, s), Len(s) < RingSize
  PROVE  /\ Holds([a EXCEPT ![Before(h)] = v], Before(h), <<v>> \o s)
         /\ <<v>> \o s \in Seq(RingValues) /\ Len(<<v>> \o s) = Len(s) + 1
<1> DEFINE b == [a EXCEPT ![Before(h)] = v]
<1>1. Len(s) \in Nat /\ <<v>> \in Seq(RingValues) /\ Len(<<v>>) = 1 /\ <<v>>[1] = v
  BY LenProperties
<1>2. /\ <<v>> \o s \in Seq(RingValues) /\ Len(<<v>> \o s) = Len(s) + 1
      /\ \A i \in 1 .. Len(s) + 1 : (<<v>> \o s)[i] = IF i = 1 THEN v ELSE s[i - 1]
  <2>1. /\ <<v>> \o s \in Seq(RingValues) /\ Len(<<v>> \o s) = Len(<<v>>) + Len(s)
        /\ \A i \in 1 .. Len(<<v>>) + Len(s) :
             (<<v>> \o s)[i] = IF i <= Len(<<v>>) THEN <<v>>[i] ELSE s[i - Len(<<v>>)]
    BY <1>1, ConcatProperties
  <2> QED
    BY <1>1, <2>1
<1>3. Before(h) \in Slots /\ Place(Before(h), 0) = Before(h)
  BY PlaceBefore, PlaceEnds, RingAssumption
<1>4. b[Before(h)] = v
  BY <1>3 DEF Arrays
<1>5. ASSUME NEW i \in 1 .. Len(s)
      PROVE  b[Place(Before(h), i)] = s[i]
  <2>1. i - 1 \in 0 .. RingSize - 1 /\ (i - 1) + 1 = i
    BY <1>1, RingAssumption
  <2>2. Place(Before(h), i) = Place(h, i - 1)
    BY <2>1, PlaceBefore
  <2>3. Place(Before(h), i) # Place(Before(h), 0)
    BY <1>1, <1>3, PlacesApart, RingAssumption
  <2>4. Place(h, i - 1) \in Slots
    BY <2>1, PlaceInSlots, RingAssumption
  <2> QED
    BY <1>3, <2>2, <2>3, <2>4 DEF Holds, Arrays
<1>6. ASSUME NEW i \in 1 .. Len(s) + 1
      PROVE  b[Place(Before(h), i - 1)] = (<<v>> \o s)[i]
  <2>1. CASE i = 1
    BY <1>1, <1>2, <1>3, <1>4, <2>1
  <2>2. CASE i # 1
    <3>1. i - 1 \in 1 .. Len(s)
      BY <1>1, <2>2
    <3> QED
      BY <1>1, <1>2, <1>5, <2>2, <3>1
  <2> QED
    BY <2>1, <2>2
<1> QED
  BY <1>2, <1>6 DEF Holds

-----------------------------------------------------------------------------
(* The invariant: the number is that of the elements, they are in their    *)
(* places unless one was stored at a tail that had slipped, and unless it  *)
(* has slipped the tail is behind the last one.                            *)
CB_Inv ==
  /\ CB_TypeOK
  /\ ring_num = Len(ring_items)
  /\ ring_astray => ring_slipped
  /\ ~ring_astray => Holds(ring_array, ring_head, ring_items)
  /\ ~ring_slipped => ring_tail = Place(ring_head, ring_num) /\ ring_out[1] = ring_out[2]

LEMMA RingInit == CB_Init => CB_Inv
<1> SUFFICES ASSUME CB_Init
             PROVE  CB_Inv
  OBVIOUS
<1>1. <<>> \in Seq(RingValues) /\ Len(<<>>) = 0
  BY EmptySeq
<1>2. CB_TypeOK
  BY <1>1, RingAssumption DEF CB_Init, CB_TypeOK, Slots, Cells
<1>3. Holds(ring_array, ring_head, ring_items)
  BY <1>1 DEF CB_Init, Holds
<1>4. ring_tail = Place(ring_head, ring_num)
  BY RingAssumption DEF CB_Init, Place
<1> QED
  BY <1>1, <1>2, <1>3, <1>4 DEF CB_Init, CB_Inv

(* What the invariant says of the state before a step, for the lemmas.     *)
LEMMA StateBefore ==
  ASSUME CB_Inv
  PROVE  /\ ring_array \in Arrays /\ ring_head \in Slots /\ ring_items \in Seq(RingValues)
         /\ ring_num = Len(ring_items) /\ ring_num \in 0 .. RingSize /\ ring_tail \in 0 .. RingSize
         /\ ring_out \in Cells \X Cells /\ ring_slipped \in BOOLEAN
         /\ ring_astray \in BOOLEAN /\ (ring_astray => ring_slipped)
  BY DEF CB_Inv, CB_TypeOK, Arrays

LEMMA ResetStep == CB_Inv /\ CB_Reset => CB_Inv'
<1> SUFFICES ASSUME CB_Inv, CB_Reset
             PROVE  CB_Inv'
  OBVIOUS
<1>1. <<>> \in Seq(RingValues) /\ Len(<<>>) = 0
  BY EmptySeq
<1>2. CB_TypeOK'
  <2>1. Garbage \in Cells /\ 0 \in Slots /\ 0 \in 0 .. RingSize
    BY RingAssumption DEF Cells, Slots
  <2> QED
    BY <1>1, <2>1, StateBefore DEF CB_Reset, CB_TypeOK, Arrays, HandBackNothing
<1>3. Holds(ring_array', ring_head', ring_items')
  BY <1>1 DEF CB_Reset, Holds
<1>4. ring_tail' = Place(ring_head', ring_num')
  BY RingAssumption DEF CB_Reset, Place
<1> QED
  BY <1>1, <1>2, <1>3, <1>4 DEF CB_Reset, CB_Inv, HandBackNothing

LEMMA GetHeadStep == CB_Inv /\ CB_GetHead => CB_Inv'
<1> SUFFICES ASSUME CB_Inv, CB_GetHead
             PROVE  CB_Inv'
  OBVIOUS
<1>1. /\ ring_num \in 1 .. RingSize /\ ring_num' = ring_num - 1
      /\ ring_head' = After(ring_head) /\ ring_items' = Tail(ring_items)
      /\ ring_out' = <<ring_array[ring_head], Head(ring_items)>>
      /\ UNCHANGED <<ring_array, ring_tail, ring_slipped, ring_astray>>
  BY StateBefore DEF CB_GetHead, HandBack
<1>2. /\ Head(ring_items) \in RingValues
      /\ Tail(ring_items) \in Seq(RingValues) /\ Len(Tail(ring_items)) = ring_num - 1
  BY <1>1, StateBefore, HeadTailProperties, EmptySeq
<1>3. /\ ring_num - 1 \in 0 .. RingSize - 1 /\ (ring_num - 1) + 1 = ring_num
      /\ ring_num - 1 \in 0 .. RingSize
  BY <1>1, RingAssumption
<1>4. After(ring_head) \in Slots
      /\ Place(After(ring_head), ring_num - 1) = Place(ring_head, ring_num)
  BY <1>3, StateBefore, PlaceAfter
<1>5. ring_array[ring_head] \in Cells
  BY StateBefore DEF Arrays
<1>6. CB_TypeOK'
  BY <1>1, <1>2, <1>3, <1>4, <1>5, StateBefore DEF CB_TypeOK, Arrays, Cells
<1>7. ASSUME ~ring_astray
      PROVE  /\ Holds(ring_array, After(ring_head), Tail(ring_items))
             /\ ring_array[ring_head] = Head(ring_items)
  BY <1>1, <1>7, StateBefore, NoHeadHolds DEF CB_Inv
<1> QED
  BY <1>1, <1>2, <1>4, <1>6, <1>7, StateBefore DEF CB_Inv

LEMMA GetTailStep == CB_Inv /\ CB_GetTail => CB_Inv'
<1> SUFFICES ASSUME CB_Inv, CB_GetTail
             PROVE  CB_Inv'
  OBVIOUS
<1> DEFINE last == ring_items[Len(ring_items)]
<1>1. /\ ring_num \in 1 .. RingSize /\ ring_num' = ring_num - 1
      /\ ring_tail' = Before(ring_tail) /\ ring_items' = AllButLast(ring_items)
      /\ ring_out' = <<ring_array[Before(ring_tail)], last>>
      /\ UNCHANGED <<ring_array, ring_head, ring_slipped, ring_astray>>
  BY StateBefore DEF CB_GetTail, HandBack
<1>2. /\ last \in RingValues
      /\ AllButLast(ring_items) \in Seq(RingValues) /\ Len(AllButLast(ring_items)) = ring_num - 1
  BY <1>1, StateBefore, SequenceTaken
<1>3. /\ ring_num - 1 \in 0 .. RingSize - 1 /\ (ring_num - 1) + 1 = ring_num
      /\ ring_num - 1 \in 0 .. RingSize
  BY <1>1, RingAssumption
<1>4. Before(ring_tail) \in Slots
  BY StateBefore, RingAssumption DEF Slots, Before
<1>5. ring_array[Before(ring_tail)] \in Cells
  BY <1>4, StateBefore DEF Arrays
<1>6. CB_TypeOK'
  <2>1. last \in Cells /\ Before(ring_tail) \in 0 .. RingSize
    BY <1>2, <1>4, RingAssumption DEF Cells, Slots
  <2> HIDE DEF last
  <2> QED
    BY <1>1, <1>2, <1>3, <1>5, <2>1, StateBefore DEF CB_TypeOK, Arrays
<1>7. ASSUME ~ring_slipped
      PROVE  /\ ring_array[Before(ring_tail)] = last
             /\ Before(ring_tail) = Place(ring_head, ring_num - 1)
  <2>1. Before(ring_tail) = Place(ring_head, ring_num - 1)
    <3>1. Before(Place(ring_head, (ring_num - 1) + 1)) = Place(ring_head, ring_num - 1)
      BY <1>3, StateBefore, PlaceAfter
    <3> QED
      BY <1>3, <1>7, <3>1 DEF CB_Inv
  <2> QED
    BY <1>1, <1>7, <2>1, StateBefore, NoTailHolds DEF CB_Inv
<1>8. ~ring_astray => Holds(ring_array, ring_head, AllButLast(ring_items))
  BY <1>1, StateBefore, NoTailHolds DEF CB_Inv
<1> QED
  BY <1>1, <1>2, <1>6, <1>7, <1>8 DEF CB_Inv

(* A full ring gives its head away first, so that the new element follows  *)
(* all others in both cases.                                               *)
LEMMA SetNewTailStep ==
  ASSUME CB_Inv, NEW v \in RingValues, CB_SetNewTail(v)
  PROVE  CB_Inv'
<1> DEFINE array == [ring_array EXCEPT ![ring_tail] = v]
<1>1. /\ ring_tail \in Slots
      /\ ring_array' = array /\ ring_tail' = After(ring_tail)
      /\ ring_astray' = (ring_astray \/ ring_slipped) /\ UNCHANGED ring_slipped
  BY DEF CB_SetNewTail
<1>2. After(ring_tail) \in Slots /\ After(ring_tail) \in 0 .. RingSize
  BY <1>1, RingAssumption DEF Slots, After
<1>3. array \in Arrays
  BY <1>1, StateBefore DEF Arrays, Cells
<1> HIDE DEF array
<1>4. CASE IsFull
  <2> DEFINE items == Tail(ring_items)
  <2>1. /\ ring_head' = After(ring_head) /\ ring_items' = Append(items, v)
        /\ ring_out' = <<ring_array[ring_head], Head(ring_items)>>
        /\ UNCHANGED ring_num
    BY <1>4 DEF CB_SetNewTail, IsFull, HandBack
  <2>2. ring_num = RingSize /\ RingSize \in Nat \ {0} /\ RingSize - 1 \in 0 .. RingSize - 1
        /\ (RingSize - 1) + 1 = RingSize /\ RingSize - 1 < RingSize
    BY <1>4, RingAssumption DEF IsFull
  <2>3. /\ Head(ring_items) \in RingValues
        /\ items \in Seq(RingValues) /\ Len(items) = RingSize - 1
    BY <2>2, StateBefore, HeadTailProperties, EmptySeq
  <2>4. Append(items, v) \in Seq(RingValues) /\ Len(Append(items, v)) = RingSize
    <3> HIDE DEF items
    <3>1. Append(items, v) \in Seq(RingValues) /\ Len(Append(items, v)) = Len(items) + 1
      BY <2>3, AppendProperties
    <3> QED
      BY <2>2, <2>3, <3>1
  <2>5. /\ After(ring_head) \in Slots
        /\ Place(After(ring_head), RingSize - 1) = ring_head
        /\ Place(After(ring_head), RingSize) = After(ring_head)
    <3>1. /\ After(ring_head) \in Slots
          /\ Place(After(ring_head), RingSize - 1) = Place(ring_head, (RingSize - 1) + 1)
      BY <2>2, StateBefore, PlaceAfter
    <3> QED
      BY <2>2, <3>1, StateBefore, PlaceEnds
  <2>6. CB_TypeOK'
    <3>1. ring_array[ring_head] \in Cells /\ Head(ring_items) \in Cells
      BY <2>3, StateBefore DEF Arrays, Cells
    <3> HIDE DEF items
    <3> QED
      BY <1>1, <1>2, <1>3, <2>1, <2>4, <2>5, <3>1, StateBefore DEF CB_TypeOK, Arrays
  <2>7. ASSUME ~ring_slipped
        PROVE  /\ Holds(array, After(ring_head), Append(items, v))
               /\ After(ring_tail) = Place(After(ring_head), RingSize)
               /\ ring_array[ring_head] = Head(ring_items)
    <3>1. Holds(ring_array, ring_head, ring_items) /\ ring_tail = ring_head
      BY <2>2, <2>7, StateBefore, PlaceEnds DEF CB_Inv
    <3>2. Len(ring_items) \in 1 .. RingSize
      BY <2>2, StateBefore
    <3>3. Holds(ring_array, After(ring_head), items) /\ ring_array[ring_head] = Head(ring_items)
      BY <3>1, <3>2, StateBefore, NoHeadHolds
    <3>4. array = [ring_array EXCEPT ![Place(After(ring_head), Len(items))] = v]
      BY <2>3, <2>5, <3>1 DEF array
    <3>5. Len(items) < RingSize
      BY <2>2, <2>3
    <3> HIDE DEF items
    <3>6. Holds(array, After(ring_head), Append(items, v))
      BY <2>3, <2>5, <3>3, <3>4, <3>5, StateBefore, NewTailHolds
    <3> QED
      BY <2>5, <3>1, <3>3, <3>6
  <2> QED
    BY <1>1, <2>1, <2>2, <2>4, <2>6, <2>7, StateBefore DEF CB_Inv
<1>5. CASE ~IsFull
  <2>1. /\ ring_num' = ring_num + 1 /\ ring_items' = Append(ring_items, v)
        /\ ring_out' = <<Garbage, Garbage>>
        /\ UNCHANGED ring_head
    BY <1>5 DEF CB_SetNewTail, IsFull, HandBackNothing
  <2>2. ring_num \in 0 .. RingSize - 1 /\ ring_num + 1 \in 0 .. RingSize /\ ring_num < RingSize
    BY <1>5, StateBefore, RingAssumption DEF IsFull
  <2>3. Append(ring_items, v) \in Seq(RingValues) /\ Len(Append(ring_items, v)) = ring_num + 1
    BY StateBefore, AppendProperties
  <2>4. CB_TypeOK'
    <3>1. Garbage \in Cells
      BY DEF Cells
    <3> QED
      BY <1>1, <1>2, <1>3, <2>1, <2>2, <2>3, <3>1, StateBefore DEF CB_TypeOK, Arrays
  <2>5. ASSUME ~ring_slipped
        PROVE  /\ Holds(array, ring_head, Append(ring_items, v))
               /\ After(ring_tail) = Place(ring_head, ring_num + 1)
    <3>1. Holds(ring_array, ring_head, ring_items) /\ ring_tail = Place(ring_head, ring_num)
      BY <2>5 DEF CB_Inv
    <3>2. array = [ring_array EXCEPT ![Place(ring_head, Len(ring_items))] = v]
      BY <3>1, StateBefore DEF array
    <3>3. After(Place(ring_head, ring_num)) = Place(ring_head, ring_num + 1)
      BY <2>2, StateBefore, PlaceAfter
    <3>4. Holds(array, ring_head, Append(ring_items, v))
      BY <2>2, <3>1, <3>2, StateBefore, NewTailHolds
    <3> QED
      BY <3>1, <3>3, <3>4
  <2> QED
    BY <1>1, <2>1, <2>3, <2>4, <2>5, StateBefore DEF CB_Inv
<1> QED
  BY <1>4, <1>5

(* A full ring gives its tail away first. At the start of the array the    *)
(* tail slips out of it; the elements stay in their places.                *)
LEMMA SetNewHeadStep ==
  ASSUME CB_Inv, NEW v \in RingValues, CB_SetNewHead(v)
  PROVE  CB_Inv'
<1> DEFINE array == [ring_array EXCEPT ![Before(ring_head)] = v]
<1>1. ring_array' = array /\ ring_head' = Before(ring_head) /\ ring_astray' = ring_astray
  BY DEF CB_SetNewHead
<1>2. Before(ring_head) \in Slots
  BY StateBefore, RingAssumption DEF Slots, Before
<1>3. array \in Arrays
  BY <1>2, StateBefore DEF Arrays, Cells
<1> HIDE DEF array
<1>4. CASE IsFull
  <2> DEFINE items == AllButLast(ring_items)
             last == ring_items[Len(ring_items)]
  <2>1. /\ ring_tail' = BumpedTail /\ ring_items' = <<v>> \o items
        /\ ring_out' = <<CellAt(BumpedTail), last>>
        /\ ring_slipped' = (ring_slipped \/ BumpedTail \notin Slots)
        /\ UNCHANGED ring_num
    BY <1>4 DEF CB_SetNewHead, IsFull, HandBack
  <2>2. ring_num = RingSize /\ RingSize \in Nat \ {0} /\ RingSize - 1 \in 0 .. RingSize - 1
        /\ (RingSize - 1) + 1 = RingSize /\ RingSize - 1 < RingSize
    BY <1>4, RingAssumption DEF IsFull
  <2>3. Len(ring_items) = RingSize /\ Len(ring_items) \in 1 .. RingSize
    BY <2>2, StateBefore
  <2>4. last \in RingValues /\ items \in Seq(RingValues) /\ Len(items) = RingSize - 1
    BY <2>3, StateBefore, SequenceTaken
  <2> HIDE DEF items, last
  <2>5. <<v>> \o items \in Seq(RingValues) /\ Len(<<v>> \o items) = RingSize
    <3>1. <<v>> \in Seq(RingValues) /\ Len(<<v>>) = 1
      OBVIOUS
    <3>2. <<v>> \o items \in Seq(RingValues) /\ Len(<<v>> \o items) = Len(<<v>>) + Len(items)
      BY <2>4, <3>1, ConcatProperties
    <3> QED
      BY <2>2, <2>4, <3>1, <3>2
  <2>6. BumpedTail \in 0 .. RingSize
    BY StateBefore, RingAssumption DEF BumpedTail
  <2>7. CB_TypeOK'
    <3>1. CellAt(BumpedTail) \in Cells /\ last \in Cells
      BY <2>4, StateBefore DEF CellAt, Arrays, Cells
    <3>2. ring_slipped' \in BOOLEAN
      BY <2>1
    <3> QED
      BY <1>1, <1>2, <1>3, <2>1, <2>5, <2>6, <3>1, <3>2, StateBefore DEF CB_TypeOK, Arrays
  <2>8. ASSUME ~ring_astray
        PROVE  /\ Holds(array, Before(ring_head), <<v>> \o items)
               /\ ring_array[Place(ring_head, RingSize - 1)] = last
    <3>1. Holds(ring_array, ring_head, ring_items)
      BY <2>8 DEF CB_Inv
    <3>2. Holds(ring_array, ring_head, items) /\ ring_array[Place(ring_head, RingSize - 1)] = last
      BY <2>3, <3>1, StateBefore, NoTailHolds DEF items, last
    <3>3. Len(items) < RingSize
      BY <2>2, <2>4
    <3>4. Holds(array, Before(ring_head), <<v>> \o items)
      BY <2>4, <3>2, <3>3, StateBefore, NewHeadHolds DEF array
    <3> QED
      BY <3>2, <3>4
  <2>9. ASSUME ~ring_slipped'
        PROVE  /\ BumpedTail = Place(Before(ring_head), RingSize)
               /\ CellAt(BumpedTail) = last
    <3>1. ~ring_slipped /\ ~ring_astray /\ BumpedTail \in Slots
      BY <2>1, <2>9, StateBefore
    <3>2. ring_tail = ring_head
      BY <2>2, <3>1, StateBefore, PlaceEnds DEF CB_Inv
    <3>3. BumpedTail = Before(ring_head)
      BY <3>1, <3>2, StateBefore, RingAssumption DEF BumpedTail, Before, Slots
    <3>4. Before(ring_head) = Place(ring_head, RingSize - 1)
      BY StateBefore, RingAssumption DEF Before, Place, Slots
    <3>5. Place(Before(ring_head), RingSize) = Before(ring_head)
      BY <1>2, PlaceEnds
    <3> QED
      BY <2>8, <3>1, <3>3, <3>4, <3>5 DEF CellAt
  <2> QED
    BY <1>1, <2>1, <2>2, <2>5, <2>7, <2>8, <2>9, StateBefore DEF CB_Inv
<1>5. CASE ~IsFull
  <2>1. /\ ring_num' = ring_num + 1 /\ ring_items' = <<v>> \o ring_items
        /\ ring_out' = <<Garbage, Garbage>>
        /\ UNCHANGED <<ring_tail, ring_slipped>>
    BY <1>5 DEF CB_SetNewHead, IsFull, HandBackNothing
  <2>2. ring_num \in 0 .. RingSize - 1 /\ ring_num + 1 \in 0 .. RingSize /\ ring_num < RingSize
    BY <1>5, StateBefore, RingAssumption DEF IsFull
  <2>3. <<v>> \o ring_items \in Seq(RingValues) /\ Len(<<v>> \o ring_items) = ring_num + 1
    <3>1. <<v>> \in Seq(RingValues) /\ Len(<<v>>) = 1
      OBVIOUS
    <3>2. /\ <<v>> \o ring_items \in Seq(RingValues)
          /\ Len(<<v>> \o ring_items) = Len(<<v>>) + Len(ring_items)
      BY <3>1, StateBefore, ConcatProperties
    <3> QED
      BY <2>2, <3>1, <3>2, StateBefore
  <2>4. CB_TypeOK'
    <3>1. Garbage \in Cells
      BY DEF Cells
    <3> QED
      BY <1>1, <1>2, <1>3, <2>1, <2>2, <2>3, <3>1, StateBefore DEF CB_TypeOK, Arrays
  <2>5. ~ring_astray => Holds(array, Before(ring_head), <<v>> \o ring_items)
    BY <2>2, StateBefore, NewHeadHolds DEF array, CB_Inv
  <2>6. ~ring_slipped => ring_tail = Place(Before(ring_head), ring_num + 1)
    <3>1. Place(Before(ring_head), ring_num + 1) = Place(ring_head, ring_num)
      BY <2>2, StateBefore, PlaceBefore
    <3> QED
      BY <3>1 DEF CB_Inv
  <2> QED
    BY <1>1, <2>1, <2>3, <2>4, <2>5, <2>6, StateBefore DEF CB_Inv
<1> QED
  BY <1>4, <1>5

LEMMA RingStep == CB_Inv /\ [CB_Next]_ring_vars => CB_Inv'
<1> SUFFICES ASSUME CB_Inv, [CB_Next]_ring_vars
             PROVE  CB_Inv'
  OBVIOUS
<1>1. CASE UNCHANGED ring_vars
  <2>1. CB_TypeOK'
    BY <1>1 DEF ring_vars, CB_Inv, CB_TypeOK
  <2>2. /\ ring_num' = Len(ring_items')
        /\ ring_astray' => ring_slipped'
        /\ ~ring_astray' => Holds(ring_array', ring_head', ring_items')
        /\ ~ring_slipped' =>
             /\ ring_tail' = Place(ring_head', ring_num')
             /\ ring_out'[1] = ring_out'[2]
    BY <1>1, Zenon DEF ring_vars, CB_Inv
  <2> QED
    BY <2>1, <2>2 DEF CB_Inv
<1> QED
  BY <1>1, ResetStep, GetHeadStep, GetTailStep, SetNewTailStep, SetNewHeadStep DEF CB_Next

(* What an element is read by, jr_CB_ElementPtr, is its place.             *)
LEMMA RingImplies == CB_Inv => RingKept
<1> SUFFICES ASSUME CB_Inv
             PROVE  RingKept
  OBVIOUS
<1>1. \A i \in 0 .. RingSize : CB_ElementPtr(i) = Place(ring_head, i)
  <2> SUFFICES ASSUME NEW i \in 0 .. RingSize
               PROVE  CB_ElementPtr(i) = Place(ring_head, i)
    OBVIOUS
  <2> QED
    BY StateBefore, RingAssumption DEF CB_ElementPtr, Place, Slots
<1>2. \A i \in 1 .. ring_num : i - 1 \in 0 .. RingSize
  BY StateBefore, RingAssumption
<1>3. ~ring_astray => \A i \in 1 .. ring_num : ring_array[CB_ElementPtr(i - 1)] = ring_items[i]
  BY <1>1, <1>2, StateBefore DEF CB_Inv, Holds
<1> QED
  BY <1>1, <1>3, StateBefore DEF CB_Inv, RingKept

(* In a ring of any size, however it was filled, emptied and overrun at    *)
(* both ends, the elements are counted; reading by index gives them in     *)
(* order until one is added at a tail that has slipped out of the array,   *)
(* and what was given up is the element that had to go until it slips. It  *)
(* slips when a head is added to a full ring whose tail is at the start of *)
(* the array (jr_CB_SetNewHead): RingMakesRoom shows what happens then.    *)
THEOREM RingIsKept == CB_Spec => []RingKept
  BY RingInit, RingStep, RingImplies, PTL DEF CB_Spec

(* The indices of the ring and its elements keep their types.              *)
THEOREM RingTypeCorrect == CB_Spec => []CB_TypeOK
<1>1. CB_Inv => CB_TypeOK
  BY DEF CB_Inv
<1> QED
  BY <1>1, RingInit, RingStep, PTL DEF CB_Spec

-----------------------------------------------------------------------------
(* Exceptions. For every function between catch and uncatch there is a     *)
(* height on the stack of each name, from which on its record has as many  *)
(* places, one after the other, as its vector has the name.                *)

Named(vector, name) == Cardinality({k \in DOMAIN vector : vector[k] = name})

(* What function i has pushed for a name, and what a function that leaves  *)
(* has still to take off.                                                  *)
Pushed(i, name) ==
  IF ex_call.op = "catch" /\ i = Len(ex_frames)
  THEN Named(ex_frames[i].vector, name) - Named(ex_call.vector, name)
  ELSE Named(ex_frames[i].vector, name)

ToPop(name) == IF ex_call.op = "uncatch" THEN Named(ex_call.vector, name) ELSE 0

Frames == [record : EXRecords, vector : EXVectors]

EX_TypeOK ==
  /\ ex_lists \in [EXNames -> Seq(EXRecords)]
  /\ ex_refs \in [EXRecords -> Nat]
  /\ ex_frames \in Seq(Frames)
  /\ ex_call.op \in {"none", "catch", "uncatch"} /\ ex_call.vector \in Seq(EXNames)
  /\ ex_call = [op |-> ex_call.op, record |-> ex_call.record, vector |-> ex_call.vector]
  /\ ex_call.op = "none" => ex_call = EX_NoCall
  /\ ex_call.op = "catch" => ex_frames # <<>> /\ ex_call.record = ex_frames[Len(ex_frames)].record
  /\ ex_skipped \in BOOLEAN

(* n functions with the records rec have p places each on a stack, from    *)
(* the heights h, and t records above them are still to be taken off; as   *)
(* long as no function was jumped over nothing else is on the stack.       *)
Piled(list, n, rec, h, p, t) ==
  /\ t <= Len(list)
  /\ \A i \in 1 .. n : /\ Places(list, rec[i]) = h[i] + 1 .. h[i] + p[i]
                       /\ h[i] + p[i] + t <= Len(list)
  /\ \A i, j \in 1 .. n : i < j => h[i] + p[i] <= h[j]

Covered(list, n, h, p, t) ==
  \A m \in 1 .. Len(list) :
     (\E i \in 1 .. n : m \in h[i] + 1 .. h[i] + p[i]) \/ m > Len(list) - t

Records == [i \in 1 .. Len(ex_frames) |-> ex_frames[i].record]
Counts(name) == [i \in 1 .. Len(ex_frames) |-> Pushed(i, name)]

Stacked(h, name) ==
  /\ Counts(name) \in [1 .. Len(ex_frames) -> Nat]
  /\ Piled(ex_lists[name], Len(ex_frames), Records, h, Counts(name), ToPop(name))
  /\ ~ex_skipped => Covered(ex_lists[name], Len(ex_frames), h, Counts(name), ToPop(name))
  /\ ex_call.op = "catch" =>
       h[Len(ex_frames)] + Counts(name)[Len(ex_frames)] = Len(ex_lists[name])

RefsCounted == \A r \in EXRecords : IsFiniteSet(Uses(r)) /\ ex_refs[r] = Cardinality(Uses(r))

EX_Inv ==
  /\ EX_TypeOK
  /\ RefsCounted
  /\ \A name \in EXNames : \E h \in [1 .. Len(ex_frames) -> Nat] : Stacked(h, name)


-----------------------------------------------------------------------------
LEMMA NamedNat ==
  ASSUME NEW v \in Seq(EXNames), NEW name
  PROVE /\ Named(v, name) \in Nat /\ IsFiniteSet({k \in DOMAIN v : v[k] = name})
        /\ v = <<>> => Named(v, name) = 0
        /\ Named(v, name) = 0 <=> \A k \in DOMAIN v : v[k] # name
<1> DEFINE S == {k \in DOMAIN v : v[k] = name}
<1>1. DOMAIN v = 1 .. Len(v) /\ Len(v) \in Nat OBVIOUS
<1>2. IsFiniteSet(1 .. Len(v)) BY <1>1, FS_Interval
<1>3. IsFiniteSet(S) BY <1>1, <1>2, FS_Subset
<1>4. Cardinality(S) \in Nat BY <1>3, FS_CardinalityType
<1>5. Cardinality(S) = 0 <=> S = {} BY <1>3, FS_EmptySet
<1>6. v = <<>> => S = {} BY <1>1
<1> QED BY <1>3, <1>4, <1>5, <1>6 DEF Named

(* Taking the first name off a vector.                                     *)
LEMMA NamedTail ==
  ASSUME NEW v \in Seq(EXNames), v # <<>>, NEW name
  PROVE Named(Tail(v), name) = Named(v, name) - (IF Head(v) = name THEN 1 ELSE 0)
<1> DEFINE S == {k \in DOMAIN v : v[k] = name}
           T == {k \in DOMAIN Tail(v) : Tail(v)[k] = name}
           n == Len(v)
<1>1. n \in Nat /\ n >= 1 /\ DOMAIN v = 1 .. n /\ Head(v) = v[1] OBVIOUS
<1>2. Tail(v) \in Seq(EXNames) /\ Len(Tail(v)) = n - 1 /\ \A k \in 1 .. n - 1 : Tail(v)[k] = v[k + 1]
  OBVIOUS
<1>3. DOMAIN Tail(v) = 1 .. n - 1 BY <1>1, <1>2
<1>4. IsFiniteSet(S) /\ IsFiniteSet(T) BY <1>2, NamedNat
<1> DEFINE R == S \ {1}
<1> HIDE DEF n
<1>5. IsFiniteSet(R) BY <1>4, FS_Subset
<1>6. Cardinality(T) = Cardinality(R)
  <2> DEFINE f == [k \in T |-> k + 1]
  <2>1. T \subseteq 1 .. n - 1 /\ \A k \in 1 .. n - 1 : k \in T <=> k + 1 \in S BY <1>1, <1>2, <1>3
  <2>2. R \subseteq 2 .. n BY <1>1
  <2>3. \A k \in T : f[k] \in R
    <3> SUFFICES ASSUME NEW k \in T PROVE k + 1 \in R OBVIOUS
    <3>1. k \in 1 .. n - 1 /\ k + 1 \in S BY <2>1
    <3>2. k + 1 # 1 BY <1>1, <3>1
    <3> QED BY <3>1, <3>2
  <2>4. \A m \in R : \E k \in T : f[k] = m
    <3> SUFFICES ASSUME NEW m \in R PROVE \E k \in T : f[k] = m OBVIOUS
    <3>1. m \in 2 .. n /\ m \in S BY <2>2
    <3>2. m - 1 \in 1 .. n - 1 /\ (m - 1) + 1 = m BY <1>1, <3>1
    <3>3. m - 1 \in T BY <2>1, <3>1, <3>2
    <3> QED BY <3>2, <3>3
  <2>5. \A k, l \in T : f[k] = f[l] => k = l
    <3> SUFFICES ASSUME NEW k \in T, NEW l \in T, k + 1 = l + 1 PROVE k = l OBVIOUS
    <3>1. k \in 1 .. n - 1 /\ l \in 1 .. n - 1 BY <2>1
    <3> QED BY <1>1, <3>1
  <2>6. f \in [T -> R] BY <2>3
  <2>7. f \in Bijection(T, R)
    BY <2>4, <2>5, <2>6 DEF Bijection, Injection, Surjection, IsInjective
  <2> HIDE DEF f
  <2> QED BY <1>4, <2>7, FS_Bijection DEF ExistsBijection
<1>9. Named(Tail(v), name) = Cardinality(T) /\ Named(v, name) = Cardinality(S) BY DEF Named
<1>7. CASE Head(v) = name
  <2>1. 1 \in S BY <1>1, <1>7
  <2>2. Cardinality(R) = Cardinality(S) - 1 BY <1>4, <2>1, FS_RemoveElement
  <2> QED BY ONLY <1>6, <1>7, <1>9, <2>2
<1>8. CASE Head(v) # name
  <2>1. R = S BY <1>1, <1>8
  <2>2. Cardinality(S) \in Nat BY <1>4, FS_CardinalityType
  <2>3. Cardinality(T) = Cardinality(S) BY <1>6, <2>1
  <2>4. Named(v, name) \in Nat /\ Named(Tail(v), name) = Named(v, name) BY <1>9, <2>2, <2>3
  <2> HIDE DEF S, T, R
  <2> QED BY <1>8, <2>4
<1> QED BY <1>7, <1>8

(* A stack onto which a record is put, and one from which one is taken.    *)
LEMMA PlacesPushed ==
  ASSUME NEW list \in Seq(EXRecords), NEW top \in EXRecords, NEW r \in EXRecords
  PROVE /\ Append(list, top) \in Seq(EXRecords) /\ Len(Append(list, top)) = Len(list) + 1
        /\ Len(list) \in Nat /\ Len(list) + 1 \notin Places(list, r)
        /\ Places(list, r) \subseteq 1 .. Len(list)
        /\ Places(Append(list, top), r) = Places(list, r) \cup (IF r = top THEN {Len(list) + 1} ELSE {})
<1>1. /\ Append(list, top) \in Seq(EXRecords) /\ Len(Append(list, top)) = Len(list) + 1
      /\ DOMAIN list = 1 .. Len(list) /\ Len(list) \in Nat
      /\ \A i \in 1 .. Len(list) : Append(list, top)[i] = list[i]
      /\ Append(list, top)[Len(list) + 1] = top
  OBVIOUS
<1>2. DOMAIN Append(list, top) = 1 .. Len(list) + 1 BY <1>1
<1>3. 1 .. Len(list) + 1 = (1 .. Len(list)) \cup {Len(list) + 1} /\ Len(list) + 1 \notin 1 .. Len(list) BY <1>1
<1> QED BY <1>1, <1>2, <1>3 DEF Places

LEMMA PlacesPopped ==
  ASSUME NEW list \in Seq(EXRecords), list # <<>>, NEW r \in EXRecords
  PROVE /\ Front(list) \in Seq(EXRecords) /\ Len(Front(list)) = Len(list) - 1
        /\ Len(list) \in Nat /\ Len(list) >= 1 /\ Last(list) \in EXRecords
        /\ Places(Front(list), r) = Places(list, r) \ {Len(list)}
        /\ Len(list) \in Places(list, r) <=> r = Last(list)
<1>1. Len(list) \in Nat /\ Len(list) >= 1 /\ DOMAIN list = 1 .. Len(list)
      /\ Last(list) = list[Len(list)] /\ Front(list) = SubSeq(list, 1, Len(list) - 1)
  BY DEF Last, Front
<1>2. /\ Front(list) \in Seq(EXRecords) /\ Len(Front(list)) = Len(list) - 1
      /\ \A i \in 1 .. Len(list) - 1 : Front(list)[i] = list[i]
  BY <1>1, SubSeqProperties
<1>3. DOMAIN Front(list) = 1 .. Len(list) - 1 BY <1>1, <1>2
<1>4. 1 .. Len(list) - 1 = (1 .. Len(list)) \ {Len(list)} /\ Len(list) \in 1 .. Len(list) BY <1>1
<1>5. Last(list) \in EXRecords BY <1>1
<1> QED BY <1>1, <1>2, <1>3, <1>4, <1>5 DEF Places

-----------------------------------------------------------------------------
LEMMA FrameType ==
  ASSUME EX_TypeOK, NEW i \in 1 .. Len(ex_frames)
  PROVE /\ ex_frames[i] \in Frames /\ ex_frames[i].record \in EXRecords
        /\ ex_frames[i].vector \in EXVectors /\ ex_frames[i].vector \in Seq(EXNames)
        /\ ex_frames[i].vector # <<>> /\ \A name : Named(ex_frames[i].vector, name) \in Nat
<1>1. ex_frames[i] \in Frames BY DEF EX_TypeOK
<1>2. ex_frames[i].record \in EXRecords /\ ex_frames[i].vector \in EXVectors BY <1>1 DEF Frames
<1> QED BY <1>1, <1>2, ExceptionAssumption, NamedNat

LEMMA CallType == ASSUME EX_TypeOK PROVE /\ Len(ex_frames) \in Nat
                                         /\ \A name : Named(ex_call.vector, name) \in Nat
                                         /\ \A name : ToPop(name) \in Nat
<1>1. Len(ex_frames) \in Nat BY DEF EX_TypeOK
<1>2. \A name : Named(ex_call.vector, name) \in Nat BY NamedNat DEF EX_TypeOK
<1> QED BY <1>1, <1>2 DEF ToPop

LEMMA EX_InitInv == EX_Init => EX_Inv
<1> SUFFICES ASSUME EX_Init PROVE EX_Inv OBVIOUS
<1>1. ex_frames = <<>> /\ Len(ex_frames) = 0 /\ ex_call.op = "none" /\ ex_call.vector = <<>>
  BY DEF EX_Init, EX_NoCall
<1>2. \A name \in EXNames : ex_lists[name] = <<>> /\ Len(ex_lists[name]) = 0 BY DEF EX_Init
<1>3. EX_TypeOK
  <2>1. ex_lists \in [EXNames -> Seq(EXRecords)]
    <3>1. <<>> \in Seq(EXRecords) OBVIOUS
    <3> QED BY <3>1 DEF EX_Init
  <2>2. ex_refs \in [EXRecords -> Nat] BY DEF EX_Init
  <2>3. ex_frames \in Seq(Frames) /\ ex_call.vector \in Seq(EXNames) BY <1>1
  <2> QED BY <1>1, <2>1, <2>2, <2>3 DEF EX_TypeOK, EX_Init, EX_NoCall
<1>4. RefsCounted
  <2> SUFFICES ASSUME NEW r \in EXRecords PROVE IsFiniteSet(Uses(r)) /\ ex_refs[r] = Cardinality(Uses(r))
    BY DEF RefsCounted
  <2>1. \A name \in EXNames : Places(ex_lists[name], r) = {} BY <1>2 DEF Places
  <2>2. Uses(r) = {} BY <2>1 DEF Uses
  <2>3. ex_refs[r] = 0 BY DEF EX_Init
  <2> QED BY <2>2, <2>3, FS_EmptySet
<1>5. ASSUME NEW name \in EXNames PROVE \E h \in [1 .. Len(ex_frames) -> Nat] : Stacked(h, name)
  <2>1. \A h : h \in [1 .. 0 -> Nat] => Stacked(h, name)
    <3>1. ToPop(name) = 0 /\ Len(ex_lists[name]) = 0 /\ ex_call.op # "catch" BY <1>1, <1>2 DEF ToPop
    <3>2. 1 .. 0 = {} OBVIOUS
    <3>3. Counts(name) \in [1 .. 0 -> Nat] BY <1>1, <3>2 DEF Counts
    <3> QED BY <1>1, <3>1, <3>2, <3>3 DEF Stacked, Piled, Covered
  <2>2. [i \in 1 .. 0 |-> 0] \in [1 .. 0 -> Nat] OBVIOUS
  <2> QED BY <1>1, <2>1, <2>2
<1> QED BY <1>3, <1>4, <1>5 DEF EX_Inv

LEMMA UsesSame ==
  ASSUME UNCHANGED <<ex_lists, ex_refs>>, RefsCounted PROVE RefsCounted'
<1> QED BY DEF RefsCounted, Uses, Places


AllUses(lists, r) == UNION {{name} \X Places(lists[name], r) : name \in EXNames}

Pairs(x, D) == {x} \X D
AlikeBut(x, f, g) == \A name \in EXNames : name # x => g[name] = f[name]

LEMMA UsesMoved ==
  ASSUME NEW f, NEW g, NEW x \in EXNames, NEW q, NEW D,
         AlikeBut(x, f, g)
  PROVE /\ Places(g[x], q) = Places(f[x], q) \cup D => AllUses(g, q) = AllUses(f, q) \cup Pairs(x, D)
        /\ Places(g[x], q) = Places(f[x], q) \ D =>
             \A u : u \in AllUses(g, q) <=> u \in AllUses(f, q) /\ u \notin Pairs(x, D)
<1>1. \A name \in EXNames : name # x => g[name] = f[name] BY DEF AlikeBut
<1>2. \A u : u \in AllUses(f, q) <=> \E name \in EXNames : \E m \in Places(f[name], q) : u = <<name, m>>
  BY DEF AllUses
<1>3. \A u : u \in AllUses(g, q) <=> \E name \in EXNames : \E m \in Places(g[name], q) : u = <<name, m>>
  BY DEF AllUses
<1>4. \A u : u \in Pairs(x, D) <=> \E m \in D : u = <<x, m>> BY DEF Pairs
<1>5. ASSUME Places(g[x], q) = Places(f[x], q) \cup D PROVE AllUses(g, q) = AllUses(f, q) \cup Pairs(x, D)
  <2>1. ASSUME NEW u \in AllUses(g, q) PROVE u \in AllUses(f, q) \cup Pairs(x, D)
    <3>1. PICK name \in EXNames : \E m \in Places(g[name], q) : u = <<name, m>> BY <1>3, <2>1
    <3>2. PICK m \in Places(g[name], q) : u = <<name, m>> BY <3>1
    <3>3. CASE name = x /\ m \in D BY <1>4, <3>2, <3>3
    <3>4. CASE ~(name = x /\ m \in D)
      <4>1. m \in Places(f[name], q) BY <1>1, <1>5, <3>2, <3>4
      <4> QED BY <1>2, <3>2, <4>1
    <3> QED BY <3>3, <3>4
  <2>2. ASSUME NEW u \in AllUses(f, q) PROVE u \in AllUses(g, q)
    <3>1. PICK name \in EXNames : \E m \in Places(f[name], q) : u = <<name, m>> BY <1>2, <2>2
    <3>2. PICK m \in Places(f[name], q) : u = <<name, m>> BY <3>1
    <3>3. m \in Places(g[name], q) BY <1>1, <1>5, <3>2
    <3> QED BY <1>3, <3>2, <3>3
  <2>3. ASSUME NEW u \in Pairs(x, D) PROVE u \in AllUses(g, q)
    <3>1. PICK m \in D : u = <<x, m>> BY <1>4, <2>3
    <3>2. m \in Places(g[x], q) BY <1>1, <1>5
    <3> QED BY <1>3, <3>1, <3>2
  <2> QED BY <2>1, <2>2, <2>3
<1>6. ASSUME Places(g[x], q) = Places(f[x], q) \ D PROVE AllUses(g, q) = AllUses(f, q) \ Pairs(x, D)
  <2>1. ASSUME NEW u \in AllUses(g, q) PROVE u \in AllUses(f, q) \ Pairs(x, D)
    <3>1. PICK name \in EXNames : \E m \in Places(g[name], q) : u = <<name, m>> BY <1>3, <2>1
    <3>2. PICK m \in Places(g[name], q) : u = <<name, m>> BY <3>1
    <3>3. m \in Places(f[name], q) /\ ~(name = x /\ m \in D) BY <1>1, <1>6, <3>2
    <3>4. u \notin Pairs(x, D) BY <1>4, <3>2, <3>3
    <3> QED BY <1>2, <3>2, <3>3, <3>4
  <2>2. ASSUME NEW u \in AllUses(f, q), u \notin Pairs(x, D) PROVE u \in AllUses(g, q)
    <3>1. PICK name \in EXNames : \E m \in Places(f[name], q) : u = <<name, m>> BY <1>2, <2>2
    <3>2. PICK m \in Places(f[name], q) : u = <<name, m>> BY <3>1
    <3>3. ~(name = x /\ m \in D) BY <1>4, <2>2, <3>2
    <3>4. m \in Places(g[name], q) BY <1>1, <1>6, <3>2, <3>3
    <3> QED BY <1>3, <3>2, <3>4
  <2> QED BY <2>1, <2>2
<1> QED BY <1>5, <1>6

-----------------------------------------------------------------------------
(* What the steps do to one stack.                                         *)

LEMMA PiledPush ==
  ASSUME NEW list \in Seq(EXRecords), NEW n \in Nat, n >= 1, NEW rec \in [1 .. n -> EXRecords],
         NEW h \in [1 .. n -> Nat], NEW p \in [1 .. n -> Nat], NEW s \in [1 .. n -> Nat],
         s[n] = p[n] + 1, \A i \in 1 .. n : i # n => s[i] = p[i] /\ rec[i] # rec[n],
         Piled(list, n, rec, h, p, 0), h[n] + p[n] = Len(list)
  PROVE /\ Piled(Append(list, rec[n]), n, rec, h, s, 0) /\ h[n] + s[n] = Len(Append(list, rec[n]))
        /\ Covered(list, n, h, p, 0) => Covered(Append(list, rec[n]), n, h, s, 0)
<1>1. n \in 1 .. n /\ rec[n] \in EXRecords OBVIOUS
<1>2. /\ Len(list) \in Nat /\ Len(Append(list, rec[n])) = Len(list) + 1
      /\ \A i \in 1 .. n : Places(Append(list, rec[n]), rec[i]) = Places(list, rec[i]) \cup (IF rec[i] = rec[n] THEN {Len(list) + 1} ELSE {})
  BY <1>1, PlacesPushed
<1>3. \A i \in 1 .. n : Places(list, rec[i]) = h[i] + 1 .. h[i] + p[i] /\ h[i] + p[i] + 0 <= Len(list)
  BY DEF Piled
<1>4. \A i, j \in 1 .. n : i < j => h[i] + p[i] <= h[j] BY DEF Piled
<1>5. ASSUME NEW i \in 1 .. n
      PROVE Places(Append(list, rec[n]), rec[i]) = h[i] + 1 .. h[i] + s[i] /\ h[i] + s[i] + 0 <= Len(Append(list, rec[n]))
  <2>1. CASE i = n
    <3>1. Places(Append(list, rec[n]), rec[n]) = Places(list, rec[n]) \cup {Len(list) + 1} BY <1>1, <1>2
    <3>2. (h[n] + 1 .. h[n] + p[n]) \cup {h[n] + p[n] + 1} = h[n] + 1 .. h[n] + (p[n] + 1) BY <1>1
    <3>3. h[n] + s[n] + 0 <= Len(Append(list, rec[n])) BY <1>1, <1>2
    <3> QED BY <1>1, <1>3, <2>1, <3>1, <3>2, <3>3
  <2>2. CASE i # n
    <3>1. Places(Append(list, rec[n]), rec[i]) = Places(list, rec[i]) BY <1>2, <2>2
    <3>2. h[i] + p[i] + 0 <= Len(Append(list, rec[n])) BY <1>2, <1>3, SMTT(30)
    <3> QED BY <1>3, <2>2, <3>1, <3>2
  <2> QED BY <2>1, <2>2
<1>6. ASSUME NEW i \in 1 .. n, NEW j \in 1 .. n, i < j PROVE h[i] + s[i] <= h[j]
  <2>1. i # n BY <1>6
  <2> QED BY <1>4, <1>6, <2>1
<1>7. Piled(Append(list, rec[n]), n, rec, h, s, 0) BY <1>2, <1>5, <1>6 DEF Piled
<1>8. ASSUME Covered(list, n, h, p, 0) PROVE Covered(Append(list, rec[n]), n, h, s, 0)
  <2> SUFFICES ASSUME NEW m \in 1 .. Len(list) + 1 PROVE \E i \in 1 .. n : m \in h[i] + 1 .. h[i] + s[i]
    BY <1>2 DEF Covered
  <2>1. CASE m = Len(list) + 1
    <3>1. m \in h[n] + 1 .. h[n] + s[n] BY <1>1, <1>2, <2>1
    <3> QED BY <1>1, <3>1
  <2>2. CASE m # Len(list) + 1
    <3>1. m \in 1 .. Len(list) /\ ~(m > Len(list) - 0) BY <1>2, <2>2
    <3>2. PICK i \in 1 .. n : m \in h[i] + 1 .. h[i] + p[i] BY <1>8, <3>1 DEF Covered
    <3>3. s[i] = p[i] \/ (i = n /\ s[i] = p[i] + 1) OBVIOUS
    <3>4. m \in h[i] + 1 .. h[i] + s[i] BY <3>2, <3>3, SMTT(30)
    <3> QED BY <3>4
  <2> QED BY <2>1, <2>2
<1>9. h[n] + s[n] = Len(Append(list, rec[n]))
  <2>1. h[n] \in Nat /\ p[n] \in Nat /\ s[n] = p[n] + 1 /\ h[n] + p[n] = Len(list) BY <1>1
  <2> QED BY <1>2, <2>1
<1> QED BY <1>7, <1>8, <1>9

LEMMA PiledPop ==
  ASSUME NEW list \in Seq(EXRecords), NEW n \in Nat, NEW rec \in [1 .. n -> EXRecords],
         NEW h \in [1 .. n -> Nat], NEW p \in [1 .. n -> Nat], NEW t \in Nat, t >= 1,
         Piled(list, n, rec, h, p, t)
  PROVE /\ list # <<>> /\ Piled(Front(list), n, rec, h, p, t - 1)
        /\ Covered(list, n, h, p, t) => Covered(Front(list), n, h, p, t - 1)
<1>1. t <= Len(list) BY DEF Piled
<1>2. list # <<>> /\ Len(list) \in Nat BY <1>1
<1>3. /\ Len(Front(list)) = Len(list) - 1
      /\ \A i \in 1 .. n : Places(Front(list), rec[i]) = Places(list, rec[i]) \ {Len(list)}
  <2>1. \A r \in EXRecords : /\ Len(Front(list)) = Len(list) - 1
                             /\ Places(Front(list), r) = Places(list, r) \ {Len(list)}
    BY <1>2, PlacesPopped
  <2>2. list[Len(list)] \in EXRecords BY <1>2
  <2> QED BY <2>1, <2>2
<1>4. ASSUME NEW i \in 1 .. n
      PROVE /\ Places(Front(list), rec[i]) = h[i] + 1 .. h[i] + p[i]
            /\ h[i] + p[i] + (t - 1) <= Len(list) - 1
  <2>1. Places(list, rec[i]) = h[i] + 1 .. h[i] + p[i] /\ h[i] + p[i] + t <= Len(list) BY DEF Piled
  <2>2. Len(list) \notin h[i] + 1 .. h[i] + p[i] /\ h[i] + p[i] + (t - 1) <= Len(list) - 1 BY <1>2, <2>1
  <2> QED BY <1>3, <2>1, <2>2
<1>5. \A i, j \in 1 .. n : i < j => h[i] + p[i] <= h[j] BY DEF Piled
<1>6. t - 1 <= Len(list) - 1 BY <1>1, <1>2
<1>7. Piled(Front(list), n, rec, h, p, t - 1) BY <1>3, <1>4, <1>5, <1>6 DEF Piled
<1>8. ASSUME Covered(list, n, h, p, t) PROVE Covered(Front(list), n, h, p, t - 1)
  <2> SUFFICES ASSUME NEW m \in 1 .. Len(list) - 1
               PROVE (\E i \in 1 .. n : m \in h[i] + 1 .. h[i] + p[i]) \/ m > (Len(list) - 1) - (t - 1)
    BY <1>3 DEF Covered
  <2>1. m \in 1 .. Len(list) BY <1>2
  <2>2. (\E i \in 1 .. n : m \in h[i] + 1 .. h[i] + p[i]) \/ m > Len(list) - t BY <1>8, <2>1 DEF Covered
  <2>3. (Len(list) - 1) - (t - 1) = Len(list) - t BY <1>2
  <2> QED BY <2>2, <2>3
<1> QED BY <1>2, <1>7, <1>8

SameUpTo(n, f, g) == \A i \in 1 .. n : g[i] = f[i]

LEMMA PiledCatch ==
  ASSUME NEW list \in Seq(EXRecords), NEW n \in Nat, NEW rec \in [1 .. n -> EXRecords],
         NEW h \in [1 .. n -> Nat], NEW p \in [1 .. n -> Nat], Piled(list, n, rec, h, p, 0),
         NEW rec2 \in [1 .. n + 1 -> EXRecords], NEW h2 \in [1 .. n + 1 -> Nat], NEW p2 \in [1 .. n + 1 -> Nat],
         SameUpTo(n, rec, rec2), SameUpTo(n, h, h2), SameUpTo(n, p, p2),
         Places(list, rec2[n + 1]) = {}, h2[n + 1] = Len(list), p2[n + 1] = 0
  PROVE /\ Piled(list, n + 1, rec2, h2, p2, 0)
        /\ Covered(list, n, h, p, 0) => Covered(list, n + 1, h2, p2, 0)
<1>10. \A i \in 1 .. n : rec2[i] = rec[i] /\ h2[i] = h[i] /\ p2[i] = p[i] BY DEF SameUpTo
<1>1. Len(list) \in Nat /\ 1 .. n + 1 = (1 .. n) \cup {n + 1} /\ \A i \in 1 .. n : i # n + 1 /\ i < n + 1 OBVIOUS
<1>2. \A i \in 1 .. n : Places(list, rec[i]) = h[i] + 1 .. h[i] + p[i] /\ h[i] + p[i] + 0 <= Len(list)
  BY DEF Piled
<1>3. \A i, j \in 1 .. n : i < j => h[i] + p[i] <= h[j] BY DEF Piled
<1>4. ASSUME NEW i \in 1 .. n + 1
      PROVE Places(list, rec2[i]) = h2[i] + 1 .. h2[i] + p2[i] /\ h2[i] + p2[i] + 0 <= Len(list)
  <2>1. CASE i = n + 1
    <3>1. Len(list) + 1 .. Len(list) + 0 = {} /\ Len(list) + 0 + 0 <= Len(list) BY <1>1
    <3> QED BY <2>1, <3>1
  <2>2. CASE i # n + 1
    <3>1. i \in 1 .. n BY <1>1, <2>2
    <3> QED BY <1>2, <1>10, <3>1
  <2> QED BY <2>1, <2>2
<1>5. ASSUME NEW i \in 1 .. n + 1, NEW j \in 1 .. n + 1, i < j PROVE h2[i] + p2[i] <= h2[j]
  <2>1. i \in 1 .. n BY <1>5
  <2>2. CASE j = n + 1
    <3>1. h[i] + p[i] <= Len(list) BY <1>1, <1>2, <2>1
    <3> QED BY <1>10, <2>1, <2>2, <3>1
  <2>3. CASE j # n + 1
    <3>1. j \in 1 .. n BY <1>1, <2>3
    <3> QED BY <1>3, <1>5, <1>10, <2>1, <3>1
  <2> QED BY <2>2, <2>3
<1>6. Piled(list, n + 1, rec2, h2, p2, 0) BY <1>1, <1>4, <1>5 DEF Piled
<1>7. ASSUME Covered(list, n, h, p, 0) PROVE Covered(list, n + 1, h2, p2, 0)
  <2> SUFFICES ASSUME NEW m \in 1 .. Len(list) PROVE \E i \in 1 .. n + 1 : m \in h2[i] + 1 .. h2[i] + p2[i]
    BY DEF Covered
  <2>1. ~(m > Len(list) - 0) BY <1>1
  <2>2. PICK i \in 1 .. n : m \in h[i] + 1 .. h[i] + p[i] BY <1>7, <2>1 DEF Covered
  <2>3. i \in 1 .. n + 1 BY <1>1
  <2> QED BY <1>10, <2>2, <2>3
<1> QED BY <1>6, <1>7

LEMMA PiledUnCatch ==
  ASSUME NEW list \in Seq(EXRecords), NEW n \in Nat, n >= 1, NEW rec \in [1 .. n -> EXRecords],
         NEW h \in [1 .. n -> Nat], NEW p \in [1 .. n -> Nat], Piled(list, n, rec, h, p, 0),
         NEW rec2, NEW h2, NEW p2,
         \A i \in 1 .. n - 1 : rec2[i] = rec[i] /\ h2[i] = h[i] /\ p2[i] = p[i]
  PROVE /\ Piled(list, n - 1, rec2, h2, p2, p[n])
        /\ Covered(list, n, h, p, 0) => Covered(list, n - 1, h2, p2, p[n])
<1>1. Len(list) \in Nat /\ n \in 1 .. n /\ \A i \in 1 .. n - 1 : i \in 1 .. n /\ i < n OBVIOUS
<1>2. \A i \in 1 .. n : Places(list, rec[i]) = h[i] + 1 .. h[i] + p[i] /\ h[i] + p[i] + 0 <= Len(list)
  BY DEF Piled
<1>3. \A i, j \in 1 .. n : i < j => h[i] + p[i] <= h[j] BY DEF Piled
<1>4. h[n] \in Nat /\ p[n] \in Nat /\ h[n] + p[n] + 0 <= Len(list) BY <1>1, <1>2
<1>5. p[n] <= Len(list) BY <1>1, <1>4
<1>6. ASSUME NEW i \in 1 .. n - 1
      PROVE Places(list, rec2[i]) = h2[i] + 1 .. h2[i] + p2[i] /\ h2[i] + p2[i] + p[n] <= Len(list)
  <2>1. h[i] \in Nat /\ p[i] \in Nat /\ h[i] + p[i] <= h[n] BY <1>1, <1>3
  <2>2. h[i] + p[i] + p[n] <= Len(list) BY <1>1, <1>4, <2>1
  <2> QED BY <1>1, <1>2, <2>2
<1>7. \A i, j \in 1 .. n - 1 : i < j => h2[i] + p2[i] <= h2[j] BY <1>1, <1>3
<1>8. Piled(list, n - 1, rec2, h2, p2, p[n]) BY <1>5, <1>6, <1>7 DEF Piled
<1>9. ASSUME Covered(list, n, h, p, 0) PROVE Covered(list, n - 1, h2, p2, p[n])
  <2> SUFFICES ASSUME NEW m \in 1 .. Len(list)
               PROVE (\E i \in 1 .. n - 1 : m \in h2[i] + 1 .. h2[i] + p2[i]) \/ m > Len(list) - p[n]
    BY DEF Covered
  <2>1. ASSUME NEW k \in 1 .. Len(list) PROVE \E i \in 1 .. n : k \in h[i] + 1 .. h[i] + p[i]
    <3>1. ~(k > Len(list) - 0) BY <1>1
    <3> QED BY <1>9, <3>1 DEF Covered
  <2>2. h[n] + p[n] = Len(list)
    <3>1. Len(list) \in 1 .. Len(list) BY <1>1
    <3>2. PICK i \in 1 .. n : Len(list) \in h[i] + 1 .. h[i] + p[i] BY <2>1, <3>1
    <3>3. h[i] \in Nat /\ p[i] \in Nat /\ h[i] + p[i] >= Len(list) BY <1>1, <3>2
    <3>4. i < n => h[i] + p[i] <= h[n] BY <1>1, <1>3
    <3> QED BY <1>1, <1>4, <3>3, <3>4
  <2>3. PICK i \in 1 .. n : m \in h[i] + 1 .. h[i] + p[i] BY <2>1
  <2>4. CASE i = n
    <3>1. m > Len(list) - p[n] BY <1>1, <1>4, <2>2, <2>3, <2>4
    <3> QED BY <3>1
  <2>5. CASE i # n
    <3>1. i \in 1 .. n - 1 BY <2>5
    <3> QED BY <2>3, <3>1
  <2> QED BY <2>4, <2>5
<1> QED BY <1>8, <1>9

LEMMA PiledRaise ==
  ASSUME NEW list, NEW n \in Nat, NEW k \in 1 .. n, NEW rec, NEW h, NEW p, Piled(list, n, rec, h, p, 0),
         NEW rec2, NEW h2, NEW p2, SameUpTo(k, rec, rec2), SameUpTo(k, h, h2), SameUpTo(k, p, p2)
  PROVE /\ Piled(list, k, rec2, h2, p2, 0)
        /\ k = n => (Covered(list, n, h, p, 0) => Covered(list, k, h2, p2, 0))
<1>4. \A i \in 1 .. k : rec2[i] = rec[i] /\ h2[i] = h[i] /\ p2[i] = p[i] BY DEF SameUpTo
<1>1. 1 .. k \subseteq 1 .. n OBVIOUS
<1>2. Piled(list, k, rec2, h2, p2, 0) BY <1>1, <1>4 DEF Piled
<1>3. ASSUME k = n, Covered(list, n, h, p, 0) PROVE Covered(list, k, h2, p2, 0)
  <2> SUFFICES ASSUME NEW m \in 1 .. Len(list)
               PROVE (\E i \in 1 .. k : m \in h2[i] + 1 .. h2[i] + p2[i]) \/ m > Len(list) - 0
    BY DEF Covered
  <2> QED BY <1>3, <1>4 DEF Covered
<1> QED BY <1>2, <1>3
-----------------------------------------------------------------------------
LEMMA StackTypes ==
  ASSUME EX_TypeOK
  PROVE /\ Len(ex_frames) \in Nat /\ Records \in [1 .. Len(ex_frames) -> EXRecords]
        /\ \A name \in EXNames : ex_lists[name] \in Seq(EXRecords)
        /\ \A i \in 1 .. Len(ex_frames) : Records[i] = ex_frames[i].record
        /\ \A name : Counts(name) = [i \in 1 .. Len(ex_frames) |-> Pushed(i, name)]
        /\ \A name : ToPop(name) \in Nat
<1>1. \A i \in 1 .. Len(ex_frames) : ex_frames[i].record \in EXRecords BY FrameType
<1> QED BY <1>1, CallType DEF Records, Counts, EX_TypeOK

(* A function that has pushed its record shares it with no other: their    *)
(* places are apart.                                                       *)
LEMMA RecordsApart ==
  ASSUME EX_Inv, NEW i \in 1 .. Len(ex_frames), NEW j \in 1 .. Len(ex_frames), i < j
  PROVE ex_frames[i].record # ex_frames[j].record
<1> SUFFICES ASSUME ex_frames[i].record = ex_frames[j].record PROVE FALSE OBVIOUS
<1>1. EX_TypeOK BY DEF EX_Inv
<1>2. ex_frames[i].vector \in Seq(EXNames) /\ ex_frames[i].vector # <<>> /\ Len(ex_frames) \in Nat
  BY <1>1, FrameType, CallType
<1>3. PICK x \in EXNames : x = ex_frames[i].vector[1] BY <1>2
<1>4. 1 \in DOMAIN ex_frames[i].vector BY <1>2
<1>5. Named(ex_frames[i].vector, x) \in Nat /\ Named(ex_frames[i].vector, x) # 0
  BY <1>2, <1>3, <1>4, NamedNat
<1>6. i # Len(ex_frames) BY <1>2
<1>7. Pushed(i, x) = Named(ex_frames[i].vector, x) BY <1>6 DEF Pushed
<1>8. PICK h \in [1 .. Len(ex_frames) -> Nat] : Stacked(h, x) BY DEF EX_Inv
<1> DEFINE p == Counts(x)
<1>9. /\ Places(ex_lists[x], Records[i]) = h[i] + 1 .. h[i] + p[i]
      /\ Places(ex_lists[x], Records[j]) = h[j] + 1 .. h[j] + p[j]
      /\ h[i] + p[i] <= h[j] /\ p[j] \in Nat
  BY <1>8 DEF Stacked, Piled
<1>10. p[i] = Named(ex_frames[i].vector, x) /\ Records[i] = Records[j] BY <1>1, <1>7, StackTypes
<1> HIDE DEF p
<1>11. h[i] \in Nat /\ h[j] \in Nat OBVIOUS
<1>12. h[i] + 1 \in h[i] + 1 .. h[i] + p[i] BY <1>5, <1>10, <1>11
<1>13. h[i] + 1 \in h[j] + 1 .. h[j] + p[j] BY <1>9, <1>10, <1>12
<1> QED BY <1>5, <1>9, <1>10, <1>11, <1>13

LEMMA EX_PushStep == ASSUME EX_Inv, EX_Push PROVE EX_Inv'
<1>1. /\ ex_call.op = "catch" /\ ex_call.vector # <<>>
      /\ ex_lists' = [ex_lists EXCEPT ![Head(ex_call.vector)] = Append(@, ex_call.record)]
      /\ ex_refs' = [ex_refs EXCEPT ![ex_call.record] = @ + 1]
      /\ ex_call' = [ex_call EXCEPT !.vector = Tail(@)]
      /\ UNCHANGED <<ex_frames, ex_skipped>>
  BY DEF EX_Push
<1>2. EX_TypeOK /\ RefsCounted BY DEF EX_Inv
<1>3. ex_call.vector \in Seq(EXNames) /\ Tail(ex_call.vector) \in Seq(EXNames)
  BY <1>1, <1>2 DEF EX_TypeOK
<1>4. PICK x \in EXNames : x = Head(ex_call.vector) BY <1>1, <1>3
<1>5. PICK n \in Nat : n = Len(ex_frames) BY <1>2, CallType
<1>6. n >= 1 /\ n \in 1 .. n /\ ex_call.record = ex_frames[n].record
  <2>1. ex_frames \in Seq(Frames) /\ ex_frames # <<>> /\ ex_call.record = ex_frames[n].record
    BY <1>1, <1>2, <1>5 DEF EX_TypeOK
  <2> QED BY <1>5, <2>1
<1>7. PICK r \in EXRecords : r = ex_frames[n].record BY <1>2, <1>5, <1>6, FrameType
<1>8. PICK list \in Seq(EXRecords) : list = ex_lists[x] BY <1>2 DEF EX_TypeOK
<1>9. PICK l \in Seq(EXRecords) : l = Append(list, r)
  <2>1. Append(list, r) \in Seq(EXRecords) BY PlacesPushed
  <2> QED BY <2>1
<1>10. /\ ex_lists' = [ex_lists EXCEPT ![x] = l] /\ ex_lists' \in [EXNames -> Seq(EXRecords)]
       /\ ex_lists'[x] = l /\ \A name \in EXNames : name # x => ex_lists'[name] = ex_lists[name]
  BY <1>1, <1>2, <1>4, <1>6, <1>7, <1>8, <1>9 DEF EX_TypeOK
<1>11. /\ ex_refs' \in [EXRecords -> Nat]
       /\ \A q \in EXRecords : q # r => ex_refs'[q] = ex_refs[q]
       /\ ex_refs'[r] = ex_refs[r] + 1
  <2>1. ex_refs' = [ex_refs EXCEPT ![r] = ex_refs[r] + 1] BY <1>1, <1>6, <1>7
  <2>2. ex_refs \in [EXRecords -> Nat] BY <1>2 DEF EX_TypeOK
  <2> QED BY <2>1, <2>2
<1>12. ex_call'.op = "catch" /\ ex_call'.record = r /\ ex_call'.vector = Tail(ex_call.vector)
       /\ ex_call' = [op |-> "catch", record |-> r, vector |-> Tail(ex_call.vector)]
  BY <1>1, <1>2, <1>6, <1>7 DEF EX_TypeOK
<1>13. EX_TypeOK'
  <2>1. ex_frames' # <<>> /\ ex_call'.record = ex_frames'[Len(ex_frames')].record
    BY <1>1, <1>2, <1>5, <1>7, <1>12 DEF EX_TypeOK
  <2> QED BY <1>1, <1>2, <1>3, <1>10, <1>11, <1>12, <2>1 DEF EX_TypeOK
<1>14. RefsCounted'
  <2> SUFFICES ASSUME NEW q \in EXRecords PROVE (IsFiniteSet(Uses(q)) /\ ex_refs[q] = Cardinality(Uses(q)))'
    BY DEF RefsCounted
  <2>1. IsFiniteSet(Uses(q)) /\ ex_refs[q] = Cardinality(Uses(q)) BY <1>2 DEF RefsCounted
  <2>2. /\ Len(list) + 1 \notin Places(list, q)
        /\ Places(l, q) = Places(list, q) \cup (IF q = r THEN {Len(list) + 1} ELSE {})
    BY <1>9, PlacesPushed
  <2>3. ASSUME NEW D, Places(l, q) = Places(list, q) \cup D PROVE Uses(q)' = Uses(q) \cup ({x} \X D)
    <3>1. Places(ex_lists'[x], q) = Places(ex_lists[x], q) \cup D BY <1>8, <1>10, <2>3
    <3>2. AlikeBut(x, ex_lists, ex_lists') BY <1>10 DEF AlikeBut
    <3>3. AllUses(ex_lists', q) = AllUses(ex_lists, q) \cup Pairs(x, D) BY <3>1, <3>2, UsesMoved
    <3> QED BY <3>3 DEF AllUses, Uses, Places, Pairs
  <2>4. CASE q = r
    <3>1. Uses(q)' = Uses(q) \cup ({x} \X {Len(list) + 1}) BY <2>2, <2>3, <2>4
    <3>2. Uses(q)' = Uses(q) \cup {<<x, Len(list) + 1>>} BY <3>1
    <3>3. <<x, Len(list) + 1>> \notin Uses(q)
      <4>1. Len(list) + 1 \notin Places(ex_lists[x], q) BY <1>8, <2>2
      <4> QED BY <4>1 DEF Uses
    <3>4. ex_refs'[q] = ex_refs[q] + 1 BY <1>11, <2>4
    <3>5. IsFiniteSet(Uses(q)') /\ Cardinality(Uses(q)') = Cardinality(Uses(q)) + 1
      <4>1. \A S, u : IsFiniteSet(S) /\ u \notin S =>
              IsFiniteSet(S \cup {u}) /\ Cardinality(S \cup {u}) = Cardinality(S) + 1
        BY FS_AddElement
      <4> QED BY ONLY <2>1, <3>2, <3>3, <4>1, Zenon
    <3> QED BY <2>1, <3>4, <3>5
  <2>5. CASE q # r
    <3>1. Uses(q)' = Uses(q) \cup ({x} \X {}) BY <2>2, <2>3, <2>5
    <3>2. Uses(q)' = Uses(q) BY <3>1
    <3> QED BY <1>11, <2>1, <2>5, <3>2
  <2> QED BY <2>4, <2>5
<1>15. Records' = Records /\ Len(ex_frames') = n BY <1>1, <1>5 DEF Records
<1>16. ASSUME NEW name \in EXNames PROVE \E h \in [1 .. Len(ex_frames') -> Nat] : Stacked(h, name)'
  <2>1. PICK h \in [1 .. n -> Nat] : Stacked(h, name) BY <1>5 DEF EX_Inv
  <2>2. PICK p \in [1 .. n -> Nat] : p = Counts(name) BY <1>5, <2>1 DEF Stacked
  <2>3. ToPop(name)' = 0 /\ ToPop(name) = 0 BY <1>1, <1>12 DEF ToPop
  <2>4. /\ Named(ex_frames[n].vector, name) \in Nat /\ Named(ex_call.vector, name) \in Nat
        /\ Named(ex_call'.vector, name) = Named(ex_call.vector, name) - (IF x = name THEN 1 ELSE 0)
    BY <1>1, <1>2, <1>3, <1>4, <1>5, <1>6, <1>12, FrameType, CallType, NamedTail
  <2>5. \A i \in 1 .. n : i # n => Pushed(i, name)' = p[i]
    <3> SUFFICES ASSUME NEW i \in 1 .. n, i # n PROVE Pushed(i, name)' = p[i] OBVIOUS
    <3>1. Pushed(i, name)' = Named(ex_frames[i].vector, name) BY <1>1, <1>5 DEF Pushed
    <3>2. Pushed(i, name) = Named(ex_frames[i].vector, name) BY <1>5 DEF Pushed
    <3> QED BY <1>2, <1>5, <2>2, <3>1, <3>2, StackTypes
  <2>6. p[n] = Named(ex_frames[n].vector, name) - Named(ex_call.vector, name)
    BY <1>1, <1>2, <1>5, <1>6, <2>2, StackTypes DEF Pushed
  <2>7. Pushed(n, name)' = Named(ex_frames[n].vector, name) - Named(ex_call'.vector, name)
    BY <1>1, <1>5, <1>12 DEF Pushed
  <2>8. Pushed(n, name)' = p[n] + (IF x = name THEN 1 ELSE 0) BY <2>4, <2>6, <2>7
  <2>9. Counts(name)' = [i \in 1 .. n |-> Pushed(i, name)'] BY <1>15 DEF Counts
  <2>10. /\ Piled(ex_lists[name], n, Records, h, p, 0) /\ h[n] + p[n] = Len(ex_lists[name])
         /\ ~ex_skipped => Covered(ex_lists[name], n, h, p, 0)
    BY <1>1, <1>5, <2>1, <2>2, <2>3 DEF Stacked
  <2>11. CASE name # x
    <3>1. Counts(name)' = p
      <4>1. p[n] \in Nat BY <1>6
      <4>2. \A i \in 1 .. n : Pushed(i, name)' = p[i] BY <2>5, <2>8, <2>11, <4>1
      <4> QED BY <2>9, <4>2
    <3>2. ex_lists'[name] = ex_lists[name] BY <1>10, <2>11
    <3> QED BY <1>1, <1>5, <1>15, <2>1, <2>2, <2>3, <2>10, <3>1, <3>2 DEF Stacked
  <2>12. CASE name = x
    <3>1. PICK s \in [1 .. n -> Nat] : s = Counts(name)' /\ s[n] = p[n] + 1 /\ \A i \in 1 .. n : i # n => s[i] = p[i]
      <4>1. p[n] \in Nat BY <1>6
      <4>2. Pushed(n, name)' = p[n] + 1 BY <2>8, <2>12
      <4>3. ASSUME NEW i \in 1 .. n PROVE Pushed(i, name)' \in Nat
        <5>1. CASE i = n BY <4>1, <4>2, <5>1
        <5>2. CASE i # n BY <2>5, <5>2
        <5> QED BY <5>1, <5>2
      <4> QED BY <1>6, <2>5, <2>9, <4>2, <4>3
    <3>2. PICK rec \in [1 .. n -> EXRecords] : rec = Records /\ rec[n] = r
      BY <1>2, <1>5, <1>6, <1>7, StackTypes
    <3>3. \A i \in 1 .. n : i # n => rec[i] # rec[n]
      <4> SUFFICES ASSUME NEW i \in 1 .. n, i # n PROVE rec[i] # rec[n] OBVIOUS
      <4>1. i < n BY <1>6
      <4> QED BY <1>2, <1>5, <1>6, <3>2, <4>1, RecordsApart, StackTypes
    <3>4. Piled(list, n, rec, h, p, 0) /\ h[n] + p[n] = Len(list) BY <1>8, <2>10, <2>12, <3>2
    <3>5. /\ Piled(Append(list, rec[n]), n, rec, h, s, 0) /\ h[n] + s[n] = Len(Append(list, rec[n]))
          /\ Covered(list, n, h, p, 0) => Covered(Append(list, rec[n]), n, h, s, 0)
      <4>1. n >= 1 BY <1>6
      <4>2. s[n] = p[n] + 1 /\ \A i \in 1 .. n : i # n => s[i] = p[i] /\ rec[i] # rec[n] BY <3>1, <3>3
      <4>3. /\ n \in Nat /\ list \in Seq(EXRecords) /\ rec \in [1 .. n -> EXRecords]
            /\ h \in [1 .. n -> Nat] /\ p \in [1 .. n -> Nat] /\ s \in [1 .. n -> Nat]
        OBVIOUS
      <4> QED BY ONLY <3>4, <4>1, <4>2, <4>3, PiledPush
    <3>6. ex_lists'[name] = Append(list, rec[n]) /\ ex_lists[name] = list BY <1>8, <1>9, <1>10, <2>12, <3>2
    <3> QED BY <1>1, <1>5, <1>15, <2>1, <2>3, <2>10, <3>1, <3>2, <3>5, <3>6 DEF Stacked
  <2> QED BY <2>11, <2>12
<1> QED BY <1>13, <1>14, <1>16 DEF EX_Inv

LEMMA EX_ReturnStep == ASSUME EX_Inv, EX_Return PROVE EX_Inv'
<1>1. /\ ex_call # EX_NoCall /\ ex_call.vector = <<>> /\ ex_call' = EX_NoCall
      /\ UNCHANGED <<ex_lists, ex_refs, ex_frames, ex_skipped>>
  BY DEF EX_Return
<1>2. EX_TypeOK /\ RefsCounted BY DEF EX_Inv
<1>3. ex_call'.op = "none" /\ ex_call'.vector = <<>> /\ ex_call'.record = 0 BY <1>1 DEF EX_NoCall
<1>4. EX_TypeOK' BY <1>1, <1>2, <1>3 DEF EX_TypeOK, EX_NoCall
<1>5. RefsCounted' BY <1>1, <1>2, UsesSame
<1>6. \A name : Named(ex_call.vector, name) = 0 BY <1>1, <1>2, NamedNat DEF EX_TypeOK
<1>7. ASSUME NEW name \in EXNames PROVE \E h \in [1 .. Len(ex_frames') -> Nat] : Stacked(h, name)'
  <2>1. PICK h \in [1 .. Len(ex_frames) -> Nat] : Stacked(h, name) BY DEF EX_Inv
  <2>2. \A i \in 1 .. Len(ex_frames) : Pushed(i, name)' = Pushed(i, name)
    <3> SUFFICES ASSUME NEW i \in 1 .. Len(ex_frames) PROVE Pushed(i, name)' = Pushed(i, name) OBVIOUS
    <3>1. Named(ex_frames[i].vector, name) \in Nat BY <1>2, FrameType
    <3> QED BY <1>1, <1>3, <1>6, <3>1 DEF Pushed
  <2>3. ToPop(name)' = 0 /\ ToPop(name) = 0 BY <1>3, <1>6 DEF ToPop
  <2>4. Counts(name)' = Counts(name) /\ Records' = Records BY <1>1, <2>2 DEF Counts, Records
  <2>5. Stacked(h, name)' BY <1>1, <1>3, <2>1, <2>3, <2>4 DEF Stacked
  <2> QED BY <1>1, <2>1, <2>5
<1> QED BY <1>4, <1>5, <1>7 DEF EX_Inv
-----------------------------------------------------------------------------
LEMMA EX_CatchStep == ASSUME EX_Inv, EX_Catch PROVE EX_Inv'
<1>1. PICK vector \in EXVectors, r \in EXRecords :
        /\ ex_refs[r] = 0
        /\ ex_call' = [op |-> "catch", record |-> r, vector |-> vector]
        /\ ex_frames' = Append(ex_frames, [record |-> r, vector |-> vector])
  BY DEF EX_Catch
<1>2. ex_call.op = "none" /\ UNCHANGED <<ex_lists, ex_refs, ex_skipped>>
  BY DEF EX_Catch, EX_Idle, EX_NoCall
<1>3. EX_TypeOK /\ RefsCounted BY DEF EX_Inv
<1>4. vector \in Seq(EXNames) BY ExceptionAssumption
<1>5. PICK n \in Nat : n = Len(ex_frames) BY <1>3, CallType
<1>6. /\ ex_frames' \in Seq(Frames) /\ Len(ex_frames') = n + 1 /\ ex_frames' # <<>>
      /\ ex_frames'[n + 1] = [record |-> r, vector |-> vector]
      /\ \A i \in 1 .. n : ex_frames'[i] = ex_frames[i]
  <2>1. [record |-> r, vector |-> vector] \in Frames BY DEF Frames
  <2>2. ex_frames \in Seq(Frames) BY <1>3 DEF EX_TypeOK
  <2> QED BY <1>1, <1>5, <2>1, <2>2
<1>7. ex_call'.op = "catch" /\ ex_call'.record = r /\ ex_call'.vector = vector BY <1>1
<1>8. EX_TypeOK'
  <2>1. ex_call'.record = ex_frames'[Len(ex_frames')].record BY <1>6, <1>7
  <2> QED BY <1>1, <1>2, <1>3, <1>4, <1>6, <1>7, <2>1 DEF EX_TypeOK
<1>9. RefsCounted' BY <1>2, <1>3, UsesSame
<1>10. \A name \in EXNames : Places(ex_lists[name], r) = {}
  <2>1. IsFiniteSet(Uses(r)) /\ Cardinality(Uses(r)) = 0 BY <1>1, <1>3 DEF RefsCounted
  <2>2. Uses(r) = {} BY <2>1, FS_EmptySet
  <2> SUFFICES ASSUME NEW name \in EXNames, NEW m \in Places(ex_lists[name], r) PROVE FALSE OBVIOUS
  <2>3. <<name, m>> \in Uses(r) BY DEF Uses
  <2> QED BY <2>2, <2>3
<1>11. 1 .. n + 1 = (1 .. n) \cup {n + 1} /\ \A i \in 1 .. n : i # n + 1 OBVIOUS
<1>12. /\ \A i \in 1 .. n : Records'[i] = Records[i] /\ Records[i] \in EXRecords
       /\ Records' \in [1 .. n + 1 -> EXRecords] /\ Records'[n + 1] = r
  <2>1. Records' = [i \in 1 .. n + 1 |-> ex_frames'[i].record] BY <1>6 DEF Records
  <2>2. \A i \in 1 .. n : Records[i] = ex_frames[i].record /\ Records[i] \in EXRecords BY <1>3, <1>5, StackTypes
  <2>3. ex_frames'[n + 1].record = r BY <1>6
  <2>4. \A i \in 1 .. n : ex_frames'[i].record = Records[i] BY <1>6, <2>2
  <2>5. \A i \in 1 .. n + 1 : ex_frames'[i].record \in EXRecords BY <1>11, <2>2, <2>3, <2>4
  <2> QED BY <1>11, <2>1, <2>2, <2>3, <2>4, <2>5
<1>13. ASSUME NEW name \in EXNames PROVE \E h \in [1 .. Len(ex_frames') -> Nat] : Stacked(h, name)'
  <2>1. PICK h \in [1 .. n -> Nat] : Stacked(h, name) BY <1>5 DEF EX_Inv
  <2>2. PICK p \in [1 .. n -> Nat] : p = Counts(name) BY <1>5, <2>1 DEF Stacked
  <2>3. PICK list \in Seq(EXRecords) : list = ex_lists[name] /\ list = ex_lists'[name]
    BY <1>2, <1>3 DEF EX_TypeOK
  <2>4. ToPop(name)' = 0 /\ ToPop(name) = 0 BY <1>2, <1>7 DEF ToPop
  <2>5. PICK rec \in [1 .. n -> EXRecords] : rec = Records BY <1>3, <1>5, StackTypes
  <2>6. PICK rec2 \in [1 .. n + 1 -> EXRecords] : rec2 = Records' BY <1>12
  <2>7. PICK h2 \in [1 .. n + 1 -> Nat] : h2[n + 1] = Len(list) /\ \A i \in 1 .. n : h2[i] = h[i]
    <3> DEFINE g == [i \in 1 .. n + 1 |-> IF i = n + 1 THEN Len(list) ELSE h[i]]
    <3>1. g \in [1 .. n + 1 -> Nat] BY <1>11
    <3>2. g[n + 1] = Len(list) /\ \A i \in 1 .. n : g[i] = h[i] BY <1>11
    <3> HIDE DEF g
    <3> QED BY <3>1, <3>2
  <2>8. PICK p2 \in [1 .. n + 1 -> Nat] : p2 = Counts(name)' /\ p2[n + 1] = 0 /\ \A i \in 1 .. n : p2[i] = p[i]
    <3>1. Counts(name)' = [i \in 1 .. n + 1 |-> Pushed(i, name)'] BY <1>6 DEF Counts
    <3>2. Named(vector, name) \in Nat BY <1>4, NamedNat
    <3>3. Pushed(n + 1, name)' = Named(vector, name) - Named(vector, name) BY <1>6, <1>7 DEF Pushed
    <3>4. Pushed(n + 1, name)' = 0 BY <3>2, <3>3
    <3>5. \A i \in 1 .. n : Pushed(i, name)' = p[i]
      <4> SUFFICES ASSUME NEW i \in 1 .. n PROVE Pushed(i, name)' = p[i] OBVIOUS
      <4>1. Pushed(i, name)' = Named(ex_frames[i].vector, name) BY <1>6, <1>11 DEF Pushed
      <4>2. Pushed(i, name) = Named(ex_frames[i].vector, name) BY <1>2 DEF Pushed
      <4> QED BY <1>3, <1>5, <2>2, <4>1, <4>2, StackTypes
    <3>6. ASSUME NEW i \in 1 .. n + 1 PROVE Pushed(i, name)' \in Nat
      <4>1. CASE i = n + 1 BY <3>4, <4>1
      <4>2. CASE i \in 1 .. n BY <3>5, <4>2
      <4> QED BY <1>11, <4>1, <4>2
    <3> QED BY <1>11, <3>1, <3>4, <3>5, <3>6
  <2>9. Piled(list, n, rec, h, p, 0) /\ (~ex_skipped => Covered(list, n, h, p, 0))
    BY <1>5, <2>1, <2>2, <2>3, <2>4, <2>5 DEF Stacked
  <2>10. Places(list, rec2[n + 1]) = {} BY <1>10, <1>12, <2>3, <2>6
  <2>11. SameUpTo(n, rec, rec2) /\ SameUpTo(n, h, h2) /\ SameUpTo(n, p, p2)
    BY <1>12, <2>5, <2>6, <2>7, <2>8 DEF SameUpTo
  <2>12. /\ Piled(list, n + 1, rec2, h2, p2, 0)
         /\ Covered(list, n, h, p, 0) => Covered(list, n + 1, h2, p2, 0)
    BY <2>7, <2>8, <2>9, <2>10, <2>11, PiledCatch
  <2>13. h2[n + 1] + p2[n + 1] = Len(list) BY <2>7, <2>8
  <2>14. Stacked(h2, name)'
    BY <1>2, <1>6, <2>3, <2>4, <2>6, <2>8, <2>9, <2>12, <2>13 DEF Stacked
  <2> QED BY <1>6, <2>14
<1> QED BY <1>8, <1>9, <1>13 DEF EX_Inv

LEMMA EX_UnCatchStep == ASSUME EX_Inv, EX_UnCatch PROVE EX_Inv'
<1>1. /\ ex_call.op = "none" /\ ex_frames # <<>> /\ UNCHANGED <<ex_lists, ex_refs, ex_skipped>>
      /\ ex_call' = [op |-> "uncatch", record |-> 0, vector |-> Last(ex_frames).vector]
      /\ ex_frames' = Front(ex_frames)
  BY DEF EX_UnCatch, EX_Idle, EX_NoCall
<1>2. EX_TypeOK /\ RefsCounted BY DEF EX_Inv
<1>3. PICK n \in Nat : n = Len(ex_frames) /\ n >= 1
  <2>1. ex_frames \in Seq(Frames) BY <1>2 DEF EX_TypeOK
  <2> QED BY <1>1, <2>1
<1>4. n \in 1 .. n /\ \A i \in 1 .. n - 1 : i \in 1 .. n /\ i # n BY <1>3
<1>5. /\ ex_frames' \in Seq(Frames) /\ Len(ex_frames') = n - 1
      /\ \A i \in 1 .. n - 1 : ex_frames'[i] = ex_frames[i]
  <2>1. ex_frames \in Seq(Frames) BY <1>2 DEF EX_TypeOK
  <2>2. ex_frames' = SubSeq(ex_frames, 1, n - 1) BY <1>1, <1>3 DEF Front
  <2> QED BY <1>3, <2>1, <2>2, SubSeqProperties
<1>6. /\ ex_call'.op = "uncatch" /\ ex_call'.vector = ex_frames[n].vector /\ ex_call'.record = 0
      /\ ex_frames[n].vector \in Seq(EXNames)
  BY <1>1, <1>2, <1>3, <1>4, FrameType DEF Last
<1>7. EX_TypeOK'
  <2>1. ex_call' = [op |-> ex_call'.op, record |-> ex_call'.record, vector |-> ex_call'.vector] BY <1>1
  <2> QED BY <1>1, <1>2, <1>5, <1>6, <2>1 DEF EX_TypeOK
<1>8. RefsCounted' BY <1>1, <1>2, UsesSame
<1>9. ASSUME NEW name \in EXNames PROVE \E h \in [1 .. Len(ex_frames') -> Nat] : Stacked(h, name)'
  <2>1. PICK h \in [1 .. n -> Nat] : Stacked(h, name) BY <1>3 DEF EX_Inv
  <2>2. PICK p \in [1 .. n -> Nat] : p = Counts(name) BY <1>3, <2>1 DEF Stacked
  <2>3. PICK list \in Seq(EXRecords) : list = ex_lists[name] /\ list = ex_lists'[name]
    BY <1>1, <1>2 DEF EX_TypeOK
  <2>4. ToPop(name) = 0 BY <1>1 DEF ToPop
  <2>5. PICK rec \in [1 .. n -> EXRecords] : rec = Records BY <1>2, <1>3, StackTypes
  <2>6. PICK h2 \in [1 .. n - 1 -> Nat] : \A i \in 1 .. n - 1 : h2[i] = h[i]
    <3> DEFINE g == [i \in 1 .. n - 1 |-> h[i]]
    <3>1. g \in [1 .. n - 1 -> Nat] BY <1>4
    <3>2. \A i \in 1 .. n - 1 : g[i] = h[i] OBVIOUS
    <3> HIDE DEF g
    <3> QED BY <3>1, <3>2
  <2>7. ASSUME NEW i \in 1 .. n PROVE p[i] = Named(ex_frames[i].vector, name)
    <3>1. Pushed(i, name) = Named(ex_frames[i].vector, name) BY <1>1 DEF Pushed
    <3> QED BY <1>2, <1>3, <2>2, <3>1, StackTypes
  <2>8. PICK p2 \in [1 .. n - 1 -> Nat] : p2 = Counts(name)' /\ \A i \in 1 .. n - 1 : p2[i] = p[i]
    <3>1. Counts(name)' = [i \in 1 .. n - 1 |-> Pushed(i, name)'] BY <1>5 DEF Counts
    <3>2. \A i \in 1 .. n - 1 : Pushed(i, name)' = p[i]
      <4> SUFFICES ASSUME NEW i \in 1 .. n - 1 PROVE Pushed(i, name)' = p[i] OBVIOUS
      <4>1. Pushed(i, name)' = Named(ex_frames[i].vector, name) BY <1>5, <1>6 DEF Pushed
      <4> QED BY <1>4, <2>7, <4>1
    <3>3. \A i \in 1 .. n - 1 : Pushed(i, name)' \in Nat BY <1>4, <3>2
    <3> QED BY <3>1, <3>2, <3>3
  <2>9. PICK rec2 : rec2 = Records' /\ \A i \in 1 .. n - 1 : rec2[i] = rec[i]
    <3>1. Records' = [i \in 1 .. n - 1 |-> ex_frames'[i].record] BY <1>5 DEF Records
    <3>2. \A i \in 1 .. n - 1 : rec[i] = ex_frames[i].record BY <1>2, <1>3, <1>4, <2>5, StackTypes
    <3>3. \A i \in 1 .. n - 1 : Records'[i] = rec[i] BY <1>5, <3>1, <3>2
    <3> QED BY <3>3
  <2>10. ToPop(name)' = p[n] BY <1>4, <1>6, <2>7 DEF ToPop
  <2>11. Piled(list, n, rec, h, p, 0) /\ (~ex_skipped => Covered(list, n, h, p, 0))
    BY <1>3, <2>1, <2>2, <2>3, <2>4, <2>5 DEF Stacked
  <2>12. \A i \in 1 .. n - 1 : rec2[i] = rec[i] /\ h2[i] = h[i] /\ p2[i] = p[i] BY <2>6, <2>8, <2>9
  <2>13. /\ Piled(list, n - 1, rec2, h2, p2, p[n])
         /\ Covered(list, n, h, p, 0) => Covered(list, n - 1, h2, p2, p[n])
    BY <1>3, <2>11, <2>12, PiledUnCatch
  <2>14. Stacked(h2, name)'
    BY <1>1, <1>5, <1>6, <2>3, <2>8, <2>9, <2>10, <2>11, <2>13 DEF Stacked
  <2> QED BY <1>5, <2>14
<1> QED BY <1>7, <1>8, <1>9 DEF EX_Inv

LEMMA EX_PopStep == ASSUME EX_Inv, EX_Pop PROVE EX_Inv'
<1>1. /\ ex_call.op = "uncatch" /\ ex_call.vector # <<>> /\ UNCHANGED <<ex_frames, ex_skipped>>
      /\ ex_lists[Head(ex_call.vector)] # <<>> =>
           /\ ex_lists' = [ex_lists EXCEPT ![Head(ex_call.vector)] = Front(@)]
           /\ ex_refs' = [ex_refs EXCEPT ![Last(ex_lists[Head(ex_call.vector)])] = @ - 1]
           /\ ex_call' = [ex_call EXCEPT !.vector = Tail(@)]
  BY DEF EX_Pop
<1>2. EX_TypeOK /\ RefsCounted BY DEF EX_Inv
<1>3. ex_call.vector \in Seq(EXNames) /\ Tail(ex_call.vector) \in Seq(EXNames)
  BY <1>1, <1>2 DEF EX_TypeOK
<1>4. PICK x \in EXNames : x = Head(ex_call.vector) BY <1>1, <1>3
<1>5. PICK n \in Nat : n = Len(ex_frames) BY <1>2, CallType
<1>6. PICK list \in Seq(EXRecords) : list = ex_lists[x] BY <1>2 DEF EX_TypeOK
<1>7. PICK rec \in [1 .. n -> EXRecords] : rec = Records BY <1>2, <1>5, StackTypes
<1>8. \A name \in EXNames : /\ ToPop(name) = Named(ex_call.vector, name) /\ ToPop(name) \in Nat
                            /\ name = x => ToPop(name) >= 1
  <2> SUFFICES ASSUME NEW name \in EXNames
               PROVE /\ ToPop(name) = Named(ex_call.vector, name) /\ ToPop(name) \in Nat
                     /\ name = x => ToPop(name) >= 1
    OBVIOUS
  <2>1. ToPop(name) = Named(ex_call.vector, name) /\ ToPop(name) \in Nat BY <1>1, <1>2, CallType DEF ToPop
  <2>2. ASSUME name = x PROVE Named(ex_call.vector, name) # 0
    <3>1. 1 \in DOMAIN ex_call.vector /\ ex_call.vector[1] = name BY <1>1, <1>3, <1>4, <2>2
    <3> QED BY <1>3, <3>1, NamedNat
  <2> QED BY <2>1, <2>2
<1>9. list # <<>>
  <2>1. PICK h \in [1 .. n -> Nat] : Stacked(h, x) BY <1>5 DEF EX_Inv
  <2>2. ToPop(x) <= Len(list) BY <1>6, <2>1 DEF Stacked, Piled
  <2>3. ToPop(x) \in Nat /\ ToPop(x) >= 1 BY <1>8
  <2> QED BY <2>2, <2>3
<1>10. PICK r \in EXRecords : r = Last(list) BY <1>9, PlacesPopped
<1>11. PICK l \in Seq(EXRecords) : l = Front(list)
  <2>1. Front(list) \in Seq(EXRecords) BY <1>9, <1>10, PlacesPopped
  <2> QED BY <2>1
<1>12. /\ ex_lists' = [ex_lists EXCEPT ![x] = l] /\ ex_lists' \in [EXNames -> Seq(EXRecords)]
       /\ ex_lists'[x] = l /\ \A name \in EXNames : name # x => ex_lists'[name] = ex_lists[name]
  <2>1. ex_lists' = [ex_lists EXCEPT ![x] = l] BY <1>1, <1>4, <1>6, <1>9, <1>11
  <2>2. ex_lists \in [EXNames -> Seq(EXRecords)] BY <1>2 DEF EX_TypeOK
  <2> QED BY <2>1, <2>2
<1>13. /\ ex_call'.op = "uncatch" /\ ex_call'.vector = Tail(ex_call.vector)
       /\ ex_call' = [op |-> ex_call'.op, record |-> ex_call'.record, vector |-> ex_call'.vector]
  <2>1. ex_call' = [ex_call EXCEPT !.vector = Tail(@)] BY <1>1, <1>4, <1>6, <1>9
  <2> QED BY <1>1, <1>2, <2>1 DEF EX_TypeOK
<1>14. <<x, Len(list)>> \in Uses(r)
  <2>1. Len(list) \in Places(ex_lists[x], r) BY <1>6, <1>9, <1>10, PlacesPopped
  <2> QED BY <2>1 DEF Uses
<1>15. ex_refs[r] \in Nat /\ ex_refs[r] # 0
  <2>1. IsFiniteSet(Uses(r)) /\ ex_refs[r] = Cardinality(Uses(r)) BY <1>2 DEF RefsCounted
  <2>2. Cardinality(Uses(r)) # 0 BY <1>14, <2>1, FS_EmptySet
  <2> QED BY <1>2, <2>1, <2>2 DEF EX_TypeOK
<1>16. /\ ex_refs' \in [EXRecords -> Nat]
       /\ \A q \in EXRecords : q # r => ex_refs'[q] = ex_refs[q]
       /\ ex_refs'[r] = ex_refs[r] - 1
  <2>1. ex_refs' = [ex_refs EXCEPT ![r] = ex_refs[r] - 1] BY <1>1, <1>4, <1>6, <1>9, <1>10
  <2>2. ex_refs \in [EXRecords -> Nat] BY <1>2 DEF EX_TypeOK
  <2>3. ex_refs[r] - 1 \in Nat BY <1>15
  <2> QED BY <2>1, <2>2, <2>3
<1>17. EX_TypeOK' BY <1>1, <1>2, <1>3, <1>12, <1>13, <1>16 DEF EX_TypeOK
<1>18. RefsCounted'
  <2> SUFFICES ASSUME NEW q \in EXRecords PROVE (IsFiniteSet(Uses(q)) /\ ex_refs[q] = Cardinality(Uses(q)))'
    BY DEF RefsCounted
  <2>1. IsFiniteSet(Uses(q)) /\ ex_refs[q] = Cardinality(Uses(q)) BY <1>2 DEF RefsCounted
  <2>2. Places(l, q) = Places(list, q) \ {Len(list)} /\ (Len(list) \in Places(list, q) <=> q = r)
    BY <1>9, <1>10, <1>11, PlacesPopped
  <2>3. Uses(q)' = Uses(q) \ ({x} \X {Len(list)})
    <3>1. Places(ex_lists'[x], q) = Places(ex_lists[x], q) \ {Len(list)} BY <1>6, <1>12, <2>2
    <3>2. AlikeBut(x, ex_lists, ex_lists') BY <1>12 DEF AlikeBut
    <3>3. PICK D : D = {Len(list)} OBVIOUS
    <3>4. Places(ex_lists'[x], q) = Places(ex_lists[x], q) \ D BY <3>1, <3>3
    <3>5. \A u : u \in AllUses(ex_lists', q) <=> u \in AllUses(ex_lists, q) /\ u \notin Pairs(x, D)
      BY <3>2, <3>4, UsesMoved
    <3> QED BY <3>3, <3>5 DEF AllUses, Uses, Places, Pairs
  <2>4. Uses(q)' = Uses(q) \ {<<x, Len(list)>>} BY <2>3
  <2>5. CASE q = r
    <3>1. ex_refs'[q] = ex_refs[q] - 1 BY <1>16, <2>5
    <3>2. IsFiniteSet(Uses(q)') /\ Cardinality(Uses(q)') = Cardinality(Uses(q)) - 1
      <4>1. \A S, u : IsFiniteSet(S) /\ u \in S =>
              IsFiniteSet(S \ {u}) /\ Cardinality(S \ {u}) = Cardinality(S) - 1
        BY FS_RemoveElement
      <4>2. <<x, Len(list)>> \in Uses(q) BY <1>14, <2>5
      <4> QED BY ONLY <2>1, <2>4, <4>1, <4>2, Zenon
    <3> QED BY <2>1, <3>1, <3>2
  <2>6. CASE q # r
    <3>1. <<x, Len(list)>> \notin Uses(q)
      <4>1. Len(list) \notin Places(ex_lists[x], q) BY <1>6, <2>2, <2>6
      <4> QED BY <4>1 DEF Uses
    <3>2. Uses(q)' = Uses(q) BY <2>4, <3>1
    <3> QED BY <1>16, <2>1, <2>6, <3>2
  <2> QED BY <2>5, <2>6
<1>19. Records' = Records /\ Len(ex_frames') = n BY <1>1, <1>5 DEF Records
<1>20. ASSUME NEW name \in EXNames PROVE \E h \in [1 .. Len(ex_frames') -> Nat] : Stacked(h, name)'
  <2>1. PICK h \in [1 .. n -> Nat] : Stacked(h, name) BY <1>5 DEF EX_Inv
  <2>2. PICK p \in [1 .. n -> Nat] : p = Counts(name) BY <1>5, <2>1 DEF Stacked
  <2>3. Counts(name)' = p BY <1>1, <1>13, <2>2 DEF Counts, Pushed
  <2>4. PICK t \in Nat : t = ToPop(name) BY <1>8
  <2>5. ToPop(name)' = t - (IF x = name THEN 1 ELSE 0)
    <3>1. ToPop(name)' = Named(ex_call'.vector, name) BY <1>13 DEF ToPop
    <3>2. Named(Tail(ex_call.vector), name) = Named(ex_call.vector, name) - (IF x = name THEN 1 ELSE 0)
      BY <1>1, <1>3, <1>4, NamedTail
    <3> QED BY <1>8, <1>13, <2>4, <3>1, <3>2
  <2>6. /\ Piled(ex_lists[name], n, rec, h, p, t)
        /\ ~ex_skipped => Covered(ex_lists[name], n, h, p, t)
    BY <1>5, <1>7, <2>1, <2>2, <2>4 DEF Stacked
  <2>7. CASE name # x
    <3>1. ex_lists'[name] = ex_lists[name] /\ ToPop(name)' = t
      <4>1. ToPop(name)' = t - 0 BY <2>5, <2>7
      <4> QED BY <1>12, <2>7, <4>1
    <3> QED BY <1>1, <1>7, <1>13, <1>19, <2>3, <2>6, <3>1 DEF Stacked
  <2>8. CASE name = x
    <3>1. t >= 1 /\ ToPop(name)' = t - 1 BY <1>8, <2>4, <2>5, <2>8
    <3>2. Piled(list, n, rec, h, p, t) BY <1>6, <2>6, <2>8
    <3>3. /\ Piled(Front(list), n, rec, h, p, t - 1)
          /\ Covered(list, n, h, p, t) => Covered(Front(list), n, h, p, t - 1)
      BY <3>1, <3>2, PiledPop
    <3>4. ex_lists'[name] = Front(list) /\ ex_lists[name] = list BY <1>6, <1>11, <1>12, <2>8
    <3> QED BY <1>1, <1>7, <1>13, <1>19, <2>3, <2>6, <3>1, <3>3, <3>4 DEF Stacked
  <2> QED BY <2>7, <2>8
<1> QED BY <1>17, <1>18, <1>20 DEF EX_Inv

LEMMA EX_RaiseStep == ASSUME EX_Inv, EX_Raise PROVE EX_Inv'
<1>1. EX_Idle /\ UNCHANGED <<ex_lists, ex_refs, ex_call>> BY DEF EX_Raise
<1>2. ex_call.op = "none" /\ ex_call'.op = "none" BY <1>1 DEF EX_Idle, EX_NoCall
<1>3. EX_TypeOK /\ RefsCounted BY DEF EX_Inv
<1>4. PICK n \in Nat : n = Len(ex_frames) BY <1>3, CallType
<1>5. CASE UNCHANGED <<ex_frames, ex_skipped>>
  <2>1. EX_TypeOK' BY <1>1, <1>3, <1>5 DEF EX_TypeOK
  <2>2. RefsCounted' BY <1>1, <1>3, UsesSame
  <2>3. ASSUME NEW name \in EXNames PROVE \E h \in [1 .. Len(ex_frames') -> Nat] : Stacked(h, name)'
    <3>1. PICK h \in [1 .. n -> Nat] : Stacked(h, name) BY <1>4 DEF EX_Inv
    <3>2. Stacked(h, name)' BY <1>1, <1>5, <3>1 DEF Stacked, Counts, Pushed, Records, ToPop
    <3> QED BY <1>4, <1>5, <3>2
  <2> QED BY <2>1, <2>2, <2>3 DEF EX_Inv
<1>6. ASSUME NEW k \in 1 .. n, ex_frames' = SubSeq(ex_frames, 1, k),
             ex_skipped' = (ex_skipped \/ k < Len(ex_frames))
      PROVE EX_Inv'
  <2>1. /\ ex_frames' \in Seq(Frames) /\ Len(ex_frames') = k
        /\ \A i \in 1 .. k : ex_frames'[i] = ex_frames[i]
    <3>1. ex_frames \in Seq(Frames) BY <1>3 DEF EX_TypeOK
    <3> QED BY <1>4, <1>6, <3>1, SubSeqProperties
  <2>2. \A i \in 1 .. k : i \in 1 .. n OBVIOUS
  <2>3. EX_TypeOK' BY <1>1, <1>2, <1>3, <1>6, <2>1 DEF EX_TypeOK
  <2>4. RefsCounted' BY <1>1, <1>3, UsesSame
  <2>5. ASSUME NEW name \in EXNames PROVE \E h \in [1 .. Len(ex_frames') -> Nat] : Stacked(h, name)'
    <3>1. PICK h \in [1 .. n -> Nat] : Stacked(h, name) BY <1>4 DEF EX_Inv
    <3>2. PICK p \in [1 .. n -> Nat] : p = Counts(name) BY <1>4, <3>1 DEF Stacked
    <3>3. PICK list : list = ex_lists[name] /\ list = ex_lists'[name] BY <1>1
    <3>4. ToPop(name) = 0 /\ ToPop(name)' = 0 BY <1>2 DEF ToPop
    <3>5. PICK rec \in [1 .. n -> EXRecords] : rec = Records BY <1>3, <1>4, StackTypes
    <3>6. PICK h2 \in [1 .. k -> Nat] : \A i \in 1 .. k : h2[i] = h[i]
      <4> DEFINE g == [i \in 1 .. k |-> h[i]]
      <4>1. g \in [1 .. k -> Nat] BY <2>2
      <4>2. \A i \in 1 .. k : g[i] = h[i] OBVIOUS
      <4> HIDE DEF g
      <4> QED BY <4>1, <4>2
    <3>7. PICK p2 \in [1 .. k -> Nat] : p2 = Counts(name)' /\ \A i \in 1 .. k : p2[i] = p[i]
      <4>1. Counts(name)' = [i \in 1 .. k |-> Pushed(i, name)'] BY <2>1 DEF Counts
      <4>2. \A i \in 1 .. k : Pushed(i, name)' = p[i]
        <5> SUFFICES ASSUME NEW i \in 1 .. k PROVE Pushed(i, name)' = p[i] OBVIOUS
        <5>1. Pushed(i, name)' = Named(ex_frames[i].vector, name) BY <1>2, <2>1 DEF Pushed
        <5>2. Pushed(i, name) = Named(ex_frames[i].vector, name) BY <1>2 DEF Pushed
        <5> QED BY <1>3, <1>4, <2>2, <3>2, <5>1, <5>2, StackTypes
      <4>3. \A i \in 1 .. k : Pushed(i, name)' \in Nat BY <2>2, <4>2
      <4> QED BY <4>1, <4>2, <4>3
    <3>8. PICK rec2 : rec2 = Records' /\ \A i \in 1 .. k : rec2[i] = rec[i]
      <4>1. Records' = [i \in 1 .. k |-> ex_frames'[i].record] BY <2>1 DEF Records
      <4>2. \A i \in 1 .. k : rec[i] = ex_frames[i].record BY <1>3, <1>4, <2>2, <3>5, StackTypes
      <4>3. \A i \in 1 .. k : Records'[i] = rec[i] BY <2>1, <4>1, <4>2
      <4> QED BY <4>3
    <3>9. Piled(list, n, rec, h, p, 0) /\ (~ex_skipped => Covered(list, n, h, p, 0))
      BY <1>4, <3>1, <3>2, <3>3, <3>4, <3>5 DEF Stacked
    <3>10. SameUpTo(k, rec, rec2) /\ SameUpTo(k, h, h2) /\ SameUpTo(k, p, p2)
      BY <3>6, <3>7, <3>8 DEF SameUpTo
    <3>11. /\ Piled(list, k, rec2, h2, p2, 0)
           /\ k = n => (Covered(list, n, h, p, 0) => Covered(list, k, h2, p2, 0))
      BY <3>9, <3>10, PiledRaise
    <3>12. ASSUME ~ex_skipped' PROVE ~ex_skipped /\ k = n
      <4>1. ~(ex_skipped \/ k < Len(ex_frames)) BY ONLY <1>6, <3>12, Zenon
      <4>2. ~ex_skipped /\ ~(k < Len(ex_frames)) BY ONLY <4>1, Zenon
      <4> QED BY <1>4, <4>2
    <3>13. Stacked(h2, name)'
      BY <1>2, <2>1, <3>3, <3>4, <3>7, <3>8, <3>9, <3>11, <3>12 DEF Stacked
    <3> QED BY <2>1, <3>13
  <2> QED BY <2>3, <2>4, <2>5 DEF EX_Inv
<1>7. UNCHANGED <<ex_frames, ex_skipped>> \/
      \E k \in 1 .. n : /\ ex_frames' = SubSeq(ex_frames, 1, k)
                        /\ ex_skipped' = (ex_skipped \/ k < Len(ex_frames))
  <2>1. PICK name \in EXNames :
          LET target == {i \in DOMAIN ex_frames : ex_frames[i].record = Last(ex_lists[name])} IN
          IF target = {}
          THEN ex_end' = "undefined" /\ UNCHANGED <<ex_frames, ex_skipped>>
          ELSE LET i == CHOOSE i \in target : TRUE IN
               /\ ex_frames' = SubSeq(ex_frames, 1, i)
               /\ ex_skipped' = (ex_skipped \/ i < Len(ex_frames))
               /\ UNCHANGED ex_end
    BY DEF EX_Raise
  <2> DEFINE target == {i \in DOMAIN ex_frames : ex_frames[i].record = Last(ex_lists[name])}
             i == CHOOSE i \in target : TRUE
  <2>2. CASE target = {} BY <2>1, <2>2
  <2>3. CASE target # {}
    <3>1. i \in target BY <2>3
    <3>2. DOMAIN ex_frames = 1 .. n BY <1>3, <1>4 DEF EX_TypeOK
    <3>3. i \in 1 .. n BY <3>1, <3>2
    <3>4. ex_frames' = SubSeq(ex_frames, 1, i) /\ ex_skipped' = (ex_skipped \/ i < Len(ex_frames))
      BY <2>1, <2>3
    <3> HIDE DEF i
    <3> QED BY <3>3, <3>4
  <2> QED BY <2>2, <2>3
<1> QED BY <1>5, <1>6, <1>7

LEMMA EX_InvStays == EX_Inv /\ [EX_Next]_ex_vars => EX_Inv'
<1> SUFFICES ASSUME EX_Inv, [EX_Next]_ex_vars PROVE EX_Inv' OBVIOUS
<1>1. CASE UNCHANGED ex_vars
  <2>1. UNCHANGED <<ex_lists, ex_refs, ex_frames, ex_call, ex_skipped>> BY <1>1 DEF ex_vars
  <2>2. EX_TypeOK /\ RefsCounted BY DEF EX_Inv
  <2>3. EX_TypeOK' BY <2>1, <2>2 DEF EX_TypeOK
  <2>4. RefsCounted' BY <2>1, <2>2, UsesSame
  <2>5. ASSUME NEW name \in EXNames PROVE \E h \in [1 .. Len(ex_frames') -> Nat] : Stacked(h, name)'
    <3>1. PICK h \in [1 .. Len(ex_frames) -> Nat] : Stacked(h, name) BY DEF EX_Inv
    <3>2. Stacked(h, name)' BY <2>1, <3>1 DEF Stacked, Counts, Pushed, Records, ToPop
    <3> QED BY <2>1, <3>2
  <2> QED BY <2>3, <2>4, <2>5 DEF EX_Inv
<1> QED BY <1>1, EX_CatchStep, EX_PushStep, EX_UnCatchStep, EX_PopStep, EX_ReturnStep, EX_RaiseStep
        DEF EX_Next

LEMMA EX_InvFinds == EX_Inv => EX_RaiseFindsFrame
<1> SUFFICES ASSUME EX_Inv PROVE EX_RaiseFindsFrame OBVIOUS
<1>1. EX_TypeOK BY DEF EX_Inv
<1>2. \A r \in EXRecords : ex_refs[r] = Cardinality(Uses(r)) BY DEF EX_Inv, RefsCounted
<1>3. ASSUME EX_Idle, NEW name \in EXNames
      PROVE /\ \A i \in Catching(name) : HeldAt(i, name) # {}
            /\ \A i, j \in Catching(name) : i < j =>
                 \A m \in HeldAt(i, name), n \in HeldAt(j, name) : m < n
            /\ ~ex_skipped => \A m \in DOMAIN ex_lists[name] :
                 \E i \in Catching(name) : m \in HeldAt(i, name)
  <2>1. ex_call.op = "none" BY <1>3 DEF EX_Idle, EX_NoCall
  <2>2. PICK n \in Nat : n = Len(ex_frames) /\ DOMAIN ex_frames = 1 .. n BY <1>1, CallType DEF EX_TypeOK
  <2>3. PICK list \in Seq(EXRecords) : list = ex_lists[name] BY <1>1 DEF EX_TypeOK
  <2>4. PICK h \in [1 .. n -> Nat] : Stacked(h, name) BY <2>2 DEF EX_Inv
  <2>5. PICK p \in [1 .. n -> Nat] : p = Counts(name) BY <2>2, <2>4 DEF Stacked
  <2>6. ToPop(name) = 0 BY <2>1 DEF ToPop
  <2>7. ASSUME NEW i \in 1 .. n
        PROVE /\ h[i] \in Nat /\ p[i] \in Nat /\ HeldAt(i, name) = h[i] + 1 .. h[i] + p[i]
              /\ i \in Catching(name) <=> p[i] # 0
    <3>1. Pushed(i, name) = Named(ex_frames[i].vector, name) BY <2>1 DEF Pushed
    <3>2. p[i] = Named(ex_frames[i].vector, name) BY <1>1, <2>2, <2>5, <3>1, StackTypes
    <3>3. Records[i] = ex_frames[i].record BY <1>1, <2>2, StackTypes
    <3>4. HeldAt(i, name) = h[i] + 1 .. h[i] + p[i]
      BY <2>2, <2>4, <2>5, <3>3 DEF Stacked, Piled, HeldAt
    <3>5. ex_frames[i].vector \in Seq(EXNames) BY <1>1, <2>2, FrameType
    <3>6. i \in Catching(name) <=> \E k \in DOMAIN ex_frames[i].vector : ex_frames[i].vector[k] = name
      BY <2>2 DEF Catching
    <3>7. Named(ex_frames[i].vector, name) = 0 <=> \A k \in DOMAIN ex_frames[i].vector : ex_frames[i].vector[k] # name
      BY <3>5, NamedNat
    <3> QED BY <3>2, <3>4, <3>6, <3>7
  <2>8. Catching(name) \subseteq 1 .. n BY <2>2 DEF Catching
  <2>9. ASSUME NEW i \in Catching(name) PROVE HeldAt(i, name) # {}
    <3>1. i \in 1 .. n /\ p[i] # 0 BY <2>7, <2>8
    <3>2. h[i] + 1 \in h[i] + 1 .. h[i] + p[i] BY <2>7, <3>1
    <3> QED BY <2>7, <3>1, <3>2
  <2>10. ASSUME NEW i \in Catching(name), NEW j \in Catching(name), i < j,
                NEW m \in HeldAt(i, name), NEW l \in HeldAt(j, name)
         PROVE m < l
    <3>1. i \in 1 .. n /\ j \in 1 .. n BY <2>8
    <3>2. h[i] + p[i] <= h[j] BY <2>2, <2>4, <2>5, <2>10, <3>1 DEF Stacked, Piled
    <3>3. m \in h[i] + 1 .. h[i] + p[i] /\ l \in h[j] + 1 .. h[j] + p[j] BY <2>7, <3>1
    <3>4. h[i] \in Nat /\ p[i] \in Nat /\ h[j] \in Nat BY <2>7, <3>1
    <3> QED BY <3>2, <3>3, <3>4, SMTT(30)
  <2>11. ASSUME ~ex_skipped, NEW m \in DOMAIN ex_lists[name]
         PROVE \E i \in Catching(name) : m \in HeldAt(i, name)
    <3>1. m \in 1 .. Len(list) /\ ~(m > Len(list) - 0) BY <2>3
    <3>2. Covered(list, n, h, p, 0) BY <2>2, <2>3, <2>4, <2>5, <2>6, <2>11 DEF Stacked
    <3>3. PICK i \in 1 .. n : m \in h[i] + 1 .. h[i] + p[i] BY <3>1, <3>2 DEF Covered
    <3>4. p[i] # 0 /\ m \in HeldAt(i, name) BY <2>7, <3>3
    <3> QED BY <2>7, <3>4
  <2> QED BY <2>9, <2>10, <2>11
<1> QED BY <1>2, <1>3 DEF EX_RaiseFindsFrame

(* However many functions catch however many names, and however raises and *)
(* returns follow each other: a record is freed with its last place on a   *)
(* stack, every function that catches a name has its record there above    *)
(* those of its callers, and if no raise jumped over a function that       *)
(* catches, the stack has no other record, so the record on top, to which  *)
(* jr_ExceptionRaise jumps, is that of the innermost function.             *)
THEOREM RaiseFindsFrame == EX_Spec => []EX_RaiseFindsFrame
<1>1. EX_Spec => []EX_Inv BY EX_InitInv, EX_InvStays, PTL DEF EX_Spec
<1> QED BY <1>1, EX_InvFinds, PTL

-----------------------------------------------------------------------------
(* The diagnosis of memory. While a thread records, the table is behind:   *)
(* what is still to be recorded, in order, leads from what it says to what *)
(* is true. An item is recorded from the front of that order, and each     *)
(* array of the table that moves adds two notes at its end.                *)

(* The constants of the code, 64, 8 and 8 + 1, are large enough for this.  *)
RoomForNotes == MD_MaxBookkeeping >= 5 /\ MD_FirstRoom >= 6 /\ MD_FirstBuckets >= 7

(* Who has a pointer of a client: the client, or a call of his.            *)
Calling(t, p) == md_call[t] # NoMemCall /\ md_call[t].ptr = p
Recording(t) == md_call[t].step \in {"record malloc", "record free"}

OwnBlocks == md_own.rows \cup md_own.buckets

(* Pointers of which the table has heard or is hearing.                    *)
Known(p) ==
  \/ p \in DOMAIN md_live
  \/ \E t \in MD_Threads : Calling(t, p) /\ (md_call[t].step = "record malloc" => t = md_lock)

(* What the table holds as allocated when all that is noted is recorded.   *)
WantedOfClients ==
  {p \in Pointers \ md_stale :
     \/ p \in DOMAIN md_live
     \/ \E t \in MD_Threads :
          /\ Calling(t, p)
          /\ \/ md_call[t].step = "measure"
             \/ (md_call[t].step = "record malloc" /\ t = md_lock)
             \/ (md_call[t].step = "record free" /\ t # md_lock)}
Wanted == WantedOfClients \cup {p \in Pointers : p.marked /\ p.block \in OwnBlocks}

Base == [p \in Pointers |-> p \in DOMAIN md_table /\ md_table[p].malloced]

(* What is to be recorded, in order: what the call is for, as number 0,    *)
(* and what is noted in the array.                                         *)
NoteAt(n) ==
  IF n = 0 THEN [ptr |-> md_call[md_lock].ptr, malloced |-> md_call[md_lock].step = "record malloc"]
  ELSE md_array[n]

Todo ==
  {n \in 0 .. Len(md_array) :
     /\ n > md_first \/ (n = md_first /\ md_stage = "find")
     /\ n = 0 => NoteAt(0).ptr \notin md_stale}

ToRecord == [n \in Todo |-> NoteAt(n)]

(* The notes q lead from the pointers allocated in base to those of want:  *)
(* of a pointer the first one changes base, each one what the one before   *)
(* said, and the last says what is wanted.                                 *)
Leads(q, base, want) ==
  /\ \A n \in DOMAIN q :
       (\A k \in DOMAIN q : k < n => q[k].ptr # q[n].ptr) => (q[n].malloced <=> ~base[q[n].ptr])
  /\ \A m, n \in DOMAIN q :
       m < n /\ q[m].ptr = q[n].ptr
         /\ (\A k \in DOMAIN q : m < k /\ k < n => q[k].ptr # q[n].ptr) => (q[n].malloced <=> ~q[m].malloced)
  /\ \A n \in DOMAIN q :
       (\A k \in DOMAIN q : n < k => q[k].ptr # q[n].ptr) => (q[n].malloced <=> q[n].ptr \in want)
  /\ \A p \in Pointers : (\A k \in DOMAIN q : q[k].ptr # p) => (base[p] <=> p \in want)

MemCalls ==
  {NoMemCall} \cup [step : {"record malloc", "measure"}, ptr : Pointers]
    \cup [step : {"record free", "free", "realloc"}, ptr : Pointers, for : {"free", "realloc"}, size : Nat]

MD_TypeOK ==
  /\ md_tracing \in {"pointers", "calls"}
  /\ md_call \in [MD_Threads -> MemCalls]
  /\ md_live \in [DOMAIN md_live -> Nat] /\ DOMAIN md_live \subseteq Pointers
  /\ md_marker \in [DOMAIN md_marker -> Int]
  /\ md_lock \in MD_Threads \cup {Nobody}
  /\ md_stage \in {"none", "find", "buckets", "drain"}
  /\ md_table \in [DOMAIN md_table -> [malloced : BOOLEAN, bookkeeping : BOOLEAN, marked : BOOLEAN, size : Nat]]
  /\ DOMAIN md_table \subseteq Pointers
  /\ md_own \in [rows : SUBSET MD_Blocks, buckets : SUBSET MD_Blocks]
  /\ md_used \subseteq MD_Blocks
  /\ md_array \in Seq([ptr : Pointers, malloced : BOOLEAN])
  /\ md_first \in 0 .. Len(md_array)
  /\ md_stale \subseteq Pointers
  /\ md_room \in Nat /\ md_num_buckets \in Nat
  /\ md_calls \in Nat

(* The mutex is held by the call whose pointer is being recorded.          *)
Locked ==
  /\ md_lock = Nobody <=> md_stage = "none"
  /\ md_lock # Nobody => Recording(md_lock) /\ md_room > 0
  /\ md_stage = "none" => md_array = <<>> /\ md_first = 0
  /\ md_stage # "none" =>
       /\ md_item = [ptr |-> NoteAt(md_first).ptr, malloced |-> NoteAt(md_first).malloced,
                     bookkeeping |-> md_first # 0, marked |-> NoteAt(md_first).ptr.marked]
  /\ md_stage = "buckets" => md_item.malloced
  /\ md_stage # "none" /\ ~(md_first = 0 /\ md_stage = "find") => md_call[md_lock].ptr \notin md_stale

(* A block has one owner.                                                  *)
OneOwner ==
  /\ OwnBlocks \subseteq md_used /\ md_own.rows \cap md_own.buckets = {}
  /\ \A b, c \in md_own.rows : b = c
  /\ \A b, c \in md_own.buckets : b = c
  /\ \A p \in DOMAIN md_live : p.block \in md_used \ OwnBlocks
  /\ \A t \in MD_Threads, p \in Pointers : Calling(t, p) => p.block \in md_used \ OwnBlocks
  /\ \A p, q \in DOMAIN md_live : p.block = q.block => p = q
  /\ \A t \in MD_Threads, p \in Pointers, q \in DOMAIN md_live : Calling(t, p) => p.block # q.block
  /\ \A t, u \in MD_Threads, p, q \in Pointers : Calling(t, p) /\ Calling(u, q) /\ t # u => p.block # q.block

Noting ==
  /\ Leads(ToRecord, Base, Wanted)
  /\ \A n \in 1 .. Len(md_array) : md_array[n].ptr.marked
  /\ \A n \in 1 .. Len(md_array) : n >= md_first => ~Known(md_array[n].ptr)

(* What a row says: who has the pointer, and where its marker is.          *)
RowTrue(p) ==
  /\ md_table[p].marked = p.marked
  /\ md_table[p].malloced => (md_table[p].bookkeeping <=> ~Known(p))
  /\ md_table[p].malloced /\ ~md_table[p].bookkeeping /\ p.marked
       /\ ~(md_stage = "buckets" /\ p = md_item.ptr) =>
          p \in DOMAIN md_marker /\ md_marker[p] \in {md_table[p].size, Broken}

SizesKnown ==
  \A p \in DOMAIN md_live \ md_stale : p.marked => p \in DOMAIN md_table /\ md_table[p].size = md_live[p]

(* A new block has the size 1 until the client asks for it, and what is    *)
(* being freed has a row.                                                  *)
IsNew(t) ==
  \/ md_call[t].step = "measure"
  \/ t = md_lock /\ md_call[t].step = "record malloc" /\ ~(md_first = 0 /\ md_stage = "find")

IsFreed(t) ==
  \/ md_call[t].step \in {"free", "realloc"}
  \/ t = md_lock /\ md_call[t].step = "record free"

CallHasRow(t) ==
  /\ IsNew(t) => md_call[t].ptr \in DOMAIN md_table /\ md_table[md_call[t].ptr].size = 1
  /\ IsFreed(t) => md_call[t].ptr \in DOMAIN md_table

StaleHasRow(p) ==
  /\ p \in DOMAIN md_table
  /\ \/ p \in DOMAIN md_live
     \/ \E t \in MD_Threads : md_call[t].step = "record free" /\ md_call[t].ptr = p

Rows ==
  /\ IsFiniteSet(DOMAIN md_table)
  /\ \A p \in DOMAIN md_table : RowTrue(p)
  /\ SizesKnown
  /\ \A t \in MD_Threads : CallHasRow(t)
  /\ \A p \in md_stale : StaleHasRow(p)
  /\ md_stage = "buckets" => md_item.ptr \in DOMAIN md_table

NumRows == Cardinality(DOMAIN md_table)

(* The rows that have been added since the mutex was taken are at most as  *)
(* many as the items that were recorded; each array has grown once at most.*)
Items == IF md_stage = "find" THEN md_first ELSE md_first + 1
RowsGrew == md_room - NumRows >= MD_FirstRoom - Items
BucketsGrew == md_num_buckets - NumRows >= MD_FirstBuckets - 1 - Items

Growth ==
  /\ md_room = 0 \/ md_room >= MD_FirstRoom
  /\ md_num_buckets = 0 \/ md_num_buckets >= MD_FirstBuckets
  /\ md_own.rows = {} <=> md_room = 0
  /\ md_own.buckets = {} <=> md_num_buckets = 0
  /\ NumRows <= md_room
  /\ NumRows <= md_num_buckets + (IF md_stage = "buckets" THEN 1 ELSE 0)
  /\ \/ Len(md_array) <= 1
     \/ Len(md_array) <= 3 /\ (RowsGrew \/ BucketsGrew)
     \/ Len(md_array) <= 5 /\ RowsGrew /\ BucketsGrew

MDWorks == MD_TypeOK /\ Locked /\ OneOwner /\ Noting /\ Rows /\ Growth

ReportsTrue ==
  \A r \in md_report : \/ r.what = "bounds" /\ md_marker[r.ptr] = Broken
                       \/ r.what = "already freed" /\ r.ptr \in md_stale

MDInv ==
  /\ ~md_overflow
  /\ md_report = {} => MDWorks
  /\ md_report # {} => md_lock # Nobody /\ ReportsTrue

----------------------------------------------------------------------------
(* What recording the first note, and noting one more, does to Leads.      *)

Notes == [ptr : Pointers, malloced : BOOLEAN]

LEMMA RecordFirst ==
  ASSUME NEW q, NEW base, NEW want, NEW r, NEW base2, NEW m \in DOMAIN q,
         DOMAIN q \subseteq Int, \A k \in DOMAIN q : q[k] \in Notes /\ m <= k,
         DOMAIN r = DOMAIN q \ {m}, \A k \in DOMAIN r : r[k] = q[k],
         \A p \in Pointers : base2[p] <=> IF p = q[m].ptr THEN q[m].malloced ELSE base[p],
         Leads(q, base, want)
  PROVE  Leads(r, base2, want)
<1>1. \A k \in DOMAIN q : q[k].ptr \in Pointers /\ q[k].malloced \in BOOLEAN
  BY DEF Notes
<1>2. ASSUME NEW n \in DOMAIN r, \A k \in DOMAIN r : k < n => r[k].ptr # r[n].ptr
      PROVE  r[n].malloced <=> ~base2[r[n].ptr]
  <2>1. m < n
    BY DEF Leads
  <2>2. CASE q[n].ptr = q[m].ptr
    <3>1. q[n].malloced <=> ~q[m].malloced
      BY <1>2, <2>1, <2>2 DEF Leads
    <3> QED
      BY <1>1, <2>2, <3>1
  <2>3. CASE q[n].ptr # q[m].ptr
    <3>1. q[n].malloced <=> ~base[q[n].ptr]
      BY <1>2, <2>1, <2>3 DEF Leads
    <3> QED
      BY <1>1, <2>3, <3>1
  <2> QED
    BY <2>2, <2>3
<1>3. ASSUME NEW i \in DOMAIN r, NEW n \in DOMAIN r, i < n, r[i].ptr = r[n].ptr,
             \A k \in DOMAIN r : i < k /\ k < n => r[k].ptr # r[n].ptr
      PROVE  r[n].malloced <=> ~r[i].malloced
  BY <1>3 DEF Leads
<1>4. ASSUME NEW n \in DOMAIN r, \A k \in DOMAIN r : n < k => r[k].ptr # r[n].ptr
      PROVE  (r[n].malloced <=> r[n].ptr \in want)
  BY <1>4 DEF Leads
<1>5. ASSUME NEW p \in Pointers, \A k \in DOMAIN r : r[k].ptr # p
      PROVE  (base2[p] <=> p \in want)
  <2>1. CASE p = q[m].ptr
    <3>1. (q[m].malloced <=> p \in want)
      BY <1>5, <2>1 DEF Leads
    <3> QED
      BY <2>1, <3>1
  <2>2. CASE p # q[m].ptr
    BY <1>5, <2>2 DEF Leads
  <2> QED
    BY <2>1, <2>2
<1> QED
  BY <1>2, <1>3, <1>4, <1>5 DEF Leads

LEMMA NoteOne ==
  ASSUME NEW q, NEW base, NEW want, NEW r, NEW want2, NEW m \in Int,
         DOMAIN q \subseteq Int, \A k \in DOMAIN q : q[k] \in Notes /\ k < m,
         DOMAIN r = DOMAIN q \cup {m}, \A k \in DOMAIN q : r[k] = q[k], r[m] \in Notes,
         \A p \in Pointers : p \in want2 <=> IF p = r[m].ptr THEN r[m].malloced ELSE p \in want,
         (r[m].malloced <=> r[m].ptr \notin want),
         Leads(q, base, want)
  PROVE  Leads(r, base, want2)
<1>1. \A k \in DOMAIN r : r[k].ptr \in Pointers /\ r[k].malloced \in BOOLEAN
  BY DEF Notes
<1>2. ASSUME NEW n \in DOMAIN r, \A k \in DOMAIN r : k < n => r[k].ptr # r[n].ptr
      PROVE  r[n].malloced <=> ~base[r[n].ptr]
  <2>1. CASE n = m
    <3>1. (base[r[m].ptr] <=> r[m].ptr \in want)
      BY <1>1, <1>2, <2>1 DEF Leads
    <3> QED
      BY <2>1, <3>1
  <2>2. CASE n # m
    BY <1>2, <2>2 DEF Leads
  <2> QED
    BY <2>1, <2>2
<1>3. ASSUME NEW i \in DOMAIN r, NEW n \in DOMAIN r, i < n, r[i].ptr = r[n].ptr,
             \A k \in DOMAIN r : i < k /\ k < n => r[k].ptr # r[n].ptr
      PROVE  r[n].malloced <=> ~r[i].malloced
  <2>1. CASE n = m
    <3>1. \A k \in DOMAIN q : i < k => q[k].ptr # q[i].ptr
      BY <1>3, <2>1
    <3>2. (q[i].malloced <=> q[i].ptr \in want)
      BY <1>3, <2>1, <3>1 DEF Leads
    <3> QED
      BY <1>3, <2>1, <3>2
  <2>2. CASE n # m
    BY <1>3, <2>2 DEF Leads
  <2> QED
    BY <2>1, <2>2
<1>4. ASSUME NEW n \in DOMAIN r, \A k \in DOMAIN r : n < k => r[k].ptr # r[n].ptr
      PROVE  (r[n].malloced <=> r[n].ptr \in want2)
  <2>1. CASE n = m
    BY <1>1, <2>1
  <2>2. CASE n # m
    <3>1. (r[n].malloced <=> r[n].ptr \in want) /\ r[n].ptr # r[m].ptr
      BY <1>4, <2>2 DEF Leads
    <3> QED
      BY <1>1, <3>1
  <2> QED
    BY <2>1, <2>2
<1>5. ASSUME NEW p \in Pointers, \A k \in DOMAIN r : r[k].ptr # p
      PROVE  (base[p] <=> p \in want2)
  <2>1. (base[p] <=> p \in want)
    BY <1>5 DEF Leads
  <2>2. p \in want2 <=> p \in want
    BY <1>5
  <2> QED
    BY <2>1, <2>2
<1> QED
  BY <1>2, <1>3, <1>4, <1>5 DEF Leads

LEMMA NothingToRecord ==
  ASSUME NEW q, NEW base, NEW want, DOMAIN q = {}
  PROVE  Leads(q, base, want) <=> \A p \in Pointers : (base[p] <=> p \in want)
  BY DEF Leads

----------------------------------------------------------------------------
(* The array of notes.                                                     *)

LEMMA NotedOne ==
  ASSUME NEW notes, NEW note \in Notes, Len(notes) = 1,
         note = [ptr |-> Pointer(notes[1].block, TRUE), malloced |-> notes[1].malloced],
         md_array \in Seq(Notes), Noted(notes), Len(md_array) + 1 <= MD_MaxBookkeeping
  PROVE  /\ md_array' = Append(md_array, note)
         /\ ~md_overflow => ~md_overflow'
<1> DEFINE at(n) == Pointer(notes[n].block, TRUE)
           step(f, n) == IF n = 0 THEN md_array ELSE Note(f[n - 1], at(n), notes[n].malloced)
           noted == CHOOSE f : f = [n \in 0 .. Len(notes) |-> step(f, n)]
           one == Append(md_array, note)
           g == [n \in 0 .. 1 |-> IF n = 0 THEN md_array ELSE one]
<1>1. Len(md_array) \in Nat
  BY LenProperties
<1>2. Note(md_array, at(1), notes[1].malloced) = one
  BY <1>1, MemDiagAssumption DEF Note
<1>3. g = [n \in 0 .. Len(notes) |-> step(g, n)]
  <2>1. g[0] = md_array /\ g[1] = one /\ g = [n \in 0 .. 1 |-> g[n]]
    OBVIOUS
  <2> HIDE DEF g, at, one
  <2>2. \A n \in 0 .. 1 : g[n] = step(g, n)
    BY <1>2, <2>1
  <2> QED
    BY <2>1, <2>2
<1>4. noted = [n \in 0 .. Len(notes) |-> step(noted, n)]
  BY <1>3
<1>5. /\ md_array' = noted[Len(notes)]
      /\ md_overflow' = (md_overflow \/ Len(md_array) + Len(notes) > MD_MaxBookkeeping)
  BY DEF Noted
<1> HIDE DEF noted, at, one
<1>6. noted[0] = md_array
  BY <1>4
<1>7. noted[1] = one
  BY <1>2, <1>4, <1>6
<1>8. ~(Len(md_array) + Len(notes) > MD_MaxBookkeeping)
  BY <1>1, MemDiagAssumption
<1> QED
  BY <1>5, <1>7, <1>8 DEF one

LEMMA NotedTwo ==
  ASSUME NEW notes, NEW note1 \in Notes, NEW note2 \in Notes, Len(notes) = 2,
         note1 = [ptr |-> Pointer(notes[1].block, TRUE), malloced |-> notes[1].malloced],
         note2 = [ptr |-> Pointer(notes[2].block, TRUE), malloced |-> notes[2].malloced],
         md_array \in Seq(Notes), Noted(notes), Len(md_array) + 2 <= MD_MaxBookkeeping
  PROVE  /\ md_array' = Append(Append(md_array, note1), note2)
         /\ ~md_overflow => ~md_overflow'
<1> DEFINE at(n) == Pointer(notes[n].block, TRUE)
           step(f, n) == IF n = 0 THEN md_array ELSE Note(f[n - 1], at(n), notes[n].malloced)
           noted == CHOOSE f : f = [n \in 0 .. Len(notes) |-> step(f, n)]
           one == Append(md_array, note1)
           two == Append(one, note2)
           g == [n \in 0 .. 2 |-> IF n = 0 THEN md_array ELSE IF n = 1 THEN one ELSE two]
<1>1. Len(md_array) \in Nat /\ Len(one) = Len(md_array) + 1
  BY LenProperties, AppendProperties
<1> HIDE DEF one, two
<1>2. /\ Note(md_array, at(1), notes[1].malloced) = one
      /\ Note(one, at(2), notes[2].malloced) = two
  BY <1>1, MemDiagAssumption DEF Note, one, two
<1>3. g = [n \in 0 .. Len(notes) |-> step(g, n)]
  <2>1. g[0] = md_array /\ g[1] = one /\ g[2] = two /\ g = [n \in 0 .. 2 |-> g[n]]
    OBVIOUS
  <2> HIDE DEF g, at
  <2>2. \A n \in 0 .. 2 : g[n] = step(g, n)
    BY <1>2, <2>1
  <2> QED
    BY <2>1, <2>2
<1>4. noted = [n \in 0 .. Len(notes) |-> step(noted, n)]
  BY <1>3
<1>5. /\ md_array' = noted[Len(notes)]
      /\ md_overflow' = (md_overflow \/ Len(md_array) + Len(notes) > MD_MaxBookkeeping)
  BY DEF Noted
<1> HIDE DEF noted, at
<1>6. noted[0] = md_array
  BY <1>4
<1>7. noted[1] = one
  BY <1>2, <1>4, <1>6
<1>8. noted[2] = two
  BY <1>2, <1>4, <1>7
<1>9. ~(Len(md_array) + Len(notes) > MD_MaxBookkeeping)
  BY <1>1, MemDiagAssumption
<1> QED
  BY <1>5, <1>8, <1>9 DEF one, two

----------------------------------------------------------------------------
(* Helpers.                                                                *)

LEMMA UpdatedType ==
  ASSUME NEW S, NEW f, f \in [DOMAIN f -> S], NEW x, NEW y \in S
  PROVE  Updated(f, x, y) \in [DOMAIN Updated(f, x, y) -> S]
  BY DEF Updated

LEMMA WithoutIs ==
  ASSUME NEW f, NEW x
  PROVE  /\ DOMAIN Without(f, x) = DOMAIN f \ {x}
         /\ \A z \in DOMAIN f : z # x => Without(f, x)[z] = f[z]
         /\ \A S : f \in [DOMAIN f -> S] => Without(f, x) \in [DOMAIN Without(f, x) -> S]
  BY DEF Without

(* What a call is.                                                         *)
LEMMA CallIs ==
  ASSUME MD_TypeOK, NEW t \in MD_Threads
  PROVE  /\ md_call[t] = NoMemCall <=> md_call[t].step = "idle"
         /\ md_call[t] # NoMemCall => md_call[t].ptr \in Pointers
         /\ md_call[t].step \in {"idle", "record malloc", "measure", "record free", "free", "realloc"}
         /\ md_call[t].step \in {"record free", "free", "realloc"} =>
              md_call[t] \in [step : {"record free", "free", "realloc"}, ptr : Pointers,
                              for : {"free", "realloc"}, size : Nat]
<1>1. PICK c : c = md_call[t]
  OBVIOUS
<1>2. c \in MemCalls
  BY <1>1 DEF MD_TypeOK
<1>3. CASE c = NoMemCall
  BY <1>1, <1>3 DEF NoMemCall
<1>4. CASE c \in [step : {"record malloc", "measure"}, ptr : Pointers]
  <2>1. c.step \in {"record malloc", "measure"} /\ c.ptr \in Pointers /\ NoMemCall.step = "idle"
    BY <1>4 DEF NoMemCall
  <2> QED
    BY <1>1, <2>1
<1>5. CASE c \in [step : {"record free", "free", "realloc"}, ptr : Pointers,
                  for : {"free", "realloc"}, size : Nat]
  <2>1. c.step \in {"record free", "free", "realloc"} /\ c.ptr \in Pointers /\ NoMemCall.step = "idle"
    BY <1>5 DEF NoMemCall
  <2> QED
    BY <1>1, <1>5, <2>1
<1> QED
  BY <1>2, <1>3, <1>4, <1>5 DEF MemCalls

LEMMA PointerIs ==
  ASSUME NEW block \in MD_Blocks, NEW marked \in BOOLEAN
  PROVE  /\ Pointer(block, marked) \in Pointers
         /\ Pointer(block, marked).block = block /\ Pointer(block, marked).marked = marked
  BY DEF Pointer, Pointers

LEMMA NobodyCalls == Nobody \notin MD_Threads
  BY MemDiagAssumption DEF Nobody

(* While nobody records there is nothing to record.                        *)
LEMMA NothingTodo ==
  ASSUME MD_TypeOK, Locked, md_lock = Nobody
  PROVE  DOMAIN ToRecord = {}
<1>1. md_stage = "none" /\ md_array = <<>> /\ md_first = 0 /\ Len(md_array) = 0
  BY DEF Locked
<1> QED
  BY <1>1 DEF ToRecord, Todo

LEMMA InitWorks == MD_Init => MDInv
<1> SUFFICES ASSUME MD_Init PROVE MDInv
  OBVIOUS
<1> USE DEF MD_Init
<1>1. MD_TypeOK
  <2>1. md_call \in [MD_Threads -> MemCalls]
    BY DEF MemCalls
  <2>2. md_own \in [rows : SUBSET MD_Blocks, buckets : SUBSET MD_Blocks]
    OBVIOUS
  <2>3. DOMAIN md_live = {} /\ DOMAIN md_marker = {} /\ DOMAIN md_table = {}
    OBVIOUS
  <2>4. md_array \in Seq([ptr : Pointers, malloced : BOOLEAN]) /\ Len(md_array) = 0
    OBVIOUS
  <2>5. md_live \in [DOMAIN md_live -> Nat] /\ md_marker \in [DOMAIN md_marker -> Int]
    BY <2>3
  <2>6. md_table \in [DOMAIN md_table -> [malloced : BOOLEAN, bookkeeping : BOOLEAN, marked : BOOLEAN, size : Nat]]
    BY <2>3
  <2>7. md_tracing \in {"pointers", "calls"}
    OBVIOUS
  <2> QED
    BY <2>1, <2>2, <2>3, <2>4, <2>5, <2>6, <2>7 DEF MD_TypeOK
<1>2. Locked
  BY DEF Locked
<1>3. \A t \in MD_Threads : \A p : ~Calling(t, p)
  BY DEF Calling
<1>4. DOMAIN md_live = {} /\ DOMAIN md_table = {} /\ OwnBlocks = {} /\ Cardinality(DOMAIN md_table) = 0
  BY FS_EmptySet DEF OwnBlocks
<1>5. OneOwner
  BY <1>3, <1>4 DEF OneOwner, OwnBlocks
<1>6. Noting
  <2>1. Leads(ToRecord, Base, Wanted)
    <3>1. \A p \in Pointers : Base[p] <=> p \in Wanted
      BY <1>3, <1>4 DEF Base, Wanted, WantedOfClients
    <3>2. DOMAIN ToRecord = {}
      BY <1>1, <1>2, NothingTodo
    <3> QED
      BY <3>1, <3>2, NothingToRecord
  <2> QED
    BY <2>1 DEF Noting
<1>7. Rows
  BY <1>3, <1>4, FS_EmptySet, NobodyCalls DEF Rows, SizesKnown, CallHasRow, IsNew, IsFreed, NoMemCall
<1>8. Growth
  BY <1>4 DEF Growth, NumRows
<1> QED
  BY <1>1, <1>2, <1>5, <1>6, <1>7, <1>8 DEF MDInv, MDWorks

----------------------------------------------------------------------------
(* Steps of the client while somebody may be recording.                    *)

LEMMA ArrayOfNotes ==
  ASSUME MD_TypeOK
  PROVE  Len(md_array) \in Nat /\ \A n \in 1 .. Len(md_array) : md_array[n] \in Notes
<1>1. md_array \in Seq(Notes)
  BY DEF MD_TypeOK, Notes
<1> QED
  BY <1>1, ElementOfSeq, LenProperties

LEMMA Quiet ==
  ASSUME MDWorks, UNCHANGED recording, UNCHANGED md_lock,
         md_lock # Nobody => md_call'[md_lock] = md_call[md_lock],
         md_lock # Nobody => (md_call[md_lock].ptr \in md_stale' <=> md_call[md_lock].ptr \in md_stale),
         \A p \in Pointers : p \in WantedOfClients' <=> p \in WantedOfClients,
         \A p \in Pointers : Known(p)' => Known(p)
  PROVE  Locked' /\ Noting' /\ Growth'
<1> USE DEF recording
<1>1. \A n \in 0 .. Len(md_array) : md_lock # Nobody => NoteAt(n)' = NoteAt(n)
  BY DEF NoteAt
<1>2. Locked'
  <2>1. Locked /\ MD_TypeOK
    BY DEF MDWorks
  <2>2. md_stage # "none" => NoteAt(md_first)' = NoteAt(md_first)
    BY <1>1, <2>1 DEF Locked, MD_TypeOK
  <2>3. md_lock # Nobody => Recording(md_lock)' /\ md_room' > 0
    BY <2>1 DEF Locked, Recording
  <2> QED
    BY <2>1, <2>2, <2>3 DEF Locked
<1>3. ToRecord' = ToRecord
  <2>1. Todo' = Todo
    <3>1. CASE md_lock = Nobody
      <4>1. md_stage = "none" /\ md_first = 0
        BY <3>1 DEF MDWorks, Locked
      <4> QED
        BY <4>1 DEF Todo
    <3>2. CASE md_lock # Nobody
      BY <3>2 DEF Todo, NoteAt
    <3> QED
      BY <3>1, <3>2
  <2>2. ASSUME NEW n \in Todo PROVE NoteAt(n)' = NoteAt(n)
    <3>1. md_lock # Nobody
      <4> SUFFICES ASSUME md_lock = Nobody PROVE FALSE
        OBVIOUS
      <4>1. DOMAIN ToRecord = {}
        BY NothingTodo DEF MDWorks
      <4> QED
        BY <4>1 DEF ToRecord
    <3> QED
      BY <1>1, <3>1 DEF Todo
  <2> QED
    BY <2>1, <2>2 DEF ToRecord
<1>4. Base' = Base
  BY DEF Base
<1>5. Wanted' = Wanted
  <2>1. WantedOfClients \subseteq Pointers /\ WantedOfClients' \subseteq Pointers
    BY DEF WantedOfClients
  <2>2. OwnBlocks' = OwnBlocks
    BY DEF OwnBlocks
  <2> QED
    BY <2>1, <2>2 DEF Wanted
<1>6. Leads(ToRecord', Base', Wanted')
  BY <1>3, <1>4, <1>5 DEF MDWorks, Noting
<1>7. Noting'
  <2>1. \A n \in 1 .. Len(md_array) : md_array[n].ptr \in Pointers
    BY ArrayOfNotes DEF MDWorks, Notes
  <2> QED
    BY <1>6, <2>1 DEF MDWorks, Noting
<1>8. Growth'
  <2>1. Growth
    BY DEF MDWorks
  <2> QED
    BY <2>1 DEF Growth, RowsGrew, BucketsGrew, NumRows, Items
<1> QED
  BY <1>2, <1>7, <1>8

LEMMA CallEntered ==
  ASSUME MD_TypeOK, NEW t \in MD_Threads, NEW c \in MemCalls, Enter(t, c)
  PROVE  /\ md_call'[t] = c /\ \A u \in MD_Threads : u # t => md_call'[u] = md_call[u]
         /\ md_call' \in [MD_Threads -> MemCalls]
  BY DEF MD_TypeOK, Enter

LEMMA MallocWorks ==
  ASSUME MDWorks, NEW t \in MD_Threads, Malloc(t)
  PROVE  MDWorks'
<1>1. PICK block \in MD_Blocks \ md_used :
        /\ md_used' = md_used \cup {block}
        /\ Enter(t, [step |-> "record malloc", ptr |-> Pointer(block, NeedsMarker)])
  BY DEF Malloc
<1> DEFINE ptr == Pointer(block, NeedsMarker)
           c == [step |-> "record malloc", ptr |-> ptr]
<1>2. ptr \in Pointers /\ ptr.block = block
  BY PointerIs DEF NeedsMarker
<1>3. c \in MemCalls /\ c # NoMemCall /\ c.step = "record malloc" /\ c.ptr = ptr
  BY <1>2 DEF MemCalls, NoMemCall
<1> HIDE DEF ptr, c
<1>4. /\ md_call'[t] = c /\ \A u \in MD_Threads : u # t => md_call'[u] = md_call[u]
      /\ md_call' \in [MD_Threads -> MemCalls]
  <2>1. Enter(t, c) /\ MD_TypeOK
    BY <1>1 DEF MDWorks, c, ptr
  <2> QED
    BY <1>3, <2>1, CallEntered
<1>5. md_call[t] = NoMemCall /\ md_call[t].step = "idle" /\ t # md_lock
  <2>0. md_call[t] = NoMemCall
    BY DEF Malloc, MayCall
  <2>1. md_call[t] = NoMemCall /\ md_call[t].step = "idle"
    BY <2>0 DEF NoMemCall
  <2> QED
    BY <2>1, NobodyCalls DEF MDWorks, Locked, Recording
<1>6. /\ UNCHANGED <<md_tracing, md_live, md_marker, md_stale, md_lock, recording>>
      /\ md_calls' = md_calls + 1
  BY DEF Malloc, MayCall
<1>7. MD_TypeOK'
  <2>1. md_used' \subseteq MD_Blocks /\ md_calls' \in Nat
    <3>1. md_used \subseteq MD_Blocks /\ md_calls \in Nat
      BY DEF MDWorks, MD_TypeOK
    <3>2. md_used' \subseteq MD_Blocks
      BY <1>1, <3>1
    <3>3. md_calls' \in Nat
      BY <1>6, <3>1
    <3> QED
      BY <3>2, <3>3
  <2> QED
    BY <1>4, <1>6, <2>1 DEF MDWorks, MD_TypeOK, recording
<1>8. \A p : Known(p)' <=> Known(p)
  BY <1>3, <1>4, <1>5, <1>6 DEF Known, Calling
<1>9. \A p \in Pointers : p \in WantedOfClients' <=> p \in WantedOfClients
  BY <1>3, <1>4, <1>5, <1>6 DEF WantedOfClients, Calling
<1>10. md_lock # Nobody => md_call'[md_lock] = md_call[md_lock]
  BY <1>4, <1>5 DEF MDWorks, MD_TypeOK
<1>11. Locked' /\ Noting' /\ Growth'
  BY <1>6, <1>8, <1>9, <1>10, Quiet
<1>12. OneOwner'
  <2> USE <1>6 DEF recording
  <2>1. OwnBlocks' = OwnBlocks /\ OwnBlocks \subseteq md_used
    BY DEF OwnBlocks, MDWorks, OneOwner
  <2>2. \A p \in DOMAIN md_live : p.block \in md_used \ OwnBlocks
    BY DEF MDWorks, OneOwner
  <2>3. \A u \in MD_Threads, p \in Pointers : Calling(u, p) => p.block \in md_used \ OwnBlocks
    BY DEF MDWorks, OneOwner
  <2>4. \A u \in MD_Threads, p \in Pointers :
          Calling(u, p)' => (p.block \in md_used \ OwnBlocks /\ Calling(u, p) /\ u # t) \/ (u = t /\ p = ptr)
    BY <1>3, <1>4, <1>5, <2>3 DEF Calling
  <2>5. ptr.block \in md_used' \ OwnBlocks /\ ptr.block \notin md_used
    BY <1>1, <1>2, <2>1
  <2> QED
    BY <1>1, <2>1, <2>2, <2>3, <2>4, <2>5 DEF MDWorks, OneOwner
<1>13. Rows'
  <2> USE <1>6 DEF recording
  <2>1. \A u \in MD_Threads : u # t => md_call'[u] = md_call[u]
    BY <1>4
  <2>2. md_call'[t].step = "record malloc"
    BY <1>3, <1>4
  <2>3. ASSUME NEW p \in md_stale PROVE StaleHasRow(p)'
    <3>1. StaleHasRow(p)
      BY DEF MDWorks, Rows
    <3> QED
      BY <1>5, <2>1, <3>1 DEF StaleHasRow
  <2>4. ASSUME NEW u \in MD_Threads PROVE CallHasRow(u)'
    <3>1. CallHasRow(u)
      BY DEF MDWorks, Rows
    <3> QED
      BY <1>5, <2>1, <2>2, <3>1 DEF CallHasRow, IsNew, IsFreed
  <2>5. ASSUME NEW p \in DOMAIN md_table PROVE RowTrue(p)'
    <3>1. RowTrue(p)
      BY DEF MDWorks, Rows
    <3> QED
      BY <1>8, <3>1 DEF RowTrue
  <2> QED
    BY <2>3, <2>4, <2>5 DEF MDWorks, Rows, SizesKnown
<1> QED
  BY <1>7, <1>11, <1>12, <1>13 DEF MDWorks

LEMMA GiveBackWorks ==
  ASSUME MDWorks, NEW t \in MD_Threads, NEW for \in {"free", "realloc"}, GiveBack(t, for)
  PROVE  MDWorks'
<1>1. PICK ptr \in DOMAIN md_live :
        /\ md_live' = Without(md_live, ptr)
        /\ Enter(t, [step |-> "record free", ptr |-> ptr, for |-> for, size |-> md_live[ptr]])
  BY DEF GiveBack
<1> DEFINE c == [step |-> "record free", ptr |-> ptr, for |-> for, size |-> md_live[ptr]]
<1>2. ptr \in Pointers /\ md_live[ptr] \in Nat
  BY DEF MDWorks, MD_TypeOK
<1>3. c \in MemCalls /\ c # NoMemCall /\ c.step = "record free" /\ c.ptr = ptr
  BY <1>2 DEF MemCalls, NoMemCall
<1>4. /\ md_call'[t] = c /\ \A u \in MD_Threads : u # t => md_call'[u] = md_call[u]
      /\ md_call' \in [MD_Threads -> MemCalls]
  <2>1. Enter(t, c) /\ MD_TypeOK
    BY <1>1 DEF MDWorks
  <2> HIDE DEF c
  <2> QED
    BY <1>3, <2>1, CallEntered
<1> HIDE DEF c
<1>5. md_call[t] = NoMemCall /\ md_call[t].step = "idle" /\ t # md_lock
  <2>0. md_call[t] = NoMemCall
    BY DEF GiveBack, MayCall
  <2>1. md_call[t] = NoMemCall /\ md_call[t].step = "idle"
    BY <2>0 DEF NoMemCall
  <2> QED
    BY <2>1, NobodyCalls DEF MDWorks, Locked, Recording
<1>6. /\ UNCHANGED <<md_tracing, md_used, md_marker, md_stale, md_lock, recording>>
      /\ md_calls' = md_calls + 1
  BY DEF GiveBack, MayCall
<1>7. /\ DOMAIN md_live' = DOMAIN md_live \ {ptr}
      /\ \A p \in DOMAIN md_live : p # ptr => md_live'[p] = md_live[p]
      /\ md_live' \in [DOMAIN md_live' -> Nat]
  <2>1. md_live \in [DOMAIN md_live -> Nat]
    BY DEF MDWorks, MD_TypeOK
  <2> QED
    BY <1>1, <2>1, WithoutIs
<1>8. MD_TypeOK'
  <2>1. md_calls' \in Nat /\ DOMAIN md_live' \subseteq Pointers
    BY <1>6, <1>7 DEF MDWorks, MD_TypeOK
  <2> QED
    BY <1>4, <1>6, <1>7, <2>1 DEF MDWorks, MD_TypeOK, recording
<1>9. \A p : Known(p)' <=> Known(p)
  BY <1>3, <1>4, <1>5, <1>6, <1>7 DEF Known, Calling
<1>10. ASSUME NEW p \in Pointers PROVE p \in WantedOfClients' <=> p \in WantedOfClients
  <2>1. md_stale' = md_stale /\ md_lock' = md_lock
    BY <1>6
  <2>2. CASE p = ptr
    <3>1. Calling(t, p)' /\ md_call'[t].step = "record free" /\ t # md_lock
      BY <1>3, <1>4, <1>5, <2>2 DEF Calling
    <3> QED
      BY <2>1, <2>2, <3>1 DEF WantedOfClients
  <2>3. CASE p # ptr
    <3>1. p \in DOMAIN md_live' <=> p \in DOMAIN md_live
      BY <1>7, <2>3
    <3>2. ~Calling(t, p) /\ ~Calling(t, p)'
      BY <1>3, <1>4, <1>5, <2>3 DEF Calling
    <3>3. \A u \in MD_Threads :
            u # t => md_call'[u].step = md_call[u].step /\ (Calling(u, p)' <=> Calling(u, p))
      BY <1>4 DEF Calling
    <3> QED
      BY <2>1, <3>1, <3>2, <3>3 DEF WantedOfClients
  <2> QED
    BY <2>2, <2>3
<1>11. md_lock # Nobody => md_call'[md_lock] = md_call[md_lock]
  BY <1>4, <1>5 DEF MDWorks, MD_TypeOK
<1>12. Locked' /\ Noting' /\ Growth'
  BY <1>6, <1>9, <1>10, <1>11, Quiet
<1>13. OneOwner'
  <2> USE <1>6 DEF recording
  <2>1. OwnBlocks' = OwnBlocks /\ OwnBlocks \subseteq md_used
    BY DEF OwnBlocks, MDWorks, OneOwner
  <2>2. \A p \in DOMAIN md_live : p.block \in md_used \ OwnBlocks
    BY DEF MDWorks, OneOwner
  <2>3. \A u \in MD_Threads, p \in Pointers : Calling(u, p) => p.block \in md_used \ OwnBlocks
    BY DEF MDWorks, OneOwner
  <2>4. \A u \in MD_Threads, p \in Pointers :
          Calling(u, p)' => (p.block \in md_used \ OwnBlocks /\ Calling(u, p) /\ u # t) \/ (u = t /\ p = ptr)
    BY <1>3, <1>4, <1>5, <2>3 DEF Calling
  <2> QED
    BY <1>7, <2>1, <2>2, <2>3, <2>4 DEF MDWorks, OneOwner
<1>14. Rows'
  <2> USE <1>6 DEF recording
  <2>1. \A u \in MD_Threads : u # t => md_call'[u] = md_call[u]
    BY <1>4
  <2>2. md_call'[t].step = "record free" /\ md_call'[t].ptr = ptr
    BY <1>3, <1>4
  <2>3. ASSUME NEW p \in md_stale PROVE StaleHasRow(p)'
    <3>1. StaleHasRow(p)
      BY DEF MDWorks, Rows
    <3> QED
      BY <1>5, <1>7, <2>1, <2>2, <3>1 DEF StaleHasRow
  <2>4. ASSUME NEW u \in MD_Threads PROVE CallHasRow(u)'
    <3>1. CallHasRow(u)
      BY DEF MDWorks, Rows
    <3> QED
      BY <1>5, <2>1, <2>2, <3>1 DEF CallHasRow, IsNew, IsFreed
  <2>5. ASSUME NEW p \in DOMAIN md_table PROVE RowTrue(p)'
    <3>1. RowTrue(p)
      BY DEF MDWorks, Rows
    <3> QED
      BY <1>9, <3>1 DEF RowTrue
  <2> QED
    BY <1>7, <2>3, <2>4, <2>5 DEF MDWorks, Rows, SizesKnown
<1> QED
  BY <1>8, <1>12, <1>13, <1>14 DEF MDWorks

LEMMA LockHolder ==
  ASSUME MD_TypeOK, Locked, md_lock # Nobody
  PROVE  /\ md_lock \in MD_Threads /\ md_call[md_lock] # NoMemCall /\ md_call[md_lock].ptr \in Pointers
         /\ md_call[md_lock].step \in {"record malloc", "record free"}
<1>1. md_lock \in MD_Threads /\ md_call[md_lock].step \in {"record malloc", "record free"}
  BY DEF MD_TypeOK, Locked, Recording
<1> QED
  BY <1>1, CallIs

(* Of a pointer a client has, and that nobody is recording, the table says *)
(* what is wanted.                                                         *)
LEMMA KnownRecorded ==
  ASSUME MDWorks, NEW p \in Pointers, Known(p), md_lock # Nobody => md_call[md_lock].ptr # p
  PROVE  p \in DOMAIN md_table /\ md_table[p].malloced <=> p \in WantedOfClients
<1>1. MD_TypeOK /\ Locked /\ OneOwner /\ Noting
  BY DEF MDWorks
<1>2. p.block \notin OwnBlocks
  BY <1>1 DEF OneOwner, Known
<1>3. ASSUME NEW k \in DOMAIN ToRecord PROVE ToRecord[k].ptr # p
  <2>1. md_lock # Nobody
    BY <1>1, NothingTodo
  <2>2. k \in Todo /\ ToRecord[k] = NoteAt(k)
    BY DEF ToRecord
  <2>3. CASE k = 0
    <3>1. NoteAt(0).ptr = md_call[md_lock].ptr
      BY DEF NoteAt
    <3> QED
      BY <2>1, <2>2, <2>3, <3>1
  <2>4. CASE k # 0
    <3>1. k \in 1 .. Len(md_array) /\ k >= md_first /\ NoteAt(k) = md_array[k]
      BY <1>1, <2>2, <2>4, ArrayOfNotes DEF Todo, NoteAt, MD_TypeOK
    <3> QED
      BY <1>1, <2>2, <3>1 DEF Noting
  <2> QED
    BY <2>3, <2>4
<1>4. Base[p] <=> p \in Wanted
  BY <1>1, <1>3 DEF Noting, Leads
<1> QED
  BY <1>2, <1>4 DEF Base, Wanted

LEMMA FreeWorks ==
  ASSUME MDWorks, NEW t \in MD_Threads, Free(t)
  PROVE  MDWorks'
<1> DEFINE ptr == md_call[t].ptr
<1>1. /\ md_call[t].step = "free" /\ Enter(t, NoMemCall)
      /\ md_used' = md_used \ {ptr.block}
      /\ UNCHANGED <<md_tracing, md_live, md_marker, md_stale, md_lock, recording, md_calls>>
  BY DEF Free
<1>2. MD_TypeOK /\ Locked /\ OneOwner /\ Rows
  BY DEF MDWorks
<1>3. md_call[t] # NoMemCall /\ ptr \in Pointers /\ t # md_lock
  <2>1. md_call[t] # NoMemCall /\ ptr \in Pointers
    BY <1>1, <1>2, CallIs
  <2> QED
    BY <1>1, <1>2, <2>1, NobodyCalls DEF Locked, Recording
<1>4. /\ md_call'[t] = NoMemCall /\ \A u \in MD_Threads : u # t => md_call'[u] = md_call[u]
      /\ md_call' \in [MD_Threads -> MemCalls]
  BY <1>1, <1>2, CallEntered DEF MemCalls
<1>5. Calling(t, ptr) /\ Known(ptr) /\ ptr \notin DOMAIN md_live
  <2>1. Calling(t, ptr)
    BY <1>3 DEF Calling
  <2> QED
    BY <1>1, <1>2, <1>3, <2>1 DEF Known, OneOwner
<1>6. \A u \in MD_Threads : u # t /\ md_call[u] # NoMemCall => md_call[u].ptr # ptr
  <2>1. \A u \in MD_Threads : md_call[u] # NoMemCall => md_call[u].ptr \in Pointers
    BY <1>2, CallIs
  <2> QED
    BY <1>2, <1>3, <2>1 DEF OneOwner, Calling
<1>7. md_lock # Nobody => md_call'[md_lock] = md_call[md_lock] /\ md_call[md_lock].ptr # ptr
  <2>1. md_lock # Nobody => md_lock \in MD_Threads /\ md_call[md_lock] # NoMemCall
    BY <1>2, LockHolder
  <2> QED
    BY <1>3, <1>4, <1>6, <2>1
<1>8. MD_TypeOK'
  <2>1. md_used' \subseteq MD_Blocks
    BY <1>1, <1>2 DEF MD_TypeOK
  <2> QED
    BY <1>1, <1>2, <1>4, <2>1 DEF MD_TypeOK, recording
<1>9. \A p : Known(p)' <=> Known(p) /\ p # ptr
  <2>1. \A p : Known(p)' => Known(p) /\ p # ptr
    BY <1>1, <1>4, <1>5, <1>6 DEF Known, Calling
  <2>2. \A p : Known(p) /\ p # ptr => Known(p)'
    BY <1>1, <1>4 DEF Known, Calling
  <2> QED
    BY <2>1, <2>2
<1>10. ptr \notin WantedOfClients
  BY <1>1, <1>3, <1>5, <1>6 DEF WantedOfClients, Calling
<1>11. \A p \in Pointers : p \in WantedOfClients' <=> p \in WantedOfClients
  BY <1>1, <1>3, <1>4, <1>5, <1>6, <1>10 DEF WantedOfClients, Calling
<1>12. Locked' /\ Noting' /\ Growth'
  BY <1>1, <1>7, <1>9, <1>11, Quiet
<1>13. OneOwner'
  <2> USE <1>1 DEF recording
  <2>1. OwnBlocks' = OwnBlocks /\ ptr.block \notin OwnBlocks
    BY <1>2, <1>3, <1>5 DEF OwnBlocks, OneOwner
  <2>2. \A p \in DOMAIN md_live : p.block # ptr.block
    BY <1>2, <1>3, <1>5 DEF OneOwner
  <2>3. \A u \in MD_Threads, p \in Pointers : Calling(u, p)' => Calling(u, p) /\ u # t
    BY <1>4 DEF Calling
  <2>4. \A u \in MD_Threads, p \in Pointers : Calling(u, p)' => p.block # ptr.block
    BY <1>2, <1>3, <1>5, <2>3 DEF OneOwner
  <2> QED
    BY <1>2, <2>1, <2>2, <2>3, <2>4 DEF OneOwner
<1>14. Rows'
  <2> USE <1>1 DEF recording
  <2>1. \A u \in MD_Threads : u # t => md_call'[u] = md_call[u]
    BY <1>4
  <2>2. md_call'[t].step = "idle"
    BY <1>4 DEF NoMemCall
  <2>3. ASSUME NEW p \in md_stale PROVE StaleHasRow(p)'
    <3>1. StaleHasRow(p)
      BY <1>2 DEF Rows
    <3> QED
      BY <2>1, <3>1 DEF StaleHasRow
  <2>4. ASSUME NEW u \in MD_Threads PROVE CallHasRow(u)'
    <3>1. CallHasRow(u)
      BY <1>2 DEF Rows
    <3> QED
      BY <2>1, <2>2, <3>1 DEF CallHasRow, IsNew, IsFreed
  <2>5. ASSUME NEW p \in DOMAIN md_table PROVE RowTrue(p)'
    <3>1. RowTrue(p)
      BY <1>2 DEF Rows
    <3>2. p = ptr => ~md_table[p].malloced
      BY <1>3, <1>5, <1>7, <1>10, KnownRecorded
    <3> QED
      BY <1>9, <3>1, <3>2 DEF RowTrue
  <2> QED
    BY <1>2, <2>3, <2>4, <2>5 DEF Rows, SizesKnown
<1> QED
  BY <1>8, <1>12, <1>13, <1>14 DEF MDWorks

(* What holds of a call that is about to give its block back.              *)
LEMMA GivingBack ==
  ASSUME MDWorks, NEW t \in MD_Threads, md_call[t].step \in {"free", "realloc"}
  PROVE  /\ md_call[t] # NoMemCall /\ md_call[t].ptr \in Pointers /\ t # md_lock
         /\ Calling(t, md_call[t].ptr) /\ Known(md_call[t].ptr) /\ md_call[t].ptr \notin DOMAIN md_live
         /\ \A u \in MD_Threads : u # t /\ md_call[u] # NoMemCall => md_call[u].ptr # md_call[t].ptr
         /\ md_lock # Nobody => md_call[md_lock].ptr # md_call[t].ptr
         /\ md_call[t].ptr \notin WantedOfClients
         /\ md_call[t].ptr \in DOMAIN md_table /\ ~md_table[md_call[t].ptr].malloced
<1> DEFINE ptr == md_call[t].ptr
<1>2. MD_TypeOK /\ Locked /\ OneOwner /\ Rows
  BY DEF MDWorks
<1>3. md_call[t] # NoMemCall /\ ptr \in Pointers /\ t # md_lock
  <2>1. md_call[t] # NoMemCall /\ ptr \in Pointers
    BY <1>2, CallIs
  <2> QED
    BY <1>2, <2>1, NobodyCalls DEF Locked, Recording
<1>5. Calling(t, ptr) /\ Known(ptr) /\ ptr \notin DOMAIN md_live
  <2>1. Calling(t, ptr)
    BY <1>3 DEF Calling
  <2> QED
    BY <1>2, <1>3, <2>1 DEF Known, OneOwner
<1>6. \A u \in MD_Threads : u # t /\ md_call[u] # NoMemCall => md_call[u].ptr # ptr
  <2>1. \A u \in MD_Threads : md_call[u] # NoMemCall => md_call[u].ptr \in Pointers
    BY <1>2, CallIs
  <2> QED
    BY <1>2, <1>3, <2>1 DEF OneOwner, Calling
<1>7. md_lock # Nobody => md_call[md_lock].ptr # ptr
  BY <1>2, <1>3, <1>6, LockHolder
<1>8. ptr \notin WantedOfClients
  BY <1>3, <1>5, <1>6 DEF WantedOfClients, Calling
<1>9. ptr \in DOMAIN md_table
  BY <1>2 DEF Rows, CallHasRow, IsFreed
<1>10. ~md_table[ptr].malloced
  BY <1>3, <1>5, <1>7, <1>8, <1>9, KnownRecorded
<1> QED
  BY <1>3, <1>5, <1>6, <1>7, <1>8, <1>9, <1>10

LEMMA ReallocMoves ==
  ASSUME MDWorks, NEW t \in MD_Threads, md_call[t].step = "realloc",
         NEW block \in (MD_Blocks \ md_used) \cup {md_call[t].ptr.block},
         md_used' = (md_used \ {md_call[t].ptr.block}) \cup {block},
         Enter(t, [step |-> "record malloc", ptr |-> Pointer(block, NeedsMarker)]),
         UNCHANGED <<md_tracing, md_live, md_stale, md_marker, md_lock, recording, md_calls>>
  PROVE  MDWorks'
<1> DEFINE old == md_call[t].ptr
           ptr == Pointer(block, NeedsMarker)
           c == [step |-> "record malloc", ptr |-> ptr]
<1>1. MD_TypeOK /\ Locked /\ OneOwner /\ Rows
  BY DEF MDWorks
<1>2. /\ md_call[t] # NoMemCall /\ old \in Pointers /\ t # md_lock
      /\ Calling(t, old) /\ Known(old) /\ old \notin DOMAIN md_live
      /\ \A u \in MD_Threads : u # t /\ md_call[u] # NoMemCall => md_call[u].ptr # old
      /\ md_lock # Nobody => md_call[md_lock].ptr # old
      /\ old \notin WantedOfClients
      /\ old \in DOMAIN md_table /\ ~md_table[old].malloced
  BY GivingBack
<1>3. old.block \in MD_Blocks /\ old.block \in md_used \ OwnBlocks /\ block \in MD_Blocks
  BY <1>1, <1>2 DEF OneOwner, MD_TypeOK, Pointers
<1>4. ptr \in Pointers /\ ptr.block = block
  BY <1>3, PointerIs DEF NeedsMarker
<1>5. c \in MemCalls /\ c # NoMemCall /\ c.step = "record malloc" /\ c.ptr = ptr
  BY <1>4 DEF MemCalls, NoMemCall
<1>6. Enter(t, c)
  OBVIOUS
<1> HIDE DEF c, ptr, old
<1>7. /\ md_call'[t] = c /\ \A u \in MD_Threads : u # t => md_call'[u] = md_call[u]
      /\ md_call' \in [MD_Threads -> MemCalls]
  BY <1>1, <1>5, <1>6, CallEntered
<1>8. MD_TypeOK'
  <2>1. md_used' \subseteq MD_Blocks
    BY <1>1, <1>3 DEF MD_TypeOK, old
  <2> QED
    BY <1>1, <1>7, <2>1 DEF MD_TypeOK, recording
<1>9. \A p : Known(p)' => Known(p) /\ p # old
  BY <1>2, <1>5, <1>7 DEF Known, Calling
<1>10. \A p : Known(p) /\ p # old => Known(p)'
  BY <1>7 DEF Known, Calling, old
<1>11. ASSUME NEW p \in Pointers PROVE p \in WantedOfClients' <=> p \in WantedOfClients
  <2>1. CASE p = old
    <3>1. \A u \in MD_Threads : Calling(u, p)' => u = t
      BY <1>2, <1>7, <2>1 DEF Calling
    <3>2. md_call'[t].step = "record malloc" /\ t # md_lock
      BY <1>2, <1>5, <1>7
    <3> QED
      BY <1>2, <2>1, <3>1, <3>2 DEF WantedOfClients
  <2>2. CASE p # old
    <3>1. ~Calling(t, p) /\ ~(Calling(t, p)' /\ md_call'[t].step # "record malloc") /\ t # md_lock
      BY <1>2, <1>5, <1>7, <2>2 DEF Calling, old
    <3>2. \A u \in MD_Threads :
            u # t => md_call'[u].step = md_call[u].step /\ (Calling(u, p)' <=> Calling(u, p))
      BY <1>7 DEF Calling
    <3> QED
      BY <3>1, <3>2 DEF WantedOfClients
  <2> QED
    BY <2>1, <2>2
<1>12. md_lock # Nobody => md_call'[md_lock] = md_call[md_lock]
  BY <1>1, <1>2, <1>7, LockHolder
<1>13. Locked' /\ Noting' /\ Growth'
  BY <1>9, <1>11, <1>12, Quiet
<1>14. OneOwner'
  <2> USE DEF recording
  <2>1. OwnBlocks' = OwnBlocks /\ OwnBlocks \subseteq md_used
    BY <1>1 DEF OwnBlocks, OneOwner
  <2>2. \A p \in DOMAIN md_live : p.block \in md_used \ OwnBlocks /\ p.block # old.block
    BY <1>1, <1>2 DEF OneOwner
  <2>3. \A u \in MD_Threads, p \in Pointers : 
          Calling(u, p) => p.block \in md_used \ OwnBlocks /\ (u # t => p.block # old.block)
    BY <1>1, <1>2 DEF OneOwner
  <2>4. \A u \in MD_Threads, p \in Pointers :
          Calling(u, p)' => (Calling(u, p) /\ u # t) \/ (u = t /\ p = ptr)
    BY <1>5, <1>7 DEF Calling
  <2>5. md_used' = (md_used \ {old.block}) \cup {block} /\ (block \notin md_used \/ block = old.block)
    BY DEF old
  <2>6. ptr.block \in md_used' \ OwnBlocks /\ OwnBlocks \subseteq md_used'
    BY <1>3, <1>4, <2>1, <2>5
  <2>7. \A u, w \in MD_Threads, p, q \in Pointers : Calling(u, p)' /\ Calling(w, q)' /\ u # w => p.block # q.block
    <3>1. \A u, w \in MD_Threads, p, q \in Pointers : Calling(u, p) /\ Calling(w, q) /\ u # w => p.block # q.block
      BY <1>1 DEF OneOwner
    <3>2. \A u \in MD_Threads, p \in Pointers : Calling(u, p) /\ u # t => p.block # ptr.block
      BY <1>4, <2>3, <2>5
    <3> QED
      BY <2>4, <3>1, <3>2
  <2>8. \A p \in DOMAIN md_live : p.block # ptr.block /\ p.block \in md_used'
    BY <1>4, <2>2, <2>5
  <2>9. \A u \in MD_Threads, p \in Pointers : Calling(u, p)' => p.block \in md_used' \ OwnBlocks
    BY <2>3, <2>4, <2>5, <2>6
  <2> QED
    BY <1>1, <2>1, <2>2, <2>4, <2>6, <2>7, <2>8, <2>9 DEF OneOwner
<1>15. Rows'
  <2> USE DEF recording
  <2>1. \A u \in MD_Threads : u # t => md_call'[u] = md_call[u]
    BY <1>7
  <2>2. md_call'[t].step = "record malloc"
    BY <1>5, <1>7
  <2>3. ASSUME NEW p \in md_stale PROVE StaleHasRow(p)'
    <3>1. StaleHasRow(p)
      BY <1>1 DEF Rows
    <3> QED
      BY <2>1, <3>1 DEF StaleHasRow
  <2>4. ASSUME NEW u \in MD_Threads PROVE CallHasRow(u)'
    <3>1. CallHasRow(u)
      BY <1>1 DEF Rows
    <3> QED
      BY <1>2, <2>1, <2>2, <3>1 DEF CallHasRow, IsNew, IsFreed
  <2>5. ASSUME NEW p \in DOMAIN md_table PROVE RowTrue(p)'
    <3>1. RowTrue(p)
      BY <1>1 DEF Rows
    <3> QED
      BY <1>2, <1>9, <1>10, <3>1 DEF RowTrue
  <2> QED
    BY <1>1, <2>3, <2>4, <2>5 DEF Rows, SizesKnown
<1> QED
  BY <1>8, <1>13, <1>14, <1>15 DEF MDWorks

LEMMA ReallocFails ==
  ASSUME MDWorks, NEW t \in MD_Threads, md_call[t].step = "realloc",
         md_live' = Updated(md_live, md_call[t].ptr, md_call[t].size),
         md_stale' = md_stale \cup {md_call[t].ptr},
         Enter(t, NoMemCall),
         UNCHANGED <<md_tracing, md_used, md_marker, md_lock, recording, md_calls>>
  PROVE  MDWorks'
<1> DEFINE old == md_call[t].ptr
<1>1. MD_TypeOK /\ Locked /\ OneOwner /\ Rows
  BY DEF MDWorks
<1>2. /\ md_call[t] # NoMemCall /\ old \in Pointers /\ t # md_lock
      /\ Calling(t, old) /\ Known(old) /\ old \notin DOMAIN md_live
      /\ \A u \in MD_Threads : u # t /\ md_call[u] # NoMemCall => md_call[u].ptr # old
      /\ md_lock # Nobody => md_call[md_lock].ptr # old
      /\ old \notin WantedOfClients
      /\ old \in DOMAIN md_table /\ ~md_table[old].malloced
  BY GivingBack
<1>3. md_call[t].size \in Nat
  <2>1. md_call[t] \in [step : {"record free", "free", "realloc"}, ptr : Pointers,
                        for : {"free", "realloc"}, size : Nat]
    BY <1>1, CallIs
  <2> QED
    BY <2>1
<1>4. /\ md_call'[t] = NoMemCall /\ \A u \in MD_Threads : u # t => md_call'[u] = md_call[u]
      /\ md_call' \in [MD_Threads -> MemCalls]
  BY <1>1, CallEntered DEF MemCalls
<1>5. /\ DOMAIN md_live' = DOMAIN md_live \cup {old}
      /\ \A p \in DOMAIN md_live : p # old => md_live'[p] = md_live[p]
      /\ md_live' \in [DOMAIN md_live' -> Nat]
  <2>1. md_live \in [DOMAIN md_live -> Nat]
    BY <1>1 DEF MD_TypeOK
  <2>2. Updated(md_live, old, md_call[t].size) \in [DOMAIN Updated(md_live, old, md_call[t].size) -> Nat]
    BY <1>3, <2>1, UpdatedType
  <2>3. md_live' = Updated(md_live, old, md_call[t].size)
    OBVIOUS
  <2>4. md_live' \in [DOMAIN md_live' -> Nat]
    BY <2>2, <2>3
  <2> QED
    BY <2>3, <2>4 DEF Updated
<1>6. md_stale' = md_stale \cup {old}
  OBVIOUS
<1> HIDE DEF old
<1>8. MD_TypeOK'
  <2>1. md_stale' \subseteq Pointers /\ DOMAIN md_live' \subseteq Pointers
    BY <1>1, <1>2, <1>5, <1>6 DEF MD_TypeOK
  <2> QED
    BY <1>1, <1>4, <1>5, <2>1 DEF MD_TypeOK, recording
<1>9. \A p : Known(p)' => Known(p)
  BY <1>2, <1>4, <1>5 DEF Known, Calling
<1>10. \A p : Known(p) => Known(p)'
  BY <1>4, <1>5 DEF Known, Calling, old
<1>11. \A p \in Pointers : p \in WantedOfClients' <=> p \in WantedOfClients
  <2>2. old \notin WantedOfClients'
    BY <1>6 DEF WantedOfClients
  <2>3. ASSUME NEW p \in Pointers, p # old PROVE p \in WantedOfClients' <=> p \in WantedOfClients
    <3>1. /\ p \in md_stale' <=> p \in md_stale
          /\ p \in DOMAIN md_live' <=> p \in DOMAIN md_live
      BY <1>5, <1>6, <2>3
    <3>2. ASSUME NEW u \in MD_Threads
          PROVE  /\ Calling(u, p)' <=> Calling(u, p)
                 /\ Calling(u, p) => md_call'[u] = md_call[u]
      BY <1>4, <2>3 DEF Calling, old
    <3> QED
      BY <3>1, <3>2 DEF WantedOfClients
  <2> QED
    BY <1>2, <2>2, <2>3
<1>12. /\ md_lock # Nobody => md_call'[md_lock] = md_call[md_lock]
       /\ md_lock # Nobody => (md_call[md_lock].ptr \in md_stale' <=> md_call[md_lock].ptr \in md_stale)
  BY <1>1, <1>2, <1>4, <1>6, LockHolder
<1>13. Locked' /\ Noting' /\ Growth'
  BY <1>9, <1>11, <1>12, Quiet
<1>14. OneOwner'
  <2> USE DEF recording
  <2>1. OwnBlocks' = OwnBlocks
    BY DEF OwnBlocks
  <2>2. old.block \in md_used \ OwnBlocks /\ \A q \in DOMAIN md_live : q.block # old.block
    BY <1>1, <1>2 DEF OneOwner
  <2>3. \A u \in MD_Threads, p \in Pointers : Calling(u, p)' => Calling(u, p) /\ u # t
    BY <1>4 DEF Calling
  <2>4. \A u \in MD_Threads, p \in Pointers : Calling(u, p)' => p.block # old.block
    BY <1>1, <1>2, <2>3 DEF OneOwner
  <2>5. \A p \in DOMAIN md_live' : p = old \/ p \in DOMAIN md_live
    BY <1>5
  <2>6. \A p, q \in DOMAIN md_live : p.block = q.block => p = q
    BY <1>1 DEF OneOwner
  <2>7. \A p, q \in DOMAIN md_live' : p.block = q.block => p = q
    BY <2>2, <2>5, <2>6
  <2>8. \A p \in DOMAIN md_live' : p.block \in md_used \ OwnBlocks
    BY <1>1, <2>2, <2>5 DEF OneOwner
  <2>9. \A u \in MD_Threads, p \in Pointers, q \in DOMAIN md_live' : Calling(u, p)' => p.block # q.block
    BY <1>1, <2>3, <2>4, <2>5 DEF OneOwner
  <2> QED
    BY <1>1, <2>1, <2>3, <2>7, <2>8, <2>9 DEF OneOwner
<1>15. Rows'
  <2> USE DEF recording
  <2>1. \A u \in MD_Threads : u # t => md_call'[u] = md_call[u]
    BY <1>4
  <2>2. md_call'[t].step = "idle"
    BY <1>4 DEF NoMemCall
  <2>3. ASSUME NEW p \in md_stale' PROVE StaleHasRow(p)'
    <3>1. CASE p = old
      BY <1>2, <1>5, <3>1 DEF StaleHasRow
    <3>2. CASE p # old
      <4>1. StaleHasRow(p)
        BY <1>1, <1>6, <3>2 DEF Rows
      <4> QED
        BY <1>5, <2>1, <4>1 DEF StaleHasRow
    <3> QED
      BY <3>1, <3>2
  <2>4. ASSUME NEW u \in MD_Threads PROVE CallHasRow(u)'
    <3>1. CallHasRow(u)
      BY <1>1 DEF Rows
    <3> QED
      BY <1>2, <2>1, <2>2, <3>1 DEF CallHasRow, IsNew, IsFreed
  <2>5. ASSUME NEW p \in DOMAIN md_table PROVE RowTrue(p)'
    <3>1. RowTrue(p)
      BY <1>1 DEF Rows
    <3> QED
      BY <1>9, <1>10, <3>1 DEF RowTrue
  <2>6. SizesKnown'
    BY <1>1, <1>5, <1>6 DEF Rows, SizesKnown
  <2> QED
    BY <1>1, <2>3, <2>4, <2>5, <2>6 DEF Rows
<1> QED
  BY <1>8, <1>13, <1>14, <1>15 DEF MDWorks

LEMMA ReallocWorks ==
  ASSUME MDWorks, NEW t \in MD_Threads, Realloc(t)
  PROVE  MDWorks'
  BY ReallocMoves, ReallocFails DEF Realloc

LEMMA OverrunWorks ==
  ASSUME MDWorks, NEW p \in Pointers, Overrun(p)
  PROVE  MDWorks'
<1>1. /\ p \in DOMAIN md_live /\ md_marker' = Updated(md_marker, p, Broken)
      /\ UNCHANGED <<md_tracing, md_used, md_live, md_stale, md_call, md_lock, recording, md_calls>>
  BY DEF Overrun
<1>2. MD_TypeOK /\ Locked /\ OneOwner /\ Rows
  BY DEF MDWorks
<1>3. /\ DOMAIN md_marker' = DOMAIN md_marker \cup {p}
      /\ md_marker'[p] = Broken
      /\ \A q \in DOMAIN md_marker : q # p => md_marker'[q] = md_marker[q]
      /\ md_marker' \in [DOMAIN md_marker' -> Int]
  <2>1. md_marker \in [DOMAIN md_marker -> Int] /\ Broken \in Int
    BY <1>2 DEF MD_TypeOK, Broken
  <2>2. Updated(md_marker, p, Broken) \in [DOMAIN Updated(md_marker, p, Broken) -> Int]
    BY <2>1, UpdatedType
  <2>3. md_marker' \in [DOMAIN md_marker' -> Int]
    BY <1>1, <2>2
  <2> QED
    BY <1>1, <2>3 DEF Updated
<1>4. MD_TypeOK' /\ OneOwner'
  BY <1>1, <1>2, <1>3 DEF MD_TypeOK, OneOwner, OwnBlocks, Calling, recording
<1>5. /\ \A q : Known(q)' <=> Known(q)
      /\ \A q \in Pointers : q \in WantedOfClients' <=> q \in WantedOfClients
  BY <1>1 DEF Known, WantedOfClients, Calling
<1>6. Locked' /\ Noting' /\ Growth'
  BY <1>1, <1>5, Quiet
<1>7. Rows'
  <2> USE <1>1 DEF recording
  <2>1. ASSUME NEW q \in DOMAIN md_table PROVE RowTrue(q)'
    <3>1. RowTrue(q)
      BY <1>2 DEF Rows
    <3> QED
      BY <1>3, <1>5, <3>1 DEF RowTrue
  <2> QED
    BY <1>2, <2>1 DEF Rows, SizesKnown, CallHasRow, IsNew, IsFreed, StaleHasRow
<1> QED
  BY <1>4, <1>6, <1>7 DEF MDWorks

LEMMA TraceCallsWorks ==
  ASSUME MDWorks, TraceCalls
  PROVE  MDWorks'
<1>1. /\ md_tracing' = "calls"
      /\ UNCHANGED <<md_used, md_live, md_marker, md_stale, md_call, md_lock, recording, md_calls>>
  BY DEF TraceCalls
<1>2. MD_TypeOK /\ Locked /\ OneOwner /\ Rows
  BY DEF MDWorks
<1>4. MD_TypeOK' /\ OneOwner'
  BY <1>1, <1>2 DEF MD_TypeOK, OneOwner, OwnBlocks, Calling, recording
<1>5. /\ \A q : Known(q)' <=> Known(q)
      /\ \A q \in Pointers : q \in WantedOfClients' <=> q \in WantedOfClients
  BY <1>1 DEF Known, WantedOfClients, Calling
<1>6. Locked' /\ Noting' /\ Growth'
  BY <1>1, <1>5, Quiet
<1>7. Rows'
  <2> USE <1>1 DEF recording
  <2>1. ASSUME NEW q \in DOMAIN md_table PROVE RowTrue(q)'
    <3>1. RowTrue(q)
      BY <1>2 DEF Rows
    <3> QED
      BY <1>5, <3>1 DEF RowTrue
  <2> QED
    BY <1>2, <2>1 DEF Rows, SizesKnown, CallHasRow, IsNew, IsFreed, StaleHasRow
<1> QED
  BY <1>4, <1>6, <1>7 DEF MDWorks

LEMMA UsableSizeWorks ==
  ASSUME MDWorks, NEW t \in MD_Threads, UsableSize(t)
  PROVE  MDWorks'
<1> DEFINE ptr == md_call[t].ptr
<1>1. MD_TypeOK /\ Locked /\ OneOwner /\ Noting /\ Rows /\ Growth
  BY DEF MDWorks
<1>2. /\ md_call[t].step = "measure" /\ md_lock = Nobody /\ Enter(t, NoMemCall)
      /\ UNCHANGED <<md_tracing, md_used, md_stale, md_lock, md_item, md_stage, md_room,
                     md_num_buckets, md_own, md_array, md_first, md_overflow, md_report, md_calls>>
  BY DEF UsableSize
<1>3. PICK slop \in MD_Slop :
        /\ md_live' = Updated(md_live, ptr, 1 + slop)
        /\ IF ptr.marked /\ slop > 0
           THEN /\ md_table' = [md_table EXCEPT ![ptr].size = 1 + slop]
                /\ md_marker' = Updated(md_marker, ptr, 1 + slop)
           ELSE UNCHANGED <<md_table, md_marker>>
  BY DEF UsableSize
<1>4. slop \in Nat
  BY MemDiagAssumption
<1>5. /\ md_call[t] # NoMemCall /\ ptr \in Pointers /\ ptr \in DOMAIN md_table /\ md_table[ptr].size = 1
      /\ Calling(t, ptr)
  <2>1. md_call[t] # NoMemCall /\ ptr \in Pointers
    BY <1>1, <1>2, CallIs
  <2>2. CallHasRow(t) /\ IsNew(t)
    BY <1>1, <1>2 DEF Rows, IsNew
  <2> QED
    BY <2>1, <2>2 DEF CallHasRow, Calling
<1>6. /\ md_call'[t] = NoMemCall /\ \A u \in MD_Threads : u # t => md_call'[u] = md_call[u]
      /\ md_call' \in [MD_Threads -> MemCalls]
  BY <1>1, <1>2, CallEntered DEF MemCalls
<1> HIDE DEF ptr
<1>7. /\ DOMAIN md_live' = DOMAIN md_live \cup {ptr}
      /\ md_live'[ptr] = 1 + slop
      /\ \A p \in DOMAIN md_live : p # ptr => md_live'[p] = md_live[p]
  BY <1>3 DEF Updated
<1>8. md_live' \in [DOMAIN md_live' -> Nat]
  <2>1. md_live \in [DOMAIN md_live -> Nat] /\ 1 + slop \in Nat
    BY <1>1, <1>4 DEF MD_TypeOK
  <2>2. Updated(md_live, ptr, 1 + slop) \in [DOMAIN Updated(md_live, ptr, 1 + slop) -> Nat]
    BY <2>1, UpdatedType
  <2> QED
    BY <1>3, <2>2
<1>9. /\ DOMAIN md_table' = DOMAIN md_table
      /\ \A p \in DOMAIN md_table :
           /\ md_table'[p].malloced = md_table[p].malloced
           /\ md_table'[p].bookkeeping = md_table[p].bookkeeping
           /\ md_table'[p].marked = md_table[p].marked
           /\ md_table'[p].size = IF p = ptr /\ ptr.marked THEN 1 + slop ELSE md_table[p].size
      /\ md_table' \in [DOMAIN md_table' -> [malloced : BOOLEAN, bookkeeping : BOOLEAN, marked : BOOLEAN, size : Nat]]
  <2>1. md_table \in [DOMAIN md_table -> [malloced : BOOLEAN, bookkeeping : BOOLEAN, marked : BOOLEAN, size : Nat]]
    BY <1>1 DEF MD_TypeOK
  <2>2. CASE ptr.marked /\ slop > 0
    <3>1. md_table' = [md_table EXCEPT ![ptr].size = 1 + slop]
      BY <1>3, <2>2
    <3> QED
      BY <1>4, <1>5, <2>1, <2>2, <3>1
  <2>3. CASE ~(ptr.marked /\ slop > 0)
    <3>1. md_table' = md_table
      BY <1>3, <2>3
    <3> QED
      BY <1>4, <1>5, <2>1, <2>3, <3>1
  <2> QED
    BY <2>2, <2>3
<1>10. /\ DOMAIN md_marker \subseteq DOMAIN md_marker'
       /\ \A p \in DOMAIN md_marker : p # ptr => md_marker'[p] = md_marker[p]
       /\ ptr.marked /\ slop > 0 => ptr \in DOMAIN md_marker' /\ md_marker'[ptr] = 1 + slop
       /\ ~(ptr.marked /\ slop > 0) => md_marker' = md_marker
  BY <1>3 DEF Updated
<1>11. md_marker' \in [DOMAIN md_marker' -> Int]
  <2>1. md_marker \in [DOMAIN md_marker -> Int] /\ 1 + slop \in Int
    BY <1>1, <1>4 DEF MD_TypeOK
  <2>2. Updated(md_marker, ptr, 1 + slop) \in [DOMAIN Updated(md_marker, ptr, 1 + slop) -> Int]
    BY <2>1, UpdatedType
  <2> QED
    BY <1>3, <2>1, <2>2
<1>12. MD_TypeOK'
  <2>1. DOMAIN md_live' \subseteq Pointers
    BY <1>1, <1>5, <1>7 DEF MD_TypeOK
  <2> QED
    BY <1>1, <1>2, <1>6, <1>8, <1>9, <1>11, <2>1 DEF MD_TypeOK
<1>13. Locked'
  BY <1>1, <1>2 DEF Locked
<1>14. /\ \A p : Known(p)' => Known(p)
       /\ \A p : Known(p) => Known(p)'
  <2>1. \A p : Known(p)' => Known(p)
    BY <1>2, <1>5, <1>6, <1>7 DEF Known, Calling
  <2>2. \A p : Known(p) => Known(p)'
    BY <1>2, <1>6, <1>7 DEF Known, Calling, ptr
  <2> QED
    BY <2>1, <2>2
<1>15. \A p \in Pointers : p \in WantedOfClients' <=> p \in WantedOfClients
  <2>1. ASSUME NEW p \in Pointers, p # ptr PROVE p \in WantedOfClients' <=> p \in WantedOfClients
    <3>1. p \in DOMAIN md_live' <=> p \in DOMAIN md_live
      BY <1>7, <2>1
    <3>2. ASSUME NEW u \in MD_Threads
          PROVE  /\ Calling(u, p)' <=> Calling(u, p)
                 /\ Calling(u, p) => md_call'[u] = md_call[u]
      BY <1>6, <2>1 DEF Calling, ptr
    <3> QED
      BY <1>2, <3>1, <3>2 DEF WantedOfClients
  <2>2. ptr \in WantedOfClients <=> ptr \notin md_stale
    BY <1>2, <1>5 DEF WantedOfClients
  <2>3. ptr \in WantedOfClients' <=> ptr \notin md_stale
    BY <1>2, <1>5, <1>7 DEF WantedOfClients
  <2> QED
    BY <2>1, <2>2, <2>3
<1>16. Noting'
  <2>1. \A p \in Pointers : Base[p] <=> p \in Wanted
    BY <1>1, <1>2, NothingTodo, NothingToRecord DEF Noting
  <2>2. Wanted' = Wanted
    <3>1. WantedOfClients \subseteq Pointers /\ WantedOfClients' \subseteq Pointers
      BY DEF WantedOfClients
    <3>2. OwnBlocks' = OwnBlocks
      BY <1>2 DEF OwnBlocks
    <3> QED
      BY <1>15, <3>1, <3>2 DEF Wanted
  <2>3. Base' = Base
    BY <1>9 DEF Base
  <2>4. \A p \in Pointers : Base'[p] <=> p \in Wanted'
    BY <2>1, <2>2, <2>3
  <2>5. DOMAIN ToRecord' = {}
    <3>1. md_stage' = "none" /\ Len(md_array') = 0 /\ md_first' = 0
      BY <1>1, <1>2 DEF Locked
    <3> QED
      BY <3>1 DEF ToRecord, Todo
  <2>6. Leads(ToRecord', Base', Wanted')
    BY <2>4, <2>5, NothingToRecord
  <2> QED
    BY <1>1, <1>2, <2>6 DEF Noting, Locked
<1>17. OneOwner'
  <2>1. OwnBlocks' = OwnBlocks
    BY <1>2 DEF OwnBlocks
  <2>2. ptr.block \in md_used \ OwnBlocks /\ \A q \in DOMAIN md_live : q.block # ptr.block
    BY <1>1, <1>5 DEF OneOwner
  <2>3. \A u \in MD_Threads, p \in Pointers : Calling(u, p)' => Calling(u, p) /\ u # t
    BY <1>6 DEF Calling
  <2>4. \A u \in MD_Threads, p \in Pointers : Calling(u, p)' => p.block # ptr.block
    BY <1>1, <1>5, <2>3 DEF OneOwner
  <2>5. \A p \in DOMAIN md_live' : p = ptr \/ p \in DOMAIN md_live
    BY <1>7
  <2>6. \A p, q \in DOMAIN md_live : p.block = q.block => p = q
    BY <1>1 DEF OneOwner
  <2>7. \A p, q \in DOMAIN md_live' : p.block = q.block => p = q
    BY <2>2, <2>5, <2>6
  <2>8. \A p \in DOMAIN md_live' : p.block \in md_used \ OwnBlocks
    BY <1>1, <2>2, <2>5 DEF OneOwner
  <2>9. \A u \in MD_Threads, p \in Pointers, q \in DOMAIN md_live' : Calling(u, p)' => p.block # q.block
    BY <1>1, <2>3, <2>4, <2>5 DEF OneOwner
  <2> QED
    BY <1>1, <1>2, <2>1, <2>3, <2>7, <2>8, <2>9 DEF OneOwner
<1>18. Rows'
  <2>1. ASSUME NEW p \in md_stale' PROVE StaleHasRow(p)'
    <3>1. StaleHasRow(p)
      BY <1>1, <1>2 DEF Rows
    <3> QED
      BY <1>2, <1>6, <1>7, <1>9, <3>1 DEF StaleHasRow
  <2>2. ASSUME NEW u \in MD_Threads PROVE CallHasRow(u)'
    <3>1. CallHasRow(u)
      BY <1>1 DEF Rows
    <3>2. CASE u = t
      <4>1. md_call'[u].step = "idle" /\ md_lock' # t
        BY <1>2, <1>6, <3>2, NobodyCalls DEF NoMemCall
      <4> QED
        BY <3>2, <4>1 DEF CallHasRow, IsNew, IsFreed
    <3>3. CASE u # t
      <4>1. md_lock' # u /\ md_lock # u
        BY <1>2, NobodyCalls
      <4>2. md_call[u] # NoMemCall => md_call[u].ptr \in Pointers /\ md_call[u].ptr # ptr
        BY <1>1, <1>5, <3>3, CallIs DEF OneOwner, Calling
      <4>3. md_call[u].step = "measure" => md_call[u] # NoMemCall
        BY DEF NoMemCall
      <4> QED
        BY <1>6, <1>9, <3>1, <3>3, <4>1, <4>2, <4>3 DEF CallHasRow, IsNew, IsFreed
    <3> QED
      BY <3>2, <3>3
  <2>3. ASSUME NEW p \in DOMAIN md_table PROVE RowTrue(p)'
    <3>1. RowTrue(p)
      BY <1>1 DEF Rows
    <3>2. md_stage # "buckets" /\ md_stage' = md_stage
      BY <1>1, <1>2 DEF Locked
    <3>3. md_table'[p].malloced => (md_table'[p].bookkeeping <=> ~Known(p)')
      BY <1>9, <1>14, <3>1 DEF RowTrue
    <3>4. ASSUME md_table'[p].malloced, ~md_table'[p].bookkeeping, p.marked
          PROVE  p \in DOMAIN md_marker' /\ md_marker'[p] \in {md_table'[p].size, Broken}
      <4>1. p \in DOMAIN md_marker /\ md_marker[p] \in {md_table[p].size, Broken}
        BY <1>9, <3>1, <3>2, <3>4 DEF RowTrue
      <4>2. CASE p = ptr /\ slop > 0
        BY <1>9, <1>10, <3>4, <4>2
      <4>3. CASE p = ptr /\ ~(slop > 0)
        <5>1. md_marker' = md_marker /\ md_table'[p].size = md_table[p].size
          BY <1>4, <1>5, <1>9, <1>10, <4>3
        <5> QED
          BY <4>1, <5>1
      <4>4. CASE p # ptr
        BY <1>9, <1>10, <4>1, <4>4
      <4> QED
        BY <4>2, <4>3, <4>4
    <3> QED
      BY <1>9, <3>1, <3>3, <3>4 DEF RowTrue
  <2>4. SizesKnown'
    <3>1. ASSUME NEW p \in DOMAIN md_live' \ md_stale', p.marked
          PROVE  p \in DOMAIN md_table' /\ md_table'[p].size = md_live'[p]
      <4>1. CASE p = ptr
        BY <1>5, <1>7, <1>9, <3>1, <4>1
      <4>2. CASE p # ptr
        BY <1>1, <1>2, <1>7, <1>9, <3>1, <4>2 DEF Rows, SizesKnown
      <4> QED
        BY <4>1, <4>2
    <3> QED
      BY <3>1 DEF SizesKnown
  <2> QED
    BY <1>1, <1>2, <1>9, <2>1, <2>2, <2>3, <2>4 DEF Rows, Locked
<1>19. Growth'
  BY <1>1, <1>2, <1>9 DEF Growth, RowsGrew, BucketsGrew, NumRows, Items
<1> QED
  BY <1>12, <1>13, <1>16, <1>17, <1>18, <1>19 DEF MDWorks

----------------------------------------------------------------------------
(* Steps under the mutex.                                                  *)

(* The mutex is taken: what the call is for is the first to be recorded.   *)
LEMMA RecordStarts ==
  ASSUME MDWorks, RoomForNotes, NEW t \in MD_Threads, Record(t)
  PROVE  /\ md_lock' = t /\ md_stage' = "find" /\ md_first' = 0 /\ md_lock = Nobody
         /\ md_call[t].ptr \in Pointers /\ md_call[t] # NoMemCall
         /\ Calling(t, md_call[t].ptr)
         /\ md_call[t].step \in {"record malloc", "record free"}
         /\ md_array = <<>> /\ md_first = 0 /\ Len(md_array) = 0 /\ md_stage = "none"
         /\ md_item' = [ptr |-> md_call[t].ptr, malloced |-> md_call[t].step = "record malloc",
                        bookkeeping |-> FALSE, marked |-> md_call[t].ptr.marked]
         /\ UNCHANGED <<md_tracing, md_live, md_marker, md_stale, md_call, md_table,
                        md_num_buckets, md_first, md_report, md_calls>>
         /\ \/ md_room > 0 /\ UNCHANGED <<md_room, md_own, md_used, md_array>> /\ (~md_overflow => ~md_overflow')
            \/ /\ md_room = 0 /\ md_own.rows = {}
               /\ \E block \in MD_Blocks \ md_used :
                    /\ md_room' = MD_FirstRoom
                    /\ md_own' = [md_own EXCEPT !.rows = {block}]
                    /\ md_used' = md_used \cup {block}
                    /\ md_array' = <<[ptr |-> Pointer(block, TRUE), malloced |-> TRUE]>>
                    /\ ~md_overflow => ~md_overflow'
<1>1. MD_TypeOK /\ Locked /\ Growth
  BY DEF MDWorks
<1>2. /\ md_call[t].step \in {"record malloc", "record free"} /\ md_lock = Nobody /\ md_lock' = t
      /\ md_stage' = "find"
      /\ md_item' = [ptr |-> md_call[t].ptr, malloced |-> md_call[t].step = "record malloc",
                     bookkeeping |-> FALSE, marked |-> md_call[t].ptr.marked]
      /\ UNCHANGED <<md_tracing, md_live, md_marker, md_stale, md_call, md_table,
                     md_num_buckets, md_first, md_report, md_calls>>
  BY DEF Record
<1>3. md_array = <<>> /\ md_first = 0 /\ Len(md_array) = 0 /\ md_stage = "none"
  BY <1>1, <1>2 DEF Locked
<1>4. md_call[t].ptr \in Pointers /\ md_call[t] # NoMemCall
  BY <1>1, <1>2, CallIs
<1>5. CASE md_room > 0
  BY <1>1, <1>2, <1>3, <1>4, <1>5 DEF Record, Calling
<1>6. CASE ~(md_room > 0)
  <2>1. PICK block \in MD_Blocks \ md_used :
          /\ md_room' = MD_FirstRoom
          /\ md_own' = [md_own EXCEPT !.rows = {block}]
          /\ md_used' = md_used \cup {block}
          /\ Noted(<<TakenBlock(block)>>)
    BY <1>6 DEF Record
  <2>2. md_room = 0 /\ md_own.rows = {}
    BY <1>1, <1>6 DEF MD_TypeOK, Growth
  <2>3. /\ md_array' = Append(md_array, [ptr |-> Pointer(block, TRUE), malloced |-> TRUE])
        /\ ~md_overflow => ~md_overflow'
    <3> DEFINE note == [ptr |-> Pointer(block, TRUE), malloced |-> TRUE]
               notes == <<TakenBlock(block)>>
    <3>1. note \in Notes
      BY PointerIs DEF Notes
    <3>2. Len(notes) = 1 /\ notes[1] = TakenBlock(block)
      OBVIOUS
    <3>3. TakenBlock(block).block = block /\ TakenBlock(block).malloced = TRUE
      BY DEF TakenBlock
    <3>4. note = [ptr |-> Pointer(notes[1].block, TRUE), malloced |-> notes[1].malloced]
      BY <3>2, <3>3
    <3>5. md_array \in Seq(Notes) /\ Len(md_array) + 1 <= MD_MaxBookkeeping /\ Noted(notes)
      BY <1>1, <1>3, <2>1, MemDiagAssumption DEF MD_TypeOK, Notes, RoomForNotes
    <3> HIDE DEF note, notes
    <3>6. /\ md_array' = Append(md_array, note)
          /\ ~md_overflow => ~md_overflow'
      BY <3>1, <3>2, <3>4, <3>5, NotedOne
    <3> QED
      BY <3>6 DEF note
  <2>4. md_array' = <<[ptr |-> Pointer(block, TRUE), malloced |-> TRUE]>>
    BY <1>3, <2>3
  <2> QED
    BY <1>2, <1>3, <1>4, <2>1, <2>2, <2>3, <2>4 DEF Calling
<1> QED
  BY <1>5, <1>6

(* A pointer that is about to be recorded.                                 *)
LEMMA RecordWanted ==
  ASSUME MDWorks, NEW t \in MD_Threads, md_lock = Nobody, md_call[t] # NoMemCall,
         md_call[t].step \in {"record malloc", "record free"}, md_call[t].ptr \in Pointers
  PROVE  /\ \A p \in Pointers : (p \in DOMAIN md_table /\ md_table[p].malloced) <=> p \in Wanted
         /\ md_call[t].ptr.block \in md_used \ OwnBlocks
         /\ md_call[t].step = "record malloc" => md_call[t].ptr \notin Wanted /\ md_call[t].ptr \notin md_stale
         /\ md_call[t].step = "record free" => (md_call[t].ptr \in Wanted <=> md_call[t].ptr \notin md_stale)
<1> DEFINE ptr == md_call[t].ptr
<1>1. MD_TypeOK /\ Locked /\ OneOwner /\ Noting /\ Rows /\ Calling(t, ptr)
  BY DEF MDWorks, Calling
<1>2. \A p \in Pointers : Base[p] <=> p \in Wanted
  BY <1>1, NothingTodo, NothingToRecord DEF Noting
<1>3. ptr.block \in md_used \ OwnBlocks /\ ptr \notin DOMAIN md_live
  BY <1>1 DEF OneOwner
<1>4. \A u \in MD_Threads : Calling(u, ptr) => u = t
  BY <1>1 DEF OneOwner
<1>5. ASSUME md_call[t].step = "record malloc"
      PROVE  ptr \notin Wanted /\ ptr \notin md_stale
  <2>1. ptr \notin WantedOfClients
    BY <1>3, <1>4, <1>5, NobodyCalls DEF WantedOfClients
  <2>2. ptr \notin md_stale
    <3> SUFFICES ASSUME ptr \in md_stale PROVE FALSE
      OBVIOUS
    <3>1. PICK u \in MD_Threads : md_call[u].step = "record free" /\ md_call[u].ptr = ptr
      BY <1>1, <1>3 DEF Rows, StaleHasRow
    <3>2. Calling(u, ptr)
      BY <1>1, <3>1, CallIs DEF Calling
    <3> QED
      BY <1>4, <1>5, <3>1, <3>2
  <2> QED
    BY <1>3, <2>1, <2>2 DEF Wanted
<1>6. ASSUME md_call[t].step = "record free"
      PROVE  ptr \in Wanted <=> ptr \notin md_stale
  BY <1>1, <1>3, <1>6, NobodyCalls DEF Wanted, WantedOfClients
<1> QED
  BY <1>2, <1>3, <1>5, <1>6 DEF Base

(* What is wanted once the call is recorded.                               *)
LEMMA WantedWhenRecorded ==
  ASSUME MDWorks, NEW t \in MD_Threads, md_lock = Nobody, md_lock' = t, md_call[t] # NoMemCall,
         md_call[t].step \in {"record malloc", "record free"}, md_call[t].ptr \in Pointers,
         UNCHANGED <<md_live, md_stale, md_call>>
  PROVE  \A p \in Pointers :
           p \in WantedOfClients' <=>
             IF p = md_call[t].ptr /\ p \notin md_stale THEN md_call[t].step = "record malloc"
             ELSE p \in WantedOfClients
<1> DEFINE ptr == md_call[t].ptr
<1>1. MD_TypeOK /\ OneOwner /\ Calling(t, ptr)
  BY DEF MDWorks, Calling
<1>2. ptr \notin DOMAIN md_live
  BY <1>1 DEF OneOwner
<1>3. \A u \in MD_Threads : Calling(u, ptr) => u = t
  BY <1>1 DEF OneOwner
<1>4. ASSUME NEW p \in Pointers, p # ptr
      PROVE  p \in WantedOfClients' <=> p \in WantedOfClients
  <2>1. ~Calling(t, p)
    BY <1>4 DEF Calling
  <2>2. \A u \in MD_Threads : Calling(u, p)' <=> Calling(u, p)
    BY DEF Calling
  <2>3. \A u \in MD_Threads : u # md_lock
    BY NobodyCalls
  <2> QED
    BY <2>1, <2>2, <2>3 DEF WantedOfClients
<1>5. ptr \in md_stale => ptr \notin WantedOfClients' /\ ptr \notin WantedOfClients
  BY DEF WantedOfClients
<1>6. ptr \notin md_stale => (ptr \in WantedOfClients' <=> md_call[t].step = "record malloc")
  <2>1. \A u \in MD_Threads : Calling(u, ptr)' => u = t
    BY <1>3 DEF Calling
  <2>2. Calling(t, ptr)'
    BY <1>1 DEF Calling
  <2> QED
    BY <1>2, <2>1, <2>2 DEF WantedOfClients
<1> QED
  BY <1>4, <1>5, <1>6

LEMMA RecordNotes ==
  ASSUME MDWorks, RoomForNotes, NEW t \in MD_Threads, Record(t)
  PROVE  Noting'
<1> DEFINE ptr == md_call[t].ptr
           m == md_call[t].step = "record malloc"
           note == [ptr |-> ptr, malloced |-> m]
           q1 == [n \in IF ptr \in md_stale THEN {} ELSE {0} |-> note]
           want1 == {p \in Pointers : IF p = ptr /\ p \notin md_stale THEN m ELSE p \in Wanted}
<1>1. MD_TypeOK /\ Locked /\ OneOwner /\ Noting /\ Rows
  BY DEF MDWorks
<1>2. /\ md_lock' = t /\ md_stage' = "find" /\ md_first' = 0 /\ md_lock = Nobody
      /\ ptr \in Pointers /\ md_call[t] # NoMemCall
      /\ Calling(t, ptr)
      /\ md_call[t].step \in {"record malloc", "record free"}
      /\ md_array = <<>> /\ md_first = 0 /\ Len(md_array) = 0 /\ md_stage = "none"
      /\ UNCHANGED <<md_live, md_stale, md_call, md_table, md_first>>
  BY RecordStarts
<1>3. /\ \A p \in Pointers : (p \in DOMAIN md_table /\ md_table[p].malloced) <=> p \in Wanted
      /\ ptr.block \in md_used \ OwnBlocks
      /\ m => ptr \notin Wanted /\ ptr \notin md_stale
      /\ md_call[t].step = "record free" => (ptr \in Wanted <=> ptr \notin md_stale)
  BY <1>2, RecordWanted
<1>4. note \in Notes
  BY <1>2 DEF Notes
<1>5. Base' = Base /\ \A p \in Pointers : Base[p] <=> p \in Wanted
  BY <1>2, <1>3 DEF Base
<1>6. Leads(q1, Base, want1)
  <2>1. CASE ptr \in md_stale
    <3>1. DOMAIN q1 = {}
      BY <2>1
    <3>2. \A p \in Pointers : p \in want1 <=> p \in Wanted
      BY <2>1
    <3> HIDE DEF q1, want1
    <3> QED
      BY <1>5, <3>1, <3>2, NothingToRecord
  <2>2. CASE ptr \notin md_stale
    <3>1. DOMAIN q1 = {0} /\ q1[0] = note
      BY <2>2
    <3>2. \A p \in Pointers : p \in want1 <=> IF p = note.ptr THEN note.malloced ELSE p \in Wanted
      BY <2>2
    <3>3. note.malloced <=> note.ptr \notin Wanted
      BY <1>2, <1>3, <2>2
    <3>4. DOMAIN ToRecord = {}
      BY <1>1, <1>2, NothingTodo
    <3>5. Leads(ToRecord, Base, Wanted)
      BY <1>1 DEF Noting
    <3> HIDE DEF q1, want1, note
    <3> QED
      BY <1>4, <3>1, <3>2, <3>3, <3>4, <3>5, NoteOne
  <2> QED
    BY <2>1, <2>2
<1>7. NoteAt(0)' = note
  BY <1>2 DEF NoteAt
<1>8. \A p \in Pointers : p \in WantedOfClients' <=>
        IF p = ptr /\ p \notin md_stale THEN m ELSE p \in WantedOfClients
  BY <1>2, WantedWhenRecorded
<1>9. Wanted \subseteq Pointers /\ WantedOfClients \subseteq Pointers
  BY DEF Wanted, WantedOfClients
<1>10. \A p \in Pointers : p \in want1 <=> (p \in WantedOfClients' \/ (p.marked /\ p.block \in OwnBlocks))
  <2> SUFFICES ASSUME NEW p \in Pointers
               PROVE  p \in want1 <=> (p \in WantedOfClients' \/ (p.marked /\ p.block \in OwnBlocks))
    OBVIOUS
  <2>1. p \in Wanted <=> (p \in WantedOfClients \/ (p.marked /\ p.block \in OwnBlocks))
    BY DEF Wanted
  <2>2. CASE p = ptr
    BY <1>3, <1>8, <2>1, <2>2
  <2>3. CASE p # ptr
    BY <1>8, <2>1, <2>3
  <2> QED
    BY <2>2, <2>3
<1>11. /\ DOMAIN q1 \subseteq {0} /\ \A k \in DOMAIN q1 : q1[k] = note
       /\ 0 \in DOMAIN q1 <=> ptr \notin md_stale
  OBVIOUS
<1>note. note.ptr = ptr /\ (note.malloced <=> m)
  OBVIOUS
<1>begun. md_first' = 0 /\ md_stage' = "find" /\ md_stale' = md_stale
  BY <1>2
<1> HIDE DEF q1, want1, note, m
<1>12. \A n \in Int : n <= 0 => (n \in Todo' <=> n \in DOMAIN q1)
  <2>1. Len(md_array)' \in Nat
    <3>1. CASE UNCHANGED md_array
      BY <1>2, <3>1
    <3>2. CASE ~UNCHANGED md_array
      <4>1. PICK note1 : md_array' = <<note1>>
        BY <3>2, RecordStarts
      <4> QED
        BY <4>1
    <3> QED
      BY <3>1, <3>2
  <2>2. 0 \in Todo' <=> ptr \notin md_stale
    BY <1>7, <1>note, <1>begun, <2>1 DEF Todo
  <2>3. \A n \in Int : n < 0 => n \notin Todo'
    BY DEF Todo
  <2>4. \A n \in Int : n < 0 => n \notin DOMAIN q1
    BY <1>11
  <2> QED
    BY <1>11, <2>2, <2>3, <2>4
<1>13. CASE UNCHANGED <<md_room, md_own, md_used, md_array>>
  <2>1. Todo' = DOMAIN q1
    <3>1. Todo' \subseteq {0}
      <4>1. Len(md_array') = 0
        BY <1>2, <1>13
      <4>2. \A n \in 0 .. Len(md_array') : n = 0
        BY <4>1
      <4> QED
        BY <4>2 DEF Todo
    <3>2. 0 \in Todo' <=> 0 \in DOMAIN q1
      BY <1>12
    <3> QED
      BY <1>11, <3>1, <3>2
  <2>2. ToRecord' = [n \in DOMAIN q1 |-> q1[n]]
    <3>1. \A n \in Todo' : NoteAt(n)' = q1[n]
      BY <1>7, <1>11, <2>1
    <3> QED
      BY <2>1, <3>1 DEF ToRecord
  <2>3. q1 = [n \in DOMAIN q1 |-> q1[n]]
    BY DEF q1
  <2>4. \A p \in Pointers : p \in Wanted' <=> p \in want1
    <3>1. OwnBlocks' = OwnBlocks
      BY <1>13 DEF OwnBlocks
    <3> QED
      BY <1>10, <3>1 DEF Wanted
  <2>5. Wanted' = want1
    <3>1. Wanted' \subseteq Pointers /\ want1 \subseteq Pointers
      BY DEF Wanted, WantedOfClients, want1
    <3> QED
      BY <2>4, <3>1
  <2>6. Leads(ToRecord', Base', Wanted')
    BY <1>5, <1>6, <2>2, <2>3, <2>5
  <2>7. \A n \in 1 .. Len(md_array') : FALSE
    <3>1. Len(md_array') = 0
      BY <1>2, <1>13
    <3> QED
      BY <3>1
  <2> QED
    BY <2>6, <2>7 DEF Noting
<1>14. ASSUME NEW block \in MD_Blocks \ md_used,
              md_own.rows = {},
              md_own' = [md_own EXCEPT !.rows = {block}],
              md_used' = md_used \cup {block},
              md_array' = <<[ptr |-> Pointer(block, TRUE), malloced |-> TRUE]>>
       PROVE  Noting'
  <2> DEFINE own == Pointer(block, TRUE)
             n1 == [ptr |-> own, malloced |-> TRUE]
  <2>1. own \in Pointers /\ own.block = block /\ own.marked = TRUE
    BY PointerIs
  <2>2. OwnBlocks' = OwnBlocks \cup {block}
    BY <1>1, <1>14 DEF OwnBlocks, MD_TypeOK
  <2>3. Len(md_array') = 1 /\ md_array'[1] = n1
    BY <1>14
  <2>4. n1 \in Notes /\ n1.ptr = own /\ n1.malloced = TRUE
    BY <2>1 DEF Notes
  <2>5. \A p \in Pointers : (p.marked /\ p.block = block) <=> p = own
    BY <2>1 DEF Pointers, Pointer
  <2> HIDE DEF own, n1
  <2>6. Todo' = DOMAIN q1 \cup {1}
    <3>1. 1 \in Todo'
      BY <1>begun, <2>3 DEF Todo
    <3>2. Todo' \subseteq {0, 1}
      BY <2>3 DEF Todo
    <3>3. \A n \in {0, 1} : n \in Int /\ (n <= 0 \/ n = 1)
      OBVIOUS
    <3>4. \A n \in DOMAIN q1 : n \in Int /\ n <= 0
      BY <1>11
    <3>5. \A n \in {0, 1} : n = 0 \/ n = 1
      OBVIOUS
    <3>6. 0 \in Todo' <=> 0 \in DOMAIN q1
      BY <1>12
    <3> QED
      BY <1>11, <3>1, <3>2, <3>6
  <2>7. NoteAt(1)' = n1
    BY <2>3 DEF NoteAt
  <2>8. own \notin want1
    <3>1. OwnBlocks \subseteq md_used /\ \A p \in Pointers : p \in WantedOfClients => p.block \in md_used
      BY <1>1 DEF OneOwner, WantedOfClients
    <3>2. own \notin Wanted
      BY <2>1, <3>1 DEF Wanted
    <3>3. own # ptr
      BY <1>3, <2>1
    <3> QED
      BY <3>2, <3>3 DEF want1
  <2>9. \A p \in Pointers : p \in Wanted' <=> IF p = n1.ptr THEN n1.malloced ELSE p \in want1
    <3> SUFFICES ASSUME NEW p \in Pointers
                 PROVE  p \in Wanted' <=> IF p = n1.ptr THEN n1.malloced ELSE p \in want1
      OBVIOUS
    <3>1. p \in Wanted' <=> (p \in WantedOfClients' \/ (p.marked /\ (p.block \in OwnBlocks \/ p.block = block)))
      BY <2>2 DEF Wanted
    <3>2. p \in Wanted' <=> (p \in want1 \/ p = own)
      BY <1>10, <2>5, <3>1
    <3> QED
      BY <2>4, <3>2
  <2>10. DOMAIN ToRecord' = DOMAIN q1 \cup {1} /\ \A k \in DOMAIN q1 \cup {1} : ToRecord'[k] = NoteAt(k)'
    BY <2>6 DEF ToRecord
  <2>11. \A k \in DOMAIN q1 : ToRecord'[k] = q1[k] /\ q1[k] \in Notes /\ k < 1
    BY <1>4, <1>7, <1>11, <2>10
  <2>12. ToRecord'[1] = n1
    BY <2>7, <2>10
  <2>13. Leads(ToRecord', Base', Wanted')
    <3>1. DOMAIN q1 \subseteq Int
      BY <1>11
    <3>2. n1.malloced <=> n1.ptr \notin want1
      BY <2>4, <2>8
    <3> DEFINE r == ToRecord'
               want2 == Wanted'
    <3>3. DOMAIN r = DOMAIN q1 \cup {1} /\ \A k \in DOMAIN q1 : r[k] = q1[k]
      BY <2>10, <2>11
    <3>4. r[1] = n1 /\ \A p \in Pointers : p \in want2 <=> IF p = r[1].ptr THEN r[1].malloced ELSE p \in want1
      BY <2>9, <2>12
    <3>5. r[1] \in Notes /\ (r[1].malloced <=> r[1].ptr \notin want1)
      BY <2>4, <3>2, <3>4
    <3>6. \A k \in DOMAIN q1 : q1[k] \in Notes /\ k < 1
      BY <2>11
    <3>7. DOMAIN r = DOMAIN q1 \cup {1}
      BY <3>3
    <3> HIDE DEF r, want2
    <3>8. 1 \in Int
      OBVIOUS
    <3>9. Leads(r, Base, want2)
      BY <1>6, <3>1, <3>3, <3>4, <3>5, <3>6, <3>7, <3>8, NoteOne
    <3> QED
      BY <1>5, <3>9 DEF r, want2
  <2>14. ~Known(own)'
    <3>1. \A p : Known(p)' => p = ptr \/ Known(p)
      BY <1>2 DEF Known, Calling
    <3>2. ~Known(own) /\ own # ptr
      BY <1>1, <1>3, <2>1 DEF Known, OneOwner
    <3> QED
      BY <3>1, <3>2
  <2>15. ASSUME NEW n \in 1 .. Len(md_array')
         PROVE  md_array'[n].ptr = own
    <3>1. n = 1
      BY <2>3
    <3> QED
      BY <2>3, <2>4, <3>1
  <2> QED
    BY <2>1, <2>13, <2>14, <2>15 DEF Noting
<1> QED
  BY <1>13, <1>14, RecordStarts

LEMMA RecordWorks ==
  ASSUME MDWorks, RoomForNotes, NEW t \in MD_Threads, Record(t)
  PROVE  MDWorks'
<1> DEFINE ptr == md_call[t].ptr
<1>1. MD_TypeOK /\ Locked /\ OneOwner /\ Rows /\ Growth
  BY DEF MDWorks
<1>2. /\ md_lock' = t /\ md_stage' = "find" /\ md_first' = 0 /\ md_lock = Nobody
      /\ ptr \in Pointers /\ md_call[t] # NoMemCall
      /\ Calling(t, ptr)
      /\ md_call[t].step \in {"record malloc", "record free"}
      /\ md_array = <<>> /\ md_first = 0 /\ Len(md_array) = 0 /\ md_stage = "none"
      /\ UNCHANGED <<md_tracing, md_live, md_marker, md_stale, md_call, md_table,
                     md_num_buckets, md_first, md_report, md_calls>>
  BY RecordStarts
<1>3. md_item' = [ptr |-> ptr, malloced |-> md_call[t].step = "record malloc",
                  bookkeeping |-> FALSE, marked |-> ptr.marked]
  BY RecordStarts
<1>4. \/ md_room > 0 /\ UNCHANGED <<md_room, md_own, md_used, md_array>>
      \/ /\ md_room = 0 /\ md_own.rows = {}
         /\ \E block \in MD_Blocks \ md_used :
              /\ md_room' = MD_FirstRoom
              /\ md_own' = [md_own EXCEPT !.rows = {block}]
              /\ md_used' = md_used \cup {block}
              /\ md_array' = <<[ptr |-> Pointer(block, TRUE), malloced |-> TRUE]>>
  BY RecordStarts
<1>5. /\ \A p \in Pointers : (p \in DOMAIN md_table /\ md_table[p].malloced) <=> p \in Wanted
      /\ md_call[t].step = "record malloc" => ptr \notin Wanted
      /\ md_call[t].step = "record free" => (ptr \in Wanted <=> ptr \notin md_stale)
  BY <1>2, RecordWanted
<1>6. /\ md_room' \in Nat /\ md_room' > 0
      /\ md_own' \in [rows : SUBSET MD_Blocks, buckets : SUBSET MD_Blocks]
      /\ md_used' \subseteq MD_Blocks
      /\ md_own'.buckets = md_own.buckets
      /\ md_own'.rows # {}
      /\ (md_room > 0 /\ md_room' = md_room) \/ (md_room = 0 /\ md_room' = MD_FirstRoom)
  <2>1. CASE md_room > 0 /\ UNCHANGED <<md_room, md_own, md_used>>
    <3>1. md_own.rows # {}
      BY <1>1, <2>1 DEF Growth, MD_TypeOK
    <3> QED
      BY <1>1, <2>1, <3>1 DEF MD_TypeOK
  <2>2. ASSUME NEW block \in MD_Blocks \ md_used, md_room = 0,
               md_room' = MD_FirstRoom, md_own' = [md_own EXCEPT !.rows = {block}],
               md_used' = md_used \cup {block}
        PROVE  /\ md_room' \in Nat /\ md_room' > 0
               /\ md_own' \in [rows : SUBSET MD_Blocks, buckets : SUBSET MD_Blocks]
               /\ md_used' \subseteq MD_Blocks
               /\ md_own'.buckets = md_own.buckets
               /\ md_own'.rows # {}
               /\ (md_room > 0 /\ md_room' = md_room) \/ (md_room = 0 /\ md_room' = MD_FirstRoom)
    <3>1. md_own' \in [rows : SUBSET MD_Blocks, buckets : SUBSET MD_Blocks] /\ md_own'.rows = {block}
          /\ md_own'.buckets = md_own.buckets
      BY <1>1, <2>2 DEF MD_TypeOK
    <3>2. md_room' \in Nat /\ md_room' > 0
      BY <2>2, MemDiagAssumption
    <3>3. md_used' \subseteq MD_Blocks
      BY <1>1, <2>2 DEF MD_TypeOK
    <3> QED
      BY <2>2, <3>1, <3>2, <3>3
  <2> QED
    BY <1>4, <2>1, <2>2
<1>array. md_array' \in Seq([ptr : Pointers, malloced : BOOLEAN]) /\ Len(md_array') \in {0, 1}
  <2>1. CASE UNCHANGED md_array
    BY <1>1, <1>2, <2>1 DEF MD_TypeOK
  <2>2. ASSUME NEW block \in MD_Blocks, md_array' = <<[ptr |-> Pointer(block, TRUE), malloced |-> TRUE]>>
        PROVE  md_array' \in Seq([ptr : Pointers, malloced : BOOLEAN]) /\ Len(md_array') \in {0, 1}
    <3> DEFINE n1 == [ptr |-> Pointer(block, TRUE), malloced |-> TRUE]
    <3>1. n1 \in [ptr : Pointers, malloced : BOOLEAN]
      BY PointerIs
    <3>2. md_array' = <<n1>>
      BY <2>2
    <3> HIDE DEF n1
    <3> QED
      BY <3>1, <3>2
  <2> QED
    BY <1>4, <2>1, <2>2
<1>7. MD_TypeOK'
  <2>1. md_first' \in 0 .. Len(md_array')
    <3>1. md_first' = 0
      BY <1>2
    <3>2. Len(md_array') \in Nat
      BY <1>array
    <3> QED
      BY <3>1, <3>2
  <2> QED
    BY <1>1, <1>2, <1>6, <1>array, <2>1 DEF MD_TypeOK
<1>8. Locked'
  <2>1. Recording(t)' /\ t # Nobody
    BY <1>2, NobodyCalls DEF Recording
  <2>2. NoteAt(0)' = [ptr |-> ptr, malloced |-> md_call[t].step = "record malloc"]
    BY <1>2 DEF NoteAt
  <2>3. NoteAt(md_first)' = [ptr |-> ptr, malloced |-> md_call[t].step = "record malloc"]
    BY <1>2, <2>2 DEF NoteAt
  <2>4. md_item' = [ptr |-> NoteAt(md_first)'.ptr, malloced |-> NoteAt(md_first)'.malloced,
                    bookkeeping |-> md_first' # 0, marked |-> NoteAt(md_first)'.ptr.marked]
    <3>1. (md_first' # 0) = FALSE
      BY <1>2
    <3> DEFINE m == md_call[t].step = "record malloc"
    <3>2. NoteAt(md_first)' = [ptr |-> ptr, malloced |-> m]
      BY <2>3
    <3> HIDE DEF ptr, m
    <3>4. NoteAt(md_first)'.ptr = ptr /\ NoteAt(md_first)'.malloced = m
      BY <3>2
    <3>5. md_item' = [ptr |-> ptr, malloced |-> m, bookkeeping |-> FALSE, marked |-> ptr.marked]
      BY <1>3 DEF ptr, m
    <3> QED
      BY <3>1, <3>4, <3>5, Zenon
  <2> QED
    BY <1>2, <1>6, <2>1, <2>4 DEF Locked
<1>9. \A u, p : Calling(u, p)' <=> Calling(u, p)
  BY <1>2 DEF Calling
<1>10. OneOwner'
  <2>1. CASE UNCHANGED <<md_own, md_used>>
    BY <1>1, <1>2, <1>9, <2>1 DEF OneOwner, OwnBlocks
  <2>2. ASSUME NEW block \in MD_Blocks \ md_used,
               md_own' = [md_own EXCEPT !.rows = {block}],
               md_used' = md_used \cup {block}, md_own.rows = {}
        PROVE  OneOwner'
    <3>1. md_own'.rows = {block} /\ md_own'.buckets = md_own.buckets
      BY <1>1, <2>2 DEF MD_TypeOK
    <3>2. \A b \in md_used \ OwnBlocks : b \in md_used' \ OwnBlocks'
      BY <2>2, <3>1 DEF OwnBlocks
    <3>3. OwnBlocks' \subseteq md_used' /\ md_own'.rows \cap md_own'.buckets = {}
      BY <1>1, <2>2, <3>1 DEF OneOwner, OwnBlocks
    <3>4. OneOwner
      BY <1>1
    <3>5. \A b, c \in md_own'.rows : b = c
      BY <3>1
    <3>6. \A b, c \in md_own'.buckets : b = c
      BY <3>1, <3>4 DEF OneOwner
    <3>7. \A p \in DOMAIN md_live' : p.block \in md_used' \ OwnBlocks'
      BY <1>2, <3>2, <3>4 DEF OneOwner
    <3>8. \A u \in MD_Threads, p \in Pointers : Calling(u, p)' => p.block \in md_used' \ OwnBlocks'
      BY <1>9, <3>2, <3>4 DEF OneOwner
    <3>9. /\ \A p, q \in DOMAIN md_live' : p.block = q.block => p = q
          /\ \A u \in MD_Threads, p \in Pointers, q \in DOMAIN md_live' : Calling(u, p)' => p.block # q.block
          /\ \A v, u \in MD_Threads, p, q \in Pointers :
               Calling(v, p)' /\ Calling(u, q)' /\ v # u => p.block # q.block
      BY <1>2, <1>9, <3>4 DEF OneOwner
    <3> QED
      BY <3>3, <3>5, <3>6, <3>7, <3>8, <3>9 DEF OneOwner
  <2> QED
    BY <1>4, <2>1, <2>2
<1>11. Noting'
  BY RecordNotes
<1>12. ptr \in md_stale => ptr \in DOMAIN md_table
  BY <1>1 DEF Rows, StaleHasRow
<1>13. Rows'
  <2>1. ASSUME NEW p \in DOMAIN md_table PROVE RowTrue(p)'
    <3>1. RowTrue(p) /\ p \in Pointers
      BY <1>1 DEF Rows, MD_TypeOK
    <3>2. CASE p = ptr /\ md_call[t].step = "record malloc"
      <4>1. ~md_table[p].malloced
        BY <1>5, <3>1, <3>2
      <4> QED
        BY <1>2, <3>1, <4>1 DEF RowTrue
    <3>3. CASE ~(p = ptr /\ md_call[t].step = "record malloc")
      <4>1. Known(p)' <=> Known(p)
        BY <1>2, <3>3, NobodyCalls DEF Known, Calling
      <4> QED
        BY <1>2, <3>1, <4>1 DEF RowTrue
    <3> QED
      BY <3>2, <3>3
  <2>2. ASSUME NEW u \in MD_Threads PROVE CallHasRow(u)'
    <3>1. CallHasRow(u)
      BY <1>1 DEF Rows
    <3>2. IsNew(u)' => IsNew(u)
      BY <1>2 DEF IsNew
    <3>3. IsFreed(u)' => IsFreed(u) \/ (u = t /\ md_call[t].step = "record free")
      BY <1>2 DEF IsFreed
    <3>4. md_call[t].step = "record free" => ptr \in DOMAIN md_table
      BY <1>2, <1>5, <1>12
    <3> QED
      BY <1>2, <3>1, <3>2, <3>3, <3>4 DEF CallHasRow
  <2>3. ASSUME NEW p \in md_stale PROVE StaleHasRow(p)'
    BY <1>1, <1>2, <2>3 DEF Rows, StaleHasRow
  <2>4. SizesKnown'
    BY <1>1, <1>2 DEF Rows, SizesKnown
  <2> QED
    BY <1>1, <1>2, <2>1, <2>2, <2>3, <2>4 DEF Rows
<1>14. Growth'
  <2>1. Growth /\ md_stage = "none"
    BY <1>1, <1>2
  <2>2. NumRows' = NumRows /\ NumRows \in Nat
    BY <1>1, <1>2, FS_CardinalityType DEF NumRows, Rows
  <2>3. md_room' = 0 \/ md_room' >= MD_FirstRoom
    BY <1>6, <2>1, MemDiagAssumption DEF Growth
  <2>4. NumRows <= md_room'
    <3>1. NumRows <= md_room /\ md_room \in Nat /\ MD_FirstRoom \in Nat
      BY <1>1, MemDiagAssumption DEF Growth, MD_TypeOK
    <3> QED
      BY <1>6, <2>2, <3>1
  <2>5. Len(md_array') <= 1
    BY <1>array
  <2>6. md_num_buckets' = md_num_buckets /\ (md_own'.buckets = {} <=> md_num_buckets' = 0)
        /\ (md_num_buckets' = 0 \/ md_num_buckets' >= MD_FirstBuckets)
    BY <1>2, <1>6, <2>1 DEF Growth
  <2>7. NumRows' <= md_num_buckets' + (IF md_stage' = "buckets" THEN 1 ELSE 0)
    <3>1. NumRows <= md_num_buckets + 0
      BY <2>1 DEF Growth
    <3> QED
      BY <1>2, <2>2, <3>1
  <2>8. md_own'.rows = {} <=> md_room' = 0
    BY <1>6
  <2>9. NumRows' <= md_room'
    BY <2>2, <2>4
  <2> QED
    BY <2>3, <2>5, <2>6, <2>7, <2>8, <2>9 DEF Growth
<1> QED
  BY <1>7, <1>8, <1>10, <1>11, <1>13, <1>14 DEF MDWorks

----------------------------------------------------------------------------
(* The item that is being recorded.                                        *)

LEMMA ItemIs ==
  ASSUME MDWorks, md_stage # "none"
  PROVE  /\ md_lock \in MD_Threads /\ md_lock # Nobody
         /\ Calling(md_lock, md_call[md_lock].ptr) /\ md_call[md_lock].ptr \in Pointers
         /\ md_call[md_lock].step \in {"record malloc", "record free"}
         /\ md_item.ptr \in Pointers /\ md_item.malloced \in BOOLEAN
         /\ md_item.ptr = NoteAt(md_first).ptr
         /\ md_item.malloced <=> NoteAt(md_first).malloced
         /\ md_item.bookkeeping <=> md_first # 0
         /\ md_item.bookkeeping \in BOOLEAN
         /\ md_item.marked = md_item.ptr.marked
         /\ md_item.bookkeeping => md_item.ptr.marked
         /\ md_item.bookkeeping <=> ~Known(md_item.ptr)
         /\ md_first = 0 => /\ md_item.ptr = md_call[md_lock].ptr
                            /\ md_item.malloced <=> md_call[md_lock].step = "record malloc"
         /\ md_first \in 0 .. Len(md_array) /\ Len(md_array) \in Nat
<1>1. MD_TypeOK /\ Locked /\ OneOwner /\ Noting
  BY DEF MDWorks
<1>2. /\ md_lock \in MD_Threads /\ md_call[md_lock] # NoMemCall /\ md_call[md_lock].ptr \in Pointers
      /\ md_call[md_lock].step \in {"record malloc", "record free"} /\ md_lock # Nobody
  BY <1>1, LockHolder DEF Locked
<1>3. /\ md_first \in 0 .. Len(md_array) /\ Len(md_array) \in Nat
      /\ \A n \in 1 .. Len(md_array) : md_array[n].ptr \in Pointers /\ md_array[n].malloced \in BOOLEAN
  BY <1>1, ArrayOfNotes DEF MD_TypeOK, Notes
<1> DEFINE rec == md_call[md_lock].step = "record malloc"
           note == NoteAt(md_first)
<1>4. NoteAt(0).ptr = md_call[md_lock].ptr /\ (NoteAt(0).malloced <=> rec) /\ NoteAt(0).malloced \in BOOLEAN
  BY DEF NoteAt
<1>5. md_first # 0 => note = md_array[md_first]
  BY DEF NoteAt
<1>6. note.ptr \in Pointers /\ note.malloced \in BOOLEAN
  <2>1. CASE md_first = 0
    <3>1. note = NoteAt(0)
      BY <2>1
    <3> HIDE DEF note, rec
    <3> QED
      BY <1>2, <1>4, <3>1
  <2>2. CASE md_first # 0
    <3> HIDE DEF note, rec
    <3>1. md_first \in 1 .. Len(md_array)
      BY <1>3, <2>2
    <3> QED
      BY <1>3, <1>5, <2>2, <3>1
  <2> QED
    BY <2>1, <2>2
<1>7. md_item = [ptr |-> note.ptr, malloced |-> note.malloced,
                 bookkeeping |-> md_first # 0, marked |-> note.ptr.marked]
  BY <1>1 DEF Locked
<1> HIDE DEF note
<1>8. /\ md_item.ptr = note.ptr /\ (md_item.malloced <=> note.malloced) /\ md_item.malloced \in BOOLEAN
      /\ (md_item.bookkeeping <=> md_first # 0) /\ md_item.marked = note.ptr.marked
      /\ md_item.bookkeeping \in BOOLEAN
  <2> DEFINE bk == md_first # 0
             it == [ptr |-> note.ptr, malloced |-> note.malloced, bookkeeping |-> bk, marked |-> note.ptr.marked]
  <2>1. md_item = it
    BY <1>7
  <2>2. bk \in BOOLEAN
    OBVIOUS
  <2> HIDE DEF bk
  <2>3. it.ptr = note.ptr /\ it.malloced = note.malloced /\ it.bookkeeping = bk /\ it.marked = note.ptr.marked
    OBVIOUS
  <2> HIDE DEF it
  <2>4. md_item.bookkeeping = bk /\ md_item.malloced = note.malloced
    BY <2>1, <2>3
  <2>5. md_item.bookkeeping <=> md_first # 0
    BY <2>4 DEF bk
  <2> QED
    BY <1>6, <2>1, <2>2, <2>3, <2>4, <2>5
<1>9. Calling(md_lock, md_call[md_lock].ptr) /\ Known(md_call[md_lock].ptr)
  BY <1>2 DEF Calling, Known
<1>10. CASE md_first = 0
  BY <1>2, <1>3, <1>4, <1>6, <1>8, <1>9, <1>10 DEF note
<1>11. CASE md_first # 0
  <2>1. md_array[md_first].ptr.marked /\ ~Known(md_array[md_first].ptr)
    BY <1>1, <1>3, <1>11 DEF Noting
  <2> QED
    BY <1>2, <1>3, <1>5, <1>6, <1>8, <1>9, <1>11, <2>1 DEF note
<1> QED
  BY <1>10, <1>11

LEMMA TodoIs ==
  ASSUME MD_TypeOK, NEW n \in Todo
  PROVE  /\ n \in Int /\ n \in 0 .. Len(md_array) /\ md_first <= n
         /\ md_first = n => md_stage = "find"
         /\ n # 0 => n \in 1 .. Len(md_array) /\ NoteAt(n) = md_array[n]
         /\ n = 0 => md_first = 0 /\ md_stage = "find" /\ NoteAt(0).ptr \notin md_stale
<1>1. md_first \in Nat /\ Len(md_array) \in Nat
  BY ArrayOfNotes DEF MD_TypeOK
<1>2. /\ n \in 0 .. Len(md_array)
      /\ n > md_first \/ (n = md_first /\ md_stage = "find")
      /\ n = 0 => NoteAt(0).ptr \notin md_stale
  BY DEF Todo
<1>3. n # 0 => NoteAt(n) = md_array[n]
  BY DEF NoteAt
<1>4. n # 0 => n \in 1 .. Len(md_array)
  BY <1>1, <1>2
<1>5. md_first <= n /\ n \in Int /\ (n = 0 => md_first = 0) /\ (md_first = n => md_stage = "find")
  BY <1>1, <1>2
<1> QED
  BY <1>2, <1>3, <1>4, <1>5

(* What the table says of the item before it is recorded, and what is      *)
(* still to be recorded afterwards.                                        *)
LEMMA ItemTodo ==
  ASSUME MDWorks, md_stage = "find", md_first \in Todo
  PROVE  md_item.malloced <=> ~(md_item.ptr \in DOMAIN md_table /\ md_table[md_item.ptr].malloced)
<1>1. /\ md_item.ptr \in Pointers
      /\ md_item.ptr = NoteAt(md_first).ptr
      /\ md_item.malloced <=> NoteAt(md_first).malloced
  BY ItemIs
<1>2. \A k \in Todo : ~(k < md_first) /\ k \in Int
  <2>1. md_first \in Int /\ MD_TypeOK
    BY DEF MDWorks, MD_TypeOK
  <2>2. \A k \in Todo : md_first <= k /\ k \in Int
    BY <2>1, TodoIs
  <2> QED
    BY <2>1, <2>2
<1>3. DOMAIN ToRecord = Todo /\ ToRecord[md_first] = NoteAt(md_first)
  BY DEF ToRecord
<1>4. ToRecord[md_first].malloced <=> ~Base[ToRecord[md_first].ptr]
  BY <1>2, <1>3 DEF Leads, MDWorks, Noting
<1> QED
  BY <1>1, <1>3, <1>4 DEF Base

LEMMA ItemRecorded ==
  ASSUME MDWorks, md_stage = "find", md_first \in Todo, NEW r, NEW base2,
         DOMAIN r = Todo \ {md_first}, \A k \in DOMAIN r : r[k] = NoteAt(k),
         \A p \in Pointers : base2[p] <=> IF p = md_item.ptr THEN md_item.malloced ELSE Base[p]
  PROVE  Leads(r, base2, Wanted)
<1>1. /\ md_item.ptr = NoteAt(md_first).ptr
      /\ md_item.malloced <=> NoteAt(md_first).malloced
      /\ md_lock \in MD_Threads /\ md_call[md_lock].ptr \in Pointers
      /\ md_first \in 0 .. Len(md_array) /\ Len(md_array) \in Nat
  BY ItemIs
<1>2. \A k \in Todo : md_first <= k /\ k \in Int
  BY <1>1 DEF Todo
<1>3. DOMAIN ToRecord = Todo /\ \A k \in Todo : ToRecord[k] = NoteAt(k)
  BY DEF ToRecord
<1>4. \A n \in Todo : NoteAt(n) \in Notes
  <2> SUFFICES ASSUME NEW n \in Todo PROVE NoteAt(n) \in Notes
    OBVIOUS
  <2>1. CASE n = 0
    <3> DEFINE m == md_call[md_lock].step = "record malloc"
               ptr == md_call[md_lock].ptr
    <3>1. NoteAt(n) = [ptr |-> ptr, malloced |-> m]
      BY <2>1 DEF NoteAt
    <3>2. m \in BOOLEAN /\ ptr \in Pointers
      BY <1>1
    <3> HIDE DEF m, ptr
    <3> QED
      BY <3>1, <3>2 DEF Notes
  <2>2. CASE n # 0
    <3>1. n \in 1 .. Len(md_array) /\ NoteAt(n) = md_array[n]
      BY <2>2, TodoIs DEF MDWorks
    <3>2. MD_TypeOK
      BY DEF MDWorks
    <3> QED
      BY <3>1, <3>2, ArrayOfNotes
  <2> QED
    BY <2>1, <2>2
<1>5. Leads(ToRecord, Base, Wanted)
  BY DEF MDWorks, Noting
<1> DEFINE q == ToRecord
<1>6. /\ md_first \in DOMAIN q /\ DOMAIN q \subseteq Int /\ \A k \in DOMAIN q : q[k] \in Notes /\ md_first <= k
      /\ DOMAIN r = DOMAIN q \ {md_first} /\ \A k \in DOMAIN r : r[k] = q[k]
      /\ q[md_first] = NoteAt(md_first)
  BY <1>2, <1>3, <1>4
<1>7. \A p \in Pointers : base2[p] <=> IF p = q[md_first].ptr THEN q[md_first].malloced ELSE Base[p]
  <2> HIDE DEF q
  <2>1. q[md_first].ptr = md_item.ptr /\ (q[md_first].malloced <=> md_item.malloced)
    BY <1>1, <1>6
  <2> QED
    BY <2>1
<1> HIDE DEF q
<1>8. Leads(q, Base, Wanted)
  BY <1>5 DEF q
<1> QED
  BY <1>6, <1>7, <1>8, RecordFirst

(* Of a pointer whose jr_realloc had failed the table says that it is free. *)
LEMMA ItemStale ==
  ASSUME MDWorks, md_stage = "find", md_first \notin Todo
  PROVE  /\ md_item.ptr \in md_stale /\ ~md_item.malloced /\ ~md_item.bookkeeping
         /\ md_item.ptr \in DOMAIN md_table /\ ~md_table[md_item.ptr].malloced
<1> DEFINE ptr == md_item.ptr
<1>1. MD_TypeOK /\ Locked /\ OneOwner /\ Noting /\ Rows
  BY DEF MDWorks
<1>2. /\ md_lock \in MD_Threads /\ md_lock # Nobody
      /\ Calling(md_lock, md_call[md_lock].ptr) /\ md_call[md_lock].ptr \in Pointers
      /\ md_call[md_lock].step \in {"record malloc", "record free"}
      /\ ptr \in Pointers /\ ptr = NoteAt(md_first).ptr
      /\ md_item.bookkeeping <=> md_first # 0
      /\ md_first \in 0 .. Len(md_array) /\ Len(md_array) \in Nat
  BY ItemIs
<1>3. md_first = 0 /\ ptr \in md_stale
  BY <1>2 DEF Todo
<1>4. ptr = md_call[md_lock].ptr /\ (md_item.malloced <=> md_call[md_lock].step = "record malloc")
  BY <1>3, ItemIs
<1>5. ptr \notin DOMAIN md_live /\ ptr.block \in md_used \ OwnBlocks
  BY <1>1, <1>2, <1>4 DEF OneOwner
<1>6. md_call[md_lock].step = "record free"
  <2>1. PICK u \in MD_Threads : md_call[u].step = "record free" /\ md_call[u].ptr = ptr
    BY <1>1, <1>3, <1>5 DEF Rows, StaleHasRow
  <2>2. Calling(u, ptr)
    BY <1>1, <2>1, CallIs DEF Calling
  <2>3. u = md_lock
    BY <1>1, <1>2, <1>4, <2>2 DEF OneOwner
  <2> QED
    BY <2>1, <2>3
<1>7. ptr \in DOMAIN md_table
  BY <1>1, <1>3 DEF Rows, StaleHasRow
<1>8. ptr \notin Wanted
  BY <1>3, <1>5 DEF Wanted, WantedOfClients
<1>9. \A k \in Todo : NoteAt(k).ptr # ptr
  <2> SUFFICES ASSUME NEW k \in Todo PROVE NoteAt(k).ptr # ptr
    OBVIOUS
  <2>1. k \in 1 .. Len(md_array) /\ k >= md_first /\ NoteAt(k) = md_array[k]
    <3>1. k # 0
      BY <1>1, <1>2, <1>3, TodoIs
    <3>2. k \in 1 .. Len(md_array) /\ NoteAt(k) = md_array[k]
      BY <1>1, <3>1, TodoIs
    <3>3. k >= 0
      BY <3>2
    <3> QED
      BY <1>3, <3>2, <3>3
  <2>2. ~Known(md_array[k].ptr)
    BY <1>1, <2>1 DEF Noting
  <2>3. Known(ptr)
    BY <1>2, <1>4 DEF Known
  <2> QED
    BY <2>1, <2>2, <2>3
<1>10. ~Base[ptr]
  <2>1. DOMAIN ToRecord = Todo /\ \A k \in Todo : ToRecord[k] = NoteAt(k)
    BY DEF ToRecord
  <2>2. \A k \in DOMAIN ToRecord : ToRecord[k].ptr # ptr
    BY <1>9, <2>1
  <2>3. Leads(ToRecord, Base, Wanted) /\ ptr \in Pointers
    BY <1>1, <1>2 DEF Noting
  <2> HIDE DEF ptr
  <2>4. Base[ptr] <=> ptr \in Wanted
    BY <2>2, <2>3 DEF Leads
  <2> QED
    BY <1>8, <2>4
<1>11. ~md_table[ptr].malloced
  BY <1>2, <1>7, <1>10 DEF Base
<1> QED
  BY <1>2, <1>3, <1>4, <1>6, <1>7, <1>11

(* The pointer of another call, or of the call whose pointer has been      *)
(* recorded, is not the one that is being recorded.                        *)
LEMMA ItemIsOther ==
  ASSUME MDWorks, md_stage # "none", NEW t \in MD_Threads, md_call[t] # NoMemCall,
         (t = md_lock) => md_first # 0, (t # md_lock) => md_call[t].step # "record malloc"
  PROVE  md_call[t].ptr # md_item.ptr
<1> SUFFICES ASSUME md_call[t].ptr = md_item.ptr PROVE FALSE
  OBVIOUS
<1>1. OneOwner
  BY DEF MDWorks
<1>2. /\ md_lock \in MD_Threads /\ md_call[md_lock].ptr \in Pointers
      /\ Calling(md_lock, md_call[md_lock].ptr)
      /\ md_item.bookkeeping <=> md_first # 0
      /\ md_item.bookkeeping <=> ~Known(md_item.ptr)
      /\ md_first = 0 => md_item.ptr = md_call[md_lock].ptr
  BY ItemIs
<1>3. Known(md_item.ptr) /\ Calling(t, md_item.ptr)
  BY DEF Known, Calling
<1>4. md_first = 0 /\ md_item.ptr = md_call[md_lock].ptr
  BY <1>2, <1>3
<1>5. t = md_lock
  BY <1>1, <1>2, <1>3, <1>4 DEF OneOwner
<1> QED
  BY <1>4, <1>5

LEMMA ItemNotLive ==
  ASSUME MDWorks, md_stage # "none"
  PROVE  md_item.ptr \notin DOMAIN md_live
<1>1. OneOwner
  BY DEF MDWorks
<1>2. /\ md_lock \in MD_Threads /\ md_call[md_lock].ptr \in Pointers
      /\ Calling(md_lock, md_call[md_lock].ptr)
      /\ md_item.bookkeeping <=> md_first # 0
      /\ md_item.bookkeeping <=> ~Known(md_item.ptr)
      /\ md_first = 0 => md_item.ptr = md_call[md_lock].ptr
  BY ItemIs
<1>3. md_first = 0 => md_item.ptr \notin DOMAIN md_live
  BY <1>1, <1>2 DEF OneOwner
<1>4. md_first # 0 => md_item.ptr \notin DOMAIN md_live
  BY <1>2 DEF Known
<1> QED
  BY <1>3, <1>4

(* The rows when an item is recorded, whatever its row says of it: others  *)
(* keep theirs.                                                            *)
LEMMA RowWritten ==
  ASSUME MDWorks, md_stage = "find", md_stage' # "find",
         NEW row \in [malloced : BOOLEAN, bookkeeping : BOOLEAN, marked : BOOLEAN, size : Nat],
         DOMAIN md_table' = DOMAIN md_table \cup {md_item.ptr},
         md_table'[md_item.ptr] = row,
         md_table' \in [DOMAIN md_table' -> [malloced : BOOLEAN, bookkeeping : BOOLEAN, marked : BOOLEAN, size : Nat]],
         \A p \in DOMAIN md_table : p # md_item.ptr => md_table'[p] = md_table[p],
         row.marked = md_item.ptr.marked,
         row.malloced <=> md_item.malloced,
         row.malloced => (row.bookkeeping <=> md_item.bookkeeping) /\ row.size = 1,
         UNCHANGED <<md_live, md_stale, md_call, md_lock, md_item, md_first>>,
         \A p \in DOMAIN md_marker : p \in DOMAIN md_marker' /\ (p # md_item.ptr => md_marker'[p] = md_marker[p]),
         row.malloced /\ ~row.bookkeeping /\ row.marked /\ md_stage' # "buckets"
           => md_item.ptr \in DOMAIN md_marker' /\ md_marker'[md_item.ptr] = row.size
  PROVE  Rows' /\ \A p \in Pointers : Base'[p] <=> IF p = md_item.ptr THEN md_item.malloced ELSE Base[p]
<1> DEFINE ptr == md_item.ptr
<1>1. MD_TypeOK /\ Rows
  BY DEF MDWorks
<1>2. /\ ptr \in Pointers
      /\ md_lock \in MD_Threads
      /\ md_call[md_lock].step \in {"record malloc", "record free"}
      /\ md_item.bookkeeping <=> ~Known(ptr)
      /\ md_first = 0 => /\ ptr = md_call[md_lock].ptr
                         /\ md_item.malloced <=> md_call[md_lock].step = "record malloc"
  BY ItemIs
<1>3. ptr \notin DOMAIN md_live
  BY ItemNotLive
<1>4. \A p : Known(p)' <=> Known(p)
  BY DEF Known, Calling
<1>5. IsFiniteSet(DOMAIN md_table')
  BY <1>1, FS_AddElement DEF Rows
<1>6. ASSUME NEW p \in DOMAIN md_table' PROVE RowTrue(p)'
  <2>1. CASE p = ptr
    <3>1. md_table'[p] = row
      BY <2>1
    <3>2. row.malloced => (row.bookkeeping <=> ~Known(p)')
      BY <1>2, <1>4, <2>1
    <3>3. ASSUME row.malloced /\ ~row.bookkeeping /\ p.marked, ~(md_stage' = "buckets" /\ p = md_item'.ptr)
          PROVE  p \in DOMAIN md_marker' /\ md_marker'[p] \in {row.size, Broken}
      BY <2>1, <3>3
    <3> QED
      BY <2>1, <3>1, <3>2, <3>3 DEF RowTrue
  <2>2. CASE p # ptr
    <3>1. p \in DOMAIN md_table /\ RowTrue(p) /\ md_table'[p] = md_table[p]
      BY <1>1, <2>2 DEF Rows
    <3> QED
      BY <1>4, <2>2, <3>1 DEF RowTrue
  <2> QED
    BY <2>1, <2>2
<1>7. SizesKnown'
  BY <1>1, <1>3 DEF Rows, SizesKnown
<1>8. ASSUME NEW t \in MD_Threads PROVE CallHasRow(t)'
  <2>1. CallHasRow(t)
    BY <1>1 DEF Rows
  <2>2. IsFreed(t)' => md_call'[t].ptr \in DOMAIN md_table'
    BY <2>1 DEF CallHasRow, IsFreed
  <2>3. CASE t = md_lock /\ md_first = 0
    <3>1. md_call[t].step # "measure" /\ md_call[t].ptr = ptr
      BY <1>2, <2>3
    <3>2. IsNew(t)' => md_item.malloced
      BY <1>2, <2>3, <3>1 DEF IsNew
    <3>3. IsNew(t)' => row.malloced /\ md_table'[ptr].size = 1
      BY <3>2
    <3> QED
      BY <2>2, <3>1, <3>3 DEF CallHasRow
  <2>4. CASE ~(t = md_lock /\ md_first = 0)
    <3>1. IsNew(t)' => IsNew(t)
      BY <2>4 DEF IsNew
    <3>2. IsNew(t) => md_call[t].ptr # ptr
      <4> SUFFICES ASSUME IsNew(t) PROVE md_call[t].ptr # ptr
        OBVIOUS
      <4>1. md_call[t] # NoMemCall
        BY <1>1, <1>2, CallIs DEF IsNew
      <4>2. t = md_lock => md_first # 0
        BY <2>4
      <4>3. t # md_lock => md_call[t].step # "record malloc"
        BY DEF IsNew
      <4> QED
        BY <4>1, <4>2, <4>3, ItemIsOther
    <3>3. IsNew(t)' => md_call[t].ptr \in DOMAIN md_table' /\ md_table'[md_call[t].ptr].size = 1
      BY <2>1, <3>1, <3>2 DEF CallHasRow
    <3> QED
      BY <2>2, <3>3 DEF CallHasRow
  <2> QED
    BY <2>3, <2>4
<1>9. ASSUME NEW p \in md_stale' PROVE StaleHasRow(p)'
  <2>1. StaleHasRow(p)
    BY <1>1, <1>9 DEF Rows
  <2> QED
    BY <2>1 DEF StaleHasRow
<1>10. Rows'
  BY <1>5, <1>6, <1>7, <1>8, <1>9 DEF Rows
<1>11. ASSUME NEW p \in Pointers
       PROVE  Base'[p] <=> IF p = ptr THEN md_item.malloced ELSE Base[p]
  <2>1. Base'[p] <=> p \in DOMAIN md_table' /\ md_table'[p].malloced
    BY DEF Base
  <2>2. Base[p] <=> p \in DOMAIN md_table /\ md_table[p].malloced
    BY DEF Base
  <2> QED
    BY <2>1, <2>2
<1> QED
  BY <1>10, <1>11

(* Notes stay where they are when others are added.                        *)
LEMMA NotesKept ==
  ASSUME MDWorks, md_stage # "none", md_stage' \in {"buckets", "drain"},
         md_stage' = "buckets" => md_item.malloced,
         md_stage = "find" => md_first \in Todo,
         UNCHANGED <<md_live, md_stale, md_call, md_lock, md_item, md_first>>,
         md_room' > 0,
         Len(md_array') \in Nat, Len(md_array) <= Len(md_array'),
         \A n \in 1 .. Len(md_array) : md_array'[n] = md_array[n]
  PROVE  /\ Locked'
         /\ \A n \in 0 .. Len(md_array) : NoteAt(n)' = NoteAt(n)
         /\ Todo' = {n \in 1 .. Len(md_array') : n > md_first}
         /\ \A n \in Todo' : NoteAt(n)' = md_array'[n]
         /\ \A p : Known(p)' <=> Known(p)
         /\ WantedOfClients' = WantedOfClients
<1>1. Locked /\ MD_TypeOK
  BY DEF MDWorks
<1>2. md_first \in 0 .. Len(md_array) /\ Len(md_array) \in Nat /\ md_first \in Nat
  BY <1>1, ArrayOfNotes DEF MD_TypeOK
<1>3. ASSUME NEW n \in 0 .. Len(md_array) PROVE NoteAt(n)' = NoteAt(n)
  <2>1. CASE n = 0
    BY <2>1 DEF NoteAt
  <2>2. CASE n # 0
    <3>1. n \in 1 .. Len(md_array)
      BY <1>2, <2>2
    <3> QED
      BY <2>2, <3>1 DEF NoteAt
  <2> QED
    BY <2>1, <2>2
<1>4. Locked'
  <2>1. /\ md_item = [ptr |-> NoteAt(md_first).ptr, malloced |-> NoteAt(md_first).malloced,
                      bookkeeping |-> md_first # 0, marked |-> NoteAt(md_first).ptr.marked]
    BY <1>1 DEF Locked
  <2>2. NoteAt(md_first)' = NoteAt(md_first)
    BY <1>2, <1>3
  <2>3. md_item' = [ptr |-> NoteAt(md_first)'.ptr, malloced |-> NoteAt(md_first)'.malloced,
                    bookkeeping |-> md_first' # 0, marked |-> NoteAt(md_first)'.ptr.marked]
    BY <2>1, <2>2
  <2>4. md_lock # Nobody => Recording(md_lock)'
    BY <1>1 DEF Locked, Recording
  <2>5. md_call[md_lock].ptr \notin md_stale
    <3>1. CASE md_stage = "find" /\ md_first = 0
      <4>1. NoteAt(0).ptr \notin md_stale
        BY <1>1, <3>1, TodoIs
      <4> QED
        BY <4>1 DEF NoteAt
    <3>2. CASE ~(md_stage = "find" /\ md_first = 0)
      BY <1>1, <3>2 DEF Locked
    <3> QED
      BY <3>1, <3>2
  <2>6. md_lock' = Nobody <=> md_stage' = "none"
    BY <1>1 DEF Locked
  <2> QED
    BY <2>3, <2>4, <2>5, <2>6 DEF Locked
<1>5. Todo' = {n \in 1 .. Len(md_array') : n > md_first}
  BY <1>2 DEF Todo
<1>6. \A n \in Todo' : NoteAt(n)' = md_array'[n]
  <2> SUFFICES ASSUME NEW n \in Todo' PROVE NoteAt(n)' = md_array'[n]
    OBVIOUS
  <2>1. n # 0
    BY <1>5
  <2> QED
    BY <2>1 DEF NoteAt
<1>7. \A p : Known(p)' <=> Known(p)
  BY DEF Known, Calling
<1>8. WantedOfClients' = WantedOfClients
  BY DEF WantedOfClients, Calling
<1> QED
  BY <1>3, <1>4, <1>5, <1>6, <1>7, <1>8

(* What is to be recorded after an item was found, and all of the rest.    *)
LEMMA RestKept ==
  ASSUME MDWorks, md_stage = "find", md_first \in Todo, md_stage' \in {"buckets", "drain"},
         md_stage' = "buckets" => md_item.malloced,
         UNCHANGED <<md_used, md_live, md_stale, md_call, md_lock, md_item, md_room,
                     md_own, md_array, md_first>>,
         \A p \in Pointers : Base'[p] <=> IF p = md_item.ptr THEN md_item.malloced ELSE Base[p]
  PROVE  Locked' /\ OneOwner' /\ Noting'
<1>1. Locked /\ OneOwner /\ Noting /\ MD_TypeOK
  BY DEF MDWorks
<1>2. Len(md_array) \in Nat /\ md_first \in 0 .. Len(md_array) /\ md_lock # Nobody
  BY ItemIs
<1>3. md_room > 0
  BY <1>1, <1>2 DEF Locked
<1>4. /\ Locked'
      /\ \A n \in 0 .. Len(md_array) : NoteAt(n)' = NoteAt(n)
      /\ Todo' = {n \in 1 .. Len(md_array') : n > md_first}
      /\ \A p : Known(p)' <=> Known(p)
      /\ WantedOfClients' = WantedOfClients
  <2>1. md_room' > 0 /\ Len(md_array') \in Nat /\ Len(md_array) <= Len(md_array')
    BY <1>2, <1>3
  <2> QED
    BY <2>1, NotesKept
<1>5. OneOwner'
  BY <1>1 DEF OneOwner, OwnBlocks, Calling
<1>6. Wanted' = Wanted
  BY <1>4 DEF Wanted, OwnBlocks
<1>7. Todo' = Todo \ {md_first}
  <2>1. \A n \in Todo : n # md_first => n \in Todo'
    <3> SUFFICES ASSUME NEW n \in Todo, n # md_first PROVE n \in Todo'
      OBVIOUS
    <3>1. n \in Int /\ md_first <= n /\ n \in 0 .. Len(md_array) /\ md_first \in Nat
      BY <1>1, <1>2, TodoIs
    <3> QED
      BY <1>4, <3>1
  <2>2. \A n \in Todo' : n \in Todo /\ n # md_first
    BY <1>2, <1>4 DEF Todo
  <2> QED
    BY <2>1, <2>2
<1>8. Leads(ToRecord', Base', Wanted')
  <2> DEFINE r == ToRecord'
             base2 == Base'
  <2>1. DOMAIN r = Todo \ {md_first} /\ \A k \in DOMAIN r : r[k] = NoteAt(k)
    <3>1. \A k \in Todo' : NoteAt(k)' = NoteAt(k)
      BY <1>4, <1>7, <1>1, TodoIs
    <3> QED
      BY <1>7, <3>1 DEF ToRecord
  <2>2. \A p \in Pointers : base2[p] <=> IF p = md_item.ptr THEN md_item.malloced ELSE Base[p]
    OBVIOUS
  <2> HIDE DEF r, base2
  <2>3. Leads(r, base2, Wanted)
    BY <2>1, <2>2, ItemRecorded
  <2> QED
    BY <1>6, <2>3 DEF r, base2
<1>9. Noting'
  BY <1>1, <1>4, <1>8 DEF Noting
<1> QED
  BY <1>4, <1>5, <1>9

LEMMA FoundWorks ==
  ASSUME MDWorks, md_report = {}, Found, md_report' = {}
  PROVE  MDWorks'
<1> DEFINE ptr == md_item.ptr
           R == [malloced : BOOLEAN, bookkeeping : BOOLEAN, marked : BOOLEAN, size : Nat]
<1>1. MD_TypeOK /\ Rows /\ Growth
  BY DEF MDWorks
<1>2. /\ md_stage = "find" /\ ptr \in DOMAIN md_table /\ md_stage' = "drain"
      /\ UNCHANGED <<md_tracing, md_used, md_live, md_stale, md_call, md_lock, md_item, md_room,
                     md_num_buckets, md_own, md_array, md_first, md_overflow, md_calls>>
  BY DEF Found
<1>3. /\ ptr \in Pointers /\ md_item.malloced \in BOOLEAN /\ md_item.bookkeeping \in BOOLEAN
      /\ md_item.marked = ptr.marked /\ ptr.marked \in BOOLEAN
  BY <1>2, ItemIs DEF Pointers
<1>4. md_table \in [DOMAIN md_table -> R] /\ md_table[ptr] \in R
  BY <1>1, <1>2 DEF MD_TypeOK
<1>5. md_table[ptr].malloced <=> ~md_item.malloced
  <2>1. \/ md_item.malloced /\ ~md_table[ptr].malloced
        \/ ~md_item.malloced /\ md_table[ptr].malloced
    BY <1>2 DEF Found, Report
  <2> QED
    BY <2>1
<1>6. md_first \in Todo
  BY <1>2, <1>5, ItemStale
<1>7. RowTrue(ptr)
  BY <1>1, <1>2 DEF Rows
<1>8. /\ Rows' /\ DOMAIN md_table' = DOMAIN md_table /\ md_table' \in [DOMAIN md_table' -> R]
      /\ md_marker' \in [DOMAIN md_marker' -> Int]
      /\ \A p \in Pointers : Base'[p] <=> IF p = md_item.ptr THEN md_item.malloced ELSE Base[p]
  <2>1. CASE md_item.malloced
    <3> DEFINE row == Row(md_item)
    <3>1. md_table' = Updated(md_table, ptr, row) /\ SetMarker(md_item)
      BY <1>5, <2>1 DEF Found
    <3>2. /\ row \in R /\ row.marked = ptr.marked /\ row.malloced = md_item.malloced
          /\ row.bookkeeping = md_item.bookkeeping /\ row.size = 1
      BY <1>3 DEF Row
    <3> HIDE DEF row
    <3>3. DOMAIN md_table' = DOMAIN md_table /\ md_table'[ptr] = row
          /\ \A p \in DOMAIN md_table : p # ptr => md_table'[p] = md_table[p]
      <4>1. DOMAIN md_table' = DOMAIN md_table \cup {ptr}
        BY <3>1 DEF Updated
      <4>2. \A z \in DOMAIN md_table : md_table'[z] = IF z = ptr THEN row ELSE md_table[z]
        BY <3>1 DEF Updated
      <4> QED
        BY <1>2, <4>1, <4>2
    <3>4. md_table' \in [DOMAIN md_table' -> R]
      BY <1>4, <3>1, <3>2, UpdatedType
    <3>5. md_marker \in [DOMAIN md_marker -> Int]
      BY <1>1 DEF MD_TypeOK
    <3>6. /\ md_marker' \in [DOMAIN md_marker' -> Int]
          /\ \A p \in DOMAIN md_marker : p \in DOMAIN md_marker' /\ (p # ptr => md_marker'[p] = md_marker[p])
          /\ ~row.bookkeeping /\ row.marked => ptr \in DOMAIN md_marker' /\ md_marker'[ptr] = row.size
      <4>1. CASE md_item.bookkeeping \/ ~md_item.marked
        BY <1>3, <3>1, <3>2, <3>5, <4>1 DEF SetMarker
      <4>2. CASE ~(md_item.bookkeeping \/ ~md_item.marked)
        <5>1. md_marker' = Updated(md_marker, ptr, 1)
          BY <3>1, <4>2 DEF SetMarker
        <5>2. md_marker' \in [DOMAIN md_marker' -> Int]
          BY <3>5, <5>1, UpdatedType
        <5>3. /\ DOMAIN md_marker' = DOMAIN md_marker \cup {ptr} /\ md_marker'[ptr] = 1
              /\ \A z \in DOMAIN md_marker : z # ptr => md_marker'[z] = md_marker[z]
          BY <5>1 DEF Updated
        <5> QED
          BY <3>2, <5>2, <5>3
      <4> QED
        BY <4>1, <4>2
    <3> QED
      BY <1>2, <1>3, <3>2, <3>3, <3>4, <3>6, RowWritten
  <2>2. CASE ~md_item.malloced
    <3> DEFINE row == [md_table[ptr] EXCEPT !.malloced = FALSE]
    <3>1. md_table' = [md_table EXCEPT ![ptr].malloced = FALSE] /\ md_marker' = md_marker
      BY <1>5, <2>2 DEF Found
    <3>2. row \in R /\ row.marked = ptr.marked /\ ~row.malloced
      BY <1>4, <1>7 DEF RowTrue
    <3>3. md_table' \in [DOMAIN md_table -> R] /\ md_table'[ptr] = row
          /\ \A p \in DOMAIN md_table : p # ptr => md_table'[p] = md_table[p]
      BY <1>2, <1>4, <3>1, <3>2
    <3> HIDE DEF row
    <3>4. DOMAIN md_table' = DOMAIN md_table \cup {ptr}
      BY <1>2, <3>3
    <3>5. md_marker' \in [DOMAIN md_marker' -> Int]
      BY <1>1, <3>1 DEF MD_TypeOK
    <3> QED
      BY <1>2, <2>2, <3>1, <3>2, <3>3, <3>4, <3>5, RowWritten
  <2> QED
    BY <1>3, <2>1, <2>2
<1>9. Locked' /\ OneOwner' /\ Noting'
  BY <1>2, <1>6, <1>8, RestKept
<1>10. MD_TypeOK'
  BY <1>1, <1>2, <1>8 DEF MD_TypeOK
<1>11. Growth'
  <2>1. NumRows' = NumRows /\ NumRows \in Nat
    BY <1>1, <1>8, FS_CardinalityType DEF NumRows, Rows
  <2>2. Items' = Items + 1 /\ Items \in Nat
    BY <1>1, <1>2 DEF Items, MD_TypeOK
  <2>3. /\ md_room \in Nat /\ md_num_buckets \in Nat /\ md_room' = md_room /\ md_num_buckets' = md_num_buckets
        /\ MD_FirstRoom \in Nat /\ MD_FirstBuckets \in Nat
    BY <1>1, <1>2, MemDiagAssumption DEF MD_TypeOK
  <2>4. RowsGrew => RowsGrew'
    BY <2>1, <2>2, <2>3 DEF RowsGrew
  <2>5. BucketsGrew => BucketsGrew'
    BY <2>1, <2>2, <2>3 DEF BucketsGrew
  <2> QED
    BY <1>1, <1>2, <2>1, <2>3, <2>4, <2>5 DEF Growth
<1> QED
  BY <1>8, <1>9, <1>10, <1>11 DEF MDWorks

(* An error is reported only of a pointer whose marker was written over or *)
(* whose jr_realloc had failed.                                            *)
LEMMA FoundReports ==
  ASSUME MDWorks, md_report = {}, Found, md_report' # {}
  PROVE  md_lock' # Nobody /\ ReportsTrue'
<1> DEFINE ptr == md_item.ptr
           row == md_table[ptr]
<1>1. MD_TypeOK /\ Rows
  BY DEF MDWorks
<1>2. /\ md_stage = "find" /\ ptr \in DOMAIN md_table
      /\ UNCHANGED <<md_stale, md_lock>>
  BY DEF Found
<1>3. md_lock # Nobody /\ (md_item.bookkeeping <=> ~Known(ptr)) /\ ptr \in Pointers
  BY <1>2, ItemIs
<1>4. \/ /\ ~md_item.malloced /\ row.malloced
         /\ ~md_item.bookkeeping /\ row.marked /\ md_marker[ptr] # row.size
         /\ md_report' = {[ptr |-> ptr, what |-> "bounds"]} /\ md_marker' = md_marker
      \/ /\ md_item.malloced = row.malloced
         /\ md_report' = {[ptr |-> ptr, what |-> IF row.malloced THEN "already allocated" ELSE "already freed"]}
  BY DEF Found, Report
<1>5. ASSUME ~md_item.malloced, row.malloced, ~md_item.bookkeeping, row.marked, md_marker[ptr] # row.size,
             md_report' = {[ptr |-> ptr, what |-> "bounds"]}, md_marker' = md_marker
      PROVE  md_lock' # Nobody /\ ReportsTrue'
  <2>1. RowTrue(ptr)
    BY <1>1, <1>2 DEF Rows
  <2>2. ptr.marked /\ ~row.bookkeeping
    BY <1>3, <1>5, <2>1 DEF RowTrue
  <2>3. md_marker[ptr] \in {row.size, Broken}
    BY <1>2, <1>5, <2>1, <2>2 DEF RowTrue
  <2> QED
    BY <1>2, <1>3, <1>5, <2>3 DEF ReportsTrue
<1>6. ASSUME md_item.malloced = row.malloced,
             md_report' = {[ptr |-> ptr, what |-> IF row.malloced THEN "already allocated" ELSE "already freed"]}
      PROVE  md_lock' # Nobody /\ ReportsTrue'
  <2>1. md_first \notin Todo
    <3>1. md_item.malloced <=> row.malloced
      BY <1>6
    <3> QED
      BY <1>2, <3>1, ItemTodo
  <2>2. ptr \in md_stale /\ ~row.malloced
    BY <1>2, <2>1, ItemStale
  <2>3. md_report' = {[ptr |-> ptr, what |-> "already freed"]}
    BY <1>6, <2>2
  <2>4. \A r \in md_report' : r.what = "already freed" /\ r.ptr = ptr
    <3> DEFINE rep == [ptr |-> ptr, what |-> "already freed"]
    <3>1. rep.what = "already freed" /\ rep.ptr = ptr
      OBVIOUS
    <3>2. md_report' = {rep}
      BY <2>3
    <3> HIDE DEF rep, ptr
    <3> QED
      BY <3>1, <3>2
  <2>5. ptr \in md_stale' /\ md_lock' # Nobody
    BY <1>2, <1>3, <2>2
  <2> QED
    BY <2>4, <2>5 DEF ReportsTrue
<1> QED
  BY <1>4, <1>5, <1>6

----------------------------------------------------------------------------
(* An array of the table is taken, or moved: gone are the blocks it had.   *)

LEMMA ArrayMoved ==
  ASSUME MDWorks, NEW gone, NEW block \in MD_Blocks, block \notin md_used \ gone,
         \/ gone = md_own.rows /\ md_own' = [md_own EXCEPT !.rows = {block}]
         \/ gone = md_own.buckets /\ md_own' = [md_own EXCEPT !.buckets = {block}],
         md_used' = (md_used \ gone) \cup {block},
         UNCHANGED <<md_live, md_stale, md_call>>
  PROVE  /\ OneOwner' /\ md_own' \in [rows : SUBSET MD_Blocks, buckets : SUBSET MD_Blocks]
         /\ md_used' \subseteq MD_Blocks
         /\ gone \subseteq OwnBlocks /\ OwnBlocks' = (OwnBlocks \ gone) \cup {block}
         /\ \A b \in OwnBlocks \ gone : b # block
         /\ \A p \in Pointers : Known(p) \/ p \in WantedOfClients => p.block \notin OwnBlocks /\ p.block # block
<1>1. MD_TypeOK /\ OneOwner
  BY DEF MDWorks
<1>2. md_own \in [rows : SUBSET MD_Blocks, buckets : SUBSET MD_Blocks] /\ md_used \subseteq MD_Blocks
  BY <1>1 DEF MD_TypeOK
<1>3. /\ OwnBlocks \subseteq md_used /\ md_own.rows \cap md_own.buckets = {}
      /\ \A b, c \in md_own.rows : b = c
      /\ \A b, c \in md_own.buckets : b = c
  BY <1>1 DEF OneOwner
<1>4. /\ md_own' \in [rows : SUBSET MD_Blocks, buckets : SUBSET MD_Blocks]
      /\ \/ gone = md_own.rows /\ md_own'.rows = {block} /\ md_own'.buckets = md_own.buckets
         \/ gone = md_own.buckets /\ md_own'.buckets = {block} /\ md_own'.rows = md_own.rows
  BY <1>2
<1>5. gone \subseteq OwnBlocks
  BY <1>4 DEF OwnBlocks
<1>6. \A b \in OwnBlocks \ gone : b # block
  BY <1>3
<1>7. OwnBlocks' = (OwnBlocks \ gone) \cup {block}
  BY <1>3, <1>4 DEF OwnBlocks
<1>8. \A b \in md_used \ OwnBlocks : b \in md_used' \ OwnBlocks' /\ b # block
  BY <1>5, <1>7
<1>9. \A p \in Pointers : Known(p) \/ p \in WantedOfClients => p.block \in md_used \ OwnBlocks
  BY <1>1 DEF OneOwner, Known, WantedOfClients
<1>10. OneOwner'
  <2>1. OwnBlocks' \subseteq md_used' /\ md_own'.rows \cap md_own'.buckets = {}
    <3>1. OwnBlocks' \subseteq md_used'
      BY <1>3, <1>7
    <3>2. md_own'.rows \cap md_own'.buckets = {}
      BY <1>3, <1>4, <1>6 DEF OwnBlocks
    <3> QED
      BY <3>1, <3>2
  <2>2. \A b, c \in md_own'.rows : b = c
    BY <1>3, <1>4
  <2>3. \A b, c \in md_own'.buckets : b = c
    BY <1>3, <1>4
  <2>4. \A u, p : Calling(u, p)' <=> Calling(u, p)
    BY DEF Calling
  <2>5. \A p \in DOMAIN md_live' : p.block \in md_used' \ OwnBlocks'
    BY <1>1, <1>8 DEF OneOwner
  <2>6. \A u \in MD_Threads, p \in Pointers : Calling(u, p)' => p.block \in md_used' \ OwnBlocks'
    BY <1>1, <1>8, <2>4 DEF OneOwner
  <2>7. /\ \A p, q \in DOMAIN md_live' : p.block = q.block => p = q
        /\ \A u \in MD_Threads, p \in Pointers, q \in DOMAIN md_live' : Calling(u, p)' => p.block # q.block
        /\ \A v, u \in MD_Threads, p, q \in Pointers :
             Calling(v, p)' /\ Calling(u, q)' /\ v # u => p.block # q.block
    BY <1>1, <2>4 DEF OneOwner
  <2> QED
    BY <2>1, <2>2, <2>3, <2>5, <2>6, <2>7 DEF OneOwner
<1>11. md_used' \subseteq MD_Blocks
  BY <1>2
<1> QED
  BY <1>4, <1>5, <1>6, <1>7, <1>8, <1>9, <1>10, <1>11

(* The block that was taken is noted, after the one that went back.        *)
LEMMA TakenNoted ==
  ASSUME NEW q, NEW base, NEW want \in SUBSET Pointers, Leads(q, base, want),
         NEW m \in Int, DOMAIN q \subseteq Int, \A k \in DOMAIN q : q[k] \in Notes /\ k < m,
         NEW own, own \notin want,
         NEW r, DOMAIN r = DOMAIN q \cup {m}, \A k \in DOMAIN q : r[k] = q[k],
         r[m] \in Notes, r[m].ptr = own, r[m].malloced
  PROVE  Leads(r, base, want \cup {own})
<1> DEFINE want2 == want \cup {own}
<1>1. \A p \in Pointers : p \in want2 <=> IF p = r[m].ptr THEN r[m].malloced ELSE p \in want
  OBVIOUS
<1>2. r[m].malloced <=> r[m].ptr \notin want
  OBVIOUS
<1> HIDE DEF want2
<1>3. Leads(r, base, want2)
  BY <1>1, <1>2, NoteOne
<1> QED
  BY <1>3 DEF want2

LEMMA ReturnedNoted ==
  ASSUME NEW q, NEW base, NEW want \in SUBSET Pointers, Leads(q, base, want),
         NEW m \in Int, DOMAIN q \subseteq Int, \A k \in DOMAIN q : q[k] \in Notes /\ k < m,
         NEW own \in want,
         NEW r, DOMAIN r = DOMAIN q \cup {m}, \A k \in DOMAIN q : r[k] = q[k],
         r[m] \in Notes, r[m].ptr = own, ~r[m].malloced
  PROVE  Leads(r, base, want \ {own})
<1> DEFINE want2 == want \ {own}
<1>1. \A p \in Pointers : p \in want2 <=> IF p = r[m].ptr THEN r[m].malloced ELSE p \in want
  OBVIOUS
<1>2. r[m].malloced <=> r[m].ptr \notin want
  OBVIOUS
<1> HIDE DEF want2
<1>3. Leads(r, base, want2)
  BY <1>1, <1>2, NoteOne
<1> QED
  BY <1>3 DEF want2

(* What is wanted of the table's own blocks then.                          *)
LEMMA WantedMoved ==
  ASSUME NEW gone, NEW own \in Pointers, own.marked,
         WantedOfClients' = WantedOfClients,
         \A p \in WantedOfClients : p.block \notin OwnBlocks /\ p.block # own.block,
         gone \subseteq OwnBlocks, OwnBlocks' = (OwnBlocks \ gone) \cup {own.block},
         \A b \in OwnBlocks \ gone : b # own.block,
         NEW want, \A p \in Pointers : p \in want <=> (p \in Wanted /\ ~(p.marked /\ p.block \in gone)),
         want \subseteq Pointers
  PROVE  Wanted' = want \cup {own} /\ own \notin want
<1>1. \A p \in Pointers : (p.marked /\ p.block = own.block) <=> p = own
  BY DEF Pointers
<1>2. own \notin WantedOfClients
  OBVIOUS
<1>3. \A p \in Pointers : p \in Wanted <=> (p \in WantedOfClients \/ (p.marked /\ p.block \in OwnBlocks))
  BY DEF Wanted
<1>4. \A p \in Pointers : p \in Wanted' <=> (p \in WantedOfClients \/ (p.marked /\ p.block \in OwnBlocks'))
  BY DEF Wanted
<1>5. \A p \in WantedOfClients : p.block \notin gone
  OBVIOUS
<1>6. Wanted' \subseteq Pointers
  BY DEF Wanted, WantedOfClients
<1>7. ASSUME NEW p \in Pointers PROVE p \in Wanted' <=> (p \in want \/ p = own)
  <2>1. p \in Wanted' <=> (p \in WantedOfClients \/ (p.marked /\ (p.block \in OwnBlocks \ gone \/ p.block = own.block)))
    BY <1>4
  <2>2. p \in want <=> (p \in WantedOfClients \/ (p.marked /\ p.block \in OwnBlocks \ gone))
    BY <1>3, <1>5
  <2> QED
    BY <1>1, <2>1, <2>2
<1>8. own \notin want
  BY <1>2, <1>3
<1>9. Wanted' = want \cup {own}
  BY <1>6, <1>7
<1> QED
  BY <1>8, <1>9

(* The notes that are not being recorded.                                  *)
Waiting == {n \in 1 .. Len(md_array) : n > md_first}
Rest == [n \in Waiting |-> md_array[n]]

LEMMA RestIs ==
  ASSUME MD_TypeOK
  PROVE  /\ DOMAIN Rest = Waiting /\ Waiting \subseteq Int
         /\ \A k \in Waiting : Rest[k] = md_array[k] /\ Rest[k] \in Notes /\ k < Len(md_array) + 1
  BY ArrayOfNotes DEF Rest, Waiting

(* The table takes its first array of buckets.                             *)
LEMMA NotesWhenTaken ==
  ASSUME MDWorks, md_stage # "none", md_stage' \in {"buckets", "drain"},
         md_stage' = "buckets" => md_item.malloced,
         md_stage = "find" => md_first \in Todo,
         UNCHANGED <<md_live, md_stale, md_call, md_lock, md_item, md_first>>,
         md_room' > 0,
         NEW block \in MD_Blocks, block \notin md_used \ md_own.buckets, md_own.buckets = {},
         md_own' = [md_own EXCEPT !.buckets = {block}],
         md_used' = (md_used \ md_own.buckets) \cup {block},
         Noted(<<TakenBlock(block)>>), Len(md_array) + 1 <= MD_MaxBookkeeping,
         Leads(Rest, Base', Wanted)
  PROVE  /\ Locked' /\ OneOwner' /\ Noting' /\ (~md_overflow => ~md_overflow')
         /\ md_array' \in Seq(Notes) /\ Len(md_array') = Len(md_array) + 1
         /\ md_own' \in [rows : SUBSET MD_Blocks, buckets : SUBSET MD_Blocks] /\ md_used' \subseteq MD_Blocks
<1> DEFINE own == Pointer(block, TRUE)
           note == [ptr |-> own, malloced |-> TRUE]
           notes == <<TakenBlock(block)>>
           m == Len(md_array) + 1
<1>1. MD_TypeOK /\ Noting
  BY DEF MDWorks
<1>2. /\ OneOwner' /\ md_own' \in [rows : SUBSET MD_Blocks, buckets : SUBSET MD_Blocks]
      /\ md_used' \subseteq MD_Blocks
      /\ OwnBlocks' = (OwnBlocks \ {}) \cup {block}
      /\ \A b \in OwnBlocks \ {} : b # block
      /\ \A p \in Pointers : Known(p) \/ p \in WantedOfClients => p.block \notin OwnBlocks /\ p.block # block
  BY ArrayMoved
<1>3. own \in Pointers /\ own.block = block /\ own.marked = TRUE /\ note \in Notes /\ note.ptr = own /\ note.malloced = TRUE
  BY PointerIs DEF Notes
<1>4. md_array' = Append(md_array, note) /\ (~md_overflow => ~md_overflow')
  <2>1. Len(notes) = 1 /\ notes[1] = TakenBlock(block)
    OBVIOUS
  <2>2. TakenBlock(block).block = block /\ TakenBlock(block).malloced = TRUE
    BY DEF TakenBlock
  <2>3. note = [ptr |-> Pointer(notes[1].block, TRUE), malloced |-> notes[1].malloced]
    BY <2>1, <2>2
  <2>4. md_array \in Seq(Notes) /\ Noted(notes)
    BY <1>1 DEF MD_TypeOK, Notes
  <2> HIDE DEF note, notes
  <2> QED
    BY <1>3, <2>1, <2>3, <2>4, NotedOne
<1> HIDE DEF own, note, notes
<1>5. /\ md_array' \in Seq(Notes) /\ Len(md_array') = m /\ m \in Nat /\ Len(md_array) \in Nat
      /\ md_array'[m] = note /\ \A n \in 1 .. Len(md_array) : md_array'[n] = md_array[n]
  <2>1. md_array \in Seq(Notes)
    BY <1>1 DEF MD_TypeOK, Notes
  <2> QED
    BY <1>3, <1>4, <2>1, AppendProperties, LenProperties
<1>6. /\ Locked'
      /\ Todo' = {n \in 1 .. Len(md_array') : n > md_first}
      /\ \A n \in Todo' : NoteAt(n)' = md_array'[n]
      /\ \A p : Known(p)' <=> Known(p)
      /\ WantedOfClients' = WantedOfClients
  <2>1. Len(md_array') \in Nat /\ Len(md_array) <= Len(md_array')
    BY <1>5
  <2> QED
    BY <1>5, <2>1, NotesKept
<1>7. Wanted' = Wanted \cup {own} /\ own \notin Wanted
  <2>1. Wanted \subseteq Pointers /\ WantedOfClients \subseteq Pointers
    BY DEF Wanted, WantedOfClients
  <2> DEFINE want == Wanted
             gone == {}
  <2>2. gone \subseteq OwnBlocks /\ want \subseteq Pointers
    BY <2>1
  <2>3. \A p \in Pointers : p \in want <=> (p \in Wanted /\ ~(p.marked /\ p.block \in gone))
    OBVIOUS
  <2>4. /\ WantedOfClients' = WantedOfClients
        /\ \A p \in WantedOfClients : p.block \notin OwnBlocks /\ p.block # own.block
        /\ OwnBlocks' = (OwnBlocks \ gone) \cup {own.block}
        /\ \A b \in OwnBlocks \ gone : b # own.block
    BY <1>2, <1>3, <1>6, <2>1
  <2> HIDE DEF want, gone
  <2>5. Wanted' = want \cup {own} /\ own \notin want
    <3>1. own \in Pointers /\ own.marked
      BY <1>3
    <3> QED
      BY <2>2, <2>3, <2>4, <3>1, WantedMoved, Zenon
  <2> QED
    BY <2>5 DEF want
<1>8. Todo' = Waiting \cup {m}
  <2>1. md_first \in 0 .. Len(md_array)
    BY <1>1 DEF MD_TypeOK
  <2> QED
    BY <1>5, <1>6, <2>1 DEF Waiting
<1>9. Leads(ToRecord', Base', Wanted')
  <2> DEFINE r == ToRecord'
             q == Rest
             base == Base'
             want == Wanted
  <2>1. DOMAIN r = Waiting \cup {m} /\ \A k \in Waiting \cup {m} : r[k] = md_array'[k]
    BY <1>6, <1>8 DEF ToRecord
  <2>2. DOMAIN q = Waiting /\ DOMAIN q \subseteq Int /\ \A k \in DOMAIN q : q[k] \in Notes /\ k < m
    BY <1>1, RestIs
  <2>3. \A k \in DOMAIN q : r[k] = q[k]
    <3>1. \A k \in Waiting : q[k] = md_array[k]
      BY <1>1, RestIs
    <3>2. \A k \in Waiting : md_array'[k] = md_array[k]
      BY <1>5 DEF Waiting
    <3> HIDE DEF r, q
    <3> QED
      BY <2>1, <2>2, <3>1, <3>2
  <2>4. r[m] = note
    <3> HIDE DEF r
    <3> QED
      BY <1>5, <2>1
  <2>5. want \in SUBSET Pointers /\ Leads(q, base, want)
    BY DEF Wanted, WantedOfClients
  <2>6. DOMAIN r = DOMAIN q \cup {m}
    <3> HIDE DEF r, q
    <3> QED
      BY <2>1, <2>2
  <2>7. r[m] \in Notes /\ r[m].ptr = own /\ r[m].malloced
    <3> HIDE DEF r
    <3> QED
      BY <1>3, <2>4
  <2>8. m \in Int /\ own \notin want
    BY <1>5, <1>7
  <2> HIDE DEF r, q, base, want, m
  <2>9. Leads(r, base, want \cup {own})
    BY <2>2, <2>3, <2>5, <2>6, <2>7, <2>8, TakenNoted
  <2> QED
    BY <1>7, <2>9 DEF r, base, want
<1>10. Noting'
  <2>1. \A n \in 1 .. Len(md_array') : n \in 1 .. Len(md_array) \/ n = m
    BY <1>5
  <2>2. ~Known(own)
    BY <1>2, <1>3
  <2>3. ASSUME NEW n \in 1 .. Len(md_array')
        PROVE  md_array'[n].ptr.marked /\ (n >= md_first => ~Known(md_array[n].ptr)')
    <3>1. CASE n = m
      BY <1>3, <1>5, <1>6, <2>2, <3>1
    <3>2. CASE n \in 1 .. Len(md_array)
      BY <1>1, <1>5, <1>6, <3>2 DEF Noting
    <3> QED
      BY <2>1, <3>1, <3>2
  <2> QED
    BY <1>9, <2>3 DEF Noting
<1> QED
  BY <1>2, <1>4, <1>5, <1>6, <1>10

(* One of its arrays moves.                                                *)
LEMMA NotesWhenMoved ==
  ASSUME MDWorks, md_stage # "none", md_stage' \in {"buckets", "drain"},
         md_stage' = "buckets" => md_item.malloced,
         md_stage = "find" => md_first \in Todo,
         UNCHANGED <<md_live, md_stale, md_call, md_lock, md_item, md_first>>,
         md_room' > 0,
         NEW old \in MD_Blocks, NEW block \in MD_Blocks, block \notin md_used \ {old},
         \/ {old} = md_own.rows /\ md_own' = [md_own EXCEPT !.rows = {block}]
         \/ {old} = md_own.buckets /\ md_own' = [md_own EXCEPT !.buckets = {block}],
         md_used' = (md_used \ {old}) \cup {block},
         Noted(<<ReturnedBlock(old), TakenBlock(block)>>), Len(md_array) + 2 <= MD_MaxBookkeeping,
         Leads(Rest, Base', Wanted)
  PROVE  /\ Locked' /\ OneOwner' /\ Noting' /\ (~md_overflow => ~md_overflow')
         /\ md_array' \in Seq(Notes) /\ Len(md_array') = Len(md_array) + 2
         /\ md_own' \in [rows : SUBSET MD_Blocks, buckets : SUBSET MD_Blocks] /\ md_used' \subseteq MD_Blocks
<1> DEFINE oldOwn == Pointer(old, TRUE)
           own == Pointer(block, TRUE)
           note1 == [ptr |-> oldOwn, malloced |-> FALSE]
           note2 == [ptr |-> own, malloced |-> TRUE]
           notes == <<ReturnedBlock(old), TakenBlock(block)>>
           m == Len(md_array) + 1
           gone == {old}
           want == Wanted \ {oldOwn}
<1>1. MD_TypeOK /\ Noting
  BY DEF MDWorks
<1>2. /\ OneOwner' /\ md_own' \in [rows : SUBSET MD_Blocks, buckets : SUBSET MD_Blocks]
      /\ md_used' \subseteq MD_Blocks
      /\ gone \subseteq OwnBlocks
      /\ OwnBlocks' = (OwnBlocks \ gone) \cup {block}
      /\ \A b \in OwnBlocks \ gone : b # block
      /\ \A p \in Pointers : Known(p) \/ p \in WantedOfClients => p.block \notin OwnBlocks /\ p.block # block
  BY ArrayMoved
<1>3. /\ own \in Pointers /\ own.block = block /\ own.marked = TRUE
      /\ note2 \in Notes /\ note2.ptr = own /\ note2.malloced = TRUE
  BY PointerIs DEF Notes
<1>4. /\ oldOwn \in Pointers /\ oldOwn.block = old /\ oldOwn.marked = TRUE
      /\ note1 \in Notes /\ note1.ptr = oldOwn /\ note1.malloced = FALSE
  BY PointerIs DEF Notes
<1>marked. \A p \in Pointers : (p.marked /\ p.block \in gone) <=> p = oldOwn
  BY <1>4 DEF Pointers, Pointer
<1>5. md_array' = Append(Append(md_array, note1), note2) /\ (~md_overflow => ~md_overflow')
  <2>1. Len(notes) = 2 /\ notes[1] = ReturnedBlock(old) /\ notes[2] = TakenBlock(block)
    OBVIOUS
  <2>2. /\ TakenBlock(block).block = block /\ TakenBlock(block).malloced = TRUE
        /\ ReturnedBlock(old).block = old /\ ReturnedBlock(old).malloced = FALSE
    BY DEF TakenBlock, ReturnedBlock
  <2>3. /\ note1 = [ptr |-> Pointer(notes[1].block, TRUE), malloced |-> notes[1].malloced]
        /\ note2 = [ptr |-> Pointer(notes[2].block, TRUE), malloced |-> notes[2].malloced]
    BY <2>1, <2>2
  <2>4. md_array \in Seq(Notes) /\ Noted(notes)
    BY <1>1 DEF MD_TypeOK, Notes
  <2>5. note1 \in Notes /\ note2 \in Notes /\ Len(notes) = 2
    BY <1>3, <1>4, <2>1
  <2>6. Len(md_array) + 2 <= MD_MaxBookkeeping
    OBVIOUS
  <2> HIDE DEF own, oldOwn, note1, note2, notes
  <2> QED
    BY ONLY <2>3, <2>4, <2>5, <2>6, NotedTwo
<1> HIDE DEF own, oldOwn, note1, note2, notes
<1>6. /\ md_array' \in Seq(Notes) /\ Len(md_array') = m + 1 /\ m \in Nat /\ Len(md_array) \in Nat
      /\ md_array'[m] = note1 /\ md_array'[m + 1] = note2
      /\ \A n \in 1 .. Len(md_array) : md_array'[n] = md_array[n]
  <2> DEFINE one == Append(md_array, note1)
  <2>1. md_array \in Seq(Notes)
    BY <1>1 DEF MD_TypeOK, Notes
  <2>2. /\ one \in Seq(Notes) /\ Len(one) = m /\ Len(md_array) \in Nat
        /\ one[m] = note1 /\ \A n \in 1 .. Len(md_array) : one[n] = md_array[n]
    BY <1>4, <2>1, AppendProperties, LenProperties
  <2> HIDE DEF one
  <2>3. md_array' = Append(one, note2)
    BY <1>5 DEF one
  <2>4. /\ md_array' \in Seq(Notes) /\ Len(md_array') = m + 1 /\ md_array'[m + 1] = note2
        /\ \A n \in 1 .. m : md_array'[n] = one[n]
    BY <1>3, <2>2, <2>3, AppendProperties
  <2> QED
    BY <2>2, <2>4
<1>7. /\ Locked'
      /\ Todo' = {n \in 1 .. Len(md_array') : n > md_first}
      /\ \A n \in Todo' : NoteAt(n)' = md_array'[n]
      /\ \A p : Known(p)' <=> Known(p)
      /\ WantedOfClients' = WantedOfClients
  <2>1. Len(md_array') \in Nat /\ Len(md_array) <= Len(md_array')
    BY <1>6
  <2> QED
    BY <1>6, <2>1, NotesKept
<1>8. Wanted' = want \cup {own} /\ own \notin want /\ oldOwn \in Wanted /\ want \subseteq Pointers
  <2>1. Wanted \subseteq Pointers /\ WantedOfClients \subseteq Pointers
    BY DEF Wanted, WantedOfClients
  <2>2. gone \subseteq OwnBlocks /\ want \subseteq Pointers
    BY <1>2, <2>1
  <2>3. \A p \in Pointers : p \in want <=> (p \in Wanted /\ ~(p.marked /\ p.block \in gone))
    BY <1>marked
  <2>4. /\ WantedOfClients' = WantedOfClients
        /\ \A p \in WantedOfClients : p.block \notin OwnBlocks /\ p.block # own.block
        /\ OwnBlocks' = (OwnBlocks \ gone) \cup {own.block}
        /\ \A b \in OwnBlocks \ gone : b # own.block
    BY <1>2, <1>3, <1>7, <2>1
  <2>5. oldOwn \in Wanted
    BY <1>2, <1>4 DEF Wanted
  <2>6. own \in Pointers /\ own.marked
    BY <1>3
  <2> HIDE DEF want, gone
  <2>7. Wanted' = want \cup {own} /\ own \notin want
    BY <2>2, <2>3, <2>4, <2>6, WantedMoved, Zenon
  <2> QED
    BY <2>2, <2>5, <2>7
<1>9. Todo' = Waiting \cup {m, m + 1}
  <2>1. md_first \in 0 .. Len(md_array)
    BY <1>1 DEF MD_TypeOK
  <2> QED
    BY <1>6, <1>7, <2>1 DEF Waiting
<1>10. Leads(ToRecord', Base', Wanted')
  <2> DEFINE r == ToRecord'
             q == Rest
             q1 == [k \in Waiting \cup {m} |-> IF k = m THEN note1 ELSE md_array[k]]
             base == Base'
  <2>1. DOMAIN r = Waiting \cup {m, m + 1} /\ \A k \in Waiting \cup {m, m + 1} : r[k] = md_array'[k]
    BY <1>7, <1>9 DEF ToRecord
  <2>2. DOMAIN q = Waiting /\ DOMAIN q \subseteq Int /\ \A k \in DOMAIN q : q[k] \in Notes /\ k < m /\ q[k] = md_array[k]
    BY <1>1, RestIs
  <2>3. \A k \in Waiting : k \in 1 .. Len(md_array)
    BY DEF Waiting
  <2>4. m \in Int /\ m + 1 \in Int /\ m < m + 1 /\ m # m + 1
    BY <1>6
  <2>5. DOMAIN q1 = Waiting \cup {m} /\ q1[m] = note1 /\ \A k \in Waiting : k # m => q1[k] = md_array[k]
    OBVIOUS
  <2> HIDE DEF r, q, q1, base, m
  <2>6. \A k \in Waiting : q1[k] = q[k] /\ q[k] \in Notes /\ k < m /\ k < m + 1 /\ k # m
    BY <2>2, <2>4, <2>5
  <2>7. Leads(q, base, Wanted) /\ Wanted \in SUBSET Pointers
    BY DEF Wanted, WantedOfClients, q, base
  <2>8. Leads(q1, base, want)
    <3>1. DOMAIN q1 = DOMAIN q \cup {m} /\ \A k \in DOMAIN q : q1[k] = q[k] /\ q[k] \in Notes /\ k < m
      BY <2>2, <2>5, <2>6
    <3>2. q1[m] \in Notes /\ q1[m].ptr = oldOwn /\ ~q1[m].malloced
      BY <1>4, <2>5
    <3>3. oldOwn \in Wanted
      BY <1>8
    <3>4. DOMAIN q \subseteq Int /\ m \in Int
      BY <2>2, <2>4
    <3>5. DOMAIN q1 = DOMAIN q \cup {m}
      BY <3>1
    <3>6. \A k \in DOMAIN q : q[k] \in Notes /\ k < m
      BY <3>1
    <3>7. \A k \in DOMAIN q : q1[k] = q[k]
      BY <3>1
    <3> HIDE DEF want
    <3>8. Leads(q1, base, Wanted \ {oldOwn})
      BY <2>7, <3>2, <3>3, <3>4, <3>5, <3>6, <3>7, ReturnedNoted
    <3> QED
      BY <3>8 DEF want
  <2> HIDE DEF want
  <2>9. Leads(r, base, want \cup {own})
    <3>1. DOMAIN r = DOMAIN q1 \cup {m + 1}
      BY <2>1, <2>5
    <3>2. \A k \in DOMAIN q1 : r[k] = q1[k] /\ q1[k] \in Notes /\ k < m + 1
      <4>1. ASSUME NEW k \in Waiting PROVE r[k] = q1[k] /\ q1[k] \in Notes /\ k < m + 1
        BY <1>6, <2>1, <2>2, <2>3, <2>6
      <4>2. r[m] = q1[m] /\ q1[m] \in Notes
        BY <1>4, <1>6, <2>1, <2>5 DEF m
      <4> QED
        BY <2>4, <2>5, <4>1, <4>2
    <3>3. r[m + 1] = note2
      BY <1>6, <2>1 DEF m
    <3>4. r[m + 1] \in Notes /\ r[m + 1].ptr = own /\ r[m + 1].malloced
      BY <1>3, <3>3
    <3>5. DOMAIN q1 \subseteq Int
      BY <2>2, <2>4, <2>5
    <3>6. want \in SUBSET Pointers /\ own \notin want
      BY <1>8
    <3> QED
      BY <2>4, <2>8, <3>1, <3>2, <3>4, <3>5, <3>6, TakenNoted
  <2> QED
    BY <1>8, <2>9 DEF r, base
<1>11. Noting'
  <2>1. \A n \in 1 .. Len(md_array') : n \in 1 .. Len(md_array) \/ n = m \/ n = m + 1
    BY <1>6
  <2>2. ~Known(own) /\ ~Known(oldOwn)
    BY <1>2, <1>3, <1>4
  <2>3. ASSUME NEW n \in 1 .. Len(md_array')
        PROVE  md_array'[n].ptr.marked /\ (n >= md_first => ~Known(md_array[n].ptr)')
    <3>1. CASE n = m
      BY <1>4, <1>6, <1>7, <2>2, <3>1
    <3>2. CASE n = m + 1
      BY <1>3, <1>6, <1>7, <2>2, <3>2
    <3>3. CASE n \in 1 .. Len(md_array)
      BY <1>1, <1>6, <1>7, <3>3 DEF Noting
    <3> QED
      BY <2>1, <3>1, <3>2, <3>3
  <2> QED
    BY <1>10, <2>3 DEF Noting
<1> QED
  BY <1>2, <1>5, <1>6, <1>7, <1>11

(* The bounds of the new pointer are set.                                  *)
LEMMA MarkerSet ==
  ASSUME MDWorks, md_stage = "buckets", md_stage' = "drain", SetMarker(md_item),
         UNCHANGED <<md_live, md_stale, md_call, md_lock, md_item, md_table, md_first>>
  PROVE  Rows' /\ md_marker' \in [DOMAIN md_marker' -> Int]
<1> DEFINE ptr == md_item.ptr
<1>1. MD_TypeOK /\ Locked /\ Rows /\ md_item.malloced
  BY DEF MDWorks, Locked
<1>2. /\ md_lock \in MD_Threads /\ ptr \in Pointers
      /\ md_item.bookkeeping \in BOOLEAN /\ md_item.marked = ptr.marked /\ ptr.marked \in BOOLEAN
      /\ md_item.bookkeeping <=> md_first # 0
      /\ md_item.bookkeeping <=> ~Known(ptr)
      /\ md_first = 0 => /\ ptr = md_call[md_lock].ptr
                         /\ md_item.malloced <=> md_call[md_lock].step = "record malloc"
  BY ItemIs DEF Pointers
<1>3. \A p : Known(p)' <=> Known(p)
  BY DEF Known, Calling
<1>4. md_marker \in [DOMAIN md_marker -> Int]
  BY <1>1 DEF MD_TypeOK
<1>5. /\ md_marker' \in [DOMAIN md_marker' -> Int]
      /\ \A p \in DOMAIN md_marker : p \in DOMAIN md_marker' /\ (p # ptr => md_marker'[p] = md_marker[p])
      /\ ~md_item.bookkeeping /\ ptr.marked => ptr \in DOMAIN md_marker' /\ md_marker'[ptr] = 1
  <2>1. CASE md_item.bookkeeping \/ ~md_item.marked
    BY <1>2, <1>4, <2>1 DEF SetMarker
  <2>2. CASE ~(md_item.bookkeeping \/ ~md_item.marked)
    <3>1. md_marker' = Updated(md_marker, ptr, 1)
      BY <2>2 DEF SetMarker
    <3>2. md_marker' \in [DOMAIN md_marker' -> Int]
      BY <1>4, <3>1, UpdatedType
    <3>3. /\ DOMAIN md_marker' = DOMAIN md_marker \cup {ptr} /\ md_marker'[ptr] = 1
          /\ \A z \in DOMAIN md_marker : z # ptr => md_marker'[z] = md_marker[z]
      BY <3>1 DEF Updated
    <3> QED
      BY <3>2, <3>3
  <2> QED
    BY <2>1, <2>2
<1>6. ASSUME NEW p \in DOMAIN md_table PROVE RowTrue(p)'
  <2>1. RowTrue(p)
    BY <1>1 DEF Rows
  <2>2. CASE p = ptr
    <3>1. ASSUME md_table[p].malloced, ~md_table[p].bookkeeping, p.marked
          PROVE  p \in DOMAIN md_marker' /\ md_marker'[p] = md_table[p].size
      <4>1. ~md_item.bookkeeping /\ md_first = 0
        BY <1>2, <2>1, <2>2, <3>1 DEF RowTrue
      <4>2. IsNew(md_lock) /\ md_call[md_lock].ptr = ptr
        BY <1>1, <1>2, <4>1 DEF IsNew
      <4>3. md_table[p].size = 1
        BY <1>1, <1>2, <2>2, <4>2 DEF Rows, CallHasRow
      <4> QED
        BY <1>5, <2>2, <3>1, <4>1, <4>3
    <3> QED
      BY <1>3, <2>1, <3>1 DEF RowTrue
  <2>3. CASE p # ptr
    BY <1>3, <1>5, <2>1, <2>3 DEF RowTrue
  <2> QED
    BY <2>2, <2>3
<1>7. SizesKnown'
  BY <1>1 DEF Rows, SizesKnown
<1>8. \A t \in MD_Threads : CallHasRow(t)'
  BY <1>1 DEF Rows, CallHasRow, IsNew, IsFreed
<1>9. \A p \in md_stale' : StaleHasRow(p)'
  BY <1>1 DEF Rows, StaleHasRow
<1>10. Rows'
  BY <1>1, <1>6, <1>7, <1>8, <1>9 DEF Rows
<1> QED
  BY <1>5, <1>10

(* How the arrays of the table have grown since the mutex was taken.       *)
LEMMA GrowthIs ==
  ASSUME MDWorks, RoomForNotes, md_stage # "none"
  PROVE  /\ NumRows \in Nat /\ md_room \in Nat /\ md_num_buckets \in Nat /\ md_first \in Nat
         /\ Len(md_array) \in Nat /\ md_first <= Len(md_array) /\ md_room > 0
         /\ MD_FirstRoom \in Nat /\ MD_FirstBuckets \in Nat /\ MD_MaxBookkeeping \in Nat
         /\ MD_MaxBookkeeping >= 5 /\ MD_FirstRoom >= 6 /\ MD_FirstBuckets >= 7
         /\ md_room >= MD_FirstRoom /\ (md_num_buckets = 0 \/ md_num_buckets >= MD_FirstBuckets)
         /\ NumRows <= md_room
         /\ Len(md_array) <= 5
<1>1. MD_TypeOK /\ Locked /\ Rows /\ Growth
  BY DEF MDWorks
<1>2. NumRows \in Nat
  BY <1>1, FS_CardinalityType DEF NumRows, Rows
<1>3. md_room \in Nat /\ md_num_buckets \in Nat /\ Len(md_array) \in Nat /\ md_first \in 0 .. Len(md_array)
  BY <1>1, ArrayOfNotes DEF MD_TypeOK
<1>4. MD_FirstRoom \in Nat /\ MD_FirstBuckets \in Nat /\ MD_MaxBookkeeping \in Nat
  BY MemDiagAssumption
<1>5. md_room > 0
  BY <1>1 DEF Locked
<1>6. Len(md_array) <= 5
  BY <1>1, <1>3 DEF Growth
<1> QED
  BY <1>1, <1>2, <1>3, <1>4, <1>5, <1>6 DEF Growth, RoomForNotes

LEMMA BucketsWorks ==
  ASSUME MDWorks, RoomForNotes, Buckets
  PROVE  MDWorks' /\ md_report' = md_report /\ (~md_overflow => ~md_overflow')
<1> DEFINE ptr == md_item.ptr
<1>1. MD_TypeOK /\ Locked /\ OneOwner /\ Noting /\ Rows /\ Growth
  BY DEF MDWorks
<1>2. /\ md_stage = "buckets" /\ md_stage' = "drain" /\ SetMarker(md_item)
      /\ UNCHANGED <<md_tracing, md_live, md_stale, md_call, md_lock, md_item, md_table,
                     md_room, md_first, md_report, md_calls>>
  BY DEF Buckets
<1>3. Rows' /\ md_marker' \in [DOMAIN md_marker' -> Int]
  BY <1>2, MarkerSet
<1>4. /\ NumRows \in Nat /\ md_room \in Nat /\ md_num_buckets \in Nat /\ md_first \in Nat
      /\ Len(md_array) \in Nat /\ md_first <= Len(md_array) /\ md_room > 0
      /\ MD_FirstRoom \in Nat /\ MD_FirstBuckets \in Nat /\ MD_MaxBookkeeping \in Nat
      /\ MD_MaxBookkeeping >= 5 /\ MD_FirstRoom >= 6 /\ MD_FirstBuckets >= 7
      /\ md_room >= MD_FirstRoom /\ (md_num_buckets = 0 \/ md_num_buckets >= MD_FirstBuckets)
      /\ NumRows <= md_room
      /\ Len(md_array) <= 5
  BY <1>2, GrowthIs
<1>5. NumRows' = NumRows /\ Items' = Items /\ Items = md_first + 1
  BY <1>2 DEF NumRows, Items
<1>6. NumRows <= md_num_buckets + 1
  BY <1>1, <1>2 DEF Growth
<1>7. Leads(Rest, Base', Wanted)
  <2>1. Todo = Waiting
    BY <1>2, <1>4 DEF Todo, Waiting
  <2>2. \A n \in Todo : NoteAt(n) = md_array[n]
    <3>1. \A n \in Waiting : n # 0
      BY DEF Waiting
    <3> QED
      BY <2>1, <3>1 DEF NoteAt
  <2>3. ToRecord = Rest
    BY <2>1, <2>2 DEF ToRecord, Rest
  <2>4. Base' = Base
    BY <1>2 DEF Base
  <2> QED
    BY <1>1, <2>3, <2>4 DEF Noting
<1>8. CASE NumRows <= md_num_buckets
  <2>1. UNCHANGED <<md_num_buckets, md_own, md_used, md_array, md_overflow>>
    BY <1>8 DEF Buckets, NumRows
  <2>2. Locked' /\ Todo' = Waiting /\ (\A n \in Todo' : NoteAt(n)' = md_array[n])
        /\ (\A p : Known(p)' <=> Known(p)) /\ WantedOfClients' = WantedOfClients
    <3>1. md_room' > 0 /\ Len(md_array') \in Nat /\ Len(md_array) <= Len(md_array')
      BY <1>2, <1>4, <2>1
    <3>2. /\ Locked'
          /\ Todo' = {n \in 1 .. Len(md_array') : n > md_first}
          /\ \A n \in Todo' : NoteAt(n)' = md_array'[n]
          /\ \A p : Known(p)' <=> Known(p)
          /\ WantedOfClients' = WantedOfClients
      BY <1>2, <2>1, <3>1, NotesKept
    <3> QED
      BY <2>1, <3>2 DEF Waiting
  <2>3. ToRecord' = Rest
    BY <2>2 DEF ToRecord, Rest
  <2>4. Wanted' = Wanted
    BY <2>1, <2>2 DEF Wanted, OwnBlocks
  <2>5. Noting'
    <3>1. Leads(ToRecord', Base', Wanted')
      BY <1>7, <2>3, <2>4
    <3> QED
      BY <1>1, <1>2, <2>1, <2>2, <3>1 DEF Noting
  <2>6. OneOwner'
    BY <1>1, <1>2, <2>1 DEF OneOwner, OwnBlocks, Calling
  <2>7. MD_TypeOK'
    BY <1>1, <1>2, <1>3, <2>1 DEF MD_TypeOK
  <2>8. Growth'
    <3>1. (RowsGrew => RowsGrew') /\ (BucketsGrew => BucketsGrew')
      BY <1>2, <1>5, <2>1 DEF RowsGrew, BucketsGrew
    <3> QED
      BY <1>1, <1>2, <1>4, <1>5, <1>8, <2>1, <3>1 DEF Growth
  <2> QED
    BY <1>2, <1>3, <2>1, <2>2, <2>5, <2>6, <2>7, <2>8 DEF MDWorks
<1>9. CASE ~(NumRows <= md_num_buckets)
  <2>1. PICK block \in MD_Blocks \ (md_used \ md_own.buckets) :
          /\ md_num_buckets' = IF md_num_buckets = 0 THEN MD_FirstBuckets ELSE 2 * (md_num_buckets - 1) + 1
          /\ md_own' = [md_own EXCEPT !.buckets = {block}]
          /\ md_used' = (md_used \ md_own.buckets) \cup {block}
          /\ \/ md_own.buckets = {} /\ Noted(<<TakenBlock(block)>>)
             \/ \E old \in md_own.buckets : Noted(<<ReturnedBlock(old), TakenBlock(block)>>)
    BY <1>9 DEF Buckets, NumRows
  <2>2. NumRows = md_num_buckets + 1
    BY <1>4, <1>6, <1>9
  <2>3. /\ md_num_buckets' \in Nat /\ md_num_buckets' >= MD_FirstBuckets
        /\ NumRows <= md_num_buckets' /\ BucketsGrew'
    <3>1. CASE md_num_buckets = 0
      BY <1>4, <1>5, <2>1, <2>2, <3>1 DEF BucketsGrew
    <3>2. CASE md_num_buckets # 0
      <4>1. md_num_buckets' = 2 * (md_num_buckets - 1) + 1 /\ md_num_buckets >= MD_FirstBuckets
        BY <1>4, <2>1, <3>2
      <4> QED
        BY <1>4, <1>5, <2>2, <4>1 DEF BucketsGrew
    <3> QED
      BY <3>1, <3>2
  <2>4. ~BucketsGrew
    BY <1>4, <1>5, <2>2 DEF BucketsGrew
  <2>5. Len(md_array) <= 1 \/ (Len(md_array) <= 3 /\ RowsGrew)
    BY <1>1, <2>4 DEF Growth
  <2>6. Len(md_array) + 2 <= MD_MaxBookkeeping /\ Len(md_array) + 1 <= MD_MaxBookkeeping
    BY <1>4, <2>5
  <2>7. /\ Locked' /\ OneOwner' /\ Noting' /\ (~md_overflow => ~md_overflow')
        /\ md_array' \in Seq(Notes) /\ Len(md_array') <= Len(md_array) + 2 /\ Len(md_array') \in Nat
        /\ Len(md_array) <= Len(md_array')
        /\ md_own' \in [rows : SUBSET MD_Blocks, buckets : SUBSET MD_Blocks] /\ md_used' \subseteq MD_Blocks
    <3>1. md_room' > 0 /\ block \in MD_Blocks /\ block \notin md_used \ md_own.buckets
      BY <1>2, <1>4, <2>1
    <3>2. CASE md_own.buckets = {} /\ Noted(<<TakenBlock(block)>>)
      <4>1. /\ Locked' /\ OneOwner' /\ Noting' /\ (~md_overflow => ~md_overflow')
            /\ md_array' \in Seq(Notes) /\ Len(md_array') = Len(md_array) + 1
            /\ md_own' \in [rows : SUBSET MD_Blocks, buckets : SUBSET MD_Blocks] /\ md_used' \subseteq MD_Blocks
        BY <1>2, <1>7, <2>1, <2>6, <3>1, <3>2, NotesWhenTaken
      <4> QED
        BY <1>4, <4>1
    <3>3. ASSUME NEW old \in md_own.buckets, Noted(<<ReturnedBlock(old), TakenBlock(block)>>)
          PROVE  /\ Locked' /\ OneOwner' /\ Noting' /\ (~md_overflow => ~md_overflow')
                 /\ md_array' \in Seq(Notes) /\ Len(md_array') <= Len(md_array) + 2 /\ Len(md_array') \in Nat
                 /\ Len(md_array) <= Len(md_array')
                 /\ md_own' \in [rows : SUBSET MD_Blocks, buckets : SUBSET MD_Blocks] /\ md_used' \subseteq MD_Blocks
      <4>1. {old} = md_own.buckets /\ old \in MD_Blocks
        BY <1>1 DEF OneOwner, MD_TypeOK
      <4>2. block \notin md_used \ {old} /\ md_used' = (md_used \ {old}) \cup {block}
        BY <2>1, <4>1
      <4>3. /\ Locked' /\ OneOwner' /\ Noting' /\ (~md_overflow => ~md_overflow')
            /\ md_array' \in Seq(Notes) /\ Len(md_array') = Len(md_array) + 2
            /\ md_own' \in [rows : SUBSET MD_Blocks, buckets : SUBSET MD_Blocks] /\ md_used' \subseteq MD_Blocks
        BY <1>2, <1>7, <2>1, <2>6, <3>1, <3>3, <4>1, <4>2, NotesWhenMoved
      <4> QED
        BY <1>4, <4>3
    <3> QED
      BY <2>1, <3>2, <3>3
  <2>8. MD_TypeOK'
    <3>1. md_first' \in 0 .. Len(md_array')
      BY <1>2, <1>4, <2>7
    <3>2. md_array' \in Seq([ptr : Pointers, malloced : BOOLEAN])
      BY <2>7 DEF Notes
    <3> QED
      BY <1>1, <1>2, <1>3, <2>3, <2>7, <3>1, <3>2 DEF MD_TypeOK
  <2>9. Growth'
    <3>1. RowsGrew => RowsGrew'
      BY <1>2, <1>5 DEF RowsGrew
    <3>2. md_own'.rows = md_own.rows /\ md_own'.buckets # {}
      BY <1>1, <2>1 DEF MD_TypeOK
    <3>3. md_num_buckets' # 0
      BY <1>4, <2>3
    <3>4. NumRows' <= md_num_buckets' + 0
      <4>1. NumRows' <= md_num_buckets' /\ md_num_buckets' \in Nat
        BY <1>5, <2>3
      <4> QED
        BY <4>1
    <3>5. BucketsGrew' /\ (Len(md_array') <= 3 \/ (Len(md_array') <= 5 /\ RowsGrew'))
      BY <1>4, <2>3, <2>5, <2>7, <3>1
    <3> QED
      BY <1>1, <1>2, <1>4, <1>5, <2>3, <3>2, <3>3, <3>4, <3>5 DEF Growth
  <2> QED
    BY <1>2, <1>3, <2>7, <2>8, <2>9 DEF MDWorks
<1> QED
  BY <1>8, <1>9

LEMMA NewRowWorks ==
  ASSUME MDWorks, md_report = {}, RoomForNotes, NewRow
  PROVE  MDWorks' /\ md_report' = md_report /\ (~md_overflow => ~md_overflow')
<1> DEFINE ptr == md_item.ptr
           R == [malloced : BOOLEAN, bookkeeping : BOOLEAN, marked : BOOLEAN, size : Nat]
           row == Row(md_item)
<1>1. MD_TypeOK /\ Locked /\ OneOwner /\ Noting /\ Rows /\ Growth
  BY DEF MDWorks
<1>2. /\ md_stage = "find" /\ md_stage' = "buckets" /\ ptr \notin DOMAIN md_table
      /\ UNCHANGED <<md_tracing, md_live, md_marker, md_stale, md_call, md_lock, md_item,
                     md_num_buckets, md_first, md_calls>>
  BY DEF NewRow
<1>3. md_first \in Todo
  BY <1>2, ItemStale
<1>4. md_item.malloced
  BY <1>2, <1>3, ItemTodo
<1>5. /\ ptr \in Pointers /\ md_item.malloced \in BOOLEAN /\ md_item.bookkeeping \in BOOLEAN
      /\ md_item.marked = ptr.marked /\ ptr.marked \in BOOLEAN
  BY <1>2, ItemIs DEF Pointers
<1>6. /\ row \in R /\ row.marked = ptr.marked /\ row.malloced = md_item.malloced
      /\ row.bookkeeping = md_item.bookkeeping /\ row.size = 1
  BY <1>5 DEF Row
<1> HIDE DEF row
<1>7. md_table' = Updated(md_table, ptr, row)
  BY <1>4 DEF NewRow, row
<1>8. /\ DOMAIN md_table' = DOMAIN md_table \cup {ptr} /\ md_table'[ptr] = row
      /\ md_table' \in [DOMAIN md_table' -> R]
      /\ \A p \in DOMAIN md_table : p # ptr => md_table'[p] = md_table[p]
  <2>1. md_table \in [DOMAIN md_table -> R]
    BY <1>1 DEF MD_TypeOK
  <2>2. md_table' \in [DOMAIN md_table' -> R]
    BY <1>6, <1>7, <2>1, UpdatedType
  <2> QED
    BY <1>7, <2>2 DEF Updated
<1>9. /\ Rows' /\ DOMAIN md_table' \subseteq Pointers
      /\ \A p \in Pointers : Base'[p] <=> IF p = md_item.ptr THEN md_item.malloced ELSE Base[p]
  <2>1. Rows' /\ \A p \in Pointers : Base'[p] <=> IF p = md_item.ptr THEN md_item.malloced ELSE Base[p]
    BY <1>2, <1>6, <1>8, RowWritten
  <2>2. DOMAIN md_table' \subseteq Pointers
    BY <1>1, <1>5, <1>8 DEF MD_TypeOK
  <2> QED
    BY <2>1, <2>2
<1>10. /\ NumRows \in Nat /\ md_room \in Nat /\ md_num_buckets \in Nat /\ md_first \in Nat
       /\ Len(md_array) \in Nat /\ md_first <= Len(md_array) /\ md_room > 0
       /\ MD_FirstRoom \in Nat /\ MD_FirstBuckets \in Nat /\ MD_MaxBookkeeping \in Nat
       /\ MD_MaxBookkeeping >= 5 /\ MD_FirstRoom >= 6 /\ MD_FirstBuckets >= 7
       /\ md_room >= MD_FirstRoom /\ (md_num_buckets = 0 \/ md_num_buckets >= MD_FirstBuckets)
       /\ NumRows <= md_room
       /\ Len(md_array) <= 5
  BY <1>2, GrowthIs
<1>11. NumRows' = NumRows + 1
  BY <1>1, <1>2, <1>8, FS_AddElement DEF NumRows, Rows
<1>12. Items = md_first /\ Items' = md_first + 1
  BY <1>2 DEF Items
<1>13. NumRows <= md_num_buckets
  BY <1>1, <1>2, <1>10 DEF Growth
<1>14. CASE NumRows < md_room
  <2>1. UNCHANGED <<md_room, md_own, md_used, md_array, md_overflow, md_report>>
    <3>1. ~(Cardinality(DOMAIN md_table) >= md_room)
      BY <1>10, <1>14 DEF NumRows
    <3> QED
      BY <1>4, <3>1 DEF NewRow
  <2>2. Locked' /\ OneOwner' /\ Noting'
    BY <1>2, <1>3, <1>4, <1>9, <2>1, RestKept
  <2>3. MD_TypeOK'
    BY <1>1, <1>2, <1>8, <1>9, <2>1 DEF MD_TypeOK
  <2>4. Growth'
    <3>1. RowsGrew => RowsGrew'
      BY <1>10, <1>11, <1>12, <2>1 DEF RowsGrew
    <3>2. BucketsGrew => BucketsGrew'
      BY <1>2, <1>10, <1>11, <1>12, <2>1, SMTT(30) DEF BucketsGrew
    <3>3. NumRows' <= md_num_buckets' + 1 /\ NumRows' <= md_room'
      BY <1>2, <1>10, <1>11, <1>13, <1>14, <2>1
    <3> QED
      BY <1>1, <1>2, <2>1, <3>1, <3>2, <3>3 DEF Growth
  <2> QED
    BY <1>9, <2>1, <2>2, <2>3, <2>4 DEF MDWorks
<1>15. CASE ~(NumRows < md_room)
  <2>1. PICK old \in md_own.rows, block \in (MD_Blocks \ md_used) \cup md_own.rows :
          /\ md_room' = 2 * md_room
          /\ md_own' = [md_own EXCEPT !.rows = {block}]
          /\ md_used' = (md_used \ {old}) \cup {block}
          /\ Noted(<<ReturnedBlock(old), TakenBlock(block)>>)
          /\ IF Len(md_array) + 2 <= MD_MaxBookkeeping THEN UNCHANGED md_report
             ELSE Report("size not set")
    BY <1>4, <1>15 DEF NewRow, NumRows
  <2>2. NumRows = md_room
    BY <1>10, <1>15
  <2>3. ~RowsGrew
    BY <1>10, <1>12, <2>2 DEF RowsGrew
  <2>4. Len(md_array) <= 1 \/ (Len(md_array) <= 3 /\ BucketsGrew)
    BY <1>1, <2>3 DEF Growth
  <2>5. Len(md_array) + 2 <= MD_MaxBookkeeping /\ md_report' = md_report
    <3>1. Len(md_array) + 2 <= MD_MaxBookkeeping
      BY <1>10, <2>4
    <3> QED
      BY <2>1, <3>1
  <2>6. RowsGrew' /\ (BucketsGrew => BucketsGrew') /\ md_room' \in Nat /\ md_room' > md_room
    <3>1. md_room' = 2 * md_room
      BY <2>1
    <3>2. md_room' \in Nat /\ md_room' > md_room /\ RowsGrew'
      BY <1>10, <1>11, <1>12, <2>2, <3>1 DEF RowsGrew
    <3>3. BucketsGrew => BucketsGrew'
      BY <1>2, <1>10, <1>11, <1>12 DEF BucketsGrew
    <3> QED
      BY <3>2, <3>3
  <2>7. {old} = md_own.rows /\ old \in MD_Blocks /\ old \in md_used
    BY <1>1 DEF OneOwner, OwnBlocks, MD_TypeOK
  <2>8. Leads(Rest, Base', Wanted)
    <3> DEFINE r == Rest
               base2 == Base'
    <3>1. DOMAIN r = Todo \ {md_first} /\ \A k \in DOMAIN r : r[k] = NoteAt(k)
      <4>1. Waiting = Todo \ {md_first}
        BY <1>2, <1>10 DEF Todo, Waiting
      <4>2. \A k \in Waiting : NoteAt(k) = md_array[k]
        <5>1. \A n \in Waiting : n # 0
          BY DEF Waiting
        <5> QED
          BY <5>1 DEF NoteAt
      <4> QED
        BY <4>1, <4>2 DEF Rest
    <3>2. \A p \in Pointers : base2[p] <=> IF p = md_item.ptr THEN md_item.malloced ELSE Base[p]
      BY <1>9
    <3> HIDE DEF r, base2
    <3>3. Leads(r, base2, Wanted)
      BY <1>2, <1>3, <3>1, <3>2, ItemRecorded
    <3> QED
      BY <3>3 DEF r, base2
  <2>9. /\ Locked' /\ OneOwner' /\ Noting' /\ (~md_overflow => ~md_overflow')
        /\ md_array' \in Seq(Notes) /\ Len(md_array') = Len(md_array) + 2
        /\ md_own' \in [rows : SUBSET MD_Blocks, buckets : SUBSET MD_Blocks] /\ md_used' \subseteq MD_Blocks
    <3>1. /\ block \in MD_Blocks /\ block \notin md_used \ {old} /\ md_room' > 0
          /\ md_stage # "none" /\ md_stage' \in {"buckets", "drain"}
      <4>1. md_room' > 0
        BY <1>10, <2>6
      <4>2. block \in MD_Blocks /\ block \notin md_used \ {old}
        BY <2>1, <2>7
      <4> QED
        BY <1>2, <4>1, <4>2
    <3> QED
      BY <1>2, <1>3, <1>4, <2>1, <2>5, <2>7, <2>8, <3>1, NotesWhenMoved
  <2>10. MD_TypeOK'
    <3>1. md_first' \in 0 .. Len(md_array')
      <4>1. md_first' = md_first
        BY <1>2
      <4> QED
        BY <1>10, <2>9, <4>1
    <3>2. md_array' \in Seq([ptr : Pointers, malloced : BOOLEAN])
      BY <2>9 DEF Notes
    <3> QED
      BY <1>1, <1>2, <1>8, <1>9, <2>6, <2>9, <3>1, <3>2 DEF MD_TypeOK
  <2>11. Growth'
    <3>1. md_own'.buckets = md_own.buckets /\ md_own'.rows # {}
      BY <1>1, <2>1 DEF MD_TypeOK
    <3>2. md_room' # 0 /\ md_room' >= MD_FirstRoom /\ NumRows' <= md_room'
      BY <1>10, <1>11, <2>2, <2>6
    <3>3. NumRows' <= md_num_buckets + 1
      BY <1>10, <1>11, <1>13
    <3>4. RowsGrew' /\ (Len(md_array') <= 3 \/ (Len(md_array') <= 5 /\ BucketsGrew'))
      BY <1>10, <2>4, <2>6, <2>9
    <3> QED
      BY <1>1, <1>2, <3>1, <3>2, <3>3, <3>4 DEF Growth
  <2> QED
    BY <1>9, <2>5, <2>9, <2>10, <2>11 DEF MDWorks
<1> QED
  BY <1>14, <1>15

(* What is noted next is recorded.                                         *)
LEMMA DrainNextWorks ==
  ASSUME MDWorks, DrainNext
  PROVE  MDWorks' /\ md_report' = md_report /\ (~md_overflow => ~md_overflow')
<1> DEFINE next == md_first + 1
           note == md_array[next]
<1>1. MD_TypeOK /\ Locked /\ OneOwner /\ Noting /\ Rows /\ Growth
  BY DEF MDWorks
<1>2. /\ md_stage = "drain" /\ md_stage' = "find" /\ md_first < Len(md_array) /\ md_first' = next
      /\ md_item' = [ptr |-> note.ptr, malloced |-> note.malloced, bookkeeping |-> TRUE, marked |-> TRUE]
      /\ UNCHANGED <<md_tracing, md_used, md_live, md_marker, md_stale, md_call, md_lock,
                     md_table, md_room, md_num_buckets, md_own, md_array, md_overflow,
                     md_report, md_calls>>
  BY DEF DrainNext
<1>3. /\ md_first \in Nat /\ Len(md_array) \in Nat /\ md_first < Len(md_array) /\ next \in 1 .. Len(md_array)
      /\ md_first' = next
  <2>1. md_first \in 0 .. Len(md_array) /\ Len(md_array) \in Nat
    BY <1>1, ArrayOfNotes DEF MD_TypeOK
  <2> QED
    BY <1>2, <2>1
<1>4. note.ptr \in Pointers /\ note.ptr.marked = TRUE
  <2>1. note \in Notes /\ note.ptr.marked
    BY <1>1, <1>3, ArrayOfNotes DEF Noting
  <2> QED
    BY <2>1 DEF Notes, Pointers
<1>5. MD_TypeOK'
  <2>1. md_first' \in 0 .. Len(md_array')
    BY <1>2, <1>3
  <2> QED
    BY <1>1, <1>2, <2>1 DEF MD_TypeOK
<1>6. Locked'
  <2>1. NoteAt(md_first)' = note
    <3>1. md_first' # 0
      BY <1>3
    <3> QED
      BY <1>2, <3>1 DEF NoteAt
  <2>2. md_item' = [ptr |-> NoteAt(md_first)'.ptr, malloced |-> NoteAt(md_first)'.malloced,
                    bookkeeping |-> md_first' # 0, marked |-> NoteAt(md_first)'.ptr.marked]
    <3>1. (md_first' # 0) = TRUE
      BY <1>3
    <3>2. md_item' = [ptr |-> note.ptr, malloced |-> note.malloced, bookkeeping |-> TRUE, marked |-> TRUE]
      BY <1>2
    <3> HIDE DEF note
    <3> QED
      BY <1>4, <2>1, <3>1, <3>2, Zenon
  <2>3. md_lock # Nobody => Recording(md_lock)' /\ md_room' > 0
    BY <1>1, <1>2 DEF Locked, Recording
  <2>4. md_lock # Nobody /\ md_call[md_lock].ptr \notin md_stale
    BY <1>1, <1>2 DEF Locked
  <2> QED
    BY <1>2, <2>2, <2>3, <2>4 DEF Locked
<1>7. OneOwner'
  BY <1>1, <1>2 DEF OneOwner, OwnBlocks, Calling
<1>8. \A p : Known(p)' <=> Known(p)
  BY <1>2 DEF Known, Calling
<1>9. Noting'
  <2>1. \A n : NoteAt(n)' = NoteAt(n)
    BY <1>2 DEF NoteAt
  <2>2. Todo' = Todo
    <3>1. \A n \in Todo : n \in Todo'
      <4> SUFFICES ASSUME NEW n \in Todo PROVE n \in Todo'
        OBVIOUS
      <4>1. n \in 0 .. Len(md_array) /\ n > md_first
        BY <1>2 DEF Todo
      <4>2. n # 0 /\ (n > next \/ n = next)
        BY <1>3, <4>1
      <4> QED
        BY <1>2, <4>1, <4>2 DEF Todo
    <3>2. \A n \in Todo' : n \in Todo
      <4> SUFFICES ASSUME NEW n \in Todo' PROVE n \in Todo
        OBVIOUS
      <4>1. n \in 0 .. Len(md_array) /\ (n > next \/ n = next)
        BY <1>2 DEF Todo
      <4>2. n # 0 /\ n > md_first
        BY <1>3, <4>1
      <4> QED
        BY <4>1, <4>2 DEF Todo
    <3> QED
      BY <3>1, <3>2
  <2>3. ToRecord' = ToRecord
    BY <2>1, <2>2 DEF ToRecord
  <2>4. Base' = Base /\ Wanted' = Wanted
    BY <1>2 DEF Base, Wanted, WantedOfClients, OwnBlocks, Calling
  <2>5. Leads(ToRecord', Base', Wanted')
    BY <1>1, <2>3, <2>4 DEF Noting
  <2>6. \A n \in 1 .. Len(md_array) : n >= md_first' => n >= md_first
    BY <1>3
  <2> QED
    BY <1>1, <1>2, <1>8, <2>5, <2>6 DEF Noting
<1>10. Rows'
  <2>1. \A p \in DOMAIN md_table : RowTrue(p)'
    BY <1>1, <1>2, <1>8 DEF Rows, RowTrue
  <2>2. SizesKnown'
    BY <1>1, <1>2 DEF Rows, SizesKnown
  <2>3. \A t \in MD_Threads : CallHasRow(t)'
    BY <1>1, <1>2 DEF Rows, CallHasRow, IsNew, IsFreed
  <2>4. \A p \in md_stale' : StaleHasRow(p)'
    BY <1>1, <1>2 DEF Rows, StaleHasRow
  <2> QED
    BY <1>1, <1>2, <2>1, <2>2, <2>3, <2>4 DEF Rows
<1>11. Growth'
  <2>1. Items' = Items
    BY <1>2 DEF Items
  <2> QED
    BY <1>1, <1>2, <2>1 DEF Growth, RowsGrew, BucketsGrew, NumRows
<1> QED
  BY <1>2, <1>5, <1>6, <1>7, <1>9, <1>10, <1>11 DEF MDWorks

(* All is recorded: the mutex is released and the call goes on.            *)
LEMMA DrainedWorks ==
  ASSUME MDWorks, Drained
  PROVE  MDWorks' /\ md_report' = md_report /\ (~md_overflow => ~md_overflow')
<1> DEFINE t == md_lock
           call == md_call[md_lock]
           ptr == call.ptr
           then == IF call.step = "record malloc" THEN [step |-> "measure", ptr |-> call.ptr]
                   ELSE [call EXCEPT !.step = call.for]
<1>1. MD_TypeOK /\ Locked /\ OneOwner /\ Noting /\ Rows /\ Growth
  BY DEF MDWorks
<1>2. /\ md_stage = "drain" /\ md_stage' = "none" /\ md_first = Len(md_array)
      /\ md_array' = <<>> /\ md_first' = 0 /\ md_lock' = Nobody
      /\ md_call' = [md_call EXCEPT ![t] = then]
      /\ UNCHANGED <<md_tracing, md_used, md_live, md_marker, md_stale, md_table, md_room,
                     md_num_buckets, md_own, md_overflow, md_report, md_calls>>
  BY DEF Drained
<1>3. /\ t \in MD_Threads /\ t # Nobody /\ Calling(t, ptr) /\ ptr \in Pointers
      /\ call.step \in {"record malloc", "record free"}
  BY <1>2, ItemIs
<1>4. /\ then \in MemCalls /\ then # NoMemCall /\ then.ptr = ptr
      /\ call.step = "record malloc" => then.step = "measure"
      /\ call.step = "record free" => then.step \in {"free", "realloc"}
  <2>1. CASE call.step = "record malloc"
    <3>1. then = [step |-> "measure", ptr |-> ptr]
      BY <2>1
    <3>2. then.step = "measure" /\ then.ptr = ptr /\ NoMemCall.step = "idle"
      BY <3>1 DEF NoMemCall
    <3> QED
      BY <1>3, <2>1, <3>1, <3>2 DEF MemCalls
  <2>2. CASE call.step = "record free"
    <3>1. call \in [step : {"record free", "free", "realloc"}, ptr : Pointers,
                    for : {"free", "realloc"}, size : Nat]
      BY <1>1, <1>3, <2>2, CallIs
    <3>2. then = [call EXCEPT !.step = call.for]
      BY <2>2
    <3>3. /\ then \in [step : {"record free", "free", "realloc"}, ptr : Pointers,
                       for : {"free", "realloc"}, size : Nat]
          /\ then.step = call.for /\ then.ptr = ptr /\ call.for \in {"free", "realloc"}
      BY <3>1, <3>2
    <3>4. NoMemCall.step = "idle"
      BY DEF NoMemCall
    <3> QED
      BY <2>2, <3>3, <3>4 DEF MemCalls
  <2> QED
    BY <1>3, <2>1, <2>2
<1> HIDE DEF then
<1>5. /\ md_call'[t] = then /\ \A u \in MD_Threads : u # t => md_call'[u] = md_call[u]
      /\ md_call' \in [MD_Threads -> MemCalls]
  BY <1>1, <1>2, <1>3, <1>4 DEF MD_TypeOK
<1>6. \A u \in MD_Threads : \A p : Calling(u, p)' <=> Calling(u, p)
  <2> SUFFICES ASSUME NEW u \in MD_Threads, NEW p PROVE Calling(u, p)' <=> Calling(u, p)
    OBVIOUS
  <2>1. CASE u = t
    BY <1>3, <1>4, <1>5, <2>1 DEF Calling
  <2>2. CASE u # t
    BY <1>5, <2>2 DEF Calling
  <2> QED
    BY <2>1, <2>2
<1>7. \A p : Known(p)' <=> Known(p)
  <2> SUFFICES ASSUME NEW p PROVE Known(p)' <=> Known(p)
    OBVIOUS
  <2>1. ASSUME NEW u \in MD_Threads
        PROVE  (Calling(u, p) /\ (md_call[u].step = "record malloc" => u = md_lock))'
                 <=> (Calling(u, p) /\ (md_call[u].step = "record malloc" => u = md_lock))
    <3>1. CASE u = t
      <4>1. md_call'[u].step # "record malloc"
        BY <1>3, <1>4, <1>5, <3>1
      <4> QED
        BY <1>6, <3>1, <4>1
    <3>2. CASE u # t
      <4>1. md_lock' # u
        BY <1>2, NobodyCalls
      <4> QED
        BY <1>5, <1>6, <3>2, <4>1
    <3> QED
      BY <3>1, <3>2
  <2> QED
    BY <1>2, <2>1 DEF Known
<1>8. WantedOfClients' = WantedOfClients
  <2>1. ASSUME NEW p \in Pointers, NEW u \in MD_Threads, Calling(u, p)
        PROVE  (\/ md_call[u].step = "measure"
                \/ (md_call[u].step = "record malloc" /\ u = md_lock)
                \/ (md_call[u].step = "record free" /\ u # md_lock))'
               <=> (\/ md_call[u].step = "measure"
                    \/ (md_call[u].step = "record malloc" /\ u = md_lock)
                    \/ (md_call[u].step = "record free" /\ u # md_lock))
    <3>1. CASE u = t
      BY <1>3, <1>4, <1>5, <3>1
    <3>2. CASE u # t
      <4>1. md_lock' # u
        BY <1>2, NobodyCalls
      <4> QED
        BY <1>5, <3>2, <4>1
    <3> QED
      BY <3>1, <3>2
  <2>2. ASSUME NEW p \in Pointers PROVE p \in WantedOfClients' <=> p \in WantedOfClients
    BY <1>2, <1>6, <2>1 DEF WantedOfClients
  <2>3. WantedOfClients' \subseteq Pointers /\ WantedOfClients \subseteq Pointers
    BY DEF WantedOfClients
  <2> QED
    BY <2>2, <2>3
<1>9. MD_TypeOK'
  <2>1. md_array' \in Seq([ptr : Pointers, malloced : BOOLEAN]) /\ md_first' \in 0 .. Len(md_array')
    BY <1>2
  <2> QED
    BY <1>1, <1>2, <1>5, <2>1 DEF MD_TypeOK
<1>10. Locked'
  BY <1>2 DEF Locked
<1>11. OneOwner'
  <2>1. OwnBlocks' = OwnBlocks
    BY <1>2 DEF OwnBlocks
  <2> QED
    BY <1>1, <1>2, <1>6, <2>1 DEF OneOwner
<1>12. Noting'
  <2>1. DOMAIN ToRecord = {}
    <3>1. Todo = {}
      <4>1. md_first \in Nat /\ md_first = Len(md_array)
        BY <1>1, <1>2 DEF MD_TypeOK
      <4> QED
        BY <1>2, <4>1 DEF Todo
    <3> QED
      BY <3>1 DEF ToRecord
  <2>2. \A p \in Pointers : Base[p] <=> p \in Wanted
    BY <1>1, <2>1, NothingToRecord DEF Noting
  <2>3. DOMAIN ToRecord' = {}
    <3>1. Todo' = {}
      BY <1>2 DEF Todo
    <3> QED
      BY <3>1 DEF ToRecord
  <2>4. Base' = Base
    BY <1>2 DEF Base
  <2>5. Wanted' = Wanted
    BY <1>2, <1>8 DEF Wanted, OwnBlocks
  <2>6. Leads(ToRecord', Base', Wanted')
    <3> DEFINE q == ToRecord'
               base == Base'
               want == Wanted'
    <3>1. DOMAIN q = {} /\ \A p \in Pointers : base[p] <=> p \in want
      BY <2>2, <2>3, <2>4, <2>5
    <3> HIDE DEF q, base, want
    <3>2. Leads(q, base, want)
      BY <3>1, NothingToRecord
    <3> QED
      BY <3>2 DEF q, base, want
  <2>7. \A n \in 1 .. Len(md_array') : FALSE
    BY <1>2
  <2> QED
    BY <2>6, <2>7 DEF Noting
<1>13. Rows'
  <2>1. \A p \in DOMAIN md_table : RowTrue(p)'
    BY <1>1, <1>2, <1>7 DEF Rows, RowTrue
  <2>2. SizesKnown'
    BY <1>1, <1>2 DEF Rows, SizesKnown
  <2>3. ASSUME NEW u \in MD_Threads PROVE CallHasRow(u)'
    <3>1. CallHasRow(u) /\ u # Nobody
      BY <1>1, NobodyCalls DEF Rows
    <3>2. CASE u = t
      <4>1. md_call'[u].ptr = md_call[u].ptr
        BY <1>4, <1>5, <3>2
      <4>2. IsNew(u)' => IsNew(u)
        BY <1>2, <1>3, <1>4, <1>5, <3>1, <3>2 DEF IsNew
      <4>3. IsFreed(u)' => IsFreed(u)
        BY <1>2, <1>3, <1>4, <1>5, <3>1, <3>2 DEF IsFreed
      <4> QED
        BY <1>2, <3>1, <4>1, <4>2, <4>3 DEF CallHasRow
    <3>3. CASE u # t
      <4>1. md_call'[u] = md_call[u]
        BY <1>5, <3>3
      <4>2. (IsNew(u)' => IsNew(u)) /\ (IsFreed(u)' => IsFreed(u))
        BY <1>2, <3>1, <4>1 DEF IsNew, IsFreed
      <4> QED
        BY <1>2, <3>1, <4>1, <4>2 DEF CallHasRow
    <3> QED
      BY <3>2, <3>3
  <2>4. ASSUME NEW p \in md_stale PROVE StaleHasRow(p)'
    <3>1. StaleHasRow(p) /\ ptr \notin md_stale
      BY <1>1, <1>2, <2>4 DEF Rows, Locked
    <3>2. \A u \in MD_Threads : md_call[u].step = "record free" /\ md_call[u].ptr = p => u # t
      BY <2>4, <3>1
    <3> QED
      BY <1>2, <1>5, <3>1, <3>2 DEF StaleHasRow
  <2> QED
    BY <1>1, <1>2, <2>1, <2>2, <2>3, <2>4 DEF Rows
<1>14. Growth'
  <2>1. NumRows' = NumRows /\ Len(md_array') = 0
    BY <1>2 DEF NumRows
  <2> QED
    BY <1>1, <1>2, <2>1 DEF Growth
<1> QED
  BY <1>2, <1>9, <1>10, <1>11, <1>12, <1>13, <1>14 DEF MDWorks

----------------------------------------------------------------------------
LEMMA NextWorks ==
  ASSUME RoomForNotes, MDInv, [MD_Next]_md_vars
  PROVE  MDInv'
<1>1. CASE UNCHANGED md_vars
  <2>1. MDWorks' <=> MDWorks
    BY <1>1 DEF md_vars, MDWorks, MD_TypeOK, Locked, OneOwner, Noting, Rows, Growth, Recording, NoteAt,
                OwnBlocks, Calling, ToRecord, Todo, Base, Wanted, WantedOfClients, Known, RowTrue,
                SizesKnown, CallHasRow, StaleHasRow, IsNew, IsFreed, NumRows, RowsGrew, BucketsGrew, Items
  <2>2. ReportsTrue' <=> ReportsTrue
    BY <1>1 DEF md_vars, ReportsTrue
  <2> QED
    BY <1>1, <2>1, <2>2 DEF md_vars, MDInv
<1>2. ASSUME md_report = {}, MDWorks', md_report' = md_report, ~md_overflow => ~md_overflow'
      PROVE  MDInv'
  BY <1>2 DEF MDInv
<1>3. CASE MD_Next
  <2>1. ~md_overflow /\ (md_report = {} => MDWorks)
    BY DEF MDInv
  <2>2. ASSUME NEW t \in MD_Threads, Malloc(t) PROVE MDInv'
    <3>1. md_report = {} /\ md_report' = md_report /\ md_overflow' = md_overflow
      BY <2>2 DEF Malloc, MayCall, recording
    <3> QED
      BY <1>2, <2>1, <2>2, <3>1, MallocWorks
  <2>3. ASSUME NEW t \in MD_Threads, NEW for \in {"free", "realloc"}, GiveBack(t, for) PROVE MDInv'
    <3>1. md_report = {} /\ md_report' = md_report /\ md_overflow' = md_overflow
      BY <2>3 DEF GiveBack, MayCall, recording
    <3> QED
      BY <1>2, <2>1, <2>3, <3>1, GiveBackWorks
  <2>4. ASSUME NEW t \in MD_Threads, Free(t) PROVE MDInv'
    <3>1. md_report = {} /\ md_report' = md_report /\ md_overflow' = md_overflow
      BY <2>4 DEF Free, recording
    <3> QED
      BY <1>2, <2>1, <2>4, <3>1, FreeWorks
  <2>5. ASSUME NEW t \in MD_Threads, Realloc(t) PROVE MDInv'
    <3>1. md_report = {} /\ md_report' = md_report /\ md_overflow' = md_overflow
      BY <2>5 DEF Realloc, recording
    <3> QED
      BY <1>2, <2>1, <2>5, <3>1, ReallocWorks
  <2>6. ASSUME NEW t \in MD_Threads, Record(t) PROVE MDInv'
    <3>1. md_report = {}
      BY <2>6 DEF Record
    <3>2. MDWorks'
      BY <2>1, <2>6, <3>1, RecordWorks
    <3>3. md_report' = md_report /\ (~md_overflow => ~md_overflow')
      BY <2>1, <2>6, <3>1, RecordStarts
    <3> QED
      BY <1>2, <3>1, <3>2, <3>3
  <2>7. ASSUME NEW t \in MD_Threads, UsableSize(t) PROVE MDInv'
    <3>1. md_report = {} /\ md_report' = md_report /\ md_overflow' = md_overflow
      BY <2>7 DEF UsableSize
    <3> QED
      BY <1>2, <2>1, <2>7, <3>1, UsableSizeWorks
  <2>8. ASSUME NEW p \in Pointers, Overrun(p) PROVE MDInv'
    <3>1. md_report = {} /\ md_report' = md_report /\ md_overflow' = md_overflow
      BY <2>8 DEF Overrun, recording
    <3> QED
      BY <1>2, <2>1, <2>8, <3>1, OverrunWorks
  <2>9. CASE TraceCalls
    <3>1. md_report = {} /\ md_report' = md_report /\ md_overflow' = md_overflow
      BY <2>9 DEF TraceCalls, recording
    <3> QED
      BY <1>2, <2>1, <2>9, <3>1, TraceCallsWorks
  <2>10. CASE Found
    <3>1. md_report = {} /\ md_overflow' = md_overflow
      BY <2>10 DEF Found
    <3>2. CASE md_report' = {}
      BY <1>2, <2>1, <2>10, <3>1, <3>2, FoundWorks
    <3>3. CASE md_report' # {}
      BY <2>1, <2>10, <3>1, <3>3, FoundReports DEF MDInv
    <3> QED
      BY <3>2, <3>3
  <2>11. CASE NewRow
    <3>1. md_report = {}
      BY <2>11 DEF NewRow
    <3> QED
      BY <1>2, <2>1, <2>11, <3>1, NewRowWorks
  <2>12. CASE Buckets
    <3>1. md_report = {}
      BY <2>12 DEF Buckets
    <3> QED
      BY <1>2, <2>1, <2>12, <3>1, BucketsWorks
  <2>13. CASE DrainNext
    <3>1. md_report = {}
      BY <2>13 DEF DrainNext
    <3> QED
      BY <1>2, <2>1, <2>13, <3>1, DrainNextWorks
  <2>14. CASE Drained
    <3>1. md_report = {}
      BY <2>14 DEF Drained
    <3> QED
      BY <1>2, <2>1, <2>14, <3>1, DrainedWorks
  <2> QED
    BY <1>3, <2>2, <2>3, <2>4, <2>5, <2>6, <2>7, <2>8, <2>9, <2>10, <2>11, <2>12, <2>13, <2>14 DEF MD_Next
<1> QED
  BY <1>1, <1>3

(* What the table says of a client's pointers while nobody records.        *)
LEMMA ClientsWanted ==
  ASSUME MDWorks, md_lock = Nobody
  PROVE  /\ \A p \in Pointers : p \in Clients <=> p \in WantedOfClients
         /\ Clients \subseteq Pointers
         /\ \A p \in WantedOfClients : p \in Pointers /\ Known(p) /\ p.block \notin OwnBlocks
<1>1. MD_TypeOK /\ OneOwner
  BY DEF MDWorks
<1>2. DOMAIN md_live \subseteq Pointers
  BY <1>1 DEF MD_TypeOK
<1>3. ASSUME NEW t \in MD_Threads
      PROVE  /\ t # md_lock
             /\ md_call[t].step \in {"measure", "record free"} =>
                  Calling(t, md_call[t].ptr) /\ md_call[t].ptr \in Pointers
             /\ \A p : Calling(t, p) => md_call[t].ptr = p
  BY <1>1, CallIs, NobodyCalls DEF Calling
<1>4. \A p : p \in Clients <=>
        (p \notin md_stale /\ (p \in DOMAIN md_live
           \/ \E t \in MD_Threads : md_call[t].step \in {"measure", "record free"} /\ md_call[t].ptr = p))
  BY DEF Clients
<1>5. \A p : p \in WantedOfClients <=>
        (p \in Pointers /\ p \notin md_stale /\ (p \in DOMAIN md_live
           \/ \E t \in MD_Threads : Calling(t, p) /\ md_call[t].step \in {"measure", "record free"}))
  BY <1>3 DEF WantedOfClients
<1>6. \A p : p \in Clients <=> p \in WantedOfClients
  <2> SUFFICES ASSUME NEW p PROVE p \in Clients <=> p \in WantedOfClients
    OBVIOUS
  <2> DEFINE calls == \E t \in MD_Threads : md_call[t].step \in {"measure", "record free"} /\ md_call[t].ptr = p
  <2>1. (\E t \in MD_Threads : Calling(t, p) /\ md_call[t].step \in {"measure", "record free"}) <=> calls
    BY <1>3
  <2>2. calls => p \in Pointers
    BY <1>3
  <2>3. p \in DOMAIN md_live => p \in Pointers
    BY <1>2
  <2> HIDE DEF calls
  <2>4. p \in WantedOfClients <=> (p \in Pointers /\ p \notin md_stale /\ (p \in DOMAIN md_live \/ calls))
    BY <1>5, <2>1
  <2>5. p \in Clients <=> (p \notin md_stale /\ (p \in DOMAIN md_live \/ calls))
    BY <1>4 DEF calls
  <2> QED
    BY <2>2, <2>3, <2>4, <2>5
<1>7. \A p \in WantedOfClients : p \in Pointers /\ Known(p)
  BY <1>5 DEF Known
<1>8. \A p \in WantedOfClients : p.block \notin OwnBlocks
  BY <1>1, <1>5 DEF OneOwner
<1> QED
  BY <1>6, <1>7, <1>8

LEMMA InvTrue ==
  ASSUME MDInv
  PROVE  MD_RecordsTrue
<1>1. ~md_overflow /\ ReportsTrue
  BY DEF MDInv, ReportsTrue
<1>2. ASSUME md_lock = Nobody
      PROVE  /\ StillAllocated = Clients
             /\ Bookkeeping = {Pointer(b, TRUE) : b \in md_own.rows \cup md_own.buckets}
             /\ \A p \in Clients : md_table[p].marked = p.marked
             /\ \A p \in DOMAIN md_live \ md_stale : p.marked => md_table[p].size = md_live[p]
             /\ BoundsErrors = {p \in Clients : p.marked /\ md_marker[p] = Broken}
  <2>1. MDWorks
    BY <1>2 DEF MDInv
  <2>2. MD_TypeOK /\ Locked /\ OneOwner /\ Noting /\ Rows
    BY <2>1 DEF MDWorks
  <2>3. /\ \A p \in Pointers : p \in Clients <=> p \in WantedOfClients
        /\ Clients \subseteq Pointers
        /\ \A p \in WantedOfClients : p \in Pointers /\ Known(p) /\ p.block \notin OwnBlocks
    BY <1>2, <2>1, ClientsWanted
  <2>4. \A p \in Pointers : (p \in DOMAIN md_table /\ md_table[p].malloced) <=> p \in Wanted
    <3>1. \A p \in Pointers : Base[p] <=> p \in Wanted
      BY <1>2, <2>2, NothingTodo, NothingToRecord DEF Noting
    <3> QED
      BY <3>1 DEF Base
  <2>5. \A p \in Pointers : p \in Wanted <=> (p \in WantedOfClients \/ (p.marked /\ p.block \in OwnBlocks))
    BY DEF Wanted
  <2>6. \A p \in Pointers : Known(p) => p.block \notin OwnBlocks
    BY <2>2 DEF OneOwner, Known
  <2>7. md_stage = "none" /\ DOMAIN md_table \subseteq Pointers
    BY <1>2, <2>2 DEF Locked, MD_TypeOK
  <2>8. \A p \in DOMAIN md_table :
          /\ md_table[p].marked = p.marked
          /\ md_table[p].malloced => (md_table[p].bookkeeping <=> ~Known(p))
          /\ md_table[p].malloced /\ ~md_table[p].bookkeeping /\ p.marked => md_marker[p] \in {md_table[p].size, Broken}
    BY <2>2, <2>7 DEF Rows, RowTrue
  <2>9. ASSUME NEW p \in Pointers
        PROVE  (p \in DOMAIN md_table /\ md_table[p].malloced /\ ~md_table[p].bookkeeping) <=> p \in Clients
    <3>1. CASE p \in Clients
      BY <2>3, <2>4, <2>5, <2>8, <3>1
    <3>2. CASE p \notin Clients
      BY <2>3, <2>4, <2>5, <2>6, <2>8, <3>2
    <3> QED
      BY <3>1, <3>2
  <2>10. StillAllocated = Clients
    BY <2>3, <2>7, <2>9 DEF StillAllocated
  <2>11. ASSUME NEW p \in Pointers
         PROVE  (p \in DOMAIN md_table /\ md_table[p].malloced /\ md_table[p].bookkeeping)
                  <=> (p.marked /\ p.block \in OwnBlocks)
    <3>1. CASE p.marked /\ p.block \in OwnBlocks
      BY <2>4, <2>5, <2>6, <2>8, <3>1
    <3>2. CASE ~(p.marked /\ p.block \in OwnBlocks)
      BY <2>3, <2>4, <2>5, <2>8, <3>2
    <3> QED
      BY <3>1, <3>2
  <2>12. Bookkeeping = {Pointer(b, TRUE) : b \in md_own.rows \cup md_own.buckets}
    <3> DEFINE at(b) == Pointer(b, TRUE)
    <3>1. OwnBlocks = md_own.rows \cup md_own.buckets /\ OwnBlocks \subseteq MD_Blocks
      BY <2>2 DEF OwnBlocks, MD_TypeOK
    <3>2. ASSUME NEW b \in OwnBlocks
          PROVE  at(b) \in Pointers /\ at(b).marked /\ at(b).block = b
      BY <3>1, PointerIs
    <3>3. ASSUME NEW p \in Pointers, p.marked PROVE p = at(p.block)
      BY <3>3 DEF Pointers, Pointer
    <3> HIDE DEF at
    <3>4. \A p : p \in Bookkeeping <=> (p \in Pointers /\ p.marked /\ p.block \in OwnBlocks)
      BY <2>7, <2>11 DEF Bookkeeping
    <3>5. \A p \in Bookkeeping : p.block \in OwnBlocks /\ p = at(p.block)
      BY <3>3, <3>4
    <3>6. \A b \in OwnBlocks : at(b) \in Bookkeeping
      BY <3>2, <3>4
    <3>7. Bookkeeping = {at(b) : b \in OwnBlocks}
      BY <3>5, <3>6
    <3> QED
      BY <3>1, <3>7 DEF at
  <2>13. \A p \in Clients : p \in DOMAIN md_table /\ md_table[p].malloced /\ ~md_table[p].bookkeeping
    BY <2>3, <2>9
  <2>14. \A p \in Clients : md_table[p].marked = p.marked
    BY <2>8, <2>13
  <2>15. \A p \in DOMAIN md_live \ md_stale : p.marked => md_table[p].size = md_live[p]
    BY <2>2 DEF Rows, SizesKnown
  <2>16. ASSUME NEW p \in Clients
         PROVE  (md_table[p].marked /\ md_marker[p] # md_table[p].size) <=> (p.marked /\ md_marker[p] = Broken)
    <3>1. md_table[p].size \in Nat
      BY <2>2, <2>13 DEF MD_TypeOK
    <3>2. Broken # md_table[p].size
      BY <3>1 DEF Broken
    <3> QED
      BY <2>8, <2>13, <3>2
  <2>17. BoundsErrors = {p \in Clients : p.marked /\ md_marker[p] = Broken}
    BY <2>10, <2>16 DEF BoundsErrors
  <2> QED
    BY <2>10, <2>12, <2>14, <2>15, <2>17
<1> QED
  BY <1>1, <1>2 DEF MD_RecordsTrue, ReportsTrue

THEOREM RecordsAreTrue ==
  ASSUME RoomForNotes
  PROVE  MD_Spec => []MD_RecordsTrue
<1>1. MD_Init => MDInv
  BY InitWorks
<1>2. RoomForNotes /\ MDInv /\ [MD_Next]_md_vars => MDInv'
  BY NextWorks
<1>3. MDInv => MD_RecordsTrue
  BY InvTrue
<1> QED
  BY <1>1, <1>2, <1>3, PTL DEF MD_Spec
=============================================================================
