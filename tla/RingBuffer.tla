----------------------------- MODULE RingBuffer -----------------------------
(***************************************************************************)
(* The ring of src/libjr/struct/circbuf.c: an array of RingSize elements,  *)
(* a head, a tail and the number of elements. Pointers into the array are  *)
(* indices; RingSize is the place one element behind its end.              *)
(*                                                                         *)
(* ring_items is the history: the elements a reader of the ring must see,  *)
(* head first. ring_out is what the last call handed back and what it had  *)
(* to hand back.                                                           *)
(***************************************************************************)
EXTENDS Naturals, Sequences

CONSTANTS
  RingSize,    \* max_size / element_size
  RingValues   \* the elements of the client

ASSUME RingAssumption == RingSize \in Nat \ {0}

VARIABLES ring_array, ring_head, ring_tail, ring_num, ring_items, ring_out,
          ring_slipped,  \* the tail was moved out of the array (history)
          ring_astray    \* and an element was stored at such a tail (history)

ring_vars == <<ring_array, ring_head, ring_tail, ring_num, ring_items, ring_out,
               ring_slipped, ring_astray>>

Slots == 0 .. RingSize - 1
Garbage == <<"garbage">>   \* what was never written
Cells == RingValues \cup {Garbage}

CB_TypeOK ==
  /\ ring_array \in [Slots -> Cells]
  /\ ring_head \in Slots
  /\ ring_tail \in 0 .. RingSize
  /\ ring_num \in 0 .. RingSize
  /\ ring_items \in Seq(RingValues)
  /\ ring_out \in Cells \X Cells
  /\ ring_slipped \in BOOLEAN /\ ring_astray \in BOOLEAN

-----------------------------------------------------------------------------
(* The place behind, and the place before, another one.                    *)
After(p) == IF p + 1 = RingSize THEN 0 ELSE p + 1
Before(p) == IF p = 0 THEN RingSize - 1 ELSE p - 1

(* What is at a place; behind the end of the array is something else.      *)
CellAt(p) == IF p \in Slots THEN ring_array[p] ELSE Garbage

(* The place of element i of the ring, the head being 0.                   *)
CB_ElementPtr(i) ==
  LET p == ring_head + i IN IF p >= RingSize THEN p - RingSize ELSE p

IsFull == ring_num = RingSize
AllButLast(s) == SubSeq(s, 1, Len(s) - 1)
HandBack(cell, item) == ring_out' = <<cell, item>>
HandBackNothing == ring_out' = <<Garbage, Garbage>>

CB_Init ==
  /\ ring_array = [s \in Slots |-> Garbage]
  /\ ring_head = 0 /\ ring_tail = 0 /\ ring_num = 0
  /\ ring_items = <<>> /\ ring_out = <<Garbage, Garbage>>
  /\ ring_slipped = FALSE /\ ring_astray = FALSE

CB_Reset ==
  /\ ring_head' = 0 /\ ring_tail' = 0 /\ ring_num' = 0
  /\ ring_items' = <<>>
  /\ ring_slipped' = FALSE /\ ring_astray' = FALSE
  /\ HandBackNothing
  /\ UNCHANGED ring_array

(* A full ring gives up its head for a new tail. A tail outside would be   *)
(* written there.                                                          *)
CB_SetNewTail(v) ==
  /\ ring_tail \in Slots
  /\ ring_array' = [ring_array EXCEPT ![ring_tail] = v]
  /\ ring_tail' = After(ring_tail)
  /\ \/ /\ IsFull
        /\ ring_head' = After(ring_head)
        /\ HandBack(ring_array[ring_head], Head(ring_items))
        /\ ring_items' = Append(Tail(ring_items), v)
        /\ UNCHANGED ring_num
     \/ /\ ~IsFull
        /\ ring_num' = ring_num + 1
        /\ ring_items' = Append(ring_items, v)
        /\ HandBackNothing
        /\ UNCHANGED ring_head
  /\ ring_astray' = (ring_astray \/ ring_slipped)
  /\ UNCHANGED ring_slipped

(* Where a full ring moves its tail for a new head: from the start of the  *)
(* array not to its last element but behind it.                            *)
BumpedTail == IF ring_tail = 0 THEN RingSize ELSE ring_tail - 1

(* Mutant: the element is stored before the head is moved.                 *)
CB_SetNewHeadLate(v) ==
  /\ ~IsFull
  /\ ring_array' = [ring_array EXCEPT ![ring_head] = v]
  /\ ring_head' = Before(ring_head)
  /\ ring_num' = ring_num + 1
  /\ ring_items' = <<v>> \o ring_items
  /\ HandBackNothing
  /\ UNCHANGED <<ring_tail, ring_slipped, ring_astray>>

(* A full ring gives up its tail for a new head.                           *)
CB_SetNewHead(v) ==
  /\ ring_head' = Before(ring_head)
  /\ ring_array' = [ring_array EXCEPT ![Before(ring_head)] = v]
  /\ \/ /\ IsFull
        /\ ring_tail' = BumpedTail
        /\ HandBack(CellAt(BumpedTail), ring_items[Len(ring_items)])
        /\ ring_items' = <<v>> \o AllButLast(ring_items)
        /\ ring_slipped' = (ring_slipped \/ BumpedTail \notin Slots)
        /\ UNCHANGED ring_num
     \/ /\ ~IsFull
        /\ ring_num' = ring_num + 1
        /\ ring_items' = <<v>> \o ring_items
        /\ HandBackNothing
        /\ UNCHANGED <<ring_tail, ring_slipped>>
  /\ UNCHANGED ring_astray

(* The client asks only a ring that has elements.                          *)
CB_GetHead ==
  /\ ring_num > 0
  /\ ring_num' = ring_num - 1
  /\ HandBack(ring_array[ring_head], Head(ring_items))
  /\ ring_head' = After(ring_head)
  /\ ring_items' = Tail(ring_items)
  /\ UNCHANGED <<ring_array, ring_tail, ring_slipped, ring_astray>>

CB_GetTail ==
  /\ ring_num > 0
  /\ ring_num' = ring_num - 1
  /\ ring_tail' = Before(ring_tail)
  /\ HandBack(ring_array[Before(ring_tail)], ring_items[Len(ring_items)])
  /\ ring_items' = AllButLast(ring_items)
  /\ UNCHANGED <<ring_array, ring_head, ring_slipped, ring_astray>>

CB_Next ==
  \/ CB_Reset \/ CB_GetHead \/ CB_GetTail
  \/ \E v \in RingValues : CB_SetNewTail(v) \/ CB_SetNewHead(v)

CB_Spec == CB_Init /\ [][CB_Next]_ring_vars

-----------------------------------------------------------------------------
(* The ring counts its elements. Every element read by its index is the    *)
(* one put there, in order, through wrapping at both ends, and even after  *)
(* the tail has slipped out of the array (see RingMakesRoom), as long as   *)
(* no element was added at such a tail; before it slips, the tail is one   *)
(* behind the last element, and what was handed back is what had to go     *)
(* (jr_CB_ElementPtr against the four calls that change the ring).         *)
RingKept ==
  /\ ring_num = Len(ring_items)
  /\ ~ring_astray => \A i \in 1 .. ring_num : ring_array[CB_ElementPtr(i - 1)] = ring_items[i]
  /\ ~ring_slipped =>
       /\ ring_out[1] = ring_out[2]
       /\ ring_tail = CB_ElementPtr(ring_num)

(* A full ring makes room for a new entry (circbuf.c:64, 100): its tail    *)
(* stays in the array, and the element that is handed back is the one that *)
(* had to go. It does not when the tail is at the start of the array.      *)
RingMakesRoom == ring_tail \in Slots /\ ring_out[1] = ring_out[2]
=============================================================================
