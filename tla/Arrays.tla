------------------------------- MODULE Arrays -------------------------------
(***************************************************************************)
(* What libjr keeps in array lists: elements, and linked lists whose nodes *)
(* lie in one. The two halves share no state.                              *)
(***************************************************************************)
EXTENDS Integers, Sequences, SequencesExt

(***************************************************************************)
(* The array list of src/libjr/alist (lists without prefixes): elements in *)
(* one buffer that grows, moves its elements up to insert one and down to  *)
(* delete some, sorts a range by selection and finds a place by halving.   *)
(*                                                                         *)
(* An element is a number, its rank for the compare function; 0 is also    *)
(* the null pointer of a list of pointers. What was never written or is    *)
(* behind the end is left in the buffer. The heap at the end is an array   *)
(* list of its own.                                                        *)
(***************************************************************************)

CONSTANTS
  AL_Elements,   \* elements, small numbers
  AL_MaxSize     \* bound of the size of the list

ASSUME ArrayListAssumption == AL_Elements \subseteq Nat /\ AL_MaxSize \in Nat

Junk == -1       \* what a cell never written holds

VARIABLES al_buffer,     \* buffer: as many cells as buffer_capacity
          al_size,       \* free_index
          al_seq         \* history: the list as the client is to see it

al_vars == <<al_buffer, al_size, al_seq>>

Grown(buffer, size) ==
  IF size <= Len(buffer) THEN buffer
  ELSE LET capacity == IF size < 2 * Len(buffer) THEN 2 * Len(buffer) ELSE size
       IN [i \in 1 .. capacity |-> IF i <= Len(buffer) THEN buffer[i] ELSE Junk]

(* memmove of n cells.                                                     *)
Moved(buffer, to, from, n) ==
  [i \in DOMAIN buffer |-> IF i \in to .. to + n - 1 THEN buffer[from + i - to] ELSE buffer[i]]

Contents(buffer, size) == SubSeq(buffer, 1, size)

-----------------------------------------------------------------------------
(* A list here is a pair of buffer and size.                               *)

NewTail(l, e) ==
  [buffer |-> [Grown(l.buffer, l.size + 1) EXCEPT ![l.size + 1] = e], size |-> l.size + 1]

(* Mutant: the element at the place of insertion is not moved.             *)
NewPrevElementShort(l, i, e) ==
  LET buffer == Grown(l.buffer, l.size + 1)
  IN [buffer |-> [Moved(buffer, i + 2, i + 1, l.size - i) EXCEPT ![i] = e], size |-> l.size + 1]

NewPrevElement(l, i, e) ==
  LET buffer == Grown(l.buffer, l.size + 1)
  IN [buffer |-> [Moved(buffer, i + 1, i, l.size - i + 1) EXCEPT ![i] = e], size |-> l.size + 1]

DeleteRange(l, i, n) ==
  [buffer |-> Moved(l.buffer, i, i + n, l.size - (i + n) + 1), size |-> l.size - n]

Exchanged(buffer, i, j) == [buffer EXCEPT ![i] = buffer[j], ![j] = buffer[i]]

Reversed(l) ==
  [l EXCEPT !.buffer = [i \in DOMAIN @ |-> IF i <= l.size THEN @[l.size - i + 1] ELSE @[i]]]

(* The first of the smallest elements of a range.                          *)
MinIndex(buffer, from, to) ==
  CHOOSE i \in from .. to :
    /\ \A j \in from .. to : buffer[i] <= buffer[j]
    /\ \A j \in from .. i - 1 : buffer[i] < buffer[j]

SortRange(l, start, n) ==
  LET last == IF start + n - 1 > l.size THEN l.size ELSE start + n - 1
      sorted[k \in start - 1 .. last] ==
        IF k < start THEN l.buffer
        ELSE Exchanged(sorted[k - 1], k, MinIndex(sorted[k - 1], k, last))
  IN IF last <= start THEN l ELSE [l EXCEPT !.buffer = sorted[last - 1]]

(* One round of the unique sort: the smallest element of the rest is put   *)
(* behind the sorted ones, or, when it is there already, the last of the   *)
(* range takes its place and the range loses its last cell.                *)
SortUniquelyStep(s, start) ==
  LET min == MinIndex(s.l.buffer, s.switch, s.last)
      duplicate == s.switch > start /\ s.l.buffer[s.switch - 1] = s.l.buffer[min]
  IN IF s.switch > s.last THEN s
     ELSE IF duplicate
     THEN [s EXCEPT !.l = DeleteRange([s.l EXCEPT !.buffer[min] = s.l.buffer[s.last]], s.last, 1),
                    !.last = @ - 1]
     ELSE [s EXCEPT !.l.buffer = Exchanged(s.l.buffer, s.switch, min), !.switch = @ + 1]

SortUniquelyRange(l, start, n) ==
  LET last == IF start + n - 1 > l.size THEN l.size ELSE start + n - 1
      round[k \in 0 .. AL_MaxSize] ==
        IF k = 0 THEN [l |-> l, switch |-> start, last |-> last]
        ELSE SortUniquelyStep(round[k - 1], start)
  IN IF last <= start THEN l ELSE round[AL_MaxSize].l

(* jr_AListFindInsertPtr: the low index halving ends at, or a match.       *)
FindInsertIndex(l, e) ==
  LET half[k \in 0 .. AL_MaxSize] ==
        IF k = 0 THEN [low |-> 1, high |-> l.size + 1]
        ELSE LET low == half[k - 1].low
                 high == half[k - 1].high
                 mid == low + (high - low) \div 2
             IN IF low = high THEN half[k - 1]
                ELSE IF e = l.buffer[mid] THEN [low |-> mid, high |-> mid]
                ELSE IF e > l.buffer[mid] THEN [low |-> mid + 1, high |-> high]
                ELSE [low |-> low, high |-> mid]
  IN half[AL_MaxSize].low

FindElement(l, e) ==
  LET i == FindInsertIndex(l, e) IN i <= l.size /\ l.buffer[i] = e

-----------------------------------------------------------------------------
AL_List == [buffer |-> al_buffer, size |-> al_size]

BecomeList(l) == al_buffer' = l.buffer /\ al_size' = l.size

AL_Init == al_buffer = <<>> /\ al_size = 0 /\ al_seq = <<>>

AL_SetNewTail ==
  /\ al_size < AL_MaxSize
  /\ \E e \in AL_Elements : BecomeList(NewTail(AL_List, e)) /\ al_seq' = Append(al_seq, e)

AL_SetNewElement ==
  /\ al_size < AL_MaxSize
  /\ \E e \in AL_Elements, i \in 1 .. al_size + 1 :
       BecomeList(NewPrevElement(AL_List, i, e)) /\ al_seq' = InsertAt(al_seq, i, e)

AL_SetNewElementInOrder ==
  /\ al_size < AL_MaxSize
  /\ \A i \in 1 .. al_size - 1 : al_seq[i] <= al_seq[i + 1]
  /\ \E e \in AL_Elements :
       /\ BecomeList(NewPrevElement(AL_List, FindInsertIndex(AL_List, e), e))
       /\ al_seq' = SortSeq(Append(al_seq, e), <)

(* The client keeps the list sorted, or a duplicate may not be found.      *)
AL_SetNewTailUniquely ==
  /\ al_size < AL_MaxSize
  /\ \A i \in 1 .. al_size - 1 : al_seq[i] <= al_seq[i + 1]
  /\ \E e \in AL_Elements :
       IF FindElement(AL_List, e) THEN UNCHANGED <<al_buffer, al_size>>
                               ELSE BecomeList(NewTail(AL_List, e))
  /\ al_seq' = IF al_size' = al_size THEN al_seq ELSE Append(al_seq, al_buffer'[al_size'])

AL_DeleteRange ==
  \E i \in 1 .. al_size : \E n \in 1 .. al_size - i + 1 :
    /\ BecomeList(DeleteRange(AL_List, i, n))
    /\ al_seq' = SubSeq(al_seq, 1, i - 1) \o SubSeq(al_seq, i + n, Len(al_seq))

AL_DeleteTail ==
  /\ al_size > 0
  /\ al_size' = al_size - 1 /\ al_seq' = Front(al_seq)
  /\ UNCHANGED al_buffer

AL_Truncate ==
  \E n \in 0 .. al_size - 1 :
    /\ al_size' = n /\ al_seq' = SubSeq(al_seq, 1, n)
    /\ UNCHANGED al_buffer

(* A longer list shows what is in the buffer until the client writes it.   *)
AL_SetSize ==
  \E n \in al_size + 1 .. AL_MaxSize, e \in AL_Elements :
    /\ al_size' = n
    /\ al_buffer' = [i \in DOMAIN Grown(al_buffer, n) |->
                       IF i \in al_size + 1 .. n THEN e ELSE Grown(al_buffer, n)[i]]
    /\ al_seq' = al_seq \o [i \in 1 .. n - al_size |-> e]

AL_Reverse == BecomeList(Reversed(AL_List)) /\ al_seq' = Reverse(al_seq)

AL_SortRange ==
  \E start \in 1 .. al_size : \E n \in 2 .. al_size - start + 2 :
    \E end \in {IF start + n - 1 > al_size THEN al_size ELSE start + n - 1} :
      /\ BecomeList(SortRange(AL_List, start, n))
      /\ al_seq' = SubSeq(al_seq, 1, start - 1)
                     \o SortSeq(SubSeq(al_seq, start, end), <)
                     \o SubSeq(al_seq, end + 1, Len(al_seq))

AL_SortUniquelyRange ==
  \E start \in 1 .. al_size : \E n \in 2 .. al_size - start + 1 :
    /\ BecomeList(SortUniquelyRange(AL_List, start, n))
    /\ al_seq' = SubSeq(al_seq, 1, start - 1)
                   \o SetToSortSeq(ToSet(SubSeq(al_seq, start, start + n - 1)), <)
                   \o SubSeq(al_seq, start + n, Len(al_seq))

(* jr_AListVectorPtr puts a null behind the list unless it ends with one.  *)
AL_VectorPtr ==
  /\ ~(al_size > 0 /\ al_buffer[al_size] = 0)
  /\ al_buffer' = [Grown(al_buffer, al_size + 1) EXCEPT ![al_size + 1] = 0]
  /\ UNCHANGED <<al_size, al_seq>>

AL_ExtractBuffer ==
  /\ al_buffer' = <<>> /\ al_size' = 0 /\ al_seq' = <<>>

AL_Next ==
  \/ AL_SetNewTail \/ AL_SetNewElement \/ AL_SetNewElementInOrder \/ AL_SetNewTailUniquely
  \/ AL_DeleteRange \/ AL_DeleteTail \/ AL_Truncate \/ AL_SetSize \/ AL_Reverse
  \/ AL_SortRange \/ AL_SortUniquelyRange \/ AL_VectorPtr \/ AL_ExtractBuffer

AL_Spec == AL_Init /\ [][AL_Next]_al_vars

-----------------------------------------------------------------------------
(* Inserting, deleting, sorting and growing in any order, the buffer holds *)
(* exactly the sequence a client expects: nothing is lost or doubled by    *)
(* the moves of elements up and down or by a buffer that is replaced, the  *)
(* unique sort leaves one of each rank in order, and what is behind a      *)
(* sorted range stays as it was.                                           *)
AL_IsSequence ==
  /\ al_size <= Len(al_buffer)
  /\ Contents(al_buffer, al_size) = al_seq
-----------------------------------------------------------------------------
(* The heap of src/libjr/struct/jr_heap.c: an array list in which no       *)
(* element is smaller than its parent. The children of a node are called   *)
(* right (2i + 1) and left (2i + 2); equal elements change places.         *)
CONSTANTS
  HP_Elements,   \* elements, ordered as by the compare function
  HP_MaxSize     \* bound of the size of the heap

ASSUME HeapAssumption == HP_Elements \subseteq Int /\ HP_MaxSize \in Nat

VARIABLES hp_heap,     \* the array, indices from 0
          hp_given,    \* the element jr_HeapDeleteMin gave last
          hp_bag       \* history: how many of each element are in the heap

hp_vars == <<hp_heap, hp_given, hp_bag>>

(* Indices as in the code, from 0.                                         *)
At(heap, i) == heap[i + 1]
RightChildIndex(i) == 2 * i + 1
LeftChildIndex(i) == 2 * i + 2
ParentIndex(i) == (i - 1) \div 2
LastNodeIndex(heap) == ParentIndex(Len(heap) - 1)
HasChildIndex(heap, child) == child < Len(heap)

Memswitch(heap, i, j) == [heap EXCEPT ![i + 1] = heap[j + 1], ![j + 1] = heap[i + 1]]

(* The child an element changes places with, or the element itself.        *)
RightGoesUp(heap, i) ==
  /\ HasChildIndex(heap, RightChildIndex(i))
  /\ At(heap, RightChildIndex(i)) <= At(heap, i)
  /\ \/ ~HasChildIndex(heap, LeftChildIndex(i))
     \/ At(heap, RightChildIndex(i)) <= At(heap, LeftChildIndex(i))

LeftGoesUp(heap, i) ==
  /\ HasChildIndex(heap, LeftChildIndex(i))
  /\ At(heap, LeftChildIndex(i)) <= At(heap, i)

(* Mutant: the right child goes up although the left one is smaller.       *)
SmallerChildCareless(heap, i) ==
  IF HasChildIndex(heap, RightChildIndex(i)) /\ At(heap, RightChildIndex(i)) <= At(heap, i)
  THEN RightChildIndex(i)
  ELSE IF LeftGoesUp(heap, i) THEN LeftChildIndex(i) ELSE i

SmallerChild(heap, i) ==
  IF RightGoesUp(heap, i) THEN RightChildIndex(i)
  ELSE IF LeftGoesUp(heap, i) THEN LeftChildIndex(i) ELSE i

(* Down until no child is smaller or a leaf is reached.                    *)
PercolateDown(heap, node) ==
  LET down[k \in 0 .. Len(heap)] ==
        IF k = 0 THEN [heap |-> heap, at |-> node]
        ELSE LET s == down[k - 1]
                 child == SmallerChild(s.heap, s.at)
             IN [heap |-> Memswitch(s.heap, s.at, child), at |-> child]
  IN IF heap = <<>> THEN heap ELSE down[Len(heap)].heap

PercolateUp(heap, node) ==
  LET up[k \in 0 .. Len(heap)] ==
        IF k = 0 THEN [heap |-> heap, at |-> node]
        ELSE LET s == up[k - 1]
             IN IF s.at # 0 /\ At(s.heap, s.at) < At(s.heap, ParentIndex(s.at))
                THEN [heap |-> Memswitch(s.heap, s.at, ParentIndex(s.at)),
                      at |-> ParentIndex(s.at)]
                ELSE s
  IN up[Len(heap)].heap

Heapified(heap) ==
  LET from[k \in 0 .. Len(heap)] ==
        IF k = 0 THEN heap
        ELSE LET node == LastNodeIndex(heap) - (k - 1)
             IN IF node >= 0 THEN PercolateDown(from[k - 1], node) ELSE from[k - 1]
  IN from[Len(heap)]

CountOf(e, s) == Len(SelectSeq(s, LAMBDA x : x = e))
BagOf(s) == [e \in HP_Elements |-> CountOf(e, s)]

-----------------------------------------------------------------------------
HP_Init == hp_heap = <<>> /\ hp_given = [some |-> FALSE] /\ hp_bag = BagOf(<<>>)

HP_Insert ==
  /\ Len(hp_heap) < HP_MaxSize
  /\ \E e \in HP_Elements :
       /\ hp_heap' = PercolateUp(Append(hp_heap, e), Len(hp_heap))
       /\ hp_bag' = [hp_bag EXCEPT ![e] = @ + 1]
  /\ hp_given' = [some |-> FALSE]

(* The last leaf takes the place of the root and goes down.                *)
HP_DeleteMin ==
  /\ hp_heap # <<>>
  /\ hp_given' = [some |-> TRUE, el |-> At(hp_heap, 0), bag |-> hp_bag]
  /\ hp_heap' = PercolateDown(Front([hp_heap EXCEPT ![1] = Last(hp_heap)]), 0)
  /\ hp_bag' = [hp_bag EXCEPT ![At(hp_heap, 0)] = @ - 1]

(* A client fills the array in any order and makes a heap of it.           *)
HP_Heapify ==
  /\ hp_heap = <<>>
  /\ \E n \in 0 .. HP_MaxSize : \E s \in [1 .. n -> HP_Elements] :
       hp_heap' = Heapified(s) /\ hp_bag' = BagOf(s)
  /\ hp_given' = [some |-> FALSE]

HP_Next == HP_Insert \/ HP_DeleteMin \/ HP_Heapify

HP_Spec == HP_Init /\ [][HP_Next]_hp_vars

-----------------------------------------------------------------------------
(* Inserted one by one or put in order all at once, with equal elements    *)
(* that change places, no element is smaller than its parent, none is lost *)
(* or doubled, and the element that is deleted is the smallest of all that *)
(* were there.                                                             *)
HP_MinFirst ==
  /\ \A i \in 1 .. Len(hp_heap) - 1 : At(hp_heap, ParentIndex(i)) <= At(hp_heap, i)
  /\ BagOf(hp_heap) = hp_bag
  /\ hp_given.some => \A e \in HP_Elements : hp_given.bag[e] > 0 => hp_given.el <= e

-----------------------------------------------------------------------------
(***************************************************************************)
(* Linked lists whose nodes lie in an array list: src/libjr/alist with     *)
(* prefixes, misc/pfx_lib.c, llist and dlist. Each cell has before its     *)
(* data the next pointer of a jr_LList and the prev and next pointers of a *)
(* jr_DList. When a cell moves (the buffer grows and moves as a whole, an  *)
(* insertion moves cells up, a deletion moves cells down), the transform   *)
(* functions of the two lists mend the pointers to it.                     *)
(*                                                                         *)
(* An address is a number, a cell is one address wide, 0 is the null       *)
(* pointer. A new buffer does not overlap the old one unless it is the     *)
(* same. The client makes a new cell a null element of both lists and      *)
(* takes a cell from both before it deletes it.                            *)
(***************************************************************************)

CONSTANTS
  NA_Bases,      \* addresses where the allocator may put a buffer
  NA_MaxSize     \* bound of the size of the array, and number of the ids

ASSUME NodeArrayAssumption ==
  /\ NA_MaxSize \in Nat
  /\ \A b \in NA_Bases : /\ b > NA_MaxSize
                         /\ \A c \in NA_Bases : c > b => c - b > 2 * NA_MaxSize

VARIABLES na_array,    \* base, cells (buffer_capacity many), size, heads and tails
          na_llist,    \* history: ids in the order of the jr_LList
          na_dlist     \* history: ids in the order of the jr_DList

na_vars == <<na_array, na_llist, na_dlist>>

NullCell(id) == [id |-> id, lnext |-> 0, dprev |-> 0, dnext |-> 0]

Cell(A, p) == A.cells[p - A.base + 1]
InBuffer(A, p) == p - A.base + 1 \in DOMAIN A.cells
SetCell(A, p, field, v) == [A EXCEPT !.cells[p - A.base + 1][field] = v]

(* The pointers from head along a field.                                   *)
Path(A, head, field) ==
  LET path[k \in 0 .. NA_MaxSize + 1] ==
        IF k = 0 THEN IF InBuffer(A, head) THEN <<head>> ELSE <<>>
        ELSE LET s == path[k - 1]
             IN IF Len(s) < k THEN s
                ELSE LET p == Cell(A, s[k])[field]
                     IN IF InBuffer(A, p) THEN Append(s, p) ELSE s
  IN path[NA_MaxSize + 1]

-----------------------------------------------------------------------------
(* jr_LListTransformPrefix and jr_DListTransformPrefix: the cell at el was *)
(* at el - delta. When all cells move by delta, the cell's own pointers    *)
(* move with it; else what points to the cell is mended.                   *)

HeadTail(A, el, delta, head, tail) ==
  [A EXCEPT ![head] = IF @ = el - delta THEN el ELSE @,
            ![tail] = IF @ = el - delta THEN el ELSE @]

Shifted(p, delta) == IF p = 0 THEN 0 ELSE p + delta

LListTransformPrefix(A0, el, delta, all) ==
  LET A == HeadTail(A0, el, delta, "lhead", "ltail")
      path == Path(A, A.lhead, "lnext")
      refs == {i \in 2 .. Len(path) : path[i] = el - delta}
  IN IF all THEN SetCell(A, el, "lnext", Shifted(Cell(A, el).lnext, delta))
     ELSE IF refs = {} THEN A
     ELSE SetCell(A, path[(CHOOSE i \in refs : \A j \in refs : i <= j) - 1], "lnext", el)

(* Mutant: the next cell goes on pointing back to the old place.           *)
DListTransformPrefixForward(A0, el, delta, all) ==
  LET A == HeadTail(A0, el, delta, "dhead", "dtail")
      prev == Cell(A, el).dprev
  IN IF all
     THEN SetCell(SetCell(A, el, "dprev", Shifted(prev, delta)),
                  el, "dnext", Shifted(Cell(A, el).dnext, delta))
     ELSE IF prev # 0 THEN SetCell(A, prev, "dnext", el) ELSE A

DListTransformPrefix(A0, el, delta, all) ==
  LET A == HeadTail(A0, el, delta, "dhead", "dtail")
      prev == Cell(A, el).dprev
      next == Cell(A, el).dnext
      B == IF prev # 0 THEN SetCell(A, prev, "dnext", el) ELSE A
  IN IF all
     THEN SetCell(SetCell(A, el, "dprev", Shifted(prev, delta)),
                  el, "dnext", Shifted(next, delta))
     ELSE IF next # 0 THEN SetCell(B, next, "dprev", el) ELSE B

(* jr_PrefixArrayTransformElement: every container of the cell in turn.    *)
TransformElement(A, el, delta, all) ==
  DListTransformPrefix(LListTransformPrefix(A, el, delta, all), el, delta, all)

-----------------------------------------------------------------------------
(* The array.                                                              *)

IncreaseCapacity(A, size, base) ==
  IF size <= Len(A.cells) THEN A
  ELSE LET capacity == IF size < 2 * Len(A.cells) THEN 2 * Len(A.cells) ELSE size
           new == [A EXCEPT !.base = base,
                            !.cells = [i \in 1 .. capacity |->
                                         IF i <= Len(A.cells) THEN A.cells[i] ELSE NullCell(0)]]
           done[k \in 0 .. A.size] ==
             IF k = 0 THEN new
             ELSE TransformElement(done[k - 1], base + k - 1, base - A.base, TRUE)
       IN done[A.size]

MoveCell(A, i, j) ==
  TransformElement([A EXCEPT !.cells[j] = A.cells[i]], A.base + j - 1, j - i, FALSE)

NewPrevCell(A0, i, base) ==
  LET A == IncreaseCapacity(A0, A0.size + 1, base)
      up[k \in i .. A.size + 1] ==
        IF k = A.size + 1 THEN A ELSE MoveCell(up[k + 1], k, k + 1)
  IN [up[i] EXCEPT !.size = @ + 1]

DeleteCells(A, i, n) ==
  LET down[k \in i + n - 1 .. A.size] ==
        IF k = i + n - 1 THEN A ELSE MoveCell(down[k - 1], k, k - n)
  IN [down[A.size] EXCEPT !.size = @ - n]

-----------------------------------------------------------------------------
(* The lists.                                                              *)

LListAppend(A, prev, new) ==
  LET B == IF prev = 0
           THEN [SetCell(A, new, "lnext", A.lhead) EXCEPT !.lhead = new]
           ELSE SetCell(SetCell(A, new, "lnext", Cell(A, prev).lnext), prev, "lnext", new)
  IN IF prev = A.ltail THEN [B EXCEPT !.ltail = new] ELSE B

LListExtractNext(A, prev) ==
  LET gone == IF prev = 0 THEN A.lhead ELSE Cell(A, prev).lnext
      B == IF prev = 0 THEN [A EXCEPT !.lhead = Cell(A, gone).lnext]
           ELSE SetCell(A, prev, "lnext", Cell(A, gone).lnext)
      C == IF gone = A.ltail THEN [B EXCEPT !.ltail = prev] ELSE B
  IN IF gone = 0 THEN A ELSE SetCell(C, gone, "lnext", 0)

(* jr_DListInsertElement before next, at the tail when next is null.       *)
DListInsert(A, next, new) ==
  LET prev == IF next = 0 THEN A.dtail ELSE Cell(A, next).dprev
      B == SetCell(SetCell(A, new, "dnext", next), new, "dprev", prev)
      C == IF next = 0 THEN [B EXCEPT !.dtail = new] ELSE SetCell(B, next, "dprev", new)
  IN IF prev = 0 THEN [C EXCEPT !.dhead = new] ELSE SetCell(C, prev, "dnext", new)

(* jr_DListAppendElement behind prev, at the head when prev is null.       *)
DListAppend(A, prev, new) ==
  DListInsert(A, IF prev = 0 THEN A.dhead ELSE Cell(A, prev).dnext, new)

(* A null element that is on no list is taken from it without effect.      *)
DListExtract(A, el) ==
  LET next == Cell(A, el).dnext
      prev == Cell(A, el).dprev
      B == IF next # 0 THEN SetCell(A, next, "dprev", prev)
           ELSE IF A.dtail = el THEN [A EXCEPT !.dtail = prev] ELSE A
      C == IF prev # 0 THEN SetCell(B, prev, "dnext", next)
           ELSE IF B.dhead = el THEN [B EXCEPT !.dhead = next] ELSE B
  IN SetCell(SetCell(C, el, "dnext", 0), el, "dprev", 0)

-----------------------------------------------------------------------------
Pointer(i) == na_array.base + i - 1
IdAt(i) == na_array.cells[i].id
Ids == {IdAt(i) : i \in 1 .. na_array.size}
NewId == CHOOSE id \in 1 .. NA_MaxSize : id \notin Ids /\ \A x \in 1 .. id - 1 : x \in Ids
PointerOf(id) ==
  IF id = 0 THEN 0 ELSE Pointer(CHOOSE i \in 1 .. na_array.size : IdAt(i) = id)
OfList(s) == {s[k] : k \in DOMAIN s}

NA_Init ==
  /\ \E b \in NA_Bases :
       na_array = [base |-> b, cells |-> <<>>, size |-> 0,
                   lhead |-> 0, ltail |-> 0, dhead |-> 0, dtail |-> 0]
  /\ na_llist = <<>> /\ na_dlist = <<>>

(* jr_AListNewTailPtr or jr_AListNewPrevElementPtr.                        *)
NA_NewCell ==
  /\ na_array.size < NA_MaxSize
  /\ \E i \in 1 .. na_array.size + 1,
        b \in IF na_array.size = Len(na_array.cells) THEN NA_Bases ELSE {na_array.base} :
       \E A \in {NewPrevCell(na_array, i, b)} :
         na_array' = [A EXCEPT !.cells[i] = NullCell(NewId)]
  /\ UNCHANGED <<na_llist, na_dlist>>

NA_DeleteCells ==
  /\ \E i \in 1 .. na_array.size : \E n \in 1 .. na_array.size - i + 1 :
       /\ \A k \in i .. i + n - 1 : IdAt(k) \notin OfList(na_llist) \cup OfList(na_dlist)
       /\ na_array' = DeleteCells(na_array, i, n)
  /\ UNCHANGED <<na_llist, na_dlist>>

NA_LListAppendElement ==
  /\ \E id \in Ids \ OfList(na_llist), k \in 0 .. Len(na_llist) :
       /\ na_array' = LListAppend(na_array, IF k = 0 THEN 0 ELSE PointerOf(na_llist[k]),
                                  PointerOf(id))
       /\ na_llist' = InsertAt(na_llist, k + 1, id)
  /\ UNCHANGED na_dlist

NA_LListExtractNextElement ==
  /\ \E k \in 0 .. Len(na_llist) :
       /\ na_array' = LListExtractNext(na_array, IF k = 0 THEN 0 ELSE PointerOf(na_llist[k]))
       /\ na_llist' = IF k = Len(na_llist) THEN na_llist ELSE RemoveAt(na_llist, k + 1)
  /\ UNCHANGED na_dlist

NA_DListInsertElement ==
  /\ \E id \in Ids \ OfList(na_dlist), k \in 1 .. Len(na_dlist) + 1 :
       /\ na_array' =
            DListInsert(na_array, IF k > Len(na_dlist) THEN 0 ELSE PointerOf(na_dlist[k]),
                        PointerOf(id))
       /\ na_dlist' = InsertAt(na_dlist, k, id)
  /\ UNCHANGED na_llist

NA_DListAppendElement ==
  /\ \E id \in Ids \ OfList(na_dlist), k \in 0 .. Len(na_dlist) :
       /\ na_array' = DListAppend(na_array, IF k = 0 THEN 0 ELSE PointerOf(na_dlist[k]),
                                  PointerOf(id))
       /\ na_dlist' = InsertAt(na_dlist, k + 1, id)
  /\ UNCHANGED na_llist

NA_DListExtractElement ==
  /\ \E id \in Ids :
       /\ na_array' = DListExtract(na_array, PointerOf(id))
       /\ na_dlist' = SelectSeq(na_dlist, LAMBDA x : x # id)
  /\ UNCHANGED na_llist

(* jr_LListEmpty and jr_DListEmpty free nothing: the array owns the nodes. *)
(* They leave the pointers in the cells, so the client empties the array.  *)
NA_Empty ==
  /\ na_array' = [na_array EXCEPT !.size = 0, !.lhead = 0, !.ltail = 0, !.dhead = 0, !.dtail = 0]
  /\ na_llist' = <<>> /\ na_dlist' = <<>>

NA_Next ==
  \/ NA_NewCell \/ NA_DeleteCells \/ NA_Empty
  \/ NA_LListAppendElement \/ NA_LListExtractNextElement
  \/ NA_DListInsertElement \/ NA_DListAppendElement \/ NA_DListExtractElement

NA_Spec == NA_Init /\ [][NA_Next]_na_vars

-----------------------------------------------------------------------------
IdsAlong(head, field) ==
  LET path == Path(na_array, head, field)
  IN [k \in 1 .. Len(path) |-> Cell(na_array, path[k]).id]

(* However the nodes move under them, because the buffer is replaced or    *)
(* cells before them come and go, both lists keep their elements and their *)
(* order, forward and backward, and their tails stay the last elements.    *)
NA_ListsFollowNodes ==
  /\ IdsAlong(na_array.lhead, "lnext") = na_llist
  /\ IdsAlong(na_array.dhead, "dnext") = na_dlist
  /\ IdsAlong(na_array.dtail, "dprev") = Reverse(na_dlist)
  /\ na_array.ltail = IF na_llist = <<>> THEN 0 ELSE PointerOf(Last(na_llist))
=============================================================================
