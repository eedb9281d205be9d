----------------------------- MODULE NumberSets -----------------------------
(***************************************************************************)
(* Sets of numbers: integers in a sorted array, bits, and the descriptors  *)
(* that a pointer map has given out. The two halves share no state.        *)
(***************************************************************************)
EXTENDS Integers, Sequences, FiniteSets

(***************************************************************************)
(* Sets of integers in a sorted array (intset.c) and sets of small numbers *)
(* in the bits of an array of ints (bitset.c, bitset.h). Two of each: an   *)
(* operation changes the one from the other. The widths of numbers are     *)
(* parameters: an int of the program has 32 bits.                          *)
(***************************************************************************)

CONSTANTS
  STWidth,     \* bits of an int that is an element of an IntSet
  STValues,    \* elements that clients add
  STWord,      \* jr_INT_NUM_BITS of a BitSet
  STMaxBits    \* bound on num_bits

ASSUME SetsAssumption ==
  /\ STWidth \in Nat \ {0} /\ STWord \in Nat \ {0} /\ STMaxBits \in Nat
  /\ STValues \subseteq -(2 ^ (STWidth - 1)) .. 2 ^ (STWidth - 1) - 1

VARIABLES
  st_ints,      \* the arrays of the two IntSets up to next_index
  st_members,   \* what they should hold (history)
  st_wrapped,   \* a union has compared elements too far apart (history)
  st_numbits,   \* num_bits of the two BitSets
  st_words,     \* int_array: the bits that are set in memory
  st_bits,      \* what they should hold (history)
  st_spilled    \* bits off the end were added to a longer set (history)

st_vars == <<st_ints, st_members, st_wrapped, st_numbits, st_words, st_bits, st_spilled>>

Which == {1, 2}
OtherOf(s) == 3 - s

ST_Init ==
  /\ st_ints = [s \in Which |-> <<>>] /\ st_members = [s \in Which |-> {}]
  /\ st_wrapped = FALSE
  /\ st_numbits = [s \in Which |-> 0] /\ st_words = [s \in Which |-> {}]
  /\ st_bits = [s \in Which |-> {}]
  /\ st_spilled = FALSE
-----------------------------------------------------------------------------
(* IntSets. The binary search: where the number is, or the place of the    *)
(* first greater one. (Places count from 1.)                               *)
IntSetIndex(array, n) ==
  LET search[low \in 1 .. Len(array) + 1, high \in 1 .. Len(array) + 1] ==
        IF low = high THEN low
        ELSE LET mid == low + (high - low) \div 2 IN
             IF n < array[mid] THEN search[low, mid]
             ELSE IF n > array[mid] THEN search[mid + 1, high]
             ELSE mid
  IN search[1, Len(array) + 1]

IntSetHasElement(array, n) ==
  LET i == IntSetIndex(array, n) IN i <= Len(array) /\ array[i] = n

IntSetAdded(array, n) ==
  LET i == IntSetIndex(array, n) IN
  IF IntSetHasElement(array, n) THEN array
  ELSE SubSeq(array, 1, i - 1) \o <<n>> \o SubSeq(array, i, Len(array))

IntSetDeleted(array, n) ==
  LET i == IntSetIndex(array, n) IN
  IF ~IntSetHasElement(array, n) THEN array
  ELSE SubSeq(array, 1, i - 1) \o SubSeq(array, i + 1, Len(array))

(* A difference in so many bits.                                           *)
Wrapped(d) == ((d + 2 ^ (STWidth - 1)) % 2 ^ STWidth) - 2 ^ (STWidth - 1)

Merged(first, second) ==
  LET merge[a \in 1 .. Len(first) + 1, b \in 1 .. Len(second) + 1] ==
        IF a > Len(first) THEN SubSeq(second, b, Len(second))
        ELSE IF b > Len(second) THEN SubSeq(first, a, Len(first))
        ELSE LET comp == Wrapped(first[a] - second[b]) IN
             IF comp < 0 THEN <<first[a]>> \o merge[a + 1, b]
             ELSE IF comp > 0 THEN <<second[b]>> \o merge[a, b + 1]
             ELSE <<first[a]>> \o merge[a + 1, b + 1]
  IN merge[1, 1]

Intersected(first, second) ==
  LET meet[a \in 1 .. Len(first) + 1, b \in 1 .. Len(second) + 1] ==
        IF a > Len(first) \/ b > Len(second) THEN <<>>
        ELSE IF first[a] < second[b] THEN meet[a + 1, b]
        ELSE IF first[a] > second[b] THEN meet[a, b + 1]
        ELSE <<first[a]>> \o meet[a + 1, b + 1]
  IN meet[1, 1]

FarApart ==
  \E m \in st_members[1], n \in st_members[2] :
    Wrapped(m - n) # m - n \/ Wrapped(n - m) # n - m

bit_vars == <<st_numbits, st_words, st_bits, st_spilled>>

ST_Add(s) ==
  /\ \E n \in STValues :
       /\ st_ints' = [st_ints EXCEPT ![s] = IntSetAdded(@, n)]
       /\ st_members' = [st_members EXCEPT ![s] = @ \cup {n}]
  /\ UNCHANGED <<st_wrapped, bit_vars>>

ST_Delete(s) ==
  /\ \E n \in STValues :
       /\ st_ints' = [st_ints EXCEPT ![s] = IntSetDeleted(@, n)]
       /\ st_members' = [st_members EXCEPT ![s] = @ \ {n}]
  /\ UNCHANGED <<st_wrapped, bit_vars>>

(* jr_IntSetAddSet takes the array of the union of both.                   *)
ST_AddSet(s) ==
  /\ ~st_wrapped
  /\ st_ints' = [st_ints EXCEPT ![s] = Merged(@, st_ints[OtherOf(s)])]
  /\ st_members' = [st_members EXCEPT ![s] = @ \cup st_members[OtherOf(s)]]
  /\ st_wrapped' = FarApart
  /\ UNCHANGED bit_vars

(* The intersection of the set and the other one, kept in its place.       *)
ST_Intersect(s) ==
  /\ ~st_wrapped
  /\ st_ints' = [st_ints EXCEPT ![s] = Intersected(@, st_ints[OtherOf(s)])]
  /\ st_members' = [st_members EXCEPT ![s] = @ \cap st_members[OtherOf(s)]]
  /\ UNCHANGED <<st_wrapped, bit_vars>>
-----------------------------------------------------------------------------
(* BitSets. The ints that hold so many bits, as positions in memory.       *)
InInts(bits) == 0 .. STWord * ((bits + STWord - 1) \div STWord) - 1

(* The bits of the last int below num_bits: the mask is made by a shift to *)
(* the right of the word's width less the bits in it. For a whole int that *)
(* is a shift by the width, which the processor takes for a shift by none. *)
Masked(bits, memory) == {b \in memory : bits % STWord = 0 \/ b < bits}

int_vars == <<st_ints, st_members, st_wrapped>>

(* jr_BitSetChangeNumBits: a shorter set keeps its memory; growing clears  *)
(* the rest of the last int and the new ints.                              *)
(* Mutant: growing inside the last int clears nothing.                     *)
BitsGrownUnmasked(bits, memory, to) ==
  IF to <= bits THEN memory
  ELSE memory \cap InInts(bits)
BitsGrown(bits, memory, to) ==
  IF to <= bits THEN memory
  ELSE Masked(bits, memory \cap InInts(bits))

ST_ChangeNumBits(s) ==
  /\ \E n \in 0 .. STMaxBits :
       /\ st_words' = [st_words EXCEPT ![s] = BitsGrown(st_numbits[s], @, n)]
       /\ st_numbits' = [st_numbits EXCEPT ![s] = n]
       /\ st_bits' = [st_bits EXCEPT ![s] = @ \cap 0 .. n - 1]
  /\ UNCHANGED <<int_vars, st_spilled>>

ST_AddElement(s) ==
  /\ \E b \in 0 .. st_numbits[s] - 1 :
       /\ st_words' = [st_words EXCEPT ![s] = @ \cup {b}]
       /\ st_bits' = [st_bits EXCEPT ![s] = @ \cup {b}]
  /\ UNCHANGED <<int_vars, st_numbits, st_spilled>>

ST_DeleteElement(s) ==
  /\ \E b \in 0 .. st_numbits[s] - 1 :
       /\ st_words' = [st_words EXCEPT ![s] = @ \ {b}]
       /\ st_bits' = [st_bits EXCEPT ![s] = @ \ {b}]
  /\ UNCHANGED <<int_vars, st_numbits, st_spilled>>

(* All bits of all ints are set, those off the end too.                    *)
ST_AddAll(s) ==
  /\ st_words' = [st_words EXCEPT ![s] = @ \cup InInts(st_numbits[s])]
  /\ st_bits' = [st_bits EXCEPT ![s] = 0 .. st_numbits[s] - 1]
  /\ UNCHANGED <<int_vars, st_numbits, st_spilled>>

ST_Clear(s) ==
  /\ st_words' = [st_words EXCEPT ![s] = @ \ InInts(st_numbits[s])]
  /\ st_bits' = [st_bits EXCEPT ![s] = {}]
  /\ UNCHANGED <<int_vars, st_numbits, st_spilled>>

(* jr_BitSetAddSet: grow to the other's length, then take all its ints.    *)
ST_AddBits(s) ==
  LET o == OtherOf(s)
      n == IF st_numbits[s] < st_numbits[o] THEN st_numbits[o] ELSE st_numbits[s]
      taken == st_words[o] \cap InInts(st_numbits[o])
  IN
  /\ st_words' = [st_words EXCEPT ![s] = BitsGrown(st_numbits[s], @, n) \cup taken]
  /\ st_numbits' = [st_numbits EXCEPT ![s] = n]
  /\ st_bits' = [st_bits EXCEPT ![s] = @ \cup st_bits[o]]
  /\ st_spilled' = (st_spilled \/
       \E b \in taken : b >= st_numbits[o] /\ b < n)
  /\ UNCHANGED int_vars

ST_IntStep ==
  \E s \in Which : ST_Add(s) \/ ST_Delete(s) \/ ST_AddSet(s) \/ ST_Intersect(s)

ST_BitStep ==
  \E s \in Which :
    \/ ST_ChangeNumBits(s) \/ ST_AddElement(s) \/ ST_DeleteElement(s)
    \/ ST_AddAll(s) \/ ST_Clear(s) \/ ST_AddBits(s)

ST_Next == ST_IntStep \/ ST_BitStep

ST_Spec == ST_Init /\ [][ST_Next]_st_vars
-----------------------------------------------------------------------------
(* jr_BitSetHasElement, jr_BitSetIsEmpty, jr_BitSetIsFull.                 *)
BitSetHasElement(s, b) == b \in st_words[s]
BitSetIsEmpty(s) == Masked(st_numbits[s], st_words[s] \cap InInts(st_numbits[s])) = {}
BitSetIsFull(s) ==
  Masked(st_numbits[s], InInts(st_numbits[s])) \subseteq st_words[s]

(* An array of integers is sorted without duplicates and holds exactly     *)
(* what was added, and the binary search says so of every number; a set of *)
(* bits has exactly its elements below num_bits, though bits off the end   *)
(* are set in memory, the set was shortened and lengthened again, or it    *)
(* took over a longer set; and the tests for the empty and the full set    *)
(* agree. (But for a union of integers so far apart that their difference  *)
(* wraps, and for the union with a shorter set that has bits off its end.) *)
ST_SetsHold ==
  /\ ~st_wrapped => \A s \in Which :
       /\ \A i \in 1 .. Len(st_ints[s]) - 1 : st_ints[s][i] < st_ints[s][i + 1]
       /\ \A n \in STValues : IntSetHasElement(st_ints[s], n) <=> n \in st_members[s]
       /\ Len(st_ints[s]) = Cardinality(st_members[s])
  /\ ~st_spilled => \A s \in Which :
       /\ \A b \in 0 .. st_numbits[s] - 1 : BitSetHasElement(s, b) <=> b \in st_bits[s]
       /\ BitSetIsEmpty(s) <=> st_bits[s] = {}
       /\ BitSetIsFull(s) <=> st_bits[s] = 0 .. st_numbits[s] - 1

-----------------------------------------------------------------------------
(***************************************************************************)
(* The pointer map of src/libjr/struct/ptrmap.c: descriptors, small        *)
(* numbers, for pointers and their data, in categories that each have a    *)
(* range of max_category_size descriptors. Closed descriptors wait for     *)
(* reuse in a list that runs through their own entries.                    *)
(*                                                                         *)
(* A client opens pointers, sets them and their data, and closes any       *)
(* descriptor, one that is closed already or was never given out as well.  *)
(***************************************************************************)

CONSTANTS
  PM_Kinds,          \* bound of the category kinds, 0 .. PM_Kinds - 1
  PM_CategorySize,   \* max_category_size
  PM_Pointers,       \* pointer values, without the null pointer
  PM_Data            \* values of a descriptor's data, without the zeroed one

ASSUME PtrMapAssumption == PM_Kinds \in Nat /\ PM_CategorySize \in Nat

NoPtr == "null"
Zeroed == "zeroed"

VARIABLES pm_list,   \* category_list: per category its entries and free list
          pm_held    \* history: what the client holds, with what it last set

pm_vars == <<pm_list, pm_held>>

MinValue(kind) == PM_CategorySize * kind

Category == [next_deleted |-> -1, num_deletes |-> 0, ptrs |-> <<>>]

(* Entries are numbered from 1, descriptors of a category from min_value.  *)
EntryNumber(kind, desc) == desc - MinValue(kind) + 1

HasEntry(list, kind, desc) ==
  kind + 1 \in DOMAIN list /\ EntryNumber(kind, desc) \in DOMAIN list[kind + 1].ptrs

Info(list, kind, desc) == list[kind + 1].ptrs[EntryNumber(kind, desc)]

(* Mutant: the null of a closed entry is not looked at.                  *)
IsValidDescNoNull(list, kind, desc) == HasEntry(list, kind, desc)

IsValidDesc(list, kind, desc) ==
  HasEntry(list, kind, desc) /\ Info(list, kind, desc).ptr # NoPtr

GetPtr(list, kind, desc) ==
  IF IsValidDesc(list, kind, desc) THEN Info(list, kind, desc).ptr ELSE NoPtr

GetData(list, kind, desc) ==
  IF IsValidDesc(list, kind, desc) THEN Info(list, kind, desc).data ELSE NoPtr

(* jr_PtrMapAddNewPtr makes the categories up to the one it is asked for.  *)
WithCategory(list, kind) ==
  [k \in 1 .. IF kind < Len(list) THEN Len(list) ELSE kind + 1 |->
     IF k <= Len(list) THEN list[k] ELSE Category]

IsFullCategory(category) ==
  category.next_deleted < 0 /\ Len(category.ptrs) >= PM_CategorySize

NewDesc(category, kind) ==
  IF category.next_deleted >= 0 THEN category.next_deleted
  ELSE MinValue(kind) + Len(category.ptrs)

(* The entry of a reused descriptor leaves the free list; a new one is     *)
(* behind all others. Its data are zeroed.                                 *)
OpenPtr(category, kind, ptr) ==
  LET entry == EntryNumber(kind, NewDesc(category, kind))
      info == [ptr |-> ptr, next |-> -1, data |-> Zeroed]
  IN IF category.next_deleted >= 0
     THEN [next_deleted |-> category.ptrs[entry].next,
           num_deletes |-> category.num_deletes - 1,
           ptrs |-> [category.ptrs EXCEPT ![entry] = info]]
     ELSE [category EXCEPT !.ptrs = Append(@, info)]

CloseDesc(list, kind, desc) ==
  IF ~IsValidDesc(list, kind, desc) THEN list
  ELSE LET category == list[kind + 1]
           closed == [Info(list, kind, desc) EXCEPT !.ptr = NoPtr,
                                                    !.next = category.next_deleted]
       IN [list EXCEPT ![kind + 1] =
             [next_deleted |-> desc,
              num_deletes |-> category.num_deletes + 1,
              ptrs |-> [category.ptrs EXCEPT ![EntryNumber(kind, desc)] = closed]]]

SetInfo(list, kind, desc, info) ==
  [list EXCEPT ![kind + 1].ptrs[EntryNumber(kind, desc)] = info]

Descs(kind) == MinValue(kind) .. MinValue(kind) + PM_CategorySize - 1

-----------------------------------------------------------------------------
PM_Init == pm_list = <<>> /\ pm_held = {}

PM_AddNewPtr ==
  \E kind \in 0 .. PM_Kinds - 1, ptr \in PM_Pointers :
    \E list \in {WithCategory(pm_list, kind)} :
      \E category \in {list[kind + 1]} :
        IF IsFullCategory(category) THEN pm_list' = list /\ UNCHANGED pm_held
        ELSE /\ pm_list' = [list EXCEPT ![kind + 1] = OpenPtr(category, kind, ptr)]
             /\ pm_held' = pm_held \cup
                  {[kind |-> kind, desc |-> NewDesc(category, kind),
                    ptr |-> ptr, data |-> Zeroed]}

PM_CloseDesc ==
  \E kind \in 0 .. Len(pm_list) - 1 : \E desc \in Descs(kind) :
    /\ pm_list' = CloseDesc(pm_list, kind, desc)
    /\ pm_held' = {h \in pm_held : ~(h.kind = kind /\ h.desc = desc)}

(* A descriptor whose pointer is set to null counts as closed, yet is not  *)
(* in the free list: its number is lost.                                   *)
PM_SetPtr ==
  \E h \in pm_held, ptr \in PM_Pointers \cup {NoPtr} :
    /\ pm_list' = IF IsValidDesc(pm_list, h.kind, h.desc)
                  THEN SetInfo(pm_list, h.kind, h.desc,
                               [Info(pm_list, h.kind, h.desc) EXCEPT !.ptr = ptr])
                  ELSE pm_list
    /\ pm_held' = (pm_held \ {h}) \cup IF ptr = NoPtr THEN {} ELSE {[h EXCEPT !.ptr = ptr]}

(* The client writes through jr_PtrMapGetDataPtr.                          *)
PM_SetData ==
  \E h \in pm_held, data \in PM_Data :
    /\ IsValidDesc(pm_list, h.kind, h.desc)
    /\ pm_list' = SetInfo(pm_list, h.kind, h.desc,
                          [Info(pm_list, h.kind, h.desc) EXCEPT !.data = data])
    /\ pm_held' = (pm_held \ {h}) \cup {[h EXCEPT !.data = data]}

PM_Next == PM_AddNewPtr \/ PM_CloseDesc \/ PM_SetPtr \/ PM_SetData

PM_Spec == PM_Init /\ [][PM_Next]_pm_vars

-----------------------------------------------------------------------------
(* The descriptors the free list gives next, in order, while it lasts.     *)
FreeDescs(kind) ==
  LET category == pm_list[kind + 1]
      free[i \in 0 .. Len(category.ptrs)] ==
        IF i = 0 THEN <<category.next_deleted>>
        ELSE LET last == free[i - 1][Len(free[i - 1])]
             IN IF ~HasEntry(pm_list, kind, last) THEN free[i - 1]
                ELSE Append(free[i - 1], Info(pm_list, kind, last).next)
      all == free[Len(category.ptrs)]
  IN SubSeq(all, 1, Len(all) - 1)

(* Whatever is opened, closed (twice, or without being open) and set, no   *)
(* two open pointers have the same number, in one category or in two; each *)
(* descriptor leads to its own pointer and data, those of a new one being  *)
(* zeroed; and the free list holds num_deletes descriptors, all different  *)
(* and none of them open, so that closing twice never gives a descriptor   *)
(* to two clients.                                                         *)
PM_DescriptorsApart ==
  /\ \A g, h \in pm_held : g.desc = h.desc => g = h
  /\ \A h \in pm_held : /\ GetPtr(pm_list, h.kind, h.desc) = h.ptr
                        /\ GetData(pm_list, h.kind, h.desc) = h.data
  /\ \A kind \in 0 .. Len(pm_list) - 1 :
       LET free == FreeDescs(kind)
       IN /\ Len(free) = pm_list[kind + 1].num_deletes
          /\ Cardinality({free[i] : i \in DOMAIN free}) = Len(free)
          /\ \A i \in DOMAIN free : HasEntry(pm_list, kind, free[i])
          /\ \A h \in pm_held : \A i \in DOMAIN free : h.desc # free[i]
=============================================================================
