---------------------------- MODULE OrderedTable ----------------------------
(***************************************************************************)
(* What an ordered container promises: a sequence of distinct elements,    *)
(* kept sorted when it is used by key, in the order the caller gives when  *)
(* it is used by index.  jr_AVL_Tree implements it.                        *)
(***************************************************************************)
EXTENDS Integers, Sequences, SequencesExt

CONSTANT Nodes

VARIABLES order,
          sorted     (* it is used by key                                   *)

Init == order = << >> /\ sorted \in BOOLEAN

\* The position of a new element is free by index, and given by the keys else.
Inserted(before, after, n) ==
  /\ n \notin ToSet(before)
  /\ \E i \in 1..Len(before) + 1 :
       /\ sorted => \A j \in 1..Len(before) : before[j] < n <=> j < i
       /\ after = InsertAt(before, i, n)

Extracted(before, after, n) ==
  /\ n \in ToSet(before)
  /\ after = Remove(before, n)

Next ==
  /\ \E before \in {order}, after \in {order'} :
       \/ after = << >>
       \/ \E n \in Nodes : Inserted(before, after, n) \/ Extracted(before, after, n)
  /\ UNCHANGED sorted

Spec == Init /\ [][Next]_<<order, sorted>>
=============================================================================
