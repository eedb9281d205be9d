------------------------------ MODULE KeyTable ------------------------------
(***************************************************************************)
(* What a table with stable indices promises: a set of keys, each with an  *)
(* index of its own that it keeps until the key is deleted.  jr_HTable     *)
(* implements it.                                                          *)
(***************************************************************************)
EXTENDS Integers, Functions

CONSTANT Keys

VARIABLE table    (* the index of every key in the table *)

Init == DOMAIN table = {}

\* A new key gets an index that no other key has, and no other index changes.
Added(before, after, k) ==
  /\ k \notin DOMAIN before
  /\ DOMAIN after = DOMAIN before \cup {k}
  /\ after[k] \in Nat \ Range(before)
  /\ before = Restrict(after, DOMAIN before)

Deleted(before, after, k) ==
  /\ k \in DOMAIN before
  /\ after = Restrict(before, DOMAIN before \ {k})

Next ==
  \E before \in {table}, after \in {table'} :
    \/ DOMAIN after = {}
    \/ \E k \in Keys : Added(before, after, k) \/ Deleted(before, after, k)

Spec == Init /\ [][Next]_table
=============================================================================
