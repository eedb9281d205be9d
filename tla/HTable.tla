------------------------------- MODULE HTable -------------------------------
(***************************************************************************)
(* The hash table of libjr/htable: entries in an array, where they keep    *)
(* their index, chained into bucket lists through next_index; deleted      *)
(* entries are chained through the same field into a list from which new   *)
(* entries are taken first.                                                *)
(***************************************************************************)
EXTENDS Integers, Sequences, FiniteSets, FiniteSetsExt

CONSTANTS Keys,
          Hash,           (* hashfn, by key                                 *)
          FirstBuckets    (* number of buckets of a table with one entry,
                             8 + 1 in the code                              *)

ASSUME HTableAssumption ==
  /\ Hash \in [Keys -> Int]
  /\ FirstBuckets \in Nat \ {0, 1}

VARIABLES entries,       (* entry_array: key, hash_value, next_index        *)
          buckets,       (* buckets_array                                   *)
          delete_list,
          num_deletes

vars == <<entries, buckets, delete_list, num_deletes>>

End == -1        \* end-of-list value, and hash_value of a deleted entry

Indices == 0..Len(entries) - 1
EntryOf(array, i) == array[i + 1]

\* A table as a value, for the functions that work on one in steps.
Table == [entries |-> entries, buckets |-> buckets,
          delete_list |-> delete_list, num_deletes |-> num_deletes]

Become(table) ==
  \E t \in {table} :
    /\ entries' = t.entries
    /\ buckets' = t.buckets
    /\ delete_list' = t.delete_list
    /\ num_deletes' = t.num_deletes

NumBuckets(t) == Len(t.buckets)

HashValue(k) == IF Hash[k] < 0 THEN -Hash[k] ELSE Hash[k]

BucketOf(t, hash) == hash % NumBuckets(t)

\* The entries of the list that starts at index i: List(t, i)[n] is the one
\* after n steps, or End.  A list without a cycle has ended after as many steps
\* as there are entries.
List(t, i) ==
  LET walk[n \in 0..Len(t.entries)] ==
        IF n = 0 THEN i
        ELSE LET at == walk[n - 1]
             IN IF at = End THEN End ELSE EntryOf(t.entries, at).next
  IN walk

Members(t, i) ==
  LET list == List(t, i) IN {list[n] : n \in 0..Len(t.entries)} \ {End}

\* jr_HTableFindIndexGeneric: the first entry of the bucket list with the key.
FindIndex(t, k) ==
  IF NumBuckets(t) = 0 THEN End
  ELSE LET list == List(t, t.buckets[BucketOf(t, HashValue(k)) + 1])
           hits == {n \in 0..Len(t.entries) : list[n] # End /\ EntryOf(t.entries, list[n]).key = k}
       IN IF hits = {} THEN End ELSE list[Min(hits)]

AddToBucketList(t, i) ==
  IF NumBuckets(t) = 0 THEN t
  ELSE LET b == BucketOf(t, EntryOf(t.entries, i).hash) + 1
       IN [t EXCEPT !.entries[i + 1].next = t.buckets[b], !.buckets[b] = i]

\* The number of buckets is doubled until it reaches the number of entries, and
\* every entry that is not deleted is put into its new bucket.
IncreaseNumBuckets(t) ==
  LET double[n \in Nat] == IF n >= Len(t.entries) THEN n
                           ELSE double[IF n = 0 THEN FirstBuckets ELSE 2 * (n - 1) + 1]
      empty == [t EXCEPT !.buckets = [b \in 1..double[NumBuckets(t)] |-> End]]
      fill[i \in 0..Len(t.entries)] ==
        IF i = 0 THEN empty
        ELSE LET before == fill[i - 1]
             IN IF EntryOf(t.entries, i - 1).hash = End THEN before
                ELSE AddToBucketList(before, i - 1)
  IN IF NumBuckets(t) >= Len(t.entries) THEN t ELSE fill[Len(t.entries)]

\* Mutant: the entry stays on the list of deleted entries.
AllocateNewIndexTwice(t, k) ==
  LET new == [key |-> k, hash |-> HashValue(k), next |-> End]
  IN IF t.num_deletes # 0
     THEN [index |-> t.delete_list,
           table |-> [t EXCEPT !.num_deletes = @ - 1, !.entries[t.delete_list + 1] = new]]
     ELSE [index |-> Len(t.entries), table |-> [t EXCEPT !.entries = Append(@, new)]]

\* jr_HTableAllocateNewIndex: [index, table], with the key and the hash value
\* the caller stores there.
AllocateNewIndex(t, k) ==
  LET new == [key |-> k, hash |-> HashValue(k), next |-> End]
  IN IF t.num_deletes # 0
     THEN [index |-> t.delete_list,
           table |-> [t EXCEPT !.delete_list = EntryOf(t.entries, t.delete_list).next,
                               !.num_deletes = @ - 1,
                               !.entries[t.delete_list + 1] = new]]
     ELSE [index |-> Len(t.entries),
           table |-> [t EXCEPT !.entries = Append(@, new)]]

\* jr_HTableSetNewElement: a key that is in the table is refused.
SetNewElement(k) ==
  /\ FindIndex(Table, k) = End
  /\ LET new   == AllocateNewIndex(Table, k)
         added == AddToBucketList(new.table, new.index)
     IN Become(IncreaseNumBuckets(added))

\* Mutant: the head of a bucket list is not unlinked from its bucket.
DeleteFromBucketListHead(t, i) ==
  IF NumBuckets(t) = 0 THEN t
  ELSE LET b    == BucketOf(t, EntryOf(t.entries, i).hash) + 1
           list == List(t, t.buckets[b])
           at   == Min({n \in 0..Len(t.entries) : list[n] = i})
       IN IF at = 0 THEN t
          ELSE [t EXCEPT !.entries[list[at - 1] + 1].next = EntryOf(t.entries, i).next]

DeleteFromBucketList(t, i) ==
  IF NumBuckets(t) = 0 THEN t
  ELSE LET b    == BucketOf(t, EntryOf(t.entries, i).hash) + 1
           list == List(t, t.buckets[b])
           at   == Min({n \in 0..Len(t.entries) : list[n] = i})
           next == EntryOf(t.entries, i).next
       IN IF at = 0 THEN [t EXCEPT !.buckets[b] = next]
          ELSE [t EXCEPT !.entries[list[at - 1] + 1].next = next]

AddToDeleteList(t, i) ==
  [t EXCEPT !.entries[i + 1].next = t.delete_list, !.delete_list = i, !.num_deletes = @ + 1]

\* jr_HTableDeleteIndex, which asserts that the index is valid.
DeleteIndex(i) ==
  /\ EntryOf(entries, i).hash # End
  /\ Become([AddToDeleteList(DeleteFromBucketList(Table, i), i) EXCEPT !.entries[i + 1].hash = End])

\* jr_HTableDeleteElement finds the key first.
DeleteElement(k) ==
  /\ FindIndex(Table, k) # End
  /\ DeleteIndex(FindIndex(Table, k))

\* jr_HTableEmpty keeps the buckets.
Empty ==
  /\ entries' = << >>
  /\ buckets' = [b \in DOMAIN buckets |-> End]
  /\ delete_list' = End
  /\ num_deletes' = 0

Init ==
  /\ entries = << >>
  /\ buckets = << >>
  /\ delete_list = End
  /\ num_deletes = 0

Next ==
  \/ \E k \in Keys : SetNewElement(k) \/ DeleteElement(k)
  \/ \E i \in Indices : DeleteIndex(i)
  \/ Empty

Spec == Init /\ [][Next]_vars

----------------------------------------------------------------------------
(* Properties.                                                             *)

\* The lists share one field, and still every entry is in exactly one of them:
\* in the bucket of its hash value, or in the list of deleted entries, which has
\* num_deletes members; every list ends.
WellLinked ==
  LET starts == {delete_list} \cup {buckets[b] : b \in DOMAIN buckets}
  IN /\ \A i \in starts : List(Table, i)[Len(entries)] = End
     /\ Cardinality(Members(Table, delete_list)) = num_deletes
     /\ \A i \in Indices :
          /\ EntryOf(entries, i).hash = End <=> i \in Members(Table, delete_list)
          /\ \A b \in DOMAIN buckets :
               i \in Members(Table, buckets[b]) <=>
                 /\ EntryOf(entries, i).hash # End
                 /\ b = BucketOf(Table, EntryOf(entries, i).hash) + 1

\* What can be found is a table of keys whose indices do not change while
\* buckets grow and other keys come and go.
Found == [k \in {k \in Keys : FindIndex(Table, k) # End} |-> FindIndex(Table, k)]

Promise == INSTANCE KeyTable WITH table <- Found

ImplementsKeyTable == Promise!Spec
=============================================================================
