------------------------------ MODULE LogSpec ------------------------------
(***************************************************************************)
(* What the transaction log promises its client, with no file, no blocks   *)
(* and no buffers: a sequence of items that grows at the end, nested       *)
(* transactions that are undone as a whole, and a durable prefix that no   *)
(* crash takes away.  TxLog, the model of libjr/io/logfile.c and loglib.c, *)
(* is checked to implement this specification.                             *)
(***************************************************************************)
EXTENDS Integers, Sequences

CONSTANTS Values,     (* what the entries of the client carry             *)
          MaxItems    (* bound on the length of the log                   *)

ASSUME LogSpecAssumption ==
  /\ "begin" \notin Values
  /\ "commit" \notin Values
  /\ MaxItems \in Nat

VARIABLES items,     (* the items in the log                              *)
          marks,     (* for every open transaction, what was before it    *)
          durable,   (* how many items no crash may take away             *)
          state      (* "up": open and recovered; "failed": an operation
                        failed; "down": closed, or not recovered yet      *)

vars == <<items, marks, durable, state>>

\* An item knows how many transactions are open after it.
Item(v, d) == [val |-> v, depth |-> d]
ItemSet == [val : Values \cup {"begin", "commit"}, depth : Nat]

Keep(n) == SubSeq(items, 1, n)

\* The number of transactions that are open after the first n items.
DepthAt(n) == IF n = 0 THEN 0 ELSE items[n].depth

ClosedAt(n) == DepthAt(n) = 0

\* What recovery keeps: everything up to the last point where no transaction
\* was open.
IsClosedLength(n) ==
  /\ n \in 0..Len(items)
  /\ ClosedAt(n)
  /\ \A m \in n + 1..Len(items) : ~ClosedAt(m)

Init ==
  /\ items = << >>
  /\ marks = << >>
  /\ durable = 0
  /\ state = "down"

\* The item an operation of the client adds at the end.
NewItem(v) ==
  CASE v = "begin"  -> Item(v, Len(marks) + 1)
    [] v = "commit" -> Item(v, Len(marks) - 1)
    [] OTHER        -> Item(v, Len(marks))

\* What the client may add now.
Addable == Values \cup {"begin"} \cup (IF marks = << >> THEN {} ELSE {"commit"})

Outer == SubSeq(marks, 1, Len(marks) - 1)

\* Mutant: an entry is made durable before its transaction is committed.
AddDurableInside(v) ==
  /\ state = "up"
  /\ Len(items) < MaxItems
  /\ items' = Append(items, NewItem(v))
  /\ durable' \in {durable, Len(items) + 1}
  /\ UNCHANGED <<marks, state>>

\* Adding outside of every transaction may make the log durable.
Add(v) ==
  /\ state = "up"
  /\ Len(items) < MaxItems
  /\ items' = Append(items, NewItem(v))
  /\ durable' \in {durable} \cup (IF marks = << >> THEN {Len(items) + 1} ELSE {})
  /\ UNCHANGED <<marks, state>>

Begin ==
  /\ state = "up"
  /\ Len(items) < MaxItems
  /\ items' = Append(items, NewItem("begin"))
  /\ marks' = Append(marks, Len(items))
  /\ UNCHANGED <<durable, state>>

\* The commit of the outermost transaction may make the log durable.
Commit ==
  /\ state = "up"
  /\ marks # << >>
  /\ Len(items) < MaxItems
  /\ items' = Append(items, NewItem("commit"))
  /\ durable' \in {durable} \cup (IF Len(marks) = 1 THEN {Len(items) + 1} ELSE {})
  /\ marks' = Outer
  /\ UNCHANGED state

\* Mutant: the aborted transaction stays on the stack.
AbortKeepsMark ==
  /\ state \in {"up", "failed"}
  /\ marks # << >>
  /\ items' = Keep(marks[Len(marks)])
  /\ state' = "up"
  /\ UNCHANGED <<marks, durable>>

\* Aborting undoes the innermost transaction and repairs a failed operation.
Abort ==
  /\ state \in {"up", "failed"}
  /\ marks # << >>
  /\ items' = Keep(marks[Len(marks)])
  /\ marks' = Outer
  /\ state' = "up"
  /\ UNCHANGED durable

\* An operation fails; its item may be in the log all the same.  What can fail
\* after that is only the abort.
FailedOp ==
  /\ state \in {"up", "failed"}
  /\ state' = "failed"
  /\ \/ UNCHANGED items
     \/ /\ state = "up"
        /\ Len(items) < MaxItems
        /\ \E v \in Addable : items' = Append(items, NewItem(v))
  /\ marks' \in {marks} \cup (IF marks = << >> THEN {} ELSE {Outer})
  /\ UNCHANGED durable

\* The log is closed, the process dies, or the machine stops: what is not
\* durable may be gone, and the operation that was under way may have left its
\* item or done its work.
Stop ==
  /\ state' = "down"
  /\ marks' = << >>
  /\ \/ \E n \in durable..Len(items) : items' = Keep(n)
     \/ /\ state = "up"
        /\ Len(items) < MaxItems
        /\ \E v \in Addable : items' = Append(items, NewItem(v))
  /\ UNCHANGED durable

\* Mutant: recovery stops at a transaction that is complete.
RecoverStopsEarly ==
  /\ state = "down"
  /\ \E n \in 0..Len(items) : ClosedAt(n) /\ items' = Keep(n)
  /\ state' \in {"up", "down"}
  /\ UNCHANGED <<marks, durable>>

\* Opening and executing the log removes the transaction that was cut short.
Recover ==
  /\ state = "down"
  /\ \E n \in 0..Len(items) : IsClosedLength(n) /\ items' = Keep(n)
  /\ state' \in {"up", "down"}
  /\ UNCHANGED <<marks, durable>>

\* Opening for writing starts an empty log.
Wipe ==
  /\ state = "down"
  /\ items' = << >>
  /\ durable' = 0
  /\ state' \in {"up", "down"}
  /\ UNCHANGED marks

\* Mutant: the reset offset lies inside of a transaction.
ResetInside(n) ==
  /\ state = "up"
  /\ marks = << >>
  /\ n \in 0..Len(items)
  /\ items' = SubSeq(items, n + 1, Len(items))
  /\ durable' = IF durable < n THEN 0 ELSE durable - n
  /\ UNCHANGED <<marks, state>>

\* A reset forgets the items before a point where no transaction was open.
Reset(n) ==
  /\ state = "up"
  /\ marks = << >>
  /\ n \in 0..Len(items)
  /\ ClosedAt(n)
  /\ items' = SubSeq(items, n + 1, Len(items))
  /\ durable' = IF durable < n THEN 0 ELSE durable - n
  /\ UNCHANGED <<marks, state>>

Next ==
  \/ \E v \in Values : Add(v)
  \/ Begin
  \/ Commit
  \/ Abort
  \/ FailedOp
  \/ Stop
  \/ Recover
  \/ Wipe
  \/ \E n \in 0..MaxItems : Reset(n)

Spec == Init /\ [][Next]_vars

----------------------------------------------------------------------------
(* Properties.                                                             *)

TypeOK ==
  /\ items \in Seq(ItemSet)
  /\ marks \in Seq(Nat)
  /\ durable \in Nat
  /\ state \in {"up", "failed", "down"}

\* What jr_LogAddEntry and jr_LogTransactionCommit promised to keep is in the
\* log, and it does not end inside of a transaction, so that no recovery and no
\* abort reaches it.
DurableIsWhole ==
  /\ durable <= Len(items)
  /\ ClosedAt(durable)
  /\ \A i \in DOMAIN marks : durable <= marks[i]

\* Transactions nest: whatever was aborted, cut by a crash, recovered or reset,
\* every commit in the log closes a begin that is before it.
Bracketed ==
  \A i \in DOMAIN items :
    items[i].depth = CASE items[i].val = "begin"  -> DepthAt(i - 1) + 1
                       [] items[i].val = "commit" -> DepthAt(i - 1) - 1
                       [] OTHER                   -> DepthAt(i - 1)

\* Aborting the i-th open transaction would leave a log with exactly i - 1
\* transactions open, and a log in use has exactly its transactions open.
MarksMatch ==
  /\ \A i \in DOMAIN marks : marks[i] < Len(items) /\ DepthAt(marks[i]) = i - 1
  /\ \A i, j \in DOMAIN marks : i < j => marks[i] < marks[j]
  /\ state = "up" => DepthAt(Len(items)) = Len(marks)
  /\ state = "down" => marks = << >>

\* Until the log is wiped or reset, no step changes what is durable.
DurablePrefixKept ==
  [][durable <= durable' => Len(items') >= durable /\ \A i \in 1..durable : items'[i] = items[i]]_vars
=============================================================================
