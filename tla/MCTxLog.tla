------------------------------ MODULE MCTxLog ------------------------------
(***************************************************************************)
(* Instances of TxLog for TLC: two values whose entries have different     *)
(* lengths and times, headers of two cells and blocks of six cells, so     *)
(* that an entry ends at a block boundary, a header fits into the rest of  *)
(* a block, and a header does not fit.                                     *)
(***************************************************************************)
EXTENDS TxLog

\* A process that is killed after any file command, with the last write torn at
\* any cell.
Crashing == [ops |-> {"sync", "size", "wipe"}, values |-> {"a", "b"},
             failures |-> {"process", "torn"}, max_len |-> 17, max_depth |-> 2, max_faults |-> 0]

\* File commands that fail, with partial writes.
Faulting == [ops |-> {"sync", "size"}, values |-> {"a"},
             failures |-> {"process", "io"}, max_len |-> 14, max_depth |-> 2, max_faults |-> 2]

\* A client that drops the front of its log.
Resetting == [ops |-> {"size", "reset", "truncate_offset"}, values |-> {"a"},
              failures |-> {"process"}, max_len |-> 22, max_depth |-> 1, max_faults |-> 0]

\* A machine that loses its power.
OnUnsafeMachine == [ops |-> {"sync", "size"}, values |-> {"a"},
                    failures |-> {"power"}, max_len |-> 14, max_depth |-> 1, max_faults |-> 0]

\* A client that appends to a file that ends inside of padding.
Appending == [ops |-> {"append_in_pad"}, values |-> {"a", "b"},
              failures |-> {"process"}, max_len |-> 17, max_depth |-> 2, max_faults |-> 0]

\* A client that recovers with the truncating styles that execute a part of the log.
PartlyExecuting == [ops |-> {"by_time", "stop_offset"}, values |-> {"a"},
                    failures |-> {"process"}, max_len |-> 16, max_depth |-> 2, max_faults |-> 0]

AllClients       == {Crashing, Faulting, Resetting, OnUnsafeMachine}
PaddingClients   == {Appending}
RecoveringClients == {PartlyExecuting}

MCLenOf  == [v \in Values |-> IF v = "a" THEN HdrLen + 1 ELSE HdrLen + 3]
MCTimeOf == [v \in Values |-> IF v = "a" THEN 1 ELSE 2]

\* The refinement mapping to what the log promises.  The two auxiliary
\* variables hold the part of it that is read from the file, so that TLC reads
\* the file once per state.
VARIABLES items,   (* what the file holds, with the open transactions       *)
          marks    (* for every open transaction, the items before it       *)

mcvars == <<file, log, phase, reset, promised, asked, faults, client, items, marks>>

ItemsOf(contents) ==
  [i \in DOMAIN contents |-> [val |-> contents[i].val, depth |-> contents[i].depth]]

MarksOf(contents, stack) ==
  [i \in DOMAIN stack |-> Len(SelectSeq(contents, LAMBDA c : c.offset < stack[i].begin_offset))]

MCInit == Init /\ items = << >> /\ marks = << >>

MCNext ==
  /\ Next
  /\ \E image \in {ViewOf(file')} : \E contents \in {Contents(image)} :
       items' = ItemsOf(contents) /\ marks' = MarksOf(contents, log'.stack)

MCSpec == MCInit /\ [][MCNext]_mcvars

AbstractState == IF phase = "running" THEN "up" ELSE IF phase = "failed" THEN "failed" ELSE "down"

\* The promise is that of a process that dies.  A machine that loses its power
\* may bring back what was truncated and not synced: it is not compared with the
\* promise, and DurableKept says what it keeps.
LosesPower == "power" \in client.failures

Promise == INSTANCE LogSpec WITH
  items <- IF LosesPower THEN << >> ELSE items,
  marks <- IF LosesPower THEN << >> ELSE marks,
  durable <- IF LosesPower THEN 0 ELSE promised,
  state <- IF LosesPower THEN "down" ELSE AbstractState,
  MaxItems <- MaxLen

\* Entries logged with requires_sync, outside of a transaction or in one that
\* was committed, stay readable and in place whatever happens: what is promised
\* is in the file and never changes until the log is wiped or reset.
DurableKept ==
  [][/\ promised' <= Len(items')
     /\ \A i \in 1..promised : promised <= promised' => items'[i] = items[i]]_mcvars

\* When no command failed and the machine runs on, a log whose header says that it
\* is synced has lost nothing but the transaction that was being aborted
\* (jr_LogSync, jr_LogSetFileSyncBit).
SyncedLosesNothing ==
  [][~LosesPower /\ phase = "running" /\ phase' = "closed" /\ faults = 0 /\ ReadEntry(file'.kernel, 0).val = "synced" =>
       \/ items' = items
       \/ marks # << >> /\ items' = SubSeq(items, 1, Last(marks))]_mcvars

\* The log does what it promises: see LogSpec.
ImplementsPromise == Promise!Spec
=============================================================================
