------------------------------- MODULE TxLog -------------------------------
(***************************************************************************)
(* The transaction log of libjr/io (logfile.c, loglib.c): one process that *)
(* opens a log, adds entries, runs nested transactions, syncs, resets and  *)
(* executes it, and that may die, lose its machine, or see an I/O error at *)
(* any point of any of these operations.                                   *)
(*                                                                         *)
(* An operation is a program: the sequence of file commands the function   *)
(* issues, with its assignments to jr_LogType in between.  A program runs  *)
(* to its end, or is cut off after any of its commands (Crash), or has one *)
(* of its commands fail (Fail).                                            *)
(***************************************************************************)
EXTENDS LogFormat

CONSTANTS Values,       (* what the client logs                             *)
          LenOf,        (* saved length of an entry, by value               *)
          TimeOf,       (* entry_time of an entry, by value                 *)
          NullValues,   (* values whose ptr_values are null                 *)
          StartTimes,   (* start times given to headers                     *)
          Times,        (* limits of the time ranges of executions          *)
          StartOffsets, (* offsets the client starts an execution at        *)
          StopOffsets,  (* offsets it stops one at                          *)
          MaxLen,       (* bound on the length of the file                  *)
          Clients       (* who uses the log, and on what machine            *)

ASSUME TxLogAssumption ==
  /\ LenOf \in [Values -> Nat] /\ \A v \in Values : LenOf[v] > HdrLen
  /\ TimeOf \in [Values -> Nat]
  /\ NullValues \subseteq Values
  /\ MaxLen \in Nat
  /\ \A c \in Clients :
       /\ c.values \subseteq Values
       /\ c.failures \subseteq {"process", "power", "torn", "io"}
       /\ c.max_len \in 0..MaxLen /\ c.max_depth \in Nat /\ c.max_faults \in Nat

VARIABLES file,      (* the file and jr_file_t: [kernel, stable, buf, pos]  *)
          log,       (* jr_LogType: [start_time, is_file_synced,
                        truncate_offset, stack]; in_transaction is the
                        length of the transaction stack                     *)
          phase,     (* what the client may do with the log                 *)
          reset,     (* the reset offset the client holds, or NoOffset      *)
          promised,  (* history: number of items the log promised to keep   *)
          asked,     (* history: for every open transaction, was an entry
                        that requires a sync logged in it                   *)
          faults,    (* number of commands that failed                      *)
          client     (* the member of Clients: the operations it uses, the
                        values it logs, the failures it meets, and bounds on
                        the file, the nesting and the failing commands      *)

vars == <<file, log, phase, reset, promised, asked, faults, client>>

NoOffset == -1
Everything == -1        \* all that is logged is promised
Max64 == 1000000        \* jr_ULongAsgnMaxValue: larger than every offset

----------------------------------------------------------------------------
(* The file: APR keeps the cells written since the last flush in a buffer, *)
(* every seek (jr_file_get_offset is one), truncate, sync and close hands  *)
(* them to the kernel, only jr_file_sync makes them stable.  Truncating    *)
(* moves the offset too, so the seek of jr_LogTruncate changes nothing and *)
(* jr_LogTruncate ignores its failure.                                     *)

\* The file as the process sees it.
ViewOf(f) == Overlay(f.kernel, f.pos - Len(f.buf), f.buf)
View == ViewOf(file)

Flushed(f) == [f EXCEPT !.kernel = ViewOf(f), !.buf = << >>]

Resized(k, n) == SubSeq(ZeroFilled(k, n), 1, n)

\* Commands.
Write(cells)   == <<[op |-> "write", arg |-> cells]>>
Seek(offset)   == <<[op |-> "seek", arg |-> offset]>>
SeekEnd        == <<[op |-> "seekend", arg |-> 0]>>
GetOffset      == <<[op |-> "offset", arg |-> 0]>>
Truncate(n)    == <<[op |-> "truncate", arg |-> n]>>
Flush          == <<[op |-> "flush", arg |-> 0]>>
Fsync          == <<[op |-> "fsync", arg |-> 0]>>
Assign(field, v) == <<[op |-> "assign", arg |-> [field |-> field, val |-> v]]>>

\* The stable image only matters to runs in which the machine may stop.
Tracked(image) == IF "power" \in client.failures THEN image ELSE << >>

\* The effect of command c on s = [file, log].
Do(s, c) ==
  CASE c.op = "write"    -> [s EXCEPT !.file.buf = @ \o c.arg, !.file.pos = @ + Len(c.arg)]
    [] c.op = "seek"     -> [s EXCEPT !.file = [Flushed(@) EXCEPT !.pos = c.arg]]
    [] c.op = "seekend"  -> [s EXCEPT !.file = [Flushed(@) EXCEPT !.pos = Len(ViewOf(s.file))]]
    [] c.op = "truncate" -> [s EXCEPT !.file = [Flushed(@) EXCEPT !.kernel = Resized(ViewOf(s.file), c.arg),
                                                                  !.pos = c.arg]]
    [] c.op = "fsync"    -> [s EXCEPT !.file = [Flushed(@) EXCEPT !.stable = Tracked(ViewOf(s.file))]]
    [] c.op = "assign"   -> [s EXCEPT !.log[c.arg.field] = c.arg.val]
    [] OTHER             -> [s EXCEPT !.file = Flushed(@)]

Run(prog) == FoldLeft(Do, [file |-> file, log |-> log], prog)
Cut(prog, i) == Run(SubSeq(prog, 1, i))

\* A failing write may have taken a part of its cells; any other failing
\* command has no effect.
CanFail(c) == c.op # "assign"
FailAt(prog, i, n) ==
  LET s == Cut(prog, i - 1)
  IN IF prog[i].op = "write" THEN Do(s, [op |-> "write", arg |-> SubSeq(prog[i].arg, 1, n)]) ELSE s

----------------------------------------------------------------------------
(* The operations as programs.                                             *)

\* jr_LogEntryAddToFilePtr at offset p, the pads of jr_AvoidLogBlockBoundary
\* included.
PadTo(p, len) ==
  LET q == NextLogEntryOffset(p, len)
  IN GetOffset \o (IF PadCells(p, len) = << >> THEN << >> ELSE Write(PadCells(p, len)))
               \o (IF q = p THEN << >> ELSE Seek(q))

\* The data of a null pointer is not written: the file moves on over it.  (No
\* caller in the repository logs one, and the clients here log none.)
AddToFile(p, e) ==
  PadTo(p, e.len)
    \o Write(SubSeq(Cells(e), 1, HdrLen))
    \o (IF e.len = HdrLen THEN << >>
        ELSE IF e.val \in NullValues THEN Seek(NextLogEntryOffset(p, e.len) + e.len)
        ELSE Write(SubSeq(Cells(e), HdrLen + 1, e.len)))

\* jr_LogPadToBlockBoundary passes jr_INT_MAX for the length.
PadToBlockBoundary(p) == PadTo(p, Max64)
Boundary(p) == NextLogEntryOffset(p, Max64)

\* jr_LogSetFileSyncBit and jr_LogSetStartTime read the header, rewrite it in
\* place and return to where the log was.
Header == ReadEntry(View, 0)

SetFileSyncBit(bit) ==
  GetOffset \o Seek(0) \o Seek(0) \o AddToFile(0, HeaderEntry(Header.time, bit))
            \o Assign("is_file_synced", bit) \o Seek(file.pos)

SetStartTime(t) ==
  GetOffset \o Seek(0) \o Seek(0) \o AddToFile(0, HeaderEntry(t, Header.val))
            \o Assign("start_time", t) \o Seek(file.pos)

\* Mutant: the data is flushed but not synced.
SyncEntryNoFsync(stack) ==
  IF stack = << >> THEN Flush
  ELSE Assign("stack", [stack EXCEPT ![Len(stack)].requires_sync = TRUE])

\* jr_LogAddEntry, with the transaction stack it finds.  What requires a sync
\* is synced with the outermost transaction.
SyncEntry(stack) ==
  IF stack = << >> THEN Flush \o Fsync
  ELSE Assign("stack", [stack EXCEPT ![Len(stack)].requires_sync = TRUE])

\* Mutant: the sync bit is not cleared.
AddEntryStaysSynced(e, requires_sync, stack) ==
  AddToFile(file.pos, e) \o (IF requires_sync THEN SyncEntry(stack) ELSE << >>)

AddEntry(e, requires_sync, stack) ==
  (IF log.is_file_synced = "synced" THEN SetFileSyncBit("unsynced") ELSE << >>)
  \o AddToFile(file.pos, e)
  \o (IF requires_sync THEN SyncEntry(stack) ELSE << >>)

\* Mutant: the offset is taken after the entry was added.
TransactionBeginLate ==
  GetOffset \o AddEntry(BeginEntry, FALSE, log.stack)
            \o Assign("stack", Append(log.stack, [begin_offset |-> file.pos + HdrLen, requires_sync |-> FALSE]))

TransactionBegin ==
  GetOffset \o AddEntry(BeginEntry, FALSE, log.stack)
            \o Assign("stack", Append(log.stack, [begin_offset |-> file.pos, requires_sync |-> FALSE]))

TransactionCommit ==
  Assign("stack", Front(log.stack))
  \o AddEntry(CommitEntry, Last(log.stack).requires_sync, Front(log.stack))

\* Mutant: a commit that cannot be logged leaves the transaction in the file.
CommitFailedKeeps == << >>

CommitFailed == Truncate(Last(log.stack).begin_offset)

TransactionAbort ==
  Assign("stack", Front(log.stack)) \o Truncate(Last(log.stack).begin_offset)

LogSync == SetFileSyncBit("synced") \o Flush
LogSyncAllEntries == Flush
LogSize == SeekEnd \o GetOffset

SetTruncateOffset ==
  PadToBlockBoundary(file.pos) \o Assign("truncate_offset", Boundary(file.pos))

GetResetOffset(t) ==
  PadToBlockBoundary(file.pos) \o AddToFile(Boundary(file.pos), HeaderEntry(t, "unsynced"))

\* The copy of jr_LogDeleteRange: block by block, a seek for every read and one
\* for every write.
CopyDown(f, from, to) ==
  LET copy[i \in 0..Len(f)] ==
        IF from + i >= Len(f) THEN << >>
        ELSE LET n == IF Len(f) - (from + i) < BlockSize THEN Len(f) - (from + i) ELSE BlockSize
             IN Seek(from + i) \o Seek(to + i) \o Write(SubSeq(f, from + i + 1, from + i + n))
                \o (IF i + n <= Len(f) THEN copy[i + n] ELSE << >>)
  IN copy[0]

\* jr_LogDeleteRange on the image f: [ok, prog].  The relative block offsets of
\* both ends must agree or be made to agree by padding the start.  num_bytes is
\* unsigned: when the end of the range lies beyond the end of the file, it wraps
\* around and the first read fails.
DeleteRange(f, start, end) ==
  LET eof      == Len(f)
      aligned  == start % BlockSize = end % BlockSize
      stop     == IF ~aligned /\ end >= eof THEN eof ELSE end
      pads     == ~aligned /\ end < eof /\ start % BlockSize # 0
      padProg  == IF pads THEN Seek(start) \o PadToBlockBoundary(start) ELSE << >>
      from     == IF pads THEN Boundary(start) ELSE start
  IN CASE end < start -> [ok |-> FALSE, prog |-> << >>]
       [] end = start -> [ok |-> TRUE, prog |-> << >>]
       [] end > start /\ ~aligned /\ end < eof /\ end % BlockSize # 0 ->
            [ok |-> FALSE, prog |-> SeekEnd]
       [] OTHER ->
            IF stop > eof THEN [ok |-> FALSE, prog |-> SeekEnd \o Seek(stop)]
            ELSE [ok |-> TRUE,
                  prog |-> padProg \o SeekEnd \o CopyDown(f, stop, from) \o Truncate(from + eof - stop)]

----------------------------------------------------------------------------
(* jr_LogExecuteEntries.                                                   *)

\* Mutant: executions do not run on to the end of a transaction.
StyleStopsInside(by_time, truncate, to_end, next_entry, start, stop) ==
  [by_time |-> by_time, truncate |-> truncate, to_end |-> FALSE,
   next_entry |-> next_entry, start |-> start, stop |-> stop]

\* The execution styles of the jr_LogExecute... macros of log.h; with by_time
\* the range start..stop is one of times.
Style(by_time, truncate, to_end, next_entry, start, stop) ==
  [by_time |-> by_time, truncate |-> truncate, to_end |-> to_end,
   next_entry |-> next_entry, start |-> start, stop |-> stop]

\* One turn of the loop of jr_LogExecuteEntries on the entry read at x.curr;
\* entry_fn accepts every entry.
ExecuteStep(style, truncate_offset, x, e) ==
  LET stop_offset == IF style.by_time \/ style.next_entry THEN Max64 ELSE style.stop
      runs_on     == style.to_end /\ x.in_transaction # 0
      depth       == CASE e.type = "begin"  -> x.in_transaction + 1
                       [] e.type = "commit" -> x.in_transaction - 1
                       [] OTHER             -> x.in_transaction
  IN CASE x.end # "no" -> x
       [] ~(x.curr < stop_offset \/ runs_on) -> [x EXCEPT !.end = "stop"]
       [] style.truncate /\ x.curr >= truncate_offset -> [x EXCEPT !.end = "limit"]
       [] style.next_entry /\ x.calls # << >> /\ ~runs_on -> [x EXCEPT !.end = "stop"]
       [] e.status = "eof" -> [x EXCEPT !.end = "eof"]
       [] e.status \in {"short", "magic"} -> [x EXCEPT !.end = "bad"]
       [] style.by_time /\ e.time # 0 /\ e.time < style.start -> [x EXCEPT !.curr = e.next]
       [] style.by_time /\ style.stop # 0 /\ e.time >= style.stop /\ ~runs_on ->
            [x EXCEPT !.curr = e.next, !.end = "stop"]
       [] e.type = "header" -> [x EXCEPT !.curr = e.next]
       [] OTHER -> [x EXCEPT !.curr = e.next,
                             !.in_transaction = depth,
                             !.calls = Append(@, IF e.type = "user" THEN e.val ELSE e.type),
                             !.last_valid = IF depth = 0 THEN e.next ELSE @]

\* The run of the loop on image f: the calls of entry_fn, how it ended, and
\* where.
Execute(f, truncate_offset, style) ==
  LET from == IF style.by_time THEN 0 ELSE style.start
      step(x, e) == ExecuteStep(style, truncate_offset, x, e)
  IN FoldLeft(step,
              [calls |-> << >>, in_transaction |-> 0, curr |-> from, last_valid |-> from, end |-> "no"],
              ReadAll(f, from))

\* The program of jr_LogExecuteEntries whose loop has run as x on image f: a cut transaction
\* is removed when the style asks for it, anything else restores the offset.
ExecuteEntries(f, style, x) ==
  LET del == DeleteRange(f, x.last_valid, log.truncate_offset)
      cut == style.truncate /\ x.in_transaction # 0 /\ x.end # "bad"
  IN [ok   |-> x.end # "bad" /\ (cut => del.ok),
      done |-> x.end \in {"eof", "limit"} \/ cut,
      prog |-> GetOffset \o Seek(IF style.by_time THEN 0 ELSE style.start) \o GetOffset
               \o (IF cut THEN del.prog \o (IF del.ok THEN << >> ELSE Seek(file.pos))
                          ELSE Seek(file.pos))]

\* The same loop without entry_fn calls: what the image holds, and the number
\* of open transactions after every item.
Contents(f) ==
  LET add(items, e) ==
        LET depth == IF items = << >> THEN 0 ELSE Last(items).depth
        IN Append(items, [val    |-> IF e.type = "user" THEN e.val ELSE e.type,
                          depth  |-> CASE e.type = "begin"  -> depth + 1
                                       [] e.type = "commit" -> depth - 1
                                       [] OTHER             -> depth,
                          offset |-> e.offset])
  IN FoldLeft(add, << >>, SelectSeq(ReadAll(f, 0), LAMBDA e : e.status = "ok" /\ e.type # "header"))

\* How many items of the log lie before offset.
ItemsBefore(f, offset) == Len(SelectSeq(Contents(f), LAMBDA c : c.offset < offset))
----------------------------------------------------------------------------
(* The process.  Programs and images are bound by \E x \in {...}, so that  *)
(* each is evaluated once in a step.                                       *)

ClosedLog == [start_time |-> 0, is_file_synced |-> "unsynced", truncate_offset |-> 0, stack |-> << >>]

\* The file ends inside the padding of its last pad entry, so that the end of
\* the file is not where the reader expects the next entry.
EndsInPad(f) ==
  LET all == ReadAll(f, 0)
      end == IF Len(all) = 1 THEN 0 ELSE all[Len(all) - 1].next
      q   == HeaderOffset(end)
  IN /\ Last(all).status = "eof"
     /\ q + HdrLen <= Len(f) /\ IsHeaderAt(f, q) /\ f[q + 1].type = "pad"
     /\ q + f[q + 1].time > Len(f)

\* The images a crash can leave of s: the process loses its buffer, of which
\* APR may have written a part; the machine loses any block that was not
\* synced.
Torn(cells) == IF "torn" \in client.failures THEN {SubSeq(cells, 1, n) : n \in 0..Len(cells)} ELSE {<< >>, cells}

ProcessImages(f) == {Overlay(f.kernel, f.pos - Len(f.buf), b) : b \in Torn(f.buf)}

BlockOf(i) == (i - 1) \div BlockSize

PowerImages(f) ==
  LET blocks == {BlockOf(i) : i \in 1..Len(f.kernel)}
      mix(B) == LET last == {0} \cup {i \in 1..Len(f.kernel) : BlockOf(i) \in B} \cup (1..Len(f.stable))
                    len  == CHOOSE n \in last : \A m \in last : m <= n
                IN [i \in 1..len |-> IF BlockOf(i) \in B
                                     THEN IF i <= Len(f.kernel) THEN f.kernel[i] ELSE Zero
                                     ELSE IF i <= Len(f.stable) THEN f.stable[i] ELSE Zero]
  IN {mix(B) : B \in SUBSET blocks}

Dead(image, stable) == [kernel |-> image, stable |-> stable, buf |-> << >>, pos |-> 0]

\* The process dies, or the machine stops, when prog was executed up to some
\* command, the first ones at least.
Crash(prog, first, kept) ==
  /\ \E f \in {Cut(prog, i).file : i \in first..Len(prog)} :
       \/ "process" \in client.failures /\ \E k \in ProcessImages(f) : file' = Dead(k, f.stable)
       \/ "power" \in client.failures /\ \E k \in PowerImages(f) : file' = Dead(k, k)
  /\ log' = ClosedLog
  /\ phase' = "closed"
  /\ reset' = NoOffset
  /\ promised' = kept
  /\ asked' = << >>
  /\ UNCHANGED faults

\* prog runs to its end; kept is what the log promises to keep then.
Complete(prog, next_phase, kept, ask) ==
  /\ \E s \in {Run(prog)} : \E image \in {ViewOf(s.file)} :
       /\ file' = s.file
       /\ log' = s.log
       /\ promised' = IF kept = Everything THEN Len(Contents(image)) ELSE kept
  /\ phase' = next_phase
  /\ asked' = ask
  /\ UNCHANGED <<reset, faults>>

\* A command of prog fails, and with it the operation.  handler is what the
\* function does then.
Fail(prog, handler, next_phase, ask) ==
  /\ "io" \in client.failures
  /\ faults < client.max_faults
  /\ \E i \in DOMAIN prog :
       /\ CanFail(prog[i])
       /\ \E n \in 0..(IF prog[i].op = "write" THEN Len(prog[i].arg) - 1 ELSE 0) :
            \E s \in {FoldLeft(Do, FailAt(prog, i, n), handler)} : file' = s.file /\ log' = s.log
  /\ faults' = faults + 1
  /\ phase' = next_phase
  /\ asked' = ask
  /\ UNCHANGED <<reset, promised>>

\* The innermost open transaction holds an entry that requires a sync.
AskedWith(ask, requires_sync) ==
  IF ask = << >> THEN ask ELSE [ask EXCEPT ![Len(ask)] = @ \/ requires_sync]

\* The bound on the file.
Fits(prog) == Len(ViewOf(Run(prog).file)) <= client.max_len

Attempt(program, kept, ask) ==
  \E prog \in {program} :
    /\ Fits(prog)
    /\ \/ Complete(prog, phase, kept, ask)
       \/ Crash(prog, 0, promised)
       \/ Fail(prog, << >>, "failed", asked)

----------------------------------------------------------------------------
(* Actions: the calls of the client.                                       *)

\* jr_LogOpen.  "w" empties the file first; a new file gets a header entry; an
\* existing one must have a readable header, and appending continues at its end.
OpenNew(t) ==
  GetOffset \o SeekEnd \o GetOffset \o AddToFile(0, HeaderEntry(t, "synced"))
  \o Assign("start_time", t) \o Assign("is_file_synced", "synced")

OpenOld ==
  SeekEnd \o GetOffset \o Seek(0) \o SeekEnd
  \o Assign("start_time", Header.time) \o Assign("is_file_synced", Header.val)
  \o Assign("truncate_offset", Len(file.kernel))

LogOpenNew(how, t) ==
  /\ phase = "closed"
  /\ file.kernel # << >> => how = "w" /\ "wipe" \in client.ops
  /\ \E prog \in {(IF how = "w" THEN Truncate(0) ELSE << >>) \o OpenNew(t)} :
       Complete(prog, "running", 0, << >>) \/ Crash(prog, IF how = "w" THEN 1 ELSE 0, 0)

LogOpenOld ==
  /\ phase = "closed"
  /\ file.kernel # << >>
  /\ Header.status = "ok" /\ Header.type = "header"
  /\ Complete(OpenOld, "opened", promised, << >>)

\* jr_LogUndo flushes; what was not committed stays in the file.
LogUndo ==
  /\ phase # "closed"
  /\ file' = [Flushed(file) EXCEPT !.pos = 0]
  /\ log' = ClosedLog
  /\ phase' = "closed"
  /\ reset' = NoOffset
  /\ asked' = << >>
  /\ UNCHANGED <<promised, faults>>

Running == phase = "running"

LogAddEntry(v, requires_sync) ==
  /\ Running
  /\ Attempt(AddEntry(Entry("user", LenOf[v], TimeOf[v], v), requires_sync, log.stack),
             IF requires_sync /\ log.stack = << >> THEN Everything ELSE promised,
             AskedWith(asked, requires_sync))

LogTransactionBegin ==
  /\ Running
  /\ Len(log.stack) < client.max_depth
  /\ Attempt(TransactionBegin, promised, Append(asked, FALSE))

\* A commit that cannot be logged removes the transaction from the file; when
\* that fails too, the transaction stays without its commit.
LogTransactionCommit ==
  /\ Running
  /\ log.stack # << >>
  /\ \E prog \in {TransactionCommit} :
       /\ Fits(prog)
       /\ \/ Complete(prog, "running",
                      IF asked = <<TRUE>> THEN Everything ELSE promised,
                      AskedWith(Front(asked), Last(asked)))
          \/ Crash(prog, 0, promised)
          \/ Fail(prog, CommitFailed, "running", Front(asked))
          \/ /\ faults + 1 < client.max_faults
             /\ Fail(prog, << >>, "failed", Front(asked))

\* After a failed operation the client aborts, or gives up the log.
LogTransactionAbort ==
  /\ phase \in {"running", "failed"}
  /\ log.stack # << >>
  /\ \/ Complete(TransactionAbort, "running", promised, Front(asked))
     \/ Crash(TransactionAbort, 0, promised)
     \/ Fail(TransactionAbort, << >>, "failed", Front(asked))

LogSyncBit ==
  /\ Running
  /\ "sync" \in client.ops
  /\ Attempt(LogSync, promised, asked)

LogFlushIO ==
  /\ Running
  /\ file.buf # << >>
  /\ Attempt(LogSyncAllEntries, promised, asked)

\* A client that knows of the padding does not move the offset to the end of a
\* file that ends inside it.
MayGoToEnd == EndsInPad(View) => "append_in_pad" \in client.ops

\* jr_LogSize moves to the end of the file and stays there.
LogSizeCall ==
  /\ Running
  /\ "size" \in client.ops
  /\ MayGoToEnd
  /\ Attempt(LogSize, promised, asked)

LogSetTruncateOffset ==
  /\ Running
  /\ "truncate_offset" \in client.ops
  /\ Attempt(SetTruncateOffset, promised, asked)

\* jr_LogExecuteEntries.  A client that has just opened the log recovers it
\* with a truncating style and goes on when the whole log was executed.
\* What it passes as start is StartOffsets; executions by time, and by offset
\* with a stop offset that does not wait for the end of a transaction, are
\* operations of their own.
TruncatingStyles ==
  {Style(FALSE, TRUE, FALSE, FALSE, start, Max64) : start \in StartOffsets}
  \cup {Style(FALSE, TRUE, TRUE, TRUE, start, start) : start \in StartOffsets}
  \cup {Style(FALSE, TRUE, TRUE, FALSE, start, stop) : start \in StartOffsets, stop \in StopOffsets}
  \cup (IF "stop_offset" \in client.ops
        THEN {Style(FALSE, TRUE, FALSE, FALSE, start, stop) : start \in StartOffsets, stop \in StopOffsets}
        ELSE {})
  \cup (IF "by_time" \in client.ops
        THEN {Style(TRUE, TRUE, TRUE, FALSE, t, u) : t \in Times, u \in Times} ELSE {})

PhaseAfterExecute(x) ==
  CASE ~x.ok -> "refused"
    [] x.ok /\ ~x.done -> "opened"
    [] OTHER -> IF EndsInPad(ViewOf(Run(x.prog).file)) /\ "append_in_pad" \notin client.ops
                THEN "refused" ELSE "running"

LogExecuteEntries(style) ==
  /\ phase = "opened"
  /\ \E image \in {View} : \E loop \in {Execute(image, log.truncate_offset, style)} :
     \E x \in {ExecuteEntries(image, style, loop)} :
        \/ Complete(x.prog, PhaseAfterExecute(x), promised, << >>)
        \/ Crash(x.prog, 0, promised)
        \/ Fail(x.prog, Seek(file.pos), "refused", << >>)

\* A client without an open transaction asks for a reset offset, and later
\* drops what is before it.
LogGetResetOffset(t) ==
  /\ Running
  /\ "reset" \in client.ops
  /\ log.stack = << >> /\ reset = NoOffset
  /\ \E prog \in {GetResetOffset(t)} : \E s \in {Run(prog)} :
       /\ Fits(prog)
       /\ file' = s.file /\ log' = s.log
  /\ reset' = Boundary(file.pos)
  /\ UNCHANGED <<phase, promised, asked, faults>>

LogResetFromOffset(t) ==
  /\ Running
  /\ "reset" \in client.ops
  /\ log.stack = << >> /\ reset # NoOffset
  /\ MayGoToEnd
  /\ \E set \in {SetStartTime(t)} : \E image \in {ViewOf(Run(set).file)} :
     \E del \in {DeleteRange(image, 0, reset)} : \E s \in {Run(set \o del.prog)} :
       /\ del.ok
       /\ file' = s.file /\ log' = s.log
  /\ \E n \in {ItemsBefore(View, reset)} : promised' = IF promised < n THEN 0 ELSE promised - n
  /\ reset' = NoOffset
  /\ UNCHANGED <<phase, asked, faults>>

Init ==
  /\ file = [kernel |-> << >>, stable |-> << >>, buf |-> << >>, pos |-> 0]
  /\ log = ClosedLog
  /\ phase = "closed"
  /\ reset = NoOffset
  /\ promised = 0
  /\ asked = << >>
  /\ faults = 0
  /\ client \in Clients

Operation ==
  \/ \E how \in {"w", "a"}, t \in StartTimes : LogOpenNew(how, t)
  \/ LogOpenOld
  \/ LogUndo
  \/ \E v \in client.values, requires_sync \in BOOLEAN : LogAddEntry(v, requires_sync)
  \/ LogTransactionBegin
  \/ LogTransactionCommit
  \/ LogTransactionAbort
  \/ LogSyncBit
  \/ LogFlushIO
  \/ LogSizeCall
  \/ LogSetTruncateOffset
  \/ \E style \in TruncatingStyles : LogExecuteEntries(style)
  \/ \E t \in StartTimes : LogGetResetOffset(t) \/ LogResetFromOffset(t)

Next == Operation /\ UNCHANGED client

Spec == Init /\ [][Next]_vars

----------------------------------------------------------------------------
(* Properties.                                                             *)

\* What blocks are for (jr_AvoidLogBlockBoundary): an entry that fits into a
\* block is never split by a block boundary.
NoEntryCrossesBlock ==
  LET all == ReadAll(View, 0)
  IN \A i \in DOMAIN all : all[i].status = "ok" /\ all[i].len <= BlockSize
                             => (all[i].offset % BlockSize) + all[i].len <= BlockSize

\* The bookkeeping of an open log: transactions nest in the file as they do on
\* the stack, the offset a transaction would be cut at is not beyond the end of
\* the log, and a log that is in use starts with its header, which calls the log
\* synced only when the next entry will clear that bit (a command that failed may
\* have torn the bit). Its entries keep to the blocks.
LogWellFormed ==
  /\ NoEntryCrossesBlock
  /\ file.pos \in Nat /\ Len(file.buf) <= file.pos
  /\ promised \in Nat /\ faults \in 0..client.max_faults /\ client \in Clients /\ Len(asked) = Len(log.stack)
  /\ phase \in {"closed", "opened", "running", "failed", "refused"}
  /\ phase = "closed" => log = ClosedLog /\ file.buf = << >>
  /\ \A i \in DOMAIN log.stack : log.stack[i].begin_offset >= LogHdrLen
  /\ \A i, j \in DOMAIN log.stack : i < j => log.stack[i].begin_offset < log.stack[j].begin_offset
  /\ phase = "running" =>
       /\ Header.status = "ok" /\ Header.type = "header"
       /\ Header.val = "synced" /\ faults = 0 => log.is_file_synced = "synced"
       /\ \A i \in DOMAIN log.stack : log.stack[i].begin_offset < file.pos

\* jr_LogExecuteNextTransactionByOffset called again and again, each time from
\* the offset the call before returned, makes the same calls of entry_fn as one
\* execution of the whole log, and every call stops between transactions.
ExecuteInSteps ==
  LET image == View
      whole == Execute(image, 0, Style(FALSE, FALSE, FALSE, FALSE, LogHdrLen, Max64))
      steps[p \in 0..Len(image)] ==
        LET x == Execute(image, 0, Style(FALSE, FALSE, TRUE, TRUE, p, p))
        IN CASE x.in_transaction # 0 -> <<"cut">>
             [] x.in_transaction = 0 /\ (x.calls = << >> \/ x.curr >= Len(image)) -> x.calls
             [] OTHER -> x.calls \o steps[x.curr]
  IN phase = "running" /\ log.stack = << >> /\ Len(image) > LogHdrLen =>
       /\ whole.in_transaction = 0
       /\ steps[LogHdrLen] = whole.calls

----------------------------------------------------------------------------
(* A statement of a comment of logfile.c that does not hold.               *)

\* "create a pad entry which contains the number of bytes to the next entry in
\* the entry_time field": no entry of the client is inside the padding, where
\* the reader does not see it.
NothingInsidePadding ==
  \A q \in 0..Len(View) - HdrLen :
    IsHeaderAt(View, q) /\ View[q + 1].type = "pad" =>
      \A i \in q + HdrLen + 1..q + View[q + 1].time : i <= Len(View) => View[i].type \in {"zero", "pad"}
=============================================================================
