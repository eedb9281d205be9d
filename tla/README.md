# Models and proofs for libjr

libjr is a C library of containers, files, strings, formats and system-call
wrappers. This directory holds TLA+ models of the parts of it that keep state
or follow rules of their own, the TLC configurations that check them, and
theorems about them that TLAPS proves.

Paths like `io/logfile.c` are below `src/libjr`, and `jr/log.h` is below
`src/include`.

1. The system
2. The modules, and how they correspond to the code
3. The runs: what is checked, bounds, fairness
4. The proofs
5. Where the code differs from what it says
6. What is not modelled
7. What comes next

`PROJECT.json` lists every component with its files and status, every run, the
code each definition stands for, the hazards of the code with the line where
each bites and the properties that would catch it, and the theorems.

## 1. The system

The library has no main program. Its parts call one another downwards: what
works on files and connections uses the wrappers of system calls, these and
everything else use the containers, and all of it allocates through `jr_malloc`.
State is shared in three ways: on disk between processes (the log, the database
of paths, file locks), through the signals of one process (SIGALRM for functions
and time limits, SIGIO for descriptors and files in memory), and between threads
(the table of pointers that diagnoses memory). Everything else belongs to one
client at a time; there the hard part is a long sequence of legal calls, a limit
of a container, or a call that fails half way.

### 1.1 What lies on disk

| component | state | operations | what is hard | correct when |
|---|---|---|---|---|
| transaction log (`io/logfile.c`, `loglib.c`) | entries in blocks, a header with a sync bit, the stack of open transactions, where recovery may cut | open, add, begin, commit, abort, sync, execute in many styles, drop the front | the process or the machine stops between any two file commands, writes are torn, commands fail and so do those that undo them | whole transactions after recovery, durable stays durable, nesting is kept, no entry crosses a block, execution in pieces is execution as a whole |
| safe copy, move, temporary files (`syscalls/safecopy.c`, `move.c`, `tmpfile.c`) | the file, its copy under a temporary name, buffers of stdio | copy over a file, move across devices | failure and death between any two calls | the data are under one of the names |
| database of paths (`io/pathdb.c`) | directories by digit, the largest number | path for a number | two processes add a level by renames; death in between | what was put at the path of a number is found there |
| tar archives (`io/jr_tar.c`) | headers, data, padding | write in segments, read, skip, copy | prefix and name fill their fields, archives are cut | what is read is what was written |

### 1.2 Signals, time and other processes

| component | state | operations | what is hard | correct when |
|---|---|---|---|---|
| functions called by SIGALRM (`syscalls/async_fn.c`) | functions by call time, the one alarm, the old action | add, remove, handler | they share the alarm, the signal is late, the first takes over the process's alarm | nobody is late, each is called, repeating ones again and again |
| calls with a time limit (`syscalls/fd_lock.c`, `timelock.c`, `timedio.c`) | alarm and action, what a call saved of them, locks | lock, unlock, read a line | the signal between any two statements, the jump out, other processes | locks exclude, calls return, the call's alarm stays inside it, the client's survives |
| asynchronous I/O (`syscalls/async_io.c`) | functions by descriptor, old action of SIGIO | add, remove, handler | functions change the table the handler walks | each ready descriptor is reported once |
| poll, epoll (`syscalls/jr_poll.c`, `jr_epoll.c`) | list and table of events, poll set, results | add, delete, wait | additions that are refused, growth, deletion while results are handed out | the set is what the client added; each event is reported once |
| filters (`syscalls/invoke.c`, `invkfilt.c`) | two pipes and a child | start, feed, drain | both pipes full | neither waits for the other |
| files in memory (`io/memfile.c`) | a pipe, a buffer filled by SIGIO, signal masks | write, open and close a string | strings of several files, in any order | a string stands while it is open, no text is stranded |
| mail (`io/maillib.c`, `mailtime.c`) | the talk with a server | send, validate | greetings, refusals, late answers, the time limit | what the caller is told is what the server did |

### 1.3 Between a client and its descriptors

| component | state | operations | correct when |
|---|---|---|---|
| output buffers (`syscalls/jr_aprbuf.c`, in `jr_file.c` and `jr_socket.c`) | text not yet handed over | print, flush in parts, write, close | text arrives once and in its place |
| buffered input (`io/bufio.c`) | what is left of the last raw read, what a call under way has taken | line, string, block | they are the input, however it is cut |
| input buffer (`struct/inputbuf.c`) | a stack of inputs with characters put back | read, put back, open, close | every character once, with its line and column |
| line buffer (`struct/linebuf.c`), paragraphs (`io/paragrph.c`) | a ring of lines; a line put back | write, go back, print; read a paragraph | lines are printed as written; none is lost or read twice |
| sockets (`syscalls/jr_socket.c`) | a pool, a descriptor, addresses | open, bind, connect, accept, close | nothing refers to a pool that is gone |
| diagnosis of memory (`jr_malloc/`) | a table of pointers, an array for its own allocations, markers | allocate, free, reallocate, by several threads | leaks and overruns are found, and nothing else |

### 1.4 In memory

Containers: hash table (`htable/`), AVL tree (`avl_tree/`), array list
(`alist/`), singly and doubly linked lists (`llist/`, `dlist/`) whose links move
with the arrays they lie in, ring (`struct/circbuf.c`), heap and pointer map
(`struct/jr_heap.c`, `ptrmap.c`), sets of integers and of bits
(`struct/intset.c`, `bitset.c`). They are correct when they are the map, the
sequence or the set that their client built; hard are limits, growth, and
elements that move while something points to them.

Values: integers of two words (`struct/jr_ulong.c`, `jr_long.c`) and bit fields
(`net_type.c`), exact up to their width. Exceptions by name (`misc/exceptn.c`):
a raise finds the innermost function that catches.

Texts: patterns, words, codes and comparison (`string/`, `syscalls/globvec.c`,
`misc/cmp*.c`), formats that are written and read back (permissions, paths,
escapes, records by columns, MIME types, times), the symbol table of a C parser
(`symtab/`), and the reader of ESIS that builds the tree of an SGML document
(`misc/esis_*`, `struct/att_*.c`).

### 1.5 The rest

Threads and mutexes, stand-ins for APR, statistics and duplicates of memory,
errors and traces, prefixes, vendored code: see section 6.

## 2. The modules

| module | models | abstract counterpart, or what it is checked against |
|---|---|---|
| `LogSpec` | what the log promises: items, nested transactions, a durable prefix | - |
| `LogFormat` | layout, padding and reader of `logfile.c` | - |
| `TxLog`, `MCTxLog` | `logfile.c`, `loglib.c`, what they use of `jr_file.c` | `LogSpec` |
| `AsyncFn` | `async_fn.c` | call times |
| `TimedCall` | `fd_lock.c`, `timelock.c`, `timedio.c` | - |
| `KeyTable`, `HTable` | a map from keys to fixed indices; `htable/` | `KeyTable` |
| `OrderedTable`, `AVLTree` | a sequence in order; `avl_tree/` | `OrderedTable` |
| `RingBuffer` | `circbuf.c` | the sequence of what was put in |
| `Arrays` | `alist/` without prefixes, `jr_heap.c`; `alist/` with prefixes, `llist/`, `dlist/`, `misc/pfx_lib.c` | a sequence, a bag; the order of the nodes |
| `NumberSets` | `intset.c`, `bitset.c`; `ptrmap.c` | sets; open descriptors by category |
| `Exceptions` | `exceptn.c` | the functions being executed |
| `WideInts` | `jr_ulong.c`, `jr_long.c`, `long.h`, `net_type.c` | numbers |
| `Text` | `globvec.c`, `isglob*`, words, fields, quotes, URL and MIME codes, replacement, comparison and search | what matches, the words, the bytes |
| `Formats` | `jr_perms.c`, `pathtail.c`, `envtilde.c`, escapes, `scanf.c`, `jr_mime.c`, `jr_timestr.c` | what is read back |
| `SymTab` | `st_init.c`, `st_list.c`, `st_type.c`, `st_prnt.c`, `st_expr.c` | declarations in scope |
| `Esis` | `esis_io.cpp`, `esis_grv.cpp`, `esis_typ.c`, `att_mngr.c`, `att_list.c` | the document |
| `Lines`, `InputBuffer`, `BufferedIo` | `linebuf.c`, `paragrph.c`; `inputbuf.c`; `bufio.c` | the text |
| `Waiting` | `jr_poll.c`, `jr_epoll.c`; `async_io.c` | what the client added, what is ready |
| `FileCopies`, `Archives` | `safecopy.c`, `move.c`, `copyfp.c`; `jr_tar.c`, `pathdb.c` | the data |
| `Filter`, `Mail` | `invoke.c`, `invkfilt.c`; `maillib.c`, `mailtime.c` | who waits; what the server did |
| `AprOutput`, `Socket` | `jr_aprbuf.c` with `jr_file.c` and `jr_socket.c`; `jr_socket.c` | text and place; owners of pools |
| `MemFile`, `MemDiag` | `memfile.c`; `jr_malloc.c`, `memdiag.c` | text of a string; who holds a block |
| `MCStreams`, `MCContainers`, `MCSignals` | instances: `MCSignals` of `AsyncFn` and `TimedCall`, the others of all but those and `TxLog` | - |
| `*_proofs` | theorems: `Log_proofs` about `LogSpec` and `LogFormat`, `AsyncFn_proofs`, `TimedCall_proofs`, `Calls_proofs` about `Filter`, `FileCopies`, `Mail` and `Archives` (tar), `Descriptors_proofs` about `Waiting`, `AprOutput` and `Socket`, `Streams_proofs` about `BufferedIo`, `MemFile` and `InputBuffer`, `Memory_proofs` about `RingBuffer`, `Exceptions` and `MemDiag`, `HTable_proofs` | - |

An action is a call of the library, with everything it calls, unless something
can come between its statements: a signal, another process or thread, a failure,
or the death of the process. Then each statement that matters is an action, and
a variable holds the place (`TimedCall`, `MemDiag`, `Archives` for `pathdb.c`,
`Filter`, `Mail`, `MemFile`), or the call is a program of commands (`TxLog`, `FileCopies`).
Histories, what a client was told or has put in, are marked in the declaration of
each module; no action of the code looks at them. A module with two or three
components of the same kind (`Arrays`, `NumberSets`, `Lines`, `Waiting`, `Archives`)
has a section for each, with constants, variables and a specification of its own;
they share no state.

### The log

A file is a sequence of cells: an entry has `HdrLen` header cells and some body
cells, and a cell knows which one of its entry it is. That is what is needed to
see torn entries, entries written over others, and padding.

Every operation is translated into the *program* of its file commands (`Write`,
`Seek`, `Truncate`, `Flush`, `Fsync`, ...) and of its assignments to
`jr_LogType`, in the order of the code. An action of `TxLog` then runs the
program to its end (`Complete`), or stops it after any of its commands (`Crash`),
with the death of the process (what was buffered is lost, or written up to any
cell) or of the machine (any set of blocks that were not synced is lost too), or
lets one of its commands fail (`Fail`), a write after any number of cells, and
continues as the function does. So one definition of an operation serves all its
failures, and the order of its commands matters.

| code | definition |
|---|---|
| `jr_LogEntryAddToFilePtr`, `jr_AvoidLogBlockBoundary` | `AddToFile` (a value in `NullValues` is a null pointer, which is a seek), `PadTo`, `PadCells`, `NextLogEntryOffset` |
| `jr_LogEntryInitFromFilePtr` | `ReadEntry` |
| `jr_LogAddEntry` | `AddEntry` |
| `jr_LogTransactionBegin`, `...Commit`, `...Abort` | `TransactionBegin`, `TransactionCommit` with `CommitFailed`, `TransactionAbort` |
| `jr_LogSetFileSyncBit`, `jr_LogSync`, `jr_LogSyncAllEntries` | `SetFileSyncBit`, `LogSync`, `LogSyncAllEntries` |
| `jr_LogExecuteEntries` and its macros | `Style`, `ExecuteStep`, `Execute`, `ExecuteEntries` |
| `jr_LogDeleteRange`, with its unsigned subtraction | `DeleteRange`, `CopyDown` |
| `jr_LogOpen`, `jr_LogUndo`, `jr_LogSize` | `LogOpenNew`, `LogOpenOld`, `LogUndo`, `LogSize` |
| `jr_LogSetTruncateOffset`, `jr_LogGetResetOffset`, `jr_LogResetFromOffset` | `SetTruncateOffset`, `GetResetOffset`, `LogResetFromOffset` |

`client`, chosen once, says who uses the log and on what machine: the operations,
the values, the failures and the bounds. It recovers a log by a truncating
execution after it opened it, aborts or gives up after a failed operation, gives no
entry a null pointer (its data would be what the file had there), and
(except where section 5 says otherwise) does not append to a file that ends inside
padding. Resets are not cut by crashes: the code moves the rest of the log down
block by block, and nothing says it survives one.

The refinement mapping: `items` is what `ReadAll` finds in the file as the
process sees it, with the number of open transactions after each item; `marks` is,
for each offset on the stack, the number of items before it; `durable` is the
history variable `promised`, the items present when a sync that was asked for
succeeded. In `MCTxLog` the first two are auxiliary variables computed from the
file in each step.

### Signals and time

`AsyncFn`: times are relative (`left` is `call_time - time(0)`). Add, remove and
the handler run with SIGALRM blocked and are one step each. The handler's order is
kept: it takes the next function *before* it inserts the one it has called, and
sets the alarm for the one it took (`NextAlarm`). `Tick` is a second; a signal may
wait for up to `MaxLate` of them.

`TimedCall`: one action per statement that matters to a signal: save the alarm,
install the handler, set the alarm, `flock` or `fgets`, cancel, restore. `Signal`
is enabled wherever an alarm runs; under `onalarm` it jumps to the clean-up. The
saved alarm is indeterminate after the jump (assigned after `sigsetjmp`, not
volatile), so the model chooses between the values it can have. `flock` may fail for
any reason, with LOCK_NB too; `jr_FileDescTimedFlock` takes every failure for a lock
that is not free, and waits.

`Waiting`, functions called by SIGIO: the program changes the table with SIGIO blocked; the handler asks
`select` (external) and calls functions, which may add and remove in turn. Two
things a function can do make the handler read freed memory; the model ends there.

`MemFile`: the mask of signals is one for the process, each file saves the one it
has found; the writer blocks when the pipe is full. `mf_crossed` is the history of the
files whose string was open when the one that had blocked SIGIO first was closed.

### Failing calls

`FileCopies`, `Mail`, `Filter`, `Socket`, `Waiting`: each call to the system may fail
where it is made, `unlink` included, whose result `safecopy.c` ignores, and the
clean-up behind it is part of the model, with what it
forgets. In `FileCopies` each may also be the last one of the process, and what
stdio holds may be written at any time before. In the
database of paths (`Archives`) two processes meet at
the lock of the file that holds the largest number, whose new value arrives only
when the file is closed, after the lock is given up.

### Data structures

Their functions are operators on a record or on the variables of the structure,
written in the order of the assignments of the code. `AVLTree` writes each function
once for both sides, where the code has two copies; `keyed` chooses between a tree
by key and one by index. In `Arrays` addresses of nodes are numbers, so that the pointer
arithmetic of the transform functions is in the model: the buffer moves between
two bases, and every link to a node that moved must follow.

### Pure functions

`Text`, `Formats`, `WideInts` and the declarations and types of `SymTab` are
functions. There the state is an input, put together piece by piece in all ways,
and the property compares what the code computes, step by step as it does, with a
definition that says it at once: a pattern matches the concatenations of what its
pieces match, quotients are those of numbers, a declaration that is printed is
read again.

Whether a name is a pattern is decided as `jr_GlobPatternOffset` does, with its count
of open brackets, for the directory string as a whole; and a name that begins with "."
is found only by a pattern that begins with "." as it is written. The table of MIME
types finds an extension among the entries of its bucket, and there in whatever case;
the buckets are a constant (`FM_Bucket`), and the hash function the code uses tells
letters of either case apart, so `X` and `x` may be entries of their own.

## 3. The runs

| run | module, cfg | expected | what it shows |
|---|---|---|---|
| `streams` | `MCStreams` | holds | everything of 1.1 to 1.3 that has no run of its own, and the promise of the log |
| `containers` | `MCContainers` | holds | everything of 1.4 |
| `log` | `MCTxLog` | holds | the file implements the promise, for three clients; well-formedness, stepwise execution, sync bit; for a fourth client, synced entries survive a machine that stops |
| `signals` | `MCSignals` | holds | functions called by SIGALRM: nobody late, everybody called; calls with a time limit: exclusion, alarms, return |
| `log_padding`, `log_recovery`, `async_mixed`, `timed_race`, `avl_height`, `mail_greetings`, `apr_mixed`, `ring_full` | | violated | see 5 |

### Suites

The components of `MCStreams` and `MCContainers`, and the two of `MCSignals`, share no state. `subject`,
chosen once, says which of them a behaviour is about; the others stay as they
begin. So the run explores each exactly as if it were alone, and its states are the
sum, not the product. An invariant that joins several (`LinesWhole`, `ArraysHold`,
`ValuesHold`, `FormatsHold`) has one conjunct per component, with a name of its own
in the component's module:

| invariant | conjuncts |
|---|---|
| `LinesWhole` | `LB_PrintsLines`, `PG_ParagraphsWhole` |
| `ArraysHold` | `LookupsAgree`, `AL_IsSequence`, `NA_ListsFollowNodes`, `PM_DescriptorsApart` |
| `ValuesHold` | `ST_SetsHold`, `HP_MinFirst`, `WI_Exact`, `WI_SignedExact`, `WI_FieldsApart` |
| `FormatsHold` | `TX_GlobTrue`, `TX_WordsWhole`, `TX_CodesReturn`, `TX_ComparesTrue`, `FM_ClausesTrue`, `FM_PathsTrue`, `FM_EscapesReturn`, `FM_RecordsRead`, `FM_FirstTypeStays`, `FM_DaysCounted`, `ES_TreeTrue` |

### What the properties say

- *Log.* `DurableIsWhole`, `Bracketed`, `MarksMatch`, `DurablePrefixKept` of the
  promise; `ImplementsPromise` is the refinement; `LogWellFormed` (blocks, padding,
  what the process believes of the file), `ExecuteInSteps` (transaction by
  transaction gives the calls of one execution), `SyncedLosesNothing` (a log that
  calls itself synced has lost nothing), `DurableKept` (what was promised survives).
- *SIGALRM.* `NeverLate`, `EveryFunctionCalled`; `ExclusiveUse`,
  `AlarmStaysInside`, `SuccessKeepsAlarm`, `CallsReturn`.
- *Descriptors.* `PL_SetFollowsClient`: the poll set points to events that are in
  the list, each descriptor once, and successful additions are served.
  `EP_ReportsEachOnce`, `AI_ReadyCalledOnce`.
- *Files.* `FC_NothingLost`; `PD_Found`; `TR_ReadsWritten`; `AB_Arrives`: what the
  client was told it has written is what the system has, then what waits, then what
  printf has still to insert, as long as no direct write, seek, read, truncation or
  reopening has met text in the buffer (`ab_met` is the history of those that have);
  and of what was printed or sent to a socket nothing is ever lost.
- *Input.* `BI_InOrder`, `IB_PositionTrue`, `LB_PrintsLines`, `PG_ParagraphsWhole`,
  `MF_StringStands`.
- *Processes and servers.* `FI_NeverStuck`: while a line fits beside the backlog,
  caller and command never wait for one another. `MA_TruthTold`: sent means the
  server took it, not sent means it did not, except where the time limit or a
  failed close leaves it open.
- *Memory.* `MD_RecordsTrue`; `SK_NothingDangles`.
- *Containers.* `ImplementsKeyTable`, `WellLinked`; `ImplementsOrderedTable`,
  `PositionsKept`, `LookupsAgree`; `RingKept`; `AL_IsSequence`;
  `NA_ListsFollowNodes`; `PM_DescriptorsApart`; `HP_MinFirst`; `ST_SetsHold`;
  `WI_*`; `EX_RaiseFindsFrame`.
- *Texts.* `TX_GlobTrue`, `TX_WordsWhole`, `TX_CodesReturn`, `TX_ComparesTrue`,
  `FM_*`; `SM_TableHolds` (the innermost definition is found, counts are exact,
  equivalent means declares the same, types are ordered, printed declarations are
  read again, trees of expressions share nothing); `ES_TreeTrue`.

### Bounds, and why they are enough

*Log.* Headers of two cells, a log header of four, blocks of six, entries of three
and five cells: an entry ends exactly at a boundary, the rest of a block holds a
header but no entry, and the rest does not hold a header (the three paths of
`jr_AvoidLogBlockBoundary`). Files of 14 to 22 cells span three to four blocks and
hold up to two nested transactions with entries on both sides. Four clients are
one run: `Crashing` (any cut, torn writes, sync bit, emptying), `Faulting` (two
failing commands, so that the abort after a failure can fail too) and `Resetting`
(drops the front, sets the truncate offset). `OnUnsafeMachine` keeps what is on
disk apart from what the kernel has, so it has one value and
no nesting: a nested transaction reaches the disk with the outermost commit, which
that client has. A machine that stops may bring back what was truncated and not
synced, which the promise does not allow: this client is not compared with
`LogSpec` nor asked about the sync bit; `DurableKept` says what it keeps. `LogSpec`: six items, two nested transactions with an entry each.

*AsyncFn.* Two functions and the inherited one, periods of one to three seconds,
signals up to two seconds late (three in `async_mixed`): the functions meet in the
same second, in adjacent ones and pass each other. A call time further in the past
than `MaxLate` counts as `MaxLate`; all the code asks is whether it is past.

*TimedCall.* Two processes show every conflict of two locks, and the proofs are
for any number. One process has alarms of its own; the other shows calls without.

*Streams.* Line buffer: three characters, two lines kept, four written, so that
the ring turns twice; its copy is for two characters, so that the current line is cut. Input: two contexts of one to three characters, three kept and two
put back, eight calls: what one context gave can be put back to the next.
Poll: two descriptors, three additions to a set that begins with room for one, so
that it grows twice and refuses in between. epoll: two descriptors, results of one
and two. SIGIO: three pairs on two descriptors. Copies: two blocks. Filter: pipes
of three, a backlog of two, lines of one and two: both pipes fill. Mail: one and
two greetings. Output: a buffer of two characters, texts of one and three, five
calls. Buffered input: seven characters with all line ends, cut anywhere. Memory
files: two, pipes of two. Diagnosis: two threads, four blocks, three calls, tables
that begin with two rows and grow while they record. Sockets: two, with two
addresses, five pools and five calls: open, bind or connect, and close, twice.
Paths: base two, numbers of one, two and three digits, two processes, four calls.
Tar: blocks of two, names of three, prefixes of five: names that fill the field,
are split or are too long, two entries of fourteen kinds. Paragraphs: four lines
of seven kinds, ten sets of flags.

*Containers.* Table: four keys, two with the same hash value and one with a
negative one, buckets that grow from three to five; the code begins with nine,
which is a constant of the model. Tree: eight keys are the smallest number with
which extraction makes a tree deeper than any AVL tree of its size; six elements by
index. Ring of three; lists of four elements; arrays of three nodes at two bases;
heap of six; exceptions with two names and three records; ints of three bits in the
sets of integers and words of two bits in those of bits, so that differences wrap and
sets end inside a word; two words of four bits, digits of three, so that crossing
bits and carries occur; extensions of one and four letters in two cases, in buckets
that keep the cases apart and in one that does not; patterns and words of four to six pieces with vectors that
begin with two places; three scopes, symbols and levels of a declaration; four
commands of ESIS and two errors. Every bound is a constant of a configuration.

What the properties leave out, each with the history that says so: a ring whose tail
has slipped out of its array (`ring_slipped`), to which an element was then added there
(`ring_astray`); the text in front of a string that was dropped (`bi_from`); the strings
of memory files in `mf_crossed`; records of functions that were jumped over
(`ex_skipped`); unions of integers too far apart (`st_wrapped`) and of bit sets with
bits off the end (`st_spilled`); column and offset once they are not exact; and what is
in `pd_excuses` for the database of paths; a move whose reads or writes fail, and a
remainder whose product wraps (`ModWraps`). The ring and the direct write that meets text
are runs of section 5, since a comment promises otherwise; of the others the code
promises nothing as definite, and section 5 says what happens. A model ends where the code reads freed memory or a null
pointer (`ai_end`, `lb_crashed`, `bi_call` "dead"): no property is about what is behind.

Deadlock is checked in `timed_race` and `avl_height`; elsewhere the
system may stop: a torn header makes every later open fail, SIGALRM kills a process
without a handler, a talk with a server ends, counted calls are used up. That
caller and command do not stop for each other is an invariant, `FI_NeverStuck`.

### Fairness

`AsyncFn`: time passes (`Tick`) and a pending signal is delivered (`Deliver`); the
client is free to do nothing. `TimedCall`: a process inside a call goes on to the
next statement (`Step`), and an alarm that runs goes off (`Signal`); `flock` and
`fgets` may block for ever, and the client need not unlock. These (in `MCSignals`, each for its own part) are what the
operating system does, and no more: `CallsReturn` must come from the alarm alone.
The other components have no liveness property: their operations are loops over
data that end, or wait for a peer that owes nothing.

### Mutants

Each property of each passing run has a mutant, an operator of its module that
changes one definition as a plausible slip in the code would (a missing sync, an
alarm set for the wrong function, a flush that forgets what was not taken, links
moved only forward); the property fails under the same configuration when the
mutant replaces the definition. `PROJECT.json` lists one per property. For joined
invariants the modules hold further mutants, one for each conjunct that the listed
one does not break (`BalancePathFlat`, `NeighbourFromPathParent`, `NewPrevElementShort`,
`SmallerChildCareless`, `TX_BetweenOpen`, `TakesBoth`, `ManagerDeleteStringEarly`, `ExpandedOpen`,
`MimeTableAddLast`, `LeapDayEarly`, `PushedBackLost`,
`IsValidDescNoNull`, `HexDigitsShort`, `AsgnUIntMultNarrow`, `MaskShort`, `FieldsKept`):
with `d == ... as ...` in the place of the definition they stand beside, the run
violates its invariant.

## 4. The proofs

TLAPS proves the following for all values of the constants that satisfy the named
assumption of the module. TLC evaluates the assumptions in the runs.

### The transaction log: `Log_proofs`

*Durability and nesting* (`LogSpecAssumption`: the client's values are not the two
markers). `IInv` is the type invariant, `DurableIsWhole`, `Bracketed`, `MarksMatch`.
Together they are inductive and none is alone: that an abort does not touch what is
durable needs that `durable` is at most every mark, that this stays so for the next
begin needs that what is durable is closed, and that the depth of a new item is right
needs that an open log has as many open transactions as marks. One lemma per action,
and lemmas about the two things actions do to `items` (`GrowBracketed`,
`CutBracketed`). The theorems `TypeCorrect`, `DurableWhole`, `Nesting` and
`AbortsFindTheirBegin` are its parts; `DurableForever` is the action property
`DurablePrefixKept`. Since `TxLog` is checked to implement `LogSpec`, they are what a
client may rely on.

*Blocks and padding* (`FormatAssumption`: a block holds a log header, which is longer
than an entry header). `EntryStaysInBlock`: for every block size and offset an entry
that fits a block is put inside one, at or behind the end of the log.
`ReaderFollowsWriter`: the reader, from the old end of the log, arrives at the new
entry, by skipping what the writer skipped or by the length in the pad entry. This is
the arithmetic that the fixed block size of the runs cannot cover.

*Reading.* `EntryIsReadBack`: what `WithEntry` writes at the end of a log (the pad
first, where there is one) is read there with its type, length, time and data.
`LogIsReadBack`: after any number of entries the reader returns each of them, in
order, none of the pads, and then the end of the file. `ReadEntry` and `ReadAll` are
recursive functions of the offset. The proof unrolls them one reading at a time
(`ReadingExists`, `ReadUnrolled`, `ReadAllUnrolled`), by induction over the distance
to the end of the file, stated as a set of offsets without an operator parameter. What was read
of a log is read again after more was added (`ReadsStay`), because an entry lies
behind what the reader has looked at (`OverlayCells`, `ForwardStays`).

### Signals and time

*`AsyncFn_proofs`* (`AsyncFnAssumption`). `AsyncInv`: the functions are a tree ordered
by call time (`IsTree`), the alarm that runs is in time for every function that does
not repeat (`AlarmInTime`), and the handler is installed while there are functions
(`HandlerInstalled`). `NoneIsLate` follows, for any functions, periods and lateness.

*`TimedCall_proofs`* (`TimedCallAssumption`: which functions there are). `Inv` for
every set of processes. `Exclusion` needs that the kernel grants exclusively
(`Granted`), that a caller who was told it has the lock has it and does not ask for
it again (`ToldIsHeld`), and that a call on its way back with success still has it
(`SuccessIsHeld`), which a signal could spoil. `AlarmInside` and `AlarmSurvives`
need at which statements our handler is installed and our alarm runs (`AlarmInv`) and
what became of the client's alarm (`AlarmKept`).

### Calls that fail half way: `Calls_proofs`

*Filters* (`FilterAssumption`: a line fits into the pipe beside the command's
backlog). `FI_Inv` says where everything written is (`Underway`) and that whoever
waits has left room (`RoomForALine`, `Waited`); `NeverStuck` for every capacity,
backlog and number of lines.

*Safe copy and move.* `FC_Inv` goes through the steps of each call and says, for each
place a call can be in, which of the names holds what; a failure and a death of the
process are steps like the others. `NothingIsLost` for files of any number of blocks;
a move that had a failed read or write is left out, and `move_keeps` shows why.

*Mail* (`MailAssumption`). `MA_Inv`: a mail is with the server as often as the steps
of its sending say (`MailUnderway`), for any number of greetings; and, of a server that greets once,
each answer that is still to be read is the one to the command that
waits for it (`Synchronous`, `Means`), so `TruthIsTold`. The answer is the one at a
`CHOOSE`n place of the talk; a lemma says which (`Followings`, `MovePlace`).

*Tar archives* (`TR_Assumption`: a path is not empty; an entry without one would be
taken for the end of the archive). `TR_Inv`: the sizes of the entries determine where
each begins (`Places`), its header and data lie there as far as the archive goes
(`RecordAt`), only the last may lack data, and then the archive ends with what there is
(`Archive`); the reader is where an entry begins or behind a header, or, of an archive
that was cut, at its end or behind it (`ReaderAt`). The copy is an archive too, of all
that was read when it has as many headers as entries were read (`CopyHolds`), so a copy
that is read in its turn begins where an archive does. `EntriesAreRead` for any sizes of
blocks, fields, data and any number of entries. The proof corrected the property: which
paths are left out depends on the fields as they were written, not on the path.

### Descriptors: `Descriptors_proofs`

*The poll set* (`PollAssumption`). `PL_Inv`; that the pointers of the poll set into
the list stay apart through deletion and growth is an argument by counting
(the set has as many entries as there are registered events).
`SetFollowsClient` for all finite sets of descriptors.

*Printing* (`OutputAssumption`). Lemmas about a device: what each byte is after text was put at a
place (`PutAt`), nothing put changes nothing, and one text put behind another is both
put at once (`PutTwice`). `AB_Arrives`, with its condition on `ab_met`, is not inductive: when a flush inside a printf
fails, what the client is told is counted from before the printf, so `PrintfCounts`
relates what printf has inserted to what buffer and device have gained.
`EverythingArrives` holds for any texts and a buffer of any size. For a socket the
length is counted without the condition: a direct send adds as much to the device as to
what is wanted, wherever it meets text.

*Sockets and addresses* (`SK_Assumption`: there are more numbers for pools than
structures that could own one, and as many for descriptors as calls). A call passes
through states that `SK_NothingDangles` does not allow: a pool is made before
a structure has it, and a structure loses its pool before it is destroyed. So the
invariant is stated of a state and of a set E of pools that the call in progress will
destroy or give away: `Owned` (each other pool has one owner), `Inside` (what lives in
a pool, or points to one). There is a lemma for each thing that APR and the library do
to it (`Destroy`, `Closed`, `PoolMade`, `Attach`, `Detach`, `AddrPut`, `Opens`, ...), a
lemma per call that composes them, and E is empty at the end of each: `NothingDangles`
for any sockets, addresses, ports and number of calls. That a fresh number exists is an
argument by counting (`PoolLeft`, `FdLeft`).

*epoll made of select* (no assumption). `Lists`: the list of events has each descriptor
the client has once, with what it said last; adding and deleting keep that
(`EP_AddKeeps`, `EP_DeleteKeeps`). What a wait reports is the list cut down to what is
ready, in its order; `NthIsMember` (the n-th of a finite set of numbers runs through the
set) makes that a bijection between the events and the descriptors that are ready, and
`EachReportedOnce` counts with it, for any descriptors and data.

*Functions called by SIGIO* (`AsyncIOAssumption`: the mark of a removed entry is not a
pair of a descriptor and a direction, and the old action is one of three). `TableInv`
is what `AI_ReadyCalledOnce` says of the table; `LoopInv` says, of each pair that was
ready and has stayed, that it has been called once if the loop is past it (`Visited`)
and not at all if it is still to come. A function may remove entries the loop has
passed and ones it has not reached, and may add some behind it; while the loop runs an
entry does not change its place, which `RemoveKeepsTable` and `AddKeepsTable` are
about. `ReadyCalledOnce` for any descriptors.

### Streams: `Streams_proofs`

*Buffered input* (`BufferedIoAssumption`). The input is in four parts: handed out, kept
by a call that failed, in the chunk of the last raw read, still to come. Each action
moves the boundary between two or three of them (`Refilled`, `ChunkTaken`, `KeptTaken`,
`KeptOut`, `ChunkOut`), which is all that order needs. That no line holds a newline needs
`Fits`: what a line under way has kept has none, since the loop goes on only past chunks
without one; and a string under way has kept no more than it asks for. `InputInOrder` for
any input, lengths and cuts. A string that GetString drops moves the place `bi_from`
from which the parts are counted behind it; the lemmas `BehindText`, `TextBehind` and
`KeptDropped` say that they are then an end of the input still.

*Files in memory* (`MemFileAssumption`). Of what was printed, the buffer, the pipe, the
write under way and the stream hold one part each (`AllThere`), until the buffer has
reached its limit and is the beginning of it; the handler joins two of them and cuts
(`HandlerKeepsAll`), which needs that a part at the front of a count is a count
(`CountedBegins`). The mask needs nothing more than the property says: `StringHeld` is
inductive because the files under whose strings another one puts back an open mask are
what `mf_crossed` records. `StringStands` for any number of files and any limits.

*Input buffer* (`InputBufferAssumption`). What is ahead of a context is what was put
back to it, the last first, and then its text from the current character on
(`IsAhead`); so what is read next is what is ahead (`NextIsAhead`), also where the
`\r` of a `\r\n` is dropped, which `TextTaken` shows of the recursive `Picked`. The line
is an equation between counts of newlines. Column and offset need more: as long as
they are exact, what is ahead is an end of the text (`ExactPlace`). It stays one
only if the character put back is the one before the place, and TLC found that it
need not be: what was read from a context that has closed since is put back to the
context below, which then has a column and an offset of no place. So `exact` ends
there too. `PositionTrue` for any texts, number of contexts and characters put back.

### Containers

*`Memory_proofs`, ring buffer* (`RingAssumption`). `CB_Inv`: the array, from the
head on and around its end, holds the history until an element is added at a tail that
has slipped; the head never slips, so adding there is right even then. `RingIsKept` for
every size, for all six operations at both ends.

*`Memory_proofs`, exceptions* (`ExceptionAssumption`). A record counts its places on
the stacks of names and of records; `RaiseFindsFrame` needs the heights at which a
function finds them when it leaves (`Piled`, `Covered`): a raise jumps over functions
that have not left, and what they piled up stays until the one that catches does.

*`Memory_proofs`, diagnosis of memory* (`MemDiagAssumption` and `RoomForNotes`). While a
thread records, the table says less than what is true: the block that is being recorded
and those the table allocated for its own arrays are still to come. `Noting` says that
what is to be recorded, the call itself and then the notes in order (`Todo`), leads from
what the table says (`Base`) to what is true (`Wanted`). Each item is taken from the
front of that order, and an array that moves adds two notes at its end, that its old
block is free and that its new one is taken. `OneOwner`: a block belongs to the client,
to a call, or to one of the arrays; `Locked`: what the thread that holds the mutex is
doing; `Rows`: sizes and markers; `Growth`: each array moves at most once while one call
is recorded, so that there are never more than five notes. The last needs that an array
that has grown has room for what is left to record. `RoomForNotes` says so of the
constants: 5 places for notes, 6 rows and 7 buckets at first, where the code has 64, 8
and 9. `RecordsAreTrue` is then an invariant for any threads, blocks, sizes and number
of calls. The run takes smaller arrays (2 and 2), so that they grow within its
bounds; there it is TLC that says that 10 places are enough.

*`HTable_proofs`* (`HTableAssumption`). `TableOk`: every entry of the array is in one
list, the one of its bucket or that of the deleted entries, and each list ends. That a
list follows its links is said by a recursive function; `IsList` relates it to the
sequence of its indices, and `RecursionExists` and an induction over lengths
(`Upwards`) say that this function is what its definition says. `ListsStayLinked` is
the invariant for all keys, hash functions and numbers of buckets.
`TableImplementsKeys` is the refinement of `KeyTable`: the initial states map to
initial states, and each action to a step of the table of keys or to none.

### What is only model-checked

Liveness, and anything with ENABLED: the prover has no rules for them. The
refinements `TxLog` of `LogSpec` and `AVLTree` of `OrderedTable`, and the invariants of
the other modules: `PD_Found` speaks of names as numerals, and `LogWellFormed` of a fold
over the entries of a log, so both need an induction over data. Recursive functions can be reasoned about one step at a time, as in
`Log_proofs` and `HTable_proofs`, but the theorems for induction take an operator as a
parameter, which the provers cannot instantiate, so each needs an argument of its own.
Modules with RECURSIVE operators (`Text`, `Formats`, `Lines`, `SymTab`,
`WideInts`), and `MCContainers` and `MCStreams`, which use them, cannot be proved about
at all.

## 5. Where the code differs from what it says

Eight runs end in a counterexample.

- `log_padding`. The pad entry is written and the writer seeks to the next block,
  but nothing is written there. If the process dies before the next entry is
  flushed, the file ends behind the pad header, the log continues there, and the
  reader skips the new entries as padding (logfile.c:1010).
- `log_recovery`. Recovery with a style that executes a part of the log deletes
  more than the incomplete transaction: by time, entries that were skipped do not
  advance the offset behind which it cuts (838); up to an offset, a committed
  transaction in which it stops is taken for an incomplete one (893).
- `async_mixed`. When a repeating function and one that went off for good are left,
  the handler sets the alarm for the latter (async_fn.c:260).
- `timed_race`. SIGALRM between the return of `flock` and `alarm (0)`: the caller
  is told of a time-out and the lock stays (fd_lock.c:92).
- `avl_height`. Extraction uses the rebalancing written for insertion, which stops
  after the first rotation: trees get deeper than any AVL tree of their size
  (avl_del.c:265). Lookups stay right; the arrays for search paths rely on the height.
- `mail_greetings`. A second greeting shifts every answer by one command, and an
  address the server refuses is called valid (maillib.c:559).
- `apr_mixed`. Direct writes and printf cannot be combined at will: after a flush that
  was taken in part, the direct write goes out before the rest of the text printed
  first (jr_aprbuf.c:108).
- `ring_full`. Adding at the head of a full ring whose tail is at the start of the array
  moves the tail behind the end of the array (circbuf.c:105).

Others were met while modelling. They are in the models as the code has them, or
the model leaves the case out and says so where it does.

*Log.* Recovery from offset 0 of a log without committed entries deletes its header
(logfile.c:856). A torn last entry makes recovery fail each time (822). The length to
copy wraps when the range ends behind the end of the file (1312). `jr_LogSync` flushes
the sync bit and never calls fsync (1391). `jr_LogDeleteRange` does not survive being
cut (1314).

*Signals and time.* A function called by SIGALRM that removes itself frees the element
the handler still uses (async_fn.c:264). The client's alarm is indeterminate after a
time-out (timedio.c:59) and always lost by `jr_FileDescTimedFlock` (timelock.c:80). A
function called by SIGIO that removes the last entry or makes the table grow leaves the
handler in freed memory; FASYNC is set before the handler is installed and never
cleared, so SIGIO may kill the process after the undo (async_io.c:456). The strings of
two memory files closed in another order than the reverse unblock SIGIO under an open
string or leave it blocked; then a write to a full pipe waits for ever. Destroying a
memory file undoes the buffer before the handler is removed.

*Descriptors.* `jr_pollevent_ptr_hash` tests flags with `&&`. A refused descriptor stays
in the list, and every growth tries it again. Results are copies: an event deleted by
the handler of another is still handed out. All epoll instances have number 0. Closing
a socket forgets it also when the flush fails; opening an open one leaks it;
`jr_sockaddr_cmp` compares a port with itself; a failed `recvfrom` leaves the address
unfilled. Partial flushes report success:
what a close could not flush is text of the next file or connection. Seek, read and
truncate do not look at the buffer.

*Files.* A move across devices takes a failed read for the end of the file, does
not look at what the writes return, unlinks the source and reports success
(move.c:62). After the replaced file was moved away its copy may be cut short without an
error, `fclose` being unchecked, and a failure to open leaves the target empty; the
temporary file stays, with success reported, when it cannot be unlinked. In the database
of paths a growth by more than one digit moves everything one level only, names of
digits above nine are letters while moves look for '0' + q, a crash during the moves
leaves items in the temporary directory, and of two creators the later one empties the
file of the former. Tar: a name of exactly 100 characters is read back with the mode
appended; the data of directories and links are written though their size is 0; passing
over a cut entry reports success. Names of temporary files drop random bits for large
process numbers.

*Input.* A string asked for again, exactly as long as what the failed call has
left, is taken out of the buffer and lost (bufio.c:162). A line end cut between CR and LF stays; reading a block ignores its limit for leftovers. A newline put
back leaves the column one too far. A blank line in front of a paragraph that newlines
end makes the reader report the end; a line put back has lost its indentation. Going
back to a line that was skipped reads a null pointer.

*Processes.* A filter never returns a string: the wrong end is closed, the next read
fails, and the command is killed; what follows the last newline is never written; a
second pipe that fails leaks the first; wrong descriptors are closed twice. Mail: lines
of one dot are not stuffed, QUIT without 221 is an error though the mail was accepted,
the time limit leaves the connection open.

*Memory.* A `jr_realloc` that fails leaves the old block recorded as freed; an unmarked
pointer reallocated with marking on loses its beginning; a full array of bookkeeping
loses a record; suffix and prefix tests use the wrong sense.

*Containers.* `jr_AListDup` swaps its arguments; `SortRange` with prefixes breaks the
links; `jr_LListDeleteNextElement` frees a null pointer; pointer maps lose the descriptor
of a pointer set to null. Union and comparison of integer
sets subtract elements, which wraps. `jr_IntSetCmp` reads behind the shorter set.
Adding all to a bit set sets bits behind the end. Exceptions jumped over keep their
records. The remainder multiplies two remainders in one word: 255 % 11 is 8 with
words of four bits (jr_ulong.c:212); division by the
largest word goes wrong; the signed sum goes wrong below zero at a word's end
(jr_long.c:199, 217), comparison of two negative numbers is reversed, `jr_LongModInt`
negates every divisor (335). Bit fields of eight bits and more that do not begin in the
first byte of their word overlap what is behind them.

*Texts.* `*` does not match nothing before "/"; "*?" may match "/"; an escape behind an
item of a set ends the set. A backslash before a separator hides the quote behind it
unless the vector grows there. URL decoding loses one of two CRs, and codes bytes above
127 with eight digits. Replacement counts fewer matches than it makes. Comparison that
ignores blanks between signs is not an order: "x 1" < "x:" < "xa" < "x 1". The last word
keeps a single leading blank. Clauses of permissions accumulate who and how, "=" clears
everybody's. "/" is normalised to nothing, two leading ".." cancel, and ".." without a
directory before it computes from a null pointer. Escapes do not escape backslashes and
read digits greedily. MIME types are compared in whatever case and hashed case by case,
so an extension in another case is found only when both fall in one bucket. A width that contains a 0 is taken for one with a leading zero. A
time that does not parse is reported as parsed; 2100 is taken for a leap year.

*Symbols.* Giving up a structure type frees what it then compares by; completing an
empty structure loses a reference; a built-in base is equivalent to anything
(st_type.c:513 says otherwise); arrays of different length expressions with the same
number share one type; a word that exactly fills the buffer of a declaration lets the
next character past its end; the validity of a function that returns what a typedef names
is told wrongly; copies of expressions call a child's function on the parent.

*ESIS.* The reader clears itself after the tree was made an object of, which leaves it
without virtual functions (the model takes the other order). A document that does not
conform is reported as read. The rest of a command that is not implemented is read as
commands. A deleted attribute stays in the table of attributes.

## 6. What is not modelled

*Of the modelled components.* A second process that waits for the log
(`jr_LogWaitOnOpen`), its printing; functions called by SIGALRM that change the tree;
`I_SETSIG`; several epoll instances; options of sockets and multicast; the copy of one
open file to another, walking directories and status; sorting of lists with prefixes,
merge sort, copies and comparison of lists; statistics of the hash table; floats in
network order and the printed forms of numbers and sets; markers that trap, and
starting the diagnosis again; URL requests and HTTP; the names of elements in ESIS;
conversion of data by type. Overflow of hash values and of differences of keys in the
tables is left out; where it matters to a structure it is in the model
(`NumberSets`, `WideInts`).

*Components without a model.* Each is a call of the operating system or another
library, or a loop without state:

- threads and mutexes: one call of pthreads or Win32 each;
- stand-ins for APR: adapters to a library that is not part of the repository;
- statistics of memory, lists of open files, duplicates of strings;
- errors and traces: texts;
- prefixes: where hidden structures lie in front of elements (`Arrays` has what
  follows from it);
- descriptors that do not block: a flag and a retry;
- vendored and missing functions: GNU regex, XDR, substitutes for what a platform
  lacks. They are a fifth of the lines;
- `io/mailhost.c`, which parses answers of a name server (of an address record it
  passes over four bytes too many), and `syscalls/jr_process.c`, which hands a
  command to APR.

## 7. What comes next

1. A second process at the log: the file lock and `jr_LogWaitOnOpen`.
2. The composition of `MemFile` with `Waiting`, whose SIGIO handler it uses, and of `Mail`
   with `Socket`.
3. Merge sort of `dlist/` and `llist/`, and sorting with prefixes.
4. Proofs: `PD_Found` of `Archives`, whose names are numerals, which takes an induction
   over digits; for the log, that `TxLog` keeps `LogWellFormed`,
   from the theorems of `Log_proofs` on reading and that what is in the buffer and in
   the kernel is always the view of the process.
