------------------------------ MODULE MemDiag -------------------------------
(***************************************************************************)
(* The diagnosis of memory of src/libjr/jr_malloc: jr_malloc, jr_free and  *)
(* jr_realloc of several threads, the table of every pointer they handed   *)
(* out or took back, and the array that holds what the table allocates     *)
(* for itself until it can be recorded in the table.                       *)
(*                                                                         *)
(* malloc, realloc and free are external: they are called outside the      *)
(* mutex, between the calls that record them, and give any block that is   *)
(* free.  A client frees what it was given, once, and may write behind a   *)
(* block.  The table is the hash table of HTable.tla, seen by what it      *)
(* allocates: an array of rows and one of buckets.                         *)
(***************************************************************************)
EXTENDS Integers, Sequences, FiniteSets

CONSTANTS
  MD_Threads,
  MD_Blocks,           \* what malloc returns
  MD_MaxBookkeeping,   \* MAX_BOOKKEEPING_MALLOCS, 64 in the code
  MD_FirstRoom,        \* capacity of a new table, 8 in the code
  MD_FirstBuckets,     \* 8 + 1 in the code
  MD_Slop,             \* bytes the allocator adds to what it was asked for
  MD_MaxCalls          \* bound of the calls of the client

ASSUME MemDiagAssumption ==
  /\ MD_MaxBookkeeping \in Nat /\ MD_FirstRoom \in Nat \ {0}
  /\ MD_FirstBuckets \in Nat \ {0, 1} /\ MD_MaxCalls \in Nat
  /\ MD_Slop \subseteq Nat /\ "nobody" \notin MD_Threads

VARIABLES
  md_tracing,      \* "pointers": jr_MallocRecordPtrsOnly; "calls": jr_malloc_calls
  md_used,         \* blocks malloc has handed out
  md_live,         \* pointers of the client with the size it counts on
  md_marker,       \* where the marker behind a pointer is; Broken if written over
  md_stale,        \* pointers of the client whose jr_realloc failed
  md_call,         \* call in progress, by thread
  md_lock,         \* thread that holds jr_MallocDiagMutex
  md_item,         \* what RecordInfo is recording
  md_stage,        \* how far it is
  md_table,        \* PointerTable: row by pointer
  md_room,         \* capacity of its array of rows, 0 before the first call
  md_num_buckets,
  md_own,          \* blocks of its two arrays
  md_array,        \* BookkeepingArray up to NextBookkeepingIndex
  md_first,        \* FirstBookkeepingIndex
  md_overflow,     \* BookkeepingArrayOverflow
  md_report,       \* error found, with which the program ends
  md_calls

md_vars ==
  <<md_tracing, md_used, md_live, md_marker, md_stale, md_call, md_lock, md_item,
    md_stage, md_table, md_room, md_num_buckets, md_own, md_array, md_first,
    md_overflow, md_report, md_calls>>

recording == <<md_item, md_stage, md_table, md_room, md_num_buckets, md_own,
               md_array, md_first, md_overflow, md_report>>

Nobody == "nobody"
Broken == -1
NoMemCall == [step |-> "idle"]

(* A pointer of the client is the block's address, or stands behind the    *)
(* marker in front.                                                        *)
Pointer(block, marked) == [block |-> block, marked |-> marked]
Pointers == [block : MD_Blocks, marked : BOOLEAN]

NeedsMarker == md_tracing = "calls"

Updated(f, x, y) == [z \in DOMAIN f \cup {x} |-> IF z = x THEN y ELSE f[z]]
Without(f, x) == [z \in DOMAIN f \ {x} |-> f[z]]

MD_Init ==
  /\ md_tracing \in {"pointers", "calls"}
  /\ md_used = {} /\ md_live = <<>> /\ md_marker = <<>> /\ md_stale = {}
  /\ md_call = [t \in MD_Threads |-> NoMemCall]
  /\ md_lock = Nobody /\ md_item = NoMemCall /\ md_stage = "none"
  /\ md_table = <<>> /\ md_room = 0 /\ md_num_buckets = 0
  /\ md_own = [rows |-> {}, buckets |-> {}]
  /\ md_array = <<>> /\ md_first = 0 /\ md_overflow = FALSE
  /\ md_report = {} /\ md_calls = 0

----------------------------------------------------------------------------
(* The calls of the client.                                                *)

(* Constructors of C++ objects run before there are threads.               *)
MayCall(t) ==
  /\ md_report = {} /\ md_calls < MD_MaxCalls /\ md_call[t] = NoMemCall
  /\ md_tracing = "pointers" => \A u \in MD_Threads : md_call[u] = NoMemCall
  /\ md_calls' = md_calls + 1

Enter(t, call) == md_call' = [md_call EXCEPT ![t] = call]

(* jr_malloc up to the mutex.                                              *)
Malloc(t) ==
  /\ MayCall(t)
  /\ \E block \in MD_Blocks \ md_used :
       /\ md_used' = md_used \cup {block}
       /\ Enter(t, [step |-> "record malloc", ptr |-> Pointer(block, NeedsMarker)])
  /\ UNCHANGED <<md_tracing, md_live, md_marker, md_stale, md_lock, recording>>

(* Mutant: the block goes back before that is recorded.                    *)
GiveBackAtOnce(t, for) ==
  /\ MayCall(t)
  /\ \E p \in DOMAIN md_live :
       /\ md_live' = Without(md_live, p)
       /\ md_used' = IF for = "free" THEN md_used \ {p.block} ELSE md_used
       /\ Enter(t, [step |-> "record free", ptr |-> p, for |-> for, size |-> md_live[p]])
  /\ UNCHANGED <<md_tracing, md_marker, md_stale, md_lock, recording>>

(* jr_free and jr_realloc up to the mutex: both record that the block is   *)
(* free, and do what they are for without the mutex.                       *)
GiveBack(t, for) ==
  /\ MayCall(t)
  /\ \E p \in DOMAIN md_live :
       /\ md_live' = Without(md_live, p)
       /\ Enter(t, [step |-> "record free", ptr |-> p, for |-> for, size |-> md_live[p]])
  /\ UNCHANGED <<md_tracing, md_used, md_marker, md_stale, md_lock, recording>>

Free(t) ==
  /\ md_call[t].step = "free" /\ md_report = {}
  /\ md_used' = md_used \ {md_call[t].ptr.block}
  /\ Enter(t, NoMemCall)
  /\ UNCHANGED <<md_tracing, md_live, md_marker, md_stale, md_lock, recording, md_calls>>

(* The block stays, moves, or there is no memory: then the client keeps    *)
(* what the table holds for free.                                          *)
Realloc(t) ==
  /\ md_call[t].step = "realloc" /\ md_report = {}
  /\ LET old == md_call[t].ptr IN
     \/ \E block \in (MD_Blocks \ md_used) \cup {old.block} :
          /\ md_used' = (md_used \ {old.block}) \cup {block}
          /\ Enter(t, [step |-> "record malloc", ptr |-> Pointer(block, NeedsMarker)])
          /\ UNCHANGED <<md_live, md_stale>>
     \/ /\ md_live' = Updated(md_live, old, md_call[t].size)
        /\ md_stale' = md_stale \cup {old}
        /\ Enter(t, NoMemCall)
        /\ UNCHANGED md_used
  /\ UNCHANGED <<md_tracing, md_marker, md_lock, recording, md_calls>>

(* The client writes behind a block.                                       *)
Overrun(p) ==
  /\ md_report = {} /\ p \in DOMAIN md_live /\ p.marked
  /\ md_marker' = Updated(md_marker, p, Broken)
  /\ UNCHANGED <<md_tracing, md_used, md_live, md_stale, md_call, md_lock, recording, md_calls>>

(* The arguments of main have been read.                                   *)
TraceCalls ==
  /\ md_report = {} /\ md_tracing = "pointers" /\ \A t \in MD_Threads : md_call[t] = NoMemCall
  /\ md_tracing' = "calls"
  /\ UNCHANGED <<md_used, md_live, md_marker, md_stale, md_call, md_lock, recording, md_calls>>

----------------------------------------------------------------------------
(* jr_MallocDiagRecordInfo, under the mutex.                               *)

Note(array, ptr, malloced) ==
  IF Len(array) = MD_MaxBookkeeping THEN array
  ELSE Append(array, [ptr |-> ptr, malloced |-> malloced])

(* The table takes or gives back a block while it is being changed: the    *)
(* array holds it, with a marker whatever is traced.                       *)
Noted(notes) ==
  LET noted[n \in 0..Len(notes)] ==
        IF n = 0 THEN md_array
        ELSE Note(noted[n - 1], Pointer(notes[n].block, TRUE), notes[n].malloced)
  IN /\ md_array' = noted[Len(notes)]
     /\ md_overflow' = (md_overflow \/ Len(md_array) + Len(notes) > MD_MaxBookkeeping)

TakenBlock(block) == [block |-> block, malloced |-> TRUE]
ReturnedBlock(block) == [block |-> block, malloced |-> FALSE]

Report(what) == md_report' = {[ptr |-> md_item.ptr, what |-> what]}

(* The mutex is taken; the first call of all sets the table up.            *)
Record(t) ==
  /\ md_call[t].step \in {"record malloc", "record free"}
  /\ md_lock = Nobody /\ md_report = {}
  /\ md_lock' = t
  /\ md_item' = [ptr |-> md_call[t].ptr, malloced |-> md_call[t].step = "record malloc",
                 bookkeeping |-> FALSE, marked |-> md_call[t].ptr.marked]
  /\ md_stage' = "find"
  /\ IF md_room > 0 THEN UNCHANGED <<md_room, md_own, md_used, md_array, md_overflow>>
     ELSE \E block \in MD_Blocks \ md_used :
            /\ md_room' = MD_FirstRoom
            /\ md_own' = [md_own EXCEPT !.rows = {block}]
            /\ md_used' = md_used \cup {block}
            /\ Noted(<<TakenBlock(block)>>)
  /\ UNCHANGED <<md_tracing, md_live, md_marker, md_stale, md_call, md_table,
                 md_num_buckets, md_first, md_report, md_calls>>

Row(item) == [malloced |-> item.malloced, bookkeeping |-> item.bookkeeping,
              marked |-> item.marked, size |-> 1]

(* The bounds of pointers of the client only: those of the table have been *)
(* freed by the time they are recorded.                                    *)
SetMarker(item) ==
  md_marker' = IF item.bookkeeping \/ ~item.marked THEN md_marker ELSE Updated(md_marker, item.ptr, 1)

(* A pointer that is in the table.                                         *)
Found ==
  /\ md_stage = "find" /\ md_report = {} /\ md_item.ptr \in DOMAIN md_table
  /\ LET row == md_table[md_item.ptr] IN
     \/ /\ md_item.malloced /\ ~row.malloced
        /\ md_table' = Updated(md_table, md_item.ptr, Row(md_item))
        /\ SetMarker(md_item)
        /\ UNCHANGED md_report
     \/ /\ ~md_item.malloced /\ row.malloced
        /\ md_table' = [md_table EXCEPT ![md_item.ptr].malloced = FALSE]
        /\ IF ~md_item.bookkeeping /\ row.marked /\ md_marker[md_item.ptr] # row.size
           THEN Report("bounds") ELSE UNCHANGED md_report
        /\ UNCHANGED md_marker
     \/ /\ md_item.malloced = row.malloced
        /\ Report(IF row.malloced THEN "already allocated" ELSE "already freed")
        /\ UNCHANGED <<md_table, md_marker>>
  /\ md_stage' = "drain"
  /\ UNCHANGED <<md_tracing, md_used, md_live, md_stale, md_call, md_lock, md_item, md_room,
                 md_num_buckets, md_own, md_array, md_first, md_overflow, md_calls>>

(* A pointer that is not: a row is added, for which the array of rows may  *)
(* have to grow. jr_malloc_usable_size then sets the size of the new block *)
(* and must find it in the bookkeeping array.                              *)
NewRow ==
  /\ md_stage = "find" /\ md_report = {} /\ md_item.ptr \notin DOMAIN md_table
  /\ \/ /\ ~md_item.malloced
        /\ Report("never allocated")
        /\ UNCHANGED <<md_table, md_room, md_own, md_used, md_array, md_overflow>>
     \/ /\ md_item.malloced /\ Cardinality(DOMAIN md_table) < md_room
        /\ md_table' = Updated(md_table, md_item.ptr, Row(md_item))
        /\ UNCHANGED <<md_room, md_own, md_used, md_array, md_overflow, md_report>>
     \/ /\ md_item.malloced /\ Cardinality(DOMAIN md_table) >= md_room
        /\ \E old \in md_own.rows, block \in (MD_Blocks \ md_used) \cup md_own.rows :
             /\ md_room' = 2 * md_room
             /\ md_own' = [md_own EXCEPT !.rows = {block}]
             /\ md_used' = (md_used \ {old}) \cup {block}
             /\ Noted(<<ReturnedBlock(old), TakenBlock(block)>>)
             /\ IF Len(md_array) + 2 <= MD_MaxBookkeeping THEN UNCHANGED md_report
                ELSE Report("size not set")
        /\ md_table' = Updated(md_table, md_item.ptr, Row(md_item))
  /\ md_stage' = "buckets"
  /\ UNCHANGED <<md_tracing, md_live, md_marker, md_stale, md_call, md_lock, md_item,
                 md_num_buckets, md_first, md_calls>>

(* jr_HTableIncreaseNumBuckets, and the bounds of the new pointer.         *)
Buckets ==
  /\ md_stage = "buckets" /\ md_report = {}
  /\ IF Cardinality(DOMAIN md_table) <= md_num_buckets
     THEN UNCHANGED <<md_num_buckets, md_own, md_used, md_array, md_overflow>>
     ELSE \E block \in MD_Blocks \ (md_used \ md_own.buckets) :
            /\ md_num_buckets' = IF md_num_buckets = 0 THEN MD_FirstBuckets
                                 ELSE 2 * (md_num_buckets - 1) + 1
            /\ md_own' = [md_own EXCEPT !.buckets = {block}]
            /\ md_used' = (md_used \ md_own.buckets) \cup {block}
            /\ \/ md_own.buckets = {} /\ Noted(<<TakenBlock(block)>>)
               \/ \E old \in md_own.buckets : Noted(<<ReturnedBlock(old), TakenBlock(block)>>)
  /\ SetMarker(md_item)
  /\ md_stage' = "drain"
  /\ UNCHANGED <<md_tracing, md_live, md_stale, md_call, md_lock, md_item, md_table,
                 md_room, md_first, md_report, md_calls>>

(* What the table allocated for this is recorded next, in the order it was *)
(* allocated; that may allocate again.                                     *)
DrainNext ==
  /\ md_stage = "drain" /\ md_report = {} /\ md_first < Len(md_array)
  /\ LET noted == md_array[md_first + 1] IN
       md_item' = [ptr |-> noted.ptr, malloced |-> noted.malloced,
                   bookkeeping |-> TRUE, marked |-> TRUE]
  /\ md_first' = md_first + 1
  /\ md_stage' = "find"
  /\ UNCHANGED <<md_tracing, md_used, md_live, md_marker, md_stale, md_call, md_lock,
                 md_table, md_room, md_num_buckets, md_own, md_array, md_overflow,
                 md_report, md_calls>>

(* All is recorded: the array begins anew, the mutex is released, and the  *)
(* call goes on to what it is for.                                         *)
Drained ==
  /\ md_stage = "drain" /\ md_report = {} /\ md_first = Len(md_array)
  /\ md_array' = <<>> /\ md_first' = 0
  /\ md_stage' = "none" /\ md_item' = NoMemCall
  /\ md_lock' = Nobody
  /\ LET call == md_call[md_lock] IN
     md_call' = [md_call EXCEPT ![md_lock] =
       IF call.step = "record malloc" THEN [step |-> "measure", ptr |-> call.ptr]
       ELSE [call EXCEPT !.step = call.for]]
  /\ UNCHANGED <<md_tracing, md_used, md_live, md_marker, md_stale, md_table, md_room,
                 md_num_buckets, md_own, md_overflow, md_report, md_calls>>

(* The client asks for the usable size at once: what the allocator has     *)
(* added belongs to it, and the marker moves behind that.                  *)
UsableSize(t) ==
  /\ md_call[t].step = "measure" /\ md_lock = Nobody /\ md_report = {}
  /\ LET p == md_call[t].ptr IN
     \E slop \in MD_Slop :
       /\ md_live' = Updated(md_live, p, 1 + slop)
       /\ IF p.marked /\ slop > 0
          THEN /\ md_table' = [md_table EXCEPT ![p].size = 1 + slop]
               /\ md_marker' = Updated(md_marker, p, 1 + slop)
          ELSE UNCHANGED <<md_table, md_marker>>
  /\ Enter(t, NoMemCall)
  /\ UNCHANGED <<md_tracing, md_used, md_stale, md_lock, md_item, md_stage, md_room,
                 md_num_buckets, md_own, md_array, md_first, md_overflow, md_report, md_calls>>

MD_Next ==
  \/ \E t \in MD_Threads :
       \/ Malloc(t) \/ GiveBack(t, "free") \/ GiveBack(t, "realloc")
       \/ Free(t) \/ Realloc(t) \/ Record(t) \/ UsableSize(t)
  \/ \E p \in Pointers : Overrun(p)
  \/ TraceCalls \/ Found \/ NewRow \/ Buckets \/ DrainNext \/ Drained

MD_Spec == MD_Init /\ [][MD_Next]_md_vars

----------------------------------------------------------------------------
(* What jr_MallocDiagNumLeaks and jr_MallocDiagCheckLeaksAndBounds count.  *)
StillAllocated ==
  {p \in DOMAIN md_table : md_table[p].malloced /\ ~md_table[p].bookkeeping}

BoundsErrors ==
  {p \in StillAllocated : md_table[p].marked /\ md_marker[p] # md_table[p].size}

(* The pointers the table must hold as allocated while no thread records:  *)
(* those of the client, and those of a call before it returns or takes the *)
(* block. Of pointers whose jr_realloc had failed the table says that they *)
(* are free (jr_malloc.c:206, 253).                                        *)
Clients ==
  LET held == {t \in MD_Threads : md_call[t].step \in {"measure", "record free"}}
  IN (DOMAIN md_live \cup {md_call[t].ptr : t \in held}) \ md_stale

Bookkeeping ==
  {p \in DOMAIN md_table : md_table[p].malloced /\ md_table[p].bookkeeping}

(* Leaks are counted right and every marker is looked for where it is,     *)
(* whatever threads take, return and reuse while the table moves its own   *)
(* arrays; no error is reported but of a pointer that was written over or  *)
(* whose jr_realloc had failed; what the table allocates is all recorded.  *)
MD_RecordsTrue ==
  /\ \A r \in md_report : \/ r.what = "bounds" /\ md_marker[r.ptr] = Broken
                          \/ r.what = "already freed" /\ r.ptr \in md_stale
  /\ ~md_overflow
  /\ md_lock = Nobody =>
       /\ StillAllocated = Clients
       /\ Bookkeeping = {Pointer(b, TRUE) : b \in md_own.rows \cup md_own.buckets}
       /\ \A p \in Clients : md_table[p].marked = p.marked
       /\ \A p \in DOMAIN md_live \ md_stale : p.marked => md_table[p].size = md_live[p]
       /\ BoundsErrors = {p \in Clients : p.marked /\ md_marker[p] = Broken}
=============================================================================
