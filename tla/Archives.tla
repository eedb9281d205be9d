------------------------------ MODULE Archives ------------------------------
(***************************************************************************)
(* Files kept in files: tar archives, and directories whose names are the  *)
(* digits of numbers. The two halves share no state.                       *)
(***************************************************************************)
EXTENDS Naturals, Sequences, SequencesExt, FiniteSets

(***************************************************************************)
(* Tar archives (jr_tar.c): entries are written, in one segment or with    *)
(* the rest of the data left to the client, read with their data, passed   *)
(* over, or copied to another archive. The archive may be cut, by a        *)
(* process that dies and a pipe that ends.                                 *)
(*                                                                         *)
(* A file is a sequence of cells: a header and the bytes that fill its     *)
(* block, bytes of data, nulls. A path is a sequence of "/" and letters;   *)
(* a header splits it into a prefix and a name, fields without a null when *)
(* they are full.                                                          *)
(***************************************************************************)

CONSTANTS
  TR_Block,             \* cells of a block
  TR_Name, TR_Prefix,   \* sizes of the fields name and prefix
  TR_Entries,           \* what entries may be: path, type, size, whether all numbers fit
  TR_MaxEntries         \* entries of an archive

ASSUME TR_Assumption ==
  /\ TR_Block \in Nat \ {0} /\ TR_Name \in Nat \ {0} /\ TR_Prefix \in Nat
  /\ \A e \in TR_Entries :
       /\ e.path \in Seq(STRING) \ {<<>>} /\ e.type \in {"file", "dir", "link"}
       /\ e.size \in Nat /\ e.numbers \in BOOLEAN

VARIABLES
  tr_phase,    \* "write", "rest" (the client writes data), "read", "eof", "error"
  tr_tape,     \* the archive
  tr_pos,      \* place of the reader
  tr_written,  \* entries written, and whether their fields end with nulls (history)
  tr_entry,    \* the entry whose header was read last; none, or one
  tr_read,     \* entries read with their data, or passed over (history)
  tr_copy,     \* the archive that entries are copied to
  tr_cut       \* the archive was cut (history)

tr_vars == <<tr_phase, tr_tape, tr_pos, tr_written, tr_entry, tr_read, tr_copy, tr_cut>>

NullCell == [kind |-> "null", type |-> "file", size |-> 0, prefix |-> <<>>, name |-> <<>>,
          numbers |-> TRUE, byte |-> 0]
Data(b) == [NullCell EXCEPT !.kind = "data", !.byte = b]
Nulls(n) == [i \in 1 .. n |-> NullCell]

TR_Init ==
  /\ tr_phase = "write" /\ tr_tape = <<>> /\ tr_pos = 0
  /\ tr_written = <<>> /\ tr_entry = <<>> /\ tr_read = <<>>
  /\ tr_copy = <<>> /\ tr_cut = FALSE
-----------------------------------------------------------------------------
(* jr_TarEntrySetPathInfo. The slash at the end of a directory belongs to  *)
(* the path. A slash is appended also where there is one, and a null put   *)
(* over it when the null fits; when the name is full it goes to the field  *)
(* behind, the mode.                                                       *)
NeedsSlash(path, dir) == dir /\ path # <<>> /\ Last(path) # "/"
TarLength(path, dir) == Len(path) + (IF NeedsSlash(path, dir) THEN 1 ELSE 0)
FullName(path, dir) == IF NeedsSlash(path, dir) THEN Append(path, "/") ELSE path

(* The last slash up to which the path fits into the prefix; 0: none. One  *)
(* at the start of the path does not count.                                *)
SlashesInPrefix(path) == {i \in 1 .. Len(path) : path[i] = "/" /\ i <= TR_Prefix}
SplitPoint(path) ==
  LET s == SlashesInPrefix(path) IN
  IF s = {} THEN 0 ELSE CHOOSE i \in s : \A j \in s : j <= i

PathFits(path, dir) ==
  \/ TarLength(path, dir) <= TR_Name
  \/ /\ TarLength(path, dir) <= TR_Name + TR_Prefix
     /\ SplitPoint(path) > 1
     /\ TarLength(path, dir) - SplitPoint(path) <= TR_Name

PathInfo(path, dir) ==
  LET n == IF TarLength(path, dir) <= TR_Name THEN 0 ELSE SplitPoint(path) IN
  [prefix |-> SubSeq(path, 1, n),
   name |-> SubSeq(FullName(path, dir), n + 1, TarLength(path, dir))]

SpillsIntoMode(path, dir) ==
  dir /\ ~NeedsSlash(path, dir) /\ Len(PathInfo(path, dir).name) = TR_Name

(* jr_TarEntryMakeFullPath. strlen goes on behind a field that is full.    *)
(* FieldsEnd: no field is.                                                 *)
Behind == "m"
FieldsEnd(header) == Len(header.prefix) < TR_Prefix /\ Len(header.name) < TR_Name
FieldString(field, size) == IF Len(field) = size THEN Append(field, Behind) ELSE field
MakeFullPath(header) ==
  LET prefix == FieldString(header.prefix, TR_Prefix)
      name == FieldString(header.name, TR_Name) IN
  IF prefix = <<>> THEN name
  ELSE IF Last(prefix) = "/" THEN prefix \o name ELSE prefix \o <<"/">> \o name
-----------------------------------------------------------------------------
(* Cells up to the end of the block, after so many bytes were moved.       *)
ToBlockEnd(n) == IF n % TR_Block = 0 THEN 0 ELSE TR_Block - (n % TR_Block)

Header(type, size, info, numbers) ==
  <<[NullCell EXCEPT !.kind = "header", !.type = type, !.prefix = info.prefix, !.name = info.name,
       !.size = IF type \in {"dir", "link"} THEN 0 ELSE size,
       !.numbers = numbers]>> \o Nulls(TR_Block - 1)

Bytes(n) == [i \in 1 .. n |-> Data(i)]

(* jr_TarEntryWriteSegment: the header, a first part of the data from      *)
(* memory or from a file, which is filled with nulls when it ends too      *)
(* soon, and the end of the block when the data are complete. Owner and    *)
(* group are numbers that may not fit, or were not set: then the header    *)
(* cannot be read. Data are given for files only.                          *)
TR_WriteSegment ==
  /\ tr_phase = "write" /\ Len(tr_written) < TR_MaxEntries
  /\ \E e \in TR_Entries : \E first \in IF e.type = "file" THEN 0 .. e.size ELSE {0} :
     \E there \in 0 .. first :
       LET path == e.path type == e.type size == e.size
           dir == type = "dir"
           data == Bytes(there) \o [i \in 1 .. first - there |-> Data(0)] IN
       /\ PathFits(path, dir)
       /\ tr_tape' = tr_tape
            \o Header(type, size, PathInfo(path, dir), e.numbers /\ ~SpillsIntoMode(path, dir))
            \o data \o (IF first = size THEN Nulls(ToBlockEnd(size)) ELSE <<>>)
       /\ tr_written' = Append(tr_written,
            [path |-> FullName(path, dir), type |-> type, data |-> data,
             size |-> IF type = "file" THEN size ELSE 0,
             ends |-> FieldsEnd(PathInfo(path, dir))])
       /\ tr_phase' = IF type = "file" /\ first < size THEN "rest" ELSE "write"
  /\ UNCHANGED <<tr_pos, tr_entry, tr_read, tr_copy, tr_cut>>

(* The client writes the rest, and jr_TarFilePtrAlignFifoWrite.            *)
TR_WriteRest ==
  LET e == Last(tr_written)
      data == [i \in 1 .. e.size - Len(e.data) |-> Data(i)] IN
  /\ tr_phase = "rest"
  /\ tr_tape' = tr_tape \o data \o Nulls(ToBlockEnd(e.size))
  /\ tr_written' = [tr_written EXCEPT ![Len(tr_written)].data = @ \o data]
  /\ tr_phase' = "write"
  /\ UNCHANGED <<tr_pos, tr_entry, tr_read, tr_copy, tr_cut>>

(* jr_TarFileWriteEOF, and the reader begins.                              *)
TR_WriteEOF ==
  /\ tr_phase = "write"
  /\ tr_tape' = tr_tape \o Nulls(2 * TR_Block)
  /\ tr_phase' = "read"
  /\ UNCHANGED <<tr_pos, tr_written, tr_entry, tr_read, tr_copy, tr_cut>>

(* The writer dies, and what it has written ends anywhere.                 *)
TR_Cut ==
  /\ tr_phase \in {"write", "rest"}
  /\ \E n \in 0 .. Len(tr_tape) : tr_tape' = SubSeq(tr_tape, 1, n)
  /\ tr_phase' = "read" /\ tr_cut' = TRUE
  /\ UNCHANGED <<tr_pos, tr_written, tr_entry, tr_read, tr_copy>>
-----------------------------------------------------------------------------
Left == Len(tr_tape) - tr_pos
LesserOf(a, b) == IF a < b THEN a ELSE b
NextCell == tr_tape[tr_pos + 1]

(* Where an archive ends there is no path: an entry without one would be   *)
(* taken for its end. All of the numbers of a header must be parsed; only  *)
(* files have data.                                                        *)
NullBlock(cell) == cell.name = <<>> /\ cell.prefix = <<>>
Readable(cell) == cell.kind = "header" /\ cell.numbers
DataSize(cell) == IF cell.type = "file" THEN cell.size ELSE 0

(* jr_TarEntryInitFromFifoRfp. The bytes behind the header may be missing. *)
TR_ReadHeader ==
  /\ tr_phase = "read" /\ tr_entry = <<>>
  /\ IF Left <= 0 \/ NullBlock(NextCell)
     THEN tr_phase' = "eof" /\ UNCHANGED tr_entry
     ELSE IF ~Readable(NextCell)
     THEN tr_phase' = "error" /\ UNCHANGED tr_entry
     ELSE /\ tr_entry' = <<[NextCell EXCEPT !.size = DataSize(NextCell)]>>
          /\ UNCHANGED tr_phase
  /\ tr_pos' = tr_pos + LesserOf(TR_Block, IF Left < 0 THEN 0 ELSE Left)
  /\ UNCHANGED <<tr_tape, tr_written, tr_read, tr_copy, tr_cut>>

Entry == tr_entry[1]
EntryRead(data) ==
  [path |-> MakeFullPath(Entry), type |-> Entry.type, data |-> data, size |-> Entry.size,
   ends |-> FieldsEnd(Entry)]
EntryCells == SubSeq(tr_tape, tr_pos + 1, tr_pos + LesserOf(Entry.size, Left))

(* jr_TarEntryReadData to memory: all of the data, or an error.            *)
TR_ReadData ==
  /\ tr_phase = "read" /\ tr_entry # <<>>
  /\ IF Left < Entry.size
     THEN /\ tr_phase' = "error" /\ tr_pos' = Len(tr_tape)
          /\ UNCHANGED <<tr_entry, tr_read>>
     ELSE /\ tr_read' = Append(tr_read, EntryRead(EntryCells))
          /\ tr_pos' = tr_pos + LesserOf(Entry.size + ToBlockEnd(Entry.size), Left)
          /\ tr_entry' = <<>> /\ UNCHANGED tr_phase
  /\ UNCHANGED <<tr_tape, tr_written, tr_copy, tr_cut>>

(* jr_TarEntryReadData without memory: a file is positioned, also behind   *)
(* its end; a pipe is read as far as it goes. Neither is an error.         *)
BehindData(fifo) == tr_pos + (IF fifo THEN LesserOf(Entry.size, Left) ELSE Entry.size)

(* The mutant goes on where the data end.                                  *)
PassedUnaligned(fifo) == BehindData(fifo)
Passed(fifo) ==
  LET left == IF BehindData(fifo) < Len(tr_tape) THEN Len(tr_tape) - BehindData(fifo) ELSE 0 IN
  BehindData(fifo) + LesserOf(ToBlockEnd(Entry.size), left)

TR_PassOver ==
  /\ tr_phase = "read" /\ tr_entry # <<>>
  /\ \E fifo \in BOOLEAN : tr_pos' = Passed(fifo)
  /\ tr_read' = Append(tr_read, EntryRead(<<>>))
  /\ tr_entry' = <<>>
  /\ UNCHANGED <<tr_phase, tr_tape, tr_written, tr_copy, tr_cut>>

(* The header is written to the copy, and jr_TarEntryCopyData: when the    *)
(* archive ends, the copy ends with what was there.                        *)
TR_CopyData ==
  /\ tr_phase = "read" /\ tr_entry # <<>>
  /\ LET header == Header(Entry.type, Entry.size, Entry, TRUE)
         whole == Left >= Entry.size IN
     /\ tr_copy' = tr_copy \o header \o EntryCells
                     \o (IF whole THEN Nulls(ToBlockEnd(Entry.size)) ELSE <<>>)
     /\ IF whole
        THEN /\ tr_read' = Append(tr_read, EntryRead(EntryCells))
             /\ tr_pos' = tr_pos + LesserOf(Entry.size + ToBlockEnd(Entry.size), Left)
             /\ tr_entry' = <<>> /\ UNCHANGED tr_phase
        ELSE /\ tr_phase' = "error" /\ tr_pos' = Len(tr_tape)
             /\ UNCHANGED <<tr_entry, tr_read>>
  /\ UNCHANGED <<tr_tape, tr_written, tr_cut>>

(* A copy of all entries ends like an archive, and is read in its turn.    *)
TR_ReadCopy ==
  /\ tr_phase = "eof" /\ tr_copy # <<>>
  /\ tr_tape' = tr_copy \o Nulls(2 * TR_Block)
  /\ Cardinality({i \in DOMAIN tr_copy : tr_copy[i].kind = "header"}) = Len(tr_read)
  /\ tr_written' = tr_read
  /\ tr_phase' = "read" /\ tr_pos' = 0 /\ tr_cut' = FALSE
  /\ tr_entry' = <<>> /\ tr_read' = <<>> /\ tr_copy' = <<>>

TR_Next ==
  \/ TR_WriteSegment \/ TR_WriteRest \/ TR_WriteEOF \/ TR_Cut
  \/ TR_ReadHeader \/ TR_ReadData \/ TR_PassOver \/ TR_CopyData \/ TR_ReadCopy

TR_Spec == TR_Init /\ [][TR_Next]_tr_vars
-----------------------------------------------------------------------------
(* What is read of an archive are its entries, in their order: the path    *)
(* that was split is put together again, data are whole or passed over,    *)
(* wherever segments, blocks and the archive end. (Paths that fill a field *)
(* up to its last byte are left out.) The end of an archive that was not   *)
(* cut is found behind its last entry, and an error reported only for one  *)
(* that was cut or has numbers that did not fit.                           *)
TR_ReadsWritten ==
  /\ Len(tr_read) <= Len(tr_written)
  /\ \A i \in 1 .. Len(tr_read) :
       LET r == tr_read[i] w == tr_written[i] IN
       /\ r.type = w.type /\ r.size = w.size
       /\ r.data \in {w.data, <<>>}
       /\ w.ends => r.path = w.path
  /\ tr_phase = "eof" /\ ~tr_cut => Len(tr_read) = Len(tr_written)
  /\ tr_phase = "error" =>
       \/ tr_cut
       \/ \E i \in 1 .. Len(tr_tape) : tr_tape[i].kind = "header" /\ ~tr_tape[i].numbers

-----------------------------------------------------------------------------
(***************************************************************************)
(* Paths for numbers (pathdb.c): each digit is a directory, and all paths  *)
(* have as many digits as the largest number so far, which a file beside   *)
(* them holds. A number with more digits moves everything a level down,    *)
(* under "0", by renames, while that file is locked. The new largest       *)
(* number is printed to it and reaches it when it is closed, after the     *)
(* lock is given up.                                                       *)
(*                                                                         *)
(* Names are numbers: a digit, a letter (Letters), a digit with what the   *)
(* client has appended (Suffix), a temporary directory (Temporary). A      *)
(* path is a sequence of names, below base_path.                           *)
(***************************************************************************)

CONSTANTS
  PD_Processes,
  PD_Base,     \* value_base
  PD_Values,   \* numbers asked for
  PD_Kinds,    \* what the client keeps for each: "file", "suffixed", "directory"
  PD_Calls     \* bound on the calls of a behaviour

ASSUME PD_Assumption == PD_Base \in 2 .. 36 /\ PD_Values \subseteq Nat

VARIABLES
  pd_dirs,    \* directories there are
  pd_items,   \* items of the client: [value, kind, at]
  pd_exists,  \* the file is there
  pd_conf,    \* largest number in the file: one, or none
  pd_locks,   \* who holds which lock of the file
  pd_calls,   \* the call of each process
  pd_excuses, \* what has happened that the paths do not survive (history)
  pd_count

pd_vars == 
  <<pd_dirs, pd_items, pd_exists, pd_conf, pd_locks, pd_calls, pd_excuses, pd_count>>

Letters == 100
Suffix == 1000
Temporary == 2000

NoDbCall ==
  [pc |-> "idle", value |-> 0, kind |-> "file", create |-> FALSE, max |-> 0,
   unset |-> FALSE, level |-> 0, digit |-> 0, printed |-> {}]

PD_Init ==
  /\ pd_dirs = {} /\ pd_items = {}
  /\ pd_exists = FALSE /\ pd_conf = {}
  /\ pd_locks = [p \in PD_Processes |-> "none"]
  /\ pd_calls = [p \in PD_Processes |-> NoDbCall]
  /\ pd_excuses = {} /\ pd_count = 0
-----------------------------------------------------------------------------
NumDigits(n) == CHOOSE k \in 0 .. n : n < PD_Base^k /\ (k = 0 \/ n >= PD_Base^(k - 1))

DigitName(d) == IF PD_Base <= 10 THEN d ELSE Letters + d

(* num_digits: those of the largest number or of this one.                 *)
Width(value, max) ==
  LET n == NumDigits(value) m == NumDigits(max) IN
  IF value = 0 /\ max = 0 THEN 1 ELSE IF n > m THEN n ELSE m

PathOf(value, max) ==
  LET n == Width(value, max) IN
  IF value = 0 /\ max = 0 THEN <<0>>
  ELSE [i \in 1 .. n |-> DigitName((value \div PD_Base^(n - i)) % PD_Base)]

(* Where the client keeps an item: at the path, or at the path with more   *)
(* characters appended.                                                    *)
Place(path, kind) ==
  IF kind = "suffixed" THEN [path EXCEPT ![Len(path)] = @ + Suffix] ELSE path

Parent(path) == SubSeq(path, 1, Len(path) - 1)
Under(path, top) == Len(path) >= Len(top) /\ SubSeq(path, 1, Len(top)) = top
IsDirectory(path) == path = <<>> \/ path \in pd_dirs
Exists(path) == IsDirectory(path) \/ \E i \in pd_items : i.at = path

(* jr_MovePath: into a directory that is there, else to the name itself.   *)
(* What does not exist, or has nowhere to go, is not found, and that is    *)
(* passed over.                                                            *)
Destination(from, to) == IF IsDirectory(to) THEN Append(to, from[Len(from)]) ELSE to
MoveAll(moves) ==
  LET good == {m \in moves : Exists(m.from) /\ IsDirectory(Parent(Destination(m.from, m.to)))}
      moved(path) ==
        IF \E m \in good : Under(path, m.from)
        THEN LET m == CHOOSE m \in good : Under(path, m.from) IN
             Destination(m.from, m.to) \o SubSeq(path, Len(m.from) + 1, Len(path))
        ELSE path IN
  /\ pd_dirs' = {moved(d) : d \in pd_dirs}
  /\ pd_items' = {[i EXCEPT !.at = moved(@)] : i \in pd_items}
MovePath(from, to) == MoveAll({[from |-> from, to |-> to]})
-----------------------------------------------------------------------------
Call(p) == pd_calls[p]
Goes(p, pc) == pd_calls' = [pd_calls EXCEPT ![p].pc = pc]
TmpDir(p) == <<Temporary + p>>
NewLevels(c) == Width(c.value, c.max) - NumDigits(c.max)

(* The file is opened: as it is, or created, and then it is emptied        *)
(* although another process may have created and filled it meanwhile. A    *)
(* call that does not create only reads the largest number, whatever it    *)
(* is asked for. Calls are not followed once there is an excuse.           *)
PD_Open(p) ==
  /\ Call(p).pc = "idle" /\ pd_count < PD_Calls /\ pd_excuses = {}
  /\ \E v \in PD_Values, create \in BOOLEAN : \E kind \in PD_Kinds[v] :
       /\ create \/ v = CHOOSE w \in PD_Values : TRUE
       /\ pd_calls' = [pd_calls EXCEPT ![p] =
            [NoDbCall EXCEPT !.pc = IF pd_exists THEN "lock" ELSE "create",
                           !.value = v, !.kind = kind, !.create = create]]
  /\ pd_count' = pd_count + 1
  /\ UNCHANGED <<pd_dirs, pd_items, pd_exists, pd_conf, pd_locks, pd_excuses>>

PD_CreateConf(p) ==
  /\ Call(p).pc = "create"
  /\ pd_exists' = TRUE /\ pd_conf' = {}
  /\ pd_excuses' = pd_excuses \cup (IF pd_conf = {} THEN {} ELSE {"emptied"})
  /\ Goes(p, "lock")
  /\ UNCHANGED <<pd_dirs, pd_items, pd_locks, pd_count>>

(* The lock, and the largest number. To add levels the temporary directory *)
(* is made first.                                                          *)
PD_Lock(p) ==
  LET unset == pd_conf = {}
      max == IF unset THEN 0 ELSE CHOOSE n \in pd_conf : TRUE
      c == [Call(p) EXCEPT !.max = max, !.unset = unset]
      grows == c.create /\ NewLevels(c) > 0 /\ Width(c.value, max) > 1 IN
  /\ c.pc = "lock"
  /\ \A q \in PD_Processes : pd_locks[q] = "none" \/ (pd_locks[q] = "read" /\ ~c.create)
  /\ pd_locks' = [pd_locks EXCEPT ![p] = IF c.create THEN "write" ELSE "read"]
  /\ pd_calls' = [pd_calls EXCEPT ![p] =
       [c EXCEPT !.pc = IF grows THEN "digits" ELSE IF c.create THEN "make" ELSE "unlock"]]
  /\ pd_dirs' = pd_dirs \cup (IF grows THEN {TmpDir(p)} ELSE {})
  /\ pd_excuses' = pd_excuses
       \cup (IF \E q \in PD_Processes : Call(q).printed # {} THEN {"unwritten"} ELSE {})
       \cup (IF grows /\ NewLevels(c) > 1 /\ pd_items # {} THEN {"levels"} ELSE {})
  /\ UNCHANGED <<pd_items, pd_exists, pd_conf, pd_count>>

PD_MoveDigit(p) ==
  LET c == Call(p) IN
  /\ c.pc = "digits"
  /\ MovePath(<<c.digit>>, Append(TmpDir(p), c.digit))
  /\ pd_calls' = [pd_calls EXCEPT ![p].digit = @ + 1,
       ![p].pc = IF c.digit + 1 < PD_Base THEN "digits"
                 ELSE IF NumDigits(c.max) = 1 /\ c.level = 0 THEN "strays" ELSE "lift"]
  /\ UNCHANGED <<pd_exists, pd_conf, pd_locks, pd_excuses, pd_count>>

(* The first level of directories is added: files whose name begins with   *)
(* a digit are moved too, for clients append to the path.                  *)
PD_MoveStrays(p) ==
  /\ Call(p).pc = "strays"
  /\ MoveAll({[from |-> <<name>>, to |-> Append(TmpDir(p), name)] :
               name \in {d + Suffix : d \in 0 .. PD_Base - 1}})
  /\ Goes(p, "lift")
  /\ UNCHANGED <<pd_exists, pd_conf, pd_locks, pd_excuses, pd_count>>

(* The temporary directory becomes "0". It is not made again for the next  *)
(* level, whose renames then find nothing. LiftedDirect is the mutant that *)
(* does not put "0" above.                                                 *)
LiftedDirect(p) == MoveAll({[from |-> Append(TmpDir(p), d), to |-> <<d>>] : d \in 0 .. PD_Base - 1})
Lifted(p) == MovePath(TmpDir(p), <<0>>)

PD_Lift(p) ==
  LET c == Call(p) IN
  /\ c.pc = "lift"
  /\ Lifted(p)
  /\ pd_calls' = [pd_calls EXCEPT ![p].digit = 0, ![p].level = @ + 1,
       ![p].pc = IF c.level + 1 < NewLevels(c) THEN "digits" ELSE "make"]
  /\ UNCHANGED <<pd_exists, pd_conf, pd_locks, pd_excuses, pd_count>>

(* jr_MakeDirectoryPath: what is missing of the path; for a file, of all   *)
(* but its end. It fails where a file is in the way. Here the client's     *)
(* item is there when the call is about to return.                         *)
Needed(path, kind) ==
  {SubSeq(path, 1, n) : n \in 1 .. (IF kind = "directory" THEN Len(path) ELSE Len(path) - 1)}

PD_Make(p) ==
  LET c == Call(p)
      path == PathOf(c.value, c.max) IN
  /\ c.pc = "make"
  /\ \A d \in Needed(path, c.kind) : d \in pd_dirs \/ ~Exists(d)
  /\ pd_dirs' = pd_dirs \cup Needed(path, c.kind)
  /\ pd_items' = {i \in pd_items : i.value # c.value}
       \cup {[value |-> c.value, kind |-> c.kind, at |-> Place(path, c.kind)]}
  /\ \A i \in pd_items : i.value = c.value => i.kind = c.kind
  /\ c.kind = "directory" \/ ~IsDirectory(Place(path, c.kind))
  /\ pd_calls' = [pd_calls EXCEPT ![p].pc = "unlock",
       ![p].printed = IF c.value > c.max \/ c.unset THEN {c.value} ELSE {}]
  /\ UNCHANGED <<pd_exists, pd_conf, pd_locks, pd_excuses, pd_count>>

PD_Unlock(p) ==
  /\ Call(p).pc = "unlock"
  /\ pd_locks' = [pd_locks EXCEPT ![p] = "none"]
  /\ Goes(p, "close")
  /\ UNCHANGED <<pd_dirs, pd_items, pd_exists, pd_conf, pd_excuses, pd_count>>

PD_Close(p) ==
  /\ Call(p).pc = "close"
  /\ pd_conf' = IF Call(p).printed = {} THEN pd_conf ELSE Call(p).printed
  /\ pd_calls' = [pd_calls EXCEPT ![p] = NoDbCall]
  /\ UNCHANGED <<pd_dirs, pd_items, pd_exists, pd_locks, pd_excuses, pd_count>>

(* A step fails, or the process dies: the lock is given up, what was       *)
(* printed is not written. What was moved stays where it is.               *)
PD_Stop(p) ==
  /\ Call(p).pc # "idle"
  /\ pd_locks' = [pd_locks EXCEPT ![p] = "none"]
  /\ pd_calls' = [pd_calls EXCEPT ![p] = NoDbCall]
  /\ pd_excuses' = pd_excuses
       \cup (IF Call(p).pc \in {"digits", "strays", "lift", "make"} /\ NewLevels(Call(p)) > 0
             THEN {"stopped"} ELSE {})
       \cup (IF Call(p).printed # {} THEN {"stopped"} ELSE {})
  /\ UNCHANGED <<pd_dirs, pd_items, pd_exists, pd_conf, pd_count>>

PD_Next ==
  \E p \in PD_Processes :
    \/ PD_Open(p) \/ PD_CreateConf(p) \/ PD_Lock(p)
    \/ PD_MoveDigit(p) \/ PD_MoveStrays(p) \/ PD_Lift(p)
    \/ PD_Make(p) \/ PD_Unlock(p) \/ PD_Close(p) \/ PD_Stop(p)

PD_Spec == PD_Init /\ [][PD_Next]_pd_vars
-----------------------------------------------------------------------------
(* The largest number, with one that is printed and not yet in the file.   *)
Largest ==
  LET numbers == pd_conf \cup UNION {Call(p).printed : p \in PD_Processes} IN
  IF numbers = {} THEN 0 ELSE CHOOSE n \in numbers : \A m \in numbers : m <= n

(* What a client has put at the path of a number is found at the path that *)
(* is given for it later, however many digits the paths have got: while    *)
(* nobody adds a level, and unless a number came that had two digits more  *)
(* than the largest before, a process stopped on the way, read the largest *)
(* number before another had written it, or emptied the file as another    *)
(* created it. No two items meet.                                          *)
Growing == \E p \in PD_Processes : Call(p).pc \in {"digits", "strays", "lift", "make"}

PD_Found ==
  pd_excuses = {} /\ ~Growing =>
    /\ \A i \in pd_items : i.at = Place(PathOf(i.value, Largest), i.kind)
    /\ \A i, j \in pd_items : i.at = j.at => i = j
=============================================================================
