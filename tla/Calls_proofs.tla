---------------------------- MODULE Calls_proofs ----------------------------
(***************************************************************************)
(* Proofs about calls that take many steps while something outside them    *)
(* moves: a filter and its command (Filter), a safe copy or a move of a    *)
(* file that may be interrupted (FileCopies), a talk with an SMTP server   *)
(* (Mail), and a tar archive whose writer may die (Archives). Each holds   *)
(* for every value of the constants that the assumptions of these modules  *)
(* admit.                                                                  *)
(***************************************************************************)
EXTENDS Filter, FileCopies, Mail, Archives, SequenceTheorems, FiniteSetTheorems, TLAPS

(* Filters. A caller and its command never wait for one another.           *)

(* The data on their way. Only the caller adds to them, and only a read of *)
(* the caller takes from them: the command moves them along.               *)
OnTheWay == fi_in + fi_held + fi_out

Steps == {"pipes", "fork", "next", "write", "drain", "bad", "wait", "done", "killed"}

FI_TypeOK ==
  /\ fi_step \in Steps
  /\ fi_lines \in Nat
  /\ fi_left \in 0 .. FI_MaxLine
  /\ fi_in \in 0 .. FI_Capacity /\ fi_held \in 0 .. FI_Backlog /\ fi_out \in 0 .. FI_Capacity
  /\ fi_command \in {"none", "reaped"} \cup Live \cup Ended

(* When the caller has read all there was, no more is on its way than the  *)
(* pipe to the command and the command hold, and until it reads again only *)
(* the one line that is being written is added.                            *)
RoomForALine ==
  /\ fi_step = "next" => OnTheWay <= FI_Capacity + FI_Backlog
  /\ fi_step = "write" => OnTheWay + fi_left <= FI_Capacity + FI_Backlog + FI_MaxLine

(* A command that writes has something to write; a line that is written is *)
(* not at its end.                                                         *)
Underway ==
  /\ fi_command = "writing" => fi_held >= 1
  /\ fi_step = "write" => fi_left >= 1

(* Neither a command nor data before the fork, and no command that was not *)
(* waited for at the end.                                                  *)
Waited ==
  /\ fi_step \in {"pipes", "fork"} => fi_command = "none" /\ OnTheWay = 0
  /\ fi_step = "done" => fi_command \in {"none", "reaped"}

FI_Inv == FI_TypeOK /\ RoomForALine /\ Underway /\ Waited

-----------------------------------------------------------------------------
(* The invariant holds at first, and every step preserves it.              *)
LEMMA FilterInit == FI_Init => FI_Inv
  BY FilterAssumption
  DEF FI_Init, FI_Inv, FI_TypeOK, RoomForALine, Underway, Waited, OnTheWay, NoData, Steps, Live, Ended

LEMMA RoomLeft ==
  \A n \in Int : \A l \in 1 .. FI_MaxLine :
    n <= FI_Capacity + FI_Backlog => n + l <= FI_Capacity + FI_Backlog + FI_MaxLine
  BY FilterAssumption

LEMMA FilterStep == FI_Inv /\ [FI_Next]_fi_vars => FI_Inv'
<1> SUFFICES ASSUME FI_Inv, [FI_Next]_fi_vars
             PROVE  FI_Inv'
  OBVIOUS
<1> USE FilterAssumption
    DEF FI_Inv, FI_TypeOK, RoomForALine, Underway, Waited, OnTheWay, Steps, Live, Ended,
        SameData
<1>1. CASE FI_Pipes
  <2>1. fi_step = "pipes" /\ fi_step' \in {"done", "fork"}
    BY <1>1 DEF FI_Pipes
  <2>2. UNCHANGED <<fi_lines, fi_left, fi_in, fi_held, fi_out, fi_command>>
    BY <1>1 DEF FI_Pipes
  <2> QED
    BY <2>1, <2>2
<1>2. CASE FI_Fork
  <2>1. /\ fi_step = "fork"
        /\ \/ fi_step' = "done" /\ fi_command' \in {fi_command, "reaped"}
           \/ fi_step' = "next" /\ fi_command' = "reading"
    BY <1>2 DEF FI_Fork
  <2>2. UNCHANGED <<fi_lines, fi_left, fi_in, fi_held, fi_out>>
    BY <1>2 DEF FI_Fork
  <2> QED
    BY <2>1, <2>2
<1>3. CASE FI_NextLine
  <2>1. /\ fi_step = "next" /\ fi_step' = "write"
        /\ fi_left' \in 1 .. FI_MaxLine /\ fi_lines' = fi_lines + 1
    BY <1>3 DEF FI_NextLine
  <2>2. UNCHANGED <<fi_in, fi_held, fi_out, fi_command>>
    BY <1>3 DEF FI_NextLine, Caller
  <2>3. FI_TypeOK' /\ Underway' /\ Waited'
    BY <2>1, <2>2
  <2>4. OnTheWay \in Int /\ OnTheWay <= FI_Capacity + FI_Backlog /\ OnTheWay' = OnTheWay
    BY <2>1, <2>2
  <2>5. PICK l \in 1 .. FI_MaxLine : fi_left' = l
    BY <2>1
  <2>6. OnTheWay + l <= FI_Capacity + FI_Backlog + FI_MaxLine
    BY <2>4, RoomLeft
  <2>7. RoomForALine'
    <3> HIDE DEF OnTheWay
    <3> QED BY <2>1, <2>4, <2>5, <2>6
  <2> QED
    BY <2>3, <2>7
<1>4. CASE FI_Write
  BY <1>4 DEF FI_Write, Caller
<1>5. CASE FI_Drain
  BY <1>5 DEF FI_Drain, Caller
<1>6. CASE FI_SendEof
  BY <1>6 DEF FI_SendEof, Caller
<1>7. CASE FI_Kill
  BY <1>7 DEF FI_Kill
<1>8. CASE FI_Wait
  BY <1>8 DEF FI_Wait
<1>9. CASE FI_Read
  BY <1>9 DEF FI_Read, Command
<1>10. CASE FI_Flush
  BY <1>10 DEF FI_Flush, Command
<1>11. CASE FI_Put
  BY <1>11 DEF FI_Put, Command
<1>12. CASE FI_Exit
  BY <1>12 DEF FI_Exit, Command
<1>13. CASE UNCHANGED fi_vars
  BY <1>13 DEF fi_vars
<1> QED
  BY <1>1, <1>2, <1>3, <1>4, <1>5, <1>6, <1>7, <1>8, <1>9, <1>10, <1>11, <1>12, <1>13
  DEF FI_Next

(* Where both are blocked the pipes are full and the command holds         *)
(* something: one more than can be on the way while a line is written.     *)
LEMMA RoomSuffices == FI_Inv => FI_NeverStuck
<1> SUFFICES ASSUME FI_Inv
             PROVE  FI_NeverStuck
  OBVIOUS
<1>1. ASSUME CallerBlocked, CommandBlocked
      PROVE  FALSE
  <2>1. OnTheWay + fi_left <= FI_Capacity + FI_Backlog + FI_MaxLine
    BY <1>1 DEF FI_Inv, RoomForALine, CallerBlocked
  <2>2. OnTheWay + fi_left >= 2 * FI_Capacity + 2
    BY <1>1, FilterAssumption
    DEF FI_Inv, FI_TypeOK, Underway, OnTheWay, CallerBlocked, CommandBlocked
  <2> QED
    BY <2>1, <2>2, FilterAssumption DEF FI_Inv, FI_TypeOK, OnTheWay
<1> QED
  BY <1>1 DEF FI_Inv, Waited, FI_NeverStuck

(* The filter and its command are never stuck, and no call returns before  *)
(* its command was waited for (jr_NewStringFilteredFromCommandVector).     *)
THEOREM NeverStuck == FI_Spec => []FI_NeverStuck
  BY FilterInit, FilterStep, RoomSuffices, PTL DEF FI_Spec
-----------------------------------------------------------------------------
(* Copies of files. A file is known by its owner and its blocks; the       *)
(* invariant goes through the steps of the two calls: what is under each   *)
(* name, what has been given to stdio, and what may have failed by then.   *)

Files == [of : {"none", "to", "from"}, blocks : Nat]

FilesType == [to : Files, from : {NoFile, Whole("from")}, tmp : {NoFile, Whole("to")}]
CopySteps == {"idle", "access", "rename", "open", "opendata", "copy", "unlinktmp", "unlinknew",
              "renameback", "close", "unlinkold", "done", "error", "dead"}
CallType == [kind : {"none", "safecopy", "move"}, step : CopySteps, tmp : BOOLEAN]

FC_TypeOK ==
  /\ fc_files \in FilesType
  /\ fc_call \in CallType
  /\ fc_buffered \in Nat /\ fc_copied \in 0 .. FC_Blocks

(* Nothing was copied yet.                                                 *)
Untouched == fc_failed = {} /\ fc_buffered = 0 /\ fc_copied = 0

(* While no block was lost the new file and the buffer have what was read. *)
NoneLost ==
  fc_failed \cap {"read", "write"} = {} =>
    fc_files.to.of = "from" /\ fc_files.to.blocks + fc_buffered = fc_copied

(* The temporary name is gone, or the old file could not be unlinked.      *)
OldUnlinked ==
  fc_files.tmp = NoFile \/ ("unlink" \in fc_failed /\ fc_files.tmp = Whole("to"))

SafeCopyUnderway ==
  LET step == fc_call.step IN
  /\ step \in {"access", "rename", "open", "opendata", "copy", "unlinktmp", "unlinknew",
               "renameback", "close", "done", "error", "dead"}
  /\ step \in {"access", "rename", "open", "opendata"} => Untouched
  /\ step = "access" => ~fc_call.tmp /\ fc_files.to \in {NoFile, Whole("to")}
  /\ step = "rename" => fc_files.to = Whole("to")
  /\ step \in {"rename", "unlinknew", "renameback"} => fc_call.tmp
  /\ step \in {"open", "opendata", "copy", "unlinktmp", "unlinknew", "renameback"} /\ fc_call.tmp =>
       fc_files.tmp = Whole("to")
  /\ step \in {"opendata", "copy", "unlinktmp", "close"} => NoneLost
  /\ step \in {"copy", "unlinknew"} => fc_failed \subseteq {"read", "write"}
  /\ step = "renameback" => fc_failed \subseteq {"read", "write", "unlink"}
  /\ step = "unlinktmp" => fc_failed = {}
  /\ step \in {"unlinktmp", "close", "done"} => fc_copied = FC_Blocks
  /\ step = "close" => fc_failed \subseteq {"unlink"} /\ OldUnlinked

MoveUnderway ==
  LET step == fc_call.step IN
  /\ step \in {"rename", "opendata", "open", "copy", "close", "unlinkold",
               "done", "error", "dead"}
  /\ step \in {"rename", "opendata", "open"} => Untouched
  /\ step \in {"open", "copy", "close", "unlinkold"} => fc_files.from = Whole("from")
  /\ step \in {"copy", "close", "unlinkold"} => NoneLost
  /\ step \in {"close", "unlinkold"} /\ fc_failed \cap {"read", "write"} = {} => fc_copied = FC_Blocks
  /\ step = "unlinkold" => fc_buffered = 0

FC_Inv ==
  /\ FC_TypeOK
  /\ fc_call.kind = "none" => fc_call = FC_NoCall /\ Untouched /\ fc_files.to \in {NoFile, Whole("to")}
  /\ fc_call.kind = "safecopy" => SafeCopyUnderway
  /\ fc_call.kind = "move" => MoveUnderway
  /\ FC_NothingLost

LEMMA FilesDiffer ==
  /\ NoFile \in Files /\ Whole("to") \in Files /\ Whole("from") \in Files /\ Empty \in Files
  /\ NoFile # Whole("to") /\ NoFile # Whole("from") /\ Whole("to") # Whole("from")
  /\ Empty.of = "from" /\ Empty.blocks = 0
  /\ \A f \in Files : f = Whole("from") <=> f.of = "from" /\ f.blocks = FC_Blocks
  BY FileCopiesAssumption DEF NoFile, Whole, Files, Empty

(* What a step does to the call and to the names, part by part.            *)
CallBecomes(step, tmp) ==
  fc_call'.kind = fc_call.kind /\ fc_call'.step = step /\ fc_call'.tmp = tmp

FilesBecome(to, from, tmp) ==
  fc_files'.to = to /\ fc_files'.from = from /\ fc_files'.tmp = tmp

LEMMA StepTaken ==
  ASSUME FC_TypeOK, NEW s \in CopySteps, Step(s)
  PROVE  fc_call' \in CallType /\ CallBecomes(s, fc_call.tmp)
  BY DEF FC_TypeOK, Step, CallBecomes, CallType

LEMMA FilePut ==
  ASSUME FC_TypeOK, NEW f \in Files, fc_files' = With("to", f)
  PROVE  fc_files' \in FilesType /\ FilesBecome(f, fc_files.from, fc_files.tmp)
  BY DEF FC_TypeOK, With, FilesBecome, FilesType

LEMMA FilesAre ==
  ASSUME FC_TypeOK
  PROVE  /\ fc_files.to \in Files /\ fc_files.from \in {NoFile, Whole("from")}
         /\ fc_files.tmp \in {NoFile, Whole("to")}
         /\ fc_call.kind \in {"none", "safecopy", "move"} /\ fc_call.tmp \in BOOLEAN
         /\ fc_buffered \in Nat /\ fc_copied \in 0 .. FC_Blocks
  BY DEF FC_TypeOK, FilesType, CallType

LEMMA FileFlushed ==
  ASSUME FC_TypeOK
  PROVE  /\ Flushed(fc_files.to) \in Files
         /\ Flushed(fc_files.to).of = fc_files.to.of
         /\ Flushed(fc_files.to).blocks = fc_files.to.blocks + fc_buffered
<1>1. fc_files.to \in Files /\ fc_buffered \in Nat
  BY FilesAre
<1> QED
  BY <1>1 DEF Flushed, Files

LEMMA CopyInit == FC_Init => FC_Inv
<1> SUFFICES ASSUME FC_Init PROVE FC_Inv
  OBVIOUS
<1>1. fc_files.to \in {NoFile, Whole("to")} /\ FC_TypeOK
  <2>1. fc_files \in [to : {NoFile, Whole("to")}, from : {NoFile, Whole("from")}, tmp : {NoFile}]
    BY DEF FC_Init
  <2>2. fc_files \in FilesType /\ fc_files.to \in {NoFile, Whole("to")}
    BY <2>1, FilesDiffer DEF FilesType
  <2>3. fc_call \in CallType
    BY DEF FC_Init, FC_NoCall, CallType, CopySteps
  <2> QED BY <2>2, <2>3, FileCopiesAssumption DEF FC_Init, FC_TypeOK
<1>2. fc_call = FC_NoCall /\ fc_call.kind = "none" /\ Untouched
  BY DEF FC_Init, FC_NoCall, Untouched
<1> QED
  BY <1>1, <1>2 DEF FC_Inv, FC_NothingLost, At, FC_NoCall

LEMMA CallStep == FC_Inv /\ FC_Call => FC_Inv'
<1> SUFFICES ASSUME FC_Inv, FC_Call PROVE FC_Inv'
  OBVIOUS
<1>1. /\ FC_TypeOK /\ fc_call.kind = "none" /\ Untouched /\ fc_files.to \in {NoFile, Whole("to")}
      /\ UNCHANGED <<fc_files, fc_failed, fc_buffered, fc_copied>>
  BY DEF FC_Inv, FC_Call, FC_NoCall, NoIO
<1>2. \/ fc_call' = [kind |-> "safecopy", step |-> "access", tmp |-> FALSE]
      \/ fc_call' = [kind |-> "move", step |-> "rename", tmp |-> FALSE]
  BY DEF FC_Call
<1>3. fc_call' \in CallType
  <2>1. [kind |-> "safecopy", step |-> "access", tmp |-> FALSE] \in CallType
    BY DEF CallType, CopySteps
  <2>2. [kind |-> "move", step |-> "rename", tmp |-> FALSE] \in CallType
    BY DEF CallType, CopySteps
  <2> QED BY <1>2, <2>1, <2>2
<1>4. FC_TypeOK'
  BY <1>1, <1>3 DEF FC_TypeOK
<1> QED
  BY <1>1, <1>2, <1>4, FilesAre
  DEF FC_Inv, SafeCopyUnderway, MoveUnderway, Untouched, FC_NothingLost, At

LEMMA CrashStep == FC_Inv /\ FC_Crash => FC_Inv'
<1> SUFFICES ASSUME FC_Inv, FC_Crash PROVE FC_Inv'
  OBVIOUS
<1>1. /\ FC_TypeOK /\ Step("dead") /\ UNCHANGED <<fc_files, fc_copied, fc_failed>>
      /\ fc_buffered' = 0 /\ fc_call.kind \in {"safecopy", "move"}
      /\ fc_call.step \notin {"done", "error", "dead"}
  BY FilesAre DEF FC_Inv, FC_Crash, Over
<1>2. fc_call' \in CallType /\ CallBecomes("dead", fc_call.tmp)
  BY <1>1, StepTaken DEF CopySteps
<1>3. FC_TypeOK'
  BY <1>1, <1>2 DEF FC_TypeOK
<1>4. CASE fc_call.kind = "safecopy"
  BY <1>1, <1>2, <1>3, <1>4, FilesAre DEF FC_Inv, SafeCopyUnderway, FC_NothingLost, At, CallBecomes
<1>5. CASE fc_call.kind = "move"
  BY <1>1, <1>2, <1>3, <1>5, FilesAre DEF FC_Inv, MoveUnderway, FC_NothingLost, At, CallBecomes
<1> QED
  BY <1>1, <1>4, <1>5

LEMMA AccessStep == FC_Inv /\ SC_Access => FC_Inv'
<1> SUFFICES ASSUME FC_Inv, SC_Access PROVE FC_Inv'
  OBVIOUS
<1>1. /\ FC_TypeOK /\ fc_call.kind = "safecopy" /\ fc_call.step = "access"
      /\ UNCHANGED <<fc_files, fc_failed, fc_buffered, fc_copied>>
  BY DEF FC_Inv, SC_Access, NoIO, At
<1>2. Untouched /\ fc_files.to \in {NoFile, Whole("to")}
  BY <1>1 DEF FC_Inv, SafeCopyUnderway
<1>3. \E s \in {"open", "rename"} :
        /\ fc_call' = [fc_call EXCEPT !.step = s, !.tmp = fc_files.to # NoFile]
        /\ s = "rename" <=> fc_files.to # NoFile
  BY DEF SC_Access
<1>4. PICK s \in {"open", "rename"} :
        /\ fc_call' \in CallType /\ CallBecomes(s, fc_files.to # NoFile)
        /\ s = "rename" <=> fc_files.to # NoFile
  BY <1>1, <1>3 DEF FC_TypeOK, CallType, CopySteps, CallBecomes
<1>5. FC_TypeOK'
  BY <1>1, <1>4 DEF FC_TypeOK
<1> QED
  BY <1>1, <1>2, <1>4, <1>5, FilesAre
  DEF FC_Inv, SafeCopyUnderway, FC_NothingLost, At, Untouched, CallBecomes

LEMMA RenameAwayStep == FC_Inv /\ SC_RenameAway => FC_Inv'
<1> SUFFICES ASSUME FC_Inv, SC_RenameAway PROVE FC_Inv'
  OBVIOUS
<1>1. /\ FC_TypeOK /\ fc_call.kind = "safecopy" /\ fc_call.step = "rename"
      /\ UNCHANGED <<fc_buffered, fc_copied>>
  BY DEF FC_Inv, SC_RenameAway, NoIO, At
<1>2. fc_files.to = Whole("to") /\ Untouched /\ fc_call.tmp
  BY <1>1 DEF FC_Inv, SafeCopyUnderway
<1>3. CASE /\ fc_files' = [fc_files EXCEPT !.tmp = fc_files.to, !.to = NoFile]
           /\ Step("open") /\ UNCHANGED fc_failed
  <2>1. fc_files' \in FilesType /\ FilesBecome(NoFile, fc_files.from, Whole("to"))
    BY <1>1, <1>2, <1>3, FilesDiffer DEF FC_TypeOK, FilesType, FilesBecome
  <2>2. fc_call' \in CallType /\ CallBecomes("open", fc_call.tmp)
    BY <1>1, <1>3, StepTaken DEF CopySteps
  <2>3. FC_TypeOK'
    BY <1>1, <2>1, <2>2 DEF FC_TypeOK
  <2> QED
    BY <1>1, <1>2, <1>3, <2>1, <2>2, <2>3
    DEF FC_Inv, SafeCopyUnderway, FC_NothingLost, At, Untouched, CallBecomes, FilesBecome
<1>4. CASE Step("error") /\ Failed("rename") /\ UNCHANGED fc_files
  <2>1. fc_call' \in CallType /\ CallBecomes("error", fc_call.tmp)
    BY <1>1, <1>4, StepTaken DEF CopySteps
  <2>2. FC_TypeOK'
    BY <1>1, <1>4, <2>1 DEF FC_TypeOK
  <2> QED
    BY <1>1, <1>2, <1>4, <2>1, <2>2
    DEF FC_Inv, SafeCopyUnderway, FC_NothingLost, At, Untouched, CallBecomes, Failed
<1> QED
  BY <1>3, <1>4 DEF SC_RenameAway

LEMMA OpenNewStep == FC_Inv /\ SC_OpenNew => FC_Inv'
<1> SUFFICES ASSUME FC_Inv, SC_OpenNew PROVE FC_Inv'
  OBVIOUS
<1>1. /\ FC_TypeOK /\ fc_call.kind = "safecopy" /\ fc_call.step = "open"
      /\ UNCHANGED <<fc_buffered, fc_copied>>
  BY DEF FC_Inv, SC_OpenNew, NoIO, At
<1>2. Untouched /\ (fc_call.tmp => fc_files.tmp = Whole("to"))
  BY <1>1 DEF FC_Inv, SafeCopyUnderway
<1>3. CASE fc_files' = With("to", Empty) /\ Step("opendata") /\ UNCHANGED fc_failed
  <2>1. fc_files' \in FilesType /\ FilesBecome(Empty, fc_files.from, fc_files.tmp)
    BY <1>1, <1>3, FilesDiffer, FilePut
  <2>2. fc_call' \in CallType /\ CallBecomes("opendata", fc_call.tmp)
    BY <1>1, <1>3, StepTaken DEF CopySteps
  <2>3. FC_TypeOK'
    BY <1>1, <2>1, <2>2 DEF FC_TypeOK
  <2> QED
    BY <1>1, <1>2, <1>3, <2>1, <2>2, <2>3, FilesDiffer
    DEF FC_Inv, SafeCopyUnderway, NoneLost, FC_NothingLost, At, Untouched, CallBecomes, FilesBecome
<1>4. CASE Step("error") /\ Failed("open") /\ UNCHANGED fc_files
  <2>1. fc_call' \in CallType /\ CallBecomes("error", fc_call.tmp)
    BY <1>1, <1>4, StepTaken DEF CopySteps
  <2>2. FC_TypeOK'
    BY <1>1, <1>4, <2>1 DEF FC_TypeOK
  <2> QED
    BY <1>1, <1>2, <1>4, <2>1, <2>2
    DEF FC_Inv, SafeCopyUnderway, FC_NothingLost, At, Untouched, CallBecomes, Failed
<1> QED
  BY <1>3, <1>4 DEF SC_OpenNew

LEMMA OpenDataStep == FC_Inv /\ SC_OpenData => FC_Inv'
<1> SUFFICES ASSUME FC_Inv, SC_OpenData PROVE FC_Inv'
  OBVIOUS
<1>1. /\ FC_TypeOK /\ fc_call.kind = "safecopy" /\ fc_call.step = "opendata"
      /\ UNCHANGED <<fc_files, fc_buffered, fc_copied>>
  BY DEF FC_Inv, SC_OpenData, NoIO, At
<1>2. Untouched /\ NoneLost /\ (fc_call.tmp => fc_files.tmp = Whole("to"))
  BY <1>1 DEF FC_Inv, SafeCopyUnderway
<1>3. ASSUME NEW s \in {"copy", "error"}, Step(s),
             s = "copy" => UNCHANGED fc_failed, s = "error" => Failed("open")
      PROVE  FC_Inv'
  <2>1. fc_call' \in CallType /\ CallBecomes(s, fc_call.tmp)
    BY <1>1, <1>3, StepTaken DEF CopySteps
  <2>2. FC_TypeOK'
    BY <1>1, <2>1 DEF FC_TypeOK
  <2> QED
    BY <1>1, <1>2, <1>3, <2>1, <2>2
    DEF FC_Inv, SafeCopyUnderway, NoneLost, FC_NothingLost, At, Untouched, CallBecomes, Failed
<1> QED
  BY <1>3 DEF SC_OpenData

LEMMA CopiedStep == FC_Inv /\ SC_Copied => FC_Inv'
<1> SUFFICES ASSUME FC_Inv, SC_Copied PROVE FC_Inv'
  OBVIOUS
<1>1. /\ FC_TypeOK /\ fc_call.kind = "safecopy" /\ fc_call.step = "copy"
      /\ UNCHANGED <<fc_files, fc_failed, fc_buffered, fc_copied>>
  BY DEF FC_Inv, SC_Copied, NoIO, At
<1>2. /\ NoneLost /\ fc_failed \subseteq {"read", "write"}
      /\ fc_call.tmp => fc_files.tmp = Whole("to")
  BY <1>1 DEF FC_Inv, SafeCopyUnderway
<1>3. ASSUME NEW s \in {"unlinktmp", "unlinknew", "error"}, Step(s),
             s = "unlinktmp" => fc_failed = {} /\ fc_copied = FC_Blocks,
             s = "unlinknew" => fc_call.tmp, s = "error" => ~fc_call.tmp
      PROVE  FC_Inv'
  <2>1. fc_call' \in CallType /\ CallBecomes(s, fc_call.tmp)
    BY <1>1, <1>3, StepTaken DEF CopySteps
  <2>2. FC_TypeOK'
    BY <1>1, <2>1 DEF FC_TypeOK
  <2> QED
    BY <1>1, <1>2, <1>3, <2>1, <2>2
    DEF FC_Inv, SafeCopyUnderway, NoneLost, FC_NothingLost, At, CallBecomes
<1>4. fc_call.tmp \in BOOLEAN
  BY <1>1, FilesAre
<1> QED
  BY <1>2, <1>3, <1>4 DEF SC_Copied

LEMMA UnlinkNewStep == FC_Inv /\ SC_UnlinkNew => FC_Inv'
<1> SUFFICES ASSUME FC_Inv, SC_UnlinkNew PROVE FC_Inv'
  OBVIOUS
<1>1. /\ FC_TypeOK /\ fc_call.kind = "safecopy" /\ fc_call.step = "unlinknew"
      /\ Step("renameback") /\ UNCHANGED <<fc_buffered, fc_copied>>
  BY DEF FC_Inv, SC_UnlinkNew, NoIO, At
<1>2. /\ fc_call.tmp /\ fc_failed \subseteq {"read", "write"} /\ fc_files.tmp = Whole("to")
  BY <1>1 DEF FC_Inv, SafeCopyUnderway
<1>3. fc_call' \in CallType /\ CallBecomes("renameback", fc_call.tmp)
  BY <1>1, StepTaken DEF CopySteps
<1>4. CASE fc_files' = With("to", NoFile) /\ UNCHANGED fc_failed
  <2>1. fc_files' \in FilesType /\ FilesBecome(NoFile, fc_files.from, fc_files.tmp)
    BY <1>1, <1>4, FilesDiffer, FilePut
  <2>2. FC_TypeOK'
    BY <1>1, <1>3, <2>1 DEF FC_TypeOK
  <2> QED
    BY <1>1, <1>2, <1>3, <1>4, <2>1, <2>2
    DEF FC_Inv, SafeCopyUnderway, FC_NothingLost, At, CallBecomes, FilesBecome
<1>5. CASE Failed("unlink") /\ UNCHANGED fc_files
  <2>1. FC_TypeOK'
    BY <1>1, <1>3, <1>5 DEF FC_TypeOK
  <2> QED
    BY <1>1, <1>2, <1>3, <1>5, <2>1
    DEF FC_Inv, SafeCopyUnderway, FC_NothingLost, At, CallBecomes, Failed
<1> QED
  BY <1>4, <1>5 DEF SC_UnlinkNew

LEMMA RenameBackStep == FC_Inv /\ SC_RenameBack => FC_Inv'
<1> SUFFICES ASSUME FC_Inv, SC_RenameBack PROVE FC_Inv'
  OBVIOUS
<1>1. /\ FC_TypeOK /\ fc_call.kind = "safecopy" /\ fc_call.step = "renameback"
      /\ Step("error") /\ UNCHANGED <<fc_buffered, fc_copied>>
  BY DEF FC_Inv, SC_RenameBack, NoIO, At
<1>2. /\ fc_call.tmp /\ fc_failed \subseteq {"read", "write", "unlink"} /\ fc_files.tmp = Whole("to")
  BY <1>1 DEF FC_Inv, SafeCopyUnderway
<1>3. fc_call' \in CallType /\ CallBecomes("error", fc_call.tmp)
  BY <1>1, StepTaken DEF CopySteps
<1>4. CASE /\ fc_files' = [fc_files EXCEPT !.to = fc_files.tmp, !.tmp = NoFile]
           /\ UNCHANGED fc_failed
  <2>1. fc_files' \in FilesType /\ FilesBecome(Whole("to"), fc_files.from, NoFile)
    BY <1>1, <1>2, <1>4, FilesDiffer DEF FC_TypeOK, FilesType, FilesBecome
  <2>2. FC_TypeOK'
    BY <1>1, <1>3, <2>1 DEF FC_TypeOK
  <2> QED
    BY <1>1, <1>2, <1>3, <1>4, <2>1, <2>2
    DEF FC_Inv, SafeCopyUnderway, FC_NothingLost, At, CallBecomes, FilesBecome
<1>5. CASE Failed("renameback") /\ UNCHANGED fc_files
  <2>1. FC_TypeOK'
    BY <1>1, <1>3, <1>5 DEF FC_TypeOK
  <2> QED
    BY <1>1, <1>2, <1>3, <1>5, <2>1
    DEF FC_Inv, SafeCopyUnderway, FC_NothingLost, At, CallBecomes, Failed
<1> QED
  BY <1>4, <1>5 DEF SC_RenameBack

LEMMA UnlinkTmpStep == FC_Inv /\ SC_UnlinkTmp => FC_Inv'
<1> SUFFICES ASSUME FC_Inv, SC_UnlinkTmp PROVE FC_Inv'
  OBVIOUS
<1>1. /\ FC_TypeOK /\ fc_call.kind = "safecopy" /\ fc_call.step = "unlinktmp"
      /\ Step("close") /\ UNCHANGED <<fc_buffered, fc_copied>>
  BY DEF FC_Inv, SC_UnlinkTmp, NoIO, At
<1>2. NoneLost /\ fc_failed = {} /\ fc_copied = FC_Blocks
  BY <1>1 DEF FC_Inv, SafeCopyUnderway
<1>3. fc_call' \in CallType /\ CallBecomes("close", fc_call.tmp)
  BY <1>1, StepTaken DEF CopySteps
<1>4. CASE fc_files' = With("tmp", NoFile) /\ UNCHANGED fc_failed
  <2>1. fc_files' \in FilesType /\ FilesBecome(fc_files.to, fc_files.from, NoFile)
    BY <1>1, <1>4, FilesDiffer DEF FC_TypeOK, FilesType, FilesBecome, With
  <2>2. FC_TypeOK'
    BY <1>1, <1>3, <2>1 DEF FC_TypeOK
  <2> QED
    BY <1>1, <1>2, <1>3, <1>4, <2>1, <2>2
    DEF FC_Inv, SafeCopyUnderway, NoneLost, OldUnlinked, FC_NothingLost, At, CallBecomes, FilesBecome
<1>5. CASE Failed("unlink") /\ UNCHANGED fc_files
  <2>1. FC_TypeOK'
    BY <1>1, <1>3, <1>5 DEF FC_TypeOK
  <2>2. fc_failed' = {"unlink"} /\ OldUnlinked'
    BY <1>1, <1>2, <1>5, FilesAre DEF Failed, OldUnlinked
  <2> QED
    BY <1>1, <1>2, <1>3, <1>5, <2>1, <2>2
    DEF FC_Inv, SafeCopyUnderway, NoneLost, FC_NothingLost, At, CallBecomes
<1> QED
  BY <1>4, <1>5 DEF SC_UnlinkTmp

LEMMA MoveRenameStep == FC_Inv /\ MV_Rename => FC_Inv'
<1> SUFFICES ASSUME FC_Inv, MV_Rename PROVE FC_Inv'
  OBVIOUS
<1>1. /\ FC_TypeOK /\ fc_call.kind = "move" /\ fc_call.step = "rename"
      /\ UNCHANGED <<fc_buffered, fc_copied>>
  BY DEF FC_Inv, MV_Rename, NoIO, At
<1>2. Untouched /\ fc_files.from \in {NoFile, Whole("from")}
  BY <1>1, FilesAre DEF FC_Inv, MoveUnderway
<1>3. CASE /\ fc_files.from # NoFile
           /\ fc_files' = [fc_files EXCEPT !.to = fc_files.from, !.from = NoFile]
           /\ Step("done") /\ UNCHANGED fc_failed
  <2>1. fc_files' \in FilesType /\ FilesBecome(Whole("from"), NoFile, fc_files.tmp)
    BY <1>1, <1>2, <1>3, FilesDiffer DEF FC_TypeOK, FilesType, FilesBecome
  <2>2. fc_call' \in CallType /\ CallBecomes("done", fc_call.tmp)
    BY <1>1, <1>3, StepTaken DEF CopySteps
  <2>3. FC_TypeOK'
    BY <1>1, <2>1, <2>2 DEF FC_TypeOK
  <2> QED
    BY <1>1, <1>2, <1>3, <2>1, <2>2, <2>3
    DEF FC_Inv, MoveUnderway, FC_NothingLost, At, Untouched, CallBecomes, FilesBecome
<1>4. ASSUME NEW s \in {"error", "opendata"}, Step(s), UNCHANGED fc_files,
             s = "opendata" => UNCHANGED fc_failed, s = "error" => Failed("rename")
      PROVE  FC_Inv'
  <2>1. fc_call' \in CallType /\ CallBecomes(s, fc_call.tmp)
    BY <1>1, <1>4, StepTaken DEF CopySteps
  <2>2. FC_TypeOK'
    BY <1>1, <1>4, <2>1 DEF FC_TypeOK
  <2> QED
    BY <1>1, <1>2, <1>4, <2>1, <2>2
    DEF FC_Inv, MoveUnderway, FC_NothingLost, At, Untouched, CallBecomes, Failed
<1> QED
  BY <1>3, <1>4 DEF MV_Rename

LEMMA MoveOpenOldStep == FC_Inv /\ MV_OpenOld => FC_Inv'
<1> SUFFICES ASSUME FC_Inv, MV_OpenOld PROVE FC_Inv'
  OBVIOUS
<1>1. /\ FC_TypeOK /\ fc_call.kind = "move" /\ fc_call.step = "opendata"
      /\ UNCHANGED <<fc_files, fc_buffered, fc_copied>>
  BY DEF FC_Inv, MV_OpenOld, NoIO, At
<1>2. Untouched /\ fc_files.from \in {NoFile, Whole("from")}
  BY <1>1, FilesAre DEF FC_Inv, MoveUnderway
<1>3. ASSUME NEW s \in {"open", "error"}, Step(s),
             s = "open" => fc_files.from # NoFile /\ UNCHANGED fc_failed,
             s = "error" => Failed("open")
      PROVE  FC_Inv'
  <2>1. fc_call' \in CallType /\ CallBecomes(s, fc_call.tmp)
    BY <1>1, <1>3, StepTaken DEF CopySteps
  <2>2. FC_TypeOK'
    BY <1>1, <2>1 DEF FC_TypeOK
  <2> QED
    BY <1>1, <1>2, <1>3, <2>1, <2>2
    DEF FC_Inv, MoveUnderway, FC_NothingLost, At, Untouched, CallBecomes, Failed
<1> QED
  BY <1>3 DEF MV_OpenOld

LEMMA MoveOpenNewStep == FC_Inv /\ MV_OpenNew => FC_Inv'
<1> SUFFICES ASSUME FC_Inv, MV_OpenNew PROVE FC_Inv'
  OBVIOUS
<1>1. /\ FC_TypeOK /\ fc_call.kind = "move" /\ fc_call.step = "open"
      /\ UNCHANGED <<fc_buffered, fc_copied>>
  BY DEF FC_Inv, MV_OpenNew, NoIO, At
<1>2. Untouched /\ fc_files.from = Whole("from")
  BY <1>1 DEF FC_Inv, MoveUnderway
<1>3. CASE fc_files' = With("to", Empty) /\ Step("copy") /\ UNCHANGED fc_failed
  <2>1. fc_files' \in FilesType /\ FilesBecome(Empty, fc_files.from, fc_files.tmp)
    BY <1>1, <1>3, FilesDiffer, FilePut
  <2>2. fc_call' \in CallType /\ CallBecomes("copy", fc_call.tmp)
    BY <1>1, <1>3, StepTaken DEF CopySteps
  <2>3. FC_TypeOK'
    BY <1>1, <2>1, <2>2 DEF FC_TypeOK
  <2> QED
    BY <1>1, <1>2, <1>3, <2>1, <2>2, <2>3, FilesDiffer
    DEF FC_Inv, MoveUnderway, NoneLost, FC_NothingLost, At, Untouched, CallBecomes, FilesBecome
<1>4. CASE Step("error") /\ Failed("open") /\ UNCHANGED fc_files
  <2>1. fc_call' \in CallType /\ CallBecomes("error", fc_call.tmp)
    BY <1>1, <1>4, StepTaken DEF CopySteps
  <2>2. FC_TypeOK'
    BY <1>1, <1>4, <2>1 DEF FC_TypeOK
  <2> QED
    BY <1>1, <1>2, <1>4, <2>1, <2>2
    DEF FC_Inv, MoveUnderway, FC_NothingLost, At, CallBecomes
<1> QED
  BY <1>3, <1>4 DEF MV_OpenNew

LEMMA MoveCopiedStep == FC_Inv /\ MV_Copied => FC_Inv'
<1> SUFFICES ASSUME FC_Inv, MV_Copied PROVE FC_Inv'
  OBVIOUS
<1>1. /\ FC_TypeOK /\ fc_call.kind = "move" /\ fc_call.step = "copy" /\ Step("close")
      /\ fc_copied = FC_Blocks \/ "read" \in fc_failed
      /\ UNCHANGED <<fc_files, fc_failed, fc_buffered, fc_copied>>
  BY DEF FC_Inv, MV_Copied, NoIO, At
<1>2. NoneLost /\ fc_files.from = Whole("from")
  BY <1>1 DEF FC_Inv, MoveUnderway
<1>3. fc_call' \in CallType /\ CallBecomes("close", fc_call.tmp)
  BY <1>1, StepTaken DEF CopySteps
<1>4. FC_TypeOK'
  BY <1>1, <1>3 DEF FC_TypeOK
<1> QED
  BY <1>1, <1>2, <1>3, <1>4
  DEF FC_Inv, MoveUnderway, NoneLost, FC_NothingLost, At, CallBecomes

LEMMA MoveUnlinkStep == FC_Inv /\ MV_UnlinkOld => FC_Inv'
<1> SUFFICES ASSUME FC_Inv, MV_UnlinkOld PROVE FC_Inv'
  OBVIOUS
<1>1. /\ FC_TypeOK /\ fc_call.kind = "move" /\ fc_call.step = "unlinkold" /\ Step("done")
      /\ UNCHANGED <<fc_buffered, fc_copied>>
  BY DEF FC_Inv, MV_UnlinkOld, NoIO, At
<1>2. /\ NoneLost /\ fc_files.from = Whole("from") /\ fc_buffered = 0
      /\ fc_failed \cap {"read", "write"} = {} => fc_copied = FC_Blocks
  BY <1>1 DEF FC_Inv, MoveUnderway
<1>3. fc_failed \cap {"read", "write"} = {} => fc_files.to = Whole("from")
  <2>1. fc_files.to \in Files /\ fc_files.to.blocks \in Nat
    BY <1>1, FilesAre DEF Files
  <2>2. fc_failed \cap {"read", "write"} = {} =>
          fc_files.to.of = "from" /\ fc_files.to.blocks = FC_Blocks
    BY <1>2, <2>1, FileCopiesAssumption DEF NoneLost
  <2> QED BY <2>1, <2>2, FilesDiffer
<1>4. fc_call' \in CallType /\ CallBecomes("done", fc_call.tmp)
  BY <1>1, StepTaken DEF CopySteps
<1>5. CASE fc_files' = With("from", NoFile) /\ UNCHANGED fc_failed
  <2>1. fc_files' \in FilesType /\ FilesBecome(fc_files.to, NoFile, fc_files.tmp)
    BY <1>1, <1>5, FilesDiffer DEF FC_TypeOK, FilesType, FilesBecome, With
  <2>2. FC_TypeOK'
    BY <1>1, <1>4, <2>1 DEF FC_TypeOK
  <2> QED
    BY <1>1, <1>2, <1>3, <1>4, <1>5, <2>1, <2>2
    DEF FC_Inv, MoveUnderway, FC_NothingLost, At, CallBecomes, FilesBecome
<1>6. CASE Failed("unlink") /\ UNCHANGED fc_files
  <2>1. FC_TypeOK'
    BY <1>1, <1>4, <1>6 DEF FC_TypeOK
  <2> QED
    BY <1>1, <1>2, <1>4, <1>6, <2>1
    DEF FC_Inv, MoveUnderway, FC_NothingLost, At, CallBecomes
<1> QED
  BY <1>5, <1>6 DEF MV_UnlinkOld

LEMMA CopyBlockStep == FC_Inv /\ FC_CopyBlock => FC_Inv'
<1> SUFFICES ASSUME FC_Inv, FC_CopyBlock PROVE FC_Inv'
  OBVIOUS
<1>1. /\ FC_TypeOK /\ fc_call.step = "copy" /\ UNCHANGED <<fc_files, fc_call>>
      /\ fc_copied < FC_Blocks /\ fc_call.kind \in {"safecopy", "move"}
  BY FilesAre DEF FC_Inv, FC_CopyBlock, MayCopy, FC_NoCall
<1>2. fc_buffered \in Nat /\ fc_copied \in 0 .. FC_Blocks /\ fc_files.to \in Files
  BY <1>1, FilesAre
<1>3. NoneLost
  BY <1>1 DEF FC_Inv, SafeCopyUnderway, MoveUnderway
<1>4. CASE /\ fc_copied' = fc_copied + 1 /\ fc_buffered' = fc_buffered + 1
           /\ UNCHANGED fc_failed
  <2>1. FC_TypeOK'
    BY <1>1, <1>2, <1>4, FileCopiesAssumption DEF FC_TypeOK
  <2>2. NoneLost'
    <3>1. fc_files.to.blocks \in Nat
      BY <1>2 DEF Files
    <3>2. fc_files' = fc_files /\ fc_failed' = fc_failed
      BY <1>1, <1>4
    <3> QED BY <1>2, <1>3, <1>4, <3>1, <3>2 DEF NoneLost
  <2> QED
    BY <1>1, <1>4, <2>1, <2>2
    DEF FC_Inv, SafeCopyUnderway, MoveUnderway, FC_NothingLost, At
<1>5. CASE Failed("read") /\ NoIO
  <2>1. FC_TypeOK'
    BY <1>1, <1>5 DEF FC_TypeOK, NoIO
  <2>2. NoneLost'
    BY <1>5 DEF NoneLost, Failed
  <2> QED
    BY <1>1, <1>5, <2>1, <2>2
    DEF FC_Inv, SafeCopyUnderway, MoveUnderway, FC_NothingLost, At, Failed, NoIO
<1> QED
  BY <1>4, <1>5 DEF FC_CopyBlock

LEMMA FlushStep == FC_Inv /\ FC_Flush => FC_Inv'
<1> SUFFICES ASSUME FC_Inv, FC_Flush PROVE FC_Inv'
  OBVIOUS
<1>1. /\ FC_TypeOK /\ fc_call.step = "copy" /\ UNCHANGED <<fc_copied, fc_call>>
      /\ fc_buffered' = 0 /\ fc_call.kind \in {"safecopy", "move"}
  BY FilesAre DEF FC_Inv, FC_Flush, MayCopy, FC_NoCall
<1>2. fc_buffered \in Nat /\ fc_copied \in 0 .. FC_Blocks /\ fc_files.to \in Files
  BY <1>1, FilesAre
<1>3. NoneLost
  BY <1>1 DEF FC_Inv, SafeCopyUnderway, MoveUnderway
<1>4. CASE fc_files' = With("to", Flushed(fc_files.to)) /\ UNCHANGED fc_failed
  <2>1. /\ fc_files' \in FilesType
        /\ FilesBecome(Flushed(fc_files.to), fc_files.from, fc_files.tmp)
    BY <1>1, <1>4, FilePut, FileFlushed
  <2>2. FC_TypeOK'
    BY <1>1, <2>1 DEF FC_TypeOK
  <2>3. NoneLost'
    BY <1>1, <1>2, <1>3, <1>4, <2>1, FileFlushed DEF NoneLost, FilesBecome, Files
  <2>4. /\ fc_call.kind = "safecopy" /\ fc_call.tmp => fc_files.tmp = Whole("to")
        /\ fc_call.kind = "move" => fc_files.from = Whole("from")
    BY <1>1 DEF FC_Inv, SafeCopyUnderway, MoveUnderway
  <2> QED
    BY <1>1, <1>4, <2>1, <2>2, <2>3, <2>4
    DEF FC_Inv, SafeCopyUnderway, MoveUnderway, FC_NothingLost, At, FilesBecome
<1>5. CASE Failed("write") /\ UNCHANGED fc_files
  <2>1. FC_TypeOK'
    BY <1>1, <1>5 DEF FC_TypeOK
  <2>2. NoneLost'
    BY <1>5 DEF NoneLost, Failed
  <2> QED
    BY <1>1, <1>5, <2>1, <2>2
    DEF FC_Inv, SafeCopyUnderway, MoveUnderway, FC_NothingLost, At, Failed
<1> QED
  BY <1>4, <1>5 DEF FC_Flush

LEMMA CloseStep == FC_Inv /\ FC_Close => FC_Inv'
<1> SUFFICES ASSUME FC_Inv, FC_Close PROVE FC_Inv'
  OBVIOUS
<1>1. /\ FC_TypeOK /\ fc_call.step = "close" /\ UNCHANGED fc_copied
      /\ fc_buffered' = 0 /\ fc_call.kind \in {"safecopy", "move"}
      /\ Step(IF fc_call.kind = "move" THEN "unlinkold" ELSE "done")
  BY FilesAre DEF FC_Inv, FC_Close, FC_NoCall
<1>2. fc_buffered \in Nat /\ fc_copied \in 0 .. FC_Blocks /\ fc_files.to \in Files
  BY <1>1, FilesAre
<1>3. /\ NoneLost
      /\ fc_failed \cap {"read", "write"} = {} => fc_copied = FC_Blocks
      /\ fc_call.kind = "safecopy" =>
           fc_failed \subseteq {"unlink"} /\ fc_copied = FC_Blocks /\ OldUnlinked
      /\ fc_call.kind = "move" => fc_files.from = Whole("from")
  BY <1>1 DEF FC_Inv, SafeCopyUnderway, MoveUnderway
<1>4. PICK s \in {"unlinkold", "done"} :
        /\ s = "unlinkold" <=> fc_call.kind = "move"
        /\ fc_call' \in CallType /\ CallBecomes(s, fc_call.tmp)
  BY <1>1, StepTaken DEF CopySteps
<1>5. CASE fc_files' = With("to", Flushed(fc_files.to)) /\ UNCHANGED fc_failed
  <2>1. /\ fc_files' \in FilesType
        /\ FilesBecome(Flushed(fc_files.to), fc_files.from, fc_files.tmp)
    BY <1>1, <1>5, FilePut, FileFlushed
  <2>2. FC_TypeOK'
    BY <1>1, <1>4, <2>1 DEF FC_TypeOK
  <2>3. NoneLost'
    BY <1>1, <1>2, <1>3, <1>5, <2>1, FileFlushed DEF NoneLost, FilesBecome, Files
  <2>4. fc_failed \cap {"read", "write"} = {} => fc_files'.to = Whole("from")
    <3>1. fc_files'.to \in Files
      BY <2>1, <1>1, FileFlushed DEF FilesBecome
    <3> QED BY <1>1, <1>3, <1>5, <2>3, <3>1, FilesDiffer DEF NoneLost, Files
  <2> QED
    BY <1>1, <1>3, <1>4, <1>5, <2>1, <2>2, <2>3, <2>4
    DEF FC_Inv, SafeCopyUnderway, MoveUnderway, OldUnlinked, FC_NothingLost, At, CallBecomes, FilesBecome
<1>6. CASE Failed("write") /\ UNCHANGED fc_files
  <2>1. FC_TypeOK'
    BY <1>1, <1>4, <1>6 DEF FC_TypeOK
  <2>2. NoneLost'
    BY <1>6 DEF NoneLost, Failed
  <2> QED
    BY <1>1, <1>3, <1>4, <1>6, <2>1, <2>2
    DEF FC_Inv, SafeCopyUnderway, MoveUnderway, OldUnlinked, FC_NothingLost, At, Failed, CallBecomes
<1> QED
  BY <1>5, <1>6 DEF FC_Close

LEMMA CopyStep == FC_Inv /\ [FC_Next]_fc_vars => FC_Inv'
<1>1. FC_Inv /\ UNCHANGED fc_vars => FC_Inv'
  BY DEF fc_vars, FC_Inv, FC_TypeOK, Untouched, NoneLost, SafeCopyUnderway, MoveUnderway,
         OldUnlinked, FC_NothingLost, At
<1> QED
  BY <1>1, CallStep, CrashStep, AccessStep, RenameAwayStep, OpenNewStep, OpenDataStep,
     CopiedStep, UnlinkNewStep, RenameBackStep, UnlinkTmpStep, MoveRenameStep, MoveOpenOldStep,
     MoveOpenNewStep, MoveCopiedStep, MoveUnlinkStep, CopyBlockStep, FlushStep, CloseStep
  DEF FC_Next

(* Whatever fails, unlink included, and wherever the process dies,         *)
(* jr_FileNameSafeCopy leaves its caller the old data or the new ones,     *)
(* under a name it knows, for files of any number of blocks; and so does   *)
(* jr_MoveFileName across devices when it could read and write them all;   *)
(* otherwise the move loses the file.                                      *)
THEOREM NothingIsLost == FC_Spec => []FC_NothingLost
<1> QED
  BY CopyInit, CopyStep, PTL DEF FC_Spec, FC_Inv
-----------------------------------------------------------------------------
(* Mail. The invariant says which commands the server has still to read    *)
(* and what the next answer means: of mail, whatever the server greets,    *)
(* and of every call, when it greets once.                                 *)

StepsOf(kind) ==
  CASE kind = "message" -> {"connect", "greeting", "HELO", "MAIL", "RCPT", "DATA", "text", "QUIT", "done"}
    [] kind = "server" -> {"connect", "greeting", "HELO", "QUIT", "done"}
    [] kind = "server_for_sender" -> {"connect", "greeting", "HELO", "MAIL", "QUIT", "done"}
    [] kind = "address" -> {"connect", "greeting", "HELO", "MAIL", "RCPT", "QUIT", "done"}

SmtpCommands == {"HELO", "MAIL", "RCPT", "DATA", "text", "QUIT"}

SmtpServer == [greetings : Nat, state : {"greeting", "commands", "text", "closed"},
               sender : BOOLEAN, recipient : BOOLEAN, accepted : Nat]

TalkType ==
  /\ ma_call.kind \in Kinds /\ ma_call.step \in StepsOf(ma_call.kind) /\ ma_call.timed \in BOOLEAN
  /\ ma_call = [kind |-> ma_call.kind, step |-> ma_call.step, timed |-> ma_call.timed]

MA_TypeOK ==
  /\ TalkType
  /\ ma_valid \in BOOLEAN /\ ma_open \in BOOLEAN
  /\ ma_result \in {"none", "error", "ok", "valid", "invalid", "timed_out"}
  /\ ma_sent \in Seq(SmtpCommands) /\ ma_answers \in Seq({220, 221, 250, 251, 354, 550})
  /\ ma_server \in SmtpServer /\ ma_greetings \in Nat \ {0}

(* A result is what ends a call, and a server that has closed reads        *)
(* nothing more.                                                           *)
CallEnds ==
  /\ ma_result # "none" <=> ma_call.step = "done"
  /\ ma_call.step = "connect" => ~ma_open
  /\ ma_result \notin {"none", "timed_out"} => ~ma_open
  /\ ma_call.kind = "message" => ~ma_call.timed
  /\ ma_server.greetings > 0 <=> ma_server.state = "greeting"

(* The command of mail that comes before another one, and what the server  *)
(* may still have to read while the client waits for the answer to one.    *)
Earlier == [HELO |-> "none", MAIL |-> "HELO", RCPT |-> "MAIL", DATA |-> "RCPT",
            text |-> "DATA", QUIT |-> "text"]

Unread(c) == IF c = "HELO" THEN {<<>>, <<c>>} ELSE {<<>>, <<c>>, <<Earlier[c], c>>}

Answered == ma_answers # <<>> /\ Head(ma_answers) # 220

(* A client that has sent the text and gets 250 for an answer gets the     *)
(* answer to the text: those to DATA are others, and 220 ended the call.   *)
MailUnderway ==
  LET step == ma_call.step IN
  /\ step \in {"connect", "greeting"} => ma_sent = <<>>
  /\ step \in SmtpCommands => ma_sent \in Unread(step)
  /\ step \in SmtpCommands /\ Answered => ma_sent \in {<<>>, <<step>>}
  /\ step = "done" => \E c \in SmtpCommands : ma_sent \in Unread(c)
  /\ ma_server.state = "closed" => ma_sent = <<>>
  /\ step = "text" /\ Answered /\ Head(ma_answers) = 250 => ma_server.accepted = 1
  /\ step = "QUIT" => ma_server.accepted = 1
  /\ ma_server.accepted \in {0, 1}
  /\ ma_server.accepted = 1 => /\ step \in {"text", "QUIT", "done"}
                               /\ \A i \in 1 .. Len(ma_sent) : ma_sent[i] # "text"
  /\ ma_result = "ok" => ma_server.accepted = 1

(* What the one answer that has arrived says, when the server greets once. *)
Means(answer) ==
  LET step == ma_call.step IN
  /\ step = "greeting" => answer = 220
  /\ step = "MAIL" /\ answer = 250 => ma_server.sender
  /\ step = "RCPT" => (answer \in {250, 251} <=> ma_server.recipient)
  /\ step = "text" => (answer = 250 <=> ma_server.accepted = 1)
  /\ step = "QUIT" => answer = 221

Synchronous ==
  LET step == ma_call.step IN
  /\ step # "done" =>
       \/ ma_answers = <<>> /\ ma_sent = <<>> /\ (ma_server.greetings = 0 \/ step \in {"connect", "greeting"})
       \/ ma_answers = <<>> /\ ma_sent = <<step>> /\ step \in SmtpCommands /\ ma_server.greetings = 0
       \/ /\ ma_sent = <<>> /\ ma_server.greetings = 0
          /\ \E x \in {220, 221, 250, 251, 354, 550} : (ma_answers = <<x>> /\ Means(x))
  /\ step = "connect" => ma_answers = <<>>
  /\ ma_server.greetings \in {0, 1}
  /\ step # "done" /\ ma_server.state = "closed" => ma_sent = <<>>
  /\ step \in {"connect", "greeting", "HELO", "MAIL"} => ~ma_server.recipient
  /\ step = "RCPT" /\ ma_answers = <<>> => ~ma_server.recipient
  /\ step = "text" /\ ma_answers = <<>> => ma_server.accepted = 0
  /\ step = "QUIT" =>
       /\ ma_call.kind = "address" => (ma_valid <=> ma_server.recipient)
       /\ ma_call.kind = "server_for_sender" /\ ma_valid => ma_server.sender
  /\ ma_result \notin {"none", "timed_out"} => ma_sent = <<>>

MA_Inv ==
  /\ MA_TypeOK
  /\ CallEnds
  /\ IF ma_call.kind = "message" THEN MailUnderway
     ELSE ma_server.accepted = 0 /\ \A i \in 1 .. Len(ma_sent) : ma_sent[i] # "text"
  /\ ma_greetings = 1 => Synchronous
  /\ MA_TruthTold
-----------------------------------------------------------------------------
(* Mail. What follows a command, by the kind of the call.                  *)

Follower(kind, step) ==
  CASE step = "greeting" -> "HELO"
    [] step = "HELO" -> (IF kind = "server" THEN "QUIT" ELSE "MAIL")
    [] step = "MAIL" -> (IF kind = "server_for_sender" THEN "QUIT" ELSE "RCPT")
    [] step = "RCPT" -> (IF kind = "address" THEN "QUIT" ELSE "DATA")
    [] step = "DATA" -> "text"
    [] step = "text" -> "QUIT"

LEMMA MovePlace ==
  ASSUME NEW s, NEW n \in Nat, s \in Seq({"greeting", "HELO", "MAIL", "RCPT", "DATA", "text", "QUIT"}), Len(s) = n,
         \A i, j \in 1 .. n : s[i] = s[j] => i = j, NEW k \in 1 .. n
  PROVE (CHOOSE i \in DOMAIN s : s[i] = s[k]) = k
<1>1. DOMAIN s = 1 .. n OBVIOUS
<1> QED BY <1>1

LEMMA Followings ==
  ASSUME NEW kind \in Kinds, NEW step \in StepsOf(kind) \ {"connect", "QUIT", "done"}
  PROVE Following(kind, step) = Follower(kind, step)
<1> DEFINE c == Commands(kind)
<1>5. Following(kind, step) = c[1 + CHOOSE i \in DOMAIN c : c[i] = step] BY DEF Following
<1>1. CASE kind = "message"
  <2>1. c = <<"greeting", "HELO", "MAIL", "RCPT", "DATA", "text", "QUIT">> BY <1>1 DEF Commands
  <2> HIDE DEF c
  <2>2. \A k \in 1 .. 7 : (CHOOSE i \in DOMAIN c : c[i] = c[k]) = k BY <2>1, MovePlace
  <2>3. \E k \in 1 .. 6 : step = c[k] /\ c[k + 1] = Follower(kind, step)
    BY <1>1, <2>1 DEF Follower, StepsOf
  <2>4. PICK k \in 1 .. 6 : step = c[k] /\ c[k + 1] = Follower(kind, step) BY <2>3
  <2>5. (CHOOSE i \in DOMAIN c : c[i] = step) = k BY <2>2, <2>4
  <2>6. Following(kind, step) = c[1 + k] BY ONLY <1>5, <2>5, Zenon
  <2> QED BY <2>4, <2>6
<1>2. CASE kind = "server"
  <2>1. c = <<"greeting", "HELO", "QUIT">> BY <1>2 DEF Commands
  <2> HIDE DEF c
  <2>2. \A k \in 1 .. 3 : (CHOOSE i \in DOMAIN c : c[i] = c[k]) = k BY <2>1, MovePlace
  <2>3. \E k \in 1 .. 2 : step = c[k] /\ c[k + 1] = Follower(kind, step)
    BY <1>2, <2>1 DEF Follower, StepsOf
  <2>4. PICK k \in 1 .. 2 : step = c[k] /\ c[k + 1] = Follower(kind, step) BY <2>3
  <2>5. (CHOOSE i \in DOMAIN c : c[i] = step) = k BY <2>2, <2>4
  <2>6. Following(kind, step) = c[1 + k] BY ONLY <1>5, <2>5, Zenon
  <2> QED BY <2>4, <2>6
<1>3. CASE kind = "server_for_sender"
  <2>1. c = <<"greeting", "HELO", "MAIL", "QUIT">> BY <1>3 DEF Commands
  <2> HIDE DEF c
  <2>2. \A k \in 1 .. 4 : (CHOOSE i \in DOMAIN c : c[i] = c[k]) = k BY <2>1, MovePlace
  <2>3. \E k \in 1 .. 3 : step = c[k] /\ c[k + 1] = Follower(kind, step)
    BY <1>3, <2>1 DEF Follower, StepsOf
  <2>4. PICK k \in 1 .. 3 : step = c[k] /\ c[k + 1] = Follower(kind, step) BY <2>3
  <2>5. (CHOOSE i \in DOMAIN c : c[i] = step) = k BY <2>2, <2>4
  <2>6. Following(kind, step) = c[1 + k] BY ONLY <1>5, <2>5, Zenon
  <2> QED BY <2>4, <2>6
<1>4. CASE kind = "address"
  <2>1. c = <<"greeting", "HELO", "MAIL", "RCPT", "QUIT">> BY <1>4 DEF Commands
  <2> HIDE DEF c
  <2>2. \A k \in 1 .. 5 : (CHOOSE i \in DOMAIN c : c[i] = c[k]) = k BY <2>1, MovePlace
  <2>3. \E k \in 1 .. 4 : step = c[k] /\ c[k + 1] = Follower(kind, step)
    BY <1>4, <2>1 DEF Follower, StepsOf
  <2>4. PICK k \in 1 .. 4 : step = c[k] /\ c[k + 1] = Follower(kind, step) BY <2>3
  <2>5. (CHOOSE i \in DOMAIN c : c[i] = step) = k BY <2>2, <2>4
  <2>6. Following(kind, step) = c[1 + k] BY ONLY <1>5, <2>5, Zenon
  <2> QED BY <2>4, <2>6
<1> QED BY <1>1, <1>2, <1>3, <1>4 DEF Kinds

LEMMA MA_InitInv == MA_Init => MA_Inv
<1> SUFFICES ASSUME MA_Init PROVE MA_Inv OBVIOUS
<1>1. PICK n \in MA_Greetings : /\ ma_server = [greetings |-> n, state |-> "greeting",
                                     sender |-> FALSE, recipient |-> FALSE, accepted |-> 0]
                                /\ ma_greetings = n
  BY DEF MA_Init
<1>2. n \in Nat \ {0} BY MailAssumption
<1>3. MA_TypeOK
  <2>1. ma_server \in SmtpServer BY <1>1, <1>2 DEF SmtpServer
  <2>2. TalkType
    <3>1. ma_call \in [kind : Kinds, step : {"connect"}, timed : BOOLEAN] BY DEF MA_Init
    <3>2. "connect" \in StepsOf(ma_call.kind) BY <3>1 DEF StepsOf, Kinds
    <3> QED BY <3>1, <3>2 DEF TalkType
  <2>3. ma_sent \in Seq(SmtpCommands) /\ ma_answers \in Seq({220, 221, 250, 251, 354, 550}) BY DEF MA_Init
  <2>4. ma_valid \in BOOLEAN /\ ma_open \in BOOLEAN /\ ma_result = "none" BY DEF MA_Init
  <2>5. ma_greetings \in Nat \ {0} BY <1>1, <1>2
  <2> QED BY <2>1, <2>2, <2>3, <2>4, <2>5 DEF MA_TypeOK
<1>4. ma_call.step = "connect" BY DEF MA_Init
<1> QED BY <1>1, <1>2, <1>3, <1>4 DEF MA_Init, MA_Inv, CallEnds, MailUnderway, Synchronous, SmtpCommands,
          MA_TruthTold, Says, Answered

LEMMA TalkGoesOn ==
  ASSUME TalkType, NEW s \in StepsOf(ma_call.kind), ma_call' = [ma_call EXCEPT !.step = s]
  PROVE /\ TalkType' /\ ma_call'.step = s
        /\ ma_call'.kind = ma_call.kind /\ ma_call'.timed = ma_call.timed
<1>1. /\ ma_call'.step = s /\ ma_call'.kind = ma_call.kind /\ ma_call'.timed = ma_call.timed
      /\ ma_call' = [kind |-> ma_call.kind, step |-> s, timed |-> ma_call.timed]
  BY DEF TalkType
<1> QED BY <1>1 DEF TalkType

LEMMA TalkEnds ==
  ASSUME TalkType
  PROVE "done" \in StepsOf(ma_call.kind)
<1> QED BY DEF TalkType, StepsOf, Kinds

LEMMA MA_ConnectStep == ASSUME MA_Inv, MA_Connect PROVE MA_Inv'
<1>1. /\ ma_call.step = "connect"
      /\ UNCHANGED <<ma_valid, ma_sent, ma_answers, ma_server, ma_greetings>>
  BY DEF MA_Connect
<1>2. MA_TypeOK /\ CallEnds /\ MA_TruthTold /\ TalkType BY DEF MA_Inv, MA_TypeOK
<1>3. ma_result = "none" /\ ~ma_open BY <1>1, <1>2 DEF CallEnds
<1>4. CASE ma_call' = [ma_call EXCEPT !.step = "greeting"] /\ ma_open' = TRUE /\ UNCHANGED ma_result
  <2>1. "greeting" \in StepsOf(ma_call.kind) BY <1>2 DEF TalkType, StepsOf, Kinds
  <2>2. /\ TalkType' /\ ma_call'.step = "greeting"
        /\ ma_call'.kind = ma_call.kind /\ ma_call'.timed = ma_call.timed
    BY <1>2, <1>4, <2>1, TalkGoesOn
  <2>3. MA_TypeOK' BY <1>1, <1>2, <1>4, <2>2 DEF MA_TypeOK
  <2>4. CallEnds' BY <1>1, <1>2, <1>3, <1>4, <2>2 DEF CallEnds
  <2>5. MA_TruthTold' BY <1>1, <1>2, <1>3, <1>4, <2>2 DEF MA_TruthTold, Says
  <2>6. ma_call.kind = "message" => MailUnderway'
    BY <1>1, <1>2, <1>3, <1>4, <2>2 DEF MA_Inv, MailUnderway, SmtpCommands, Answered
  <2>7. ma_greetings = 1 => Synchronous'
    BY <1>1, <1>2, <1>3, <1>4, <2>2 DEF MA_Inv, Synchronous, SmtpCommands
  <2> QED BY <1>1, <2>2, <2>3, <2>4, <2>5, <2>6, <2>7 DEF MA_Inv
<1>5. CASE Return("error")
  <2>2. /\ TalkType' /\ ma_call'.step = "done"
        /\ ma_call'.kind = ma_call.kind /\ ma_call'.timed = ma_call.timed
    BY <1>2, <1>5, TalkEnds, TalkGoesOn DEF Return
  <2>3. ma_result' = "error" /\ ma_open' = FALSE BY <1>5 DEF Return
  <2>4. MA_TypeOK' BY <1>1, <1>2, <2>2, <2>3 DEF MA_TypeOK
  <2>5. CallEnds' BY <1>1, <1>2, <1>3, <2>2, <2>3 DEF CallEnds
  <2>6. ma_call.kind = "message" => MailUnderway' /\ ma_server.accepted = 0
    <3>1. <<>> \in Unread("HELO") /\ "HELO" \in SmtpCommands BY DEF Unread, SmtpCommands
    <3> QED BY <1>1, <1>2, <1>3, <2>2, <2>3, <3>1 DEF MA_Inv, MailUnderway, SmtpCommands, Answered
  <2>7. MA_TruthTold' BY <1>1, <1>2, <1>3, <2>2, <2>3, <2>6 DEF MA_TruthTold, Says, MA_Inv
  <2>8. ma_greetings = 1 => Synchronous'
    BY <1>1, <1>2, <1>3, <2>2, <2>3 DEF MA_Inv, Synchronous, SmtpCommands
  <2> QED BY <1>1, <2>2, <2>4, <2>5, <2>6, <2>7, <2>8 DEF MA_Inv
<1> QED BY <1>4, <1>5 DEF MA_Connect

LEMMA MA_TimeOutStep == ASSUME MA_Inv, MA_TimeOut PROVE MA_Inv'
<1>1. /\ ma_call.timed /\ ma_call' = [ma_call EXCEPT !.step = "done"] /\ ma_result' = "timed_out"
      /\ UNCHANGED <<ma_valid, ma_open, ma_sent, ma_answers, ma_server, ma_greetings>>
  BY DEF MA_TimeOut
<1>2. MA_TypeOK /\ CallEnds /\ MA_TruthTold /\ TalkType BY DEF MA_Inv, MA_TypeOK
<1>3. ma_call.kind # "message" BY <1>1, <1>2 DEF CallEnds
<1>4. /\ TalkType' /\ ma_call'.step = "done"
      /\ ma_call'.kind = ma_call.kind /\ ma_call'.timed = ma_call.timed
  BY <1>1, <1>2, TalkEnds, TalkGoesOn
<1>5. MA_TypeOK' BY <1>1, <1>2, <1>4 DEF MA_TypeOK
<1>6. CallEnds' BY <1>1, <1>2, <1>3, <1>4 DEF CallEnds
<1>7. MA_TruthTold' BY <1>1, <1>2, <1>3, <1>4 DEF MA_TruthTold, Says
<1>8. ma_greetings = 1 => Synchronous' BY <1>1, <1>2, <1>4 DEF MA_Inv, Synchronous
<1> QED BY <1>1, <1>3, <1>4, <1>5, <1>6, <1>7, <1>8 DEF MA_Inv

LEMMA MA_EofStep == ASSUME MA_Inv, MA_Eof PROVE MA_Inv'
<1>1. /\ ma_call.step \notin {"connect", "done"} /\ ma_answers = <<>> /\ ma_server.state = "closed"
      /\ ma_call' = [ma_call EXCEPT !.step = "done"] /\ ma_open' = FALSE
      /\ ma_result' = (IF ma_call.step = "QUIT" /\ ma_call.kind # "message" THEN Verdict(ma_valid) ELSE "error")
      /\ UNCHANGED <<ma_valid, ma_sent, ma_answers, ma_server, ma_greetings>>
  BY DEF MA_Eof, Return
<1>2. MA_TypeOK /\ CallEnds /\ MA_TruthTold /\ TalkType BY DEF MA_Inv, MA_TypeOK
<1>3. /\ TalkType' /\ ma_call'.step = "done"
      /\ ma_call'.kind = ma_call.kind /\ ma_call'.timed = ma_call.timed
  BY <1>1, <1>2, TalkEnds, TalkGoesOn
<1>4. /\ ma_result' \in {"valid", "invalid", "error"}
      /\ ma_result' = "valid" => ma_call.step = "QUIT" /\ ma_valid
      /\ ma_result' = "invalid" => ma_call.step = "QUIT" /\ ~ma_valid
      /\ ma_call.kind = "message" => ma_result' = "error"
  BY <1>1, <1>2 DEF Verdict, MA_TypeOK
<1>5. MA_TypeOK' BY <1>1, <1>2, <1>3, <1>4 DEF MA_TypeOK
<1>6. CallEnds' BY <1>1, <1>2, <1>3, <1>4 DEF CallEnds
<1>7. ma_greetings = 1 => Synchronous' /\ Synchronous BY <1>1, <1>3, <1>4 DEF MA_Inv, Synchronous
<1>8. MA_TruthTold'
  BY <1>1, <1>2, <1>3, <1>4, <1>7 DEF MA_TruthTold, Says, Synchronous
<1>9. ma_call.kind = "message" => MailUnderway'
  <2>1. ma_call.step \notin SmtpCommands => ma_call.step = "greeting"
    BY <1>1, <1>2 DEF TalkType, StepsOf, Kinds, SmtpCommands
  <2>2. <<>> \in Unread("HELO") /\ "HELO" \in SmtpCommands BY DEF Unread, SmtpCommands
  <2>3. ma_call.kind = "message" => ma_sent = <<>> BY <1>1 DEF MA_Inv, MailUnderway
  <2> QED BY <1>1, <1>3, <1>4, <2>1, <2>2, <2>3 DEF MA_Inv, MailUnderway, SmtpCommands
<1> QED BY <1>1, <1>3, <1>5, <1>6, <1>7, <1>8, <1>9 DEF MA_Inv

Statuses == {220, 221, 250, 251, 354, 550}

LEMMA AnswerArrives ==
  ASSUME ma_answers \in Seq(Statuses), NEW x \in Statuses, ma_answers' = Append(ma_answers, x)
  PROVE /\ ma_answers' \in Seq(Statuses) /\ ma_answers' # <<>>
        /\ ma_answers = <<>> => ma_answers' = <<x>> /\ Head(ma_answers') = x
        /\ ma_answers # <<>> => Head(ma_answers') = Head(ma_answers)
<1>1. ma_answers' \in Seq(Statuses) /\ Len(ma_answers') = Len(ma_answers) + 1
      /\ \A i \in 1 .. Len(ma_answers) : ma_answers'[i] = ma_answers[i]
      /\ ma_answers'[Len(ma_answers) + 1] = x
  OBVIOUS
<1>2. Len(ma_answers) \in Nat /\ (ma_answers = <<>> <=> Len(ma_answers) = 0) OBVIOUS
<1>3. ma_answers' # <<>> BY <1>1, <1>2
<1>4. Head(ma_answers') = ma_answers'[1] BY <1>1, <1>3
<1>5. CASE ma_answers = <<>> BY <1>1, <1>3, <1>4, <1>5
<1>6. CASE ma_answers # <<>>
  <2>1. Len(ma_answers) >= 1 /\ Head(ma_answers) = ma_answers[1] BY <1>2, <1>6
  <2> QED BY <1>1, <1>2, <1>3, <1>4, <1>6, <2>1
<1> QED BY <1>5, <1>6

LEMMA ServerClosed ==
  ASSUME NEW server \in SmtpServer
  PROVE LET now == [server EXCEPT !.state = "closed", !.greetings = 0] IN
        /\ now \in SmtpServer /\ now.state = "closed" /\ now.greetings = 0
        /\ now.sender = server.sender /\ now.recipient = server.recipient /\ now.accepted = server.accepted
<1> QED BY DEF SmtpServer

LEMMA MA_CloseStep == ASSUME MA_Inv, MA_Close PROVE MA_Inv'
<1>1. /\ ma_server' = [ma_server EXCEPT !.state = "closed", !.greetings = 0]
      /\ ma_sent' = <<>>
      /\ UNCHANGED <<ma_answers, ma_call, ma_valid, ma_result, ma_open, ma_greetings>>
  BY DEF MA_Close, Client
<1>2. MA_TypeOK /\ CallEnds /\ MA_TruthTold /\ TalkType BY DEF MA_Inv, MA_TypeOK
<1>3. /\ ma_server' \in SmtpServer /\ ma_server'.state = "closed" /\ ma_server'.greetings = 0
      /\ ma_server'.sender = ma_server.sender /\ ma_server'.recipient = ma_server.recipient
      /\ ma_server'.accepted = ma_server.accepted
  BY <1>1, <1>2, ServerClosed DEF MA_TypeOK
<1>4. MA_TypeOK'
  <2>1. TalkType' BY <1>1, <1>2 DEF TalkType
  <2>2. ma_sent' \in Seq(SmtpCommands) BY <1>1
  <2> QED BY <1>1, <1>2, <1>3, <2>1, <2>2 DEF MA_TypeOK
<1>5. CallEnds' BY <1>1, <1>2, <1>3 DEF CallEnds
<1>6. MA_TruthTold' BY <1>1, <1>2, <1>3 DEF MA_TruthTold, Says
<1>7. ma_call.kind = "message" => MailUnderway'
  <2>1. \A c \in SmtpCommands : <<>> \in Unread(c) BY DEF Unread
  <2> QED BY <1>1, <1>3, <2>1 DEF MA_Inv, MailUnderway, Answered
<1>8. ma_greetings = 1 => Synchronous'
  <2>1. ASSUME Synchronous PROVE Synchronous'
    <3>1. \A x : Means(x) => Means(x)' BY <1>1, <1>3 DEF Means
    <3> QED BY <1>1, <1>3, <2>1, <3>1 DEF Synchronous
  <2> QED BY <2>1 DEF MA_Inv
<1>9. ma_call.kind # "message" => ma_server'.accepted = 0 /\ \A i \in 1 .. Len(ma_sent') : ma_sent'[i] # "text"
  BY <1>1, <1>3 DEF MA_Inv
<1> QED BY <1>1, <1>4, <1>5, <1>6, <1>7, <1>8, <1>9 DEF MA_Inv

LEMMA MA_GreetStep == ASSUME MA_Inv, MA_Greet PROVE MA_Inv'
<1>1. /\ ma_open /\ ma_server.greetings > 0
      /\ ma_server' = [ma_server EXCEPT !.greetings = @ - 1,
                         !.state = IF ma_server.greetings = 1 THEN "commands" ELSE "greeting"]
      /\ ma_answers' = Append(ma_answers, 220)
      /\ UNCHANGED <<ma_sent, ma_call, ma_valid, ma_result, ma_open, ma_greetings>>
  BY DEF MA_Greet, Client
<1>2. MA_TypeOK /\ CallEnds /\ MA_TruthTold /\ TalkType /\ ma_server \in SmtpServer
  BY DEF MA_Inv, MA_TypeOK
<1>3. /\ ma_server' \in SmtpServer /\ ma_server'.greetings = ma_server.greetings - 1
      /\ ma_server'.state = (IF ma_server.greetings = 1 THEN "commands" ELSE "greeting")
      /\ ma_server'.sender = ma_server.sender /\ ma_server'.recipient = ma_server.recipient
      /\ ma_server'.accepted = ma_server.accepted
  <2>1. ma_server.greetings - 1 \in Nat BY <1>1, <1>2 DEF SmtpServer
  <2>2. PICK st \in {"greeting", "commands", "text", "closed"} :
          st = (IF ma_server.greetings = 1 THEN "commands" ELSE "greeting")
    OBVIOUS
  <2> DEFINE now == [ma_server EXCEPT !.greetings = ma_server.greetings - 1, !.state = st]
  <2>3. /\ now \in SmtpServer /\ now.greetings = ma_server.greetings - 1 /\ now.state = st
        /\ now.sender = ma_server.sender /\ now.recipient = ma_server.recipient
        /\ now.accepted = ma_server.accepted
    BY ONLY <1>2, <2>1, <2>2 DEF SmtpServer
  <2>4. ma_server' = now
    BY ONLY <1>1, <2>2, Zenon
  <2> HIDE DEF now
  <2>5. /\ ma_server' \in SmtpServer /\ ma_server'.greetings = ma_server.greetings - 1 /\ ma_server'.state = st
        /\ ma_server'.sender = ma_server.sender /\ ma_server'.recipient = ma_server.recipient
        /\ ma_server'.accepted = ma_server.accepted
    BY ONLY <2>3, <2>4
  <2> QED BY ONLY <2>2, <2>5, Zenon
<1>4. /\ ma_answers' \in Seq(Statuses) /\ ma_answers' # <<>>
      /\ ma_answers = <<>> => ma_answers' = <<220>> /\ Head(ma_answers') = 220
      /\ ma_answers # <<>> => Head(ma_answers') = Head(ma_answers)
  BY <1>1, <1>2, AnswerArrives DEF MA_TypeOK, Statuses
<1>5. MA_TypeOK'
  <2>1. TalkType' BY <1>1, <1>2 DEF TalkType
  <2> QED BY <1>1, <1>2, <1>3, <1>4, <2>1 DEF MA_TypeOK, Statuses
<1>6. CallEnds'
  <2>1. ma_server'.greetings > 0 <=> ma_server'.state = "greeting" BY <1>1, <1>2, <1>3 DEF SmtpServer
  <2> QED BY <1>1, <1>2, <2>1 DEF CallEnds
<1>7. ma_server.state = "greeting" BY <1>1, <1>2 DEF CallEnds
<1>8. MA_TruthTold' BY <1>1, <1>2, <1>3, <1>7 DEF MA_TruthTold, Says
<1>9. ma_call.kind = "message" => MailUnderway'
  <2>1. Answered' <=> Answered BY <1>4 DEF Answered
  <2>2. Answered => Head(ma_answers') = Head(ma_answers) BY <1>4 DEF Answered
  <2> QED BY <1>1, <1>3, <2>1, <2>2 DEF MA_Inv, MailUnderway
<1>10. ma_greetings = 1 => Synchronous'
  <2>1. ASSUME Synchronous PROVE Synchronous'
    <3>1. ma_server'.greetings = 0 /\ ma_server.greetings = 1 BY <1>1, <1>3, <2>1 DEF Synchronous
    <3>2. ma_call.step # "connect" BY <1>1, <1>2 DEF CallEnds
    <3>3. ma_call.step # "done" => ma_answers = <<>> /\ ma_sent = <<>> /\ ma_call.step = "greeting"
      BY <2>1, <3>1, <3>2 DEF Synchronous
    <3>4. ma_call.step # "done" => ma_answers' = <<220>> /\ Means(220)' BY <1>1, <1>4, <3>3 DEF Means
    <3> QED BY <1>1, <1>3, <2>1, <3>1, <3>2, <3>3, <3>4 DEF Synchronous
  <2> QED BY <2>1 DEF MA_Inv
<1> QED BY <1>1, <1>3, <1>5, <1>6, <1>8, <1>9, <1>10 DEF MA_Inv

(* What an answer and the state the server is then in have to do with each *)
(* other.                                                                  *)
LEMMA ReplyGiven ==
  ASSUME NEW server \in SmtpServer, server.state \in {"commands", "text"},
         NEW c \in SmtpCommands, NEW reply \in Replies(server, c)
  PROVE /\ reply.status \in Statuses /\ reply.server \in SmtpServer
        /\ reply.server.greetings = server.greetings /\ reply.server.state # "greeting"
        /\ reply.server.state = "closed" => c = "QUIT"
        /\ c = "text" /\ reply.status = 250 => reply.server.accepted = server.accepted + 1
        /\ ~(c = "text" /\ reply.status = 250) => reply.server.accepted = server.accepted
        /\ c = "DATA" => reply.status # 250
        /\ c = "MAIL" /\ reply.status = 250 => reply.server.sender
        /\ c = "RCPT" /\ reply.status \in {250, 251} => reply.server.recipient
        /\ c # "RCPT" \/ reply.status \notin {250, 251} => reply.server.recipient = server.recipient
        /\ server.sender => reply.server.sender
        /\ c = "QUIT" => reply.status = 221
<1> DEFINE now(status, state) == [status |-> status, server |-> state]
<1>1. server.greetings \in Nat /\ server.accepted \in Nat /\ server.sender \in BOOLEAN /\ server.recipient \in BOOLEAN
  BY DEF SmtpServer
<1>2. CASE reply = now(550, server)
  <2>1. c # "QUIT"
    BY <1>2 DEF Replies
  <2> QED BY <1>1, <1>2, <2>1 DEF Statuses
<1>3. CASE c = "HELO" /\ reply # now(550, server)
  <2>1. reply = now(250, server) BY <1>3 DEF Replies
  <2> QED BY <1>1, <1>3, <2>1 DEF Statuses
<1>4. CASE c = "MAIL" /\ reply # now(550, server)
  <2>1. reply = now(250, [server EXCEPT !.sender = TRUE]) BY <1>4 DEF Replies
  <2>2. [server EXCEPT !.sender = TRUE] \in SmtpServer BY DEF SmtpServer
  <2> QED BY <1>1, <1>4, <2>1, <2>2 DEF Statuses, SmtpServer
<1>5. CASE c = "RCPT" /\ reply # now(550, server)
  <2>1. PICK s \in {250, 251} : reply = now(s, [server EXCEPT !.recipient = TRUE]) BY <1>5 DEF Replies
  <2>2. [server EXCEPT !.recipient = TRUE] \in SmtpServer BY DEF SmtpServer
  <2> QED BY <1>1, <1>5, <2>1, <2>2 DEF Statuses, SmtpServer
<1>6. CASE c = "DATA" /\ reply # now(550, server)
  <2>1. reply = now(354, [server EXCEPT !.state = "text"]) BY <1>6 DEF Replies
  <2>2. [server EXCEPT !.state = "text"] \in SmtpServer BY DEF SmtpServer
  <2> QED BY <1>1, <1>6, <2>1, <2>2 DEF Statuses, SmtpServer
<1>7. CASE c = "text" /\ reply # now(550, server)
  <2>1. \/ reply = now(250, [server EXCEPT !.state = "commands", !.accepted = @ + 1])
        \/ reply = now(550, [server EXCEPT !.state = "commands"])
    BY <1>7 DEF Replies
  <2>2. [server EXCEPT !.state = "commands"] \in SmtpServer BY DEF SmtpServer
  <2>3. server.accepted + 1 \in Nat BY <1>1
  <2>4. ASSUME NEW n \in Nat
        PROVE LET now_ == [server EXCEPT !.state = "commands", !.accepted = n] IN
              /\ now_ \in SmtpServer /\ now_.greetings = server.greetings /\ now_.state = "commands"
              /\ now_.sender = server.sender /\ now_.recipient = server.recipient /\ now_.accepted = n
    BY DEF SmtpServer
  <2>5. CASE reply = now(250, [server EXCEPT !.state = "commands", !.accepted = @ + 1])
    BY <1>1, <1>7, <2>3, <2>4, <2>5 DEF Statuses
  <2>6. CASE reply = now(550, [server EXCEPT !.state = "commands"])
    BY <1>1, <1>7, <2>2, <2>6 DEF Statuses, SmtpServer
  <2> QED BY <2>1, <2>5, <2>6
<1>8. CASE c = "QUIT" /\ reply # now(550, server)
  <2>1. reply = now(221, [server EXCEPT !.state = "closed"]) BY <1>8 DEF Replies
  <2>2. [server EXCEPT !.state = "closed"] \in SmtpServer BY DEF SmtpServer
  <2> QED BY <1>1, <1>8, <2>1, <2>2 DEF Statuses, SmtpServer
<1> QED BY <1>2, <1>3, <1>4, <1>5, <1>6, <1>7, <1>8 DEF SmtpCommands

LEMMA MA_AnswerStep == ASSUME MA_Inv, MA_Answer PROVE MA_Inv'
<1> DEFINE c == Head(ma_sent)
<1>1. /\ ma_server.state \in {"commands", "text"} /\ ma_sent # <<>> /\ ma_sent' = Tail(ma_sent)
      /\ UNCHANGED <<ma_call, ma_valid, ma_result, ma_open, ma_greetings>>
  BY DEF MA_Answer, Client
<1>2. MA_TypeOK /\ CallEnds /\ MA_TruthTold /\ TalkType /\ ma_server \in SmtpServer
  BY DEF MA_Inv, MA_TypeOK
<1>3. PICK reply \in Replies(ma_server, c) :
        ma_server' = reply.server /\ ma_answers' = Append(ma_answers, reply.status)
  BY DEF MA_Answer
<1>4. ma_sent \in Seq(SmtpCommands) /\ c \in SmtpCommands BY <1>1, <1>2 DEF MA_TypeOK
<1> DEFINE s == reply.status
<1>5. /\ s \in Statuses /\ ma_server' \in SmtpServer
      /\ ma_server'.greetings = ma_server.greetings /\ ma_server'.state # "greeting"
      /\ ma_server'.state = "closed" => c = "QUIT"
      /\ c = "text" /\ s = 250 => ma_server'.accepted = ma_server.accepted + 1
      /\ ~(c = "text" /\ s = 250) => ma_server'.accepted = ma_server.accepted
      /\ c = "DATA" => s # 250
      /\ c = "MAIL" /\ s = 250 => ma_server'.sender
      /\ c = "RCPT" /\ s \in {250, 251} => ma_server'.recipient
      /\ c # "RCPT" \/ s \notin {250, 251} => ma_server'.recipient = ma_server.recipient
      /\ ma_server.sender => ma_server'.sender
      /\ c = "QUIT" => s = 221
  BY <1>1, <1>2, <1>3, <1>4, ReplyGiven
<1>6. /\ ma_answers' \in Seq(Statuses) /\ ma_answers' # <<>>
      /\ ma_answers = <<>> => ma_answers' = <<s>> /\ Head(ma_answers') = s
      /\ ma_answers # <<>> => Head(ma_answers') = Head(ma_answers)
  BY <1>2, <1>3, <1>5, AnswerArrives DEF MA_TypeOK, Statuses
<1>7. ma_sent' \in Seq(SmtpCommands) /\ \A i \in 1 .. Len(ma_sent') : \E j \in 1 .. Len(ma_sent) : ma_sent'[i] = ma_sent[j]
  <2>1. ma_sent' \in Seq(SmtpCommands) /\ Len(ma_sent') = Len(ma_sent) - 1
        /\ \A i \in 1 .. Len(ma_sent') : ma_sent'[i] = ma_sent[i + 1]
    BY <1>1, <1>4
  <2> QED BY <1>4, <2>1
<1>8. c = ma_sent[1] /\ 1 \in 1 .. Len(ma_sent) BY <1>1, <1>4
<1> HIDE DEF c, s
<1>9. MA_TypeOK'
  <2>1. TalkType' BY <1>1, <1>2 DEF TalkType
  <2> QED BY <1>1, <1>2, <1>5, <1>6, <1>7, <2>1 DEF MA_TypeOK, Statuses
<1>10. CallEnds'
  <2>1. ma_server'.greetings > 0 <=> ma_server'.state = "greeting" BY <1>1, <1>2, <1>5 DEF CallEnds
  <2> QED BY <1>1, <1>2, <2>1 DEF CallEnds
<1>11. ma_call.kind # "message" =>
         ma_server'.accepted = 0 /\ \A i \in 1 .. Len(ma_sent') : ma_sent'[i] # "text"
  BY <1>5, <1>7, <1>8 DEF MA_Inv
<1>12. ma_call.kind = "message" => MailUnderway'
  <2> SUFFICES ASSUME ma_call.kind = "message" PROVE MailUnderway' OBVIOUS
  <2>1. MailUnderway BY DEF MA_Inv
  <2> DEFINE step == ma_call.step
  <2>2. \E last \in SmtpCommands : /\ step = "done" \/ step = last
                                   /\ ma_sent \in Unread(last)
    BY <1>1, <1>2, <2>1 DEF MailUnderway, TalkType, StepsOf, SmtpCommands
  <2>3. PICK last \in SmtpCommands : /\ step = "done" \/ step = last
                                     /\ ma_sent \in Unread(last)
    BY <2>2
  <2>4. \/ c = last /\ ma_sent = <<last>> /\ ma_sent' = <<>>
        \/ last # "HELO" /\ c = Earlier[last] /\ ma_sent = <<Earlier[last], last>> /\ ma_sent' = <<last>>
    <3> DEFINE e == Earlier[last]
    <3>1. ma_sent = <<last>> \/ (last # "HELO" /\ ma_sent = <<e, last>>) BY <1>1, <2>3 DEF Unread
    <3> HIDE DEF e
    <3>2. CASE ma_sent = <<last>> BY <1>1, <3>2 DEF c
    <3>3. CASE last # "HELO" /\ ma_sent = <<e, last>>
      <4>1. Head(<<e, last>>) = e /\ Tail(<<e, last>>) = <<last>> OBVIOUS
      <4> QED BY <1>1, <3>3, <4>1 DEF c, e
    <3> QED BY <3>1, <3>2, <3>3
  <2>5. ma_sent' \in {<<>>, <<last>>} /\ ma_sent' \in Unread(last) BY <2>4 DEF Unread
  <2>6. ma_server.accepted = 1 => c # "text" BY <1>8, <2>1 DEF MailUnderway
  <2>7. c = "QUIT" => ma_sent' = <<>> BY <2>4 DEF Earlier, SmtpCommands
  <2>8. ma_server.accepted \in {0, 1} /\ ma_server'.accepted \in {0, 1} BY <1>5, <2>1, <2>6 DEF MailUnderway
  <2>9. ma_server.accepted = 1 => ma_server'.accepted = 1 BY <1>5, <2>6
  <2>10. c = "text" => /\ last \in {"text", "QUIT"} /\ step \in {"text", "QUIT", "done"}
                       /\ \A i \in 1 .. Len(ma_sent') : ma_sent'[i] # "text"
    <3>1. c = "text" => (last = "text" /\ ma_sent' = <<>>) \/ (last = "QUIT" /\ ma_sent' = <<"QUIT">>)
      BY <2>4 DEF Earlier, SmtpCommands
    <3> QED BY <2>3, <3>1
  <2>11. ma_server'.accepted = 1 => /\ step \in {"text", "QUIT", "done"}
                                    /\ \A i \in 1 .. Len(ma_sent') : ma_sent'[i] # "text"
    <3>1. CASE ma_server.accepted = 1 BY <1>7, <2>1, <3>1 DEF MailUnderway
    <3>2. CASE c = "text" BY <2>10, <3>2
    <3> QED BY <1>5, <2>8, <3>1, <3>2
  <2>12. step = "text" /\ Answered' /\ Head(ma_answers') = 250 => ma_server'.accepted = 1
    <3> SUFFICES ASSUME step = "text", Answered', Head(ma_answers') = 250 PROVE ma_server'.accepted = 1
      OBVIOUS
    <3>1. CASE ma_answers = <<>>
      <4>1. s = 250 /\ c \in {"DATA", "text"} BY <1>6, <2>3, <2>4, <3>1 DEF Earlier
      <4> QED BY <1>5, <2>6, <2>8, <4>1
    <3>2. CASE ma_answers # <<>>
      <4>1. Answered /\ Head(ma_answers) = 250 BY <1>6, <3>2 DEF Answered
      <4> QED BY <2>1, <2>9, <4>1 DEF MailUnderway
    <3> QED BY <3>1, <3>2
  <2> HIDE DEF step
  <2>13. /\ step \in {"connect", "greeting"} => ma_sent' = <<>>
         /\ step \in SmtpCommands => ma_sent' \in Unread(step) /\ ma_sent' \in {<<>>, <<step>>}
         /\ step = "done" => \E d \in SmtpCommands : ma_sent' \in Unread(d)
    BY <2>3, <2>5 DEF SmtpCommands
  <2>14. /\ ma_server'.state = "closed" => ma_sent' = <<>>
         /\ step = "QUIT" => ma_server'.accepted = 1
         /\ ma_result = "ok" => ma_server'.accepted = 1
    BY <1>5, <2>1, <2>7, <2>9 DEF MailUnderway, step
  <2>15. ma_call'.step = step /\ ma_result' = ma_result BY <1>1 DEF step
  <2> QED BY <2>8, <2>11, <2>12, <2>13, <2>14, <2>15 DEF MailUnderway
<1>13. ma_greetings = 1 => Synchronous'
  <2> SUFFICES ASSUME ma_greetings = 1 PROVE Synchronous' OBVIOUS
  <2>1. Synchronous BY DEF MA_Inv
  <2> DEFINE step == ma_call.step
  <2>2. ma_result \in {"none", "timed_out"} BY <1>1, <2>1 DEF Synchronous
  <2>3. step # "done" => /\ ma_answers = <<>> /\ ma_sent = <<step>> /\ step \in SmtpCommands
                         /\ ma_server.greetings = 0 /\ c = step /\ ma_sent' = <<>>
    BY <1>1, <2>1 DEF Synchronous, c
  <2>4. step # "done" => ma_answers' = <<s>> /\ Means(s)'
    <3> SUFFICES ASSUME step # "done" PROVE Means(s)' BY <1>6, <2>3
    <3>1. step = "text" => ma_server.accepted = 0 BY <2>1, <2>3 DEF Synchronous
    <3>2. step = "RCPT" => ~ma_server.recipient BY <2>1, <2>3 DEF Synchronous
    <3>3. step # "greeting" /\ ma_call'.step = step BY <1>1, <2>3 DEF SmtpCommands
    <3> QED BY <1>5, <2>3, <3>1, <3>2, <3>3 DEF Means
  <2> HIDE DEF step
  <2>5. ma_call'.step = step /\ ma_call'.kind = ma_call.kind /\ ma_result' = ma_result /\ ma_valid' = ma_valid
    BY <1>1 DEF step
  <2>6. /\ step \in {"connect", "greeting", "HELO", "MAIL"} => ~ma_server'.recipient
        /\ step = "text" /\ ma_answers' = <<>> => ma_server'.accepted = 0
        /\ step = "RCPT" /\ ma_answers' = <<>> => ~ma_server'.recipient
        /\ step = "connect" => ma_answers' = <<>>
    <3>1. step \in {"connect", "greeting", "HELO", "MAIL"} => ~ma_server.recipient /\ c # "RCPT"
      BY <2>1, <2>3 DEF Synchronous, step
    <3> QED BY <1>5, <1>6, <2>3, <3>1 DEF SmtpCommands
  <2>7. step = "QUIT" =>
          /\ ma_call.kind = "address" => (ma_valid <=> ma_server'.recipient)
          /\ ma_call.kind = "server_for_sender" /\ ma_valid => ma_server'.sender
    <3>1. step = "QUIT" => ma_server'.recipient = ma_server.recipient BY <1>5, <2>3
    <3> QED BY <1>5, <2>1, <3>1 DEF Synchronous, step
  <2>8. ma_server'.greetings \in {0, 1} BY <1>5, <2>1 DEF Synchronous
  <2>9. step # "done" => /\ ma_sent' = <<>> /\ ma_server'.greetings = 0
                         /\ \E x \in {220, 221, 250, 251, 354, 550} : ma_answers' = <<x>> /\ Means(x)'
    BY <1>5, <2>3, <2>4 DEF Statuses
  <2> QED BY <2>2, <2>5, <2>6, <2>7, <2>8, <2>9 DEF Synchronous
<1>14. MA_TruthTold'
  <2>1. ma_call.kind = "message" => /\ ma_result = "ok" => ma_server'.accepted = 1
                                    /\ ma_server'.accepted \in {0, 1}
    BY <1>1, <1>12 DEF MailUnderway
  <2>2. ma_greetings = 1 => ma_result \in {"none", "timed_out"} BY <1>1 DEF MA_Inv, Synchronous
  <2> QED BY <1>1, <1>2, <1>11, <2>1, <2>2 DEF MA_TruthTold, Says
<1> QED BY <1>1, <1>9, <1>10, <1>11, <1>12, <1>13, <1>14 DEF MA_Inv

LEMMA CommandSent ==
  ASSUME ma_sent \in Seq(SmtpCommands), NEW c \in SmtpCommands, NEW t \in Seq(SmtpCommands), t = Append(ma_sent, c)
  PROVE /\ ma_sent = <<>> => t = <<c>>
        /\ c # "text" /\ (\A i \in 1 .. Len(ma_sent) : ma_sent[i] # "text") => \A i \in 1 .. Len(t) : t[i] # "text"
<1>1. Len(t) = Len(ma_sent) + 1 /\ Len(ma_sent) \in Nat /\ t[Len(ma_sent) + 1] = c
      /\ \A i \in 1 .. Len(ma_sent) : t[i] = ma_sent[i]
  OBVIOUS
<1>2. \A i \in 1 .. Len(t) : i \in 1 .. Len(ma_sent) \/ i = Len(ma_sent) + 1 BY <1>1
<1>3. ma_sent = <<>> => t = <<c>> OBVIOUS
<1> QED BY <1>1, <1>2, <1>3

LEMMA TwoUnread ==
  ASSUME NEW S, NEW c \in S, NEW d \in S
  PROVE Append(<<>>, c) = <<c>> /\ Append(<<d>>, c) = <<d, c>>
<1>1. <<d>> \in Seq(S) /\ Len(<<d>>) = 1 OBVIOUS
<1>2. Append(<<d>>, c) \in Seq(S) /\ Len(Append(<<d>>, c)) = 2 BY <1>1
<1>3. Append(<<d>>, c)[1] = d /\ Append(<<d>>, c)[2] = c BY <1>1
<1>4. <<d, c>> \in Seq(S) /\ Len(<<d, c>>) = 2 /\ <<d, c>>[1] = d /\ <<d, c>>[2] = c OBVIOUS
<1>5. Append(<<>>, c) = <<c>> OBVIOUS
<1>6. ASSUME NEW s \in Seq(S), NEW t \in Seq(S), Len(s) = 2, Len(t) = 2, s[1] = t[1], s[2] = t[2] PROVE s = t
  <2>1. \A i \in 1 .. Len(s) : s[i] = t[i] BY <1>6
  <2> QED BY <1>6, <2>1, SeqEqual
<1> QED BY <1>2, <1>3, <1>4, <1>5, <1>6

(* What a command follows, when mail is sent.                              *)
LEMMA MailFollows ==
  ASSUME NEW step \in StepsOf("message") \ {"connect", "QUIT", "done"}
  PROVE LET next == Following("message", step) IN
        /\ next \in SmtpCommands
        /\ next = "HELO" <=> step = "greeting"
        /\ step # "greeting" => Earlier[next] = step
        /\ next = "text" <=> step = "DATA"
        /\ next = "QUIT" <=> step = "text"
<1>1. Following("message", step) = Follower("message", step) BY Followings DEF Kinds
<1> QED BY <1>1 DEF Follower, StepsOf, SmtpCommands, Earlier

LEMMA MA_ReadStep == ASSUME MA_Inv, MA_Read PROVE MA_Inv'
<1> DEFINE kind == ma_call.kind
           step == ma_call.step
           status == Head(ma_answers)
<1>1. /\ step \notin {"connect", "done"} /\ ma_answers # <<>> /\ ma_answers' = <<>>
      /\ UNCHANGED <<ma_server, ma_greetings>>
  BY DEF MA_Read
<1>2. MA_TypeOK /\ CallEnds /\ MA_TruthTold /\ TalkType BY DEF MA_Inv, MA_TypeOK
<1>3. /\ ma_sent \in Seq(SmtpCommands) /\ ma_answers' \in Seq(Statuses) /\ ma_valid \in BOOLEAN
      /\ kind \in Kinds /\ step \in StepsOf(kind)
  BY <1>1, <1>2 DEF MA_TypeOK, Statuses, TalkType
<1>4. ma_result = "none" BY <1>1, <1>2 DEF CallEnds
<1>5. /\ step \in SmtpCommands \/ step = "greeting"
      /\ kind = "message" => MailUnderway
      /\ kind # "message" => ma_server.accepted = 0 /\ \A i \in 1 .. Len(ma_sent) : ma_sent[i] # "text"
  BY <1>1, <1>3 DEF StepsOf, Kinds, SmtpCommands, MA_Inv
<1>6. ma_greetings = 1 => /\ Synchronous /\ ma_sent = <<>> /\ ma_server.greetings = 0 /\ Means(status)
  BY <1>1 DEF MA_Inv, Synchronous
<1>7. Answered <=> status # 220 BY <1>1 DEF Answered
<1>8. \/ /\ step = "QUIT"
         /\ Return(IF kind # "message" THEN Verdict(ma_valid)
                   ELSE IF status \in GoesOn(kind, step) THEN "ok" ELSE "error")
         /\ UNCHANGED <<ma_valid, ma_sent>>
      \/ /\ step # "QUIT" /\ Decides(kind, step)
         /\ ma_valid' = (status \in {250} \cup IF kind = "address" THEN {251} ELSE {})
         /\ Send("QUIT")
      \/ /\ step # "QUIT" /\ ~Decides(kind, step) /\ status \in GoesOn(kind, step)
         /\ Send(Following(kind, step)) /\ UNCHANGED ma_valid
      \/ /\ step # "QUIT" /\ ~Decides(kind, step) /\ status \notin GoesOn(kind, step)
         /\ Return("error") /\ UNCHANGED <<ma_valid, ma_sent>>
  BY DEF MA_Read
<1>9. ASSUME NEW result \in {"ok", "error", "valid", "invalid"}, Return(result), UNCHANGED <<ma_valid, ma_sent>>,
             result \in {"valid", "invalid"} => step = "QUIT" /\ kind # "message" /\ result = Verdict(ma_valid),
             result = "ok" => step = "QUIT" /\ kind = "message",
             result = "error" => status \notin GoesOn(kind, step)
      PROVE MA_Inv'
  <2>1. ma_result' = result /\ ma_open' = FALSE /\ ma_call' = [ma_call EXCEPT !.step = "done"] BY <1>9 DEF Return
  <2>2. TalkType' /\ ma_call'.step = "done" /\ ma_call'.kind = kind /\ ma_call'.timed = ma_call.timed
    BY <1>2, <2>1, TalkEnds, TalkGoesOn
  <2>3. MA_TypeOK' BY <1>1, <1>2, <1>3, <1>9, <2>1, <2>2 DEF MA_TypeOK, Statuses
  <2>4. CallEnds' BY <1>1, <1>2, <1>9, <2>1, <2>2 DEF CallEnds
  <2>5. kind = "message" => MailUnderway' /\ ma_server.accepted \in {0, 1}
    <3>1. \A c \in SmtpCommands : <<>> \in Unread(c) BY DEF Unread
    <3>2. "HELO" \in SmtpCommands BY DEF SmtpCommands
    <3>3. kind = "message" => \E c \in SmtpCommands : ma_sent \in Unread(c)
      BY <1>5, <3>1, <3>2 DEF MailUnderway
    <3> QED BY <1>1, <1>5, <1>9, <2>1, <2>2, <3>3 DEF MailUnderway, SmtpCommands
  <2>6. ma_greetings = 1 => Synchronous' BY <1>1, <1>6, <1>9, <2>1, <2>2 DEF Synchronous
  <2>7. ma_greetings = 1 =>
          /\ kind = "address" => (result = "valid" => ma_server.recipient) /\ (result = "invalid" => ~ma_server.recipient)
          /\ kind = "server_for_sender" /\ result = "valid" => ma_server.sender
    BY <1>6, <1>9 DEF Verdict, Synchronous
  <2>8. ma_greetings = 1 /\ kind = "message" /\ result = "error" => ma_server.accepted # 1
    <3> SUFFICES ASSUME ma_greetings = 1, kind = "message", result = "error", ma_server.accepted = 1 PROVE FALSE
      OBVIOUS
    <3>1. step \in {"text", "QUIT"} BY <1>1, <1>5 DEF MailUnderway
    <3>2. status = (IF step = "text" THEN 250 ELSE 221) BY <1>6, <3>1 DEF Means
    <3> QED BY <1>9, <3>1, <3>2 DEF GoesOn
  <2>9. MA_TruthTold'
    BY <1>1, <1>5, <1>9, <2>1, <2>2, <2>5, <2>7, <2>8 DEF MA_TruthTold, Says, MailUnderway
  <2> QED BY <1>1, <1>5, <1>9, <2>2, <2>3, <2>4, <2>5, <2>6, <2>9 DEF MA_Inv
<1>10. ASSUME NEW c \in SmtpCommands, c \in StepsOf(kind), Send(c), ma_valid' \in BOOLEAN
       PROVE /\ ma_call'.step = c /\ ma_call'.kind = kind /\ ma_result' = "none" /\ ma_open' = ma_open
             /\ MA_TypeOK' /\ CallEnds' /\ MA_TruthTold'
             /\ ma_sent' = (IF ma_server.state = "closed" THEN ma_sent ELSE Append(ma_sent, c))
             /\ ma_sent' \in Seq(SmtpCommands)
  <2>1. /\ ma_call' = [ma_call EXCEPT !.step = c] /\ UNCHANGED <<ma_result, ma_open>>
        /\ ma_sent' = (IF ma_server.state = "closed" THEN ma_sent ELSE Append(ma_sent, c))
    BY <1>10 DEF Send
  <2>2. TalkType' /\ ma_call'.step = c /\ ma_call'.kind = kind /\ ma_call'.timed = ma_call.timed
    BY <1>2, <1>10, <2>1, TalkGoesOn
  <2>3. Append(ma_sent, c) \in Seq(SmtpCommands) BY <1>3
  <2>4. ma_sent' \in Seq(SmtpCommands) BY <1>3, <2>1, <2>3
  <2>5. MA_TypeOK' BY <1>1, <1>2, <1>3, <1>10, <2>1, <2>2, <2>4 DEF MA_TypeOK, Statuses
  <2>6. c \notin {"connect", "done"} BY DEF SmtpCommands
  <2>7. CallEnds' BY <1>1, <1>2, <1>4, <2>1, <2>2, <2>6 DEF CallEnds
  <2>8. MA_TruthTold' BY <1>1, <1>2, <1>4, <2>1, <2>2 DEF MA_TruthTold, Says
  <2> QED BY <1>4, <2>1, <2>2, <2>4, <2>5, <2>7, <2>8
<1>11. ASSUME NEW c \in SmtpCommands, Send(c), ma_greetings = 1
       PROVE /\ ma_sent' = <<>> \/ ma_sent' = <<c>>
             /\ ma_server.state = "closed" => ma_sent' = <<>>
  BY <1>6, <1>11 DEF Send
<1> HIDE DEF kind, step, status
<1>12. CASE step = "QUIT" /\ UNCHANGED <<ma_valid, ma_sent>>
            /\ Return(IF kind # "message" THEN Verdict(ma_valid)
                      ELSE IF status \in GoesOn(kind, step) THEN "ok" ELSE "error")
  <2>1. Verdict(ma_valid) \in {"valid", "invalid"} BY DEF Verdict
  <2>2. CASE kind # "message" BY <1>9, <1>12, <2>1, <2>2
  <2>3. CASE kind = "message" /\ status \in GoesOn(kind, step) BY <1>9, <1>12, <2>3
  <2>4. CASE kind = "message" /\ status \notin GoesOn(kind, step) BY <1>9, <1>12, <2>4
  <2> QED BY <2>2, <2>3, <2>4
<1>13. CASE step # "QUIT" /\ ~Decides(kind, step) /\ status \notin GoesOn(kind, step)
            /\ Return("error") /\ UNCHANGED <<ma_valid, ma_sent>>
  BY <1>9, <1>13
<1>14. CASE step # "QUIT" /\ Decides(kind, step) /\ Send("QUIT")
            /\ ma_valid' = (status \in {250} \cup IF kind = "address" THEN {251} ELSE {})
  <2>1. kind # "message" /\ Following(kind, step) = "QUIT" BY <1>14 DEF Decides
  <2>2. step \in StepsOf(kind) \ {"connect", "QUIT", "done"} BY <1>1, <1>3, <1>14 DEF step
  <2>3. Follower(kind, step) = "QUIT" BY <1>3, <2>1, <2>2, Followings
  <2>4. /\ kind = "address" => step = "RCPT"
        /\ kind = "server_for_sender" => step = "MAIL"
    BY <2>1, <2>2, <2>3 DEF Follower, StepsOf, Kinds
  <2>5. "QUIT" \in SmtpCommands /\ "QUIT" \in StepsOf(kind) BY <1>3 DEF SmtpCommands, StepsOf, Kinds
  <2>6. /\ ma_call'.step = "QUIT" /\ ma_call'.kind = kind /\ ma_result' = "none"
        /\ MA_TypeOK' /\ CallEnds' /\ MA_TruthTold'
        /\ ma_sent' = (IF ma_server.state = "closed" THEN ma_sent ELSE Append(ma_sent, "QUIT"))
        /\ ma_sent' \in Seq(SmtpCommands)
    BY <1>10, <1>14, <2>5
  <2>7. \A i \in 1 .. Len(ma_sent') : ma_sent'[i] # "text"
    BY <1>3, <1>5, <2>1, <2>5, <2>6, CommandSent
  <2>8. ma_greetings = 1 => Synchronous'
    <3> SUFFICES ASSUME ma_greetings = 1 PROVE Synchronous' OBVIOUS
    <3>1. /\ ma_sent' = <<>> \/ ma_sent' = <<"QUIT">>
          /\ ma_server.state = "closed" => ma_sent' = <<>>
      BY <1>11, <1>14, <2>5
    <3>2. kind = "address" => (ma_valid' <=> ma_server.recipient)
      BY <1>6, <1>14, <2>4 DEF Means, step
    <3>3. kind = "server_for_sender" /\ ma_valid' => ma_server.sender
      BY <1>6, <1>14, <2>4 DEF Means, step
    <3> QED BY <1>1, <1>6, <2>5, <2>6, <3>1, <3>2, <3>3 DEF Synchronous
  <2> QED BY <1>1, <1>5, <2>1, <2>6, <2>7, <2>8 DEF MA_Inv
<1>15. CASE step # "QUIT" /\ ~Decides(kind, step) /\ status \in GoesOn(kind, step)
            /\ Send(Following(kind, step)) /\ UNCHANGED ma_valid
  <2> DEFINE next == Following(kind, step)
  <2>1. step \in StepsOf(kind) \ {"connect", "QUIT", "done"} BY <1>1, <1>3, <1>15 DEF step
  <2>2. next = Follower(kind, step) BY <1>3, <2>1, Followings
  <2>3. kind # "message" => next # "QUIT" BY <1>15 DEF Decides
  <2> HIDE DEF next
  <2>4. next \in SmtpCommands /\ next \in StepsOf(kind)
    BY <1>3, <2>1, <2>2, <2>3 DEF Follower, StepsOf, Kinds, SmtpCommands
  <2>5. /\ ma_call'.step = next /\ ma_call'.kind = kind /\ ma_result' = "none"
        /\ MA_TypeOK' /\ CallEnds' /\ MA_TruthTold'
        /\ ma_sent' = (IF ma_server.state = "closed" THEN ma_sent ELSE Append(ma_sent, next))
        /\ ma_sent' \in Seq(SmtpCommands)
    BY <1>3, <1>10, <1>15, <2>4 DEF next
  <2>6. kind = "message" => MailUnderway'
    <3> SUFFICES ASSUME kind = "message" PROVE MailUnderway' OBVIOUS
    <3>1. /\ next = "HELO" <=> step = "greeting"
          /\ step # "greeting" => Earlier[next] = step
          /\ next = "text" <=> step = "DATA"
          /\ next = "QUIT" <=> step = "text"
      BY <2>1, MailFollows DEF next
    <3>2. ma_sent = <<>> \/ (ma_sent = <<step>> /\ step # "greeting")
      <4>1. CASE step = "greeting" BY <1>5, <4>1 DEF MailUnderway, step
      <4>2. CASE step = "HELO" BY <1>5, <4>2 DEF MailUnderway, Unread, SmtpCommands, step
      <4>3. CASE step \notin {"greeting", "HELO"}
        <5>1. status # 220 BY <1>15, <4>3 DEF GoesOn
        <5> QED BY <1>5, <1>7, <4>3, <5>1 DEF MailUnderway, step
      <4> QED BY <4>1, <4>2, <4>3
    <3>3. /\ Append(<<>>, next) = <<next>> /\ Append(<<step>>, next) = <<step, next>>
      <4>1. next \in SmtpCommands \cup {"greeting"} /\ step \in SmtpCommands \cup {"greeting"}
        BY <1>5, <2>4 DEF step
      <4> QED BY <4>1, TwoUnread
    <3>4. ma_sent' \in {<<>>, <<step>>, <<next>>, <<step, next>>} /\ (ma_server.state = "closed" => ma_sent' = <<>>)
          /\ (ma_server.state # "closed" => ma_sent' \in Unread(next))
      <4>1. ma_server.state = "closed" => ma_sent = <<>> BY <1>5 DEF MailUnderway
      <4>2. <<next>> \in Unread(next) /\ (step # "greeting" => <<step, next>> \in Unread(next))
        BY <3>1 DEF Unread
      <4> QED BY <2>5, <3>2, <3>3, <4>1, <4>2
    <3>5. ma_sent' \in Unread(next)
      <4>1. <<>> \in Unread(next) BY DEF Unread
      <4> QED BY <3>4, <4>1
    <3>6. ~Answered' BY <1>1 DEF Answered
    <3>7. step = "text" => ma_server.accepted = 1
      BY <1>5, <1>7, <1>15 DEF MailUnderway, GoesOn, step, status
    <3>8. ma_server.accepted = 1 => step = "text" /\ next = "QUIT" /\ \A i \in 1 .. Len(ma_sent') : ma_sent'[i] # "text"
      <4>1. ma_server.accepted = 1 => step = "text" /\ \A i \in 1 .. Len(ma_sent) : ma_sent[i] # "text"
        BY <1>5, <2>1 DEF MailUnderway, step
      <4>2. ma_server.accepted = 1 => next = "QUIT" BY <3>1, <4>1
      <4>3. next = "QUIT" => next # "text" OBVIOUS
      <4> QED BY <1>3, <2>4, <2>5, <4>1, <4>2, <4>3, CommandSent
    <3>9. next \notin {"connect", "greeting", "done"} BY <2>4 DEF SmtpCommands
    <3>10. ma_server.accepted \in {0, 1} BY <1>5 DEF MailUnderway
    <3> QED BY <1>1, <2>4, <2>5, <3>1, <3>4, <3>5, <3>6, <3>7, <3>8, <3>9, <3>10 DEF MailUnderway
  <2>7. kind # "message" => \A i \in 1 .. Len(ma_sent') : ma_sent'[i] # "text"
    <3>1. kind # "message" => next # "text" BY <1>3, <2>4 DEF StepsOf, Kinds
    <3> QED BY <1>3, <1>5, <2>4, <2>5, <3>1, CommandSent
  <2>8. ma_greetings = 1 => Synchronous'
    <3> SUFFICES ASSUME ma_greetings = 1 PROVE Synchronous' OBVIOUS
    <3>1. /\ ma_sent' = <<>> \/ ma_sent' = <<next>>
          /\ ma_server.state = "closed" => ma_sent' = <<>>
      BY <1>11, <1>15, <2>4 DEF next
    <3>2. next \in {"HELO", "MAIL", "RCPT"} => step \in {"greeting", "HELO", "MAIL"}
      BY <1>3, <2>1, <2>2 DEF Follower, StepsOf, Kinds
    <3>3. next \in {"HELO", "MAIL", "RCPT"} => ~ma_server.recipient BY <1>6, <3>2 DEF Synchronous, step
    <3>4. next = "text" => ma_server.accepted = 0
      <4>1. next = "text" => step = "DATA" BY <1>3, <2>1, <2>2 DEF Follower, StepsOf, Kinds
      <4> QED BY <1>5, <4>1 DEF MailUnderway, step
    <3>5. next \notin {"connect", "greeting", "done"} BY <2>4 DEF SmtpCommands
    <3>6. next = "QUIT" => kind = "message" BY <2>3
    <3> QED BY <1>1, <1>6, <2>4, <2>5, <3>1, <3>3, <3>4, <3>5, <3>6 DEF Synchronous
  <2> QED BY <1>1, <1>5, <2>5, <2>6, <2>7, <2>8 DEF MA_Inv
<1> QED BY <1>8, <1>12, <1>13, <1>14, <1>15

(* What callers are told is true: mail that was sent was accepted, once,   *)
(* and, of a server that greets once, an address is called valid just when *)
(* the server accepted it.                                                 *)
THEOREM TruthIsTold == MA_Spec => []MA_TruthTold
<1>1. ASSUME MA_Inv, [MA_Next]_ma_vars PROVE MA_Inv'
  <2>1. CASE UNCHANGED ma_vars
    BY <1>1, <2>1 DEF ma_vars, MA_Inv, MA_TypeOK, TalkType, CallEnds, MailUnderway, Answered, Synchronous, Means,
       MA_TruthTold, Says
  <2>2. CASE MA_Next
    BY <1>1, <2>2, MA_ConnectStep, MA_ReadStep, MA_EofStep, MA_TimeOutStep, MA_GreetStep, MA_AnswerStep, MA_CloseStep
    DEF MA_Next
  <2> QED BY <1>1, <2>1, <2>2
<1>2. MA_Inv => MA_TruthTold BY DEF MA_Inv
<1> QED BY <1>1, <1>2, MA_InitInv, PTL DEF MA_Spec

-----------------------------------------------------------------------------
(* Tar archives. The places of the entries in the archive are determined   *)
(* by their sizes; whatever is cut off, what is left lies at its place.    *)

Chars == STRING \cup {"/", Behind}
TarTypes == {"file", "dir", "link"}
TarCells == [kind : {"null", "header", "data"}, type : TarTypes, size : Nat, prefix : Seq(Chars),
             name : Seq(Chars), numbers : BOOLEAN, byte : Nat]
DataCells == {c \in TarCells : c.kind = "data"}
TarEntries == [path : Seq(Chars), type : TarTypes, data : Seq(DataCells), size : Nat,
               ends : BOOLEAN]

(* Cells of an entry from its header to the next one.                      *)
Span(w) == TR_Block + w.size + ToBlockEnd(w.size)

(* The header of an entry, and an entry that lies at p of a tape, which    *)
(* may end before or in it.                                                *)
HeaderOf(c, w) ==
  /\ c.kind = "header" /\ c.type = w.type /\ DataSize(c) = w.size /\ ~NullBlock(c)
  /\ w.ends => MakeFullPath(c) = w.path

RecordAt(tape, p, w) ==
  /\ p < Len(tape) => HeaderOf(tape[p + 1], w)
  /\ \A k \in 1 .. Len(w.data) : p + TR_Block + k <= Len(tape) => tape[p + TR_Block + k] = w.data[k]

(* at[i] is where entry i begins, the last one where the next would.       *)
Places(at, list) ==
  /\ at \in [1 .. Len(list) + 1 -> Nat] /\ at[1] = 0
  /\ \A i \in 1 .. Len(list) : at[i + 1] = at[i] + Span(list[i])
  /\ \A i, j \in 1 .. Len(list) + 1 : i <= j => at[i] <= at[j]

(* Only the last entry may lack data, and then the tape ends with what     *)
(* there is.                                                               *)
Archive(tape, list, at) ==
  /\ tape \in Seq(TarCells) /\ list \in Seq(TarEntries)
  /\ Places(at, list)
  /\ \A i \in 1 .. Len(list) :
       /\ RecordAt(tape, at[i], list[i])
       /\ Len(list[i].data) <= list[i].size
       /\ Len(list[i].data) < list[i].size =>
            i = Len(list) /\ Len(tape) <= at[i] + TR_Block + Len(list[i].data)

TapeEnd(at, list) == at[Len(list) + 1]

(* How far the tape goes.                                                  *)
TapeLength(at) ==
  LET n == Len(tr_written) IN
  /\ tr_phase = "write" => Len(tr_tape) = TapeEnd(at, tr_written)
  /\ tr_phase = "rest" => /\ n > 0 /\ tr_written[n].type = "file"
                          /\ Len(tr_written[n].data) < tr_written[n].size
                          /\ Len(tr_tape) = at[n] + TR_Block + Len(tr_written[n].data)
  /\ tr_phase \in {"write", "rest"} => ~tr_cut
  /\ tr_phase \notin {"write", "rest"} /\ tr_cut => Len(tr_tape) <= TapeEnd(at, tr_written)
  /\ tr_phase \notin {"write", "rest"} /\ ~tr_cut =>
       /\ Len(tr_tape) = TapeEnd(at, tr_written) + 2 * TR_Block
       /\ tr_tape[TapeEnd(at, tr_written) + 1] = NullCell

(* Where the reader is: where an entry begins, behind a header, or at the  *)
(* end of an archive that was cut, or behind it.                           *)
Behinds == tr_cut /\ tr_pos >= Len(tr_tape)

ReaderAt(at) ==
  LET k == Len(tr_read) IN
  /\ k <= Len(tr_written)
  /\ tr_phase \in {"write", "rest"} => tr_pos = 0 /\ k = 0 /\ tr_entry = <<>>
  /\ tr_phase = "read" /\ tr_entry = <<>> => tr_pos = at[k + 1] \/ Behinds
  /\ tr_phase = "read" /\ tr_entry # <<>> =>
       /\ k < Len(tr_written)
       /\ HeaderOf(tr_entry[1], tr_written[k + 1]) /\ tr_entry[1].size = tr_written[k + 1].size
       /\ tr_pos = at[k + 1] + TR_Block \/ Behinds
       /\ tr_pos <= Len(tr_tape)
  /\ tr_phase = "eof" /\ ~tr_cut => k = Len(tr_written)

ReadRight ==
  \A i \in 1 .. Len(tr_read) :
    /\ tr_read[i].type = tr_written[i].type /\ tr_read[i].size = tr_written[i].size
    /\ tr_read[i].data \in {tr_written[i].data, <<>>}
    /\ tr_written[i].ends => tr_read[i].path = tr_written[i].path

Unreadable == \E i \in 1 .. Len(tr_tape) : tr_tape[i].kind = "header" /\ ~tr_tape[i].numbers

(* The copy is the archive of the entries in list: of all that were read   *)
(* when it has as many headers.                                            *)
Headers(tape) == {i \in 1 .. Len(tape) : tape[i].kind = "header"}
CopyHolds(list, at) ==
  /\ Archive(tr_copy, list, at)
  /\ Len(tr_copy) = TapeEnd(at, list)
  /\ \A i \in 1 .. Len(list) : Len(list[i].data) = list[i].size
  /\ IsFiniteSet(Headers(tr_copy)) /\ Cardinality(Headers(tr_copy)) = Len(list)
  /\ Len(list) <= Len(tr_read)
  /\ Len(list) = Len(tr_read) => list = tr_read

CopyInv ==
  tr_phase # "error" =>
    \E list \in Seq(TarEntries) : \E at \in [1 .. Len(list) + 1 -> Nat] : CopyHolds(list, at)

TR_TypeOK ==
  /\ tr_phase \in {"write", "rest", "read", "eof", "error"}
  /\ tr_tape \in Seq(TarCells)
  /\ tr_pos \in Nat /\ tr_cut \in BOOLEAN
  /\ tr_written \in Seq(TarEntries) /\ tr_read \in Seq(TarEntries)
  /\ tr_entry = <<>> \/ \E c \in TarCells : tr_entry = <<c>>

TR_Inv ==
  /\ TR_TypeOK
  /\ \E at \in [1 .. Len(tr_written) + 1 -> Nat] :
       Archive(tr_tape, tr_written, at) /\ TapeLength(at) /\ ReaderAt(at)
  /\ ReadRight
  /\ tr_phase = "error" => tr_cut \/ Unreadable
  /\ CopyInv

(* Paths and headers.                                                      *)
LEMMA BlockPositive == TR_Block \in Nat /\ TR_Block >= 1
BY TR_Assumption

LEMMA ToBlockEndNatural ==
  ASSUME NEW n \in Nat
  PROVE  ToBlockEnd(n) \in Nat
<1>1. n % TR_Block \in 0 .. TR_Block - 1
  BY BlockPositive
<1> QED  BY <1>1, BlockPositive DEF ToBlockEnd

LEMMA SpanFacts ==
  ASSUME NEW w \in TarEntries
  PROVE  Span(w) \in Nat /\ Span(w) >= TR_Block + w.size
<1>1. w.size \in Nat
  BY DEF TarEntries
<1>2. ToBlockEnd(w.size) \in Nat
  BY <1>1, ToBlockEndNatural
<1> QED  BY <1>1, <1>2, BlockPositive DEF Span

LEMMA NullsAre ==
  ASSUME NEW n \in Nat
  PROVE  Nulls(n) \in Seq(TarCells) /\ Len(Nulls(n)) = n /\ \A i \in 1 .. n : Nulls(n)[i] = NullCell
<1>1. NullCell \in TarCells
  BY EmptySeq DEF NullCell, TarCells, TarTypes
<1> QED  BY <1>1 DEF Nulls

LEMMA DataAre ==
  ASSUME NEW n \in Nat
  PROVE  /\ Bytes(n) \in Seq(DataCells) /\ Len(Bytes(n)) = n
         /\ [i \in 1 .. n |-> Data(0)] \in Seq(DataCells) /\ Len([i \in 1 .. n |-> Data(0)]) = n
<1>1. \A b \in Nat : Data(b) \in DataCells
  BY EmptySeq DEF NullCell, TarCells, TarTypes, Data, DataCells
<1> QED  BY <1>1 DEF Bytes

LEMMA GreatestNatural ==
  ASSUME NEW T, NEW n \in Nat, T \subseteq 0 .. n, T # {}
  PROVE  \E x \in T : \A y \in T : y <= x
<1> DEFINE down == {n - y : y \in T}
<1>0. \A y \in T : y \in Nat /\ n - y \in Nat
  OBVIOUS
<1>1. down \subseteq Nat /\ down # {}
  <2>1. PICK y \in T : TRUE
    OBVIOUS
  <2>2. n - y \in down
    BY <2>1
  <2> QED  BY <1>0, <2>2
<1>2. PICK d \in down : \A e \in down : ~(<<e, d>> \in OpToRel(<, Nat))
  BY <1>1, NatLessThanWellFounded, WFMin
<1>3. \A e \in down : ~(e < d)
  BY <1>1, <1>2 DEF OpToRel
<1>4. PICK x \in T : d = n - x
  OBVIOUS
<1>5. ASSUME NEW y \in T PROVE y <= x
  <2>1. n - y \in down
    OBVIOUS
  <2>2. ~(n - y < n - x)
    BY <1>3, <1>4, <2>1
  <2> QED  BY <1>0, <1>4, <2>2
<1> QED  BY <1>4, <1>5

(* A part of a sequence.                                                   *)
IsPart(part, whole, S, a, b) ==
  /\ part \in Seq(S) /\ Len(part) = b - a
  /\ \A i \in 1 .. b - a : part[i] = whole[a + i]

LEMMA PartOf ==
  ASSUME NEW S, NEW whole \in Seq(S), NEW a \in Nat, NEW b \in Nat, a <= b, b <= Len(whole)
  PROVE  IsPart(SubSeq(whole, a + 1, b), whole, S, a, b)
<1> DEFINE part == SubSeq(whole, a + 1, b)
<1>1. \A i \in a + 1 .. b : whole[i] \in S
  <2>1. \A i \in a + 1 .. b : i \in 1 .. Len(whole)
    OBVIOUS
  <2> QED  BY <2>1, ElementOfSeq
<1>2. a + 1 \in Int /\ b \in Int
  OBVIOUS
<1>3. /\ part \in Seq(S)
      /\ Len(part) = IF a + 1 <= b THEN b - (a + 1) + 1 ELSE 0
      /\ \A i \in 1 .. b - (a + 1) + 1 : part[i] = whole[(a + 1) + i - 1]
  BY ONLY <1>1, <1>2, SubSeqProperties
<1> HIDE DEF part
<1>4. /\ b - (a + 1) + 1 = b - a
      /\ (IF a + 1 <= b THEN b - (a + 1) + 1 ELSE 0) = b - a
      /\ \A i \in 1 .. b - a : (a + 1) + i - 1 = a + i
  OBVIOUS
<1>5. Len(part) = b - a /\ \A i \in 1 .. b - a : part[i] = whole[a + i]
  BY <1>3, <1>4
<1> QED  BY <1>3, <1>5 DEF IsPart, part

HeaderCells(h, type, size, info) ==
  /\ h \in Seq(TarCells) /\ Len(h) = TR_Block
  /\ h[1].kind = "header" /\ h[1].type = type
  /\ h[1].prefix = info.prefix /\ h[1].name = info.name
  /\ DataSize(h[1]) = IF type = "file" THEN size ELSE 0
  /\ \A i \in 2 .. TR_Block : h[i].kind # "header"

LEMMA HeaderIs ==
  ASSUME NEW type \in TarTypes, NEW size \in Nat, NEW info,
         info.prefix \in Seq(Chars), info.name \in Seq(Chars), NEW numbers \in BOOLEAN,
         NEW h, h = Header(type, size, info, numbers)
  PROVE  HeaderCells(h, type, size, info)
<1> DEFINE first == [NullCell EXCEPT !.kind = "header", !.type = type, !.prefix = info.prefix,
                       !.name = info.name,
                       !.size = IF type \in {"dir", "link"} THEN 0 ELSE size,
                       !.numbers = numbers]
           rest == Nulls(TR_Block - 1)
<1>1. first \in TarCells
  BY DEF NullCell, TarCells, TarTypes
<1>2. /\ first.kind = "header" /\ first.type = type /\ first.prefix = info.prefix
      /\ first.name = info.name /\ DataSize(first) = IF type = "file" THEN size ELSE 0
  BY DEF NullCell, DataSize, TarTypes
<1>3. /\ rest \in Seq(TarCells) /\ Len(rest) = TR_Block - 1
      /\ \A i \in 1 .. TR_Block - 1 : rest[i] = NullCell
  <2>1. TR_Block - 1 \in Nat
    BY BlockPositive
  <2> QED  BY <2>1, NullsAre, Zenon
<1>4. Header(type, size, info, numbers) = <<first>> \o rest
  BY DEF Header
<1>5. NullCell.kind # "header"
  BY DEF NullCell
<1> HIDE DEF first, rest
<1> DEFINE one == <<first>>
<1>6. /\ h \in Seq(TarCells) /\ Len(h) = TR_Block /\ h[1] = first
      /\ \A i \in 2 .. TR_Block : h[i] = rest[i - 1]
  <2>0. h = one \o rest
    BY <1>4
  <2>1. one \in Seq(TarCells) /\ Len(one) = 1 /\ one[1] = first
    BY <1>1
  <2> HIDE DEF one
  <2>2. /\ one \o rest \in Seq(TarCells) /\ Len(one \o rest) = Len(one) + Len(rest)
        /\ \A i \in 1 .. Len(one) + Len(rest) :
             (one \o rest)[i] = IF i <= Len(one) THEN one[i] ELSE rest[i - Len(one)]
    BY ONLY <1>3, <2>1, ConcatProperties
  <2> QED  BY <1>3, <2>0, <2>1, <2>2, BlockPositive
<1>7. \A i \in 2 .. TR_Block : i - 1 \in 1 .. TR_Block - 1
  BY BlockPositive
<1> QED  BY <1>2, <1>3, <1>5, <1>6, <1>7 DEF HeaderCells

LEMMA FullPath ==
  ASSUME NEW path \in Seq(Chars), path # <<>>, NEW dir \in BOOLEAN, PathFits(path, dir)
  PROVE  LET info == PathInfo(path, dir) IN
         /\ FullName(path, dir) \in Seq(Chars)
         /\ info.prefix \in Seq(Chars) /\ info.name \in Seq(Chars)
         /\ ~NullBlock(info)
         /\ FieldsEnd(info) => MakeFullPath(info) = FullName(path, dir)
<1> DEFINE full == FullName(path, dir)
           length == TarLength(path, dir)
           n == IF length <= TR_Name THEN 0 ELSE SplitPoint(path)
<1>1. full \in Seq(Chars) /\ Len(full) = length /\ \A i \in 1 .. Len(path) : full[i] = path[i]
  <2>1. CASE NeedsSlash(path, dir)
    <3>1. full = Append(path, "/") /\ length = Len(path) + 1
      BY <2>1 DEF FullName, TarLength
    <3>2. "/" \in Chars
      BY DEF Chars
    <3> HIDE DEF full, length
    <3> QED  BY <3>1, <3>2, AppendProperties
  <2>2. CASE ~NeedsSlash(path, dir)
    BY <2>2 DEF FullName, TarLength
  <2> QED  BY <2>1, <2>2
<1>2. length \in Nat /\ Len(path) <= length
  BY DEF TarLength
<1>3. n \in 0 .. Len(path) /\ (n # 0 => path[n] = "/")
  <2>1. CASE length <= TR_Name
    BY <2>1
  <2>2. CASE ~(length <= TR_Name)
    <3>1. SplitPoint(path) > 1 /\ n = SplitPoint(path)
      BY <2>2 DEF PathFits
    <3>2. SlashesInPrefix(path) # {}
      BY <3>1 DEF SplitPoint
    <3>4. \E i \in SlashesInPrefix(path) : \A j \in SlashesInPrefix(path) : j <= i
      <4>1. SlashesInPrefix(path) \subseteq 0 .. Len(path) /\ Len(path) \in Nat
        BY DEF SlashesInPrefix
      <4> QED  BY <3>2, <4>1, GreatestNatural
    <3>5. SplitPoint(path) \in SlashesInPrefix(path)
      BY <3>2, <3>4 DEF SplitPoint
    <3> QED  BY <3>1, <3>5 DEF SlashesInPrefix
  <2> QED  BY <2>1, <2>2
<1> DEFINE prefix == SubSeq(path, 1, n)
           name == SubSeq(full, n + 1, length)
<1>4. PathInfo(path, dir) = [prefix |-> prefix, name |-> name]
  BY DEF PathInfo
<1>5. prefix \in Seq(Chars) /\ Len(prefix) = n /\ \A i \in 1 .. n : prefix[i] = path[i]
  BY <1>3
<1>6. name \in Seq(Chars) /\ Len(name) = length - n /\ \A i \in 1 .. length - n : name[i] = full[n + i]
  <2> HIDE DEF n, full, length
  <2>1. full \in Seq(Chars) /\ n \in Nat /\ length \in Nat /\ n <= length /\ length <= Len(full)
    BY <1>1, <1>2, <1>3
  <2>2. IsPart(name, full, Chars, n, length)
    BY ONLY <2>1, PartOf
  <2> QED  BY <2>2 DEF IsPart
<1>7. ASSUME Len(prefix) < TR_Prefix, Len(name) < TR_Name
      PROVE  MakeFullPath(PathInfo(path, dir)) = full
  <2>1. FieldString(prefix, TR_Prefix) = prefix /\ FieldString(name, TR_Name) = name
    <3> HIDE DEF prefix, name
    <3>1. Len(prefix) # TR_Prefix /\ Len(name) # TR_Name
      BY <1>2, <1>3, <1>5, <1>6, <1>7, TR_Assumption
    <3> QED  BY <3>1 DEF FieldString
  <2>2. MakeFullPath(PathInfo(path, dir)) =
          IF prefix = <<>> THEN name
          ELSE IF Last(prefix) = "/" THEN prefix \o name ELSE prefix \o <<"/">> \o name
    <3> HIDE DEF prefix, name
    <3> QED  BY <1>4, <2>1 DEF MakeFullPath
  <2>3. CASE n = 0
    <3>1. prefix = <<>>
      BY <1>5, <2>3
    <3>2. name = full
      BY <1>1, <1>2, <2>3, SubSeqFull
    <3> QED  BY <2>2, <3>1, <3>2
  <2>4. CASE n # 0
    <3>1. prefix # <<>> /\ Last(prefix) = "/"
      BY <1>3, <1>5, <2>4 DEF Last
    <3>2. prefix \o name = full
      <4> HIDE DEF full, length, n, prefix, name
      <4>0. n \in Nat /\ length \in Nat /\ n <= length /\ Len(prefix) = n /\ Len(name) = length - n
        BY <1>2, <1>3, <1>5, <1>6
      <4>1. /\ prefix \o name \in Seq(Chars) /\ Len(prefix \o name) = length
            /\ \A i \in 1 .. length : (prefix \o name)[i] = IF i <= n THEN prefix[i] ELSE name[i - n]
        <5>1. /\ prefix \o name \in Seq(Chars) /\ Len(prefix \o name) = Len(prefix) + Len(name)
              /\ \A i \in 1 .. Len(prefix) + Len(name) :
                   (prefix \o name)[i] = IF i <= Len(prefix) THEN prefix[i] ELSE name[i - Len(prefix)]
          BY <1>5, <1>6, ConcatProperties
        <5>2. Len(prefix) + Len(name) = length
          BY <4>0
        <5> QED  BY <4>0, <5>1, <5>2
      <4>2. ASSUME NEW i \in 1 .. length PROVE (prefix \o name)[i] = full[i]
        <5>1. CASE i <= n
          <6>1. i \in 1 .. n /\ i \in 1 .. Len(path)
            BY <5>1, <4>0, <1>3
          <6>2. (prefix \o name)[i] = prefix[i]
            BY <5>1, <4>1
          <6> QED  BY <6>1, <6>2, <1>1, <1>5
        <5>2. CASE ~(i <= n)
          <6>1. i - n \in 1 .. length - n /\ n + (i - n) = i
            BY <5>2, <4>0
          <6>2. (prefix \o name)[i] = name[i - n]
            BY <5>2, <4>1
          <6>3. name[i - n] = full[n + (i - n)]
            BY <6>1, <1>6
          <6> QED  BY <6>1, <6>2, <6>3
        <5> QED  BY <5>1, <5>2
      <4> QED  BY <4>1, <4>2, <1>1, SeqEqual
    <3> HIDE DEF prefix, name, full
    <3> QED  BY <2>2, <3>1, <3>2
  <2> HIDE DEF n, full
  <2> QED  BY <2>3, <2>4
<1> HIDE DEF prefix, name
<1>8. PathInfo(path, dir).prefix = prefix /\ PathInfo(path, dir).name = name
  BY <1>4
<1>9. prefix # <<>> \/ name # <<>>
  <2>1. Len(path) >= 1
    BY EmptySeq
  <2>2. Len(prefix) > 0 \/ Len(name) > 0
    BY <1>2, <1>3, <1>5, <1>6, <2>1
  <2> QED  BY <2>2, EmptySeq
<1> QED  BY <1>1, <1>5, <1>6, <1>7, <1>8, <1>9 DEF FieldsEnd, NullBlock

(* Archives that grow, and that are cut.                                   *)
(* A record that is complete stays where the tape grows behind it.         *)
Extends(longer, tape) ==
  Len(tape) <= Len(longer) /\ \A i \in 1 .. Len(tape) : longer[i] = tape[i]

LEMMA WithinTape ==
  ASSUME NEW p \in Nat, NEW b \in Nat, NEW q \in Nat, NEW m \in Nat, b >= 1, p + b + q <= m
  PROVE  /\ p < m /\ p + 1 \in 1 .. m
         /\ \A k \in 1 .. q : p + b + k \in 1 .. m
OBVIOUS

LEMMA WholeData ==
  ASSUME NEW a \in Nat, NEW b \in Nat, NEW d \in Nat, NEW z \in Nat,
         NEW e \in Nat, NEW t \in Nat, NEW m \in Nat,
         d <= z, d < z => m <= a + b + d, a + b + z <= e, e <= t, t <= m
  PROVE  d = z /\ a + b + d <= e /\ a + b + d <= m
OBVIOUS

LEMMA RecordStays ==
  ASSUME NEW tape \in Seq(TarCells), NEW longer \in Seq(TarCells), Extends(longer, tape),
         NEW w \in TarEntries, NEW p \in Nat, RecordAt(tape, p, w),
         p + TR_Block + Len(w.data) <= Len(tape)
  PROVE  RecordAt(longer, p, w)
<1>1. Len(w.data) \in Nat /\ Len(tape) \in Nat
  BY DEF TarEntries
<1>2. /\ p < Len(tape) /\ p + 1 \in 1 .. Len(tape)
      /\ \A k \in 1 .. Len(w.data) : p + TR_Block + k \in 1 .. Len(tape)
  BY <1>1, BlockPositive, WithinTape, Zenon
<1>3. longer[p + 1] = tape[p + 1] /\ HeaderOf(tape[p + 1], w)
  BY <1>2 DEF Extends, RecordAt
<1>4. ASSUME NEW k \in 1 .. Len(w.data) PROVE longer[p + TR_Block + k] = w.data[k]
  <2>1. p + TR_Block + k \in 1 .. Len(tape) /\ p + TR_Block + k <= Len(tape)
    BY <1>1, <1>2, BlockPositive
  <2> QED  BY <2>1 DEF Extends, RecordAt
<1> QED  BY <1>3, <1>4 DEF RecordAt

LEMMA RecordCut ==
  ASSUME NEW tape \in Seq(TarCells), NEW shorter \in Seq(TarCells), Extends(tape, shorter),
         NEW w \in TarEntries, NEW p \in Nat, RecordAt(tape, p, w)
  PROVE  RecordAt(shorter, p, w)
<1>1. Len(w.data) \in Nat /\ Len(tape) \in Nat /\ Len(shorter) \in Nat
  BY DEF TarEntries
<1>2. ASSUME p < Len(shorter) PROVE HeaderOf(shorter[p + 1], w)
  <2>1. p + 1 \in 1 .. Len(shorter) /\ p < Len(tape)
    BY <1>2 DEF Extends
  <2> QED  BY <2>1 DEF Extends, RecordAt
<1>3. ASSUME NEW k \in 1 .. Len(w.data), p + TR_Block + k <= Len(shorter)
      PROVE  shorter[p + TR_Block + k] = w.data[k]
  <2>1. p + TR_Block + k \in 1 .. Len(shorter) /\ p + TR_Block + k <= Len(tape)
    BY <1>1, <1>3, BlockPositive DEF Extends
  <2> QED  BY <2>1 DEF Extends, RecordAt
<1> QED  BY <1>2, <1>3 DEF RecordAt

LEMMA Glued ==
  ASSUME NEW tape \in Seq(TarCells), NEW more \in Seq(TarCells)
  PROVE  /\ tape \o more \in Seq(TarCells) /\ Extends(tape \o more, tape)
         /\ Len(tape \o more) = Len(tape) + Len(more)
         /\ \A i \in 1 .. Len(more) : (tape \o more)[Len(tape) + i] = more[i]
<1>1. /\ tape \o more \in Seq(TarCells) /\ Len(tape \o more) = Len(tape) + Len(more)
      /\ \A i \in 1 .. Len(tape) + Len(more) :
           (tape \o more)[i] = IF i <= Len(tape) THEN tape[i] ELSE more[i - Len(tape)]
  BY ConcatProperties
<1>2. Len(tape) \in Nat /\ Len(more) \in Nat
  OBVIOUS
<1> DEFINE long == tape \o more
<1> HIDE DEF long
<1>3. Extends(long, tape)
  BY <1>1, <1>2 DEF Extends, long
<1>4. ASSUME NEW i \in 1 .. Len(more) PROVE long[Len(tape) + i] = more[i]
  <2>1. /\ Len(tape) + i \in 1 .. Len(tape) + Len(more)
        /\ ~(Len(tape) + i <= Len(tape)) /\ (Len(tape) + i) - Len(tape) = i
    BY <1>2
  <2> QED  BY <1>1, <2>1 DEF long
<1> QED  BY <1>1, <1>3, <1>4 DEF long

(* In an archive that goes to where the next entry would begin nothing is  *)
(* missing.                                                                *)
LEMMA NothingMissing ==
  ASSUME NEW tape, NEW list, NEW at, Archive(tape, list, at), Len(tape) >= TapeEnd(at, list),
         NEW i \in 1 .. Len(list)
  PROVE  /\ list[i] \in TarEntries /\ at[i] \in Nat /\ list[i].size \in Nat
         /\ Len(list[i].data) = list[i].size
         /\ at[i] + TR_Block + Len(list[i].data) <= at[i + 1]
         /\ at[i] + TR_Block + Len(list[i].data) <= Len(tape)
         /\ at[i + 1] <= TapeEnd(at, list) /\ at[i + 1] \in Nat
<1>1. /\ tape \in Seq(TarCells) /\ list \in Seq(TarEntries) /\ Len(list) \in Nat
      /\ at \in [1 .. Len(list) + 1 -> Nat]
      /\ at[i + 1] = at[i] + Span(list[i])
      /\ i \in 1 .. Len(list) + 1 /\ i + 1 \in 1 .. Len(list) + 1
      /\ Len(list) + 1 \in 1 .. Len(list) + 1
  BY DEF Archive, Places
<1>2. list[i] \in TarEntries /\ list[i].size \in Nat /\ Len(list[i].data) \in Nat
  <2>1. list[i] \in TarEntries
    BY <1>1, ElementOfSeq
  <2> QED  BY <2>1 DEF TarEntries
<1>3. at[i] \in Nat /\ at[i + 1] \in Nat /\ at[Len(list) + 1] \in Nat /\ Len(tape) \in Nat
  BY <1>1
<1>4. at[i + 1] <= at[Len(list) + 1]
  <2>1. i + 1 <= Len(list) + 1
    BY <1>1
  <2> QED  BY <1>1, <2>1 DEF Archive, Places
<1>5. at[i] + TR_Block + list[i].size <= at[i + 1]
  <2> DEFINE s == Span(list[i])
             u == list[i].size
  <2>1. s \in Nat /\ s >= TR_Block + u
    BY <1>2, SpanFacts
  <2>2. at[i] \in Nat /\ u \in Nat /\ at[i + 1] = at[i] + s
    BY <1>1, <1>2, <1>3
  <2> HIDE DEF s, u
  <2>3. at[i] + TR_Block + u <= at[i + 1]
    BY ONLY <2>1, <2>2, BlockPositive
  <2> QED  BY <2>3 DEF u
<1> DEFINE d == Len(list[i].data)
           z == list[i].size
           e == at[i + 1]
           t == at[Len(list) + 1]
           m == Len(tape)
<1>6. d = z /\ at[i] + TR_Block + d <= e /\ at[i] + TR_Block + d <= m
  <2>1. d <= z /\ (d < z => m <= at[i] + TR_Block + d)
    BY DEF Archive
  <2>2. t <= m
    BY <1>3 DEF TapeEnd
  <2>3. at[i] \in Nat /\ e \in Nat /\ t \in Nat /\ m \in Nat /\ d \in Nat /\ z \in Nat
    BY <1>2, <1>3
  <2>4. e <= t /\ at[i] + TR_Block + z <= e
    BY <1>4, <1>5
  <2> HIDE DEF d, z, e, t, m
  <2> QED  BY <2>1, <2>2, <2>3, <2>4, BlockPositive, WholeData
<1> QED  BY <1>2, <1>3, <1>4, <1>5, <1>6 DEF TapeEnd

(* An entry is added: its header, and its data as far as they go.          *)
Extended(at, list, w) ==
  [i \in 1 .. Len(list) + 2 |->
     IF i = Len(list) + 2 THEN at[Len(list) + 1] + Span(w) ELSE at[i]]

EntryWhole(more, w) ==
  /\ HeaderOf(more[1], w) /\ TR_Block + Len(w.data) <= Len(more)
  /\ \A k \in 1 .. Len(w.data) : more[TR_Block + k] = w.data[k]
  /\ Len(w.data) <= w.size
  /\ Len(w.data) < w.size => Len(more) = TR_Block + Len(w.data)

ArchiveGrown(tape, list, at, more, w) ==
  /\ Archive(tape \o more, Append(list, w), Extended(at, list, w))
  /\ Extended(at, list, w) \in [1 .. Len(Append(list, w)) + 1 -> Nat]
  /\ Extended(at, list, w)[Len(list) + 1] = Len(tape)
  /\ TapeEnd(Extended(at, list, w), Append(list, w)) = Len(tape) + Span(w)
  /\ Len(tape \o more) = Len(tape) + Len(more)

LEMMA EntryAdded ==
  ASSUME NEW tape, NEW list, NEW at, Archive(tape, list, at), Len(tape) = TapeEnd(at, list),
         NEW w \in TarEntries, NEW more \in Seq(TarCells),
         EntryWhole(more, w)
  PROVE  ArchiveGrown(tape, list, at, more, w)
<1> DEFINE n == Len(list)
           list2 == Append(list, w)
           tape2 == tape \o more
           at2 == Extended(at, list, w)
<1>0. /\ HeaderOf(more[1], w) /\ TR_Block + Len(w.data) <= Len(more)
      /\ \A k \in 1 .. Len(w.data) : more[TR_Block + k] = w.data[k]
      /\ Len(w.data) <= w.size
      /\ Len(w.data) < w.size => Len(more) = TR_Block + Len(w.data)
  BY DEF EntryWhole
<1>1. /\ tape \in Seq(TarCells) /\ list \in Seq(TarEntries) /\ n \in Nat
      /\ at \in [1 .. n + 1 -> Nat] /\ at[1] = 0 /\ Len(tape) \in Nat
      /\ at[n + 1] = Len(tape) /\ Len(w.data) \in Nat /\ w.size \in Nat
  BY DEF Archive, Places, TapeEnd, TarEntries
<1>2. /\ list2 \in Seq(TarEntries) /\ Len(list2) = n + 1 /\ list2[n + 1] = w
      /\ \A i \in 1 .. n : list2[i] = list[i]
  BY <1>1, AppendProperties
<1>3. /\ tape2 \in Seq(TarCells) /\ Extends(tape2, tape)
      /\ Len(tape2) = Len(tape) + Len(more)
      /\ \A i \in 1 .. Len(more) : tape2[Len(tape) + i] = more[i]
  BY <1>1, Glued
<1>4. Span(w) \in Nat
  BY SpanFacts
<1>5. /\ at2 \in [1 .. n + 2 -> Nat] /\ at2[n + 2] = Len(tape) + Span(w)
      /\ \A i \in 1 .. n + 1 : at2[i] = at[i]
  <2>1. n + 2 \in 1 .. n + 2 /\ \A i \in 1 .. n + 1 : i \in 1 .. n + 2 /\ i # n + 2
    BY <1>1
  <2>2. \A i \in 1 .. n + 2 : i # n + 2 => i \in 1 .. n + 1
    BY <1>1
  <2>3. \A i \in 1 .. n + 2 : at2[i] = IF i = n + 2 THEN at[n + 1] + Span(w) ELSE at[i]
    BY DEF Extended
  <2>4. \A i \in 1 .. n + 2 : at2[i] \in Nat
    <3> SUFFICES ASSUME NEW i \in 1 .. n + 2 PROVE at2[i] \in Nat
      OBVIOUS
    <3>1. at[n + 1] + Span(w) \in Nat
      BY <1>1, <1>4
    <3>2. i # n + 2 => at[i] \in Nat
      BY <1>1, <2>2
    <3> QED  BY <2>3, <3>1, <3>2
  <2>5. at2 \in [1 .. n + 2 -> Nat]
    BY <2>4 DEF Extended
  <2> QED  BY <1>1, <2>1, <2>3, <2>5
<1> HIDE DEF n, list2, tape2, at2
<1>6. Places(at2, list2)
  <2>1. at2 \in [1 .. Len(list2) + 1 -> Nat] /\ at2[1] = 0
    BY <1>1, <1>2, <1>5
  <2>2. ASSUME NEW i \in 1 .. Len(list2) PROVE at2[i + 1] = at2[i] + Span(list2[i])
    <3>1. CASE i = n + 1
      <4>1. n + 1 \in 1 .. n + 1 /\ i + 1 = n + 2
        BY <1>1, <3>1
      <4> QED  BY <1>1, <1>2, <1>5, <3>1, <4>1
    <3>2. CASE i # n + 1
      <4>1. i \in 1 .. n /\ i \in 1 .. n + 1 /\ i + 1 \in 1 .. n + 1
        BY <1>1, <1>2, <3>2
      <4>2. at[i + 1] = at[i] + Span(list[i])
        BY <4>1 DEF Archive, Places, n
      <4> QED  BY <1>2, <1>5, <4>1, <4>2
    <3> QED  BY <3>1, <3>2
  <2>3. ASSUME NEW i \in 1 .. Len(list2) + 1, NEW j \in 1 .. Len(list2) + 1, i <= j
        PROVE  at2[i] <= at2[j]
    <3>1. \A g, h \in 1 .. n + 1 : g <= h => at[g] <= at[h]
      BY DEF Archive, Places, n
    <3>2. CASE j # n + 2
      <4>1. i \in 1 .. n + 1 /\ j \in 1 .. n + 1
        BY <1>1, <1>2, <2>3, <3>2
      <4>2. at2[i] = at[i] /\ at2[j] = at[j]
        BY <1>5, <4>1
      <4> QED  BY <2>3, <3>1, <4>1, <4>2
    <3>3. CASE j = n + 2 /\ i # n + 2
      <4>1. i \in 1 .. n + 1 /\ n + 1 \in 1 .. n + 1 /\ i <= n + 1
        BY <1>1, <1>2, <3>3
      <4>2. at[i] <= at[n + 1] /\ at[i] \in Nat
        BY <1>1, <3>1, <4>1
      <4>3. at2[i] = at[i] /\ at2[j] = at[n + 1] + Span(w)
        BY <1>1, <1>5, <3>3, <4>1
      <4> QED  BY <1>1, <1>4, <4>2, <4>3
    <3>4. CASE j = n + 2 /\ i = n + 2
      BY <1>1, <1>4, <1>5, <3>4
    <3> QED  BY <3>2, <3>3, <3>4
  <2> QED  BY <2>1, <2>2, <2>3 DEF Places
<1>7. ASSUME NEW i \in 1 .. Len(list2)
      PROVE  /\ RecordAt(tape2, at2[i], list2[i])
             /\ Len(list2[i].data) <= list2[i].size
             /\ Len(list2[i].data) < list2[i].size =>
                  i = Len(list2) /\ Len(tape2) <= at2[i] + TR_Block + Len(list2[i].data)
  <2>1. CASE i = n + 1
    <3>1. at2[i] = Len(tape) /\ list2[i] = w /\ Len(list2) = i
      BY <1>1, <1>2, <1>5, <2>1
    <3>2. 1 \in 1 .. Len(more) /\ Len(more) \in Nat
      BY <1>0, <1>1, BlockPositive
    <3>3. HeaderOf(tape2[Len(tape) + 1], w)
      BY <1>0, <1>3, <3>2
    <3>4. ASSUME NEW k \in 1 .. Len(w.data) PROVE tape2[Len(tape) + TR_Block + k] = w.data[k]
      <4>1. TR_Block + k \in 1 .. Len(more) /\ Len(tape) + (TR_Block + k) = Len(tape) + TR_Block + k
        BY <1>0, <1>1, <3>2, BlockPositive, SMTT(30)
      <4> QED  BY <1>0, <1>3, <4>1
    <3>5. RecordAt(tape2, Len(tape), w)
      BY <3>3, <3>4 DEF RecordAt
    <3>6. Len(w.data) < w.size => Len(tape2) <= Len(tape) + TR_Block + Len(w.data)
      BY <1>0, <1>1, <1>3, BlockPositive
    <3> QED  BY <1>0, <3>1, <3>5, <3>6
  <2>2. CASE i # n + 1
    <3>1. i \in 1 .. n /\ i \in 1 .. n + 1
      BY <1>1, <1>2, <2>2
    <3>2. /\ list[i] \in TarEntries /\ at[i] \in Nat /\ list[i].size \in Nat
          /\ Len(list[i].data) = list[i].size
          /\ at[i] + TR_Block + Len(list[i].data) <= Len(tape)
      <4>1. Len(tape) >= TapeEnd(at, list)
        BY <1>1
      <4>2. i \in 1 .. Len(list)
        BY <3>1 DEF n
      <4> QED  BY <4>1, <4>2, NothingMissing
    <3>3. RecordAt(tape, at[i], list[i])
      BY <3>1 DEF Archive, n
    <3>5. RecordAt(tape2, at[i], list[i])
      BY <1>1, <1>3, <3>2, <3>3, RecordStays
    <3> QED  BY <1>2, <1>5, <3>1, <3>2, <3>5
  <2> QED  BY <2>1, <2>2
<1>8. Archive(tape2, list2, at2)
  BY <1>2, <1>3, <1>6, <1>7 DEF Archive
<1>9. n + 1 \in 1 .. n + 1 /\ (n + 1) + 1 = n + 2
  BY <1>1
<1>10. /\ at2 \in [1 .. Len(list2) + 1 -> Nat] /\ at2[n + 1] = Len(tape)
       /\ TapeEnd(at2, list2) = Len(tape) + Span(w)
  BY <1>1, <1>2, <1>5, <1>9 DEF TapeEnd
<1> QED  BY <1>3, <1>8, <1>10 DEF n, list2, tape2, at2, ArchiveGrown

(* The end of an archive is written behind it.                             *)
ArchiveEnded(tape2, list, at) ==
  /\ Archive(tape2, list, at)
  /\ Len(tape2) = TapeEnd(at, list) + 2 * TR_Block
  /\ tape2[TapeEnd(at, list) + 1] = NullCell

LEMMA NullsAdded ==
  ASSUME NEW tape, NEW list, NEW at, Archive(tape, list, at), Len(tape) = TapeEnd(at, list)
  PROVE  ArchiveEnded(tape \o Nulls(2 * TR_Block), list, at)
<1> DEFINE more == Nulls(2 * TR_Block)
           tape2 == tape \o more
<1>1. tape \in Seq(TarCells) /\ list \in Seq(TarEntries) /\ Places(at, list)
  BY DEF Archive
<1>2. 2 * TR_Block \in Nat /\ 1 \in 1 .. 2 * TR_Block
  BY BlockPositive
<1>3. /\ more \in Seq(TarCells) /\ Len(more) = 2 * TR_Block /\ more[1] = NullCell
  BY <1>2, NullsAre
<1> HIDE DEF more
<1>4. /\ tape2 \in Seq(TarCells) /\ Extends(tape2, tape) /\ Len(tape2) = Len(tape) + Len(more)
      /\ \A i \in 1 .. Len(more) : tape2[Len(tape) + i] = more[i]
  BY <1>1, <1>3, Glued
<1> HIDE DEF tape2
<1>5. ASSUME NEW i \in 1 .. Len(list)
      PROVE  /\ RecordAt(tape2, at[i], list[i])
             /\ Len(list[i].data) <= list[i].size
             /\ Len(list[i].data) < list[i].size =>
                  i = Len(list) /\ Len(tape2) <= at[i] + TR_Block + Len(list[i].data)
  <2>0. Len(tape) >= TapeEnd(at, list)
    <3>1. Len(tape) \in Nat
      BY <1>1
    <3> QED  BY <3>1
  <2>1. /\ list[i] \in TarEntries /\ at[i] \in Nat /\ list[i].size \in Nat
        /\ Len(list[i].data) = list[i].size
        /\ at[i] + TR_Block + Len(list[i].data) <= Len(tape)
    BY <2>0, NothingMissing
  <2>2. RecordAt(tape, at[i], list[i])
    BY DEF Archive
  <2>3. RecordAt(tape2, at[i], list[i])
    BY <1>1, <1>4, <2>1, <2>2, RecordStays
  <2> QED  BY <2>1, <2>3
<1>6. Archive(tape2, list, at)
  BY <1>1, <1>4, <1>5 DEF Archive
<1>7. tape2[Len(tape) + 1] = NullCell
  BY <1>2, <1>3, <1>4
<1>8. Len(tape2) = TapeEnd(at, list) + 2 * TR_Block /\ tape2[TapeEnd(at, list) + 1] = NullCell
  BY <1>3, <1>4, <1>7
<1> QED  BY <1>6, <1>8 DEF tape2, more, ArchiveEnded

(* A tape that is cut holds what was before the cut.                       *)
LEMMA TapeCut ==
  ASSUME NEW tape, NEW list, NEW at, Archive(tape, list, at), NEW n \in 0 .. Len(tape)
  PROVE  /\ Archive(SubSeq(tape, 1, n), list, at) /\ Len(SubSeq(tape, 1, n)) = n
<1> DEFINE short == SubSeq(tape, 1, n)
<1>1. tape \in Seq(TarCells) /\ list \in Seq(TarEntries) /\ Places(at, list) /\ Len(tape) \in Nat
  BY DEF Archive
<1>2. short \in Seq(TarCells) /\ Len(short) = n /\ \A i \in 1 .. n : short[i] = tape[i]
  BY <1>1
<1> HIDE DEF short
<1>3. Extends(tape, short)
  BY <1>1, <1>2 DEF Extends
<1>4. ASSUME NEW i \in 1 .. Len(list)
      PROVE  /\ RecordAt(short, at[i], list[i])
             /\ Len(list[i].data) <= list[i].size
             /\ Len(list[i].data) < list[i].size =>
                  i = Len(list) /\ Len(short) <= at[i] + TR_Block + Len(list[i].data)
  <2>1. list[i] \in TarEntries
    BY <1>1, ElementOfSeq
  <2>2. at[i] \in Nat
    BY <1>1 DEF Places
  <2>3. /\ RecordAt(tape, at[i], list[i]) /\ Len(list[i].data) <= list[i].size
        /\ Len(list[i].data) < list[i].size =>
             i = Len(list) /\ Len(tape) <= at[i] + TR_Block + Len(list[i].data)
    BY DEF Archive
  <2>4. RecordAt(short, at[i], list[i])
    BY <1>1, <1>2, <1>3, <2>1, <2>2, <2>3, RecordCut
  <2>5. Len(list[i].data) \in Nat
    BY <2>1 DEF TarEntries
  <2> QED  BY <1>1, <1>2, <2>2, <2>3, <2>4, <2>5, BlockPositive
<1>5. Archive(short, list, at)
  BY <1>1, <1>2, <1>4 DEF Archive
<1> QED  BY <1>2, <1>5 DEF short

(* The rest of the data of the last entry, and the end of its block.       *)
Completed(list, more) == [list EXCEPT ![Len(list)].data = @ \o more]

ArchiveCompleted(tape2, list, at, more) ==
  /\ Archive(tape2, Completed(list, more), at)
  /\ Len(tape2) = TapeEnd(at, list)
  /\ Len(Completed(list, more)) = Len(list)

LEMMA RestAdded ==
  ASSUME NEW tape, NEW list, NEW at, Archive(tape, list, at), NEW n \in Nat, n = Len(list), n > 0,
         NEW more \in Seq(DataCells), NEW pad \in Seq(TarCells),
         Len(tape) = at[n] + TR_Block + Len(list[n].data),
         Len(list[n].data) + Len(more) = list[n].size,
         Len(pad) = ToBlockEnd(list[n].size)
  PROVE  ArchiveCompleted(tape \o more \o pad, list, at, more)
<1> DEFINE w == list[n]
           w2 == [w EXCEPT !.data = @ \o more]
           list2 == Completed(list, more)
           tape1 == tape \o more
           tape2 == tape1 \o pad
<1>1. /\ tape \in Seq(TarCells) /\ list \in Seq(TarEntries) /\ Places(at, list)
      /\ n \in 1 .. Len(list) /\ w \in TarEntries
  <2>1. tape \in Seq(TarCells) /\ list \in Seq(TarEntries) /\ Places(at, list)
    BY DEF Archive
  <2>2. n \in 1 .. Len(list)
    OBVIOUS
  <2> QED  BY <2>1, <2>2, ElementOfSeq
<1>2. w.data \in Seq(DataCells) /\ w.size \in Nat
  BY <1>1 DEF TarEntries
<1>3. /\ w.data \o more \in Seq(DataCells) /\ Len(w.data \o more) = w.size
      /\ \A k \in 1 .. Len(w.data) : (w.data \o more)[k] = w.data[k]
      /\ \A k \in 1 .. Len(more) : (w.data \o more)[Len(w.data) + k] = more[k]
  <2>1. /\ w.data \o more \in Seq(DataCells) /\ Len(w.data \o more) = Len(w.data) + Len(more)
        /\ \A k \in 1 .. Len(w.data) + Len(more) :
             (w.data \o more)[k] = IF k <= Len(w.data) THEN w.data[k] ELSE more[k - Len(w.data)]
    BY <1>2, ConcatProperties
  <2>2. Len(w.data) \in Nat /\ Len(more) \in Nat
    BY <1>2
  <2> DEFINE whole == w.data \o more
             d == Len(w.data)
             m == Len(more)
  <2> HIDE DEF whole, d, m, w
  <2>3. /\ whole \in Seq(DataCells) /\ Len(whole) = d + m /\ d \in Nat /\ m \in Nat
        /\ \A k \in 1 .. d + m : whole[k] = IF k <= d THEN w.data[k] ELSE more[k - d]
    BY <2>1, <2>2 DEF whole, d, m
  <2>4. \A k \in 1 .. d : whole[k] = w.data[k]
    BY <2>3
  <2>5. ASSUME NEW k \in 1 .. m PROVE whole[d + k] = more[k]
    <3>1. d + k \in 1 .. d + m /\ ~(d + k <= d) /\ (d + k) - d = k
      BY <2>3
    <3> QED  BY <2>3, <3>1
  <2> QED  BY <2>3, <2>4, <2>5 DEF whole, d, m, w
<1>4. w2 \in TarEntries /\ w2.data = w.data \o more /\ w2.size = w.size
      /\ \A c : HeaderOf(c, w) => HeaderOf(c, w2)
  <2>1. w2 = [w EXCEPT !.data = w.data \o more]
    OBVIOUS
  <2> DEFINE whole == w.data \o more
  <2> HIDE DEF whole, w
  <2> QED  BY <1>1, <1>3, <2>1 DEF TarEntries, HeaderOf, whole
<1>5. /\ list2 \in Seq(TarEntries) /\ Len(list2) = Len(list) /\ list2[n] = w2
      /\ \A i \in 1 .. n - 1 : list2[i] = list[i]
  <2>1. list2 = [list EXCEPT ![n] = w2]
    BY DEF Completed
  <2> HIDE DEF w2, list2
  <2> QED  BY <1>1, <1>4, <2>1, ExceptSeq
<1>6. more \in Seq(TarCells)
  BY SeqMonotonic DEF DataCells
<1>7. /\ tape1 \in Seq(TarCells) /\ Extends(tape1, tape) /\ Len(tape1) = Len(tape) + Len(more)
      /\ \A i \in 1 .. Len(more) : tape1[Len(tape) + i] = more[i]
  BY <1>1, <1>6, Glued
<1> HIDE DEF tape1
<1>8. tape2 \in Seq(TarCells) /\ Extends(tape2, tape1) /\ Len(tape2) = Len(tape1) + Len(pad)
  BY <1>7, Glued
<1> HIDE DEF tape2, w2, list2, w
<1>9. /\ at[n] \in Nat /\ at[n + 1] = at[n] + Span(w) /\ Len(tape) = at[n] + TR_Block + Len(w.data)
      /\ Len(w.data) \in Nat /\ Len(more) \in Nat /\ Len(w.data) + Len(more) = w.size
      /\ Len(pad) = ToBlockEnd(w.size) /\ w.size \in Nat
  BY <1>1, <1>2 DEF Places, w
<1> DEFINE p == at[n]
           d == Len(w.data)
           m == Len(more)
           t == Len(tape)
<1>a. p \in Nat /\ d \in Nat /\ m \in Nat /\ t \in Nat /\ t = p + TR_Block + d /\ d + m = w.size
  BY <1>1, <1>9
<1> HIDE DEF p, d, m, t
<1>10. Len(tape2) = at[n + 1]
  <2> DEFINE q == ToBlockEnd(w.size)
             z == w.size
  <2>1. q \in Nat
    BY <1>9, ToBlockEndNatural
  <2>2. Len(tape2) = (t + m) + q
    BY <1>7, <1>8, <1>9 DEF t, m
  <2>3. at[n + 1] = p + (TR_Block + z + q) /\ z \in Nat /\ d + m = z
    BY <1>9 DEF Span, p, d, m
  <2> HIDE DEF q, z
  <2> QED  BY ONLY <2>1, <2>2, <2>3, <1>a, BlockPositive
<1>11. Extends(tape2, tape)
  <2>1. Len(tape) \in Nat /\ Len(tape1) \in Nat /\ Len(tape2) \in Nat
    BY <1>1, <1>7, <1>8
  <2>2. Len(tape) <= Len(tape1) /\ Len(tape1) <= Len(tape2)
    BY <1>7, <1>8 DEF Extends
  <2>3. ASSUME NEW i \in 1 .. Len(tape) PROVE tape2[i] = tape[i]
    <3>1. i \in 1 .. Len(tape1)
      BY <2>1, <2>2
    <3> QED  BY <1>7, <1>8, <3>1 DEF Extends
  <2> QED  BY <2>1, <2>2, <2>3 DEF Extends
<1>12. ASSUME NEW i \in 1 .. Len(list2)
       PROVE  /\ RecordAt(tape2, at[i], list2[i])
              /\ Len(list2[i].data) <= list2[i].size
              /\ Len(list2[i].data) < list2[i].size =>
                   i = Len(list2) /\ Len(tape2) <= at[i] + TR_Block + Len(list2[i].data)
  <2>1. CASE i = n
    <3>1. list2[i] = w2 /\ Len(w2.data) = w2.size /\ w2.size \in Nat
      BY <1>3, <1>4, <1>5, <1>9, <2>1
    <3>2. RecordAt(tape, at[n], w)
      BY <1>1 DEF Archive, w
    <3>3. HeaderOf(tape2[at[n] + 1], w2)
      <4>1. p < t /\ p + 1 \in 1 .. t
        BY <1>a, BlockPositive, SMTT(30)
      <4> QED  BY <1>4, <1>11, <3>2, <4>1 DEF RecordAt, Extends, p, t
    <3>4. ASSUME NEW k \in 1 .. Len(w2.data) PROVE tape2[at[n] + TR_Block + k] = w2.data[k]
      <4>1. CASE k <= Len(w.data)
        <5>1. k \in 1 .. d /\ p + TR_Block + k \in 1 .. t /\ p + TR_Block + k <= t
          <6>1. k \in Nat /\ k >= 1 /\ k <= d
            BY <1>3, <1>4, <1>9, <4>1 DEF d
          <6> QED  BY <1>a, <6>1, BlockPositive, SMTT(30)
        <5> QED  BY <1>3, <1>4, <1>11, <3>2, <5>1 DEF RecordAt, Extends, p, d, t
      <4>2. CASE ~(k <= Len(w.data))
        <5> DEFINE j == k - d
        <5>1. k \in 1 .. d + m /\ ~(k <= d) /\ Len(tape1) = t + m
          BY <1>3, <1>4, <1>7, <1>a, <4>2 DEF d, t, m
        <5>2. /\ j \in 1 .. m /\ d + j = k
              /\ t + j = p + TR_Block + k /\ t + j \in 1 .. t + m
          BY <1>a, <5>1, BlockPositive
        <5> HIDE DEF j
        <5>3. w2.data[k] = more[j]
          BY <1>3, <1>4, <5>2 DEF d, m
        <5>4. tape2[t + j] = more[j]
          BY <1>7, <1>8, <5>1, <5>2 DEF Extends, t, m
        <5> QED  BY <5>2, <5>3, <5>4 DEF p
      <4> QED  BY <4>1, <4>2
    <3>5. RecordAt(tape2, at[n], w2)
      BY <3>3, <3>4 DEF RecordAt
    <3> QED  BY <2>1, <3>1, <3>5
  <2>2. CASE i # n
    <3>1. i \in 1 .. n - 1 /\ i \in 1 .. Len(list) /\ i + 1 \in 1 .. Len(list) + 1
          /\ n \in 1 .. Len(list) + 1 /\ i + 1 <= n /\ i \in 1 .. Len(list) + 1
      BY <1>1, <1>5, <2>2
    <3>2. list[i] \in TarEntries /\ list2[i] = list[i]
      BY <1>1, <1>5, <3>1, ElementOfSeq
    <3>3. Len(list[i].data) \in Nat /\ list[i].size \in Nat
      BY <3>2 DEF TarEntries
    <3>4. Len(list[i].data) = list[i].size /\ RecordAt(tape, at[i], list[i])
      BY <2>2, <3>1, <3>3 DEF Archive
    <3>5. at[i] \in Nat /\ at[i + 1] \in Nat /\ at[i + 1] = at[i] + Span(list[i]) /\ at[i + 1] <= at[n]
      BY <1>1, <3>1 DEF Places
    <3>6. Span(list[i]) \in Nat /\ Span(list[i]) >= TR_Block + list[i].size
      BY <3>2, SpanFacts
    <3>7. at[i] + TR_Block + Len(list[i].data) <= Len(tape)
      <4> DEFINE e == at[i + 1]
                 u == Len(list[i].data)
                 q == at[i]
      <4>1. /\ q \in Nat /\ e \in Nat /\ u \in Nat /\ e <= p
            /\ e >= q + (TR_Block + u)
        <5>1. list[i].size = u /\ e = at[i] + Span(list[i])
          BY <3>4, <3>5
        <5> QED  BY <3>3, <3>5, <3>6, <5>1, BlockPositive, SMTT(30) DEF p
      <4> HIDE DEF e, u, q
      <4>2. q + TR_Block + u <= t
        <5>1. t \in Nat /\ p \in Nat /\ p <= t
          BY <1>a, BlockPositive
        <5> QED  BY ONLY <4>1, <5>1, BlockPositive
      <4> QED  BY <4>2 DEF u, t, q
    <3>8. RecordAt(tape2, at[i], list[i])
      BY <1>1, <1>8, <1>11, <3>2, <3>4, <3>5, <3>7, RecordStays
    <3> QED  BY <3>2, <3>3, <3>4, <3>8
  <2> QED  BY <2>1, <2>2
<1>13. Places(at, list2)
  <2>1. ASSUME NEW i \in 1 .. Len(list2) PROVE Span(list2[i]) = Span(list[i])
    <3>1. i = n \/ i \in 1 .. n - 1
      BY <1>5
    <3> QED  BY <1>4, <1>5, <3>1 DEF Span, w
  <2> QED  BY <1>1, <1>5, <2>1 DEF Places
<1>14. Archive(tape2, list2, at)
  BY <1>5, <1>8, <1>12, <1>13 DEF Archive
<1> QED  BY <1>5, <1>10, <1>14 DEF TapeEnd, tape2, tape1, list2, ArchiveCompleted

(* The steps.                                                              *)
LEMMA InvParts ==
  ASSUME TR_Inv
  PROVE  /\ tr_phase \in {"write", "rest", "read", "eof", "error"} /\ tr_cut \in BOOLEAN
         /\ tr_tape \in Seq(TarCells) /\ Len(tr_tape) \in Nat /\ tr_pos \in Nat
         /\ tr_written \in Seq(TarEntries) /\ Len(tr_written) \in Nat
         /\ tr_read \in Seq(TarEntries) /\ Len(tr_read) \in Nat
         /\ tr_entry = <<>> \/ \E c \in TarCells : tr_entry = <<c>>
BY DEF TR_Inv, TR_TypeOK

LEMMA CopyStays ==
  ASSUME CopyInv, tr_phase # "error", tr_copy' = tr_copy, tr_read \in Seq(TarEntries),
         tr_read' = tr_read \/ \E r \in TarEntries : tr_read' = Append(tr_read, r)
  PROVE  CopyInv'
<1>0. PICK list \in Seq(TarEntries) : \E at \in [1 .. Len(list) + 1 -> Nat] : CopyHolds(list, at)
  BY DEF CopyInv
<1>1. PICK at \in [1 .. Len(list) + 1 -> Nat] : CopyHolds(list, at)
  BY <1>0
<1>2. Len(list) \in Nat /\ Len(tr_read) \in Nat /\ Len(list) <= Len(tr_read)
  BY <1>1 DEF CopyHolds
<1>3. /\ Len(list) <= Len(tr_read') /\ (Len(list) = Len(tr_read') => list = tr_read')
  <2>1. CASE tr_read' = tr_read
    BY <1>1, <2>1 DEF CopyHolds
  <2>2. CASE \E r \in TarEntries : tr_read' = Append(tr_read, r)
    <3>1. Len(tr_read') = Len(tr_read) + 1
      BY <2>2, AppendProperties
    <3> QED  BY <1>2, <3>1
  <2> QED  BY <2>1, <2>2
<1>4. CopyHolds(list, at)'
  BY <1>1, <1>3 DEF CopyHolds, Archive, Places, TapeEnd, Headers, RecordAt
<1> QED  BY <1>4 DEF CopyInv

(* An entry, made of its parts.                                            *)
EntryParts(tape, more, h, d, z) ==
  /\ tape \o h \o d \o z = tape \o more
  /\ more \in Seq(TarCells) /\ Len(more) = TR_Block + Len(d) + Len(z)
  /\ more[1] = h[1]
  /\ \A k \in 1 .. Len(d) : more[TR_Block + k] = d[k]

LEMMA EntryCellsAre ==
  ASSUME NEW tape \in Seq(TarCells), NEW h \in Seq(TarCells), NEW d \in Seq(DataCells),
         NEW z \in Seq(TarCells), Len(h) = TR_Block, NEW more, more = h \o d \o z
  PROVE  EntryParts(tape, more, h, d, z)
<1>1. d \in Seq(TarCells) /\ Len(d) \in Nat /\ Len(z) \in Nat /\ Len(h) \in Nat
  BY SeqMonotonic DEF DataCells
<1> DEFINE hd == h \o d
<1>0. more = hd \o z
  OBVIOUS
<1>2. /\ hd \in Seq(TarCells) /\ Extends(hd, h) /\ Len(hd) = Len(h) + Len(d)
      /\ \A k \in 1 .. Len(d) : hd[Len(h) + k] = d[k]
  BY <1>1, Glued
<1>3. tape \o h \o d = tape \o hd
  <2>0. tape \in Seq(TarCells) /\ h \in Seq(TarCells) /\ d \in Seq(TarCells)
    BY <1>1
  <2> QED  BY ONLY <2>0, ConcatAssociative, SMTT(30)
<1> HIDE DEF hd
<1>4. tape \o hd \o z = tape \o more
  <2>0. tape \in Seq(TarCells) /\ hd \in Seq(TarCells) /\ z \in Seq(TarCells)
    BY <1>2
  <2>1. (tape \o hd) \o z = tape \o (hd \o z)
    BY ONLY <2>0, ConcatAssociative
  <2> QED  BY <1>0, <2>1
<1>5. more \in Seq(TarCells) /\ Extends(more, hd) /\ Len(more) = Len(hd) + Len(z)
  <2>0. hd \in Seq(TarCells) /\ z \in Seq(TarCells)
    BY <1>2
  <2>1. hd \o z \in Seq(TarCells) /\ Extends(hd \o z, hd) /\ Len(hd \o z) = Len(hd) + Len(z)
    BY ONLY <2>0, Glued
  <2> QED  BY <1>0, <2>1
<1> DEFINE dd == Len(d)
           zz == Len(z)
<1>6. dd \in Nat /\ zz \in Nat /\ Len(hd) = TR_Block + dd /\ Len(more) = TR_Block + dd + zz
  BY <1>1, <1>2, <1>5
<1>7. 1 \in 1 .. Len(h) /\ 1 \in 1 .. Len(hd)
  BY <1>6, BlockPositive
<1>8. more[1] = h[1]
  BY <1>2, <1>5, <1>7 DEF Extends
<1>9. ASSUME NEW k \in 1 .. dd PROVE more[TR_Block + k] = d[k]
  <2>1. TR_Block + k \in 1 .. TR_Block + dd
    BY <1>6, BlockPositive
  <2> QED  BY <1>2, <1>5, <1>6, <2>1 DEF Extends
<1>10. tape \o h \o d \o z = tape \o more
  BY <1>3, <1>4 DEF hd
<1> QED  BY <1>5, <1>6, <1>8, <1>9, <1>10 DEF EntryParts

(* Before anything is written, and the copy before anything is copied.     *)
Nowhere == [i \in 1 .. 1 |-> 0]

LEMMA EmptyArchive ==
  /\ <<>> \in Seq(TarCells) /\ <<>> \in Seq(TarEntries) /\ Len(<<>>) = 0
  /\ Nowhere \in [1 .. Len(<<>>) + 1 -> Nat] /\ Nowhere[1] = 0
  /\ Archive(<<>>, <<>>, Nowhere) /\ TapeEnd(Nowhere, <<>>) = 0
<1>1. /\ <<>> \in Seq(TarCells) /\ <<>> \in Seq(TarEntries) /\ Len(<<>>) = 0
      /\ Nowhere \in [1 .. Len(<<>>) + 1 -> Nat] /\ Nowhere[1] = 0
  BY EmptySeq DEF Nowhere
<1> HIDE DEF Nowhere
<1> QED  BY <1>1 DEF Archive, Places, TapeEnd

LEMMA EmptyHeaders == IsFiniteSet(Headers(<<>>)) /\ Cardinality(Headers(<<>>)) = 0
<1>1. Headers(<<>>) = {}
  BY EmptySeq DEF Headers
<1> QED  BY <1>1, FS_EmptySet

LEMMA InitHolds == TR_Init => TR_Inv
<1> SUFFICES ASSUME TR_Init PROVE TR_Inv
  OBVIOUS
<1>1. /\ <<>> \in Seq(TarCells) /\ <<>> \in Seq(TarEntries) /\ Len(<<>>) = 0
      /\ Nowhere \in [1 .. Len(<<>>) + 1 -> Nat] /\ Nowhere[1] = 0
      /\ Archive(<<>>, <<>>, Nowhere) /\ TapeEnd(Nowhere, <<>>) = 0
  BY EmptyArchive
<1>2. CopyInv
  <2>1. CopyHolds(<<>>, Nowhere)
    BY <1>1, EmptyHeaders DEF CopyHolds, TR_Init
  <2> QED  BY <1>1, <2>1 DEF CopyInv
<1>3. TapeLength(Nowhere) /\ ReaderAt(Nowhere)
  BY <1>1 DEF TR_Init, TapeLength, ReaderAt
<1>4. Nowhere \in [1 .. Len(tr_written) + 1 -> Nat] /\ Archive(tr_tape, tr_written, Nowhere)
  BY <1>1 DEF TR_Init
<1>5. TR_TypeOK /\ ReadRight /\ (tr_phase = "error" => tr_cut \/ Unreadable)
  BY <1>1 DEF TR_Init, TR_TypeOK, ReadRight
<1> QED  BY <1>2, <1>3, <1>4, <1>5 DEF TR_Inv

LEMMA WriteSegmentStep ==
  ASSUME TR_Inv, TR_WriteSegment
  PROVE  TR_Inv'
<1>1. PICK e \in TR_Entries : \E first \in IF e.type = "file" THEN 0 .. e.size ELSE {0} :
     \E there \in 0 .. first :
       LET path == e.path type == e.type size == e.size
           dir == type = "dir"
           data == Bytes(there) \o [i \in 1 .. first - there |-> Data(0)] IN
       /\ PathFits(path, dir)
       /\ tr_tape' = tr_tape
            \o Header(type, size, PathInfo(path, dir), e.numbers /\ ~SpillsIntoMode(path, dir))
            \o data \o (IF first = size THEN Nulls(ToBlockEnd(size)) ELSE <<>>)
       /\ tr_written' = Append(tr_written,
            [path |-> FullName(path, dir), type |-> type, data |-> data,
             size |-> IF type = "file" THEN size ELSE 0,
             ends |-> FieldsEnd(PathInfo(path, dir))])
       /\ tr_phase' = IF type = "file" /\ first < size THEN "rest" ELSE "write"
  BY Zenon DEF TR_WriteSegment
<1>2. PICK first \in IF e.type = "file" THEN 0 .. e.size ELSE {0} :
     \E there \in 0 .. first :
       LET path == e.path type == e.type size == e.size
           dir == type = "dir"
           data == Bytes(there) \o [i \in 1 .. first - there |-> Data(0)] IN
       /\ PathFits(path, dir)
       /\ tr_tape' = tr_tape
            \o Header(type, size, PathInfo(path, dir), e.numbers /\ ~SpillsIntoMode(path, dir))
            \o data \o (IF first = size THEN Nulls(ToBlockEnd(size)) ELSE <<>>)
       /\ tr_written' = Append(tr_written,
            [path |-> FullName(path, dir), type |-> type, data |-> data,
             size |-> IF type = "file" THEN size ELSE 0,
             ends |-> FieldsEnd(PathInfo(path, dir))])
       /\ tr_phase' = IF type = "file" /\ first < size THEN "rest" ELSE "write"
  BY <1>1, Zenon
<1> DEFINE path == e.path
           type == e.type
           size == e.size
           dir == type = "dir"
           info == PathInfo(path, dir)
           numbers == e.numbers /\ ~SpillsIntoMode(path, dir)
<1>3. PICK there \in 0 .. first :
       LET data == Bytes(there) \o [i \in 1 .. first - there |-> Data(0)] IN
       /\ PathFits(path, dir)
       /\ tr_tape' = tr_tape \o Header(type, size, info, numbers)
            \o data \o (IF first = size THEN Nulls(ToBlockEnd(size)) ELSE <<>>)
       /\ tr_written' = Append(tr_written,
            [path |-> FullName(path, dir), type |-> type, data |-> data,
             size |-> IF type = "file" THEN size ELSE 0, ends |-> FieldsEnd(info)])
       /\ tr_phase' = IF type = "file" /\ first < size THEN "rest" ELSE "write"
  BY <1>2, Zenon
<1>4. /\ tr_phase = "write" /\ tr_pos' = tr_pos /\ tr_entry' = tr_entry /\ tr_read' = tr_read
      /\ tr_copy' = tr_copy /\ tr_cut' = tr_cut
  BY DEF TR_WriteSegment
<1>5. /\ path \in Seq(Chars) /\ path # <<>> /\ type \in TarTypes /\ size \in Nat /\ e.numbers \in BOOLEAN
      /\ dir \in BOOLEAN /\ numbers \in BOOLEAN
  <2>1. path \in Seq(STRING) /\ path # <<>> /\ type \in TarTypes /\ size \in Nat /\ e.numbers \in BOOLEAN
    BY TR_Assumption DEF TarTypes
  <2>2. path \in Seq(Chars)
    BY <2>1, SeqMonotonic DEF Chars
  <2>3. dir \in BOOLEAN
    BY DEF dir
  <2>4. numbers \in BOOLEAN
    BY DEF numbers
  <2> QED  BY <2>1, <2>2, <2>3, <2>4
<1>6. first \in Nat /\ there \in Nat /\ first - there \in Nat /\ there + (first - there) = first
      /\ (type = "file" => first <= size) /\ (type # "file" => first = 0)
  BY <1>5
<1> DEFINE data == Bytes(there) \o [i \in 1 .. first - there |-> Data(0)]
           pad == IF first = size THEN Nulls(ToBlockEnd(size)) ELSE <<>>
           w == [path |-> FullName(path, dir), type |-> type, data |-> data,
                 size |-> IF type = "file" THEN size ELSE 0, ends |-> FieldsEnd(info)]
<1>7. data \in Seq(DataCells) /\ Len(data) = first
  <2> DEFINE a == Bytes(there)
             b == [i \in 1 .. first - there |-> Data(0)]
  <2>1. a \in Seq(DataCells) /\ Len(a) = there
    BY <1>6, DataAre
  <2>2. b \in Seq(DataCells) /\ Len(b) = first - there
    BY <1>6, DataAre
  <2> HIDE DEF a, b
  <2>3. a \o b \in Seq(DataCells) /\ Len(a \o b) = Len(a) + Len(b)
    BY <2>1, <2>2, ConcatProperties
  <2> QED  BY <1>6, <2>1, <2>2, <2>3 DEF a, b
<1>8. pad \in Seq(TarCells) /\ Len(pad) = IF first = size THEN ToBlockEnd(size) ELSE 0
  BY <1>5, ToBlockEndNatural, NullsAre, EmptySeq
<1>9. /\ FullName(path, dir) \in Seq(Chars) /\ info.prefix \in Seq(Chars) /\ info.name \in Seq(Chars)
      /\ ~NullBlock(info)
      /\ FieldsEnd(info) => MakeFullPath(info) = FullName(path, dir)
  BY <1>3, <1>5, FullPath
<1>d. PICK fit \in BOOLEAN : fit = numbers
  BY <1>5
<1>c. PICK h : h = Header(type, size, info, fit)
  OBVIOUS
<1>10. HeaderCells(h, type, size, info)
  <2> HIDE DEF path, type, size, dir, info, numbers
  <2> QED  BY <1>5, <1>9, <1>c, HeaderIs
<1> HIDE DEF data, pad, path, type, size, dir, info, numbers
<1>11. /\ w \in TarEntries /\ w.type = type /\ w.data = data
       /\ w.size = IF type = "file" THEN size ELSE 0
  BY <1>5, <1>7, <1>9 DEF TarEntries, FieldsEnd
<1>12. HeaderOf(h[1], w)
  <2>1. MakeFullPath(h[1]) = MakeFullPath(info)
    BY <1>10 DEF MakeFullPath, HeaderCells
  <2>2. ~NullBlock(h[1])
    BY <1>9, <1>10 DEF HeaderCells, NullBlock
  <2> QED  BY <1>9, <1>10, <1>11, <2>1, <2>2 DEF HeaderOf, HeaderCells
<1>13. tr_tape' = tr_tape \o h \o data \o pad /\ tr_written' = Append(tr_written, w)
       /\ tr_phase' = IF type = "file" /\ first < size THEN "rest" ELSE "write"
  <2>1. tr_tape' = tr_tape \o Header(type, size, info, numbers) \o data \o pad
    BY <1>3, Zenon DEF data, pad
  <2> QED  BY <1>3, <1>c, <1>d, <2>1, Zenon DEF w, data
<1> HIDE DEF w
<1>a. PICK more : more = h \o data \o pad
  OBVIOUS
<1>14. /\ more \in Seq(TarCells) /\ Len(more) = TR_Block + Len(data) + Len(pad)
       /\ more[1] = h[1]
       /\ \A k \in 1 .. Len(data) : more[TR_Block + k] = data[k]
       /\ tr_tape' = tr_tape \o more
  <2>1. tr_tape \in Seq(TarCells)
    BY InvParts
  <2>2. h \in Seq(TarCells) /\ Len(h) = TR_Block
    BY <1>10 DEF HeaderCells
  <2>3. EntryParts(tr_tape, more, h, data, pad)
    BY ONLY <1>7, <1>8, <1>a, <2>1, <2>2, EntryCellsAre
  <2> QED  BY <1>13, <2>3 DEF EntryParts
<1> DEFINE n == Len(tr_written)
<1>15. PICK at \in [1 .. n + 1 -> Nat] :
         Archive(tr_tape, tr_written, at) /\ TapeLength(at) /\ ReaderAt(at)
  BY DEF TR_Inv
<1>16. Len(tr_tape) = TapeEnd(at, tr_written)
  BY <1>4, <1>15 DEF TapeLength
<1>17. /\ Len(w.data) <= w.size
       /\ Len(w.data) < w.size => Len(more) = TR_Block + Len(w.data)
       /\ TR_Block + Len(w.data) <= Len(more)
       /\ Len(w.data) = w.size => Len(more) = Span(w)
       /\ Len(w.data) < w.size <=> type = "file" /\ first < size
  <2>1. ToBlockEnd(0) = 0
    BY BlockPositive DEF ToBlockEnd
  <2>2. ToBlockEnd(size) \in Nat
    BY <1>5, ToBlockEndNatural
  <2> DEFINE g == Len(more)
             u == Len(w.data)
             q == w.size
             z == ToBlockEnd(size)
             y == ToBlockEnd(q)
  <2>3. /\ g = TR_Block + first + (IF first = size THEN z ELSE 0)
        /\ u = first /\ q = IF type = "file" THEN size ELSE 0
        /\ Span(w) = TR_Block + q + y
    BY <1>7, <1>8, <1>11, <1>14 DEF Span
  <2>4. z \in Nat /\ (q = size => y = z) /\ (q = 0 => y = 0)
    BY <2>1, <2>2
  <2> HIDE DEF g, u, q, z, y
  <2>5. /\ u <= q /\ (u < q => g = TR_Block + u) /\ TR_Block + u <= g
        /\ (u = q => g = TR_Block + q + y) /\ (u < q <=> type = "file" /\ first < size)
    <3>1. CASE type = "file"
      BY <1>5, <1>6, <2>3, <2>4, <3>1, BlockPositive
    <3>2. CASE type # "file" /\ size = 0
      BY <1>5, <1>6, <2>3, <2>4, <3>2, BlockPositive
    <3>3. CASE type # "file" /\ size # 0
      BY <1>5, <1>6, <2>3, <2>4, <3>3, BlockPositive
    <3> QED  BY <3>1, <3>2, <3>3
  <2> QED  BY <2>3, <2>5 DEF g, u, q
<1>b. PICK at2 : at2 = Extended(at, tr_written, w)
  OBVIOUS
<1>18. /\ Archive(tr_tape \o more, Append(tr_written, w), at2)
       /\ at2 \in [1 .. Len(Append(tr_written, w)) + 1 -> Nat]
       /\ at2[n + 1] = Len(tr_tape)
       /\ TapeEnd(at2, Append(tr_written, w)) = Len(tr_tape) + Span(w)
       /\ Len(tr_tape \o more) = Len(tr_tape) + Len(more)
  <2>1. HeaderOf(more[1], w) /\ \A k \in 1 .. Len(w.data) : more[TR_Block + k] = w.data[k]
    BY <1>11, <1>12, <1>14
  <2>2. EntryWhole(more, w)
    BY <1>17, <2>1 DEF EntryWhole
  <2>3. ArchiveGrown(tr_tape, tr_written, at, more, w)
    BY <1>11, <1>14, <1>15, <1>16, <2>2, EntryAdded
  <2> QED  BY <1>b, <2>3 DEF ArchiveGrown
<1>19. /\ Archive(tr_tape', tr_written', at2) /\ at2 \in [1 .. Len(tr_written') + 1 -> Nat]
       /\ at2[n + 1] = Len(tr_tape)
       /\ TapeEnd(at2, tr_written') = Len(tr_tape) + Span(w)
       /\ Len(tr_tape') = Len(tr_tape) + Len(more)
  BY <1>13, <1>14, <1>18
<1>20. Len(tr_written') = n + 1 /\ tr_written'[n + 1] = w /\ n \in Nat /\ tr_written' \in Seq(TarEntries)
  BY <1>11, <1>13, AppendProperties, InvParts
<1>21. ~tr_cut /\ tr_pos = 0 /\ Len(tr_read) = 0 /\ tr_entry = <<>>
  BY <1>4, <1>15 DEF TapeLength, ReaderAt
<1>22. TapeLength(at2)'
  <2>1. CASE Len(w.data) < w.size
    <3>1. tr_phase' = "rest" /\ type = "file"
      BY <1>13, <1>17, <2>1
    <3>2. Len(tr_tape') = at2[n + 1] + TR_Block + Len(w.data)
      <4> DEFINE u == Len(w.data)
                 t == Len(tr_tape)
      <4>1. u \in Nat /\ t \in Nat /\ Len(tr_tape') = t + (TR_Block + u) /\ at2[n + 1] = t
        BY <1>6, <1>7, <1>11, <1>17, <1>19, <2>1, InvParts
      <4> HIDE DEF u, t
      <4>2. Len(tr_tape') = at2[n + 1] + TR_Block + u
        BY <4>1, BlockPositive
      <4> QED  BY <4>2 DEF u
    <3> QED  BY <1>4, <1>11, <1>20, <1>21, <2>1, <3>1, <3>2 DEF TapeLength
  <2>2. CASE ~(Len(w.data) < w.size)
    <3>1. tr_phase' = "write"
      BY <1>13, <1>17, <2>2
    <3>2. Len(w.data) = w.size
      BY <1>17, <2>2, <1>7, <1>11, <1>5
    <3> QED  BY <1>4, <1>17, <1>19, <1>20, <1>21, <3>1, <3>2 DEF TapeLength
  <2> QED  BY <2>1, <2>2
<1>23. tr_phase' \in {"write", "rest"}
  BY <1>13
<1>24. ReaderAt(at2)' /\ ReadRight'
  BY <1>4, <1>20, <1>21, <1>23 DEF ReaderAt, ReadRight
<1>25. TR_TypeOK'
  BY <1>4, <1>19, <1>20, <1>23 DEF TR_Inv, TR_TypeOK, Archive
<1>26. CopyInv'
  BY <1>4, CopyStays, InvParts DEF TR_Inv
<1> QED  BY <1>19, <1>22, <1>23, <1>24, <1>25, <1>26 DEF TR_Inv

LEMMA WriteRestStep ==
  ASSUME TR_Inv, TR_WriteRest
  PROVE  TR_Inv'
<1>1. /\ tr_phase = "rest" /\ tr_phase' = "write" /\ tr_pos' = tr_pos /\ tr_entry' = tr_entry
      /\ tr_read' = tr_read /\ tr_copy' = tr_copy /\ tr_cut' = tr_cut
  BY DEF TR_WriteRest
<1>2. PICK n : n = Len(tr_written)
  OBVIOUS
<1>3. PICK at \in [1 .. Len(tr_written) + 1 -> Nat] :
         Archive(tr_tape, tr_written, at) /\ TapeLength(at) /\ ReaderAt(at)
  BY DEF TR_Inv
<1>4. /\ n > 0 /\ Len(tr_written[n].data) < tr_written[n].size /\ n \in Nat /\ n \in 1 .. n
      /\ Len(tr_tape) = at[n] + TR_Block + Len(tr_written[n].data)
      /\ ~tr_cut /\ tr_pos = 0 /\ Len(tr_read) = 0 /\ tr_entry = <<>>
  BY <1>1, <1>2, <1>3, InvParts DEF TapeLength, ReaderAt
<1>5. PICK e : e = tr_written[n]
  OBVIOUS
<1>6. e \in TarEntries /\ Last(tr_written) = e
  BY <1>2, <1>4, <1>5, ElementOfSeq, InvParts DEF Last
<1>7. e.data \in Seq(DataCells) /\ Len(e.data) \in Nat /\ e.size \in Nat /\ Len(e.data) < e.size
  BY <1>4, <1>5, <1>6 DEF TarEntries
<1>8. PICK m : m = e.size - Len(e.data)
  OBVIOUS
<1>9. m \in Nat /\ Len(e.data) + m = e.size
  BY <1>7, <1>8
<1>10. PICK more : more = Bytes(m)
  OBVIOUS
<1>11. more \in Seq(DataCells) /\ Len(more) = m
  BY <1>9, <1>10, DataAre
<1>12. PICK pad : pad = Nulls(ToBlockEnd(e.size))
  OBVIOUS
<1>13. pad \in Seq(TarCells) /\ Len(pad) = ToBlockEnd(e.size)
  BY <1>7, <1>12, ToBlockEndNatural, NullsAre
<1>14. tr_tape' = tr_tape \o more \o pad /\ tr_written' = Completed(tr_written, more)
  <2>1. LET d == [i \in 1 .. e.size - Len(e.data) |-> Data(i)] IN
        /\ tr_tape' = tr_tape \o d \o Nulls(ToBlockEnd(e.size))
        /\ tr_written' = [tr_written EXCEPT ![Len(tr_written)].data = @ \o d]
    BY <1>6, Zenon DEF TR_WriteRest
  <2>2. more = [i \in 1 .. e.size - Len(e.data) |-> Data(i)]
    BY <1>8, <1>10 DEF Bytes
  <2> QED  BY <1>12, <2>1, <2>2 DEF Completed
<1>15. ArchiveCompleted(tr_tape \o more \o pad, tr_written, at, more)
  BY <1>2, <1>3, <1>4, <1>5, <1>9, <1>11, <1>13, RestAdded
<1>16. /\ Archive(tr_tape', tr_written', at) /\ Len(tr_tape') = TapeEnd(at, tr_written')
       /\ Len(tr_written') = Len(tr_written)
  BY <1>2, <1>14, <1>15 DEF TapeEnd, ArchiveCompleted
<1>17. TapeLength(at)' /\ ReaderAt(at)' /\ ReadRight'
  BY <1>1, <1>2, <1>4, <1>16 DEF TapeLength, ReaderAt, ReadRight
<1>18. TR_TypeOK'
  BY <1>1, <1>16 DEF TR_Inv, TR_TypeOK, Archive
<1>19. CopyInv'
  BY <1>1, CopyStays, InvParts DEF TR_Inv
<1> QED  BY <1>1, <1>3, <1>16, <1>17, <1>18, <1>19 DEF TR_Inv

LEMMA WriteEOFStep ==
  ASSUME TR_Inv, TR_WriteEOF
  PROVE  TR_Inv'
<1>1. /\ tr_phase = "write" /\ tr_phase' = "read" /\ tr_pos' = tr_pos /\ tr_entry' = tr_entry
      /\ tr_read' = tr_read /\ tr_copy' = tr_copy /\ tr_cut' = tr_cut /\ tr_written' = tr_written
      /\ tr_tape' = tr_tape \o Nulls(2 * TR_Block)
  BY DEF TR_WriteEOF
<1>2. PICK at \in [1 .. Len(tr_written) + 1 -> Nat] :
         Archive(tr_tape, tr_written, at) /\ TapeLength(at) /\ ReaderAt(at)
  BY DEF TR_Inv
<1>3. /\ Len(tr_tape) = TapeEnd(at, tr_written)
      /\ ~tr_cut /\ tr_pos = 0 /\ Len(tr_read) = 0 /\ tr_entry = <<>> /\ at[1] = 0
  BY <1>1, <1>2 DEF TapeLength, ReaderAt, Archive, Places
<1>4. /\ Archive(tr_tape', tr_written', at)
      /\ Len(tr_tape') = TapeEnd(at, tr_written') + 2 * TR_Block
      /\ tr_tape'[TapeEnd(at, tr_written') + 1] = NullCell
  <2>1. ArchiveEnded(tr_tape \o Nulls(2 * TR_Block), tr_written, at)
    BY <1>2, <1>3, NullsAdded
  <2> QED  BY <1>1, <2>1 DEF ArchiveEnded
<1>5. TapeLength(at)' /\ ReaderAt(at)' /\ ReadRight'
  <2>1. TapeLength(at)'
    BY <1>1, <1>3, <1>4 DEF TapeLength
  <2>2. Len(tr_read') = 0 /\ 0 <= Len(tr_written') /\ 0 + 1 = 1
    BY <1>1, <1>3, InvParts
  <2>3. ReaderAt(at)'
    BY <1>1, <1>3, <2>2 DEF ReaderAt
  <2> QED  BY <1>1, <2>1, <2>2, <2>3 DEF ReadRight
<1>6. TR_TypeOK'
  BY <1>1, <1>4 DEF TR_Inv, TR_TypeOK, Archive
<1>7. CopyInv'
  BY <1>1, CopyStays, InvParts DEF TR_Inv
<1> QED  BY <1>1, <1>2, <1>4, <1>5, <1>6, <1>7 DEF TR_Inv

LEMMA CutStep ==
  ASSUME TR_Inv, TR_Cut
  PROVE  TR_Inv'
<1>1. /\ tr_phase \in {"write", "rest"} /\ tr_phase' = "read" /\ tr_pos' = tr_pos
      /\ tr_entry' = tr_entry /\ tr_cut' = TRUE
      /\ tr_read' = tr_read /\ tr_copy' = tr_copy /\ tr_written' = tr_written
  BY DEF TR_Cut
<1>2. PICK n \in 0 .. Len(tr_tape) : tr_tape' = SubSeq(tr_tape, 1, n)
  BY DEF TR_Cut
<1>3. PICK at \in [1 .. Len(tr_written) + 1 -> Nat] :
         Archive(tr_tape, tr_written, at) /\ TapeLength(at) /\ ReaderAt(at)
  BY DEF TR_Inv
<1>4. tr_pos = 0 /\ Len(tr_read) = 0 /\ tr_entry = <<>> /\ at[1] = 0
  BY <1>1, <1>3 DEF ReaderAt, Archive, Places
<1>5. Archive(tr_tape', tr_written', at) /\ Len(tr_tape') = n
  BY <1>1, <1>2, <1>3, TapeCut
<1>6. Len(tr_tape) <= TapeEnd(at, tr_written) /\ TapeEnd(at, tr_written) \in Nat
  <2>1. Len(tr_written) + 1 \in 1 .. Len(tr_written) + 1 /\ TapeEnd(at, tr_written) \in Nat
    BY InvParts DEF TapeEnd
  <2>2. CASE tr_phase = "write"
    BY <1>3, <2>1, <2>2 DEF TapeLength
  <2>3. CASE tr_phase = "rest"
    <3>1. PICK k : k = Len(tr_written)
      OBVIOUS
    <3>2. /\ k \in 1 .. Len(tr_written) /\ Len(tr_written[k].data) < tr_written[k].size
          /\ Len(tr_tape) = at[k] + TR_Block + Len(tr_written[k].data)
      BY <1>3, <2>3, <3>1, InvParts DEF TapeLength
    <3>3. tr_written[k] \in TarEntries
      BY <3>2, ElementOfSeq, InvParts
    <3>4. at[k + 1] = at[k] + Span(tr_written[k]) /\ at[k] \in Nat
      BY <1>3, <3>2 DEF Archive, Places
    <3>5. Span(tr_written[k]) \in Nat /\ Span(tr_written[k]) >= TR_Block + tr_written[k].size
      BY <3>3, SpanFacts
    <3>6. Len(tr_written[k].data) \in Nat /\ tr_written[k].size \in Nat
      BY <3>3 DEF TarEntries
    <3> DEFINE d == Len(tr_written[k].data)
               z == tr_written[k].size
               s == Span(tr_written[k])
               p == at[k]
    <3>7. p + TR_Block + d <= p + s
      <4>1. d < z /\ d \in Nat /\ z \in Nat /\ s \in Nat /\ s >= TR_Block + z /\ p \in Nat
        BY <3>2, <3>4, <3>5, <3>6
      <4> HIDE DEF d, z, s, p
      <4> QED  BY <4>1, BlockPositive
    <3> QED  BY <2>1, <3>1, <3>2, <3>4, <3>7 DEF TapeEnd
  <2> QED  BY <1>1, <2>2, <2>3
<1>7. Len(tr_tape') <= TapeEnd(at, tr_written')
  BY <1>1, <1>5, <1>6, InvParts
<1>8. TapeLength(at)' /\ ReaderAt(at)' /\ ReadRight'
  BY <1>1, <1>4, <1>5, <1>7, InvParts DEF TapeLength, ReaderAt, ReadRight
<1>9. TR_TypeOK'
  BY <1>1, <1>5 DEF TR_Inv, TR_TypeOK, Archive
<1>10. CopyInv'
  BY <1>1, CopyStays, InvParts DEF TR_Inv
<1> QED  BY <1>1, <1>3, <1>5, <1>8, <1>9, <1>10 DEF TR_Inv

(* The reader: the entry after those that were read.                       *)
NextFacts(at, k) ==
  LET w == tr_written[k + 1] IN
  /\ k + 1 \in 1 .. Len(tr_written) /\ w \in TarEntries
  /\ at[k + 1] \in Nat /\ at[k + 2] \in Nat
  /\ at[k + 2] = at[k + 1] + (TR_Block + w.size + ToBlockEnd(w.size))
  /\ w.size \in Nat /\ ToBlockEnd(w.size) \in Nat
  /\ w.data \in Seq(DataCells) /\ Len(w.data) \in Nat
  /\ RecordAt(tr_tape, at[k + 1], w)
  /\ Len(w.data) <= w.size
  /\ Len(w.data) < w.size => Len(tr_tape) <= at[k + 1] + TR_Block + Len(w.data)
  /\ ~tr_cut => at[k + 2] <= Len(tr_tape)

LEMMA NextEntry ==
  ASSUME TR_Inv, NEW at \in [1 .. Len(tr_written) + 1 -> Nat],
         Archive(tr_tape, tr_written, at), TapeLength(at), tr_phase \notin {"write", "rest"},
         NEW k \in Nat, k < Len(tr_written)
  PROVE  NextFacts(at, k)
<1> DEFINE n == Len(tr_written)
<1>1. n \in Nat /\ k + 1 \in 1 .. n /\ k + 1 \in 1 .. n + 1 /\ k + 2 \in 1 .. n + 1
      /\ n + 1 \in 1 .. n + 1 /\ k + 2 <= n + 1 /\ (k + 1) + 1 = k + 2
  BY InvParts
<1> DEFINE w == tr_written[k + 1]
<1>2. w \in TarEntries
  BY <1>1, ElementOfSeq, InvParts
<1>3. w.size \in Nat /\ ToBlockEnd(w.size) \in Nat /\ w.data \in Seq(DataCells) /\ Len(w.data) \in Nat
  <2>1. w.size \in Nat /\ w.data \in Seq(DataCells)
    BY <1>2 DEF TarEntries
  <2> HIDE DEF w
  <2>2. Len(w.data) \in Nat
    BY <2>1
  <2>3. ToBlockEnd(w.size) \in Nat
    BY <2>1, ToBlockEndNatural
  <2> QED  BY <2>1, <2>2, <2>3
<1>4. at[k + 1] \in Nat /\ at[k + 2] \in Nat /\ at[n + 1] \in Nat
  BY <1>1
<1>5. at[k + 2] = at[k + 1] + Span(w) /\ at[k + 2] <= at[n + 1]
  BY <1>1 DEF Archive, Places
<1>6. /\ RecordAt(tr_tape, at[k + 1], w) /\ Len(w.data) <= w.size
      /\ Len(w.data) < w.size => Len(tr_tape) <= at[k + 1] + TR_Block + Len(w.data)
  BY <1>1 DEF Archive
<1>7. ASSUME ~tr_cut PROVE at[k + 2] <= Len(tr_tape)
  <2>1. Len(tr_tape) = at[n + 1] + 2 * TR_Block
    BY <1>7 DEF TapeLength, TapeEnd
  <2> QED  BY <1>4, <1>5, <2>1, BlockPositive
<1> HIDE DEF n, w
<1>8. at[k + 2] = at[k + 1] + (TR_Block + w.size + ToBlockEnd(w.size))
  BY <1>5 DEF Span
<1> QED  BY <1>1, <1>2, <1>3, <1>4, <1>6, <1>7, <1>8 DEF NextFacts, n, w

LEMMA ReadHeaderStep ==
  ASSUME TR_Inv, TR_ReadHeader
  PROVE  TR_Inv'
<1>1. /\ tr_phase = "read" /\ tr_entry = <<>>
      /\ tr_tape' = tr_tape /\ tr_written' = tr_written /\ tr_read' = tr_read
      /\ tr_copy' = tr_copy /\ tr_cut' = tr_cut
      /\ tr_pos' = tr_pos + LesserOf(TR_Block, IF Left < 0 THEN 0 ELSE Left)
  BY DEF TR_ReadHeader
<1>2. PICK at \in [1 .. Len(tr_written) + 1 -> Nat] :
         Archive(tr_tape, tr_written, at) /\ TapeLength(at) /\ ReaderAt(at)
  BY DEF TR_Inv
<1>3. PICK k : k = Len(tr_read)
  OBVIOUS
<1>4. PICK n : n = Len(tr_written)
  OBVIOUS
<1>5. PICK t : t = Len(tr_tape)
  OBVIOUS
<1>6. k \in Nat /\ n \in Nat /\ t \in Nat /\ k <= n /\ tr_pos \in Nat
  BY <1>2, <1>3, <1>4, <1>5, InvParts DEF ReaderAt
<1>7. tr_pos = at[k + 1] \/ (tr_cut /\ tr_pos >= t)
  BY <1>1, <1>2, <1>3, <1>5 DEF ReaderAt, Behinds
<1>8. ASSUME k < n PROVE NextFacts(at, k)
  BY <1>1, <1>2, <1>4, <1>6, <1>8, NextEntry
<1>9. /\ at[n + 1] \in Nat
      /\ tr_cut => t <= at[n + 1]
      /\ ~tr_cut => t = at[n + 1] + 2 * TR_Block /\ tr_tape[at[n + 1] + 1] = NullCell
  <2>1. n + 1 \in 1 .. n + 1
    BY <1>6
  <2> QED  BY <1>1, <1>2, <1>4, <1>5, <2>1 DEF TapeLength, TapeEnd
<1>10. Left = t - tr_pos
  BY <1>5 DEF Left
<1>11. tr_pos' \in Nat
  <2>1. t - tr_pos \in Int
    BY <1>6
  <2>2. (IF Left < 0 THEN 0 ELSE Left) \in Nat
    BY <1>10, <2>1
  <2>3. LesserOf(TR_Block, IF Left < 0 THEN 0 ELSE Left) \in Nat
    BY <2>2, BlockPositive DEF LesserOf
  <2> QED  BY <1>1, <1>6, <2>3
<1>12. NullBlock(NullCell)
  BY DEF NullCell, NullBlock
(* Where an entry is, its header is found, and behind the last one nulls.  *)
<1>13. ASSUME tr_pos < t
       PROVE  /\ tr_pos = at[k + 1]
              /\ k < n => HeaderOf(NextCell, tr_written[k + 1])
              /\ ~(k < n) => ~tr_cut /\ NextCell = NullCell
  <2>1. tr_pos = at[k + 1]
    BY <1>6, <1>7, <1>13
  <2>2. ASSUME k < n PROVE HeaderOf(NextCell, tr_written[k + 1])
    BY <1>5, <1>8, <1>13, <2>1, <2>2 DEF NextFacts, RecordAt, NextCell
  <2>3. ASSUME ~(k < n) PROVE ~tr_cut /\ NextCell = NullCell
    <3>1. k = n
      BY <1>6, <2>3
    <3>2. ~tr_cut
      BY <1>6, <1>9, <1>13, <2>1, <3>1
    <3> QED  BY <1>9, <2>1, <3>1, <3>2 DEF NextCell
  <2> QED  BY <2>1, <2>2, <2>3
<1>14. ASSUME ~tr_cut PROVE tr_pos < t /\ (k < n => tr_pos + TR_Block <= t)
  <2>1. tr_pos = at[k + 1]
    BY <1>7, <1>14
  <2>2. CASE k < n
    <3> DEFINE a == tr_written[k + 1].size
               b == ToBlockEnd(a)
    <3>2. /\ tr_written[k + 1].size \in Nat /\ ToBlockEnd(tr_written[k + 1].size) \in Nat
          /\ at[k + 2] = at[k + 1] + (TR_Block + tr_written[k + 1].size + ToBlockEnd(tr_written[k + 1].size))
          /\ at[k + 2] <= Len(tr_tape)
      BY <1>8, <1>14, <2>2 DEF NextFacts
    <3> HIDE DEF a, b
    <3>3. a \in Nat /\ b \in Nat /\ at[k + 2] = tr_pos + (TR_Block + a + b) /\ at[k + 2] <= t
      BY <1>5, <2>1, <3>2 DEF a, b
    <3> QED  BY <1>6, <3>3, BlockPositive
  <2>3. CASE ~(k < n)
    <3>1. k = n
      BY <1>6, <2>3
    <3> QED  BY <1>6, <1>9, <1>14, <2>1, <3>1, BlockPositive
  <2> QED  BY <2>2, <2>3
<1>15. tr_pos < t <=> ~(Left <= 0)
  BY <1>6, <1>10
<1>16. TapeLength(at)' /\ ReadRight' /\ Archive(tr_tape', tr_written', at)
       /\ at \in [1 .. Len(tr_written') + 1 -> Nat]
  <2>1. tr_phase' \in {"read", "eof", "error"}
    BY <1>1, Zenon DEF TR_ReadHeader
  <2> QED  BY <1>1, <1>2, <2>1 DEF TapeLength, ReadRight, TR_Inv
<1>17. CASE Left <= 0 \/ NullBlock(NextCell)
  <2>1. tr_phase' = "eof" /\ tr_entry' = tr_entry
    BY <1>17 DEF TR_ReadHeader
  <2>2. ASSUME ~tr_cut PROVE k = n
    <3>1. tr_pos < t /\ NullBlock(NextCell)
      BY <1>14, <1>15, <1>17, <2>2
    <3>2. ~(k < n)
      BY <1>13, <3>1 DEF HeaderOf
    <3> QED  BY <1>6, <3>2
  <2>3. ReaderAt(at)'
    BY <1>1, <1>3, <1>4, <1>6, <2>1, <2>2 DEF ReaderAt
  <2>4. TR_TypeOK'
    BY <1>1, <1>11, <2>1 DEF TR_Inv, TR_TypeOK
  <2>5. CopyInv'
    BY <1>1, CopyStays, InvParts DEF TR_Inv
  <2> QED  BY <1>16, <2>1, <2>3, <2>4, <2>5 DEF TR_Inv
<1>18. CASE ~(Left <= 0 \/ NullBlock(NextCell)) /\ ~Readable(NextCell)
  <2>1. tr_phase' = "error" /\ tr_entry' = tr_entry
    BY <1>18 DEF TR_ReadHeader
  <2>2. tr_cut' \/ Unreadable'
    <3>1. k < n /\ tr_pos < t
      BY <1>12, <1>13, <1>15, <1>18
    <3>2. NextCell.kind = "header" /\ ~NextCell.numbers
      BY <1>13, <1>18, <3>1 DEF HeaderOf, Readable
    <3>3. tr_pos + 1 \in 1 .. Len(tr_tape)
      BY <1>5, <1>6, <3>1
    <3> QED  BY <1>1, <3>2, <3>3 DEF Unreadable, NextCell
  <2>3. ReaderAt(at)'
    BY <1>1, <1>3, <1>4, <1>6, <2>1 DEF ReaderAt
  <2>4. TR_TypeOK'
    BY <1>1, <1>11, <2>1 DEF TR_Inv, TR_TypeOK
  <2>5. CopyInv'
    BY <2>1 DEF CopyInv
  <2> QED  BY <1>16, <2>1, <2>2, <2>3, <2>4, <2>5 DEF TR_Inv
<1>19. CASE ~(Left <= 0 \/ NullBlock(NextCell)) /\ Readable(NextCell)
  <2>1. tr_phase' = "read" /\ tr_entry' = <<[NextCell EXCEPT !.size = DataSize(NextCell)]>>
    BY <1>1, <1>19 DEF TR_ReadHeader
  <2>2. tr_pos < t
    BY <1>15, <1>19
  <2>3. k < n
    BY <1>12, <1>13, <1>19, <2>2 DEF Readable
  <2>4. NextCell \in TarCells
    <3>1. tr_pos + 1 \in 1 .. Len(tr_tape)
      BY <1>5, <1>6, <2>2
    <3> QED  BY <3>1, ElementOfSeq, InvParts DEF NextCell
  <2>5. DataSize(NextCell) \in Nat
    BY <2>4 DEF TarCells, DataSize
  <2>6. PICK c : c = [NextCell EXCEPT !.size = DataSize(NextCell)]
    OBVIOUS
  <2>7. c \in TarCells
    BY <2>4, <2>5, <2>6 DEF TarCells
  <2>8. /\ c.kind = NextCell.kind /\ c.type = NextCell.type /\ c.size = DataSize(NextCell)
        /\ c.prefix = NextCell.prefix /\ c.name = NextCell.name
    BY <2>4, <2>6 DEF TarCells
  <2>9. HeaderOf(c, tr_written[k + 1]) /\ c.size = tr_written[k + 1].size
    <3>1. HeaderOf(NextCell, tr_written[k + 1])
      BY <1>13, <2>2, <2>3
    <3>2. MakeFullPath(c) = MakeFullPath(NextCell)
      BY <2>8 DEF MakeFullPath
    <3>3. DataSize(c) = DataSize(NextCell)
      BY <2>8 DEF DataSize
    <3> QED  BY <2>8, <3>1, <3>2, <3>3 DEF HeaderOf, NullBlock
  <2>10. tr_pos' <= t /\ (tr_pos' = at[k + 1] + TR_Block \/ (tr_cut /\ tr_pos' >= t))
    <3>1. tr_pos = at[k + 1]
      BY <1>13, <2>2
    <3>2. tr_pos' = tr_pos + (IF TR_Block < t - tr_pos THEN TR_Block ELSE t - tr_pos)
      BY <1>1, <1>6, <1>10, <2>2 DEF LesserOf
    <3>3. ~tr_cut => tr_pos + TR_Block <= t
      BY <1>14, <2>3
    <3>4. CASE TR_Block <= t - tr_pos
      BY <1>6, <2>2, <3>1, <3>2, <3>4, BlockPositive
    <3>5. CASE ~(TR_Block <= t - tr_pos)
      <4>1. tr_cut
        BY <1>6, <3>3, <3>5, BlockPositive
      <4> QED  BY <1>6, <2>2, <3>2, <3>5, <4>1, BlockPositive
    <3> QED  BY <3>4, <3>5
  <2>11. tr_entry' = <<c>> /\ tr_entry' # <<>> /\ tr_entry'[1] = c
    BY <2>1, <2>6
  <2>12. ReaderAt(at)'
    BY <1>1, <1>3, <1>4, <1>5, <1>6, <2>1, <2>3, <2>9, <2>10, <2>11 DEF ReaderAt, Behinds
  <2>13. TR_TypeOK'
    BY <1>1, <1>11, <2>1, <2>7, <2>11 DEF TR_Inv, TR_TypeOK
  <2>14. CopyInv'
    BY <1>1, CopyStays, InvParts DEF TR_Inv
  <2> QED  BY <1>16, <2>1, <2>12, <2>13, <2>14 DEF TR_Inv
<1> QED  BY <1>17, <1>18, <1>19

(* The entry whose header was read.                                        *)
HeldFacts(at, k) ==
  /\ NextFacts(at, k)
  /\ Entry \in TarCells /\ HeaderOf(Entry, tr_written[k + 1])
  /\ Entry.size = tr_written[k + 1].size
  /\ tr_pos \in Nat /\ Len(tr_tape) \in Nat /\ tr_pos <= Len(tr_tape)
  /\ tr_pos = at[k + 1] + TR_Block \/ (tr_cut /\ tr_pos = Len(tr_tape))

LEMMA EntryHeld ==
  ASSUME TR_Inv, NEW at \in [1 .. Len(tr_written) + 1 -> Nat],
         Archive(tr_tape, tr_written, at), TapeLength(at), ReaderAt(at),
         tr_phase = "read", tr_entry # <<>>, NEW k, k = Len(tr_read)
  PROVE  HeldFacts(at, k)
<1>1. k \in Nat /\ k < Len(tr_written)
  BY InvParts DEF ReaderAt
<1>2. NextFacts(at, k)
  BY <1>1, NextEntry
<1>3. Entry \in TarCells
  BY InvParts DEF Entry
<1>4. /\ HeaderOf(Entry, tr_written[k + 1]) /\ Entry.size = tr_written[k + 1].size
      /\ tr_pos = at[k + 1] + TR_Block \/ (tr_cut /\ tr_pos >= Len(tr_tape))
      /\ tr_pos <= Len(tr_tape)
  BY DEF ReaderAt, Behinds, Entry
<1>5. tr_pos \in Nat /\ Len(tr_tape) \in Nat
  BY InvParts
<1> QED  BY <1>2, <1>3, <1>4, <1>5 DEF HeldFacts

LEMMA PathTyped ==
  ASSUME NEW c \in TarCells
  PROVE  MakeFullPath(c) \in Seq(Chars)
<1>1. c.prefix \in Seq(Chars) /\ c.name \in Seq(Chars) /\ Behind \in Chars /\ "/" \in Chars
  BY DEF TarCells, Chars
<1>2. ASSUME NEW field \in Seq(Chars), NEW size PROVE FieldString(field, size) \in Seq(Chars)
  BY <1>1 DEF FieldString
<1>3. PICK p : p = FieldString(c.prefix, TR_Prefix)
  OBVIOUS
<1>4. PICK m : m = FieldString(c.name, TR_Name)
  OBVIOUS
<1>5. p \in Seq(Chars) /\ m \in Seq(Chars)
  BY <1>1, <1>2, <1>3, <1>4
<1>6. PICK s : s = <<"/">>
  OBVIOUS
<1>7. s \in Seq(Chars)
  BY <1>1, <1>6
<1>8. p \o m \in Seq(Chars) /\ p \o s \o m \in Seq(Chars)
  BY <1>5, <1>7
<1>9. MakeFullPath(c) = IF p = <<>> THEN m ELSE IF Last(p) = "/" THEN p \o m ELSE p \o s \o m
  BY <1>3, <1>4, <1>6 DEF MakeFullPath
<1> QED  BY <1>5, <1>8, <1>9

RightRead(r, w) ==
  /\ r.type = w.type /\ r.size = w.size
  /\ r.data \in {w.data, <<>>}
  /\ w.ends => r.path = w.path

LEMMA EntryTyped ==
  ASSUME NEW at, NEW k, HeldFacts(at, k),
         NEW data, data \in Seq(DataCells), data \in {tr_written[k + 1].data, <<>>}
  PROVE  EntryRead(data) \in TarEntries /\ RightRead(EntryRead(data), tr_written[k + 1])
<1>1. Entry \in TarCells /\ HeaderOf(Entry, tr_written[k + 1]) /\ Entry.size = tr_written[k + 1].size
  BY DEF HeldFacts
<1>2. MakeFullPath(Entry) \in Seq(Chars)
  BY <1>1, PathTyped
<1>3. Entry.type \in TarTypes /\ Entry.size \in Nat /\ FieldsEnd(Entry) \in BOOLEAN
  BY <1>1 DEF TarCells, FieldsEnd
<1>4. EntryRead(data) \in TarEntries
  BY <1>2, <1>3 DEF EntryRead, TarEntries
<1>5. RightRead(EntryRead(data), tr_written[k + 1])
  BY <1>1 DEF EntryRead, RightRead, HeaderOf
<1> QED  BY <1>4, <1>5

(* Where the reader goes on.                                               *)
ReaderGoesOn(at, k, pos) == pos \in Nat /\ (pos = at[k + 2] \/ (tr_cut /\ pos >= Len(tr_tape)))

Advanced(at, k, r) ==
  /\ at \in [1 .. Len(tr_written) + 1 -> Nat]
  /\ Archive(tr_tape, tr_written, at) /\ TapeLength(at) /\ ReaderAt(at)
  /\ tr_phase = "read" /\ tr_entry # <<>> /\ k = Len(tr_read)
  /\ r \in TarEntries /\ RightRead(r, tr_written[k + 1])
  /\ tr_read' = Append(tr_read, r) /\ tr_entry' = <<>>
  /\ tr_phase' = tr_phase /\ tr_tape' = tr_tape /\ tr_written' = tr_written /\ tr_cut' = tr_cut
  /\ ReaderGoesOn(at, k, tr_pos')

LEMMA AfterEntry ==
  ASSUME TR_Inv, NEW at, NEW k, NEW r, Advanced(at, k, r), CopyInv'
  PROVE  TR_Inv'
<1>1. /\ k \in Nat /\ k < Len(tr_written) /\ Len(tr_written) \in Nat /\ r \in TarEntries
      /\ tr_read' = Append(tr_read, r) /\ tr_read \in Seq(TarEntries) /\ k = Len(tr_read)
  BY InvParts DEF Advanced, ReaderAt
<1>2. /\ tr_read' \in Seq(TarEntries) /\ Len(tr_read') = k + 1 /\ tr_read'[k + 1] = r
      /\ \A i \in 1 .. k : tr_read'[i] = tr_read[i]
  BY <1>1, AppendProperties
<1>3. ReadRight'
  <2>1. ASSUME NEW i \in 1 .. k + 1 PROVE RightRead(tr_read'[i], tr_written[i])
    <3>1. CASE i = k + 1
      BY <1>2, <3>1 DEF Advanced
    <3>2. CASE i # k + 1
      <4>1. i \in 1 .. k
        BY <1>1, <3>2
      <4> QED  BY <1>1, <1>2, <4>1 DEF TR_Inv, ReadRight, RightRead
    <3> QED  BY <3>1, <3>2
  <2> QED  BY <1>2, <2>1 DEF ReadRight, RightRead, Advanced
<1>4. /\ at \in [1 .. Len(tr_written') + 1 -> Nat] /\ Archive(tr_tape', tr_written', at)
      /\ TapeLength(at)'
  BY DEF Advanced, TapeLength
<1>5. ReaderAt(at)'
  <2>1. (k + 1) + 1 = k + 2 /\ k + 1 <= Len(tr_written)
    BY <1>1
  <2> QED  BY <1>2, <2>1 DEF Advanced, ReaderAt, ReaderGoesOn, Behinds
<1>6. TR_TypeOK' /\ tr_phase' # "error"
  BY <1>2 DEF Advanced, ReaderGoesOn, TR_Inv, TR_TypeOK
<1> QED  BY <1>3, <1>4, <1>5, <1>6 DEF TR_Inv

LEMMA CutOfMissing ==
  ASSUME NEW at, NEW k, HeldFacts(at, k), Left < Entry.size
  PROVE  tr_cut
<1> SUFFICES ASSUME ~tr_cut PROVE FALSE
  OBVIOUS
<1> DEFINE z == tr_written[k + 1].size
           y == ToBlockEnd(z)
           t == Len(tr_tape)
           p == at[k + 1]
<1>1. /\ p \in Nat /\ z \in Nat /\ y \in Nat /\ t \in Nat
      /\ tr_pos = p + TR_Block /\ at[k + 2] = p + (TR_Block + z + y) /\ at[k + 2] <= t
      /\ t - tr_pos < z
  BY DEF HeldFacts, NextFacts, Left
<1> HIDE DEF z, y, t, p
<1> QED  BY <1>1, BlockPositive

WholeReadFacts(at, k) ==
  /\ EntryCells \in Seq(DataCells) /\ Len(EntryCells) = Entry.size
  /\ EntryRead(EntryCells) \in TarEntries
  /\ RightRead(EntryRead(EntryCells), tr_written[k + 1])
  /\ ReaderGoesOn(at, k, tr_pos + LesserOf(Entry.size + ToBlockEnd(Entry.size), Left))

LEMMA WholeRead ==
  ASSUME tr_tape \in Seq(TarCells), NEW at, NEW k, HeldFacts(at, k), Left >= Entry.size
  PROVE  WholeReadFacts(at, k)
<1> DEFINE w == tr_written[k + 1]
           z == w.size
           y == ToBlockEnd(z)
           t == Len(tr_tape)
           p == at[k + 1]
           d == Len(w.data)
<1>1. /\ p \in Nat /\ z \in Nat /\ y \in Nat /\ t \in Nat /\ d \in Nat /\ tr_pos \in Nat
      /\ tr_pos <= t /\ t - tr_pos >= z /\ Entry.size = z /\ Left = t - tr_pos
      /\ tr_pos = p + TR_Block \/ (tr_cut /\ tr_pos = t)
      /\ at[k + 2] = p + (TR_Block + z + y)
      /\ ~tr_cut => at[k + 2] <= t
      /\ d <= z /\ (d < z => t <= p + TR_Block + d)
      /\ w.data \in Seq(DataCells) /\ RecordAt(tr_tape, p, w)
  BY DEF HeldFacts, NextFacts, Left
<1>2. LesserOf(Entry.size, Left) = z
  BY <1>1, SMTT(30) DEF LesserOf
<1>3. PICK q : q = tr_pos
  OBVIOUS
<1>4. EntryCells = SubSeq(tr_tape, q + 1, q + z)
  BY <1>2, <1>3 DEF EntryCells
<1> DEFINE cells == EntryCells
<1> HIDE DEF cells, z, y, t, p, d, w
<1>5. /\ cells \in Seq(TarCells) /\ Len(cells) = z
      /\ \A i \in 1 .. z : cells[i] = tr_tape[q + i]
  <2> DEFINE e == q + z
  <2>1. /\ tr_tape \in Seq(TarCells) /\ q \in Nat /\ e \in Nat /\ q <= e /\ e <= Len(tr_tape)
        /\ e - q = z
    BY <1>1, <1>3 DEF t
  <2>2. cells = SubSeq(tr_tape, q + 1, e)
    BY <1>4 DEF cells
  <2> HIDE DEF e
  <2>3. IsPart(cells, tr_tape, TarCells, q, e)
    BY ONLY <2>1, <2>2, PartOf
  <2> QED  BY <2>1, <2>3 DEF IsPart
<1>6. cells = w.data \/ cells = <<>>
  <2>1. CASE z = 0
    BY <1>5, <2>1, EmptySeq
  <2>2. CASE z # 0
    <3>1. q = p + TR_Block /\ d = z
      <4>1. q = p + TR_Block
        BY <1>1, <1>3, <2>2
      <4> QED  BY <1>1, <1>3, <2>2, <4>1, BlockPositive
    <3>2. ASSUME NEW i \in 1 .. z PROVE cells[i] = w.data[i]
      <4>1. p + TR_Block + i <= t /\ q + i = p + TR_Block + i
        BY <1>1, <1>3, <3>1, BlockPositive
      <4> QED  BY <1>1, <1>5, <3>1, <3>2, <4>1 DEF RecordAt, t, d
    <3>3. w.data \in Seq(TarCells)
      BY <1>1, SeqMonotonic DEF DataCells
    <3>4. Len(w.data) = z
      BY <3>1 DEF d
    <3> QED  BY <1>5, <3>2, <3>3, <3>4, SeqEqual
  <2> QED  BY <2>1, <2>2
<1>7. cells \in Seq(DataCells) /\ cells \in {w.data, <<>>}
  BY <1>1, <1>6, EmptySeq
<1>8. EntryRead(cells) \in TarEntries /\ RightRead(EntryRead(cells), w)
  BY <1>7, EntryTyped DEF w
<1>9. ReaderGoesOn(at, k, tr_pos + LesserOf(Entry.size + ToBlockEnd(Entry.size), Left))
  <2>1. Entry.size + ToBlockEnd(Entry.size) = z + y
    BY <1>1 DEF y
  <2>2. tr_pos + LesserOf(z + y, Left) = tr_pos + (IF z + y < t - tr_pos THEN z + y ELSE t - tr_pos)
    BY <1>1 DEF LesserOf
  <2> DEFINE new == tr_pos + (IF z + y < t - tr_pos THEN z + y ELSE t - tr_pos)
  <2>3. new \in Nat /\ (new = at[k + 2] \/ (tr_cut /\ new >= t))
    <3>1. CASE tr_pos = p + TR_Block /\ z + y <= t - tr_pos
      BY <1>1, <3>1, BlockPositive
    <3>2. CASE tr_pos = p + TR_Block /\ ~(z + y <= t - tr_pos)
      BY <1>1, <3>2, BlockPositive
    <3>3. CASE tr_cut /\ tr_pos = t
      BY <1>1, <3>3
    <3> QED  BY <1>1, <3>1, <3>2, <3>3
  <2> QED  BY <2>1, <2>2, <2>3 DEF ReaderGoesOn, t
<1> QED  BY <1>1, <1>5, <1>7, <1>8, <1>9 DEF WholeReadFacts, cells, w

LEMMA ErrorStep ==
  ASSUME TR_Inv, tr_phase = "read", tr_phase' = "error", tr_cut, tr_cut' = tr_cut,
         tr_tape' = tr_tape, tr_written' = tr_written, tr_read' = tr_read, tr_entry' = tr_entry,
         tr_pos' = Len(tr_tape)
  PROVE  TR_Inv'
<1>1. PICK at \in [1 .. Len(tr_written) + 1 -> Nat] :
         Archive(tr_tape, tr_written, at) /\ TapeLength(at) /\ ReaderAt(at)
  BY DEF TR_Inv
<1>2. TapeLength(at)' /\ ReaderAt(at)' /\ ReadRight' /\ CopyInv'
  BY <1>1 DEF TapeLength, ReaderAt, TR_Inv, ReadRight, CopyInv
<1>3. TR_TypeOK'
  BY InvParts DEF TR_Inv, TR_TypeOK
<1> QED  BY <1>1, <1>2, <1>3 DEF TR_Inv

LEMMA ReadDataStep ==
  ASSUME TR_Inv, TR_ReadData
  PROVE  TR_Inv'
<1>1. /\ tr_phase = "read" /\ tr_entry # <<>>
      /\ tr_tape' = tr_tape /\ tr_written' = tr_written /\ tr_copy' = tr_copy /\ tr_cut' = tr_cut
  BY DEF TR_ReadData
<1>2. PICK at \in [1 .. Len(tr_written) + 1 -> Nat] :
         Archive(tr_tape, tr_written, at) /\ TapeLength(at) /\ ReaderAt(at)
  BY DEF TR_Inv
<1>3. PICK k : k = Len(tr_read)
  OBVIOUS
<1>4. HeldFacts(at, k)
  BY <1>1, <1>2, <1>3, EntryHeld
<1>5. CASE Left < Entry.size
  <2>1. tr_phase' = "error" /\ tr_pos' = Len(tr_tape) /\ tr_entry' = tr_entry /\ tr_read' = tr_read
    BY <1>5 DEF TR_ReadData
  <2>2. tr_cut
    BY <1>4, <1>5, CutOfMissing
  <2> QED  BY <1>1, <2>1, <2>2, ErrorStep
<1>6. CASE ~(Left < Entry.size)
  <2>1. /\ tr_read' = Append(tr_read, EntryRead(EntryCells)) /\ tr_entry' = <<>>
        /\ tr_pos' = tr_pos + LesserOf(Entry.size + ToBlockEnd(Entry.size), Left)
        /\ tr_phase' = tr_phase
    BY <1>6 DEF TR_ReadData
  <2>2. Left >= Entry.size
    BY <1>4, <1>6 DEF HeldFacts, TarCells, Left
  <2>3. WholeReadFacts(at, k)
    BY <1>4, <2>2, WholeRead, InvParts
  <2>4. Advanced(at, k, EntryRead(EntryCells))
    BY <1>1, <1>2, <1>3, <2>1, <2>3 DEF Advanced, WholeReadFacts
  <2>5. EntryRead(EntryCells) \in TarEntries
    BY <2>3 DEF WholeReadFacts
  <2>6. CopyInv'
    BY <1>1, <2>1, <2>5, CopyStays, InvParts DEF TR_Inv
  <2> QED  BY <2>4, <2>6, AfterEntry
<1> QED  BY <1>5, <1>6

LEMMA PassedOver ==
  ASSUME NEW p \in Nat, NEW b \in Nat, NEW z \in Nat, NEW y \in Nat, NEW t \in Nat,
         NEW pos \in Nat, NEW cut \in BOOLEAN, NEW end, end = p + (b + z + y), pos <= t,
         pos = p + b \/ (cut /\ pos = t), ~cut => end <= t,
         NEW on \in {z, IF z < t - pos THEN z ELSE t - pos},
         NEW behind, behind = pos + on,
         NEW left, left = IF behind < t THEN t - behind ELSE 0,
         NEW new, new = behind + (IF y < left THEN y ELSE left)
  PROVE  new \in Nat /\ (new = end \/ (cut /\ new >= t))
<1>1. CASE pos = p + b /\ z <= t - pos
  <2>1. on = z
    BY <1>1
  <2> QED  BY <1>1, <2>1
<1>2. CASE ~(pos = p + b /\ z <= t - pos)
  <2>1. cut
    BY <1>2
  <2>2. CASE on = z
    BY <1>2, <2>1, <2>2
  <2>3. CASE on = t - pos
    BY <1>2, <2>1, <2>3
  <2> QED  BY <2>2, <2>3
<1> QED  BY <1>1, <1>2

LEMMA PassOverStep ==
  ASSUME TR_Inv, TR_PassOver
  PROVE  TR_Inv'
<1>1. /\ tr_phase = "read" /\ tr_entry # <<>> /\ tr_phase' = tr_phase
      /\ tr_tape' = tr_tape /\ tr_written' = tr_written /\ tr_copy' = tr_copy /\ tr_cut' = tr_cut
      /\ tr_read' = Append(tr_read, EntryRead(<<>>)) /\ tr_entry' = <<>>
  BY DEF TR_PassOver
<1>2. PICK fifo \in BOOLEAN : tr_pos' = Passed(fifo)
  BY DEF TR_PassOver
<1>3. PICK at \in [1 .. Len(tr_written) + 1 -> Nat] :
         Archive(tr_tape, tr_written, at) /\ TapeLength(at) /\ ReaderAt(at)
  BY DEF TR_Inv
<1>4. PICK k : k = Len(tr_read)
  OBVIOUS
<1>5. HeldFacts(at, k)
  BY <1>1, <1>3, <1>4, EntryHeld
<1>6. ReaderGoesOn(at, k, tr_pos')
  <2> DEFINE z == tr_written[k + 1].size
             y == ToBlockEnd(z)
             t == Len(tr_tape)
             p == at[k + 1]
  <2>1. /\ p \in Nat /\ z \in Nat /\ y \in Nat /\ t \in Nat /\ tr_pos \in Nat /\ tr_pos <= t
        /\ tr_pos = p + TR_Block \/ (tr_cut /\ tr_pos = t)
        /\ at[k + 2] = p + (TR_Block + z + y) /\ (~tr_cut => at[k + 2] <= t)
        /\ Entry.size = z /\ Left = t - tr_pos /\ tr_cut \in BOOLEAN
    BY <1>5, InvParts DEF HeldFacts, NextFacts, Left
  <2> HIDE DEF z, p
  <2>2. PICK on : on = IF fifo THEN LesserOf(z, Left) ELSE z
    OBVIOUS
  <2>3. on \in {z, IF z < t - tr_pos THEN z ELSE t - tr_pos}
    BY <2>1, <2>2 DEF LesserOf
  <2>4. PICK behind : behind = tr_pos + on
    OBVIOUS
  <2>5. BehindData(fifo) = behind
    BY <2>1, <2>2, <2>4 DEF BehindData
  <2>6. PICK left : left = IF behind < t THEN t - behind ELSE 0
    OBVIOUS
  <2>7. tr_pos' = behind + (IF y < left THEN y ELSE left)
    BY <1>2, <2>1, <2>5, <2>6 DEF Passed, LesserOf
  <2> HIDE DEF y, t
  <2>8. PICK new : new = tr_pos'
    OBVIOUS
  <2>9. PICK end : end = at[k + 2]
    OBVIOUS
  <2>10. TR_Block \in Nat /\ end = p + (TR_Block + z + y) /\ (~tr_cut => end <= t)
         /\ new = behind + (IF y < left THEN y ELSE left)
    BY <2>1, <2>7, <2>8, <2>9, BlockPositive
  <2>11. new \in Nat /\ (new = end \/ (tr_cut /\ new >= t))
    BY ONLY <2>1, <2>3, <2>4, <2>6, <2>10, PassedOver
  <2> QED  BY <2>8, <2>9, <2>11 DEF ReaderGoesOn, t
<1>7. EntryRead(<<>>) \in TarEntries /\ RightRead(EntryRead(<<>>), tr_written[k + 1])
  <2>1. PICK none : none = <<>>
    OBVIOUS
  <2>2. none \in Seq(DataCells) /\ none \in {tr_written[k + 1].data, <<>>}
    BY <2>1, EmptySeq
  <2> QED  BY <1>5, <2>1, <2>2, EntryTyped
<1>8. Advanced(at, k, EntryRead(<<>>))
  BY <1>1, <1>3, <1>4, <1>6, <1>7 DEF Advanced
<1>9. CopyInv'
  BY <1>1, <1>7, CopyStays, InvParts DEF TR_Inv
<1> QED  BY <1>8, <1>9, AfterEntry

(* An entry has one header, and the archive one more with it.              *)
OneHeader(more) ==
  /\ more \in Seq(TarCells) /\ Len(more) >= 1 /\ more[1].kind = "header"
  /\ \A i \in 2 .. Len(more) : more[i].kind # "header"

LEMMA EntryHasOneHeader ==
  ASSUME NEW h \in Seq(TarCells), NEW d \in Seq(DataCells), NEW z \in Seq(TarCells),
         Len(h) = TR_Block, h[1].kind = "header",
         \A i \in 2 .. TR_Block : h[i].kind # "header",
         \A i \in 1 .. Len(z) : z[i].kind # "header",
         NEW more, more = h \o d \o z
  PROVE  OneHeader(more)
<1> DEFINE hd == h \o d
           b == TR_Block
           l == Len(d)
           y == Len(z)
<1>1. d \in Seq(TarCells) /\ \A i \in 1 .. l : d[i].kind # "header"
  <2>1. d \in Seq(TarCells)
    BY SeqMonotonic DEF DataCells
  <2>2. \A i \in 1 .. l : d[i] \in DataCells
    BY ElementOfSeq
  <2>3. \A c \in DataCells : c.kind # "header"
    BY DEF DataCells
  <2> QED  BY <2>1, <2>2, <2>3
<1>2. /\ hd \in Seq(TarCells) /\ Extends(hd, h) /\ Len(hd) = Len(h) + Len(d)
      /\ \A i \in 1 .. Len(d) : hd[Len(h) + i] = d[i]
  BY <1>1, Glued
<1>3. more = hd \o z
  OBVIOUS
<1> HIDE DEF hd
<1>4. /\ more \in Seq(TarCells) /\ Extends(more, hd) /\ Len(more) = Len(hd) + Len(z)
      /\ \A i \in 1 .. Len(z) : more[Len(hd) + i] = z[i]
  <2>1. /\ hd \o z \in Seq(TarCells) /\ Extends(hd \o z, hd)
        /\ Len(hd \o z) = Len(hd) + Len(z)
        /\ \A i \in 1 .. Len(z) : (hd \o z)[Len(hd) + i] = z[i]
    <3>1. hd \in Seq(TarCells) /\ z \in Seq(TarCells)
      BY <1>2
    <3> QED  BY ONLY <3>1, Glued
  <2> QED  BY <1>3, <2>1
<1>5. b \in Nat /\ b >= 1 /\ l \in Nat /\ y \in Nat /\ Len(hd) = b + l /\ Len(more) = b + l + y
  BY <1>1, <1>2, <1>4, BlockPositive
<1>6. /\ \A i \in 1 .. b : hd[i] = h[i]
      /\ \A i \in 1 .. b + l : more[i] = hd[i]
      /\ \A i \in 1 .. l : hd[b + i] = d[i]
      /\ \A i \in 1 .. y : more[b + l + i] = z[i]
  BY <1>2, <1>4, <1>5 DEF Extends
<1> HIDE DEF b, l, y
<1>7. more[1] = h[1]
  BY <1>5, <1>6
<1>8. ASSUME NEW i \in 2 .. b + l + y PROVE more[i].kind # "header"
  <2>1. CASE i <= b
    <3>1. i \in 2 .. b /\ i \in 1 .. b /\ i \in 1 .. b + l
      BY <1>5, <2>1
    <3> QED  BY <1>6, <3>1 DEF b
  <2>2. CASE i > b /\ i <= b + l
    <3>1. i - b \in 1 .. l /\ b + (i - b) = i /\ i \in 1 .. b + l
      BY <1>5, <2>2
    <3>2. more[i] = d[i - b]
      BY <1>6, <3>1
    <3> QED  BY <1>1, <3>1, <3>2 DEF l
  <2>3. CASE i > b + l
    <3>1. i - (b + l) \in 1 .. y /\ b + l + (i - (b + l)) = i
      BY <1>5, <2>3
    <3>2. more[i] = z[i - (b + l)]
      BY <1>6, <3>1
    <3> QED  BY <3>1, <3>2 DEF y
  <2> QED  BY <1>5, <2>1, <2>2, <2>3
<1>9. Len(more) >= 1
  BY ONLY <1>5
<1> QED  BY <1>4, <1>5, <1>7, <1>8, <1>9, Zenon DEF OneHeader

HeadersGrown(tape, more) ==
  /\ IsFiniteSet(Headers(tape \o more))
  /\ Cardinality(Headers(tape \o more)) = Cardinality(Headers(tape)) + 1

LEMMA OneHeaderMore ==
  ASSUME NEW tape \in Seq(TarCells), NEW more, OneHeader(more), IsFiniteSet(Headers(tape))
  PROVE  HeadersGrown(tape, more)
<1> DEFINE tape2 == tape \o more
           t == Len(tape)
           m == Len(more)
<1>1. /\ more \in Seq(TarCells) /\ m >= 1 /\ more[1].kind = "header"
      /\ \A i \in 2 .. m : more[i].kind # "header"
  BY DEF OneHeader
<1>2. /\ Extends(tape2, tape) /\ Len(tape2) = t + m /\ \A i \in 1 .. m : tape2[t + i] = more[i]
  BY <1>1, Glued
<1>3. t \in Nat /\ m \in Nat
  BY <1>1
<1>4. \A i \in 1 .. t : tape2[i] = tape[i]
  BY <1>2 DEF Extends
<1> HIDE DEF tape2, t, m
<1>5. Headers(tape2) = Headers(tape) \cup {t + 1}
  <2>1. ASSUME NEW i \in 1 .. t PROVE i \in 1 .. t + m /\ i # t + 1
    BY <1>3
  <2>2. ASSUME NEW i \in 1 .. t + m, i \notin 1 .. t
        PROVE  i - t \in 1 .. m /\ t + (i - t) = i /\ (i # t + 1 => i - t \in 2 .. m)
    BY <1>3, <2>2
  <2>3. t + 1 \in 1 .. t + m /\ 1 \in 1 .. m
    BY <1>1, <1>3
  <2>4. tape2[t + 1].kind = "header"
    BY <1>1, <1>2, <2>3
  <2>5. ASSUME NEW i \in 1 .. t + m, i \notin 1 .. t, i # t + 1 PROVE tape2[i].kind # "header"
    <3>1. i - t \in 1 .. m /\ t + (i - t) = i /\ i - t \in 2 .. m
      BY <2>2, <2>5
    <3>2. tape2[i] = more[i - t]
      BY <1>2, <3>1
    <3> QED  BY <1>1, <3>1, <3>2
  <2> QED  BY <1>2, <1>4, <2>1, <2>3, <2>4, <2>5 DEF Headers, t
<1>6. t + 1 \notin Headers(tape)
  BY <1>3 DEF Headers, t
<1>7. /\ IsFiniteSet(Headers(tape) \cup {t + 1})
      /\ Cardinality(Headers(tape) \cup {t + 1}) = Cardinality(Headers(tape)) + 1
  BY <1>6, FS_AddElement
<1> QED  BY <1>5, <1>7 DEF HeadersGrown, tape2

LEMMA CopyGrows ==
  ASSUME CopyInv, tr_phase # "error", tr_read \in Seq(TarEntries),
         NEW w \in TarEntries, tr_read' = Append(tr_read, w),
         NEW more, EntryWhole(more, w), OneHeader(more), Len(w.data) = w.size,
         Len(more) = Span(w), tr_copy' = tr_copy \o more
  PROVE  CopyInv'
<1>0. PICK list \in Seq(TarEntries) : \E at \in [1 .. Len(list) + 1 -> Nat] : CopyHolds(list, at)
  BY DEF CopyInv
<1>1. PICK at \in [1 .. Len(list) + 1 -> Nat] : CopyHolds(list, at)
  BY <1>0
<1>2. /\ Archive(tr_copy, list, at) /\ Len(tr_copy) = TapeEnd(at, list)
      /\ tr_copy \in Seq(TarCells) /\ more \in Seq(TarCells)
      /\ IsFiniteSet(Headers(tr_copy)) /\ Cardinality(Headers(tr_copy)) = Len(list)
      /\ \A i \in 1 .. Len(list) : Len(list[i].data) = list[i].size
      /\ Len(list) <= Len(tr_read) /\ (Len(list) = Len(tr_read) => list = tr_read)
  BY <1>1 DEF CopyHolds, Archive, OneHeader
<1>3. PICK at2 : at2 = Extended(at, list, w)
  OBVIOUS
<1>4. PICK list2 : list2 = Append(list, w)
  OBVIOUS
<1>5. PICK n : n = Len(list)
  OBVIOUS
<1>6. /\ list2 \in Seq(TarEntries) /\ Len(list2) = n + 1 /\ list2[n + 1] = w /\ n \in Nat
      /\ \A i \in 1 .. n : list2[i] = list[i]
  BY <1>4, <1>5, AppendProperties
<1>7. ArchiveGrown(tr_copy, list, at, more, w)
  BY <1>2, EntryAdded
<1>8. /\ Archive(tr_copy', list2, at2) /\ at2 \in [1 .. Len(list2) + 1 -> Nat]
      /\ TapeEnd(at2, list2) = Len(tr_copy) + Span(w)
      /\ Len(tr_copy') = Len(tr_copy) + Len(more)
  BY <1>3, <1>4, <1>7 DEF ArchiveGrown
<1>9. IsFiniteSet(Headers(tr_copy')) /\ Cardinality(Headers(tr_copy')) = n + 1
  <2>1. HeadersGrown(tr_copy, more)
    BY <1>2, OneHeaderMore
  <2> QED  BY <1>2, <1>5, <2>1 DEF HeadersGrown
<1>10. \A i \in 1 .. Len(list2) : Len(list2[i].data) = list2[i].size
  <2> SUFFICES ASSUME NEW i \in 1 .. n + 1 PROVE Len(list2[i].data) = list2[i].size
    BY <1>6
  <2>1. i = n + 1 \/ i \in 1 .. n
    BY <1>6
  <2> QED  BY <1>2, <1>5, <1>6, <2>1
<1>11. Len(list2) <= Len(tr_read') /\ (Len(list2) = Len(tr_read') => list2 = tr_read')
  <2>1. Len(tr_read') = Len(tr_read) + 1 /\ Len(tr_read) \in Nat
    BY AppendProperties
  <2> QED  BY <1>2, <1>4, <1>5, <1>6, <2>1
<1>12. CopyHolds(list2, at2)'
  BY <1>6, <1>8, <1>9, <1>10, <1>11 DEF CopyHolds
<1> QED  BY <1>6, <1>8, <1>12 DEF CopyInv

LEMMA CopyDataStep ==
  ASSUME TR_Inv, TR_CopyData
  PROVE  TR_Inv'
<1>1. /\ tr_phase = "read" /\ tr_entry # <<>>
      /\ tr_tape' = tr_tape /\ tr_written' = tr_written /\ tr_cut' = tr_cut
  BY DEF TR_CopyData
<1>2. PICK at \in [1 .. Len(tr_written) + 1 -> Nat] :
         Archive(tr_tape, tr_written, at) /\ TapeLength(at) /\ ReaderAt(at)
  BY DEF TR_Inv
<1>3. PICK k : k = Len(tr_read)
  OBVIOUS
<1>4. HeldFacts(at, k)
  BY <1>1, <1>2, <1>3, EntryHeld
<1>5. CASE ~(Left >= Entry.size)
  <2>1. tr_phase' = "error" /\ tr_pos' = Len(tr_tape) /\ tr_entry' = tr_entry /\ tr_read' = tr_read
    BY <1>5 DEF TR_CopyData
  <2>2. Left < Entry.size
    BY <1>4, <1>5 DEF HeldFacts, TarCells, Left
  <2>3. tr_cut
    BY <1>4, <2>2, CutOfMissing
  <2> QED  BY <1>1, <2>1, <2>3, ErrorStep
<1>6. CASE Left >= Entry.size
  <2> DEFINE size == Entry.size
  <2>1. /\ tr_copy' = tr_copy \o Header(Entry.type, Entry.size, Entry, TRUE) \o EntryCells
                        \o Nulls(ToBlockEnd(Entry.size))
        /\ tr_read' = Append(tr_read, EntryRead(EntryCells)) /\ tr_entry' = <<>>
        /\ tr_pos' = tr_pos + LesserOf(Entry.size + ToBlockEnd(Entry.size), Left)
        /\ tr_phase' = tr_phase
    BY <1>6 DEF TR_CopyData
  <2>2. WholeReadFacts(at, k)
    BY <1>4, <1>6, WholeRead, InvParts
  <2>3. Advanced(at, k, EntryRead(EntryCells))
    BY <1>1, <1>2, <1>3, <2>1, <2>2 DEF Advanced, WholeReadFacts
  <2>4. PICK e : e = Entry
    OBVIOUS
  <2>5. /\ e \in TarCells /\ e.type \in TarTypes /\ e.size \in Nat
        /\ e.prefix \in Seq(Chars) /\ e.name \in Seq(Chars)
        /\ DataSize(e) = e.size /\ ~NullBlock(e)
    BY <1>4, <2>4 DEF HeldFacts, HeaderOf, TarCells
  <2>6. PICK h : h = Header(e.type, e.size, e, TRUE)
    OBVIOUS
  <2>7. HeaderCells(h, e.type, e.size, e)
    BY <2>5, <2>6, HeaderIs
  <2>8. PICK d : d = EntryCells
    OBVIOUS
  <2>9. PICK z : z = Nulls(ToBlockEnd(e.size))
    OBVIOUS
  <2>10. /\ z \in Seq(TarCells) /\ Len(z) = ToBlockEnd(e.size)
         /\ \A i \in 1 .. Len(z) : z[i] = NullCell
    BY <2>5, <2>9, ToBlockEndNatural, NullsAre
  <2>11. PICK w : w = EntryRead(EntryCells)
    OBVIOUS
  <2>12. /\ d \in Seq(DataCells) /\ Len(d) = e.size /\ w \in TarEntries
         /\ w.type = e.type /\ w.data = d /\ w.size = e.size
         /\ w.path = MakeFullPath(e)
    BY <2>2, <2>4, <2>8, <2>11 DEF WholeReadFacts, EntryRead
  <2>13. PICK more : more = h \o d \o z
    OBVIOUS
  <2>14. h \in Seq(TarCells) /\ Len(h) = TR_Block /\ h[1].kind = "header"
         /\ (\A i \in 2 .. TR_Block : h[i].kind # "header")
    BY <2>7 DEF HeaderCells
  <2>15. EntryParts(tr_copy, more, h, d, z) /\ OneHeader(more)
    <3>1. tr_copy \in Seq(TarCells)
      BY <1>1 DEF TR_Inv, CopyInv, CopyHolds, Archive
    <3>2. EntryParts(tr_copy, more, h, d, z)
      BY <2>10, <2>12, <2>13, <2>14, <3>1, EntryCellsAre
    <3>3. \A i \in 1 .. Len(z) : z[i].kind # "header"
      BY <2>10 DEF NullCell
    <3>4. OneHeader(more)
      BY <2>10, <2>12, <2>13, <2>14, <3>3, EntryHasOneHeader
    <3> QED  BY <3>2, <3>4
  <2>16. HeaderOf(h[1], w)
    <3>1. MakeFullPath(h[1]) = MakeFullPath(e)
      BY <2>7 DEF HeaderCells, MakeFullPath
    <3>2. DataSize(h[1]) = e.size
      BY <2>5, <2>7 DEF HeaderCells, DataSize
    <3>3. ~NullBlock(h[1])
      BY <2>5, <2>7 DEF HeaderCells, NullBlock
    <3> QED  BY <2>7, <2>12, <3>1, <3>2, <3>3 DEF HeaderCells, HeaderOf
  <2>17. Len(more) = Span(w)
    BY <2>10, <2>12, <2>15 DEF EntryParts, Span
  <2>18. EntryWhole(more, w)
    <3>1. TR_Block + Len(w.data) <= Len(more)
      <4>1. ToBlockEnd(e.size) \in Nat /\ Len(more) = TR_Block + e.size + ToBlockEnd(e.size)
        BY <2>5, <2>12, <2>17, ToBlockEndNatural DEF Span
      <4> QED  BY <2>5, <2>12, <4>1, BlockPositive
    <3>2. HeaderOf(more[1], w) /\ \A i \in 1 .. Len(w.data) : more[TR_Block + i] = w.data[i]
      BY <2>12, <2>15, <2>16 DEF EntryParts
    <3>3. Len(w.data) <= w.size /\ ~(Len(w.data) < w.size)
      BY <2>5, <2>12
    <3> QED  BY <3>1, <3>2, <3>3 DEF EntryWhole
  <2>19. tr_copy' = tr_copy \o more
    BY <2>1, <2>4, <2>6, <2>8, <2>9, <2>15 DEF EntryParts
  <2>20. CopyInv /\ tr_phase # "error" /\ tr_read \in Seq(TarEntries) /\ tr_read' = Append(tr_read, w)
    BY <1>1, <2>1, <2>11, InvParts DEF TR_Inv
  <2>21. CopyInv'
    BY <2>12, <2>15, <2>17, <2>18, <2>19, <2>20, CopyGrows
  <2> QED  BY <2>3, <2>21, AfterEntry
<1> QED  BY <1>5, <1>6

LEMMA ReadCopyStep ==
  ASSUME TR_Inv, TR_ReadCopy
  PROVE  TR_Inv'
<1>1. /\ tr_phase = "eof" /\ tr_phase' = "read" /\ tr_pos' = 0 /\ tr_cut' = FALSE
      /\ tr_entry' = <<>> /\ tr_read' = <<>> /\ tr_copy' = <<>>
      /\ tr_written' = tr_read /\ tr_tape' = tr_copy \o Nulls(2 * TR_Block)
      /\ Cardinality({i \in DOMAIN tr_copy : tr_copy[i].kind = "header"}) = Len(tr_read)
  BY DEF TR_ReadCopy
<1>2. PICK list \in Seq(TarEntries) : \E at \in [1 .. Len(list) + 1 -> Nat] : CopyHolds(list, at)
  BY <1>1 DEF TR_Inv, CopyInv
<1>3. PICK at \in [1 .. Len(list) + 1 -> Nat] : CopyHolds(list, at)
  BY <1>2
<1>4. list = tr_read
  <2>1. tr_copy \in Seq(TarCells)
    BY <1>3 DEF CopyHolds, Archive
  <2>2. {i \in DOMAIN tr_copy : tr_copy[i].kind = "header"} = Headers(tr_copy)
    BY <2>1 DEF Headers
  <2> QED  BY <1>1, <1>3, <2>2 DEF CopyHolds
<1>5. ArchiveEnded(tr_copy \o Nulls(2 * TR_Block), list, at)
  BY <1>3, NullsAdded DEF CopyHolds
<1>6. /\ Archive(tr_tape', tr_written', at) /\ at \in [1 .. Len(tr_written') + 1 -> Nat]
      /\ Len(tr_tape') = TapeEnd(at, tr_written') + 2 * TR_Block
      /\ tr_tape'[TapeEnd(at, tr_written') + 1] = NullCell
  BY <1>1, <1>4, <1>5 DEF ArchiveEnded
<1>7. at[1] = 0 /\ Len(tr_written') \in Nat
  BY <1>1, <1>3, InvParts DEF CopyHolds, Archive, Places
<1>8. <<>> \in Seq(TarEntries) /\ Len(<<>>) = 0 /\ 0 + 1 = 1
  BY EmptySeq
<1>9. TapeLength(at)' /\ ReaderAt(at)' /\ ReadRight'
  <2>1. TapeLength(at)'
    BY <1>1, <1>6 DEF TapeLength
  <2>2. ReaderAt(at)'
    BY <1>1, <1>7, <1>8 DEF ReaderAt
  <2> QED  BY <1>1, <1>8, <2>1, <2>2 DEF ReadRight
<1>10. TR_TypeOK'
  BY <1>1, <1>6, <1>8 DEF TR_TypeOK, Archive
<1>11. CopyInv'
  <2>1. CopyHolds(<<>>, Nowhere)'
    BY <1>1, <1>8, EmptyArchive, EmptyHeaders DEF CopyHolds
  <2> QED  BY <2>1, EmptyArchive DEF CopyInv
<1> QED  BY <1>1, <1>6, <1>9, <1>10, <1>11 DEF TR_Inv

(* What is read of an archive are its entries, in their order: with any    *)
(* sizes of blocks, fields and data, wherever segments end and the archive *)
(* is cut, also of a copy, and of a copy of a copy.                        *)
THEOREM EntriesAreRead == TR_Spec => []TR_ReadsWritten
<1>1. TR_Init => TR_Inv
  BY InitHolds
<1>2. TR_Inv /\ [TR_Next]_tr_vars => TR_Inv'
  <2> SUFFICES ASSUME TR_Inv, [TR_Next]_tr_vars PROVE TR_Inv'
    OBVIOUS
  <2>1. CASE TR_WriteSegment
    BY <2>1, WriteSegmentStep
  <2>2. CASE TR_WriteRest
    BY <2>2, WriteRestStep
  <2>3. CASE TR_WriteEOF
    BY <2>3, WriteEOFStep
  <2>4. CASE TR_Cut
    BY <2>4, CutStep
  <2>5. CASE TR_ReadHeader
    BY <2>5, ReadHeaderStep
  <2>6. CASE TR_ReadData
    BY <2>6, ReadDataStep
  <2>7. CASE TR_PassOver
    BY <2>7, PassOverStep
  <2>8. CASE TR_CopyData
    BY <2>8, CopyDataStep
  <2>9. CASE TR_ReadCopy
    BY <2>9, ReadCopyStep
  <2>10. CASE UNCHANGED tr_vars
    <3>1. PICK at \in [1 .. Len(tr_written) + 1 -> Nat] :
             Archive(tr_tape, tr_written, at) /\ TapeLength(at) /\ ReaderAt(at)
      BY DEF TR_Inv
    <3>2. TapeLength(at)' /\ ReaderAt(at)' /\ Archive(tr_tape', tr_written', at)
          /\ at \in [1 .. Len(tr_written') + 1 -> Nat]
      BY <2>10, <3>1 DEF tr_vars, TapeLength, ReaderAt, Behinds
    <3>3. TR_TypeOK' /\ ReadRight' /\ CopyInv' /\ (tr_phase' = "error" => tr_cut' \/ Unreadable')
      BY <2>10 DEF tr_vars, TR_Inv, TR_TypeOK, ReadRight, CopyInv, CopyHolds, Unreadable
    <3> QED  BY <3>2, <3>3 DEF TR_Inv
  <2> QED  BY <2>1, <2>2, <2>3, <2>4, <2>5, <2>6, <2>7, <2>8, <2>9, <2>10 DEF TR_Next
<1>3. TR_Inv => TR_ReadsWritten
  <2> SUFFICES ASSUME TR_Inv PROVE TR_ReadsWritten
    OBVIOUS
  <2>1. PICK at \in [1 .. Len(tr_written) + 1 -> Nat] : ReaderAt(at)
    BY DEF TR_Inv
  <2>2. Len(tr_read) <= Len(tr_written) /\ (tr_phase = "eof" /\ ~tr_cut => Len(tr_read) = Len(tr_written))
    BY <2>1 DEF ReaderAt
  <2> QED  BY <2>2 DEF TR_Inv, ReadRight, Unreadable, TR_ReadsWritten
<1> QED  BY <1>1, <1>2, <1>3, PTL DEF TR_Spec
=============================================================================
