----------------------------- MODULE FileCopies -----------------------------
(***************************************************************************)
(* Replacing a file by a copy of another (src/libjr/syscalls/safecopy.c)   *)
(* and moving one, with a copy when the paths are on different devices     *)
(* (src/libjr/syscalls/move.c). Every call to the system is a step, may    *)
(* fail, and may be the last one of the process. What stdio has been given *)
(* is in its buffer until it is flushed, at any time, or the file closed.  *)
(*                                                                         *)
(* A file is known by whose contents it has, and by how many of its blocks *)
(* it holds. The names are those of the replaced file ("to"), of the data  *)
(* ("from"), and the temporary one, which is taken for unused.             *)
(***************************************************************************)
EXTENDS Integers

CONSTANTS FC_Blocks      \* blocks of a whole file

ASSUME FileCopiesAssumption == FC_Blocks \in Nat \ {0}

VARIABLES
  fc_files,        \* what is found under each name
  fc_call,         \* kind of call, its next step, what it knows
  fc_buffered,     \* blocks in the buffer of wfp
  fc_copied,       \* blocks read from rfp
  fc_failed        \* what has failed in this call

fc_vars == <<fc_files, fc_call, fc_buffered, fc_copied, fc_failed>>

NoFile == [of |-> "none", blocks |-> 0]
Whole(of) == [of |-> of, blocks |-> FC_Blocks]
Empty == [of |-> "from", blocks |-> 0]

FC_NoCall == [kind |-> "none", step |-> "idle", tmp |-> FALSE]
Step(s) == fc_call' = [fc_call EXCEPT !.step = s]
Failed(what) == fc_failed' = fc_failed \cup {what}
NoIO == UNCHANGED <<fc_buffered, fc_copied>>
With(name, file) == [fc_files EXCEPT ![name] = file]

At(kind, step) == fc_call.kind = kind /\ fc_call.step = step

(* The process returns from the call, or dies.                             *)
Over == fc_call.step \in {"done", "error", "dead"}

FC_Init ==
  /\ fc_files \in [to : {NoFile, Whole("to")}, from : {NoFile, Whole("from")}, tmp : {NoFile}]
  /\ fc_call = FC_NoCall
  /\ fc_buffered = 0 /\ fc_copied = 0 /\ fc_failed = {}

FC_Call ==
  /\ fc_call = FC_NoCall
  /\ fc_call' \in {[kind |-> "safecopy", step |-> "access", tmp |-> FALSE],
                   [kind |-> "move", step |-> "rename", tmp |-> FALSE]}
  /\ UNCHANGED <<fc_files, fc_failed>> /\ NoIO

FC_Crash ==
  /\ ~Over /\ fc_call # FC_NoCall
  /\ Step("dead") /\ fc_buffered' = 0
  /\ UNCHANGED <<fc_files, fc_copied, fc_failed>>

-----------------------------------------------------------------------------
(* jr_FileNameSafeCopy.                                                    *)

SC_Access ==
  /\ At("safecopy", "access")
  /\ fc_call' = [fc_call EXCEPT !.step = IF fc_files.to = NoFile THEN "open" ELSE "rename",
                                !.tmp = fc_files.to # NoFile]
  /\ UNCHANGED <<fc_files, fc_failed>> /\ NoIO

SC_RenameAway ==
  /\ At("safecopy", "rename")
  /\ \/ /\ fc_files' = [fc_files EXCEPT !.tmp = fc_files.to, !.to = NoFile]
        /\ Step("open") /\ UNCHANGED fc_failed
     \/ Step("error") /\ Failed("rename") /\ UNCHANGED fc_files
  /\ NoIO

(* The file is created before the data are opened; when one of the two     *)
(* fails nothing is undone.                                                *)
SC_OpenNew ==
  /\ At("safecopy", "open")
  /\ \/ fc_files' = With("to", Empty) /\ Step("opendata") /\ UNCHANGED fc_failed
     \/ Step("error") /\ Failed("open") /\ UNCHANGED fc_files
  /\ NoIO

SC_OpenData ==
  /\ At("safecopy", "opendata")
  /\ \/ fc_files.from # NoFile /\ Step("copy") /\ UNCHANGED fc_failed
     \/ Step("error") /\ Failed("open")
  /\ UNCHANGED fc_files /\ NoIO

(* jr_FilePtrCopy up to the end of the data, or to the first failure.      *)
SC_Copied ==
  /\ At("safecopy", "copy")
  /\ \/ "read" \notin fc_failed /\ "write" \notin fc_failed /\ fc_copied = FC_Blocks
        /\ Step("unlinktmp")
     \/ fc_failed \cap {"read", "write"} # {} /\ Step(IF fc_call.tmp THEN "unlinknew" ELSE "error")
  /\ UNCHANGED <<fc_files, fc_failed>> /\ NoIO

(* What was copied is removed, which nobody checks, and the old file gets  *)
(* its name back, over whatever has it; that fclose still writes to a copy *)
(* that was given up is left out.                                          *)
SC_UnlinkNew ==
  /\ At("safecopy", "unlinknew")
  /\ \/ fc_files' = With("to", NoFile) /\ UNCHANGED fc_failed
     \/ Failed("unlink") /\ UNCHANGED fc_files
  /\ Step("renameback")
  /\ NoIO

SC_RenameBack ==
  /\ At("safecopy", "renameback")
  /\ \/ /\ fc_files' = [fc_files EXCEPT !.to = fc_files.tmp, !.tmp = NoFile]
        /\ UNCHANGED fc_failed
     \/ Failed("renameback") /\ UNCHANGED fc_files
  /\ Step("error")
  /\ NoIO

(* Mutant: the old file is removed before the copy.                        *)
SC_UnlinkTmpEarly ==
  /\ At("safecopy", "unlinktmp") \/ At("safecopy", "copy")
  /\ fc_files' = With("tmp", NoFile)
  /\ IF fc_call.step = "copy" THEN UNCHANGED fc_call ELSE Step("close")
  /\ UNCHANGED <<fc_failed>> /\ NoIO

(* Nobody looks at the result: the old file may stay under its other name. *)
SC_UnlinkTmp ==
  /\ At("safecopy", "unlinktmp")
  /\ \/ fc_files' = With("tmp", NoFile) /\ UNCHANGED fc_failed
     \/ Failed("unlink") /\ UNCHANGED fc_files
  /\ Step("close")
  /\ NoIO

-----------------------------------------------------------------------------
(* jr_MoveFileName.                                                        *)

MV_Rename ==
  /\ At("move", "rename")
  /\ \/ /\ fc_files.from # NoFile
        /\ fc_files' = [fc_files EXCEPT !.to = fc_files.from, !.from = NoFile]
        /\ Step("done") /\ UNCHANGED fc_failed
     \/ Step("error") /\ Failed("rename") /\ UNCHANGED fc_files
     \/ Step("opendata") /\ UNCHANGED <<fc_files, fc_failed>>          \* EXDEV
  /\ NoIO

MV_OpenOld ==
  /\ At("move", "opendata")
  /\ \/ fc_files.from # NoFile /\ Step("open") /\ UNCHANGED fc_failed
     \/ Step("error") /\ Failed("open")
  /\ UNCHANGED fc_files /\ NoIO

MV_OpenNew ==
  /\ At("move", "open")
  /\ \/ fc_files' = With("to", Empty) /\ Step("copy") /\ UNCHANGED fc_failed
     \/ Step("error") /\ Failed("open") /\ UNCHANGED fc_files
  /\ NoIO

(* What getc could not read is taken for the end, and what putc could not  *)
(* write is not noticed.                                                   *)
MV_Copied ==
  /\ At("move", "copy")
  /\ fc_copied = FC_Blocks \/ "read" \in fc_failed
  /\ Step("close")
  /\ UNCHANGED <<fc_files, fc_failed>> /\ NoIO

MV_UnlinkOld ==
  /\ At("move", "unlinkold")
  /\ \/ fc_files' = With("from", NoFile) /\ UNCHANGED fc_failed
     \/ Failed("unlink") /\ UNCHANGED fc_files
  /\ Step("done")
  /\ NoIO

-----------------------------------------------------------------------------
(* stdio.                                                                  *)

MayCopy ==
  /\ fc_call.step = "copy"
  /\ "read" \notin fc_failed
  /\ fc_call.kind = "safecopy" => "write" \notin fc_failed

FC_CopyBlock ==
  /\ MayCopy /\ fc_copied < FC_Blocks
  /\ \/ /\ fc_copied' = fc_copied + 1 /\ fc_buffered' = fc_buffered + 1
        /\ UNCHANGED fc_failed
     \/ Failed("read") /\ NoIO
  /\ UNCHANGED <<fc_files, fc_call>>

Flushed(file) == [file EXCEPT !.blocks = @ + fc_buffered]

FC_Flush ==
  /\ MayCopy /\ fc_buffered > 0
  /\ \/ fc_files' = With("to", Flushed(fc_files.to)) /\ UNCHANGED fc_failed
     \/ Failed("write") /\ UNCHANGED fc_files
  /\ fc_buffered' = 0
  /\ UNCHANGED <<fc_call, fc_copied>>

(* fclose writes what is buffered; nobody looks at its result.             *)
FC_Close ==
  /\ fc_call.step = "close"
  /\ \/ fc_files' = With("to", Flushed(fc_files.to)) /\ UNCHANGED fc_failed
     \/ fc_buffered > 0 /\ Failed("write") /\ UNCHANGED fc_files
  /\ fc_buffered' = 0
  /\ Step(IF fc_call.kind = "move" THEN "unlinkold" ELSE "done")
  /\ UNCHANGED <<fc_copied>>

FC_Next ==
  \/ FC_Call \/ FC_Crash
  \/ SC_Access \/ SC_RenameAway \/ SC_OpenNew \/ SC_OpenData \/ SC_Copied
  \/ SC_UnlinkNew \/ SC_RenameBack \/ SC_UnlinkTmp
  \/ MV_Rename \/ MV_OpenOld \/ MV_OpenNew \/ MV_Copied \/ MV_UnlinkOld
  \/ FC_CopyBlock \/ FC_Flush \/ FC_Close

FC_Spec == FC_Init /\ [][FC_Next]_fc_vars

-----------------------------------------------------------------------------
(* A safe copy never leaves its caller without data: whatever fails, and   *)
(* wherever the process dies, the old file is whole under its own or the   *)
(* temporary name until all the new data were given to stdio; the caller   *)
(* who is told that the copy failed has the old file back, unless an open  *)
(* or a rename failed, and then it has the temporary name; the one who is  *)
(* told of success has the new file, unless the last write failed, and the *)
(* temporary name is gone, or names the old file, which could not be       *)
(* unlinked. A move across devices that read and wrote everything does not *)
(* remove the moved file before the other one is whole. (One that did not  *)
(* removes it all the same: move.c:62-71 looks at no result of the copy.)  *)
FC_NothingLost ==
  /\ fc_call.kind = "safecopy" /\ fc_call.tmp =>
       \/ Whole("to") \in {fc_files.to, fc_files.tmp}
       \/ fc_call.step \in {"close", "done", "dead"} /\ fc_copied = FC_Blocks
  /\ At("safecopy", "error") /\ fc_call.tmp =>
       IF fc_failed \cap {"open", "renameback"} = {} THEN fc_files.to = Whole("to")
       ELSE fc_files.tmp = Whole("to")
  /\ At("safecopy", "done") =>
       /\ \/ fc_files.tmp = NoFile
          \/ "unlink" \in fc_failed /\ fc_files.tmp = Whole("to")
       /\ fc_files.to = Whole("from") \/ "write" \in fc_failed
  /\ fc_call.kind = "move" /\ fc_failed \cap {"read", "write"} = {} =>
       \/ Whole("from") \in {fc_files.from, fc_files.to}
       \/ fc_call.step \in {"rename", "opendata", "error", "dead"} /\ fc_files.from = NoFile
=============================================================================
