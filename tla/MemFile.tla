------------------------------ MODULE MemFile -------------------------------
(***************************************************************************)
(* Files whose text comes back in memory (memfile.c). The program writes   *)
(* to a line-buffered stream on a pipe; the function called by SIGIO reads *)
(* the pipe into the file's buffer. While a string of a file is open SIGIO *)
(* is blocked, so that the buffer stays as it is. The mask of signals is   *)
(* one for the process; each file saves the mask it has found.             *)
(***************************************************************************)
EXTENDS Naturals, Sequences

CONSTANTS
  MFFiles,
  MFLimit,      \* max_buffer_size of each file; 0 for none
  MFCapacity,   \* characters a pipe holds
  MFWritten     \* bound on the characters printed to a file

ASSUME MemFileAssumption == MFLimit \in [MFFiles -> Nat]

VARIABLES
  mf_stdio,     \* characters in the stream: [file -> Seq], not yet a line
  mf_writing,   \* characters the stream is writing to the pipe
  mf_pipe,
  mf_buffer,    \* char_buffer
  mf_saved,     \* old_mask_ptr: the mask it points to, or "none"
  mf_opens,     \* num_string_opens
  mf_masked,    \* SIGIO is blocked
  mf_pending,   \* SIGIO was sent
  mf_printed,   \* characters printed (history)
  mf_string,    \* the buffer when the string was opened (history)
  mf_crossed    \* files whose string was open when the file that had
                \* blocked SIGIO before closed its own (history)

mf_vars == <<mf_stdio, mf_writing, mf_pipe, mf_buffer, mf_saved, mf_opens,
             mf_masked, mf_pending, mf_printed, mf_string, mf_crossed>>

MF_Empty == [f \in MFFiles |-> <<>>]

(* Two files after jr_MemoryFileCreateForWriting.                          *)
MF_Init ==
  /\ mf_stdio = MF_Empty /\ mf_writing = MF_Empty /\ mf_pipe = MF_Empty
  /\ mf_buffer = MF_Empty
  /\ mf_saved = [f \in MFFiles |-> "none"]
  /\ mf_opens = [f \in MFFiles |-> 0]
  /\ mf_masked = FALSE /\ mf_pending = FALSE
  /\ mf_printed = [f \in MFFiles |-> 0]
  /\ mf_string = MF_Empty
  /\ mf_crossed = {}

(* The program is in a write of the stream, perhaps waiting for the pipe.  *)
InWrite == \E f \in MFFiles : mf_writing[f] # <<>>

(* A character printed waits in the stream; the end of a line writes them. *)
MF_Print(f) ==
  /\ ~InWrite /\ mf_printed[f] < MFWritten
  /\ mf_printed' = [mf_printed EXCEPT ![f] = @ + 1]
  /\ \/ /\ mf_stdio' = [mf_stdio EXCEPT ![f] = Append(@, mf_printed'[f])]
        /\ UNCHANGED mf_writing
     \/ /\ mf_writing' = [mf_writing EXCEPT ![f] = Append(mf_stdio[f], mf_printed'[f])]
        /\ mf_stdio' = [mf_stdio EXCEPT ![f] = <<>>]
  /\ UNCHANGED <<mf_pipe, mf_buffer, mf_saved, mf_opens, mf_masked, mf_pending,
                 mf_string, mf_crossed>>

(* The pipe takes a character and SIGIO is sent.                           *)
MF_Put(f) ==
  /\ mf_writing[f] # <<>> /\ Len(mf_pipe[f]) < MFCapacity
  /\ mf_pipe' = [mf_pipe EXCEPT ![f] = Append(@, Head(mf_writing[f]))]
  /\ mf_writing' = [mf_writing EXCEPT ![f] = Tail(@)]
  /\ mf_pending' = TRUE
  /\ UNCHANGED <<mf_stdio, mf_buffer, mf_saved, mf_opens, mf_masked,
                 mf_printed, mf_string, mf_crossed>>

(* jr_MemoryFileIO_Handler for every file that has something: it reads     *)
(* until the pipe is empty, and keeps no more than the limit. The program  *)
(* stands still meanwhile.                                                 *)
Limited(f, text) ==
  IF MFLimit[f] > 0 /\ Len(text) > MFLimit[f] THEN SubSeq(text, 1, MFLimit[f]) ELSE text

MF_Handler ==
  /\ mf_pending /\ ~mf_masked
  /\ mf_pending' = FALSE
  /\ mf_buffer' = [f \in MFFiles |-> Limited(f, mf_buffer[f] \o mf_pipe[f])]
  /\ mf_pipe' = MF_Empty
  /\ UNCHANGED <<mf_stdio, mf_writing, mf_saved, mf_opens, mf_masked, mf_printed,
                 mf_string, mf_crossed>>

(* The first string of a file saves the mask and blocks SIGIO.             *)
MF_OpenString(f) ==
  /\ ~InWrite /\ mf_opens[f] < 2
  /\ mf_saved' = [mf_saved EXCEPT ![f] =
       IF @ # "none" THEN @ ELSE IF mf_masked THEN "blocked" ELSE "open"]
  /\ mf_masked' = (mf_masked \/ mf_saved[f] = "none")
  /\ mf_opens' = [mf_opens EXCEPT ![f] = @ + 1]
  /\ mf_string' = [mf_string EXCEPT ![f] = IF mf_opens[f] = 0 THEN mf_buffer[f] ELSE @]
  /\ UNCHANGED <<mf_stdio, mf_writing, mf_pipe, mf_buffer, mf_pending, mf_printed,
                 mf_crossed>>

(* The last string of a file puts the mask back that the file has saved.   *)
(* Mutant: any string does.                                                *)
MF_CloseAnyString(f) ==
  /\ ~InWrite /\ mf_opens[f] > 0
  /\ mf_opens' = [mf_opens EXCEPT ![f] = @ - 1]
  /\ mf_masked' = (mf_saved[f] = "blocked")
  /\ mf_saved' = [mf_saved EXCEPT ![f] = "none"]
  /\ UNCHANGED <<mf_stdio, mf_writing, mf_pipe, mf_buffer, mf_pending, mf_printed,
                 mf_string, mf_crossed>>

MF_CloseString(f) ==
  /\ ~InWrite /\ mf_opens[f] > 0
  /\ mf_opens' = [mf_opens EXCEPT ![f] = @ - 1]
  /\ IF mf_opens'[f] = 0 /\ mf_saved[f] # "none"
     THEN /\ mf_masked' = (mf_saved[f] = "blocked")
          /\ mf_saved' = [mf_saved EXCEPT ![f] = "none"]
          /\ mf_crossed' =
               {g \in MFFiles \ {f} :
                  g \in mf_crossed \/ (mf_saved[f] = "open" /\ mf_opens[g] > 0)}
     ELSE UNCHANGED <<mf_masked, mf_saved, mf_crossed>>
  /\ UNCHANGED <<mf_stdio, mf_writing, mf_pipe, mf_buffer, mf_pending, mf_printed,
                 mf_string>>

MF_Next ==
  \/ MF_Handler
  \/ \E f \in MFFiles : MF_Print(f) \/ MF_Put(f) \/ MF_OpenString(f) \/ MF_CloseString(f)

MF_Spec == MF_Init /\ [][MF_Next]_mf_vars
-----------------------------------------------------------------------------
Counted(n) == [i \in 1 .. n |-> i]

(* While a string of a file is open its buffer stays as it was, whatever   *)
(* is printed and whatever other files do with the mask, but for this:     *)
(* when the file that blocked SIGIO first closes its string before the     *)
(* others, it puts back a mask without SIGIO, and their strings no longer  *)
(* stand. In any order of calls what was printed is in the buffer, the     *)
(* pipe and the stream, each character once and in order; with a limit the *)
(* buffer holds its beginning. Characters in a pipe have a SIGIO under     *)
(* way: no text is stranded there, and a program that waits for room is    *)
(* woken as soon as SIGIO is not blocked.                                  *)
MF_StringStands ==
  \A f \in MFFiles :
    /\ (mf_opens[f] > 0 /\ f \notin mf_crossed) => (mf_buffer[f] = mf_string[f] /\ mf_masked)
    /\ IF MFLimit[f] = 0 \/ Len(mf_buffer[f]) < MFLimit[f]
       THEN mf_buffer[f] \o mf_pipe[f] \o mf_writing[f] \o mf_stdio[f]
              = Counted(mf_printed[f])
       ELSE mf_buffer[f] = Counted(MFLimit[f])
    /\ mf_pipe[f] # <<>> => mf_pending
    /\ mf_saved[f] = "none" <=> mf_opens[f] = 0
=============================================================================
