------------------------------- MODULE Filter -------------------------------
(***************************************************************************)
(* A string sent through a command (src/libjr/syscalls/invkfilt.c), which  *)
(* is started with a pipe to its standard input and one from its standard  *)
(* output (jr_InvokeCommandVector of invoke.c). The caller writes a line,  *)
(* and then reads without waiting what the command has written so far.     *)
(*                                                                         *)
(* What follows the last line is never written. When all lines are, the    *)
(* caller closes its end of the output and not that of the input, so its   *)
(* next read fails, and the command is killed: no call returns a string.   *)
(*                                                                         *)
(* The command and the pipes are external. The command copies: it holds    *)
(* some of what it has read before it writes it, and may end at any time.  *)
(* Data are counted.                                                       *)
(***************************************************************************)
EXTENDS Integers

CONSTANTS
  FI_Capacity,     \* of a pipe
  FI_Backlog,      \* what the command holds at most
  FI_MaxLine,      \* length of a line
  FI_MaxLines      \* bound of the lines

ASSUME FilterAssumption ==
  /\ FI_Capacity \in Nat \ {0} /\ FI_Backlog \in Nat \ {0}
  /\ FI_MaxLine \in Nat \ {0} /\ FI_MaxLines \in Nat
  /\ FI_MaxLine + FI_Backlog <= FI_Capacity + 1

VARIABLES
  fi_step,         \* where the caller is
  fi_lines,        \* lines begun
  fi_left,         \* of the line: what is still to be written
  fi_in,           \* in the pipe to the command
  fi_held,         \* in the command
  fi_out,          \* in the pipe from the command
  fi_command,      \* state of the command
  fi_open          \* descriptors of the caller

fi_vars == <<fi_step, fi_lines, fi_left, fi_in, fi_held, fi_out, fi_command, fi_open>>

Input == {"in_child", "in_caller"}       \* fd_array[0], fd_array[1]
Output == {"out_caller", "out_child"}    \* fd_array[2], fd_array[3]
Live == {"reading", "writing"}
Ended == {"exited", "signalled"}

NoData == fi_in = 0 /\ fi_held = 0 /\ fi_out = 0
SameData == UNCHANGED <<fi_in, fi_held, fi_out>>

FI_Init ==
  /\ fi_step = "pipes" /\ fi_lines = 0 /\ fi_left = 0
  /\ NoData
  /\ fi_command = "none" /\ fi_open = {}

-----------------------------------------------------------------------------
(* jr_InvokeCommandVector. When the second pipe cannot be opened the first *)
(* one stays open; return_bad closes two descriptors of four, and those of *)
(* the files that were opened.                                             *)

FI_Pipes ==
  /\ fi_step = "pipes"
  /\ \/ fi_open' = {} /\ fi_step' = "done"
     \/ fi_open' = Input /\ fi_step' = "done"
     \/ fi_open' = Input \cup Output /\ fi_step' = "fork"
  /\ UNCHANGED <<fi_lines, fi_left, fi_command>> /\ SameData

FI_Fork ==
  /\ fi_step = "fork"
  /\ \/ fi_open' = Output /\ fi_step' = "done" /\ UNCHANGED fi_command
     \/ /\ fi_command' = "reading"
        /\ fi_open' = {"in_caller", "out_caller"} /\ fi_step' = "next"
     \/ /\ fi_command' = "reaped"                  \* no memory for the first FILE
        /\ fi_open' = Output /\ fi_step' = "done"
     \/ /\ fi_command' = "reaped"                  \* or for the second
        /\ fi_open' = {"out_caller"} /\ fi_step' = "done"
  /\ UNCHANGED <<fi_lines, fi_left>> /\ SameData

-----------------------------------------------------------------------------
(* jr_NewStringFilteredFromCommandVector.                                  *)

Caller == UNCHANGED <<fi_command>>

FI_NextLine ==
  /\ fi_step = "next" /\ fi_lines < FI_MaxLines
  /\ fi_left' \in 1 .. FI_MaxLine
  /\ fi_lines' = fi_lines + 1 /\ fi_step' = "write"
  /\ UNCHANGED fi_open /\ SameData /\ Caller

(* write goes on whenever there is room. It kills the caller when the      *)
(* command has ended, or fails when SIGPIPE is ignored.                    *)
FI_Write ==
  /\ fi_step = "write"
  /\ IF fi_command \in Live
     THEN /\ fi_in < FI_Capacity
          /\ fi_in' = fi_in + 1 /\ fi_left' = fi_left - 1
          /\ fi_step' = IF fi_left = 1 THEN "drain" ELSE "write"
     ELSE fi_step' \in {"killed", "bad"} /\ UNCHANGED <<fi_in, fi_left>>
  /\ UNCHANGED <<fi_lines, fi_held, fi_out, fi_open>> /\ Caller

(* Mutant: the output is left in the pipe until the end.                   *)
FI_DrainAtEnd ==
  /\ fi_step = "drain"
  /\ fi_step' = "next"
  /\ UNCHANGED <<fi_lines, fi_left, fi_open>> /\ SameData /\ Caller

(* The read loop: what is there, until there is nothing, or an error.      *)
FI_Drain ==
  /\ fi_step = "drain"
  /\ \/ fi_out > 0 /\ fi_out' = 0 /\ UNCHANGED fi_step
     \/ fi_out = 0 /\ fi_step' \in {"next", "bad"} /\ UNCHANGED fi_out
  /\ UNCHANGED <<fi_lines, fi_left, fi_in, fi_held, fi_open>> /\ Caller

(* "send eof to command"; the read that follows is from a descriptor that  *)
(* is closed.                                                              *)
FI_SendEof ==
  /\ fi_step = "next"
  /\ fi_open' = fi_open \ {"out_caller"} /\ fi_step' = "bad"
  /\ UNCHANGED <<fi_lines, fi_left>> /\ SameData /\ Caller

FI_Kill ==
  /\ fi_step = "bad"
  /\ fi_command' = IF fi_command \in Live THEN "signalled" ELSE fi_command
  /\ fi_step' = "wait"
  /\ UNCHANGED <<fi_lines, fi_left, fi_open>> /\ SameData

FI_Wait ==
  /\ fi_step = "wait" /\ fi_command \in Ended
  /\ fi_command' = "reaped" /\ fi_step' = "done"
  /\ fi_open' = fi_open \ {"in_caller"}
  /\ UNCHANGED <<fi_lines, fi_left>> /\ SameData

-----------------------------------------------------------------------------
(* The command.                                                            *)

Command == UNCHANGED <<fi_step, fi_lines, fi_left, fi_open>>

FI_Read ==
  /\ fi_command = "reading" /\ fi_in > 0 /\ fi_held < FI_Backlog
  /\ fi_in' = fi_in - 1 /\ fi_held' = fi_held + 1
  /\ UNCHANGED <<fi_out, fi_command>> /\ Command

FI_Flush ==
  /\ fi_command = "reading" /\ fi_held > 0
  /\ fi_command' = "writing"
  /\ SameData /\ Command

FI_Put ==
  /\ fi_command = "writing" /\ fi_out < FI_Capacity
  /\ IF "out_caller" \in fi_open
     THEN /\ fi_out' = fi_out + 1 /\ fi_held' = fi_held - 1
          /\ fi_command' = IF fi_held = 1 THEN "reading" ELSE "writing"
     ELSE fi_command' = "signalled" /\ UNCHANGED <<fi_out, fi_held>>
  /\ UNCHANGED fi_in /\ Command

(* It ends, with the end of its input or before.                           *)
FI_Exit ==
  /\ fi_command = "reading"
  /\ fi_command' = "exited"
  /\ SameData /\ Command

FI_Next ==
  \/ FI_Pipes \/ FI_Fork \/ FI_NextLine \/ FI_Write \/ FI_Drain \/ FI_SendEof
  \/ FI_Kill \/ FI_Wait
  \/ FI_Read \/ FI_Flush \/ FI_Put \/ FI_Exit

FI_Spec == FI_Init /\ [][FI_Next]_fi_vars

-----------------------------------------------------------------------------
CallerBlocked == fi_step = "write" /\ fi_command \in Live /\ fi_in = FI_Capacity
CommandBlocked == fi_command = "writing" /\ fi_out = FI_Capacity

(* Caller and command never wait for one another, each to write into a     *)
(* pipe that the other one does not read: reading once after every line is *)
(* enough as long as a line and what the command holds back fit into a     *)
(* pipe, however the two are scheduled. The assumption says so; a longer   *)
(* line can stop both for ever. And the function never returns before the  *)
(* command it started was waited for.                                      *)
FI_NeverStuck ==
  /\ ~(CallerBlocked /\ CommandBlocked)
  /\ fi_step = "done" => fi_command \in {"none", "reaped"}
=============================================================================
