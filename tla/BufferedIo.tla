----------------------------- MODULE BufferedIo -----------------------------
(***************************************************************************)
(* Lines, strings of a known length and blocks out of raw reads that cut   *)
(* the input anywhere (bufio.c). data_ptr shows what is left of the last   *)
(* raw read; data_buffer keeps what a line or string under way took from   *)
(* earlier reads, and stays when the call fails.                           *)
(***************************************************************************)
EXTENDS Naturals, Sequences

CONSTANTS
  BISource,     \* the characters of the input: "nl", "cr" and others
  BILengths     \* lengths asked of GetString and Read

ASSUME BufferedIoAssumption ==
  BISource \in Seq({BISource[i] : i \in DOMAIN BISource}) /\ BILengths \subseteq Nat

VARIABLES
  bi_input,     \* what the raw reads have still to deliver
  bi_chunk,     \* data_ptr, data_length
  bi_before,    \* the character in memory before data_ptr
  bi_kept,      \* data_buffer
  bi_call,      \* the call under way: [op |-> ...]
  bi_out,       \* what was handed out, the ends of lines included (history)
  bi_lines,     \* the lines handed out (history)
  bi_from       \* where in the input bi_out begins (history)

bi_vars == <<bi_input, bi_chunk, bi_before, bi_kept, bi_call, bi_out, bi_lines, bi_from>>

NoCall == [op |-> "none", n |-> 0]

BI_Init ==
  /\ bi_input = BISource
  /\ bi_chunk = <<>> /\ bi_before = "other"
  /\ bi_kept = <<>>
  /\ bi_call = NoCall
  /\ bi_out = <<>> /\ bi_lines = {}
  /\ bi_from = 0

First(text, n) == SubSeq(text, 1, n)
After(text, n) == SubSeq(text, n + 1, Len(text))

HandOut(text) == bi_out' = bi_out \o text
Advance(n) ==
  /\ bi_chunk' = After(bi_chunk, n)
  /\ bi_before' = IF n = 0 THEN bi_before ELSE bi_chunk[n]

(* A line is refused while a failed call's text is in the buffer.          *)
BI_GetLine ==
  /\ bi_call = NoCall /\ bi_kept = <<>>
  /\ bi_call' = [op |-> "line", n |-> 0]
  /\ UNCHANGED <<bi_input, bi_chunk, bi_before, bi_kept, bi_out, bi_lines, bi_from>>

(* A string is taken from a failed call's text when that is longer. When   *)
(* it is exactly as long, it is extracted and the loop goes on without it: *)
(* nobody gets these characters, and bi_out begins anew behind them.       *)
BI_GetString ==
  /\ bi_call = NoCall
  /\ \E n \in BILengths :
       \/ /\ Len(bi_kept) > n
          /\ HandOut(First(bi_kept, n))
          /\ bi_kept' = After(bi_kept, n)
          /\ UNCHANGED <<bi_call, bi_from>>
       \/ /\ Len(bi_kept) = n
          /\ bi_kept' = <<>>
          /\ bi_call' = [op |-> "string", n |-> n]
          /\ bi_from' = IF n = 0 THEN bi_from ELSE bi_from + Len(bi_out) + n
          /\ bi_out' = IF n = 0 THEN bi_out ELSE <<>>
       \/ /\ Len(bi_kept) < n
          /\ bi_call' = [op |-> "string", n |-> n]
          /\ UNCHANGED <<bi_kept, bi_out, bi_from>>
  /\ UNCHANGED <<bi_input, bi_chunk, bi_before, bi_lines>>

(* The loops ask for more when the chunk is used up. What the memory in    *)
(* front of a new chunk holds is up to the raw read.                       *)
BI_Refill ==
  /\ bi_call # NoCall /\ bi_call.op # "dead" /\ bi_chunk = <<>>
  /\ \E k \in 1 .. Len(bi_input) :
       /\ bi_chunk' = First(bi_input, k)
       /\ bi_input' = After(bi_input, k)
  /\ bi_before' \in {"cr", "other"}
  /\ UNCHANGED <<bi_kept, bi_call, bi_out, bi_lines, bi_from>>

(* The raw read fails, or has nothing: the rest is then the last line; a   *)
(* string fails, and what it took stays in the buffer.                     *)
BI_Fails ==
  /\ bi_call # NoCall /\ bi_call.op # "dead" /\ bi_chunk = <<>>
  /\ bi_call' = NoCall
  /\ UNCHANGED <<bi_input, bi_chunk, bi_before, bi_kept, bi_out, bi_lines, bi_from>>

BI_LastLine ==
  /\ bi_call.op = "line" /\ bi_chunk = <<>> /\ bi_kept # <<>>
  /\ HandOut(bi_kept)
  /\ bi_lines' = bi_lines \cup {bi_kept}
  /\ bi_kept' = <<>>
  /\ bi_call' = NoCall
  /\ UNCHANGED <<bi_input, bi_chunk, bi_before, bi_from>>

(* The place of the first newline of the chunk, 0 when it has none.        *)
Newline ==
  IF \E i \in DOMAIN bi_chunk : bi_chunk[i] = "nl"
  THEN CHOOSE i \in DOMAIN bi_chunk :
         bi_chunk[i] = "nl" /\ \A j \in 1 .. i - 1 : bi_chunk[j] # "nl"
  ELSE 0

(* The character before the newline is looked at, in the chunk or not. A   *)
(* "cr" there that was handed out before makes the length -1: the copy of  *)
(* so many bytes ends the process.                                         *)
BI_LineEnds ==
  /\ bi_call.op = "line" /\ bi_chunk # <<>> /\ Newline > 0
  /\ LET previous == IF Newline = 1 THEN bi_before ELSE bi_chunk[Newline - 1]
         length == IF previous = "cr" /\ Newline > 1 THEN Newline - 2 ELSE Newline - 1
         line == bi_kept \o First(bi_chunk, length) IN
     IF Newline = 1 /\ previous = "cr" /\ bi_kept = <<>>
     THEN /\ bi_call' = [op |-> "dead", n |-> 0]
          /\ UNCHANGED <<bi_chunk, bi_before, bi_kept, bi_out, bi_lines>>
     ELSE /\ HandOut(line \o SubSeq(bi_chunk, length + 1, Newline))
          /\ bi_lines' = bi_lines \cup {line}
          /\ bi_kept' = <<>>
          /\ Advance(Newline)
          /\ bi_call' = NoCall
  /\ UNCHANGED <<bi_input, bi_from>>

(* Mutant: the characters of the chunk replace what was kept.              *)
BI_GoesOnAnew ==
  /\ \/ bi_call.op = "line" /\ Newline = 0
     \/ bi_call.op = "string" /\ Len(bi_kept) + Len(bi_chunk) < bi_call.n
  /\ bi_chunk # <<>>
  /\ bi_kept' = bi_chunk
  /\ Advance(Len(bi_chunk))
  /\ UNCHANGED <<bi_input, bi_call, bi_out, bi_lines, bi_from>>

BI_GoesOn ==
  /\ \/ bi_call.op = "line" /\ Newline = 0
     \/ bi_call.op = "string" /\ Len(bi_kept) + Len(bi_chunk) < bi_call.n
  /\ bi_chunk # <<>>
  /\ bi_kept' = bi_kept \o bi_chunk
  /\ Advance(Len(bi_chunk))
  /\ UNCHANGED <<bi_input, bi_call, bi_out, bi_lines, bi_from>>

BI_StringEnds ==
  /\ bi_call.op = "string" /\ bi_chunk # <<>>
  /\ Len(bi_kept) + Len(bi_chunk) >= bi_call.n
  /\ HandOut(bi_kept \o First(bi_chunk, bi_call.n - Len(bi_kept)))
  /\ Advance(bi_call.n - Len(bi_kept))
  /\ bi_kept' = <<>>
  /\ bi_call' = NoCall
  /\ UNCHANGED <<bi_input, bi_lines, bi_from>>

(* jr_BufferedIoRead with a maximum, 0 for none: the text of a failed call *)
(* whatever its length, else of the chunk, else of one raw read, which may *)
(* deliver more than the maximum.                                          *)
Least(n, text) == IF n > 0 /\ Len(text) > n THEN n ELSE Len(text)

BI_Read ==
  /\ bi_call = NoCall
  /\ \E n \in BILengths :
       \/ /\ bi_kept # <<>>
          /\ HandOut(bi_kept)
          /\ bi_kept' = <<>>
          /\ UNCHANGED <<bi_input, bi_chunk, bi_before>>
       \/ /\ bi_kept = <<>> /\ bi_chunk # <<>>
          /\ HandOut(First(bi_chunk, Least(n, bi_chunk)))
          /\ Advance(Least(n, bi_chunk))
          /\ UNCHANGED <<bi_input, bi_kept>>
       \/ /\ bi_kept = <<>> /\ bi_chunk = <<>>
          /\ \E k \in 1 .. Len(bi_input) :
               LET chunk == First(bi_input, k)  taken == Least(n, chunk) IN
               /\ HandOut(First(chunk, taken))
               /\ bi_chunk' = After(chunk, taken)
               /\ bi_before' = chunk[taken]
               /\ bi_input' = After(bi_input, k)
          /\ UNCHANGED bi_kept
  /\ UNCHANGED <<bi_call, bi_lines, bi_from>>

BI_Next ==
  \/ BI_GetLine \/ BI_GetString \/ BI_Refill \/ BI_Fails \/ BI_LastLine
  \/ BI_LineEnds \/ BI_GoesOn \/ BI_StringEnds \/ BI_Read

BI_Spec == BI_Init /\ [][BI_Next]_bi_vars
-----------------------------------------------------------------------------
(* Whether the raw reads cut the input between two characters, of the end  *)
(* of a line too, and whichever calls fail on the way: behind the last     *)
(* string that GetString extracts and drops, what was handed out, what the *)
(* buffer keeps, what the chunk still holds and what is to come are the    *)
(* input, each character once and in order; and no line holds a newline.   *)
BI_InOrder ==
  /\ bi_out \o bi_kept \o bi_chunk \o bi_input = After(BISource, bi_from)
  /\ \A line \in bi_lines : \A i \in DOMAIN line : line[i] # "nl"

=============================================================================
