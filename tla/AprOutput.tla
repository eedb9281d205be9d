----------------------------- MODULE AprOutput ------------------------------
(***************************************************************************)
(* Text printed to a file or to a stream socket (jr_aprbuf.c, and the      *)
(* operations of jr_file.c and jr_socket.c that meet its buffer). Printed  *)
(* characters wait in a buffer; the formatter flushes it when it is full,  *)
(* a direct write, a flush, a close and a shutdown flush it first. A flush *)
(* hands over what the system takes, moves the rest to the front and       *)
(* reports success. Seek, truncate and read do not look at the buffer.     *)
(*                                                                         *)
(* The handle and the buffer are two things: closing forgets the handle,   *)
(* the buffer stays until the structure is undone. So text may still wait  *)
(* when the client does something else with the device: ab_met says what.  *)
(***************************************************************************)
EXTENDS Naturals, Sequences

CONSTANTS
  ABTexts,    \* what a call prints or writes
  ABSize,     \* characters the buffer holds
  ABCalls     \* bound on the calls of a behaviour

ABChars == UNION {{text[i] : i \in DOMAIN text} : text \in ABTexts}

ASSUME OutputAssumption ==
  /\ ABSize \in Nat \ {0}
  /\ ABTexts \subseteq Seq(ABChars)

VARIABLES
  ab_kind,    \* "file" or "socket"
  ab_open,    \* apr_file_ptr or apr_socket_ptr is set
  ab_buffer,  \* output_buffer up to curpos
  ab_device,  \* what the system has, and the place of the next byte
  ab_wanted,  \* what the calls the client was told of make, in their order,
              \* and the place they leave (history)
  ab_met,     \* what has met text that waited in the buffer (history)
  ab_printf,  \* the printf under way: wanted before it, inserted, left
  ab_count

ab_vars == <<ab_kind, ab_open, ab_buffer, ab_device, ab_wanted, ab_met,
             ab_printf, ab_count>>

(* Bytes written at the place, over what is there. A stream's place is its *)
(* end.                                                                    *)
Put(device, text) ==
  LET end == device.place + Len(text) IN
  [data |-> SubSeq(device.data, 1, device.place) \o text
              \o SubSeq(device.data, end + 1, Len(device.data)),
   place |-> end]

NewDevice == [data |-> <<>>, place |-> 0]
NoPrintf == [before |-> NewDevice, done |-> <<>>, left |-> <<>>]
AB_Idle == ab_printf.left = <<>>

AB_Init ==
  /\ ab_kind \in {"file", "socket"}
  /\ ab_open = FALSE
  /\ ab_buffer = <<>>
  /\ ab_device = NewDevice /\ ab_wanted = NewDevice /\ ab_met = {}
  /\ ab_printf = NoPrintf
  /\ ab_count = 0

AB_Call ==
  /\ AB_Idle /\ ab_count < ABCalls
  /\ ab_count' = ab_count + 1
  /\ UNCHANGED ab_kind

(* FlushTakesForgetful is the mutant that forgets what was not taken.         *)
(* A flush of n characters hands over k of them: all, or at least one. The *)
(* rest moves to the front of the buffer and the status is success.        *)
FlushTakesForgetful(k) ==
  /\ ab_device' = Put(ab_device, SubSeq(ab_buffer, 1, k))
  /\ ab_buffer' = <<>>
FlushTakes(k) ==
  /\ ab_device' = Put(ab_device, SubSeq(ab_buffer, 1, k))
  /\ ab_buffer' = SubSeq(ab_buffer, k + 1, Len(ab_buffer))
Taken == IF ab_buffer = <<>> THEN {0} ELSE 1 .. Len(ab_buffer)

(* What an operation leaves in the buffer it has met.                      *)
Meets(what) == ab_met' = IF ab_buffer' = <<>> THEN ab_met ELSE ab_met \cup {what}

(* Open. What the buffer holds of the file or connection before goes to    *)
(* the new one. An open file is closed first, without a flush.             *)
AB_Open ==
  /\ AB_Call /\ (ab_open => ab_kind = "file")
  /\ ab_open' = TRUE
  /\ ab_device' = NewDevice /\ ab_wanted' = NewDevice
  /\ UNCHANGED <<ab_buffer, ab_printf>>
  /\ Meets("open")

(* printf. A file that is not open is refused; a socket that is not open   *)
(* is refused by the write when the buffer is full.                        *)
AB_Printf ==
  /\ AB_Call /\ ab_open
  /\ \E text \in ABTexts :
       /\ ab_printf' = [before |-> ab_wanted, done |-> <<>>, left |-> text]
       /\ ab_wanted' = Put(ab_wanted, text)
  /\ UNCHANGED <<ab_open, ab_buffer, ab_device, ab_met>>

AB_Insert ==
  /\ ~AB_Idle /\ Len(ab_buffer) < ABSize
  /\ ab_buffer' = Append(ab_buffer, Head(ab_printf.left))
  /\ ab_printf' = [ab_printf EXCEPT !.done = Append(@, Head(ab_printf.left)),
                                    !.left = Tail(@)]
  /\ UNCHANGED <<ab_kind, ab_open, ab_device, ab_wanted, ab_met, ab_count>>

AB_MakeRoom ==
  /\ ~AB_Idle /\ Len(ab_buffer) = ABSize
  /\ \E k \in Taken : FlushTakes(k)
  /\ UNCHANGED <<ab_kind, ab_open, ab_wanted, ab_met, ab_printf, ab_count>>

(* The flush fails: printf reports the error, and the text up to there     *)
(* stays in the buffer or is already out.                                  *)
AB_PrintfFails ==
  /\ ~AB_Idle /\ Len(ab_buffer) = ABSize
  /\ ab_wanted' = Put(ab_printf.before, ab_printf.done)
  /\ ab_printf' = NoPrintf
  /\ UNCHANGED <<ab_kind, ab_open, ab_buffer, ab_device, ab_met, ab_count>>

AB_Flush ==
  /\ AB_Call /\ ab_open
  /\ \E k \in Taken : FlushTakes(k)
  /\ UNCHANGED <<ab_open, ab_wanted, ab_met, ab_printf>>

(* jr_file_write, jr_socket_send: the buffer is flushed, then the data go  *)
(* out, whether the flush has left something or not. The client learns how *)
(* many bytes were taken.                                                  *)
AB_Write ==
  /\ AB_Call /\ ab_open
  /\ \E k \in Taken, text \in ABTexts : \E n \in 1 .. Len(text) :
       LET rest == SubSeq(ab_buffer, k + 1, Len(ab_buffer))
           taken == SubSeq(text, 1, n) IN
       /\ ab_device' = Put(Put(ab_device, SubSeq(ab_buffer, 1, k)), taken)
       /\ ab_buffer' = rest
       /\ ab_wanted' = Put(ab_wanted, taken)
  /\ UNCHANGED <<ab_open, ab_printf>>
  /\ Meets("write")

(* The flush succeeds, wholly or in part, and the write itself fails.      *)
AB_WriteFails ==
  /\ AB_Call /\ ab_open
  /\ \E k \in Taken : FlushTakes(k)
  /\ UNCHANGED <<ab_open, ab_wanted, ab_met, ab_printf>>

(* jr_file_seek to the start, jr_file_truncate to nothing (by a client     *)
(* that is at the start: a hole is not modelled) and jr_file_read of one   *)
(* byte, if there is one: the buffer of printf is left alone.              *)
AB_Seek ==
  /\ AB_Call /\ ab_open /\ ab_kind = "file"
  /\ ab_device' = [ab_device EXCEPT !.place = 0]
  /\ ab_wanted' = [ab_wanted EXCEPT !.place = 0]
  /\ UNCHANGED <<ab_open, ab_buffer, ab_printf>>
  /\ Meets("place")

PassedOver(device) ==
  [device EXCEPT !.place = IF @ < Len(device.data) THEN @ + 1 ELSE @]
AB_Read ==
  /\ AB_Call /\ ab_open /\ ab_kind = "file"
  /\ ab_device' = PassedOver(ab_device) /\ ab_wanted' = PassedOver(ab_wanted)
  /\ UNCHANGED <<ab_open, ab_buffer, ab_printf>>
  /\ Meets("place")

AB_Truncate ==
  /\ AB_Call /\ ab_open /\ ab_kind = "file"
  /\ ab_device.place = 0 /\ ab_wanted.place = 0
  /\ ab_device' = NewDevice /\ ab_wanted' = NewDevice
  /\ UNCHANGED <<ab_open, ab_buffer, ab_printf>>
  /\ Meets("place")

(* Close: flush, close, and forget the handle whatever has failed. What    *)
(* the flush has left, or all of it when it fails, stays in the buffer.    *)
AB_Close ==
  /\ AB_Call /\ ab_open
  /\ \E k \in Taken \cup {0} : FlushTakes(k)
  /\ ab_open' = FALSE
  /\ UNCHANGED <<ab_wanted, ab_met, ab_printf>>

(* Undo and a new initialisation: text in the buffer is dropped.           *)
AB_Undo ==
  /\ AB_Call
  /\ ab_open' = FALSE
  /\ ab_buffer' = <<>>
  /\ ab_device' = NewDevice /\ ab_wanted' = NewDevice /\ ab_met' = {}
  /\ UNCHANGED ab_printf

AB_Next ==
  \/ AB_Open \/ AB_Printf \/ AB_Insert \/ AB_MakeRoom \/ AB_PrintfFails
  \/ AB_Flush \/ AB_Write \/ AB_WriteFails
  \/ AB_Seek \/ AB_Read \/ AB_Truncate \/ AB_Close \/ AB_Undo

AB_Spec == AB_Init /\ [][AB_Next]_ab_vars
-----------------------------------------------------------------------------
(* What the device has, then what waits in the buffer, then what printf    *)
(* has still to insert.                                                    *)
AB_Outcome == Put(ab_device, ab_buffer \o ab_printf.left)

(* As long as no direct write, seek, read, truncation or reopening has met *)
(* text in the buffer, the device gets what the client was told, each byte *)
(* once and in its place, however the flushes were cut and whatever        *)
(* failed. Whatever has met it, no byte that a client of a socket was told *)
(* of is lost, and the buffer never overflows.                             *)
AB_Arrives ==
  /\ Len(ab_buffer) <= ABSize
  /\ ab_met = {} => AB_Outcome = ab_wanted
  /\ ab_kind = "socket" => Len(AB_Outcome.data) >= Len(ab_wanted.data)

(* Direct writes and printf may be combined at will, as jr_file.c:542 and  *)
(* jr_socket.c:926 say: the text comes in the order of the calls. It does  *)
(* not: after a flush that was taken in part the direct write goes on, and *)
(* its data come before the rest of the text that was printed first.       *)
AB_AnyCombination ==
  ab_met \subseteq {"write"} => AB_Outcome = ab_wanted

(* Texts for the run of this module alone.                                 *)
AB_ShortTexts == {<<"a">>, <<"b", "c">>}
=============================================================================
