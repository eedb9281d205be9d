------------------------------- MODULE Lines --------------------------------
(***************************************************************************)
(* Text kept by lines: the buffer of the last lines, and paragraphs. The   *)
(* two halves share no state.                                              *)
(***************************************************************************)
EXTENDS Integers, Sequences, SequencesExt, FiniteSets, TLC

(***************************************************************************)
(* The line buffer of src/libjr/struct/linebuf.c: a current line that is   *)
(* written character by character, and the last lines before it, line l in *)
(* slot l % max_lines. A program goes forward, back to a line the buffer   *)
(* may still have, and prints a range of lines with numbers.               *)
(*                                                                         *)
(* lb_written is the history: the text each line had when it was left, from *)
(* lb_oldest on, the first line the buffer still has to know.              *)
(***************************************************************************)

CONSTANTS
  LB_MaxSize,      \* max_size of the buffer, 256 or more in the code
  LB_MaxLines,     \* max_lines of the buffer
  LB_CopySize,     \* max_size of the buffer it is copied to
  LB_CopyLines,    \* max_lines of the buffer it is copied to
  LB_TabStops,
  LB_Strings,      \* what the client adds: sequences of characters
  LB_LastLine      \* bound of the line numbers the client uses

ASSUME LineBufferAssumption ==
  /\ LB_MaxSize \in Nat \ {0} /\ LB_CopySize \in Nat \ {0}
  /\ LB_MaxLines \in Nat \ {0} /\ LB_CopyLines \in Nat \ {0}
  /\ LB_TabStops \in Nat \ {0} /\ LB_LastLine \in Nat

VARIABLES lb, lb_copy, lb_written, lb_oldest, lb_crashed

lb_vars == <<lb, lb_copy, lb_written, lb_oldest, lb_crashed>>

NUL == "nul"
Tab == "tab"
Blank == "blank"
NoText == <<"no text">>     \* a null pointer in prev_buffers
LB_Lines == 1 .. LB_LastLine

(* The characters of a line up to the NUL.                                 *)
LB_Text(b) ==
  LET end == CHOOSE n \in 0 .. b.max_size - 1 :
               b.buffer[n] = NUL /\ \A m \in 0 .. n - 1 : b.buffer[m] # NUL
  IN [n \in 1 .. end |-> b.buffer[n - 1]]

LB_Slot(b, line) == line % b.max_lines

-----------------------------------------------------------------------------
(* Functions on a buffer.                                                  *)

LB_LineBufferReset(b, line) ==
  [b EXCEPT !.line = line, !.column = 0, !.buffer[0] = NUL,
            !.prev_lines = [i \in DOMAIN @ |-> 0],
            !.prev_buffers = [i \in DOMAIN @ |-> NoText]]

LB_LineBufferInit(max_size, max_lines) ==
  LB_LineBufferReset(
    [line |-> 0, column |-> 0, max_size |-> max_size, max_lines |-> max_lines,
     buffer |-> [n \in 0 .. max_size - 1 |-> NUL],
     prev_lines |-> [i \in 0 .. max_lines - 1 |-> 0],
     prev_buffers |-> [i \in 0 .. max_lines - 1 |-> NoText]], 1)

(* A character that does not fit is dropped.                               *)
LB_PutChar(b, c) ==
  IF b.column < b.max_size - 1
  THEN [b EXCEPT !.buffer = [@ EXCEPT ![b.column] = c, ![b.column + 1] = NUL],
                 !.column = @ + 1]
  ELSE b

LB_Blanks(b, n) ==
  LET put[i \in 0 .. n] == IF i = 0 THEN b ELSE LB_PutChar(put[i - 1], Blank)
  IN IF n <= 0 THEN b ELSE put[n]

LB_AddChar(b, c) ==
  IF c = Tab THEN LB_Blanks(b, LB_TabStops - (b.column % LB_TabStops))
             ELSE LB_PutChar(b, c)

LB_SetPreviousLine(b, line, text) ==
  [b EXCEPT !.prev_lines[LB_Slot(b, line)] = line,
            !.prev_buffers[LB_Slot(b, line)] = text]

LB_SetCurrentColumn(b, column) ==
  IF column < b.max_size THEN [b EXCEPT !.column = column, !.buffer[column] = NUL] ELSE b

(* Mutant: the last of the skipped lines is left out.                      *)
LB_ForwardShort(b, line) ==
  LET kept == LB_SetPreviousLine(b, b.line, LB_Text(b))
  IN [kept EXCEPT !.line = line, !.column = 0, !.buffer[0] = NUL]

(* Forward: the current line is kept, and the lines in between are empty;  *)
(* when more lines are skipped than there are slots, all slots are for     *)
(* empty ones.                                                             *)
LB_Forward(b, line) ==
  LET far   == line - b.line > b.max_lines
      kept  == IF far THEN b ELSE LB_SetPreviousLine(b, b.line, LB_Text(b))
      first == IF far THEN line - b.max_lines ELSE b.line + 1
      skipped(i) == {l \in first .. line - 1 : LB_Slot(b, l) = i}
  IN [kept EXCEPT
        !.prev_lines = [i \in DOMAIN @ |->
           IF skipped(i) = {} THEN @[i] ELSE CHOOSE l \in skipped(i) : TRUE],
        !.prev_buffers = [i \in DOMAIN @ |-> IF skipped(i) = {} THEN @[i] ELSE NoText],
        !.line = line, !.column = 0, !.buffer[0] = NUL]

LB_HasLine(b, line) == b.prev_lines[LB_Slot(b, line)] = line

(* Back: a line that is not there starts the buffer anew. A line that is   *)
(* there becomes the current one, and it and the later ones are forgotten. *)
LB_Back(b, line) ==
  IF ~LB_HasLine(b, line) THEN LB_LineBufferReset(b, line)
  ELSE LET text == b.prev_buffers[LB_Slot(b, line)]
           later == {LB_Slot(b, l) : l \in line .. b.line - 1}
       IN [b EXCEPT
             !.buffer = [n \in DOMAIN @ |->
                IF n < Len(text) THEN text[n + 1] ELSE IF n = Len(text) THEN NUL ELSE @[n]],
             !.line = line, !.column = Len(text),
             !.prev_lines = [i \in DOMAIN @ |-> IF i \in later THEN 0 ELSE @[i]],
             !.prev_buffers = [i \in DOMAIN @ |-> IF i \in later THEN NoText ELSE @[i]]]

(* A line that was only skipped has no text: it is copied from a null      *)
(* pointer.                                                                *)
LB_CopiesNull(b, line) ==
  line < b.line /\ LB_HasLine(b, line) /\ b.prev_buffers[LB_Slot(b, line)] = NoText

LB_SetCurrentLine(b, line) ==
  IF line > b.line THEN LB_Forward(b, line)
  ELSE IF line < b.line THEN LB_Back(b, line) ELSE b

(* The text of an addition, with blanks up to the column or, when the line *)
(* is there already, one before and one behind.                            *)
LB_AddToLine(b, str, desired_column) ==
  LET behind == desired_column <= b.column
      spaced == IF behind /\ b.column > 0 /\ b.buffer[b.column - 1] # Blank
                THEN LB_PutChar(b, Blank) ELSE b
      placed == IF behind THEN spaced ELSE LB_Blanks(b, desired_column - (b.column + 1))
      put[i \in 0 .. Len(str)] ==
        IF i = 0 THEN placed ELSE LB_AddChar(put[i - 1], str[i])
  IN IF behind THEN LB_PutChar(put[Len(str)], Blank) ELSE put[Len(str)]

LB_Earlier(a, b) == IF a < b THEN a ELSE b

(* The current line is cut to what the other buffer holds; lines before it *)
(* are copied whole.                                                       *)
LB_LineBufferCopy(dest, src) ==
  LET text == LB_Text(src)
      set[i \in 0 .. dest.max_lines] ==
        IF i = 0
        THEN [dest EXCEPT
                !.line = src.line,
                !.column = LB_Earlier(src.column, dest.max_size - 1),
                !.buffer = [n \in DOMAIN @ |->
                   IF n < LB_Earlier(Len(text), dest.max_size - 1) THEN text[n + 1] ELSE NUL]]
        ELSE IF i <= src.max_lines
        THEN LB_SetPreviousLine(set[i - 1], src.prev_lines[i - 1], src.prev_buffers[i - 1])
        ELSE LB_SetPreviousLine(set[i - 1], 0, NoText)
  IN set[dest.max_lines]

(* jr_LB_sprint_lines: the lines printed, with the number each is given;   *)
(* the first line the buffer has is found from the slot of the oldest on.  *)
LB_FirstLine(b) ==
  LET at(i) == b.prev_lines[(LB_Slot(b, b.line) + i) % b.max_lines]
      used  == {i \in 0 .. b.max_lines - 1 : at(i) # 0}
  IN IF used = {} THEN b.line ELSE at(CHOOSE i \in used : \A j \in used : i <= j)

LB_PrintedLine(b, l) ==
  IF l = b.line THEN <<l, LB_Text(b)>>
  ELSE <<b.prev_lines[LB_Slot(b, l)],
         IF b.prev_buffers[LB_Slot(b, l)] = NoText THEN <<>>
         ELSE b.prev_buffers[LB_Slot(b, l)]>>

LB_sprint_lines(b, start_line, end_line) ==
  LET last == IF end_line = 0 \/ end_line > b.line THEN b.line ELSE end_line
      from == IF start_line < LB_FirstLine(b) THEN LB_FirstLine(b) ELSE start_line
  IN IF b.line < start_line \/ LB_FirstLine(b) > last THEN <<>>
     ELSE [n \in 1 .. last - from + 1 |-> LB_PrintedLine(b, from + n - 1)]

-----------------------------------------------------------------------------
(* The client, and the history.                                            *)

LB_Later(a, b) == IF a > b THEN a ELSE b

(* What the buffer is copied to.                                           *)
LB_NewCopy == LB_LineBufferInit(LB_CopySize, LB_CopyLines)

LB_Init ==
  /\ lb = LB_LineBufferInit(LB_MaxSize, LB_MaxLines)
  /\ lb_copy = LB_NewCopy
  /\ lb_written = [l \in LB_Lines |-> <<>>]
  /\ lb_oldest = 1
  /\ lb_crashed = FALSE

(* What the history is after the current line was left for another one.    *)
LB_Record(line) ==
  LET oldest == IF line > lb.line THEN LB_Later(lb_oldest, line - lb.max_lines)
                ELSE IF line < lb_oldest THEN line ELSE lb_oldest
  IN /\ lb_oldest' = oldest
     /\ lb_written' = [l \in LB_Lines |->
          IF l < oldest THEN <<>>
          ELSE IF line > lb.line THEN IF l = lb.line THEN LB_Text(lb) ELSE lb_written[l]
          ELSE IF line < lb.line /\ l >= line THEN <<>> ELSE lb_written[l]]

LB_DoSetCurrentLine ==
  \E line \in LB_Lines :
    /\ lb_crashed' = LB_CopiesNull(lb, line)
    /\ IF LB_CopiesNull(lb, line) THEN UNCHANGED <<lb, lb_oldest, lb_written>>
       ELSE lb' = LB_SetCurrentLine(lb, line) /\ LB_Record(line)
    /\ UNCHANGED lb_copy

LB_AddString ==
  \E str \in LB_Strings, asked \in LB_Lines, desired_column \in 0 .. LB_MaxSize :
    LET line == LB_Later(asked, lb.line)
    IN /\ lb' = LB_AddToLine(LB_SetCurrentLine(lb, line), str, desired_column)
       /\ LB_Record(line)
       /\ UNCHANGED <<lb_copy, lb_crashed>>

LB_DoSetCurrentColumn ==
  /\ \E column \in 0 .. LB_MaxSize : lb' = LB_SetCurrentColumn(lb, column)
  /\ UNCHANGED <<lb_copy, lb_written, lb_oldest, lb_crashed>>

LB_Reset ==
  \E line \in LB_Lines :
    /\ lb' = LB_LineBufferReset(lb, line)
    /\ lb_written' = [l \in LB_Lines |-> <<>>]
    /\ lb_oldest' = line
    /\ UNCHANGED <<lb_copy, lb_crashed>>

(* The copy is made to a new buffer, and looked at before the original     *)
(* goes on.                                                                *)
LB_Copy ==
  /\ lb_copy' = LB_LineBufferCopy(LB_NewCopy, lb)
  /\ UNCHANGED <<lb, lb_written, lb_oldest, lb_crashed>>

LB_Drop ==
  /\ lb_copy' = LB_NewCopy
  /\ UNCHANGED <<lb, lb_written, lb_oldest, lb_crashed>>

LB_CopyIsNew == lb_copy = LB_NewCopy

LB_Next ==
  /\ ~lb_crashed
  /\ IF LB_CopyIsNew
     THEN LB_DoSetCurrentLine \/ LB_AddString \/ LB_DoSetCurrentColumn \/ LB_Reset \/ LB_Copy
     ELSE LB_Drop

LB_Spec == LB_Init /\ [][LB_Next]_lb_vars

-----------------------------------------------------------------------------
(* Whatever range is asked for, jr_LB_sprint_lines prints the lines of it  *)
(* from the oldest the buffer has to know, none missing and none twice,    *)
(* with their numbers and with the text they had when they were left; and  *)
(* a line a copy has is the line of the original, the current one cut to   *)
(* the size of the copy, which goes on behind what it has.                 *)
LB_PrintsLines ==
  /\ \A s \in 0 .. LB_LastLine, e \in 0 .. LB_LastLine :
       (e = 0 \/ s <= e) =>
         LB_sprint_lines(lb, s, e) =
           LET last == IF e = 0 \/ e > lb.line THEN lb.line ELSE e
               from == LB_Later(s, lb_oldest)
           IN [n \in 1 .. last - from + 1 |->
                <<from + n - 1,
                  IF from + n - 1 = lb.line THEN LB_Text(lb) ELSE lb_written[from + n - 1]>>]
  /\ ~LB_CopyIsNew =>
       /\ lb_copy.line = lb.line
       /\ LB_Text(lb_copy) =
            SubSeq(LB_Text(lb), 1, LB_Earlier(Len(LB_Text(lb)), LB_CopySize - 1))
       /\ Len(LB_Text(lb)) = lb.column => Len(LB_Text(lb_copy)) = lb_copy.column
       /\ \A i \in 0 .. LB_CopyLines - 1 :
            lb_copy.prev_lines[i] # 0 =>
              LB_PrintedLine(lb_copy, lb_copy.prev_lines[i]) =
              LB_PrintedLine(lb, lb_copy.prev_lines[i])

-----------------------------------------------------------------------------
(***************************************************************************)
(* Paragraphs read from an input buffer (paragrph.c). A paragraph is its   *)
(* first line and the lines behind it, until a line shows that another one *)
(* has begun; that line was read already, is put back on the input, and    *)
(* taken off the paragraph.                                                *)
(*                                                                         *)
(* A text is a sequence of characters; "nl" is the end of a line, "\\"     *)
(* escapes it, and a line that begins with "#" is a comment.               *)
(***************************************************************************)

CONSTANTS
  PG_Lines,      \* what a line of input may be
  PG_MaxLines,   \* lines of input
  PG_Flags,      \* sets of flags that readers are given
  PG_Indent      \* the indentation that "less" and "greater" compare with

VARIABLES
  pg_flags,      \* what ends a paragraph, and whether indentation is preserved
  pg_text,       \* the whole input, as it was given
  pg_input,      \* what is still to be read
  pg_returned,   \* the paragraphs returned
  pg_ended       \* no paragraph was returned by the last call

pg_vars == <<pg_flags, pg_text, pg_input, pg_returned, pg_ended>>

PG_Init ==
  /\ pg_flags \in PG_Flags
  /\ pg_text = <<>> /\ pg_input = <<>> /\ pg_returned = <<>> /\ pg_ended = FALSE

PG_White == {" ", "tab", "nl"}
Preserve == "preserve" \in pg_flags

(* The input up to its first newline, or all of it.                        *)
PG_FirstLine(s) ==
  LET n == {i \in 1 .. Len(s) : s[i] = "nl"} IN
  IF n = {} THEN s ELSE SubSeq(s, 1, CHOOSE i \in n : \A j \in n : i <= j)

PG_Indentation(line) ==
  Cardinality({i \in 1 .. Len(line) : \A j \in 1 .. i : line[j] \in PG_White \ {"nl"}})
PG_Stripped(line) == SubSeq(line, PG_Indentation(line) + 1, Len(line))

(* An odd number of backslashes at the end of the line.                    *)
NewlineEscaped(line) ==
  LET run == {i \in 1 .. Len(line) - 1 : \A j \in i .. Len(line) - 1 : line[j] = "\\"} IN
  Cardinality(run) % 2 = 1

BlankOrComment(line) == PG_Stripped(line) = <<>> \/ PG_Stripped(line)[1] \in {"nl", "#"}
-----------------------------------------------------------------------------
(* jr_ParagraphStart.                                                      *)
PG_Start(input) ==
  [input |-> input, text |-> <<>>, start |-> 0, newlines |-> 0, blanks |-> 0,
   blank |-> TRUE, indent |-> -1, read |-> FALSE]

(* jr_ParagraphReadLine: at the end of input a blank line is counted, too. *)
PG_ReadLine(p) ==
  LET line == PG_FirstLine(p.input)
      ends == line # <<>> /\ Last(line) = "nl" IN
  [input    |-> SubSeq(p.input, Len(line) + 1, Len(p.input)),
   text     |-> p.text \o (IF Preserve THEN line ELSE PG_Stripped(line)),
   start    |-> Len(p.text),
   newlines |-> p.newlines + (IF ends /\ ~NewlineEscaped(line) THEN 1 ELSE 0),
   blanks   |-> p.blanks + (IF BlankOrComment(line) THEN 1 ELSE 0),
   blank    |-> BlankOrComment(line),
   indent   |-> IF line = <<>> THEN p.indent ELSE PG_Indentation(line),
   read     |-> line # <<>>]

(* The current line goes back to the input. The mutant forgets it.         *)
PushedBackLost(p) == [p EXCEPT !.text = SubSeq(@, 1, p.start)]
PushedBack(p) ==
  [p EXCEPT !.input = SubSeq(p.text, p.start + 1, Len(p.text)) \o @,
            !.text = SubSeq(@, 1, p.start)]

(* jr_ParagraphSkipToNonBlankOrCommentLine. A line that is not ended by a  *)
(* newline counts as text, even when it is blank.                          *)
CurrentLineIsBlankOrComment(p) ==
  LET line == PG_Stripped(SubSeq(p.text, p.start + 1, Len(p.text))) IN
  line # <<>> /\ line[1] \in {"nl", "#"}

RECURSIVE SkipToText(_)
SkipToText(p) ==
  LET q == PG_ReadLine(p) IN
  IF ~q.read THEN [p |-> q, back |-> FALSE]
  ELSE IF CurrentLineIsBlankOrComment(q) THEN SkipToText(q)
  ELSE [p |-> PushedBack(q), back |-> TRUE]

(* What jr_ParagraphReadNewString tests behind every line.                 *)
EndsAtNewline(p) == "newline" \in pg_flags /\ p.newlines > 0
NextHasBegun(p) ==
  /\ ~p.blank
  /\ \/ "blank" \in pg_flags /\ p.blanks > 0
     \/ "less" \in pg_flags /\ p.indent < PG_Indent
     \/ "greater" \in pg_flags /\ p.indent > PG_Indent

(* The string that is returned, and whether the null behind it was taken   *)
(* off the list, which is all that tells a paragraph from the end.         *)
RECURSIVE ReadOn(_)
ReadOn(p) ==
  LET q == PG_ReadLine(p) IN
  IF ~q.read THEN [p |-> q, back |-> FALSE, read |-> FALSE]
  ELSE IF EndsAtNewline(q) THEN SkipToText(q) @@ [read |-> TRUE]
  ELSE IF NextHasBegun(q) THEN [p |-> PushedBack(q), back |-> TRUE, read |-> TRUE]
  ELSE ReadOn(q)

PG_NewString(input) ==
  LET heading == PG_ReadLine(PG_Start(input)) IN
  IF EndsAtNewline(heading) THEN SkipToText(heading) @@ [read |-> FALSE] ELSE ReadOn(heading)

PG_ReadNewString ==
  LET r == PG_NewString(pg_input)
      size == Len(r.p.text) + (IF r.back THEN 0 ELSE 1) IN
  /\ ~pg_ended
  /\ pg_input' = r.p.input
  /\ pg_ended' = (size <= 1 /\ ~r.read)
  /\ pg_returned' = IF pg_ended' THEN pg_returned ELSE Append(pg_returned, r.p.text)
  /\ UNCHANGED <<pg_flags, pg_text>>

(* The input is written before it is read; the last line may end without a *)
(* newline.                                                                *)
PG_Write ==
  /\ pg_returned = <<>> /\ ~pg_ended
  /\ Len(SelectSeq(pg_text, LAMBDA c : c = "nl")) < PG_MaxLines
  /\ pg_text # <<>> => Last(pg_text) = "nl"
  /\ \E line \in PG_Lines : pg_text' = pg_text \o line
  /\ pg_input' = pg_text'
  /\ UNCHANGED <<pg_flags, pg_returned, pg_ended>>

PG_Next == PG_Write \/ PG_ReadNewString

PG_Spec == PG_Init /\ [][PG_Next]_pg_vars
-----------------------------------------------------------------------------
PG_Plain(s) == SelectSeq(s, LAMBDA c : c \notin {" ", "tab"})
PG_Cuts == {FoldLeft(LAMBDA n, s : n + Len(s), 0, SubSeq(pg_returned, 1, k)) :
              k \in 1 .. Len(pg_returned)} \ {Len(pg_text)}
LineBefore(n) ==
  LET s == {i \in 0 .. n - 1 : i = 0 \/ pg_text[i] = "nl"} IN
  SubSeq(pg_text, 1 + (CHOOSE i \in s : \A j \in s : j <= i), n)
LineBehind(n) == PG_FirstLine(SubSeq(pg_text, n + 1, Len(pg_text)))

(* The paragraphs and what is still to be read are the input, in its       *)
(* order: a line that was put back is read again, once (white space apart, *)
(* unless it is preserved).                                                *)
PG_InOrder ==
  LET seen == FoldLeft(LAMBDA a, s : a \o s, <<>>, pg_returned) \o pg_input IN
  IF Preserve /\ ~pg_ended THEN seen = pg_text
  ELSE IsPrefix(PG_Plain(seen), PG_Plain(pg_text)) \/ pg_ended

(* Input is over when no paragraph is returned. (A blank line in front of  *)
(* the text is taken for the end by a reader whose paragraphs end at a     *)
(* newline: that text is left out.)                                        *)
PG_EndIsEnd ==
  pg_ended /\ (pg_text # <<>> => ~BlankOrComment(PG_FirstLine(pg_text)))
    => PG_Plain(FoldLeft(LAMBDA a, s : a \o s, <<>>, pg_returned)) = PG_Plain(pg_text)

(* A paragraph ends only where its reader was told to end it: between a    *)
(* blank line and text, behind a newline that is not escaped, before a     *)
(* line with less, or more, indentation.                                   *)
PG_CutWhereMeant ==
  Preserve => \A n \in PG_Cuts :
    /\ ~BlankOrComment(LineBehind(n)) \/ Last(LineBehind(n)) # "nl"
    /\ \/ "blank" \in pg_flags /\ BlankOrComment(LineBefore(n))
       \/ /\ "newline" \in pg_flags
          /\ NewlineEscaped(LineBefore(n)) => BlankOrComment(LineBefore(n))
       \/ "less" \in pg_flags /\ PG_Indentation(LineBehind(n)) < PG_Indent
       \/ "greater" \in pg_flags /\ PG_Indentation(LineBehind(n)) > PG_Indent

PG_ParagraphsWhole == PG_InOrder /\ PG_EndIsEnd /\ PG_CutWhereMeant
=============================================================================
