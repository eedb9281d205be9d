---------------------------- MODULE InputBuffer ----------------------------
(***************************************************************************)
(* The input buffer of src/libjr/struct/inputbuf.c: a stack of contexts,   *)
(* each a file or a string with its position and the characters put back   *)
(* to it. An exhausted context that closes transparently gives way to the  *)
(* one below. A client reads characters, lines and words and puts back     *)
(* what it has read last. The place where the last context ended, kept for *)
(* messages (eof_line_number), is left out.                                *)
(*                                                                         *)
(* The history of a context: whole, its text as the client is to see it;   *)
(* ahead, what of it is still to come; first, the line it began with; and  *)
(* exact, whether its column and offset can still be known: not when a     *)
(* tabulator was put back, which gives up one column, nor a newline, after *)
(* which the column is one too far, nor a character read from a context    *)
(* that has closed, nor when the end was read.                             *)
(***************************************************************************)
EXTENDS Integers, Sequences, FiniteSets

CONSTANTS
  IB_Texts,        \* texts of files and strings, sequences of characters
  IB_MaxDepth,     \* bound of the number of contexts
  IB_MaxRead,      \* bound of the characters the client keeps to put back
  IB_MaxUnread,    \* bound of the characters put back and not yet read
  IB_Calls,        \* bound of the calls of the client
  IB_Length,       \* max_length of jr_IB_gets and jr_IB_getword
  IB_TabStops

ASSUME InputBufferAssumption ==
  IB_Texts \subseteq Seq(STRING) /\ IB_Length \in Nat \ {0, 1} /\ IB_TabStops \in Nat \ {0}

VARIABLES ib_stack,    \* context_stack, the current context last
          ib_read,     \* what the client has read and may put back
          ib_given,    \* whether every read gave what it had to give
          ib_calls     \* the calls made

ib_vars == <<ib_stack, ib_read, ib_given, ib_calls>>

EOF == "eof"
NL == "nl"
CR == "cr"
HT == "tab"

Current(stack) == stack[Len(stack)]
SetCurrent(stack, ctx) == [stack EXCEPT ![Len(stack)] = ctx]
Newlines(s) == Cardinality({i \in 1 .. Len(s) : s[i] = NL})

(* A file is read without the \r of a \r\n: what is picked of each prefix.  *)
Picked(type, text) ==
  LET keep == {i \in 1 .. Len(text) :
                 ~(type = "file" /\ text[i] = CR /\ i < Len(text) /\ text[i + 1] = NL)}
      pick[i \in 0 .. Len(text)] ==
        IF i = 0 THEN <<>> ELSE IF i \in keep THEN Append(pick[i - 1], text[i]) ELSE pick[i - 1]
  IN pick

SeenText(type, text) == Picked(type, text)[Len(text)]

-----------------------------------------------------------------------------
(* Reading.                                                                *)

Exhausted(ctx) == ctx.unread = <<>> /\ ctx.index > Len(ctx.src)

UndoContext(stack) == SubSeq(stack, 1, Len(stack) - 1)

(* The contexts below the exhausted ones that close transparently.         *)
Opened(stack) ==
  LET stay == {d \in 1 .. Len(stack) : ~(Exhausted(stack[d]) /\ stack[d].transparent)}
  IN IF stay = {} THEN <<>>
     ELSE SubSeq(stack, 1, CHOOSE d \in stay : \A e \in stay : e <= d)

NextChar(ctx) ==
  CASE ctx.unread # <<>> -> ctx.unread[Len(ctx.unread)]
    [] Exhausted(ctx) -> EOF
    [] OTHER ->
       IF ctx.type = "file" /\ ctx.src[ctx.index] = CR /\ ctx.index < Len(ctx.src)
            /\ ctx.src[ctx.index + 1] = NL
       THEN NL ELSE ctx.src[ctx.index]

Consumed(ctx) ==
  IF ctx.unread # <<>> THEN [ctx EXCEPT !.unread = SubSeq(@, 1, Len(@) - 1)]
  ELSE IF Exhausted(ctx) THEN ctx
  ELSE [ctx EXCEPT !.index = @ + (IF ctx.src[ctx.index] = NextChar(ctx) THEN 1 ELSE 2)]

ToTabStop(column) == IB_TabStops - (column % IB_TabStops)

(* Line, column and offset behind a character.                             *)
Advanced(ctx, c) ==
  LET column == IF ctx.column # 0 THEN ctx.column + 1 ELSE 0
  IN [ctx EXCEPT
        !.offset = @ + 1,
        !.line = IF c = NL THEN @ + 1 ELSE @,
        !.last_columns = IF c = NL THEN column ELSE @,
        !.column = CASE c = NL -> 1
                     [] c = HT -> column + ToTabStop(column)
                     [] OTHER -> column,
        !.saw_new_line = IF c # NL THEN FALSE ELSE @,
        !.ahead = IF @ = <<>> THEN @ ELSE Tail(@),
        !.exact = @ /\ c # EOF]

(* jr_IB_getc on a stack: the character, and the stack behind it.          *)
Getc(stack0) ==
  LET stack == Opened(stack0)
  IN IF stack = <<>> THEN [stack |-> stack, c |-> EOF, due |-> EOF]
     ELSE LET ctx == Current(stack)
          IN [stack |-> SetCurrent(stack, Advanced(Consumed(ctx), NextChar(ctx))),
              c |-> NextChar(ctx),
              due |-> IF ctx.ahead = <<>> THEN EOF ELSE Head(ctx.ahead)]

(* Mutant: the line of the newline is kept.                                *)
UngetcSameLine(stack, c) ==
  IF stack = <<>> THEN stack
  ELSE SetCurrent(stack, [Current(stack) EXCEPT !.unread = Append(@, c),
                                                !.ahead = <<c>> \o @])

(* Line, column and offset after a character was put back.                 *)
Ungetc(stack, c) ==
  IF stack = <<>> THEN stack
  ELSE LET ctx == Current(stack)
       IN SetCurrent(stack,
            [ctx EXCEPT
               !.unread = Append(@, c),
               !.column = IF c = NL THEN ctx.last_columns ELSE IF @ # 0 THEN @ - 1 ELSE @,
               !.offset = IF @ # 0 THEN @ - 1 ELSE @,
               !.line = IF c = NL THEN @ - 1 ELSE @,
               !.last_columns = IF c = NL THEN 0 ELSE @,
               !.saw_new_line = IF c = NL THEN TRUE ELSE @,
               !.ahead = <<c>> \o @,
               !.exact = /\ @ /\ c \notin {HT, NL}
                         /\ Len(ctx.ahead) < Len(ctx.whole)
                         /\ c = ctx.whole[Len(ctx.whole) - Len(ctx.ahead)]])

(* jr_IB_gets and jr_IB_getword: characters up to and with the first one   *)
(* that ends the text, as many as fit, or up to the end of the input.      *)
GetText(stack, ends) ==
  LET start == [stack |-> stack, c |-> EOF, due |-> EOF,
                text |-> <<>>, dues |-> <<>>, more |-> TRUE]
      read[i \in 0 .. IB_Length - 1] ==
        IF i = 0 THEN start
        ELSE IF ~read[i - 1].more THEN read[i - 1]
        ELSE LET got == Getc(read[i - 1].stack)
             IN [stack |-> got.stack, c |-> got.c, due |-> got.due,
                 text |-> IF got.c = EOF THEN read[i - 1].text
                          ELSE Append(read[i - 1].text, got.c),
                 dues |-> IF got.due = EOF THEN read[i - 1].dues
                          ELSE Append(read[i - 1].dues, got.due),
                 more |-> got.c # EOF /\ got.c \notin ends]
  IN read[IB_Length - 1]

(* jr_IB_ungetstring: the last character first.                            *)
Ungetstring(stack, string) ==
  LET put[i \in 0 .. Len(string)] ==
        IF i = 0 THEN stack ELSE Ungetc(put[i - 1], string[Len(string) - i + 1])
  IN put[Len(string)]

-----------------------------------------------------------------------------
(* Contexts.                                                               *)

(* Without a name the position is that of the context below.               *)
NewContext(stack, type, named, text, transparent) ==
  LET inherits == ~named /\ stack # <<>>
      line == IF inherits THEN Current(stack).line ELSE 1
  IN [type |-> type, src |-> text, index |-> 1, unread |-> <<>>,
      line |-> line, column |-> IF inherits THEN Current(stack).column ELSE 1,
      offset |-> 0, last_columns |-> 0, saw_new_line |-> ~inherits,
      transparent |-> transparent,
      whole |-> SeenText(type, text), ahead |-> SeenText(type, text),
      first |-> line, exact |-> ~inherits]

IB_Init ==
  /\ ib_stack = <<>> /\ ib_read = <<>>
  /\ ib_given = TRUE
  /\ ib_calls = 0

IB_OpenContext ==
  /\ Len(ib_stack) < IB_MaxDepth
  /\ \E type \in {"file", "string"}, named, transparent \in BOOLEAN, text \in IB_Texts :
       ib_stack' = Append(ib_stack, NewContext(ib_stack, type, named, text, transparent))
  /\ ib_read' = <<>>
  /\ UNCHANGED ib_given

IB_CloseCurrentContext ==
  /\ ib_stack # <<>>
  /\ ib_stack' = UndoContext(ib_stack)
  /\ ib_read' = <<>>
  /\ UNCHANGED ib_given

IB_InputBufferReset ==
  /\ ib_stack # <<>>
  /\ ib_stack' = <<>>
  /\ ib_read' = <<>>
  /\ UNCHANGED ib_given

(* The client forgets what it read when it meets the end of the input.     *)
IB_getc ==
  /\ Len(ib_read) < IB_MaxRead
  /\ \E got \in {Getc(ib_stack)} :
       /\ ib_stack' = got.stack
       /\ ib_given' = (ib_given /\ got.c = got.due)
       /\ ib_read' = IF got.c = EOF THEN <<>> ELSE Append(ib_read, got.c)

IB_gettext(ends) ==
  /\ Len(ib_read) + IB_Length - 1 <= IB_MaxRead
  /\ \E got \in {GetText(ib_stack, ends)} :
       /\ ib_stack' = got.stack
       /\ ib_given' = (ib_given /\ got.text = got.dues)
       /\ ib_read' = IF got.c = EOF THEN <<>> ELSE ib_read \o got.text

IB_gets == IB_gettext({NL})
IB_getword == IB_gettext({NL, HT, CR})     \* isspace

Unread(string) ==
  ib_stack # <<>> =>
    /\ Len(Current(ib_stack).unread) + Len(string) <= IB_MaxUnread

IB_ungetc ==
  /\ ib_read # <<>> /\ Unread(<<ib_read[Len(ib_read)]>>)
  /\ ib_stack' = Ungetc(ib_stack, ib_read[Len(ib_read)])
  /\ ib_read' = SubSeq(ib_read, 1, Len(ib_read) - 1)
  /\ UNCHANGED ib_given

(* What was read last can be put back as a string.                         *)
IB_ungetstring ==
  /\ \E from \in 1 .. Len(ib_read) - 1 :
       \E string \in {SubSeq(ib_read, from, Len(ib_read))} :
         /\ Unread(string)
         /\ ib_stack' = Ungetstring(ib_stack, string)
         /\ ib_read' = SubSeq(ib_read, 1, from - 1)
  /\ UNCHANGED ib_given

IB_Next ==
  /\ ib_calls < IB_Calls /\ ib_calls' = ib_calls + 1
  /\ \/ IB_OpenContext \/ IB_CloseCurrentContext \/ IB_InputBufferReset
     \/ IB_getc \/ IB_gets \/ IB_getword \/ IB_ungetc \/ IB_ungetstring

IB_Spec == IB_Init /\ [][IB_Next]_ib_vars

-----------------------------------------------------------------------------
(* The column behind a text that began in column 1.                        *)
ColumnAfter(s) ==
  LET col[i \in 0 .. Len(s)] ==
        IF i = 0 THEN 1
        ELSE CASE s[i] = NL -> 1
               [] s[i] = HT -> col[i - 1] + 1 + ToTabStop(col[i - 1] + 1)
               [] OTHER -> col[i - 1] + 1
  IN col[Len(s)]

ConsumedText(ctx) == SubSeq(ctx.whole, 1, Len(ctx.whole) - Len(ctx.ahead))

(* However a client reads and puts back, over the end of contexts that     *)
(* close, it is given every character of the input once and in order, the  *)
(* line number counts the newlines before the place where it is, and       *)
(* column and offset are those of that place unless they are lost, as they *)
(* are when what a closed context gave is put back to the one below it.    *)
IB_PositionTrue ==
  /\ ib_given = TRUE
  /\ \A d \in 1 .. Len(ib_stack) :
       LET ctx == ib_stack[d]
       IN /\ ctx.line = ctx.first + Newlines(ctx.whole) - Newlines(ctx.ahead)
          /\ ctx.exact => /\ ctx.column = ColumnAfter(ConsumedText(ctx))
                          /\ ctx.offset = Len(ConsumedText(ctx))
=============================================================================
