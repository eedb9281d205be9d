------------------------------- MODULE Formats -------------------------------
(***************************************************************************)
(* Values of libjr that are written as text, and read again: permissions   *)
(* (jr_perms.c), paths that are brought into a normal form or expanded     *)
(* (pathtail.c, envtilde.c), control characters with escapes (ctltoesc.c,  *)
(* esctoctl.c, ctlstrc.c), lines that are read by columns (scanf.c), MIME  *)
(* types of file extensions (jr_mime.c), and times (jr_timestr.c).         *)
(*                                                                         *)
(* As in Text, the state is something that is put together piece by piece  *)
(* and what it is used as: the characters of a clause, of a path and of a  *)
(* string, the fields of a record, the lines of a table.                   *)
(***************************************************************************)
EXTENDS Integers, Sequences, SequencesExt, FiniteSets

CONSTANTS
  FM_Pieces,      \* what each kind is put together from
  FM_MaxPieces,   \* and of how many pieces at most
  FM_Permissions, \* sets of permissions that are changed by a clause
  FM_Variables,   \* the names that are expanded in paths, and their values
  FM_Bounds,      \* sizes of buffers
  FM_Lower,       \* names in small letters
  FM_Bucket,      \* where jr_strhash_pjw puts them in a table of 9 buckets
  FM_Years        \* years of times, since 1900

VARIABLES
  fm_kind,        \* "clause", "path", "string", "record", "types", "time"
  fm_pieces       \* the pieces

fm_vars == <<fm_kind, fm_pieces>>

FM_Init == fm_kind \in DOMAIN FM_Pieces /\ fm_pieces = <<>>

FM_Next ==
  /\ Len(fm_pieces) < FM_MaxPieces[fm_kind]
  /\ \E piece \in FM_Pieces[fm_kind] : fm_pieces' = Append(fm_pieces, piece)
  /\ UNCHANGED fm_kind

FM_Spec == FM_Init /\ [][FM_Next]_fm_vars

FM_From(s, i) == SubSeq(s, i, Len(s))
FM_Undefined == <<"undefined">>
-----------------------------------------------------------------------------
(* Permissions: who ("u", "g", "o") may do what ("r", "w", "x"; "s" for    *)
(* the set bits of owner and group).                                       *)
PermPlaces ==
  <<<<"u", "r">>, <<"u", "w">>, <<"u", "x">>, <<"g", "r">>, <<"g", "w">>, <<"g", "x">>,
    <<"o", "r">>, <<"o", "w">>, <<"o", "x">>>>
SetBits == {<<"u", "s">>, <<"g", "s">>}
Permissions == ToSet(PermPlaces) \cup SetBits

(* The bit of a permission in a mode: those of the places from the left,   *)
(* and two above them and the sticky bit, which is lost.                   *)
ModeBit(f) ==
  IF f = <<"u", "s">> THEN 11 ELSE IF f = <<"g", "s">> THEN 10
  ELSE 9 - CHOOSE i \in 1 .. 9 : PermPlaces[i] = f
PermsToUnixMode(perms) == {ModeBit(f) : f \in perms}
UnixModeToPerms(mode) == {f \in Permissions : ModeBit(f) \in mode}

PermsToString(perms) ==
  [i \in 1 .. 9 |->
    IF PermPlaces[i][2] = "x" /\ <<PermPlaces[i][1], "s">> \in perms THEN "s"
    ELSE IF PermPlaces[i] \in perms THEN PermPlaces[i][2] ELSE "-"]

PermsFromString(s) ==
  {PermPlaces[i] : i \in {j \in 1 .. Len(s) : j <= 9 /\ (s[j] = PermPlaces[j][2] \/ (s[j] = "s" /\ j \in {3, 6}))}}
    \cup {<<PermPlaces[i][1], "s">> : i \in {j \in {3, 6} : j <= Len(s) /\ s[j] = "s"}}

(* jr_PermsAddFromString: "+" and "-" and who was named stay in force to   *)
(* the end of the string, "=" takes all permissions of everyone away; "s"  *)
(* gives the right to execute as well, and takes only itself away. In the  *)
(* mutant it takes that right away too.                                    *)
Gives(what) == IF what = "s" THEN {"s", "x"} ELSE {what}
TakesBoth(what) == Gives(what)
Takes(what) == {what}

ClauseStep(state, c) ==
  CASE c = "+" -> [state EXCEPT !.add = TRUE]
    [] c = "-" -> [state EXCEPT !.subtract = TRUE]
    [] c = "=" -> [state EXCEPT !.add = TRUE, !.perms = {}]
    [] c = "a" -> [state EXCEPT !.who = {"u", "g", "o"}]
    [] c \in {"u", "g", "o"} -> [state EXCEPT !.who = @ \cup {c}]
    [] OTHER ->
         LET of(whats) == (state.who \X whats) \cap Permissions
             named == state.who \ (IF c = "s" THEN {"o"} ELSE {})
             added == IF state.add THEN (named \X Gives(c)) \cap Permissions ELSE {}
             taken == IF state.subtract THEN of(Takes(c)) ELSE {} IN
         [state EXCEPT !.perms = (@ \cup added) \ taken]

PermsAddFromString(perms, s) ==
  FoldLeft(ClauseStep, [perms |-> perms, add |-> FALSE, subtract |-> FALSE, who |-> {}], s).perms
-----------------------------------------------------------------------------
(* jr_NormalizePath, one character after the other: a second "/", "/./"    *)
(* and "/../" are taken out as soon as they are complete, the last one     *)
(* with the name before it. above is the place of the "/" before the last  *)
(* one (0 for none); at the end a "." or ".." without a "/" is looked for. *)
LastSlash(path, q) ==
  LET slashes == {i \in 1 .. q : path[i] = "/"} IN
  IF slashes = {} THEN 0 ELSE CHOOSE i \in slashes : \A j \in slashes : j <= i
EndsAt(path, q, s) == q >= Len(s) /\ SubSeq(path, q - Len(s) + 1, q) = s

RECURSIVE Normalizing(_, _, _)
Normalizing(path, q, above) ==
  IF q > Len(path) THEN [path |-> path, above |-> above]
  ELSE LET cut(from) == SubSeq(path, 1, from) \o FM_From(path, q + 1)
           last == CASE EndsAt(path, q, <<"/", "/">>) -> q - 1
                     [] EndsAt(path, q, <<"/", ".", "/">>) -> q - 2
                     [] EndsAt(path, q, <<"/", ".", ".", "/">>) /\ above # 0 -> above
                     [] OTHER -> q IN
       Normalizing(cut(last), last + 1,
                   IF cut(last)[last] = "/" THEN LastSlash(cut(last), last - 1) ELSE above)

(* A ".." at the end with no "/" above it computes a place from a null     *)
(* pointer.                                                                *)
NormalizePath(file_path) ==
  LET r == Normalizing(file_path, 1, 0)
      n == Len(r.path)
      dot == IF EndsAt(r.path, n, <<"/", ".">>) THEN SubSeq(r.path, 1, n - 1) ELSE r.path
      up == EndsAt(dot, Len(dot), <<"/", ".", ".">>)
      rest == IF up THEN SubSeq(dot, 1, r.above) ELSE dot IN
  IF up /\ r.above = 0 THEN FM_Undefined
  ELSE IF EndsAt(rest, Len(rest), <<"/">>) THEN Front(rest) ELSE rest

(* jr_GetPathTail, and jr_GetTrailingPath for buffers with room for the    *)
(* dots.                                                                   *)
GetPathTail(path) == FM_From(path, LastSlash(path, Len(path)) + 1)
GetTrailingPath(path, size) ==
  IF Len(path) < size THEN path
  ELSE <<".", ".", ".">> \o FM_From(path, Len(path) - (size - 4) + 1)

(* jr_PathStringCopyWithDollarAndTildeExpansion: every name that is a      *)
(* variable is replaced, a "/" in front and one at the end are kept. The   *)
(* mutant forgets the one at the end.                                      *)
NamesOf(path) ==
  SelectSeq(FoldLeft(LAMBDA a, c : IF c = "/" THEN Append(a, <<>>)
                                   ELSE [a EXCEPT ![Len(a)] = Append(@, c)], <<<<>>>>, path),
            LAMBDA name : name # <<>>)
Joined(names) ==
  FlattenSeq([i \in 1 .. Len(names) |-> names[i] \o (IF i = Len(names) THEN <<>> ELSE <<"/">>)])
FromVariable(name) ==
  IF name[1] \notin {"$", "~"} THEN name
  ELSE IF name \in DOMAIN FM_Variables THEN FM_Variables[name] ELSE FM_Undefined

ExpandedOpen(path) == (IF path[1] = "/" THEN <<"/">> ELSE <<>>) \o Joined(NamesOf(path))
Expanded(path) ==
  LET names == [i \in 1 .. Len(NamesOf(path)) |-> FromVariable(NamesOf(path)[i])]
      target == (IF path[1] = "/" THEN <<"/">> ELSE <<>>) \o Joined(names) IN
  IF path = <<"/">> THEN path
  ELSE IF \E i \in 1 .. Len(names) : names[i] = FM_Undefined THEN FM_Undefined
  ELSE IF Last(path) = "/" /\ Last(target) # "/" THEN Append(target, "/") ELSE target
-----------------------------------------------------------------------------
(* Strings are sequences of bytes. jr_ControlCharsToEscapedChars writes a  *)
(* letter or three octal digits for what is below a blank; as a char,      *)
(* bytes above 127 are, and all of them become "\377". A backslash is left *)
(* as it is.                                                               *)
Backslash == 92
Letters == [c \in {7, 8, 12, 10, 13, 9, 11} |->
  CASE c = 7 -> 97 [] c = 8 -> 98 [] c = 12 -> 102 [] c = 10 -> 110
    [] c = 13 -> 114 [] c = 9 -> 116 [] c = 11 -> 118]
Octal(c) == <<48 + (c \div 64), 48 + ((c \div 8) % 8), 48 + (c % 8)>>
EscapeOf(c) ==
  IF c \in DOMAIN Letters THEN <<Backslash, Letters[c]>>
  ELSE IF c < 32 THEN <<Backslash>> \o Octal(c)
  ELSE IF c > 127 THEN <<Backslash>> \o Octal(255) ELSE <<c>>
ControlCharsToEscapedChars(s) == FlattenSeq([i \in 1 .. Len(s) |-> EscapeOf(s[i])])

(* jr_EscapedCharsToControlChars: digits are read as octal behind a "0",   *)
(* as hexadecimal behind another one, and all decimal digits that follow   *)
(* are passed over. At the end of the string the terminator is passed over *)
(* as well, and what follows it is read.                                   *)
FM_Digit(c) == IF c <= 57 THEN c - 48 ELSE IF c <= 70 THEN c - 55 ELSE c - 87
FM_IsDecimal(c) == c \in 48 .. 57
Digits(base) == IF base = 8 THEN 48 .. 55 ELSE (48 .. 57) \cup (65 .. 70) \cup (97 .. 102)
RunOf(s, chars) == Cardinality({i \in 1 .. Len(s) : \A j \in 1 .. i : s[j] \in chars})
NumberIn(s, base) ==
  FoldLeft(LAMBDA n, c : (n * base) + FM_Digit(c), 0, SubSeq(s, 1, RunOf(s, Digits(base))))

RECURSIVE EscapedCharsToControlChars(_)
EscapedCharsToControlChars(s) ==
  LET after == Tail(s)
      c == after[1]
      letter == {k \in DOMAIN Letters : Letters[k] = c} IN
  IF s = <<>> THEN <<>>
  ELSE IF s[1] # Backslash THEN <<s[1]>> \o EscapedCharsToControlChars(after)
  ELSE IF after = <<>> THEN FM_Undefined
  ELSE IF FM_IsDecimal(c)
       THEN IF RunOf(after, 48 .. 57) = Len(after) THEN FM_Undefined
            ELSE <<NumberIn(after, IF c = 48 THEN 8 ELSE 16) % 256>>
                   \o EscapedCharsToControlChars(FM_From(after, RunOf(after, 48 .. 57) + 1))
  ELSE <<IF letter = {} THEN c ELSE CHOOSE k \in letter : TRUE>>
         \o EscapedCharsToControlChars(Tail(after))

EndsWithOddBackslashes(s) == RunOf(Reverse(s), {Backslash}) % 2 = 1

(* jr_CopyControlCharsToEscapedChars: letters as above, "^" and a letter   *)
(* for other control characters; the copy ends at the last of them that    *)
(* fits.                                                                   *)
SignOf(c) ==
  IF c \in DOMAIN Letters THEN <<Backslash, Letters[c]>>
  ELSE IF c = 127 THEN <<94, 63>>
  ELSE IF c < 32 THEN <<94, c + 64>>
  ELSE IF c > 127 THEN SelectSeq(<<94, (c + 64) % 256>>, LAMBDA b : b # 0)
  ELSE <<c>>
RECURSIVE Copying(_, _)
Copying(room, source) ==
  IF room = 0 \/ source = <<>> \/ Len(SignOf(source[1])) > room THEN <<>>
  ELSE SignOf(source[1]) \o Copying(room - Len(SignOf(source[1])), Tail(source))
CopyControlChars(bounds, source) == Copying(bounds - 1, source)

(* jr_ESIS_putc, and the data of a line of ESIS as jr_ESIS_getc reads it:  *)
(* octal digits without zeros in front, and as many as follow are read;    *)
(* decimal ones behind "#" and "%", but neither 8 nor 9. A newline ends    *)
(* the data, also one that was written in octal.                           *)
Newline == 10
OctalDigits(c) == FM_From(Octal(c), IF c < 8 THEN 3 ELSE IF c < 64 THEN 2 ELSE 1)
EsisPut(c) ==
  IF c = Backslash THEN <<Backslash, Backslash>>
  ELSE IF c = Newline THEN <<Backslash, 110>>
  ELSE IF c \in 32 .. 126 THEN <<c>> ELSE <<Backslash>> \o OctalDigits(c)
EsisRun(s) == SubSeq(s, 1, RunOf(s, 48 .. 55))
Decimal(s) == FoldLeft(LAMBDA n, c : (10 * n) + FM_Digit(c), 0, s)

RECURSIVE EsisData(_)
EsisData(s) ==
  LET after == Tail(s)
      c == after[1]
      number(n, behind) == IF n = Newline THEN <<>> ELSE <<n % 256>> \o EsisData(behind)
      digits == EsisRun(Tail(after))
      behind == FM_From(after, Len(digits) + 2) IN
  IF s = <<>> \/ s[1] = Newline THEN <<>>
  ELSE IF s[1] # Backslash THEN <<s[1]>> \o EsisData(after)
  ELSE IF after = <<>> THEN <<Backslash>>
  ELSE CASE c = Backslash -> <<Backslash>> \o EsisData(Tail(after))
         [] c = 124 -> <<2>> \o EsisData(Tail(after))
         [] c = 110 -> <<Newline>> \o EsisData(Tail(after))
         [] c \in {35, 37} -> number(Decimal(digits), behind)
         [] FM_IsDecimal(c) -> number(NumberIn(<<48>> \o digits, 8) + ((c - 48) * 8 ^ Len(digits)), behind)
         [] OTHER -> <<Backslash>> \o EsisData(after)
-----------------------------------------------------------------------------
(* jr_ColumnScanf for strings and sets. A control item is a character of   *)
(* its own, a blank, or "%" with the digits of the columns and of the      *)
(* bounds (none is an empty sequence) and "s" or a set that a field ends   *)
(* before. A "0" among the digits of the columns is taken for a leading    *)
(* one wherever it stands, and alone is no number. What has none is -2.    *)
Value(digits) == FoldLeft(LAMBDA n, d : (10 * n) + d, 0, digits)
ScannedNumber(digits) == IF digits = <<>> THEN -2 ELSE Value(digits)
ColumnsOf(digits) == ScannedNumber(SelectSeq(digits, LAMBDA d : d # 0))

(* jr_ColumnScanfExecuteControlSequence: the columns that are taken, what  *)
(* of them is stored (in a set up to the first character outside it), and  *)
(* whether there was anything. Room for the terminator is kept in the      *)
(* bounds.                                                                 *)
UpTo(s, chars) == RunOf(s, {s[i] : i \in 1 .. Len(s)} \ chars)
Least(m, n) == IF m < n THEN m ELSE n
FieldAt(item, input) ==
  LET columns == ColumnsOf(item.columns)
      set == item.until # {}
      free == IF set THEN UpTo(input, item.until) ELSE UpTo(input, {" "})
      taken == IF columns >= 0 THEN Least(columns, Len(input)) ELSE free
      kept == SubSeq(input, 1, IF set THEN Least(taken, free) ELSE taken)
      bounds == ScannedNumber(item.bounds) IN
  [ok |-> kept # <<>> \/ set,
   taken |-> taken,
   text |-> IF bounds >= 0 THEN SubSeq(kept, 1, Least(bounds - 1, Len(kept))) ELSE kept]

RECURSIVE ColumnScanf(_, _)
ColumnScanf(input, control) ==
  IF control = <<>> THEN <<>>
  ELSE LET c == control[1]
           field == FieldAt(c.item, input) IN
       CASE c.is = "blank" -> ColumnScanf(FM_From(input, RunOf(input, {" "}) + 1), Tail(control))
         [] c.is = "char" ->
              IF input # <<>> /\ input[1] = c.char THEN ColumnScanf(Tail(input), Tail(control)) ELSE <<>>
         [] c.is = "item" ->
              IF field.ok THEN <<field.text>> \o ColumnScanf(FM_From(input, field.taken + 1), Tail(control))
              ELSE <<>>
-----------------------------------------------------------------------------
(* The table of MIME types: an extension, its type and the line that       *)
(* defined it. Extensions are compared in small letters, but only in the   *)
(* bucket that the hash of the extension as it is written leads to, in a   *)
(* table of at most 9 entries. jr_MimeTableAddNewElement keeps the first   *)
(* type, and refuses another one. In the mutant the last one stays.        *)
SameExtension(e, f) == FM_Lower[e] = FM_Lower[f] /\ FM_Bucket[e] = FM_Bucket[f]
EntriesOf(table, ext) == {e \in DOMAIN table : SameExtension(e, ext)}

MimeTableAddLast(table, ext, type, line) ==
  [table |-> [e \in (DOMAIN table \ EntriesOf(table, ext)) \cup {ext} |->
     IF e = ext THEN [type |-> type, line |-> line] ELSE table[e]], ok |-> TRUE]
MimeTableAddNewElement(table, ext, type, line) ==
  IF EntriesOf(table, ext) # {}
  THEN [table |-> table,
        ok |-> \A e \in EntriesOf(table, ext) : FM_Lower[table[e].type] = FM_Lower[type]]
  ELSE [table |-> [e \in DOMAIN table \cup {ext} |->
          IF e = ext THEN [type |-> type, line |-> line] ELSE table[e]], ok |-> TRUE]
MimeTableFindMimeType(table, ext) ==
  IF EntriesOf(table, ext) = {} THEN "none"
  ELSE table[CHOOSE e \in EntriesOf(table, ext) : TRUE].type

(* jr_MimeTableLoadFromFilePtr: a line is a type and its extensions, or a  *)
(* comment. Another type for an extension is an error only when that is    *)
(* asked for (redefinitions), and ends the loading only when that is asked *)
(* for as well (exit).                                                     *)
LineStep(state, line, number, mode) ==
  FoldLeft(LAMBDA s, ext :
             IF s.ended THEN s
             ELSE LET added == MimeTableAddNewElement(s.table, ext, line[1], number) IN
                  [table |-> added.table,
                   ended |-> ~added.ok /\ {"redefinitions", "exit"} \subseteq mode],
           state, Tail(line))
MimeTableLoad(lines, mode) ==
  FoldLeft(LAMBDA s, number :
             IF s.ended \/ Len(lines[number]) < 2 THEN s
             ELSE LineStep(s, lines[number], number, mode),
           [table |-> [e \in {} |-> [type |-> "none", line |-> 0]], ended |-> FALSE],
           [i \in 1 .. Len(lines) |-> i])
-----------------------------------------------------------------------------
(* jr_TimeToSecondsUTC where APR is missing, in days: months and days of   *)
(* the month begin at 0 and 1, and the years at 1900. Every fourth year is *)
(* a leap year. The mutant gives the day to January too.                   *)
DaysBefore == <<0, 31, 59, 90, 120, 151, 181, 212, 243, 273, 304, 334>>
LeapDayEarly(year, month) == IF year % 4 = 0 THEN 1 ELSE 0
LeapDay(year, month) == IF year % 4 = 0 /\ month > 1 THEN 1 ELSE 0
TimeToDays(year, month, day) ==
  LET y == year - 68 IN
  ((y - 2) * 365) + ((y - 1) \div 4) + DaysBefore[month + 1] + LeapDay(year, month) + day - 1
TimeToHours(year, month, day, hour, is_dst) ==
  (TimeToDays(year, month, day) * 24) + hour - (IF is_dst THEN 1 ELSE 0)
-----------------------------------------------------------------------------
(* A clause like "go+rx" changes what it names and nothing else, whatever  *)
(* the order of its letters ("=" is a "+" that begins with nothing at      *)
(* all); the permissions that come of it are the same as bits of a mode    *)
(* and back, and as a string and back. (A set bit without the right to     *)
(* execute is read as both.)                                               *)
ClauseSays(perms, whos, op, whats) ==
  LET given == {f \in Permissions : \E w \in whats : f \in (whos \ (IF w = "s" THEN {"o"} ELSE {})) \X Gives(w)}
      taken == {f \in Permissions : f \in whos \X whats} IN
  CASE op = "+" -> perms \cup given [] op = "-" -> perms \ taken [] op = "=" -> given
FM_ClausesTrue ==
  fm_kind = "clause" =>
    \A perms \in FM_Permissions :
      LET r == PermsAddFromString(perms, fm_pieces) IN
      /\ UnixModeToPerms(PermsToUnixMode(r)) = r
      /\ (\A f \in r \cap SetBits : <<f[1], "x">> \in r) => PermsFromString(PermsToString(r)) = r
      /\ \A k \in 2 .. Len(fm_pieces) :
           LET whos == ToSet(SubSeq(fm_pieces, 1, k - 1))
               whats == ToSet(FM_From(fm_pieces, k + 1)) IN
           /\ fm_pieces[k] \in {"+", "-", "="}
           /\ whos \subseteq {"u", "g", "o"} /\ whats \subseteq {"r", "w", "x", "s"}
           => r = ClauseSays(perms, whos, fm_pieces[k], whats)

(* A path in normal form has the names that are left when its parts are    *)
(* followed one after the other: "." and empty ones stay, ".." takes the   *)
(* name before it away, but never the first part, which is empty in an     *)
(* absolute path. (Paths in which ".." finds no name are left out: there   *)
(* two of them take each other away, or nothing is defined.) An expanded   *)
(* path has the names of its parts and their values, and a "/" at its end  *)
(* if it had one; and the end of a path fits the buffer it is cut for.     *)
PartsOf(path) ==
  FoldLeft(LAMBDA a, c : IF c = "/" THEN Append(a, <<>>) ELSE [a EXCEPT ![Len(a)] = Append(@, c)],
           <<<<>>>>, path)
Followed(parts) ==
  FoldLeft(LAMBDA r, part :
             CASE part = <<>> \/ part = <<".">> -> r
               [] part = <<".", ".">> ->
                    IF r.names = <<>> THEN [r EXCEPT !.lost = TRUE] ELSE [r EXCEPT !.names = Front(@)]
               [] OTHER -> [r EXCEPT !.names = Append(@, part)],
           [names |-> <<>>, lost |-> FALSE], parts)
FM_PathsTrue ==
  fm_kind = "path" =>
    LET parts == PartsOf(fm_pieces)
        r == Followed(Tail(parts))
        expanded == Expanded(fm_pieces) IN
    /\ ~r.lost => NormalizePath(fm_pieces) =
                    parts[1] \o FlattenSeq([i \in 1 .. Len(r.names) |-> <<"/">> \o r.names[i]])
    /\ fm_pieces # <<>> /\ expanded # FM_Undefined =>
         /\ NamesOf(expanded) =
              FlattenSeq([i \in 1 .. Len(NamesOf(fm_pieces)) |->
                            NamesOf(FromVariable(NamesOf(fm_pieces)[i]))])
         /\ Last(fm_pieces) = "/" => Last(expanded) = "/"
    /\ \A size \in FM_Bounds :
         /\ Len(GetTrailingPath(fm_pieces, size)) < size
         /\ Len(GetPathTail(fm_pieces)) < size - 4 =>
              GetPathTail(GetTrailingPath(fm_pieces, size)) = GetPathTail(fm_pieces)

(* A string without backslashes and bytes above 127 is the same when it    *)
(* was escaped and read again, if no octal escape is at its end or before  *)
(* a digit; written as ESIS, also with backslashes, if no octal digits     *)
(* follow an escape. A copy keeps as many characters as fit, all of them   *)
(* whole. A quote behind the string is escaped if its backslashes are odd. *)
EscapesQuote(s) == FoldLeft(LAMBDA escaped, c : c = Backslash /\ ~escaped, FALSE, s)
FM_EscapesReturn ==
  fm_kind = "string" =>
    LET s == fm_pieces
        octal(c) == c < 32 /\ c \notin DOMAIN Letters IN
    /\ (\A i \in 1 .. Len(s) :
          /\ s[i] # Backslash /\ s[i] < 128
          /\ octal(s[i]) => i < Len(s) /\ ~FM_IsDecimal(EscapeOf(s[i + 1])[1]))
         => EscapedCharsToControlChars(ControlCharsToEscapedChars(s)) = s
    /\ (\A i \in 1 .. Len(s) :
          /\ s[i] < 128
          /\ (Len(EsisPut(s[i])) > 1 /\ i < Len(s)) => s[i + 1] \notin 48 .. 55)
         => EsisData(FlattenSeq([i \in 1 .. Len(s) |-> EsisPut(s[i])])) = s
    /\ EndsWithOddBackslashes(s) <=> EscapesQuote(s)
    /\ \A bounds \in FM_Bounds :
         \E n \in 0 .. Len(s) :
           LET whole(k) == FlattenSeq([i \in 1 .. k |-> SignOf(s[i])]) IN
           /\ CopyControlChars(bounds, s) = whole(n) /\ Len(whole(n)) < bounds
           /\ n < Len(s) => Len(whole(n + 1)) >= bounds

(* A line that was written as fields of fixed columns, words with a blank  *)
(* behind them, and fields up to a character is read back, in whatever     *)
(* order they follow each other; bounds cut a field, and nothing of the    *)
(* next one. (Columns with a zero among their digits are left out.)        *)
Padded(text, columns) == text \o [i \in 1 .. columns - Len(text) |-> " "]
Written(f) ==
  CASE f.how = "columns" -> Padded(f.text, f.columns)
    [] f.how = "word" -> f.text \o <<" ">>
    [] f.how = "until" -> f.text \o <<",">>
Item(f) ==
  [is |-> "item", item |-> [columns |-> IF f.how = "columns" THEN <<f.columns>> ELSE <<>>,
                            bounds |-> f.bounds, until |-> IF f.how = "until" THEN {","} ELSE {}]]
ControlOf(f) ==
  CASE f.how = "columns" -> <<Item(f)>>
    [] f.how = "word" -> <<Item(f), [is |-> "blank"]>>
    [] f.how = "until" -> <<Item(f), [is |-> "char", char |-> ","]>>
ReadAs(f) ==
  LET text == IF f.how = "columns" THEN Padded(f.text, f.columns) ELSE f.text IN
  IF f.bounds = <<>> THEN text ELSE SubSeq(text, 1, Least(Value(f.bounds) - 1, Len(text)))
FM_RecordsRead ==
  fm_kind = "record" =>
    ColumnScanf(FlattenSeq([i \in 1 .. Len(fm_pieces) |-> Written(fm_pieces[i])]),
                FlattenSeq([i \in 1 .. Len(fm_pieces) |-> ControlOf(fm_pieces[i])]))
      = [i \in 1 .. Len(fm_pieces) |-> ReadAs(fm_pieces[i])]

(* The type of an extension is the one of the first line that names it, as *)
(* it is written or in other letters that lead to the same bucket; the     *)
(* loading fails, where that is asked for, exactly when a line gives such  *)
(* an extension another type than that. Letters that lead elsewhere make   *)
(* another extension, with a type of its own.                              *)
FM_FirstTypeStays ==
  fm_kind = "types" =>
    LET names(i, e) == \E k \in 2 .. Len(fm_pieces[i]) : SameExtension(fm_pieces[i][k], e)
        first(e) == {i \in 1 .. Len(fm_pieces) : names(i, e) /\ \A j \in 1 .. i - 1 : ~names(j, e)}
        conflict == \E e \in DOMAIN FM_Lower : \E i \in first(e), j \in 1 .. Len(fm_pieces) :
                      names(j, e) /\ FM_Lower[fm_pieces[j][1]] # FM_Lower[fm_pieces[i][1]] IN
    \A mode \in SUBSET {"redefinitions", "exit"} :
      LET loaded == MimeTableLoad(fm_pieces, mode) IN
      /\ loaded.ended <=> conflict /\ mode = {"redefinitions", "exit"}
      /\ \A e \in DOMAIN FM_Lower :
           LET type == MimeTableFindMimeType(loaded.table, e) IN
           \/ loaded.ended /\ type = "none"
           \/ first(e) = {} /\ type = "none"
           \/ \E i \in first(e) :
                /\ type = fm_pieces[i][1]
                /\ \A d \in EntriesOf(loaded.table, e) : loaded.table[d].line = i

(* Each month begins when the one before it has ended, and 1970 at zero;   *)
(* so the seconds of two times differ as the times do. (2100, which is no  *)
(* leap year, is taken for one.)                                           *)
DaysIn(year, month) ==
  IF month = 1 THEN IF year % 4 = 0 THEN 29 ELSE 28
  ELSE IF month \in {3, 5, 8, 10} THEN 30 ELSE 31
FM_DaysCounted ==
  fm_kind = "time" =>
    \A year \in FM_Years, month \in 0 .. 11 :
      LET next == IF month = 11 THEN TimeToHours(year + 1, 0, 1, 0, FALSE)
                  ELSE TimeToHours(year, month + 1, 1, 0, FALSE) IN
      /\ next - TimeToHours(year, month, 1, 0, FALSE) = 24 * DaysIn(year, month)
      /\ TimeToHours(70, 0, 1, 0, FALSE) = 0
      /\ TimeToHours(year, month, 1, 1, TRUE) = TimeToHours(year, month, 1, 0, FALSE)
=============================================================================
