-------------------------------- MODULE Text ---------------------------------
(***************************************************************************)
(* Functions of libjr on strings: matching names with glob patterns        *)
(* (jr_glob.c), expanding paths with them (globvec.c), splitting a string  *)
(* into words and fields (vwords.c, vsigsep.c, vquote.c), encoding it for  *)
(* a URL and back (url_str.c), replacing what it contains (memrepl.c), and *)
(* comparing and searching strings (cmpmisc.c, cmpstrqs.c, cmpstrss.c,     *)
(* binsrch.c, linsrch.c).                                                  *)
(*                                                                         *)
(* The state is a string that is put together, piece by piece, and what it *)
(* is used as. It is a sequence of characters; bytes that are encoded are  *)
(* numbers.                                                                *)
(***************************************************************************)
EXTENDS Integers, Sequences, SequencesExt, FiniteSets

CONSTANTS
  TX_Pieces,      \* what a string of each kind is put together from
  TX_MaxPieces,   \* and of how many at most
  TX_Names,       \* names that are matched with a pattern
  TX_Tree,        \* paths of files and directories, sequences of names
  TX_FirstSize,   \* size of the first vector of words
  TX_Replaced     \* what is replaced by what

VARIABLES
  tx_kind,        \* "pattern", "path", "words", "bytes", "source", "compared"
  tx_pieces       \* the pieces

tx_vars == <<tx_kind, tx_pieces>>

TX_Init == tx_kind \in DOMAIN TX_Pieces /\ tx_pieces = <<>>

TX_Next ==
  /\ Len(tx_pieces) < TX_MaxPieces[tx_kind]
  /\ \E piece \in TX_Pieces[tx_kind] : tx_pieces' = Append(tx_pieces, piece)
  /\ UNCHANGED tx_kind

TX_Spec == TX_Init /\ [][TX_Next]_tx_vars

tx_text == FlattenSeq(tx_pieces)
TX_From(s, i) == SubSeq(s, i, Len(s))
-----------------------------------------------------------------------------
(* A set in brackets: whether the character is in the set, and the pattern *)
(* behind it. A hyphen makes a range unless "]" follows. The rest of a set *)
(* that matched is passed over without looking for escapes at once. The    *)
(* mutant leaves the end of a range out.                                   *)
TX_Order == <<"!", "-", ".", "/", "a", "b", "c", "d">>
TX_BetweenOpen(c, from, to) ==
  \E i, j, k \in 1 .. Len(TX_Order) :
    TX_Order[i] = from /\ TX_Order[j] = c /\ TX_Order[k] = to /\ i <= j /\ j < k
TX_Between(c, from, to) ==
  IF from = to THEN c = from
  ELSE \E i, j, k \in 1 .. Len(TX_Order) :
         TX_Order[i] = from /\ TX_Order[j] = c /\ TX_Order[k] = to /\ i <= j /\ j <= k

TX_Broken == [ok |-> FALSE, in |-> FALSE, rest |-> <<>>]

RECURSIVE PastBracket(_)
PastBracket(p) ==
  IF p = <<>> THEN TX_Broken
  ELSE IF p[1] = "]" THEN [ok |-> TRUE, in |-> TRUE, rest |-> Tail(p)]
  ELSE PastBracket(TX_From(p, IF p[1] = "\\" THEN 3 ELSE 2))

RECURSIVE InBracket(_, _)
InBracket(c, p) ==
  LET escaped == p # <<>> /\ p[1] = "\\"
      item == IF escaped THEN Tail(p) ELSE p
      range == Len(item) > 2 /\ item[2] = "-" /\ item[3] # "]"
      past == IF range THEN (IF item[3] = "\\" THEN 5 ELSE 4) ELSE 2
      to == IF range THEN item[past - 1] ELSE item[1]
      rest == TX_From(item, past) IN
  IF item = <<>> \/ Len(item) < past - 1 THEN TX_Broken
  ELSE IF TX_Between(c, item[1], to)
       THEN IF rest # <<>> /\ rest[1] # "]" THEN PastBracket(Tail(rest)) ELSE PastBracket(rest)
  ELSE IF rest # <<>> /\ rest[1] = "]" THEN [ok |-> TRUE, in |-> FALSE, rest |-> Tail(rest)]
  ELSE InBracket(c, rest)

(* jr_IsGlobMatch, and jr_glob_match_after_star, which tries the pattern   *)
(* behind the star at every place of the text. The arguments: whether the  *)
(* text is at its beginning, whether patterns match "/", and a leading     *)
(* dot.                                                                    *)
RECURSIVE IsGlobMatch(_, _, _, _, _), MatchAfterStar(_, _, _)
IsGlobMatch(t, p, begins, slashes, dot) ==
  IF p = <<>> THEN t = <<>>
  ELSE LET c == p[1]
           rest == Tail(p)
           hidden == t # <<>> /\ begins /\ t[1] = "." /\ ~dot
           on(q) == IsGlobMatch(Tail(t), q, FALSE, slashes, dot) IN
    /\ t # <<>> /\ t[1] = "/" /\ ~slashes => c = "/"
    /\ CASE c = "?"  -> t # <<>> /\ ~hidden /\ on(rest)
         [] c = "*"  -> ~hidden /\ MatchAfterStar(t, rest, slashes)
         [] c = "\\" -> t # <<>> /\ rest # <<>> /\ t[1] = rest[1] /\ on(Tail(rest))
         [] c = "["  ->
              LET not == rest # <<>> /\ rest[1] \in {"!", "^"}
                  set == InBracket(t[1], IF not THEN Tail(rest) ELSE rest) IN
              t # <<>> /\ set.ok /\ set.in = ~not /\ on(set.rest)
         [] OTHER    -> t # <<>> /\ t[1] = c /\ on(rest)

MatchAfterStar(text, pattern, slashes) ==
  LET wild == {i \in 1 .. Len(pattern) : \A j \in 1 .. i : pattern[j] \in {"?", "*"}}
      skip == Cardinality({i \in wild : pattern[i] = "?"})
      p == TX_From(pattern, Cardinality(wild) + 1)
      t == TX_From(text, skip + 1)
      first == IF p # <<>> /\ p[1] = "\\" /\ Len(p) > 1 THEN p[2] ELSE p[1] IN
  /\ skip <= Len(text)
  /\ IF p = <<>> THEN slashes \/ ~Contains(text, "/")
     ELSE \E i \in 1 .. Len(t) :
            /\ slashes \/ \A j \in 1 .. i - 1 : t[j] # "/"
            /\ p[1] = "[" \/ t[i] = first
            /\ IsGlobMatch(TX_From(t, i), p, TRUE, slashes, FALSE)

(* jr_GlobPatternOffset, as far as jr_HasGlobPatternChars looks at it: a   *)
(* set counts when every bracket that was opened has been closed.          *)
RECURSIVE GlobPatternFrom(_, _, _)
GlobPatternFrom(p, i, open) ==
  /\ i <= Len(p)
  /\ CASE p[i] \in {"?", "*"}      -> TRUE
       [] p[i] = "["               -> GlobPatternFrom(p, i + 1, open + 1)
       [] p[i] = "]" /\ open > 0   -> open = 1 \/ GlobPatternFrom(p, i + 1, open - 1)
       [] p[i] = "\\"              -> GlobPatternFrom(p, i + 2, open)
       [] OTHER                    -> GlobPatternFrom(p, i + 1, open)
HasGlobPatternChars(p) == GlobPatternFrom(p, 1, 0)
-----------------------------------------------------------------------------
(* jr_VectorCreateFromDirectoryNameAndPattern: the names in a directory    *)
(* that match; a path that is no directory has none ("none" and an error   *)
(* are told apart by the caller). A hidden name is passed over unless the  *)
(* pattern itself begins with the dot: a set or an escape does not do.     *)
(* Directories are those with something in them.                           *)
NamesMatching(directory, pattern) ==
  {path \in TX_Tree : /\ Front(path) = directory
                      /\ Last(path)[1] = "." => pattern[1] = "."
                      /\ IsGlobMatch(Last(path), pattern, TRUE, FALSE, FALSE)}

(* jr_VectorCreateFromCshLikeNameExpansion: the pattern of the last name   *)
(* is matched in every directory that the path before it expands to. A     *)
(* directory without pattern characters, which are looked for in its whole *)
(* path, is taken as it is.                                                *)
DirectoryName(names) == FlattenSeq([i \in DOMAIN names |-> Append(names[i], "/")])

RECURSIVE NameExpansion(_)
NameExpansion(patterns) ==
  LET before == Front(patterns)
      directories ==
        IF HasGlobPatternChars(DirectoryName(before)) THEN NameExpansion(before) ELSE {before} IN
  UNION {NamesMatching(d, Last(patterns)) : d \in directories}
-----------------------------------------------------------------------------
(* jr_VectorizeIntoWords, ...WithSkipSeparators and ...WithQuotes: a place *)
(* for each word but one; what is left goes to the last place as it is.    *)
(* ScannedWord is the length of the first word, and the character that the *)
(* next one finds before it; a quote inside other quotes opens a deeper    *)
(* level (64 levels are told apart; fewer are used here).                  *)
TX_White == {" "}
TX_Ends(how) ==
  CASE how = "words" -> {" ", ","} [] how = "skip" -> {" ", ","} [] how = "quotes" -> {","}

RECURSIVE ScannedWord(_, _, _, _, _)
ScannedWord(how, s, i, quotes, last) ==
  IF i > Len(s) \/ (s[i] \in TX_Ends(how) /\ quotes = <<>>) THEN [length |-> i - 1, last |-> last]
  ELSE LET c == s[i]
           stack == IF how # "quotes" \/ c \notin {"'", "\""} \/ last = "\\" THEN quotes
                    ELSE IF quotes # <<>> /\ Last(quotes) = c THEN Front(quotes)
                    ELSE Append(quotes, c) IN
       ScannedWord(how, s, i + 1, stack, IF last = "\\" THEN "none" ELSE c)

Skipped(s, chars) ==
  TX_From(s, Cardinality({i \in 1 .. Len(s) : \A j \in 1 .. i : s[j] \in chars}) + 1)
TX_Trimmed(s, chars) == Reverse(Skipped(Reverse(s), chars))

(* A quoted word loses its quotes. When it is a single quote, its length   *)
(* gets negative, and what is copied is undefined.                         *)
Undefined == <<"undefined">>
TX_Word(how, w) ==
  IF how # "quotes" THEN w
  ELSE LET t == TX_Trimmed(w, TX_White) IN
       IF t = <<>> \/ t[1] \notin {"'", "\""} \/ Last(t) # t[1] THEN t
       ELSE IF Len(t) = 1 THEN Undefined ELSE SubSeq(t, 2, Len(t) - 1)

(* The separators behind a word.                                           *)
PastSeparators(how, s) ==
  CASE how = "words"  -> Skipped(s, {" ", ","})
    [] how = "quotes" -> Skipped(Tail(s), TX_White)
    [] how = "skip"   ->
         LET t == Skipped(s, TX_White) IN
         IF t # <<>> /\ t[1] = "," THEN Skipped(Tail(t), TX_White) ELSE t

RECURSIVE WordsFrom(_, _, _, _)
WordsFrom(how, s, last, places) ==
  LET scan == ScannedWord(how, s, 1, <<>>, last)
      behind == TX_From(s, scan.length + 1)
      rest == IF behind = <<>> THEN <<>> ELSE PastSeparators(how, behind) IN
  IF places = 1 THEN [words |-> <<>>, left |-> <<s>>]
  ELSE IF rest = <<>> THEN [words |-> <<TX_Word(how, SubSeq(s, 1, scan.length))>>, left |-> <<>>]
  ELSE LET r == WordsFrom(how, rest, scan.last, places - 1) IN
       [r EXCEPT !.words = <<TX_Word(how, SubSeq(s, 1, scan.length))>> \o @]

TX_Leading(how) == IF how = "words" THEN {" ", ","} ELSE TX_White
Vectorize(how, str, places) ==
  LET s == Skipped(str, TX_Leading(how)) IN
  IF s = <<>> THEN [words |-> <<>>, left |-> <<>>] ELSE WordsFrom(how, s, "none", places)

(* jr_VectorCreateWith...: the vector is doubled while there is a string   *)
(* in its last place, and the function goes on with that. The mutant does  *)
(* not go on.                                                              *)
RECURSIVE VectorFrom(_, _, _, _)
VectorFrom(how, str, used, size) ==
  LET r == Vectorize(how, str, size - used) IN
  IF r.left = <<>> THEN r.words
  ELSE r.words \o VectorFrom(how, r.left[1], size - 1, 2 * size)

VectorOnce(how, str) == Vectorize(how, str, TX_FirstSize).words
VectorCreate(how, str) == VectorFrom(how, str, 0, TX_FirstSize)

(* What lies between certain characters.                                   *)
TX_Split(s, chars) ==
  FoldLeft(LAMBDA a, c : IF c \in chars THEN Append(a, <<>>)
                         ELSE [a EXCEPT ![Len(a)] = Append(@, c)], <<<<>>>>, s)

(* The same in place: the vector points into the string, where a null      *)
(* takes the place of the first separator behind each word but the one     *)
(* that fills the last place. An empty field at the end gets no null.      *)
RECURSIVE WordsInPlace(_, _, _, _, _)
WordsInPlace(text, i, begin, vector, places) ==
  IF i <= Len(text) /\ text[i] \notin TX_Ends("words")
  THEN WordsInPlace(text, i + 1, IF begin = 0 THEN i ELSE begin, vector, places)
  ELSE IF begin = 0 /\ i <= Len(text) THEN WordsInPlace(text, i + 1, 0, vector, places)
  ELSE IF begin # 0 /\ i <= Len(text) /\ Len(vector) < places - 1
  THEN WordsInPlace([text EXCEPT ![i] = "null"], i + 1, 0, Append(vector, begin), places)
  ELSE [text |-> text, vector |-> vector \o (IF begin = 0 THEN <<>> ELSE <<begin>>)]

RECURSIVE FieldsInPlace(_, _, _, _, _)
FieldsInPlace(text, i, begin, vector, places) ==
  LET next == Len(text) + 1 - Len(PastSeparators("skip", TX_From(text, i)))
      ended == [text EXCEPT ![i] = "null"] IN
  IF i <= Len(text) /\ text[i] \notin TX_Ends("skip")
  THEN FieldsInPlace(text, i + 1, begin, vector, places)
  ELSE IF Len(vector) < places - 1 /\ next <= Len(text)
  THEN FieldsInPlace(ended, next, next, Append(vector, begin), places)
  ELSE [text |-> IF Len(vector) < places - 1 /\ begin < i /\ i <= Len(text) THEN ended ELSE text,
        vector |-> Append(vector, begin)]

VectorizeInPlace(how, str, places) ==
  LET first == Len(str) + 1 - Len(Skipped(str, TX_White))
      r == IF how = "words" THEN WordsInPlace(str, 1, 0, <<>>, places)
           ELSE IF first > Len(str) THEN [text |-> str, vector |-> <<>>]
           ELSE FieldsInPlace(str, first, first, <<>>, places) IN
  [k \in DOMAIN r.vector |-> TX_Split(TX_From(r.text, r.vector[k]), {"null"})[1]]
-----------------------------------------------------------------------------
(* jr_StringEncodeForURL: other characters than letters, digits and some   *)
(* signs become "%" and two digits, which for bytes that are negative as a *)
(* char are eight. The mutant prints no leading zero. jr_StringEncode-     *)
(* ForQuotes leaves other characters as they are.                          *)
Percent == 37
HexDigit(d) == IF d < 10 THEN 48 + d ELSE 55 + d
HexDigitsShort(c) == IF c < 16 THEN <<HexDigit(c)>> ELSE <<HexDigit(c \div 16), HexDigit(c % 16)>>
HexDigits(c) ==
  (IF c < 128 THEN <<>> ELSE [i \in 1 .. 6 |-> HexDigit(15)])
    \o <<HexDigit(c \div 16), HexDigit(c % 16)>>
EncodedForURL(s, plain) ==
  FlattenSeq([i \in 1 .. Len(s) |->
    IF s[i] \in plain THEN <<s[i]>> ELSE <<Percent>> \o HexDigits(s[i])])

(* jr_StringDecodeFromURLWithFixReturn. A character is put down when the   *)
(* next one is looked at; a return waits for it, and goes when that is a   *)
(* newline. At the end the return is put down before the last character    *)
(* is looked at.                                                           *)
IsHexDigit(c) == c \in (48 .. 57) \cup (65 .. 70) \cup (97 .. 102)
DigitValue(c) == IF c < 65 THEN c - 48 ELSE IF c < 97 THEN c - 55 ELSE c - 87
RECURSIVE Decoding(_, _, _, _, _)
Decoding(s, hex, digits, saw, fix) ==
  LET flushed == IF digits < 0 THEN [out |-> <<>>, saw |-> saw]
                 ELSE IF hex = 13 /\ fix THEN [out |-> <<>>, saw |-> TRUE]
                 ELSE [out |-> (IF saw /\ hex # 10 THEN <<13>> ELSE <<>>) \o <<hex>>, saw |-> FALSE] IN
  IF s = <<>> THEN (IF saw THEN <<13>> ELSE <<>>) \o (IF digits < 0 THEN <<>> ELSE <<hex>>)
  ELSE IF IsHexDigit(s[1]) /\ digits \in 0 .. 1
       THEN Decoding(Tail(s), 16 * hex + DigitValue(s[1]), digits + 1, saw, fix)
  ELSE IF s[1] = Percent THEN flushed.out \o Decoding(Tail(s), 0, 0, flushed.saw, fix)
  ELSE flushed.out \o (IF flushed.saw THEN <<13>> ELSE <<>>) \o <<s[1]>>
         \o Decoding(Tail(s), 0, -1, FALSE, fix)

DecodedFromURL(s, fix) == Decoding(s, 0, -1, FALSE, fix)
-----------------------------------------------------------------------------
(* jr_CountSubByteMatches: one byte too many is passed over behind a       *)
(* match. jr_ReplaceSubByteMatches allocates for that number, and replaces *)
(* every match.                                                            *)
MatchAt(s, i, old) == i + Len(old) - 1 <= Len(s) /\ SubSeq(s, i, i + Len(old) - 1) = old

RECURSIVE CountMatches(_, _, _)
CountMatches(s, i, old) ==
  IF i + Len(old) - 1 > Len(s) THEN 0
  ELSE IF MatchAt(s, i, old) THEN 1 + CountMatches(s, i + Len(old) + 1, old)
  ELSE CountMatches(s, i + 1, old)
CountSubByteMatches(s, old) ==
  IF old = <<>> THEN (IF s = <<>> THEN 1 ELSE Len(s)) ELSE CountMatches(s, 1, old)

AllocatedFor(s, old, new) == Len(s) + CountSubByteMatches(s, old) * (Len(new) - Len(old))

RECURSIVE ReplacedFrom(_, _, _, _)
ReplacedFrom(s, i, old, new) ==
  IF i > Len(s) THEN <<>>
  ELSE IF old = <<>> THEN new \o <<s[i]>> \o ReplacedFrom(s, i + 1, old, new)
  ELSE IF MatchAt(s, i, old) THEN new \o ReplacedFrom(s, i + Len(old), old, new)
  ELSE <<s[i]>> \o ReplacedFrom(s, i + 1, old, new)
ReplaceSubByteMatches(s, old, new) == ReplacedFrom(s, 1, old, new)
-----------------------------------------------------------------------------
(* Comparing strings; of a result only the sign is looked at. jr_canon_-   *)
(* strcmp leaves white space out, but for that between two characters of   *)
(* words, of which one string has some and the other none. jr_canon_is_-   *)
(* prefix goes on like that to the end of its first string.                *)
TX_Codes == <<" ", "1", ":", "A", "X", "a", "x">>
TX_Alnum == {"1", "A", "X", "a", "x"}
Uppered(s) == [i \in DOMAIN s |-> CASE s[i] = "a" -> "A" [] s[i] = "x" -> "X" [] OTHER -> s[i]]
Lowered(s) == [i \in DOMAIN s |-> CASE s[i] = "A" -> "a" [] s[i] = "X" -> "x" [] OTHER -> s[i]]
FirstCode(s) == IF s = <<>> THEN 0 ELSE CHOOSE k \in DOMAIN TX_Codes : TX_Codes[k] = s[1]
WordBegins(s) == s # <<>> /\ s[1] \in TX_Alnum

CanonDiff(s, t, inword) ==
  LET a == Skipped(s, TX_White) b == Skipped(t, TX_White) IN
  IF inword /\ WordBegins(a) /\ WordBegins(b) /\ (a = s) # (b = t)
  THEN IF a = s THEN -1 ELSE 1
  ELSE FirstCode(Lowered(a)) - FirstCode(Lowered(b))

RECURSIVE CanonStrcmp(_, _, _)
CanonStrcmp(s, t, inword) ==
  LET a == Skipped(s, TX_White) diff == CanonDiff(s, t, inword) IN
  IF diff # 0 \/ a = <<>> THEN diff
  ELSE CanonStrcmp(Tail(a), Tail(Skipped(t, TX_White)), WordBegins(a))

RECURSIVE CanonIsPrefix(_, _, _)
CanonIsPrefix(s, t, inword) ==
  LET a == Skipped(s, TX_White) IN
  \/ a = <<>>
  \/ /\ CanonDiff(s, t, inword) = 0
     /\ CanonIsPrefix(Tail(a), Tail(Skipped(t, TX_White)), WordBegins(a))

(* jr_stricmp, and jr_strrwordcasecmp, which looks for the beginning of    *)
(* the last word, but not at the first character.                          *)
RECURSIVE TX_Strcmp(_, _)
TX_Strcmp(s, t) ==
  IF s = <<>> \/ FirstCode(s) # FirstCode(t) THEN FirstCode(s) - FirstCode(t)
  ELSE TX_Strcmp(Tail(s), Tail(t))
Stricmp(s, t) == TX_Strcmp(Uppered(s), Uppered(t))

LastWord(s) ==
  LET blanks == {i \in 2 .. Len(s) : s[i] \in TX_White} IN
  TX_From(s, CHOOSE i \in 1 .. Len(s) + 1 :
    /\ i = 1 \/ i - 1 \in blanks
    /\ \A j \in blanks : j < i)
StrRWordCaseCmp(s, t) == TX_Strcmp(Lowered(LastWord(s)), Lowered(LastWord(t)))

(* jr_BinarySearchInsertPtr with jr_stricmp: the index of an element that  *)
(* equals the key, or before which it belongs. jr_BinarySearch and         *)
(* jr_LinearSearch give -1 for what is not there.                          *)
RECURSIVE SearchInsert(_, _, _, _)
SearchInsert(list, key, low, high) ==
  LET mid == low + (high - low) \div 2
      compval == Stricmp(key, list[mid + 1]) IN
  IF low = high THEN low
  ELSE IF compval = 0 THEN mid
  ELSE IF compval > 0 THEN SearchInsert(list, key, mid + 1, high)
  ELSE SearchInsert(list, key, low, mid)
BinarySearchInsert(list, key) == SearchInsert(list, key, 0, Len(list))
BinarySearch(list, key) ==
  LET index == BinarySearchInsert(list, key) IN
  IF index < Len(list) /\ Stricmp(key, list[index + 1]) = 0 THEN index ELSE -1
LinearSearch(list, key) ==
  LET found == {i \in 1 .. Len(list) : Stricmp(key, list[i]) = 0} IN
  IF found = {} THEN -1 ELSE (CHOOSE i \in found : \A j \in found : i <= j) - 1
-----------------------------------------------------------------------------
(* What a pattern matches, said without trying: any number of characters   *)
(* for a star, one for "?" and for a set.                                  *)
RECURSIVE SetHas(_, _)
SetHas(c, s) ==
  IF s = <<>> THEN FALSE
  ELSE IF Len(s) >= 3 /\ s[2] = "-" THEN TX_Between(c, s[1], s[3]) \/ SetHas(c, TX_From(s, 4))
  ELSE c = s[1] \/ SetHas(c, Tail(s))

PieceMatches(piece, t) ==
  CASE piece = <<"*">> -> TRUE
    [] piece = <<"?">> -> Len(t) = 1
    [] piece[1] = "[" /\ piece[2] = "!" -> Len(t) = 1 /\ ~SetHas(t[1], SubSeq(piece, 3, Len(piece) - 1))
    [] piece[1] = "[" -> Len(t) = 1 /\ SetHas(t[1], SubSeq(piece, 2, Len(piece) - 1))
    [] piece[1] = "\\" -> t = <<piece[2]>>
    [] OTHER -> t = piece

RECURSIVE PiecesMatch(_, _)
PiecesMatch(pieces, t) ==
  IF pieces = <<>> THEN t = <<>>
  ELSE \E i \in 0 .. Len(t) :
         PieceMatches(pieces[1], SubSeq(t, 1, i)) /\ PiecesMatch(Tail(pieces), TX_From(t, i + 1))

NameMatches(pieces, name) ==
  /\ PiecesMatch(pieces, name)
  /\ name # <<>> /\ name[1] = "." /\ pieces # <<>> => pieces[1] \notin {<<"*">>, <<"?">>}

(* A pattern matches the names that its parts match, one after the other,  *)
(* whatever a star had to give up for the parts behind it; and a path      *)
(* expands to the paths whose names all match, no matter which of its      *)
(* directories are patterns, but for two things: a hidden name needs a     *)
(* pattern with the dot in front, and the directories before the first one *)
(* with a pattern in it (a set with a bracket inside is none) are taken    *)
(* letter by letter. (Names have no "/"; sets have no escapes.)            *)
TX_GlobTrue ==
  /\ tx_kind = "pattern" =>
       \A name \in TX_Names :
         IsGlobMatch(name, tx_text, TRUE, FALSE, FALSE) <=> NameMatches(tx_pieces, name)
  /\ tx_kind = "path" /\ tx_pieces # <<>> =>
       LET literal(i) == /\ i < Len(tx_pieces)
                         /\ ~HasGlobPatternChars(DirectoryName(SubSeq(tx_pieces, 1, i)))
           fits(name, i) ==
             IF literal(i) THEN name = tx_pieces[i]
             ELSE /\ name[1] = "." => tx_pieces[i][1] = "."
                  /\ IsGlobMatch(name, tx_pieces[i], TRUE, FALSE, FALSE) IN
       NameExpansion(tx_pieces) =
         {path \in TX_Tree : /\ Len(path) = Len(tx_pieces)
                             /\ \A i \in 1 .. Len(path) : fits(path[i], i)}

(* The words and the fields of a string.                                   *)
TX_WordsOf(s, chars) == SelectSeq(TX_Split(s, chars), LAMBDA w : w # <<>>)
TX_FieldsOf(s) ==
  LET fields == TX_Split(s, {","}) IN
  IF Skipped(Last(fields), TX_White) = <<>> THEN Front(fields) ELSE fields

(* A string is split into the same words whether they fit into the first   *)
(* vector or it had to grow in the middle of the string; an empty field is *)
(* a word, white space between words is none. Splitting in place finds the *)
(* same, in as many places as there are. (A backslash before a separator   *)
(* hides the quote behind it, unless the vector grows there: that string   *)
(* is left out, and so are a single quote, and an empty field at the end   *)
(* of what is split in place.)                                             *)
TX_WordsWhole ==
  tx_kind = "words" =>
    LET escapes == \E i \in 1 .. Len(tx_text) - 1 : tx_text[i] = "\\" /\ tx_text[i + 1] = ","
        quoted == \E i \in 1 .. Len(tx_text) : tx_text[i] \in {"'", "\"", "\\"} IN
    /\ \A how \in {"words", "skip", "quotes"} :
         ~(how = "quotes" /\ escapes) =>
           VectorCreate(how, tx_text) = Vectorize(how, tx_text, 2 * Len(tx_text) + 2).words
    /\ VectorCreate("words", tx_text) = TX_WordsOf(tx_text, {" ", ","})
    /\ VectorCreate("skip", tx_text) =
         FlattenSeq([i \in 1 .. Len(TX_FieldsOf(tx_text)) |->
           LET w == TX_WordsOf(TX_FieldsOf(tx_text)[i], TX_White) IN
           IF w = <<>> THEN <<<<>>>> ELSE w])
    /\ ~quoted => VectorCreate("quotes", tx_text) =
         [i \in 1 .. Len(TX_FieldsOf(tx_text)) |->
           TX_Trimmed(Skipped(TX_FieldsOf(tx_text)[i], TX_White), TX_White)]
    /\ ~quoted => \A how \in {"words", "skip"}, places \in 1 .. Len(tx_text) + 2 :
         LET r == Vectorize(how, tx_text, places) IN
         how = "words" \/ r.left # <<>> \/ r.words = <<>> \/ Last(r.words) # <<>> =>
           VectorizeInPlace(how, tx_text, places) = r.words \o r.left

(* What was encoded is decoded again: where it goes between URLs, between  *)
(* quotes, and when returns before newlines are taken out (but the one at  *)
(* the end of the string stays, and of two returns one is lost). Bytes     *)
(* above 127 are left out: they get digits that are read as text. What is  *)
(* replaced fits the memory that was allocated, unless one match follows   *)
(* another, which is not counted.                                          *)
WithoutReturns(s) ==
  FlattenSeq([i \in 1 .. Len(s) |->
    IF s[i] = 13 /\ i < Len(s) - 1 /\ s[i + 1] = 10 THEN <<>> ELSE <<s[i]>>])
ReturnsFollow(s) == \E i \in 1 .. Len(s) - 1 : s[i] = 13 /\ s[i + 1] = 13
TX_CodesReturn ==
  /\ tx_kind = "bytes" /\ (\A i \in 1 .. Len(tx_text) : tx_text[i] < 128) =>
       \A plain \in {{65, 36}, {65, 32, 36}} :
         /\ DecodedFromURL(EncodedForURL(tx_text, plain), FALSE) = tx_text
         /\ ~ReturnsFollow(tx_text) =>
              DecodedFromURL(EncodedForURL(tx_text, plain), TRUE) = WithoutReturns(tx_text)
  /\ tx_kind = "source" =>
       \A r \in TX_Replaced :
         LET old == r[1] new == r[2]
             follow == \E i \in 1 .. Len(tx_text) :
                         old # <<>> /\ MatchAt(tx_text, i, old) /\ MatchAt(tx_text, i + Len(old), old) IN
         ~follow /\ tx_text # <<>> =>
           Len(ReplaceSubByteMatches(tx_text, old, new)) = AllocatedFor(tx_text, old, new)

(* The words of a string in small letters, with what stands between them,  *)
(* and a blank only between two of them.                                   *)
CanonForm(s) ==
  LET At(i) == [char |-> Lowered(s)[i], blank |-> i > 1 /\ s[i - 1] \in TX_White]
      kept == SelectSeq([i \in DOMAIN s |-> At(i)], LAMBDA c : c.char \notin TX_White) IN
  FlattenSeq([i \in DOMAIN kept |->
    IF i > 1 /\ kept[i].blank /\ {kept[i].char, kept[i - 1].char} \subseteq TX_Alnum
    THEN <<" ", kept[i].char>> ELSE <<kept[i].char>>])

(* Strings are canonically the same just when their words and signs are    *)
(* the same, in either order, and one is a prefix of another when its      *)
(* words and signs begin it. The last word is what is behind the last      *)
(* blank (unless that is the first character). A list that was sorted is   *)
(* split by every key where the search says, and the key is found by       *)
(* halves just when it is found from the front.                            *)
TX_ComparesTrue ==
  tx_kind = "compared" =>
    LET strings == ToSet(tx_pieces)
        list == SortSeq(tx_pieces, LAMBDA s, t : Stricmp(s, t) < 0)
        Blank(s) == s # <<>> /\ s[1] \in TX_White IN
    /\ \A s, t \in strings :
         /\ CanonStrcmp(s, t, FALSE) = -CanonStrcmp(t, s, FALSE)
         /\ CanonStrcmp(s, t, FALSE) = 0 <=> CanonForm(s) = CanonForm(t)
         /\ CanonIsPrefix(s, t, FALSE) <=> IsPrefix(CanonForm(s), CanonForm(t))
         /\ ~Blank(s) /\ ~Blank(t) =>
              (StrRWordCaseCmp(s, t) = 0 <=>
                 Last(TX_Split(Lowered(s), TX_White)) = Last(TX_Split(Lowered(t), TX_White)))
    /\ \A key \in TX_Pieces["compared"] :
         LET index == BinarySearchInsert(list, key) IN
         /\ \A i \in 1 .. Len(list) :
              IF i <= index THEN Stricmp(list[i], key) <= 0 ELSE Stricmp(list[i], key) >= 0
         /\ BinarySearch(list, key) >= 0 <=> LinearSearch(list, key) >= 0
         /\ LinearSearch(list, key) >= 0 <=> \E i \in DOMAIN list : Lowered(list[i]) = Lowered(key)
=============================================================================
