---------------------------- MODULE MCContainers ----------------------------
(***************************************************************************)
(* Instances for TLC of what libjr keeps in memory: its containers, sets,  *)
(* wide integers, the stacks of its exceptions, texts and their codes, the *)
(* symbol table, and the tree of an SGML document. They share no state, so *)
(* a behaviour works on one of them, its subject, and the others stay as   *)
(* they begin: each is explored as if it were alone.                       *)
(*                                                                         *)
(* The hash table has four keys, two of them with the same hash value and  *)
(* one with a negative one, and buckets that double from three to five, so *)
(* that every list has several entries and grows.                          *)
(***************************************************************************)
EXTENDS HTable, AVLTree, RingBuffer, Arrays, NumberSets, WideInts, Exceptions,
  Text, SymTab, Formats, Esis

MCHash == [k \in Keys |-> CASE k = 1 -> 1 [] k = 2 -> 4 [] k = 3 -> -4 [] OTHER -> 0]

MCVectors == {<<"x">>, <<"y">>, <<"x", "y">>, <<"y", "x", "y">>}
MCNumbers == {-4, -1, 2}

MCFields ==
  {[at |-> 0, bits |-> 3], [at |-> 3, bits |-> 5], [at |-> 8, bits |-> 4],
   [at |-> 16, bits |-> 9], [at |-> 36, bits |-> 16]}

MCPieces == [
  pattern |-> {<<"a">>, <<"*">>, <<"?">>, <<"[", "a", "]">>, <<"[", "!", "a", "]">>, <<"[", "a", "-", "c", "]">>, <<"[", "]", "-", "]">>, <<".">>, <<"\\", "*">>, <<"[",".","b","]">>},
  path |-> {<<"a">>, <<"*">>, <<"?", "b">>, <<".", "*">>, <<"[", "a", "b", "]">>, <<"[", "[", "a", "]">>,
            <<"[", ".", "]", "b">>, <<"\\", "a">>},
  words |-> {<<"a">>, <<" ">>, <<",">>, <<"'">>, <<"\"">>, <<"\\">>},
  bytes |-> {<<65>>, <<37>>, <<13>>, <<10>>, <<32>>, <<200>>},
  source |-> {<<"a">>, <<"b">>},
  compared |-> {<<>>, <<"x">>, <<"x", "1">>, <<"X", "1">>, <<"X", " ", "1">>, <<"x", ":">>, <<" ", "x">>,
                <<"a", " ", " ", "X">>, <<"x", " ", ":", "1">>, <<"x", "A", " ">>}]
MCMax == [pattern |-> 4, path |-> 3, words |-> 6, bytes |-> 4, source |-> 6, compared |-> 3]
MCNames == UNION {[1 .. n -> {"a", "b", "."}] : n \in 0 .. 3} \cup {<<"*">>, <<"a", "*">>}
MCTree == {<<<<"a">>>>, <<<<"b">>>>, <<<<".", "a">>>>, <<<<"a">>, <<"a">>>>, <<<<"a">>, <<"a", "b">>>>, <<<<"b">>, <<"a">>>>,
  <<<<".", "a">>, <<"b">>>>, <<<<"a">>, <<"a">>, <<"b">>>>, <<<<"b">>, <<"a">>, <<"a">>>>, <<<<"b">>, <<"a">>, <<".", "b">>>>, <<<<"a">>, <<"a", "b">>, <<"a">>>>}
MCReplaced == {<<<<"a">>, <<>>>>, <<<<"a", "b">>, <<"a", "b", "a">>>>, <<<<>>, <<"b">>>>, <<<<"a", "a">>, <<"b">>>>, <<<<"b">>, <<"a", "a">>>>}

MCColumns(text, columns, bounds) == [how |-> "columns", text |-> text, columns |-> columns, bounds |-> bounds]
MCWord(text, bounds) == [how |-> "word", text |-> text, bounds |-> bounds]
MCUntil(text, bounds) == [how |-> "until", text |-> text, bounds |-> bounds]
MCWritten == [
  clause |-> {"u", "g", "o", "+", "-", "=", "r", "x", "s"},
  path |-> {"/", ".", "a", "$"},
  string |-> {1, 7, 10, 48, 56, 65, 92, 127, 200},
  record |-> {MCColumns(<<"a">>, 2, <<>>), MCColumns(<<"a", "b">>, 2, <<2>>), MCColumns(<<"b", ",">>, 3, <<1, 0>>),
              MCWord(<<"a", ",">>, <<>>), MCWord(<<"b", "a">>, <<2>>),
              MCUntil(<<"a", " ", "b">>, <<>>), MCUntil(<<>>, <<2>>)},
  types |-> {<<>>, <<"s", "x">>, <<"S", "X", "jpeG">>, <<"t", "x", "jpeG">>, <<"t">>, <<"t", "Jpeg">>},
  time |-> {0}]
MCWrittenMax == [clause |-> 4, path |-> 6, string |-> 4, record |-> 4, types |-> 4, time |-> 1]
MCLower ==
  [n \in {"s", "S", "t", "x", "X", "jpeg", "Jpeg", "jpeG"} |->
    CASE n = "S" -> "s" [] n = "X" -> "x" [] n \in {"Jpeg", "jpeG"} -> "jpeg" [] OTHER -> n]
MCBucket ==
  [n \in DOMAIN MCLower |->
    CASE n = "s" -> 7 [] n = "S" -> 2 [] n = "t" -> 8 [] n = "x" -> 3 [] n = "X" -> 7
      [] n = "jpeg" -> 5 [] n \in {"Jpeg", "jpeG"} -> 0]
MCPermissions ==
  {{}, {<<"u", "r">>, <<"u", "w">>, <<"g", "r">>},
   {<<"u", "x">>, <<"u", "s">>, <<"g", "x">>, <<"g", "s">>, <<"o", "x">>, <<"o", "r">>}}
MCVariables == [n \in {<<"$">>, <<"$", "a">>} |-> IF n = <<"$">> THEN <<"/", "a">> ELSE <<"a", "/", "b", "/">>]
MCYears == 70 .. 199

MCAttributes ==
  {[name |-> "x", value |-> "v"], [name |-> "x", value |-> "w"], [name |-> "y", value |-> "v"]}

MCLengths == {<<>>, <<3>>}
MCFieldNames == {<<>>, <<"x">>}
MCArray(stars, list) == [function |-> FALSE, stars |-> stars, list |-> list, params |-> <<>>]
MCFunction(stars, params) == [function |-> TRUE, stars |-> stars, list |-> <<>>, params |-> params]
MCInt == [word |-> "int", fields |-> <<>>]
MCParam(level) == [name |-> "y", base |-> MCInt, levels |-> <<level>>]
MCLevels ==
  {MCArray(0, <<>>), MCArray(2, <<>>), MCArray(0, <<"3">>), MCArray(1, <<"", "12">>),
   MCFunction(0, <<>>), MCFunction(1, <<MCParam(MCArray(0, <<>>)), MCParam(MCArray(1, <<"3">>))>>),
   MCFunction(0, <<[name |-> "x", base |-> MCInt, levels |-> <<MCFunction(1, <<>>), MCArray(0, <<"3">>)>>]>>)}
MCBases ==
  {MCInt, [word |-> "", fields |-> <<MCParam(MCArray(1, <<>>)),
     [name |-> "x", base |-> [word |-> "", fields |-> <<MCParam(MCArray(0, <<"3">>))>>], levels |-> <<MCArray(0, <<>>)>>]>>]}
MCWidths == [w \in {"int", "x", "y", "3", "12", "struct {"} |->
  CASE w = "int" -> 3 [] w = "12" -> 2 [] w = "struct {" -> 9 [] OTHER -> 1]

MCStringRanks == ("" :> 0 @@ "int" :> 1 @@ "x" :> 2 @@ "y" :> 3)
MCNamesOfBases == <<"int", "x", "x">>
MCDimensions ==
  LET dim(n, text) == [num |-> n, str |-> text]
  IN {<<>>, <<dim(3, "3")>>, <<dim(3, "1+2")>>, <<dim(2, "2"), dim(3, "3")>>, <<dim(3, "3"), dim(2, "2")>>}
MCFieldsCompared ==
  LET field(name, bits, list) ==
        [name |-> name, storage |-> 0, bits |-> bits,
         type |-> [kind |-> "variable", stars |-> 0, base |-> 1, list |-> list]]
  IN {field("", 0, <<>>), field("x", 0, <<>>), field("x", 2, <<>>),
      field("x", 0, <<[num |-> 3, str |-> "3"]>>)}
MCEnums == [name : {"x", "y"}, value : {0, 1}]

VARIABLE subject

table_vars == vars
more_vars == <<fm_vars, es_vars>>

suite_vars ==
  <<subject, table_vars, tree_vars, ring_vars, pm_vars, al_vars, na_vars,
    hp_vars, ex_vars, st_vars, wi_vars, tx_vars, sm_vars, more_vars>>

Subjects ==
  {"table", "tree", "ring", "descriptors", "array", "nodes", "heap",
   "exceptions", "int_sets", "bit_sets", "wide_ints", "signed_ints",
   "bit_fields", "text", "symbols", "declarations", "expressions",
   "formats", "esis"}

SuiteInit ==
  /\ subject \in Subjects
  /\ TX_Init /\ SM_Init /\ FM_Init /\ ES_Init
  /\ Init /\ TreeInit /\ CB_Init /\ PM_Init /\ AL_Init /\ HP_Init /\ EX_Init
  /\ ST_Init /\ WI_Init
  /\ (subject # "tree" => keyed)
  /\ NA_Init /\ (subject # "nodes" => na_array.base = CHOOSE b \in NA_Bases : TRUE)
  /\ subject # "text" => tx_kind = "words"
  /\ subject # "formats" => fm_kind = "record"

TableStep ==
  /\ subject = "table" /\ Next
  /\ UNCHANGED <<subject, tree_vars, ring_vars, pm_vars, al_vars, na_vars,
                 hp_vars, ex_vars, st_vars, wi_vars, tx_vars, sm_vars, more_vars>>
TreeStep ==
  /\ subject = "tree" /\ TreeNext
  /\ UNCHANGED <<subject, table_vars, ring_vars, pm_vars, al_vars, na_vars,
                 hp_vars, ex_vars, st_vars, wi_vars, tx_vars, sm_vars, more_vars>>
RingStep ==
  /\ subject = "ring" /\ CB_Next
  /\ UNCHANGED <<subject, table_vars, tree_vars, pm_vars, al_vars, na_vars,
                 hp_vars, ex_vars, st_vars, wi_vars, tx_vars, sm_vars, more_vars>>
DescriptorStep ==
  /\ subject = "descriptors" /\ PM_Next
  /\ UNCHANGED <<subject, table_vars, tree_vars, ring_vars, al_vars, na_vars,
                 hp_vars, ex_vars, st_vars, wi_vars, tx_vars, sm_vars, more_vars>>
ArrayStep ==
  /\ subject = "array" /\ AL_Next
  /\ UNCHANGED <<subject, table_vars, tree_vars, ring_vars, pm_vars, na_vars,
                 hp_vars, ex_vars, st_vars, wi_vars, tx_vars, sm_vars, more_vars>>
NodesStep ==
  /\ subject = "nodes" /\ NA_Next
  /\ UNCHANGED <<subject, table_vars, tree_vars, ring_vars, pm_vars, al_vars,
                 hp_vars, ex_vars, st_vars, wi_vars, tx_vars, sm_vars, more_vars>>
HeapStep ==
  /\ subject = "heap" /\ HP_Next
  /\ UNCHANGED <<subject, table_vars, tree_vars, ring_vars, pm_vars, al_vars,
                 na_vars, ex_vars, st_vars, wi_vars, tx_vars, sm_vars, more_vars>>
ExceptionStep ==
  /\ subject = "exceptions" /\ EX_Next
  /\ UNCHANGED <<subject, table_vars, tree_vars, ring_vars, pm_vars, al_vars,
                 na_vars, hp_vars, st_vars, wi_vars, tx_vars, sm_vars, more_vars>>
IntSetStep ==
  /\ subject = "int_sets" /\ ST_IntStep
  /\ UNCHANGED <<subject, table_vars, tree_vars, ring_vars, pm_vars, al_vars,
                 na_vars, hp_vars, ex_vars, wi_vars, tx_vars, sm_vars, more_vars>>
BitSetStep ==
  /\ subject = "bit_sets" /\ ST_BitStep
  /\ UNCHANGED <<subject, table_vars, tree_vars, ring_vars, pm_vars, al_vars,
                 na_vars, hp_vars, ex_vars, wi_vars, tx_vars, sm_vars, more_vars>>
WideIntStep ==
  /\ \/ subject = "wide_ints" /\ WI_UnsignedStep
     \/ subject = "signed_ints" /\ WI_SignedStep
     \/ subject = "bit_fields" /\ WI_FieldStep
  /\ UNCHANGED <<subject, table_vars, tree_vars, ring_vars, pm_vars, al_vars,
                 na_vars, hp_vars, ex_vars, st_vars, tx_vars, sm_vars, more_vars>>
TextStep ==
  /\ subject = "text" /\ TX_Next
  /\ UNCHANGED <<subject, table_vars, tree_vars, ring_vars, pm_vars, al_vars,
                 na_vars, hp_vars, ex_vars, st_vars, wi_vars, sm_vars, more_vars>>
SymbolStep ==
  /\ \/ subject = "symbols" /\ SM_TableNext
     \/ subject = "declarations" /\ SM_Declare
     \/ subject = "expressions" /\ SM_NodeNext
  /\ UNCHANGED <<subject, table_vars, tree_vars, ring_vars, pm_vars, al_vars,
                 na_vars, hp_vars, ex_vars, st_vars, wi_vars, tx_vars, more_vars>>
FormatStep ==
  /\ subject = "formats" /\ FM_Next
  /\ UNCHANGED <<subject, table_vars, tree_vars, ring_vars, pm_vars, al_vars,
                 na_vars, hp_vars, ex_vars, st_vars, wi_vars, tx_vars, sm_vars, es_vars>>
EsisStep ==
  /\ subject = "esis" /\ ES_Next
  /\ UNCHANGED <<subject, table_vars, tree_vars, ring_vars, pm_vars, al_vars,
                 na_vars, hp_vars, ex_vars, st_vars, wi_vars, tx_vars, sm_vars, fm_vars>>

SuiteNext ==
  \/ TableStep \/ TreeStep \/ RingStep \/ DescriptorStep \/ ArrayStep
  \/ NodesStep \/ HeapStep \/ ExceptionStep \/ IntSetStep \/ BitSetStep
  \/ WideIntStep \/ TextStep \/ SymbolStep
  \/ FormatStep \/ EsisStep

SuiteSpec == SuiteInit /\ [][SuiteNext]_suite_vars
-----------------------------------------------------------------------------
(* What follows is looked at where its subject is at work; elsewhere it is *)
(* as it began.                                                            *)

(* Array lists are sequences, the lists threaded through arrays of nodes   *)
(* follow them when they move, pointer maps keep categories apart, and all *)
(* lookups in a tree agree with its order.                                 *)
ArraysHold ==
  /\ subject = "tree" => LookupsAgree
  /\ subject = "array" => AL_IsSequence
  /\ subject = "nodes" => NA_ListsFollowNodes
  /\ subject = "descriptors" => PM_DescriptorsApart

(* Sets of integers and of bits are sets, the heap gives the least first,  *)
(* integers of two words are exact, and fields of bits lie apart.          *)
ValuesHold ==
  /\ subject \in {"int_sets", "bit_sets"} => ST_SetsHold
  /\ subject = "heap" => HP_MinFirst
  /\ subject \in {"wide_ints", "signed_ints", "bit_fields"} =>
       WI_Exact /\ WI_SignedExact /\ WI_FieldsApart

(* A pattern finds the names and the paths it matches, a string is split   *)
(* into the same words however the vector grows, what is encoded is        *)
(* decoded again, strings compare as their words do and are found where    *)
(* they were sorted, a clause changes the permissions it names, paths name *)
(* what their parts name, records are read as they were written,           *)
(* extensions keep their types, months follow each other, and the tree of  *)
(* an SGML document is that document.                                      *)
FormatsHold ==
  /\ subject = "text" =>
       TX_GlobTrue /\ TX_WordsWhole /\ TX_CodesReturn /\ TX_ComparesTrue
  /\ subject = "formats" =>
       /\ FM_ClausesTrue /\ FM_PathsTrue /\ FM_EscapesReturn
       /\ FM_RecordsRead /\ FM_FirstTypeStays /\ FM_DaysCounted
  /\ subject = "esis" => ES_TreeTrue
=============================================================================
