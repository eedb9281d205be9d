-------------------------------- MODULE Esis ---------------------------------
(***************************************************************************)
(* The reader of ESIS, the output of an SGML parser (esis_io.cpp), the     *)
(* tree that is built from it (esis_grv.cpp, esis_typ.c), and the lists of *)
(* attributes both keep in one manager (att_mngr.c, att_list.c), which     *)
(* counts the references to every string and finds an attribute by its     *)
(* list and its name.                                                      *)
(*                                                                         *)
(* A command of the input is a record; the names of elements and their     *)
(* keywords, which the tree does not look at, and the positions in         *)
(* messages are left out. Elements are numbered; 0 is what is around all   *)
(* of them, and list 0 the one of the reader. The reader clears itself     *)
(* before the tree makes an object of it, not after that (as               *)
(* jr_ESIS_InputGroveInit does, which leaves no virtual functions).        *)
(***************************************************************************)
EXTENDS Integers, Sequences, SequencesExt, FiniteSets

CONSTANTS
  ES_Attributes,   \* attributes in the input: [name, value]
  ES_MaxErrors,    \* max_num_errors
  ES_MaxCommands   \* bound of the commands that are read

ASSUME EsisAssumption == ES_MaxErrors \in Nat /\ ES_MaxCommands \in Nat

VARIABLES
  es_manager,      \* strings with their references, table of attributes, lists
  es_tree,         \* elements: parent, sub-elements, data
  es_stack,        \* element_stack
  es_reader,       \* phase, num_errors, return_status, is_conforming
  es_commands      \* history: the commands that were read

es_vars == <<es_manager, es_tree, es_stack, es_reader, es_commands>>
-----------------------------------------------------------------------------
(* The manager: strings gives the references of each string, table has the *)
(* keys of the attributes it points to (list and name), lists the          *)
(* attributes themselves, those that were added last in front.             *)
EmptyManager ==
  [strings |-> [s \in {} |-> 0], table |-> {}, lists |-> <<<<>>>>]
ListOf(manager, list) == manager.lists[list + 1]

ManagerAddString(manager, s) ==
  [manager EXCEPT !.strings =
     [t \in DOMAIN @ \cup {s} |->
        (IF t \in DOMAIN @ THEN @[t] ELSE 0) + (IF t = s THEN 1 ELSE 0)]]

(* A string goes with its last reference. In the mutant one reference      *)
(* earlier.                                                                *)
ManagerDeleteStringEarly(manager, s) ==
  [manager EXCEPT !.strings =
     [t \in {u \in DOMAIN @ : u # s \/ @[u] > 2} |-> IF t = s THEN @[t] - 1 ELSE @[t]]]
ManagerDeleteString(manager, s) ==
  [manager EXCEPT !.strings =
     [t \in {u \in DOMAIN @ : u # s \/ @[u] > 1} |-> IF t = s THEN @[t] - 1 ELSE @[t]]]

(* jr_AttributeListAddAttribute: a value takes the place of the old one,   *)
(* a new name is put in front of the list.                                 *)
ReplacedValue(manager, list, a) ==
  LET place == CHOOSE i \in 1 .. Len(ListOf(manager, list)) : ListOf(manager, list)[i].name = a.name
      old == ListOf(manager, list)[place].value IN
  [ManagerAddString(ManagerDeleteString(manager, old), a.value)
     EXCEPT !.lists[list + 1][place].value = a.value]

ListAddAttribute(manager, list, a) ==
  IF <<list, a.name>> \in manager.table THEN ReplacedValue(manager, list, a)
  ELSE [ManagerAddString(ManagerAddString(manager, a.name), a.value)
          EXCEPT !.lists[list + 1] = <<a>> \o @, !.table = @ \cup {<<list, a.name>>}]

(* jr_AttributeListEmpty, and what jr_AttributeListUndo does with a list:  *)
(* the references to its strings stay counted.                             *)
ListEmpty(manager, list) ==
  [manager EXCEPT !.lists[list + 1] = <<>>, !.table = {k \in @ : k[1] # list}]

(* jr_AttributeListDeleteAttribute frees the attribute and leaves the      *)
(* pointer to it in the table.                                             *)
ListDeleteAttribute(manager, list, name) ==
  [manager EXCEPT !.lists[list + 1] = SelectSeq(@, LAMBDA a : a.name # name)]

(* jr_AttributeListGetValue.                                               *)
GetValue(manager, list, name) ==
  IF <<list, name>> \in manager.table
  THEN (CHOOSE a \in ToSet(ListOf(manager, list)) : a.name = name).value ELSE "none"
-----------------------------------------------------------------------------
Element(parent) == [parent |-> parent, subs |-> <<>>, data |-> <<>>]

ES_Init ==
  /\ es_manager = EmptyManager
  /\ es_tree = <<>> /\ es_stack = <<0>>
  /\ es_reader = [phase |-> "reading", errors |-> 0, status |-> 0, conforming |-> FALSE, told |-> "nothing"]
  /\ es_commands = <<>>

Reads(command) ==
  /\ es_reader.phase = "reading" /\ Len(es_commands) < ES_MaxCommands
  /\ es_commands' = Append(es_commands, command)

(* "(": the tree makes an element below the top of its stack, with a copy  *)
(* of the attributes the reader has, the first of its list first; then the *)
(* reader empties its list.                                                *)
CopiedAttributes(manager, list) ==
  FoldLeft(LAMBDA m, a : ListAddAttribute(m, list, a),
           [manager EXCEPT !.lists = Append(@, <<>>)], ListOf(manager, 0))
ES_Begin ==
  /\ Reads([is |-> "begin"])
  /\ LET parent == Last(es_stack)
         new == Len(es_tree) + 1
         grown == Append(es_tree, Element(parent)) IN
     /\ es_tree' = IF parent = 0 THEN grown ELSE [grown EXCEPT ![parent].subs = Append(@, new)]
     /\ es_stack' = Append(es_stack, new)
     /\ es_manager' = ListEmpty(CopiedAttributes(es_manager, new), 0)
  /\ UNCHANGED es_reader

(* ")" and "-": the parser writes them inside of an element only.          *)
ES_End ==
  /\ Reads([is |-> "end"]) /\ Len(es_stack) > 1
  /\ es_stack' = Front(es_stack)
  /\ UNCHANGED <<es_manager, es_tree, es_reader>>

ES_Data ==
  /\ Reads([is |-> "data"]) /\ Len(es_stack) > 1
  /\ es_tree' = [es_tree EXCEPT ![Last(es_stack)].data = Append(@, Len(es_commands))]
  /\ UNCHANGED <<es_manager, es_stack, es_reader>>

(* "A" with a value of type CDATA or TOKEN. An implied value, and those of *)
(* other types, are read, and nothing is done.                             *)
ES_Attribute ==
  /\ \E a \in ES_Attributes :
       /\ Reads([is |-> "attribute", attribute |-> a])
       /\ es_manager' = ListAddAttribute(es_manager, 0, a)
  /\ UNCHANGED <<es_tree, es_stack, es_reader>>
ES_NoValue ==
  /\ Reads([is |-> "no value"])
  /\ UNCHANGED <<es_manager, es_tree, es_stack, es_reader>>

(* "C" at the end of a document.                                           *)
ES_Conforming ==
  /\ Reads([is |-> "conforming"])
  /\ es_reader' = [es_reader EXCEPT !.conforming = TRUE]
  /\ UNCHANGED <<es_manager, es_tree, es_stack>>

(* Commands that are not implemented, and no commands: the first one gives *)
(* the status, and max_num_errors of them end the reading. The rest of the *)
(* line is not read, it is taken for the next commands.                    *)
ES_Bad ==
  /\ \E status \in {-1, -2} :
       /\ Reads([is |-> "bad", status |-> status])
       /\ es_reader' =
            [es_reader EXCEPT
               !.errors = @ + 1,
               !.status = IF @ = 0 THEN status ELSE @,
               !.phase = IF es_reader.errors + 1 >= ES_MaxErrors THEN "returned" ELSE @]
  /\ UNCHANGED <<es_manager, es_tree, es_stack>>

(* The end of the input: a document that was not conforming returns what   *)
(* it would have returned, and says so to the client.                      *)
ES_EndOfInput ==
  /\ es_reader.phase = "reading"
  /\ es_reader' = [es_reader EXCEPT !.phase = "returned",
                                    !.told = IF es_reader.conforming THEN @ ELSE "not conforming"]
  /\ UNCHANGED <<es_manager, es_tree, es_stack, es_commands>>

(* A client deletes an attribute. What is compared with the freed one      *)
(* later is undefined; nothing more is done here.                          *)
ES_DeleteAttribute ==
  /\ es_reader.phase = "returned"
  /\ \E list \in 1 .. Len(es_tree) : \E a \in ToSet(ListOf(es_manager, list)) :
       es_manager' = ListDeleteAttribute(es_manager, list, a.name)
  /\ es_reader' = [es_reader EXCEPT !.phase = "dangling"]
  /\ UNCHANGED <<es_tree, es_stack, es_commands>>

(* jr_ESIS_InputGroveUndo: the lists of the elements, the manager, and     *)
(* then the list of the reader, whose attributes are looked for in the     *)
(* table that is gone.                                                     *)
ES_Undo ==
  /\ es_reader.phase = "returned"
  /\ es_reader' = [es_reader EXCEPT !.phase =
                     IF ListOf(es_manager, 0) = <<>> THEN "undone" ELSE "table used when gone"]
  /\ es_manager' = [EmptyManager EXCEPT !.lists = [i \in 1 .. Len(es_tree) + 1 |-> <<>>]]
  /\ UNCHANGED <<es_tree, es_stack, es_commands>>

ES_Next ==
  \/ ES_Begin \/ ES_End \/ ES_Data \/ ES_Attribute \/ ES_NoValue
  \/ ES_Conforming \/ ES_Bad \/ ES_EndOfInput \/ ES_DeleteAttribute \/ ES_Undo

ES_Spec == ES_Init /\ [][ES_Next]_es_vars
-----------------------------------------------------------------------------
(* The commands up to the i-th one, and the places of those of a kind.     *)
ReadBefore(i) == SubSeq(es_commands, 1, i - 1)
PlacesOf(is, s) == {i \in 1 .. Len(s) : s[i].is = is}

(* The attributes that stand between two beginnings, the last value of     *)
(* each name.                                                              *)
GivenBefore(i) ==
  LET begins == PlacesOf("begin", ReadBefore(i))
      here == {j \in PlacesOf("attribute", ReadBefore(i)) : \A b \in begins : b < j} IN
  {es_commands[j].attribute :
     j \in {k \in here : \A l \in here : l > k => es_commands[l].attribute.name # es_commands[k].attribute.name}}

(* The element that is open before the i-th command, as its beginning.     *)
OpenAt(i) ==
  LET depth(j) == Cardinality(PlacesOf("begin", ReadBefore(j))) - Cardinality(PlacesOf("end", ReadBefore(j)))
      open == {b \in PlacesOf("begin", ReadBefore(i)) : \A j \in b + 1 .. i : depth(j) > depth(b)} IN
  IF open = {} THEN 0 ELSE CHOOSE b \in open : \A c \in open : c <= b
NumberOf(begin) == IF begin = 0 THEN 0 ELSE Cardinality(PlacesOf("begin", SubSeq(es_commands, 1, begin)))

(* The tree is the document, whatever errors were passed over: each        *)
(* element is in the one that was open, with its data, and has exactly the *)
(* attributes between it and the beginning before it, the last value of a  *)
(* name that was given twice.                                              *)
TreeIsDocument ==
  /\ \A b \in PlacesOf("begin", es_commands) :
       LET e == NumberOf(b) IN
       /\ es_tree[e].parent = NumberOf(OpenAt(b))
       /\ ToSet(es_tree[e].subs) = {NumberOf(c) : c \in {d \in PlacesOf("begin", es_commands) : OpenAt(d) = b}}
       /\ ToSet(es_tree[e].data) = {d - 1 : d \in {c \in PlacesOf("data", es_commands) : OpenAt(c) = b}}
       /\ es_reader.phase \in {"reading", "returned"} =>
            {a \in ES_Attributes : GetValue(es_manager, e, a.name) = a.value} = GivenBefore(b)
  /\ es_reader.phase \in {"reading", "returned"} =>
       ToSet(ListOf(es_manager, 0)) = GivenBefore(Len(es_commands) + 1)

(* The table points to the attributes of the lists and to nothing else,    *)
(* and no string of theirs is freed: there are as many references to it as *)
(* attributes that use it. (References to names are never given up.)       *)
ES_Uses(manager, s) ==
  FoldLeft(LAMBDA n, list : n + Cardinality({a \in ToSet(list) : a.name = s})
                              + Cardinality({a \in ToSet(list) : a.value = s}), 0, manager.lists)
ManagerHolds ==
  /\ es_reader.phase # "dangling" =>
       es_manager.table =
         UNION {{<<l - 1, a.name>> : a \in ToSet(es_manager.lists[l])} : l \in 1 .. Len(es_manager.lists)}
  /\ \A l \in 1 .. Len(es_manager.lists) : \A a \in ToSet(es_manager.lists[l]) :
       \A s \in {a.name, a.value} :
         s \in DOMAIN es_manager.strings /\ es_manager.strings[s] >= ES_Uses(es_manager, s)

(* The status is the one of the first error, and a reader that goes on has *)
(* fewer errors than it may have. The table is used when it is gone only   *)
(* if attributes stood behind the last beginning.                          *)
ErrorsTold ==
  LET bad == PlacesOf("bad", es_commands) IN
  /\ es_reader.status = IF bad = {} THEN 0
                        ELSE es_commands[CHOOSE i \in bad : \A j \in bad : i <= j].status
  /\ es_reader.phase = "reading" => bad = {} \/ Cardinality(bad) < ES_MaxErrors
  /\ Cardinality(bad) >= ES_MaxErrors /\ bad # {} => es_commands[Len(es_commands)].is = "bad"
  /\ es_reader.phase = "table used when gone" => GivenBefore(Len(es_commands) + 1) # {}

ES_TreeTrue == TreeIsDocument /\ ManagerHolds /\ ErrorsTold
=============================================================================
