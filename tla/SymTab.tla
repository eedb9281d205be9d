------------------------------- MODULE SymTab --------------------------------
(***************************************************************************)
(* The symbol table of the C parser (st_init.c, st_list.c, st_type.c):     *)
(* symbols in nested scopes, the identifiers that name them, and the types *)
(* that they have. Identifiers and types are shared, counted, and freed    *)
(* with their last reference.                                              *)
(*                                                                         *)
(* Symbols are numbered as they are allocated; 0 is none. A type is kept   *)
(* as its value, [kind, base, stars, list, fields], since the table has it *)
(* once: list has the lengths of an array, fields are [name, type].        *)
(***************************************************************************)
EXTENDS Naturals, Sequences, SequencesExt, FiniteSets, FiniteSetsExt

CONSTANTS
  SM_Names,        \* names of symbols
  SM_Lists,        \* array lengths of a variable or typedef
  SM_Stars,        \* levels of indirection
  SM_FieldNames,   \* sequences of names of fields
  SM_MaxScopes, SM_MaxSymbols,
  SM_BaseTypes,    \* bases of declarations: [word, fields], fields of a struct without name
  SM_Levels,       \* levels of declarations: [function, stars, list, params]
  SM_MaxLevels,
  SM_Widths,       \* the characters of each word that is printed
  SM_Rooms,        \* sizes of the buffers printed to
  SM_MaxNodes,     \* nodes of expressions that are ever allocated
  SM_Strings,      \* strings, by their rank for strcmp
  SM_NamesOfBases, \* the names of symbols that are bases, by their addresses
  SM_Dimensions, SM_Fields, SM_Enums   \* of types that are compared

VARIABLES
  sm_scopes,    \* the symbols of each open scope; the first is the keywords'
  sm_symbols,   \* all symbols that were allocated, and where they are
  sm_ids,       \* identifiers in use: their symbol, and references
  sm_types,     \* types in use: references
  sm_lost,      \* references that were overwritten (history)
  sm_misused,   \* memory was used after it was freed (history)
  sm_levels,    \* the levels of a declaration, from its name outward
  sm_nodes,     \* nodes of expressions: [list, children, alloc, value, freed]
  sm_trees,     \* the nodes that are roots
  sm_values     \* what alloc functions allocated: how often it was freed

table_of_symbols == <<sm_scopes, sm_symbols, sm_ids, sm_types, sm_lost, sm_misused>>
sm_expressions == <<sm_nodes, sm_trees, sm_values>>
sm_vars == <<table_of_symbols, sm_levels, sm_expressions>>

NoType == [kind |-> "none", base |-> 0, stars |-> 0, list |-> <<>>, fields |-> <<>>]
SM_Without(f, x) == [y \in DOMAIN f \ {x} |-> f[y]]
SM_With(f, x, v) == [y \in DOMAIN f \cup {x} |-> IF y = x THEN v ELSE f[y]]

(* jr_ST_SymbolTableInit: the scopes of the keywords and of the file.      *)
SM_Init ==
  /\ sm_scopes = <<<<>>, <<>>>>
  /\ sm_symbols = <<>> /\ sm_ids = <<>> /\ sm_types = <<>>
  /\ sm_lost = <<>> /\ sm_misused = FALSE /\ sm_levels = <<>>
  /\ sm_nodes = <<>> /\ sm_trees = {} /\ sm_values = <<>>

Tables == [ids |-> sm_ids, types |-> sm_types, misused |-> sm_misused]
-----------------------------------------------------------------------------
(* jr_ST_EnterIdentifier and jr_ST_EnterType, which enters the fields of a *)
(* new type, too.                                                          *)
IdEntered(tab, name) ==
  [tab EXCEPT !.ids =
     SM_With(@, name, IF name \in DOMAIN @ THEN [@[name] EXCEPT !.refs = @ + 1]
                      ELSE [symbol |-> 0, refs |-> 1])]

RECURSIVE TypeEntered(_, _)
TypeEntered(tab, t) ==
  IF t \in DOMAIN tab.types THEN [tab EXCEPT !.types[t] = @ + 1]
  ELSE LET fields == t.fields
           entered == FoldLeft(LAMBDA a, f : TypeEntered(IdEntered(a, f.name), f.type), tab, fields) IN
       [entered EXCEPT !.types = SM_With(@, t, 1)]

(* jr_ST_UnreferenceIdentifier and jr_ST_UnreferenceType. When the last    *)
(* reference of a type goes, it lets go of its fields first; then it is    *)
(* looked up, by its fields, and their identifiers and types are asked     *)
(* whether they are in use: what was freed with the fields is read, and    *)
(* freed again. FieldsKept lets go of the type alone.                      *)
IdUnreferenced(tab, name) ==
  [tab EXCEPT !.ids = IF @[name].refs = 1 THEN SM_Without(@, name)
                      ELSE [@ EXCEPT ![name].refs = @ - 1]]

FieldsKept(tab, t) == [tab EXCEPT !.types = IF @[t] = 1 THEN SM_Without(@, t) ELSE [@ EXCEPT ![t] = @ - 1]]

RECURSIVE TypeUnreferenced(_, _)
TypeUnreferenced(tab, t) ==
  IF tab.types[t] > 1 THEN [tab EXCEPT !.types[t] = @ - 1]
  ELSE LET fields == t.fields
           let == FoldLeft(LAMBDA a, f : TypeUnreferenced(IdUnreferenced(a, f.name), f.type), tab, fields)
           gone(f) == f.name \notin DOMAIN let.ids \/ f.type \notin DOMAIN let.types IN
       [let EXCEPT !.types = SM_Without(@, t),
                   !.misused = @ \/ \E i \in 1 .. Len(fields) : gone(fields[i])]
-----------------------------------------------------------------------------
(* jr_ST_FindSymbol.                                                       *)
FindSymbol(name) == IF name \in DOMAIN sm_ids THEN sm_ids[name].symbol ELSE 0

CurrScopeNum == Len(sm_scopes)

(* jr_ST_SymbolAllocate: the symbol goes to the tail of the scope, and     *)
(* hides the definition before it.                                         *)
SymbolAllocated(tab, scope, name, kind, t) ==
  LET new == Len(sm_symbols) + 1 IN
  /\ sm_scopes' = [sm_scopes EXCEPT ![scope] = Append(@, new)]
  /\ sm_symbols' = Append(sm_symbols,
       [name |-> name, kind |-> kind, type |-> t, scope |-> scope, home |-> "open",
        prev |-> IF name = "" THEN 0 ELSE tab.ids[name].symbol])
  /\ sm_ids' = IF name = "" THEN tab.ids ELSE [tab.ids EXCEPT ![name].symbol = new]
  /\ sm_types' = tab.types

Room == Len(sm_symbols) < SM_MaxSymbols /\ ~sm_misused

(* jr_ST_EnterNativeSymbol: into the scope of the keywords, unless the     *)
(* name has a definition in any scope.                                     *)
SM_EnterNative ==
  /\ Room
  /\ \E name \in SM_Names :
       /\ FindSymbol(name) = 0
       /\ SymbolAllocated(IdEntered(Tables, name), 1, name, "builtin", NoType)
  /\ UNCHANGED <<sm_lost, sm_misused>>

(* jr_ST_EnterSymbol, when the name is not defined in this scope, or there *)
(* is none. A typedef has the type of a variable.                          *)
DefinedHere(name) == name # "" /\ FindSymbol(name) # 0 /\ sm_symbols[FindSymbol(name)].scope = CurrScopeNum
Entered(name) == IF name = "" THEN Tables ELSE IdEntered(Tables, name)

SM_Bases == {s \in 1 .. Len(sm_symbols) :
               sm_symbols[s].home = "open" /\ sm_symbols[s].kind \in {"builtin", "typedef", "struct"}}
VariableType(base, stars, list) == [kind |-> "variable", base |-> base, stars |-> stars, list |-> list, fields |-> <<>>]
StructType(fields) == [kind |-> "struct", base |-> 0, stars |-> 0, list |-> <<>>, fields |-> fields]
FieldsOf(names, t) == [i \in 1 .. Len(names) |-> [name |-> names[i], type |-> t]]

SM_EnterSymbol ==
  /\ Room
  /\ \/ \E name \in SM_Names, kind \in {"variable", "typedef"},
           base \in SM_Bases, stars \in SM_Stars, list \in SM_Lists :
          LET t == VariableType(base, stars, list) IN
          /\ ~DefinedHere(name)
          /\ SymbolAllocated(TypeEntered(Entered(name), t), CurrScopeNum, name, kind, t)
     \/ \E name \in SM_Names \cup {""}, names \in SM_FieldNames, base \in SM_Bases :
          LET t == StructType(FieldsOf(names, VariableType(base, 0, <<>>))) IN
          /\ ~DefinedHere(name)
          /\ SymbolAllocated(TypeEntered(Entered(name), t), CurrScopeNum, name, "struct", t)
     \/ \E name \in SM_Names :
          /\ ~DefinedHere(name)
          /\ SymbolAllocated(Entered(name), CurrScopeNum, name, "string", NoType)
  /\ UNCHANGED <<sm_lost, sm_misused>>

(* A structure that was defined without fields is defined with them: the   *)
(* symbol gets another type, and the one that it had keeps the reference.  *)
SM_CompleteStruct ==
  /\ ~sm_misused /\ sm_lost = <<>>
  /\ \E name \in SM_Names, names \in SM_FieldNames, base \in SM_Bases :
       LET s == FindSymbol(name)
           t == StructType(FieldsOf(names, VariableType(base, 0, <<>>)))
           tab == TypeEntered(Tables, t) IN
       /\ DefinedHere(name) /\ sm_symbols[s].kind = "struct" /\ sm_symbols[s].type.fields = <<>>
       /\ sm_symbols' = [sm_symbols EXCEPT ![s].type = t]
       /\ sm_ids' = tab.ids /\ sm_types' = tab.types
       /\ sm_lost' = Append(sm_lost, sm_symbols[s].type)
  /\ UNCHANGED <<sm_scopes, sm_misused>>

(* jr_ST_SetSymbolType: a symbol that was a string only becomes a variable.*)
SM_SetSymbolType ==
  /\ ~sm_misused
  /\ \E s \in 1 .. Len(sm_symbols), base \in SM_Bases, stars \in SM_Stars :
       LET t == VariableType(base, stars, <<>>)
           tab == TypeEntered(Tables, t) IN
       /\ sm_symbols[s].home = "open" /\ sm_symbols[s].kind = "string"
       /\ sm_symbols[base].scope <= sm_symbols[s].scope
       /\ sm_symbols' = [sm_symbols EXCEPT ![s].type = t, ![s].kind = "variable"]
       /\ sm_ids' = tab.ids /\ sm_types' = tab.types
  /\ UNCHANGED <<sm_scopes, sm_lost, sm_misused>>
-----------------------------------------------------------------------------
SM_OpenNewScope ==
  /\ CurrScopeNum < SM_MaxScopes /\ ~sm_misused
  /\ sm_scopes' = Append(sm_scopes, <<>>)
  /\ UNCHANGED <<sm_symbols, sm_ids, sm_types, sm_lost, sm_misused>>

(* jr_ST_CloseCurrScope, from the first symbol to the last. The scope of   *)
(* the keywords cannot be closed. RestoredNone forgets what was hidden.    *)
RestoredNone(tab, s) ==
  IF sm_symbols[s].name = "" THEN tab
  ELSE [tab EXCEPT !.ids[sm_symbols[s].name].symbol = 0]

Restored(tab, s) ==
  IF sm_symbols[s].name = "" THEN tab
  ELSE [tab EXCEPT !.ids[sm_symbols[s].name].symbol = sm_symbols[s].prev]

SymbolClosed(tab, s) ==
  LET symbol == sm_symbols[s]
      unnamed == IF symbol.name = "" THEN tab ELSE IdUnreferenced(Restored(tab, s), symbol.name) IN
  IF symbol.type = NoType THEN unnamed ELSE TypeUnreferenced(unnamed, symbol.type)

Leaving(home) ==
  /\ sm_symbols' = [s \in 1 .. Len(sm_symbols) |->
       IF \E i \in 1 .. Len(Last(sm_scopes)) : Last(sm_scopes)[i] = s
       THEN [sm_symbols[s] EXCEPT !.home = home] ELSE sm_symbols[s]]
  /\ sm_scopes' = Front(sm_scopes)

SM_CloseCurrScope ==
  /\ CurrScopeNum > 1 /\ ~sm_misused
  /\ LET tab == FoldLeft(SymbolClosed, Tables, Last(sm_scopes)) IN
     sm_ids' = tab.ids /\ sm_types' = tab.types /\ sm_misused' = tab.misused
  /\ Leaving("freed")
  /\ UNCHANGED sm_lost

(* jr_ST_CloseCurrScopeAndSave: the symbols keep what they refer to.       *)
SM_CloseCurrScopeAndSave ==
  /\ CurrScopeNum > 1 /\ ~sm_misused
  /\ sm_ids' = FoldLeft(Restored, Tables, Last(sm_scopes)).ids
  /\ Leaving("saved")
  /\ UNCHANGED <<sm_types, sm_lost, sm_misused>>

SM_TableNext ==
  /\ \/ SM_EnterNative \/ SM_EnterSymbol \/ SM_CompleteStruct \/ SM_SetSymbolType
     \/ SM_OpenNewScope \/ SM_CloseCurrScope \/ SM_CloseCurrScopeAndSave
  /\ UNCHANGED <<sm_levels, sm_expressions>>

(* The declaration gets one level more, outside of the others.             *)
SM_Declare ==
  /\ Len(sm_levels) < SM_MaxLevels
  /\ \E level \in SM_Levels : sm_levels' = Append(sm_levels, level)
  /\ UNCHANGED <<table_of_symbols, sm_expressions>>

(* Expressions (c_expr_node.c): a node has up to three children (0: none). *)
(* A list is a chain of nodes whose left child is an expression and whose  *)
(* right child is the next node. A node may have an alloc function of its  *)
(* client, that copies and frees the value it points to.                   *)
ExprNode(list, children, alloc, value) ==
  [list |-> list, children |-> children, alloc |-> alloc, value |-> value, freed |-> 0]

RECURSIVE LastOfList(_, _)
LastOfList(nodes, n) == IF nodes[n].children[2] = 0 THEN n ELSE LastOfList(nodes, nodes[n].children[2])
RoomFor(n) == Len(sm_nodes) + n <= SM_MaxNodes
Lists == {n \in sm_trees : sm_nodes[n].list}

(* jr_C_ExprNodeCreate; the client gives it a value and its function.      *)
SM_NodeCreate ==
  /\ RoomFor(1)
  /\ \E children \in {c \in [1 .. 3 -> sm_trees \cup {0}] : \A i, j \in 1 .. 3 : i # j => c[i] = 0 \/ c[i] # c[j]},
        alloc \in BOOLEAN :
       /\ sm_nodes' = Append(sm_nodes, ExprNode(FALSE, children, alloc, IF alloc THEN Len(sm_values) + 1 ELSE 0))
       /\ sm_values' = IF alloc THEN Append(sm_values, 0) ELSE sm_values
       /\ sm_trees' = (sm_trees \ {children[i] : i \in 1 .. 3}) \cup {Len(sm_nodes) + 1}
  /\ UNCHANGED <<table_of_symbols, sm_levels>>

(* jr_C_ExprNodeListCreateWithNode, jr_C_ExprNodeListAppendNode.           *)
SM_ListCreate ==
  /\ RoomFor(1)
  /\ \E n \in sm_trees :
       /\ sm_nodes' = Append(sm_nodes, ExprNode(TRUE, <<n, 0, 0>>, FALSE, 0))
       /\ sm_trees' = (sm_trees \ {n}) \cup {Len(sm_nodes) + 1}
  /\ UNCHANGED <<table_of_symbols, sm_levels, sm_values>>

SM_ListAppendNode ==
  /\ RoomFor(1)
  /\ \E list \in Lists : \E n \in sm_trees \ {list} :
       /\ sm_nodes' = Append([sm_nodes EXCEPT ![LastOfList(sm_nodes, list)].children[2] = Len(sm_nodes) + 1],
                              ExprNode(TRUE, <<n, 0, 0>>, FALSE, 0))
       /\ sm_trees' = sm_trees \ {n}
  /\ UNCHANGED <<table_of_symbols, sm_levels, sm_values>>

SM_ListAppendList ==
  /\ \E list, appended \in Lists :
       /\ list # appended
       /\ sm_nodes' = [sm_nodes EXCEPT ![LastOfList(sm_nodes, list)].children[2] = appended]
       /\ sm_trees' = sm_trees \ {appended}
  /\ UNCHANGED <<table_of_symbols, sm_levels, sm_values>>

(* jr_C_ExprNodeCreateCopy: the nodes of a tree are copied from the root   *)
(* down. The function that copies the value of a node is that of its last  *)
(* child; without one the copy points to the value of the original.        *)
RECURSIVE Copied(_, _)
Copied(state, n) ==
  LET node == sm_nodes[n]
      new == Len(state.nodes) + 1
      first == [state EXCEPT !.nodes = Append(@, node)]
      child(a, i) ==
        IF node.children[i] = 0 THEN a
        ELSE LET b == Copied(a, node.children[i]) IN
             [b EXCEPT !.nodes[new].children[i] = Len(a.nodes) + 1]
      done == FoldLeft(child, first, <<1, 2, 3>>)
      there == {i \in 1 .. 3 : node.children[i] # 0}
      copies == there # {} /\ sm_nodes[node.children[Max(there)]].alloc /\ node.value # 0 IN
  IF copies
  THEN [nodes |-> [done.nodes EXCEPT ![new].value = Len(done.values) + 1], values |-> Append(done.values, 0)]
  ELSE done

RECURSIVE NodesOf(_)
NodesOf(n) == IF n = 0 THEN {} ELSE {n} \cup UNION {NodesOf(sm_nodes[n].children[i]) : i \in 1 .. 3}

SM_NodeCopy ==
  /\ \E n \in sm_trees :
       /\ RoomFor(Cardinality(NodesOf(n)))
       /\ LET copied == Copied([nodes |-> sm_nodes, values |-> sm_values], n) IN
          sm_nodes' = copied.nodes /\ sm_values' = copied.values
       /\ sm_trees' = sm_trees \cup {Len(sm_nodes) + 1}
  /\ UNCHANGED <<table_of_symbols, sm_levels>>

(* jr_C_ExprNodeTraverse: the calls of the functions that are to be called *)
(* before, between and behind the children. Nodes of lists are passed over *)
(* except by the function that frees them.                                 *)
RECURSIVE Traversal(_)
Below(n) == IF n = 0 THEN <<>> ELSE Traversal(n)
Traversal(n) ==
  LET child == sm_nodes[n].children IN
  IF sm_nodes[n].list
  THEN Below(child[1]) \o <<[node |-> n, when |-> "list"]>> \o Below(child[2])
  ELSE <<[node |-> n, when |-> "pre"]>> \o Below(child[1]) \o <<[node |-> n, when |-> "in"]>>
         \o Below(child[2]) \o Below(child[3]) \o <<[node |-> n, when |-> "post"]>>

Freeing(n) == SelectSeq(Traversal(n), LAMBDA v : v.when \in {"list", "post"})

(* jr_C_ExprNodeDestroy.                                                   *)
SM_NodeDestroy ==
  /\ \E n \in sm_trees :
       LET freed == Freeing(n)
           times(m) == Cardinality({i \in 1 .. Len(freed) : freed[i].node = m}) IN
       /\ sm_nodes' = [m \in 1 .. Len(sm_nodes) |-> [sm_nodes[m] EXCEPT !.freed = @ + times(m)]]
       /\ sm_values' = [v \in 1 .. Len(sm_values) |->
            sm_values[v] + Cardinality({i \in 1 .. Len(freed) : sm_nodes[freed[i].node].alloc /\ sm_nodes[freed[i].node].value = v})]
       /\ sm_trees' = sm_trees \ {n}
  /\ UNCHANGED <<table_of_symbols, sm_levels>>

SM_NodeNext ==
  \/ SM_NodeCreate \/ SM_ListCreate \/ SM_ListAppendNode \/ SM_ListAppendList
  \/ SM_NodeCopy \/ SM_NodeDestroy

SM_Next == SM_TableNext \/ SM_Declare \/ SM_NodeNext

SM_Spec == SM_Init /\ [][SM_Next]_sm_vars
-----------------------------------------------------------------------------
(* jr_ST_CanCollapseBaseSymbol, jr_ST_TypeCollapsedInit: typedefs are      *)
(* replaced by what they stand for, as long as that needs no parentheses.  *)
CanCollapse(t) ==
  /\ t.base # 0 /\ sm_symbols[t.base].kind = "typedef"
  /\ t.stars = 0 \/ sm_symbols[t.base].type.list = <<>>

RECURSIVE Collapsed(_)
Collapsed(t) ==
  IF ~CanCollapse(t) THEN t
  ELSE LET c == Collapsed(sm_symbols[t.base].type) IN
       [c EXCEPT !.stars = t.stars + @, !.list = t.list \o @]

(* jr_ST_TypeEquiv, of variables: any two built-in types are equivalent.   *)
RECURSIVE TypeEquiv(_, _)
TypeEquiv(t1, t2) ==
  LET c1 == Collapsed(t1)
      c2 == Collapsed(t2)
      b1 == sm_symbols[c1.base].type
      b2 == sm_symbols[c2.base].type IN
  /\ c1.kind = c2.kind /\ c1.stars = c2.stars /\ c1.list = c2.list
  /\ \/ c1.base = c2.base
     \/ b1 = NoType \/ b2 = NoType
     \/ b1.kind = "variable" /\ b2.kind = "variable" /\ TypeEquiv(b1, b2)

(* What a variable is, from the outside: arrays of pointers (0) to what    *)
(* its base is, and so on.                                                 *)
RECURSIVE Declared(_)
Declared(t) ==
  t.list \o [i \in 1 .. t.stars |-> 0]
    \o (IF sm_symbols[t.base].kind # "typedef" THEN <<>> ELSE Declared(sm_symbols[t.base].type))
RECURSIVE RootOf(_)
RootOf(t) ==
  IF sm_symbols[t.base].kind # "typedef" THEN t.base ELSE RootOf(sm_symbols[t.base].type)
Simple(t) == sm_symbols[t.base].kind = "typedef" =>
               sm_symbols[sm_symbols[t.base].type.base].kind # "typedef"
-----------------------------------------------------------------------------
InScopes == UNION {{sm_scopes[i][j] : j \in 1 .. Len(sm_scopes[i])} : i \in 1 .. CurrScopeNum}
Named(name) == {s \in InScopes : sm_symbols[s].name = name}
Innermost(name) ==
  IF Named(name) = {} THEN 0
  ELSE CHOOSE s \in Named(name) : \A r \in Named(name) : sm_symbols[r].scope <= sm_symbols[s].scope

(* A name finds the definition in the innermost open scope that has one,   *)
(* whatever was opened, closed and saved in between.                       *)
SM_FindsInnermost == ~sm_misused => \A name \in SM_Names : FindSymbol(name) = Innermost(name)

(* Identifiers and types are in the tables as long as, and as often as,    *)
(* something refers to them: symbols that are not freed, and fields of     *)
(* types in the table; a structure that was completed lost a reference to  *)
(* its first type.                                                         *)
Holders == {s \in 1 .. Len(sm_symbols) : sm_symbols[s].home # "freed"}
FieldPlaces == UNION {{<<t, i>> : i \in 1 .. Len(t.fields)} : t \in DOMAIN sm_types}
SM_CountsExact ==
  ~sm_misused =>
    /\ \A name \in DOMAIN sm_ids :
         sm_ids[name].refs = Cardinality({s \in Holders : sm_symbols[s].name = name})
                           + Cardinality({p \in FieldPlaces : p[1].fields[p[2]].name = name})
    /\ \A s \in Holders : sm_symbols[s].type # NoType => sm_symbols[s].type \in DOMAIN sm_types
    /\ \A t \in DOMAIN sm_types :
         sm_types[t] = Cardinality({s \in Holders : sm_symbols[s].type = t})
                     + Cardinality({p \in FieldPlaces : p[1].fields[p[2]].type = t})
                     + Cardinality({i \in 1 .. Len(sm_lost) : sm_lost[i] = t})

(* The base of a type is a symbol that was not freed, unless it belongs to *)
(* a scope that was saved, or was the type of a structure before.          *)
SM_BasesLive ==
  ~sm_misused /\ (\A s \in 1 .. Len(sm_symbols) : sm_symbols[s].home # "saved") /\ sm_lost = <<>> =>
    \A t \in DOMAIN sm_types : t.base # 0 => sm_symbols[t.base].home # "freed"

(* Types are equivalent that declare the same, whether typedefs are used   *)
(* or not. (A typedef of a typedef is left out: the pointers in front of   *)
(* it go behind the arrays of the second one. And what is equivalent       *)
(* declares the same, if no typedef is left in it: otherwise the typedef   *)
(* passes for its built-in base, as built-in types do for each other.)     *)
SM_EquivTrue ==
  ~sm_misused =>
    LET types == {t \in DOMAIN sm_types :
                    /\ t.kind = "variable" /\ sm_symbols[t.base].home = "open"
                    /\ Simple(t) /\ sm_symbols[RootOf(t)].kind = "builtin"}
        flat(t) == sm_symbols[Collapsed(t).base].kind # "typedef" IN
    \A t1, t2 \in types :
      RootOf(t1) = RootOf(t2) =>
        /\ Declared(t1) = Declared(t2) => TypeEquiv(t1, t2)
        /\ flat(t1) /\ flat(t2) /\ TypeEquiv(t1, t2) => Declared(t1) = Declared(t2)

-----------------------------------------------------------------------------
(* jr_ST_DeclarationToString: the text, token by token. The stars of the   *)
(* outer levels come first, each level but the first one opens a           *)
(* parenthesis; behind the name come the lists of the levels, and the      *)
(* parentheses are closed.                                                 *)
Tabs(n) == [i \in 1 .. n |-> "\t"]
Stars(level, k) == [i \in 1 .. level.stars |-> "*"] \o (IF k = 1 THEN <<>> ELSE <<"(">>)

RECURSIVE DeclarationText(_, _)

(* jr_ST_TypeSymbolToString.                                               *)
BaseText(base, nesting) ==
  IF base.word # "" THEN <<base.word>>
  ELSE <<"struct {">>
         \o FlattenSeq([i \in 1 .. Len(base.fields) |->
              Tabs(nesting) \o DeclarationText(base.fields[i], nesting) \o <<";", "\n">>])
         \o Tabs(nesting - 1) \o <<"}", " ">>

(* jr_ST_TypeListToString.                                                 *)
ListText(level) ==
  IF level.function
  THEN <<" ", "(">>
         \o FlattenSeq([i \in 1 .. Len(level.params) |->
              (IF i = 1 THEN <<>> ELSE <<",", " ">>) \o DeclarationText(level.params[i], 0)])
         \o <<")">>
  ELSE FlattenSeq([i \in 1 .. Len(level.list) |->
         IF level.list[i] = "" THEN <<"[", "]">> ELSE <<"[", level.list[i], "]">>])

DeclarationText(d, nesting) ==
  LET n == Len(d.levels) IN
  BaseText(d.base, nesting + 1) \o <<" ">>
    \o FlattenSeq([i \in 1 .. n |-> Stars(d.levels[n + 1 - i], n + 1 - i)])
    \o <<d.name>>
    \o FlattenSeq([k \in 1 .. n |-> (IF k = 1 THEN <<>> ELSE <<")">>) \o ListText(d.levels[k])])

(* The buffer, whose last byte is at "last". A character is refused that   *)
(* ends there; a word that is copied may end there, and the characters     *)
(* behind it, and the null, are written past the end.                      *)
IsWord(c) == c \in DOMAIN SM_Widths

WidthIn(c) == IF IsWord(c) THEN SM_Widths[c] ELSE 1
WidthOf(text) == MapThenSumSet(LAMBDA i : WidthIn(text[i]), 1 .. Len(text))

DeclarationToString(text, room) ==
  LET last == room - 1
      ends == [k \in 0 .. Len(text) |-> WidthOf(SubSeq(text, 1, k))]
      refused == {k \in 1 .. Len(text) : IF IsWord(text[k]) THEN ends[k] > last ELSE ends[k] = last}
      printed == IF refused = {} THEN Len(text) ELSE Min(refused) - 1 IN
  [ok |-> refused = {},
   text |-> SubSeq(text, 1, printed),
   over |-> \/ \E k \in 1 .. printed : ~IsWord(text[k]) /\ ends[k - 1] > last
            \/ refused = {} /\ ends[printed] > last]
-----------------------------------------------------------------------------
(* jr_ST_TypeIsValid, of a chain of typedefs that ends at a built-in type: *)
(* what is found first while the levels can be collapsed.                  *)
Collapses(levels, i) ==
  /\ i < Len(levels)
  /\ levels[i].stars = 0 \/ (levels[i + 1].list = <<>> /\ levels[i + 1].params = <<>>)

ValidStep(levels, v, i) ==
  LET function == levels[i].function
      arrays == IF function THEN v.arrays ELSE v.arrays + Len(levels[i].list)
      verdict == CASE function /\ v.function -> "function returns function"
                   [] function /\ ~v.function /\ v.arrays > 0 -> "array of functions"
                   [] ~function /\ v.function -> "function returns array"
                   [] OTHER -> "valid" IN
  IF v.verdict # "valid" THEN v
  ELSE IF Collapses(levels, i)
  THEN [function |-> function \/ v.function, arrays |-> arrays, verdict |-> verdict]
  ELSE [function |-> FALSE, arrays |-> 0, verdict |-> verdict]

TypeIsValid(levels) ==
  FoldLeft(LAMBDA v, i : ValidStep(levels, v, i), [function |-> FALSE, arrays |-> 0, verdict |-> "valid"],
           [i \in 1 .. Len(levels) |-> i]).verdict
-----------------------------------------------------------------------------
(* The order of the table of types. A type here has the list of its kind:  *)
(* dimensions [num, str], fields [name, storage, bits, type], enumerators  *)
(* [name, value]. Its base is the address of a symbol, 0 for none.         *)
KindNumber == [variable |-> 5, struct |-> 6, union |-> 7, function |-> 8, enum |-> 12]

FirstNotZero(differences) ==
  LET unequal == SelectSeq(differences, LAMBDA d : d # 0) IN
  IF unequal = <<>> THEN 0 ELSE Head(unequal)

Strcmp(name1, name2) == SM_Strings[name1] - SM_Strings[name2]

RECURSIVE TypeCmp(_, _)
FieldCmp(f1, f2) ==
  FirstNotZero(<<Strcmp(f1.name, f2.name), f1.storage - f2.storage, f1.bits - f2.bits,
                 TypeCmp(f1.type, f2.type)>>)
EnumCmp(e1, e2) == FirstNotZero(<<Strcmp(e1.name, e2.name), e1.value - e2.value>>)
ElementCmp(kind, e1, e2) ==
  CASE kind = "variable" -> e1.num - e2.num
    [] kind = "enum" -> EnumCmp(e1, e2)
    [] OTHER -> FieldCmp(e1, e2)
TypeCmp(t1, t2) ==
  LET outside == <<KindNumber[t1.kind] - KindNumber[t2.kind], t1.stars - t2.stars,
                   t1.base - t2.base, Len(t1.list) - Len(t2.list)>> IN
  IF FirstNotZero(outside) # 0 THEN FirstNotZero(outside)
  ELSE FirstNotZero([i \in 1 .. Len(t1.list) |-> ElementCmp(t1.kind, t1.list[i], t2.list[i])])

(* jr_ST_TypeHash looks at four elements of the list; SM_Strings stands    *)
(* for jr_strhash, too.                                                    *)
Sampled(list) ==
  LET n == Len(list) IN <<list[1], list[n \div 3 + 1], list[2 * (n \div 3) + 1], list[n]>>
ElementHash(kind, e) == IF kind = "variable" THEN e.num ELSE SM_Strings[e.name]
TypeHash(t) ==
  LET outside == IF t.base # 0 THEN SM_Strings[SM_NamesOfBases[t.base]] ELSE KindNumber[t.kind] * 64
      inside == IF t.list = <<>> THEN outside
                ELSE (outside + MapThenSumSet(LAMBDA i : ElementHash(t.kind, Sampled(t.list)[i]), 1 .. 4))
                       * Len(t.list)
  IN IF t.stars = 0 \/ t.kind = "enum" THEN inside ELSE inside * t.stars

(* jr_ST_FieldListAddField and jr_ST_EnumListAddEnum refuse a name that is *)
(* in the list, unless it is a field without name.                         *)
NamedIn(list, name) == \E i \in 1 .. Len(list) : list[i].name = name
FieldAdded(list, field) ==
  IF field.name # "" /\ NamedIn(list, field.name) THEN list ELSE Append(list, field)
EnumAdded(list, enum) == IF NamedIn(list, enum.name) THEN list ELSE Append(list, enum)

ArrayTypes ==
  [kind : {"variable"}, stars : {0, 1}, base : DOMAIN SM_NamesOfBases, list : SM_Dimensions]
FieldLists ==
  {FoldLeft(FieldAdded, <<>>, fields) : fields \in BoundedSeq(SM_Fields, 2)}
EnumLists ==
  {FoldLeft(EnumAdded, <<>>, enums) : enums \in BoundedSeq(SM_Enums, 2)}
ComparedTypes ==
  ArrayTypes
    \cup [kind : {"struct", "function"}, stars : {0}, base : {0}, list : FieldLists]
    \cup [kind : {"enum"}, stars : {0, 1}, base : {0}, list : EnumLists]
-----------------------------------------------------------------------------
(* Reading a declaration as C does: a declarator is what its parentheses   *)
(* say, from the name outward.                                             *)
Opening == {"(", "struct {"}
Closing == {")", "}"}
DepthAt(text, i) ==
  Cardinality({j \in 1 .. i : text[j] \in Opening}) - Cardinality({j \in 1 .. i : text[j] \in Closing})

(* The pieces between cuts, which are left out.                            *)
PiecesOf(text, cuts) ==
  LET at == <<0>> \o SetToSortSeq(cuts, <) \o <<Len(text) + 1>> IN
  [k \in 1 .. Len(at) - 1 |-> SubSeq(text, at[k] + 1, at[k + 1] - 1)]
SeparatedBy(text, c) == {i \in 1 .. Len(text) : text[i] = c /\ DepthAt(text, i) = 0}

RECURSIVE DeclarationRead(_)

FieldsRead(text) ==
  LET lines == Front(PiecesOf(text, SeparatedBy(text, "\n")))
      field(line) == DeclarationRead(Front(SelectSeq(line, LAMBDA c : c # "\t"))) IN
  [i \in 1 .. Len(lines) |-> field(lines[i])]

ParamsRead(text) ==
  LET pieces == IF text = <<>> THEN <<>> ELSE PiecesOf(text, SeparatedBy(text, ",")) IN
  [i \in 1 .. Len(pieces) |-> DeclarationRead(IF i = 1 THEN pieces[i] ELSE Tail(pieces[i]))]

ListRead(text) ==
  IF text # <<>> /\ Head(text) = " "
  THEN [function |-> TRUE, list |-> <<>>, params |-> ParamsRead(SubSeq(text, 3, Len(text) - 1))]
  ELSE LET pieces == Front(PiecesOf(text, {i \in 1 .. Len(text) : text[i] = "]"})) IN
       [function |-> FALSE, params |-> <<>>,
        list |-> [k \in 1 .. Len(pieces) |-> IF Len(pieces[k]) = 1 THEN "" ELSE pieces[k][2]]]

DeclarationRead(text) ==
  LET struct == Head(text) = "struct {"
      close == CHOOSE i \in 1 .. Len(text) : (struct => DepthAt(text, i) = 0) /\ \A j \in 1 .. i - 1 : DepthAt(text, j) > 0
      base == IF struct THEN [word |-> "", fields |-> FieldsRead(SubSeq(text, 2, close - 1))]
              ELSE [word |-> text[1], fields |-> <<>>]
      rest == SubSeq(text, (IF struct THEN close + 1 ELSE close) + 2, Len(text))
      at == CHOOSE i \in 1 .. Len(rest) : rest[i] \in SM_Names /\ \A j \in 1 .. i - 1 : rest[j] \notin SM_Names
      left == PiecesOf(SubSeq(rest, 1, at - 1), {i \in 1 .. at - 1 : rest[i] = "("})
      behind == SubSeq(rest, at + 1, Len(rest))
      right == PiecesOf(behind, {i \in 1 .. Len(behind) : DepthAt(behind, i) < 0 /\ \A j \in 1 .. i - 1 : DepthAt(behind, j) > DepthAt(behind, i)}) IN
  [name |-> rest[at], base |-> base,
   levels |-> [k \in 1 .. Len(right) |->
     ListRead(right[k]) @@ [stars |-> Len(left[Len(left) + 1 - k])]]]

(* A declaration that is printed is read by C as what was printed, however *)
(* pointers, arrays and functions are nested in each other and in fields   *)
(* and parameters. In a buffer that is too small it is refused; the end of *)
(* the buffer is passed only behind a word that ends there.                *)
SM_DeclarationsRead ==
  sm_levels # <<>> =>
    \A base \in SM_BaseTypes :
      LET d == [name |-> CHOOSE name \in SM_Names : TRUE, base |-> base, levels |-> sm_levels]
          full == DeclarationText(d, 0)
          width == WidthOf(full) IN
      /\ DeclarationRead(full) = d
      /\ \A room \in SM_Rooms :
           LET p == DeclarationToString(full, room) IN
           /\ width < room - 1 => p.ok /\ ~p.over
           /\ p.ok /\ ~p.over => p.text = full /\ width <= room - 1
           /\ p.over => \E k \in 1 .. Len(full) :
                          IsWord(full[k]) /\ WidthOf(SubSeq(full, 1, k)) = room - 1

(* No function that returns a function or an array, and no array of        *)
(* functions, passes, whichever typedefs hide it. (More is refused: a      *)
(* function that returns what a typedef names, and what points to a        *)
(* function without parameters by one.)                                    *)
Outline(levels) ==
  FoldLeft(LAMBDA a, l : a \o (IF l.function THEN <<"function">> ELSE [i \in 1 .. Len(l.list) |-> "array"])
                           \o [i \in 1 .. l.stars |-> "pointer"], <<>>, levels)
Forbidden == {<<"function", "function">>, <<"function", "array">>, <<"array", "function">>}
SM_ValidTold ==
  LET outline == Outline(sm_levels) IN
  TypeIsValid(sm_levels) = "valid" =>
    \A i \in 1 .. Len(outline) - 1 : <<outline[i], outline[i + 1]>> \notin Forbidden

(* Trees of expressions share no node, and every node that was destroyed   *)
(* was freed once, children first; a traversal visits the expressions of a *)
(* tree, left before right, and none of its list nodes. A value is freed   *)
(* twice only when its node was copied without a child whose function      *)
(* copies it.                                                              *)
VisitAt(v, n, when) == CHOOSE i \in 1 .. Len(v) : v[i].node = n /\ v[i].when = when
VisitsNest(n) ==
  LET v == Traversal(n)
      all == NodesOf(n)
      expressions == {m \in all : ~sm_nodes[m].list} IN
  /\ Len(v) = 3 * Cardinality(expressions) + Cardinality(all \ expressions)
  /\ \A m \in expressions, i \in 1 .. 3 :
       LET c == sm_nodes[m].children[i] IN
       c \in expressions =>
         /\ VisitAt(v, m, "pre") < VisitAt(v, c, "pre")
         /\ IF i = 1 THEN VisitAt(v, c, "post") < VisitAt(v, m, "in")
            ELSE VisitAt(v, m, "in") < VisitAt(v, c, "pre")
         /\ VisitAt(v, c, "post") < VisitAt(v, m, "post")
SharedValue(v) == Cardinality({n \in 1 .. Len(sm_nodes) : sm_nodes[n].value = v}) > 1
SM_TreesApart ==
  /\ \A n \in 1 .. Len(sm_nodes) :
       /\ sm_nodes[n].freed <= 1
       /\ sm_nodes[n].freed = 0 <=> Cardinality({t \in sm_trees : n \in NodesOf(t)}) = 1
  /\ \A t \in sm_trees : VisitsNest(t)
  /\ \A v \in 1 .. Len(sm_values) :
       /\ sm_values[v] > 1 => SharedValue(v)
       /\ SharedValue(v) =>
            \A n \in 1 .. Len(sm_nodes) : sm_nodes[n].value = v =>
              \A i \in 1 .. 3 :
                LET c == sm_nodes[n].children[i] IN
                c # 0 /\ (\A j \in i + 1 .. 3 : sm_nodes[n].children[j] = 0) => ~sm_nodes[c].alloc

(* The table of types finds a type again: types compare as equal only when *)
(* they are the same but for the texts of their lengths, the comparison is *)
(* an order, and what it takes for equal hashes alike. No list has a name  *)
(* twice.                                                                  *)
RECURSIVE WithoutTexts(_)
WithoutTexts(t) ==
  [t EXCEPT !.list = [i \in 1 .. Len(@) |->
     CASE t.kind = "variable" -> @[i].num
       [] t.kind = "enum" -> @[i]
       [] OTHER -> [@[i] EXCEPT !.type = WithoutTexts(@)]]]
SM_TypesOrdered ==
  LET sign == [t1 \in ComparedTypes |-> [t2 \in ComparedTypes |->
                 LET c == TypeCmp(t1, t2) IN IF c > 0 THEN 1 ELSE IF c < 0 THEN -1 ELSE 0]] IN
  \A t1 \in ComparedTypes :
    /\ t1.kind # "variable" =>
         \A i, j \in 1 .. Len(t1.list) :
           i # j => t1.list[i].name # t1.list[j].name \/ t1.list[i].name = ""
    /\ \A t2 \in ComparedTypes :
         /\ sign[t1][t2] = 0 <=> t1.kind = t2.kind /\ WithoutTexts(t1) = WithoutTexts(t2)
         /\ sign[t1][t2] = 0 => TypeHash(t1) = TypeHash(t2)
         /\ sign[t1][t2] + sign[t2][t1] = 0
         /\ sign[t1][t2] < 0 =>
              \A t3 \in ComparedTypes : sign[t2][t3] <= 0 => sign[t1][t3] < 0

SM_TableHolds ==
  /\ SM_TreesApart
  /\ SM_FindsInnermost /\ SM_CountsExact /\ SM_BasesLive /\ SM_EquivTrue
  /\ SM_DeclarationsRead /\ SM_ValidTold /\ SM_TypesOrdered
=============================================================================
