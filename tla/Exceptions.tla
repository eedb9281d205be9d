----------------------------- MODULE Exceptions -----------------------------
(***************************************************************************)
(* Exceptions raised by name (exceptn.c). A function that catches has one  *)
(* record, with its jump buffer, on the stack of each name of its vector;  *)
(* a raise jumps to the record on top of the name's stack and takes        *)
(* nothing off; leaving the function takes one record off each stack. The  *)
(* functions a raise jumps over do not leave: their records stay.          *)
(***************************************************************************)
EXTENDS Naturals, Sequences, FiniteSets, SequencesExt

CONSTANTS
  EXNames,
  EXVectors,   \* sequences of names that functions catch
  EXRecords    \* memory for records

(* A function that catches names an exception at least.                    *)
ASSUME ExceptionAssumption == EXVectors \subseteq Seq(EXNames) \ {<<>>}

VARIABLES
  ex_lists,    \* jmp_buf_list of each name; empty: the name is not in the table
  ex_refs,     \* num_references of each record; 0: the memory is free
  ex_frames,   \* functions between catch and uncatch, the innermost last
  ex_call,     \* a catch or uncatch under way: what is left of its vector
  ex_skipped,  \* a raise has jumped over a function that catches (history)
  ex_end       \* "undefined" after a jump into a function that is gone

ex_vars == <<ex_lists, ex_refs, ex_frames, ex_call, ex_skipped, ex_end>>

EX_NoCall == [op |-> "none", record |-> 0, vector |-> <<>>]

EX_Init ==
  /\ ex_lists = [name \in EXNames |-> <<>>]
  /\ ex_refs = [r \in EXRecords |-> 0]
  /\ ex_frames = <<>>
  /\ ex_call = EX_NoCall
  /\ ex_skipped = FALSE
  /\ ex_end = ""

EX_Idle == ex_call = EX_NoCall /\ ex_end = ""

(* jr_ExceptionGetPtrFromVector: a new record, pushed for one name after   *)
(* the other; then the function has set its jump buffer.                   *)
EX_Catch ==
  /\ EX_Idle
  /\ \E vector \in EXVectors, r \in EXRecords :
       /\ ex_refs[r] = 0
       /\ ex_call' = [op |-> "catch", record |-> r, vector |-> vector]
       /\ ex_frames' = Append(ex_frames, [record |-> r, vector |-> vector])
  /\ UNCHANGED <<ex_lists, ex_refs, ex_skipped, ex_end>>

EX_Push ==
  /\ ex_call.op = "catch" /\ ex_call.vector # <<>>
  /\ ex_lists' = [ex_lists EXCEPT ![Head(ex_call.vector)] = Append(@, ex_call.record)]
  /\ ex_refs' = [ex_refs EXCEPT ![ex_call.record] = @ + 1]
  /\ ex_call' = [ex_call EXCEPT !.vector = Tail(@)]
  /\ UNCHANGED <<ex_frames, ex_skipped, ex_end>>

(* jr_ExceptionUnCatchVector when the innermost function leaves.           *)
EX_UnCatch ==
  /\ EX_Idle /\ ex_frames # <<>>
  /\ ex_call' = [op |-> "uncatch", record |-> 0, vector |-> Last(ex_frames).vector]
  /\ ex_frames' = Front(ex_frames)
  /\ UNCHANGED <<ex_lists, ex_refs, ex_skipped, ex_end>>

(* One name: the last reference frees the record, the last record the      *)
(* stack. A name that is not in the table ends the call.                   *)
(* Mutant: the record is freed with its first reference.                   *)
EX_PopFreeing ==
  /\ ex_call.op = "uncatch" /\ ex_call.vector # <<>>
  /\ LET name == Head(ex_call.vector) IN
     IF ex_lists[name] = <<>>
     THEN /\ ex_call' = [ex_call EXCEPT !.vector = <<>>]
          /\ UNCHANGED <<ex_lists, ex_refs>>
     ELSE /\ ex_lists' = [ex_lists EXCEPT ![name] = Front(@)]
          /\ ex_refs' = [ex_refs EXCEPT ![Last(ex_lists[name])] = 0]
          /\ ex_call' = [ex_call EXCEPT !.vector = Tail(@)]
  /\ UNCHANGED <<ex_frames, ex_skipped, ex_end>>

EX_Pop ==
  /\ ex_call.op = "uncatch" /\ ex_call.vector # <<>>
  /\ LET name == Head(ex_call.vector) IN
     IF ex_lists[name] = <<>>
     THEN /\ ex_call' = [ex_call EXCEPT !.vector = <<>>]
          /\ UNCHANGED <<ex_lists, ex_refs>>
     ELSE /\ ex_lists' = [ex_lists EXCEPT ![name] = Front(@)]
          /\ ex_refs' = [ex_refs EXCEPT ![Last(ex_lists[name])] = @ - 1]
          /\ ex_call' = [ex_call EXCEPT !.vector = Tail(@)]
  /\ UNCHANGED <<ex_frames, ex_skipped, ex_end>>

EX_Return ==
  /\ ex_call # EX_NoCall /\ ex_call.vector = <<>>
  /\ ex_call' = EX_NoCall
  /\ UNCHANGED <<ex_lists, ex_refs, ex_frames, ex_skipped, ex_end>>

(* jr_ExceptionRaise: nothing happens when nobody catches the name.        *)
EX_Raise ==
  /\ EX_Idle
  /\ \E name \in EXNames :
       /\ ex_lists[name] # <<>>
       /\ LET target == {i \in DOMAIN ex_frames : ex_frames[i].record = Last(ex_lists[name])} IN
          IF target = {}
          THEN ex_end' = "undefined" /\ UNCHANGED <<ex_frames, ex_skipped>>
          ELSE LET i == CHOOSE i \in target : TRUE IN
               /\ ex_frames' = SubSeq(ex_frames, 1, i)
               /\ ex_skipped' = (ex_skipped \/ i < Len(ex_frames))
               /\ UNCHANGED ex_end
  /\ UNCHANGED <<ex_lists, ex_refs, ex_call>>

EX_Next ==
  EX_Catch \/ EX_Push \/ EX_UnCatch \/ EX_Pop \/ EX_Return \/ EX_Raise

EX_Spec == EX_Init /\ [][EX_Next]_ex_vars
-----------------------------------------------------------------------------
Places(list, r) == {i \in DOMAIN list : list[i] = r}
Uses(r) == UNION {{name} \X Places(ex_lists[name], r) : name \in EXNames}

(* The functions that catch a name, and the places on its stack of the     *)
(* record of a function.                                                   *)
Catching(name) ==
  {i \in DOMAIN ex_frames : \E k \in DOMAIN ex_frames[i].vector : ex_frames[i].vector[k] = name}
HeldAt(i, name) == Places(ex_lists[name], ex_frames[i].record)

(* A record's references are the places it has on stacks, so no stack ever *)
(* holds memory that was freed; every function that catches a name is on   *)
(* its stack, above the functions that called it, however many were jumped *)
(* over before; and as long as none was, the stack has nothing else, so a  *)
(* raise finds the innermost function that catches its name.               *)
EX_RaiseFindsFrame ==
  /\ \A r \in EXRecords : ex_refs[r] = Cardinality(Uses(r))
  /\ EX_Idle => \A name \in EXNames :
       /\ \A i \in Catching(name) : HeldAt(i, name) # {}
       /\ \A i, j \in Catching(name) : i < j =>
            \A m \in HeldAt(i, name), n \in HeldAt(j, name) : m < n
       /\ ~ex_skipped => \A m \in DOMAIN ex_lists[name] :
            \E i \in Catching(name) : m \in HeldAt(i, name)
=============================================================================
