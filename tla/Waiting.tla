------------------------------ MODULE Waiting -------------------------------
(***************************************************************************)
(* How a program waits for descriptors: polled, with epoll made of select  *)
(* where there is none, or with functions that SIGIO calls. The two halves *)
(* share no state.                                                         *)
(***************************************************************************)
EXTENDS Integers, Sequences, FiniteSets

(***************************************************************************)
(* The set of polled descriptors of src/libjr/syscalls/jr_poll.c: a list   *)
(* of events with a hash table over it, the poll set of APR that points    *)
(* into the list, and the results of the last wait, which are copies of    *)
(* events. Table and list always change together and are one set here.     *)
(* The poll set is external: what is added to it may be refused, and it    *)
(* may be impossible to create one.                                        *)
(*                                                                         *)
(* And epoll made of select, for kernels without it (jr_epoll.c), in the   *)
(* second section of the module.                                          *)
(***************************************************************************)

CONSTANTS
  PL_Ios,          \* sockets and files
  PL_Data,         \* handler functions with their data
  PL_MinSize,      \* MIN_APR_POLLSET_SIZE
  PL_MaxAdds       \* bound of num_descriptors

ASSUME PollAssumption ==
  IsFiniteSet(PL_Ios) /\ PL_MinSize \in Nat \ {0} /\ PL_MaxAdds \in Nat

VARIABLES
  pl_events,       \* event_list and event_table; adr is the address of an event
  pl_set,          \* apr_pollset_ptr: the descriptors with their client_data
  pl_created,      \* whether there is a poll set
  pl_num,          \* num_descriptors
  pl_max,          \* max_descriptors
  pl_results,      \* result_list
  pl_client,       \* history: the additions that succeeded and were not deleted
  pl_closed        \* the events the last undo called with jr_POLL_CLOSE

pl_vars == <<pl_events, pl_set, pl_created, pl_num, pl_max, pl_results, pl_client, pl_closed>>

Addresses == 1 .. Cardinality(PL_Ios) + 1

(* An event freed leaves its address to the next one.                      *)
FreeAddress == CHOOSE a \in Addresses : \A e \in pl_events : e.adr # a

InPollset(e) == [io |-> e.io, client_data |-> e.adr]

PL_Init ==
  /\ pl_events = {} /\ pl_set = {} /\ pl_created = FALSE
  /\ pl_num = 0 /\ pl_max = 0
  /\ pl_results = {} /\ pl_client = {} /\ pl_closed = {}

(* Mutant: what could be added until an addition failed is installed.      *)
IncreasedToPart(events, set, max) ==
  {[ok |-> s = {InPollset(e) : e \in events}, set |-> s, max |-> max] :
     s \in SUBSET {InPollset(e) : e \in events}}

(* jr_poll_increase_capacity: the new poll set takes all events of the     *)
(* list, or the old one stays.                                             *)
Increased(events, set, max) ==
  LET size == IF pl_num + 1 < 2 * max THEN 2 * max ELSE pl_num + 1
  IN {[ok |-> TRUE, set |-> {InPollset(e) : e \in events}, max |-> size],
      [ok |-> FALSE, set |-> set, max |-> max]}

(* The event is in the list before it is added to the poll set, and stays  *)
(* there when it is refused.                                               *)
AddEvent(io, data, set) ==
  LET event == [adr |-> FreeAddress, io |-> io, data |-> data]
  IN IF \E e \in pl_events : e.io = io
     THEN pl_set' = set /\ UNCHANGED <<pl_events, pl_num, pl_client>>
     ELSE /\ pl_events' = pl_events \cup {event}
          /\ \/ /\ pl_set' = set \cup {InPollset(event)}
                /\ pl_num' = pl_num + 1
                /\ pl_client' = pl_client \cup {[io |-> io, data |-> data]}
             \/ pl_set' = set /\ UNCHANGED <<pl_num, pl_client>>

(* jr_poll_add_generic.                                                    *)
PL_Add ==
  /\ pl_num < PL_MaxAdds
  /\ \E io \in PL_Ios, data \in PL_Data :
       LET max == IF pl_created THEN pl_max ELSE PL_MinSize
       IN \/ /\ ~pl_created                         \* no pool or no poll set
             /\ UNCHANGED <<pl_events, pl_set, pl_created, pl_num, pl_max, pl_client>>
          \/ /\ pl_num < max
             /\ pl_created' = TRUE /\ pl_max' = max
             /\ AddEvent(io, data, pl_set)
          \/ /\ pl_num >= max
             /\ pl_created' = TRUE
             /\ \E grown \in Increased(pl_events, pl_set, max) :
                  /\ pl_max' = grown.max
                  /\ IF grown.ok THEN AddEvent(io, data, grown.set)
                     ELSE pl_set' = grown.set /\ UNCHANGED <<pl_events, pl_num, pl_client>>
  /\ pl_closed' = {}
  /\ UNCHANGED pl_results

(* jr_poll_delete_generic. num_descriptors stays.                          *)
PL_Delete ==
  /\ \E io \in PL_Ios :
       /\ pl_events' = {e \in pl_events : e.io # io}
       /\ pl_set' = {p \in pl_set : p.io # io}
       /\ pl_client' = {c \in pl_client : c.io # io}
  /\ pl_closed' = {}
  /\ UNCHANGED <<pl_created, pl_num, pl_max, pl_results>>

(* jr_poll_wait copies the events of the descriptors that are ready; it    *)
(* keeps the last results when the wait fails.                             *)
PL_Wait ==
  /\ pl_created
  /\ \E ready \in SUBSET pl_set :
       pl_results' = {e \in pl_events : \E p \in ready : p.client_data = e.adr}
  /\ pl_closed' = {}
  /\ UNCHANGED <<pl_events, pl_set, pl_created, pl_num, pl_max, pl_client>>

(* jr_poll_undo calls every handler once more. The client begins anew.     *)
PL_Undo ==
  /\ pl_closed' = pl_events
  /\ pl_events' = {} /\ pl_set' = {} /\ pl_created' = FALSE
  /\ pl_num' = 0 /\ pl_max' = 0
  /\ pl_results' = {} /\ pl_client' = {}

PL_Next == PL_Add \/ PL_Delete \/ PL_Wait \/ PL_Undo

PL_Spec == PL_Init /\ [][PL_Next]_pl_vars

-----------------------------------------------------------------------------
(* Whatever additions were refused, deleted, and repeated, and however     *)
(* often the poll set was replaced: its client data are events of the list *)
(* for the same descriptor, which jr_poll_wait writes to; it has every     *)
(* descriptor whose addition succeeded, with the data of that addition,    *)
(* and none more than once. The number that makes it grow counts all of    *)
(* them.                                                                   *)
PL_SetFollowsClient ==
  /\ \A p \in pl_set : \E e \in pl_events : e.adr = p.client_data /\ e.io = p.io
  /\ \A p, q \in pl_set : p.io = q.io => p = q
  /\ \A c \in pl_client :
       \E e \in pl_events : InPollset(e) \in pl_set /\ e.io = c.io /\ e.data = c.data
  /\ \A d, e \in pl_events : d.io = e.io \/ d.adr = e.adr => d = e
  /\ Cardinality(pl_client) <= pl_num

-----------------------------------------------------------------------------
(* epoll made of select: src/libjr/syscalls/jr_epoll.c. The instances are  *)
(* in one list; jr_epoll_create returns 0 for every one of them, so that   *)
(* all calls are about the first. A client has one instance at a time      *)
(* here, and opens it again after closing it. select is external: it gives *)
(* any of the descriptors asked for.                                       *)
(*                                                                         *)
(* ep_client is the history: what the client added, by descriptor.         *)

CONSTANTS
  EP_Fds, EP_Data,
  EP_MaxEvents     \* values of max_events

Styles == {"in", "out"}

VARIABLES
  ep_list,         \* EPollList[0].event_list
  ep_open,         \* EPollListIsInitialized: EPollNumCreates is 1
  ep_client,
  ep_wait          \* the last jr_epoll_wait: what select gave, and what it returned

ep_vars == <<ep_list, ep_open, ep_client, ep_wait>>

NoWait == [asked |-> {}, ready |-> {}, status |-> "none", events |-> <<>>]
NoClient == [fd \in {} |-> fd]

EP_Init == ep_list = <<>> /\ ep_open = FALSE /\ ep_client = NoClient /\ ep_wait = NoWait

EP_Create ==
  /\ ~ep_open
  /\ ep_open' = TRUE /\ ep_list' = <<>> /\ ep_client' = NoClient /\ ep_wait' = NoWait

EP_Close ==
  /\ ep_open
  /\ ep_open' = FALSE /\ ep_list' = <<>> /\ ep_client' = NoClient /\ ep_wait' = NoWait

(* Mutant: a descriptor that is there is added again.                      *)
WithEventTwice(list, event) == Append(list, event)

(* jr_EPollAddEvent, for EPOLL_CTL_ADD and EPOLL_CTL_MOD: an event that is *)
(* there is replaced.                                                      *)
WithEvent(list, event) ==
  IF \E i \in DOMAIN list : list[i].fd = event.fd
  THEN [i \in DOMAIN list |-> IF list[i].fd = event.fd THEN event ELSE list[i]]
  ELSE Append(list, event)

EP_Add ==
  /\ ep_open
  /\ \E fd \in EP_Fds, styles \in SUBSET Styles, data \in EP_Data :
       /\ ep_list' = WithEvent(ep_list, [fd |-> fd, styles |-> styles, data |-> data])
       /\ ep_client' = [f \in DOMAIN ep_client \cup {fd} |->
                          IF f = fd THEN [styles |-> styles, data |-> data] ELSE ep_client[f]]
  /\ ep_wait' = NoWait
  /\ UNCHANGED ep_open

(* jr_EPollDeleteEvent removes the first event of the descriptor.          *)
EP_Delete ==
  /\ ep_open
  /\ \E fd \in EP_Fds :
       /\ ep_list' =
            LET at == {i \in DOMAIN ep_list : ep_list[i].fd = fd}
                first == CHOOSE i \in at : \A j \in at : i <= j
            IN IF at = {} THEN ep_list
               ELSE SubSeq(ep_list, 1, first - 1) \o SubSeq(ep_list, first + 1, Len(ep_list))
       /\ ep_client' = [f \in DOMAIN ep_client \ {fd} |-> ep_client[f]]
  /\ ep_wait' = NoWait
  /\ UNCHANGED ep_open

Asked(list) == UNION {{<<list[i].fd, s>> : s \in list[i].styles} : i \in DOMAIN list}

(* The events of the descriptors in the sets that select has left, in the  *)
(* order of the list.                                                      *)
Given(list, ready) == {i \in DOMAIN list : \E s \in Styles : <<list[i].fd, s>> \in ready}
Nth(given, n) == CHOOSE i \in given : Cardinality({j \in given : j <= i}) = n

Reported(list, ready) ==
  LET event(e) == [data |-> e.data, styles |-> {s \in Styles : <<e.fd, s>> \in ready}]
      given == Given(list, ready)
  IN [n \in 1 .. Cardinality(given) |-> event(list[Nth(given, n)])]

(* There has to be room for all descriptors, because all are looked at;    *)
(* and select may fail.                                                    *)
EP_Wait ==
  /\ ep_open
  /\ \/ ep_wait' = [NoWait EXCEPT !.status = "error"]
     \/ \E max_events \in EP_MaxEvents, ready \in SUBSET Asked(ep_list) :
          /\ max_events >= Len(ep_list)
          /\ ep_wait' = [asked |-> Asked(ep_list), ready |-> ready, status |-> "done",
                         events |-> Reported(ep_list, ready)]
  /\ UNCHANGED <<ep_list, ep_open, ep_client>>

EP_Next == EP_Create \/ EP_Close \/ EP_Add \/ EP_Delete \/ EP_Wait

EP_Spec == EP_Init /\ [][EP_Next]_ep_vars

-----------------------------------------------------------------------------
(* What a wait asked select for, what select left, and what was reported.  *)
ReportsTrue(wait, client) ==
  LET fds == {fd \in DOMAIN client : \E s \in Styles : <<fd, s>> \in wait.ready}
      due(fd) == [data |-> client[fd].data,
                  styles |-> {s \in Styles : <<fd, s>> \in wait.ready}]
      times(x) == Cardinality({i \in DOMAIN wait.events : wait.events[i] = x})
  IN /\ wait.asked = UNION {{fd} \X client[fd].styles : fd \in DOMAIN client}
     /\ Len(wait.events) = Cardinality(fds)
     /\ \A fd \in fds : times(due(fd)) = Cardinality({f \in fds : due(f) = due(fd)})

(* A wait asks for what the client wants to know, no more and no less, and *)
(* reports each descriptor that is ready in one event, with the data the   *)
(* client gave it last and the ways in which it is ready.                  *)
EP_ReportsEachOnce ==
  ep_wait.status = "done" => ReportsTrue(ep_wait, ep_client)

-----------------------------------------------------------------------------
(***************************************************************************)
(* Functions called by SIGIO (src/libjr/syscalls/async_io.c): the table of *)
(* descriptors with their functions, which the program changes with the    *)
(* signal blocked, and the signal handler, which asks select what is       *)
(* ready, walks the table, and calls functions that may change it in turn. *)
(* A handler is a pair of a descriptor and "read" or "write".              *)
(*                                                                         *)
(* Two things a function can do leave the handler with memory it has       *)
(* freed: it removes the last entry, or it adds one for which the table    *)
(* has to grow. What happens then is not defined, and the model ends.      *)
(***************************************************************************)

CONSTANTS
  AI_Pairs,        \* descriptors with "read" or "write" that may get a function
  AI_OldActions    \* what SIGIO did before: initial values

Removed == <<"removed">>     \* an entry of the table that was deleted

ASSUME AsyncIOAssumption ==
  /\ \A p \in AI_Pairs : p # Removed /\ p[2] \in {"read", "write"}
  /\ AI_OldActions \subseteq {"default", "ignore", "client"}

VARIABLES
  ai_table,        \* HandlerTable: the entries by index
  ai_disposition,  \* what SIGIO does
  ai_old,          \* OldAction
  ai_fasync,       \* descriptors with FASYNC
  ai_owned,        \* descriptors whose SIGIO goes to the process
  ai_pending,      \* SIGIO was sent and not delivered
  ai_main,         \* the call the program is in
  ai_loop,         \* the place of the signal handler in the table
  ai_ready,        \* the pairs that select has left in the sets
  ai_calls,        \* how often the handler has called the function of each pair
  ai_due,          \* history: pairs of ai_ready that were never removed since select
  ai_end           \* "killed" by SIGIO, or "undefined", or ""

ai_vars == <<ai_table, ai_disposition, ai_old, ai_fasync, ai_owned, ai_pending,
             ai_main, ai_loop, ai_ready, ai_calls, ai_due, ai_end>>

Idle == [step |-> "idle"]
NoLoop == [at |-> 0, half |-> "read"]
NoCalls == [p \in AI_Pairs |-> 0]

Entries(table) == {table[i] : i \in DOMAIN table} \ {Removed}
FreeEntries(table) == {i \in DOMAIN table : table[i] = Removed}

(* InitializedTable.                                                       *)
Initialized == ai_disposition = "handler"

AI_Init ==
  /\ ai_table = <<>> /\ ai_old = "default" /\ ai_disposition \in AI_OldActions
  /\ ai_fasync = {} /\ ai_owned = {} /\ ai_pending = FALSE
  /\ ai_main = Idle /\ ai_loop = NoLoop
  /\ ai_ready = {} /\ ai_calls = NoCalls /\ ai_due = {} /\ ai_end = ""

-----------------------------------------------------------------------------
(* The table. An entry that was deleted is used before the table grows, to *)
(* twice its size when it is full.                                         *)

TablesWith(table, pair) ==
  IF FreeEntries(table) = {} THEN {Append(table, pair)}
  ELSE {[table EXCEPT ![i] = pair] : i \in FreeEntries(table)}

MovesTable(table) == FreeEntries(table) = {} /\ Len(table) \in {0, 1, 2, 4}

(* Mutant: the last entry is moved to the place of the deleted one.        *)
TableWithoutMoving(table, pair) ==
  LET last == table[Len(table)]
  IN [i \in 1 .. Len(table) - 1 |-> IF table[i] = pair THEN last ELSE table[i]]

TableWithout(table, pair) ==
  [i \in DOMAIN table |-> IF table[i] = pair THEN Removed ELSE table[i]]

(* jr_AddAsyncIOHandler: SIGIO is taken over with the first entry, and the *)
(* entry is refused when there is one already.                             *)
AddHandler(pair) ==
  /\ IF Initialized THEN UNCHANGED <<ai_disposition, ai_old>>
     ELSE ai_disposition' = "handler" /\ ai_old' = ai_disposition
  /\ IF pair \in Entries(ai_table) THEN UNCHANGED ai_table
     ELSE ai_table' \in TablesWith(ai_table, pair)
  /\ UNCHANGED ai_due

(* jr_RemoveAsyncIOHandler: SIGIO is given back with the last entry.       *)
RemoveHandler(pair) ==
  LET table == IF pair \in Entries(ai_table) THEN TableWithout(ai_table, pair) ELSE ai_table
  IN /\ ai_due' = ai_due \ {pair}
     /\ IF Initialized /\ Entries(table) = {}
        THEN ai_table' = <<>> /\ ai_disposition' = ai_old /\ UNCHANGED ai_old
        ELSE ai_table' = table /\ UNCHANGED <<ai_disposition, ai_old>>

-----------------------------------------------------------------------------
(* The program. Its calls are steps of their own where SIGIO can come.     *)

MainMayRun == ai_end = "" /\ ai_loop.at = 0

(* jr_InitAsyncIO sets FASYNC first, ...                                   *)
AI_InitFasync ==
  /\ MainMayRun /\ ai_main = Idle
  /\ \E pair \in AI_Pairs :
       /\ ai_fasync' = ai_fasync \cup {pair[1]}
       /\ ai_main' = [step |-> "add", pair |-> pair]
  /\ UNCHANGED <<ai_table, ai_disposition, ai_old, ai_owned, ai_pending,
                 ai_loop, ai_ready, ai_calls, ai_due, ai_end>>

(* ... then adds the handler, ...                                          *)
AI_InitAdd ==
  /\ MainMayRun /\ ai_main.step = "add"
  /\ AddHandler(ai_main.pair)
  /\ ai_main' = IF ai_main.pair \in Entries(ai_table) THEN Idle
                ELSE [ai_main EXCEPT !.step = "own"]
  /\ UNCHANGED <<ai_fasync, ai_owned, ai_pending, ai_loop, ai_ready, ai_calls, ai_end>>

(* ... and has SIGIO sent to the process; when that fails the handler is   *)
(* removed.                                                                *)
AI_InitOwn ==
  /\ MainMayRun /\ ai_main.step = "own"
  /\ \/ /\ ai_owned' = ai_owned \cup {ai_main.pair[1]}
        /\ UNCHANGED <<ai_table, ai_disposition, ai_old, ai_due>>
     \/ RemoveHandler(ai_main.pair) /\ UNCHANGED ai_owned
  /\ ai_main' = Idle
  /\ UNCHANGED <<ai_fasync, ai_pending, ai_loop, ai_ready, ai_calls, ai_end>>

(* jr_UndoAsyncIO removes the handler, and then sets FASYNC once more, or  *)
(* fails to.                                                               *)
AI_Undo ==
  /\ MainMayRun /\ ai_main = Idle
  /\ \E pair \in AI_Pairs :
       RemoveHandler(pair) /\ ai_main' = [step |-> "undo", pair |-> pair]
  /\ UNCHANGED <<ai_fasync, ai_owned, ai_pending, ai_loop, ai_ready, ai_calls, ai_end>>

AI_UndoFasync ==
  /\ MainMayRun /\ ai_main.step = "undo"
  /\ ai_fasync' \in {ai_fasync, ai_fasync \cup {ai_main.pair[1]}}
  /\ ai_main' = Idle
  /\ UNCHANGED <<ai_table, ai_disposition, ai_old, ai_owned, ai_pending,
                 ai_loop, ai_ready, ai_calls, ai_due, ai_end>>

-----------------------------------------------------------------------------
(* The signal.                                                             *)

AI_Send ==
  /\ ai_end = "" /\ ~ai_pending
  /\ ai_fasync \cap ai_owned # {}
  /\ ai_pending' = TRUE
  /\ UNCHANGED <<ai_table, ai_disposition, ai_old, ai_fasync, ai_owned,
                 ai_main, ai_loop, ai_ready, ai_calls, ai_due, ai_end>>

(* jr_AsyncIOHandler up to select. When nothing is ready or select fails   *)
(* it returns, and the client's own action is not called either.           *)
AI_Deliver ==
  /\ MainMayRun /\ ai_pending
  /\ ai_pending' = FALSE
  /\ ai_end' = IF ai_disposition = "default" THEN "killed" ELSE ""
  /\ IF ai_disposition = "handler"
     THEN \E ready \in SUBSET Entries(ai_table) :
            /\ ai_ready' = ready /\ ai_due' = ready
            /\ ai_loop' = IF ready = {} THEN NoLoop ELSE [at |-> 1, half |-> "read"]
     ELSE UNCHANGED <<ai_ready, ai_due, ai_loop>>
  /\ UNCHANGED <<ai_table, ai_calls, ai_disposition, ai_old, ai_fasync, ai_owned, ai_main>>

(* The function of an entry is called, and may undo or init a handler.     *)
FunctionDoes ==
  \/ UNCHANGED <<ai_table, ai_disposition, ai_old, ai_due, ai_fasync, ai_owned>>
  \/ \E pair \in Entries(ai_table) :
       RemoveHandler(pair) /\ UNCHANGED <<ai_fasync, ai_owned>>
  \/ \E pair \in AI_Pairs :
       /\ AddHandler(pair)
       /\ ai_fasync' = ai_fasync \cup {pair[1]} /\ ai_owned' = ai_owned \cup {pair[1]}

FreesTable ==
  \/ ai_disposition' # "handler"
  \/ Len(ai_table') > Len(ai_table) /\ MovesTable(ai_table)

AfterHalf ==
  IF ai_loop.half = "read" THEN [ai_loop EXCEPT !.half = "write"]
  ELSE [at |-> ai_loop.at + 1, half |-> "read"]

(* One of the two conditions in the body of the second loop; the second    *)
(* reads the entry again. A deleted entry is only looked at before.        *)
AI_Visit ==
  /\ ai_end = "" /\ ai_loop.at \in DOMAIN ai_table
  /\ \E pair \in {ai_table[ai_loop.at]} :
       IF pair \in ai_ready /\ pair[2] = ai_loop.half
       THEN /\ ai_calls' = [ai_calls EXCEPT ![pair] = @ + 1]
            /\ FunctionDoes
            /\ ai_end' = IF FreesTable THEN "undefined" ELSE ""
       ELSE UNCHANGED <<ai_table, ai_disposition, ai_old, ai_due, ai_fasync, ai_owned,
                        ai_calls, ai_end>>
  /\ ai_loop' = IF ai_loop.half = "read" /\ ai_table[ai_loop.at] = Removed
                THEN [ai_loop EXCEPT !.at = @ + 1] ELSE AfterHalf
  /\ UNCHANGED <<ai_pending, ai_main, ai_ready>>

(* The client's own action is called last.                                 *)
AI_Finish ==
  /\ ai_end = "" /\ ai_loop.at > Len(ai_table)
  /\ ai_loop' = NoLoop
  /\ ai_ready' = {} /\ ai_calls' = NoCalls /\ ai_due' = {}
  /\ UNCHANGED <<ai_table, ai_disposition, ai_old, ai_fasync, ai_owned, ai_pending,
                 ai_main, ai_end>>

AI_Next ==
  \/ AI_InitFasync \/ AI_InitAdd \/ AI_InitOwn \/ AI_Undo \/ AI_UndoFasync
  \/ AI_Send \/ AI_Deliver \/ AI_Visit \/ AI_Finish

AI_Spec == AI_Init /\ [][AI_Next]_ai_vars

-----------------------------------------------------------------------------
(* When the handler has walked the table, it has called the function of    *)
(* every pair that was ready just once, unless the pair was removed, by    *)
(* whatever was removed and added under way. A pair is in the table once,  *)
(* and SIGIO is the handler's as long as there is one, and the client's    *)
(* when there is none.                                                     *)
AI_ReadyCalledOnce ==
  ai_end = "" =>
    /\ ai_loop.at > Len(ai_table) => \A p \in ai_due : ai_calls[p] = 1
    /\ \A i, j \in DOMAIN ai_table : ai_table[i] = ai_table[j] => i = j \/ ai_table[i] = Removed
    /\ Initialized <=> Entries(ai_table) # {}
    /\ Initialized => ai_old \in AI_OldActions
=============================================================================
