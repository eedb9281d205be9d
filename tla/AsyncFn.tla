------------------------------ MODULE AsyncFn ------------------------------
(***************************************************************************)
(* Functions called by SIGALRM (libjr/syscalls/async_fn.c): one process    *)
(* that adds and removes functions, the one alarm clock they share, and    *)
(* the signal handler that calls them.                                     *)
(*                                                                         *)
(* Times are relative to now: left is call_time - time (0), and a function *)
(* that was called and does not repeat has call_time jr_INT_MAX, which is  *)
(* Never.  SIGALRM is blocked while functions are added or removed, and    *)
(* while its handler runs, so each of these is one step.  CurrentTime is   *)
(* time (0) in every one of them: NumAlarms and AlarmTime stay 0.          *)
(***************************************************************************)
EXTENDS Integers, FiniteSets, FiniteSetsExt, Functions

CONSTANTS Funs,         (* function and parameter, ordered as addresses are *)
          Secs,         (* num_seconds                                      *)
          Repeats,      (* do_repeat                                        *)
          OldActions,   (* what SIGALRM did before, and the client's alarm: *)
          OldAlarms,    (*   initial values                                 *)
          MaxLate       (* bound on the seconds a signal is waiting         *)

Never  == 1000
Client == 0         \* the function the process had installed for SIGALRM

ASSUME AsyncFnAssumption ==
  /\ Funs \subseteq Nat \ {Client}
  /\ Secs \subseteq 1..Never - 1
  /\ Repeats \subseteq BOOLEAN
  /\ OldActions \subseteq {"default", "ignore", "client"}
  /\ OldAlarms \subseteq 0..Never - 1
  /\ MaxLate \in Nat

VARIABLES handlers,      (* HandlerTree: what is known of each function     *)
          initialized,   (* InitializedTree                                 *)
          disposition,   (* what SIGALRM does                               *)
          old,           (* OldAction                                       *)
          alarm,         (* seconds until SIGALRM, 0 when no alarm is set   *)
          pending,       (* SIGALRM was sent and not delivered              *)
          killed,        (* SIGALRM has terminated the process              *)
          fired          (* the functions the last step called              *)

vars == <<handlers, initialized, disposition, old, alarm, pending, killed, fired>>

NoHandlers == [h \in {} |-> h]

\* jr_AsyncFunctionCmp orders the tree by call time, then by address.
Before(tree, g, h) ==
  \/ tree[g].left < tree[h].left
  \/ tree[g].left = tree[h].left /\ g < h

Least(tree) == Min({tree[h].left : h \in DOMAIN tree})

Live(tree) == Restrict(tree, {h \in DOMAIN tree : tree[h].left # Never})

AlarmFor(tree) == IF Least(tree) > 0 THEN Least(tree) ELSE 1

Function(secs, repeat) == [left |-> secs, secs |-> secs, repeat |-> repeat]

With(tree, h, info) == [g \in DOMAIN tree \cup {h} |-> IF g = h THEN info ELSE tree[g]]

Init ==
  /\ handlers = NoHandlers
  /\ initialized = FALSE
  /\ disposition \in OldActions
  /\ old = "default"
  /\ alarm \in OldAlarms
  /\ pending = FALSE
  /\ killed = FALSE
  /\ fired = {}

\* The tree jr_AddAsyncFunction starts from: an alarm the process had set for a
\* handler of its own becomes the first function; functions that went off and
\* do not repeat are removed.
InheritedTree ==
  IF disposition = "client" /\ alarm > 0
  THEN With(NoHandlers, Client, Function(alarm, FALSE))
  ELSE NoHandlers

StartTree == Live(IF initialized THEN handlers ELSE InheritedTree)

\* Mutant: the alarm is set for the new function.
AddAsyncFunctionOwnAlarm(h, secs, repeat) ==
  /\ ~killed
  /\ h \notin DOMAIN StartTree
  /\ initialized' = TRUE
  /\ disposition' = "handler"
  /\ old' = IF initialized THEN old ELSE disposition
  /\ handlers' = With(StartTree, h, Function(secs, repeat))
  /\ alarm' = secs
  /\ fired' = {}
  /\ UNCHANGED <<pending, killed>>

\* A function that is in the tree is refused, after the tree was cleaned.
AddAsyncFunction(h, secs, repeat) ==
  /\ ~killed
  /\ initialized' = TRUE
  /\ disposition' = "handler"
  /\ old' = IF initialized THEN old ELSE disposition
  /\ \/ /\ h \in DOMAIN StartTree
        /\ handlers' = StartTree
        /\ UNCHANGED alarm
     \/ /\ h \notin DOMAIN StartTree
        /\ handlers' = With(StartTree, h, Function(secs, repeat))
        /\ alarm' = AlarmFor(handlers')
  /\ fired' = {}
  /\ UNCHANGED <<pending, killed>>

\* Removing the last function restores what SIGALRM did; the alarm stays set.
RemoveAsyncFunction(h) ==
  /\ ~killed
  /\ handlers' = Restrict(handlers, DOMAIN handlers \ {h})
  /\ IF DOMAIN handlers' = {}
     THEN disposition' = old /\ initialized' = FALSE
     ELSE UNCHANGED <<disposition, initialized>>
  /\ fired' = {}
  /\ UNCHANGED <<old, alarm, pending, killed>>

\* A function that was called: inserted again for its next call, or for never.
Called(info) == [info EXCEPT !.left = IF info.repeat THEN info.secs ELSE Never]

Due == {h \in DOMAIN handlers : handlers[h].left <= 0}

CalledTree == [h \in DOMAIN handlers |-> IF h \in Due THEN Called(handlers[h]) ELSE handlers[h]]

\* Mutant: the alarm is not set again.
NextAlarmOnce == 0

\* jr_AsyncFunctionHandler calls the functions that are due in the order of the
\* tree and takes the next one before it inserts the one just called.  So the
\* last function it calls is not among those the alarm is set for, unless there
\* is no other.
NextAlarm ==
  IF handlers = NoHandlers THEN 0
  ELSE LET last   == {h \in Due : \A g \in Due \ {h} : Before(handlers, g, h)}
           others == DOMAIN handlers \ last
       IN Least(Restrict(CalledTree, IF others = {} THEN last ELSE others))

AsyncFunctionHandler ==
  /\ disposition = "handler"
  /\ handlers' = CalledTree
  /\ alarm' = IF NextAlarm = 0 THEN alarm ELSE NextAlarm
  /\ fired' = Due
  /\ UNCHANGED <<initialized, disposition, old, killed>>

\* SIGALRM while its disposition is not ours.
OldHandler ==
  /\ disposition # "handler"
  /\ killed' = (disposition = "default")
  /\ fired' = IF disposition = "client" THEN {Client} ELSE {}
  /\ UNCHANGED <<handlers, initialized, disposition, old, alarm>>

Deliver ==
  /\ ~killed
  /\ pending
  /\ pending' = FALSE
  /\ AsyncFunctionHandler \/ OldHandler

\* A second passes.  A signal waits for the process at most MaxLate seconds,
\* and no more than MaxLate missed seconds are counted.
Later(info) ==
  [info EXCEPT !.left = IF @ = Never \/ @ = -MaxLate THEN @ ELSE @ - 1]

Tick ==
  /\ ~killed
  /\ pending => \A h \in DOMAIN handlers : handlers[h].left > -MaxLate
  /\ handlers' = [h \in DOMAIN handlers |-> Later(handlers[h])]
  /\ alarm' = IF alarm \in {0, Never} THEN alarm ELSE alarm - 1
  /\ pending' = (pending \/ alarm = 1)
  /\ fired' = {}
  /\ UNCHANGED <<initialized, disposition, old, killed>>

Next ==
  \/ \E h \in Funs, secs \in Secs, repeat \in Repeats : AddAsyncFunction(h, secs, repeat)
  \/ \E h \in Funs : RemoveAsyncFunction(h)
  \/ Deliver
  \/ Tick

\* Time passes, and a signal that is pending is delivered.
Spec == Init /\ [][Next]_vars /\ WF_vars(Tick) /\ WF_vars(Deliver)

----------------------------------------------------------------------------
(* Properties.                                                             *)

\* The alarm is a number of seconds that alarm () takes, and a call time is Never
\* or within MaxLate seconds of the past.
TypeOK ==
  /\ DOMAIN handlers \subseteq Funs \cup {Client}
  /\ \A h \in DOMAIN handlers :
       /\ handlers[h].left \in -MaxLate..Never
       /\ handlers[h].secs \in 1..Never
       /\ handlers[h].repeat \in BOOLEAN
  /\ initialized \in BOOLEAN /\ pending \in BOOLEAN /\ killed \in BOOLEAN
  /\ disposition \in {"handler", "default", "ignore", "client"}
  /\ old \in {"default", "ignore", "client"}
  /\ alarm \in 0..Never
  /\ fired \subseteq Funs \cup {Client}

\* A function that does not repeat is never late: when its time has come, the one
\* alarm all functions share (jr_AsyncFunctionHandler, jr_AddAsyncFunction) has
\* gone off, whichever functions were called, added and removed before.
NeverLate == \A h \in DOMAIN handlers : ~handlers[h].repeat /\ handlers[h].left <= 0 => pending

\* Part of EveryFunctionCalled.
RepeatedCalls ==
  \A h \in Funs :
    h \in DOMAIN handlers /\ handlers[h].repeat ~> h \in fired \/ h \notin DOMAIN handlers

\* A function that does not repeat is called or removed, the one included that the
\* process had installed for its own alarm; and when all functions repeat, each of
\* them is called again and again until it is removed.
EveryFunctionCalled ==
  /\ \A h \in Funs \cup {Client} :
       h \in DOMAIN Live(handlers) /\ ~handlers[h].repeat ~> h \in fired \/ h \notin DOMAIN handlers
  /\ [](\A h \in DOMAIN handlers : handlers[h].repeat) => RepeatedCalls

\* Statement of async_fn.c that does not hold: only "handlers that went off but
\* didn't repeat" are waiting for their removal; one that repeats is called
\* again, whatever the others are.
RepeatsForever == RepeatedCalls
=============================================================================
