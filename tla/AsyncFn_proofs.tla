---------------------------- MODULE AsyncFn_proofs ----------------------------
(***************************************************************************)
(* No function is late: proofs about AsyncFn, for any number of functions, *)
(* any times, and signals delivered any number of seconds late.            *)
(***************************************************************************)
EXTENDS AsyncFn, WellFoundedInduction, TLAPS

(* What is known of a function.                                            *)
Info == [left : -MaxLate..Never, secs : 1..Never, repeat : BOOLEAN]

IsTree(tree) == DOMAIN tree \subseteq Funs \cup {Client} /\ tree \in [DOMAIN tree -> Info]

Waiting(tree) == {h \in DOMAIN tree : ~tree[h].repeat /\ tree[h].left # Never}

(* The alarm goes off before the time of every function that is still to   *)
(* be called and does not repeat, or has gone off.                         *)
AlarmInTime(tree, seconds, sent) == \A h \in Waiting(tree) : sent \/ seconds \in 1..tree[h].left

(* SIGALRM is ours as long as there are functions.                         *)
HandlerInstalled ==
  /\ initialized <=> disposition = "handler"
  /\ DOMAIN handlers # {} => initialized

AsyncInv ==
  /\ TypeOK /\ IsTree(handlers)
  /\ HandlerInstalled
  /\ AlarmInTime(handlers, alarm, pending)

-----------------------------------------------------------------------------
(* A set of integers with a lower bound has a least element.               *)
LEMMA LeastNatural ==
  ASSUME NEW T, T \subseteq Nat, T # {}
  PROVE  \E x \in T : \A y \in T : x <= y
<1>1. PICK x \in T : \A y \in T : ~(<<y, x>> \in OpToRel(<, Nat))
  BY NatLessThanWellFounded, WFMin
<1>2. \A y \in T : ~(y < x)
  BY <1>1 DEF OpToRel
<1> QED
  BY <1>2

LEMMA LeastExists ==
  ASSUME NEW S, S \subseteq Int, S # {}, NEW b \in Int, \A x \in S : b <= x
  PROVE  Min(S) \in S /\ \A y \in S : Min(S) <= y
<1> DEFINE T == {x - b : x \in S}
<1>1. T \subseteq Nat /\ T # {}
  <2>1. PICK x \in S : TRUE
    OBVIOUS
  <2>2. x - b \in T
    OBVIOUS
  <2>3. \A y \in S : y - b \in Nat
    OBVIOUS
  <2> QED
    BY <2>2, <2>3
<1> HIDE DEF T
<1>2. PICK t \in T : \A u \in T : t <= u
  BY <1>1, LeastNatural
<1>3. PICK x \in S : t = x - b
  BY DEF T
<1>4. \A y \in S : x <= y
  BY <1>2, <1>3 DEF T
<1> QED
  BY <1>4 DEF Min

(* The least call time of a tree is that of one of its functions.          *)
LEMMA LeastOfTree ==
  ASSUME NEW tree, IsTree(tree), DOMAIN tree # {}
  PROVE  /\ \E h \in DOMAIN tree : Least(tree) = tree[h].left
         /\ \A h \in DOMAIN tree : Least(tree) <= tree[h].left
         /\ Least(tree) \in -MaxLate..Never
<1> DEFINE S == {tree[h].left : h \in DOMAIN tree}
<1>1. \A h \in DOMAIN tree : tree[h].left \in -MaxLate..Never
  BY DEF IsTree, Info
<1>2. S # {} /\ S \subseteq Int /\ -MaxLate \in Int /\ \A x \in S : -MaxLate <= x
  BY <1>1, AsyncFnAssumption DEF Never
<1> HIDE DEF S
<1>3. Min(S) \in S /\ \A y \in S : Min(S) <= y
  BY <1>2, LeastExists
<1>4. Least(tree) = Min(S)
  BY DEF Least, S
<1> QED
  BY <1>1, <1>3, <1>4 DEF S

(* So the alarm that jr_AddAsyncFunction sets is in time for all functions *)
(* whose time is not past.                                                 *)
LEMMA AlarmForInTime ==
  ASSUME NEW tree, IsTree(tree), DOMAIN tree # {}, NEW sent \in BOOLEAN,
         \A h \in Waiting(tree) : sent \/ tree[h].left >= 1
  PROVE  AlarmFor(tree) \in 1..Never /\ AlarmInTime(tree, AlarmFor(tree), sent)
<1>1. /\ Least(tree) \in -MaxLate..Never
      /\ \A h \in DOMAIN tree : Least(tree) <= tree[h].left /\ tree[h].left \in -MaxLate..Never
  BY LeastOfTree DEF IsTree, Info
<1>2. AlarmFor(tree) \in 1..Never
  BY <1>1, AsyncFnAssumption, SMTT(30) DEF AlarmFor, Never
<1>3. ASSUME NEW h \in Waiting(tree), ~sent
      PROVE  AlarmFor(tree) \in 1..tree[h].left
  BY <1>1, <1>2, <1>3, AsyncFnAssumption DEF AlarmFor, Waiting, Never
<1> QED
  BY <1>2, <1>3 DEF AlarmInTime

-----------------------------------------------------------------------------
LEMMA AsyncInit == Init => AsyncInv
<1> SUFFICES ASSUME Init
             PROVE  AsyncInv
  OBVIOUS
<1>1. DOMAIN handlers = {} /\ handlers \in [DOMAIN handlers -> Info]
  BY DEF Init, NoHandlers
<1>2. IsTree(handlers) /\ AlarmInTime(handlers, alarm, pending)
  BY <1>1 DEF IsTree, AlarmInTime, Waiting
<1>3. ~initialized /\ disposition \in {"default", "ignore", "client"}
  BY AsyncFnAssumption DEF Init
<1>4. TypeOK
  <2>1. alarm \in 0..Never
    BY AsyncFnAssumption DEF Init, Never
  <2> QED
    BY <1>1, <1>3, <2>1 DEF Init, TypeOK
<1> QED
  BY <1>1, <1>2, <1>3, <1>4 DEF AsyncInv, HandlerInstalled

(* The tree an addition starts from: what the process had set for itself,  *)
(* or the functions that are not done.                                     *)
LEMMA StartTreeInTime ==
  ASSUME AsyncInv
  PROVE  IsTree(StartTree) /\ AlarmInTime(StartTree, alarm, pending)
<1>1. CASE initialized
  <2>1. StartTree = Live(handlers)
    BY <1>1 DEF StartTree
  <2> QED
    BY <2>1 DEF AsyncInv, Live, Restrict, IsTree, AlarmInTime, Waiting
<1>2. CASE ~initialized /\ disposition = "client" /\ alarm > 0
  <2> DEFINE own == [left |-> alarm, secs |-> alarm, repeat |-> FALSE]
             tree == [g \in {Client} |-> own]
  <2>1. alarm \in 1..Never /\ own \in Info
    BY <1>2, AsyncFnAssumption DEF AsyncInv, TypeOK, Info, Never
  <2> HIDE DEF own
  <2>2. InheritedTree = tree
    BY <1>2 DEF InheritedTree, With, NoHandlers, Function, own
  <2>3. \A h \in DOMAIN StartTree : h = Client /\ StartTree[h] = own
    BY <1>2, <2>2 DEF StartTree, Live, Restrict
  <2>4. IsTree(StartTree)
    <3>1. StartTree = [h \in DOMAIN StartTree |-> StartTree[h]]
      BY <1>2 DEF StartTree, Live, Restrict
    <3> QED
      BY <2>1, <2>3, <3>1 DEF IsTree
  <2>5. AlarmInTime(StartTree, alarm, pending)
    BY <2>1, <2>3 DEF AlarmInTime, Waiting, own
  <2> QED
    BY <2>4, <2>5
<1>3. CASE ~initialized /\ ~(disposition = "client" /\ alarm > 0)
  <2>1. DOMAIN StartTree = {} /\ StartTree \in [DOMAIN StartTree -> Info]
    BY <1>3 DEF StartTree, InheritedTree, NoHandlers, Live, Restrict
  <2> QED
    BY <2>1 DEF IsTree, AlarmInTime, Waiting
<1> QED
  BY <1>1, <1>2, <1>3

(* A tree of another type cannot arise: what TypeOK says of the functions. *)
LEMMA TreeTyped ==
  ASSUME NEW tree, IsTree(tree)
  PROVE  /\ DOMAIN tree \subseteq Funs \cup {Client}
         /\ \A h \in DOMAIN tree :
              /\ tree[h].left \in -MaxLate..Never
              /\ tree[h].secs \in 1..Never
              /\ tree[h].repeat \in BOOLEAN
  BY DEF IsTree, Info

LEMMA AddStep ==
  ASSUME AsyncInv, NEW h \in Funs, NEW secs \in Secs, NEW repeat \in Repeats,
         AddAsyncFunction(h, secs, repeat)
  PROVE  AsyncInv'
<1> DEFINE new == Function(secs, repeat)
<1>1. IsTree(StartTree) /\ AlarmInTime(StartTree, alarm, pending)
  BY StartTreeInTime
<1>2. new \in Info /\ secs \in 1..Never
  BY AsyncFnAssumption DEF Function, Info, Never
<1>3. /\ disposition' = "handler" /\ initialized' \in BOOLEAN
      /\ fired' = {} /\ UNCHANGED <<pending, killed>>
      /\ old' \in {"default", "ignore", "client"}
  BY DEF AddAsyncFunction, AsyncInv, TypeOK, HandlerInstalled
<1>4. CASE h \in DOMAIN StartTree
  <2>1. handlers' = StartTree /\ alarm' = alarm
    BY <1>4 DEF AddAsyncFunction
  <2> QED
    BY <1>1, <1>3, <2>1, TreeTyped DEF AsyncInv, TypeOK, HandlerInstalled, AddAsyncFunction
<1>5. CASE h \notin DOMAIN StartTree
  <2> DEFINE tree == With(StartTree, h, new)
  <2>1. handlers' = tree /\ alarm' = AlarmFor(tree)
    BY <1>5 DEF AddAsyncFunction
  <2>2. /\ DOMAIN tree = DOMAIN StartTree \cup {h}
        /\ tree[h] = new
        /\ \A g \in DOMAIN StartTree : tree[g] = StartTree[g]
        /\ tree = [g \in DOMAIN tree |-> tree[g]]
    BY <1>5 DEF With
  <2> HIDE DEF tree, new
  <2>3. IsTree(tree) /\ DOMAIN tree # {}
    BY <1>1, <1>2, <2>2 DEF IsTree
  <2>4. \A g \in Waiting(tree) : pending \/ tree[g].left >= 1
    <3> SUFFICES ASSUME NEW g \in Waiting(tree), ~pending
                 PROVE  tree[g].left >= 1
      OBVIOUS
    <3>1. CASE g = h
      BY <1>2, <2>2, <3>1, AsyncFnAssumption DEF new, Function, Never
    <3>2. CASE g # h
      <4>1. g \in Waiting(StartTree) /\ tree[g] = StartTree[g]
        BY <2>2, <3>2 DEF Waiting
      <4>2. alarm \in 1..StartTree[g].left /\ StartTree[g].left \in -MaxLate..Never
        BY <1>1, <4>1, TreeTyped DEF AlarmInTime, Waiting
      <4> QED
        BY <4>1, <4>2, AsyncFnAssumption DEF Never
    <3> QED
      BY <3>1, <3>2
  <2>5. AlarmFor(tree) \in 1..Never /\ AlarmInTime(tree, AlarmFor(tree), pending)
    BY <2>3, <2>4, AlarmForInTime DEF AsyncInv, TypeOK
  <2>6. AlarmFor(tree) \in 0..Never
    BY <2>5 DEF Never
  <2>7. IsTree(handlers') /\ AlarmInTime(handlers', alarm', pending')
    BY <1>3, <2>1, <2>3, <2>5
  <2> QED
    BY <1>3, <2>1, <2>6, <2>7, TreeTyped
    DEF AsyncInv, TypeOK, HandlerInstalled, AddAsyncFunction
<1> QED
  BY <1>4, <1>5
LEMMA RemoveStep ==
  ASSUME AsyncInv, NEW h \in Funs, RemoveAsyncFunction(h)
  PROVE  AsyncInv'
<1>1. /\ DOMAIN handlers' = DOMAIN handlers \ {h}
      /\ \A g \in DOMAIN handlers' : handlers'[g] = handlers[g]
      /\ handlers' = [g \in DOMAIN handlers' |-> handlers'[g]]
      /\ fired' = {} /\ UNCHANGED <<old, alarm, pending, killed>>
  BY DEF RemoveAsyncFunction, Restrict
<1>2. \/ DOMAIN handlers' = {} /\ disposition' = old /\ ~initialized'
      \/ DOMAIN handlers' # {} /\ UNCHANGED <<disposition, initialized>>
  BY DEF RemoveAsyncFunction
<1>3. IsTree(handlers')
  BY <1>1 DEF AsyncInv, IsTree
<1>4. AlarmInTime(handlers', alarm', pending')
  BY <1>1 DEF AsyncInv, AlarmInTime, Waiting
<1>5. HandlerInstalled'
  BY <1>1, <1>2 DEF AsyncInv, HandlerInstalled, TypeOK
<1>6. /\ initialized' \in BOOLEAN
      /\ disposition' \in {"handler", "default", "ignore", "client"}
  BY <1>2 DEF AsyncInv, TypeOK, RemoveAsyncFunction
<1> QED
  BY <1>1, <1>3, <1>4, <1>5, <1>6, TreeTyped DEF AsyncInv, TypeOK

(* A second: the alarm and the functions come nearer together.             *)
LEMMA TickStep == AsyncInv /\ Tick => AsyncInv'
<1> SUFFICES ASSUME AsyncInv, Tick
             PROVE  AsyncInv'
  OBVIOUS
<1>1. /\ DOMAIN handlers' = DOMAIN handlers
      /\ \A h \in DOMAIN handlers : handlers'[h] = Later(handlers[h])
      /\ handlers' = [h \in DOMAIN handlers' |-> handlers'[h]]
  BY DEF Tick
<1>2. /\ alarm' = IF alarm \in {0, Never} THEN alarm ELSE alarm - 1
      /\ pending' = (pending \/ alarm = 1)
      /\ fired' = {} /\ UNCHANGED <<initialized, disposition, old, killed>>
  BY DEF Tick
<1>3. ASSUME NEW info \in Info
      PROVE  /\ Later(info) \in Info
             /\ Later(info).repeat = info.repeat
             /\ Later(info).left =
                  IF info.left \in {Never, -MaxLate} THEN info.left ELSE info.left - 1
  BY AsyncFnAssumption DEF Later, Info, Never
<1>4. \A h \in DOMAIN handlers : handlers[h] \in Info
  BY DEF AsyncInv, IsTree
<1>5. IsTree(handlers')
  <2>1. \A h \in DOMAIN handlers' : handlers'[h] \in Info
    BY <1>1, <1>3, <1>4
  <2> QED
    BY <1>1, <2>1 DEF AsyncInv, IsTree
<1>6. alarm' \in 0..Never
  BY <1>2 DEF AsyncInv, TypeOK, Never
<1>7. ASSUME NEW h \in Waiting(handlers'), ~pending'
      PROVE  alarm' \in 1..handlers'[h].left
  <2> DEFINE left == handlers[h].left
  <2>1. /\ h \in DOMAIN handlers /\ handlers[h] \in Info /\ ~handlers[h].repeat
        /\ handlers'[h].left = IF left \in {Never, -MaxLate} THEN left ELSE left - 1
        /\ left \in -MaxLate..Never /\ handlers'[h].left # Never
    BY <1>1, <1>3, <1>4 DEF Waiting, Info
  <2>2. h \in Waiting(handlers) /\ ~pending /\ alarm # 1
    BY <1>2, <1>7, <2>1 DEF Waiting
  <2>3. alarm \in 1..left /\ left # Never
    BY <2>2 DEF AsyncInv, AlarmInTime, Waiting
  <2> HIDE DEF left
  <2>4. alarm \in Int /\ alarm < Never /\ alarm # 0
    BY <2>1, <2>3, AsyncFnAssumption DEF Never
  <2>5. alarm' = alarm - 1
    BY <1>2, <2>4
  <2>6. handlers'[h].left = left - 1
    BY <2>1, <2>3, AsyncFnAssumption
  <2> QED
    BY <2>1, <2>2, <2>3, <2>5, <2>6, AsyncFnAssumption DEF Never
<1> QED
  BY <1>1, <1>2, <1>5, <1>6, <1>7, TreeTyped
  DEF AsyncInv, TypeOK, HandlerInstalled, AlarmInTime
(* SIGALRM: after the functions were called, every one that waits has time *)
(* left, and the alarm is set for the first of them, because the one the   *)
(* handler leaves out is never one that waits.                             *)
LEMMA HandlerStep ==
  ASSUME AsyncInv, AsyncFunctionHandler, pending' = FALSE
  PROVE  AsyncInv'
<1> DEFINE tree == CalledTree
           last == {h \in Due : \A g \in Due \ {h} : Before(handlers, g, h)}
           others == DOMAIN handlers \ last
           asked == Restrict(CalledTree, IF others = {} THEN last ELSE others)
<1>1. /\ disposition = "handler" /\ handlers' = tree /\ fired' = Due
      /\ alarm' = IF NextAlarm = 0 THEN alarm ELSE NextAlarm
      /\ UNCHANGED <<initialized, disposition, old, killed>>
  BY DEF AsyncFunctionHandler
<1>2. /\ DOMAIN tree = DOMAIN handlers /\ tree = [h \in DOMAIN tree |-> tree[h]]
      /\ \A h \in DOMAIN tree :
           tree[h] = IF h \in Due THEN Called(handlers[h]) ELSE handlers[h]
  BY DEF CalledTree
<1>3. ASSUME NEW info \in Info
      PROVE  /\ Called(info) \in Info /\ Called(info).repeat = info.repeat
             /\ Called(info).left = IF info.repeat THEN info.secs ELSE Never
  BY AsyncFnAssumption DEF Called, Info, Never
<1>4. \A h \in DOMAIN handlers : handlers[h] \in Info /\ (h \notin Due => handlers[h].left >= 1)
  <2>1. \A h \in DOMAIN handlers : handlers[h] \in Info /\ handlers[h].left \in -MaxLate..Never
    BY DEF AsyncInv, IsTree, Info
  <2> QED
    BY <2>1, AsyncFnAssumption DEF Due, Never
<1> HIDE DEF tree
<1>5. \A h \in DOMAIN tree : tree[h] \in Info /\ tree[h].left \in 1..Never
  <2> SUFFICES ASSUME NEW h \in DOMAIN tree
               PROVE  tree[h] \in Info /\ tree[h].left \in 1..Never
    OBVIOUS
  <2>1. handlers[h] \in Info /\ handlers[h].left \in -MaxLate..Never /\ handlers[h].secs \in 1..Never
    BY <1>2, <1>4 DEF Info
  <2>2. CASE h \in Due
    BY <1>2, <1>3, <2>1, <2>2 DEF Never
  <2>3. CASE h \notin Due
    BY <1>2, <1>4, <2>1, <2>3, AsyncFnAssumption, SMTT(30) DEF Never
  <2> QED
    BY <2>2, <2>3
<1>6. \A h \in Waiting(tree) : h \in others
  <2> SUFFICES ASSUME NEW h \in Waiting(tree), h \in Due
               PROVE  FALSE
    BY <1>2 DEF Waiting
  <2>1. tree[h] = Called(handlers[h]) /\ handlers[h] \in Info
    BY <1>2, <1>4 DEF Waiting
  <2> QED
    BY <1>3, <2>1 DEF Waiting
<1>7. IsTree(tree)
  BY <1>2, <1>5 DEF AsyncInv, IsTree
<1>8. CASE DOMAIN handlers = {}
  <2>1. alarm' \in 0..Never
    <3>1. handlers = NoHandlers
      BY <1>8 DEF AsyncInv, IsTree, NoHandlers
    <3> QED
      BY <1>1, <3>1 DEF NextAlarm, AsyncInv, TypeOK
  <2>2. AlarmInTime(tree, alarm', pending')
    BY <1>2, <1>8 DEF AlarmInTime, Waiting
  <2> QED
    BY <1>1, <1>2, <1>7, <2>1, <2>2, TreeTyped DEF AsyncInv, TypeOK, HandlerInstalled, Due
<1>9. CASE DOMAIN handlers # {}
  <2>1. NextAlarm = Least(asked)
    <3>1. handlers # NoHandlers
      BY <1>9 DEF NoHandlers
    <3> QED
      BY <3>1 DEF NextAlarm
  <2>2. /\ DOMAIN asked = IF others = {} THEN last ELSE others
        /\ \A h \in DOMAIN asked : asked[h] = tree[h]
        /\ asked = [h \in DOMAIN asked |-> asked[h]]
    BY DEF Restrict, tree
  <2> HIDE DEF asked
  <2>3. DOMAIN asked \subseteq DOMAIN tree /\ DOMAIN asked # {}
    BY <1>2, <1>9, <2>2 DEF Due
  <2>4. IsTree(asked)
    BY <1>5, <1>7, <2>2, <2>3 DEF IsTree
  <2>5. /\ Least(asked) \in 1..Never
        /\ \A h \in DOMAIN asked : Least(asked) <= tree[h].left
    <3>1. PICK h \in DOMAIN asked : Least(asked) = asked[h].left
      BY <2>3, <2>4, LeastOfTree
    <3>2. \A g \in DOMAIN asked : Least(asked) <= asked[g].left
      BY <2>3, <2>4, LeastOfTree
    <3>3. Least(asked) \in 1..Never
      BY <1>5, <2>2, <2>3, <3>1
    <3> QED
      BY <2>2, <3>2, <3>3
  <2>6. alarm' = Least(asked) /\ alarm' \in 1..Never /\ alarm' \in 0..Never
    BY <1>1, <2>1, <2>5 DEF Never
  <2>7. AlarmInTime(tree, alarm', pending')
    <3> SUFFICES ASSUME NEW h \in Waiting(tree)
                 PROVE  alarm' \in 1..tree[h].left
      BY DEF AlarmInTime
    <3>1. h \in DOMAIN asked /\ tree[h].left \in 1..Never
      BY <1>5, <1>6, <2>2 DEF Waiting
    <3> QED
      BY <2>5, <2>6, <3>1 DEF Never
  <2> QED
    BY <1>1, <1>2, <1>7, <2>6, <2>7, TreeTyped DEF AsyncInv, TypeOK, HandlerInstalled, Due
<1> QED
  BY <1>8, <1>9

(* SIGALRM that is not ours comes when there are no functions.             *)
LEMMA OldHandlerStep ==
  ASSUME AsyncInv, OldHandler, pending' = FALSE
  PROVE  AsyncInv'
<1>1. DOMAIN handlers = {} /\ killed' \in BOOLEAN /\ fired' \subseteq Funs \cup {Client}
      /\ UNCHANGED <<handlers, initialized, disposition, old, alarm>>
  BY DEF OldHandler, AsyncInv, HandlerInstalled
<1> QED
  BY <1>1 DEF AsyncInv, TypeOK, IsTree, HandlerInstalled, AlarmInTime, Waiting

LEMMA AsyncStep == AsyncInv /\ [Next]_vars => AsyncInv'
<1> SUFFICES ASSUME AsyncInv, [Next]_vars
             PROVE  AsyncInv'
  OBVIOUS
<1>1. CASE Deliver
  BY <1>1, HandlerStep, OldHandlerStep DEF Deliver
<1>2. CASE UNCHANGED vars
  BY <1>2 DEF vars, AsyncInv, TypeOK, IsTree, HandlerInstalled, AlarmInTime, Waiting
<1> QED
  BY <1>1, <1>2, AddStep, RemoveStep, TickStep DEF Next

(* A function that does not repeat is never late, however the functions    *)
(* are added, removed and called and however late SIGALRM is delivered     *)
(* (jr_AddAsyncFunction, jr_AsyncFunctionHandler).                         *)
THEOREM NoneIsLate == Spec => []NeverLate
<1>1. AsyncInv => NeverLate
  <2> SUFFICES ASSUME AsyncInv, NEW h \in DOMAIN handlers,
                      ~handlers[h].repeat, handlers[h].left <= 0, ~pending
               PROVE  FALSE
    BY DEF NeverLate
  <2>1. handlers[h].left \in -MaxLate..Never /\ handlers[h].left # Never
    BY AsyncFnAssumption DEF AsyncInv, TypeOK, Never
  <2>2. alarm \in 1..handlers[h].left
    BY <2>1 DEF AsyncInv, AlarmInTime, Waiting
  <2> QED
    BY <2>1, <2>2, AsyncFnAssumption DEF Never
<1> QED
  BY <1>1, AsyncInit, AsyncStep, PTL DEF Spec

(* The alarm is always a number of seconds that alarm () takes, never a    *)
(* negative one, and SIGALRM is ours just when the tree is initialized.    *)
THEOREM AlarmTypeCorrect == Spec => [](TypeOK /\ HandlerInstalled)
<1>1. AsyncInv => TypeOK /\ HandlerInstalled
  BY DEF AsyncInv
<1> QED
  BY <1>1, AsyncInit, AsyncStep, PTL DEF Spec
=============================================================================
