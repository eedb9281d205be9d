-------------------------- MODULE TimedCall_proofs --------------------------
(***************************************************************************)
(* For any number of processes: callers that were told they have the lock  *)
(* exclude each other, and the alarm of a call stays inside of it.         *)
(***************************************************************************)
EXTENDS TimedCall, TLAPS

\* What the kernel has granted is exclusive.
Granted ==
  \A p, q \in Procs : p # q /\ holds[p] = "EX" => holds[q] = "none"

\* A caller that was told it has the lock has it, and is not asking for it.
ToldIsHeld ==
  \A p \in Procs : told[p] # "none" =>
    /\ holds[p] = IF told[p] = "write" THEN "EX" ELSE "SH"
    /\ pc[p] = "idle" \/ fn[p] = "fgets"

\* A lock call on its way back with success has the lock.
SuccessIsHeld ==
  \A p \in Procs :
    pc[p] \in {"got", "restore", "rearm"} /\ fn[p] \in Locks /\ result[p] = "ok"
      => holds[p] = Kind(fn[p])

\* The functions of a process that is in a call.
CallType ==
  \A p \in Procs :
    /\ pc[p] # "idle" => fn[p] \in Locks \cup {"fgets"}
    /\ pc[p] = "try" => fn[p] \in Locks

\* Where our handler is installed, and where our alarm runs.
AlarmInv ==
  /\ ~stray
  /\ \A p \in Procs :
       /\ action[p] = "onalarm" => pc[p] \in {"arm", "wait", "got", "restore"}
       /\ alarms[p] = "ours" => pc[p] \in {"wait", "got"} /\ action[p] = "onalarm"
       /\ pc[p] \in {"arm", "wait", "got"} => action[p] = "onalarm"
       /\ pc[p] \in {"arm", "install"} => alarms[p] = "none"

Inv == TC_TypeOK /\ CallType /\ Granted /\ ToldIsHeld /\ SuccessIsHeld /\ AlarmInv

\* The initial states.
LEMMA InitInv == TC_Init => Inv
<1> SUFFICES ASSUME TC_Init PROVE Inv
  OBVIOUS
<1>1. TC_TypeOK
  BY DEF TC_Init, TC_TypeOK, InCall, Locks
<1>2. CallType /\ Granted /\ ToldIsHeld /\ SuccessIsHeld
  BY DEF TC_Init, CallType, Granted, ToldIsHeld, SuccessIsHeld
<1>3. AlarmInv
  BY DEF TC_Init, AlarmInv
<1> QED
  BY <1>1, <1>2, <1>3 DEF Inv

\* A process that calls has no lock it was told of.
LEMMA CallInv ==
  ASSUME Inv, NEW p \in Procs, NEW f \in Fns, Call(p, f)
  PROVE  Inv'
<1>1. TC_TypeOK'
  BY TimedCallAssumption DEF Call, Goto, Inv, TC_TypeOK, InCall, Locks
<1>2. CallType'
  BY TimedCallAssumption DEF Call, Goto, Inv, TC_TypeOK, CallType, Locks
<1>3. Granted'
  BY DEF Call, Inv, TC_TypeOK, Granted
<1>4. ToldIsHeld'
  BY TimedCallAssumption DEF Call, Goto, Inv, TC_TypeOK, CallType, ToldIsHeld, Locks
<1>5. SuccessIsHeld'
  BY DEF Call, Goto, Inv, TC_TypeOK, SuccessIsHeld, Kind, Purpose, Locks
<1>6. AlarmInv'
  BY DEF Call, Goto, Inv, TC_TypeOK, AlarmInv
<1> QED
  BY <1>1, <1>2, <1>3, <1>4, <1>5, <1>6 DEF Inv

\* flock with LOCK_NB grants what no other process excludes.
LEMMA TryLockInv ==
  ASSUME Inv, NEW p \in Procs, TryLock(p)
  PROVE  Inv'
<1>1. TC_TypeOK'
  BY DEF TryLock, Return, Inv, TC_TypeOK, InCall, Locks, Purpose, Kind
<1>2. CallType'
  BY DEF TryLock, Inv, TC_TypeOK, CallType, Locks
<1>3. Granted'
  BY DEF TryLock, Compatible, Inv, TC_TypeOK, Granted, Kind, Purpose
<1>4. ToldIsHeld'
  BY DEF TryLock, Return, Inv, TC_TypeOK, CallType, ToldIsHeld, Kind, Purpose, Locks
<1>5. SuccessIsHeld'
  BY DEF TryLock, Return, Inv, TC_TypeOK, SuccessIsHeld, Kind, Purpose, Locks
<1>6. AlarmInv'
  BY DEF TryLock, Inv, TC_TypeOK, AlarmInv
<1> QED
  BY <1>1, <1>2, <1>3, <1>4, <1>5, <1>6 DEF Inv

\* Outside of a call the alarm is the client's.
LEMMA SaveAlarmInv ==
  ASSUME Inv, NEW p \in Procs, SaveAlarm(p)
  PROVE  Inv'
<1>1. TC_TypeOK'
  BY DEF SaveAlarm, Goto, Inv, TC_TypeOK, InCall, Locks, AlarmInv
<1>2. CallType'
  BY DEF SaveAlarm, Goto, Inv, TC_TypeOK, CallType, Locks
<1>3. Granted'
  BY DEF SaveAlarm, Inv, TC_TypeOK, Granted
<1>4. ToldIsHeld'
  BY DEF SaveAlarm, Goto, Inv, TC_TypeOK, CallType, ToldIsHeld
<1>5. SuccessIsHeld'
  BY DEF SaveAlarm, Goto, Inv, TC_TypeOK, SuccessIsHeld, Kind, Purpose
<1>6. AlarmInv'
  BY DEF SaveAlarm, Goto, Inv, TC_TypeOK, AlarmInv
<1> QED
  BY <1>1, <1>2, <1>3, <1>4, <1>5, <1>6 DEF Inv

\* The handler is installed while no alarm runs.
LEMMA InstallHandlerInv ==
  ASSUME Inv, NEW p \in Procs, InstallHandler(p)
  PROVE  Inv'
<1>1. TC_TypeOK'
  BY DEF InstallHandler, Goto, Inv, TC_TypeOK, InCall, Locks
<1>2. CallType'
  BY DEF InstallHandler, Goto, Inv, TC_TypeOK, CallType, Locks
<1>3. Granted'
  BY DEF InstallHandler, Inv, TC_TypeOK, Granted
<1>4. ToldIsHeld'
  BY DEF InstallHandler, Goto, Inv, TC_TypeOK, CallType, ToldIsHeld
<1>5. SuccessIsHeld'
  BY DEF InstallHandler, Goto, Inv, TC_TypeOK, SuccessIsHeld, Kind, Purpose
<1>6. AlarmInv'
  BY DEF InstallHandler, Goto, Inv, TC_TypeOK, AlarmInv
<1> QED
  BY <1>1, <1>2, <1>3, <1>4, <1>5, <1>6 DEF Inv

\* Our alarm starts with our handler installed.
LEMMA SetAlarmInv ==
  ASSUME Inv, NEW p \in Procs, SetAlarm(p)
  PROVE  Inv'
<1>1. TC_TypeOK'
  BY DEF SetAlarm, Goto, Inv, TC_TypeOK, InCall, Locks, AlarmInv
<1>2. CallType'
  BY DEF SetAlarm, Goto, Inv, TC_TypeOK, CallType, Locks
<1>3. Granted'
  BY DEF SetAlarm, Inv, TC_TypeOK, Granted
<1>4. ToldIsHeld'
  BY DEF SetAlarm, Goto, Inv, TC_TypeOK, CallType, ToldIsHeld
<1>5. SuccessIsHeld'
  BY DEF SetAlarm, Goto, Inv, TC_TypeOK, SuccessIsHeld, Kind, Purpose
<1>6. AlarmInv'
  BY DEF SetAlarm, Goto, Inv, TC_TypeOK, AlarmInv
<1> QED
  BY <1>1, <1>2, <1>3, <1>4, <1>5, <1>6 DEF Inv

\* Our alarm is cancelled before our handler is.
LEMMA CancelAlarmInv ==
  ASSUME Inv, NEW p \in Procs, CancelAlarm(p)
  PROVE  Inv'
<1>1. TC_TypeOK'
  BY DEF CancelAlarm, Goto, Inv, TC_TypeOK, InCall, Locks
<1>2. CallType'
  BY DEF CancelAlarm, Goto, Inv, TC_TypeOK, CallType, Locks
<1>3. Granted'
  BY DEF CancelAlarm, Inv, TC_TypeOK, Granted
<1>4. ToldIsHeld'
  BY DEF CancelAlarm, Goto, Inv, TC_TypeOK, CallType, ToldIsHeld
<1>5. SuccessIsHeld'
  BY DEF CancelAlarm, Goto, Inv, TC_TypeOK, SuccessIsHeld, Kind, Purpose
<1>6. AlarmInv'
  BY DEF CancelAlarm, Goto, Inv, TC_TypeOK, AlarmInv
<1> QED
  BY <1>1, <1>2, <1>3, <1>4, <1>5, <1>6 DEF Inv

\* The client's handler comes back while no alarm runs.
LEMMA RestoreHandlerInv ==
  ASSUME Inv, NEW p \in Procs, RestoreHandler(p)
  PROVE  Inv'
<1>1. TC_TypeOK'
  BY DEF RestoreHandler, Goto, Inv, TC_TypeOK, InCall, Locks
<1>2. CallType'
  BY DEF RestoreHandler, Goto, Inv, TC_TypeOK, CallType, Locks
<1>3. Granted'
  BY DEF RestoreHandler, Inv, TC_TypeOK, Granted
<1>4. ToldIsHeld'
  BY DEF RestoreHandler, Goto, Inv, TC_TypeOK, CallType, ToldIsHeld
<1>5. SuccessIsHeld'
  BY DEF RestoreHandler, Goto, Inv, TC_TypeOK, SuccessIsHeld, Kind, Purpose
<1>6. AlarmInv'
  BY DEF RestoreHandler, Goto, Inv, TC_TypeOK, AlarmInv
<1> QED
  BY <1>1, <1>2, <1>3, <1>4, <1>5, <1>6 DEF Inv

\* What the call found out is what the caller is told.
LEMMA RestoreAlarmInv ==
  ASSUME Inv, NEW p \in Procs, RestoreAlarm(p)
  PROVE  Inv'
<1>1. TC_TypeOK'
  BY DEF RestoreAlarm, Goto, Return, Inv, TC_TypeOK, InCall, Locks, Purpose
<1>2. CallType'
  BY DEF RestoreAlarm, Goto, Inv, TC_TypeOK, CallType, Locks
<1>3. Granted'
  BY DEF RestoreAlarm, Inv, TC_TypeOK, Granted
<1>4. ToldIsHeld'
  BY DEF RestoreAlarm, Goto, Return, Inv, TC_TypeOK, CallType, ToldIsHeld, Kind, Purpose, SuccessIsHeld
<1>5. SuccessIsHeld'
  BY DEF RestoreAlarm, Goto, Return, Inv, TC_TypeOK, SuccessIsHeld, Kind, Purpose
<1>6. AlarmInv'
  BY DEF RestoreAlarm, Goto, Inv, TC_TypeOK, AlarmInv
<1> QED
  BY <1>1, <1>2, <1>3, <1>4, <1>5, <1>6 DEF Inv

\* flock grants what no other process excludes.
LEMMA GetLockInv ==
  ASSUME Inv, NEW p \in Procs, GetLock(p)
  PROVE  Inv'
<1>1. TC_TypeOK'
  BY DEF GetLock, Goto, Inv, TC_TypeOK, InCall, Locks, Kind, Purpose
<1>2. CallType'
  BY DEF GetLock, Goto, Inv, TC_TypeOK, CallType, Locks
<1>3. Granted'
  BY DEF GetLock, Compatible, Inv, TC_TypeOK, Granted, Kind, Purpose
<1>4. ToldIsHeld'
  BY DEF GetLock, Goto, Inv, TC_TypeOK, CallType, ToldIsHeld, Locks
<1>5. SuccessIsHeld'
  BY DEF GetLock, Goto, Inv, TC_TypeOK, SuccessIsHeld, Kind, Purpose
<1>6. AlarmInv'
  BY DEF GetLock, Goto, Inv, TC_TypeOK, AlarmInv
<1> QED
  BY <1>1, <1>2, <1>3, <1>4, <1>5, <1>6 DEF Inv

\* A lock given up disturbs nobody.
LEMMA ConvertLockInv ==
  ASSUME Inv, NEW p \in Procs, ConvertLock(p)
  PROVE  Inv'
<1>1. TC_TypeOK'
  BY DEF ConvertLock, Inv, TC_TypeOK, InCall, Locks
<1>2. CallType'
  BY DEF ConvertLock, Inv, TC_TypeOK, CallType, Locks
<1>3. Granted'
  BY DEF ConvertLock, Compatible, Inv, TC_TypeOK, Granted
<1>4. ToldIsHeld'
  BY DEF ConvertLock, Inv, TC_TypeOK, CallType, ToldIsHeld, Locks
<1>5. SuccessIsHeld'
  BY DEF ConvertLock, Inv, TC_TypeOK, SuccessIsHeld, Kind, Purpose
<1>6. AlarmInv'
  BY DEF ConvertLock, Inv, TC_TypeOK, AlarmInv
<1> QED
  BY <1>1, <1>2, <1>3, <1>4, <1>5, <1>6 DEF Inv

\* A failed lock is not reported as a success.
LEMMA LockFailsInv ==
  ASSUME Inv, NEW p \in Procs, LockFails(p)
  PROVE  Inv'
<1>1. TC_TypeOK'
  BY DEF LockFails, Goto, Inv, TC_TypeOK, InCall, Locks
<1>2. CallType'
  BY DEF LockFails, Goto, Inv, TC_TypeOK, CallType, Locks
<1>3. Granted'
  BY DEF LockFails, Inv, TC_TypeOK, Granted
<1>4. ToldIsHeld'
  BY DEF LockFails, Goto, Inv, TC_TypeOK, CallType, ToldIsHeld
<1>5. SuccessIsHeld'
  BY DEF LockFails, Goto, Inv, TC_TypeOK, SuccessIsHeld, Kind, Purpose
<1>6. AlarmInv'
  BY DEF LockFails, Goto, Inv, TC_TypeOK, AlarmInv
<1> QED
  BY <1>1, <1>2, <1>3, <1>4, <1>5, <1>6 DEF Inv

\* Reading a line does not touch the locks.
LEMMA GetLineInv ==
  ASSUME Inv, NEW p \in Procs, GetLine(p)
  PROVE  Inv'
<1>1. TC_TypeOK'
  BY DEF GetLine, Goto, Inv, TC_TypeOK, InCall, Locks
<1>2. CallType'
  BY DEF GetLine, Goto, Inv, TC_TypeOK, CallType, Locks
<1>3. Granted'
  BY DEF GetLine, Inv, TC_TypeOK, Granted
<1>4. ToldIsHeld'
  BY DEF GetLine, Goto, Inv, TC_TypeOK, CallType, ToldIsHeld
<1>5. SuccessIsHeld'
  BY DEF GetLine, Goto, Inv, TC_TypeOK, SuccessIsHeld, Kind, Purpose, Locks
<1>6. AlarmInv'
  BY DEF GetLine, Goto, Inv, TC_TypeOK, AlarmInv
<1> QED
  BY <1>1, <1>2, <1>3, <1>4, <1>5, <1>6 DEF Inv

\* A time-out takes no lock away, and is reported as one.
LEMMA SignalInv ==
  ASSUME Inv, NEW p \in Procs, Signal(p)
  PROVE  Inv'
<1>1. TC_TypeOK'
  BY DEF Signal, Inv, TC_TypeOK, InCall, Locks, AlarmInv
<1>2. CallType'
  BY DEF Signal, Inv, TC_TypeOK, CallType, Locks, AlarmInv
<1>3. Granted'
  BY DEF Signal, Inv, TC_TypeOK, Granted
<1>4. ToldIsHeld'
  BY DEF Signal, Inv, TC_TypeOK, CallType, ToldIsHeld, AlarmInv
<1>5. SuccessIsHeld'
  BY DEF Signal, Inv, TC_TypeOK, SuccessIsHeld, Kind, Purpose, AlarmInv
<1>6. AlarmInv'
  BY DEF Signal, Inv, TC_TypeOK, AlarmInv
<1> QED
  BY <1>1, <1>2, <1>3, <1>4, <1>5, <1>6 DEF Inv

\* A process gives back what it was told of.
LEMMA UnLockInv ==
  ASSUME Inv, NEW p \in Procs, UnLock(p)
  PROVE  Inv'
<1>1. TC_TypeOK'
  BY DEF UnLock, Inv, TC_TypeOK, InCall, Locks
<1>2. CallType'
  BY DEF UnLock, Inv, TC_TypeOK, CallType, Locks
<1>3. Granted'
  BY DEF UnLock, Inv, TC_TypeOK, Granted
<1>4. ToldIsHeld'
  BY DEF UnLock, Inv, TC_TypeOK, CallType, ToldIsHeld
<1>5. SuccessIsHeld'
  BY DEF UnLock, Inv, TC_TypeOK, SuccessIsHeld, Kind, Purpose
<1>6. AlarmInv'
  BY DEF UnLock, Inv, TC_TypeOK, AlarmInv
<1> QED
  BY <1>1, <1>2, <1>3, <1>4, <1>5, <1>6 DEF Inv

\* The client's alarm runs outside of calls only.
LEMMA ClientAlarmInv ==
  ASSUME Inv, NEW p \in Procs, ClientAlarm(p)
  PROVE  Inv'
<1>1. TC_TypeOK'
  BY DEF ClientAlarm, Inv, TC_TypeOK, InCall, Locks
<1>2. CallType'
  BY DEF ClientAlarm, Inv, TC_TypeOK, CallType, Locks
<1>3. Granted'
  BY DEF ClientAlarm, Inv, TC_TypeOK, Granted
<1>4. ToldIsHeld'
  BY DEF ClientAlarm, Inv, TC_TypeOK, CallType, ToldIsHeld
<1>5. SuccessIsHeld'
  BY DEF ClientAlarm, Inv, TC_TypeOK, SuccessIsHeld, Kind, Purpose
<1>6. AlarmInv'
  BY DEF ClientAlarm, Inv, TC_TypeOK, AlarmInv
<1> QED
  BY <1>1, <1>2, <1>3, <1>4, <1>5, <1>6 DEF Inv

\* No step leaves the invariant.
LEMMA NextInv == Inv /\ [TC_Next]_tc_vars => Inv'
<1> SUFFICES ASSUME Inv, [TC_Next]_tc_vars PROVE Inv'
  OBVIOUS
<1>1. CASE UNCHANGED tc_vars
  BY <1>1 DEF tc_vars, Inv, TC_TypeOK, CallType, Granted, ToldIsHeld, SuccessIsHeld, AlarmInv
<1>2. CASE TC_Next
  <2> PICK p \in Procs :
        \/ \E f \in Fns : Call(p, f)
        \/ Step(p)
        \/ GetLock(p) \/ ConvertLock(p) \/ LockFails(p) \/ GetLine(p)
        \/ Signal(p)
        \/ UnLock(p)
        \/ ClientAlarm(p)
    BY <1>2 DEF TC_Next
  <2>1. CASE \E f \in Fns : Call(p, f)
    BY <2>1, CallInv
  <2>2. CASE Step(p)
    BY <2>2, TryLockInv, SaveAlarmInv, InstallHandlerInv, SetAlarmInv, CancelAlarmInv,
       RestoreHandlerInv, RestoreAlarmInv DEF Step
  <2>3. CASE GetLock(p) \/ ConvertLock(p) \/ LockFails(p) \/ GetLine(p)
    BY <2>3, GetLockInv, ConvertLockInv, LockFailsInv, GetLineInv
  <2>4. CASE Signal(p) \/ UnLock(p) \/ ClientAlarm(p)
    BY <2>4, SignalInv, UnLockInv, ClientAlarmInv
  <2> QED
    BY <2>1, <2>2, <2>3, <2>4
<1> QED
  BY <1>1, <1>2

\* The invariant holds for every number of processes.
THEOREM Inductive == TC_Spec => []Inv
  BY InitInv, NextInv, PTL DEF TC_Spec

\* Callers that were told they have the lock exclude each other, whatever
\* signals, time-outs, retries and conversions happen in whatever order.
THEOREM Exclusion == TC_Spec => []ExclusiveUse
<1>1. Inv => ExclusiveUse
  BY DEF Inv, ExclusiveUse, TC_TypeOK, Granted, ToldIsHeld
<1> QED
  BY <1>1, Inductive, PTL

\* No alarm of a call goes off outside of it, and onalarm never jumps into a call
\* that has returned.
THEOREM AlarmInside == TC_Spec => []AlarmStaysInside
<1>1. Inv => AlarmStaysInside
  BY DEF Inv, AlarmStaysInside, TC_TypeOK, AlarmInv, InCall
<1> QED
  BY <1>1, Inductive, PTL

\* The type invariant, with the alarm that a call saves.
THEOREM TypeCorrect == TC_Spec => []TC_TypeOK
<1>1. Inv => TC_TypeOK
  BY DEF Inv
<1> QED
  BY <1>1, Inductive, PTL

----------------------------------------------------------------------------
(* The client's alarm survives a call that succeeds.                       *)

\* Where the alarm the client had is kept while its process is in a call: in the
\* process, then in savealarm, then in the process again.
KeepsAlarm(p) ==
  fn[p] \in {"ReadLock", "WriteLock", "fgets"} /\ had[p] =>
    /\ pc[p] \in {"try", "enter"} => alarms[p] = "client"
    /\ pc[p] \in {"install", "arm", "wait"} => saved[p] = "client"
    /\ pc[p] \in {"got", "restore", "rearm"} /\ result[p] = "ok" => saved[p] = "client"
    /\ pc[p] = "idle" /\ result[p] = "ok" => alarms[p] = "client"

AlarmKept == \A p \in Procs : KeepsAlarm(p)

\* A step of a process, one by one: calls and locks.
LEMMA LockStepKeepsAlarm ==
  ASSUME Inv, AlarmKept, NEW p \in Procs,
         \/ \E f \in Fns : Call(p, f)
         \/ TryLock(p) \/ GetLock(p) \/ ConvertLock(p) \/ LockFails(p) \/ GetLine(p)
         \/ UnLock(p)
  PROVE  AlarmKept'
<1> SUFFICES ASSUME NEW q \in Procs PROVE KeepsAlarm(q)'
  BY DEF AlarmKept
<1>0. KeepsAlarm(q)
  BY DEF AlarmKept
<1>1. ASSUME NEW f \in Fns, Call(p, f) PROVE KeepsAlarm(q)'
  <2>1. /\ alarms' = alarms /\ had' = [had EXCEPT ![p] = alarms[p] = "client"]
        /\ fn' = [fn EXCEPT ![p] = f] /\ saved' = [saved EXCEPT ![p] = "none"]
        /\ result' = [result EXCEPT ![p] = "none"]
    BY <1>1 DEF Call
  <2>2. pc' = [pc EXCEPT ![p] = pc'[p]] /\ pc'[p] \in {"try", "enter"}
    BY <1>1 DEF Call, Goto, Inv, TC_TypeOK
  <2>3. CASE q = p
    BY <2>1, <2>2, <2>3 DEF KeepsAlarm, Inv, TC_TypeOK
  <2>4. CASE q # p
    <3>1. /\ alarms'[q] = alarms[q] /\ had'[q] = had[q] /\ fn'[q] = fn[q] /\ saved'[q] = saved[q]
          /\ result'[q] = result[q] /\ pc'[q] = pc[q]
      BY <2>1, <2>2, <2>4 DEF Inv, TC_TypeOK
    <3> QED
      BY <1>0, <3>1 DEF KeepsAlarm
  <2> QED
    BY <2>3, <2>4
<1>2. CASE TryLock(p)
  BY <1>0, <1>2 DEF TryLock, Return, KeepsAlarm, Inv, TC_TypeOK
<1>3. CASE GetLock(p)
  BY <1>0, <1>3 DEF GetLock, Goto, KeepsAlarm, Inv, TC_TypeOK
<1>4. CASE ConvertLock(p)
  BY <1>0, <1>4 DEF ConvertLock, KeepsAlarm, Inv, TC_TypeOK
<1>5. CASE LockFails(p)
  BY <1>0, <1>5 DEF LockFails, Goto, KeepsAlarm, Inv, TC_TypeOK
<1>6. CASE GetLine(p)
  BY <1>0, <1>6 DEF GetLine, Goto, KeepsAlarm, Inv, TC_TypeOK
<1>7. CASE UnLock(p)
  BY <1>0, <1>7 DEF UnLock, KeepsAlarm, Inv, TC_TypeOK
<1> QED
  BY <1>1, <1>2, <1>3, <1>4, <1>5, <1>6, <1>7

\* The steps that move the alarm, and the signal, which ends what was had or makes
\* the call a time-out.
LEMMA AlarmStepKeepsAlarm ==
  ASSUME Inv, AlarmKept, NEW p \in Procs,
         \/ SaveAlarm(p) \/ InstallHandler(p) \/ SetAlarm(p) \/ CancelAlarm(p)
         \/ RestoreHandler(p) \/ RestoreAlarm(p) \/ Signal(p) \/ ClientAlarm(p)
  PROVE  AlarmKept'
<1> SUFFICES ASSUME NEW q \in Procs PROVE KeepsAlarm(q)'
  BY DEF AlarmKept
<1>0. KeepsAlarm(q)
  BY DEF AlarmKept
<1>1. CASE SaveAlarm(p)
  BY <1>0, <1>1 DEF SaveAlarm, Goto, KeepsAlarm, Inv, TC_TypeOK
<1>2. CASE InstallHandler(p)
  BY <1>0, <1>2 DEF InstallHandler, Goto, KeepsAlarm, Inv, TC_TypeOK
<1>3. CASE SetAlarm(p)
  BY <1>0, <1>3 DEF SetAlarm, Goto, KeepsAlarm, Inv, TC_TypeOK
<1>4. CASE CancelAlarm(p)
  BY <1>0, <1>4 DEF CancelAlarm, Goto, KeepsAlarm, Inv, TC_TypeOK
<1>5. CASE RestoreHandler(p)
  BY <1>0, <1>5 DEF RestoreHandler, Goto, KeepsAlarm, Inv, TC_TypeOK
<1>6. CASE RestoreAlarm(p)
  BY <1>0, <1>6 DEF RestoreAlarm, Goto, Return, KeepsAlarm, Inv, TC_TypeOK
<1>7. CASE Signal(p)
  <2>1. CASE action[p] = "client"
    BY <1>0, <1>7, <2>1 DEF Signal, KeepsAlarm, Inv, TC_TypeOK, AlarmInv
  <2>2. CASE action[p] = "onalarm"
    BY <1>0, <1>7, <2>2 DEF Signal, KeepsAlarm, Inv, TC_TypeOK, AlarmInv
  <2> QED
    BY <2>1, <2>2 DEF Inv, TC_TypeOK
<1>8. CASE ClientAlarm(p)
  BY <1>0, <1>8 DEF ClientAlarm, KeepsAlarm, Inv, TC_TypeOK
<1> QED
  BY <1>1, <1>2, <1>3, <1>4, <1>5, <1>6, <1>7, <1>8

\* A call that succeeds leaves the alarm of the client running, whoever has the
\* lock, whatever else is called, and wherever signals fall.
THEOREM AlarmSurvives == TC_Spec => []SuccessKeepsAlarm
<1>1. TC_Init => AlarmKept
  BY DEF TC_Init, AlarmKept, KeepsAlarm
<1>2. Inv /\ AlarmKept /\ [TC_Next]_tc_vars => AlarmKept'
  <2> SUFFICES ASSUME Inv, AlarmKept, [TC_Next]_tc_vars PROVE AlarmKept'
    OBVIOUS
  <2>1. CASE UNCHANGED tc_vars
    BY <2>1 DEF tc_vars, AlarmKept, KeepsAlarm
  <2>2. CASE TC_Next
    <3> PICK p \in Procs :
          \/ \E f \in Fns : Call(p, f)
          \/ Step(p)
          \/ GetLock(p) \/ ConvertLock(p) \/ LockFails(p) \/ GetLine(p)
          \/ Signal(p)
          \/ UnLock(p)
          \/ ClientAlarm(p)
      BY <2>2 DEF TC_Next
    <3> QED
      BY LockStepKeepsAlarm, AlarmStepKeepsAlarm DEF Step
  <2> QED
    BY <2>1, <2>2
<1>3. AlarmKept => SuccessKeepsAlarm
  BY DEF AlarmKept, KeepsAlarm, SuccessKeepsAlarm
<1> QED
  BY <1>1, <1>2, <1>3, Inductive, PTL DEF TC_Spec
=============================================================================
