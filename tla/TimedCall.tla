----------------------------- MODULE TimedCall -----------------------------
(***************************************************************************)
(* Calls that give up after some seconds: jr_FileDescReadLock and          *)
(* jr_FileDescWriteLock (fd_lock.c), jr_FileDescTimedFlock (timelock.c)    *)
(* and jr_Timed_fgets (timedio.c) of libjr/syscalls.                       *)
(*                                                                         *)
(* Several processes share one locked file.  Each of these functions takes *)
(* over SIGALRM and the alarm of its process, blocks in flock or fgets,    *)
(* and is torn out of it by a siglongjmp of the signal handler.  The       *)
(* signal may come between any two of its statements.                      *)
(***************************************************************************)
EXTENDS Integers, FiniteSets

CONSTANTS Procs,     (* the processes                                       *)
          Fns,       (* the functions they call                             *)
          Clients    (* the processes that use alarm () themselves          *)

Locks == {"ReadLock", "WriteLock", "TimedFlockR", "TimedFlockW"}

ASSUME TimedCallAssumption == Fns \subseteq Locks \cup {"fgets"} /\ Clients \subseteq Procs

VARIABLES pc,        (* the statement p is at                               *)
          fn,        (* the function p is in                                *)
          alarms,    (* whose alarm runs in p: "none", "client", "ours"     *)
          action,    (* what SIGALRM does in p: "client", "onalarm"         *)
          saved,     (* savealarm of p: "none" or "client"                  *)
          result,    (* of the last call of p                               *)
          holds,     (* the lock the kernel has for p: "none", "SH", "EX"   *)
          told,      (* what p was told it may do: "none", "read", "write"  *)
          had,       (* history: the client's alarm ran when p called, and
                        has not gone off since                              *)
          stray      (* history: our alarm went off in the client's handler *)

tc_vars == <<pc, fn, alarms, action, saved, result, holds, told, had, stray>>

\* What the caller means to do with the file.
Purpose(f) == IF f \in {"ReadLock", "TimedFlockR"} THEN "read" ELSE "write"

\* Mutant: a write lock is a shared lock.
KindShared(f) == "SH"

\* LOCK_SH or LOCK_EX.
Kind(f) == IF Purpose(f) = "read" THEN "SH" ELSE "EX"

\* flock: a shared lock admits other shared locks, an exclusive lock nothing.
Compatible(p, kind) ==
  \A q \in Procs \ {p} : holds[q] = "none" \/ (holds[q] = "SH" /\ kind = "SH")

TC_Init ==
  /\ pc = [p \in Procs |-> "idle"]
  /\ fn = [p \in Procs |-> "none"]
  /\ alarms = [p \in Procs |-> "none"]
  /\ action = [p \in Procs |-> "client"]
  /\ saved = [p \in Procs |-> "none"]
  /\ result = [p \in Procs |-> "none"]
  /\ holds = [p \in Procs |-> "none"]
  /\ told = [p \in Procs |-> "none"]
  /\ had = [p \in Procs |-> FALSE]
  /\ stray = FALSE

Goto(p, here, there) == pc[p] = here /\ pc' = [pc EXCEPT ![p] = there]

Return(p, r) ==
  /\ result' = [result EXCEPT ![p] = r]
  /\ told' = IF fn[p] \in Locks /\ r = "ok" THEN [told EXCEPT ![p] = Purpose(fn[p])] ELSE told

\* A process that was told it has a lock gives it back before it asks again.
Call(p, f) ==
  /\ Goto(p, "idle", IF f \in {"TimedFlockR", "TimedFlockW"} THEN "try" ELSE "enter")
  /\ f \in Locks => told[p] = "none"
  /\ fn' = [fn EXCEPT ![p] = f]
  /\ result' = [result EXCEPT ![p] = "none"]
  /\ had' = [had EXCEPT ![p] = alarms[p] = "client"]
  /\ saved' = [saved EXCEPT ![p] = "none"]
  /\ UNCHANGED <<alarms, action, holds, told, stray>>

\* A time_out of zero, and the first attempt of jr_FileDescTimedFlock: LOCK_NB.
\* flock drops a lock p still has before it tries another; it may also fail for
\* another reason, which jr_FileDescTimedFlock takes for a lock that is not free.
TryLock(p) ==
  /\ pc[p] = "try" \/ (pc[p] = "enter" /\ fn[p] \in {"ReadLock", "WriteLock"})
  /\ \E outcome \in {IF Compatible(p, Kind(fn[p])) THEN "ok" ELSE "timeout", "error"} :
       /\ holds' = [holds EXCEPT ![p] = CASE outcome = "ok" -> Kind(fn[p])
                                          [] outcome = "timeout" -> "none"
                                          [] OTHER -> @]
       /\ \/ /\ pc' = [pc EXCEPT ![p] = "idle"]
             /\ Return(p, IF outcome = "error" /\ fn[p] \in {"TimedFlockR", "TimedFlockW"}
                          THEN "timeout" ELSE outcome)
          \/ /\ fn[p] \in {"TimedFlockR", "TimedFlockW"} /\ outcome # "ok"
             /\ pc' = [pc EXCEPT ![p] = "enter"]
             /\ UNCHANGED <<result, told>>
  /\ UNCHANGED <<fn, alarms, action, saved, had, stray>>

\* sigsetjmp; savealarm = alarm (0).
SaveAlarm(p) ==
  /\ Goto(p, "enter", "install")
  /\ saved' = [saved EXCEPT ![p] = alarms[p]]
  /\ alarms' = [alarms EXCEPT ![p] = "none"]
  /\ UNCHANGED <<fn, action, result, holds, told, had, stray>>

InstallHandler(p) ==
  /\ Goto(p, "install", "arm")
  /\ action' = [action EXCEPT ![p] = "onalarm"]
  /\ UNCHANGED <<fn, alarms, saved, result, holds, told, had, stray>>

\* Mutant: the call goes on without an alarm.
SetAlarmNot(p) ==
  /\ Goto(p, "arm", "wait")
  /\ UNCHANGED <<fn, alarms, action, saved, result, holds, told, had, stray>>

\* alarm (time_out); jr_FileDescTimedFlock assigns savealarm once more.
SetAlarm(p) ==
  /\ Goto(p, "arm", "wait")
  /\ alarms' = [alarms EXCEPT ![p] = "ours"]
  /\ saved' = IF fn[p] \in {"TimedFlockR", "TimedFlockW"}
              THEN [saved EXCEPT ![p] = alarms[p]] ELSE saved
  /\ UNCHANGED <<fn, action, result, holds, told, had, stray>>

\* flock blocks until the lock is free; a process that still has a lock gives
\* it up while it waits for one of another kind.
GetLock(p) ==
  /\ fn[p] \in Locks
  /\ Goto(p, "wait", "got")
  /\ Compatible(p, Kind(fn[p]))
  /\ holds' = [holds EXCEPT ![p] = Kind(fn[p])]
  /\ result' = [result EXCEPT ![p] = "ok"]
  /\ UNCHANGED <<fn, alarms, action, saved, told, had, stray>>

ConvertLock(p) ==
  /\ fn[p] \in Locks /\ pc[p] = "wait" /\ holds[p] # "none"
  /\ ~Compatible(p, Kind(fn[p]))
  /\ holds' = [holds EXCEPT ![p] = "none"]
  /\ UNCHANGED <<pc, fn, alarms, action, saved, result, told, had, stray>>

\* flock fails; jr_FileDescTimedFlock does not tell this from a time-out.
LockFails(p) ==
  /\ fn[p] \in Locks
  /\ Goto(p, "wait", "got")
  /\ result' = [result EXCEPT ![p] =
                  IF fn[p] \in {"ReadLock", "WriteLock"} THEN "error" ELSE "timeout"]
  /\ UNCHANGED <<fn, alarms, action, saved, holds, told, had, stray>>

\* fgets returns a line, or the end of the input.
GetLine(p) ==
  /\ fn[p] = "fgets"
  /\ Goto(p, "wait", "got")
  /\ \E r \in {"ok", "error"} : result' = [result EXCEPT ![p] = r]
  /\ UNCHANGED <<fn, alarms, action, saved, holds, told, had, stray>>

\* Mutant: the handler is restored while our alarm runs.
CancelAlarmLate(p) ==
  /\ Goto(p, "got", "restore")
  /\ UNCHANGED <<fn, alarms, action, saved, result, holds, told, had, stray>>

\* alarm (0); sigaction (SIGALRM, old_action); alarm (savealarm).
CancelAlarm(p) ==
  /\ Goto(p, "got", "restore")
  /\ alarms' = [alarms EXCEPT ![p] = "none"]
  /\ UNCHANGED <<fn, action, saved, result, holds, told, had, stray>>

RestoreHandler(p) ==
  /\ Goto(p, "restore", "rearm")
  /\ action' = [action EXCEPT ![p] = "client"]
  /\ UNCHANGED <<fn, alarms, saved, result, holds, told, had, stray>>

\* Mutant: the client's alarm is not set again.
RestoreAlarmNot(p) ==
  /\ Goto(p, "rearm", "idle")
  /\ Return(p, result[p])
  /\ UNCHANGED <<fn, alarms, action, saved, holds, had, stray>>

RestoreAlarm(p) ==
  /\ Goto(p, "rearm", "idle")
  /\ alarms' = [alarms EXCEPT ![p] = saved[p]]
  /\ Return(p, result[p])
  /\ UNCHANGED <<fn, action, saved, holds, had, stray>>

\* SIGALRM.  onalarm jumps back to sigsetjmp: savealarm was assigned after it and
\* is not volatile, so its value is the assigned or the initial one.
Signal(p) ==
  /\ alarms[p] # "none"
  /\ alarms' = [alarms EXCEPT ![p] = "none"]
  /\ had' = IF alarms[p] = "client" THEN [had EXCEPT ![p] = FALSE] ELSE had
  /\ \/ /\ action[p] = "client"
        /\ stray' = (stray \/ alarms[p] = "ours")
        /\ UNCHANGED <<pc, saved, result>>
     \/ /\ action[p] = "onalarm"
        /\ pc' = [pc EXCEPT ![p] = "got"]
        /\ result' = [result EXCEPT ![p] = "timeout"]
        /\ \E v \in {saved[p], "none"} : saved' = [saved EXCEPT ![p] = v]
        /\ UNCHANGED stray
  /\ UNCHANGED <<fn, action, holds, told>>

\* jr_FileDescUnLock, jr_FileDescTimedFlock (fd, "u").
UnLock(p) ==
  /\ pc[p] = "idle" /\ told[p] # "none"
  /\ holds' = [holds EXCEPT ![p] = "none"]
  /\ told' = [told EXCEPT ![p] = "none"]
  /\ UNCHANGED <<pc, fn, alarms, action, saved, result, had, stray>>

\* The client sets an alarm of its own.
ClientAlarm(p) ==
  /\ pc[p] = "idle" /\ alarms[p] = "none" /\ p \in Clients
  /\ alarms' = [alarms EXCEPT ![p] = "client"]
  /\ had' = [had EXCEPT ![p] = FALSE]
  /\ UNCHANGED <<pc, fn, action, saved, result, holds, told, stray>>

\* The steps of the code inside a call, flock and fgets excepted.
Step(p) ==
  \/ TryLock(p) \/ SaveAlarm(p) \/ InstallHandler(p) \/ SetAlarm(p)
  \/ CancelAlarm(p) \/ RestoreHandler(p) \/ RestoreAlarm(p)

TC_Next ==
  \E p \in Procs :
    \/ \E f \in Fns : Call(p, f)
    \/ Step(p)
    \/ GetLock(p) \/ ConvertLock(p) \/ LockFails(p) \/ GetLine(p)
    \/ Signal(p)
    \/ UnLock(p)
    \/ ClientAlarm(p)

\* The code runs on, and an alarm that was set goes off.
TC_Spec ==
  TC_Init /\ [][TC_Next]_tc_vars /\ \A p \in Procs : WF_tc_vars(Step(p)) /\ WF_tc_vars(Signal(p))

----------------------------------------------------------------------------
(* Properties.                                                             *)

InCall == {"install", "arm", "wait", "got", "restore", "rearm"}

\* The type invariant; the alarm that a call saves is never one of its own.
TC_TypeOK ==
  /\ pc \in [Procs -> InCall \cup {"idle", "try", "enter"}]
  /\ fn \in [Procs -> Locks \cup {"fgets", "none"}]
  /\ alarms \in [Procs -> {"none", "client", "ours"}]
  /\ action \in [Procs -> {"client", "onalarm"}]
  /\ saved \in [Procs -> {"none", "client"}]
  /\ result \in [Procs -> {"none", "ok", "timeout", "error"}]
  /\ holds \in [Procs -> {"none", "SH", "EX"}]
  /\ told \in [Procs -> {"none", "read", "write"}]
  /\ had \in [Procs -> BOOLEAN]
  /\ stray \in BOOLEAN

\* Two processes that were told they have the lock, one of them for writing,
\* never exist, whatever time-outs, retries and conversions happened before.
ExclusiveUse ==
  \A p, q \in Procs : p # q /\ told[p] = "write" => told[q] = "none"

\* The alarm of a call never goes off in the client's handler, and never jumps
\* into a call that has returned.
AlarmStaysInside ==
  /\ ~stray
  /\ \A p \in Procs : pc[p] \notin InCall => action[p] = "client" /\ alarms[p] # "ours"

\* A call that succeeds leaves the alarm of the client running
\* (jr_FileDescReadLock, jr_FileDescWriteLock, jr_Timed_fgets).
SuccessKeepsAlarm ==
  \A p \in Procs :
    /\ pc[p] = "idle" /\ result[p] = "ok" /\ had[p]
    /\ fn[p] \in {"ReadLock", "WriteLock", "fgets"}
    => alarms[p] = "client"

\* A call returns, whoever holds the lock and for how long.
CallsReturn == \A p \in Procs : pc[p] # "idle" ~> pc[p] = "idle"

----------------------------------------------------------------------------
(* A statement of comments that does not hold.                             *)

\* "setting the jump, if we can't get the lock" and "we timed out": a caller that
\* is told of a time-out does not have the lock.
TimedOutWithoutLock ==
  \A p \in Procs : pc[p] = "idle" /\ result[p] = "timeout" => holds[p] = "none"
=============================================================================
