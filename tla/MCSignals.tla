------------------------------ MODULE MCSignals ------------------------------
(***************************************************************************)
(* Instances for TLC of what libjr does with SIGALRM: functions that share *)
(* one alarm, and calls that give up after some seconds.  A process uses   *)
(* one of the two, so a behaviour works on one of them, its subject, and   *)
(* the other stays as it begins; each has the fairness of its module.      *)
(***************************************************************************)
EXTENDS AsyncFn, TimedCall

VARIABLE subject

signal_vars == <<subject, vars, tc_vars>>

\* What functions share an alarm with begins in several ways only for them.
SignalInit ==
  /\ subject \in {"functions", "calls"}
  /\ Init /\ TC_Init
  /\ subject # "functions" => disposition = "default" /\ alarm = 0

OfFunctions(step) == subject = "functions" /\ step /\ UNCHANGED <<subject, tc_vars>>
OfCalls(step)     == subject = "calls" /\ step /\ UNCHANGED <<subject, vars>>

SignalNext == OfFunctions(Next) \/ OfCalls(TC_Next)

SignalSpec ==
  /\ SignalInit /\ [][SignalNext]_signal_vars
  /\ WF_signal_vars(OfFunctions(Tick)) /\ WF_signal_vars(OfFunctions(Deliver))
  /\ \A p \in Procs : WF_signal_vars(OfCalls(Step(p))) /\ WF_signal_vars(OfCalls(Signal(p)))
=============================================================================
